-------------------------------- MODULE MCPat ---------------------------------
(* The PAT on small sections, and preloaded with more programs than sections *)
(* of one program each can be numbered.                                      *)
EXTENDS Pat

Promise == INSTANCE SectionedTable WITH
  Overhead <- 3 + BASE_LENGTH + CRC_LEN,
  entries <- [i \in 1 .. program_list |-> BASE_LEN],
  out <- Shown,
  failed <- state = "ABORTED"

\* The PAT implements the promise of a sectioned table.
KeepsPromise == Promise!Spec

-----------------------------------------------------------------------------
\* After setMaxSectionLen(16) and MaxPrograms calls of addProgram: a section
\* has room for one program.
Preloaded ==
  /\ PsiInit(BASE_LENGTH + BASE_LEN * MaxPrograms, 16)
  /\ program_list = MaxPrograms
  /\ run = Context

PreloadedSpec == Preloaded /\ [][Next]_vars
==============================================================================
