--------------------------------- MODULE Pat ---------------------------------
(***************************************************************************)
(* The PAT of pat.h / pat.cc: a list of (program number, pid) pairs of 4   *)
(* bytes each.  No property tells one pair from another, so the list is    *)
(* its length and a program is its position in it.                         *)
(***************************************************************************)
EXTENDS PsiTable

CONSTANT MaxPrograms     \* bound: programs in the table

ASSUME PatArgs == MaxPrograms \in Nat

VARIABLES
  program_list,          \* how many programs it holds
  run                    \* the mutable Context kept across calls of writeSection

vars == << psiVars, program_list, run >>

BASE_LENGTH == 5
MAX_SEC_LEN == 1024
D_BIT == 0
BASE_LEN == 4            \* Program::BASE_LEN

\* p and p_iter are positions in program_list; p = 0 is nullptr.
Context == [op_state |-> "INIT", p |-> 0, p_iter |-> 1]

\* What run is when a build is over.
RestartStale == [op_state |-> "INIT", p |-> program_list, p_iter |-> 1]   \* mutant
Restart == Context

Init == /\ PsiInit(BASE_LENGTH, MAX_SEC_LEN)
        /\ program_list = 0
        /\ run = Context

addProgram ==
  /\ state = "IDLE" /\ program_list < MaxPrograms
  /\ incLength(BASE_LEN)
  /\ program_list' = program_list + 1
  /\ UNCHANGED << attributes, driver, run >>

-----------------------------------------------------------------------------
(* writeSection, one action per case.                                      *)

\* INIT falls through to WRITE_HEAD.
WriteHead ==
  /\ state = "WRITE_SEC" /\ run.op_state \in {"INIT", "WRITE_HEAD"}
  /\ IF lengthFits(cur, HEADER_LEN)
     THEN /\ WriteSecContinue(writeSectionHeader(cur, D_BIT), BASE_LENGTH)
          /\ run' = [run EXCEPT
               !.p_iter = IF run.op_state = "INIT" THEN 1 ELSE @,
               !.op_state = IF run.p = 0 THEN "GET_PROGRAM" ELSE "WRITE_PROGRAM"]
     ELSE Abort /\ UNCHANGED run
  /\ UNCHANGED << attributes, length, program_list >>

\* Does one more program exceed the capacity?
ExceedsByOneLess == sec_bytes + BASE_LEN - 1 > getMaxDataLen     \* mutant
Exceeds == sec_bytes + BASE_LEN > getMaxDataLen

\* It does: the program is pending, and another section is asked for.
GetProgramFull ==
  /\ state = "WRITE_SEC" /\ run.op_state = "GET_PROGRAM"
  /\ run.p_iter <= program_list
  /\ Exceeds
  /\ run' = [op_state |-> "WRITE_HEAD", p |-> run.p_iter, p_iter |-> run.p_iter + 1]
  /\ WriteSecReturn(FALSE, cur, sec_bytes, D_BIT)
  /\ UNCHANGED << attributes, length, program_list >>

GetProgramFits ==
  /\ state = "WRITE_SEC" /\ run.op_state = "GET_PROGRAM"
  /\ run.p_iter <= program_list
  /\ ~Exceeds
  /\ run' = [op_state |-> "WRITE_PROGRAM", p |-> run.p_iter, p_iter |-> run.p_iter + 1]
  /\ UNCHANGED << psiVars, program_list >>

GetProgramEnd ==
  /\ state = "WRITE_SEC" /\ run.op_state = "GET_PROGRAM"
  /\ run.p_iter > program_list
  /\ run' = Restart
  /\ WriteSecReturn(TRUE, cur, sec_bytes, D_BIT)
  /\ UNCHANGED << attributes, length, program_list >>

WriteProgram ==
  /\ state = "WRITE_SEC" /\ run.op_state = "WRITE_PROGRAM"
  /\ IF lengthFits(cur, BASE_LEN)
     THEN /\ WriteSecContinue(put(cur, run.p, BASE_LEN), (sec_bytes + BASE_LEN) % 65536)
          /\ run' = [run EXCEPT !.op_state = "GET_PROGRAM"]
     ELSE Abort /\ UNCHANGED run
  /\ UNCHANGED << attributes, length, program_list >>

writeSection == \/ WriteHead
                \/ GetProgramFull \/ GetProgramFits \/ GetProgramEnd
                \/ WriteProgram

-----------------------------------------------------------------------------

Api == \/ (Configure \/ buildSections) /\ UNCHANGED << program_list, run >>
       \/ addProgram

\* A build in progress runs to its end before the application goes on.
BuildStep == \/ (MallocSec \/ EndTable) /\ UNCHANGED << program_list, run >>
             \/ writeSection

Next == Api \/ BuildStep

Spec == Init /\ [][Next]_vars

-----------------------------------------------------------------------------
(* Properties.                                                             *)

TypeOK ==
  /\ PsiTypeOK
  /\ stream \in Seq(Sections(Nat))
  /\ program_list \in 0 .. MaxPrograms
  /\ run \in [op_state : {"INIT", "WRITE_HEAD", "GET_PROGRAM", "WRITE_PROGRAM"},
              p : 0 .. program_list, p_iter : 1 .. program_list + 1]

\* However often the table is built, and however it grew or changed its section
\* length in between, the programs of a build are all its programs, in order.
InOrder == InOrderUpTo(program_list)

\* The table refuses what would not fit in the 256 sections an 8-bit section
\* number can count (the limit table.h says MAX_TABLE_LEN should express).
AtMost256Sections == Len(stream) - first + 1 <= 256
==============================================================================
