--------------------------------- MODULE Cat ---------------------------------
(***************************************************************************)
(* The CAT of cat.h / cat.cc: a list of descriptors, written one after the *)
(* other into sections.  writeSection is a state machine whose context     *)
(* "run" outlives the call: a descriptor fetched but not fitting in one    *)
(* section is pending when the next is written.                            *)
(***************************************************************************)
EXTENDS PsiTable

CONSTANTS
  DescLens,      \* lengths of the descriptors the application adds
  MaxDescs       \* bound: descriptors in the table

ASSUME CatArgs == /\ DescLens \subseteq DescLength
                  /\ MaxDescs \in Nat

VARIABLES
  descriptors,   \* the DescList, each descriptor given by its length()
  run            \* the mutable Context kept across calls of writeSection

vars == << psiVars, descriptors, run >>

BASE_LENGTH == 5
MAX_SEC_LEN == 1024
D_BIT == 0

\* d and d_iter are positions in descriptors; d = 0 is nullptr.
Context == [op_state |-> "INIT", d |-> 0, d_iter |-> 1]

Init == /\ PsiInit(BASE_LENGTH, MAX_SEC_LEN)
        /\ descriptors = << >>
        /\ run = Context

addDesc(d_len) ==
  /\ state = "IDLE" /\ Len(descriptors) < MaxDescs
  /\ incLength(d_len)
  /\ descriptors' = Append(descriptors, d_len)
  /\ UNCHANGED << attributes, driver, run >>

-----------------------------------------------------------------------------
(* writeSection, one action per case.                                      *)

\* INIT falls through to WRITE_HEAD.
WriteHead ==
  /\ state = "WRITE_SEC" /\ run.op_state \in {"INIT", "WRITE_HEAD"}
  /\ IF lengthFits(cur, HEADER_LEN)
     THEN /\ WriteSecContinue(writeSectionHeader(cur, D_BIT), BASE_LENGTH)
          /\ run' = [run EXCEPT
               !.d_iter = IF run.op_state = "INIT" THEN 1 ELSE @,
               !.op_state = IF run.d = 0 THEN "GET_DESC" ELSE "WRITE_DESC"]
     ELSE Abort /\ UNCHANGED run
  /\ UNCHANGED << attributes, length, descriptors >>

\* Would the next descriptor take the section past its data?
TooLongEarly(d_len) == sec_bytes + d_len >= getMaxDataLen    \* mutant
TooLong(d_len) == sec_bytes + d_len > getMaxDataLen

\* What the context is when descriptor i is fetched and has to wait.
PendingDropped(i) == [op_state |-> "WRITE_HEAD", d |-> 0, d_iter |-> i + 1]  \* mutant
PendingPeeked(i) == [op_state |-> "WRITE_HEAD", d |-> 0, d_iter |-> i]       \* mutant
Pending(i) == [op_state |-> "WRITE_HEAD", d |-> i, d_iter |-> i + 1]

\* The next descriptor does not fit: keep it pending and ask for a section.
GetDescFull ==
  /\ state = "WRITE_SEC" /\ run.op_state = "GET_DESC"
  /\ run.d_iter <= Len(descriptors)
  /\ TooLong(descriptors[run.d_iter])
  /\ run' = Pending(run.d_iter)
  /\ WriteSecReturn(FALSE, cur, sec_bytes, D_BIT)
  /\ UNCHANGED << attributes, length, descriptors >>

GetDescFits ==
  /\ state = "WRITE_SEC" /\ run.op_state = "GET_DESC"
  /\ run.d_iter <= Len(descriptors)
  /\ ~TooLong(descriptors[run.d_iter])
  /\ run' = [op_state |-> "WRITE_DESC", d |-> run.d_iter, d_iter |-> run.d_iter + 1]
  /\ UNCHANGED << psiVars, descriptors >>

GetDescEnd ==
  /\ state = "WRITE_SEC" /\ run.op_state = "GET_DESC"
  /\ run.d_iter > Len(descriptors)
  /\ run' = Context
  /\ WriteSecReturn(TRUE, cur, sec_bytes, D_BIT)
  /\ UNCHANGED << attributes, length, descriptors >>

\* A descriptor pending from the last section is written with no check.
WriteDesc ==
  /\ state = "WRITE_SEC" /\ run.op_state = "WRITE_DESC"
  /\ LET d_len == descriptors[run.d] IN
       IF lengthFits(cur, d_len)
       THEN /\ WriteSecContinue(put(cur, run.d, d_len), (sec_bytes + d_len) % 65536)
            /\ run' = [run EXCEPT !.op_state = "GET_DESC"]
       ELSE Abort /\ UNCHANGED run
  /\ UNCHANGED << attributes, length, descriptors >>

writeSection == WriteHead \/ GetDescFull \/ GetDescFits \/ GetDescEnd \/ WriteDesc

-----------------------------------------------------------------------------

Api == \/ (Configure \/ buildSections) /\ UNCHANGED << descriptors, run >>
       \/ \E d_len \in DescLens : addDesc(d_len)

\* A build in progress runs to its end before the application goes on.
BuildStep == \/ (MallocSec \/ EndTable) /\ UNCHANGED << descriptors, run >>
             \/ writeSection

Next == Api \/ BuildStep

Spec == Init /\ [][Next]_vars

FairSpec == Spec /\ WF_vars(BuildStep)

-----------------------------------------------------------------------------
(* Properties.                                                             *)

TypeOK ==
  /\ PsiTypeOK
  /\ stream \in Seq(Sections(Nat))
  /\ descriptors \in Seq(DescLength)
  /\ run \in [op_state : {"INIT", "WRITE_HEAD", "GET_DESC", "WRITE_DESC"},
              d : 0 .. Len(descriptors), d_iter : 1 .. Len(descriptors) + 1]

\* No descriptor is lost, duplicated or moved by the splitting.
InOrder == InOrderUpTo(Len(descriptors))

\* What a section of the present size can carry after the header and the CRC.
Room == max_section_length - 3 - CRC_LEN - BASE_LENGTH

TooSmall == Room < 0 \/ \E i \in DOMAIN descriptors : descriptors[i] > Room

\* A build dies in an assert exactly when some descriptor cannot fit in a
\* section of its own (or the section cannot even hold header and CRC): the
\* unchecked write of a pending descriptor is safe otherwise, and no build
\* gets away with one that is too long.
BuildFailsIffTooSmall ==
  [][state # "IDLE" => /\ state' = "ABORTED" => TooSmall
                       /\ state' = "IDLE" => ~TooSmall]_vars

\* A build ends: the sections it opens are finitely many.
BuildEnds == [](state = "MALLOC_SEC" => <>(state \in {"IDLE", "ABORTED"}))

==============================================================================
