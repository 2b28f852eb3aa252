------------------------------ MODULE CatProofs -------------------------------
(***************************************************************************)
(* Theorems about the CAT, for every set of descriptor lengths, every      *)
(* section length and any number of builds.  writeSection is the machine   *)
(* of PsiTableProofs, its entries the descriptors; the inductive invariant *)
(* is the machine's.                                                       *)
(***************************************************************************)
EXTENDS MCCat, PsiTableProofs

\* The Context as PsiTableProofs has it.
ctx == [op |-> IF run.op_state = "GET_DESC" THEN "GET"
               ELSE IF run.op_state = "WRITE_DESC" THEN "WRITE" ELSE run.op_state,
        x |-> run.d, iter |-> run.d_iter]

CatTypes ==
  /\ descriptors \in Seq(DescLength)
  /\ run \in [op_state : {"INIT", "WRITE_HEAD", "GET_DESC", "WRITE_DESC"},
              d : Nat, d_iter : Nat]

IInv ==
  /\ CatTypes
  /\ \E L, r : L \in Seq(Nat) /\ L = descriptors /\ r = ctx /\ ListInv(L, r, D_BIT)

-----------------------------------------------------------------------------
\* The prover sees the descriptor lengths as an opaque set with these members.
LEMMA DescLengths == \A x : x \in DescLength <=> x \in Int /\ 2 <= x /\ x <= 257
  BY DEF DescLength

\* D_BIT is a bit, and what writeSection counts of the header is all but 3 bytes.
LEMMA CatNumbers == D_BIT \in {0, 1} /\ BASE_LENGTH = HEADER_LEN - 3
  BY DEF D_BIT, BASE_LENGTH, HEADER_LEN

\* What there is to show of the invariant after a step.
LEMMA KeepIInv ==
  ASSUME CatTypes', NEW L \in Seq(Nat), NEW r, L = descriptors', r = ctx',
         ListInv(L, r, D_BIT)'
  PROVE  IInv'
  BY DEF IInv

\* The invariant holds of a table just constructed, with an empty stream.
LEMMA InitIInv == Init => IInv
  <1> SUFFICES ASSUME Init PROVE IInv
    OBVIOUS
  <1>1. descriptors = << >> /\ << >> \in Seq(Nat) /\ run = Context
    BY DEF Init
  <1>2. PICK L \in Seq(Nat) : L = descriptors /\ L = << >>
    BY <1>1
  <1>3. BASE_LENGTH \in ui16 /\ MAX_SEC_LEN \in ui16
    BY Ui16 DEF BASE_LENGTH, MAX_SEC_LEN
  <1>4. ListInv(L, Fresh, D_BIT)
    BY <1>2, <1>3, InitList DEF Init
  <1>5. ctx = Fresh /\ CatTypes
    BY <1>1 DEF ctx, Context, Fresh, CatTypes
  <1> QED
    BY <1>2, <1>4, <1>5 DEF IInv

\* The application's calls.
LEMMA ApiIInv == IInv /\ Api => IInv'
  <1> SUFFICES ASSUME IInv, Api PROVE IInv'
    OBVIOUS
  <1>1. PICK L, r : L \in Seq(Nat) /\ L = descriptors /\ r = ctx /\ ListInv(L, r, D_BIT)
    BY DEF IInv
  <1>2. CASE (Configure \/ buildSections) /\ UNCHANGED << descriptors, run >>
    <2>1. ListInv(L, r, D_BIT)'
      BY <1>1, <1>2, ConfigureList, BuildSectionsList
    <2>2. CatTypes' /\ L = descriptors' /\ r = ctx'
      BY <1>1, <1>2 DEF IInv, CatTypes, ctx
    <2> QED
      BY <1>1, <2>1, <2>2, KeepIInv
  <1>3. ASSUME NEW d_len \in DescLens, addDesc(d_len) PROVE IInv'
    <2>1. /\ state = "IDLE" /\ incLength(d_len)
          /\ descriptors' = Append(descriptors, d_len) /\ run' = run
          /\ UNCHANGED << attributes, driver >>
      BY <1>3 DEF addDesc
    <2>2. d_len \in DescLength /\ d_len \in Nat
      BY CatArgs, DescLengths
    <2>3. length' \in ui16
      BY <1>1, <2>1, <2>2, IncLength
         DEF ListInv, MachineInv, DriverInv, DriverTypes, PsiTypeOK
    <2>4. PICK K \in Seq(Nat) : K = Append(L, d_len) /\ Len(L) <= Len(K)
      <3>1. Append(L, d_len) \in Seq(Nat) /\ Len(L) <= Len(Append(L, d_len))
        BY <1>1, <2>2
      <3> QED
        BY <3>1
    <2>5. ListInv(K, r, D_BIT)'
      BY <1>1, <2>1, <2>3, <2>4, AddList
    <2>6. CatTypes' /\ K = descriptors' /\ r = ctx'
      BY <1>1, <2>1, <2>2, <2>4 DEF IInv, CatTypes, ctx
    <2> QED
      BY <2>5, <2>6, KeepIInv
  <1> QED
    BY <1>2, <1>3 DEF Api

\* The cases of writeSection are the machine's.
LEMMA BuildStepMaps ==
  ASSUME CatTypes, BuildStep, NEW L \in Seq(Nat), L = descriptors, NEW r, r = ctx
  PROVE  /\ descriptors' = descriptors /\ CatTypes'
         /\ \E q : q = ctx' /\ ListStep(L, r, q, D_BIT)
  <1>1. PICK q : q = ctx'
    OBVIOUS
  <1>2. run \in [op_state : {"INIT", "WRITE_HEAD", "GET_DESC", "WRITE_DESC"},
                 d : Nat, d_iter : Nat]
    BY DEF CatTypes
  <1>3. CASE (MallocSec \/ EndTable) /\ UNCHANGED << descriptors, run >>
    <2>1. q = r /\ CatTypes'
      BY <1>1, <1>3 DEF ctx, CatTypes
    <2>2. UNCHANGED << attributes, length >>
      BY <1>3 DEF MallocSec, EndTable
    <2> QED
      BY <1>1, <1>3, <2>1, <2>2 DEF ListStep
  <1>4. CASE WriteHead
    <2>1. /\ state = "WRITE_SEC" /\ run.op_state \in {"INIT", "WRITE_HEAD"}
          /\ UNCHANGED << attributes, length, descriptors >>
      BY <1>4 DEF WriteHead
    <2>2. r.op = run.op_state /\ r.x = run.d /\ r.iter = run.d_iter
      BY <2>1 DEF ctx
    <2>3. CASE lengthFits(cur, HEADER_LEN)
      <3>1. /\ WriteSecContinue(writeSectionHeader(cur, D_BIT), BASE_LENGTH)
            /\ run' = [run EXCEPT
                 !.d_iter = IF run.op_state = "INIT" THEN 1 ELSE @,
                 !.op_state = IF run.d = 0 THEN "GET_DESC" ELSE "WRITE_DESC"]
        BY <1>4, <2>3 DEF WriteHead
      <3>2. /\ q = [op |-> IF r.x = 0 THEN "GET" ELSE "WRITE", x |-> r.x,
                    iter |-> IF r.op = "INIT" THEN 1 ELSE r.iter]
            /\ CatTypes'
        BY <1>1, <1>2, <2>1, <2>2, <3>1 DEF ctx, CatTypes
      <3>3. PutHead(r, q, D_BIT)
        BY <2>1, <2>2, <2>3, <3>1, <3>2, CatNumbers DEF PutHead
      <3> QED
        BY <1>1, <2>1, <3>2, <3>3 DEF ListStep
    <2>4. CASE ~lengthFits(cur, HEADER_LEN)
      <3>1. Abort /\ run' = run
        BY <1>4, <2>4 DEF WriteHead
      <3>2. q = r /\ CatTypes'
        BY <1>1, <2>1, <3>1 DEF ctx, CatTypes
      <3>3. PutHead(r, q, D_BIT)
        BY <2>1, <2>2, <2>4, <3>1, <3>2 DEF PutHead
      <3> QED
        BY <1>1, <2>1, <3>2, <3>3 DEF ListStep
    <2> QED
      BY <2>3, <2>4
  <1>5. CASE GetDescFull
    <2>1. /\ run' = [op_state |-> "WRITE_HEAD", d |-> run.d_iter, d_iter |-> run.d_iter + 1]
          /\ UNCHANGED << attributes, length, descriptors >>
      BY <1>5 DEF GetDescFull, Pending
    <2>2. /\ run.op_state = "GET_DESC" /\ r.op = "GET" /\ r.iter = run.d_iter
          /\ q = [op |-> "WRITE_HEAD", x |-> r.iter, iter |-> r.iter + 1]
      BY <1>1, <1>5, <2>1 DEF GetDescFull, ctx
    <2>3. LeaveFull(L, r, q, D_BIT)
      BY <1>5, <2>2 DEF GetDescFull, LeaveFull, TooLong, TakesTooMuch
    <2> QED
      BY <1>1, <1>2, <2>1, <2>3 DEF ListStep, CatTypes
  <1>6. CASE GetDescFits
    <2>1. /\ run' = [op_state |-> "WRITE_DESC", d |-> run.d_iter, d_iter |-> run.d_iter + 1]
          /\ UNCHANGED << attributes, length, driver, descriptors >>
      BY <1>6 DEF GetDescFits, psiVars
    <2>2. Fetch(L, r, q)
      BY <1>1, <1>6, <2>1 DEF GetDescFits, Fetch, TooLong, TakesTooMuch, ctx
    <2> QED
      BY <1>1, <1>2, <2>1, <2>2 DEF ListStep, CatTypes
  <1>7. CASE GetDescEnd
    <2>1. run' = Context /\ UNCHANGED << attributes, length, descriptors >>
      BY <1>7 DEF GetDescEnd
    <2>2. r.op = "GET" /\ r.iter = run.d_iter /\ q = Fresh
      BY <1>1, <1>7, <2>1 DEF GetDescEnd, Context, Fresh, ctx
    <2>3. LeaveDone(L, r, q, D_BIT)
      BY <1>7, <2>2 DEF GetDescEnd, LeaveDone
    <2> QED
      BY <1>1, <2>1, <2>3 DEF ListStep, CatTypes, Context
  <1>8. CASE WriteDesc
    <2>1. /\ state = "WRITE_SEC" /\ run.op_state = "WRITE_DESC"
          /\ UNCHANGED << attributes, length, descriptors >>
      BY <1>8 DEF WriteDesc
    <2>2. r.op = "WRITE" /\ r.x = run.d /\ r.iter = run.d_iter
      BY <2>1 DEF ctx
    <2>3. CASE lengthFits(cur, L[r.x])
      <3>1. /\ run' = [run EXCEPT !.op_state = "GET_DESC"]
            /\ WriteSecContinue(put(cur, r.x, L[r.x]), (sec_bytes + L[r.x]) % 65536)
        BY <1>8, <2>2, <2>3 DEF WriteDesc
      <3>2. q = [op |-> "GET", x |-> r.x, iter |-> r.iter] /\ CatTypes'
        BY <1>1, <1>2, <2>1, <2>2, <3>1 DEF ctx, CatTypes
      <3>3. PutEntry(L, r, q)
        BY <2>1, <2>2, <2>3, <3>1, <3>2 DEF PutEntry
      <3> QED
        BY <1>1, <2>1, <3>2, <3>3 DEF ListStep
    <2>4. CASE ~lengthFits(cur, L[r.x])
      <3>1. Abort /\ run' = run
        BY <1>8, <2>2, <2>4 DEF WriteDesc
      <3>2. q = r /\ CatTypes'
        BY <1>1, <2>1, <3>1 DEF ctx, CatTypes
      <3>3. PutEntry(L, r, q)
        BY <2>1, <2>2, <2>4, <3>1, <3>2 DEF PutEntry
      <3> QED
        BY <1>1, <2>1, <3>2, <3>3 DEF ListStep
    <2> QED
      BY <2>3, <2>4
  <1> QED
    BY <1>3, <1>4, <1>5, <1>6, <1>7, <1>8 DEF BuildStep, writeSection

\* Every step of the application or of a build preserves the invariant.
LEMMA StepIInv == IInv /\ [Next]_vars => IInv'
  <1> SUFFICES ASSUME IInv, [Next]_vars PROVE IInv'
    OBVIOUS
  <1>1. PICK L, r : L \in Seq(Nat) /\ L = descriptors /\ r = ctx /\ ListInv(L, r, D_BIT)
    BY DEF IInv
  <1>2. CASE Api
    BY <1>2, ApiIInv
  <1>3. CASE BuildStep
    <2>1. PICK q : q = ctx' /\ ListStep(L, r, q, D_BIT)
      BY <1>1, <1>3, BuildStepMaps DEF IInv
    <2>2. descriptors' = descriptors /\ CatTypes'
      BY <1>1, <1>3, BuildStepMaps DEF IInv
    <2>3. ListInv(L, q, D_BIT)'
      BY <1>1, <2>1, CatNumbers, StepList
    <2> QED
      BY <1>1, <2>1, <2>2, <2>3, KeepIInv
  <1>4. CASE UNCHANGED vars
    <2>1. ListInv(L, r, D_BIT)'
      BY <1>1, <1>4, SameList DEF vars
    <2>2. CatTypes' /\ L = descriptors' /\ r = ctx'
      BY <1>1, <1>4 DEF vars, IInv, CatTypes, ctx
    <2> QED
      BY <1>1, <2>1, <2>2, KeepIInv
  <1> QED
    BY <1>2, <1>3, <1>4 DEF Next

\* The invariant holds in every behaviour, whatever the constants.
THEOREM Invariance == Spec => []IInv
  BY InitIInv, StepIInv, PTL DEF Spec

-----------------------------------------------------------------------------
\* Every variable of the CAT keeps its type: in particular no byte count, length
\* field or section number of a section in the stream ever leaves its width.
THEOREM TypeCorrect == Spec => []TypeOK
  <1>1. IInv => TypeOK
    <2> SUFFICES ASSUME IInv PROVE TypeOK
      OBVIOUS
    <2>1. PICK L, r : L \in Seq(Nat) /\ L = descriptors /\ r = ctx /\ ListInv(L, r, D_BIT)
      BY DEF IInv
    <2>2. run.d \in 0 .. Len(descriptors) /\ run.d_iter \in 1 .. Len(descriptors) + 1
      BY <2>1 DEF ListInv, MachineInv, Contexts, ctx
    <2>3. PsiTypeOK /\ stream \in Seq(Sections(Nat))
      BY <2>1 DEF ListInv, MachineInv, DriverInv, DriverTypes
    <2> QED
      BY <2>2, <2>3 DEF TypeOK, IInv, CatTypes
  <1> QED
    BY <1>1, Invariance, PTL

\* The CRC of every section in the stream is that of its present bytes, through
\* any number of later builds into the same stream.
THEOREM CrcStaysCurrent == Spec => []CrcCurrent
  <1>1. IInv => CrcCurrent
    BY DriverCrc DEF IInv, ListInv, MachineInv
  <1> QED
    BY <1>1, Invariance, PTL

\* For every section length up to the 4096 bytes a 12-bit length can describe,
\* the section_length of a finished section says where the section ends.
THEOREM SectionLengthCorrect == Spec => []SectionLengthCoversSection
  <1>1. IInv => SectionLengthCoversSection
    BY CatNumbers, DriverSectionLength DEF IInv, ListInv, MachineInv
  <1> QED
    BY <1>1, Invariance, PTL

\* The sections of a build are numbered from 0 and know the last, when there are
\* no more of them than an 8-bit number counts: for the table itself refuses no
\* descriptor for the sections it would take.
THEOREM NumbersCorrect == MaxSections <= 256 => (Spec => []SectionsNumbered)
  <1> SUFFICES ASSUME MaxSections <= 256 PROVE Spec => []SectionsNumbered
    OBVIOUS
  <1>1. IInv => SectionsNumbered
    BY DriverNumbers DEF IInv, ListInv, MachineInv
  <1> QED
    BY <1>1, Invariance, PTL

\* For all lengths of descriptors and of sections, changed between builds or
\* not, the sections of a build hold the descriptors in the order they were
\* added: none lost, none twice, all of them when writeSection returns true.
THEOREM DescriptorsInOrder == Spec => []InOrder
  <1>1. IInv => InOrder
    BY ListInOrder DEF IInv, InOrder
  <1> QED
    BY <1>1, Invariance, PTL

-----------------------------------------------------------------------------
\* TooSmall as the packing says it.
LEMMA TooSmallMeans ==
  ASSUME IInv, NEW L \in Seq(Nat), L = descriptors
  PROVE  TooSmall <=> ~Adequate(L)
  <1>1. max_section_length \in Int
    BY Ui16 DEF IInv, ListInv, MachineInv, DriverInv, DriverTypes, PsiTypeOK
  <1>2. /\ Room < 0 <=> ~(HEADER_LEN + CRC_LEN <= max_section_length)
        /\ \A l \in Nat : l > Room <=> ~(HEADER_LEN + l + CRC_LEN <= max_section_length)
    BY <1>1 DEF Room, HEADER_LEN, CRC_LEN, BASE_LENGTH
  <1>3. \A k \in DOMAIN L : L[k] \in Nat
    OBVIOUS
  <1> QED
    BY <1>2, <1>3 DEF TooSmall, Adequate

\* A step of a build, as the machine's, with what the invariant says of it.
LEMMA BuildStepFacts ==
  ASSUME IInv, BuildStep
  PROVE  /\ UNCHANGED << descriptors, max_section_length >>
         /\ state # "IDLE" /\ state # "ABORTED"
         /\ state' = "ABORTED" => Abort /\ TooSmall
         /\ state' = "IDLE" => ~TooSmall
         /\ state' # "IDLE" => Shown' = Shown
  <1>1. PICK L, r : L \in Seq(Nat) /\ L = descriptors /\ r = ctx /\ ListInv(L, r, D_BIT)
    BY DEF IInv
  <1>2. PICK q : ListStep(L, r, q, D_BIT)
    BY <1>1, BuildStepMaps DEF IInv
  <1>3. UNCHANGED << descriptors, max_section_length >>
    BY <1>1, <1>2, BuildStepMaps DEF IInv, ListStep, attributes
  <1>4. /\ state # "IDLE" /\ state # "ABORTED"
        /\ state' = "ABORTED" => Abort /\ ~Adequate(L)
        /\ state' = "IDLE" => Adequate(L)
    BY <1>1, <1>2, ListFails
  <1>5. state' # "IDLE" => Shown' = Shown
    BY <1>1, <1>2, CatNumbers, ListHides
  <1> QED
    BY <1>1, <1>3, <1>4, <1>5, TooSmallMeans

\* A build dies in an assert exactly when some descriptor cannot fit in a section
\* of its own: the unchecked write of a pending descriptor, the header and the CRC
\* have room whenever every descriptor has it, and no build gets away with one
\* that is too long.  For any lengths, changed between builds or not.
THEOREM BuildFails == Spec => BuildFailsIffTooSmall
  <1>1. IInv /\ [Next]_vars =>
          [state # "IDLE" => /\ state' = "ABORTED" => TooSmall
                             /\ state' = "IDLE" => ~TooSmall]_vars
    <2> SUFFICES ASSUME IInv, Next, state # "IDLE"
                 PROVE  /\ state' = "ABORTED" => TooSmall
                        /\ state' = "IDLE" => ~TooSmall
      OBVIOUS
    <2>1. BuildStep
      BY ConfigureFrame DEF Next, Api, addDesc, buildSections
    <2> QED
      BY <2>1, BuildStepFacts
  <1> QED
    BY <1>1, Invariance, PTL DEF BuildFailsIffTooSmall, Spec

-----------------------------------------------------------------------------
(* The refinement of the promise.                                          *)

\* A new table has shown nothing.
LEMMA InitMaps == Init => Promise!Init
  <1> SUFFICES ASSUME Init PROVE Promise!Init
    OBVIOUS
  <1>1. descriptors = << >> /\ Visible = 0 /\ state = "IDLE"
    BY DEF Init, PsiInit, Visible
  <1>2. Shown = << >>
    BY <1>1 DEF Shown
  <1> QED
    BY <1>1, <1>2 DEF Promise!Init

\* The words of the promise are those of the packing.
LEMMA SamePromise ==
  /\ \A L, room, secs : GreedyPacking(L, room, secs) <=> Promise!GreedyPacking(L, room, secs)
  /\ \A secs : Numbered(secs) <=> Promise!Numbered(secs)
  /\ \A t, s : Promise!Continues(t, s) <=> Len(s) <= Len(t) /\ SubSeq(t, 1, Len(s)) = s
  <1>1. \A L, room, secs : GreedyPacking(L, room, secs) <=> Promise!GreedyPacking(L, room, secs)
    BY DEF GreedyPacking, Promise!GreedyPacking, Bytes, Promise!Bytes, Before,
       Promise!Before
  <1>2. \A secs : Numbered(secs) <=> Promise!Numbered(secs)
    BY DEF Numbered, Promise!Numbered
  <1>3. \A t, s : Promise!Continues(t, s) <=> Len(s) <= Len(t) /\ SubSeq(t, 1, Len(s)) = s
    BY DEF Promise!Continues
  <1> QED
    BY <1>1, <1>2, <1>3

\* The overhead of a section is its header and its CRC.
LEMMA SameRoom ==
  ASSUME IInv
  PROVE  /\ Promise!Room = max_section_length - (HEADER_LEN + CRC_LEN)
         /\ Promise!TooSmall <=> TooSmall
  <1>1. max_section_length \in Int
    BY Ui16 DEF IInv, ListInv, MachineInv, DriverInv, DriverTypes, PsiTypeOK
  <1>2. Promise!Room = Room /\ Room = max_section_length - (HEADER_LEN + CRC_LEN)
    BY <1>1 DEF Promise!Room, Room, HEADER_LEN, CRC_LEN, BASE_LENGTH
  <1> QED
    BY <1>2 DEF Promise!TooSmall, TooSmall

\* What the application does between builds edits the table.
LEMMA ApiMaps ==
  ASSUME IInv, Api
  PROVE  Promise!Edit \/ UNCHANGED << descriptors, max_section_length, Shown, state = "ABORTED" >>
  <1>1. PICK L \in Seq(Nat) : L = descriptors /\ ListInv(L, ctx, D_BIT)
    BY DEF IInv
  <1>2. Promise!Continues(descriptors, descriptors)
    BY <1>1, SamePromise
  <1>3. ASSUME NEW d_len \in DescLens, addDesc(d_len) PROVE Promise!Edit
    <2>1. d_len \in Nat
      BY CatArgs, DescLengths
    <2>2. /\ descriptors' = Append(L, d_len) /\ state = "IDLE" /\ state' = state
          /\ stream' = stream /\ first' = first
      BY <1>1, <1>3 DEF addDesc, driver
    <2>3. Len(L) <= Len(Append(L, d_len)) /\ SubSeq(Append(L, d_len), 1, Len(L)) = L
      BY <2>1
    <2>4. Promise!Continues(descriptors', descriptors)
      BY <1>1, <2>2, <2>3, SamePromise, Zenon
    <2>5. Shown' = Shown
      BY <2>2 DEF Shown, Visible
    <2> QED
      BY <2>2, <2>4, <2>5 DEF Promise!Edit
  <1>4. CASE Configure /\ UNCHANGED << descriptors, run >>
    BY <1>2, <1>4, ConfigureShown, ConfigureFrame DEF Promise!Edit
  <1>5. CASE buildSections /\ UNCHANGED << descriptors, run >>
    <2>1. Shown' = Shown
      BY <1>1, <1>5, BuildSectionsShown DEF ListInv, MachineInv, DriverInv
    <2> QED
      BY <1>5, <2>1 DEF buildSections, attributes
  <1> QED
    BY <1>3, <1>4, <1>5 DEF Api

\* The steps of a build do not show until the last, which shows them as one.
LEMMA BuildStepPromise ==
  ASSUME MaxSections <= 256, IInv, BuildStep
  PROVE  [Promise!Build \/ Promise!Die]_(Promise!vars)
  <1>1. PICK L, r : L \in Seq(Nat) /\ L = descriptors /\ r = ctx /\ ListInv(L, r, D_BIT)
    BY DEF IInv
  <1>2. PICK q : ListStep(L, r, q, D_BIT)
    BY <1>1, BuildStepMaps DEF IInv
  <1>3. CASE state' = "ABORTED"
    BY <1>3, BuildStepFacts, SameRoom DEF Promise!Die
  <1>4. CASE state' = "IDLE"
    <2>1. /\ Len(Shown') > Len(Shown) /\ Len(Shown) <= Len(Shown')
          /\ SubSeq(Shown', 1, Len(Shown)) = Shown
          /\ \E secs : /\ secs = SubSeq(Shown', Len(Shown) + 1, Len(Shown'))
                       /\ GreedyPacking(L, max_section_length - (HEADER_LEN + CRC_LEN), secs)
                       /\ Numbered(secs)
      BY <1>1, <1>2, <1>4, ListShows
    <2> QED
      BY <1>1, <1>4, <2>1, BuildStepFacts, SamePromise, SameRoom DEF Promise!Build
  <1>5. CASE state' # "ABORTED" /\ state' # "IDLE"
    BY <1>5, BuildStepFacts DEF Promise!vars
  <1> QED
    BY <1>3, <1>4, <1>5

\* For all lengths of descriptors and of sections, the CAT is the promise of a
\* sectioned table: its builds, one case of writeSection at a time, with pending
\* descriptors and numbers written before they are known, show the application
\* the one greedy packing of its descriptors, numbered from 0; for no more than
\* the 256 sections an 8-bit number can tell apart.
THEOREM RefinesPromise == MaxSections <= 256 => (Spec => KeepsPromise)
  <1> SUFFICES ASSUME MaxSections <= 256 PROVE Spec => KeepsPromise
    OBVIOUS
  <1>1. IInv /\ [Next]_vars => [Promise!Next]_(Promise!vars)
    <2> SUFFICES ASSUME IInv, [Next]_vars PROVE [Promise!Next]_(Promise!vars)
      OBVIOUS
    <2>1. CASE Api
      BY <2>1, ApiMaps DEF Promise!Next, Promise!vars
    <2>2. CASE BuildStep
      BY <2>2, BuildStepPromise DEF Promise!Next
    <2>3. CASE UNCHANGED vars
      BY <2>3 DEF vars, psiVars, driver, attributes, Shown, Visible, Promise!vars
    <2> QED
      BY <2>1, <2>2, <2>3 DEF Next
  <1> QED
    BY <1>1, Invariance, InitMaps, PTL DEF KeepsPromise, Promise!Spec, Spec
==============================================================================
