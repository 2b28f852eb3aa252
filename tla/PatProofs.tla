------------------------------ MODULE PatProofs -------------------------------
(***************************************************************************)
(* Theorems about the PAT, for any number of programs, every section       *)
(* length and any number of builds.  writeSection is the machine of        *)
(* PsiTableProofs, its entries the programs, of 4 bytes each; the          *)
(* inductive invariant is the machine's.                                   *)
(***************************************************************************)
EXTENDS MCPat, PsiTableProofs

\* The lengths of the programs.
lens == [i \in 1 .. program_list |-> BASE_LEN]

\* The Context as PsiTableProofs has it.
ctx == [op |-> IF run.op_state = "GET_PROGRAM" THEN "GET"
               ELSE IF run.op_state = "WRITE_PROGRAM" THEN "WRITE" ELSE run.op_state,
        x |-> run.p, iter |-> run.p_iter]

PatTypes ==
  /\ program_list \in 0 .. MaxPrograms
  /\ run \in [op_state : {"INIT", "WRITE_HEAD", "GET_PROGRAM", "WRITE_PROGRAM"},
              p : Nat, p_iter : Nat]

IInv ==
  /\ PatTypes
  /\ \E L, r : L \in Seq(Nat) /\ L = lens /\ r = ctx /\ ListInv(L, r, D_BIT)

-----------------------------------------------------------------------------
\* The lengths of n programs, and of one more.
LEMMA Lengths ==
  ASSUME NEW n \in Nat, NEW L, L = [i \in 1 .. n |-> BASE_LEN]
  PROVE  /\ L \in Seq(Nat) /\ Len(L) = n /\ DOMAIN L = 1 .. n
         /\ \A i \in 1 .. n : L[i] = BASE_LEN
         /\ Append(L, BASE_LEN) = [i \in 1 .. n + 1 |-> BASE_LEN]
  <1>1. BASE_LEN \in Nat
    BY DEF BASE_LEN
  <1>2. L \in Seq(Nat) /\ Len(L) = n /\ \A i \in 1 .. n : L[i] = BASE_LEN
    BY <1>1
  <1>3. Append(L, BASE_LEN) = [i \in 1 .. n + 1 |-> BASE_LEN]
    <2>1. /\ Append(L, BASE_LEN) \in Seq(Nat) /\ Len(Append(L, BASE_LEN)) = n + 1
          /\ \A i \in 1 .. n + 1 : Append(L, BASE_LEN)[i] = BASE_LEN
      BY <1>1, <1>2
    <2> QED
      BY <1>1, <2>1
  <1> QED
    BY <1>2, <1>3

\* The same of the programs of the table.
LEMMA PatLengths ==
  ASSUME PatTypes, NEW L, L = lens
  PROVE  /\ L \in Seq(Nat) /\ Len(L) = program_list /\ program_list \in Nat
         /\ \A i \in 1 .. program_list : L[i] = BASE_LEN
         /\ Append(L, BASE_LEN) = [i \in 1 .. program_list + 1 |-> BASE_LEN]
  <1>1. PICK n \in Nat : n = program_list
    BY PatArgs DEF PatTypes
  <1>2. L = [i \in 1 .. n |-> BASE_LEN]
    BY <1>1 DEF lens
  <1> QED
    BY <1>1, <1>2, Lengths

\* D_BIT is a bit, and what writeSection counts of the header is all but 3 bytes.
LEMMA PatNumbers == D_BIT \in {0, 1} /\ BASE_LENGTH = HEADER_LEN - 3 /\ BASE_LEN \in Nat
  BY DEF D_BIT, BASE_LENGTH, HEADER_LEN, BASE_LEN

\* What there is to show of the invariant after a step.
LEMMA KeepIInv ==
  ASSUME PatTypes', NEW L \in Seq(Nat), NEW r, L = lens', r = ctx',
         ListInv(L, r, D_BIT)'
  PROVE  IInv'
  BY DEF IInv

\* The invariant holds of a table just constructed, with an empty stream.
LEMMA InitIInv == Init => IInv
  <1> SUFFICES ASSUME Init PROVE IInv
    OBVIOUS
  <1>1. program_list = 0 /\ run = Context
    BY DEF Init
  <1>2. lens = << >> /\ << >> \in Seq(Nat)
    BY <1>1 DEF lens
  <1>3. PICK L \in Seq(Nat) : L = lens /\ L = << >>
    BY <1>2
  <1>4. BASE_LENGTH \in ui16 /\ MAX_SEC_LEN \in ui16
    BY Ui16 DEF BASE_LENGTH, MAX_SEC_LEN
  <1>5. ListInv(L, Fresh, D_BIT)
    BY <1>3, <1>4, InitList DEF Init
  <1>6. ctx = Fresh /\ PatTypes
    BY <1>1, PatArgs DEF ctx, Context, Fresh, PatTypes
  <1> QED
    BY <1>3, <1>5, <1>6 DEF IInv

\* The application's calls.
LEMMA ApiIInv == IInv /\ Api => IInv'
  <1> SUFFICES ASSUME IInv, Api PROVE IInv'
    OBVIOUS
  <1>1. PICK L, r : L \in Seq(Nat) /\ L = lens /\ r = ctx /\ ListInv(L, r, D_BIT)
    BY DEF IInv
  <1>2. CASE (Configure \/ buildSections) /\ UNCHANGED << program_list, run >>
    <2>1. ListInv(L, r, D_BIT)'
      BY <1>1, <1>2, ConfigureList, BuildSectionsList
    <2>2. PatTypes' /\ L = lens' /\ r = ctx'
      BY <1>1, <1>2 DEF IInv, PatTypes, ctx, lens
    <2> QED
      BY <1>1, <2>1, <2>2, KeepIInv
  <1>3. CASE addProgram
    <2>1. /\ state = "IDLE" /\ incLength(BASE_LEN) /\ program_list < MaxPrograms
          /\ program_list' = program_list + 1 /\ run' = run
          /\ UNCHANGED << attributes, driver >>
      BY <1>3 DEF addProgram
    <2>2. length' \in ui16
      BY <1>1, <2>1, PatNumbers, IncLength
         DEF ListInv, MachineInv, DriverInv, DriverTypes, PsiTypeOK
    <2>3. PICK K \in Seq(Nat) : K = Append(L, BASE_LEN) /\ Len(L) <= Len(K)
      <3>1. Append(L, BASE_LEN) \in Seq(Nat) /\ Len(L) <= Len(Append(L, BASE_LEN))
        BY <1>1, PatNumbers
      <3> QED
        BY <3>1
    <2>4. ListInv(K, r, D_BIT)'
      BY <1>1, <2>1, <2>2, <2>3, AddList
    <2>5. K = lens'
      BY <1>1, <2>1, <2>3, PatLengths DEF IInv, lens
    <2>6. PatTypes' /\ r = ctx'
      BY <1>1, <2>1, PatArgs DEF IInv, PatTypes, ctx
    <2> QED
      BY <2>4, <2>5, <2>6, KeepIInv
  <1> QED
    BY <1>2, <1>3 DEF Api

\* The cases of writeSection are the machine's.
LEMMA BuildStepMaps ==
  ASSUME PatTypes, BuildStep, NEW L, L = lens, NEW r, r = ctx, ListInv(L, r, D_BIT)
  PROVE  /\ program_list' = program_list /\ PatTypes'
         /\ \E q : q = ctx' /\ ListStep(L, r, q, D_BIT)
  <1>1. PICK q : q = ctx'
    OBVIOUS
  <1>2. run \in [op_state : {"INIT", "WRITE_HEAD", "GET_PROGRAM", "WRITE_PROGRAM"},
                 p : Nat, p_iter : Nat]
    BY DEF PatTypes
  <1>3. /\ Len(L) = program_list /\ program_list \in Nat
        /\ r.op = "WRITE" => L[r.x] = BASE_LEN
        /\ r.iter <= program_list => L[r.iter] = BASE_LEN
    <2>1. /\ Len(L) = program_list /\ program_list \in Nat /\ L \in Seq(Nat)
          /\ \A i \in 1 .. program_list : L[i] = BASE_LEN
      BY PatLengths
    <2>2. r.iter \in 1 .. program_list + 1 /\ (r.op = "WRITE" => r.x \in 1 .. program_list)
      BY <2>1 DEF ListInv, MachineInv, Contexts, RunInv
    <2> QED
      BY <2>1, <2>2
  <1>4. CASE (MallocSec \/ EndTable) /\ UNCHANGED << program_list, run >>
    <2>1. q = r /\ PatTypes'
      BY <1>1, <1>4 DEF ctx, PatTypes
    <2>2. UNCHANGED << attributes, length >>
      BY <1>4 DEF MallocSec, EndTable
    <2> QED
      BY <1>1, <1>4, <2>1, <2>2 DEF ListStep
  <1>5. CASE WriteHead
    <2>1. /\ state = "WRITE_SEC" /\ run.op_state \in {"INIT", "WRITE_HEAD"}
          /\ UNCHANGED << attributes, length, program_list >>
      BY <1>5 DEF WriteHead
    <2>2. r.op = run.op_state /\ r.x = run.p /\ r.iter = run.p_iter
      BY <2>1 DEF ctx
    <2>3. CASE lengthFits(cur, HEADER_LEN)
      <3>1. /\ WriteSecContinue(writeSectionHeader(cur, D_BIT), BASE_LENGTH)
            /\ run' = [run EXCEPT
                 !.p_iter = IF run.op_state = "INIT" THEN 1 ELSE @,
                 !.op_state = IF run.p = 0 THEN "GET_PROGRAM" ELSE "WRITE_PROGRAM"]
        BY <1>5, <2>3 DEF WriteHead
      <3>2. /\ q = [op |-> IF r.x = 0 THEN "GET" ELSE "WRITE", x |-> r.x,
                    iter |-> IF r.op = "INIT" THEN 1 ELSE r.iter]
            /\ PatTypes'
        BY <1>1, <1>2, <2>1, <2>2, <3>1 DEF ctx, PatTypes
      <3>3. PutHead(r, q, D_BIT)
        BY <2>1, <2>2, <2>3, <3>1, <3>2, PatNumbers DEF PutHead
      <3> QED
        BY <1>1, <2>1, <3>2, <3>3 DEF ListStep
    <2>4. CASE ~lengthFits(cur, HEADER_LEN)
      <3>1. Abort /\ run' = run
        BY <1>5, <2>4 DEF WriteHead
      <3>2. q = r /\ PatTypes'
        BY <1>1, <2>1, <3>1 DEF ctx, PatTypes
      <3>3. PutHead(r, q, D_BIT)
        BY <2>1, <2>2, <2>4, <3>1, <3>2 DEF PutHead
      <3> QED
        BY <1>1, <2>1, <3>2, <3>3 DEF ListStep
    <2> QED
      BY <2>3, <2>4
  <1>6. CASE GetProgramFull
    <2>1. /\ run' = [op_state |-> "WRITE_HEAD", p |-> run.p_iter, p_iter |-> run.p_iter + 1]
          /\ UNCHANGED << attributes, length, program_list >>
      BY <1>6 DEF GetProgramFull
    <2>2. /\ run.op_state = "GET_PROGRAM" /\ r.op = "GET" /\ r.iter = run.p_iter
          /\ q = [op |-> "WRITE_HEAD", x |-> r.iter, iter |-> r.iter + 1]
      BY <1>1, <1>6, <2>1 DEF GetProgramFull, ctx
    <2>3. PatTypes'
      BY <1>2, <2>1 DEF PatTypes
    <2>4. L[r.iter] = BASE_LEN
      BY <1>3, <1>6, <2>2 DEF GetProgramFull
    <2>5. LeaveFull(L, r, q, D_BIT)
      BY <1>3, <1>6, <2>2, <2>4 DEF GetProgramFull, LeaveFull, Exceeds, TakesTooMuch
    <2> QED
      BY <1>1, <2>1, <2>3, <2>5 DEF ListStep
  <1>7. CASE GetProgramFits
    <2>1. /\ run' = [op_state |-> "WRITE_PROGRAM", p |-> run.p_iter, p_iter |-> run.p_iter + 1]
          /\ UNCHANGED << attributes, length, driver, program_list >>
      BY <1>7 DEF GetProgramFits, psiVars
    <2>2. /\ run.op_state = "GET_PROGRAM" /\ r.op = "GET" /\ r.iter = run.p_iter
          /\ q = [op |-> "WRITE", x |-> r.iter, iter |-> r.iter + 1]
      BY <1>1, <1>7, <2>1 DEF GetProgramFits, ctx
    <2>3. PatTypes'
      BY <1>2, <2>1 DEF PatTypes
    <2>4. L[r.iter] = BASE_LEN
      BY <1>3, <1>7, <2>2 DEF GetProgramFits
    <2>5. Fetch(L, r, q)
      BY <1>3, <1>7, <2>1, <2>2, <2>4 DEF GetProgramFits, Fetch, Exceeds, TakesTooMuch
    <2> QED
      BY <1>1, <2>1, <2>3, <2>5 DEF ListStep
  <1>8. CASE GetProgramEnd
    <2>1. run' = Context /\ UNCHANGED << attributes, length, program_list >>
      BY <1>8 DEF GetProgramEnd, Restart
    <2>2. r.op = "GET" /\ r.iter = run.p_iter /\ q = Fresh
      BY <1>1, <1>8, <2>1 DEF GetProgramEnd, Context, Fresh, ctx
    <2>3. LeaveDone(L, r, q, D_BIT)
      BY <1>3, <1>8, <2>2 DEF GetProgramEnd, LeaveDone
    <2> QED
      BY <1>1, <2>1, <2>3 DEF ListStep, PatTypes, Context
  <1>9. CASE WriteProgram
    <2>1. /\ state = "WRITE_SEC" /\ run.op_state = "WRITE_PROGRAM"
          /\ UNCHANGED << attributes, length, program_list >>
      BY <1>9 DEF WriteProgram
    <2>2. r.op = "WRITE" /\ r.x = run.p /\ r.iter = run.p_iter
      BY <2>1 DEF ctx
    <2>3. CASE lengthFits(cur, BASE_LEN)
      <3>1. /\ run' = [run EXCEPT !.op_state = "GET_PROGRAM"]
            /\ WriteSecContinue(put(cur, r.x, BASE_LEN), (sec_bytes + BASE_LEN) % 65536)
        BY <1>9, <2>2, <2>3 DEF WriteProgram
      <3>2. q = [op |-> "GET", x |-> r.x, iter |-> r.iter] /\ PatTypes'
        BY <1>1, <1>2, <2>1, <2>2, <3>1 DEF ctx, PatTypes
      <3>3. PutEntry(L, r, q)
        BY <1>3, <2>1, <2>2, <2>3, <3>1, <3>2 DEF PutEntry
      <3> QED
        BY <1>1, <2>1, <3>2, <3>3 DEF ListStep
    <2>4. CASE ~lengthFits(cur, BASE_LEN)
      <3>1. Abort /\ run' = run
        BY <1>9, <2>2, <2>4 DEF WriteProgram
      <3>2. q = r /\ PatTypes'
        BY <1>1, <2>1, <3>1 DEF ctx, PatTypes
      <3>3. PutEntry(L, r, q)
        BY <1>3, <2>1, <2>2, <2>4, <3>1, <3>2 DEF PutEntry
      <3> QED
        BY <1>1, <2>1, <3>2, <3>3 DEF ListStep
    <2> QED
      BY <2>3, <2>4
  <1> QED
    BY <1>4, <1>5, <1>6, <1>7, <1>8, <1>9 DEF BuildStep, writeSection

\* Every step of the application or of a build preserves the invariant.
LEMMA StepIInv == IInv /\ [Next]_vars => IInv'
  <1> SUFFICES ASSUME IInv, [Next]_vars PROVE IInv'
    OBVIOUS
  <1>1. PICK L, r : L \in Seq(Nat) /\ L = lens /\ r = ctx /\ ListInv(L, r, D_BIT)
    BY DEF IInv
  <1>2. CASE Api
    BY <1>2, ApiIInv
  <1>3. CASE BuildStep
    <2>1. PICK q : q = ctx' /\ ListStep(L, r, q, D_BIT)
      BY <1>1, <1>3, BuildStepMaps DEF IInv
    <2>2. program_list' = program_list /\ PatTypes'
      BY <1>1, <1>3, BuildStepMaps DEF IInv
    <2>3. ListInv(L, q, D_BIT)'
      BY <1>1, <2>1, PatNumbers, StepList
    <2>4. L = lens'
      BY <1>1, <2>2 DEF lens
    <2> QED
      BY <1>1, <2>1, <2>2, <2>3, <2>4, KeepIInv
  <1>4. CASE UNCHANGED vars
    <2>1. ListInv(L, r, D_BIT)'
      BY <1>1, <1>4, SameList DEF vars
    <2>2. PatTypes' /\ L = lens' /\ r = ctx'
      BY <1>1, <1>4 DEF vars, IInv, PatTypes, ctx, lens
    <2> QED
      BY <1>1, <2>1, <2>2, KeepIInv
  <1> QED
    BY <1>2, <1>3, <1>4 DEF Next

\* The invariant holds in every behaviour, whatever the constants.
THEOREM Invariance == Spec => []IInv
  BY InitIInv, StepIInv, PTL DEF Spec

-----------------------------------------------------------------------------
\* Every variable of the PAT keeps its type: in particular no byte count, length
\* field or section number of a section in the stream ever leaves its width.
THEOREM TypeCorrect == Spec => []TypeOK
  <1>1. IInv => TypeOK
    <2> SUFFICES ASSUME IInv PROVE TypeOK
      OBVIOUS
    <2>1. PICK L, r : L \in Seq(Nat) /\ L = lens /\ r = ctx /\ ListInv(L, r, D_BIT)
      BY DEF IInv
    <2>2. run.p \in 0 .. program_list /\ run.p_iter \in 1 .. program_list + 1
      BY <2>1, PatLengths DEF IInv, ListInv, MachineInv, Contexts, ctx
    <2>3. PsiTypeOK /\ stream \in Seq(Sections(Nat))
      BY <2>1 DEF ListInv, MachineInv, DriverInv, DriverTypes
    <2> QED
      BY <2>2, <2>3 DEF TypeOK, IInv, PatTypes
  <1> QED
    BY <1>1, Invariance, PTL

\* The CRC of every section in the stream is that of its present bytes, through
\* any number of later builds into the same stream.
THEOREM CrcStaysCurrent == Spec => []CrcCurrent
  <1>1. IInv => CrcCurrent
    BY DriverCrc DEF IInv, ListInv, MachineInv
  <1> QED
    BY <1>1, Invariance, PTL

\* For every section length up to the 4096 bytes a 12-bit length can describe,
\* the section_length of a finished section says where the section ends.
THEOREM SectionLengthCorrect == Spec => []SectionLengthCoversSection
  <1>1. IInv => SectionLengthCoversSection
    BY PatNumbers, DriverSectionLength DEF IInv, ListInv, MachineInv
  <1> QED
    BY <1>1, Invariance, PTL

\* The sections of a build are numbered from 0 and know the last, when there are
\* no more of them than an 8-bit number counts: for the table itself refuses no
\* program for the sections it would take (pat_wrap shows what happens then).
THEOREM NumbersCorrect == MaxSections <= 256 => (Spec => []SectionsNumbered)
  <1> SUFFICES ASSUME MaxSections <= 256 PROVE Spec => []SectionsNumbered
    OBVIOUS
  <1>1. IInv => SectionsNumbered
    BY DriverNumbers DEF IInv, ListInv, MachineInv
  <1> QED
    BY <1>1, Invariance, PTL

\* However often the table is built, and however it grew or changed its section
\* length in between, the sections of a build hold all its programs in the order
\* they were added: none lost, none twice, none moved.
THEOREM ProgramsInOrder == Spec => []InOrder
  <1>1. IInv => InOrder
    BY ListInOrder, PatLengths DEF IInv, InOrder
  <1> QED
    BY <1>1, Invariance, PTL

-----------------------------------------------------------------------------
\* The words of the promise are those of the packing.
LEMMA SamePromise ==
  /\ \A L, room, secs : GreedyPacking(L, room, secs) <=> Promise!GreedyPacking(L, room, secs)
  /\ \A secs : Numbered(secs) <=> Promise!Numbered(secs)
  /\ \A t, s : Promise!Continues(t, s) <=> Len(s) <= Len(t) /\ SubSeq(t, 1, Len(s)) = s
  <1>1. \A L, room, secs : GreedyPacking(L, room, secs) <=> Promise!GreedyPacking(L, room, secs)
    BY DEF GreedyPacking, Promise!GreedyPacking, Bytes, Promise!Bytes, Before,
       Promise!Before
  <1>2. \A secs : Numbered(secs) <=> Promise!Numbered(secs)
    BY DEF Numbered, Promise!Numbered
  <1>3. \A t, s : Promise!Continues(t, s) <=> Len(s) <= Len(t) /\ SubSeq(t, 1, Len(s)) = s
    BY DEF Promise!Continues
  <1> QED
    BY <1>1, <1>2, <1>3

\* The overhead of a section is its header and its CRC.
LEMMA PromiseMeans ==
  ASSUME IInv, NEW L \in Seq(Nat), L = lens
  PROVE  /\ Promise!Room = max_section_length - (HEADER_LEN + CRC_LEN)
         /\ Promise!TooSmall <=> ~Adequate(L)
  <1>1. max_section_length \in Int
    BY Ui16 DEF IInv, ListInv, MachineInv, DriverInv, DriverTypes, PsiTypeOK
  <1>2. /\ Promise!Room = max_section_length - (HEADER_LEN + CRC_LEN)
        /\ Promise!Room < 0 <=> ~(HEADER_LEN + CRC_LEN <= max_section_length)
        /\ \A l \in Nat : l > Promise!Room
                           <=> ~(HEADER_LEN + l + CRC_LEN <= max_section_length)
    BY <1>1 DEF Promise!Room, HEADER_LEN, CRC_LEN, BASE_LENGTH
  <1>3. \A k \in DOMAIN L : L[k] \in Nat
    OBVIOUS
  <1>4. Promise!TooSmall <=> Promise!Room < 0 \/ \E i \in DOMAIN L : L[i] > Promise!Room
    BY DEF Promise!TooSmall, lens
  <1> QED
    BY <1>2, <1>3, <1>4 DEF Adequate

\* A step of a build, as the machine's, with what the invariant says of it.
LEMMA BuildStepFacts ==
  ASSUME IInv, BuildStep
  PROVE  /\ UNCHANGED << program_list, max_section_length >>
         /\ state # "IDLE" /\ state # "ABORTED"
         /\ state' = "ABORTED" => Abort /\ Promise!TooSmall
         /\ state' = "IDLE" => ~Promise!TooSmall
         /\ state' # "IDLE" => Shown' = Shown
  <1>1. PICK L, r : L \in Seq(Nat) /\ L = lens /\ r = ctx /\ ListInv(L, r, D_BIT)
    BY DEF IInv
  <1>2. PICK q : ListStep(L, r, q, D_BIT)
    BY <1>1, BuildStepMaps DEF IInv
  <1>3. UNCHANGED << program_list, max_section_length >>
    BY <1>1, <1>2, BuildStepMaps DEF IInv, ListStep, attributes
  <1>4. /\ state # "IDLE" /\ state # "ABORTED"
        /\ state' = "ABORTED" => Abort /\ ~Adequate(L)
        /\ state' = "IDLE" => Adequate(L)
    BY <1>1, <1>2, ListFails
  <1>5. state' # "IDLE" => Shown' = Shown
    BY <1>1, <1>2, PatNumbers, ListHides
  <1> QED
    BY <1>1, <1>3, <1>4, <1>5, PromiseMeans

\* A new table has shown nothing.
LEMMA InitMaps == Init => Promise!Init
  <1> SUFFICES ASSUME Init PROVE Promise!Init
    OBVIOUS
  <1>1. lens = << >> /\ Visible = 0 /\ state = "IDLE"
    BY DEF Init, PsiInit, Visible, lens
  <1>2. Shown = << >>
    BY <1>1 DEF Shown
  <1> QED
    BY <1>1, <1>2 DEF Promise!Init, lens

\* What the application does between builds edits the table.
LEMMA ApiMaps ==
  ASSUME IInv, Api
  PROVE  Promise!Edit \/ UNCHANGED << lens, max_section_length, Shown, state = "ABORTED" >>
  <1>1. PICK L \in Seq(Nat) : L = lens /\ ListInv(L, ctx, D_BIT)
    BY DEF IInv
  <1>2. Promise!Continues(lens, lens)
    BY <1>1, SamePromise
  <1>3. CASE addProgram
    <2>1. /\ program_list' = program_list + 1 /\ state = "IDLE" /\ state' = state
          /\ stream' = stream /\ first' = first
      BY <1>3 DEF addProgram, driver
    <2>2. lens' = Append(L, BASE_LEN)
      BY <1>1, <2>1, PatLengths DEF IInv, lens
    <2>3. /\ Len(L) <= Len(Append(L, BASE_LEN))
          /\ SubSeq(Append(L, BASE_LEN), 1, Len(L)) = L
      BY PatNumbers
    <2>4. Promise!Continues(lens', lens)
      BY <1>1, <2>2, <2>3, SamePromise, Zenon
    <2>5. Shown' = Shown
      BY <2>1 DEF Shown, Visible
    <2> QED
      BY <2>1, <2>4, <2>5 DEF Promise!Edit, lens
  <1>4. CASE Configure /\ UNCHANGED << program_list, run >>
    BY <1>2, <1>4, ConfigureShown, ConfigureFrame DEF Promise!Edit, lens
  <1>5. CASE buildSections /\ UNCHANGED << program_list, run >>
    <2>1. Shown' = Shown
      BY <1>1, <1>5, BuildSectionsShown DEF ListInv, MachineInv, DriverInv
    <2> QED
      BY <1>5, <2>1 DEF buildSections, attributes, lens
  <1> QED
    BY <1>3, <1>4, <1>5 DEF Api

\* The steps of a build do not show until the last, which shows them as one.
LEMMA BuildStepPromise ==
  ASSUME MaxSections <= 256, IInv, BuildStep
  PROVE  [Promise!Build \/ Promise!Die]_(Promise!vars)
  <1>1. PICK L, r : L \in Seq(Nat) /\ L = lens /\ r = ctx /\ ListInv(L, r, D_BIT)
    BY DEF IInv
  <1>2. PICK q : ListStep(L, r, q, D_BIT)
    BY <1>1, BuildStepMaps DEF IInv
  <1>3. CASE state' = "ABORTED"
    BY <1>1, <1>3, BuildStepFacts, PromiseMeans DEF Promise!Die
  <1>4. CASE state' = "IDLE"
    <2>1. /\ Len(Shown') > Len(Shown) /\ Len(Shown) <= Len(Shown')
          /\ SubSeq(Shown', 1, Len(Shown)) = Shown
          /\ \E secs : /\ secs = SubSeq(Shown', Len(Shown) + 1, Len(Shown'))
                       /\ GreedyPacking(L, max_section_length - (HEADER_LEN + CRC_LEN), secs)
                       /\ Numbered(secs)
      BY <1>1, <1>2, <1>4, ListShows
    <2> QED
      BY <1>1, <1>4, <2>1, BuildStepFacts, SamePromise, PromiseMeans DEF Promise!Build, lens
  <1>5. CASE state' # "ABORTED" /\ state' # "IDLE"
    BY <1>5, BuildStepFacts DEF Promise!vars
  <1> QED
    BY <1>3, <1>4, <1>5

\* For any number of programs and every section length, the PAT is the promise of
\* a sectioned table: a build, one case of writeSection at a time, shows the
\* application the one greedy packing of its programs, numbered from 0, or dies
\* because a section has no room for a program; for no more than the 256 sections
\* an 8-bit number can tell apart.
THEOREM RefinesPromise == MaxSections <= 256 => (Spec => KeepsPromise)
  <1> SUFFICES ASSUME MaxSections <= 256 PROVE Spec => KeepsPromise
    OBVIOUS
  <1>1. IInv /\ [Next]_vars => [Promise!Next]_(Promise!vars)
    <2> SUFFICES ASSUME IInv, [Next]_vars PROVE [Promise!Next]_(Promise!vars)
      OBVIOUS
    <2>1. CASE Api
      BY <2>1, ApiMaps DEF Promise!Next, Promise!vars, lens
    <2>2. CASE BuildStep
      BY <2>2, BuildStepPromise DEF Promise!Next
    <2>3. CASE UNCHANGED vars
      BY <2>3 DEF vars, psiVars, driver, attributes, Shown, Visible, Promise!vars
    <2> QED
      BY <2>1, <2>2, <2>3 DEF Next
  <1> QED
    BY <1>1, Invariance, InitMaps, PTL DEF KeepsPromise, Promise!Spec, Spec
==============================================================================
