------------------------------ MODULE PmtProofs -------------------------------
(***************************************************************************)
(* Theorems about the PMT, for all lengths of descriptors and sections and *)
(* any number of streams and builds.  A first invariant is of the three    *)
(* machines that share a section: the driver's, the table's with its two   *)
(* loops, and the stream's.  A second one is of the payload they write.    *)
(***************************************************************************)
EXTENDS Pmt, ExtProofs
LOCAL INSTANCE FiniteSetsExt

Kinds == {"pcr_pid", "prog_info_len", "prog_desc", "item", "desc_loop_len", "desc"}

RunStates == {"INIT", "WRITE_HEAD", "GET_PROG_DESC", "WRITE_PROG_DESC",
              "GET_XPORT_STREAM", "WRITE_XPORT_STREAM"}

\* The contexts of a table with np program descriptors and ni streams.
RunSet(np, ni) == [d_done : BOOLEAN, op_state : RunStates, pd : 0 .. np, es : 0 .. ni,
                   pd_iter : 1 .. np + 1, es_iter : 1 .. ni + 1]

\* A program descriptor's position fits in 16 bits since its bytes are in the length.
PmtTypes ==
  /\ prog_desc \in Seq(DescLength) /\ 2 * Len(prog_desc) <= length
  /\ program_info_length \in ui16
  /\ run \in RunSet(Len(prog_desc), Len(items))
  /\ info \in [pos : Nat, len : ui16]
  /\ asked \in Seq(ui16) /\ Len(asked) = Len(items)

\* A section is begun with its header, and written in the states after it.
Control ==
  /\ state \in {"IDLE", "MALLOC_SEC", "END_TABLE"} => run.op_state \in {"INIT", "WRITE_HEAD"}
  /\ state = "WRITE_SEC" =>
       (run.op_state \in {"INIT", "WRITE_HEAD"} <=> cur.data_length = 0)
  /\ run.op_state = "WRITE_PROG_DESC" => run.pd # 0
  /\ run.op_state = "WRITE_XPORT_STREAM" => run.es # 0

\* A stream was refused when the pid asked for, all its bits, was another's pid.
PidInv ==
  /\ \A i \in DOMAIN items : items[i].id = thirteenBits(asked[i])
  /\ CHECK_DUPLICATES =>
       \A i, j \in DOMAIN items : i < j => asked[j] # items[i].id

BaseInv == PmtTypes /\ DriverInv(Entries(Kinds), D_BIT) /\ ExtInv /\ Control /\ PidInv
-----------------------------------------------------------------------------
\* The constants as numbers.
LEMMA PmtNumbers ==
  /\ D_BIT \in {0, 1} /\ BASE_LENGTH = HEADER_LEN + 4 - 3 /\ BASE_LEN = 5
  /\ BASE_LENGTH \in ui16 /\ MAX_SEC_LEN \in ui16 /\ ItemKinds \subseteq Kinds
  BY Ui16 DEF D_BIT, BASE_LENGTH, BASE_LEN, HEADER_LEN, MAX_SEC_LEN, ItemKinds, Kinds

\* A loop's length word has the length in its lower 12 bits.
LEMMA LoopWord ==
  ASSUME NEW n \in Nat
  PROVE  loopLen(n) \in ui16 /\ loopLen(n) = 61440 + (n % LEN_MASK)
  <1>1. PICK m \in 0 .. 4095 : m = n % LEN_MASK
    BY DEF LEN_MASK
  <1>2. PICK v : v = loopLen(n)
    OBVIOUS
  <1>3. v = 61440 + m /\ v = 61440 + (n % LEN_MASK)
    BY <1>1, <1>2 DEF loopLen
  <1>4. v \in Int /\ 0 <= v /\ v < 65536
    BY ONLY <1>3, m \in 0 .. 4095
  <1> QED
    BY <1>2, <1>3, <1>4, Ui16

\* What the parts of the invariant say of a context.
LEMMA RunFields ==
  ASSUME NEW np \in Nat, NEW ni \in Nat, NEW r \in RunSet(np, ni)
  PROVE  /\ r.d_done \in BOOLEAN /\ r.op_state \in RunStates
         /\ r.pd \in 0 .. np /\ r.es \in 0 .. ni
         /\ r.pd_iter \in 1 .. np + 1 /\ r.es_iter \in 1 .. ni + 1
         /\ r = [d_done |-> r.d_done, op_state |-> r.op_state, pd |-> r.pd, es |-> r.es,
                 pd_iter |-> r.pd_iter, es_iter |-> r.es_iter]
  BY DEF RunSet

\* Only the state changes.
LEMMA StateRun ==
  ASSUME NEW np \in Nat, NEW ni \in Nat, NEW r \in RunSet(np, ni), NEW o \in RunStates,
         NEW q, q = [r EXCEPT !.op_state = o]
  PROVE  q \in RunSet(np, ni) /\ q.op_state = o /\ q.pd = r.pd /\ q.es = r.es
  <1>1. q = [d_done |-> r.d_done, op_state |-> o, pd |-> r.pd, es |-> r.es,
             pd_iter |-> r.pd_iter, es_iter |-> r.es_iter]
    BY DEF RunSet
  <1> QED
    BY <1>1, RunFields DEF RunSet

\* What is known of the table in every state.
LEMMA BaseFacts ==
  ASSUME BaseInv
  PROVE  /\ PmtTypes /\ DriverInv(Entries(Kinds), D_BIT) /\ ExtInv /\ Control /\ PidInv
         /\ length \in ui16 /\ length \in Int
         /\ Len(items) \in Nat /\ DOMAIN items = 1 .. Len(items)
         /\ Len(prog_desc) \in Nat /\ DOMAIN prog_desc = 1 .. Len(prog_desc)
         /\ run \in RunSet(Len(prog_desc), Len(items))
  BY Ui16 DEF BaseInv, PmtTypes, DriverInv, DriverTypes, PsiTypeOK, ExtInv

\* writeSection leaves the table as it is, and the pids of the streams.
LEMMA WriteBase ==
  ASSUME BaseInv, UNCHANGED << attributes, length, prog_desc, program_info_length, asked >>,
         DriverInv(Entries(Kinds), D_BIT)', ExtInv', Control',
         Len(items') = Len(items), \A j \in DOMAIN items : items'[j].id = items[j].id,
         run' \in RunSet(Len(prog_desc), Len(items)), info' \in [pos : Nat, len : ui16]
  PROVE  BaseInv'
  <1>1. PmtTypes /\ PidInv /\ DOMAIN items = 1 .. Len(items) /\ Len(items) \in Nat
    BY BaseFacts
  <1>2. PmtTypes'
    BY <1>1 DEF PmtTypes
  <1>3. DOMAIN items' = DOMAIN items
    BY <1>1 DEF ExtInv
  <1>4. PidInv'
    BY <1>1, <1>3 DEF PidInv
  <1> QED
    BY <1>2, <1>4 DEF BaseInv

\* The items stay as they are when no item is written.
LEMMA SameItems ==
  ASSUME BaseInv, UNCHANGED << length, items, desc_loop >>
  PROVE  ExtInv'
  <1>1. ExtInv /\ length \in Int /\ length' = length
    BY BaseFacts
  <1> QED
    BY <1>1, LongerExt

\* The process dies.
LEMMA AbortBase ==
  ASSUME BaseInv, UNCHANGED << attributes, length, prog_desc, program_info_length, asked >>,
         DriverInv(Entries(Kinds), D_BIT)', ExtInv', state' = "ABORTED",
         Len(items') = Len(items), \A j \in DOMAIN items : items'[j].id = items[j].id,
         run' = run, info' \in [pos : Nat, len : ui16]
  PROVE  BaseInv'
  <1>1. Control /\ run \in RunSet(Len(prog_desc), Len(items))
    BY BaseFacts
  <1>2. Control'
    BY <1>1 DEF Control
  <1> QED
    BY <1>1, <1>2, WriteBase

\* An assertion fails in a state of the table's own.
LEMMA TableAborts ==
  ASSUME BaseInv, state = "WRITE_SEC", Abort, UNCHANGED << run, info >>,
         UNCHANGED << attributes, length, prog_desc, program_info_length, asked, extVars >>
  PROVE  BaseInv' /\ state' = "ABORTED"
  <1>1. DriverInv(Entries(Kinds), D_BIT) /\ ExtInv /\ info \in [pos : Nat, len : ui16]
    BY BaseFacts DEF PmtTypes
  <1>2. DriverInv(Entries(Kinds), D_BIT)' /\ ExtInv' /\ state' = "ABORTED" /\ items' = items
    BY <1>1, AbortExt DEF extVars
  <1> QED
    BY <1>1, <1>2, AbortBase

\* A section with something overwritten, or nothing, is as long as it was.
LEMMA SameBytes ==
  ASSUME DriverInv(Entries(Kinds), D_BIT), state = "WRITE_SEC", cur.data_length # 0,
         UNCHANGED << attributes, length >>,
         NEW s \in Sections(Entries(Kinds)), s.size = cur.size, s.crc = cur.crc,
         s.data_length = cur.data_length, s.section_number = cur.section_number,
         WriteSecContinue(s, sec_bytes)
  PROVE  /\ DriverInv(Entries(Kinds), D_BIT)' /\ cur' = s /\ state' = "WRITE_SEC"
         /\ OnlyCur /\ cur'.data_length # 0
  <1>1. /\ DriverInv(Entries(Kinds), D_BIT)' /\ cur' = s /\ state' = "WRITE_SEC"
    <2>1. PICK n : n = sec_bytes
      OBVIOUS
    <2>2. /\ n \in ui16 /\ cur.data_length = n + 3 /\ HEADER_LEN <= cur.data_length
          /\ cur.data_length <= cur.size /\ cur.section_number = cur_sec
      BY <2>1, CountedFacts DEF DriverInv, DriverTypes, PsiTypeOK
    <2>3. WriteSecContinue(s, n)
      BY <2>1
    <2> QED
      BY <2>2, <2>3, ContinueDriver
  <1>2. stream' = ReplaceCur(s) /\ UNCHANGED << first, builds, cur_sec >>
    BY DEF WriteSecContinue
  <1>3. /\ Len(stream') = Len(stream) /\ \A j \in 1 .. Len(stream) - 1 : stream'[j] = stream[j]
    BY <1>2, ReplaceCurFrame
  <1> QED
    BY <1>1, <1>2, <1>3 DEF OnlyCur

\* The section begun: its header, the PCR pid and the length of the first loop.
LEMMA HeadSection ==
  ASSUME DriverInv(Entries(Kinds), D_BIT), state = "WRITE_SEC", cur.data_length = 0,
         lengthFits(cur, HEADER_LEN + 4), UNCHANGED << attributes, length >>,
         NEW x \in Entries(Kinds), NEW y \in Entries(Kinds),
         WriteSecContinue(put(put(writeSectionHeader(cur, D_BIT), x, 2), y, 2), BASE_LENGTH)
  PROVE  /\ DriverInv(Entries(Kinds), D_BIT)' /\ state' = "WRITE_SEC" /\ OnlyCur
         /\ cur'.payload = Append(Append(<< >>, x), y)
         /\ cur'.data_length = HEADER_LEN + 4 /\ cur'.data_length # 0
  <1>1. /\ cur \in Sections(Entries(Kinds)) /\ cur.payload = << >> /\ cur.size \in Nat
        /\ HEADER_LEN + 4 <= cur.size /\ cur.crc = {}
    <2>1. cur.payload = << >>
      BY DEF DriverInv, CurInv, HEADER_LEN
    <2>2. /\ cur \in Sections(Entries(Kinds)) /\ cur.size \in Nat /\ cur.crc = {}
      BY CurFacts
    <2> QED
      BY <2>1, <2>2 DEF lengthFits, HEADER_LEN
  <1>2. PICK h : h = writeSectionHeader(cur, D_BIT)
    OBVIOUS
  <1>3. /\ h \in Sections(Entries(Kinds)) /\ h.size = cur.size
        /\ h.data_length = HEADER_LEN /\ h.payload = << >>
        /\ h.crc = cur.crc /\ h.section_number = cur_sec
    <2>1. length \in ui16 /\ cur_sec \in ui8 /\ version_number \in ui5
      BY DEF DriverInv, DriverTypes, PsiTypeOK
    <2>2. lengthFits(cur, HEADER_LEN) /\ 0 + HEADER_LEN = HEADER_LEN
      BY <1>1 DEF lengthFits, HEADER_LEN
    <2> QED
      BY <1>1, <1>2, <2>1, <2>2, PmtNumbers, HeaderFields
  <1>4. ASSUME NEW u \in Sections(Entries(Kinds)), NEW z \in Entries(Kinds), lengthFits(u, 2),
               NEW v, v = put(u, z, 2)
        PROVE  /\ v \in Sections(Entries(Kinds)) /\ v.size = u.size
               /\ v.data_length = u.data_length + 2 /\ v.payload = Append(u.payload, z)
               /\ v.crc = u.crc /\ v.section_number = u.section_number
    <2>1. PICK P : P = Entries(Kinds)
      OBVIOUS
    <2>2. PICK n \in Nat : n = 2
      OBVIOUS
    <2>3. u.payload \in Seq(P)
      BY <1>4, <2>1, SectionFieldTypes
    <2>4. /\ u \in Sections(P) /\ lengthFits(u, n) /\ Append(u.payload, z) \in Seq(P)
          /\ v = put(u, z, n)
      BY <1>4, <2>1, <2>2, <2>3
    <2>5. /\ v \in Sections(P) /\ v.size = u.size
          /\ v.data_length = u.data_length + n /\ v.payload = Append(u.payload, z)
          /\ v.crc = u.crc /\ v.section_number = u.section_number
      BY ONLY n \in Nat, <2>4, PutFields
    <2> QED
      BY <2>1, <2>2, <2>5
  <1>5. PICK g : g = put(h, x, 2)
    OBVIOUS
  <1>6. /\ g \in Sections(Entries(Kinds)) /\ g.size = cur.size
        /\ g.data_length = HEADER_LEN + 2 /\ g.payload = Append(<< >>, x)
        /\ g.crc = cur.crc /\ g.section_number = cur_sec
    <2>1. lengthFits(h, 2)
      BY <1>1, <1>3 DEF lengthFits, HEADER_LEN
    <2> QED
      BY <1>3, <1>4, <1>5, <2>1
  <1>7. PICK s : s = put(g, y, 2)
    OBVIOUS
  <1>8. /\ s \in Sections(Entries(Kinds)) /\ s.size = cur.size
        /\ s.data_length = HEADER_LEN + 2 + 2 /\ s.payload = Append(Append(<< >>, x), y)
        /\ s.crc = cur.crc /\ s.section_number = cur_sec
    <2>1. lengthFits(g, 2)
      BY <1>1, <1>6 DEF lengthFits, HEADER_LEN
    <2>2. /\ s \in Sections(Entries(Kinds)) /\ s.size = g.size
          /\ s.data_length = g.data_length + 2 /\ s.payload = Append(g.payload, y)
          /\ s.crc = g.crc /\ s.section_number = g.section_number
      <3>1. /\ y \in Entries(Kinds) /\ g \in Sections(Entries(Kinds))
        BY ONLY <1>4, <1>6
      <3>2. /\ put(g, y, 2) \in Sections(Entries(Kinds)) /\ put(g, y, 2).size = g.size
            /\ put(g, y, 2).data_length = g.data_length + 2
            /\ put(g, y, 2).payload = Append(g.payload, y)
            /\ put(g, y, 2).crc = g.crc /\ put(g, y, 2).section_number = g.section_number
        BY <1>4, <3>1, <2>1
      <3> QED
        BY ONLY <1>7, <3>2
    <2> QED
      BY <1>6, <2>2
  <1>9. /\ s.data_length = BASE_LENGTH + 3 /\ HEADER_LEN <= s.data_length
        /\ s.data_length <= s.size /\ s.data_length = HEADER_LEN + 4 /\ s.data_length # 0
    BY <1>1, <1>8, PmtNumbers DEF HEADER_LEN
  <1>10. WriteSecContinue(s, BASE_LENGTH)
    BY <1>2, <1>5, <1>7
  <1>11. DriverInv(Entries(Kinds), D_BIT)' /\ cur' = s /\ state' = "WRITE_SEC"
    BY <1>8, <1>9, <1>10, PmtNumbers, ContinueDriver
  <1>12. stream' = ReplaceCur(s) /\ UNCHANGED << first, builds, cur_sec >>
    BY <1>10 DEF WriteSecContinue
  <1>13. /\ Len(stream') = Len(stream)
         /\ \A i \in 1 .. Len(stream) - 1 : stream'[i] = stream[i]
    BY <1>8, <1>12, ReplaceCurFrame
  <1> QED
    BY <1>8, <1>9, <1>11, <1>12, <1>13 DEF OnlyCur
-----------------------------------------------------------------------------
(* The states of the table's own.                                          *)

\* A section is begun.
LEMMA WriteHeadBase ==
  ASSUME BaseInv, WriteHead
  PROVE  /\ BaseInv'
         /\ \/ state' = "ABORTED"
            \/ /\ state' = "WRITE_SEC" /\ OnlyCur
               /\ cur'.payload = Append(Append(<< >>, Entry("pcr_pid", 0, 0)),
                                        Entry("prog_info_len", 0, 0))
               /\ cur'.data_length = HEADER_LEN + 4 /\ cur'.data_length # 0
               /\ info' = [pos |-> 2, len |-> 0]
               /\ run'.op_state \in {"GET_PROG_DESC", "WRITE_PROG_DESC"}
  <1>1. /\ state = "WRITE_SEC" /\ run.op_state \in {"INIT", "WRITE_HEAD"}
        /\ UNCHANGED << attributes, length, prog_desc, program_info_length, asked, extVars >>
        /\ UNCHANGED << items, desc_loop >>
    BY DEF WriteHead, extVars, table
  <1>2. /\ PmtTypes /\ DriverInv(Entries(Kinds), D_BIT) /\ Control
        /\ run \in RunSet(Len(prog_desc), Len(items))
        /\ Len(items) \in Nat /\ Len(prog_desc) \in Nat
    BY BaseFacts
  <1>3. cur.data_length = 0
    BY <1>1, <1>2 DEF Control
  <1>4. CASE lengthFits(cur, HEADER_LEN + 4)
    <2>1. PICK x, y : x = Entry("pcr_pid", 0, 0) /\ y = Entry("prog_info_len", 0, 0)
      OBVIOUS
    <2>2. x \in Entries(Kinds) /\ y \in Entries(Kinds)
      <3>1. "pcr_pid" \in Kinds /\ "prog_info_len" \in Kinds /\ 0 \in ui16
        BY Ui16 DEF Kinds
      <3> QED
        BY <2>1, <3>1, EntryType
    <2>3. /\ WriteSecContinue(put(put(writeSectionHeader(cur, D_BIT), x, 2), y, 2), BASE_LENGTH)
          /\ info' = [pos |-> 2, len |-> 0]
          /\ run' = [run EXCEPT
               !.op_state = IF run.pd = 0 THEN "GET_PROG_DESC" ELSE "WRITE_PROG_DESC",
               !.pd_iter = IF run.op_state = "INIT" THEN 1 ELSE @,
               !.es_iter = IF run.op_state = "INIT" THEN 1 ELSE @]
      BY <1>4, <2>1 DEF WriteHead
    <2>4. /\ DriverInv(Entries(Kinds), D_BIT)' /\ state' = "WRITE_SEC" /\ OnlyCur
          /\ cur'.payload = Append(Append(<< >>, x), y)
          /\ cur'.data_length = HEADER_LEN + 4 /\ cur'.data_length # 0
      BY <1>1, <1>2, <1>3, <1>4, <2>2, <2>3, HeadSection
    <2>5. /\ run' \in RunSet(Len(prog_desc), Len(items))
          /\ run'.op_state \in {"GET_PROG_DESC", "WRITE_PROG_DESC"}
          /\ run'.op_state = "WRITE_PROG_DESC" => run'.pd # 0
      <3>1. PICK np \in Nat, ni \in Nat : np = Len(prog_desc) /\ ni = Len(items)
        BY <1>2
      <3>5. PICK r \in RunSet(np, ni) : r = run
        BY <1>2, <3>1
      <3>2. /\ run' = [r EXCEPT
                 !.op_state = IF r.pd = 0 THEN "GET_PROG_DESC" ELSE "WRITE_PROG_DESC",
                 !.pd_iter = IF r.op_state = "INIT" THEN 1 ELSE @,
                 !.es_iter = IF r.op_state = "INIT" THEN 1 ELSE @]
        BY <2>3, <3>5
      <3>3. PICK o \in {"GET_PROG_DESC", "WRITE_PROG_DESC"} :
              o = (IF r.pd = 0 THEN "GET_PROG_DESC" ELSE "WRITE_PROG_DESC")
        OBVIOUS
      <3>4. PICK i \in 1 .. np + 1, j \in 1 .. ni + 1 :
              /\ i = (IF r.op_state = "INIT" THEN 1 ELSE r.pd_iter)
              /\ j = (IF r.op_state = "INIT" THEN 1 ELSE r.es_iter)
        <4>1. r.pd_iter \in 1 .. np + 1 /\ r.es_iter \in 1 .. ni + 1
          BY RunFields
        <4> QED
          BY <4>1
      <3>6. run' = [d_done |-> r.d_done, op_state |-> o, pd |-> r.pd, es |-> r.es,
                    pd_iter |-> i, es_iter |-> j]
        BY <3>2, <3>3, <3>4 DEF RunSet
      <3>7. run' \in RunSet(np, ni) /\ run'.op_state = o /\ run'.pd = r.pd
        BY <3>6, RunFields DEF RunSet, RunStates
      <3> QED
        BY <3>1, <3>3, <3>7
    <2>6. Control'
      BY <2>4, <2>5 DEF Control
    <2>7. info' \in [pos : Nat, len : ui16]
      BY <2>3, Ui16
    <2>8. BaseInv'
      BY <1>1, <2>4, <2>5, <2>6, <2>7, SameItems, WriteBase
    <2> QED
      BY <2>1, <2>3, <2>4, <2>5, <2>8
  <1>5. CASE ~lengthFits(cur, HEADER_LEN + 4)
    <2>1. Abort /\ UNCHANGED << run, info >>
      BY <1>5 DEF WriteHead
    <2> QED
      BY <1>1, <2>1, TableAborts
  <1> QED
    BY <1>4, <1>5

\* What is known of the section in the states after its header.
LEMMA HeadedFacts ==
  ASSUME BaseInv, state = "WRITE_SEC", run.op_state \notin {"INIT", "WRITE_HEAD"}
  PROVE  /\ cur.data_length # 0 /\ cur \in Sections(Entries(Kinds))
         /\ cur.payload \in Seq(Entries(Kinds)) /\ cur.data_length \in Nat
  <1>1. DriverInv(Entries(Kinds), D_BIT) /\ Control
    BY BaseFacts
  <1>2. cur.data_length # 0 /\ cur \in Sections(Entries(Kinds)) /\ cur.data_length \in Nat
    BY <1>1, CurFacts DEF Control
  <1> QED
    BY <1>2, SectionFieldTypes

\* The section with the length of its first loop stored.
LEMMA InfoStored ==
  ASSUME BaseInv, cur \in Sections(Entries(Kinds)), NEW s, s = infoStored
  PROVE  /\ s \in Sections(Entries(Kinds)) /\ s.size = cur.size /\ s.crc = cur.crc
         /\ s.data_length = cur.data_length /\ s.section_number = cur.section_number
         /\ s.payload = [cur.payload EXCEPT ![info.pos].n = loopLen(info.len)]
  <1>1. PICK l, w : l = info.pos /\ w = loopLen(info.len)
    OBVIOUS
  <1>2. l \in Nat /\ w \in ui16
    <2>1. info.pos \in Nat /\ info.len \in ui16
      BY BaseFacts DEF PmtTypes
    <2>2. info.len \in Nat
      BY <2>1, Ui16
    <2> QED
      BY <1>1, <2>1, <2>2, LoopWord
  <1>3. s = overwrite(cur, l, w)
    BY <1>1 DEF infoStored
  <1> QED
    BY <1>1, <1>2, <1>3, OverwriteFields

\* writeSection goes on within the section, with no more bytes in it.
LEMMA GoOnBase ==
  ASSUME BaseInv, state = "WRITE_SEC", run.op_state \notin {"INIT", "WRITE_HEAD"},
         UNCHANGED << attributes, length, prog_desc, program_info_length, asked, items, desc_loop >>,
         NEW s \in Sections(Entries(Kinds)), s.size = cur.size, s.crc = cur.crc,
         s.data_length = cur.data_length, s.section_number = cur.section_number,
         WriteSecContinue(s, sec_bytes),
         run' \in RunSet(Len(prog_desc), Len(items)), run'.op_state \notin {"INIT", "WRITE_HEAD"},
         run'.op_state = "WRITE_PROG_DESC" => run'.pd # 0,
         run'.op_state = "WRITE_XPORT_STREAM" => run'.es # 0,
         info' \in [pos : Nat, len : ui16]
  PROVE  BaseInv' /\ cur' = s /\ state' = "WRITE_SEC" /\ OnlyCur
  <1>1. DriverInv(Entries(Kinds), D_BIT) /\ cur.data_length # 0
    BY BaseFacts, HeadedFacts
  <1>2. /\ DriverInv(Entries(Kinds), D_BIT)' /\ cur' = s /\ state' = "WRITE_SEC"
        /\ OnlyCur /\ cur'.data_length # 0
    BY <1>1, SameBytes
  <1>3. Control'
    BY <1>2 DEF Control
  <1>4. ExtInv'
    BY SameItems
  <1> QED
    BY <1>2, <1>3, <1>4, WriteBase

\* It returns.
LEMMA LeaveBase ==
  ASSUME BaseInv, state = "WRITE_SEC", run.op_state \notin {"INIT", "WRITE_HEAD"},
         UNCHANGED << attributes, length, prog_desc, program_info_length, asked >>,
         ExtInv', Len(items') = Len(items), \A j \in DOMAIN items : items'[j].id = items[j].id,
         NEW s \in Sections(Entries(Kinds)), s.size = cur.size, s.crc = cur.crc,
         s.data_length = cur.data_length, s.section_number = cur.section_number,
         NEW done \in BOOLEAN, WriteSecReturn(done, s, sec_bytes, D_BIT), info' = NoInfo,
         run' \in RunSet(Len(prog_desc), Len(items)), run'.op_state \in {"INIT", "WRITE_HEAD"}
  PROVE  BaseInv' /\ state' = (IF done THEN "END_TABLE" ELSE "MALLOC_SEC")
  <1>1. DriverInv(Entries(Kinds), D_BIT) /\ cur.data_length # 0
    BY BaseFacts, HeadedFacts
  <1>2. DriverInv(Entries(Kinds), D_BIT)'
    BY <1>1, PmtNumbers, ReturnDriver
  <1>3. state' = IF done THEN "END_TABLE" ELSE "MALLOC_SEC"
    BY DEF WriteSecReturn
  <1>4. Control'
    BY <1>3 DEF Control
  <1>5. info' \in [pos : Nat, len : ui16]
    BY Ui16 DEF NoInfo
  <1> QED
    BY <1>2, <1>3, <1>4, <1>5, WriteBase

\* The next program descriptor is fetched, or there is none: the length of the
\* loop so far is stored first.
LEMMA GetProgDescBase ==
  ASSUME BaseInv, GetProgDescFull \/ GetProgDescFits \/ NoMoreProgDescs,
         NEW s, s = infoStored
  PROVE  /\ BaseInv' /\ state = "WRITE_SEC" /\ run.op_state = "GET_PROG_DESC"
         /\ s \in Sections(Entries(Kinds)) /\ s.size = cur.size /\ s.crc = cur.crc
         /\ s.data_length = cur.data_length /\ s.section_number = cur.section_number
         /\ s.payload = [cur.payload EXCEPT ![info.pos].n = loopLen(info.len)]
         /\ cur.data_length # 0
         /\ UNCHANGED << attributes, length, prog_desc, program_info_length, asked, items, desc_loop >>
         /\ \/ WriteSecReturn(FALSE, s, sec_bytes, D_BIT) /\ state' = "MALLOC_SEC"
            \/ /\ cur' = s /\ state' = "WRITE_SEC" /\ OnlyCur /\ info' = info
               /\ \/ run'.op_state = "WRITE_PROG_DESC"
                  \/ run'.op_state \in {"GET_XPORT_STREAM", "WRITE_XPORT_STREAM"}
  <1>1. /\ state = "WRITE_SEC" /\ run.op_state = "GET_PROG_DESC"
        /\ UNCHANGED << attributes, length, prog_desc, program_info_length, asked, items, desc_loop >>
    BY DEF GetProgDescFull, GetProgDescFits, NoMoreProgDescs, At, table, extVars
  <1>2. /\ DriverInv(Entries(Kinds), D_BIT) /\ info \in [pos : Nat, len : ui16]
        /\ cur.data_length # 0 /\ cur \in Sections(Entries(Kinds))
    BY <1>1, BaseFacts, HeadedFacts DEF PmtTypes
  <1>3. /\ s \in Sections(Entries(Kinds)) /\ s.size = cur.size /\ s.crc = cur.crc
        /\ s.data_length = cur.data_length /\ s.section_number = cur.section_number
        /\ s.payload = [cur.payload EXCEPT ![info.pos].n = loopLen(info.len)]
    BY <1>2, InfoStored
  <1>4. PICK np \in Nat, ni \in Nat : np = Len(prog_desc) /\ ni = Len(items)
    BY BaseFacts
  <1>5. PICK r \in RunSet(np, ni) : r = run
    BY <1>4, BaseFacts
  <1>6. CASE GetProgDescFull
    <2>1. /\ run' = [run EXCEPT !.op_state = "WRITE_HEAD", !.pd = run.pd_iter, !.pd_iter = @ + 1]
          /\ WriteSecReturn(FALSE, s, sec_bytes, D_BIT) /\ info' = NoInfo /\ run.pd_iter <= Len(prog_desc)
      BY <1>6 DEF GetProgDescFull, Leave, MoreProgDescs
    <2>2. run' = [d_done |-> r.d_done, op_state |-> "WRITE_HEAD", pd |-> r.pd_iter, es |-> r.es,
                  pd_iter |-> r.pd_iter + 1, es_iter |-> r.es_iter]
      BY <1>5, <2>1 DEF RunSet
    <2>3. run' \in RunSet(np, ni) /\ run'.op_state = "WRITE_HEAD" /\ run'.pd # 0
      <3>1. r.pd_iter <= np
        BY <1>4, <1>5, <2>1
      <3>2. r.pd_iter \in 0 .. np /\ r.pd_iter # 0 /\ r.pd_iter + 1 \in 1 .. np + 1
        BY <3>1, RunFields
      <3> QED
        BY <2>2, <3>2, RunFields DEF RunSet, RunStates
    <2>4. PICK done \in BOOLEAN : done = FALSE
      OBVIOUS
    <2>5. BaseInv' /\ state' = (IF done THEN "END_TABLE" ELSE "MALLOC_SEC")
      BY <1>1, <1>3, <1>4, <2>1, <2>2, <2>3, <2>4, SameItems, LeaveBase
    <2> QED
      BY <1>1, <1>2, <1>3, <2>1, <2>4, <2>5
  <1>7. CASE GetProgDescFits
    <2>1. /\ run' = [run EXCEPT !.op_state = "WRITE_PROG_DESC", !.pd = run.pd_iter, !.pd_iter = @ + 1]
          /\ WriteSecContinue(s, sec_bytes) /\ info' = info /\ run.pd_iter <= Len(prog_desc)
      BY <1>7 DEF GetProgDescFits, MoreProgDescs
    <2>2. run' = [d_done |-> r.d_done, op_state |-> "WRITE_PROG_DESC", pd |-> r.pd_iter, es |-> r.es,
                  pd_iter |-> r.pd_iter + 1, es_iter |-> r.es_iter]
      BY <1>5, <2>1 DEF RunSet
    <2>3. run' \in RunSet(np, ni) /\ run'.op_state = "WRITE_PROG_DESC" /\ run'.pd # 0
      <3>1. r.pd_iter <= np
        BY <1>4, <1>5, <2>1
      <3>2. r.pd_iter \in 0 .. np /\ r.pd_iter # 0 /\ r.pd_iter + 1 \in 1 .. np + 1
        BY <3>1, RunFields
      <3> QED
        BY <2>2, <3>2, RunFields DEF RunSet, RunStates
    <2>4. BaseInv' /\ cur' = s /\ state' = "WRITE_SEC" /\ OnlyCur
      BY <1>1, <1>2, <1>3, <1>4, <2>1, <2>2, <2>3, GoOnBase
    <2> QED
      BY <1>1, <1>2, <1>3, <2>1, <2>2, <2>3, <2>4
  <1>8. CASE NoMoreProgDescs
    <2>1. /\ run' = [run EXCEPT !.op_state = streamsNext, !.d_done = TRUE,
                                !.pd = IF run.d_done THEN @ ELSE 0]
          /\ WriteSecContinue(s, sec_bytes) /\ info' = info
      BY <1>8 DEF NoMoreProgDescs
    <2>2. PICK o \in {"GET_XPORT_STREAM", "WRITE_XPORT_STREAM"} :
            o = streamsNext /\ (o = "WRITE_XPORT_STREAM" => r.es # 0)
      BY <1>5 DEF streamsNext
    <2>3. PICK n \in 0 .. np : n = IF r.d_done THEN r.pd ELSE 0
      BY <1>5, RunFields
    <2>4. run' = [d_done |-> TRUE, op_state |-> o, pd |-> n, es |-> r.es,
                  pd_iter |-> r.pd_iter, es_iter |-> r.es_iter]
      BY <1>4, <1>5, <2>1, <2>2, <2>3 DEF RunSet
    <2>5. /\ run' \in RunSet(np, ni) /\ run'.op_state = o
          /\ run'.op_state = "WRITE_XPORT_STREAM" => run'.es # 0
      BY <1>5, <2>2, <2>4, RunFields DEF RunSet, RunStates
    <2>6. BaseInv' /\ cur' = s /\ state' = "WRITE_SEC" /\ OnlyCur
      BY <1>1, <1>2, <1>3, <1>4, <2>1, <2>2, <2>5, GoOnBase
    <2> QED
      BY <1>1, <1>2, <1>3, <2>1, <2>2, <2>5, <2>6
  <1> QED
    BY <1>6, <1>7, <1>8

\* It is written.
LEMMA WriteProgDescBase ==
  ASSUME BaseInv, WriteProgDesc, NEW d, d = run.pd
  PROVE  /\ BaseInv' /\ state = "WRITE_SEC" /\ run.op_state = "WRITE_PROG_DESC"
         /\ UNCHANGED << prog_desc, items, desc_loop >>
         /\ d \in DOMAIN prog_desc /\ d \in ui16 /\ prog_desc[d] \in DescLength
         /\ \/ state' = "ABORTED"
            \/ /\ state' = "WRITE_SEC" /\ OnlyCur
               /\ cur'.payload = Append(cur.payload, Entry("prog_desc", 0, d))
               /\ Entry("prog_desc", 0, d) \in Entries(Kinds)
               /\ cur'.data_length = cur.data_length + prog_desc[d] /\ cur'.data_length # 0
               /\ info' = [pos |-> info.pos, len |-> (info.len + prog_desc[d]) % 65536]
               /\ run'.op_state = "GET_PROG_DESC"
  <1>1. /\ state = "WRITE_SEC" /\ run.op_state = "WRITE_PROG_DESC"
        /\ UNCHANGED << attributes, length, prog_desc, program_info_length, asked, extVars >>
        /\ UNCHANGED << items, desc_loop >>
    BY DEF WriteProgDesc, At, table, extVars
  <1>2. /\ DriverInv(Entries(Kinds), D_BIT) /\ info \in [pos : Nat, len : ui16]
        /\ cur.data_length # 0 /\ prog_desc \in Seq(DescLength)
        /\ 2 * Len(prog_desc) <= length /\ length \in ui16
    BY <1>1, BaseFacts, HeadedFacts DEF PmtTypes
  <1>3. PICK np \in Nat, ni \in Nat : np = Len(prog_desc) /\ ni = Len(items)
    BY BaseFacts
  <1>4. PICK r \in RunSet(np, ni) : r = run
    BY <1>3, BaseFacts
  <1>5. d \in 1 .. np /\ d \in DOMAIN prog_desc /\ d \in ui16
    <2>1. d # 0 /\ d \in 0 .. np
      BY <1>1, <1>3, <1>4, RunFields, BaseFacts DEF Control
    <2>2. d \in 1 .. np
      BY <1>4, <2>1
    <2>3. np < 65536
      BY <1>2, <1>3, <1>4, Ui16
    <2> QED
      BY <1>2, <1>3, <1>4, <2>2, <2>3, Ui16
  <1>6. PICK v : v = prog_desc[d]
    OBVIOUS
  <1>7. v \in DescLength /\ v \in Nat
    <2>1. v \in DescLength
      BY <1>2, <1>5, <1>6
    <2> QED
      BY <2>1, DescLengths
  <1>8. PICK x : x = Entry("prog_desc", 0, d)
    OBVIOUS
  <1>9. x \in Entries(Kinds)
    <2>1. "prog_desc" \in Kinds
      BY DEF Kinds
    <2> QED
      BY <1>5, <1>8, <2>1, EntryType
  <1>10. CASE lengthFits(cur, v)
    <2>1. /\ WriteSecContinue(put(cur, x, v), (sec_bytes + v) % 65536)
          /\ info' = [info EXCEPT !.len = (@ + v) % 65536]
          /\ run' = [run EXCEPT !.op_state = "GET_PROG_DESC"]
      BY <1>6, <1>8, <1>10 DEF WriteProgDesc
    <2>2. /\ DriverInv(Entries(Kinds), D_BIT)' /\ state' = "WRITE_SEC" /\ OnlyCur
          /\ cur'.payload = Append(cur.payload, x) /\ cur'.data_length # 0
          /\ cur'.data_length = cur.data_length + v
      BY <1>1, <1>2, <1>7, <1>9, <1>10, <2>1, PutEntryDriver
    <2>3. PICK o, q : o = "GET_PROG_DESC" /\ q = [r EXCEPT !.op_state = o]
      OBVIOUS
    <2>4. run' = q /\ q \in RunSet(np, ni) /\ q.op_state = o
      BY <1>3, <1>4, <2>1, <2>3, StateRun DEF RunStates
    <2>5. /\ info' = [pos |-> info.pos, len |-> (info.len + v) % 65536]
          /\ info' \in [pos : Nat, len : ui16]
      <3>1. info.len \in Nat
        BY <1>2, Ui16
      <3>2. (info.len + v) % 65536 \in ui16
        <4>1. PICK n \in Nat : n = info.len + v
          BY <1>7, <3>1
        <4>2. n % 65536 \in Int /\ 0 <= n % 65536 /\ n % 65536 < 65536
          OBVIOUS
        <4> QED
          BY <4>1, <4>2, Ui16
      <3> QED
        BY <1>2, <2>1, <3>2
    <2>6. Control'
      BY <2>2, <2>3, <2>4 DEF Control
    <2>7. BaseInv'
      BY <1>1, <1>3, <2>2, <2>4, <2>5, <2>6, SameItems, WriteBase
    <2> QED
      BY <1>1, <1>5, <1>6, <1>7, <1>8, <1>9, <2>2, <2>3, <2>4, <2>5, <2>7
  <1>11. CASE ~lengthFits(cur, v)
    <2>1. Abort /\ UNCHANGED << run, info >>
      BY <1>6, <1>11 DEF WriteProgDesc
    <2>2. BaseInv' /\ state' = "ABORTED"
      BY <1>1, <2>1, TableAborts
    <2> QED
      BY <1>1, <1>5, <1>6, <1>7, <2>2
  <1> QED
    BY <1>10, <1>11

\* The next stream is fetched, or there is none.
LEMMA GetStreamBase ==
  ASSUME BaseInv, GetStreamFull \/ GetStreamFits \/ GetStreamEnd
  PROVE  /\ BaseInv' /\ state = "WRITE_SEC" /\ run.op_state = "GET_XPORT_STREAM"
         /\ cur.data_length # 0
         /\ UNCHANGED << attributes, length, prog_desc, program_info_length, asked, items, desc_loop >>
         /\ \/ \E done \in BOOLEAN : /\ WriteSecReturn(done, cur, sec_bytes, D_BIT)
                                     /\ state' = IF done THEN "END_TABLE" ELSE "MALLOC_SEC"
            \/ /\ UNCHANGED << driver, info >> /\ cur' = cur /\ state' = "WRITE_SEC"
               /\ run'.op_state = "WRITE_XPORT_STREAM"
  <1>1. /\ state = "WRITE_SEC" /\ run.op_state = "GET_XPORT_STREAM"
        /\ UNCHANGED << attributes, length, prog_desc, program_info_length, asked, items, desc_loop >>
    BY DEF GetStreamFull, GetStreamFits, GetStreamEnd, At, table, extVars
  <1>2. /\ DriverInv(Entries(Kinds), D_BIT) /\ info \in [pos : Nat, len : ui16]
        /\ cur.data_length # 0 /\ cur \in Sections(Entries(Kinds)) /\ length \in ui16
    BY <1>1, BaseFacts, HeadedFacts DEF PmtTypes
  <1>3. PICK np \in Nat, ni \in Nat : np = Len(prog_desc) /\ ni = Len(items)
    BY BaseFacts
  <1>4. PICK r \in RunSet(np, ni) : r = run
    BY <1>3, BaseFacts
  <1>5. ASSUME NEW done \in BOOLEAN, Leave(done, cur), run' \in RunSet(np, ni),
               run'.op_state \in {"INIT", "WRITE_HEAD"}
        PROVE  /\ BaseInv' /\ WriteSecReturn(done, cur, sec_bytes, D_BIT)
               /\ state' = IF done THEN "END_TABLE" ELSE "MALLOC_SEC"
    <2>1. PICK s : s = cur
      OBVIOUS
    <2>2. /\ s \in Sections(Entries(Kinds)) /\ s.size = cur.size /\ s.crc = cur.crc
          /\ s.data_length = cur.data_length /\ s.section_number = cur.section_number
          /\ WriteSecReturn(done, s, sec_bytes, D_BIT) /\ info' = NoInfo
      BY <1>2, <1>5, <2>1 DEF Leave
    <2>3. BaseInv' /\ state' = (IF done THEN "END_TABLE" ELSE "MALLOC_SEC")
      BY <1>1, <1>3, <1>5, <2>2, SameItems, LeaveBase
    <2> QED
      BY <2>1, <2>2, <2>3
  <1>6. CASE GetStreamFull
    <2>1. /\ run' = [run EXCEPT !.op_state = "WRITE_HEAD", !.es = run.es_iter, !.es_iter = @ + 1]
          /\ Leave(FALSE, cur) /\ run.es_iter <= Len(items)
      BY <1>6 DEF GetStreamFull
    <2>2. run' = [d_done |-> r.d_done, op_state |-> "WRITE_HEAD", pd |-> r.pd, es |-> r.es_iter,
                  pd_iter |-> r.pd_iter, es_iter |-> r.es_iter + 1]
      BY <1>4, <2>1 DEF RunSet
    <2>3. run' \in RunSet(np, ni) /\ run'.op_state = "WRITE_HEAD" /\ run'.es # 0
      <3>1. r.es_iter <= ni
        BY <1>3, <1>4, <2>1
      <3>2. r.es_iter \in 0 .. ni /\ r.es_iter # 0 /\ r.es_iter + 1 \in 1 .. ni + 1
        BY <3>1, RunFields
      <3> QED
        BY <2>2, <3>2, RunFields DEF RunSet, RunStates
    <2>4. PICK done \in BOOLEAN : done = FALSE
      OBVIOUS
    <2> QED
      BY <1>1, <1>2, <1>5, <2>1, <2>2, <2>3, <2>4
  <1>7. CASE GetStreamEnd
    <2>1. run' = Context /\ Leave(TRUE, cur)
      BY <1>7 DEF GetStreamEnd
    <2>2. run' \in RunSet(np, ni) /\ run'.op_state = "INIT"
      BY <1>4, <2>1 DEF Context, RunSet, RunStates
    <2>3. PICK done \in BOOLEAN : done = TRUE
      OBVIOUS
    <2> QED
      BY <1>1, <1>2, <1>5, <2>1, <2>2, <2>3
  <1>8. CASE GetStreamFits
    <2>1. /\ run' = [run EXCEPT !.op_state = "WRITE_XPORT_STREAM", !.es = run.es_iter, !.es_iter = @ + 1]
          /\ UNCHANGED << driver, info, attributes, length >> /\ run.es_iter <= Len(items)
      BY <1>1, <1>8 DEF GetStreamFits
    <2>2. run' = [d_done |-> r.d_done, op_state |-> "WRITE_XPORT_STREAM", pd |-> r.pd, es |-> r.es_iter,
                  pd_iter |-> r.pd_iter, es_iter |-> r.es_iter + 1]
      BY <1>4, <2>1 DEF RunSet
    <2>3. run' \in RunSet(np, ni) /\ run'.op_state = "WRITE_XPORT_STREAM" /\ run'.es # 0
      <3>1. r.es_iter <= ni
        BY <1>3, <1>4, <2>1
      <3>2. r.es_iter \in 0 .. ni /\ r.es_iter # 0 /\ r.es_iter + 1 \in 1 .. ni + 1
        BY <3>1, RunFields
      <3> QED
        BY <2>2, <3>2, RunFields DEF RunSet, RunStates
    <2>4. DriverInv(Entries(Kinds), D_BIT)'
      BY <1>2, <2>1, AddDriver
    <2>5. UNCHANGED << stream, state >> /\ cur' = cur
      BY <2>1 DEF driver, cur
    <2>6. Control'
      BY <1>1, <1>2, <2>1, <2>2, <2>3, <2>5 DEF Control
    <2>7. BaseInv'
      BY <1>1, <1>2, <1>3, <2>1, <2>3, <2>4, <2>6, SameItems, WriteBase
    <2> QED
      BY <1>1, <1>2, <2>1, <2>2, <2>3, <2>5, <2>7
  <1> QED
    BY <1>6, <1>7, <1>8
-----------------------------------------------------------------------------
(* The states of a stream.                                                 *)

\* While a stream is written, what is known of it.
LEMMA StreamFacts ==
  ASSUME BaseInv, At("WRITE_XPORT_STREAM")
  PROVE  /\ DriverInv(Entries(Kinds), D_BIT) /\ ExtInv
         /\ state = "WRITE_SEC" /\ run.op_state = "WRITE_XPORT_STREAM"
         /\ run.es \in DOMAIN items /\ cur.data_length # 0
         /\ info \in [pos : Nat, len : ui16] /\ run \in RunSet(Len(prog_desc), Len(items))
  <1>1. /\ Control /\ DriverInv(Entries(Kinds), D_BIT) /\ ExtInv
        /\ info \in [pos : Nat, len : ui16] /\ run \in RunSet(Len(prog_desc), Len(items))
        /\ Len(items) \in Nat /\ DOMAIN items = 1 .. Len(items)
    BY BaseFacts DEF PmtTypes
  <1>2. state = "WRITE_SEC" /\ run.op_state = "WRITE_XPORT_STREAM"
    BY DEF At
  <1>3. run.es # 0 /\ cur.data_length # 0
    BY <1>1, <1>2 DEF Control
  <1>4. run.es \in 0 .. Len(items)
    <2>1. Len(prog_desc) \in Nat
      BY BaseFacts
    <2> QED
      BY <1>1, <2>1, RunFields
  <1> QED
    BY <1>1, <1>2, <1>3, <1>4

\* The stream goes on within its section, or the process dies.
LEMMA StreamStaysBase ==
  ASSUME BaseInv, At("WRITE_XPORT_STREAM"), UNCHANGED << run, info >>,
         UNCHANGED << attributes, length, prog_desc, program_info_length, asked >>,
         DriverInv(Entries(Kinds), D_BIT)', ExtInv', NEW i, OnlyRun(i),
         state' = "ABORTED" \/ (state' = "WRITE_SEC" /\ cur'.data_length # 0)
  PROVE  BaseInv'
  <1>1. /\ Control /\ info \in [pos : Nat, len : ui16] /\ run \in RunSet(Len(prog_desc), Len(items))
        /\ state = "WRITE_SEC" /\ run.op_state = "WRITE_XPORT_STREAM"
    BY StreamFacts, BaseFacts
  <1>2. Control'
    BY <1>1 DEF Control
  <1>3. Len(items') = Len(items) /\ \A j \in DOMAIN items : items'[j].id = items[j].id
    BY DEF OnlyRun
  <1> QED
    BY <1>1, <1>2, <1>3, WriteBase

\* Its header, with the pid, is written.
LEMMA StreamHeadBase ==
  ASSUME BaseInv, At("WRITE_XPORT_STREAM"), NEW i, i = run.es,
         NEW header, header = 57344 + items[i].id,
         ItemWriteHead(i, BASE_LEN, header), UNCHANGED << run, info >>,
         UNCHANGED << attributes, length, prog_desc, program_info_length, asked >>
  PROVE  /\ BaseInv' /\ OnlyRun(i) /\ header \in ui16
         /\ items[i].run.op_state \in {"INIT", "WRITE_HEAD"}
         /\ \/ state' = "ABORTED"
            \/ /\ state' = "WRITE_SEC" /\ OnlyCur
               /\ cur'.payload = PutItem(cur.payload, i, header)
               /\ cur'.data_length = cur.data_length + BASE_LEN /\ cur'.data_length # 0
               /\ desc_loop' = [pos |-> Len(cur.payload) + 2, len |-> 0]
               /\ items'[i].run.op_state \in {"GET_DESC", "WRITE_DESC"}
  <1>1. /\ DriverInv(Entries(Kinds), D_BIT) /\ ExtInv /\ PidInv
        /\ state = "WRITE_SEC" /\ i \in DOMAIN items /\ cur.data_length # 0
    BY StreamFacts, BaseFacts
  <1>2. header \in ui16
    <2>1. items[i].id = thirteenBits(asked[i]) /\ asked[i] \in ui16
      <3>1. asked \in Seq(ui16) /\ Len(asked) = Len(items) /\ DOMAIN items = 1 .. Len(items)
        BY BaseFacts DEF PmtTypes
      <3> QED
        BY <1>1, <3>1 DEF PidInv
    <2>2. PICK n \in Nat : n = asked[i]
      BY <2>1, Ui16
    <2>3. PICK m \in 0 .. 8191 : m = n % 8192
      OBVIOUS
    <2>4. items[i].id = m
      <3>1. items[i].id = n % 8192
        BY ONLY <2>1, <2>2 DEF thirteenBits
      <3> QED
        BY ONLY <3>1, <2>3
    <2>5. header = 57344 + m
      BY ONLY header = 57344 + items[i].id, <2>4
    <2>6. header \in Int /\ 0 <= header /\ header < 65536
      BY ONLY <2>5, m \in 0 .. 8191
    <2> QED
      BY ONLY <2>6, Ui16
  <1>3. PICK b \in Nat : b = BASE_LEN /\ 2 <= b
    BY DEF BASE_LEN
  <1>4. /\ DriverInv(Entries(Kinds), D_BIT)' /\ ExtInv' /\ OnlyCur /\ OnlyRun(i)
        /\ items[i].run.op_state \in {"INIT", "WRITE_HEAD"}
        /\ \/ state' = "ABORTED"
           \/ /\ state' = "WRITE_SEC" /\ lengthFits(cur, b)
              /\ cur'.payload = PutItem(cur.payload, i, header)
              /\ cur'.data_length = cur.data_length + b /\ cur'.data_length # 0
              /\ desc_loop' = [pos |-> Len(cur.payload) + 2, len |-> 0]
              /\ items'[i].run =
                   [op_state |-> IF items[i].run.d = 0 THEN "GET_DESC" ELSE "WRITE_DESC",
                    d |-> items[i].run.d,
                    d_iter |-> IF items[i].run.op_state = "INIT"
                               THEN Iter(1, Len(items[i].descriptors))
                               ELSE items[i].run.d_iter]
    <2>1. ItemWriteHead(i, b, header)
      BY ONLY ItemWriteHead(i, BASE_LEN, header), <1>3
    <2>2. PICK w \in ui16 : w = header
      BY ONLY <1>2
    <2>3. ItemWriteHead(i, b, w)
      BY ONLY <2>1, <2>2
    <2>4. UNCHANGED << attributes, length >>
      OBVIOUS
    <2> QED
      BY ONLY <1>1, <1>3, <2>2, <2>3, <2>4, PmtNumbers, ItemHeadStep, SMTT(20)
  <1>5. BaseInv'
    BY <1>4, StreamStaysBase
  <1> QED
    BY <1>2, <1>3, <1>4, <1>5

\* Its next descriptor is fetched.
LEMMA StreamFetchBase ==
  ASSUME BaseInv, At("WRITE_XPORT_STREAM"), NEW i, i = run.es,
         ItemGetDescFits(i), UNCHANGED << run, info >>,
         UNCHANGED << attributes, length, prog_desc, program_info_length, asked >>
  PROVE  /\ BaseInv' /\ OnlyRun(i) /\ items[i].run.op_state = "GET_DESC"
         /\ items'[i].run.op_state = "WRITE_DESC" /\ desc_loop' = desc_loop
         /\ OnlyCur /\ cur' = cur /\ state' = "WRITE_SEC" /\ stream' = stream
  <1>1. /\ DriverInv(Entries(Kinds), D_BIT) /\ ExtInv
        /\ state = "WRITE_SEC" /\ i \in DOMAIN items /\ cur.data_length # 0
    BY StreamFacts
  <1>2. /\ DriverInv(Entries(Kinds), D_BIT)' /\ ExtInv' /\ OnlyRun(i)
        /\ UNCHANGED << stream, state, builds, first, cur_sec, sec_bytes, desc_loop >>
        /\ items[i].run.op_state = "GET_DESC"
        /\ items'[i].run =
             [op_state |-> "WRITE_DESC", d |-> items[i].run.d_iter,
              d_iter |-> Iter(items[i].run.d_iter + 1, Len(items[i].descriptors))]
    BY <1>1, ItemFitsStep
  <1>3. OnlyCur /\ cur' = cur
    BY <1>2 DEF OnlyCur, cur
  <1>4. BaseInv'
    BY <1>1, <1>2, <1>3, StreamStaysBase
  <1> QED
    BY <1>1, <1>2, <1>3, <1>4

\* It is written.
LEMMA StreamDescBase ==
  ASSUME BaseInv, At("WRITE_XPORT_STREAM"), NEW i, i = run.es,
         ItemWriteDesc(i), UNCHANGED << run, info >>,
         UNCHANGED << attributes, length, prog_desc, program_info_length, asked >>
  PROVE  /\ BaseInv' /\ OnlyRun(i) /\ items[i].run.op_state = "WRITE_DESC"
         /\ items[i].run.d \in DOMAIN items[i].descriptors /\ items[i].run.d \in ui16
         /\ \/ state' = "ABORTED"
            \/ /\ state' = "WRITE_SEC" /\ OnlyCur
               /\ cur'.payload = Append(cur.payload, Entry("desc", i, items[i].run.d))
               /\ cur'.data_length = cur.data_length + ItemDescLen(i)
               /\ cur'.data_length # 0 /\ cur'.data_length < 65536
               /\ desc_loop'
                    = [pos |-> desc_loop.pos, len |-> (desc_loop.len + ItemDescLen(i)) % 65536]
               /\ items'[i].run.op_state = "GET_DESC"
  <1>1. /\ DriverInv(Entries(Kinds), D_BIT) /\ ExtInv
        /\ state = "WRITE_SEC" /\ i \in DOMAIN items /\ cur.data_length # 0
    BY StreamFacts
  <1>2. /\ DriverInv(Entries(Kinds), D_BIT)' /\ ExtInv' /\ OnlyCur /\ OnlyRun(i)
        /\ items[i].run.op_state = "WRITE_DESC"
        /\ items[i].run.d \in DOMAIN items[i].descriptors
        /\ \/ state' = "ABORTED"
           \/ /\ state' = "WRITE_SEC"
              /\ cur'.payload = Append(cur.payload, Entry("desc", i, items[i].run.d))
              /\ cur'.data_length = cur.data_length + ItemDescLen(i)
              /\ cur'.data_length # 0
              /\ desc_loop'
                   = [pos |-> desc_loop.pos, len |-> (desc_loop.len + ItemDescLen(i)) % 65536]
              /\ items'[i].run = [op_state |-> "GET_DESC", d |-> items[i].run.d,
                                  d_iter |-> items[i].run.d_iter]
    <2>1. ItemWriteDesc(i) /\ UNCHANGED << attributes, length >>
      OBVIOUS
    <2> QED
      BY ONLY <1>1, <2>1, PmtNumbers, ItemDescStep, SMTT(20)
  <1>3. BaseInv'
    BY <1>2, StreamStaysBase
  <1>4. items[i].run.d \in ui16
    <2>1. PICK d, n : d = items[i].run.d /\ n = Len(items[i].descriptors)
      OBVIOUS
    <2>2. d \in 1 .. n /\ 2 * n <= length /\ n \in Nat /\ length \in ui16
      BY <1>1, <1>2, <2>1, ItemFacts, BaseFacts
    <2>3. d \in Int /\ 0 <= d /\ d < 65536
      BY <2>2, Ui16
    <2> QED
      BY <2>1, <2>3, Ui16
  <1>5. cur'.data_length < 65536
    BY <1>1, <1>2, CurWidth
  <1> QED
    BY <1>2, <1>3, <1>4, <1>5

\* The section with the loop that is open patched.
LEMMA LoopStored ==
  ASSUME ExtInv, cur \in Sections(Entries(Kinds)), NEW s, s = LoopPatched(cur)
  PROVE  /\ s \in Sections(Entries(Kinds)) /\ s.size = cur.size /\ s.crc = cur.crc
         /\ s.data_length = cur.data_length /\ s.section_number = cur.section_number
         /\ s.payload = [cur.payload EXCEPT ![desc_loop.pos].n = loopLen(desc_loop.len)]
  <1>1. PICK l, w : l = desc_loop.pos /\ w = loopLen(desc_loop.len)
    OBVIOUS
  <1>2. l \in Nat /\ w \in ui16
    <2>1. desc_loop.pos \in Nat /\ desc_loop.len \in ui16
      BY DEF ExtInv
    <2>2. desc_loop.len \in Nat
      BY <2>1, Ui16
    <2> QED
      BY <1>1, <2>1, <2>2, LoopWord
  <1>3. s = overwrite(cur, l, w)
    BY <1>1 DEF LoopPatched
  <1> QED
    BY <1>1, <1>2, <1>3, OverwriteFields

\* The stream leaves a descriptor to the next section, or has no more.
LEMMA StreamReturnsBase ==
  ASSUME BaseInv, StreamFull \/ StreamDone, NEW s, s = LoopPatched(cur), NEW i, i = run.es
  PROVE  /\ BaseInv' /\ At("WRITE_XPORT_STREAM") /\ OnlyRun(i)
         /\ items[i].run.op_state = "GET_DESC"
         /\ items'[i].run.op_state \in {"INIT", "WRITE_HEAD"} /\ desc_loop' = NoLoop
         /\ s \in Sections(Entries(Kinds)) /\ s.size = cur.size /\ s.crc = cur.crc
         /\ s.data_length = cur.data_length /\ s.section_number = cur.section_number
         /\ s.payload = [cur.payload EXCEPT ![desc_loop.pos].n = loopLen(desc_loop.len)]
         /\ cur.data_length # 0 /\ prog_desc' = prog_desc
         /\ \/ WriteSecReturn(FALSE, s, sec_bytes, D_BIT) /\ state' = "MALLOC_SEC"
            \/ /\ cur' = s /\ state' = "WRITE_SEC" /\ OnlyCur
               /\ run'.op_state = "GET_XPORT_STREAM"
  <1>1. /\ At("WRITE_XPORT_STREAM") /\ length' = length
        /\ UNCHANGED << attributes, length, prog_desc, program_info_length, asked >>
    BY DEF StreamFull, StreamDone, table
  <1>2. /\ DriverInv(Entries(Kinds), D_BIT) /\ ExtInv /\ state = "WRITE_SEC"
        /\ run.op_state = "WRITE_XPORT_STREAM" /\ run \in RunSet(Len(prog_desc), Len(items))
        /\ i \in DOMAIN items /\ cur.data_length # 0 /\ info \in [pos : Nat, len : ui16]
        /\ Len(items) \in Nat /\ Len(prog_desc) \in Nat
    BY <1>1, StreamFacts, BaseFacts
  <1>3. cur \in Sections(Entries(Kinds))
    BY <1>2, CurFacts
  <1>4. /\ s \in Sections(Entries(Kinds)) /\ s.size = cur.size /\ s.crc = cur.crc
        /\ s.data_length = cur.data_length /\ s.section_number = cur.section_number
        /\ s.payload = [cur.payload EXCEPT ![desc_loop.pos].n = loopLen(desc_loop.len)]
    BY <1>2, <1>3, LoopStored
  <1>5. CASE StreamFull
    <2>1. /\ ExtInv' /\ OnlyRun(i) /\ desc_loop' = NoLoop
          /\ items[i].run.op_state = "GET_DESC"
          /\ items'[i].run =
               [op_state |-> "WRITE_HEAD", d |-> items[i].run.d_iter,
                d_iter |-> Iter(items[i].run.d_iter + 1, Len(items[i].descriptors))]
      <3>1. ItemGetDescFull(i)
        BY <1>5 DEF StreamFull
      <3> QED
        BY <1>1, <1>2, <3>1, ItemFullStep
    <2>2. Len(items') = Len(items) /\ \A j \in DOMAIN items : items'[j].id = items[j].id
      BY <2>1 DEF OnlyRun
    <2>3. run' = [run EXCEPT !.op_state = "WRITE_HEAD"]
          /\ WriteSecReturn(FALSE, s, sec_bytes, D_BIT) /\ info' = NoInfo
      BY <1>5 DEF StreamFull, Leave
    <2>4. run' \in RunSet(Len(prog_desc), Len(items)) /\ run'.op_state = "WRITE_HEAD"
      BY <1>2, <2>3, StateRun DEF RunStates
    <2>5. PICK done \in BOOLEAN : done = FALSE
      OBVIOUS
    <2>6. BaseInv' /\ state' = (IF done THEN "END_TABLE" ELSE "MALLOC_SEC")
      <3>1. /\ run'.op_state \in {"INIT", "WRITE_HEAD"} /\ WriteSecReturn(done, s, sec_bytes, D_BIT)
            /\ UNCHANGED << attributes, length, prog_desc, program_info_length, asked >>
        BY <1>1, <2>3, <2>4, <2>5
      <3> QED
        BY <1>2, <1>4, <2>1, <2>2, <2>3, <2>4, <3>1, LeaveBase
    <2>7. /\ WriteSecReturn(FALSE, s, sec_bytes, D_BIT) /\ state' = "MALLOC_SEC"
          /\ items'[i].run.op_state \in {"INIT", "WRITE_HEAD"} /\ prog_desc' = prog_desc
      <3>1. WriteSecReturn(FALSE, s, sec_bytes, D_BIT)
        BY ONLY <2>3
      <3>2. state' = "MALLOC_SEC"
        BY ONLY <2>5, <2>6
      <3>3. items'[i].run.op_state \in {"INIT", "WRITE_HEAD"}
        BY ONLY <2>1
      <3> QED
        BY <1>1, <3>1, <3>2, <3>3
    <2> QED
      BY <1>1, <1>2, <1>4, <2>1, <2>6, <2>7
  <1>6. CASE StreamDone
    <2>1. /\ ExtInv' /\ OnlyRun(i) /\ desc_loop' = NoLoop
          /\ items[i].run.op_state = "GET_DESC" /\ items'[i].run = ItemContext
      <3>1. ItemGetDescEnd(i)
        BY <1>6 DEF StreamDone
      <3> QED
        BY <1>1, <1>2, <3>1, ItemEndStep
    <2>2. Len(items') = Len(items) /\ \A j \in DOMAIN items : items'[j].id = items[j].id
      BY <2>1 DEF OnlyRun
    <2>3. /\ run' = [run EXCEPT !.op_state = "GET_XPORT_STREAM"]
          /\ WriteSecContinue(s, sec_bytes) /\ info' = info
      BY <1>6 DEF StreamDone
    <2>4. run' \in RunSet(Len(prog_desc), Len(items)) /\ run'.op_state = "GET_XPORT_STREAM"
      BY <1>2, <2>3, StateRun DEF RunStates
    <2>5. /\ DriverInv(Entries(Kinds), D_BIT)' /\ cur' = s /\ state' = "WRITE_SEC"
          /\ OnlyCur /\ cur'.data_length # 0
      BY <1>1, <1>2, <1>4, <2>3, SameBytes
    <2>6. Control'
      BY <2>4, <2>5 DEF Control
    <2>7. BaseInv'
      BY <1>1, <1>2, <2>1, <2>2, <2>3, <2>4, <2>5, <2>6, WriteBase
    <2>8. items'[i].run.op_state = "INIT"
      BY <2>1 DEF ItemContext
    <2> QED
      BY <1>1, <1>2, <1>4, <2>1, <2>3, <2>4, <2>5, <2>7, <2>8
  <1> QED
    BY <1>5, <1>6
-----------------------------------------------------------------------------
(* The driver's steps, and the application's.                              *)

\* Between sections the table is as the last one left it.
LEMMA QuietBase ==
  ASSUME BaseInv, state \in {"IDLE", "MALLOC_SEC", "END_TABLE"}, length' = length,
         UNCHANGED << extVars, prog_desc, program_info_length, run, info, asked >>,
         DriverInv(Entries(Kinds), D_BIT)',
         state' = "WRITE_SEC" => cur'.data_length = 0
  PROVE  BaseInv'
  <1>1. /\ PmtTypes /\ Control /\ ExtInv /\ PidInv /\ length \in Int
        /\ UNCHANGED << items, desc_loop >>
    BY BaseFacts DEF extVars
  <1>2. run.op_state \in {"INIT", "WRITE_HEAD"}
    BY <1>1 DEF Control
  <1>3. ExtInv'
    BY <1>1, LongerExt
  <1>4. PmtTypes' /\ PidInv'
    BY <1>1 DEF PmtTypes, PidInv
  <1>5. Control'
    BY <1>2 DEF Control
  <1> QED
    BY <1>3, <1>4, <1>5 DEF BaseInv

\* The driver's own steps, and the application's that add nothing.
LEMMA DriverBase ==
  ASSUME BaseInv, Configure \/ buildSections \/ MallocSec \/ EndTable,
         UNCHANGED << extVars, prog_desc, program_info_length, run, info, asked >>
  PROVE  BaseInv'
  <1>1. DriverInv(Entries(Kinds), D_BIT)
    BY BaseFacts
  <1>2. CASE Configure
    <2>1. state = "IDLE" /\ state' = state /\ length' = length
      BY <1>2, ConfigureFrame
    <2>2. DriverInv(Entries(Kinds), D_BIT)'
      BY <1>1, <1>2, ConfigureDriver
    <2> QED
      BY <2>1, <2>2, QuietBase
  <1>3. CASE buildSections
    <2>1. state = "IDLE" /\ state' = "MALLOC_SEC" /\ length' = length
      BY <1>3 DEF buildSections
    <2>2. DriverInv(Entries(Kinds), D_BIT)'
      BY <1>1, <1>3, BuildSectionsDriver
    <2> QED
      BY <2>1, <2>2, QuietBase
  <1>4. CASE MallocSec
    <2>1. state = "MALLOC_SEC" /\ length' = length
      BY <1>4 DEF MallocSec
    <2>2. DriverInv(Entries(Kinds), D_BIT)'
      BY <1>1, <1>4, MallocSecDriver
    <2>3. cur'.data_length = 0
      BY <1>1, <1>4, MallocSecFrame DEF DriverInv
    <2> QED
      BY <2>1, <2>2, <2>3, QuietBase
  <1>5. CASE EndTable
    <2>1. state = "END_TABLE" /\ length' = length /\ state' # "WRITE_SEC"
      BY <1>5 DEF EndTable, Abort
    <2>2. DriverInv(Entries(Kinds), D_BIT)'
      BY <1>1, <1>5, EndTableDriver
    <2> QED
      BY <2>1, <2>2, QuietBase
  <1> QED
    BY <1>2, <1>3, <1>4, <1>5

\* Whatever the application adds, it adds between builds.
LEMMA AddBase ==
  ASSUME BaseInv, state = "IDLE", UNCHANGED << attributes, driver >>,
         DriverInv(Entries(Kinds), D_BIT)', ExtInv', PmtTypes', PidInv', run' = run
  PROVE  BaseInv'
  <1>1. Control
    BY BaseFacts
  <1>2. UNCHANGED << state, stream >>
    BY DEF driver
  <1>3. Control'
    BY <1>1, <1>2 DEF Control
  <1> QED
    BY <1>3 DEF BaseInv

\* A context stays one when the lists it points into grow.
LEMMA LongerRun ==
  ASSUME NEW np \in Nat, NEW ni \in Nat, NEW mp \in Nat, NEW mi \in Nat,
         np <= mp, ni <= mi, NEW r \in RunSet(np, ni)
  PROVE  r \in RunSet(mp, mi)
  <1>1. 0 .. np \subseteq 0 .. mp /\ 0 .. ni \subseteq 0 .. mi
    OBVIOUS
  <1>2. 1 .. np + 1 \subseteq 1 .. mp + 1 /\ 1 .. ni + 1 \subseteq 1 .. mi + 1
    OBVIOUS
  <1> QED
    BY ONLY <1>1, <1>2, r \in RunSet(np, ni) DEF RunSet

\* A program descriptor is added.
LEMMA AddProgramDescBase ==
  ASSUME BaseInv, NEW d_len \in ProgDescLens, addProgramDesc(d_len)
  PROVE  BaseInv'
  <1>1. /\ PmtTypes /\ DriverInv(Entries(Kinds), D_BIT) /\ ExtInv /\ PidInv
        /\ length \in ui16 /\ length \in Int
        /\ Len(items) \in Nat /\ Len(prog_desc) \in Nat
        /\ run \in RunSet(Len(prog_desc), Len(items))
    BY BaseFacts
  <1>2. /\ state = "IDLE" /\ incLength(d_len) /\ prog_desc' = Append(prog_desc, d_len)
        /\ program_info_length' = (program_info_length + d_len) % 65536
        /\ UNCHANGED << attributes, driver, extVars, run, info, asked >>
        /\ UNCHANGED << items, desc_loop >>
    BY DEF addProgramDesc, extVars
  <1>3. d_len \in DescLength /\ d_len \in Nat /\ 2 <= d_len
    BY PmtArgs, DescLengths
  <1>4. length' \in ui16 /\ length' = length + d_len /\ length' \in Int
    BY <1>1, <1>2, <1>3, IncLength, Ui16 DEF incLength
  <1>5. DriverInv(Entries(Kinds), D_BIT)' /\ ExtInv'
    <2>1. length <= length'
      BY <1>1, <1>3, <1>4
    <2> QED
      BY <1>1, <1>2, <1>4, <2>1, AddDriver, LongerExt
  <1>6. PICK n \in Nat : n = Len(prog_desc)
    BY <1>1
  <1>7. prog_desc' \in Seq(DescLength) /\ Len(prog_desc') = n + 1
    BY <1>1, <1>2, <1>3, <1>6 DEF PmtTypes
  <1>8. run' \in RunSet(Len(prog_desc'), Len(items'))
    <2>1. n <= n + 1 /\ n + 1 \in Nat /\ Len(items) <= Len(items)
      BY <1>1
    <2> QED
      BY <1>1, <1>2, <1>6, <1>7, <2>1, LongerRun
  <1>9. program_info_length' \in ui16
    <2>1. PICK m \in Nat : m = program_info_length + d_len
      BY <1>1, <1>3, Ui16 DEF PmtTypes
    <2> QED
      BY <1>2, <2>1, Ui16
  <1>10. 2 * Len(prog_desc') <= length'
    <2>1. 2 * n <= length
      BY <1>1, <1>6 DEF PmtTypes
    <2> QED
      BY <1>1, <1>3, <1>4, <1>7, <2>1
  <1>11. PmtTypes'
    BY <1>1, <1>2, <1>7, <1>8, <1>9, <1>10 DEF PmtTypes
  <1>12. PidInv'
    BY <1>1, <1>2 DEF PidInv
  <1> QED
    BY <1>2, <1>5, <1>11, <1>12, AddBase

\* A stream is added; its pid is cut to the 13 bits it has.
LEMMA AddStreamBase ==
  ASSUME BaseInv, NEW elem_pid \in ItemIds, addElemStream(elem_pid)
  PROVE  BaseInv' /\ items'[Len(items) + 1].run = ItemContext /\ Len(items') = Len(items) + 1
         /\ (\A j \in DOMAIN items : items'[j] = items[j]) /\ desc_loop' = desc_loop
         /\ state = "IDLE" /\ UNCHANGED driver
  <1>1. /\ PmtTypes /\ DriverInv(Entries(Kinds), D_BIT) /\ ExtInv /\ PidInv
        /\ length \in ui16 /\ length \in Int
        /\ Len(items) \in Nat /\ DOMAIN items = 1 .. Len(items) /\ Len(prog_desc) \in Nat
        /\ run \in RunSet(Len(prog_desc), Len(items))
    BY BaseFacts
  <1>2. PICK list, b, f : list = DOMAIN items /\ b = BASE_LEN /\ f = thirteenBits(elem_pid)
    OBVIOUS
  <1>3. elem_pid \in ui16 /\ f \in ui16 /\ b \in Nat
    <2>1. elem_pid \in ui16
      BY ExtPsiTableArgs
    <2>2. PICK n \in Nat : n = elem_pid
      BY <2>1, Ui16
    <2>3. f = n % 8192
      BY ONLY <1>2, <2>2 DEF thirteenBits
    <2>4. f \in Int /\ 0 <= f /\ f < 65536
      BY ONLY <2>3, n \in Nat
    <2> QED
      BY <1>2, <2>1, <2>4, Ui16 DEF BASE_LEN
  <1>4. /\ addItem(list, elem_pid, f, b) /\ asked' = Append(asked, elem_pid)
        /\ UNCHANGED << prog_desc, program_info_length, run, info >>
    BY <1>2 DEF addElemStream
  <1>5. /\ DriverInv(Entries(Kinds), D_BIT)' /\ ExtInv'
        /\ UNCHANGED << attributes, driver, desc_loop >> /\ state = "IDLE"
        /\ Len(items') = Len(items) + 1
        /\ \A j \in DOMAIN items : items'[j] = items[j]
        /\ items'[Len(items) + 1]
             = [id |-> f, descriptors |-> << >>, run |-> ItemContext]
    BY <1>1, <1>3, <1>4, AddItemExt
  <1>6. PICK n \in Nat : n = Len(items)
    BY <1>1
  <1>7. DOMAIN items = 1 .. n /\ DOMAIN items' = 1 .. n + 1
    BY <1>1, <1>5, <1>6 DEF ExtInv
  <1>8. /\ asked \in Seq(ui16) /\ Len(asked) = n /\ asked' \in Seq(ui16) /\ Len(asked') = n + 1
        /\ asked'[n + 1] = elem_pid /\ \A j \in 1 .. n : asked'[j] = asked[j]
    BY <1>1, <1>3, <1>4, <1>6 DEF PmtTypes
  <1>9. run' \in RunSet(Len(prog_desc'), Len(items'))
    <2>1. n <= n + 1 /\ n + 1 \in Nat /\ Len(prog_desc) <= Len(prog_desc)
      BY <1>1
    <2> QED
      BY <1>1, <1>4, <1>5, <1>6, <2>1, LongerRun
  <1>10. length <= length'
    BY <1>1, <1>3, <1>4, <1>6 DEF addItem, incLength
  <1>11. length' \in Int
    BY <1>5, Ui16 DEF DriverInv, DriverTypes, PsiTypeOK
  <1>12. PmtTypes'
    <2>1. 2 * Len(prog_desc') <= length'
      BY <1>1, <1>4, <1>10, <1>11 DEF PmtTypes
    <2> QED
      BY <1>1, <1>4, <1>5, <1>6, <1>8, <1>9, <2>1 DEF PmtTypes
  <1>13. PidInv'
    <2>1. ASSUME NEW i \in 1 .. n + 1 PROVE i = n + 1 \/ i \in 1 .. n
      OBVIOUS
    <2>2. /\ items'[n + 1].id = f /\ f = thirteenBits(elem_pid)
          /\ \A i \in 1 .. n : items'[i].id = items[i].id
      BY <1>2, <1>5, <1>6, <1>7
    <2>3. ASSUME NEW i \in 1 .. n + 1 PROVE items'[i].id = thirteenBits(asked'[i])
      BY <1>1, <1>7, <1>8, <2>1, <2>2 DEF PidInv
    <2>4. ASSUME CHECK_DUPLICATES, NEW i \in 1 .. n + 1, NEW j \in 1 .. n + 1, i < j
          PROVE  asked'[j] # items'[i].id
      <3>1. i \in 1 .. n /\ items'[i].id = items[i].id
        BY <2>2, <2>4
      <3>2. CASE j = n + 1
        <4>1. ~contains(DOMAIN items, elem_pid)
          BY <1>2, <1>4, <2>4 DEF addItem
        <4> QED
          BY <1>7, <1>8, <3>1, <3>2, <4>1 DEF contains
      <3>3. CASE j \in 1 .. n
        BY <1>1, <1>7, <1>8, <2>4, <3>1, <3>3 DEF PidInv
      <3> QED
        BY <2>1, <3>2, <3>3
    <2> QED
      BY <1>7, <2>3, <2>4 DEF PidInv
  <1>14. BaseInv'
    BY <1>4, <1>5, <1>12, <1>13, AddBase
  <1> QED
    BY <1>5, <1>14

\* A descriptor is added to a stream.
LEMMA AddStreamDescBase ==
  ASSUME BaseInv, addElemStreamDesc
  PROVE  BaseInv' /\ Len(items') = Len(items)
         /\ (\A j \in DOMAIN items : items'[j].run = items[j].run) /\ desc_loop' = desc_loop
         /\ state = "IDLE" /\ UNCHANGED driver
  <1>1. /\ PmtTypes /\ DriverInv(Entries(Kinds), D_BIT) /\ ExtInv /\ PidInv
        /\ length \in ui16 /\ length \in Int /\ Len(prog_desc) \in Nat
    BY BaseFacts
  <1>2. PICK d_len \in DescLens : \/ addLastItemDesc(DOMAIN items, d_len)
                                  \/ \E elem_pid \in ItemIds :
                                       addItemDesc(DOMAIN items, elem_pid, d_len)
    BY DEF addElemStreamDesc
  <1>3. /\ d_len \in DescLength /\ state = "IDLE"
        /\ UNCHANGED << prog_desc, program_info_length, run, info, asked >>
    BY <1>2, ExtPsiTableArgs DEF addElemStreamDesc, addLastItemDesc, addItemDesc
  <1>4. PICK list : list = DOMAIN items
    OBVIOUS
  <1>5. \E i \in DOMAIN items : addDescTo(i, d_len)
    <2>1. list \subseteq DOMAIN items
      BY <1>4
    <2>2. CASE addLastItemDesc(list, d_len)
      <3>1. Max(list) \in list
        BY <1>1, <2>1, <2>2, Found DEF addLastItemDesc
      <3> QED
        BY <2>1, <2>2, <3>1 DEF addLastItemDesc
    <2>3. CASE \E elem_pid \in ItemIds : addItemDesc(list, elem_pid, d_len)
      <3>1. PICK elem_pid \in ItemIds : addItemDesc(list, elem_pid, d_len)
        BY <2>3
      <3>2. find(list, elem_pid) \in list
        BY <1>1, <2>1, <3>1, Found DEF addItemDesc
      <3> QED
        BY <2>1, <3>1, <3>2 DEF addItemDesc
    <2> QED
      BY <1>2, <1>4, <2>2, <2>3
  <1>6. PICK i \in DOMAIN items : addDescTo(i, d_len)
    BY <1>5
  <1>7. /\ DriverInv(Entries(Kinds), D_BIT)' /\ ExtInv'
        /\ UNCHANGED << attributes, driver, desc_loop >>
        /\ Len(items') = Len(items)
        /\ \A j \in DOMAIN items : /\ items'[j].id = items[j].id
                                   /\ items'[j].run = items[j].run
    BY <1>1, <1>3, <1>6, AddDescExt
  <1>8. DOMAIN items' = DOMAIN items
    BY <1>1, <1>7 DEF ExtInv
  <1>9. PmtTypes'
    <2>1. length' = length + d_len /\ d_len \in Nat
      BY <1>3, <1>6, DescLengths DEF addDescTo, incLength
    <2>2. 2 * Len(prog_desc') <= length'
      BY <1>1, <1>3, <2>1 DEF PmtTypes
    <2> QED
      BY <1>1, <1>3, <1>7, <2>2 DEF PmtTypes
  <1>10. PidInv'
    BY <1>1, <1>3, <1>7, <1>8 DEF PidInv
  <1>11. BaseInv'
    BY <1>3, <1>7, <1>9, <1>10, AddBase
  <1> QED
    BY <1>3, <1>7, <1>11

-----------------------------------------------------------------------------
\* The invariant holds of a new table.
LEMMA InitBase == Init => BaseInv
  <1> SUFFICES ASSUME Init PROVE BaseInv
    OBVIOUS
  <1>1. /\ items = << >> /\ desc_loop = NoLoop /\ prog_desc = << >>
        /\ program_info_length = 0 /\ run = Context /\ info = NoInfo /\ asked = << >>
    BY DEF Init, ExtInit
  <1>2. state = "IDLE" /\ length = BASE_LENGTH
    BY DEF Init, PsiInit
  <1>3. DriverInv(Entries(Kinds), D_BIT)
    <2>1. PICK b, m : b = BASE_LENGTH /\ m = MAX_SEC_LEN
      OBVIOUS
    <2>2. b \in ui16 /\ m \in ui16 /\ PsiInit(b, m)
      BY <2>1, PmtNumbers DEF Init
    <2> QED
      BY <2>2, InitDriver
  <1>4. ExtInv
    BY <1>1, Ui16 DEF ExtInv, NoLoop
  <1>5. PmtTypes
    <2>1. Len(prog_desc) = 0 /\ Len(items) = 0 /\ Len(asked) = 0
      BY <1>1
    <2>2. run \in RunSet(Len(prog_desc), Len(items))
      BY <1>1, <2>1 DEF RunSet, Context, RunStates
    <2>3. info \in [pos : Nat, len : ui16]
      BY <1>1, Ui16 DEF NoInfo
    <2>4. 2 * Len(prog_desc) <= length
      BY <1>2, <2>1 DEF BASE_LENGTH
    <2>5. prog_desc \in Seq(DescLength) /\ asked \in Seq(ui16) /\ program_info_length \in ui16
      BY <1>1, Ui16
    <2> QED
      BY <2>1, <2>2, <2>3, <2>4, <2>5 DEF PmtTypes
  <1>6. Control /\ PidInv
    BY <1>1, <1>2 DEF Control, PidInv, Context
  <1> QED
    BY <1>3, <1>4, <1>5, <1>6 DEF BaseInv

\* Every step keeps it.
LEMMA StepBase == BaseInv /\ [Next]_vars => BaseInv'
  <1> SUFFICES ASSUME BaseInv, [Next]_vars PROVE BaseInv'
    OBVIOUS
  <1>1. CASE Api
    BY <1>1, DriverBase, AddProgramDescBase, AddStreamBase, AddStreamDescBase DEF Api
  <1>2. CASE /\ MallocSec \/ EndTable
             /\ UNCHANGED << extVars, prog_desc, program_info_length, run, info, asked >>
    BY <1>2, DriverBase
  <1>3. CASE writeSection
    <2>1. CASE WriteHead
      BY <2>1, WriteHeadBase
    <2>2. CASE GetProgDescFull \/ GetProgDescFits \/ NoMoreProgDescs
      BY <2>2, GetProgDescBase
    <2>3. CASE WriteProgDesc
      BY <2>3, WriteProgDescBase
    <2>4. CASE GetStreamFull \/ GetStreamFits \/ GetStreamEnd
      BY <2>4, GetStreamBase
    <2>5. CASE StreamWrites
      <3>1. /\ At("WRITE_XPORT_STREAM") /\ UNCHANGED << run, info >>
            /\ UNCHANGED << attributes, length, prog_desc, program_info_length, asked >>
        BY <2>5 DEF StreamWrites, table
      <3>2. PICK i, header : i = run.es /\ header = 57344 + items[i].id
        OBVIOUS
      <3>3. \/ ItemWriteHead(i, BASE_LEN, header) \/ ItemGetDescFits(i) \/ ItemWriteDesc(i)
        BY <2>5, <3>2 DEF StreamWrites
      <3> QED
        BY <3>1, <3>2, <3>3, StreamHeadBase, StreamFetchBase, StreamDescBase
    <2>6. CASE StreamFull \/ StreamDone
      BY <2>6, StreamReturnsBase
    <2> QED
      BY <1>3, <2>1, <2>2, <2>3, <2>4, <2>5, <2>6 DEF writeSection
  <1>4. CASE UNCHANGED vars
    <2>1. /\ UNCHANGED << attributes, length, driver, items, desc_loop >>
          /\ UNCHANGED << prog_desc, program_info_length, run, info, asked >>
          /\ UNCHANGED << state, stream, first >> /\ cur' = cur
      BY <1>4 DEF vars, psiVars, extVars, driver, cur
    <2>2. /\ PmtTypes /\ DriverInv(Entries(Kinds), D_BIT) /\ ExtInv /\ Control /\ PidInv
          /\ length \in ui16 /\ length \in Int
      BY BaseFacts
    <2>3. DriverInv(Entries(Kinds), D_BIT)' /\ ExtInv'
      BY <2>1, <2>2, AddDriver, LongerExt
    <2>4. PmtTypes' /\ Control' /\ PidInv'
      BY <2>1, <2>2 DEF PmtTypes, Control, PidInv
    <2> QED
      BY <2>3, <2>4 DEF BaseInv
  <1> QED
    BY <1>1, <1>2, <1>3, <1>4 DEF Next, BuildStep

\* The first invariant holds of every state of the PMT.
THEOREM BaseInvariance == Spec => []BaseInv
  BY InitBase, StepBase, PTL DEF Spec
-----------------------------------------------------------------------------
(* What is written in the sections.                                        *)

Writing == state = "WRITE_SEC" /\ run.op_state = "WRITE_XPORT_STREAM"

\* At most one stream has its header in the section and its loop not closed: the
\* one the table writes.  Its loop is the one desc_loop is of.
OpenInv ==
  state # "ABORTED" =>
    /\ \A i \in DOMAIN items : Open(i) => Writing /\ i = run.es
    /\ IF Writing /\ Open(run.es)
       THEN /\ desc_loop.pos # 0
            /\ cur.payload[desc_loop.pos].owner = run.es
            /\ cur.payload[Len(cur.payload)].owner = run.es
       ELSE desc_loop = NoLoop

\* The bytes of the program descriptors in p, whose lengths are P.
ProgLen(P, e) == OwnLen("prog_desc", P, e)
ProgIn(P, p) == OwnIn("prog_desc", P, p)

\* A payload of n bytes: m program descriptors, then streams, the loop at l open.
PmtPayload(D, F, P, p, n, m, l, len) ==
  /\ m + 2 <= Len(p) /\ p[1].kind = "pcr_pid" /\ p[2].kind = "prog_info_len"
  /\ \A k \in 3 .. m + 2 : p[k].kind = "prog_desc" /\ p[k].n \in DOMAIN P
  /\ Loops(D, F, p, m + 3, l, len)
  /\ n = HEADER_LEN + 4 + ProgIn(P, p) + BytesIn(D, p, BASE_LEN)

\* While program descriptors are written, c has the length of their loop.
Progs(D, F, P, p, n, c) ==
  \E m \in Nat : /\ Len(p) = m + 2 /\ PmtPayload(D, F, P, p, n, m, 0, 0)
                 /\ c = [pos |-> 2, len |-> ProgIn(P, p)]

\* Then the section itself has it.
Streams(D, F, P, p, n, l, len) ==
  \E m \in Nat : PmtPayload(D, F, P, p, n, m, l, len) /\ p[2].n = loopLen(ProgIn(P, p))

Complete(D, F, P) ==
  {w \in Seq(Entries(Kinds)) \X Nat : Streams(D, F, P, w[1], w[2], 0, 0)}

PayloadInv(D, F, P) ==
  /\ SectionsIn(Complete(D, F, P))
  /\ state = "WRITE_SEC" /\ cur.data_length # 0 =>
       IF run.op_state \in {"GET_PROG_DESC", "WRITE_PROG_DESC"}
       THEN Progs(D, F, P, cur.payload, cur.data_length, info)
       ELSE Streams(D, F, P, cur.payload, cur.data_length, desc_loop.pos, desc_loop.len)

LoadInv ==
  OpenInv /\ \E D, F, P : D = Descriptors /\ F = LoopWords /\ P = prog_desc /\ PayloadInv(D, F, P)
-----------------------------------------------------------------------------
(* What the states do to the payload.                                      *)

\* What is known of a payload, with the place where the streams begin in s.
PayloadOf(D, F, P, p, n, m, l, len, s, b) ==
  /\ 1 <= s /\ s <= Len(p) + 1 /\ Loops(D, F, p, s, l, len)
  /\ m + 2 <= Len(p) /\ p[1].kind = "pcr_pid" /\ p[2].kind = "prog_info_len"
  /\ \A k \in 3 .. m + 2 : p[k].kind = "prog_desc" /\ p[k].n \in DOMAIN P
  /\ \A k \in 1 .. Len(p) : ProgLen(P, p[k]) \in Nat
  /\ ProgIn(P, p) \in Nat
  /\ n = HEADER_LEN + 4 + ProgIn(P, p) + BytesIn(D, p, b)

\* The lengths of what is in it.
LEMMA PayloadFacts ==
  ASSUME NEW D, NEW F, NEW P \in Seq(DescLength), NEW p \in Seq(Entries(Kinds)), NEW n,
         NEW m \in Nat, NEW l, NEW len, PmtPayload(D, F, P, p, n, m, l, len),
         NEW s \in Nat, s = m + 3, NEW b, b = BASE_LEN
  PROVE  PayloadOf(D, F, P, p, n, m, l, len, s, b)
  <1> SUFFICES /\ 1 <= s /\ s <= Len(p) + 1 /\ Loops(D, F, p, s, l, len)
               /\ m + 2 <= Len(p) /\ p[1].kind = "pcr_pid" /\ p[2].kind = "prog_info_len"
               /\ \A k \in 3 .. m + 2 : p[k].kind = "prog_desc" /\ p[k].n \in DOMAIN P
               /\ \A k \in 1 .. Len(p) : ProgLen(P, p[k]) \in Nat
               /\ ProgIn(P, p) \in Nat
               /\ n = HEADER_LEN + 4 + ProgIn(P, p) + BytesIn(D, p, b)
    BY DEF PayloadOf
  <1>1. /\ 1 <= s /\ s <= Len(p) + 1 /\ Loops(D, F, p, s, l, len)
        /\ m + 2 <= Len(p) /\ p[1].kind = "pcr_pid" /\ p[2].kind = "prog_info_len"
        /\ \A k \in 3 .. m + 2 : p[k].kind = "prog_desc" /\ p[k].n \in DOMAIN P
        /\ n = HEADER_LEN + 4 + ProgIn(P, p) + BytesIn(D, p, b)
    <2>1. Len(p) \in Nat /\ m + 2 <= Len(p) => s <= Len(p) + 1
      OBVIOUS
    <2> QED
      BY <2>1 DEF PmtPayload
  <1>2. ASSUME NEW k \in 1 .. Len(p) PROVE ProgLen(P, p[k]) \in Nat
    <2>1. CASE k \in 3 .. m + 2
      BY <1>1, <2>1, OwnLenType DEF ProgLen
    <2>2. CASE k \in s .. Len(p)
      <3>1. p[k].kind \in ItemKinds
        BY <1>1, <2>2 DEF Loops, Placed
      <3> QED
        BY <3>1 DEF ProgLen, ItemKinds, OwnLen
    <2>3. CASE k = 1 \/ k = 2
      BY <1>1, <2>3 DEF ProgLen, OwnLen
    <2>4. k \in 3 .. m + 2 \/ k \in s .. Len(p) \/ k = 1 \/ k = 2
      OBVIOUS
    <2> QED
      BY <2>1, <2>2, <2>3, <2>4
  <1>3. ProgIn(P, p) \in Nat
    <2>1. PICK T : T = Entries(Kinds)
      OBVIOUS
    <2>2. p \in Seq(T)
      BY <2>1
    <2> QED
      BY ONLY <1>2, <2>2, OwnType DEF ProgIn, ProgLen
  <1> QED
    BY <1>1, <1>2, <1>3

\* No item is in it yet.
NoItems(P, p, m) ==
  /\ Len(p) = m + 2 /\ p[1].kind = "pcr_pid" /\ p[2].kind = "prog_info_len"
  /\ \A k \in 3 .. m + 2 : p[k].kind = "prog_desc" /\ p[k].n \in DOMAIN P

\* It is a payload without open loop.
LEMMA NoItemsPayload ==
  ASSUME NEW D, NEW F, NEW P, NEW p \in Seq(Entries(Kinds)), NEW m \in Nat,
         NoItems(P, p, m), NEW n, n = HEADER_LEN + 4 + ProgIn(P, p) + BytesIn(D, p, BASE_LEN)
  PROVE  PmtPayload(D, F, P, p, n, m, 0, 0)
  <1>1. PICK s \in Nat : s = m + 3
    OBVIOUS
  <1>2. \A k \in 1 .. Len(p) : p[k].kind \notin ItemKinds
    <2>1. ASSUME NEW k \in 1 .. m + 2 PROVE k = 1 \/ k = 2 \/ k \in 3 .. m + 2
      OBVIOUS
    <2> QED
      BY <2>1 DEF NoItems, ItemKinds
  <1>3. Loops(D, F, p, s, 0, 0)
    <2>1. PICK T : T = Entries(Kinds)
      OBVIOUS
    <2>2. p \in Seq(T) /\ Len(p) < s
      BY <1>1, <2>1 DEF NoItems
    <2> QED
      BY ONLY s \in Nat, <1>2, <2>2, LoopsNone
  <1> QED
    BY <1>1, <1>3 DEF PmtPayload, NoItems

\* A section begun.
LEMMA ProgsHead ==
  ASSUME NEW D, Descs(D), NEW F, NEW P, NEW x \in Entries(Kinds), x.kind = "pcr_pid",
         NEW y \in Entries(Kinds), y.kind = "prog_info_len",
         NEW p, p = Append(Append(<< >>, x), y)
  PROVE  Progs(D, F, P, p, HEADER_LEN + 4, [pos |-> 2, len |-> 0])
  <1>1. PICK T : T = Entries(Kinds)
    OBVIOUS
  <1>2. PICK e, r, b : e = << >> /\ r = Append(e, x) /\ b = BASE_LEN
    OBVIOUS
  <1>3. e \in Seq(T) /\ Len(e) = 0 /\ DOMAIN e = {} /\ x \in T /\ y \in T /\ b \in Nat
    BY <1>1, <1>2 DEF BASE_LEN
  <1>4. r \in Seq(T) /\ Len(r) = 1 /\ r[1] = x /\ p = Append(r, y)
    BY <1>2, <1>3
  <1>5. p \in Seq(T) /\ Len(p) = 2 /\ p[1] = x /\ p[2] = y
    BY <1>3, <1>4
  <1>6. /\ LenIn(D, x, b) = 0 /\ LenIn(D, y, b) = 0
        /\ ProgLen(P, x) = 0 /\ ProgLen(P, y) = 0
    BY DEF LenIn, ProgLen, OwnLen
  <1>7. BytesIn(D, p, b) = 0
    <2>1. BytesIn(D, e, b) = 0
      <3>1. [k \in DOMAIN e |-> LenIn(D, e[k], b)] = << >>
        BY <1>3
      <3> QED
        BY <3>1, TotalAppend DEF BytesIn
    <2>2. r = Append(e, x) /\ (\A k \in 1 .. Len(e) : LenIn(D, e[k], b) \in Nat)
      BY <1>2, <1>3
    <2>3. e \in Seq(T) /\ x \in T /\ b \in Nat /\ LenIn(D, x, b) \in Nat
      BY <1>3, <1>6
    <2>4. BytesIn(D, r, b) = BytesIn(D, e, b) + LenIn(D, x, b)
      BY ONLY <2>2, <2>3, BytesInAppend
    <2>5. BytesIn(D, r, b) = 0 + 0
      BY <1>6, <2>1, <2>4
    <2>6. BytesIn(D, p, b) = 0 + 0
      BY <1>3, <1>4, <1>6, <2>5, BytesInAppend
    <2> QED
      BY <2>6
  <1>8. ProgIn(P, p) = 0
    <2>1. ProgIn(P, e) = 0
      <3>1. [k \in DOMAIN e |-> ProgLen(P, e[k])] = << >>
        BY <1>3
      <3> QED
        BY <3>1, TotalAppend DEF ProgIn, OwnIn
    <2>2. r = Append(e, x) /\ (\A k \in 1 .. Len(e) : ProgLen(P, e[k]) \in Nat)
      BY <1>2, <1>3
    <2>3. e \in Seq(T) /\ x \in T /\ b \in Nat /\ ProgLen(P, x) \in Nat
      BY <1>3, <1>6
    <2>4. ProgIn(P, r) = ProgIn(P, e) + ProgLen(P, x)
      BY ONLY <2>2, <2>3, OwnAppend DEF ProgIn, ProgLen
    <2>5. ProgIn(P, r) = 0 + 0
      BY <1>6, <2>1, <2>4
    <2>6. ProgIn(P, p) = 0 + 0
      BY <1>3, <1>4, <1>6, <2>5, OwnAppend DEF ProgIn, ProgLen
    <2> QED
      BY <2>6
  <1>9. NoItems(P, p, 0)
    BY <1>5 DEF NoItems
  <1>10. HEADER_LEN + 4 = HEADER_LEN + 4 + ProgIn(P, p) + BytesIn(D, p, BASE_LEN)
    BY <1>2, <1>7, <1>8 DEF HEADER_LEN
  <1>11. PmtPayload(D, F, P, p, HEADER_LEN + 4, 0, 0, 0)
    BY <1>1, <1>5, <1>9, <1>10, NoItemsPayload
  <1> QED
    BY <1>5, <1>8, <1>11 DEF Progs

\* Program descriptor d, of v bytes, makes q, z and y of p, its bytes n and the length c.
ProgPut(p, n, c, d, v, q, z, y) ==
  /\ Entry("prog_desc", 0, d) \in Entries(Kinds) /\ q = Append(p, Entry("prog_desc", 0, d))
  /\ z = n + v /\ z < 65536 /\ y = [pos |-> c.pos, len |-> (c.len + v) % 65536]

\* A program descriptor.
LEMMA ProgsDesc ==
  ASSUME NEW D, Descs(D), NEW F, NEW P \in Seq(DescLength), NEW p \in Seq(Entries(Kinds)),
         NEW n \in Nat, NEW c, Progs(D, F, P, p, n, c), NEW d \in DOMAIN P,
         NEW q, NEW z, NEW y, ProgPut(p, n, c, d, P[d], q, z, y)
  PROVE  Progs(D, F, P, q, z, y)
  <1>1. PICK x : x = Entry("prog_desc", 0, d)
    OBVIOUS
  <1>2. /\ x \in Entries(Kinds) /\ q = Append(p, x)
         /\ z = n + P[d] /\ n + P[d] < 65536
         /\ y = [pos |-> c.pos, len |-> (c.len + P[d]) % 65536]
    BY ONLY <1>1, ProgPut(p, n, c, d, P[d], q, z, y) DEF ProgPut
  <1>3. PICK m \in Nat : /\ Len(p) = m + 2 /\ PmtPayload(D, F, P, p, n, m, 0, 0)
                         /\ c = [pos |-> 2, len |-> ProgIn(P, p)]
    BY DEF Progs
  <1>4. PICK s \in Nat, b \in Nat : s = m + 3 /\ b = BASE_LEN
    BY DEF BASE_LEN
  <1>5. PICK l, len : l = 0 /\ len = 0
    OBVIOUS
  <1>6. PmtPayload(D, F, P, p, n, m, l, len)
    BY <1>3, <1>5
  <1>7. /\ 1 <= s /\ Loops(D, F, p, s, l, len)
        /\ p[1].kind = "pcr_pid" /\ p[2].kind = "prog_info_len"
        /\ \A k \in 3 .. m + 2 : p[k].kind = "prog_desc" /\ p[k].n \in DOMAIN P
        /\ \A k \in 1 .. Len(p) : ProgLen(P, p[k]) \in Nat
        /\ ProgIn(P, p) \in Nat
        /\ n = HEADER_LEN + 4 + ProgIn(P, p) + BytesIn(D, p, b)
    <2>1. PayloadOf(D, F, P, p, n, m, l, len, s, b)
      BY ONLY P \in Seq(DescLength), p \in Seq(Entries(Kinds)), m \in Nat, s \in Nat,
              <1>4, <1>6, PayloadFacts
    <2> QED
      BY ONLY <2>1 DEF PayloadOf
  <1>8. PICK T : T = Entries(Kinds)
    OBVIOUS
  <1>9. p \in Seq(T) /\ x \in T /\ q \in Seq(T) /\ x.kind = "prog_desc" /\ x.n = d
    BY <1>1, <1>2, <1>8 DEF Entry
  <1>10. /\ Len(q) = m + 3 /\ q[m + 3] = x /\ \A k \in 1 .. m + 2 : q[k] = p[k]
    BY <1>2, <1>3, <1>9
  <1>11. PICK v : v = P[d]
    OBVIOUS
  <1>12. v \in Nat /\ ProgLen(P, x) = v /\ LenIn(D, x, b) = 0
    <2>1. P[d] \in DescLength
      OBVIOUS
    <2> QED
      BY <1>9, <1>11, <2>1, DescLengths DEF ProgLen, LenIn, OwnLen
  <1>13. \A k \in 1 .. Len(p) : LenIn(D, p[k], b) \in Nat
    BY ONLY Descs(D), s \in Nat, b \in Nat, <1>7, <1>9, LoopsLengths
  <1>14. BytesIn(D, q, b) = BytesIn(D, p, b) + 0 /\ BytesIn(D, p, b) \in Nat
    <2>1. BytesIn(D, p, b) \in Nat
      BY ONLY <1>9, <1>13, BytesType
    <2>2. BytesIn(D, q, b) = BytesIn(D, p, b) + LenIn(D, x, b)
      BY ONLY <1>2, <1>9, <1>12, <1>13, BytesInAppend
    <2> QED
      BY ONLY <1>12, <2>1, <2>2
  <1>15. ProgIn(P, q) = ProgIn(P, p) + v
    <2>1. q = Append(p, x) /\ \A k \in 1 .. Len(p) : ProgLen(P, p[k]) \in Nat
      BY ONLY <1>2, <1>7
    <2>2. ProgIn(P, q) = ProgIn(P, p) + ProgLen(P, x)
      BY ONLY <1>9, <1>12, <2>1, OwnAppend DEF ProgIn, ProgLen
    <2> QED
      BY ONLY <1>12, <2>2
  <1>16. /\ n + v = HEADER_LEN + 4 + ProgIn(P, q) + BytesIn(D, q, b)
         /\ (ProgIn(P, p) + v) % 65536 = ProgIn(P, p) + v
    <2>1. PICK g, h : g = ProgIn(P, p) /\ h = BytesIn(D, p, b)
      OBVIOUS
    <2>2. /\ g \in Nat /\ h \in Nat /\ n = 8 + 4 + g + h /\ n + v < 65536 /\ v \in Nat
      BY <1>2, <1>7, <1>11, <1>12, <1>14, <2>1 DEF HEADER_LEN
    <2>3. n + v = 8 + 4 + (g + v) + (h + 0) /\ (g + v) % 65536 = g + v
      BY ONLY <2>2
    <2> QED
      BY <1>14, <1>15, <2>1, <2>3 DEF HEADER_LEN
  <1>17. NoItems(P, q, m + 1)
    <2>1. ASSUME NEW k \in 3 .. m + 3
          PROVE  q[k].kind = "prog_desc" /\ q[k].n \in DOMAIN P
      <3>1. CASE k = m + 3
        BY ONLY d \in DOMAIN P, <1>9, <1>10, <3>1
      <3>2. CASE k # m + 3
        <4>1. k \in 3 .. m + 2 /\ k \in 1 .. m + 2
          BY <3>2
        <4>2. q[k] = p[k]
          BY ONLY <1>10, <4>1
        <4>3. p[k].kind = "prog_desc" /\ p[k].n \in DOMAIN P
          BY ONLY <1>7, <4>1
        <4> QED
          BY ONLY <4>2, <4>3
      <3> QED
        BY ONLY <3>1, <3>2
    <2>2. 1 \in 1 .. m + 2 /\ 2 \in 1 .. m + 2 /\ (m + 1) + 2 = m + 3
      OBVIOUS
    <2>3. q[1].kind = "pcr_pid" /\ q[2].kind = "prog_info_len" /\ Len(q) = (m + 1) + 2
      BY ONLY <1>7, <1>10, <2>2
    <2>4. \A k \in 3 .. (m + 1) + 2 : q[k].kind = "prog_desc" /\ q[k].n \in DOMAIN P
      BY ONLY <2>1, <2>2
    <2> QED
      BY ONLY <2>3, <2>4 DEF NoItems
  <1>18. PmtPayload(D, F, P, q, n + v, m + 1, 0, 0)
    <2>1. q \in Seq(Entries(Kinds)) /\ m + 1 \in Nat
      BY <1>8, <1>9
    <2>2. n + v = HEADER_LEN + 4 + ProgIn(P, q) + BytesIn(D, q, BASE_LEN)
      BY <1>4, <1>16
    <2> QED
      BY ONLY <1>17, <2>1, <2>2, NoItemsPayload
  <1>19. Len(q) = (m + 1) + 2 /\ m + 1 \in Nat
    BY <1>10
  <1>20. [pos |-> c.pos, len |-> (c.len + P[d]) % 65536] = [pos |-> 2, len |-> ProgIn(P, q)]
    BY <1>3, <1>11, <1>15, <1>16
  <1>21. z = n + v /\ y = [pos |-> 2, len |-> ProgIn(P, q)]
    BY ONLY <1>2, <1>11, <1>20
  <1> QED
    BY <1>18, <1>19, <1>21 DEF Progs

\* The length of their loop is stored: the section says it, and they may go on.
LEMMA ProgsStored ==
  ASSUME NEW D, NEW F, NEW P \in Seq(DescLength), NEW p \in Seq(Entries(Kinds)),
         NEW n, NEW c, Progs(D, F, P, p, n, c),
         NEW q \in Seq(Entries(Kinds)), q = [p EXCEPT ![c.pos].n = loopLen(c.len)]
  PROVE  Progs(D, F, P, q, n, c) /\ Streams(D, F, P, q, n, 0, 0)
  <1>1. PICK m \in Nat : /\ Len(p) = m + 2 /\ PmtPayload(D, F, P, p, n, m, 0, 0)
                         /\ c = [pos |-> 2, len |-> ProgIn(P, p)]
    BY DEF Progs
  <1>2. PICK w, g : g = ProgIn(P, p) /\ w = loopLen(g)
    OBVIOUS
  <1>3. q = [p EXCEPT ![2].n = w]
    BY <1>1, <1>2
  <1>4. /\ DOMAIN p = 1 .. m + 2 /\ DOMAIN q = 1 .. m + 2 /\ Len(q) = m + 2
        /\ \A k \in 1 .. m + 2 : /\ q[k].kind = p[k].kind /\ q[k].owner = p[k].owner
                                 /\ q[k].n = IF k = 2 THEN w ELSE p[k].n
    <2>1. DOMAIN p = 1 .. m + 2
      BY <1>1
    <2>2. DOMAIN q = 1 .. m + 2
      BY <1>3, <2>1
    <2>3. \A k \in DOMAIN p : /\ q[k].kind = p[k].kind /\ q[k].owner = p[k].owner
                              /\ q[k].n = IF k = 2 THEN w ELSE p[k].n
      BY ONLY p \in Seq(Entries(Kinds)), <1>3, PatchOne
    <2>4. Len(q) = m + 2
      BY ONLY q \in Seq(Entries(Kinds)), m \in Nat, <2>2
    <2> QED
      BY <2>1, <2>2, <2>3, <2>4
  <1>5. /\ p[1].kind = "pcr_pid" /\ p[2].kind = "prog_info_len"
        /\ \A k \in 3 .. m + 2 : p[k].kind = "prog_desc" /\ p[k].n \in DOMAIN P
        /\ n = HEADER_LEN + 4 + ProgIn(P, p) + BytesIn(D, p, BASE_LEN)
    BY <1>1 DEF PmtPayload
  <1>6. NoItems(P, q, m)
    <2>1. 1 \in 1 .. m + 2 /\ 2 \in 1 .. m + 2
      OBVIOUS
    <2>2. ASSUME NEW k \in 3 .. m + 2
          PROVE  q[k].kind = "prog_desc" /\ q[k].n \in DOMAIN P
      <3>1. k \in 1 .. m + 2 /\ k # 2
        OBVIOUS
      <3> QED
        BY ONLY <1>4, <1>5, <3>1, k \in 3 .. m + 2
    <2>3. q[1].kind = "pcr_pid" /\ q[2].kind = "prog_info_len"
      BY ONLY <1>4, <1>5, <2>1
    <2> QED
      BY ONLY <1>4, <2>2, <2>3 DEF NoItems
  <1>7. ASSUME NEW k \in 1 .. m + 2
        PROVE  /\ LenIn(D, q[k], BASE_LEN) = LenIn(D, p[k], BASE_LEN)
               /\ ProgLen(P, q[k]) = ProgLen(P, p[k])
    <2>1. CASE k = 2
      BY ONLY k \in 1 .. m + 2, <1>4, <1>5, <2>1 DEF LenIn, ProgLen, OwnLen
    <2>2. CASE k # 2
      BY ONLY k \in 1 .. m + 2, <1>4, <2>2 DEF LenIn, ProgLen, OwnLen
    <2> QED
      BY <2>1, <2>2
  <1>8. ProgIn(P, q) = g /\ BytesIn(D, q, BASE_LEN) = BytesIn(D, p, BASE_LEN)
    BY ONLY <1>2, <1>4, <1>7, OwnSame, BytesInSame DEF ProgIn, ProgLen
  <1>9. PmtPayload(D, F, P, q, n, m, 0, 0)
    <2>1. n = HEADER_LEN + 4 + ProgIn(P, q) + BytesIn(D, q, BASE_LEN)
      BY ONLY <1>2, <1>5, <1>8
    <2> QED
      BY ONLY q \in Seq(Entries(Kinds)), m \in Nat, <1>6, <2>1, NoItemsPayload
  <1>10. Progs(D, F, P, q, n, c)
    BY ONLY m \in Nat, <1>1, <1>2, <1>4, <1>8, <1>9 DEF Progs
  <1>11. q[2].n = loopLen(ProgIn(P, q))
    <2>1. 2 \in 1 .. m + 2
      OBVIOUS
    <2> QED
      BY ONLY <1>2, <1>4, <1>8, <2>1
  <1> QED
    BY ONLY m \in Nat, <1>9, <1>10, <1>11 DEF Streams

\* The header of stream i.
LEMMA StreamsHead ==
  ASSUME NEW D, Descs(D), NEW F, NEW P \in Seq(DescLength), NEW p \in Seq(Entries(Kinds)),
         NEW n \in Nat, Streams(D, F, P, p, n, 0, 0), NEW i \in DOMAIN D, NEW header \in ui16,
         NEW q, q = PutItem(p, i, header)
  PROVE  /\ Streams(D, F, P, q, n + BASE_LEN, Len(p) + 2, 0)
         /\ Len(q) = Len(p) + 2 /\ q[Len(q)].owner = i
  <1>1. PICK l, len : l = 0 /\ len = 0
    OBVIOUS
  <1>2. PICK m \in Nat : PmtPayload(D, F, P, p, n, m, l, len) /\ p[2].n = loopLen(ProgIn(P, p))
    BY <1>1 DEF Streams
  <1>3. PICK s \in Nat, b \in Nat : s = m + 3 /\ b = BASE_LEN
    BY DEF BASE_LEN
  <1>4. /\ 1 <= s /\ s <= Len(p) + 1 /\ Loops(D, F, p, s, l, len)
        /\ m + 2 <= Len(p) /\ p[1].kind = "pcr_pid" /\ p[2].kind = "prog_info_len"
        /\ \A k \in 3 .. m + 2 : p[k].kind = "prog_desc" /\ p[k].n \in DOMAIN P
        /\ \A k \in 1 .. Len(p) : ProgLen(P, p[k]) \in Nat
        /\ ProgIn(P, p) \in Nat
        /\ n = HEADER_LEN + 4 + ProgIn(P, p) + BytesIn(D, p, b)
    <2>1. PmtPayload(D, F, P, p, n, m, l, len)
      BY ONLY <1>2
    <2>2. s = m + 3
      BY ONLY <1>3
    <2>3. b = BASE_LEN
      BY ONLY <1>3
    <2>4. PayloadOf(D, F, P, p, n, m, l, len, s, b)
      BY ONLY P \in Seq(DescLength), p \in Seq(Entries(Kinds)), m \in Nat, s \in Nat,
              <2>1, <2>2, <2>3, PayloadFacts
    <2> QED
      BY ONLY <2>4 DEF PayloadOf
  <1>5. HeadPut(D, F, p, q, s, i, b)
    BY <1>1, <1>4, PmtNumbers, ItemsHead
  <1>6. ProgIn(P, q) = ProgIn(P, p)
    <2>1. PICK T : T = Entries(Kinds)
      OBVIOUS
    <2>2. PICK x, y : x = Entry("item", i, header) /\ y = Entry("desc_loop_len", i, 0)
      OBVIOUS
    <2>3. x \in T /\ y \in T /\ ProgLen(P, x) = 0 /\ ProgLen(P, y) = 0
      <3>1. i \in Nat /\ 0 \in ui16 /\ "item" \in ItemKinds /\ "desc_loop_len" \in ItemKinds
        BY Ui16, ItemNumber DEF ItemKinds
      <3>2. x \in T /\ y \in T /\ x.kind = "item" /\ y.kind = "desc_loop_len"
        BY <2>1, <2>2, <3>1, PmtNumbers, ItemEntry
      <3> QED
        BY <3>2 DEF ProgLen, OwnLen
    <2>4. PICK r : r = Append(p, x)
      OBVIOUS
    <2>5. p \in Seq(T) /\ r \in Seq(T) /\ q = Append(r, y) /\ Len(r) = Len(p) + 1
          /\ r[Len(p) + 1] = x /\ \A k \in 1 .. Len(p) : r[k] = p[k]
      BY <2>1, <2>2, <2>3, <2>4 DEF PutItem
    <2>6. \A k \in 1 .. Len(r) : ProgLen(P, r[k]) \in Nat
      <3>1. ASSUME NEW k \in 1 .. Len(r) PROVE k \in 1 .. Len(p) \/ k = Len(p) + 1
        BY <2>5
      <3>2. ASSUME NEW k \in 1 .. Len(r) PROVE ProgLen(P, r[k]) \in Nat
        <4>1. CASE k \in 1 .. Len(p)
          <5>1. r[k] = p[k] /\ ProgLen(P, p[k]) \in Nat
            BY ONLY <1>4, <2>5, <4>1
          <5> QED
            BY ONLY <5>1
        <4>2. CASE k = Len(p) + 1
          BY ONLY <2>3, <2>5, <4>2
        <4> QED
          BY ONLY <3>1, <4>1, <4>2, k \in 1 .. Len(r)
      <3> QED
        BY ONLY <3>2
    <2>7. ProgIn(P, r) = ProgIn(P, p) + ProgLen(P, x)
      BY ONLY <1>4, <2>3, <2>4, <2>5, OwnAppend DEF ProgIn, ProgLen
    <2>8. ProgIn(P, q) = ProgIn(P, r) + ProgLen(P, y)
      <3>1. /\ r \in Seq(T) /\ y \in T /\ OwnLen("prog_desc", P, y) \in Nat
            /\ \A k \in 1 .. Len(r) : OwnLen("prog_desc", P, r[k]) \in Nat
        BY ONLY <2>3, <2>5, <2>6 DEF ProgLen
      <3>2. OwnIn("prog_desc", P, Append(r, y))
              = OwnIn("prog_desc", P, r) + OwnLen("prog_desc", P, y)
        BY ONLY <3>1, OwnAppend
      <3> QED
        BY ONLY <2>5, <3>2 DEF ProgIn, ProgLen
    <2> QED
      BY ONLY <1>4, <2>3, <2>7, <2>8
  <1>7. /\ m + 2 <= Len(q) /\ q[1] = p[1] /\ q[2] = p[2]
        /\ \A k \in 3 .. m + 2 : q[k] = p[k]
    <2>1. PICK e \in Nat : e = Len(p)
      OBVIOUS
    <2>2. Len(q) = e + 2 /\ (\A k \in 1 .. e : q[k] = p[k]) /\ m + 2 <= e
      BY <1>4, <1>5, <2>1 DEF HeadPut
    <2> QED
      BY ONLY m \in Nat, e \in Nat, <2>2
  <1>8. n + b = HEADER_LEN + 4 + ProgIn(P, q) + BytesIn(D, q, b)
    <2>1. PICK u, v : u = BytesIn(D, p, b) /\ v = ProgIn(P, p)
      OBVIOUS
    <2>2. u \in Nat /\ v \in Nat /\ BytesIn(D, q, b) = u + b /\ ProgIn(P, q) = v
      BY ONLY <1>4, <1>5, <1>6, <2>1 DEF HeadPut
    <2>3. n = HEADER_LEN + 4 + v + u
      BY ONLY <1>4, <2>1
    <2> QED
      BY ONLY b \in Nat, <2>2, <2>3 DEF HEADER_LEN
  <1>9. PmtPayload(D, F, P, q, n + b, m, Len(p) + 2, 0)
    <2>1. Loops(D, F, q, m + 3, Len(p) + 2, 0)
      BY <1>3, <1>5 DEF HeadPut
    <2>2. n + b = HEADER_LEN + 4 + ProgIn(P, q) + BytesIn(D, q, BASE_LEN)
      BY ONLY <1>3, <1>8
    <2>3. /\ q[1].kind = "pcr_pid" /\ q[2].kind = "prog_info_len"
          /\ \A k \in 3 .. m + 2 : q[k].kind = "prog_desc" /\ q[k].n \in DOMAIN P
      BY ONLY <1>4, <1>7
    <2> QED
      BY ONLY <1>7, <2>1, <2>2, <2>3 DEF PmtPayload
  <1>10. q[2].n = loopLen(ProgIn(P, q))
    BY ONLY <1>2, <1>6, <1>7
  <1> QED
    BY <1>3, <1>5, <1>9, <1>10 DEF Streams, HeadPut

\* What Streams says of a payload with m program descriptors, whose streams begin at s.
StreamsOf(D, F, P, p, n, l, len, m, s, b) ==
  /\ s = m + 3 /\ b = BASE_LEN /\ p[2].n = loopLen(ProgIn(P, p))
  /\ 1 <= s /\ s <= Len(p) + 1 /\ Loops(D, F, p, s, l, len)
  /\ m + 2 <= Len(p) /\ p[1].kind = "pcr_pid" /\ p[2].kind = "prog_info_len"
  /\ \A k \in 3 .. m + 2 : p[k].kind = "prog_desc" /\ p[k].n \in DOMAIN P
  /\ \A k \in 1 .. Len(p) : ProgLen(P, p[k]) \in Nat
  /\ ProgIn(P, p) \in Nat
  /\ n = HEADER_LEN + 4 + ProgIn(P, p) + BytesIn(D, p, b)

\* What all of them start from.
LEMMA StreamsFacts ==
  ASSUME NEW D, NEW F, NEW P \in Seq(DescLength), NEW p \in Seq(Entries(Kinds)),
         NEW n, NEW l, NEW len, Streams(D, F, P, p, n, l, len)
  PROVE  \E m, s, b \in Nat : StreamsOf(D, F, P, p, n, l, len, m, s, b)
  <1>1. PICK m \in Nat : PmtPayload(D, F, P, p, n, m, l, len) /\ p[2].n = loopLen(ProgIn(P, p))
    BY DEF Streams
  <1>2. PICK s \in Nat, b \in Nat : s = m + 3 /\ b = BASE_LEN
    BY DEF BASE_LEN
  <1>3. /\ 1 <= s /\ s <= Len(p) + 1 /\ Loops(D, F, p, s, l, len)
        /\ m + 2 <= Len(p) /\ p[1].kind = "pcr_pid" /\ p[2].kind = "prog_info_len"
        /\ \A k \in 3 .. m + 2 : p[k].kind = "prog_desc" /\ p[k].n \in DOMAIN P
        /\ \A k \in 1 .. Len(p) : ProgLen(P, p[k]) \in Nat
        /\ ProgIn(P, p) \in Nat
        /\ n = HEADER_LEN + 4 + ProgIn(P, p) + BytesIn(D, p, b)
    <2>1. PayloadOf(D, F, P, p, n, m, l, len, s, b)
      BY ONLY P \in Seq(DescLength), p \in Seq(Entries(Kinds)), m \in Nat, s \in Nat,
              <1>1, <1>2, PayloadFacts
    <2> QED
      BY ONLY <2>1 DEF PayloadOf
  <1> QED
    BY ONLY m \in Nat, s \in Nat, b \in Nat, <1>1, <1>2, <1>3 DEF StreamsOf

\* The loop that is open is in the payload, and its bytes among the payload's.
LEMMA StreamsOpen ==
  ASSUME NEW D, Descs(D), NEW F, NEW P \in Seq(DescLength), NEW p \in Seq(Entries(Kinds)),
         NEW n \in Nat, NEW l \in Nat, l # 0, NEW len, Streams(D, F, P, p, n, l, len)
  PROVE  l \in 1 .. Len(p) /\ len \in Nat /\ HEADER_LEN + 4 + len <= n
  <1>1. PICK m, s, b \in Nat : StreamsOf(D, F, P, p, n, l, len, m, s, b)
    BY ONLY P \in Seq(DescLength), p \in Seq(Entries(Kinds)), Streams(D, F, P, p, n, l, len),
            StreamsFacts
  <1>2. /\ 1 <= s /\ Loops(D, F, p, s, l, len) /\ ProgIn(P, p) \in Nat
        /\ n = HEADER_LEN + 4 + ProgIn(P, p) + BytesIn(D, p, b)
    BY ONLY <1>1 DEF StreamsOf
  <1>3. /\ l \in 1 .. Len(p) /\ len \in Nat
        /\ BytesIn(D, p, b) \in Nat /\ len <= BytesIn(D, p, b)
    BY <1>2, ItemsOpen
  <1> QED
    BY ONLY <1>2, <1>3 DEF HEADER_LEN

\* One of its descriptors.
LEMMA StreamsDesc ==
  ASSUME NEW D, Descs(D), NEW F, NEW P \in Seq(DescLength), NEW p \in Seq(Entries(Kinds)),
         NEW n \in Nat, NEW l \in Nat, l # 0, NEW len, Streams(D, F, P, p, n, l, len),
         NEW i \in DOMAIN D, NEW d \in DOMAIN D[i], d \in ui16, p[Len(p)].owner = i,
         NEW q, q = Append(p, Entry("desc", i, d))
  PROVE  Streams(D, F, P, q, n + D[i][d], l, len + D[i][d])
  <1>1. PICK m, s, b \in Nat : StreamsOf(D, F, P, p, n, l, len, m, s, b)
    BY ONLY P \in Seq(DescLength), p \in Seq(Entries(Kinds)), Streams(D, F, P, p, n, l, len),
            StreamsFacts
  <1>2. /\ s = m + 3 /\ b = BASE_LEN /\ p[2].n = loopLen(ProgIn(P, p))
        /\ 1 <= s /\ s <= Len(p) + 1 /\ Loops(D, F, p, s, l, len)
        /\ m + 2 <= Len(p) /\ p[1].kind = "pcr_pid" /\ p[2].kind = "prog_info_len"
        /\ \A k \in 3 .. m + 2 : p[k].kind = "prog_desc" /\ p[k].n \in DOMAIN P
        /\ \A k \in 1 .. Len(p) : ProgLen(P, p[k]) \in Nat
        /\ ProgIn(P, p) \in Nat
        /\ n = HEADER_LEN + 4 + ProgIn(P, p) + BytesIn(D, p, b)
    BY ONLY <1>1 DEF StreamsOf
  <1>3. DescPut(D, F, p, q, s, l, len, i, d, b)
    BY <1>2, PmtNumbers, ItemsDesc
  <1>4. ProgIn(P, q) = ProgIn(P, p)
    <2>1. PICK T, x : T = Entries(Kinds) /\ x = Entry("desc", i, d)
      OBVIOUS
    <2>2. x \in T /\ ProgLen(P, x) = 0
      <3>1. i \in Nat /\ "desc" \in ItemKinds
        BY ItemNumber DEF ItemKinds
      <3>2. x \in T /\ x.kind = "desc"
        BY <2>1, <3>1, PmtNumbers, ItemEntry
      <3> QED
        BY <3>2 DEF ProgLen, OwnLen
    <2>3. p \in Seq(T) /\ q = Append(p, x)
      BY <2>1
    <2>4. (\A k \in 1 .. Len(p) : ProgLen(P, p[k]) \in Nat) /\ ProgLen(P, x) \in Nat
      BY ONLY <1>2, <2>2
    <2>5. ProgIn(P, q) = ProgIn(P, p) + ProgLen(P, x)
      BY ONLY <2>2, <2>3, <2>4, OwnAppend DEF ProgIn, ProgLen
    <2> QED
      BY ONLY <1>2, <2>2, <2>5
  <1>5. /\ m + 2 <= Len(q) /\ q[1] = p[1] /\ q[2] = p[2]
        /\ \A k \in 3 .. m + 2 : q[k] = p[k]
    <2>1. PICK e \in Nat : e = Len(p)
      OBVIOUS
    <2>2. Len(q) = e + 1 /\ (\A k \in 1 .. e : q[k] = p[k]) /\ m + 2 <= e
      BY <1>2, <1>3, <2>1 DEF DescPut
    <2> QED
      BY ONLY m \in Nat, e \in Nat, <2>2
  <1>6. n + D[i][d] = HEADER_LEN + 4 + ProgIn(P, q) + BytesIn(D, q, b)
    <2>1. PICK u, v, x : u = BytesIn(D, p, b) /\ v = ProgIn(P, p) /\ x = D[i][d]
      OBVIOUS
    <2>2. /\ u \in Nat /\ v \in Nat /\ x \in Nat
          /\ BytesIn(D, q, b) = u + x /\ ProgIn(P, q) = v
      BY ONLY <1>2, <1>3, <1>4, <2>1 DEF DescPut
    <2>3. n = HEADER_LEN + 4 + v + u
      BY ONLY <1>2, <2>1
    <2> QED
      BY ONLY <2>1, <2>2, <2>3 DEF HEADER_LEN
  <1>7. PmtPayload(D, F, P, q, n + D[i][d], m, l, len + D[i][d])
    <2>1. Loops(D, F, q, m + 3, l, len + D[i][d])
      BY <1>2, <1>3 DEF DescPut
    <2>2. n + D[i][d] = HEADER_LEN + 4 + ProgIn(P, q) + BytesIn(D, q, BASE_LEN)
      BY ONLY <1>2, <1>6
    <2>3. /\ q[1].kind = "pcr_pid" /\ q[2].kind = "prog_info_len"
          /\ \A k \in 3 .. m + 2 : q[k].kind = "prog_desc" /\ q[k].n \in DOMAIN P
      BY ONLY <1>2, <1>5
    <2> QED
      BY ONLY <1>5, <2>1, <2>2, <2>3 DEF PmtPayload
  <1>8. q[2].n = loopLen(ProgIn(P, q))
    BY ONLY <1>2, <1>4, <1>5
  <1> QED
    BY ONLY m \in Nat, <1>7, <1>8 DEF Streams

\* The loop closed: its word is of all its bytes.
LEMMA StreamsPatch ==
  ASSUME NEW D, Descs(D), NEW F, NEW P \in Seq(DescLength), NEW p \in Seq(Entries(Kinds)),
         NEW n, NEW l \in Nat, l # 0, NEW len \in Nat, Streams(D, F, P, p, n, l, len),
         NEW w, w = F[p[l].owner][len], NEW q \in Seq(Entries(Kinds)), q = [p EXCEPT ![l].n = w]
  PROVE  Streams(D, F, P, q, n, 0, 0)
  <1>1. PICK m, s, b \in Nat : StreamsOf(D, F, P, p, n, l, len, m, s, b)
    BY ONLY P \in Seq(DescLength), p \in Seq(Entries(Kinds)), Streams(D, F, P, p, n, l, len),
            StreamsFacts
  <1>2. /\ s = m + 3 /\ b = BASE_LEN /\ p[2].n = loopLen(ProgIn(P, p))
        /\ 1 <= s /\ s <= Len(p) + 1 /\ Loops(D, F, p, s, l, len)
        /\ m + 2 <= Len(p) /\ p[1].kind = "pcr_pid" /\ p[2].kind = "prog_info_len"
        /\ \A k \in 3 .. m + 2 : p[k].kind = "prog_desc" /\ p[k].n \in DOMAIN P
        /\ \A k \in 1 .. Len(p) : ProgLen(P, p[k]) \in Nat
        /\ ProgIn(P, p) \in Nat
        /\ n = HEADER_LEN + 4 + ProgIn(P, p) + BytesIn(D, p, b)
    BY ONLY <1>1 DEF StreamsOf
  <1>3. WordPut(D, F, p, q, s, l, b)
    BY <1>2, ItemsPatch
  <1>4. l \in s .. Len(p) /\ p[l].kind = "desc_loop_len"
    BY ONLY <1>2, l \in Nat, l # 0 DEF Loops
  <1>5. PICK e \in Nat : e = Len(p)
    OBVIOUS
  <1>6. /\ Len(q) = e /\ m + 2 <= e /\ l \in m + 3 .. e
        /\ \A k \in 1 .. e : /\ q[k].kind = p[k].kind /\ q[k].owner = p[k].owner
                             /\ k # l => q[k].n = p[k].n
    BY <1>2, <1>3, <1>4, <1>5 DEF WordPut
  <1>7. ASSUME NEW k \in 1 .. e
         PROVE  q[k].kind = p[k].kind /\ (k # l => q[k].n = p[k].n)
    BY ONLY k \in 1 .. e, <1>6
  <1>8. ProgIn(P, q) = ProgIn(P, p)
    <2>1. DOMAIN p = 1 .. e /\ DOMAIN q = 1 .. e
      BY <1>5, <1>6
    <2>2. ASSUME NEW k \in 1 .. e
          PROVE  ProgLen(P, q[k]) = ProgLen(P, p[k])
      <3>1. CASE k = l
        <4>1. q[k].kind # "prog_desc" /\ p[k].kind # "prog_desc"
          BY ONLY k \in 1 .. e, <1>4, <1>7, <3>1
        <4> QED
          BY ONLY <4>1 DEF ProgLen, OwnLen
      <3>2. CASE k # l
        <4>1. q[k].kind = p[k].kind /\ q[k].n = p[k].n
          BY ONLY k \in 1 .. e, <1>7, <3>2
        <4> QED
          BY ONLY <4>1 DEF ProgLen, OwnLen
      <3> QED
        BY ONLY <3>1, <3>2
    <2> QED
      BY ONLY <2>1, <2>2, OwnSame DEF ProgIn, ProgLen
  <1>9. /\ q[1].kind = "pcr_pid" /\ q[2].kind = "prog_info_len" /\ q[2].n = p[2].n
        /\ \A k \in 3 .. m + 2 : q[k].kind = "prog_desc" /\ q[k].n \in DOMAIN P
    <2>1. ASSUME NEW k \in 1 .. m + 2
          PROVE  k \in 1 .. e /\ k # l
      BY ONLY m \in Nat, e \in Nat, l \in Nat, k \in 1 .. m + 2, <1>6
    <2>2. 1 \in 1 .. m + 2 /\ 2 \in 1 .. m + 2
      OBVIOUS
    <2>3. /\ q[1].kind = p[1].kind /\ q[2].kind = p[2].kind /\ q[2].n = p[2].n
          /\ \A k \in 1 .. m + 2 : q[k].kind = p[k].kind /\ q[k].n = p[k].n
      BY ONLY <1>7, <2>1, <2>2
    <2>4. ASSUME NEW k \in 3 .. m + 2 PROVE k \in 1 .. m + 2
      OBVIOUS
    <2>5. ASSUME NEW k \in 3 .. m + 2
          PROVE  q[k].kind = "prog_desc" /\ q[k].n \in DOMAIN P
      <3>1. p[k].kind = "prog_desc" /\ p[k].n \in DOMAIN P
        BY ONLY <1>2, k \in 3 .. m + 2
      <3> QED
        BY ONLY <2>3, <2>4, <3>1, k \in 3 .. m + 2
    <2> QED
      BY ONLY <1>2, <2>3, <2>5
  <1>10. n = HEADER_LEN + 4 + ProgIn(P, q) + BytesIn(D, q, BASE_LEN)
    BY ONLY <1>2, <1>3, <1>8 DEF WordPut
  <1>11. PmtPayload(D, F, P, q, n, m, 0, 0)
    <2>1. Loops(D, F, q, m + 3, 0, 0) /\ m + 2 <= Len(q)
      BY ONLY <1>2, <1>3, <1>6 DEF WordPut
    <2> QED
      BY ONLY <1>9, <1>10, <2>1 DEF PmtPayload
  <1>12. q[2].n = loopLen(ProgIn(P, q))
    BY ONLY <1>2, <1>8, <1>9
  <1> QED
    BY ONLY m \in Nat, <1>11, <1>12 DEF Streams
-----------------------------------------------------------------------------
(* What keeps LoadInv.                                                     *)

\* The parts of it.
LEMMA LoadFacts ==
  ASSUME BaseInv, LoadInv, NEW D, NEW F, NEW P, D = Descriptors, F = LoopWords, P = prog_desc
  PROVE  /\ OpenInv /\ PayloadInv(D, F, P) /\ P \in Seq(DescLength)
         /\ Descs(D) /\ DOMAIN D = DOMAIN items
         /\ \A i \in DOMAIN items : /\ D[i] = items[i].descriptors
                                    /\ \A n \in ui16 : F[i][n] = loopLen(n)
  <1>1. ExtInv /\ PmtTypes
    BY BaseFacts
  <1>2. Descs(D) /\ DOMAIN D = DOMAIN items /\ \A i \in DOMAIN items : D[i] = items[i].descriptors
    BY <1>1, DescriptorsType
  <1>3. \A i \in DOMAIN items : \A n \in ui16 : F[i][n] = loopLen(n)
    BY DEF LoopWords
  <1>4. OpenInv /\ PayloadInv(D, F, P)
    BY DEF LoadInv
  <1> QED
    BY <1>1, <1>2, <1>3, <1>4 DEF PmtTypes

\* No loop is open unless a stream is being written.
LEMMA NoneOpen ==
  ASSUME OpenInv, state # "ABORTED", ~Writing
  PROVE  (\A i \in DOMAIN items : ~Open(i)) /\ desc_loop = NoLoop
  BY DEF OpenInv

\* Then none need be in the next state.
LEMMA NoneOpenNext ==
  ASSUME BaseInv', \A i \in DOMAIN items' : ~Open(i)', desc_loop' = NoLoop
  PROVE  OpenInv'
  <1>1. ASSUME Writing' PROVE run'.es \in DOMAIN items'
    <2>1. /\ run' \in RunSet(Len(prog_desc'), Len(items')) /\ Control' /\ ExtInv'
          /\ Len(prog_desc') \in Nat
      BY DEF BaseInv, PmtTypes
    <2>2. /\ run'.es # 0 /\ Len(items') \in Nat /\ DOMAIN items' = 1 .. Len(items')
      BY <1>1, <2>1 DEF Control, Writing, ExtInv
    <2>3. run'.es \in 0 .. Len(items')
      BY <2>1, <2>2, RunFields
    <2> QED
      BY <2>2, <2>3
  <1> QED
    BY <1>1 DEF OpenInv

\* The process dies.
LEMMA AbortLoad ==
  ASSUME state' = "ABORTED"
  PROVE  LoadInv'
  <1>1. OpenInv'
    BY DEF OpenInv
  <1>2. PICK D, F, P : D = Descriptors' /\ F = LoopWords' /\ P = prog_desc'
    OBVIOUS
  <1>3. PayloadInv(D, F, P)'
    BY DEF PayloadInv, SectionsIn
  <1> QED
    BY <1>1, <1>2, <1>3 DEF LoadInv

\* No section is being written.
LEMMA QuietLoad ==
  ASSUME NEW D, NEW F, NEW P, D = Descriptors', F = LoopWords', P = prog_desc', BaseInv',
         \A i \in DOMAIN items' : ~Open(i)', desc_loop' = NoLoop,
         SectionsIn(Complete(D, F, P))', state' = "WRITE_SEC" => cur'.data_length = 0
  PROVE  LoadInv'
  <1>1. PayloadInv(D, F, P)'
    BY DEF PayloadInv
  <1> QED
    BY <1>1, NoneOpenNext DEF LoadInv

\* A section is left.
LEMMA ReturnLoad ==
  ASSUME BaseInv, BaseInv', state = "WRITE_SEC", cur.data_length # 0,
         NEW D, NEW F, NEW P, D = Descriptors', F = LoopWords', P = prog_desc',
         \A i \in DOMAIN items' : ~Open(i)', desc_loop' = NoLoop,
         SectionsIn(Complete(D, F, P)), NEW s \in Sections(Entries(Kinds)),
         s.data_length = cur.data_length, NEW done \in BOOLEAN,
         WriteSecReturn(done, s, sec_bytes, D_BIT),
         Streams(D, F, P, s.payload, s.data_length, 0, 0)
  PROVE  LoadInv'
  <1>1. PICK C : C = Complete(D, F, P)
    OBVIOUS
  <1>2. What(s) \in C
    <2>1. s.payload \in Seq(Entries(Kinds)) /\ s.data_length \in Nat
      BY SectionFieldTypes
    <2>2. PICK w : w = << s.payload, s.data_length >>
      OBVIOUS
    <2>3. w \in Seq(Entries(Kinds)) \X Nat /\ w[1] = s.payload /\ w[2] = s.data_length
      BY <2>1, <2>2
    <2> QED
      BY <1>1, <2>2, <2>3 DEF What, Complete
  <1>3. SectionsIn(C) /\ DriverInv(Entries(Kinds), D_BIT) /\ D_BIT \in {0, 1}
    BY <1>1, BaseFacts, PmtNumbers
  <1>4. SectionsIn(C)' /\ state' = IF done THEN "END_TABLE" ELSE "MALLOC_SEC"
    BY <1>2, <1>3, SectionsInReturn
  <1>5. state' # "WRITE_SEC"
    BY <1>4
  <1> QED
    BY <1>1, <1>4, <1>5, QuietLoad

\* What a section that is being written says.
CurSays(D, F, P) ==
  IF run.op_state \in {"GET_PROG_DESC", "WRITE_PROG_DESC"}
  THEN Progs(D, F, P, cur.payload, cur.data_length, info)
  ELSE Streams(D, F, P, cur.payload, cur.data_length, desc_loop.pos, desc_loop.len)

\* The section goes on.
LEMMA ContinueLoad ==
  ASSUME BaseInv, state = "WRITE_SEC", state' = "WRITE_SEC", OnlyCur, OpenInv',
         NEW D, NEW F, NEW P, D = Descriptors', F = LoopWords', P = prog_desc',
         SectionsIn(Complete(D, F, P)), CurSays(D, F, P)'
  PROVE  LoadInv'
  <1>1. PICK C : C = Complete(D, F, P)
    OBVIOUS
  <1>2. SectionsIn(C)'
    BY <1>1, BaseFacts, SectionsInContinue
  <1>3. PayloadInv(D, F, P)'
    BY <1>1, <1>2 DEF PayloadInv, CurSays
  <1> QED
    BY <1>3 DEF LoadInv
-----------------------------------------------------------------------------
(* The steps of writeSection.                                              *)

\* What a step starts from, with what the lists say.
LEMMA LoadParts ==
  ASSUME BaseInv, LoadInv
  PROVE  \E D, F, P : /\ D = Descriptors /\ F = LoopWords /\ P = prog_desc
                      /\ Descs(D) /\ P \in Seq(DescLength)
                      /\ SectionsIn(Complete(D, F, P))
                      /\ state = "WRITE_SEC" /\ cur.data_length # 0 => CurSays(D, F, P)
  <1>1. PICK D, F, P : D = Descriptors /\ F = LoopWords /\ P = prog_desc
    OBVIOUS
  <1>2. PayloadInv(D, F, P) /\ P \in Seq(DescLength) /\ Descs(D)
    BY <1>1, LoadFacts
  <1>3. /\ SectionsIn(Complete(D, F, P))
        /\ state = "WRITE_SEC" /\ cur.data_length # 0 => CurSays(D, F, P)
    BY <1>2 DEF PayloadInv, CurSays
  <1> QED
    BY <1>1, <1>2, <1>3

\* The header of a section.
LEMMA WriteHeadLoad ==
  ASSUME BaseInv, LoadInv, WriteHead
  PROVE  LoadInv'
  <1>1. CASE state' = "ABORTED"
    BY <1>1, AbortLoad
  <1>2. CASE state' # "ABORTED"
    <2>1. PICK D, F, P : /\ D = Descriptors /\ F = LoopWords /\ P = prog_desc
                         /\ Descs(D) /\ SectionsIn(Complete(D, F, P))
      BY LoadParts
    <2>2. PICK x, y : x = Entry("pcr_pid", 0, 0) /\ y = Entry("prog_info_len", 0, 0)
      OBVIOUS
    <2>3. /\ BaseInv' /\ state' = "WRITE_SEC" /\ OnlyCur
          /\ cur'.payload = Append(Append(<< >>, x), y)
          /\ cur'.data_length = HEADER_LEN + 4
          /\ info' = [pos |-> 2, len |-> 0]
          /\ run'.op_state \in {"GET_PROG_DESC", "WRITE_PROG_DESC"}
      BY <1>2, <2>2, WriteHeadBase
    <2>4. /\ state = "WRITE_SEC" /\ run.op_state \in {"INIT", "WRITE_HEAD"}
          /\ items' = items /\ desc_loop' = desc_loop /\ prog_desc' = prog_desc
      BY DEF WriteHead, extVars, table
    <2>5. (\A i \in DOMAIN items : ~Open(i)) /\ desc_loop = NoLoop
      BY <2>4, NoneOpen DEF LoadInv, Writing
    <2>6. D = Descriptors' /\ F = LoopWords' /\ P = prog_desc'
      BY <2>1, <2>4 DEF Descriptors, LoopWords
    <2>7. OpenInv'
      <3>1. \A i \in DOMAIN items' : ~Open(i)'
        BY <2>4, <2>5 DEF Open
      <3> QED
        BY <2>3, <2>4, <2>5, <3>1, NoneOpenNext
    <2>8. Progs(D, F, P, cur'.payload, HEADER_LEN + 4, [pos |-> 2, len |-> 0])
      <3>1. x \in Entries(Kinds) /\ y \in Entries(Kinds)
        BY <2>2, Ui16 DEF Entry, Entries, Kinds
      <3>2. x.kind = "pcr_pid" /\ y.kind = "prog_info_len"
        BY <2>2 DEF Entry
      <3> QED
        BY <2>1, <2>3, <3>1, <3>2, ProgsHead
    <2>9. CurSays(D, F, P)'
      BY <2>3, <2>8 DEF CurSays
    <2> QED
      BY <2>1, <2>3, <2>4, <2>6, <2>7, <2>9, ContinueLoad
  <1> QED
    BY <1>1, <1>2

\* The length of the program descriptors' loop is stored.
LEMMA GetProgDescLoad ==
  ASSUME BaseInv, LoadInv, GetProgDescFull \/ GetProgDescFits \/ NoMoreProgDescs
  PROVE  LoadInv'
  <1>1. PICK s : s = infoStored
    OBVIOUS
  <1>2. /\ BaseInv' /\ state = "WRITE_SEC" /\ run.op_state = "GET_PROG_DESC"
        /\ s \in Sections(Entries(Kinds))
        /\ s.data_length = cur.data_length
        /\ s.payload = [cur.payload EXCEPT ![info.pos].n = loopLen(info.len)]
        /\ cur.data_length # 0
        /\ UNCHANGED << prog_desc, items, desc_loop >>
        /\ \/ WriteSecReturn(FALSE, s, sec_bytes, D_BIT) /\ state' = "MALLOC_SEC"
           \/ /\ cur' = s /\ state' = "WRITE_SEC" /\ OnlyCur /\ info' = info
              /\ \/ run'.op_state = "WRITE_PROG_DESC"
                 \/ run'.op_state \in {"GET_XPORT_STREAM", "WRITE_XPORT_STREAM"}
    BY <1>1, GetProgDescBase
  <1>3. PICK D, F, P : /\ D = Descriptors /\ F = LoopWords /\ P = prog_desc
                       /\ P \in Seq(DescLength) /\ SectionsIn(Complete(D, F, P))
                       /\ CurSays(D, F, P)
    BY <1>2, LoadParts
  <1>4. (\A i \in DOMAIN items : ~Open(i)) /\ desc_loop = NoLoop
    BY <1>2, NoneOpen DEF LoadInv, Writing
  <1>5. /\ D = Descriptors' /\ F = LoopWords' /\ P = prog_desc'
        /\ (\A i \in DOMAIN items' : ~Open(i)') /\ desc_loop' = NoLoop
    BY <1>2, <1>3, <1>4 DEF Descriptors, LoopWords, Open
  <1>6. /\ Progs(D, F, P, s.payload, s.data_length, info)
        /\ Streams(D, F, P, s.payload, s.data_length, 0, 0)
    <2>1. PICK p, q, n, c : /\ p = cur.payload /\ q = s.payload
                            /\ n = cur.data_length /\ c = info
      OBVIOUS
    <2>2. /\ p \in Seq(Entries(Kinds)) /\ q \in Seq(Entries(Kinds))
          /\ q = [p EXCEPT ![c.pos].n = loopLen(c.len)] /\ Progs(D, F, P, p, n, c)
      <3>1. p \in Seq(Entries(Kinds))
        <4>1. state = "WRITE_SEC" /\ run.op_state \notin {"INIT", "WRITE_HEAD"}
          BY <1>2
        <4>2. cur.payload \in Seq(Entries(Kinds))
          BY ONLY BaseInv, <4>1, HeadedFacts
        <4> QED
          BY ONLY <2>1, <4>2
      <3>2. q \in Seq(Entries(Kinds))
        <4>1. s \in Sections(Entries(Kinds))
          BY <1>2
        <4>2. s.payload \in Seq(Entries(Kinds))
          BY ONLY <4>1, SectionFieldTypes
        <4> QED
          BY ONLY <2>1, <4>2
      <3>3. q = [p EXCEPT ![c.pos].n = loopLen(c.len)]
        BY <1>2, <2>1
      <3>4. Progs(D, F, P, p, n, c)
        BY <1>2, <1>3, <2>1 DEF CurSays
      <3> QED
        BY <3>1, <3>2, <3>3, <3>4
    <2>3. Progs(D, F, P, q, n, c) /\ Streams(D, F, P, q, n, 0, 0)
      <3>1. P \in Seq(DescLength)
        BY <1>3
      <3> QED
        BY ONLY <2>2, <3>1, ProgsStored
    <2> QED
      BY <1>2, <2>1, <2>3
  <1>7. CASE WriteSecReturn(FALSE, s, sec_bytes, D_BIT)
    <2>1. PICK done \in BOOLEAN : done = FALSE
      OBVIOUS
    <2>2. WriteSecReturn(done, s, sec_bytes, D_BIT)
      BY <1>7, <2>1
    <2> QED
      BY <1>2, <1>3, <1>5, <1>6, <2>2, ReturnLoad
  <1>8. CASE /\ cur' = s /\ state' = "WRITE_SEC" /\ OnlyCur /\ info' = info
             /\ \/ run'.op_state = "WRITE_PROG_DESC"
                \/ run'.op_state \in {"GET_XPORT_STREAM", "WRITE_XPORT_STREAM"}
    <2>1. OpenInv'
      BY <1>2, <1>5, NoneOpenNext
    <2>2. CurSays(D, F, P)'
      <3>1. desc_loop'.pos = 0 /\ desc_loop'.len = 0
        BY <1>5 DEF NoLoop
      <3> QED
        BY <1>6, <1>8, <3>1 DEF CurSays
    <2> QED
      BY <1>2, <1>3, <1>5, <1>8, <2>1, <2>2, ContinueLoad
  <1> QED
    BY <1>2, <1>7, <1>8

\* A program descriptor.
LEMMA WriteProgDescLoad ==
  ASSUME BaseInv, LoadInv, WriteProgDesc
  PROVE  LoadInv'
  <1>1. PICK d : d = run.pd
    OBVIOUS
  <1>2. /\ BaseInv' /\ state = "WRITE_SEC" /\ run.op_state = "WRITE_PROG_DESC"
        /\ UNCHANGED << prog_desc, items, desc_loop >>
        /\ d \in DOMAIN prog_desc
        /\ \/ state' = "ABORTED"
           \/ /\ state' = "WRITE_SEC" /\ OnlyCur
              /\ cur'.payload = Append(cur.payload, Entry("prog_desc", 0, d))
              /\ Entry("prog_desc", 0, d) \in Entries(Kinds)
              /\ cur'.data_length = cur.data_length + prog_desc[d]
              /\ info' = [pos |-> info.pos, len |-> (info.len + prog_desc[d]) % 65536]
              /\ run'.op_state = "GET_PROG_DESC"
    BY <1>1, WriteProgDescBase
  <1>3. CASE state' = "ABORTED"
    BY <1>3, AbortLoad
  <1>4. CASE state' # "ABORTED"
    <2>1. PICK p, n, c, x : /\ p = cur.payload /\ n = cur.data_length /\ c = info
                            /\ x = Entry("prog_desc", 0, d)
      OBVIOUS
    <2>2. cur.data_length # 0 /\ p \in Seq(Entries(Kinds)) /\ n \in Nat
      BY <1>2, <2>1, HeadedFacts
    <2>3. PICK D, F, P : /\ D = Descriptors /\ F = LoopWords /\ P = prog_desc /\ Descs(D)
                         /\ P \in Seq(DescLength) /\ SectionsIn(Complete(D, F, P))
                         /\ CurSays(D, F, P)
      BY <1>2, <2>2, LoadParts
    <2>4. (\A i \in DOMAIN items : ~Open(i)) /\ desc_loop = NoLoop
      BY <1>2, NoneOpen DEF LoadInv, Writing
    <2>5. /\ D = Descriptors' /\ F = LoopWords' /\ P = prog_desc'
          /\ (\A i \in DOMAIN items' : ~Open(i)') /\ desc_loop' = NoLoop
      BY <1>2, <2>3, <2>4 DEF Descriptors, LoopWords, Open
    <2>6. n + P[d] < 65536
      BY <1>2, <1>4, <2>1, <2>3, BaseFacts, CurWidth DEF BaseInv
    <2>7. /\ Progs(D, F, P, p, n, c) /\ d \in DOMAIN P /\ x \in Entries(Kinds)
          /\ cur'.payload = Append(p, x)
      BY <1>2, <1>4, <2>1, <2>3 DEF CurSays
    <2>8. PICK q, z, y : q = cur'.payload /\ z = cur'.data_length /\ y = info'
      OBVIOUS
    <2>9. Progs(D, F, P, q, z, y)
      <3>1. PICK v : v = P[d]
        OBVIOUS
      <3>2. ProgPut(p, n, c, d, v, q, z, y)
        BY <1>2, <1>4, <2>1, <2>3, <2>6, <2>7, <2>8, <3>1 DEF ProgPut
      <3>3. /\ Descs(D) /\ P \in Seq(DescLength) /\ d \in DOMAIN P
            /\ Progs(D, F, P, p, n, c) /\ ProgPut(p, n, c, d, P[d], q, z, y)
        BY <2>3, <2>7, <3>1, <3>2
      <3> QED
        BY ONLY <2>2, <3>3, ProgsDesc
    <2>10. CurSays(D, F, P)'
      BY <1>2, <1>4, <2>8, <2>9 DEF CurSays
    <2>11. OpenInv'
      BY <1>2, <2>5, NoneOpenNext
    <2> QED
      BY <1>2, <1>4, <2>3, <2>5, <2>10, <2>11, ContinueLoad
  <1> QED
    BY <1>3, <1>4

\* The next stream.
LEMMA GetStreamLoad ==
  ASSUME BaseInv, LoadInv, GetStreamFull \/ GetStreamFits \/ GetStreamEnd
  PROVE  LoadInv'
  <1>1. /\ BaseInv' /\ state = "WRITE_SEC" /\ run.op_state = "GET_XPORT_STREAM"
        /\ cur.data_length # 0
        /\ UNCHANGED << prog_desc, items, desc_loop >>
        /\ \/ \E done \in BOOLEAN : WriteSecReturn(done, cur, sec_bytes, D_BIT)
           \/ /\ UNCHANGED << driver, info >> /\ cur' = cur /\ state' = "WRITE_SEC"
              /\ run'.op_state = "WRITE_XPORT_STREAM"
    BY GetStreamBase
  <1>2. PICK D, F, P : /\ D = Descriptors /\ F = LoopWords /\ P = prog_desc
                       /\ SectionsIn(Complete(D, F, P)) /\ CurSays(D, F, P)
    BY <1>1, LoadParts
  <1>3. (\A i \in DOMAIN items : ~Open(i)) /\ desc_loop = NoLoop
    BY <1>1, NoneOpen DEF LoadInv, Writing
  <1>4. /\ D = Descriptors' /\ F = LoopWords' /\ P = prog_desc'
        /\ (\A i \in DOMAIN items' : ~Open(i)') /\ desc_loop' = NoLoop
    BY <1>1, <1>2, <1>3 DEF Descriptors, LoopWords, Open
  <1>5. Streams(D, F, P, cur.payload, cur.data_length, 0, 0)
    <2>1. desc_loop.pos = 0 /\ desc_loop.len = 0
      BY <1>3 DEF NoLoop
    <2> QED
      BY <1>1, <1>2, <2>1 DEF CurSays
  <1>6. CASE \E done \in BOOLEAN : WriteSecReturn(done, cur, sec_bytes, D_BIT)
    <2>1. PICK done \in BOOLEAN : WriteSecReturn(done, cur, sec_bytes, D_BIT)
      BY <1>6
    <2>2. PICK s : s = cur
      OBVIOUS
    <2>3. s \in Sections(Entries(Kinds)) /\ s.data_length = cur.data_length
      BY <1>1, <2>2, HeadedFacts
    <2>4. /\ WriteSecReturn(done, s, sec_bytes, D_BIT)
          /\ Streams(D, F, P, s.payload, s.data_length, 0, 0)
      BY <1>5, <2>1, <2>2
    <2> QED
      BY <1>1, <1>2, <1>4, <2>3, <2>4, ReturnLoad
  <1>7. CASE /\ UNCHANGED << driver, info >> /\ cur' = cur /\ state' = "WRITE_SEC"
             /\ run'.op_state = "WRITE_XPORT_STREAM"
    <2>1. OnlyCur
      BY <1>7 DEF driver, OnlyCur
    <2>2. OpenInv'
      BY <1>1, <1>4, NoneOpenNext
    <2>3. CurSays(D, F, P)'
      <3>1. desc_loop'.pos = 0 /\ desc_loop'.len = 0
        BY <1>4 DEF NoLoop
      <3> QED
        BY <1>5, <1>7, <3>1 DEF CurSays
    <2> QED
      BY <1>1, <1>2, <1>4, <1>7, <2>1, <2>2, <2>3, ContinueLoad
  <1> QED
    BY <1>1, <1>6, <1>7

\* What a step of the stream being written starts from, and what it keeps.
LEMMA StreamLoad ==
  ASSUME BaseInv, LoadInv, At("WRITE_XPORT_STREAM"), NEW i, i = run.es, OnlyRun(i),
         prog_desc' = prog_desc,
         NEW D, NEW F, NEW P, D = Descriptors, F = LoopWords, P = prog_desc
  PROVE  /\ state = "WRITE_SEC" /\ cur.data_length # 0
         /\ i \in DOMAIN items /\ DOMAIN items' = DOMAIN items
         /\ \A j \in DOMAIN items' : j # i => ~Open(j)'
         /\ D = Descriptors' /\ F = LoopWords' /\ P = prog_desc' /\ P \in Seq(DescLength)
         /\ Descs(D) /\ i \in DOMAIN D /\ D[i] = items[i].descriptors
         /\ \A n \in ui16 : F[i][n] = loopLen(n)
         /\ SectionsIn(Complete(D, F, P))
         /\ cur.payload \in Seq(Entries(Kinds)) /\ cur.data_length \in Nat
         /\ Streams(D, F, P, cur.payload, cur.data_length, desc_loop.pos, desc_loop.len)
         /\ ~Open(i) => desc_loop = NoLoop
         /\ Open(i) => /\ desc_loop.pos \in Nat /\ desc_loop.pos # 0 /\ desc_loop.len \in ui16
                       /\ cur.payload[desc_loop.pos].owner = i
                       /\ cur.payload[Len(cur.payload)].owner = i
  <1>1. /\ ExtInv /\ state = "WRITE_SEC" /\ run.op_state = "WRITE_XPORT_STREAM"
        /\ i \in DOMAIN items /\ cur.data_length # 0
    BY StreamFacts
  <1>2. cur.payload \in Seq(Entries(Kinds)) /\ cur.data_length \in Nat
    BY <1>1, HeadedFacts
  <1>3. /\ OpenInv /\ PayloadInv(D, F, P) /\ P \in Seq(DescLength)
        /\ Descs(D) /\ i \in DOMAIN D /\ D[i] = items[i].descriptors
        /\ \A n \in ui16 : F[i][n] = loopLen(n)
    BY <1>1, LoadFacts
  <1>4. /\ SectionsIn(Complete(D, F, P))
        /\ Streams(D, F, P, cur.payload, cur.data_length, desc_loop.pos, desc_loop.len)
    BY <1>1, <1>3 DEF PayloadInv
  <1>5. /\ items' \in Seq([id : ui16, descriptors : Seq(DescLength), run : Runs])
        /\ Len(items') = Len(items)
        /\ \A j \in DOMAIN items : /\ items'[j].descriptors = items[j].descriptors
                                   /\ j # i => items'[j] = items[j]
    BY DEF OnlyRun
  <1>6. Descriptors' = Descriptors /\ LoopWords' = LoopWords /\ DOMAIN items' = DOMAIN items
    BY <1>1, <1>5, SameLoops
  <1>7. Writing
    BY <1>1 DEF Writing
  <1>8. \A j \in DOMAIN items' : j # i => ~Open(j)'
    <2>1. \A j \in DOMAIN items : j # i => ~Open(j)
      BY <1>1, <1>3, <1>7 DEF OpenInv
    <2> QED
      BY <1>5, <1>6, <2>1 DEF Open
  <1>9. /\ ~Open(i) => desc_loop = NoLoop
        /\ Open(i) => /\ desc_loop.pos # 0 /\ cur.payload[desc_loop.pos].owner = i
                      /\ cur.payload[Len(cur.payload)].owner = i
    BY <1>1, <1>3, <1>7 DEF OpenInv
  <1>10. desc_loop.pos \in Nat /\ desc_loop.len \in ui16
    BY <1>1 DEF ExtInv
  <1> QED
    BY <1>1, <1>2, <1>3, <1>4, <1>6, <1>8, <1>9, <1>10

\* It stays with the table, its loop open.
LEMMA StreamGoesOn ==
  ASSUME BaseInv, LoadInv, At("WRITE_XPORT_STREAM"), NEW i, i = run.es, OnlyRun(i),
         prog_desc' = prog_desc, run' = run, state' = "WRITE_SEC", OnlyCur, Open(i)',
         NEW D, NEW F, NEW P, D = Descriptors, F = LoopWords, P = prog_desc,
         NEW q, q = cur'.payload, desc_loop'.pos # 0,
         q[desc_loop'.pos].owner = i, q[Len(q)].owner = i,
         Streams(D, F, P, q, cur'.data_length, desc_loop'.pos, desc_loop'.len)
  PROVE  LoadInv'
  <1>1. /\ state = "WRITE_SEC" /\ i \in DOMAIN items /\ DOMAIN items' = DOMAIN items
        /\ \A j \in DOMAIN items' : j # i => ~Open(j)'
        /\ D = Descriptors' /\ F = LoopWords' /\ P = prog_desc'
        /\ SectionsIn(Complete(D, F, P))
    BY StreamLoad
  <1>2. run.op_state = "WRITE_XPORT_STREAM"
    BY DEF At
  <1>3. OpenInv'
    BY <1>1, <1>2 DEF OpenInv, Writing
  <1>4. CurSays(D, F, P)'
    BY <1>2 DEF CurSays
  <1> QED
    BY <1>1, <1>3, <1>4, ContinueLoad

\* Its header.
LEMMA StreamHeadLoad ==
  ASSUME BaseInv, LoadInv, At("WRITE_XPORT_STREAM"), NEW i, i = run.es,
         NEW header, header = 57344 + items[i].id,
         ItemWriteHead(i, BASE_LEN, header), UNCHANGED << run, info >>,
         UNCHANGED << attributes, length, prog_desc, program_info_length, asked >>
  PROVE  LoadInv'
  <1>1. /\ OnlyRun(i) /\ header \in ui16
        /\ items[i].run.op_state \in {"INIT", "WRITE_HEAD"}
        /\ \/ state' = "ABORTED"
           \/ /\ state' = "WRITE_SEC" /\ OnlyCur
              /\ cur'.payload = PutItem(cur.payload, i, header)
              /\ cur'.data_length = cur.data_length + BASE_LEN
              /\ desc_loop' = [pos |-> Len(cur.payload) + 2, len |-> 0]
              /\ items'[i].run.op_state \in {"GET_DESC", "WRITE_DESC"}
    BY StreamHeadBase
  <1>2. CASE state' = "ABORTED"
    BY <1>2, AbortLoad
  <1>3. CASE state' # "ABORTED"
    <2>1. PICK D, F, P : D = Descriptors /\ F = LoopWords /\ P = prog_desc
      OBVIOUS
    <2>2. PICK p, n, q : p = cur.payload /\ n = cur.data_length /\ q = cur'.payload
      OBVIOUS
    <2>3. ~Open(i) /\ Open(i)'
      BY <1>1, <1>3 DEF Open
    <2>4. /\ P \in Seq(DescLength) /\ Descs(D) /\ i \in DOMAIN D
          /\ p \in Seq(Entries(Kinds)) /\ n \in Nat
          /\ Streams(D, F, P, p, n, desc_loop.pos, desc_loop.len) /\ desc_loop = NoLoop
      BY <1>1, <2>1, <2>2, <2>3, StreamLoad
    <2>5. Streams(D, F, P, p, n, 0, 0)
      BY <2>4 DEF NoLoop
    <2>6. q = PutItem(p, i, header)
      BY <1>1, <1>3, <2>2
    <2>7. /\ Streams(D, F, P, q, n + BASE_LEN, Len(p) + 2, 0)
          /\ Len(q) = Len(p) + 2 /\ q[Len(q)].owner = i
      BY ONLY <1>1, <2>4, <2>5, <2>6, StreamsHead
    <2>8. /\ desc_loop'.pos = Len(p) + 2 /\ desc_loop'.len = 0 /\ cur'.data_length = n + BASE_LEN
          /\ state' = "WRITE_SEC" /\ OnlyCur
      BY <1>1, <1>3, <2>2
    <2>9. desc_loop'.pos # 0 /\ desc_loop'.pos = Len(q)
      BY <2>4, <2>7, <2>8
    <2> QED
      BY <1>1, <2>1, <2>2, <2>3, <2>7, <2>8, <2>9, StreamGoesOn
  <1> QED
    BY <1>2, <1>3

\* Its next descriptor is fetched.
LEMMA StreamFetchLoad ==
  ASSUME BaseInv, LoadInv, At("WRITE_XPORT_STREAM"), NEW i, i = run.es,
         ItemGetDescFits(i), UNCHANGED << run, info >>,
         UNCHANGED << attributes, length, prog_desc, program_info_length, asked >>
  PROVE  LoadInv'
  <1>1. /\ OnlyRun(i) /\ items[i].run.op_state = "GET_DESC"
        /\ items'[i].run.op_state = "WRITE_DESC" /\ desc_loop' = desc_loop
        /\ OnlyCur /\ cur' = cur /\ state' = "WRITE_SEC"
    BY StreamFetchBase
  <1>2. Open(i) /\ Open(i)'
    BY <1>1 DEF Open
  <1>3. PICK D, F, P : D = Descriptors /\ F = LoopWords /\ P = prog_desc
    OBVIOUS
  <1>4. /\ Streams(D, F, P, cur.payload, cur.data_length, desc_loop.pos, desc_loop.len)
        /\ desc_loop.pos # 0 /\ cur.payload[desc_loop.pos].owner = i
        /\ cur.payload[Len(cur.payload)].owner = i
    BY <1>1, <1>2, <1>3, StreamLoad
  <1>5. PICK q : q = cur'.payload
    OBVIOUS
  <1>6. /\ Streams(D, F, P, q, cur'.data_length, desc_loop'.pos, desc_loop'.len)
        /\ desc_loop'.pos # 0 /\ q[desc_loop'.pos].owner = i /\ q[Len(q)].owner = i
    BY <1>1, <1>4, <1>5
  <1> QED
    BY <1>1, <1>2, <1>3, <1>5, <1>6, StreamGoesOn

\* It is written.
LEMMA StreamDescLoad ==
  ASSUME BaseInv, LoadInv, At("WRITE_XPORT_STREAM"), NEW i, i = run.es,
         ItemWriteDesc(i), UNCHANGED << run, info >>,
         UNCHANGED << attributes, length, prog_desc, program_info_length, asked >>
  PROVE  LoadInv'
  <1>1. /\ OnlyRun(i) /\ items[i].run.op_state = "WRITE_DESC"
        /\ items[i].run.d \in DOMAIN items[i].descriptors /\ items[i].run.d \in ui16
        /\ \/ state' = "ABORTED"
           \/ /\ state' = "WRITE_SEC" /\ OnlyCur
              /\ cur'.payload = Append(cur.payload, Entry("desc", i, items[i].run.d))
              /\ cur'.data_length = cur.data_length + ItemDescLen(i)
              /\ cur'.data_length < 65536
              /\ desc_loop'
                   = [pos |-> desc_loop.pos, len |-> (desc_loop.len + ItemDescLen(i)) % 65536]
              /\ items'[i].run.op_state = "GET_DESC"
    BY StreamDescBase
  <1>2. CASE state' = "ABORTED"
    BY <1>2, AbortLoad
  <1>3. CASE state' # "ABORTED"
    <2>1. PICK D, F, P : D = Descriptors /\ F = LoopWords /\ P = prog_desc
      OBVIOUS
    <2>2. PICK p, n, q, l, len, d :
            /\ p = cur.payload /\ n = cur.data_length /\ q = cur'.payload
            /\ l = desc_loop.pos /\ len = desc_loop.len /\ d = items[i].run.d
      OBVIOUS
    <2>3. Open(i) /\ Open(i)'
      BY <1>1, <1>3 DEF Open
    <2>4. /\ P \in Seq(DescLength) /\ Descs(D) /\ i \in DOMAIN D /\ D[i] = items[i].descriptors
          /\ p \in Seq(Entries(Kinds)) /\ n \in Nat /\ Streams(D, F, P, p, n, l, len)
          /\ l \in Nat /\ l # 0 /\ len \in ui16 /\ p[l].owner = i /\ p[Len(p)].owner = i
      BY <1>1, <2>1, <2>2, <2>3, StreamLoad
    <2>5. PICK v : v = D[i][d]
      OBVIOUS
    <2>6. d \in DOMAIN D[i] /\ d \in ui16 /\ ItemDescLen(i) = v /\ v \in Nat
      <3>1. d \in DOMAIN D[i] /\ d \in ui16 /\ ItemDescLen(i) = v
        BY <1>1, <2>2, <2>4, <2>5 DEF ItemDescLen
      <3>2. D[i] \in Seq(DescLength)
        BY ONLY <2>4 DEF Descs
      <3>3. v \in DescLength
        BY ONLY <2>5, <3>1, <3>2
      <3> QED
        BY <3>1, <3>3, DescLengths
    <2>7. /\ q = Append(p, Entry("desc", i, d)) /\ cur'.data_length = n + v /\ n + v < 65536
          /\ desc_loop'.pos = l /\ desc_loop'.len = (len + v) % 65536
          /\ state' = "WRITE_SEC" /\ OnlyCur
      BY <1>1, <1>3, <2>2, <2>6
    <2>8. l \in 1 .. Len(p) /\ len \in Nat /\ HEADER_LEN + 4 + len <= n
      BY ONLY <2>4, StreamsOpen
    <2>9. Streams(D, F, P, q, n + D[i][d], l, len + D[i][d])
      <3>1. q = Append(p, Entry("desc", i, d))
        BY <2>7
      <3> QED
        BY ONLY <2>4, <2>6, <3>1, StreamsDesc
    <2>10. (len + v) % 65536 = len + v
      <3>1. 8 + 4 + len <= n /\ n + v < 65536
        BY <2>7, <2>8 DEF HEADER_LEN
      <3>2. len \in Nat /\ n \in Nat /\ v \in Nat
        BY <2>4, <2>6, <2>8
      <3> QED
        BY ONLY <3>1, <3>2
    <2>11. Streams(D, F, P, q, cur'.data_length, desc_loop'.pos, desc_loop'.len)
      BY ONLY <2>5, <2>7, <2>9, <2>10
    <2>12. q[l].owner = i /\ q[Len(q)].owner = i
      <3>1. PICK T, x : T = Entries(Kinds) /\ x = Entry("desc", i, d)
        OBVIOUS
      <3>2. x \in T /\ x.owner = i
        BY <2>4, <2>6, <3>1, ItemNumber, PmtNumbers, ItemEntry DEF ItemKinds
      <3>3. q = Append(p, x) /\ p \in Seq(T) /\ l \in 1 .. Len(p) /\ p[l].owner = i
        BY <2>4, <2>7, <2>8, <3>1
      <3> QED
        BY ONLY <3>2, <3>3
    <2>13. desc_loop'.pos # 0 /\ q[desc_loop'.pos].owner = i
      <3>1. l # 0 /\ desc_loop'.pos = l
        BY ONLY <2>4, <2>7
      <3> QED
        BY ONLY <2>12, <3>1
    <2>14. /\ OnlyRun(i) /\ state' = "WRITE_SEC" /\ OnlyCur /\ q = cur'.payload
           /\ prog_desc' = prog_desc /\ run' = run
      BY <1>1, <2>2, <2>7
    <2>15. /\ BaseInv /\ LoadInv /\ At("WRITE_XPORT_STREAM") /\ i = run.es
      OBVIOUS
    <2> QED
      BY ONLY <2>1, <2>3, <2>11, <2>12, <2>13, <2>14, <2>15, StreamGoesOn
  <1> QED
    BY <1>2, <1>3

\* It returns with its loop closed.
LEMMA StreamReturnsLoad ==
  ASSUME BaseInv, LoadInv, StreamFull \/ StreamDone
  PROVE  LoadInv'
  <1>1. PICK s, i : s = LoopPatched(cur) /\ i = run.es
    OBVIOUS
  <1>2. /\ BaseInv' /\ At("WRITE_XPORT_STREAM") /\ OnlyRun(i)
        /\ items[i].run.op_state = "GET_DESC"
        /\ items'[i].run.op_state \in {"INIT", "WRITE_HEAD"} /\ desc_loop' = NoLoop
        /\ s \in Sections(Entries(Kinds)) /\ s.data_length = cur.data_length
        /\ s.payload = [cur.payload EXCEPT ![desc_loop.pos].n = loopLen(desc_loop.len)]
        /\ prog_desc' = prog_desc
        /\ \/ WriteSecReturn(FALSE, s, sec_bytes, D_BIT)
           \/ /\ cur' = s /\ state' = "WRITE_SEC" /\ OnlyCur
              /\ run'.op_state = "GET_XPORT_STREAM"
    BY <1>1, StreamReturnsBase
  <1>3. Open(i) /\ ~Open(i)'
    BY <1>2 DEF Open
  <1>4. PICK D, F, P : D = Descriptors /\ F = LoopWords /\ P = prog_desc
    OBVIOUS
  <1>5. /\ state = "WRITE_SEC" /\ cur.data_length # 0
        /\ \A j \in DOMAIN items' : j # i => ~Open(j)'
        /\ D = Descriptors' /\ F = LoopWords' /\ P = prog_desc' /\ P \in Seq(DescLength)
        /\ Descs(D) /\ SectionsIn(Complete(D, F, P))
        /\ \A n \in ui16 : F[i][n] = loopLen(n)
        /\ cur.payload \in Seq(Entries(Kinds))
        /\ Streams(D, F, P, cur.payload, cur.data_length, desc_loop.pos, desc_loop.len)
        /\ desc_loop.pos \in Nat /\ desc_loop.pos # 0 /\ desc_loop.len \in ui16
        /\ cur.payload[desc_loop.pos].owner = i
    BY <1>1, <1>2, <1>3, <1>4, StreamLoad
  <1>6. Streams(D, F, P, s.payload, s.data_length, 0, 0)
    <2>1. PICK p, n, l, len, q : /\ p = cur.payload /\ n = cur.data_length
                                 /\ l = desc_loop.pos /\ len = desc_loop.len /\ q = s.payload
      OBVIOUS
    <2>2. PICK w : w = F[p[l].owner][len]
      OBVIOUS
    <2>3. w = loopLen(len)
      BY <1>5, <2>1, <2>2
    <2>4. q \in Seq(Entries(Kinds))
      <3>1. s \in Sections(Entries(Kinds))
        BY <1>2
      <3>2. s.payload \in Seq(Entries(Kinds))
        BY ONLY <3>1, SectionFieldTypes
      <3> QED
        BY ONLY <2>1, <3>2
    <2>5. q = [p EXCEPT ![l].n = w]
      BY <1>2, <2>1, <2>3
    <2>6. /\ P \in Seq(DescLength) /\ Descs(D) /\ p \in Seq(Entries(Kinds))
          /\ Streams(D, F, P, p, n, l, len) /\ l \in Nat /\ l # 0 /\ len \in Nat
      BY <1>5, <2>1, Ui16
    <2>7. Streams(D, F, P, q, n, 0, 0)
      BY ONLY <2>2, <2>4, <2>5, <2>6, StreamsPatch
    <2> QED
      BY <1>2, <2>1, <2>7
  <1>7. \A j \in DOMAIN items' : ~Open(j)'
    BY <1>3, <1>5
  <1>8. CASE WriteSecReturn(FALSE, s, sec_bytes, D_BIT)
    <2>1. PICK done \in BOOLEAN : done = FALSE
      OBVIOUS
    <2>2. WriteSecReturn(done, s, sec_bytes, D_BIT)
      BY <1>8, <2>1
    <2> QED
      BY <1>2, <1>5, <1>6, <1>7, <2>2, ReturnLoad
  <1>9. CASE /\ cur' = s /\ state' = "WRITE_SEC" /\ OnlyCur
             /\ run'.op_state = "GET_XPORT_STREAM"
    <2>1. OpenInv'
      BY <1>2, <1>7, NoneOpenNext
    <2>2. CurSays(D, F, P)'
      <3>1. desc_loop'.pos = 0 /\ desc_loop'.len = 0
        BY <1>2 DEF NoLoop
      <3> QED
        BY <1>6, <1>9, <3>1 DEF CurSays
    <2> QED
      BY <1>5, <1>9, <2>1, <2>2, ContinueLoad
  <1> QED
    BY <1>2, <1>8, <1>9
-----------------------------------------------------------------------------
(* The other steps.                                                        *)

\* The driver's own, and the application's that add nothing.
LEMMA DriverLoad ==
  ASSUME BaseInv, LoadInv, Configure \/ buildSections \/ MallocSec \/ EndTable,
         UNCHANGED << extVars, prog_desc, program_info_length, run, info, asked >>
  PROVE  LoadInv'
  <1>1. BaseInv'
    BY DriverBase
  <1>2. PICK D, F, P : D = Descriptors /\ F = LoopWords /\ P = prog_desc /\ SectionsIn(Complete(D, F, P))
    BY LoadParts
  <1>3. PICK C : C = Complete(D, F, P)
    OBVIOUS
  <1>4. DriverInv(Entries(Kinds), D_BIT) /\ SectionsIn(C)
    BY <1>2, <1>3, BaseFacts
  <1>5. state \in {"IDLE", "MALLOC_SEC", "END_TABLE"} /\ SectionsIn(C)'
    <2>1. CASE Configure
      <3>1. state = "IDLE" /\ state' = "IDLE"
        BY <1>4, <2>1, ConfigureFrame
      <3> QED
        BY <3>1 DEF SectionsIn
    <2>2. CASE buildSections
      BY <1>4, <2>2, SectionsInBegin DEF buildSections
    <2>3. CASE MallocSec
      <3>1. SectionsIn(C)'
        BY <1>4, <2>3, SectionsInMalloc
      <3>2. state = "MALLOC_SEC"
        BY <2>3 DEF MallocSec
      <3> QED
        BY <3>1, <3>2
    <2>4. CASE EndTable
      <3>1. state = "END_TABLE" /\ state' \in {"IDLE", "ABORTED"}
        BY <2>4 DEF EndTable, Abort
      <3> QED
        BY <3>1 DEF SectionsIn
    <2> QED
      BY <2>1, <2>2, <2>3, <2>4
  <1>6. UNCHANGED << items, desc_loop, prog_desc, run >>
    BY DEF extVars
  <1>7. (\A i \in DOMAIN items : ~Open(i)) /\ desc_loop = NoLoop
    BY <1>5, NoneOpen DEF LoadInv, Writing
  <1>8. /\ D = Descriptors' /\ F = LoopWords' /\ P = prog_desc'
        /\ (\A i \in DOMAIN items' : ~Open(i)') /\ desc_loop' = NoLoop
    BY <1>2, <1>6, <1>7 DEF Descriptors, LoopWords, Open
  <1>9. state' = "WRITE_SEC" => cur'.data_length = 0
    <2>1. Control /\ Control'
      BY <1>1 DEF BaseInv
    <2> QED
      BY <1>5, <1>6, <2>1 DEF Control
  <1> QED
    BY <1>1, <1>3, <1>5, <1>8, <1>9, QuietLoad

\* An application that adds something.
LEMMA AddLoad ==
  ASSUME BaseInv, LoadInv, BaseInv', state = "IDLE", state' = "IDLE",
         desc_loop' = desc_loop, \A i \in DOMAIN items' : ~Open(i)'
  PROVE  LoadInv'
  <1>1. PICK D, F, P : D = Descriptors' /\ F = LoopWords' /\ P = prog_desc'
    OBVIOUS
  <1>2. desc_loop = NoLoop
    BY NoneOpen DEF LoadInv, Writing
  <1>3. SectionsIn(Complete(D, F, P))'
    BY DEF SectionsIn
  <1> QED
    BY <1>1, <1>2, <1>3, QuietLoad

\* addProgramDesc, addElemStream and addElemStreamDesc.
LEMMA ApiLoad ==
  ASSUME BaseInv, LoadInv,
         \/ \E d_len \in ProgDescLens : addProgramDesc(d_len)
         \/ \E elem_pid \in ItemIds : addElemStream(elem_pid)
         \/ addElemStreamDesc
  PROVE  LoadInv'
  <1>1. /\ ExtInv /\ Len(items) \in Nat /\ DOMAIN items = 1 .. Len(items)
    BY BaseFacts
  <1>2. CASE \E d_len \in ProgDescLens : addProgramDesc(d_len)
    <2>1. BaseInv'
      BY <1>2, AddProgramDescBase
    <2>2. state = "IDLE" /\ UNCHANGED << items, desc_loop >> /\ state' = "IDLE"
      BY <1>2 DEF addProgramDesc, driver, extVars
    <2>3. \A i \in DOMAIN items : ~Open(i)
      BY <2>2, NoneOpen DEF LoadInv, Writing
    <2>4. \A i \in DOMAIN items' : ~Open(i)'
      BY <2>2, <2>3 DEF Open
    <2> QED
      BY <2>1, <2>2, <2>4, AddLoad
  <1>3. CASE \E elem_pid \in ItemIds : addElemStream(elem_pid)
    <2>1. /\ BaseInv' /\ items'[Len(items) + 1].run = ItemContext
          /\ Len(items') = Len(items) + 1
          /\ (\A j \in DOMAIN items : items'[j] = items[j]) /\ desc_loop' = desc_loop
          /\ state = "IDLE" /\ UNCHANGED driver
      BY <1>3, AddStreamBase
    <2>2. \A i \in DOMAIN items : ~Open(i)
      BY <2>1, NoneOpen DEF LoadInv, Writing
    <2>3. \A i \in DOMAIN items' : ~Open(i)'
      <3>1. DOMAIN items' = 1 .. Len(items) + 1
        BY <2>1 DEF BaseInv, ExtInv
      <3>2. ASSUME NEW i \in 1 .. Len(items) + 1 PROVE i \in 1 .. Len(items) \/ i = Len(items) + 1
        BY <1>1
      <3>3. ASSUME NEW i \in 1 .. Len(items) PROVE ~Open(i)'
        BY <1>1, <2>1, <2>2 DEF Open
      <3>4. PICK n : n = Len(items) + 1
        OBVIOUS
      <3>5. ~Open(n)'
        BY <2>1, <3>4 DEF Open, ItemContext
      <3> QED
        <4> SUFFICES ASSUME NEW i \in DOMAIN items' PROVE ~Open(i)'
          OBVIOUS
        <4>1. i \in 1 .. Len(items) \/ i = n
          BY <3>1, <3>2, <3>4
        <4> QED
          BY <3>3, <3>5, <4>1
    <2>4. state' = "IDLE"
      BY <2>1 DEF driver
    <2> QED
      BY <2>1, <2>3, <2>4, AddLoad
  <1>4. CASE addElemStreamDesc
    <2>1. /\ BaseInv' /\ Len(items') = Len(items)
          /\ (\A j \in DOMAIN items : items'[j].run = items[j].run) /\ desc_loop' = desc_loop
          /\ state = "IDLE" /\ UNCHANGED driver
      BY <1>4, AddStreamDescBase
    <2>2. \A i \in DOMAIN items : ~Open(i)
      BY <2>1, NoneOpen DEF LoadInv, Writing
    <2>3. DOMAIN items' = DOMAIN items
      BY <1>1, <2>1 DEF BaseInv, ExtInv
    <2>4. \A i \in DOMAIN items' : ~Open(i)'
      BY <2>1, <2>2, <2>3 DEF Open
    <2>5. state' = "IDLE"
      BY <2>1 DEF driver
    <2> QED
      BY <2>1, <2>4, <2>5, AddLoad
  <1> QED
    BY <1>2, <1>3, <1>4

\* It holds at the start.
LEMMA InitLoad == Init => LoadInv
  <1> SUFFICES ASSUME Init PROVE LoadInv
    OBVIOUS
  <1>1. state = "IDLE" /\ items = << >> /\ desc_loop = NoLoop
    BY DEF Init, PsiInit, ExtInit
  <1>2. OpenInv
    BY <1>1 DEF OpenInv, Writing
  <1>3. PICK D, F, P : D = Descriptors /\ F = LoopWords /\ P = prog_desc
    OBVIOUS
  <1>4. PayloadInv(D, F, P)
    BY <1>1 DEF PayloadInv, SectionsIn
  <1> QED
    BY <1>2, <1>3, <1>4 DEF LoadInv

\* And after every step.
LEMMA StepLoad == BaseInv /\ LoadInv /\ [Next]_vars => LoadInv'
  <1> SUFFICES ASSUME BaseInv, LoadInv, [Next]_vars PROVE LoadInv'
    OBVIOUS
  <1>1. CASE Api
    BY <1>1, DriverLoad, ApiLoad DEF Api
  <1>2. CASE /\ MallocSec \/ EndTable
             /\ UNCHANGED << extVars, prog_desc, program_info_length, run, info, asked >>
    BY <1>2, DriverLoad
  <1>3. CASE writeSection
    <2>1. CASE WriteHead
      BY <2>1, WriteHeadLoad
    <2>2. CASE GetProgDescFull \/ GetProgDescFits \/ NoMoreProgDescs
      BY <2>2, GetProgDescLoad
    <2>3. CASE WriteProgDesc
      BY <2>3, WriteProgDescLoad
    <2>4. CASE GetStreamFull \/ GetStreamFits \/ GetStreamEnd
      BY <2>4, GetStreamLoad
    <2>5. CASE StreamWrites
      <3>1. /\ At("WRITE_XPORT_STREAM") /\ UNCHANGED << run, info >>
            /\ UNCHANGED << attributes, length, prog_desc, program_info_length, asked >>
        BY <2>5 DEF StreamWrites, table
      <3>2. PICK i, header : i = run.es /\ header = 57344 + items[i].id
        OBVIOUS
      <3>3. \/ ItemWriteHead(i, BASE_LEN, header) \/ ItemGetDescFits(i) \/ ItemWriteDesc(i)
        BY <2>5, <3>2 DEF StreamWrites
      <3> QED
        BY <3>1, <3>2, <3>3, StreamHeadLoad, StreamFetchLoad, StreamDescLoad
    <2>6. CASE StreamFull \/ StreamDone
      BY <2>6, StreamReturnsLoad
    <2> QED
      BY <1>3, <2>1, <2>2, <2>3, <2>4, <2>5, <2>6 DEF writeSection
  <1>4. CASE UNCHANGED vars
    <2>1. /\ UNCHANGED << items, desc_loop, prog_desc, run, info, state, stream, first >>
          /\ cur' = cur
      BY <1>4 DEF vars, psiVars, extVars, driver, cur
    <2>2. PICK D, F, P : D = Descriptors /\ F = LoopWords /\ P = prog_desc
      OBVIOUS
    <2>3. OpenInv /\ PayloadInv(D, F, P)
      BY <2>2, LoadFacts
    <2>4. OpenInv'
      BY <2>1, <2>3 DEF OpenInv, Open, Writing
    <2>5. D = Descriptors' /\ F = LoopWords' /\ P = prog_desc'
      BY <2>1, <2>2 DEF Descriptors, LoopWords
    <2>6. PayloadInv(D, F, P)'
      BY <2>1, <2>3 DEF PayloadInv, SectionsIn, Table
    <2> QED
      BY <2>4, <2>5, <2>6 DEF LoadInv
  <1> QED
    BY <1>1, <1>2, <1>3, <1>4 DEF Next, BuildStep

\* The second invariant holds of every state of the PMT.
THEOREM LoadInvariance == Spec => []LoadInv
  BY InitLoad, StepLoad, BaseInvariance, PTL DEF Spec
-----------------------------------------------------------------------------
(* The sections read back.                                                 *)

\* What a receiver reads in a section's payload and section_length.
Reads(p, section_length) ==
  \E n \in 0 .. Len(p) :
    /\ p[1].kind = "pcr_pid" /\ p[2].kind = "prog_info_len"
    /\ \A j \in 3 .. Len(p) : p[j].kind = "prog_desc" <=> j <= n + 2
    /\ p[2].n = loopLen(ProgBytes(p))
    /\ ReadsFrom(p, n + 3)
    /\ section_length % LEN_MASK = BASE_LENGTH + ProgBytes(p) + ItemBytes(p, BASE_LEN) + CRC_LEN

\* A section of a finished build is read so.
LEMMA SectionRead ==
  ASSUME BaseInv, LoadInv, Built, NEW i \in Table, stream[i].size <= 4096
  PROVE  Reads(stream[i].payload, stream[i].section_length)
  <1>1. PICK n, p, c : /\ n = stream[i].data_length /\ p = stream[i].payload
                       /\ c = stream[i].section_length
    OBVIOUS
  <1>2. /\ p \in Seq(Entries(Kinds)) /\ n \in Nat /\ n + CRC_LEN <= 4096
        /\ c % LEN_MASK = n - 3 + CRC_LEN
    BY <1>1, PmtNumbers, BaseFacts, SectionReads
  <1>3. PICK D, F, P : D = Descriptors /\ F = LoopWords /\ P = prog_desc
    OBVIOUS
  <1>4. /\ PayloadInv(D, F, P) /\ P \in Seq(DescLength) /\ Descs(D)
        /\ \A j \in DOMAIN items : \A m \in ui16 : F[j][m] = loopLen(m)
    BY <1>3, LoadFacts
  <1>5. Streams(D, F, P, p, n, 0, 0)
    <2>1. What(stream[i]) \in Complete(D, F, P)
      BY <1>4 DEF PayloadInv, SectionsIn, Built
    <2> QED
      BY <1>1, <2>1 DEF What, Complete
  <1>6. ExtInv
    BY BaseFacts
  <1>7. PICK l, len : l = 0 /\ len = 0
    OBVIOUS
  <1>8. PICK m, s, b \in Nat : StreamsOf(D, F, P, p, n, l, len, m, s, b)
    <2>1. Streams(D, F, P, p, n, l, len)
      BY <1>5, <1>7
    <2> QED
      BY ONLY <1>2, <1>4, <2>1, StreamsFacts
  <1>9. PICK T : T = Entries(Kinds)
    OBVIOUS
  <1>10. p \in Seq(T) /\ 1 <= s /\ Loops(D, F, p, s, l, len) /\ Loops(D, F, p, s, 0, 0)
    BY <1>2, <1>7, <1>8, <1>9 DEF StreamsOf
  <1>11. ReadsBack(D, F, p, s)
    BY <1>3, <1>6, <1>10, LoopsParse
  <1>12. ItemBytes(p, b) = BytesIn(D, p, b)
    BY <1>3, <1>6, <1>10, LoopsBytes
  <1>13. PICK bytes, prog : bytes = BytesIn(D, p, b) /\ prog = ProgIn(P, p)
    OBVIOUS
  <1>14. bytes \in Nat
    <2>1. \A k \in 1 .. Len(p) : LenIn(D, p[k], b) \in Nat
      BY ONLY s \in Nat, b \in Nat, <1>4, <1>10, LoopsLengths
    <2> QED
      BY <1>10, <1>13, <2>1, BytesType
  <1>15. prog \in Nat /\ n = HEADER_LEN + 4 + prog + bytes /\ p[2].n = loopLen(prog)
    BY <1>8, <1>13 DEF StreamsOf
  <1>16. bytes < 4096
    BY <1>2, <1>14, <1>15 DEF HEADER_LEN, CRC_LEN
  <1>17. ReadsFrom(p, s)
    BY <1>4, <1>11, <1>13, <1>14, <1>16, ItemsRead
  <1>18. ProgBytes(p) = prog
    BY <1>3, <1>13 DEF ProgBytes, ProgIn, ProgLen, OwnLen, OwnIn
  <1>19. s = m + 3 /\ b = BASE_LEN
    BY <1>8 DEF StreamsOf
  <1>20. c % LEN_MASK = BASE_LENGTH + prog + bytes + CRC_LEN
    BY <1>2, <1>14, <1>15 DEF HEADER_LEN, BASE_LENGTH, CRC_LEN
  <1>21. m \in 0 .. Len(p) /\ p[1].kind = "pcr_pid" /\ p[2].kind = "prog_info_len"
    BY <1>2, <1>8 DEF StreamsOf
  <1>22. ASSUME NEW j \in 3 .. Len(p) PROVE p[j].kind = "prog_desc" <=> j <= m + 2
    <2>1. CASE j <= m + 2
      BY <1>8, <2>1 DEF StreamsOf
    <2>2. CASE ~(j <= m + 2)
      <3>1. j \in s .. Len(p)
        BY <1>2, <1>19, <2>2
      <3>2. p[j].kind \in ItemKinds
        BY <1>11, <3>1 DEF ReadsBack
      <3> QED
        BY <2>2, <3>2 DEF ItemKinds
    <2> QED
      BY <2>1, <2>2
  <1>23. Reads(p, c)
    <2>1. ReadsFrom(p, m + 3)
      BY <1>17, <1>19
    <2>2. p[2].n = loopLen(ProgBytes(p))
      BY <1>15, <1>18
    <2>3. c % LEN_MASK = BASE_LENGTH + ProgBytes(p) + ItemBytes(p, BASE_LEN) + CRC_LEN
      BY <1>12, <1>13, <1>18, <1>19, <1>20
    <2> QED
      BY ONLY <1>21, <1>22, <2>1, <2>2, <2>3 DEF Reads
  <1> QED
    BY <1>1, <1>23
-----------------------------------------------------------------------------
\* Every variable of the PMT keeps its type, whatever the splitting does: no byte
\* count, loop length word or section number leaves its width, and the positions
\* pending in both loops stay in their lists.
THEOREM TypeCorrect == Spec => []TypeOK
  <1>1. BaseInv => TypeOK
    <2> SUFFICES ASSUME BaseInv PROVE TypeOK
      OBVIOUS
    <2>1. PsiTypeOK /\ stream \in Seq(Sections(Entries(Kinds)))
      BY BaseFacts DEF DriverInv, DriverTypes
    <2>2. ExtTypeOK
      BY BaseFacts, ExtInvTypes
    <2>3. PmtTypes
      BY BaseFacts
    <2> QED
      BY <2>1, <2>2, <2>3 DEF TypeOK, PmtTypes, RunSet, RunStates, Kinds
  <1> QED
    BY <1>1, BaseInvariance, PTL

\* For all streams, descriptors and section lengths up to the 4096 bytes that a
\* 12-bit length can describe, each section of a finished build is read back as
\* the PMT's own: program_info_length is that of the program descriptors in this
\* section, every stream's header is followed by its loop length and that by the
\* stream's own descriptors, of just that length.
THEOREM SectionsAreRead == Spec => []SectionsParse
  <1>1. BaseInv /\ LoadInv => SectionsParse
    <2> SUFFICES ASSUME BaseInv, LoadInv PROVE SectionsParse
      OBVIOUS
    <2>1. ASSUME Built, NEW i \in Table, stream[i].size <= 4096
          PROVE  Reads(stream[i].payload, stream[i].section_length)
      BY <2>1, SectionRead
    <2> QED
      BY <2>1 DEF SectionsParse, Reads, ReadsFrom, ItemsParse
  <1> QED
    BY <1>1, BaseInvariance, LoadInvariance, PTL

\* Two streams share the pid on the wire only when the later one was asked for
\* with bits the field does not have, for any pids and any number of streams.
THEOREM PidsAreUnique == Spec => []PidsUnique
  <1>1. BaseInv => PidsUnique
    <2> SUFFICES ASSUME BaseInv, CHECK_DUPLICATES, NEW i \in DOMAIN items,
                        NEW j \in DOMAIN items, i < j, items[i].id = items[j].id
                 PROVE  asked[j] > 8191
      BY DEF PidsUnique
    <2>1. items[j].id = thirteenBits(asked[j]) /\ asked[j] # items[i].id
      BY BaseFacts DEF PidInv
    <2>2. PICK n \in Nat : n = asked[j]
      <3>1. asked \in Seq(ui16) /\ Len(asked) = Len(items) /\ DOMAIN items = 1 .. Len(items)
        BY BaseFacts DEF PmtTypes
      <3>2. asked[j] \in ui16
        BY <3>1
      <3> QED
        BY <3>2, Ui16
    <2>3. n % 8192 # n
      BY <2>1, <2>2 DEF thirteenBits
    <2>4. n > 8191
      BY ONLY <2>3, n \in Nat
    <2> QED
      BY <2>2, <2>4
  <1> QED
    BY <1>1, BaseInvariance, PTL

\* The CRC of every section in the stream is that of its present bytes: both
\* lengths are put in a section before it has its CRC, never after.
THEOREM CrcStaysCurrent == Spec => []CrcCurrent
  <1>1. BaseInv => CrcCurrent
    BY DriverCrc DEF BaseInv
  <1> QED
    BY <1>1, BaseInvariance, PTL

\* For every section length up to 4096 bytes, a finished section says where it ends.
THEOREM SectionLengthCorrect == Spec => []SectionLengthCoversSection
  <1>1. BaseInv => SectionLengthCoversSection
    BY PmtNumbers, DriverSectionLength DEF BaseInv
  <1> QED
    BY <1>1, BaseInvariance, PTL

\* The sections of a build are numbered from 0 and know the last, when there are
\* no more of them than an 8-bit number counts.
THEOREM NumbersCorrect == MaxSections <= 256 => (Spec => []SectionsNumbered)
  <1> SUFFICES ASSUME MaxSections <= 256 PROVE Spec => []SectionsNumbered
    OBVIOUS
  <1>1. BaseInv => SectionsNumbered
    BY DriverNumbers DEF BaseInv
  <1> QED
    BY <1>1, BaseInvariance, PTL

-----------------------------------------------------------------------------
(* How the sections are filled.                                            *)

\* The stream that is being written.
Who == IF run.op_state = "GET_XPORT_STREAM" THEN 0 ELSE run.es

\* What is pending in a context: a program descriptor until they are all done,
\* a stream from then on, which a new section goes on with.
Pending(r) ==
  /\ r.op_state = "INIT" => r = Context
  /\ ~r.d_done => /\ r.es = 0 /\ r.es_iter = 1
                  /\ r.op_state \notin {"GET_XPORT_STREAM", "WRITE_XPORT_STREAM"}
  /\ ~r.d_done /\ r.op_state \in {"WRITE_HEAD", "WRITE_PROG_DESC"} =>
       r.pd # 0 /\ r.pd_iter = r.pd + 1
  /\ r.d_done => r.pd = 0 /\ r.op_state # "WRITE_PROG_DESC"
  /\ r.d_done /\ r.op_state # "GET_XPORT_STREAM" => r.es # 0 /\ r.es_iter = r.es + 1

\* The table's context between its two loops and the items.
PmtContexts ==
  state # "ABORTED" =>
    /\ ItemsAt(Who) /\ Pending(run)
    /\ state \in {"IDLE", "END_TABLE"} => run = Context

\* The PMT as it is packed: its own loop is that of the program descriptors.
PmtSheet ==
  [D |-> Descriptors, own |-> prog_desc, set |-> DOMAIN prog_desc, base |-> BASE_LEN,
   fresh |-> BASE_LENGTH, M |-> getMaxDataLen, kind |-> "prog_desc"]

\* Where the machine is with a program descriptor,
ProgDue(r, ph, held, t, n) ==
  /\ t = 0
  /\ \/ r.op_state = "WRITE_HEAD" /\ ph = "OUT" /\ held = "ITEM" /\ n = r.pd
     \/ r.op_state = "GET_PROG_DESC" /\ ph = "TOP" /\ held = "NONE" /\ n = r.pd_iter
     \/ r.op_state = "WRITE_PROG_DESC" /\ ph = "TOP" /\ held = "ITEM" /\ n = r.pd

\* and where it is with a stream.
StreamDue(r, ph, held, t, n) ==
  \/ r.op_state = "WRITE_HEAD" /\ ph = "OUT" /\ t = r.es /\ ItemHeld(items[t].run, held, n)
  \/ r.op_state = "GET_PROG_DESC" /\ ph = "TOP" /\ t = r.es /\ ItemHeld(items[t].run, held, n)
  \/ r.op_state = "GET_XPORT_STREAM" /\ ph = "TOP" /\ held = "NONE" /\ t = r.es_iter /\ n = 1
  \/ /\ r.op_state = "WRITE_XPORT_STREAM" /\ t = r.es
     /\ \/ ph = "TOP" /\ ItemHeld(items[t].run, held, n)
        \/ ph = "IN" /\ ItemBegun(items[t].run, Len(items[t].descriptors), held, n)

\* Where the machines are with them.
PmtDue(ph, held, t, n) ==
  IF state = "END_TABLE" THEN ph = "END"
  ELSE \/ run.op_state = "INIT" /\ ph = "OUT" /\ held = "NONE" /\ t = 0 /\ n = 1
       \/ ~run.d_done /\ ProgDue(run, ph, held, t, n)
       \/ run.d_done /\ StreamDue(run, ph, held, t, n)

\* The sections, and how far they are filled.
PmtFilled(E, Q, ph, held, t, n) ==
  /\ SheetInv(E, Kinds, {}, Q, ph, held, t, n) /\ IsSheets(Kinds, Q) /\ PmtDue(ph, held, t, n)

\* The sections of a build, once it is started, are filled in order.
OrderInv ==
  /\ PmtContexts
  /\ state \in {"MALLOC_SEC", "WRITE_SEC", "END_TABLE"} =>
       \E E, Q, ph, held, t, n : E = PmtSheet /\ PmtFilled(E, Q, ph, held, t, n)

\* What is known of the sheet.
LEMMA SheetFacts ==
  ASSUME BaseInv, NEW E, E = PmtSheet
  PROVE  /\ PackArgs(E) /\ E.D = Descriptors /\ DOMAIN E.D = DOMAIN items
         /\ \A i \in DOMAIN items : E.D[i] = items[i].descriptors
         /\ E.base = BASE_LEN /\ E.fresh = BASE_LENGTH /\ E.M = getMaxDataLen
         /\ E.kind = "prog_desc" /\ E.set = DOMAIN prog_desc /\ E.own = prog_desc
         /\ DOMAIN items = 1 .. Len(items) /\ Len(E.D) = Len(items) /\ Len(items) \in Nat
         /\ Len(prog_desc) \in Nat /\ DOMAIN prog_desc = 1 .. Len(prog_desc)
  <1>1. ExtInv /\ max_section_length \in ui16
    BY DEF BaseInv, DriverInv, DriverTypes, PsiTypeOK
  <1>2. PICK D : D = Descriptors
    OBVIOUS
  <1>3. /\ Descs(D) /\ DOMAIN D = DOMAIN items
        /\ \A i \in DOMAIN items : D[i] = items[i].descriptors
    BY <1>1, <1>2, DescriptorsType
  <1>4. /\ DOMAIN items = 1 .. Len(items) /\ Len(items) \in Nat
        /\ Len(prog_desc) \in Nat /\ DOMAIN prog_desc = 1 .. Len(prog_desc)
        /\ prog_desc \in Seq(DescLength)
    BY BaseFacts DEF PmtTypes
  <1>5. /\ E.D = D /\ E.base = BASE_LEN /\ E.fresh = BASE_LENGTH /\ E.M = getMaxDataLen
        /\ E.kind = "prog_desc" /\ E.set = DOMAIN prog_desc /\ E.own = prog_desc
    BY <1>2 DEF PmtSheet
  <1>6. D \in Seq(Seq(Nat)) /\ prog_desc \in Seq(Nat)
    <2>1. D \in Seq(Seq(DescLength)) /\ DescLength \subseteq Nat
      BY <1>3, DescLengths DEF Descs
    <2>2. \A s \in Seq(DescLength) : s \in Seq(Nat)
      BY <2>1, WiderSeq
    <2>3. Seq(DescLength) \subseteq Seq(Nat)
      BY <2>2
    <2> QED
      BY <1>4, <2>1, <2>2, <2>3, WiderSeq
  <1>7. getMaxDataLen \in Nat
    BY <1>1, Ui16 DEF getMaxDataLen, maxDataLen, CRC_LEN
  <1>8. PackArgs(E)
    BY <1>5, <1>6, <1>7 DEF PackArgs, BASE_LEN, BASE_LENGTH
  <1>9. Len(D) = Len(items)
    <2>1. DOMAIN D = 1 .. Len(D) /\ Len(D) \in Nat
      BY <1>6
    <2> QED
      BY <1>3, <1>4, <2>1
  <1> QED
    BY <1>2, <1>3, <1>4, <1>5, <1>8, <1>9

\* What there is to show of it after a step.
LEMMA KeepOrder ==
  ASSUME PmtContexts', NEW E, E = PmtSheet', NEW Q, NEW ph, NEW held, NEW t, NEW n,
         SheetInv(E, Kinds, {}, Q, ph, held, t, n), IsSheets(Kinds, Q)',
         PmtDue(ph, held, t, n)'
  PROVE  OrderInv'
  BY DEF OrderInv, PmtFilled

\* A failed assert leaves nothing to show.
LEMMA AbortedOrder ==
  ASSUME state' = "ABORTED"
  PROVE  OrderInv'
  BY DEF OrderInv, PmtContexts

\* The table stays the same during a build.
LEMMA SheetStays ==
  ASSUME UNCHANGED attributes, prog_desc' = prog_desc, Descriptors' = Descriptors
  PROVE  PmtSheet' = PmtSheet
  BY DEF PmtSheet, attributes, getMaxDataLen, maxDataLen

\* The counted bytes of the section being written.
LEMMA CurBytes ==
  ASSUME BaseInv', state' = "WRITE_SEC", cur'.data_length # 0, NEW n, n = sec_bytes'
  PROVE  cur'.data_length = n + 3 /\ n \in Nat /\ DriverTypes(Entries(Kinds))'
  <1>1. DriverInv(Entries(Kinds), D_BIT)'
    BY DEF BaseInv
  <1>2. DriverTypes(Entries(Kinds))' /\ cur'.data_length = n + 3
    BY <1>1 DEF DriverInv, CurInv
  <1>3. n \in ui16
    BY <1>2 DEF DriverTypes, PsiTypeOK
  <1> QED
    BY <1>2, <1>3, Ui16

\* A length written afterwards, which is no thing's.
LEMMA LengthPack ==
  ASSUME NEW E, NEW K, NEW B, NEW Q, NEW ph, NEW held, NEW t, NEW n,
         SheetInv(E, K, B, Q, ph, held, t, n), Q # << >>,
         NEW m, m = Len(Q), NEW z, z = Q[m][1],
         NEW l \in 1 .. Len(z), z[l].kind \notin {"item", "desc", E.kind},
         NEW w, NEW p \in Seq(Entries(K)), p = WithWord(z, l, w),
         NEW b, b = Q[m][2], NEW R, R = Replaced(Q, p, b)
  PROVE  SheetInv(E, K, B, R, ph, held, t, n)
  <1>1. Q \in SheetsOf(K) /\ PackArgs(E)
    BY DueType
  <1>2. p = [z EXCEPT ![l].n = w]
    BY DEF WithWord
  <1>3. z \in Seq(Entries(K)) /\ Len(z) \in Nat
    BY <1>1, SheetTypes
  <1>4. p \in Seq(Entries(K)) /\ Len(p) = Len(z)
    <2>1. DOMAIN p = DOMAIN z
      BY <1>2
    <2> QED
      BY <1>3, <2>1
  <1>5. ASSUME NEW k \in 1 .. Len(z) PROVE Same(E.kind, z[k], p[k])
    <2>1. /\ p[k].kind = z[k].kind /\ p[k].owner = z[k].owner
          /\ p[k].n = IF k = l THEN w ELSE z[k].n
      BY <1>2, <1>3, PatchOne
    <2>2. k # l => p[k] = z[k]
      BY <1>2, <1>3
    <2>3. z[l].kind \notin {"item", "desc", E.kind}
      OBVIOUS
    <2> QED
      BY <1>1, <2>1, <2>2, <2>3 DEF Same, Alike
  <1>6. R \in SheetsOf(K) /\ Patched(E.kind, Q, R)
    BY <1>1, <1>3, <1>4, <1>5, PatchHolds
  <1> QED
    BY <1>6, PatchPack
-----------------------------------------------------------------------------
(* The states of the table's own.                                          *)

\* The context once the header is written.
Headway(r) == [r EXCEPT !.op_state = IF r.pd = 0 THEN "GET_PROG_DESC" ELSE "WRITE_PROG_DESC",
                        !.pd_iter = IF r.op_state = "INIT" THEN 1 ELSE @,
                        !.es_iter = IF r.op_state = "INIT" THEN 1 ELSE @]

\* Nothing of what is pending changes.
LEMMA HeadContext ==
  ASSUME NEW np \in Nat, NEW ni \in Nat, NEW r \in RunSet(np, ni), Pending(r),
         r.op_state \in {"INIT", "WRITE_HEAD"},
         NEW q, q = Headway(r)
  PROVE  /\ q.op_state = (IF r.pd = 0 THEN "GET_PROG_DESC" ELSE "WRITE_PROG_DESC")
         /\ q.d_done = r.d_done /\ q.pd = r.pd /\ q.es = r.es
         /\ q.pd_iter = r.pd_iter /\ q.es_iter = r.es_iter /\ Pending(q)
         /\ r.op_state = "INIT" => r.pd = 0 /\ r.pd_iter = 1 /\ r.es = 0 /\ ~r.d_done
  <1>1. r.op_state = "INIT" => r.pd = 0 /\ r.pd_iter = 1 /\ r.es_iter = 1 /\ r.es = 0 /\ ~r.d_done
    BY DEF Pending, Context
  <1>2. /\ q.op_state = (IF r.pd = 0 THEN "GET_PROG_DESC" ELSE "WRITE_PROG_DESC")
        /\ q.d_done = r.d_done /\ q.pd = r.pd /\ q.es = r.es
        /\ q.pd_iter = r.pd_iter /\ q.es_iter = r.es_iter
    BY <1>1 DEF RunSet, Headway
  <1>3. Pending(q)
    BY <1>1, <1>2 DEF Pending
  <1> QED
    BY <1>1, <1>2, <1>3

\* Where it is with them.
LEMMA HeadDue ==
  ASSUME PmtContexts, run \in RunSet(Len(prog_desc), Len(items)), state = "WRITE_SEC",
         run.op_state \in {"INIT", "WRITE_HEAD"},
         NEW ph, NEW held, NEW t, NEW n, PmtDue(ph, held, t, n),
         items' = items, state' = "WRITE_SEC",
         run'.op_state = (IF run.pd = 0 THEN "GET_PROG_DESC" ELSE "WRITE_PROG_DESC"),
         run'.d_done = run.d_done, run'.pd = run.pd, run'.es = run.es,
         run'.pd_iter = run.pd_iter, run'.es_iter = run.es_iter,
         run.op_state = "INIT" => run.pd = 0 /\ run.pd_iter = 1 /\ run.es = 0 /\ ~run.d_done
  PROVE  ph = "OUT" /\ PmtDue("TOP", held, t, n)'
  <1>1. Pending(run)
    BY DEF PmtContexts
  <1>2. CASE run.op_state = "INIT"
    <2>1. ph = "OUT" /\ held = "NONE" /\ t = 0 /\ n = 1
      BY <1>2 DEF PmtDue, ProgDue, StreamDue
    <2> QED
      BY <1>2, <2>1 DEF PmtDue, ProgDue
  <1>3. CASE run.op_state = "WRITE_HEAD" /\ ~run.d_done
    <2>1. ph = "OUT" /\ held = "ITEM" /\ t = 0 /\ n = run.pd /\ run.pd # 0
      BY <1>1, <1>3 DEF PmtDue, ProgDue, Pending
    <2> QED
      BY <1>3, <2>1 DEF PmtDue, ProgDue
  <1>4. CASE run.op_state = "WRITE_HEAD" /\ run.d_done
    <2>1. ph = "OUT" /\ t = run.es /\ ItemHeld(items[t].run, held, n) /\ run.pd = 0
      BY <1>1, <1>4 DEF PmtDue, StreamDue, Pending
    <2> QED
      BY <1>4, <2>1 DEF PmtDue, StreamDue
  <1> QED
    BY <1>2, <1>3, <1>4

\* A section's header.
LEMMA WriteHeadOrder ==
  ASSUME BaseInv, OrderInv, WriteHead
  PROVE  OrderInv'
  <1>1. /\ state = "WRITE_SEC" /\ run.op_state \in {"INIT", "WRITE_HEAD"}
        /\ UNCHANGED << attributes, length, prog_desc, items, desc_loop >>
    BY DEF WriteHead, extVars, table
  <1>2. /\ DriverInv(Entries(Kinds), D_BIT) /\ ExtInv /\ Control /\ PmtContexts
        /\ run \in RunSet(Len(prog_desc), Len(items))
        /\ Len(items) \in Nat /\ Len(prog_desc) \in Nat
    BY BaseFacts DEF OrderInv
  <1>3. cur.data_length = 0
    BY <1>1, <1>2 DEF Control
  <1>4. CASE state' = "ABORTED"
    BY <1>4, AbortedOrder
  <1>5. CASE state' # "ABORTED"
    <2>1. PICK x, y : x = Entry("pcr_pid", 0, 0) /\ y = Entry("prog_info_len", 0, 0)
      OBVIOUS
    <2>2. /\ x \in Entries(Kinds) /\ y \in Entries(Kinds)
          /\ x.owner = 0 /\ y.owner = 0 /\ x.kind = "pcr_pid" /\ y.kind = "prog_info_len"
      <3>1. "pcr_pid" \in Kinds /\ "prog_info_len" \in Kinds /\ 0 \in ui16
        BY Ui16 DEF Kinds
      <3> QED
        BY <2>1, <3>1, EntryType DEF Entry
    <2>3. /\ BaseInv' /\ state' = "WRITE_SEC" /\ OnlyCur
          /\ cur'.payload = Append(Append(<< >>, x), y)
          /\ cur'.data_length = HEADER_LEN + 4 /\ cur'.data_length # 0
      BY <1>5, <2>1, WriteHeadBase
    <2>4. PICK p, b : p = cur'.payload /\ b = sec_bytes'
      OBVIOUS
    <2>5. b = BASE_LENGTH /\ DriverTypes(Entries(Kinds))'
      <3>1. cur'.data_length = b + 3 /\ b \in Nat /\ DriverTypes(Entries(Kinds))'
        BY <2>3, <2>4, CurBytes
      <3> QED
        BY <2>3, <3>1, PmtNumbers DEF HEADER_LEN
    <2>6. PICK E, Q, ph, held, t, n : E = PmtSheet /\ PmtFilled(E, Q, ph, held, t, n)
      BY <1>1 DEF OrderInv
    <2>7. E.fresh = BASE_LENGTH /\ E.kind = "prog_desc"
      BY <2>6, SheetFacts
    <2>8. PICK R : R = Append(Q, << p, b >>)
      OBVIOUS
    <2>9. IsSheets(Kinds, R)'
      <3>1. IsSheets(Kinds, Q)
        BY <2>6 DEF PmtFilled
      <3>2. DriverRest(Entries(Kinds), D_BIT)
        BY <1>2, DriverIsRest
      <3> QED
        BY <1>1, <1>3, <2>3, <2>4, <2>5, <2>8, <3>1, <3>2, SheetsOpen
    <2>10. run' = Headway(run)
      BY <1>5 DEF WriteHead, Abort, Headway
    <2>11. Pending(run)
      BY <1>1, <1>2 DEF PmtContexts
    <2>12. /\ run'.op_state = (IF run.pd = 0 THEN "GET_PROG_DESC" ELSE "WRITE_PROG_DESC")
           /\ run'.d_done = run.d_done /\ run'.pd = run.pd /\ run'.es = run.es
           /\ run'.pd_iter = run.pd_iter /\ run'.es_iter = run.es_iter /\ Pending(run')
           /\ run.op_state = "INIT" => run.pd = 0 /\ run.pd_iter = 1 /\ run.es = 0 /\ ~run.d_done
      <3>1. PICK np \in Nat, ni \in Nat : np = Len(prog_desc) /\ ni = Len(items)
        BY <1>2
      <3>2. run \in RunSet(np, ni)
        BY <1>2, <3>1
      <3>3. PICK r, q : r = run /\ q = run'
        OBVIOUS
      <3> QED
        <4>1. /\ r \in RunSet(np, ni) /\ Pending(r) /\ r.op_state \in {"INIT", "WRITE_HEAD"}
              /\ q = Headway(r)
          BY <1>1, <2>10, <2>11, <3>2, <3>3
        <4>2. /\ q.op_state = (IF r.pd = 0 THEN "GET_PROG_DESC" ELSE "WRITE_PROG_DESC")
              /\ q.d_done = r.d_done /\ q.pd = r.pd /\ q.es = r.es
              /\ q.pd_iter = r.pd_iter /\ q.es_iter = r.es_iter /\ Pending(q)
              /\ r.op_state = "INIT" => r.pd = 0 /\ r.pd_iter = 1 /\ r.es = 0 /\ ~r.d_done
          BY ONLY np \in Nat, ni \in Nat, <4>1, HeadContext
        <4> QED
          BY <3>3, <4>2
    <2>13. ph = "OUT" /\ PmtDue("TOP", held, t, n)'
      <3>1. PmtDue(ph, held, t, n) /\ items' = items
        BY <1>1, <2>6 DEF PmtFilled
      <3> QED
        BY <1>1, <1>2, <2>3, <2>12, <3>1, HeadDue
    <2>14. SheetInv(E, Kinds, {}, R, "TOP", held, t, n)
      <3>1. SheetInv(E, Kinds, {}, Q, "OUT", held, t, n)
        BY <2>6, <2>13 DEF PmtFilled
      <3>2. /\ p \in Seq(Entries(Kinds)) /\ p # << >> /\ Len(p) = 2 /\ p[1] = x /\ p[2] = y
        BY <2>2, <2>3, <2>4
      <3>3. \A k \in 1 .. Len(p) : p[k].owner = 0 /\ p[k].kind \notin {"item", "desc", E.kind}
        BY <2>2, <2>7, <3>2
      <3>4. R = Append(Q, << p, E.fresh >>)
        BY <2>5, <2>7, <2>8
      <3> QED
        BY <3>1, <3>2, <3>3, <3>4, OpenPack
    <2>15. PmtContexts'
      <3>1. PICK w : w = Who
        OBVIOUS
      <3>2. Who' = w
        BY <1>1, <2>12, <3>1 DEF Who
      <3>3. ItemsAt(w)
        BY <1>1, <1>2, <3>1 DEF PmtContexts
      <3>4. ItemsAt(w)'
        BY <1>1, <3>3, ItemsAtSame
      <3>5. Pending(run)'
        BY <2>12 DEF Pending, Context
      <3> QED
        BY <2>3, <3>2, <3>4, <3>5 DEF PmtContexts
    <2>16. E = PmtSheet'
      BY <1>1, <2>6, SheetStays DEF Descriptors
    <2> QED
      BY <2>9, <2>13, <2>14, <2>15, <2>16, KeepOrder
  <1> QED
    BY <1>4, <1>5

\* What is known while a section is written.
LEMMA FilledFacts ==
  ASSUME BaseInv, OrderInv, state = "WRITE_SEC", run.op_state \notin {"INIT", "WRITE_HEAD"}
  PROVE  /\ DriverInv(Entries(Kinds), D_BIT) /\ DriverRest(Entries(Kinds), D_BIT)
         /\ ExtInv /\ cur.data_length # 0 /\ PmtContexts
         /\ cur \in Sections(Entries(Kinds)) /\ cur.data_length = sec_bytes + 3
         /\ sec_bytes \in Nat
         /\ run \in RunSet(Len(prog_desc), Len(items))
         /\ Len(items) \in Nat /\ Len(prog_desc) \in Nat
         /\ \E E, Q, ph, held, t, n, m :
              /\ E = PmtSheet /\ PmtFilled(E, Q, ph, held, t, n)
              /\ Q # << >> /\ m = Len(Q) /\ Q[m][1] = cur.payload /\ Q[m][2] = sec_bytes
              /\ Q \in SheetsOf(Kinds)
  <1>1. /\ DriverInv(Entries(Kinds), D_BIT) /\ ExtInv /\ Control /\ PmtContexts
        /\ run \in RunSet(Len(prog_desc), Len(items))
        /\ Len(items) \in Nat /\ Len(prog_desc) \in Nat
    BY BaseFacts DEF OrderInv
  <1>2. DriverRest(Entries(Kinds), D_BIT) /\ cur.data_length # 0
    BY <1>1, DriverIsRest DEF Control
  <1>3. cur.data_length = sec_bytes + 3
    BY <1>1, <1>2 DEF DriverInv, CurInv
  <1>4. cur \in Sections(Entries(Kinds)) /\ sec_bytes \in Nat
    BY <1>2, RestFacts
  <1>5. PICK E, Q, ph, held, t, n : E = PmtSheet /\ PmtFilled(E, Q, ph, held, t, n)
    BY DEF OrderInv
  <1>6. Q # << >> /\ Q[Len(Q)][1] = cur.payload /\ Q[Len(Q)][2] = sec_bytes /\ Q \in SheetsOf(Kinds)
    BY <1>2, <1>5, SheetsCur DEF PmtFilled
  <1>7. PICK m : m = Len(Q)
    OBVIOUS
  <1> QED
    BY <1>1, <1>2, <1>3, <1>4, <1>5, <1>6, <1>7

\* A section is left, as it is but for a length.
LEMMA LeaveSheets ==
  ASSUME DriverRest(Entries(Kinds), D_BIT), state = "WRITE_SEC", cur.data_length # 0,
         cur.data_length = sec_bytes + 3,
         NEW s \in Sections(Entries(Kinds)), s.data_length = cur.data_length,
         NEW Q, IsSheets(Kinds, Q), NEW done \in BOOLEAN, Leave(done, s),
         NEW p, p = s.payload, NEW b, b = sec_bytes, NEW R, R = Replaced(Q, p, b)
  PROVE  IsSheets(Kinds, R)' /\ state' = (IF done THEN "END_TABLE" ELSE "MALLOC_SEC")
  <1>1. WriteSecReturn(done, s, sec_bytes, D_BIT) /\ s.data_length = sec_bytes + 3
    BY DEF Leave
  <1>2. IsSheets(Kinds, R)'
    BY <1>1, PmtNumbers, SheetsLeave
  <1>3. state' = (IF done THEN "END_TABLE" ELSE "MALLOC_SEC")
    BY <1>1 DEF WriteSecReturn
  <1> QED
    BY <1>2, <1>3

\* One is gone on with that way.
LEMMA GoOnSheets ==
  ASSUME DriverRest(Entries(Kinds), D_BIT), state = "WRITE_SEC", cur.data_length # 0,
         NEW s \in Sections(Entries(Kinds)), s.data_length = cur.data_length,
         NEW Q, IsSheets(Kinds, Q), WriteSecContinue(s, sec_bytes), BaseInv',
         NEW p, p = s.payload, NEW b, b = sec_bytes, NEW R, R = Replaced(Q, p, b)
  PROVE  IsSheets(Kinds, R)' /\ state' = "WRITE_SEC"
  <1>1. OnlyCur /\ state' = "WRITE_SEC" /\ cur' = s /\ sec_bytes' = b
    BY RestFacts DEF WriteSecContinue, OnlyCur, ReplaceCur, cur
  <1>2. DriverTypes(Entries(Kinds))' /\ cur'.data_length # 0 /\ p = cur'.payload
    BY <1>1 DEF BaseInv, DriverInv
  <1>3. IsSheets(Kinds, R)'
    BY <1>1, <1>2, SheetsGrow
  <1> QED
    BY <1>1, <1>3

\* The loop of program descriptors is the one whose length is stored.
LEMMA InfoPayload ==
  ASSUME BaseInv, LoadInv, At("GET_PROG_DESC"), NEW s, s = infoStored
  PROVE  \E v, l, w : /\ v = cur.payload /\ l \in 1 .. Len(v) /\ v[l].kind = "prog_info_len"
                      /\ s.payload = WithWord(v, l, w)
  <1>1. /\ state = "WRITE_SEC" /\ run.op_state = "GET_PROG_DESC"
        /\ cur \in Sections(Entries(Kinds)) /\ cur.data_length # 0
    BY HeadedFacts DEF At
  <1>2. s.payload = [cur.payload EXCEPT ![info.pos].n = loopLen(info.len)]
    BY <1>1, InfoStored
  <1>3. PICK D, F, P : PayloadInv(D, F, P)
    BY DEF LoadInv
  <1>4. Progs(D, F, P, cur.payload, cur.data_length, info)
    BY <1>1, <1>3 DEF PayloadInv
  <1>5. PICK v, l, w : v = cur.payload /\ l = info.pos /\ w = loopLen(info.len)
    OBVIOUS
  <1>6. l = 2 /\ l \in 1 .. Len(v) /\ v[l].kind = "prog_info_len"
    BY <1>4, <1>5 DEF Progs, PmtPayload
  <1>7. s.payload = WithWord(v, l, w)
    BY <1>2, <1>5 DEF WithWord
  <1> QED
    BY <1>5, <1>6, <1>7

\* The sections with it stored.
LEMMA InfoPack ==
  ASSUME BaseInv, LoadInv, At("GET_PROG_DESC"), NEW s, s = infoStored,
         NEW E, E.kind = "prog_desc",
         NEW Q, NEW ph, NEW held, NEW t, NEW n, SheetInv(E, Kinds, {}, Q, ph, held, t, n),
         Q # << >>, NEW m, m = Len(Q), Q[m][1] = cur.payload, Q[m][2] = sec_bytes,
         NEW p, p = s.payload, NEW b, b = sec_bytes, NEW R, R = Replaced(Q, p, b)
  PROVE  SheetInv(E, Kinds, {}, R, ph, held, t, n)
  <1>1. s \in Sections(Entries(Kinds))
    BY HeadedFacts, InfoStored DEF At
  <1>2. PICK v, l, w : /\ v = cur.payload /\ l \in 1 .. Len(v) /\ v[l].kind = "prog_info_len"
                       /\ s.payload = WithWord(v, l, w)
    BY InfoPayload
  <1>3. p \in Seq(Entries(Kinds))
    BY <1>1, SectionFieldTypes
  <1>4. v[l].kind \notin {"item", "desc", E.kind}
    BY <1>2
  <1> QED
    BY <1>2, <1>3, <1>4, LengthPack

\* What there is to show after a step between the items.
LEMMA BetweenKeeps ==
  ASSUME BaseInv, OrderInv, state = "WRITE_SEC", ItemsAt(Who)',
         UNCHANGED << attributes, prog_desc >>, Descriptors' = Descriptors,
         state' \in {"MALLOC_SEC", "WRITE_SEC"}, NEW q, q = run', Pending(q),
         NEW E, E = PmtSheet, NEW R, IsSheets(Kinds, R)',
         NEW ph, NEW held, NEW t, NEW n, SheetInv(E, Kinds, {}, R, ph, held, t, n),
         PmtDue(ph, held, t, n)'
  PROVE  OrderInv'
  <1>1. PmtContexts'
    BY DEF PmtContexts, Pending, Context
  <1>2. E = PmtSheet'
    BY SheetStays
  <1> QED
    BY <1>1, <1>2, KeepOrder

\* A program descriptor is looked at, or there are no more.
LEMMA GetProgDescOrder ==
  ASSUME BaseInv, LoadInv, OrderInv, GetProgDescFull \/ GetProgDescFits \/ NoMoreProgDescs
  PROVE  OrderInv'
  <1>1. PICK s, p, b : s = infoStored /\ p = s.payload /\ b = sec_bytes
    OBVIOUS
  <1>2. /\ BaseInv' /\ state = "WRITE_SEC" /\ run.op_state = "GET_PROG_DESC"
        /\ s \in Sections(Entries(Kinds)) /\ s.data_length = cur.data_length
        /\ At("GET_PROG_DESC") /\ items' = items
        /\ UNCHANGED << attributes, prog_desc >> /\ Descriptors' = Descriptors
    BY <1>1, GetProgDescBase DEF At, Descriptors
  <1>3. /\ DriverRest(Entries(Kinds), D_BIT)
        /\ ExtInv /\ cur.data_length # 0 /\ PmtContexts
        /\ cur.data_length = sec_bytes + 3 /\ sec_bytes \in Nat
        /\ run \in RunSet(Len(prog_desc), Len(items))
        /\ Len(items) \in Nat /\ Len(prog_desc) \in Nat
    BY <1>2, FilledFacts
  <1>4. PICK E, Q, ph, held, t, n, m :
          /\ E = PmtSheet /\ PmtFilled(E, Q, ph, held, t, n)
          /\ Q # << >> /\ m = Len(Q) /\ Q[m][1] = cur.payload /\ Q[m][2] = sec_bytes
          /\ Q \in SheetsOf(Kinds)
    BY <1>2, FilledFacts
  <1>5. SheetInv(E, Kinds, {}, Q, ph, held, t, n) /\ IsSheets(Kinds, Q) /\ PmtDue(ph, held, t, n)
    BY <1>4 DEF PmtFilled
  <1>6. /\ E.kind = "prog_desc" /\ E.set = 1 .. Len(prog_desc) /\ E.own = prog_desc
        /\ E.M = getMaxDataLen
    BY <1>4, SheetFacts
  <1>7. Pending(run) /\ ItemsAt(run.es)
    BY <1>2, <1>3 DEF PmtContexts, Who
  <1>8. PICK np \in Nat, ni \in Nat : np = Len(prog_desc) /\ ni = Len(items)
    BY <1>3
  <1>9. PICK r \in RunSet(np, ni) : r = run
    BY <1>3, <1>8
  <1>10. /\ r.pd_iter \in 1 .. np + 1 /\ r.es_iter \in 1 .. ni + 1 /\ r.es \in 0 .. ni
         /\ r.d_done \in BOOLEAN
    BY RunFields
  <1>11. PICK R : R = Replaced(Q, p, b)
    OBVIOUS
  <1>12. \A ph2, held2, u, v : SheetInv(E, Kinds, {}, Q, ph2, held2, u, v)
           => SheetInv(E, Kinds, {}, R, ph2, held2, u, v)
    <2>1. ASSUME NEW ph2, NEW held2, NEW u, NEW v, SheetInv(E, Kinds, {}, Q, ph2, held2, u, v)
          PROVE  SheetInv(E, Kinds, {}, R, ph2, held2, u, v)
      BY <1>1, <1>2, <1>4, <1>6, <1>11, <2>1, InfoPack
    <2> QED
      BY <2>1
  <1>13. ~r.d_done => /\ ph = "TOP" /\ held = "NONE" /\ t = 0 /\ n = r.pd_iter
                      /\ r.es = 0 /\ r.es_iter = 1
    BY <1>2, <1>5, <1>7, <1>9 DEF PmtDue, ProgDue, Pending
  <1>14. CASE GetProgDescFull
    <2>1. /\ run' = [r EXCEPT !.op_state = "WRITE_HEAD", !.pd = r.pd_iter, !.pd_iter = @ + 1]
          /\ Leave(FALSE, s) /\ ~r.d_done /\ r.pd_iter <= np
          /\ sec_bytes + prog_desc[r.pd_iter] > getMaxDataLen
      BY <1>1, <1>8, <1>9, <1>14 DEF GetProgDescFull, MoreProgDescs, ProgDescTooLong
    <2>2. IsSheets(Kinds, R)' /\ state' = "MALLOC_SEC"
      <3>1. PICK done \in BOOLEAN : done = FALSE
        OBVIOUS
      <3>2. Leave(done, s)
        BY <2>1, <3>1
      <3> QED
        BY <1>1, <1>2, <1>3, <1>5, <1>11, <3>1, <3>2, LeaveSheets
    <2>3. n \in E.set /\ Q[Len(Q)][2] + E.own[n] > E.M
      BY <1>4, <1>6, <1>8, <1>10, <1>13, <2>1
    <2>4. SheetInv(E, Kinds, {}, Q, "OUT", "ITEM", t, n)
      BY <1>5, <1>13, <2>1, <2>3, FullOwnPack
    <2>5. SheetInv(E, Kinds, {}, R, "OUT", "ITEM", t, n)
      BY <1>12, <2>4
    <2>6. PICK q : q = run'
      OBVIOUS
    <2>7. /\ q.op_state = "WRITE_HEAD" /\ q.pd = n /\ q.d_done = FALSE /\ q.es = 0
          /\ q.pd_iter = n + 1 /\ q.es_iter = 1 /\ n # 0
      BY <1>10, <1>13, <2>1, <2>6 DEF RunSet
    <2>8. Pending(q)
      BY <2>7 DEF Pending
    <2>9. ItemsAt(Who)'
      <3>1. PICK w : w = run.es
        OBVIOUS
      <3>2. Who' = w
        BY <1>9, <1>13, <2>1, <2>6, <2>7, <3>1 DEF Who
      <3>3. ItemsAt(w)'
        BY <1>2, <1>7, <3>1, ItemsAtSame
      <3> QED
        BY <3>2, <3>3
    <2>10. PmtDue("OUT", "ITEM", t, n)'
      BY <1>13, <2>1, <2>2, <2>6, <2>7 DEF PmtDue, ProgDue
    <2> QED
      BY <1>2, <1>4, <2>2, <2>5, <2>6, <2>8, <2>9, <2>10, BetweenKeeps
  <1>15. CASE GetProgDescFits
    <2>1. /\ run' = [r EXCEPT !.op_state = "WRITE_PROG_DESC", !.pd = r.pd_iter, !.pd_iter = @ + 1]
          /\ WriteSecContinue(s, sec_bytes) /\ ~r.d_done /\ r.pd_iter <= np
      BY <1>1, <1>8, <1>9, <1>15 DEF GetProgDescFits, MoreProgDescs
    <2>2. IsSheets(Kinds, R)' /\ state' = "WRITE_SEC"
      BY <1>1, <1>2, <1>3, <1>5, <1>11, <2>1, GoOnSheets
    <2>3. n \in E.set
      BY <1>6, <1>8, <1>10, <1>13, <2>1
    <2>4. SheetInv(E, Kinds, {}, Q, "TOP", "ITEM", t, n)
      BY <1>5, <1>13, <2>1, <2>3, FetchOwnPack
    <2>5. SheetInv(E, Kinds, {}, R, "TOP", "ITEM", t, n)
      BY <1>12, <2>4
    <2>6. PICK q : q = run'
      OBVIOUS
    <2>7. /\ q.op_state = "WRITE_PROG_DESC" /\ q.pd = n /\ q.d_done = FALSE /\ q.es = 0
          /\ q.pd_iter = n + 1 /\ q.es_iter = 1 /\ n # 0
      BY <1>10, <1>13, <2>1, <2>6 DEF RunSet
    <2>8. Pending(q)
      BY <2>7 DEF Pending
    <2>9. ItemsAt(Who)'
      <3>1. PICK w : w = run.es
        OBVIOUS
      <3>2. Who' = w
        BY <1>9, <1>13, <2>1, <2>6, <2>7, <3>1 DEF Who
      <3>3. ItemsAt(w)'
        BY <1>2, <1>7, <3>1, ItemsAtSame
      <3> QED
        BY <3>2, <3>3
    <2>10. PmtDue("TOP", "ITEM", t, n)'
      BY <1>13, <2>1, <2>2, <2>6, <2>7 DEF PmtDue, ProgDue
    <2> QED
      BY <1>2, <1>4, <2>2, <2>5, <2>6, <2>8, <2>9, <2>10, BetweenKeeps
  <1>16. CASE NoMoreProgDescs
    <2>1. /\ run' = [r EXCEPT !.op_state = streamsNext, !.d_done = TRUE,
                              !.pd = IF r.d_done THEN @ ELSE 0]
          /\ WriteSecContinue(s, sec_bytes) /\ (r.d_done \/ r.pd_iter > np)
      BY <1>1, <1>8, <1>9, <1>10, <1>16 DEF NoMoreProgDescs, MoreProgDescs
    <2>2. IsSheets(Kinds, R)' /\ state' = "WRITE_SEC"
      BY <1>1, <1>2, <1>3, <1>5, <1>11, <2>1, GoOnSheets
    <2>3. PICK q : q = run'
      OBVIOUS
    <2>4. PICK o : o = streamsNext
      OBVIOUS
    <2>5. /\ q.op_state = o /\ q.d_done = TRUE /\ q.es = r.es /\ q.es_iter = r.es_iter
          /\ q.pd = IF r.d_done THEN r.pd ELSE 0
          /\ o = IF r.es = 0 THEN "GET_XPORT_STREAM" ELSE "WRITE_XPORT_STREAM"
      BY <1>9, <2>1, <2>3, <2>4 DEF RunSet, streamsNext
    <2>6. CASE r.d_done
      <3>1. /\ r.pd = 0 /\ r.es # 0 /\ r.es_iter = r.es + 1 /\ ph = "TOP" /\ t = r.es
            /\ ItemHeld(items[t].run, held, n)
        BY <1>2, <1>5, <1>7, <1>9, <2>6 DEF PmtDue, StreamDue, Pending
      <3>2. Pending(q) /\ q.op_state = "WRITE_XPORT_STREAM" /\ q.es = t
        BY <2>5, <2>6, <3>1 DEF Pending
      <3>3. ItemsAt(Who)'
        <4>1. Who' = t
          BY <2>3, <3>2 DEF Who
        <4>2. ItemsAt(t)'
          BY <1>2, <1>7, <1>9, <3>1, ItemsAtSame
        <4> QED
          BY <4>1, <4>2
      <3>4. PmtDue("TOP", held, t, n)'
        BY <1>2, <2>2, <2>3, <2>5, <3>1, <3>2 DEF PmtDue, StreamDue
      <3>5. SheetInv(E, Kinds, {}, R, "TOP", held, t, n)
        BY <1>5, <1>12, <3>1
      <3> QED
        BY <1>2, <1>4, <2>2, <2>3, <3>2, <3>3, <3>4, <3>5, BetweenKeeps
    <2>7. CASE ~r.d_done
      <3>1. n = Len(E.own) + 1
        BY <1>6, <1>8, <1>10, <1>13, <2>1, <2>7
      <3>2. SheetInv(E, Kinds, {}, Q, "TOP", "NONE", 1, 1)
        BY <1>5, <1>13, <2>7, <3>1, OwnDonePack
      <3>3. SheetInv(E, Kinds, {}, R, "TOP", "NONE", 1, 1)
        BY <1>12, <3>2
      <3>4. Pending(q) /\ q.op_state = "GET_XPORT_STREAM" /\ q.es_iter = 1
        BY <1>13, <2>5, <2>7 DEF Pending
      <3>5. ItemsAt(Who)'
        <4>1. PICK w : w = run.es
          OBVIOUS
        <4>2. Who' = w
          BY <1>9, <1>13, <2>3, <2>7, <3>4, <4>1 DEF Who
        <4>3. ItemsAt(w)'
          BY <1>2, <1>7, <4>1, ItemsAtSame
        <4> QED
          BY <4>2, <4>3
      <3>6. PmtDue("TOP", "NONE", 1, 1)'
        BY <2>2, <2>3, <2>5, <3>4 DEF PmtDue, StreamDue
      <3> QED
        BY <1>2, <1>4, <2>2, <2>3, <3>3, <3>4, <3>5, <3>6, BetweenKeeps
    <2> QED
      BY <2>6, <2>7
  <1> QED
    BY <1>14, <1>15, <1>16

\* A program descriptor is written.
LEMMA WriteProgDescOrder ==
  ASSUME BaseInv, OrderInv, WriteProgDesc
  PROVE  OrderInv'
  <1>1. PICK d : d = run.pd
    OBVIOUS
  <1>2. /\ BaseInv' /\ state = "WRITE_SEC" /\ run.op_state = "WRITE_PROG_DESC"
        /\ items' = items /\ prog_desc' = prog_desc /\ UNCHANGED attributes
        /\ d \in DOMAIN prog_desc /\ d \in ui16 /\ prog_desc[d] \in DescLength
    BY <1>1, WriteProgDescBase DEF WriteProgDesc, table
  <1>3. CASE state' = "ABORTED"
    BY <1>3, AbortedOrder
  <1>4. CASE state' # "ABORTED"
    <2>1. PICK x : x = Entry("prog_desc", 0, d)
      OBVIOUS
    <2>2. /\ state' = "WRITE_SEC" /\ OnlyCur /\ x \in Entries(Kinds)
          /\ cur'.payload = Append(cur.payload, x)
          /\ cur'.data_length = cur.data_length + prog_desc[d] /\ cur'.data_length # 0
      BY <1>1, <1>4, <2>1, WriteProgDescBase
    <2>3. /\ DriverRest(Entries(Kinds), D_BIT)
          /\ cur.data_length # 0 /\ PmtContexts
          /\ cur.data_length = sec_bytes + 3 /\ sec_bytes \in Nat
          /\ run \in RunSet(Len(prog_desc), Len(items))
          /\ Len(items) \in Nat /\ Len(prog_desc) \in Nat
      BY <1>2, FilledFacts
    <2>4. PICK E, Q, ph, held, t, n, m :
            /\ E = PmtSheet /\ PmtFilled(E, Q, ph, held, t, n)
            /\ Q # << >> /\ m = Len(Q) /\ Q[m][1] = cur.payload /\ Q[m][2] = sec_bytes
            /\ Q \in SheetsOf(Kinds)
      BY <1>2, FilledFacts
    <2>5. SheetInv(E, Kinds, {}, Q, ph, held, t, n) /\ IsSheets(Kinds, Q) /\ PmtDue(ph, held, t, n)
      BY <2>4 DEF PmtFilled
    <2>6. E.kind = "prog_desc" /\ E.own = prog_desc
      BY <2>4, SheetFacts
    <2>7. Pending(run) /\ ItemsAt(run.es)
      BY <1>2, <2>3 DEF PmtContexts, Who
    <2>8. /\ run.d_done = FALSE /\ run.es = 0 /\ run.es_iter = 1 /\ run.pd_iter = run.pd + 1
          /\ ph = "TOP" /\ held = "ITEM" /\ t = 0 /\ n = run.pd
      <3>1. run.d_done \in BOOLEAN
        BY <2>3 DEF RunSet
      <3> QED
        BY <1>2, <2>5, <2>7, <3>1 DEF PmtDue, ProgDue, Pending
    <2>9. PICK p, b, R : p = cur'.payload /\ b = sec_bytes' /\ R = Replaced(Q, p, b)
      OBVIOUS
    <2>10. cur'.data_length = b + 3 /\ b \in Nat /\ DriverTypes(Entries(Kinds))'
      BY <1>2, <2>2, <2>9, CurBytes
    <2>11. IsSheets(Kinds, R)'
      BY <1>2, <2>2, <2>3, <2>5, <2>9, <2>10, SheetsGrow
    <2>12. b = Q[m][2] + E.own[n]
      <3>1. PICK l \in Nat : l = prog_desc[d]
        BY <1>2, DescLengths
      <3>2. b + 3 = sec_bytes + 3 + l
        BY <2>2, <2>3, <2>10, <3>1
      <3>3. b = sec_bytes + l
        BY ONLY <2>3, <2>10, l \in Nat, <3>2
      <3> QED
        BY <1>1, <2>4, <2>6, <2>8, <3>1, <3>3
    <2>13. PICK v : v = n + 1
      OBVIOUS
    <2>14. SheetInv(E, Kinds, {}, R, "TOP", "NONE", t, v)
      <3>1. /\ x.owner = 0 /\ x.kind = E.kind /\ x.n = n
        BY <1>1, <2>1, <2>6, <2>8 DEF Entry
      <3>2. R = Replaced(Q, Append(Q[m][1], x), b)
        BY <2>2, <2>4, <2>9
      <3> QED
        BY <2>2, <2>4, <2>5, <2>8, <2>12, <2>13, <3>1, <3>2, PutOwnPack
    <2>15. PICK q : q = run'
      OBVIOUS
    <2>16. q = [run EXCEPT !.op_state = "GET_PROG_DESC"]
      BY <1>4, <2>15 DEF WriteProgDesc, Abort
    <2>17. /\ q.op_state = "GET_PROG_DESC" /\ q.d_done = FALSE /\ q.es = 0
           /\ q.pd_iter = v /\ q.es_iter = 1
      BY <2>3, <2>8, <2>13, <2>16 DEF RunSet
    <2>18. Pending(q)
      BY <2>17 DEF Pending
    <2>19. ItemsAt(Who)'
      <3>1. PICK w : w = run.es
        OBVIOUS
      <3>2. Who' = w
        BY <2>8, <2>15, <2>17, <3>1 DEF Who
      <3>3. ItemsAt(w)'
        BY <1>2, <2>7, <3>1, ItemsAtSame
      <3> QED
        BY <3>2, <3>3
    <2>20. PmtDue("TOP", "NONE", t, v)'
      BY <2>2, <2>8, <2>15, <2>17 DEF PmtDue, ProgDue
    <2>21. Descriptors' = Descriptors
      BY <1>2 DEF Descriptors
    <2> QED
      BY <1>2, <2>2, <2>4, <2>11, <2>14, <2>15, <2>18, <2>19, <2>20, <2>21, BetweenKeeps
  <1> QED
    BY <1>3, <1>4

\* What starting a stream takes, in terms of the sheet.
LEMMA StartTakes ==
  ASSUME NEW D, D = Descriptors, NEW i \in DOMAIN items, NEW d, d = D[i]
  PROVE  ItemStartsTooLong(i, BASE_LEN)
           <=> sec_bytes + BASE_LEN + (IF d = << >> THEN 0 ELSE d[1]) > getMaxDataLen
  <1>1. d = items[i].descriptors
    BY DEF Descriptors
  <1> QED
    BY <1>1 DEF ItemStartsTooLong

\* The next stream is looked at.
LEMMA GetStreamOrder ==
  ASSUME BaseInv, OrderInv, GetStreamFull \/ GetStreamFits \/ GetStreamEnd
  PROVE  OrderInv'
  <1>1. /\ state = "WRITE_SEC" /\ run.op_state = "GET_XPORT_STREAM" /\ items' = items
        /\ UNCHANGED << attributes, prog_desc >> /\ Descriptors' = Descriptors
    BY GetStreamBase DEF Descriptors
  <1>2. /\ DriverRest(Entries(Kinds), D_BIT)
        /\ ExtInv /\ cur.data_length # 0 /\ PmtContexts
        /\ cur \in Sections(Entries(Kinds))
        /\ cur.data_length = sec_bytes + 3 /\ sec_bytes \in Nat
        /\ run \in RunSet(Len(prog_desc), Len(items))
        /\ Len(items) \in Nat /\ Len(prog_desc) \in Nat
    BY <1>1, FilledFacts
  <1>3. PICK E, Q, ph, held, t, n, m :
          /\ E = PmtSheet /\ PmtFilled(E, Q, ph, held, t, n)
          /\ Q # << >> /\ m = Len(Q) /\ Q[m][1] = cur.payload /\ Q[m][2] = sec_bytes
          /\ Q \in SheetsOf(Kinds)
    BY <1>1, FilledFacts
  <1>4. /\ PackArgs(E) /\ DOMAIN E.D = DOMAIN items /\ E.D = Descriptors
        /\ \A i \in DOMAIN items : E.D[i] = items[i].descriptors
        /\ E.base = BASE_LEN /\ E.M = getMaxDataLen
        /\ DOMAIN items = 1 .. Len(items) /\ Len(E.D) = Len(items)
    BY <1>3, SheetFacts
  <1>5. Pending(run) /\ ItemsAt(0)
    BY <1>1, <1>2 DEF PmtContexts, Who
  <1>6. PICK np \in Nat, ni \in Nat : np = Len(prog_desc) /\ ni = Len(items)
    BY <1>2
  <1>7. PICK r \in RunSet(np, ni) : r = run
    BY <1>2, <1>6
  <1>8. r.es_iter \in 1 .. ni + 1 /\ r.d_done = TRUE /\ r.pd = 0
    BY <1>1, <1>5, <1>7, RunFields DEF Pending
  <1>9. /\ SheetInv(E, Kinds, {}, Q, "TOP", "NONE", t, n) /\ IsSheets(Kinds, Q)
        /\ t = r.es_iter /\ n = 1
    BY <1>1, <1>3, <1>7, <1>8 DEF PmtFilled, PmtDue, StreamDue
  <1>10. \A w : ItemsAt(w)
    <2>1. 0 \notin DOMAIN items
      BY <1>4, <1>6
    <2> QED
      BY <1>2, <1>5, <2>1, ItemsAtAny
  <1>11. PICK p, b, R : p = cur.payload /\ b = sec_bytes /\ R = Replaced(Q, p, b)
    OBVIOUS
  <1>12. R = Q
    BY <1>3, <1>11, ReplacedSame
  <1>13. ASSUME NEW o \in {"WRITE_HEAD", "WRITE_XPORT_STREAM"}, NEW q, q = run',
                q = [r EXCEPT !.op_state = o, !.es = r.es_iter, !.es_iter = @ + 1],
                r.es_iter <= ni
         PROVE  /\ Pending(q) /\ t \in DOMAIN items /\ items[t].run.op_state = "INIT"
                /\ q.op_state = o /\ q.es = t /\ q.d_done = TRUE /\ ItemsAt(Who)'
    <2>1. /\ q.op_state = o /\ q.es = t /\ q.es_iter = q.es + 1 /\ q.d_done = TRUE
          /\ q.pd = 0 /\ q.es # 0
      BY <1>8, <1>9, <1>13 DEF RunSet
    <2>2. Pending(q)
      BY <2>1 DEF Pending
    <2>3. Who' = t
      BY <1>13, <2>1 DEF Who
    <2>4. ItemsAt(t)'
      BY <1>1, <1>10, ItemsAtSame
    <2>5. t \in DOMAIN items
      BY <1>4, <1>6, <1>8, <1>9, <1>13
    <2>6. items[t].run.op_state = "INIT"
      <3>1. t # 0
        BY <1>8, <1>9
      <3> QED
        BY <1>5, <2>5, <3>1 DEF ItemsAt
    <2> QED
      BY <2>1, <2>2, <2>3, <2>4, <2>5, <2>6
  <1>14. CASE GetStreamFull
    <2>1. /\ run' = [r EXCEPT !.op_state = "WRITE_HEAD", !.es = r.es_iter, !.es_iter = @ + 1]
          /\ Leave(FALSE, cur) /\ r.es_iter <= ni
          /\ ItemStartsTooLong(r.es_iter, BASE_LEN)
      BY <1>6, <1>7, <1>14 DEF GetStreamFull
    <2>2. IsSheets(Kinds, Q)' /\ state' = "MALLOC_SEC"
      <3>1. PICK done \in BOOLEAN : done = FALSE
        OBVIOUS
      <3>2. PICK s : s = cur
        OBVIOUS
      <3>3. Leave(done, s)
        BY <2>1, <3>1, <3>2
      <3> QED
        BY <1>1, <1>2, <1>9, <1>11, <1>12, <3>1, <3>2, <3>3, LeaveSheets
    <2>3. PICK o \in {"WRITE_HEAD", "WRITE_XPORT_STREAM"} : o = "WRITE_HEAD"
      OBVIOUS
    <2>4. PICK q : q = run'
      OBVIOUS
    <2>5. /\ Pending(q) /\ t \in DOMAIN items /\ items[t].run.op_state = "INIT"
          /\ q.op_state = o /\ q.es = t /\ q.d_done = TRUE /\ ItemsAt(Who)'
      BY <1>13, <2>1, <2>3, <2>4
    <2>6. SheetInv(E, Kinds, {}, Q, "OUT", "ITEM", t, n)
      <3>1. ItemStartsTooLong(t, BASE_LEN)
        BY <1>9, <2>1
      <3>2. sec_bytes + E.base + (IF E.D[t] = << >> THEN 0 ELSE E.D[t][1]) > E.M
        BY <1>4, <2>5, <3>1, StartTakes
      <3> QED
        BY <1>3, <1>4, <1>9, <2>5, <3>2, FullItemPack
    <2>7. PmtDue("OUT", "ITEM", t, n)'
      BY <1>1, <1>9, <2>2, <2>3, <2>4, <2>5 DEF PmtDue, StreamDue, ItemHeld
    <2> QED
      BY <1>1, <1>3, <2>2, <2>3, <2>4, <2>5, <2>6, <2>7, BetweenKeeps
  <1>15. CASE GetStreamFits
    <2>1. /\ run' = [r EXCEPT !.op_state = "WRITE_XPORT_STREAM", !.es = r.es_iter, !.es_iter = @ + 1]
          /\ r.es_iter <= ni /\ ~ItemStartsTooLong(r.es_iter, BASE_LEN)
          /\ UNCHANGED << stream, first, state, sec_bytes >>
      BY <1>6, <1>7, <1>15 DEF GetStreamFits, driver
    <2>2. IsSheets(Kinds, Q)' /\ state' = "WRITE_SEC"
      BY <1>1, <1>9, <2>1, SheetsStay
    <2>3. PICK o \in {"WRITE_HEAD", "WRITE_XPORT_STREAM"} : o = "WRITE_XPORT_STREAM"
      OBVIOUS
    <2>4. PICK q : q = run'
      OBVIOUS
    <2>5. /\ Pending(q) /\ t \in DOMAIN items /\ items[t].run.op_state = "INIT"
          /\ q.op_state = o /\ q.es = t /\ q.d_done = TRUE /\ ItemsAt(Who)'
      BY <1>13, <2>1, <2>3, <2>4
    <2>6. SheetInv(E, Kinds, {}, Q, "TOP", "ITEM", t, n)
      <3>1. ~ItemStartsTooLong(t, BASE_LEN)
        BY <1>9, <2>1
      <3>2. ~(sec_bytes + E.base + (IF E.D[t] = << >> THEN 0 ELSE E.D[t][1]) > E.M)
        BY <1>4, <2>5, <3>1, StartTakes
      <3>3. E.D[t] # << >> => sec_bytes + E.base + E.D[t][1] <= E.M
        <4>1. /\ Len(E.D[t]) \in Nat /\ (E.D[t] = << >> <=> Len(E.D[t]) = 0)
              /\ \A k \in 1 .. Len(E.D[t]) : E.D[t][k] \in Nat
          BY <1>4, <2>5, ItemType
        <4>2. E.base \in Nat /\ E.M \in Nat
          BY <1>4 DEF PackArgs
        <4>3. E.D[t] # << >> => E.D[t][1] \in Nat
          BY <4>1
        <4>4. ASSUME E.D[t] # << >> PROVE sec_bytes + E.base + E.D[t][1] <= E.M
          <5>1. ~(sec_bytes + E.base + E.D[t][1] > E.M)
            BY ONLY <3>2, <4>4
          <5>2. sec_bytes \in Nat
            BY ONLY <1>2
          <5> QED
            BY ONLY <4>2, <4>3, <4>4, <5>1, <5>2
        <4> QED
          BY ONLY <4>4
      <3> QED
        BY <1>3, <1>4, <1>9, <2>5, <3>3, FetchItemPack
    <2>7. PmtDue("TOP", "ITEM", t, n)'
      BY <1>1, <1>9, <2>2, <2>3, <2>4, <2>5 DEF PmtDue, StreamDue, ItemHeld
    <2> QED
      BY <1>1, <1>3, <2>2, <2>3, <2>4, <2>5, <2>6, <2>7, BetweenKeeps
  <1>16. CASE GetStreamEnd
    <2>1. run' = Context /\ Leave(TRUE, cur) /\ r.es_iter > ni
      BY <1>6, <1>7, <1>16 DEF GetStreamEnd
    <2>2. IsSheets(Kinds, Q)' /\ state' = "END_TABLE"
      <3>1. PICK done \in BOOLEAN : done = TRUE
        OBVIOUS
      <3>2. PICK s : s = cur
        OBVIOUS
      <3>3. Leave(done, s)
        BY <2>1, <3>1, <3>2
      <3> QED
        BY <1>1, <1>2, <1>9, <1>11, <1>12, <3>1, <3>2, <3>3, LeaveSheets
    <2>3. t = Len(E.D) + 1
      BY <1>4, <1>6, <1>8, <1>9, <2>1
    <2>4. SheetInv(E, Kinds, {}, Q, "END", "NONE", t, n)
      BY <1>9, <2>3, EndPack
    <2>5. PmtContexts'
      <3>1. Who' = 0 /\ Pending(run)'
        BY <2>1 DEF Context, Who, Pending
      <3>2. ItemsAt(0)'
        BY <1>1, <1>5, ItemsAtSame
      <3> QED
        BY <2>1, <3>1, <3>2 DEF PmtContexts
    <2>6. PmtDue("END", "NONE", t, n)'
      BY <2>2 DEF PmtDue
    <2>7. E = PmtSheet'
      BY <1>1, <1>3, SheetStays
    <2> QED
      BY <2>2, <2>4, <2>5, <2>6, <2>7, KeepOrder
  <1> QED
    BY <1>14, <1>15, <1>16

-----------------------------------------------------------------------------
(* A stream is written.                                                    *)

\* Its context leaves nothing of the program descriptors.
LEMMA StreamRun ==
  ASSUME BaseInv, OrderInv, At("WRITE_XPORT_STREAM")
  PROVE  /\ run.op_state = "WRITE_XPORT_STREAM" /\ run.d_done = TRUE /\ run.pd = 0
         /\ run.es # 0 /\ run.es_iter = run.es + 1 /\ run.es \in DOMAIN items /\ ItemsAt(run.es)
         /\ run \in RunSet(Len(prog_desc), Len(items)) /\ Pending(run)
  <1>1. /\ state = "WRITE_SEC" /\ run.op_state = "WRITE_XPORT_STREAM" /\ run.es \in DOMAIN items
        /\ run \in RunSet(Len(prog_desc), Len(items))
    BY StreamFacts
  <1>2. PmtContexts
    BY DEF OrderInv
  <1>3. PICK w : w = run.es
    OBVIOUS
  <1>4. Who = w
    BY <1>1, <1>3 DEF Who
  <1>5. ItemsAt(w) /\ Pending(run)
    BY <1>1, <1>2, <1>4 DEF PmtContexts
  <1>6. run.d_done \in BOOLEAN
    BY <1>1 DEF RunSet
  <1> QED
    BY <1>1, <1>3, <1>5, <1>6 DEF Pending

\* The sections as the packing sees them while stream i is written.
StreamHas(i, r, len) ==
  \E E, Q, ph, held, n, m :
    /\ E = PmtSheet /\ SheetInv(E, Kinds, {}, Q, ph, held, i, n) /\ IsSheets(Kinds, Q)
    /\ \/ ph = "TOP" /\ ItemHeld(r, held, n)
       \/ ph = "IN" /\ ItemBegun(r, len, held, n)
    /\ Q # << >> /\ m = Len(Q) /\ Q[m][1] = cur.payload /\ Q[m][2] = sec_bytes
    /\ Q \in SheetsOf(Kinds) /\ i \in DOMAIN E.D /\ E.D[i] = items[i].descriptors
    /\ E.base = BASE_LEN /\ E.M = getMaxDataLen /\ len = Len(E.D[i])
    /\ E.kind = "prog_desc"

\* What is known of it.
LEMMA StreamSheet ==
  ASSUME BaseInv, OrderInv, At("WRITE_XPORT_STREAM"), NEW i, i = run.es,
         NEW r, r = items[i].run, NEW len, len = Len(items[i].descriptors)
  PROVE  /\ DriverInv(Entries(Kinds), D_BIT) /\ DriverRest(Entries(Kinds), D_BIT)
         /\ state = "WRITE_SEC" /\ ExtInv
         /\ cur.data_length # 0 /\ cur.data_length = sec_bytes + 3 /\ sec_bytes \in Nat
         /\ cur \in Sections(Entries(Kinds))
         /\ i \in DOMAIN items /\ i # 0 /\ ItemsAt(i) /\ RunOK(r, len) /\ NextOK(r, len)
         /\ len \in Nat
         /\ StreamHas(i, r, len)
  <1>1. /\ state = "WRITE_SEC" /\ run.op_state = "WRITE_XPORT_STREAM" /\ i \in DOMAIN items
        /\ DriverInv(Entries(Kinds), D_BIT) /\ ItemsAt(i) /\ i # 0 /\ run.d_done = TRUE
    BY StreamRun, StreamFacts
  <1>2. /\ DriverRest(Entries(Kinds), D_BIT) /\ ExtInv /\ cur.data_length # 0
        /\ cur \in Sections(Entries(Kinds)) /\ cur.data_length = sec_bytes + 3
        /\ sec_bytes \in Nat
    BY <1>1, FilledFacts
  <1>3. PICK E, Q, ph, held, t, n, m :
          /\ E = PmtSheet /\ PmtFilled(E, Q, ph, held, t, n)
          /\ Q # << >> /\ m = Len(Q) /\ Q[m][1] = cur.payload /\ Q[m][2] = sec_bytes
          /\ Q \in SheetsOf(Kinds)
    BY <1>1, FilledFacts
  <1>4. RunOK(r, len) /\ len \in Nat
    BY <1>1, <1>2, ItemFacts
  <1>5. NextOK(r, len)
    BY <1>1 DEF ItemsAt
  <1>6. /\ i \in DOMAIN E.D /\ E.D[i] = items[i].descriptors
        /\ E.base = BASE_LEN /\ E.M = getMaxDataLen /\ E.kind = "prog_desc"
    BY <1>1, <1>3, SheetFacts
  <1>7. StreamDue(run, ph, held, t, n)
    BY <1>1, <1>3 DEF PmtFilled, PmtDue
  <1>8. PICK d : d = items[t].descriptors
    OBVIOUS
  <1>9. /\ t = i /\ SheetInv(E, Kinds, {}, Q, ph, held, i, n) /\ IsSheets(Kinds, Q)
        /\ \/ ph = "TOP" /\ ItemHeld(r, held, n)
           \/ ph = "IN" /\ ItemBegun(r, len, held, n)
    BY <1>1, <1>3, <1>7 DEF PmtFilled, StreamDue
  <1>10. StreamHas(i, r, len)
    BY <1>3, <1>6, <1>9 DEF StreamHas
  <1> QED
    BY <1>1, <1>2, <1>4, <1>5, <1>10

\* What there is to show of it after a step within the stream.
LEMMA StreamKeeps ==
  ASSUME BaseInv, OrderInv, At("WRITE_XPORT_STREAM"), NEW i, i = run.es,
         OnlyRun(i), UNCHANGED << attributes, prog_desc, run >>, state' = "WRITE_SEC",
         NEW E, E = PmtSheet, NEW R, IsSheets(Kinds, R)',
         NEW q, q = items'[i].run, NEW len, len = Len(items[i].descriptors), NextOK(q, len),
         NEW held, NEW n, SheetInv(E, Kinds, {}, R, "IN", held, i, n), ItemBegun(q, len, held, n)
  PROVE  OrderInv'
  <1>1. /\ ExtInv /\ i \in DOMAIN items /\ ItemsAt(i) /\ run.op_state = "WRITE_XPORT_STREAM"
        /\ run.d_done = TRUE /\ Pending(run) /\ state = "WRITE_SEC" /\ run' = run
    BY StreamRun, StreamFacts
  <1>2. ItemsAt(i)'
    BY <1>1, ItemsAtRun
  <1>3. ItemsAt(Who)'
    <2>1. Who' = i
      BY <1>1 DEF Who
    <2> QED
      BY <1>2, <2>1
  <1>4. Descriptors' = Descriptors
    BY <1>1, DescriptorsSame
  <1>5. items'[i].descriptors = items[i].descriptors
    BY <1>1 DEF OnlyRun
  <1>6. PmtDue("IN", held, i, n)'
    BY <1>1, <1>5 DEF PmtDue, StreamDue
  <1>7. PICK g : g = run'
    OBVIOUS
  <1>8. Pending(g)
    BY <1>1, <1>7
  <1>9. PICK ph \in {"IN"} : ph = "IN"
    OBVIOUS
  <1>10. SheetInv(E, Kinds, {}, R, ph, held, i, n) /\ PmtDue(ph, held, i, n)'
    BY <1>6, <1>9
  <1> QED
    BY <1>1, <1>3, <1>4, <1>7, <1>8, <1>10, BetweenKeeps

\* The stream's header.
LEMMA StreamHeadOrder ==
  ASSUME BaseInv, OrderInv, At("WRITE_XPORT_STREAM"),
         ItemWriteHead(run.es, BASE_LEN, 57344 + items[run.es].id),
         UNCHANGED << table, run, info >>
  PROVE  OrderInv'
  <1>1. PICK i, r, len :
          /\ i = run.es /\ r = items[i].run /\ len = Len(items[i].descriptors)
    BY ONLY TRUE
  <1>2. PICK header : header = 57344 + items[i].id
    OBVIOUS
  <1>3. /\ i = run.es /\ r = items[i].run /\ len = Len(items[i].descriptors)
        /\ header = 57344 + items[i].id
    BY <1>1, <1>2
  <1>4. /\ DriverInv(Entries(Kinds), D_BIT) /\ DriverRest(Entries(Kinds), D_BIT)
        /\ state = "WRITE_SEC" /\ ExtInv
        /\ cur.data_length # 0 /\ cur.data_length = sec_bytes + 3 /\ sec_bytes \in Nat
        /\ i \in DOMAIN items /\ RunOK(r, len) /\ NextOK(r, len)
        /\ StreamHas(i, r, len)
    BY ONLY BaseInv, OrderInv, At("WRITE_XPORT_STREAM"), <1>3, StreamSheet
  <1>5. PICK E, Q, ph, held, n, m :
          /\ E = PmtSheet /\ SheetInv(E, Kinds, {}, Q, ph, held, i, n) /\ IsSheets(Kinds, Q)
          /\ \/ ph = "TOP" /\ ItemHeld(r, held, n)
             \/ ph = "IN" /\ ItemBegun(r, len, held, n)
          /\ Q # << >> /\ m = Len(Q) /\ Q[m][1] = cur.payload /\ Q[m][2] = sec_bytes
          /\ Q \in SheetsOf(Kinds) /\ i \in DOMAIN E.D /\ E.D[i] = items[i].descriptors
          /\ E.base = BASE_LEN /\ E.M = getMaxDataLen /\ len = Len(E.D[i])
    BY ONLY <1>4 DEF StreamHas
  <1>6. /\ ItemWriteHead(i, BASE_LEN, header) /\ UNCHANGED << run, info >>
        /\ UNCHANGED << attributes, length, prog_desc, program_info_length, asked >>
    BY <1>3 DEF table
  <1>7. BaseInv' /\ header \in ui16
    BY <1>3, <1>6, StreamHeadBase
  <1>8. /\ OnlyCur /\ OnlyRun(i) /\ r.op_state \in {"INIT", "WRITE_HEAD"}
        /\ \/ state' = "ABORTED"
           \/ /\ state' = "WRITE_SEC"
              /\ cur'.payload = PutItem(cur.payload, i, header)
              /\ cur'.data_length = cur.data_length + BASE_LEN /\ cur'.data_length # 0
              /\ items'[i].run = HeadRun(r, len)
    <2>1. PICK base_len : base_len = BASE_LEN
      OBVIOUS
    <2>2. /\ base_len \in Nat /\ 2 <= base_len /\ ItemWriteHead(i, base_len, header)
          /\ UNCHANGED << attributes, length >>
      BY <1>6, <2>1, PmtNumbers
    <2>3. PICK K, bit : K = Kinds /\ bit = D_BIT
      OBVIOUS
    <2>4. DriverInv(Entries(K), bit) /\ ItemKinds \subseteq K
      BY <1>4, <2>3, PmtNumbers
    <2>5. /\ OnlyCur /\ OnlyRun(i)
          /\ items[i].run.op_state \in {"INIT", "WRITE_HEAD"}
          /\ \/ state' = "ABORTED"
             \/ /\ state' = "WRITE_SEC"
                /\ cur'.payload = PutItem(cur.payload, i, header)
                /\ cur'.data_length = cur.data_length + base_len /\ cur'.data_length # 0
                /\ items'[i].run =
                     [op_state |-> IF items[i].run.d = 0 THEN "GET_DESC" ELSE "WRITE_DESC",
                      d |-> items[i].run.d,
                      d_iter |-> IF items[i].run.op_state = "INIT"
                                 THEN Iter(1, Len(items[i].descriptors))
                                 ELSE items[i].run.d_iter]
      <3>1. /\ i \in DOMAIN items /\ base_len \in Nat /\ 2 <= base_len /\ header \in ui16
            /\ ItemKinds \subseteq K /\ DriverInv(Entries(K), bit) /\ ExtInv
            /\ state = "WRITE_SEC" /\ cur.data_length # 0
            /\ ItemWriteHead(i, base_len, header) /\ UNCHANGED << attributes, length >>
        BY ONLY <1>4, <1>7, <2>2, <2>4
      <3>2. /\ OnlyCur /\ OnlyRun(i)
            /\ items[i].run.op_state \in {"INIT", "WRITE_HEAD"}
            /\ \/ state' = "ABORTED"
               \/ /\ state' = "WRITE_SEC" /\ lengthFits(cur, base_len)
                  /\ cur'.payload = PutItem(cur.payload, i, header)
                  /\ cur'.data_length = cur.data_length + base_len /\ cur'.data_length # 0
                  /\ desc_loop' = [pos |-> Len(cur.payload) + 2, len |-> 0]
                  /\ items'[i].run =
                       [op_state |-> IF items[i].run.d = 0 THEN "GET_DESC" ELSE "WRITE_DESC",
                        d |-> items[i].run.d,
                        d_iter |-> IF items[i].run.op_state = "INIT"
                                   THEN Iter(1, Len(items[i].descriptors))
                                   ELSE items[i].run.d_iter]
        BY ONLY <3>1, ItemHeadStep
      <3> QED
        BY ONLY <3>2
    <2> QED
      BY ONLY <1>3, <2>1, <2>5 DEF HeadRun
  <1>9. CASE state' = "ABORTED"
    BY <1>9, AbortedOrder
  <1>10. CASE state' # "ABORTED"
    <2>1. ph = "TOP" /\ ItemHeld(r, held, n)
      BY <1>5, <1>8 DEF ItemBegun
    <2>2. PICK p, b, q : p = cur'.payload /\ b = sec_bytes' /\ q = items'[i].run
      OBVIOUS
    <2>3. cur'.data_length = b + 3 /\ b \in Nat /\ DriverTypes(Entries(Kinds))'
      BY <1>7, <1>8, <1>10, <2>2, CurBytes
    <2>4. b = Q[m][2] + E.base /\ p = PutItem(Q[m][1], i, header)
      <3>1. b + 3 = sec_bytes + 3 + 5 /\ BASE_LEN = 5
        BY <1>4, <1>8, <1>10, <2>3, PmtNumbers
      <3>2. b = sec_bytes + 5
        BY ONLY <1>4, <2>3, <3>1
      <3> QED
        BY <1>5, <1>8, <1>10, <2>2, <3>1, <3>2
    <2>5. PICK R : R = Replaced(Q, p, b)
      OBVIOUS
    <2>6. IsSheets(Kinds, R)'
      <3>1. state' = "WRITE_SEC" /\ cur'.data_length # 0
        BY <1>8, <1>10
      <3>2. IsSheets(Kinds, Q) /\ OnlyCur
        BY <1>5, <1>8
      <3> QED
        BY ONLY <1>4, <2>2, <2>3, <2>5, <3>1, <3>2, SheetsGrow
    <2>7. q = HeadRun(r, len)
      BY <1>8, <1>10, <2>2
    <2>8. /\ NextOK(q, len)
          /\ \E held2, n2 : SheetInv(E, Kinds, {}, R, "IN", held2, i, n2) /\ ItemBegun(q, len, held2, n2)
      <3>1. R = Replaced(Q, PutItem(Q[m][1], i, header), b) /\ b = Q[m][2] + E.base
        BY <2>4, <2>5
      <3>2. SheetInv(E, Kinds, {}, Q, "TOP", held, i, n)
        BY <1>5, <2>1
      <3>3. /\ m = Len(Q) /\ i \in DOMAIN E.D /\ len = Len(E.D[i]) /\ ItemKinds \subseteq Kinds
        BY <1>5, PmtNumbers
      <3> QED
        BY ONLY <1>4, <1>7, <2>1, <2>7, <3>1, <3>2, <3>3, ItemHeadPack
    <2>9. PICK held2, n2 : SheetInv(E, Kinds, {}, R, "IN", held2, i, n2) /\ ItemBegun(q, len, held2, n2)
      BY <2>8
    <2> QED
      BY <1>3, <1>5, <1>6, <1>8, <1>10, <2>2, <2>6, <2>8, <2>9, StreamKeeps
  <1> QED
    BY <1>8, <1>9, <1>10

\* Its next descriptor is fetched.
LEMMA StreamFetchOrder ==
  ASSUME BaseInv, OrderInv, At("WRITE_XPORT_STREAM"), ItemGetDescFits(run.es),
         UNCHANGED << table, run, info >>
  PROVE  OrderInv'
  <1>1. PICK i, r, len :
          i = run.es /\ r = items[i].run /\ len = Len(items[i].descriptors)
    BY ONLY TRUE
  <1>2. /\ DriverInv(Entries(Kinds), D_BIT) /\ ExtInv /\ state = "WRITE_SEC"
        /\ i \in DOMAIN items /\ RunOK(r, len) /\ NextOK(r, len)
        /\ StreamHas(i, r, len)
    BY ONLY BaseInv, OrderInv, At("WRITE_XPORT_STREAM"), <1>1, StreamSheet
  <1>3. PICK E, Q, ph, held, n, m :
          /\ E = PmtSheet /\ SheetInv(E, Kinds, {}, Q, ph, held, i, n) /\ IsSheets(Kinds, Q)
          /\ \/ ph = "TOP" /\ ItemHeld(r, held, n)
             \/ ph = "IN" /\ ItemBegun(r, len, held, n)
          /\ Q # << >> /\ m = Len(Q) /\ Q[m][1] = cur.payload /\ Q[m][2] = sec_bytes
          /\ Q \in SheetsOf(Kinds) /\ i \in DOMAIN E.D /\ E.D[i] = items[i].descriptors
          /\ E.base = BASE_LEN /\ E.M = getMaxDataLen /\ len = Len(E.D[i])
    BY ONLY <1>2 DEF StreamHas
  <1>4. ItemGetDescFits(i) /\ UNCHANGED << attributes, length, prog_desc, run >>
    BY <1>1 DEF table
  <1>5. /\ OnlyRun(i) /\ UNCHANGED << stream, first, state, sec_bytes >>
        /\ r.op_state = "GET_DESC" /\ r.d_iter # 0
        /\ items'[i].run = FetchRun(r, len, "WRITE_DESC")
    BY <1>1, <1>2, <1>4, ItemFitsStep DEF FetchRun
  <1>6. ph = "IN" /\ ItemBegun(r, len, held, n)
    BY <1>3, <1>5 DEF ItemHeld
  <1>7. PICK q : q = items'[i].run
    OBVIOUS
  <1>8. IsSheets(Kinds, Q)'
    BY <1>3, <1>5, SheetsStay
  <1>9. /\ NextOK(q, len)
        /\ \E held2, n2 : SheetInv(E, Kinds, {}, Q, "IN", held2, i, n2) /\ ItemBegun(q, len, held2, n2)
    BY <1>2, <1>3, <1>5, <1>6, <1>7, ItemFitsPack
  <1>10. PICK held2, n2 : SheetInv(E, Kinds, {}, Q, "IN", held2, i, n2) /\ ItemBegun(q, len, held2, n2)
    BY <1>9
  <1> QED
    BY <1>1, <1>2, <1>3, <1>4, <1>5, <1>7, <1>8, <1>9, <1>10, StreamKeeps

\* It is written.
LEMMA StreamDescOrder ==
  ASSUME BaseInv, OrderInv, At("WRITE_XPORT_STREAM"), ItemWriteDesc(run.es),
         UNCHANGED << table, run, info >>
  PROVE  OrderInv'
  <1>1. PICK i, r, len :
          i = run.es /\ r = items[i].run /\ len = Len(items[i].descriptors)
    BY ONLY TRUE
  <1>2. /\ DriverInv(Entries(Kinds), D_BIT) /\ DriverRest(Entries(Kinds), D_BIT)
        /\ state = "WRITE_SEC" /\ ExtInv
        /\ cur.data_length # 0 /\ cur.data_length = sec_bytes + 3 /\ sec_bytes \in Nat
        /\ i \in DOMAIN items /\ RunOK(r, len) /\ NextOK(r, len)
        /\ StreamHas(i, r, len)
    BY ONLY BaseInv, OrderInv, At("WRITE_XPORT_STREAM"), <1>1, StreamSheet
  <1>3. PICK E, Q, ph, held, n, m :
          /\ E = PmtSheet /\ SheetInv(E, Kinds, {}, Q, ph, held, i, n) /\ IsSheets(Kinds, Q)
          /\ \/ ph = "TOP" /\ ItemHeld(r, held, n)
             \/ ph = "IN" /\ ItemBegun(r, len, held, n)
          /\ Q # << >> /\ m = Len(Q) /\ Q[m][1] = cur.payload /\ Q[m][2] = sec_bytes
          /\ Q \in SheetsOf(Kinds) /\ i \in DOMAIN E.D /\ E.D[i] = items[i].descriptors
          /\ E.base = BASE_LEN /\ E.M = getMaxDataLen /\ len = Len(E.D[i])
    BY ONLY <1>2 DEF StreamHas
  <1>4. /\ ItemWriteDesc(i) /\ UNCHANGED << run, info >>
        /\ UNCHANGED << attributes, length, prog_desc, program_info_length, asked >>
    BY <1>1 DEF table
  <1>5. PICK d : d = items[i].descriptors[r.d]
    OBVIOUS
  <1>6. /\ OnlyCur /\ OnlyRun(i) /\ r.op_state = "WRITE_DESC"
        /\ r.d \in DOMAIN items[i].descriptors
        /\ \/ state' = "ABORTED"
           \/ /\ state' = "WRITE_SEC"
              /\ cur'.payload = Append(cur.payload, Entry("desc", i, r.d))
              /\ cur'.data_length = cur.data_length + d /\ cur'.data_length # 0
              /\ items'[i].run = WroteRun(r)
    <2>1. DriverInv(Entries(Kinds), D_BIT) /\ ExtInv
      BY BaseFacts
    <2>2. ItemDescLen(i) = items[i].descriptors[items[i].run.d]
      BY DEF ItemDescLen
    <2>3. /\ OnlyCur /\ OnlyRun(i) /\ items[i].run.op_state = "WRITE_DESC"
          /\ items[i].run.d \in DOMAIN items[i].descriptors
          /\ \/ state' = "ABORTED"
             \/ /\ state' = "WRITE_SEC"
                /\ cur'.payload = Append(cur.payload, Entry("desc", i, items[i].run.d))
                /\ cur'.data_length = cur.data_length + ItemDescLen(i)
                /\ cur'.data_length # 0
                /\ items'[i].run = [op_state |-> "GET_DESC", d |-> items[i].run.d,
                                    d_iter |-> items[i].run.d_iter]
      BY <1>2, <1>4, <2>1, PmtNumbers, ItemDescStep
    <2> QED
      BY ONLY <1>1, <1>5, <2>2, <2>3 DEF WroteRun
  <1>7. BaseInv' /\ r.d \in ui16
    BY <1>1, <1>4, StreamDescBase
  <1>8. CASE state' = "ABORTED"
    BY <1>8, AbortedOrder
  <1>9. CASE state' # "ABORTED"
    <2>1. ph = "IN" /\ ItemBegun(r, len, held, n)
      BY <1>3, <1>6 DEF ItemHeld
    <2>2. PICK p, b, q : p = cur'.payload /\ b = sec_bytes' /\ q = items'[i].run
      OBVIOUS
    <2>3. cur'.data_length = b + 3 /\ b \in Nat /\ DriverTypes(Entries(Kinds))'
      BY <1>6, <1>7, <1>9, <2>2, CurBytes
    <2>4. d \in Nat
      <3>1. items[i] \in [id : ui16, descriptors : Seq(DescLength), run : Runs]
        BY <1>2, ItemFacts
      <3>2. d \in DescLength
        BY <1>5, <1>6, <3>1
      <3> QED
        BY <3>2, DescLengths
    <2>5. b = Q[m][2] + d /\ p = Append(Q[m][1], Entry("desc", i, r.d)) /\ d = E.D[i][r.d]
      <3>1. b + 3 = sec_bytes + 3 + d
        BY <1>2, <1>6, <1>9, <2>3
      <3>2. b = sec_bytes + d
        BY ONLY <1>2, <2>3, <2>4, <3>1
      <3> QED
        BY <1>3, <1>5, <1>6, <1>9, <2>2, <3>2
    <2>6. PICK R : R = Replaced(Q, p, b)
      OBVIOUS
    <2>7. IsSheets(Kinds, R)'
      <3>1. state' = "WRITE_SEC" /\ cur'.data_length # 0
        BY <1>6, <1>9
      <3>2. IsSheets(Kinds, Q) /\ OnlyCur
        BY <1>3, <1>6
      <3> QED
        BY ONLY <1>2, <2>2, <2>3, <2>6, <3>1, <3>2, SheetsGrow
    <2>8. /\ NextOK(q, len)
          /\ \E held2, n2 : SheetInv(E, Kinds, {}, R, "IN", held2, i, n2) /\ ItemBegun(q, len, held2, n2)
      <3>1. PICK x, k : x = Entry("desc", i, k) /\ k = r.d
        OBVIOUS
      <3>2. /\ R = Replaced(Q, Append(Q[m][1], x), b) /\ b = Q[m][2] + d
            /\ d = E.D[i][k] /\ k \in ui16
        BY <1>7, <2>5, <2>6, <3>1
      <3>3. SheetInv(E, Kinds, {}, Q, "IN", held, i, n)
        BY <1>3, <2>1
      <3>4. /\ m = Len(Q) /\ i \in DOMAIN E.D /\ len = Len(E.D[i]) /\ ItemKinds \subseteq Kinds
            /\ q = WroteRun(r) /\ r.op_state = "WRITE_DESC"
        BY <1>3, <1>6, <1>9, <2>2, PmtNumbers
      <3>5. GoesOn(E, Kinds, {}, R, i, q, len)
        BY ONLY <1>2, <2>1, <3>1, <3>2, <3>3, <3>4, ItemDescPack
      <3> QED
        BY ONLY <3>5 DEF GoesOn
    <2>9. PICK held2, n2 : SheetInv(E, Kinds, {}, R, "IN", held2, i, n2) /\ ItemBegun(q, len, held2, n2)
      BY <2>8
    <2> QED
      BY <1>1, <1>3, <1>4, <1>6, <1>9, <2>2, <2>7, <2>8, <2>9, StreamKeeps
  <1> QED
    BY <1>6, <1>8, <1>9

\* The section with the stream's loop closed.
LEMMA ClosedPayload ==
  ASSUME BaseInv, LoadInv, At("WRITE_XPORT_STREAM"), Open(run.es),
         OnlyRun(run.es), prog_desc' = prog_desc, NEW s, s = LoopPatched(cur)
  PROVE  /\ s \in Sections(Entries(Kinds)) /\ s.data_length = cur.data_length
         /\ \E v, l, w : /\ v = cur.payload /\ l \in 1 .. Len(v) /\ v[l].kind = "desc_loop_len"
                         /\ s.payload = WithWord(v, l, w)
  <1>1. PICK D, F, P : D = Descriptors /\ F = LoopWords /\ P = prog_desc
    OBVIOUS
  <1>2. PICK i : i = run.es
    OBVIOUS
  <1>3. /\ Descs(D) /\ P \in Seq(DescLength) /\ cur.payload \in Seq(Entries(Kinds))
        /\ Streams(D, F, P, cur.payload, cur.data_length, desc_loop.pos, desc_loop.len)
        /\ desc_loop.pos \in Nat /\ desc_loop.pos # 0 /\ desc_loop.len \in ui16
    BY <1>1, <1>2, StreamLoad
  <1>4. ExtInv /\ cur \in Sections(Entries(Kinds))
    <2>1. ExtInv /\ state = "WRITE_SEC" /\ run.op_state = "WRITE_XPORT_STREAM"
      BY StreamFacts
    <2> QED
      BY <2>1, HeadedFacts
  <1>5. PICK v, l, len, c : /\ v = cur.payload /\ l = desc_loop.pos /\ len = desc_loop.len
                            /\ c = cur.data_length
    OBVIOUS
  <1>6. /\ v \in Seq(Entries(Kinds)) /\ l \in Nat /\ l # 0 /\ len \in ui16
        /\ Streams(D, F, P, v, c, l, len)
    BY <1>3, <1>5
  <1>7. PICK mm \in Nat : PmtPayload(D, F, P, v, c, mm, l, len)
    BY <1>6 DEF Streams
  <1>8. Loops(D, F, v, mm + 3, l, len)
    BY <1>7 DEF PmtPayload
  <1>9. l \in mm + 3 .. Len(v) /\ v[l].kind = "desc_loop_len"
    BY <1>6, <1>8 DEF Loops
  <1>10. l \in 1 .. Len(v)
    <2>1. Len(v) \in Nat
      BY <1>6
    <2> QED
      BY ONLY mm \in Nat, <1>9, <2>1
  <1>11. /\ s \in Sections(Entries(Kinds)) /\ s.data_length = cur.data_length
         /\ s.payload = [cur.payload EXCEPT ![desc_loop.pos].n = loopLen(desc_loop.len)]
    BY <1>4, LoopStored
  <1>12. PICK w : w = loopLen(desc_loop.len)
    OBVIOUS
  <1>13. s.payload = WithWord(v, l, w)
    BY <1>5, <1>11, <1>12 DEF WithWord
  <1> QED
    BY <1>5, <1>9, <1>10, <1>11, <1>13

\* It carries what it carried.
LEMMA StreamClosed ==
  ASSUME BaseInv, LoadInv, At("WRITE_XPORT_STREAM"), Open(run.es),
         OnlyRun(run.es), prog_desc' = prog_desc, NEW s, s = LoopPatched(cur),
         NEW E, NEW Q, NEW ph, NEW held, NEW t, NEW n, SheetInv(E, Kinds, {}, Q, ph, held, t, n),
         Q # << >>, NEW m, m = Len(Q), Q[m][1] = cur.payload, Q[m][2] = sec_bytes,
         NEW p, p = s.payload, NEW b, b = sec_bytes, NEW R, R = Replaced(Q, p, b)
  PROVE  /\ s \in Sections(Entries(Kinds)) /\ s.data_length = cur.data_length
         /\ SheetInv(E, Kinds, {}, R, ph, held, t, n)
  <1>1. s \in Sections(Entries(Kinds)) /\ s.data_length = cur.data_length
    BY ClosedPayload
  <1>2. PICK v, l, w : /\ v = cur.payload /\ l \in 1 .. Len(v) /\ v[l].kind = "desc_loop_len"
                       /\ s.payload = WithWord(v, l, w)
    BY ClosedPayload
  <1>3. p \in Seq(Entries(Kinds))
    BY <1>1, SectionFieldTypes
  <1>4. SheetInv(E, Kinds, {}, R, ph, held, t, n)
    BY <1>2, <1>3, LoopPack
  <1> QED
    BY <1>1, <1>4

\* A descriptor is left to the next section.
LEMMA StreamFullOrder ==
  ASSUME BaseInv, LoadInv, OrderInv, StreamFull
  PROVE  OrderInv'
  <1>1. /\ At("WRITE_XPORT_STREAM") /\ ItemGetDescFull(run.es)
        /\ run' = [run EXCEPT !.op_state = "WRITE_HEAD"] /\ Leave(FALSE, LoopPatched(cur))
        /\ UNCHANGED << attributes, length, prog_desc >>
    BY DEF StreamFull, table
  <1>2. PICK i, r, len :
          i = run.es /\ r = items[i].run /\ len = Len(items[i].descriptors)
    BY ONLY TRUE
  <1>3. /\ DriverRest(Entries(Kinds), D_BIT)
        /\ state = "WRITE_SEC" /\ ExtInv
        /\ cur.data_length # 0 /\ cur.data_length = sec_bytes + 3 /\ sec_bytes \in Nat
        /\ i \in DOMAIN items /\ ItemsAt(i) /\ RunOK(r, len) /\ NextOK(r, len) /\ i # 0
        /\ StreamHas(i, r, len)
    BY ONLY BaseInv, OrderInv, <1>1, <1>2, StreamSheet
  <1>4. PICK E, Q, ph, held, n, m :
          /\ E = PmtSheet /\ SheetInv(E, Kinds, {}, Q, ph, held, i, n) /\ IsSheets(Kinds, Q)
          /\ \/ ph = "TOP" /\ ItemHeld(r, held, n)
             \/ ph = "IN" /\ ItemBegun(r, len, held, n)
          /\ Q # << >> /\ m = Len(Q) /\ Q[m][1] = cur.payload /\ Q[m][2] = sec_bytes
          /\ Q \in SheetsOf(Kinds) /\ i \in DOMAIN E.D /\ E.D[i] = items[i].descriptors
          /\ E.base = BASE_LEN /\ E.M = getMaxDataLen /\ len = Len(E.D[i])
    BY ONLY <1>3 DEF StreamHas
  <1>5. ItemGetDescFull(i) /\ length' = length
    BY <1>1, <1>2
  <1>6. /\ OnlyRun(i) /\ r.op_state = "GET_DESC" /\ r.d_iter # 0
        /\ items'[i].run = FetchRun(r, len, "WRITE_HEAD")
    BY <1>2, <1>3, <1>5, ItemFullStep DEF FetchRun
  <1>7. ph = "IN" /\ ItemBegun(r, len, held, n)
    BY <1>4, <1>6 DEF ItemHeld
  <1>8. Q[m][2] + E.D[i][r.d_iter] > E.M
    BY <1>2, <1>4, <1>5 DEF ItemGetDescFull, ItemTooLong
  <1>9. PICK q : q = items'[i].run
    OBVIOUS
  <1>10. /\ NextOK(q, len)
         /\ \E held2, n2 : SheetInv(E, Kinds, {}, Q, "OUT", held2, i, n2) /\ ItemHeld(q, held2, n2)
    BY <1>3, <1>4, <1>6, <1>7, <1>8, <1>9, ItemFullPack
  <1>11. PICK held2, n2 : SheetInv(E, Kinds, {}, Q, "OUT", held2, i, n2) /\ ItemHeld(q, held2, n2)
    BY <1>10
  <1>12. PICK s, p, b, R : s = LoopPatched(cur) /\ p = s.payload /\ b = sec_bytes /\ R = Replaced(Q, p, b)
    OBVIOUS
  <1>13. Open(run.es) /\ OnlyRun(run.es) /\ prog_desc' = prog_desc
    BY <1>1, <1>2, <1>6 DEF Open
  <1>14. PICK ph2 : ph2 = "OUT"
    OBVIOUS
  <1>15. /\ s \in Sections(Entries(Kinds)) /\ s.data_length = cur.data_length
         /\ SheetInv(E, Kinds, {}, R, ph2, held2, i, n2)
    <2>1. /\ SheetInv(E, Kinds, {}, Q, ph2, held2, i, n2)
          /\ Q # << >> /\ m = Len(Q) /\ Q[m][1] = cur.payload /\ Q[m][2] = sec_bytes
      BY <1>4, <1>11, <1>14
    <2>2. SheetInv(E, Kinds, {}, R, ph2, held2, i, n2)
      BY ONLY BaseInv, LoadInv, <1>1, <1>12, <1>13, <2>1, StreamClosed
    <2>3. s \in Sections(Entries(Kinds)) /\ s.data_length = cur.data_length
      BY ONLY BaseInv, LoadInv, <1>1, <1>12, <1>13, ClosedPayload
    <2> QED
      BY <2>2, <2>3
  <1>16. IsSheets(Kinds, R)' /\ state' = "MALLOC_SEC"
    <2>1. PICK done \in BOOLEAN : done = FALSE
      OBVIOUS
    <2>2. Leave(done, s) /\ IsSheets(Kinds, Q)
      BY <1>1, <1>4, <1>12, <2>1
    <2>3. IsSheets(Kinds, R)' /\ state' = (IF done THEN "END_TABLE" ELSE "MALLOC_SEC")
      BY ONLY done \in BOOLEAN, <1>3, <1>12, <1>15, <2>2, LeaveSheets
    <2> QED
      BY <2>1, <2>3
  <1>17. PICK g : g = run'
    OBVIOUS
  <1>18. /\ g.op_state = "WRITE_HEAD" /\ g.es = i /\ g.es_iter = i + 1 /\ g.d_done = TRUE
         /\ g.pd = 0
    <2>1. PICK np, ni : np = Len(prog_desc) /\ ni = Len(items)
      OBVIOUS
    <2>2. run.d_done = TRUE /\ run.pd = 0 /\ run.es_iter = run.es + 1 /\ run \in RunSet(np, ni)
      BY <1>1, <2>1, StreamRun
    <2> QED
      BY <1>1, <1>2, <1>17, <2>2 DEF RunSet
  <1>19. Pending(g)
    BY <1>3, <1>18 DEF Pending
  <1>20. ItemsAt(Who)'
    <2>1. ItemsAt(i)'
      BY <1>2, <1>3, <1>6, <1>9, <1>10, ItemsAtRun
    <2>2. Who' = i
      BY <1>17, <1>18 DEF Who
    <2> QED
      BY <2>1, <2>2
  <1>21. PmtDue(ph2, held2, i, n2)'
    BY <1>9, <1>11, <1>14, <1>16, <1>17, <1>18 DEF PmtDue, StreamDue
  <1>22. Descriptors' = Descriptors
    BY <1>3, <1>6, DescriptorsSame
  <1> QED
    BY <1>1, <1>3, <1>4, <1>15, <1>16, <1>17, <1>19, <1>20, <1>21, <1>22, BetweenKeeps

\* The stream has no more.
LEMMA StreamDoneOrder ==
  ASSUME BaseInv, LoadInv, OrderInv, StreamDone, BaseInv'
  PROVE  OrderInv'
  <1>1. /\ At("WRITE_XPORT_STREAM") /\ ItemGetDescEnd(run.es)
        /\ run' = [run EXCEPT !.op_state = "GET_XPORT_STREAM"]
        /\ WriteSecContinue(LoopPatched(cur), sec_bytes)
        /\ UNCHANGED << attributes, length, prog_desc >>
    BY DEF StreamDone, table
  <1>2. PICK i, r, len :
          i = run.es /\ r = items[i].run /\ len = Len(items[i].descriptors)
    BY ONLY TRUE
  <1>3. /\ DriverRest(Entries(Kinds), D_BIT)
        /\ state = "WRITE_SEC" /\ ExtInv
        /\ cur.data_length # 0 /\ cur.data_length = sec_bytes + 3 /\ sec_bytes \in Nat
        /\ i \in DOMAIN items /\ ItemsAt(i) /\ RunOK(r, len) /\ NextOK(r, len) /\ i # 0
        /\ StreamHas(i, r, len)
    BY ONLY BaseInv, OrderInv, <1>1, <1>2, StreamSheet
  <1>4. PICK E, Q, ph, held, n, m :
          /\ E = PmtSheet /\ SheetInv(E, Kinds, {}, Q, ph, held, i, n) /\ IsSheets(Kinds, Q)
          /\ \/ ph = "TOP" /\ ItemHeld(r, held, n)
             \/ ph = "IN" /\ ItemBegun(r, len, held, n)
          /\ Q # << >> /\ m = Len(Q) /\ Q[m][1] = cur.payload /\ Q[m][2] = sec_bytes
          /\ Q \in SheetsOf(Kinds) /\ i \in DOMAIN E.D /\ E.D[i] = items[i].descriptors
          /\ E.base = BASE_LEN /\ E.M = getMaxDataLen /\ len = Len(E.D[i])
    BY ONLY <1>3 DEF StreamHas
  <1>5. ItemGetDescEnd(i) /\ length' = length
    BY <1>1, <1>2
  <1>6. /\ OnlyRun(i) /\ r.op_state = "GET_DESC" /\ r.d_iter = 0
        /\ items'[i].run = ItemContext
    BY <1>2, <1>3, <1>5, ItemEndStep
  <1>7. ph = "IN" /\ ItemBegun(r, len, held, n)
    BY <1>4, <1>6 DEF ItemHeld
  <1>8. SheetInv(E, Kinds, {}, Q, "TOP", "NONE", i + 1, 1)
    BY <1>3, <1>4, <1>6, <1>7, ItemEndPack
  <1>9. PICK t : t = i + 1
    OBVIOUS
  <1>10. PICK s, p, b, R : s = LoopPatched(cur) /\ p = s.payload /\ b = sec_bytes /\ R = Replaced(Q, p, b)
    OBVIOUS
  <1>11. Open(run.es) /\ OnlyRun(run.es) /\ prog_desc' = prog_desc
    BY <1>1, <1>2, <1>6 DEF Open
  <1>12. PICK ph2, held2, n2 : ph2 = "TOP" /\ held2 = "NONE" /\ n2 = 1
    OBVIOUS
  <1>13. /\ s \in Sections(Entries(Kinds)) /\ s.data_length = cur.data_length
         /\ SheetInv(E, Kinds, {}, R, ph2, held2, t, n2)
    <2>1. /\ SheetInv(E, Kinds, {}, Q, ph2, held2, t, n2)
          /\ Q # << >> /\ m = Len(Q) /\ Q[m][1] = cur.payload /\ Q[m][2] = sec_bytes
      BY <1>4, <1>8, <1>9, <1>12
    <2>2. SheetInv(E, Kinds, {}, R, ph2, held2, t, n2)
      BY ONLY BaseInv, LoadInv, <1>1, <1>10, <1>11, <2>1, StreamClosed
    <2>3. s \in Sections(Entries(Kinds)) /\ s.data_length = cur.data_length
      BY ONLY BaseInv, LoadInv, <1>1, <1>10, <1>11, ClosedPayload
    <2> QED
      BY <2>2, <2>3
  <1>14. IsSheets(Kinds, R)' /\ state' = "WRITE_SEC"
    <2>1. WriteSecContinue(s, sec_bytes) /\ IsSheets(Kinds, Q)
      BY <1>1, <1>4, <1>10
    <2> QED
      BY ONLY BaseInv', <1>3, <1>10, <1>13, <2>1, GoOnSheets
  <1>15. PICK g : g = run'
    OBVIOUS
  <1>16. /\ g.op_state = "GET_XPORT_STREAM" /\ g.es = i /\ g.es_iter = t /\ g.d_done = TRUE
         /\ g.pd = 0
    <2>1. PICK np, ni : np = Len(prog_desc) /\ ni = Len(items)
      OBVIOUS
    <2>2. run.d_done = TRUE /\ run.pd = 0 /\ run.es_iter = run.es + 1 /\ run \in RunSet(np, ni)
      BY <1>1, <2>1, StreamRun
    <2> QED
      BY <1>1, <1>2, <1>9, <1>15, <2>2 DEF RunSet
  <1>17. Pending(g)
    BY <1>16 DEF Pending
  <1>18. ItemsAt(Who)'
    <2>1. NextOK(ItemContext, len)
      BY DEF NextOK, ItemContext
    <2>2. ItemsAt(i)'
      BY <1>2, <1>3, <1>6, <2>1, ItemsAtRun
    <2>3. Who' = 0
      BY <1>15, <1>16 DEF Who
    <2>4. ItemsAt(0)'
      BY <1>6, <2>2 DEF ItemsAt, ItemContext
    <2> QED
      BY <2>3, <2>4
  <1>19. PmtDue(ph2, held2, t, n2)'
    BY <1>12, <1>14, <1>15, <1>16 DEF PmtDue, StreamDue
  <1>20. Descriptors' = Descriptors
    BY <1>3, <1>6, DescriptorsSame
  <1> QED
    BY <1>1, <1>3, <1>4, <1>13, <1>14, <1>15, <1>17, <1>18, <1>19, <1>20, BetweenKeeps

-----------------------------------------------------------------------------
(* The driver's steps, and the application's.                              *)

\* While nothing is built the table is at its first context.
LEMMA IdleOrder ==
  ASSUME PmtContexts, items' = items, run' = run, run = Context, state # "ABORTED"
  PROVE  PmtContexts'
  <1>1. Who = 0 /\ Who' = 0
    BY DEF Who, Context
  <1>2. ItemsAt(0) /\ Pending(run)
    BY <1>1 DEF PmtContexts
  <1>3. ItemsAt(0)'
    BY <1>2, ItemsAtSame
  <1>4. PICK q : q = run
    OBVIOUS
  <1>5. Pending(q) /\ run' = q
    BY <1>2, <1>4
  <1>6. Pending(run)'
    BY <1>5
  <1> QED
    BY <1>1, <1>3, <1>6 DEF PmtContexts

\* A build begins.
LEMMA BuildOrder ==
  ASSUME BaseInv, OrderInv, buildSections,
         UNCHANGED << extVars, prog_desc, program_info_length, run, info, asked >>
  PROVE  OrderInv'
  <1>1. /\ state = "IDLE" /\ state' = "MALLOC_SEC" /\ UNCHANGED << attributes, length >>
        /\ items' = items /\ run' = run /\ prog_desc' = prog_desc
    BY DEF buildSections, extVars
  <1>2. PmtContexts /\ run = Context
    BY <1>1 DEF OrderInv, PmtContexts
  <1>3. DriverInv(Entries(Kinds), D_BIT)
    BY BaseFacts
  <1>4. PICK E, Q : E = PmtSheet /\ Q = << >>
    OBVIOUS
  <1>5. SheetInv(E, Kinds, {}, Q, "OUT", "NONE", 0, 1)
    <2>1. PackArgs(E)
      BY <1>4, SheetFacts
    <2> QED
      BY <1>4, <2>1, BeginPack
  <1>6. IsSheets(Kinds, Q)'
    BY <1>3, <1>4, SheetsBegin
  <1>7. PmtContexts'
    BY <1>1, <1>2, IdleOrder
  <1>8. PmtDue("OUT", "NONE", 0, 1)'
    BY <1>1, <1>2 DEF PmtDue, Context
  <1>9. E = PmtSheet'
    BY <1>1, <1>4, SheetStays DEF Descriptors
  <1> QED
    BY <1>5, <1>6, <1>7, <1>8, <1>9, KeepOrder

\* A section is allocated.
LEMMA MallocOrder ==
  ASSUME BaseInv, OrderInv, MallocSec,
         UNCHANGED << extVars, prog_desc, program_info_length, run, info, asked >>
  PROVE  OrderInv'
  <1>1. /\ state = "MALLOC_SEC" /\ state' = "WRITE_SEC" /\ UNCHANGED << attributes, length >>
        /\ items' = items /\ run' = run /\ prog_desc' = prog_desc
    BY DEF MallocSec, extVars
  <1>2. DriverInv(Entries(Kinds), D_BIT) /\ PmtContexts
    BY BaseFacts DEF OrderInv
  <1>3. PICK E, Q, ph, held, t, n : E = PmtSheet /\ PmtFilled(E, Q, ph, held, t, n)
    BY <1>1 DEF OrderInv
  <1>4. /\ SheetInv(E, Kinds, {}, Q, ph, held, t, n) /\ IsSheets(Kinds, Q)
        /\ PmtDue(ph, held, t, n)
    BY <1>3 DEF PmtFilled
  <1>5. IsSheets(Kinds, Q)'
    BY <1>2, <1>4, SheetsMalloc
  <1>6. PICK w, q : w = Who /\ q = run
    OBVIOUS
  <1>7. Who' = w /\ ItemsAt(w) /\ Pending(q) /\ run' = q
    BY <1>1, <1>2, <1>6 DEF PmtContexts, Who
  <1>8. ItemsAt(w)'
    BY <1>1, <1>7, ItemsAtSame
  <1>9. PmtContexts'
    BY <1>1, <1>7, <1>8 DEF PmtContexts
  <1>10. PmtDue(ph, held, t, n)'
    BY <1>1, <1>4 DEF PmtDue, StreamDue
  <1>11. E = PmtSheet'
    BY <1>1, <1>3, SheetStays DEF Descriptors
  <1> QED
    BY <1>4, <1>5, <1>9, <1>10, <1>11, KeepOrder

\* What there is to show while nothing is built.
LEMMA NothingBuilt ==
  ASSUME PmtContexts', state' \in {"IDLE", "ABORTED"}
  PROVE  OrderInv'
  BY DEF OrderInv

\* The build is completed.
LEMMA EndOrder ==
  ASSUME BaseInv, OrderInv, EndTable,
         UNCHANGED << extVars, prog_desc, program_info_length, run, info, asked >>
  PROVE  OrderInv'
  <1>1. state = "END_TABLE" /\ state' \in {"IDLE", "ABORTED"} /\ items' = items /\ run' = run
    BY DEF EndTable, Abort, extVars
  <1>2. PmtContexts /\ run = Context
    BY <1>1 DEF OrderInv, PmtContexts
  <1>3. PmtContexts'
    BY <1>1, <1>2, IdleOrder
  <1> QED
    BY <1>1, <1>3, NothingBuilt

\* The table is configured.
LEMMA ConfigureOrder ==
  ASSUME BaseInv, OrderInv, Configure,
         UNCHANGED << extVars, prog_desc, program_info_length, run, info, asked >>
  PROVE  OrderInv'
  <1>1. state = "IDLE" /\ state' = "IDLE" /\ items' = items /\ run' = run
    BY DEF Configure, setMaxSectionLen, setSectionReservedLen, setVersionNumber,
           incVersionNumber, setCurrentNextIndicator, NewTStream, driver, extVars
  <1>2. PmtContexts /\ run = Context
    BY <1>1 DEF OrderInv, PmtContexts
  <1>3. PmtContexts'
    BY <1>1, <1>2, IdleOrder
  <1> QED
    BY <1>1, <1>3, NothingBuilt

\* A program descriptor is added.
LEMMA AddProgramDescOrder ==
  ASSUME BaseInv, OrderInv, NEW d_len \in ProgDescLens, addProgramDesc(d_len)
  PROVE  OrderInv'
  <1>1. state = "IDLE" /\ state' = "IDLE" /\ items' = items /\ run' = run
    BY DEF addProgramDesc, driver, extVars
  <1>2. PmtContexts /\ run = Context
    BY <1>1 DEF OrderInv, PmtContexts
  <1>3. PmtContexts'
    BY <1>1, <1>2, IdleOrder
  <1> QED
    BY <1>1, <1>3, NothingBuilt

\* The items of an idle table change.
LEMMA AddedOrder ==
  ASSUME PmtContexts, state = "IDLE", state' = "IDLE", run' = run,
         ItemsAt(0) => ItemsAt(0)'
  PROVE  OrderInv'
  <1>1. run = Context /\ ItemsAt(Who) /\ Pending(run)
    BY DEF PmtContexts
  <1>2. Who = 0 /\ Who' = 0
    BY <1>1 DEF Who, Context
  <1>3. PICK q : q = run
    OBVIOUS
  <1>4. Pending(q) /\ run' = q
    BY <1>1, <1>3
  <1>5. Pending(run)'
    BY <1>4
  <1>6. PmtContexts'
    BY <1>1, <1>2, <1>5 DEF PmtContexts, Context
  <1> QED
    BY <1>6, NothingBuilt

\* A stream is added.
LEMMA AddStreamOrder ==
  ASSUME BaseInv, OrderInv, NEW elem_pid \in ItemIds, addElemStream(elem_pid)
  PROVE  OrderInv'
  <1>1. ExtInv /\ PmtContexts /\ run' = run
    BY BaseFacts DEF OrderInv, addElemStream
  <1>2. /\ BaseInv' /\ items'[Len(items) + 1].run = ItemContext /\ Len(items') = Len(items) + 1
        /\ \A j \in DOMAIN items : items'[j] = items[j]
    BY AddStreamBase
  <1>3. state = "IDLE" /\ state' = "IDLE"
    BY DEF addElemStream, addItem, driver
  <1>4. items' \in Seq([id : ui16, descriptors : Seq(DescLength), run : Runs])
    BY <1>2 DEF BaseInv, ExtInv
  <1>5. ItemsAt(0) => ItemsAt(0)'
    BY <1>1, <1>2, <1>4, ItemsAtAdd
  <1> QED
    BY <1>1, <1>3, <1>5, AddedOrder

\* A descriptor is added to a stream.
LEMMA AddStreamDescOrder ==
  ASSUME BaseInv, OrderInv, addElemStreamDesc
  PROVE  OrderInv'
  <1>1. ExtInv /\ PmtContexts /\ run' = run
    BY BaseFacts DEF OrderInv, addElemStreamDesc
  <1>2. /\ BaseInv' /\ Len(items') = Len(items) /\ state = "IDLE" /\ UNCHANGED driver
        /\ \A j \in DOMAIN items : items'[j].run = items[j].run
    BY AddStreamDescBase
  <1>3. state' = "IDLE"
    BY <1>2 DEF driver
  <1>4. ItemsAt(0) => ItemsAt(0)'
    <2>1. ExtInv'
      BY <1>2 DEF BaseInv
    <2> QED
      BY <1>1, <1>2, <2>1, ItemsAtDesc
  <1> QED
    BY <1>1, <1>2, <1>3, <1>4, AddedOrder

\* A new table has nothing to show.
LEMMA InitOrder == Init => OrderInv
  <1> SUFFICES ASSUME Init PROVE OrderInv
    OBVIOUS
  <1>1. items = << >> /\ run = Context /\ state = "IDLE"
    BY DEF Init, ExtInit, PsiInit
  <1>2. \A w : ItemsAt(w)
    BY <1>1 DEF ItemsAt
  <1>3. Pending(run)
    BY <1>1 DEF Pending, Context
  <1> QED
    BY <1>1, <1>2, <1>3 DEF OrderInv, PmtContexts

\* Nothing happens.
LEMMA StillOrder ==
  ASSUME OrderInv, UNCHANGED vars
  PROVE  OrderInv'
  <1>1. UNCHANGED << attributes, items, prog_desc, run, state, stream, first, sec_bytes >>
    BY DEF vars, psiVars, extVars, driver
  <1>2. PmtContexts
    BY DEF OrderInv
  <1>3. PmtContexts'
    <2>1. PICK w, q : w = Who /\ q = run
      OBVIOUS
    <2>2. Who' = w /\ run' = q
      BY <1>1, <2>1 DEF Who
    <2>3. ItemsAt(w) => ItemsAt(w)'
      BY <1>1, ItemsAtSame
    <2> QED
      BY <1>1, <1>2, <2>1, <2>2, <2>3 DEF PmtContexts
  <1>4. CASE state \in {"MALLOC_SEC", "WRITE_SEC", "END_TABLE"}
    <2>1. PICK E, Q, ph, held, t, n : E = PmtSheet /\ PmtFilled(E, Q, ph, held, t, n)
      BY <1>4 DEF OrderInv
    <2>2. /\ SheetInv(E, Kinds, {}, Q, ph, held, t, n) /\ IsSheets(Kinds, Q)
          /\ PmtDue(ph, held, t, n)
      BY <2>1 DEF PmtFilled
    <2>3. IsSheets(Kinds, Q)'
      BY <1>1, <2>2, SheetsStay
    <2>4. E = PmtSheet'
      BY <1>1, <2>1, SheetStays DEF Descriptors
    <2>5. PmtDue(ph, held, t, n)'
      BY <1>1, <2>2 DEF PmtDue, StreamDue
    <2> QED
      BY <1>3, <2>2, <2>3, <2>4, <2>5, KeepOrder
  <1>5. CASE state \notin {"MALLOC_SEC", "WRITE_SEC", "END_TABLE"}
    BY <1>1, <1>3, <1>5 DEF OrderInv
  <1> QED
    BY <1>4, <1>5

\* Every step keeps it.
LEMMA StepOrder == BaseInv /\ LoadInv /\ OrderInv /\ [Next]_vars => OrderInv'
  <1> SUFFICES ASSUME BaseInv, LoadInv, OrderInv, [Next]_vars PROVE OrderInv'
    OBVIOUS
  <1>1. BaseInv'
    BY StepBase
  <1>2. CASE Api
    BY <1>2, ConfigureOrder, BuildOrder, AddProgramDescOrder, AddStreamOrder,
       AddStreamDescOrder DEF Api
  <1>3. CASE /\ MallocSec \/ EndTable
             /\ UNCHANGED << extVars, prog_desc, program_info_length, run, info, asked >>
    BY <1>3, MallocOrder, EndOrder
  <1>4. CASE writeSection
    <2>1. CASE WriteHead
      BY <2>1, WriteHeadOrder
    <2>2. CASE GetProgDescFull \/ GetProgDescFits \/ NoMoreProgDescs
      BY <2>2, GetProgDescOrder
    <2>3. CASE WriteProgDesc
      BY <2>3, WriteProgDescOrder
    <2>4. CASE GetStreamFull \/ GetStreamFits \/ GetStreamEnd
      BY <2>4, GetStreamOrder
    <2>5. CASE StreamWrites
      <3>1. At("WRITE_XPORT_STREAM") /\ UNCHANGED << table, run, info >>
        BY <2>5 DEF StreamWrites
      <3>2. CASE ItemWriteHead(run.es, BASE_LEN, 57344 + items[run.es].id)
        BY <3>1, <3>2, StreamHeadOrder
      <3>3. CASE ItemGetDescFits(run.es)
        BY <3>1, <3>3, StreamFetchOrder
      <3>4. CASE ItemWriteDesc(run.es)
        BY <3>1, <3>4, StreamDescOrder
      <3> QED
        BY <2>5, <3>2, <3>3, <3>4 DEF StreamWrites
    <2>6. CASE StreamFull
      BY <2>6, StreamFullOrder
    <2>7. CASE StreamDone
      BY <1>1, <2>7, StreamDoneOrder
    <2> QED
      BY <1>4, <2>1, <2>2, <2>3, <2>4, <2>5, <2>6, <2>7 DEF writeSection
  <1>5. CASE UNCHANGED vars
    BY <1>5, StillOrder
  <1> QED
    BY <1>2, <1>3, <1>4, <1>5 DEF Next, BuildStep

\* However the program descriptors, the streams and their descriptors are split,
\* whatever the section length: they are carried once each and in order, with a header
\* in front of each part of a stream, and a section ends only where what comes next
\* would not have fitted.
THEOREM StreamsInOrder == Spec => []PackedInOrder
  <1>1. BaseInv /\ OrderInv => PackedInOrder
    <2> SUFFICES ASSUME BaseInv, OrderInv, Built PROVE
                 /\ CarriedInOrder("prog_desc", DOMAIN prog_desc)
                 /\ \A i \in Table \ {first} : StartsFull(i, "prog_desc", BASE_LEN, prog_desc)
      BY DEF PackedInOrder
    <2>1. state = "END_TABLE"
      BY DEF Built
    <2>2. PICK E, Q, ph, held, t, n : E = PmtSheet /\ PmtFilled(E, Q, ph, held, t, n)
      BY <2>1 DEF OrderInv
    <2>3. SheetInv(E, Kinds, {}, Q, "END", held, t, n) /\ IsSheets(Kinds, Q)
      BY <2>1, <2>2 DEF PmtFilled, PmtDue
    <2>4. DriverRest(Entries(Kinds), D_BIT) /\ ExtInv
      BY DriverIsRest, BaseFacts
    <2>5. /\ E.D = Descriptors /\ E.M = getMaxDataLen /\ E.kind = "prog_desc"
          /\ E.set = DOMAIN prog_desc /\ E.base = BASE_LEN /\ E.own = prog_desc
      BY <2>2, SheetFacts
    <2>6. /\ CarriedInOrder(E.kind, E.set)
          /\ \A j \in Table : j # first /\ j - first + 1 \notin {}
               => StartsFull(j, E.kind, E.base, E.own)
      BY <2>3, <2>4, <2>5, BuiltPack
    <2> QED
      BY <2>5, <2>6
  <1> QED
    BY <1>1, InitBase, InitLoad, InitOrder, StepBase, StepLoad, StepOrder, PTL DEF Spec
==============================================================================
