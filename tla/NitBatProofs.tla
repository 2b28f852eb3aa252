----------------------------- MODULE NitBatProofs -----------------------------
(***************************************************************************)
(* Theorems about the NIT and the BAT, for all lengths of descriptors and  *)
(* sections, any number of network descriptors, marks, transport streams   *)
(* and builds.  The table counts the length word of its second loop when   *)
(* it begins a section and writes it when the first loop ends, so between  *)
(* the two the section owes 2 bytes of those it counts.                    *)
(***************************************************************************)
EXTENDS NitBat, ExtProofs
LOCAL INSTANCE FiniteSetsExt

Kinds == {"net_loop_len", "net_desc", "ts_loop_len", "item", "desc_loop_len", "desc"}

HeadStates == {"INIT", "WRITE_HEAD"}
NetStates == {"GET_NET_DESC", "WRITE_NET_DESC", "WRITE_XPORT_LOOP_LEN"}
StreamStates == {"GET_XPORT_STREAM", "WRITE_XPORT_STREAM"}
RunStates == HeadStates \cup NetStates \cup StreamStates

\* The contexts of a table with nn network descriptors and ni transport streams.
RunSet(nn, ni) == [op_state : RunStates, nd_done : BOOLEAN, nd : 0 .. nn,
                   nd_iter : 1 .. nn + 1, ts : 0 .. ni, ts_iter : 1 .. ni + 1]

LoopsSet == [nd_loop_len_pos : Nat, net_desc_len : ui16,
             ts_loop_len_pos : Nat, ts_loop_len : ui16]

\* A network descriptor's position fits in 16 bits since its bytes are in the length.
NitTypes ==
  /\ descriptors \in Seq(NetDesc) /\ 2 * Len(descriptors) <= length
  /\ run \in RunSet(Len(descriptors), Len(items))
  /\ loops \in LoopsSet

Control ==
  /\ state \in {"IDLE", "MALLOC_SEC", "END_TABLE"} => run.op_state \in HeadStates
  /\ run.op_state = "WRITE_NET_DESC" => run.nd # 0
  /\ run.op_state = "WRITE_XPORT_STREAM" => run.ts # 0

\* The bytes of the section against those counted.
Counted ==
  state = "WRITE_SEC" =>
    /\ run.op_state \in HeadStates => cur.data_length = 0 /\ cur.payload = << >>
    /\ run.op_state \in NetStates => Owed(2)
    /\ run.op_state \in StreamStates => Owed(0)

BaseInv == NitTypes /\ DriverRest(Entries(Kinds), D_BIT) /\ ExtInv /\ Control /\ Counted
-----------------------------------------------------------------------------
\* The constants as numbers.
LEMMA NitNumbers ==
  /\ D_BIT \in {0, 1} /\ BASE_LENGTH = HEADER_LEN + 4 - 3 /\ BASE_LEN = 6
  /\ BASE_LENGTH \in ui16 /\ MAX_SEC_LEN \in ui16 /\ ItemKinds \subseteq Kinds
  BY Ui16 DEF D_BIT, BASE_LENGTH, BASE_LEN, HEADER_LEN, MAX_SEC_LEN, ItemKinds, Kinds

\* A loop's length word has the length in its lower 12 bits.
LEMMA LoopWord ==
  ASSUME NEW n \in Nat
  PROVE  loopLen(n) \in ui16 /\ loopLen(n) = 61440 + (n % LEN_MASK)
  <1>1. PICK m \in 0 .. 4095 : m = n % LEN_MASK
    BY DEF LEN_MASK
  <1>2. PICK v : v = loopLen(n)
    OBVIOUS
  <1>3. v = 61440 + m /\ v = 61440 + (n % LEN_MASK)
    BY <1>1, <1>2 DEF loopLen
  <1>4. v \in Int /\ 0 <= v /\ v < 65536
    BY ONLY <1>3, m \in 0 .. 4095
  <1> QED
    BY <1>2, <1>3, <1>4, Ui16

\* A 16-bit sum.
LEMMA Wraps ==
  ASSUME NEW n \in Nat
  PROVE  n % 65536 \in ui16
  <1>1. n % 65536 \in Int /\ 0 <= n % 65536 /\ n % 65536 < 65536
    OBVIOUS
  <1> QED
    BY <1>1, Ui16

\* What is in the list of network descriptors has a length.
LEMMA NetLength ==
  ASSUME NEW nd \in NetDesc
  PROVE  netDescLength(nd) \in DescLength /\ netDescLength(nd) \in Nat
  BY DescLengths DEF NetDesc, netDescLength, SECTION_END_MARK

\* What the parts of the invariant say of a context.
LEMMA RunFields ==
  ASSUME NEW nn \in Nat, NEW ni \in Nat, NEW r \in RunSet(nn, ni)
  PROVE  /\ r.nd_done \in BOOLEAN /\ r.op_state \in RunStates
         /\ r.nd \in 0 .. nn /\ r.ts \in 0 .. ni
         /\ r.nd_iter \in 1 .. nn + 1 /\ r.ts_iter \in 1 .. ni + 1
         /\ r = [op_state |-> r.op_state, nd_done |-> r.nd_done, nd |-> r.nd,
                 nd_iter |-> r.nd_iter, ts |-> r.ts, ts_iter |-> r.ts_iter]
  BY DEF RunSet

\* The parts of the loops.
LEMMA LoopsFields ==
  ASSUME NEW c \in LoopsSet
  PROVE  /\ c.nd_loop_len_pos \in Nat /\ c.net_desc_len \in ui16
         /\ c.ts_loop_len_pos \in Nat /\ c.ts_loop_len \in ui16
         /\ c = [nd_loop_len_pos |-> c.nd_loop_len_pos, net_desc_len |-> c.net_desc_len,
                 ts_loop_len_pos |-> c.ts_loop_len_pos, ts_loop_len |-> c.ts_loop_len]
  BY DEF LoopsSet

\* Only the state changes.
LEMMA StateRun ==
  ASSUME NEW nn \in Nat, NEW ni \in Nat, NEW r \in RunSet(nn, ni), NEW o \in RunStates,
         NEW q, q = [r EXCEPT !.op_state = o]
  PROVE  q \in RunSet(nn, ni) /\ q.op_state = o /\ q.nd = r.nd /\ q.ts = r.ts
  <1>1. q = [op_state |-> o, nd_done |-> r.nd_done, nd |-> r.nd,
             nd_iter |-> r.nd_iter, ts |-> r.ts, ts_iter |-> r.ts_iter]
    BY DEF RunSet
  <1> QED
    BY <1>1, RunFields DEF RunSet

\* What is known of the table in every state.
LEMMA BaseFacts ==
  ASSUME BaseInv
  PROVE  /\ NitTypes /\ DriverRest(Entries(Kinds), D_BIT) /\ ExtInv /\ Control /\ Counted
         /\ length \in ui16 /\ length \in Int
         /\ Len(items) \in Nat /\ DOMAIN items = 1 .. Len(items)
         /\ Len(descriptors) \in Nat /\ DOMAIN descriptors = 1 .. Len(descriptors)
         /\ run \in RunSet(Len(descriptors), Len(items)) /\ loops \in LoopsSet
  BY Ui16 DEF BaseInv, NitTypes, DriverRest, DriverTypes, PsiTypeOK, ExtInv

\* What the lists are of does not change while a build goes on.
Still == UNCHANGED << attributes, length, descriptors >>

\* writeSection leaves the table as it is.
LEMMA WriteBase ==
  ASSUME BaseInv, Still, DriverRest(Entries(Kinds), D_BIT)', ExtInv', Control', Counted',
         Len(items') = Len(items),
         run' \in RunSet(Len(descriptors), Len(items)), loops' \in LoopsSet
  PROVE  BaseInv'
  <1>1. NitTypes
    BY BaseFacts
  <1>2. NitTypes'
    BY <1>1 DEF NitTypes, Still
  <1> QED
    BY <1>2 DEF BaseInv

\* Nothing is owed out of the states of the first loop.
LEMMA NothingOwed ==
  ASSUME BaseInv, state = "WRITE_SEC" => run.op_state \notin NetStates
  PROVE  /\ DriverInv(Entries(Kinds), D_BIT)
         /\ state = "WRITE_SEC" => (cur.data_length = 0 <=> run.op_state \in HeadStates)
  <1>1. /\ DriverRest(Entries(Kinds), D_BIT) /\ Counted
        /\ state = "WRITE_SEC" => run.op_state \in HeadStates \cup StreamStates
    <2>1. run.op_state \in RunStates
      BY BaseFacts, RunFields
    <2> QED
      BY <2>1, BaseFacts DEF RunStates
  <1>2. state = "WRITE_SEC" => \/ cur.data_length = 0 /\ cur.payload = << >>
                               \/ Owed(0)
    BY <1>1 DEF Counted
  <1>3. DriverInv(Entries(Kinds), D_BIT)
    BY <1>1, <1>2, DriverIsRest
  <1>4. ASSUME state = "WRITE_SEC" PROVE cur.data_length = 0 <=> run.op_state \in HeadStates
    <2>1. CASE run.op_state \in HeadStates
      BY <1>1, <1>4, <2>1 DEF Counted
    <2>2. CASE run.op_state \in StreamStates
      <3>1. Owed(0) /\ cur.data_length \in Nat
        BY <1>1, <1>4, <2>2, RestFacts DEF Counted
      <3>2. cur.data_length # 0
        BY <3>1 DEF Owed, HEADER_LEN
      <3> QED
        BY <2>2, <3>2 DEF HeadStates, StreamStates
    <2> QED
      BY <1>1, <1>4, <2>1, <2>2
  <1> QED
    BY <1>3, <1>4

\* The other way round, after a step.
LEMMA NothingOwedNext ==
  ASSUME DriverInv(Entries(Kinds), D_BIT)',
         state' = "WRITE_SEC" =>
           \/ run'.op_state \in HeadStates /\ cur'.data_length = 0
           \/ run'.op_state \in StreamStates /\ cur'.data_length # 0
  PROVE  DriverRest(Entries(Kinds), D_BIT)' /\ Counted'
  <1>1. DriverRest(Entries(Kinds), D_BIT)' /\ CurInv'
    BY DEF DriverInv, DriverRest, CurInv
  <1>2. sec_bytes' \in Int /\ sec_bytes' + 3 \in Int
    BY Ui16 DEF DriverInv, DriverTypes, PsiTypeOK
  <1>3. CASE state' = "WRITE_SEC" /\ run'.op_state \in HeadStates
    <2>1. cur'.data_length = 0
      BY <1>3 DEF HeadStates, StreamStates
    <2>2. cur'.payload = << >>
      BY <1>1, <1>3, <2>1 DEF CurInv, HEADER_LEN
    <2> QED
      BY <1>1, <1>3, <2>1, <2>2 DEF Counted, HeadStates, NetStates, StreamStates
  <1>4. CASE state' = "WRITE_SEC" /\ run'.op_state \in StreamStates
    <2>1. cur'.data_length # 0
      BY <1>4 DEF HeadStates, StreamStates
    <2>2. Owed(0)'
      BY <1>1, <1>2, <1>4, <2>1 DEF CurInv, Owed
    <2> QED
      BY <1>1, <1>4, <2>2 DEF Counted, HeadStates, NetStates, StreamStates
  <1>5. CASE state' # "WRITE_SEC"
    BY <1>1, <1>5 DEF Counted
  <1> QED
    BY <1>3, <1>4, <1>5

\* The items stay as they are when no item is written.
LEMMA SameItems ==
  ASSUME BaseInv, UNCHANGED << length, items, desc_loop >>
  PROVE  ExtInv'
  <1>1. ExtInv /\ length \in Int /\ length' = length
    BY BaseFacts
  <1> QED
    BY <1>1, LongerExt

\* The process dies.
LEMMA AbortBase ==
  ASSUME BaseInv, Still, DriverInv(Entries(Kinds), D_BIT)', ExtInv', state' = "ABORTED",
         Len(items') = Len(items), run' = run, loops' = loops
  PROVE  BaseInv'
  <1>1. Control /\ run \in RunSet(Len(descriptors), Len(items)) /\ loops \in LoopsSet
    BY BaseFacts
  <1>2. Control'
    BY <1>1 DEF Control
  <1>3. DriverRest(Entries(Kinds), D_BIT)' /\ Counted'
    BY NothingOwedNext
  <1> QED
    BY <1>1, <1>2, <1>3, WriteBase

\* An assertion fails in a state of the table's own.
LEMMA TableAborts ==
  ASSUME BaseInv, state = "WRITE_SEC", Abort, UNCHANGED << run, loops, extVars >>, Still
  PROVE  BaseInv' /\ state' = "ABORTED"
  <1>1. DriverRest(Entries(Kinds), D_BIT) /\ UNCHANGED << attributes, length, items, desc_loop >>
    BY BaseFacts DEF Still, extVars
  <1>2. DriverInv(Entries(Kinds), D_BIT)'
    BY <1>1, AbortRest
  <1>3. ExtInv' /\ state' = "ABORTED" /\ items' = items
    BY <1>1, SameItems DEF Abort
  <1> QED
    BY <1>2, <1>3, AbortBase
-----------------------------------------------------------------------------
(* The section being written, when so many bytes are owed.                 *)

\* What is written and what is counted.
LEMMA WriteOwed ==
  ASSUME DriverRest(Entries(Kinds), D_BIT), state = "WRITE_SEC",
         UNCHANGED << attributes, length >>,
         NEW s \in Sections(Entries(Kinds)), s.size = cur.size, s.crc = cur.crc,
         s.section_number = cur_sec, HEADER_LEN <= s.data_length, s.data_length <= s.size,
         NEW bytes \in ui16, NEW q \in Nat, s.data_length + q = bytes + 3,
         WriteSecContinue(s, bytes)
  PROVE  /\ DriverRest(Entries(Kinds), D_BIT)' /\ Owed(q)' /\ cur' = s
         /\ state' = "WRITE_SEC" /\ OnlyCur
  <1>1. /\ DriverRest(Entries(Kinds), D_BIT)' /\ cur' = s /\ state' = "WRITE_SEC"
        /\ sec_bytes' = bytes /\ UNCHANGED << cur_sec, first, builds >>
        /\ Len(stream') = Len(stream)
        /\ \A i \in 1 .. Len(stream) - 1 : stream'[i] = stream[i]
    BY ContinueRest
  <1>2. Owed(q)'
    BY <1>1 DEF Owed
  <1> QED
    BY <1>1, <1>2 DEF OnlyCur

\* A section with something overwritten, or nothing, is as long as it was.
LEMMA SameBytes ==
  ASSUME DriverRest(Entries(Kinds), D_BIT), state = "WRITE_SEC",
         UNCHANGED << attributes, length >>, NEW q \in Nat, Owed(q),
         NEW s \in Sections(Entries(Kinds)), s.size = cur.size, s.crc = cur.crc,
         s.data_length = cur.data_length, s.section_number = cur.section_number,
         WriteSecContinue(s, sec_bytes)
  PROVE  /\ DriverRest(Entries(Kinds), D_BIT)' /\ Owed(q)' /\ cur' = s
         /\ state' = "WRITE_SEC" /\ OnlyCur
  <1>1. PICK n : n = sec_bytes
    OBVIOUS
  <1>2. /\ n \in ui16 /\ s.data_length + q = n + 3 /\ HEADER_LEN <= s.data_length
        /\ s.data_length <= s.size /\ s.section_number = cur_sec
    BY <1>1 DEF Owed, DriverRest, DriverTypes, PsiTypeOK
  <1>3. WriteSecContinue(s, n)
    BY <1>1
  <1> QED
    BY <1>2, <1>3, WriteOwed

\* g is section s with x put into it.
PutOf(P, s, x, len, g) ==
  /\ g \in Sections(P) /\ g.size = s.size /\ g.crc = s.crc
  /\ g.section_number = s.section_number /\ g.payload = Append(s.payload, x)
  /\ g.data_length = s.data_length + len

\* put does that.
LEMMA PutIs ==
  ASSUME NEW P, NEW s \in Sections(P), NEW x, NEW len \in Nat,
         Append(s.payload, x) \in Seq(P), lengthFits(s, len), NEW g, g = put(s, x, len)
  PROVE  PutOf(P, s, x, len, g)
  BY PutFields DEF PutOf

\* s is the section with x put into it.
OwedPut(x, len, s) ==
  /\ s \in Sections(Entries(Kinds)) /\ s.size = cur.size /\ s.crc = cur.crc
  /\ s.section_number = cur_sec /\ s.payload = Append(cur.payload, x)
  /\ s.data_length = cur.data_length + len
  /\ HEADER_LEN <= s.data_length /\ s.data_length <= s.size
  /\ s.data_length \in Nat /\ s.size < 65536 /\ s.size \in Nat

\* One entry more, so many bytes long, of which some may have been counted.
LEMMA PutOwed ==
  ASSUME DriverRest(Entries(Kinds), D_BIT), state = "WRITE_SEC",
         UNCHANGED << attributes, length >>, NEW o \in Nat, Owed(o),
         NEW x \in Entries(Kinds), NEW len \in Nat, lengthFits(cur, len),
         NEW s, s = put(cur, x, len)
  PROVE  OwedPut(x, len, s)
  <1> SUFFICES /\ s \in Sections(Entries(Kinds)) /\ s.size = cur.size /\ s.crc = cur.crc
               /\ s.section_number = cur_sec /\ s.payload = Append(cur.payload, x)
               /\ s.data_length = cur.data_length + len
               /\ HEADER_LEN <= s.data_length /\ s.data_length <= s.size
               /\ s.data_length \in Nat /\ s.size < 65536 /\ s.size \in Nat
    BY DEF OwedPut
  <1>1. PICK P : P = Entries(Kinds)
    OBVIOUS
  <1>2. /\ cur \in Sections(P) /\ cur.data_length \in Nat /\ cur.size \in Nat /\ cur.size < 65536
        /\ HEADER_LEN <= cur.data_length /\ cur.section_number = cur_sec
        /\ cur.data_length + len <= cur.size
    BY <1>1, RestFacts DEF Owed, lengthFits
  <1>3. cur.payload \in Seq(P)
    BY <1>2, SectionFieldTypes
  <1>4. Append(cur.payload, x) \in Seq(P)
    BY <1>1, <1>3
  <1>5. /\ s \in Sections(P) /\ s.size = cur.size /\ s.crc = cur.crc
        /\ s.section_number = cur.section_number /\ s.payload = Append(cur.payload, x)
        /\ s.data_length = cur.data_length + len
    BY ONLY <1>2, <1>4, lengthFits(cur, len), len \in Nat, s = put(cur, x, len), PutFields
  <1> QED
    BY <1>1, <1>2, <1>5 DEF HEADER_LEN

\* The section begun: its header and the length of the first loop; the length of
\* the second is counted already.
LEMMA HeadSection ==
  ASSUME DriverRest(Entries(Kinds), D_BIT), state = "WRITE_SEC",
         cur.data_length = 0, cur.payload = << >>,
         lengthFits(cur, HEADER_LEN + 2), UNCHANGED << attributes, length >>,
         NEW x \in Entries(Kinds),
         WriteSecContinue(put(writeSectionHeader(cur, D_BIT), x, 2), BASE_LENGTH)
  PROVE  /\ DriverRest(Entries(Kinds), D_BIT)' /\ Owed(2)' /\ state' = "WRITE_SEC" /\ OnlyCur
         /\ cur'.payload = Append(<< >>, x) /\ cur'.data_length = HEADER_LEN + 2
  <1>1. PICK P : P = Entries(Kinds)
    OBVIOUS
  <1>2. /\ cur \in Sections(P) /\ cur.size \in Nat /\ cur.size < 65536
        /\ HEADER_LEN + 2 <= cur.size /\ cur.crc = {}
    BY <1>1, RestFacts DEF lengthFits, HEADER_LEN
  <1>3. PICK h : h = writeSectionHeader(cur, D_BIT)
    OBVIOUS
  <1>4. /\ h \in Sections(P) /\ h.size = cur.size
        /\ h.data_length = HEADER_LEN /\ h.payload = << >>
        /\ h.crc = cur.crc /\ h.section_number = cur_sec
    <2>1. length \in ui16 /\ cur_sec \in ui8 /\ version_number \in ui5
      BY DEF DriverRest, DriverTypes, PsiTypeOK
    <2>2. lengthFits(cur, HEADER_LEN) /\ 0 + HEADER_LEN = HEADER_LEN
      BY <1>2 DEF lengthFits, HEADER_LEN
    <2> QED
      BY <1>2, <1>3, <2>1, <2>2, NitNumbers, HeaderFields
  <1>5. PICK n, s : n \in Nat /\ n = 2 /\ s = put(h, x, n)
    OBVIOUS
  <1> n \in Nat
    BY <1>5
  <1>6. /\ s \in Sections(P) /\ s.size = cur.size /\ s.crc = cur.crc
        /\ s.section_number = cur_sec /\ s.payload = Append(<< >>, x)
        /\ s.data_length = HEADER_LEN + n
    <2>1. Append(h.payload, x) \in Seq(P) /\ lengthFits(h, n)
      <3>1. /\ x \in P /\ h.payload \in Seq(P)
        BY <1>1, <1>4
      <3>2. Append(h.payload, x) \in Seq(P)
        BY <3>1
      <3>3. h.data_length + n <= h.size
        BY <1>2, <1>4, <1>5 DEF HEADER_LEN
      <3> QED
        BY <3>2, <3>3 DEF lengthFits
    <2>2. /\ s \in Sections(P) /\ s.size = h.size /\ s.crc = h.crc
          /\ s.section_number = h.section_number /\ s.payload = Append(h.payload, x)
          /\ s.data_length = h.data_length + n
      <3>1. s = put(h, x, n) /\ h \in Sections(P)
        BY <1>4, <1>5
      <3> QED
        BY ONLY <2>1, <3>1, n \in Nat, PutFields
    <2> QED
      BY <1>4, <2>2
  <1>7. /\ s.data_length + n = BASE_LENGTH + 3 /\ HEADER_LEN <= s.data_length
        /\ s.data_length <= s.size /\ BASE_LENGTH \in ui16
    BY <1>2, <1>5, <1>6, NitNumbers DEF HEADER_LEN
  <1>8. WriteSecContinue(s, BASE_LENGTH)
    BY <1>3, <1>5
  <1>9. /\ DriverRest(Entries(Kinds), D_BIT)' /\ Owed(n)' /\ cur' = s
        /\ state' = "WRITE_SEC" /\ OnlyCur
    BY <1>1, <1>6, <1>7, <1>8, WriteOwed
  <1> QED
    BY <1>5, <1>6, <1>9
-----------------------------------------------------------------------------
(* The states of the table's own.                                          *)

LEMMA NetLensType ==
  ASSUME NitTypes
  PROVE  /\ NetLens \in Seq(DescLength) /\ NetLens \in Seq(Nat)
         /\ Len(NetLens) = Len(descriptors) /\ loop_length \in ui16
  <1>1. PICK d : d = descriptors
    OBVIOUS
  <1>2. d \in Seq(NetDesc) /\ Len(d) \in Nat /\ DOMAIN d = 1 .. Len(d)
    BY <1>1 DEF NitTypes
  <1>3. NetLens = [n \in 1 .. Len(d) |-> netDescLength(d[n])]
    BY <1>1, <1>2 DEF NetLens
  <1>4. \A n \in 1 .. Len(d) : netDescLength(d[n]) \in DescLength /\ netDescLength(d[n]) \in Nat
    BY <1>2, NetLength
  <1>5. NetLens \in Seq(DescLength) /\ NetLens \in Seq(Nat) /\ Len(NetLens) = Len(d)
    BY <1>2, <1>3, <1>4, FunctionSeq
  <1>6. Total(NetLens) \in Nat
    BY <1>5, TotalAppend
  <1>7. PICK n \in Nat : n = Total(NetLens)
    BY <1>6
  <1>8. loop_length = n % 65536
    BY <1>7 DEF loop_length, NetLens
  <1> QED
    BY <1>1, <1>5, <1>8, Wraps

\* A section is begun.
LEMMA WriteHeadBase ==
  ASSUME BaseInv, WriteHead
  PROVE  /\ BaseInv' /\ UNCHANGED << descriptors, items, desc_loop >>
         /\ \/ state' = "ABORTED"
            \/ /\ state' = "WRITE_SEC" /\ OnlyCur /\ loop_length \in ui16
               /\ cur'.payload = Append(<< >>, Entry("net_loop_len", 0, loop_length))
               /\ cur'.data_length = HEADER_LEN + 2
               /\ loops' = [loops EXCEPT !.nd_loop_len_pos = 1]
               /\ run'.op_state \in {"GET_NET_DESC", "WRITE_NET_DESC"}
  <1>1. /\ state = "WRITE_SEC" /\ run.op_state \in HeadStates /\ Still
        /\ UNCHANGED extVars /\ UNCHANGED << attributes, length, descriptors >>
        /\ UNCHANGED << items, desc_loop >>
    BY DEF WriteHead, extVars, Still, HeadStates
  <1>2. /\ NitTypes /\ DriverRest(Entries(Kinds), D_BIT) /\ Control /\ Counted
        /\ run \in RunSet(Len(descriptors), Len(items)) /\ loops \in LoopsSet
        /\ Len(items) \in Nat /\ Len(descriptors) \in Nat
    BY BaseFacts
  <1>3. cur.data_length = 0 /\ cur.payload = << >>
    BY <1>1, <1>2 DEF Counted
  <1>4. CASE lengthFits(cur, HEADER_LEN + 2)
    <2>1. PICK x : x = Entry("net_loop_len", 0, loop_length)
      OBVIOUS
    <2>2. x \in Entries(Kinds) /\ loop_length \in ui16
      <3>1. "net_loop_len" \in Kinds /\ loop_length \in ui16
        BY <1>2, NetLensType DEF Kinds
      <3> QED
        BY <2>1, <3>1, EntryType
    <2>3. /\ WriteSecContinue(put(writeSectionHeader(cur, D_BIT), x, 2), BASE_LENGTH)
          /\ loops' = [loops EXCEPT !.nd_loop_len_pos = 1]
          /\ run' = [run EXCEPT
               !.op_state = IF run.nd = 0 THEN "GET_NET_DESC" ELSE "WRITE_NET_DESC",
               !.nd_iter = IF run.op_state = "INIT" THEN 1 ELSE @,
               !.ts_iter = IF run.op_state = "INIT" THEN 1 ELSE @]
      BY <1>4, <2>1 DEF WriteHead
    <2>4. /\ DriverRest(Entries(Kinds), D_BIT)' /\ Owed(2)' /\ state' = "WRITE_SEC" /\ OnlyCur
          /\ cur'.payload = Append(<< >>, x) /\ cur'.data_length = HEADER_LEN + 2
      BY <1>1, <1>2, <1>3, <1>4, <2>2, <2>3, HeadSection
    <2>5. /\ run' \in RunSet(Len(descriptors), Len(items))
          /\ run'.op_state \in {"GET_NET_DESC", "WRITE_NET_DESC"}
          /\ run'.op_state = "WRITE_NET_DESC" => run'.nd # 0
      <3>1. PICK nn \in Nat, ni \in Nat : nn = Len(descriptors) /\ ni = Len(items)
        BY <1>2
      <3>2. PICK r \in RunSet(nn, ni) : r = run
        BY <1>2, <3>1
      <3>3. PICK o \in {"GET_NET_DESC", "WRITE_NET_DESC"} :
              o = (IF r.nd = 0 THEN "GET_NET_DESC" ELSE "WRITE_NET_DESC")
        OBVIOUS
      <3>4. PICK i \in 1 .. nn + 1, j \in 1 .. ni + 1 :
              /\ i = (IF r.op_state = "INIT" THEN 1 ELSE r.nd_iter)
              /\ j = (IF r.op_state = "INIT" THEN 1 ELSE r.ts_iter)
        <4>1. r.nd_iter \in 1 .. nn + 1 /\ r.ts_iter \in 1 .. ni + 1
          BY RunFields
        <4> QED
          BY <4>1
      <3>5. run' = [op_state |-> o, nd_done |-> r.nd_done, nd |-> r.nd, nd_iter |-> i,
                    ts |-> r.ts, ts_iter |-> j]
        BY <2>3, <3>2, <3>3, <3>4 DEF RunSet
      <3>6. run' \in RunSet(nn, ni) /\ run'.op_state = o /\ run'.nd = r.nd
        BY <3>5, RunFields DEF RunSet, RunStates, NetStates
      <3> QED
        BY <3>1, <3>3, <3>6
    <2>6. Control' /\ Counted'
      BY <2>4, <2>5 DEF Control, Counted, HeadStates, NetStates, StreamStates
    <2>7. loops' \in LoopsSet
      BY <1>2, <2>3 DEF LoopsSet
    <2>8. BaseInv'
      BY <1>1, <2>4, <2>5, <2>6, <2>7, SameItems, WriteBase
    <2> QED
      BY <1>1, <2>1, <2>2, <2>3, <2>4, <2>5, <2>8
  <1>5. CASE ~lengthFits(cur, HEADER_LEN + 2)
    <2>1. Abort /\ UNCHANGED << run, loops >>
      BY <1>5 DEF WriteHead
    <2> QED
      BY <1>1, <2>1, TableAborts
  <1> QED
    BY <1>4, <1>5

\* What is known of the section in the states of the first loop.
LEMMA NetFacts ==
  ASSUME BaseInv, state = "WRITE_SEC", run.op_state \in NetStates
  PROVE  /\ DriverRest(Entries(Kinds), D_BIT) /\ Owed(2)
         /\ cur \in Sections(Entries(Kinds)) /\ cur.payload \in Seq(Entries(Kinds))
         /\ cur.data_length \in Nat /\ cur.section_number = cur_sec
  <1>1. DriverRest(Entries(Kinds), D_BIT) /\ Owed(2)
    BY BaseFacts DEF Counted
  <1>2. cur \in Sections(Entries(Kinds)) /\ cur.data_length \in Nat
    BY <1>1, RestFacts
  <1> QED
    BY <1>1, <1>2, SectionFieldTypes DEF Owed

\* The section with the length of its first loop stored.
LEMMA NetStored ==
  ASSUME BaseInv, cur \in Sections(Entries(Kinds)), NEW s, s = NetLoopPatched
  PROVE  /\ s \in Sections(Entries(Kinds)) /\ s.size = cur.size /\ s.crc = cur.crc
         /\ s.data_length = cur.data_length /\ s.section_number = cur.section_number
         /\ s.payload = [cur.payload EXCEPT ![loops.nd_loop_len_pos].n
                                              = loopLen(loops.net_desc_len)]
  <1>1. PICK l, w : l = loops.nd_loop_len_pos /\ w = loopLen(loops.net_desc_len)
    OBVIOUS
  <1>2. l \in Nat /\ w \in ui16
    <2>1. loops.nd_loop_len_pos \in Nat /\ loops.net_desc_len \in ui16
      BY BaseFacts, LoopsFields
    <2>2. loops.net_desc_len \in Nat
      BY <2>1, Ui16
    <2> QED
      BY <1>1, <2>1, <2>2, LoopWord
  <1>3. s = overwrite(cur, l, w)
    BY <1>1 DEF NetLoopPatched
  <1> QED
    BY <1>1, <1>2, <1>3, OverwriteFields

\* The first loop goes on within the section, with no more bytes in it.
LEMMA NetGoesOn ==
  ASSUME BaseInv, state = "WRITE_SEC", run.op_state \in NetStates, Still,
         UNCHANGED << items, desc_loop, loops >>,
         NEW s \in Sections(Entries(Kinds)), s.size = cur.size, s.crc = cur.crc,
         s.data_length = cur.data_length, s.section_number = cur.section_number,
         WriteSecContinue(s, sec_bytes),
         run' \in RunSet(Len(descriptors), Len(items)), run'.op_state \in NetStates,
         run'.op_state = "WRITE_NET_DESC" => run'.nd # 0
  PROVE  BaseInv' /\ cur' = s /\ state' = "WRITE_SEC" /\ OnlyCur
  <1>1. PICK q \in Nat : q = 2
    OBVIOUS
  <1>2. /\ DriverRest(Entries(Kinds), D_BIT) /\ Owed(q) /\ loops \in LoopsSet
        /\ UNCHANGED << attributes, length >>
    BY <1>1, NetFacts, BaseFacts DEF Still
  <1>3. /\ DriverRest(Entries(Kinds), D_BIT)' /\ Owed(q)' /\ cur' = s
        /\ state' = "WRITE_SEC" /\ OnlyCur
    BY <1>2, SameBytes
  <1>4. Control' /\ Counted'
    BY <1>1, <1>3 DEF Control, Counted, HeadStates, NetStates, StreamStates
  <1>5. ExtInv' /\ loops' \in LoopsSet /\ items' = items
    <2>1. length' = length
      BY <1>2
    <2> QED
      BY <1>2, <2>1, SameItems
  <1> QED
    BY <1>3, <1>4, <1>5, WriteBase

\* A section with all that is counted in it, in the place of the one being written.
Whole(s) ==
  /\ s.size = cur.size /\ s.crc = cur.crc /\ s.section_number = cur_sec
  /\ s.data_length = sec_bytes + 3 /\ HEADER_LEN <= s.data_length /\ s.data_length <= s.size

\* t is section s left with len in the second loop's length, at l.
LeftWith(done, s, l, len, t) ==
  /\ BaseInv' /\ state' = (IF done THEN "END_TABLE" ELSE "MALLOC_SEC")
  /\ t \in Sections(Entries(Kinds)) /\ Whole(t) /\ t.data_length = s.data_length
  /\ t.payload = [s.payload EXCEPT ![l].n = loopLen(len)]
  /\ WriteSecReturn(done, t, sec_bytes, D_BIT)

\* writeSection returns.
LEMMA LeaveBase ==
  ASSUME BaseInv, state = "WRITE_SEC", Still,
         ExtInv', Len(items') = Len(items),
         NEW s \in Sections(Entries(Kinds)), Whole(s),
         NEW l \in Nat, NEW len \in ui16, NEW done \in BOOLEAN, Leave(done, s, l, len),
         run' \in RunSet(Len(descriptors), Len(items)), run'.op_state \in HeadStates,
         NEW t, t = overwrite(s, l, loopLen(len))
  PROVE  LeftWith(done, s, l, len, t)
  <1> SUFFICES /\ BaseInv' /\ state' = (IF done THEN "END_TABLE" ELSE "MALLOC_SEC")
               /\ t \in Sections(Entries(Kinds)) /\ Whole(t) /\ t.data_length = s.data_length
               /\ t.payload = [s.payload EXCEPT ![l].n = loopLen(len)]
               /\ WriteSecReturn(done, t, sec_bytes, D_BIT)
    BY DEF LeftWith
  <1>1. DriverRest(Entries(Kinds), D_BIT) /\ UNCHANGED << attributes, length >>
    BY BaseFacts DEF Still
  <1>2. PICK w \in ui16 : w = loopLen(len)
    BY Ui16, LoopWord
  <1>3. t = overwrite(s, l, w)
    BY <1>2
  <1>4. /\ t \in Sections(Entries(Kinds)) /\ t.size = s.size /\ t.crc = s.crc
        /\ t.data_length = s.data_length /\ t.section_number = s.section_number
        /\ t.payload = [s.payload EXCEPT ![l].n = w]
    BY ONLY <1>3, s \in Sections(Entries(Kinds)), l \in Nat, w \in ui16, OverwriteFields
  <1>5. WriteSecReturn(done, t, sec_bytes, D_BIT) /\ loops' = NoLoops
    BY <1>2, <1>3 DEF Leave
  <1>6. DriverInv(Entries(Kinds), D_BIT)'
    <2>1. /\ t.size = cur.size /\ t.crc = cur.crc /\ t.data_length = sec_bytes + 3
          /\ HEADER_LEN <= t.data_length /\ t.data_length <= t.size
          /\ t.section_number = cur_sec /\ D_BIT \in {0, 1}
      BY <1>4, NitNumbers DEF Whole
    <2> QED
      BY <1>1, <1>4, <1>5, <2>1, ReturnRest
  <1>7. state' = IF done THEN "END_TABLE" ELSE "MALLOC_SEC"
    BY <1>5 DEF WriteSecReturn
  <1>8. Control' /\ state' # "WRITE_SEC"
    BY <1>7 DEF Control, HeadStates
  <1>9. DriverRest(Entries(Kinds), D_BIT)' /\ Counted'
    BY <1>6, <1>8, NothingOwedNext
  <1>10. loops' \in LoopsSet
    BY <1>5, Ui16 DEF NoLoops, LoopsSet
  <1>11. BaseInv'
    BY <1>8, <1>9, <1>10, WriteBase
  <1>12. Whole(t)
    BY <1>4 DEF Whole
  <1> QED
    BY <1>2, <1>3, <1>4, <1>5, <1>7, <1>11, <1>12

\* The next network descriptor is fetched, or there is none.
LEMMA GetNetDescStays ==
  ASSUME BaseInv, GetNetDescFits \/ NoMoreNetDescs, NEW s, s = NetLoopPatched
  PROVE  /\ BaseInv' /\ state = "WRITE_SEC" /\ run.op_state = "GET_NET_DESC"
         /\ s \in Sections(Entries(Kinds)) /\ s.size = cur.size /\ s.crc = cur.crc
         /\ s.data_length = cur.data_length /\ s.section_number = cur.section_number
         /\ s.payload = [cur.payload EXCEPT ![loops.nd_loop_len_pos].n
                                              = loopLen(loops.net_desc_len)]
         /\ UNCHANGED << descriptors, items, desc_loop, loops >>
         /\ cur' = s /\ state' = "WRITE_SEC" /\ OnlyCur
         /\ run'.op_state \in {"WRITE_NET_DESC", "WRITE_XPORT_LOOP_LEN"}
  <1>1. /\ state = "WRITE_SEC" /\ run.op_state = "GET_NET_DESC" /\ Still
        /\ UNCHANGED << descriptors, items, desc_loop, loops >>
        /\ WriteSecContinue(s, sec_bytes)
    BY DEF GetNetDescFits, NoMoreNetDescs, At, extVars, Still
  <1>2. run.op_state \in NetStates
    BY <1>1 DEF NetStates
  <1>3. cur \in Sections(Entries(Kinds))
    BY <1>1, <1>2, NetFacts
  <1>4. /\ s \in Sections(Entries(Kinds)) /\ s.size = cur.size /\ s.crc = cur.crc
        /\ s.data_length = cur.data_length /\ s.section_number = cur.section_number
        /\ s.payload = [cur.payload EXCEPT ![loops.nd_loop_len_pos].n
                                             = loopLen(loops.net_desc_len)]
    BY <1>3, NetStored
  <1>5. PICK nn \in Nat, ni \in Nat : nn = Len(descriptors) /\ ni = Len(items)
    BY BaseFacts
  <1>6. PICK r \in RunSet(nn, ni) : r = run
    BY <1>5, BaseFacts
  <1>7. /\ run' \in RunSet(nn, ni)
        /\ run'.op_state \in {"WRITE_NET_DESC", "WRITE_XPORT_LOOP_LEN"}
        /\ run'.op_state = "WRITE_NET_DESC" => run'.nd # 0
    <2>1. CASE GetNetDescFits
      <3>1. /\ run' = [run EXCEPT !.op_state = "WRITE_NET_DESC", !.nd = run.nd_iter,
                                  !.nd_iter = @ + 1]
            /\ run.nd_iter <= Len(descriptors)
        BY <2>1 DEF GetNetDescFits, MoreNetDescs
      <3>2. run' = [op_state |-> "WRITE_NET_DESC", nd_done |-> r.nd_done, nd |-> r.nd_iter,
                    nd_iter |-> r.nd_iter + 1, ts |-> r.ts, ts_iter |-> r.ts_iter]
        BY <1>6, <3>1 DEF RunSet
      <3>3. r.nd_iter <= nn
        BY <1>5, <1>6, <3>1
      <3>4. r.nd_iter \in 0 .. nn /\ r.nd_iter # 0 /\ r.nd_iter + 1 \in 1 .. nn + 1
        BY <3>3, RunFields
      <3> QED
        BY <3>2, <3>4, RunFields DEF RunSet, RunStates, NetStates
    <2>2. CASE NoMoreNetDescs
      <3>1. run' = [run EXCEPT !.op_state = "WRITE_XPORT_LOOP_LEN", !.nd_done = TRUE,
                               !.nd = IF run.nd_done THEN @ ELSE 0]
        BY <2>2 DEF NoMoreNetDescs
      <3>2. PICK n \in 0 .. nn : n = IF r.nd_done THEN r.nd ELSE 0
        BY <1>5, RunFields
      <3>3. run' = [op_state |-> "WRITE_XPORT_LOOP_LEN", nd_done |-> TRUE, nd |-> n,
                    nd_iter |-> r.nd_iter, ts |-> r.ts, ts_iter |-> r.ts_iter]
        BY <1>6, <3>1, <3>2 DEF RunSet
      <3> QED
        BY <3>2, <3>3, RunFields DEF RunSet, RunStates, NetStates
    <2> QED
      BY <2>1, <2>2
  <1>8. BaseInv' /\ cur' = s /\ state' = "WRITE_SEC" /\ OnlyCur
    <2>1. /\ run' \in RunSet(Len(descriptors), Len(items)) /\ run'.op_state \in NetStates
          /\ run'.op_state = "WRITE_NET_DESC" => run'.nd # 0
      BY <1>5, <1>7 DEF NetStates
    <2> QED
      BY <1>1, <1>2, <1>4, <2>1, NetGoesOn
  <1> QED
    BY <1>1, <1>4, <1>7, <1>8

\* t is section s with an empty second loop, whose length is at place n.
NoStreams(s, n, t) ==
  /\ t \in Sections(Entries(Kinds)) /\ Whole(t) /\ t.data_length = cur.data_length + 2
  /\ t.payload = [Append(s.payload, Entry("ts_loop_len", 0, 0)) EXCEPT ![n].n = loopLen(0)]
  /\ WriteSecReturn(FALSE, t, sec_bytes, D_BIT)

\* A mark, or a descriptor that does not fit, ends the section: its second loop
\* is empty.
LEMMA GetNetDescLeaves ==
  ASSUME BaseInv, GetNetDescEndsSection, NEW s, s = NetLoopPatched, NEW n, n = Len(cur.payload) + 1
  PROVE  /\ BaseInv' /\ state = "WRITE_SEC" /\ run.op_state = "GET_NET_DESC"
         /\ s \in Sections(Entries(Kinds)) /\ s.size = cur.size /\ s.crc = cur.crc
         /\ s.data_length = cur.data_length /\ s.section_number = cur.section_number
         /\ s.payload = [cur.payload EXCEPT ![loops.nd_loop_len_pos].n
                                              = loopLen(loops.net_desc_len)]
         /\ UNCHANGED << descriptors, items, desc_loop >>
         /\ \/ state' = "ABORTED"
            \/ state' = "MALLOC_SEC" /\ \E t : NoStreams(s, n, t)
  <1>1. /\ state = "WRITE_SEC" /\ run.op_state = "GET_NET_DESC" /\ Still
        /\ UNCHANGED << attributes, length >> /\ length' = length /\ UNCHANGED extVars
        /\ UNCHANGED << descriptors, items, desc_loop >>
    BY DEF GetNetDescEndsSection, At, extVars, Still
  <1>2. run.op_state \in NetStates
    BY <1>1 DEF NetStates
  <1>3. /\ DriverRest(Entries(Kinds), D_BIT) /\ Owed(2)
        /\ cur \in Sections(Entries(Kinds)) /\ cur.payload \in Seq(Entries(Kinds))
        /\ cur.data_length \in Nat
    BY <1>1, <1>2, NetFacts
  <1>4. /\ s \in Sections(Entries(Kinds)) /\ s.size = cur.size /\ s.crc = cur.crc
        /\ s.data_length = cur.data_length /\ s.section_number = cur.section_number
        /\ s.payload = [cur.payload EXCEPT ![loops.nd_loop_len_pos].n
                                             = loopLen(loops.net_desc_len)]
    BY <1>3, NetStored
  <1>5. CASE ~lengthFits(cur, 2)
    <2>1. Abort /\ UNCHANGED << run, loops >>
      BY <1>5 DEF GetNetDescEndsSection
    <2>2. BaseInv' /\ state' = "ABORTED"
      BY <1>1, <2>1, TableAborts
    <2> QED
      BY <1>1, <1>4, <2>2
  <1>6. CASE lengthFits(cur, 2)
    <2>1. PICK x, l, z, v : /\ x = Entry("ts_loop_len", 0, 0) /\ l = n /\ z = 0 /\ v = 2
      OBVIOUS
    <2>2. /\ run' = [run EXCEPT !.op_state = "WRITE_HEAD", !.nd = AfterSection, !.nd_iter = @ + 1]
          /\ Leave(FALSE, put(s, x, v), l, z) /\ run.nd_iter <= Len(descriptors)
      BY <1>6, <2>1 DEF GetNetDescEndsSection, MoreNetDescs
    <2>3. x \in Entries(Kinds) /\ z \in ui16 /\ v \in Nat /\ l \in Nat
      <3>1. "ts_loop_len" \in Kinds /\ 0 \in ui16
        BY Ui16 DEF Kinds
      <3>2. Len(cur.payload) \in Nat
        BY <1>3
      <3> QED
        BY <2>1, <3>1, <3>2, EntryType
    <2>4. PICK g : g = put(s, x, v)
      OBVIOUS
    <2>5. /\ g \in Sections(Entries(Kinds)) /\ g.size = s.size /\ g.crc = s.crc
          /\ g.data_length = s.data_length + v /\ g.section_number = s.section_number
          /\ g.payload = Append(s.payload, x)
      <3>0. s \in Sections(Entries(Kinds))
        BY <1>4
      <3>1. s.payload \in Seq(Entries(Kinds))
        BY ONLY <3>0, SectionFieldTypes
      <3>2. Append(s.payload, x) \in Seq(Entries(Kinds))
        BY ONLY <2>3, <3>1
      <3>3. lengthFits(s, v)
        BY <1>4, <1>6, <2>1 DEF lengthFits
      <3> QED
        <4>1. PutOf(Entries(Kinds), s, x, v, g)
          BY ONLY <2>3, <2>4, <3>0, <3>2, <3>3, PutIs
        <4> QED
          BY ONLY <4>1 DEF PutOf
    <2>6. Whole(g) /\ g \in Sections(Entries(Kinds)) /\ g.data_length = cur.data_length + 2
      <3>1. /\ cur.data_length + 2 = sec_bytes + 3 /\ HEADER_LEN <= cur.data_length
            /\ cur.section_number = cur_sec
        BY <1>3 DEF Owed
      <3>2. cur.data_length + 2 <= cur.size
        BY <1>6 DEF lengthFits
      <3> QED
        BY <1>3, <1>4, <2>1, <2>5, <3>1, <3>2 DEF HEADER_LEN, Whole
    <2>7. run' \in RunSet(Len(descriptors), Len(items)) /\ run'.op_state = "WRITE_HEAD"
      <3>1. PICK nn \in Nat, ni \in Nat : nn = Len(descriptors) /\ ni = Len(items)
        BY BaseFacts
      <3>2. PICK r \in RunSet(nn, ni) : r = run
        BY <3>1, BaseFacts
      <3>3. r.nd_iter <= nn
        BY <2>2, <3>1, <3>2
      <3>4. r.nd_iter \in 0 .. nn /\ r.nd_iter + 1 \in 1 .. nn + 1
        BY <3>3, RunFields
      <3>5. PICK a \in 0 .. nn : a = AfterSection
        BY <3>1, <3>2, <3>4 DEF AfterSection
      <3>6. run' = [op_state |-> "WRITE_HEAD", nd_done |-> r.nd_done, nd |-> a,
                    nd_iter |-> r.nd_iter + 1, ts |-> r.ts, ts_iter |-> r.ts_iter]
        BY <2>2, <3>2, <3>5 DEF RunSet
      <3>7. run' \in RunSet(nn, ni) /\ run'.op_state = "WRITE_HEAD"
        BY <3>4, <3>6, RunFields DEF RunSet, RunStates, HeadStates
      <3> QED
        BY <3>1, <3>7
    <2>8. ExtInv' /\ Len(items') = Len(items)
      BY <1>1, SameItems
    <2>9. PICK done \in BOOLEAN : done = FALSE
      OBVIOUS
    <2>10. PICK t : t = overwrite(g, l, loopLen(z))
      OBVIOUS
    <2>11. /\ BaseInv' /\ state' = (IF done THEN "END_TABLE" ELSE "MALLOC_SEC")
           /\ t \in Sections(Entries(Kinds)) /\ Whole(t) /\ t.data_length = g.data_length
           /\ t.payload = [g.payload EXCEPT ![l].n = loopLen(z)]
           /\ WriteSecReturn(done, t, sec_bytes, D_BIT)
      <3>1. Leave(done, g, l, z) /\ run'.op_state \in HeadStates
        BY <2>2, <2>4, <2>7, <2>9 DEF HeadStates
      <3>2. BaseInv /\ state = "WRITE_SEC" /\ Still
        BY <1>1
      <3>3. ExtInv' /\ Len(items') = Len(items)
        BY ONLY <2>8
      <3>4. g \in Sections(Entries(Kinds)) /\ Whole(g)
        BY ONLY <2>6
      <3>5. l \in Nat /\ z \in ui16
        BY ONLY <2>3
      <3>6. run' \in RunSet(Len(descriptors), Len(items)) /\ run'.op_state \in HeadStates
        BY ONLY <2>7, <3>1
      <3>7. Leave(done, g, l, z)
        BY ONLY <3>1
      <3> QED
        <4>1. LeftWith(done, g, l, z, t)
          BY ONLY <2>10, <3>2, <3>3, <3>4, <3>5, <3>6, <3>7, LeaveBase
        <4> QED
          BY ONLY <4>1 DEF LeftWith
    <2>12. /\ t.data_length = cur.data_length + 2 /\ state' = "MALLOC_SEC"
           /\ t.payload = [Append(s.payload, Entry("ts_loop_len", 0, 0)) EXCEPT ![n].n = loopLen(0)]
           /\ WriteSecReturn(FALSE, t, sec_bytes, D_BIT)
      BY <2>1, <2>5, <2>6, <2>9, <2>11
    <2>13. NoStreams(s, n, t)
      BY <2>11, <2>12 DEF NoStreams
    <2> QED
      BY <1>1, <1>4, <2>11, <2>12, <2>13
  <1> QED
    BY <1>5, <1>6

\* While 2 bytes are owed, one entry more that fits does not wrap the bytes counted.
LEMMA OwedSum ==
  ASSUME DriverRest(Entries(Kinds), D_BIT), state = "WRITE_SEC", Owed(2),
         NEW len \in Nat, lengthFits(cur, len)
  PROVE  /\ (sec_bytes + len) % 65536 \in ui16
         /\ cur.data_length + len + 2 = ((sec_bytes + len) % 65536) + 3
  <1>1. /\ cur.data_length \in Nat /\ cur.size \in Nat /\ cur.size < 65536 /\ sec_bytes \in Nat
        /\ cur.data_length + 2 = sec_bytes + 3
    BY RestFacts DEF Owed
  <1>2. cur.data_length + len <= cur.size
    BY DEF lengthFits
  <1>3. sec_bytes + len < 65536 /\ cur.data_length + len + 2 = sec_bytes + len + 3
    BY <1>1, <1>2
  <1>4. (sec_bytes + len) % 65536 = sec_bytes + len /\ sec_bytes + len \in ui16
    BY <1>1, <1>3, Ui16
  <1> QED
    BY <1>3, <1>4

\* A network descriptor is written.
LEMMA WriteNetDescBase ==
  ASSUME BaseInv, WriteNetDesc, NEW d, d = run.nd, NEW v, v = netDescLength(descriptors[d])
  PROVE  /\ BaseInv' /\ state = "WRITE_SEC" /\ run.op_state = "WRITE_NET_DESC"
         /\ UNCHANGED << descriptors, items, desc_loop >>
         /\ d \in DOMAIN descriptors /\ d \in ui16 /\ v \in DescLength
         /\ \/ state' = "ABORTED"
            \/ /\ state' = "WRITE_SEC" /\ OnlyCur
               /\ cur'.payload = Append(cur.payload, Entry("net_desc", 0, d))
               /\ Entry("net_desc", 0, d) \in Entries(Kinds)
               /\ cur'.data_length = cur.data_length + v
               /\ loops' = [loops EXCEPT !.net_desc_len = (loops.net_desc_len + v) % 65536]
               /\ run'.op_state = "GET_NET_DESC"
  <1>1. /\ state = "WRITE_SEC" /\ run.op_state = "WRITE_NET_DESC" /\ Still
        /\ UNCHANGED extVars /\ UNCHANGED << attributes, length >> /\ length' = length
        /\ UNCHANGED << descriptors, items, desc_loop >>
    BY DEF WriteNetDesc, At, extVars, Still
  <1>2. run.op_state \in NetStates
    BY <1>1 DEF NetStates
  <1>3. /\ DriverRest(Entries(Kinds), D_BIT) /\ Owed(2)
        /\ cur \in Sections(Entries(Kinds)) /\ cur.data_length \in Nat
    BY <1>1, <1>2, NetFacts
  <1>4. /\ NitTypes /\ descriptors \in Seq(NetDesc) /\ 2 * Len(descriptors) <= length
        /\ length \in ui16 /\ loops \in LoopsSet
    BY BaseFacts DEF NitTypes
  <1>5. PICK nn \in Nat, ni \in Nat : nn = Len(descriptors) /\ ni = Len(items)
    BY BaseFacts
  <1>6. PICK r \in RunSet(nn, ni) : r = run
    BY <1>5, BaseFacts
  <1>7. d \in 1 .. nn /\ d \in DOMAIN descriptors /\ d \in ui16
    <2>1. d # 0 /\ d \in 0 .. nn
      BY <1>1, <1>5, <1>6, RunFields, BaseFacts DEF Control
    <2>2. d \in 1 .. nn
      BY <1>5, <2>1
    <2>3. nn < 65536
      BY <1>4, <1>5, Ui16
    <2> QED
      BY <1>4, <1>5, <2>2, <2>3, Ui16
  <1>8. v \in DescLength /\ v \in Nat
    BY <1>4, <1>7, NetLength
  <1>9. PICK x : x = Entry("net_desc", 0, d)
    OBVIOUS
  <1>10. x \in Entries(Kinds)
    <2>1. "net_desc" \in Kinds
      BY DEF Kinds
    <2> QED
      BY <1>7, <1>9, <2>1, EntryType
  <1>11. CASE lengthFits(cur, v)
    <2>1. /\ WriteSecContinue(put(cur, x, v), (sec_bytes + v) % 65536)
          /\ loops' = [loops EXCEPT !.net_desc_len = (@ + v) % 65536]
          /\ run' = [run EXCEPT !.op_state = "GET_NET_DESC"]
      BY <1>9, <1>11 DEF WriteNetDesc
    <2>2. PICK q, s : q \in Nat /\ q = 2 /\ s = put(cur, x, v)
      OBVIOUS
    <2> q \in Nat
      BY <2>2
    <2>3. Owed(q)
      BY <1>3, <2>2
    <2>4. /\ s \in Sections(Entries(Kinds)) /\ s.size = cur.size /\ s.crc = cur.crc
          /\ s.section_number = cur_sec /\ s.payload = Append(cur.payload, x)
          /\ s.data_length = cur.data_length + v
          /\ HEADER_LEN <= s.data_length /\ s.data_length <= s.size
          /\ s.data_length \in Nat /\ s.size < 65536 /\ s.size \in Nat
      <3>1. s = put(cur, x, v) /\ UNCHANGED << attributes, length >>
        BY <1>1, <2>2
      <3>2. DriverRest(Entries(Kinds), D_BIT) /\ state = "WRITE_SEC" /\ v \in Nat
        BY <1>1, <1>3, <1>8
      <3> QED
        <4>1. OwedPut(x, v, s)
          BY ONLY <1>10, <1>11, <2>3, <3>1, <3>2, q \in Nat, PutOwed
        <4> QED
          BY ONLY <4>1 DEF OwedPut
    <2>5. PICK b : b = (sec_bytes + v) % 65536
      OBVIOUS
    <2>6. b \in ui16 /\ s.data_length + q = b + 3
      <3>1. /\ (sec_bytes + v) % 65536 \in ui16
            /\ cur.data_length + v + 2 = ((sec_bytes + v) % 65536) + 3
        BY <1>1, <1>3, <1>8, <1>11, OwedSum
      <3> QED
        BY <2>2, <2>4, <2>5, <3>1
    <2>7. WriteSecContinue(s, b)
      BY <2>1, <2>2, <2>5
    <2>8. /\ DriverRest(Entries(Kinds), D_BIT)' /\ Owed(q)' /\ cur' = s
          /\ state' = "WRITE_SEC" /\ OnlyCur
      BY <1>1, <1>3, <2>4, <2>6, <2>7, WriteOwed
    <2>9. PICK o \in RunStates : o = "GET_NET_DESC"
      BY DEF RunStates, NetStates
    <2>10. run' \in RunSet(nn, ni) /\ run'.op_state = o
      <3>1. PICK p : p = [r EXCEPT !.op_state = o]
        OBVIOUS
      <3>2. p \in RunSet(nn, ni) /\ p.op_state = o
        BY <3>1, StateRun
      <3> QED
        BY <1>6, <2>1, <2>9, <3>1, <3>2
    <2>11. /\ loops' = [loops EXCEPT !.net_desc_len = (loops.net_desc_len + v) % 65536]
           /\ loops' \in LoopsSet
      <3>1. loops.net_desc_len \in Nat
        BY <1>4, LoopsFields, Ui16
      <3>2. PICK n \in Nat : n = loops.net_desc_len + v
        BY <1>8, <3>1
      <3>3. PICK w \in ui16 : w = n % 65536
        BY Wraps
      <3>4. loops' = [loops EXCEPT !.net_desc_len = w]
        BY <2>1, <3>2, <3>3
      <3> QED
        BY <1>4, <3>2, <3>3, <3>4 DEF LoopsSet
    <2>12. Control' /\ Counted'
      BY <2>2, <2>8, <2>9, <2>10 DEF Control, Counted, HeadStates, NetStates, StreamStates
    <2>13. BaseInv'
      <3>1. run' \in RunSet(Len(descriptors), Len(items)) /\ ExtInv' /\ Len(items') = Len(items)
        BY <1>1, <1>5, <2>10, SameItems
      <3> QED
        BY <1>1, <2>8, <2>11, <2>12, <3>1, WriteBase
    <2>14. /\ cur'.payload = Append(cur.payload, x) /\ cur'.data_length = cur.data_length + v
           /\ run'.op_state = "GET_NET_DESC"
      BY <2>4, <2>8, <2>9, <2>10
    <2> QED
      BY <1>1, <1>7, <1>8, <1>9, <1>10, <2>8, <2>11, <2>13, <2>14
  <1>12. CASE ~lengthFits(cur, v)
    <2>1. Abort /\ UNCHANGED << run, loops >>
      BY <1>12 DEF WriteNetDesc
    <2>2. BaseInv' /\ state' = "ABORTED"
      BY <1>1, <2>1, TableAborts
    <2> QED
      BY <1>1, <1>7, <1>8, <2>2
  <1> QED
    BY <1>11, <1>12

\* The length of the second loop is written: nothing is owed any more.
LEMMA WriteXportLoopLenBase ==
  ASSUME BaseInv, WriteXportLoopLen
  PROVE  /\ BaseInv' /\ state = "WRITE_SEC" /\ run.op_state = "WRITE_XPORT_LOOP_LEN"
         /\ UNCHANGED << descriptors, items, desc_loop >>
         /\ \/ state' = "ABORTED"
            \/ /\ state' = "WRITE_SEC" /\ OnlyCur
               /\ cur'.payload = Append(cur.payload, Entry("ts_loop_len", 0, 0))
               /\ Entry("ts_loop_len", 0, 0) \in Entries(Kinds)
               /\ cur'.data_length = cur.data_length + 2
               /\ loops' = [loops EXCEPT !.ts_loop_len_pos = Len(cur.payload) + 1]
               /\ run'.op_state \in StreamStates
  <1>1. /\ state = "WRITE_SEC" /\ run.op_state = "WRITE_XPORT_LOOP_LEN" /\ Still
        /\ UNCHANGED extVars /\ UNCHANGED << attributes, length >> /\ length' = length
        /\ UNCHANGED << descriptors, items, desc_loop >>
    BY DEF WriteXportLoopLen, At, extVars, Still
  <1>2. run.op_state \in NetStates
    BY <1>1 DEF NetStates
  <1>3. /\ DriverRest(Entries(Kinds), D_BIT) /\ Owed(2)
        /\ cur \in Sections(Entries(Kinds)) /\ cur.data_length \in Nat
        /\ cur.payload \in Seq(Entries(Kinds)) /\ loops \in LoopsSet
    BY <1>1, <1>2, NetFacts, BaseFacts
  <1>4. PICK nn \in Nat, ni \in Nat : nn = Len(descriptors) /\ ni = Len(items)
    BY BaseFacts
  <1>5. PICK r \in RunSet(nn, ni) : r = run
    BY <1>4, BaseFacts
  <1>6. PICK x : x = Entry("ts_loop_len", 0, 0)
    OBVIOUS
  <1>7. x \in Entries(Kinds)
    <2>1. "ts_loop_len" \in Kinds /\ 0 \in ui16
      BY Ui16 DEF Kinds
    <2> QED
      BY <1>6, <2>1, EntryType
  <1>8. CASE lengthFits(cur, 2)
    <2>1. PICK v, q, z, s :
      /\ v \in Nat /\ q \in Nat /\ z \in Nat
      /\ v = 2 /\ q = 2 /\ z = 0 /\ s = put(cur, x, v)
      OBVIOUS
    <2> v \in Nat /\ q \in Nat /\ z \in Nat
      BY <2>1
    <2>2. /\ WriteSecContinue(s, sec_bytes)
          /\ loops' = [loops EXCEPT !.ts_loop_len_pos = Len(cur.payload) + 1]
          /\ run' = [run EXCEPT !.op_state =
               IF run.ts = 0 THEN "GET_XPORT_STREAM" ELSE "WRITE_XPORT_STREAM"]
      BY <1>6, <1>8, <2>1 DEF WriteXportLoopLen
    <2>3. Owed(q) /\ lengthFits(cur, v)
      BY <1>3, <1>8, <2>1
    <2>4. /\ s \in Sections(Entries(Kinds)) /\ s.size = cur.size /\ s.crc = cur.crc
          /\ s.section_number = cur_sec /\ s.payload = Append(cur.payload, x)
          /\ s.data_length = cur.data_length + v
          /\ HEADER_LEN <= s.data_length /\ s.data_length <= s.size
          /\ s.data_length \in Nat /\ s.size < 65536 /\ s.size \in Nat
      <3>1. s = put(cur, x, v) /\ UNCHANGED << attributes, length >>
        BY <1>1, <2>1
      <3>2. DriverRest(Entries(Kinds), D_BIT) /\ state = "WRITE_SEC"
        BY <1>1, <1>3
      <3> QED
        <4>1. OwedPut(x, v, s)
          BY ONLY <1>7, <2>3, <3>1, <3>2, q \in Nat, v \in Nat, PutOwed
        <4> QED
          BY ONLY <4>1 DEF OwedPut
    <2>5. PICK b : b = sec_bytes
      OBVIOUS
    <2>6. b \in ui16 /\ s.data_length + z = b + 3
      <3>1. cur.data_length + 2 = b + 3 /\ b \in ui16
        BY <1>1, <1>3, <2>5 DEF Owed, DriverRest, DriverTypes, PsiTypeOK
      <3> QED
        BY <1>3, <2>1, <2>4, <3>1, Ui16
    <2>7. WriteSecContinue(s, b)
      BY <2>2, <2>5
    <2>8. /\ DriverRest(Entries(Kinds), D_BIT)' /\ Owed(z)' /\ cur' = s
          /\ state' = "WRITE_SEC" /\ OnlyCur
      <3>1. /\ DriverRest(Entries(Kinds), D_BIT) /\ state = "WRITE_SEC"
            /\ UNCHANGED << attributes, length >>
        BY <1>1, <1>3
      <3>2. z \in Nat /\ b \in ui16 /\ s.data_length + z = b + 3 /\ WriteSecContinue(s, b)
        BY <2>1, <2>6, <2>7
      <3> QED
        BY ONLY <3>1, <3>2, <2>4, WriteOwed
    <2>9. PICK o \in StreamStates :
            /\ o = (IF r.ts = 0 THEN "GET_XPORT_STREAM" ELSE "WRITE_XPORT_STREAM")
            /\ o = "WRITE_XPORT_STREAM" => r.ts # 0
      BY DEF StreamStates
    <2>10. PICK p : p = [r EXCEPT !.op_state = o]
      OBVIOUS
    <2>11. run' = p /\ p \in RunSet(nn, ni) /\ p.op_state = o /\ p.ts = r.ts
      BY <1>4, <1>5, <2>2, <2>9, <2>10, StateRun DEF RunStates
    <2>12. loops' \in LoopsSet
      <3>1. Len(cur.payload) + 1 \in Nat
        BY <1>3
      <3> QED
        BY <1>3, <2>2, <3>1 DEF LoopsSet
    <2>13. Control' /\ Counted'
      BY <2>1, <2>8, <2>9, <2>11 DEF Control, Counted, HeadStates, NetStates, StreamStates
    <2>14. BaseInv'
      <3>1. run' \in RunSet(Len(descriptors), Len(items)) /\ ExtInv' /\ Len(items') = Len(items)
        BY <1>1, <1>4, <2>11, SameItems
      <3> QED
        BY <1>1, <2>8, <2>12, <2>13, <3>1, WriteBase
    <2>15. /\ cur'.payload = Append(cur.payload, x) /\ cur'.data_length = cur.data_length + 2
           /\ run'.op_state \in StreamStates
      BY <2>1, <2>4, <2>8, <2>9, <2>11
    <2> QED
      BY <1>1, <1>6, <1>7, <2>2, <2>8, <2>14, <2>15
  <1>9. CASE ~lengthFits(cur, 2)
    <2>1. Abort /\ UNCHANGED << run, loops >>
      BY <1>9 DEF WriteXportLoopLen
    <2>2. BaseInv' /\ state' = "ABORTED"
      BY <1>1, <2>1, TableAborts
    <2> QED
      BY <1>1, <2>2
  <1> QED
    BY <1>8, <1>9

\* The section in the states of the second loop has all that is counted.
LEMMA StreamWhole ==
  ASSUME BaseInv, state = "WRITE_SEC", run.op_state \in StreamStates
  PROVE  /\ DriverInv(Entries(Kinds), D_BIT) /\ DriverRest(Entries(Kinds), D_BIT)
         /\ cur \in Sections(Entries(Kinds)) /\ cur.payload \in Seq(Entries(Kinds))
         /\ cur.data_length \in Nat /\ cur.data_length # 0 /\ Whole(cur)
  <1>1. DriverRest(Entries(Kinds), D_BIT) /\ Owed(0)
    BY BaseFacts DEF Counted
  <1>2. /\ DriverInv(Entries(Kinds), D_BIT)
        /\ cur.data_length = 0 <=> run.op_state \in HeadStates
    BY NothingOwed DEF StreamStates, NetStates
  <1>3. cur \in Sections(Entries(Kinds)) /\ cur.data_length \in Nat
    BY <1>1, RestFacts
  <1>4. cur.data_length # 0
    BY <1>2 DEF StreamStates, HeadStates
  <1>5. Whole(cur)
    BY <1>1, <1>3 DEF Owed, Whole
  <1> QED
    BY <1>1, <1>2, <1>3, <1>4, <1>5, SectionFieldTypes

\* The section with the length of the second loop stored.
TsStored(s, t) ==
  /\ t \in Sections(Entries(Kinds)) /\ Whole(t) /\ t.data_length = cur.data_length
  /\ t.payload = [s.payload EXCEPT ![loops.ts_loop_len_pos].n = loopLen(loops.ts_loop_len)]

\* The next transport stream is fetched, or there is none.
LEMMA GetStreamBase ==
  ASSUME BaseInv, GetXportStreamFull \/ GetXportStreamFits \/ GetXportStreamEnd
  PROVE  /\ BaseInv' /\ state = "WRITE_SEC" /\ run.op_state = "GET_XPORT_STREAM"
         /\ UNCHANGED << descriptors, items, desc_loop >>
         /\ \/ \E done \in BOOLEAN : \E t :
                 /\ TsStored(cur, t) /\ WriteSecReturn(done, t, sec_bytes, D_BIT)
                 /\ state' = IF done THEN "END_TABLE" ELSE "MALLOC_SEC"
            \/ /\ UNCHANGED << driver, loops >> /\ cur' = cur /\ state' = "WRITE_SEC"
               /\ run'.op_state = "WRITE_XPORT_STREAM"
  <1>1. /\ state = "WRITE_SEC" /\ run.op_state = "GET_XPORT_STREAM" /\ Still
        /\ UNCHANGED << attributes, length >> /\ length' = length
        /\ UNCHANGED << descriptors, items, desc_loop >>
    BY DEF GetXportStreamFull, GetXportStreamFits, GetXportStreamEnd, At, psiVars, extVars, Still
  <1>2. run.op_state \in StreamStates
    BY <1>1 DEF StreamStates
  <1>3. /\ DriverInv(Entries(Kinds), D_BIT) /\ DriverRest(Entries(Kinds), D_BIT)
        /\ cur \in Sections(Entries(Kinds)) /\ Whole(cur) /\ loops \in LoopsSet
        /\ Counted /\ cur.data_length # 0
    BY <1>1, <1>2, StreamWhole, BaseFacts
  <1>4. PICK nn \in Nat, ni \in Nat : nn = Len(descriptors) /\ ni = Len(items)
    BY BaseFacts
  <1>5. PICK r \in RunSet(nn, ni) : r = run
    BY <1>4, BaseFacts
  <1>6. ASSUME NEW done \in BOOLEAN, Leave(done, cur, loops.ts_loop_len_pos, loops.ts_loop_len),
               run' \in RunSet(nn, ni), run'.op_state \in HeadStates
        PROVE  /\ BaseInv'
               /\ \E t : TsStored(cur, t) /\ WriteSecReturn(done, t, sec_bytes, D_BIT)
               /\ state' = IF done THEN "END_TABLE" ELSE "MALLOC_SEC"
    <2>1. PICK s, l, n : s = cur /\ l = loops.ts_loop_len_pos /\ n = loops.ts_loop_len
      OBVIOUS
    <2>2. PICK t : t = overwrite(s, l, loopLen(n))
      OBVIOUS
    <2>3. l \in Nat /\ n \in ui16
      BY <1>3, <2>1, LoopsFields
    <2>4. s \in Sections(Entries(Kinds)) /\ Whole(s) /\ Leave(done, s, l, n)
      BY <1>3, <1>6, <2>1
    <2>5. ExtInv' /\ Len(items') = Len(items)
      BY <1>1, SameItems
    <2>6. run' \in RunSet(Len(descriptors), Len(items)) /\ run'.op_state \in HeadStates
      BY <1>4, <1>6
    <2>7. BaseInv /\ state = "WRITE_SEC" /\ Still
      BY <1>1
    <2>8. /\ BaseInv' /\ state' = (IF done THEN "END_TABLE" ELSE "MALLOC_SEC")
          /\ t \in Sections(Entries(Kinds)) /\ Whole(t) /\ t.data_length = s.data_length
          /\ t.payload = [s.payload EXCEPT ![l].n = loopLen(n)]
          /\ WriteSecReturn(done, t, sec_bytes, D_BIT)
      <3>1. LeftWith(done, s, l, n, t)
        BY ONLY <2>2, <2>3, <2>4, <2>5, <2>6, <2>7, done \in BOOLEAN, LeaveBase
      <3> QED
        BY ONLY <3>1 DEF LeftWith
    <2>9. TsStored(cur, t)
      BY <2>1, <2>8 DEF TsStored
    <2> QED
      BY <2>8, <2>9
  <1>7. CASE GetXportStreamFull
    <2>1. /\ run' = [run EXCEPT !.op_state = "WRITE_HEAD", !.ts = run.ts_iter, !.ts_iter = @ + 1]
          /\ Leave(FALSE, cur, loops.ts_loop_len_pos, loops.ts_loop_len)
          /\ run.ts_iter <= Len(items)
      BY <1>7 DEF GetXportStreamFull
    <2>2. run' = [op_state |-> "WRITE_HEAD", nd_done |-> r.nd_done, nd |-> r.nd,
                  nd_iter |-> r.nd_iter, ts |-> r.ts_iter, ts_iter |-> r.ts_iter + 1]
      BY <1>5, <2>1 DEF RunSet
    <2>3. run' \in RunSet(nn, ni) /\ run'.op_state \in HeadStates
      <3>1. r.ts_iter <= ni
        BY <1>4, <1>5, <2>1
      <3>2. r.ts_iter \in 0 .. ni /\ r.ts_iter + 1 \in 1 .. ni + 1
        BY <3>1, RunFields
      <3> QED
        BY <2>2, <3>2, RunFields DEF RunSet, RunStates, HeadStates
    <2>4. PICK done \in BOOLEAN : done = FALSE
      OBVIOUS
    <2> QED
      BY <1>1, <1>6, <2>1, <2>3, <2>4
  <1>8. CASE GetXportStreamEnd
    <2>1. run' = Context /\ Leave(TRUE, cur, loops.ts_loop_len_pos, loops.ts_loop_len)
      BY <1>8 DEF GetXportStreamEnd
    <2>2. run' \in RunSet(nn, ni) /\ run'.op_state \in HeadStates
      BY <1>4, <2>1 DEF Context, RunSet, RunStates, HeadStates
    <2>3. PICK done \in BOOLEAN : done = TRUE
      OBVIOUS
    <2> QED
      BY <1>1, <1>6, <2>1, <2>2, <2>3
  <1>9. CASE GetXportStreamFits
    <2>1. /\ run' = [run EXCEPT !.op_state = "WRITE_XPORT_STREAM", !.ts = run.ts_iter,
                                !.ts_iter = @ + 1]
          /\ UNCHANGED << driver, loops, attributes, length >> /\ run.ts_iter <= Len(items)
      BY <1>9 DEF GetXportStreamFits, psiVars
    <2>2. run' = [op_state |-> "WRITE_XPORT_STREAM", nd_done |-> r.nd_done, nd |-> r.nd,
                  nd_iter |-> r.nd_iter, ts |-> r.ts_iter, ts_iter |-> r.ts_iter + 1]
      BY <1>5, <2>1 DEF RunSet
    <2>3. run' \in RunSet(nn, ni) /\ run'.op_state = "WRITE_XPORT_STREAM" /\ run'.ts # 0
      <3>1. r.ts_iter <= ni
        BY <1>4, <1>5, <2>1
      <3>2. r.ts_iter \in 0 .. ni /\ r.ts_iter # 0 /\ r.ts_iter + 1 \in 1 .. ni + 1
        BY <3>1, RunFields
      <3> QED
        BY <2>2, <3>2, RunFields DEF RunSet, RunStates, StreamStates
    <2>4. UNCHANGED << stream, state >> /\ cur' = cur
      BY <2>1 DEF driver, cur
    <2>5. DriverInv(Entries(Kinds), D_BIT)'
      BY <1>1, <1>3, <2>1, AddDriver, Ui16, BaseFacts
    <2>6. DriverRest(Entries(Kinds), D_BIT)' /\ Counted'
      BY <1>1, <1>3, <2>3, <2>4, <2>5, NothingOwedNext DEF StreamStates
    <2>7. Control'
      BY <1>1, <2>2, <2>3, <2>4 DEF Control
    <2>8. BaseInv'
      <3>1. ExtInv' /\ Len(items') = Len(items) /\ loops' \in LoopsSet
        BY <1>1, <1>3, <2>1, SameItems
      <3>2. run' \in RunSet(Len(descriptors), Len(items))
        BY <1>4, <2>3
      <3> QED
        BY <1>1, <2>6, <2>7, <3>1, <3>2, WriteBase
    <2> QED
      BY <1>1, <2>1, <2>3, <2>4, <2>8
  <1> QED
    BY <1>7, <1>8, <1>9
-----------------------------------------------------------------------------
(* The states of a transport stream.                                       *)

\* While one is written, what is known of it.
LEMMA StreamFacts ==
  ASSUME BaseInv, At("WRITE_XPORT_STREAM")
  PROVE  /\ DriverInv(Entries(Kinds), D_BIT) /\ ExtInv
         /\ state = "WRITE_SEC" /\ run.op_state = "WRITE_XPORT_STREAM"
         /\ run.ts \in DOMAIN items /\ cur.data_length # 0
         /\ cur \in Sections(Entries(Kinds)) /\ Whole(cur)
         /\ loops \in LoopsSet /\ run \in RunSet(Len(descriptors), Len(items))
  <1>1. /\ Control /\ ExtInv /\ loops \in LoopsSet /\ run \in RunSet(Len(descriptors), Len(items))
        /\ Len(items) \in Nat /\ DOMAIN items = 1 .. Len(items) /\ Len(descriptors) \in Nat
    BY BaseFacts
  <1>2. state = "WRITE_SEC" /\ run.op_state = "WRITE_XPORT_STREAM"
    BY DEF At
  <1>3. run.op_state \in StreamStates
    BY <1>2 DEF StreamStates
  <1>4. /\ DriverInv(Entries(Kinds), D_BIT) /\ cur.data_length # 0
        /\ cur \in Sections(Entries(Kinds)) /\ Whole(cur)
    BY <1>2, <1>3, StreamWhole
  <1>5. run.ts # 0 /\ run.ts \in 0 .. Len(items)
    BY <1>1, <1>2, RunFields DEF Control
  <1> QED
    BY <1>1, <1>2, <1>4, <1>5

\* It goes on within its section, or the process dies.
LEMMA StreamStaysBase ==
  ASSUME BaseInv, At("WRITE_XPORT_STREAM"), Still, run' = run, loops' \in LoopsSet,
         DriverInv(Entries(Kinds), D_BIT)', ExtInv', NEW i, OnlyRun(i),
         state' = "ABORTED" \/ (state' = "WRITE_SEC" /\ cur'.data_length # 0)
  PROVE  BaseInv'
  <1>1. /\ Control /\ run \in RunSet(Len(descriptors), Len(items))
        /\ state = "WRITE_SEC" /\ run.op_state = "WRITE_XPORT_STREAM"
    BY StreamFacts, BaseFacts
  <1>2. Control'
    BY <1>1 DEF Control
  <1>3. DriverRest(Entries(Kinds), D_BIT)' /\ Counted'
    <2>1. run'.op_state \in StreamStates
      BY <1>1 DEF StreamStates
    <2>2. state' = "WRITE_SEC" => run'.op_state \in StreamStates /\ cur'.data_length # 0
      BY <2>1
    <2> QED
      BY <2>2, NothingOwedNext
  <1>4. Len(items') = Len(items)
    BY DEF OnlyRun
  <1> QED
    BY <1>1, <1>2, <1>3, <1>4, WriteBase

\* What is added to the length of the second loop.
LEMMA TsLonger ==
  ASSUME loops \in LoopsSet, NEW len \in Nat,
         loops' = [loops EXCEPT !.ts_loop_len = (loops.ts_loop_len + len) % 65536]
  PROVE  loops' \in LoopsSet
  <1>1. loops.ts_loop_len \in Nat
    BY LoopsFields, Ui16
  <1>2. PICK n \in Nat : n = loops.ts_loop_len + len
    BY <1>1
  <1>3. PICK w \in ui16 : w = n % 65536
    BY Wraps
  <1>4. loops' = [loops EXCEPT !.ts_loop_len = w]
    BY <1>2, <1>3
  <1> QED
    BY ONLY loops \in LoopsSet, <1>3, <1>4 DEF LoopsSet

\* Its two ids are written, and a place for the length of its descriptors.
LEMMA StreamHeadBase ==
  ASSUME BaseInv, At("WRITE_XPORT_STREAM"), NEW i, i = run.ts, ItemWriteHead(i, BASE_LEN, 0),
         loops' = [loops EXCEPT !.ts_loop_len = (loops.ts_loop_len + BASE_LEN) % 65536],
         run' = run, Still
  PROVE  /\ BaseInv' /\ OnlyRun(i) /\ 0 \in ui16
         /\ items[i].run.op_state \in {"INIT", "WRITE_HEAD"}
         /\ \/ state' = "ABORTED"
            \/ /\ state' = "WRITE_SEC" /\ OnlyCur
               /\ cur'.payload = PutItem(cur.payload, i, 0)
               /\ cur'.data_length = cur.data_length + BASE_LEN /\ cur'.data_length # 0
               /\ desc_loop' = [pos |-> Len(cur.payload) + 2, len |-> 0]
               /\ items'[i].run.op_state \in {"GET_DESC", "WRITE_DESC"}
  <1>1. /\ DriverInv(Entries(Kinds), D_BIT) /\ ExtInv
        /\ state = "WRITE_SEC" /\ i \in DOMAIN items /\ cur.data_length # 0
        /\ loops \in LoopsSet /\ 0 \in ui16
    BY StreamFacts, Ui16
  <1>2. PICK b \in Nat : b = BASE_LEN /\ 2 <= b
    BY DEF BASE_LEN
  <1>3. PICK w \in ui16 : w = 0
    BY <1>1
  <1>4. /\ DriverInv(Entries(Kinds), D_BIT)' /\ ExtInv' /\ OnlyCur /\ OnlyRun(i)
        /\ items[i].run.op_state \in {"INIT", "WRITE_HEAD"}
        /\ \/ state' = "ABORTED"
           \/ /\ state' = "WRITE_SEC" /\ lengthFits(cur, b)
              /\ cur'.payload = PutItem(cur.payload, i, w)
              /\ cur'.data_length = cur.data_length + b /\ cur'.data_length # 0
              /\ desc_loop' = [pos |-> Len(cur.payload) + 2, len |-> 0]
              /\ items'[i].run =
                   [op_state |-> IF items[i].run.d = 0 THEN "GET_DESC" ELSE "WRITE_DESC",
                    d |-> items[i].run.d,
                    d_iter |-> IF items[i].run.op_state = "INIT"
                               THEN Iter(1, Len(items[i].descriptors))
                               ELSE items[i].run.d_iter]
    <2>1. ItemWriteHead(i, b, w)
      BY ONLY ItemWriteHead(i, BASE_LEN, 0), <1>2, <1>3
    <2>2. UNCHANGED << attributes, length >>
      BY DEF Still
    <2> QED
      BY ONLY <1>1, <1>2, w \in ui16, <2>1, <2>2, NitNumbers, ItemHeadStep, SMTT(20)
  <1>5. loops' \in LoopsSet
    <2>1. loops' = [loops EXCEPT !.ts_loop_len = (loops.ts_loop_len + b) % 65536]
      BY <1>2
    <2> QED
      BY ONLY <1>1, <2>1, b \in Nat, TsLonger
  <1>6. BaseInv'
    BY <1>4, <1>5, StreamStaysBase
  <1>7. /\ w = 0 /\ b = BASE_LEN
        /\ state' # "ABORTED" => items'[i].run.op_state \in {"GET_DESC", "WRITE_DESC"}
    BY ONLY <1>2, <1>3, <1>4
  <1> QED
    BY <1>1, <1>4, <1>6, <1>7

\* Its next descriptor is fetched.
LEMMA StreamFetchBase ==
  ASSUME BaseInv, At("WRITE_XPORT_STREAM"), NEW i, i = run.ts,
         ItemGetDescFits(i), UNCHANGED << run, loops >>, Still
  PROVE  /\ BaseInv' /\ OnlyRun(i) /\ items[i].run.op_state = "GET_DESC"
         /\ items'[i].run.op_state = "WRITE_DESC" /\ desc_loop' = desc_loop
         /\ OnlyCur /\ cur' = cur /\ state' = "WRITE_SEC" /\ stream' = stream
  <1>1. /\ DriverInv(Entries(Kinds), D_BIT) /\ ExtInv /\ loops \in LoopsSet
        /\ state = "WRITE_SEC" /\ i \in DOMAIN items /\ cur.data_length # 0
        /\ UNCHANGED << attributes, length >>
    BY StreamFacts DEF Still
  <1>2. /\ DriverInv(Entries(Kinds), D_BIT)' /\ ExtInv' /\ OnlyRun(i)
        /\ UNCHANGED << stream, state, builds, first, cur_sec, sec_bytes, desc_loop >>
        /\ items[i].run.op_state = "GET_DESC"
        /\ items'[i].run =
             [op_state |-> "WRITE_DESC", d |-> items[i].run.d_iter,
              d_iter |-> Iter(items[i].run.d_iter + 1, Len(items[i].descriptors))]
    BY <1>1, ItemFitsStep
  <1>3. OnlyCur /\ cur' = cur
    BY <1>2 DEF OnlyCur, cur
  <1>4. BaseInv'
    BY <1>1, <1>2, <1>3, StreamStaysBase
  <1> QED
    BY <1>1, <1>2, <1>3, <1>4

\* It is written.
LEMMA StreamDescBase ==
  ASSUME BaseInv, At("WRITE_XPORT_STREAM"), NEW i, i = run.ts, ItemWriteDesc(i),
         loops' = [loops EXCEPT !.ts_loop_len = (loops.ts_loop_len + ItemDescLen(i)) % 65536],
         run' = run, Still
  PROVE  /\ BaseInv' /\ OnlyRun(i) /\ items[i].run.op_state = "WRITE_DESC"
         /\ items[i].run.d \in DOMAIN items[i].descriptors /\ items[i].run.d \in ui16
         /\ ItemDescLen(i) \in DescLength
         /\ \/ state' = "ABORTED"
            \/ /\ state' = "WRITE_SEC" /\ OnlyCur
               /\ cur'.payload = Append(cur.payload, Entry("desc", i, items[i].run.d))
               /\ cur'.data_length = cur.data_length + ItemDescLen(i)
               /\ cur'.data_length # 0 /\ cur'.data_length < 65536
               /\ desc_loop'
                    = [pos |-> desc_loop.pos, len |-> (desc_loop.len + ItemDescLen(i)) % 65536]
               /\ items'[i].run.op_state = "GET_DESC"
  <1>1. /\ DriverInv(Entries(Kinds), D_BIT) /\ ExtInv /\ loops \in LoopsSet
        /\ state = "WRITE_SEC" /\ i \in DOMAIN items /\ cur.data_length # 0
    BY StreamFacts
  <1>2. /\ DriverInv(Entries(Kinds), D_BIT)' /\ ExtInv' /\ OnlyCur /\ OnlyRun(i)
        /\ items[i].run.op_state = "WRITE_DESC"
        /\ items[i].run.d \in DOMAIN items[i].descriptors
        /\ \/ state' = "ABORTED"
           \/ /\ state' = "WRITE_SEC"
              /\ cur'.payload = Append(cur.payload, Entry("desc", i, items[i].run.d))
              /\ cur'.data_length = cur.data_length + ItemDescLen(i)
              /\ cur'.data_length # 0
              /\ desc_loop'
                   = [pos |-> desc_loop.pos, len |-> (desc_loop.len + ItemDescLen(i)) % 65536]
              /\ items'[i].run = [op_state |-> "GET_DESC", d |-> items[i].run.d,
                                  d_iter |-> items[i].run.d_iter]
    <2>1. ItemWriteDesc(i) /\ UNCHANGED << attributes, length >>
      BY DEF Still
    <2> QED
      BY ONLY <1>1, <2>1, NitNumbers, ItemDescStep, SMTT(20)
  <1>3. ItemDescLen(i) \in DescLength /\ ItemDescLen(i) \in Nat
    <2>1. items[i].descriptors \in Seq(DescLength)
      BY <1>1, ItemFacts
    <2>2. ItemDescLen(i) \in DescLength
      BY <1>2, <2>1 DEF ItemDescLen
    <2> QED
      BY <2>2, DescLengths
  <1>4. loops' \in LoopsSet
    BY <1>1, <1>3, TsLonger
  <1>5. BaseInv'
    BY <1>2, <1>4, StreamStaysBase
  <1>6. items[i].run.d \in ui16
    <2>1. items[i].run.d \in 1 .. Len(items[i].descriptors) /\ Len(items[i].descriptors) \in Nat
      BY <1>1, <1>2, ItemFacts
    <2>2. 2 * Len(items[i].descriptors) <= length /\ length \in ui16
      BY <1>1, ItemFacts, BaseFacts
    <2>3. items[i].run.d \in Int /\ 0 <= items[i].run.d /\ items[i].run.d < 65536
      BY ONLY <2>1, <2>2, Ui16
    <2> QED
      BY <2>1, <2>3, Ui16
  <1>7. cur'.data_length < 65536
    BY <1>1, <1>2, CurWidth
  <1> QED
    BY <1>2, <1>3, <1>5, <1>6, <1>7

\* The section with the loop that is open patched.
LEMMA LoopStored ==
  ASSUME ExtInv, cur \in Sections(Entries(Kinds)), Whole(cur), NEW s, s = LoopPatched(cur)
  PROVE  /\ s \in Sections(Entries(Kinds)) /\ s.size = cur.size /\ s.crc = cur.crc
         /\ s.data_length = cur.data_length /\ s.section_number = cur.section_number
         /\ s.payload = [cur.payload EXCEPT ![desc_loop.pos].n = loopLen(desc_loop.len)]
         /\ Whole(s)
  <1>1. PICK l, w : l = desc_loop.pos /\ w = loopLen(desc_loop.len)
    OBVIOUS
  <1>2. l \in Nat /\ w \in ui16
    <2>1. desc_loop.pos \in Nat /\ desc_loop.len \in ui16
      BY DEF ExtInv
    <2>2. desc_loop.len \in Nat
      BY <2>1, Ui16
    <2> QED
      BY <1>1, <2>1, <2>2, LoopWord
  <1>3. s = overwrite(cur, l, w)
    BY <1>1 DEF LoopPatched
  <1>4. /\ s \in Sections(Entries(Kinds)) /\ s.size = cur.size /\ s.crc = cur.crc
        /\ s.data_length = cur.data_length /\ s.section_number = cur.section_number
        /\ s.payload = [cur.payload EXCEPT ![l].n = w]
    BY <1>2, <1>3, OverwriteFields
  <1>5. Whole(s)
    BY <1>4 DEF Whole
  <1> QED
    BY <1>1, <1>4, <1>5

\* The transport stream leaves a descriptor to the next section, or has no more.
LEMMA StreamReturnsBase ==
  ASSUME BaseInv, XportStreamFull \/ XportStreamDone, NEW s, s = LoopPatched(cur), NEW i, i = run.ts
  PROVE  /\ BaseInv' /\ At("WRITE_XPORT_STREAM") /\ OnlyRun(i)
         /\ items[i].run.op_state = "GET_DESC"
         /\ items'[i].run.op_state \in {"INIT", "WRITE_HEAD"} /\ desc_loop' = NoLoop
         /\ s \in Sections(Entries(Kinds)) /\ s.data_length = cur.data_length
         /\ s.payload = [cur.payload EXCEPT ![desc_loop.pos].n = loopLen(desc_loop.len)]
         /\ cur.data_length # 0 /\ descriptors' = descriptors
         /\ \/ \E t : /\ TsStored(s, t) /\ WriteSecReturn(FALSE, t, sec_bytes, D_BIT)
                      /\ state' = "MALLOC_SEC"
            \/ /\ cur' = s /\ state' = "WRITE_SEC" /\ OnlyCur /\ loops' = loops
               /\ run'.op_state = "GET_XPORT_STREAM"
  <1>1. At("WRITE_XPORT_STREAM") /\ Still /\ length' = length /\ descriptors' = descriptors
    BY DEF XportStreamFull, XportStreamDone, Still
  <1>2. /\ DriverInv(Entries(Kinds), D_BIT) /\ ExtInv /\ state = "WRITE_SEC"
        /\ run.op_state = "WRITE_XPORT_STREAM" /\ run \in RunSet(Len(descriptors), Len(items))
        /\ i \in DOMAIN items /\ cur.data_length # 0 /\ loops \in LoopsSet
        /\ Len(items) \in Nat /\ Len(descriptors) \in Nat
        /\ cur \in Sections(Entries(Kinds)) /\ Whole(cur)
    BY <1>1, StreamFacts, BaseFacts
  <1>3. /\ s \in Sections(Entries(Kinds)) /\ s.size = cur.size /\ s.crc = cur.crc
        /\ s.data_length = cur.data_length /\ s.section_number = cur.section_number
        /\ s.payload = [cur.payload EXCEPT ![desc_loop.pos].n = loopLen(desc_loop.len)]
        /\ Whole(s)
    BY <1>2, LoopStored
  <1>4. CASE XportStreamFull
    <2>1. /\ ExtInv' /\ OnlyRun(i) /\ desc_loop' = NoLoop
          /\ items[i].run.op_state = "GET_DESC"
          /\ items'[i].run =
               [op_state |-> "WRITE_HEAD", d |-> items[i].run.d_iter,
                d_iter |-> Iter(items[i].run.d_iter + 1, Len(items[i].descriptors))]
      <3>1. ItemGetDescFull(i)
        BY <1>4 DEF XportStreamFull
      <3> QED
        BY <1>1, <1>2, <3>1, ItemFullStep
    <2>2. ExtInv' /\ Len(items') = Len(items)
      BY <2>1 DEF OnlyRun
    <2>3. PICK l, n, o : l = loops.ts_loop_len_pos /\ n = loops.ts_loop_len /\ o = "WRITE_HEAD"
      OBVIOUS
    <2>4. run' = [run EXCEPT !.op_state = o] /\ Leave(FALSE, s, l, n)
      BY <1>4, <2>3 DEF XportStreamFull
    <2>5. run' \in RunSet(Len(descriptors), Len(items)) /\ run'.op_state \in HeadStates
      <3>1. o \in RunStates /\ o \in HeadStates
        BY <2>3 DEF RunStates, HeadStates
      <3> QED
        BY <1>2, <2>4, <3>1, StateRun
    <2>6. PICK done \in BOOLEAN : done = FALSE
      OBVIOUS
    <2>7. PICK t : t = overwrite(s, l, loopLen(n))
      OBVIOUS
    <2>8. /\ BaseInv' /\ state' = (IF done THEN "END_TABLE" ELSE "MALLOC_SEC")
          /\ t \in Sections(Entries(Kinds)) /\ Whole(t) /\ t.data_length = s.data_length
          /\ t.payload = [s.payload EXCEPT ![l].n = loopLen(n)]
          /\ WriteSecReturn(done, t, sec_bytes, D_BIT)
      <3>1. l \in Nat /\ n \in ui16
        BY <1>2, <2>3, LoopsFields
      <3>2. s \in Sections(Entries(Kinds)) /\ Whole(s)
        BY <1>3
      <3>3. Leave(done, s, l, n)
        BY <2>4, <2>6
      <3>4. BaseInv /\ state = "WRITE_SEC" /\ Still
        BY <1>1, <1>2
      <3> QED
        <4>1. LeftWith(done, s, l, n, t)
          BY ONLY <2>2, <2>5, <2>7, <3>1, <3>2, <3>3, <3>4, done \in BOOLEAN, LeaveBase
        <4> QED
          BY ONLY <4>1 DEF LeftWith
    <2>9. TsStored(s, t)
      BY <1>3, <2>3, <2>8 DEF TsStored
    <2>10. state' = "MALLOC_SEC" /\ WriteSecReturn(FALSE, t, sec_bytes, D_BIT)
      BY ONLY <2>6, <2>8
    <2>11. items'[i].run.op_state \in {"INIT", "WRITE_HEAD"}
      BY ONLY <2>1
    <2> QED
      BY <1>1, <1>2, <1>3, <2>1, <2>8, <2>9, <2>10, <2>11
  <1>5. CASE XportStreamDone
    <2>1. /\ ExtInv' /\ OnlyRun(i) /\ desc_loop' = NoLoop
          /\ items[i].run.op_state = "GET_DESC" /\ items'[i].run = ItemContext
      <3>1. ItemGetDescEnd(i)
        BY <1>5 DEF XportStreamDone
      <3> QED
        BY <1>1, <1>2, <3>1, ItemEndStep
    <2>2. Len(items') = Len(items)
      BY <2>1 DEF OnlyRun
    <2>3. PICK o : o = "GET_XPORT_STREAM"
      OBVIOUS
    <2>4. /\ run' = [run EXCEPT !.op_state = o]
          /\ WriteSecContinue(s, sec_bytes) /\ loops' = loops
      BY <1>5, <2>3 DEF XportStreamDone
    <2>5. run' \in RunSet(Len(descriptors), Len(items)) /\ run'.op_state = o
      <3>1. o \in RunStates
        BY <2>3 DEF RunStates, StreamStates
      <3> QED
        BY <1>2, <2>4, <3>1, StateRun
    <2>6. PICK q \in Nat : q = 0
      OBVIOUS
    <2>7. /\ DriverRest(Entries(Kinds), D_BIT)' /\ Owed(q)' /\ cur' = s
          /\ state' = "WRITE_SEC" /\ OnlyCur
      <3>1. DriverRest(Entries(Kinds), D_BIT) /\ Owed(q)
        <4>1. run.op_state \in StreamStates
          BY <1>2 DEF StreamStates
        <4> QED
          BY <1>2, <2>6, <4>1, BaseFacts DEF Counted
      <3>2. UNCHANGED << attributes, length >> /\ state = "WRITE_SEC"
        BY <1>1, <1>2 DEF Still
      <3>3. /\ s \in Sections(Entries(Kinds)) /\ s.size = cur.size /\ s.crc = cur.crc
            /\ s.data_length = cur.data_length /\ s.section_number = cur.section_number
        BY <1>3
      <3> QED
        BY ONLY <2>4, <3>1, <3>2, <3>3, q \in Nat, SameBytes
    <2>8. Control' /\ Counted'
      BY <2>3, <2>5, <2>6, <2>7 DEF Control, Counted, HeadStates, NetStates, StreamStates
    <2>9. BaseInv'
      BY <1>1, <1>2, <2>1, <2>2, <2>4, <2>5, <2>7, <2>8, WriteBase
    <2>10. items'[i].run.op_state = "INIT"
      BY <2>1 DEF ItemContext
    <2> QED
      BY <1>1, <1>2, <1>3, <2>1, <2>3, <2>4, <2>5, <2>7, <2>9, <2>10
  <1> QED
    BY <1>4, <1>5
-----------------------------------------------------------------------------
(* The driver's steps, and the application's.                              *)

\* Between sections the table is as the last one left it.
LEMMA QuietBase ==
  ASSUME BaseInv, state \in {"IDLE", "MALLOC_SEC", "END_TABLE"}, length' = length,
         UNCHANGED << extVars, descriptors, run, loops >>,
         DriverInv(Entries(Kinds), D_BIT)',
         state' = "WRITE_SEC" => cur'.data_length = 0
  PROVE  BaseInv'
  <1>1. /\ NitTypes /\ Control /\ ExtInv /\ length \in Int
        /\ UNCHANGED << items, desc_loop >>
    BY BaseFacts DEF extVars
  <1>2. run.op_state \in HeadStates
    BY <1>1 DEF Control
  <1>3. ExtInv'
    BY <1>1, LongerExt
  <1>4. NitTypes'
    BY <1>1 DEF NitTypes
  <1>5. Control'
    BY <1>2 DEF Control, HeadStates
  <1>6. DriverRest(Entries(Kinds), D_BIT)' /\ Counted'
    BY <1>2, NothingOwedNext
  <1> QED
    BY <1>3, <1>4, <1>5, <1>6 DEF BaseInv

\* The driver's own steps, and the application's that add nothing.
LEMMA DriverBase ==
  ASSUME BaseInv, Configure \/ buildSections \/ MallocSec \/ EndTable,
         UNCHANGED << extVars, descriptors, run, loops >>
  PROVE  BaseInv'
  <1>1. ASSUME state \in {"IDLE", "MALLOC_SEC", "END_TABLE"} PROVE DriverInv(Entries(Kinds), D_BIT)
    BY <1>1, NothingOwed
  <1>2. CASE Configure
    <2>1. state = "IDLE" /\ state' = state /\ length' = length
      BY <1>2, ConfigureFrame
    <2>2. DriverInv(Entries(Kinds), D_BIT)'
      BY <1>1, <1>2, <2>1, ConfigureDriver
    <2> QED
      BY <2>1, <2>2, QuietBase
  <1>3. CASE buildSections
    <2>1. state = "IDLE" /\ state' = "MALLOC_SEC" /\ length' = length
      BY <1>3 DEF buildSections
    <2>2. DriverInv(Entries(Kinds), D_BIT)'
      BY <1>1, <1>3, <2>1, BuildSectionsDriver
    <2> QED
      BY <2>1, <2>2, QuietBase
  <1>4. CASE MallocSec
    <2>1. state = "MALLOC_SEC" /\ length' = length
      BY <1>4 DEF MallocSec
    <2>2. DriverInv(Entries(Kinds), D_BIT)'
      BY <1>1, <1>4, <2>1, MallocSecDriver
    <2>3. cur'.data_length = 0
      BY <1>1, <1>4, <2>1, MallocSecFrame DEF DriverInv
    <2> QED
      BY <2>1, <2>2, <2>3, QuietBase
  <1>5. CASE EndTable
    <2>1. state = "END_TABLE" /\ length' = length /\ state' # "WRITE_SEC"
      BY <1>5 DEF EndTable, Abort
    <2>2. DriverInv(Entries(Kinds), D_BIT)'
      BY <1>1, <1>5, <2>1, EndTableDriver
    <2> QED
      BY <2>1, <2>2, QuietBase
  <1> QED
    BY <1>2, <1>3, <1>4, <1>5

\* Whatever the application adds, it adds between builds.
LEMMA AddBase ==
  ASSUME BaseInv, state = "IDLE", UNCHANGED << attributes, driver >>,
         DriverInv(Entries(Kinds), D_BIT)', ExtInv', NitTypes', run' = run
  PROVE  BaseInv'
  <1>1. Control
    BY BaseFacts
  <1>2. UNCHANGED << state, stream >>
    BY DEF driver
  <1>3. Control'
    BY <1>1, <1>2 DEF Control
  <1>4. DriverRest(Entries(Kinds), D_BIT)' /\ Counted'
    BY <1>2, NothingOwedNext
  <1> QED
    BY <1>3, <1>4 DEF BaseInv

\* A context stays one when the lists it points into grow.
LEMMA LongerRun ==
  ASSUME NEW nn \in Nat, NEW ni \in Nat, NEW mn \in Nat, NEW mi \in Nat,
         nn <= mn, ni <= mi, NEW r \in RunSet(nn, ni)
  PROVE  r \in RunSet(mn, mi)
  <1>1. 0 .. nn \subseteq 0 .. mn /\ 0 .. ni \subseteq 0 .. mi
    OBVIOUS
  <1>2. 1 .. nn + 1 \subseteq 1 .. mn + 1 /\ 1 .. ni + 1 \subseteq 1 .. mi + 1
    OBVIOUS
  <1> QED
    BY ONLY <1>1, <1>2, r \in RunSet(nn, ni) DEF RunSet

\* A network descriptor or a mark is added.
LEMMA AddDescBase ==
  ASSUME BaseInv, NEW nd \in NetDescLens, addDesc(nd)
  PROVE  /\ BaseInv' /\ UNCHANGED << driver, items, desc_loop >> /\ state = "IDLE"
  <1>1. /\ NitTypes /\ ExtInv /\ length \in ui16 /\ length \in Int
        /\ Len(items) \in Nat /\ Len(descriptors) \in Nat
        /\ run \in RunSet(Len(descriptors), Len(items))
    BY BaseFacts
  <1>2. PICK v : v = netDescLength(nd)
    OBVIOUS
  <1>3. /\ state = "IDLE" /\ incLength(v) /\ descriptors' = Append(descriptors, nd)
        /\ UNCHANGED << attributes, driver, extVars, run, loops >>
        /\ UNCHANGED << items, desc_loop >>
    BY <1>2 DEF addDesc, extVars
  <1>4. nd \in NetDesc /\ v \in Nat /\ 2 <= v
    <2>1. nd \in NetDesc
      BY NitBatArgs
    <2>2. v \in DescLength /\ v \in Nat
      BY <1>2, <2>1, NetLength
    <2> QED
      BY <2>1, <2>2, DescLengths
  <1>5. length' \in ui16 /\ length' = length + v /\ length' \in Int
    BY <1>1, <1>3, <1>4, IncLength, Ui16 DEF incLength
  <1>6. DriverInv(Entries(Kinds), D_BIT)' /\ ExtInv'
    <2>1. length <= length'
      BY <1>1, <1>4, <1>5
    <2>2. DriverInv(Entries(Kinds), D_BIT)
      BY <1>3, NothingOwed
    <2> QED
      BY <1>1, <1>3, <1>5, <2>1, <2>2, AddDriver, LongerExt
  <1>7. PICK n \in Nat : n = Len(descriptors)
    BY <1>1
  <1>8. descriptors' \in Seq(NetDesc) /\ Len(descriptors') = n + 1
    BY <1>1, <1>3, <1>4, <1>7 DEF NitTypes
  <1>9. run' \in RunSet(Len(descriptors'), Len(items'))
    <2>1. n <= n + 1 /\ n + 1 \in Nat /\ Len(items) <= Len(items)
      BY <1>1
    <2> QED
      BY <1>1, <1>3, <1>7, <1>8, <2>1, LongerRun
  <1>10. 2 * Len(descriptors') <= length'
    <2>1. 2 * n <= length
      BY <1>1, <1>7 DEF NitTypes
    <2> QED
      BY <1>1, <1>4, <1>5, <1>8, <2>1
  <1>11. NitTypes'
    BY <1>1, <1>3, <1>8, <1>9, <1>10 DEF NitTypes
  <1> QED
    BY <1>3, <1>6, <1>11, AddBase

\* A transport stream is added.
LEMMA AddXportStreamBase ==
  ASSUME BaseInv, NEW xs_id \in ItemIds, addXportStream(xs_id)
  PROVE  BaseInv' /\ items'[Len(items) + 1].run = ItemContext /\ Len(items') = Len(items) + 1
         /\ (\A j \in DOMAIN items : items'[j] = items[j]) /\ desc_loop' = desc_loop
         /\ state = "IDLE" /\ UNCHANGED << driver, descriptors >>
  <1>1. /\ NitTypes /\ ExtInv /\ length \in ui16 /\ length \in Int
        /\ Len(items) \in Nat /\ DOMAIN items = 1 .. Len(items) /\ Len(descriptors) \in Nat
        /\ run \in RunSet(Len(descriptors), Len(items))
    BY BaseFacts
  <1>2. PICK list, b : list = DOMAIN items /\ b = BASE_LEN
    OBVIOUS
  <1>3. xs_id \in ui16 /\ b \in Nat
    BY <1>2, ExtPsiTableArgs DEF BASE_LEN
  <1>4. /\ addItem(list, xs_id, xs_id, b) /\ state = "IDLE"
        /\ UNCHANGED << descriptors, run, loops >>
    BY <1>2 DEF addXportStream, addItem
  <1>5. /\ DriverInv(Entries(Kinds), D_BIT)' /\ ExtInv'
        /\ UNCHANGED << attributes, driver, desc_loop >> /\ state = "IDLE"
        /\ Len(items') = Len(items) + 1
        /\ \A j \in DOMAIN items : items'[j] = items[j]
        /\ items'[Len(items) + 1]
             = [id |-> xs_id, descriptors |-> << >>, run |-> ItemContext]
    <2>1. DriverInv(Entries(Kinds), D_BIT)
      BY <1>4, NothingOwed
    <2> QED
      BY <1>1, <1>3, <1>4, <2>1, AddItemExt
  <1>6. PICK n \in Nat : n = Len(items)
    BY <1>1
  <1>7. run' \in RunSet(Len(descriptors'), Len(items'))
    <2>1. n <= n + 1 /\ n + 1 \in Nat /\ Len(descriptors) <= Len(descriptors)
      BY <1>1
    <2> QED
      BY <1>1, <1>4, <1>5, <1>6, <2>1, LongerRun
  <1>8. length <= length' /\ length' \in Int
    <2>1. length' \in Int
      BY <1>5, Ui16 DEF DriverInv, DriverTypes, PsiTypeOK
    <2> QED
      BY <1>1, <1>3, <1>4, <2>1 DEF addItem, incLength
  <1>9. NitTypes'
    <2>1. 2 * Len(descriptors') <= length'
      BY <1>1, <1>4, <1>8 DEF NitTypes
    <2> QED
      BY <1>1, <1>4, <1>7, <2>1 DEF NitTypes
  <1>10. BaseInv'
    BY <1>4, <1>5, <1>9, AddBase
  <1> QED
    BY <1>4, <1>5, <1>10

\* A descriptor is added to a transport stream.
LEMMA AddXportStreamDescBase ==
  ASSUME BaseInv, addXportStreamDesc
  PROVE  BaseInv' /\ Len(items') = Len(items)
         /\ (\A j \in DOMAIN items : items'[j].run = items[j].run) /\ desc_loop' = desc_loop
         /\ state = "IDLE" /\ UNCHANGED << driver, descriptors >>
  <1>1. NitTypes /\ ExtInv /\ length \in ui16 /\ length \in Int /\ Len(descriptors) \in Nat
    BY BaseFacts
  <1>2. PICK d_len \in DescLens : \/ addLastItemDesc(DOMAIN items, d_len)
                                  \/ \E xs_id \in ItemIds :
                                       addItemDesc(DOMAIN items, xs_id, d_len)
    BY DEF addXportStreamDesc
  <1>3. /\ d_len \in DescLength /\ state = "IDLE" /\ UNCHANGED << descriptors, run, loops >>
    BY <1>2, ExtPsiTableArgs DEF addXportStreamDesc, addLastItemDesc, addItemDesc
  <1>4. PICK list : list = DOMAIN items
    OBVIOUS
  <1>5. \E i \in DOMAIN items : addDescTo(i, d_len)
    <2>1. list \subseteq DOMAIN items
      BY <1>4
    <2>2. CASE addLastItemDesc(list, d_len)
      <3>1. Max(list) \in list
        BY <1>1, <2>1, <2>2, Found DEF addLastItemDesc
      <3> QED
        BY <2>1, <2>2, <3>1 DEF addLastItemDesc
    <2>3. CASE \E xs_id \in ItemIds : addItemDesc(list, xs_id, d_len)
      <3>1. PICK xs_id \in ItemIds : addItemDesc(list, xs_id, d_len)
        BY <2>3
      <3>2. find(list, xs_id) \in list
        BY <1>1, <2>1, <3>1, Found DEF addItemDesc
      <3> QED
        BY <2>1, <3>1, <3>2 DEF addItemDesc
    <2> QED
      BY <1>2, <1>4, <2>2, <2>3
  <1>6. PICK i \in DOMAIN items : addDescTo(i, d_len)
    BY <1>5
  <1>7. /\ DriverInv(Entries(Kinds), D_BIT)' /\ ExtInv'
        /\ UNCHANGED << attributes, driver, desc_loop >>
        /\ Len(items') = Len(items)
        /\ \A j \in DOMAIN items : /\ items'[j].id = items[j].id
                                   /\ items'[j].run = items[j].run
    <2>1. DriverInv(Entries(Kinds), D_BIT)
      BY <1>3, NothingOwed
    <2> QED
      BY <1>1, <1>3, <1>6, <2>1, AddDescExt
  <1>8. NitTypes'
    <2>1. length' = length + d_len /\ d_len \in Nat
      BY <1>3, <1>6, DescLengths DEF addDescTo, incLength
    <2>2. 2 * Len(descriptors') <= length'
      BY <1>1, <1>3, <2>1 DEF NitTypes
    <2> QED
      BY <1>1, <1>3, <1>7, <2>2 DEF NitTypes
  <1>9. BaseInv'
    BY <1>3, <1>7, <1>8, AddBase
  <1> QED
    BY <1>3, <1>7, <1>9

-----------------------------------------------------------------------------
\* The invariant holds of a new table.
LEMMA InitBase == Init => BaseInv
  <1> SUFFICES ASSUME Init PROVE BaseInv
    OBVIOUS
  <1>1. /\ items = << >> /\ desc_loop = NoLoop /\ descriptors = << >>
        /\ run = Context /\ loops = NoLoops
    BY DEF Init, ExtInit
  <1>2. state = "IDLE" /\ length = BASE_LENGTH
    BY DEF Init, PsiInit
  <1>3. DriverRest(Entries(Kinds), D_BIT)
    <2>1. PICK b, m : b = BASE_LENGTH /\ m = MAX_SEC_LEN
      OBVIOUS
    <2>2. b \in ui16 /\ m \in ui16 /\ PsiInit(b, m)
      BY <2>1, NitNumbers DEF Init
    <2>3. DriverInv(Entries(Kinds), D_BIT)
      BY <2>2, InitDriver
    <2> QED
      BY <2>3, DriverIsRest
  <1>4. ExtInv
    BY <1>1, Ui16 DEF ExtInv, NoLoop
  <1>5. NitTypes
    <2>1. Len(descriptors) = 0 /\ Len(items) = 0
      BY <1>1
    <2>2. run \in RunSet(Len(descriptors), Len(items))
      BY <1>1, <2>1 DEF RunSet, Context, RunStates, HeadStates
    <2>3. loops \in LoopsSet
      BY <1>1, Ui16 DEF NoLoops, LoopsSet
    <2>4. 2 * Len(descriptors) <= length
      BY <1>2, <2>1 DEF BASE_LENGTH
    <2>5. descriptors \in Seq(NetDesc)
      BY <1>1
    <2> QED
      BY <2>2, <2>3, <2>4, <2>5 DEF NitTypes
  <1>6. Control /\ Counted
    BY <1>1, <1>2 DEF Control, Counted, Context, HeadStates
  <1> QED
    BY <1>3, <1>4, <1>5, <1>6 DEF BaseInv

\* A step of the transport stream that is written, by what it does.
LEMMA StreamWriteSteps ==
  ASSUME XportStreamWrites, NEW i, i = run.ts
  PROVE  /\ At("WRITE_XPORT_STREAM") /\ run' = run /\ Still
         /\ \/ /\ ItemWriteHead(i, BASE_LEN, 0)
               /\ loops' = [loops EXCEPT !.ts_loop_len = (loops.ts_loop_len + BASE_LEN) % 65536]
            \/ ItemGetDescFits(i) /\ loops' = loops
            \/ /\ ItemWriteDesc(i)
               /\ loops' = [loops EXCEPT !.ts_loop_len
                                           = (loops.ts_loop_len + ItemDescLen(i)) % 65536]
  BY DEF XportStreamWrites, Still

\* Every step keeps it.
LEMMA StepBase == BaseInv /\ [Next]_vars => BaseInv'
  <1> SUFFICES ASSUME BaseInv, [Next]_vars PROVE BaseInv'
    OBVIOUS
  <1>1. CASE Api
    BY <1>1, DriverBase, AddDescBase, AddXportStreamBase, AddXportStreamDescBase DEF Api
  <1>2. CASE (MallocSec \/ EndTable) /\ UNCHANGED << extVars, descriptors, run, loops >>
    BY <1>2, DriverBase
  <1>3. CASE writeSection
    <2>1. CASE WriteHead
      BY <2>1, WriteHeadBase
    <2>2. CASE GetNetDescEndsSection
      <3>1. PICK s, n : s = NetLoopPatched /\ n = Len(cur.payload) + 1
        OBVIOUS
      <3> QED
        BY <2>2, <3>1, GetNetDescLeaves
    <2>3. CASE GetNetDescFits \/ NoMoreNetDescs
      BY <2>3, GetNetDescStays
    <2>4. CASE WriteNetDesc
      BY <2>4, WriteNetDescBase
    <2>5. CASE WriteXportLoopLen
      BY <2>5, WriteXportLoopLenBase
    <2>6. CASE GetXportStreamFull \/ GetXportStreamFits \/ GetXportStreamEnd
      BY <2>6, GetStreamBase
    <2>7. CASE XportStreamWrites
      BY <2>7, StreamWriteSteps, StreamHeadBase, StreamFetchBase, StreamDescBase
    <2>8. CASE XportStreamFull \/ XportStreamDone
      BY <2>8, StreamReturnsBase
    <2> QED
      BY <1>3, <2>1, <2>2, <2>3, <2>4, <2>5, <2>6, <2>7, <2>8 DEF writeSection
  <1>4. CASE UNCHANGED vars
    <2>1. /\ UNCHANGED << attributes, length, items, desc_loop, descriptors, run, loops >>
          /\ UNCHANGED << driver, state, sec_bytes, cur_sec >> /\ cur' = cur
      BY <1>4 DEF vars, psiVars, extVars, driver, cur
    <2>2. /\ NitTypes /\ DriverRest(Entries(Kinds), D_BIT) /\ ExtInv /\ Control /\ Counted
          /\ length \in ui16 /\ length \in Int
      BY BaseFacts
    <2>3. DriverRest(Entries(Kinds), D_BIT)'
      BY <2>1, <2>2, SameRest
    <2>4. ExtInv'
      BY <2>1, <2>2, LongerExt
    <2>5. NitTypes' /\ Control' /\ Counted'
      BY <2>1, <2>2 DEF NitTypes, Control, Counted, Owed
    <2> QED
      BY <2>3, <2>4, <2>5 DEF BaseInv
  <1> QED
    BY <1>1, <1>2, <1>3, <1>4 DEF Next, BuildStep

\* The first invariant holds of every state of the NIT and the BAT.
THEOREM BaseInvariance == Spec => []BaseInv
  BY InitBase, StepBase, PTL DEF Spec
-----------------------------------------------------------------------------
\* Every variable of the table keeps its type, whatever the splitting does: no byte
\* count, loop length word or section number leaves its width, and the positions
\* pending in both loops stay in their lists.
THEOREM TypeCorrect == Spec => []TypeOK
  <1>1. BaseInv => TypeOK
    <2> SUFFICES ASSUME BaseInv PROVE TypeOK
      OBVIOUS
    <2>1. PsiTypeOK /\ stream \in Seq(Sections(Entries(Kinds)))
      BY BaseFacts DEF DriverRest, DriverTypes
    <2>2. ExtTypeOK
      BY BaseFacts, ExtInvTypes
    <2>3. NitTypes
      BY BaseFacts
    <2>4. RunSet(Len(descriptors), Len(items)) =
            [op_state : {"INIT", "WRITE_HEAD", "GET_NET_DESC", "WRITE_NET_DESC",
                         "WRITE_XPORT_LOOP_LEN", "GET_XPORT_STREAM", "WRITE_XPORT_STREAM"},
             nd_done : BOOLEAN,
             nd : 0 .. Len(descriptors), nd_iter : 1 .. Len(descriptors) + 1,
             ts : 0 .. Len(items), ts_iter : 1 .. Len(items) + 1]
      <3>1. RunStates = {"INIT", "WRITE_HEAD", "GET_NET_DESC", "WRITE_NET_DESC",
                         "WRITE_XPORT_LOOP_LEN", "GET_XPORT_STREAM", "WRITE_XPORT_STREAM"}
        BY DEF RunStates, HeadStates, NetStates, StreamStates
      <3> QED
        BY <3>1 DEF RunSet
    <2> QED
      BY <2>1, <2>2, <2>3, <2>4 DEF TypeOK, NitTypes, LoopsSet, Kinds
  <1> QED
    BY <1>1, BaseInvariance, PTL

\* The CRC of every section in the stream is that of its present bytes: all the
\* loop lengths are put in a section before it has its CRC, never after.
THEOREM CrcStaysCurrent == Spec => []CrcCurrent
  <1>1. BaseInv => CrcCurrent
    BY RestCrc DEF BaseInv
  <1> QED
    BY <1>1, BaseInvariance, PTL

\* For every section length up to 4096 bytes, a finished section says where it
\* ends, though the bytes counted run ahead of those written.
THEOREM SectionLengthCorrect == Spec => []SectionLengthCoversSection
  <1>1. BaseInv => SectionLengthCoversSection
    BY NitNumbers, RestSectionLength DEF BaseInv
  <1> QED
    BY <1>1, BaseInvariance, PTL

\* The sections of a build are numbered from 0 and know the last, when there are
\* no more of them than an 8-bit number counts.
THEOREM NumbersCorrect == MaxSections <= 256 => (Spec => []SectionsNumbered)
  <1> SUFFICES ASSUME MaxSections <= 256 PROVE Spec => []SectionsNumbered
    OBVIOUS
  <1>1. BaseInv => SectionsNumbered
    BY RestNumbers DEF BaseInv
  <1> QED
    BY <1>1, BaseInvariance, PTL
-----------------------------------------------------------------------------
(* What is written in the sections.                                        *)

Writing == state = "WRITE_SEC" /\ run.op_state = "WRITE_XPORT_STREAM"

\* At most one transport stream has its header in the section and its loop not
\* closed: the one the table writes.  Its loop is the one desc_loop is of.
OpenInv ==
  state # "ABORTED" =>
    /\ run.op_state \in HeadStates => loops = NoLoops
    /\ \A i \in DOMAIN items : Open(i) => Writing /\ i = run.ts
    /\ IF Writing /\ Open(run.ts)
       THEN /\ desc_loop.pos # 0
            /\ cur.payload[desc_loop.pos].owner = run.ts
            /\ cur.payload[Len(cur.payload)].owner = run.ts
       ELSE desc_loop = NoLoop

\* The bytes of the network descriptors in p, whose lengths are P.
NetLen(P, e) == OwnLen("net_desc", P, e)
NetIn(P, p) == OwnIn("net_desc", P, p)

\* What writeSection knows of the first loop while it writes it.
NetLoop(len) == [nd_loop_len_pos |-> 1, net_desc_len |-> len,
                 ts_loop_len_pos |-> 0, ts_loop_len |-> 0]

\* A payload of n bytes, of network descriptors only; c is what is known of the loops.
Nets(P, p, n, c) ==
  /\ 1 <= Len(p) /\ p[1].kind = "net_loop_len"
  /\ \A k \in 2 .. Len(p) : p[k].kind = "net_desc" /\ p[k].n \in DOMAIN P
  /\ n = HEADER_LEN + 2 + NetIn(P, p)
  /\ c = NetLoop(NetIn(P, p))

\* The section itself says their length.
NetsSaid(P, p) == p[1].n = loopLen(NetIn(P, p))

\* A payload of n bytes with the length of the second loop at t, then transport
\* streams, the loop at l open.
Streams(D, F, P, p, n, t, l, len) ==
  /\ 2 <= t /\ t <= Len(p) /\ p[1].kind = "net_loop_len" /\ p[t].kind = "ts_loop_len"
  /\ \A k \in 2 .. t - 1 : p[k].kind = "net_desc" /\ p[k].n \in DOMAIN P
  /\ NetsSaid(P, p)
  /\ Loops(D, F, p, t + 1, l, len)
  /\ n = HEADER_LEN + 4 + NetIn(P, p) + BytesIn(D, p, BASE_LEN)

\* One that says the length of the second loop too.
Filled(D, F, P, p, n) ==
  \E t \in Nat : /\ Streams(D, F, P, p, n, t, 0, 0)
                 /\ p[t].n = loopLen(BytesIn(D, p, BASE_LEN))

Complete(D, F, P) ==
  {w \in Seq(Entries(Kinds)) \X Nat : Filled(D, F, P, w[1], w[2])}

\* What a section that is being written says.
CurSays(D, F, P) ==
  /\ run.op_state \in NetStates => Nets(P, cur.payload, cur.data_length, loops)
  /\ run.op_state = "WRITE_XPORT_LOOP_LEN" => NetsSaid(P, cur.payload)
  /\ run.op_state \in StreamStates =>
       /\ Streams(D, F, P, cur.payload, cur.data_length, loops.ts_loop_len_pos,
                  desc_loop.pos, desc_loop.len)
       /\ loops.ts_loop_len = BytesIn(D, cur.payload, BASE_LEN)

PayloadInv(D, F, P) ==
  /\ SectionsIn(Complete(D, F, P))
  /\ state = "WRITE_SEC" => CurSays(D, F, P)

LoadInv ==
  OpenInv /\ \E D, F, P : D = Descriptors /\ F = LoopWords /\ P = NetLens /\ PayloadInv(D, F, P)
-----------------------------------------------------------------------------
(* Network descriptors.                                                    *)

\* A descriptor that no item has.
LEMMA NetEntry ==
  ASSUME NEW kind \in {"net_loop_len", "net_desc", "ts_loop_len"}, NEW n \in ui16,
         NEW x, x = Entry(kind, 0, n), NEW D, NEW b
  PROVE  x \in Entries(Kinds) /\ x.kind = kind /\ x.n = n /\ LenIn(D, x, b) = 0
  BY DEF Entry, Entries, Kinds, LenIn

\* The lengths of what is in a payload without second loop.
LEMMA NetsFacts ==
  ASSUME NEW P \in Seq(DescLength), NEW p \in Seq(Entries(Kinds)),
         NEW n, NEW c, Nets(P, p, n, c)
  PROVE  /\ \A k \in 1 .. Len(p) : NetLen(P, p[k]) \in Nat
         /\ NetIn(P, p) \in Nat
         /\ \A k \in 1 .. Len(p) : p[k].kind \notin ItemKinds
  <1>1. /\ p[1].kind = "net_loop_len"
        /\ \A k \in 2 .. Len(p) : p[k].kind = "net_desc" /\ p[k].n \in DOMAIN P
    BY DEF Nets
  <1>2. ASSUME NEW k \in 1 .. Len(p)
        PROVE  NetLen(P, p[k]) \in Nat /\ p[k].kind \notin ItemKinds
    <2>1. CASE k = 1
      BY <1>1, <2>1 DEF NetLen, OwnLen, ItemKinds
    <2>2. CASE k # 1
      <3>1. k \in 2 .. Len(p)
        BY <2>2
      <3>2. p[k].kind = "net_desc" /\ p[k].n \in DOMAIN P
        BY <1>1, <3>1
      <3> QED
        BY <3>2, OwnLenType DEF NetLen, ItemKinds
    <2> QED
      BY <2>1, <2>2
  <1>3. NetIn(P, p) \in Nat
    <2>1. PICK T : T = Entries(Kinds)
      OBVIOUS
    <2>2. p \in Seq(T)
      BY <2>1
    <2> QED
      BY ONLY <1>2, <2>2, OwnType DEF NetLen, NetIn
  <1> QED
    BY <1>2, <1>3

\* A section begun.
LEMMA NetsHead ==
  ASSUME NEW P, NEW x \in Entries(Kinds), x.kind = "net_loop_len", NEW p, p = Append(<< >>, x)
  PROVE  Nets(P, p, HEADER_LEN + 2, NetLoop(0))
  <1>1. PICK T, e : T = Entries(Kinds) /\ e = << >>
    OBVIOUS
  <1>2. e \in Seq(T) /\ Len(e) = 0 /\ DOMAIN e = {} /\ x \in T /\ p = Append(e, x)
    BY <1>1
  <1>3. p \in Seq(T) /\ Len(p) = 1 /\ p[1] = x
    BY <1>2
  <1>4. NetIn(P, p) = 0
    <2>1. NetIn(P, e) = 0
      <3>1. [k \in DOMAIN e |-> OwnLen("net_desc", P, e[k])] = << >>
        BY <1>2
      <3> QED
        BY <3>1, TotalAppend DEF NetIn, OwnIn
    <2>2. OwnLen("net_desc", P, x) = 0
      BY DEF OwnLen
    <2>3. \A k \in 1 .. Len(e) : OwnLen("net_desc", P, e[k]) \in Nat
      BY <1>2
    <2>4. p = Append(e, x) /\ e \in Seq(T) /\ x \in T /\ OwnLen("net_desc", P, x) \in Nat
      BY <1>2, <2>2
    <2>5. NetIn(P, p) = NetIn(P, e) + OwnLen("net_desc", P, x)
      BY ONLY <2>3, <2>4, OwnAppend DEF NetIn
    <2> QED
      BY <2>1, <2>2, <2>5
  <1>5. \A k \in 2 .. Len(p) : FALSE
    BY <1>3
  <1>6. HEADER_LEN + 2 = HEADER_LEN + 2 + NetIn(P, p)
    BY <1>4 DEF HEADER_LEN
  <1> QED
    BY <1>3, <1>4, <1>5, <1>6 DEF Nets

\* Descriptor d, of v bytes, makes q and z of payload p and its bytes n.
NetPut(p, n, d, v, q, z) ==
  /\ Entry("net_desc", 0, d) \in Entries(Kinds) /\ q = Append(p, Entry("net_desc", 0, d))
  /\ z = n + v /\ z < 65536

\* A network descriptor.
LEMMA NetsDesc ==
  ASSUME NEW P \in Seq(DescLength), NEW p \in Seq(Entries(Kinds)), NEW n, NEW c,
         Nets(P, p, n, c), NEW d \in DOMAIN P, NEW q, NEW z, NetPut(p, n, d, P[d], q, z),
         NEW y, y = [c EXCEPT !.net_desc_len = (c.net_desc_len + P[d]) % 65536]
  PROVE  Nets(P, q, z, y)
  <1>1. PICK x, T : x = Entry("net_desc", 0, d) /\ T = Entries(Kinds)
    OBVIOUS
  <1>2. /\ x \in T /\ q = Append(p, x) /\ x.kind = "net_desc" /\ x.n = d
        /\ z = n + P[d] /\ z < 65536
    BY <1>1 DEF NetPut, Entry
  <1>3. /\ 1 <= Len(p) /\ p[1].kind = "net_loop_len"
        /\ \A k \in 2 .. Len(p) : p[k].kind = "net_desc" /\ p[k].n \in DOMAIN P
    BY DEF Nets
  <1>4. n = HEADER_LEN + 2 + NetIn(P, p) /\ c = NetLoop(NetIn(P, p))
    BY DEF Nets
  <1>5. (\A k \in 1 .. Len(p) : NetLen(P, p[k]) \in Nat) /\ NetIn(P, p) \in Nat
    BY NetsFacts
  <1>6. PICK v, g : v = P[d] /\ g = NetIn(P, p)
    OBVIOUS
  <1>7. v \in Nat /\ g \in Nat /\ NetLen(P, x) = v
    <2>1. P[d] \in DescLength
      OBVIOUS
    <2> QED
      BY <1>2, <1>5, <1>6, <2>1, DescLengths DEF NetLen, OwnLen
  <1>8. p \in Seq(T) /\ q \in Seq(T)
    BY <1>1, <1>2
  <1>9. Len(q) = Len(p) + 1 /\ q[Len(p) + 1] = x /\ \A k \in 1 .. Len(p) : q[k] = p[k]
    BY <1>2, <1>8
  <1>10. NetIn(P, q) = g + v
    <2>1. q = Append(p, x) /\ x \in T /\ NetLen(P, x) \in Nat
      BY <1>2, <1>7
    <2>2. NetIn(P, q) = NetIn(P, p) + NetLen(P, x)
      BY ONLY <1>5, <1>8, <2>1, OwnAppend DEF NetIn, NetLen
    <2> QED
      BY ONLY <1>6, <1>7, <2>2
  <1>11. z = HEADER_LEN + 2 + NetIn(P, q) /\ (g + v) % 65536 = g + v
    <2>1. z = 8 + 2 + g + v /\ z < 65536
      BY <1>2, <1>4, <1>6, <1>7 DEF HEADER_LEN
    <2>2. z = 8 + 2 + (g + v) /\ (g + v) % 65536 = g + v
      BY ONLY <1>7, <2>1
    <2> QED
      BY <1>10, <2>2 DEF HEADER_LEN
  <1>12. y = NetLoop(NetIn(P, q))
    <2>1. c.net_desc_len = g
      BY <1>4, <1>6 DEF NetLoop, NoLoops
    <2>2. c = NetLoop(g)
      BY <1>4, <1>6
    <2>3. y = [c EXCEPT !.net_desc_len = g + v]
      BY <1>6, <1>11, <2>1
    <2>4. y = NetLoop(g + v)
      BY ONLY <2>2, <2>3 DEF NetLoop, NoLoops
    <2> QED
      BY <1>10, <2>4
  <1>13. PICK e \in Nat : e = Len(p)
    OBVIOUS
  <1>14. ASSUME NEW k \in 2 .. e + 1
         PROVE  q[k].kind = "net_desc" /\ q[k].n \in DOMAIN P
    <2>1. CASE k = e + 1
      BY <1>2, <1>9, <1>13, <2>1
    <2>2. CASE k # e + 1
      <3>1. k \in 2 .. e /\ k \in 1 .. e
        BY <2>2
      <3> QED
        BY ONLY <1>3, <1>9, <1>13, <3>1
    <2> QED
      BY <2>1, <2>2
  <1>15. 1 <= Len(q) /\ q[1].kind = "net_loop_len" /\ Len(q) = e + 1
    <2>1. 1 \in 1 .. Len(p)
      BY <1>3, <1>13
    <2> QED
      BY <1>3, <1>9, <1>13, <2>1
  <1>16. z = HEADER_LEN + 2 + NetIn(P, q)
    BY <1>11
  <1> QED
    BY ONLY <1>12, <1>14, <1>15, <1>16 DEF Nets

\* The length of their loop is stored: the section says it, and they may go on.
LEMMA NetsStored ==
  ASSUME NEW P \in Seq(DescLength), NEW p \in Seq(Entries(Kinds)), NEW n, NEW c,
         Nets(P, p, n, c), NEW q \in Seq(Entries(Kinds)),
         q = [p EXCEPT ![c.nd_loop_len_pos].n = loopLen(c.net_desc_len)]
  PROVE  Nets(P, q, n, c) /\ NetsSaid(P, q)
  <1>1. /\ 1 <= Len(p) /\ p[1].kind = "net_loop_len"
        /\ \A k \in 2 .. Len(p) : p[k].kind = "net_desc" /\ p[k].n \in DOMAIN P
    BY DEF Nets
  <1>2. n = HEADER_LEN + 2 + NetIn(P, p) /\ c = NetLoop(NetIn(P, p))
    BY DEF Nets
  <1>3. PICK w : w = loopLen(NetIn(P, p))
    OBVIOUS
  <1>4. q = [p EXCEPT ![1].n = w]
    <2>1. c.nd_loop_len_pos = 1 /\ c.net_desc_len = NetIn(P, p)
      BY <1>2 DEF NetLoop, NoLoops
    <2> QED
      BY <1>3, <2>1
  <1>5. PICK e \in Nat : e = Len(p)
    OBVIOUS
  <1>6. /\ DOMAIN p = 1 .. e /\ DOMAIN q = 1 .. e /\ Len(q) = e
        /\ \A k \in 1 .. e : /\ q[k].kind = p[k].kind /\ q[k].owner = p[k].owner
                             /\ q[k].n = IF k = 1 THEN w ELSE p[k].n
    <2>1. DOMAIN p = 1 .. e
      BY <1>5
    <2>2. DOMAIN q = 1 .. e
      BY <1>4, <2>1
    <2>3. \A k \in DOMAIN p : /\ q[k].kind = p[k].kind /\ q[k].owner = p[k].owner
                              /\ q[k].n = IF k = 1 THEN w ELSE p[k].n
      BY ONLY p \in Seq(Entries(Kinds)), <1>4, PatchOne
    <2>4. Len(q) = e
      BY ONLY q \in Seq(Entries(Kinds)), e \in Nat, <2>2
    <2> QED
      BY <2>1, <2>2, <2>3, <2>4
  <1>7. ASSUME NEW k \in 1 .. e PROVE OwnLen("net_desc", P, q[k]) = OwnLen("net_desc", P, p[k])
    <2>1. CASE k = 1
      BY ONLY k \in 1 .. e, <1>1, <1>6, <2>1 DEF OwnLen
    <2>2. CASE k # 1
      BY ONLY k \in 1 .. e, <1>6, <2>2 DEF OwnLen
    <2> QED
      BY <2>1, <2>2
  <1>8. NetIn(P, q) = NetIn(P, p)
    BY ONLY <1>6, <1>7, OwnSame DEF NetIn
  <1>9. 1 <= e /\ 1 \in 1 .. e
    BY <1>1, <1>5
  <1>10. q[1].kind = "net_loop_len" /\ q[1].n = w
    BY ONLY <1>1, <1>6, <1>9
  <1>11. ASSUME NEW k \in 2 .. Len(q)
         PROVE  q[k].kind = "net_desc" /\ q[k].n \in DOMAIN P
    <2>1. k \in 1 .. e /\ k # 1 /\ k \in 2 .. Len(p)
      BY <1>5, <1>6
    <2>2. p[k].kind = "net_desc" /\ p[k].n \in DOMAIN P
      BY ONLY <1>1, <2>1
    <2> QED
      BY ONLY <1>6, <2>1, <2>2
  <1>12. Nets(P, q, n, c)
    BY ONLY <1>2, <1>6, <1>8, <1>9, <1>10, <1>11 DEF Nets
  <1> QED
    BY <1>3, <1>8, <1>10, <1>12 DEF NetsSaid
-----------------------------------------------------------------------------
(* Transport streams.                                                      *)

\* What Streams says, with the streams' first place s and the length b of a header.
StreamsOf(D, F, P, p, n, t, l, len, s, b) ==
  /\ s = t + 1 /\ b = BASE_LEN
  /\ 2 <= t /\ t <= Len(p) /\ p[1].kind = "net_loop_len" /\ p[t].kind = "ts_loop_len"
  /\ \A k \in 2 .. t - 1 : p[k].kind = "net_desc" /\ p[k].n \in DOMAIN P
  /\ NetsSaid(P, p)
  /\ 1 <= s /\ s <= Len(p) + 1 /\ Loops(D, F, p, s, l, len)
  /\ \A k \in 1 .. Len(p) : NetLen(P, p[k]) \in Nat
  /\ NetIn(P, p) \in Nat
  /\ n = HEADER_LEN + 4 + NetIn(P, p) + BytesIn(D, p, b)

LEMMA StreamsFacts ==
  ASSUME NEW D, NEW F, NEW P \in Seq(DescLength), NEW p \in Seq(Entries(Kinds)), NEW n,
         NEW t \in Nat, NEW l, NEW len, Streams(D, F, P, p, n, t, l, len)
  PROVE  \E s, b \in Nat : StreamsOf(D, F, P, p, n, t, l, len, s, b)
  <1>1. PICK s \in Nat, b \in Nat : s = t + 1 /\ b = BASE_LEN
    BY DEF BASE_LEN
  <1>2. /\ 2 <= t /\ t <= Len(p) /\ p[1].kind = "net_loop_len" /\ p[t].kind = "ts_loop_len"
        /\ \A k \in 2 .. t - 1 : p[k].kind = "net_desc" /\ p[k].n \in DOMAIN P
        /\ NetsSaid(P, p) /\ Loops(D, F, p, s, l, len)
        /\ n = HEADER_LEN + 4 + NetIn(P, p) + BytesIn(D, p, b)
    BY <1>1 DEF Streams
  <1>3. 1 <= s /\ s <= Len(p) + 1
    BY <1>1, <1>2
  <1>4. ASSUME NEW k \in 1 .. Len(p) PROVE NetLen(P, p[k]) \in Nat
    <2>1. CASE k \in 2 .. t - 1
      <3>1. p[k].kind = "net_desc" /\ p[k].n \in DOMAIN P
        BY <1>2, <2>1
      <3> QED
        BY <3>1, OwnLenType DEF NetLen
    <2>2. CASE k \in s .. Len(p)
      <3>1. p[k].kind \in ItemKinds
        BY <1>2, <2>2 DEF Loops, Placed
      <3> QED
        BY <3>1 DEF NetLen, OwnLen, ItemKinds
    <2>3. CASE k = 1 \/ k = t
      BY <1>2, <2>3 DEF NetLen, OwnLen
    <2>4. k \in 2 .. t - 1 \/ k \in s .. Len(p) \/ k = 1 \/ k = t
      BY <1>1
    <2> QED
      BY <2>1, <2>2, <2>3, <2>4
  <1>5. NetIn(P, p) \in Nat
    <2>1. PICK T : T = Entries(Kinds)
      OBVIOUS
    <2>2. p \in Seq(T)
      BY <2>1
    <2> QED
      BY ONLY <1>4, <2>2, OwnType DEF NetLen, NetIn
  <1> QED
    BY ONLY s \in Nat, b \in Nat, <1>1, <1>2, <1>3, <1>4, <1>5 DEF StreamsOf

\* Entries without bytes of items have none together.
LEMMA NothingIn ==
  ASSUME NEW D, NEW T, NEW p \in Seq(T), NEW b \in Nat, \A k \in 1 .. Len(p) : LenIn(D, p[k], b) = 0
  PROVE  BytesIn(D, p, b) = 0
  <1>1. PICK s : s = [k \in DOMAIN p |-> LenIn(D, p[k], b)]
    OBVIOUS
  <1>2. s \in Seq(Nat) /\ \A k \in 1 .. Len(s) : s[k] = 0
    BY <1>1
  <1>3. Total(s) = 0
    BY <1>2, TotalZero
  <1> QED
    BY <1>1, <1>3 DEF BytesIn

\* q is p with the second loop begun, at t.
NetsEnded(D, F, P, q, n, t) ==
  /\ Streams(D, F, P, q, n + 2, t, 0, 0) /\ t \in Nat
  /\ BytesIn(D, q, BASE_LEN) = 0 /\ Len(q) = t

\* The second loop's word ends the first loop.
LEMMA NetsEnd ==
  ASSUME NEW D, Descs(D), NEW F, NEW P \in Seq(DescLength), NEW p \in Seq(Entries(Kinds)),
         NEW n \in Nat, NEW c, Nets(P, p, n, c), NetsSaid(P, p),
         NEW q, q = Append(p, Entry("ts_loop_len", 0, 0)), NEW t, t = Len(p) + 1
  PROVE  NetsEnded(D, F, P, q, n, t)
  <1> SUFFICES /\ Streams(D, F, P, q, n + 2, t, 0, 0) /\ t \in Nat
               /\ BytesIn(D, q, BASE_LEN) = 0 /\ Len(q) = t
    BY DEF NetsEnded
  <1>1. PICK x, T, b : x = Entry("ts_loop_len", 0, 0) /\ T = Entries(Kinds) /\ b = BASE_LEN
    OBVIOUS
  <1>2. x \in T /\ x.kind = "ts_loop_len" /\ LenIn(D, x, b) = 0 /\ NetLen(P, x) = 0
    BY <1>1, Ui16, NetEntry DEF NetLen, OwnLen
  <1>3. p \in Seq(T) /\ q = Append(p, x) /\ b \in Nat
    BY <1>1 DEF BASE_LEN
  <1>4. /\ 1 <= Len(p) /\ p[1].kind = "net_loop_len"
        /\ \A k \in 2 .. Len(p) : p[k].kind = "net_desc" /\ p[k].n \in DOMAIN P
        /\ n = HEADER_LEN + 2 + NetIn(P, p)
    BY DEF Nets
  <1>5. /\ \A k \in 1 .. Len(p) : NetLen(P, p[k]) \in Nat
        /\ NetIn(P, p) \in Nat
        /\ \A k \in 1 .. Len(p) : p[k].kind \notin ItemKinds
    BY NetsFacts
  <1>6. PICK e \in Nat : e = Len(p)
    OBVIOUS
  <1>7. /\ Len(q) = e + 1 /\ q[e + 1] = x /\ \A k \in 1 .. e : q[k] = p[k]
        /\ q \in Seq(T) /\ t = e + 1
    BY <1>2, <1>3, <1>6
  <1>8. NetIn(P, q) = NetIn(P, p)
    <2>1. q = Append(p, x) /\ x \in T /\ NetLen(P, x) \in Nat
      BY <1>2, <1>3
    <2>2. NetIn(P, q) = NetIn(P, p) + NetLen(P, x)
      BY ONLY <1>3, <1>5, <2>1, OwnAppend DEF NetIn, NetLen
    <2> QED
      BY ONLY <1>2, <1>5, <2>2
  <1>9. \A k \in 1 .. Len(q) : q[k].kind \notin ItemKinds
    <2> SUFFICES ASSUME NEW k \in 1 .. e + 1 PROVE q[k].kind \notin ItemKinds
      BY <1>7
    <2>1. CASE k = e + 1
      BY <1>2, <1>7, <2>1 DEF ItemKinds
    <2>2. CASE k # e + 1
      <3>1. k \in 1 .. e
        BY <2>2
      <3> QED
        BY <1>5, <1>6, <1>7, <3>1
    <2> QED
      BY <2>1, <2>2
  <1>10. PICK s \in Nat : s = t + 1
    BY <1>7
  <1>11. Loops(D, F, q, s, 0, 0)
    <2>1. Len(q) < s
      BY <1>7, <1>10
    <2> QED
      BY ONLY s \in Nat, <1>7, <1>9, <2>1, LoopsNone
  <1>12. BytesIn(D, q, b) = 0
    <2>1. \A k \in 1 .. Len(q) : LenIn(D, q[k], b) = 0
      BY <1>9 DEF LenIn, ItemKinds
    <2>2. q \in Seq(T) /\ b \in Nat
      BY <1>3, <1>7
    <2> QED
      BY ONLY <2>1, <2>2, NothingIn
  <1>13. n + 2 = HEADER_LEN + 4 + NetIn(P, q) + BytesIn(D, q, b)
    BY <1>4, <1>5, <1>8, <1>12 DEF HEADER_LEN
  <1>14. NetsSaid(P, q) /\ q[1].kind = "net_loop_len"
    <2>1. 1 \in 1 .. e
      BY <1>4, <1>6
    <2>2. q[1] = p[1]
      BY <1>7, <2>1
    <2> QED
      BY <1>4, <1>8, <2>2 DEF NetsSaid
  <1>15. ASSUME NEW k \in 2 .. t - 1
         PROVE  q[k].kind = "net_desc" /\ q[k].n \in DOMAIN P
    <2>1. k \in 1 .. e /\ k \in 2 .. Len(p)
      BY <1>6, <1>7
    <2> QED
      BY <1>4, <1>7, <2>1
  <1>16. 2 <= t /\ t <= Len(q) /\ q[t].kind = "ts_loop_len" /\ t \in Nat /\ Len(q) = t
    BY <1>2, <1>4, <1>6, <1>7
  <1>17. Streams(D, F, P, q, n + 2, t, 0, 0)
    <2>1. Loops(D, F, q, t + 1, 0, 0) /\ n + 2 = HEADER_LEN + 4 + NetIn(P, q) + BytesIn(D, q, BASE_LEN)
      BY <1>1, <1>10, <1>11, <1>13
    <2> QED
      BY ONLY <1>14, <1>15, <1>16, <2>1 DEF Streams
  <1> QED
    BY <1>1, <1>12, <1>16, <1>17

\* What q has of the first loop when only entries of items follow what p has.
NetKept(P, p, q, t) ==
  /\ t <= Len(q) /\ NetIn(P, q) = NetIn(P, p) /\ NetsSaid(P, q)
  /\ q[1].kind = "net_loop_len" /\ q[t].kind = "ts_loop_len"
  /\ \A k \in 2 .. t - 1 : q[k].kind = "net_desc" /\ q[k].n \in DOMAIN P

\* One entry more.
LEMMA NetKeptMore ==
  ASSUME NEW P, NEW p \in Seq(Entries(Kinds)), NEW t \in Nat, 2 <= t, NetKept(P, p, p, t),
         \A k \in 1 .. Len(p) : NetLen(P, p[k]) \in Nat, NetIn(P, p) \in Nat,
         NEW x \in Entries(Kinds), x.kind \in ItemKinds, NEW q, q = Append(p, x)
  PROVE  /\ NetKept(P, p, q, t) /\ NetKept(P, q, q, t)
         /\ q \in Seq(Entries(Kinds)) /\ Len(q) = Len(p) + 1 /\ q[Len(p) + 1] = x
         /\ \A k \in 1 .. Len(p) : q[k] = p[k]
         /\ \A k \in 1 .. Len(q) : NetLen(P, q[k]) \in Nat
         /\ NetIn(P, q) \in Nat
  <1>1. PICK T, e : T = Entries(Kinds) /\ e = Len(p)
    OBVIOUS
  <1>2. p \in Seq(T) /\ x \in T /\ e \in Nat /\ NetLen(P, x) = 0
    BY <1>1 DEF NetLen, OwnLen, ItemKinds
  <1>3. /\ q \in Seq(T) /\ Len(q) = e + 1 /\ q[e + 1] = x
        /\ \A k \in 1 .. e : q[k] = p[k]
    BY <1>1, <1>2
  <1>4. NetIn(P, q) = NetIn(P, p)
    <2>1. \A k \in 1 .. Len(p) : OwnLen("net_desc", P, p[k]) \in Nat
      BY DEF NetLen
    <2>2. q = Append(p, x) /\ p \in Seq(T) /\ x \in T
      BY <1>2
    <2>3. OwnLen("net_desc", P, x) = 0
      BY <1>2 DEF NetLen
    <2>4. OwnIn("net_desc", P, q) = OwnIn("net_desc", P, p) + OwnLen("net_desc", P, x)
      BY ONLY <2>1, <2>2, <2>3, OwnAppend
    <2>5. NetIn(P, p) \in Nat
      OBVIOUS
    <2> QED
      BY ONLY <2>3, <2>4, <2>5 DEF NetIn
  <1>5. \A k \in 1 .. Len(q) : NetLen(P, q[k]) \in Nat
    <2> SUFFICES ASSUME NEW k \in 1 .. e + 1 PROVE NetLen(P, q[k]) \in Nat
      BY <1>3
    <2>1. CASE k = e + 1
      BY <1>2, <1>3, <2>1
    <2>2. CASE k # e + 1
      <3>1. k \in 1 .. e
        BY <1>2, <2>2
      <3> QED
        BY <1>1, <1>3, <3>1
    <2> QED
      BY <2>1, <2>2
  <1>6. /\ t <= e /\ NetsSaid(P, p) /\ p[1].kind = "net_loop_len" /\ p[t].kind = "ts_loop_len"
        /\ \A k \in 2 .. t - 1 : p[k].kind = "net_desc" /\ p[k].n \in DOMAIN P
    BY <1>1 DEF NetKept
  <1>7. q[1] = p[1] /\ q[t] = p[t] /\ \A k \in 2 .. t - 1 : q[k] = p[k]
    BY <1>2, <1>3, <1>6
  <1>8. t <= Len(q) /\ NetsSaid(P, q) /\ q[1].kind = "net_loop_len" /\ q[t].kind = "ts_loop_len"
    <2>1. t <= Len(q)
      BY ONLY t \in Nat, <1>2, <1>3, <1>6
    <2> QED
      BY ONLY <1>4, <1>6, <1>7, <2>1 DEF NetsSaid
  <1>9. \A k \in 2 .. t - 1 : q[k].kind = "net_desc" /\ q[k].n \in DOMAIN P
    BY ONLY <1>6, <1>7
  <1>10. NetKept(P, p, q, t) /\ NetKept(P, q, q, t)
    BY ONLY <1>4, <1>8, <1>9 DEF NetKept
  <1>11. NetIn(P, q) \in Nat
    BY <1>4
  <1> QED
    BY ONLY <1>1, <1>3, <1>5, <1>10, <1>11

\* The header of stream i.
LEMMA StreamsHead ==
  ASSUME NEW D, Descs(D), NEW F, NEW P \in Seq(DescLength), NEW p \in Seq(Entries(Kinds)),
         NEW n \in Nat, NEW t \in Nat, Streams(D, F, P, p, n, t, 0, 0),
         NEW i \in DOMAIN D, NEW q, q = PutItem(p, i, 0)
  PROVE  /\ Streams(D, F, P, q, n + BASE_LEN, t, Len(p) + 2, 0)
         /\ Len(q) = Len(p) + 2 /\ q[Len(q)].owner = i
         /\ BytesIn(D, p, BASE_LEN) \in Nat
         /\ BytesIn(D, q, BASE_LEN) = BytesIn(D, p, BASE_LEN) + BASE_LEN
  <1>1. PICK l, len : l = 0 /\ len = 0
    OBVIOUS
  <1>2. Streams(D, F, P, p, n, t, l, len)
    BY <1>1
  <1>3. PICK s, b \in Nat : StreamsOf(D, F, P, p, n, t, l, len, s, b)
    BY ONLY P \in Seq(DescLength), p \in Seq(Entries(Kinds)), t \in Nat, <1>2, StreamsFacts
  <1>4. /\ s = t + 1 /\ b = BASE_LEN /\ 1 <= s /\ s <= Len(p) + 1 /\ Loops(D, F, p, s, l, len)
        /\ NetIn(P, p) \in Nat /\ \A k \in 1 .. Len(p) : NetLen(P, p[k]) \in Nat
    BY ONLY <1>3 DEF StreamsOf
  <1>5. n = HEADER_LEN + 4 + NetIn(P, p) + BytesIn(D, p, b)
    BY ONLY <1>3 DEF StreamsOf
  <1>6. 2 <= t /\ NetKept(P, p, p, t)
    BY ONLY <1>3 DEF StreamsOf, NetKept
  <1>7. HeadPut(D, F, p, q, s, i, b)
    <2>1. PICK K, w : K = Kinds /\ w = 0
      OBVIOUS
    <2>2. ItemKinds \subseteq K /\ p \in Seq(Entries(K)) /\ w \in ui16
      BY <2>1, NitNumbers, Ui16
    <2>3. Loops(D, F, p, s, 0, 0)
      BY ONLY <1>1, <1>4
    <2>4. 1 <= s /\ s <= Len(p) + 1
      BY ONLY <1>4
    <2>5. q = PutItem(p, i, w)
      BY <2>1
    <2> QED
      BY ONLY Descs(D), i \in DOMAIN D, s \in Nat, b \in Nat, <2>2, <2>3, <2>4, <2>5, ItemsHead
  <1>8. NetKept(P, p, q, t)
    <2>1. PICK x, y, r : /\ x = Entry("item", i, 0) /\ y = Entry("desc_loop_len", i, 0)
                         /\ r = Append(p, x)
      OBVIOUS
    <2>2. /\ x \in Entries(Kinds) /\ y \in Entries(Kinds)
          /\ x.kind \in ItemKinds /\ y.kind \in ItemKinds
      <3>1. i \in Nat /\ 0 \in ui16 /\ "item" \in ItemKinds /\ "desc_loop_len" \in ItemKinds
        BY Ui16, ItemNumber DEF ItemKinds
      <3> QED
        BY <2>1, <3>1, NitNumbers, ItemEntry
    <2>3. q = Append(r, y)
      BY <2>1 DEF PutItem
    <2>4. /\ NetKept(P, p, r, t) /\ NetKept(P, r, r, t) /\ r \in Seq(Entries(Kinds))
          /\ (\A k \in 1 .. Len(r) : NetLen(P, r[k]) \in Nat) /\ NetIn(P, r) \in Nat
      BY ONLY p \in Seq(Entries(Kinds)), t \in Nat, <1>4, <1>6, <2>1, <2>2, NetKeptMore
    <2>5. NetKept(P, r, q, t)
      BY ONLY t \in Nat, <1>6, <2>2, <2>3, <2>4, NetKeptMore
    <2>6. NetIn(P, r) = NetIn(P, p)
      BY <2>4 DEF NetKept
    <2> QED
      BY ONLY <2>5, <2>6 DEF NetKept
  <1>9. n + b = HEADER_LEN + 4 + NetIn(P, q) + BytesIn(D, q, b)
    <2>1. NetIn(P, q) = NetIn(P, p)
      BY <1>8 DEF NetKept
    <2>2. BytesIn(D, p, b) \in Nat /\ BytesIn(D, q, b) = BytesIn(D, p, b) + b
      BY <1>7 DEF HeadPut
    <2> QED
      BY ONLY b \in Nat, <1>4, <1>5, <2>1, <2>2 DEF HEADER_LEN
  <1>10. /\ Loops(D, F, q, t + 1, Len(p) + 2, 0)
         /\ Len(q) = Len(p) + 2 /\ q[Len(q)].owner = i
         /\ BytesIn(D, p, b) \in Nat /\ BytesIn(D, q, b) = BytesIn(D, p, b) + b
    BY <1>4, <1>7 DEF HeadPut
  <1>11. Streams(D, F, P, q, n + BASE_LEN, t, Len(p) + 2, 0)
    <2>1. b = BASE_LEN
      BY <1>4
    <2> QED
      BY ONLY <1>6, <1>8, <1>9, <1>10, <2>1 DEF Streams, NetKept
  <1> QED
    BY <1>4, <1>10, <1>11

\* The loop that is open is in the payload, and its bytes among the payload's.
LEMMA StreamsOpen ==
  ASSUME NEW D, Descs(D), NEW F, NEW P \in Seq(DescLength), NEW p \in Seq(Entries(Kinds)),
         NEW n \in Nat, NEW t \in Nat, NEW l \in Nat, l # 0, NEW len,
         Streams(D, F, P, p, n, t, l, len)
  PROVE  /\ l \in 1 .. Len(p) /\ len \in Nat /\ len <= BytesIn(D, p, BASE_LEN)
         /\ BytesIn(D, p, BASE_LEN) \in Nat /\ HEADER_LEN + 4 + BytesIn(D, p, BASE_LEN) <= n
  <1>1. PICK s, b \in Nat : StreamsOf(D, F, P, p, n, t, l, len, s, b)
    BY ONLY P \in Seq(DescLength), p \in Seq(Entries(Kinds)), t \in Nat,
            Streams(D, F, P, p, n, t, l, len), StreamsFacts
  <1>2. /\ 1 <= s /\ Loops(D, F, p, s, l, len) /\ NetIn(P, p) \in Nat /\ b = BASE_LEN
        /\ n = HEADER_LEN + 4 + NetIn(P, p) + BytesIn(D, p, b)
    BY ONLY <1>1 DEF StreamsOf
  <1>3. /\ l \in 1 .. Len(p) /\ len \in Nat
        /\ BytesIn(D, p, b) \in Nat /\ len <= BytesIn(D, p, b)
    BY <1>2, ItemsOpen
  <1> QED
    BY ONLY <1>2, <1>3 DEF HEADER_LEN

\* v bytes more for the transport streams make q of payload p.
Longer(D, F, P, p, q, z, t, l, len, v) ==
  Streams(D, F, P, q, z, t, l, len) /\ BytesIn(D, q, BASE_LEN) = BytesIn(D, p, BASE_LEN) + v

\* One of its descriptors.
LEMMA StreamsDesc ==
  ASSUME NEW D, Descs(D), NEW F, NEW P \in Seq(DescLength), NEW p \in Seq(Entries(Kinds)),
         NEW n \in Nat, NEW t \in Nat, NEW l \in Nat, l # 0, NEW len,
         Streams(D, F, P, p, n, t, l, len),
         NEW i \in DOMAIN D, NEW d \in DOMAIN D[i], d \in ui16, p[Len(p)].owner = i,
         NEW q, q = Append(p, Entry("desc", i, d)), NEW v, v = D[i][d],
         NEW z, z = n + v, NEW y, y = len + v
  PROVE  Longer(D, F, P, p, q, z, t, l, y, v)
  <1>1. PICK s, b \in Nat : StreamsOf(D, F, P, p, n, t, l, len, s, b)
    BY ONLY P \in Seq(DescLength), p \in Seq(Entries(Kinds)), t \in Nat,
            Streams(D, F, P, p, n, t, l, len), StreamsFacts
  <1>2. /\ s = t + 1 /\ b = BASE_LEN /\ 1 <= s /\ s <= Len(p) + 1 /\ Loops(D, F, p, s, l, len)
        /\ NetIn(P, p) \in Nat /\ \A k \in 1 .. Len(p) : NetLen(P, p[k]) \in Nat
    BY ONLY <1>1 DEF StreamsOf
  <1>3. n = HEADER_LEN + 4 + NetIn(P, p) + BytesIn(D, p, b)
    BY ONLY <1>1 DEF StreamsOf
  <1>4. 2 <= t /\ NetKept(P, p, p, t)
    BY ONLY <1>1 DEF StreamsOf, NetKept
  <1>5. DescPut(D, F, p, q, s, l, len, i, d, b)
    BY <1>2, NitNumbers, ItemsDesc
  <1>6. NetKept(P, p, q, t)
    <2>1. PICK x : x = Entry("desc", i, d)
      OBVIOUS
    <2>2. x \in Entries(Kinds) /\ x.kind \in ItemKinds /\ q = Append(p, x)
      <3>1. i \in Nat /\ "desc" \in ItemKinds
        BY ItemNumber DEF ItemKinds
      <3> QED
        BY <2>1, <3>1, NitNumbers, ItemEntry
    <2> QED
      BY ONLY p \in Seq(Entries(Kinds)), t \in Nat, <1>2, <1>4, <2>2, NetKeptMore
  <1>7. n + D[i][d] = HEADER_LEN + 4 + NetIn(P, q) + BytesIn(D, q, b)
    <2>1. NetIn(P, q) = NetIn(P, p)
      BY <1>6 DEF NetKept
    <2>2. /\ BytesIn(D, p, b) \in Nat /\ D[i][d] \in Nat
          /\ BytesIn(D, q, b) = BytesIn(D, p, b) + D[i][d]
      BY <1>5 DEF DescPut
    <2> QED
      BY ONLY <1>2, <1>3, <2>1, <2>2 DEF HEADER_LEN
  <1>8. /\ Loops(D, F, q, t + 1, l, len + D[i][d])
        /\ BytesIn(D, q, b) = BytesIn(D, p, b) + D[i][d]
    BY <1>2, <1>5 DEF DescPut
  <1>9. Streams(D, F, P, q, n + D[i][d], t, l, len + D[i][d])
    <2>1. b = BASE_LEN
      BY <1>2
    <2> QED
      BY ONLY <1>4, <1>6, <1>7, <1>8, <2>1 DEF Streams, NetKept
  <1> QED
    BY <1>2, <1>8, <1>9 DEF Longer

\* A word of the payload is patched that is not of the first loop.
LEMMA NetKeptPatch ==
  ASSUME NEW P, NEW p, NEW q, NEW e \in Nat, Len(p) = e, Len(q) = e,
         DOMAIN p = 1 .. e, DOMAIN q = 1 .. e,
         NEW t \in Nat, 2 <= t, NetKept(P, p, p, t),
         NEW l \in Nat, t <= l, l <= e, p[l].kind # "net_desc",
         \A k \in 1 .. e : q[k].kind = p[k].kind /\ (k # l => q[k].n = p[k].n)
  PROVE  NetKept(P, p, q, t)
  <1>1. ASSUME NEW k \in 1 .. e PROVE OwnLen("net_desc", P, q[k]) = OwnLen("net_desc", P, p[k])
    <2>1. CASE k = l
      BY <2>1 DEF OwnLen
    <2>2. CASE k # l
      BY <2>2 DEF OwnLen
    <2> QED
      BY <2>1, <2>2
  <1>2. NetIn(P, q) = NetIn(P, p)
    BY <1>1, OwnSame DEF NetIn
  <1>3. /\ t <= e /\ NetsSaid(P, p) /\ p[1].kind = "net_loop_len" /\ p[t].kind = "ts_loop_len"
        /\ \A k \in 2 .. t - 1 : p[k].kind = "net_desc" /\ p[k].n \in DOMAIN P
    BY DEF NetKept
  <1>4. \A k \in 1 .. t - 1 : q[k].kind = p[k].kind /\ q[k].n = p[k].n
    <2> SUFFICES ASSUME NEW k \in 1 .. t - 1 PROVE q[k].kind = p[k].kind /\ q[k].n = p[k].n
      OBVIOUS
    <2>1. k \in 1 .. e /\ k # l
      BY <1>3
    <2> QED
      BY <2>1
  <1>5. 1 \in 1 .. t - 1 /\ t \in 1 .. e
    BY <1>3
  <1>6. q[1].kind = "net_loop_len" /\ q[1].n = p[1].n /\ q[t].kind = "ts_loop_len"
    BY <1>3, <1>4, <1>5
  <1>7. ASSUME NEW k \in 2 .. t - 1 PROVE q[k].kind = "net_desc" /\ q[k].n \in DOMAIN P
    <2>1. k \in 1 .. t - 1
      OBVIOUS
    <2> QED
      BY ONLY <1>3, <1>4, <2>1, k \in 2 .. t - 1
  <1>8. NetsSaid(P, q)
    BY ONLY <1>2, <1>3, <1>6 DEF NetsSaid
  <1>9. t <= Len(q)
    BY <1>3
  <1> QED
    BY ONLY <1>2, <1>6, <1>7, <1>8, <1>9 DEF NetKept

\* q is payload p with its loop closed.
Shut(D, F, P, p, q, n, t) ==
  Streams(D, F, P, q, n, t, 0, 0) /\ BytesIn(D, q, BASE_LEN) = BytesIn(D, p, BASE_LEN)

\* The loop closed: its word is of all its bytes.
LEMMA StreamsPatch ==
  ASSUME NEW D, Descs(D), NEW F, NEW P \in Seq(DescLength), NEW p \in Seq(Entries(Kinds)),
         NEW n, NEW t \in Nat, NEW l \in Nat, l # 0, NEW len \in Nat,
         Streams(D, F, P, p, n, t, l, len), NEW w, w = F[p[l].owner][len],
         NEW q \in Seq(Entries(Kinds)), q = [p EXCEPT ![l].n = w]
  PROVE  Shut(D, F, P, p, q, n, t)
  <1>1. PICK s, b \in Nat : StreamsOf(D, F, P, p, n, t, l, len, s, b)
    BY ONLY P \in Seq(DescLength), p \in Seq(Entries(Kinds)), t \in Nat,
            Streams(D, F, P, p, n, t, l, len), StreamsFacts
  <1>2. /\ s = t + 1 /\ b = BASE_LEN /\ 1 <= s /\ s <= Len(p) + 1 /\ Loops(D, F, p, s, l, len)
        /\ n = HEADER_LEN + 4 + NetIn(P, p) + BytesIn(D, p, b)
    BY ONLY <1>1 DEF StreamsOf
  <1>3. 2 <= t /\ NetKept(P, p, p, t)
    BY ONLY <1>1 DEF StreamsOf, NetKept
  <1>4. WordPut(D, F, p, q, s, l, b)
    BY <1>2, ItemsPatch
  <1>5. l \in s .. Len(p) /\ p[l].kind = "desc_loop_len"
    BY ONLY <1>2, l \in Nat, l # 0 DEF Loops
  <1>6. t <= l /\ l <= Len(p) /\ p[l].kind # "net_desc"
    BY <1>2, <1>5
  <1>7. NetKept(P, p, q, t)
    <2>1. PICK e \in Nat : e = Len(p)
      OBVIOUS
    <2>2. /\ Len(p) = e /\ Len(q) = e /\ DOMAIN p = 1 .. e /\ DOMAIN q = 1 .. e /\ l <= e
          /\ \A k \in 1 .. e : q[k].kind = p[k].kind /\ (k # l => q[k].n = p[k].n)
      BY <1>4, <1>6, <2>1 DEF WordPut
    <2> QED
      BY ONLY t \in Nat, l \in Nat, <1>3, <1>6, <2>1, <2>2, NetKeptPatch
  <1>8. Loops(D, F, q, t + 1, 0, 0) /\ BytesIn(D, q, b) = BytesIn(D, p, b)
    BY <1>2, <1>4 DEF WordPut
  <1>9. Streams(D, F, P, q, n, t, 0, 0)
    <2>1. n = HEADER_LEN + 4 + NetIn(P, q) + BytesIn(D, q, BASE_LEN)
      BY ONLY <1>2, <1>7, <1>8 DEF NetKept
    <2> QED
      BY ONLY <1>3, <1>7, <1>8, <2>1 DEF Streams, NetKept
  <1> QED
    BY <1>2, <1>8, <1>9 DEF Shut

\* The second loop's length is stored.
LEMMA StreamsStored ==
  ASSUME NEW D, Descs(D), NEW F, NEW P \in Seq(DescLength), NEW p \in Seq(Entries(Kinds)),
         NEW n, NEW t \in Nat, Streams(D, F, P, p, n, t, 0, 0),
         NEW w, w = loopLen(BytesIn(D, p, BASE_LEN)),
         NEW q \in Seq(Entries(Kinds)), q = [p EXCEPT ![t].n = w]
  PROVE  Filled(D, F, P, q, n)
  <1>1. PICK l, len : l = 0 /\ len = 0
    OBVIOUS
  <1>2. Streams(D, F, P, p, n, t, l, len)
    BY <1>1
  <1>3. PICK s, b \in Nat : StreamsOf(D, F, P, p, n, t, l, len, s, b)
    BY ONLY P \in Seq(DescLength), p \in Seq(Entries(Kinds)), t \in Nat, <1>2, StreamsFacts
  <1>4. /\ s = t + 1 /\ b = BASE_LEN /\ 1 <= s /\ s <= Len(p) + 1 /\ Loops(D, F, p, s, l, len)
        /\ n = HEADER_LEN + 4 + NetIn(P, p) + BytesIn(D, p, b)
    BY ONLY <1>3 DEF StreamsOf
  <1>5. 2 <= t /\ t <= Len(p) /\ p[t].kind = "ts_loop_len" /\ NetKept(P, p, p, t)
    BY ONLY <1>3 DEF StreamsOf, NetKept
  <1>6. PICK e \in Nat : e = Len(p)
    OBVIOUS
  <1>7. /\ DOMAIN p = 1 .. e /\ DOMAIN q = 1 .. e /\ Len(p) = e /\ Len(q) = e
        /\ \A k \in 1 .. e : /\ q[k].kind = p[k].kind /\ q[k].owner = p[k].owner
                             /\ q[k].n = IF k = t THEN w ELSE p[k].n
    <2>1. \A k \in DOMAIN p : /\ q[k].kind = p[k].kind /\ q[k].owner = p[k].owner
                              /\ q[k].n = IF k = t THEN w ELSE p[k].n
      BY ONLY p \in Seq(Entries(Kinds)), q = [p EXCEPT ![t].n = w], PatchOne
    <2>2. DOMAIN p = 1 .. e /\ DOMAIN q = 1 .. e
      BY <1>6
    <2>3. Len(q) = e
      BY ONLY q \in Seq(Entries(Kinds)), e \in Nat, <2>2
    <2> QED
      BY ONLY <1>6, <2>1, <2>2, <2>3
  <1>8. NetKept(P, p, q, t)
    <2>1. 2 <= t /\ t <= t /\ t <= e /\ p[t].kind # "net_desc" /\ NetKept(P, p, p, t)
      BY <1>5, <1>6
    <2>2. \A k \in 1 .. e : q[k].kind = p[k].kind /\ (k # t => q[k].n = p[k].n)
      BY ONLY <1>7
    <2> QED
      BY ONLY t \in Nat, e \in Nat, <1>7, <2>1, <2>2, NetKeptPatch
  <1>9. BytesIn(D, q, b) = BytesIn(D, p, b)
    <2>1. ASSUME NEW k \in 1 .. e PROVE LenIn(D, q[k], b) = LenIn(D, p[k], b)
      <3>1. CASE k = t
        BY ONLY k \in 1 .. e, <1>5, <1>7, <3>1 DEF LenIn
      <3>2. CASE k # t
        BY ONLY k \in 1 .. e, <1>7, <3>2 DEF LenIn
      <3> QED
        BY <3>1, <3>2
    <2> QED
      BY ONLY <1>7, <2>1, BytesInSame
  <1>10. Loops(D, F, q, s, 0, 0)
    <2>1. Loops(D, F, p, s, 0, 0)
      BY <1>1, <1>4
    <2>2. t < s /\ 1 <= s
      BY <1>4
    <2>3. /\ Len(p) = e /\ Len(q) = e
          /\ \A k \in 1 .. e : /\ q[k].kind = p[k].kind /\ q[k].owner = p[k].owner
                               /\ k # t => q[k].n = p[k].n
      BY ONLY <1>7
    <2> QED
      BY ONLY s \in Nat, t \in Nat, e \in Nat, <2>1, <2>2, <2>3, LoopsBefore
  <1>11. Streams(D, F, P, q, n, t, 0, 0)
    <2>1. Loops(D, F, q, t + 1, 0, 0)
      BY <1>4, <1>10
    <2>2. n = HEADER_LEN + 4 + NetIn(P, q) + BytesIn(D, q, BASE_LEN)
      BY ONLY <1>4, <1>8, <1>9 DEF NetKept
    <2> QED
      BY ONLY <1>5, <1>8, <2>1, <2>2 DEF Streams, NetKept
  <1>12. q[t].n = loopLen(BytesIn(D, q, BASE_LEN))
    <2>1. t \in 1 .. e
      BY <1>5, <1>6
    <2>2. q[t].n = w
      BY <1>7, <2>1
    <2> QED
      BY <1>4, <1>9, <2>2
  <1> QED
    BY <1>11, <1>12 DEF Filled
-----------------------------------------------------------------------------
(* What keeps LoadInv.                                                     *)

\* The parts of it.
LEMMA LoadFacts ==
  ASSUME BaseInv, LoadInv, NEW D, NEW F, NEW P, D = Descriptors, F = LoopWords, P = NetLens
  PROVE  /\ OpenInv /\ PayloadInv(D, F, P) /\ P \in Seq(DescLength)
         /\ Descs(D) /\ DOMAIN D = DOMAIN items
         /\ \A i \in DOMAIN items : /\ D[i] = items[i].descriptors
                                    /\ \A n \in ui16 : F[i][n] = loopLen(n)
  <1>1. ExtInv /\ NitTypes
    BY BaseFacts
  <1>2. Descs(D) /\ DOMAIN D = DOMAIN items /\ \A i \in DOMAIN items : D[i] = items[i].descriptors
    BY <1>1, DescriptorsType
  <1>3. \A i \in DOMAIN items : \A n \in ui16 : F[i][n] = loopLen(n)
    BY DEF LoopWords
  <1>4. OpenInv /\ PayloadInv(D, F, P)
    BY DEF LoadInv
  <1>5. P \in Seq(DescLength)
    BY <1>1, NetLensType DEF NitTypes
  <1> QED
    BY <1>1, <1>2, <1>3, <1>4, <1>5

\* No loop is open unless a stream is being written.
LEMMA NoneOpen ==
  ASSUME OpenInv, state # "ABORTED", ~Writing
  PROVE  (\A i \in DOMAIN items : ~Open(i)) /\ desc_loop = NoLoop
  BY DEF OpenInv

\* Then none need be in the next state.
LEMMA NoneOpenNext ==
  ASSUME BaseInv', \A i \in DOMAIN items' : ~Open(i)', desc_loop' = NoLoop,
         run'.op_state \in HeadStates => loops' = NoLoops
  PROVE  OpenInv'
  <1>1. ASSUME Writing' PROVE run'.ts \in DOMAIN items'
    <2>1. /\ run' \in RunSet(Len(descriptors'), Len(items')) /\ Control' /\ ExtInv'
          /\ Len(descriptors') \in Nat
      BY DEF BaseInv, NitTypes
    <2>2. /\ run'.ts # 0 /\ Len(items') \in Nat /\ DOMAIN items' = 1 .. Len(items')
      BY <1>1, <2>1 DEF Control, Writing, ExtInv
    <2>3. run'.ts \in 0 .. Len(items')
      BY <2>1, <2>2, RunFields
    <2> QED
      BY <2>2, <2>3
  <1> QED
    BY <1>1 DEF OpenInv

\* The process dies.
LEMMA AbortLoad ==
  ASSUME state' = "ABORTED"
  PROVE  LoadInv'
  <1>1. OpenInv'
    BY DEF OpenInv
  <1>2. PICK D, F, P : D = Descriptors' /\ F = LoopWords' /\ P = NetLens'
    OBVIOUS
  <1>3. PayloadInv(D, F, P)'
    BY DEF PayloadInv, SectionsIn
  <1> QED
    BY <1>1, <1>2, <1>3 DEF LoadInv

\* No section is being written.
LEMMA QuietLoad ==
  ASSUME NEW D, NEW F, NEW P, D = Descriptors', F = LoopWords', P = NetLens', BaseInv',
         \A i \in DOMAIN items' : ~Open(i)', desc_loop' = NoLoop, loops' = NoLoops,
         SectionsIn(Complete(D, F, P))', state' = "WRITE_SEC" => run'.op_state \in HeadStates
  PROVE  LoadInv'
  <1>1. \A o \in HeadStates : o \notin NetStates /\ o \notin StreamStates
                              /\ o # "WRITE_XPORT_LOOP_LEN"
    BY DEF HeadStates, NetStates, StreamStates
  <1>2. PayloadInv(D, F, P)'
    BY <1>1 DEF PayloadInv, CurSays
  <1> QED
    BY <1>2, NoneOpenNext DEF LoadInv

\* A section is left.
LEMMA ReturnLoad ==
  ASSUME BaseInv, BaseInv', state = "WRITE_SEC",
         NEW D, NEW F, NEW P, D = Descriptors', F = LoopWords', P = NetLens',
         \A i \in DOMAIN items' : ~Open(i)', desc_loop' = NoLoop, loops' = NoLoops,
         SectionsIn(Complete(D, F, P)), NEW s \in Sections(Entries(Kinds)),
         NEW done \in BOOLEAN, WriteSecReturn(done, s, sec_bytes, D_BIT),
         Filled(D, F, P, s.payload, s.data_length)
  PROVE  LoadInv'
  <1>1. PICK C : C = Complete(D, F, P)
    OBVIOUS
  <1>2. What(s) \in C
    <2>1. s.payload \in Seq(Entries(Kinds)) /\ s.data_length \in Nat
      BY SectionFieldTypes
    <2>2. PICK w : w = << s.payload, s.data_length >>
      OBVIOUS
    <2>3. w \in Seq(Entries(Kinds)) \X Nat /\ w[1] = s.payload /\ w[2] = s.data_length
      BY <2>1, <2>2
    <2> QED
      BY <1>1, <2>2, <2>3 DEF What, Complete
  <1>3. SectionsIn(C) /\ DriverRest(Entries(Kinds), D_BIT) /\ D_BIT \in {0, 1}
    BY <1>1, BaseFacts, NitNumbers
  <1>4. SectionsIn(C)' /\ state' = IF done THEN "END_TABLE" ELSE "MALLOC_SEC"
    BY <1>2, <1>3, SectionsInReturnRest
  <1>5. state' # "WRITE_SEC"
    BY <1>4
  <1> QED
    BY <1>1, <1>4, <1>5, QuietLoad

\* The section goes on.
LEMMA ContinueLoad ==
  ASSUME BaseInv, state = "WRITE_SEC", state' = "WRITE_SEC", OnlyCur, OpenInv',
         NEW D, NEW F, NEW P, D = Descriptors', F = LoopWords', P = NetLens',
         SectionsIn(Complete(D, F, P)), CurSays(D, F, P)'
  PROVE  LoadInv'
  <1>1. PICK C : C = Complete(D, F, P)
    OBVIOUS
  <1>2. SectionsIn(C)'
    BY <1>1, BaseFacts, SectionsInContinueRest
  <1>3. PayloadInv(D, F, P)'
    BY <1>1, <1>2 DEF PayloadInv
  <1> QED
    BY <1>3 DEF LoadInv

\* What a step starts from, with what the lists say.
LEMMA LoadParts ==
  ASSUME BaseInv, LoadInv
  PROVE  \E D, F, P : /\ D = Descriptors /\ F = LoopWords /\ P = NetLens
                      /\ Descs(D) /\ P \in Seq(DescLength)
                      /\ SectionsIn(Complete(D, F, P))
                      /\ state = "WRITE_SEC" => CurSays(D, F, P)
  <1>1. PICK D, F, P : D = Descriptors /\ F = LoopWords /\ P = NetLens
    OBVIOUS
  <1>2. PayloadInv(D, F, P) /\ P \in Seq(DescLength) /\ Descs(D)
    BY <1>1, LoadFacts
  <1>3. /\ SectionsIn(Complete(D, F, P))
        /\ state = "WRITE_SEC" => CurSays(D, F, P)
    BY <1>2 DEF PayloadInv
  <1> QED
    BY <1>1, <1>2, <1>3
-----------------------------------------------------------------------------
(* The table's own states.                                                 *)

\* What a state of the network descriptors' loop starts from, and keeps.
LEMMA NetLoad ==
  ASSUME BaseInv, LoadInv, state = "WRITE_SEC", run.op_state # "WRITE_XPORT_STREAM",
         UNCHANGED << descriptors, items, desc_loop >>
  PROVE  \E D, F, P : /\ D = Descriptors /\ F = LoopWords /\ P = NetLens
                      /\ D = Descriptors' /\ F = LoopWords' /\ P = NetLens'
                      /\ Descs(D) /\ P \in Seq(DescLength)
                      /\ SectionsIn(Complete(D, F, P)) /\ CurSays(D, F, P)
                      /\ desc_loop = NoLoop /\ desc_loop' = NoLoop
                      /\ \A i \in DOMAIN items' : ~Open(i)'
  <1>1. PICK D, F, P : /\ D = Descriptors /\ F = LoopWords /\ P = NetLens
                       /\ Descs(D) /\ P \in Seq(DescLength)
                       /\ SectionsIn(Complete(D, F, P)) /\ CurSays(D, F, P)
    BY LoadParts
  <1>2. (\A i \in DOMAIN items : ~Open(i)) /\ desc_loop = NoLoop
    BY NoneOpen DEF LoadInv, Writing
  <1>3. /\ D = Descriptors' /\ F = LoopWords' /\ P = NetLens'
        /\ (\A i \in DOMAIN items' : ~Open(i)') /\ desc_loop' = NoLoop
    BY <1>1, <1>2 DEF Descriptors, LoopWords, NetLens, Open
  <1> QED
    BY <1>1, <1>2, <1>3

\* The header of a section.
LEMMA WriteHeadLoad ==
  ASSUME BaseInv, LoadInv, WriteHead
  PROVE  LoadInv'
  <1>1. CASE state' = "ABORTED"
    BY <1>1, AbortLoad
  <1>2. CASE state' # "ABORTED"
    <2>1. PICK x : x = Entry("net_loop_len", 0, loop_length)
      OBVIOUS
    <2>2. /\ BaseInv' /\ UNCHANGED << descriptors, items, desc_loop >>
          /\ state' = "WRITE_SEC" /\ OnlyCur /\ loop_length \in ui16
          /\ cur'.payload = Append(<< >>, x) /\ cur'.data_length = HEADER_LEN + 2
          /\ loops' = [loops EXCEPT !.nd_loop_len_pos = 1]
          /\ run'.op_state \in {"GET_NET_DESC", "WRITE_NET_DESC"}
      BY <1>2, <2>1, WriteHeadBase
    <2>3. state = "WRITE_SEC" /\ run.op_state \in HeadStates
      BY DEF WriteHead, HeadStates
    <2>4. PICK D, F, P : /\ D = Descriptors' /\ F = LoopWords' /\ P = NetLens'
                         /\ SectionsIn(Complete(D, F, P)) /\ desc_loop' = NoLoop
                         /\ \A i \in DOMAIN items' : ~Open(i)'
      <3>1. run.op_state # "WRITE_XPORT_STREAM"
        BY <2>3 DEF HeadStates
      <3> QED
        BY <2>2, <2>3, <3>1, NetLoad
    <2>5. loops = NoLoops
      BY <2>3 DEF LoadInv, OpenInv
    <2>6. loops' = NetLoop(0)
      <3>1. [NoLoops EXCEPT !.nd_loop_len_pos = 1] = NetLoop(0)
        BY DEF NoLoops, NetLoop
      <3> QED
        BY ONLY <2>2, <2>5, <3>1
    <2>7. run'.op_state \notin HeadStates
      BY <2>2 DEF HeadStates
    <2>8. OpenInv'
      BY <2>2, <2>4, <2>7, NoneOpenNext
    <2>9. Nets(P, cur'.payload, HEADER_LEN + 2, NetLoop(0))
      <3>1. x \in Entries(Kinds) /\ x.kind = "net_loop_len"
        BY <2>1, <2>2, NetEntry
      <3> QED
        BY <2>2, <3>1, NetsHead
    <2>10. CurSays(D, F, P)'
      BY <2>2, <2>6, <2>9 DEF CurSays, NetStates, StreamStates
    <2> QED
      BY <2>2, <2>3, <2>4, <2>8, <2>10, ContinueLoad
  <1> QED
    BY <1>1, <1>2

\* The length of the network descriptors' loop is stored.
LEMMA NetStoredSays ==
  ASSUME BaseInv, state = "WRITE_SEC", run.op_state \in NetStates,
         NEW P \in Seq(DescLength), Nets(P, cur.payload, cur.data_length, loops),
         NEW s \in Sections(Entries(Kinds)),
         s.payload = [cur.payload EXCEPT ![loops.nd_loop_len_pos].n
                                           = loopLen(loops.net_desc_len)]
  PROVE  /\ Nets(P, s.payload, cur.data_length, loops) /\ NetsSaid(P, s.payload)
         /\ s.payload \in Seq(Entries(Kinds))
  <1>1. PICK p, q, n, c : p = cur.payload /\ q = s.payload /\ n = cur.data_length /\ c = loops
    OBVIOUS
  <1>2. p \in Seq(Entries(Kinds))
    BY <1>1, NetFacts
  <1>3. q \in Seq(Entries(Kinds))
    <2>1. s \in Sections(Entries(Kinds))
      OBVIOUS
    <2>2. s.payload \in Seq(Entries(Kinds))
      BY ONLY <2>1, SectionFieldTypes
    <2> QED
      BY ONLY <1>1, <2>2
  <1>4. q = [p EXCEPT ![c.nd_loop_len_pos].n = loopLen(c.net_desc_len)] /\ Nets(P, p, n, c)
    BY <1>1
  <1>5. Nets(P, q, n, c) /\ NetsSaid(P, q)
    BY ONLY P \in Seq(DescLength), <1>2, <1>3, <1>4, NetsStored
  <1> QED
    BY <1>1, <1>3, <1>5

\* The section goes on to the next network descriptor, or to the second loop.
LEMMA GetNetDescStaysLoad ==
  ASSUME BaseInv, LoadInv, GetNetDescFits \/ NoMoreNetDescs
  PROVE  LoadInv'
  <1>1. PICK s : s = NetLoopPatched
    OBVIOUS
  <1>2. /\ BaseInv' /\ state = "WRITE_SEC" /\ run.op_state = "GET_NET_DESC"
        /\ s \in Sections(Entries(Kinds)) /\ s.data_length = cur.data_length
        /\ s.payload = [cur.payload EXCEPT ![loops.nd_loop_len_pos].n
                                             = loopLen(loops.net_desc_len)]
        /\ UNCHANGED << descriptors, items, desc_loop, loops >>
        /\ cur' = s /\ state' = "WRITE_SEC" /\ OnlyCur
        /\ run'.op_state \in {"WRITE_NET_DESC", "WRITE_XPORT_LOOP_LEN"}
    BY <1>1, GetNetDescStays
  <1>3. PICK D, F, P : /\ D = Descriptors' /\ F = LoopWords' /\ P = NetLens'
                       /\ P \in Seq(DescLength)
                       /\ SectionsIn(Complete(D, F, P)) /\ CurSays(D, F, P)
                       /\ desc_loop' = NoLoop /\ \A i \in DOMAIN items' : ~Open(i)'
    BY <1>2, NetLoad
  <1>4. run.op_state \in NetStates
    BY <1>2 DEF NetStates
  <1>5. Nets(P, s.payload, cur.data_length, loops) /\ NetsSaid(P, s.payload)
    BY <1>2, <1>3, <1>4, NetStoredSays DEF CurSays
  <1>6. run'.op_state \notin HeadStates
    BY <1>2 DEF HeadStates
  <1>7. OpenInv'
    BY <1>2, <1>3, <1>6, NoneOpenNext
  <1>8. CurSays(D, F, P)'
    BY <1>2, <1>5 DEF CurSays, StreamStates
  <1> QED
    BY <1>2, <1>3, <1>7, <1>8, ContinueLoad

\* The section ends at a network descriptor.
LEMMA GetNetDescLeavesLoad ==
  ASSUME BaseInv, LoadInv, GetNetDescEndsSection
  PROVE  LoadInv'
  <1>1. PICK s, e : s = NetLoopPatched /\ e = Len(cur.payload) + 1
    OBVIOUS
  <1>2. /\ BaseInv' /\ state = "WRITE_SEC" /\ run.op_state = "GET_NET_DESC"
        /\ s \in Sections(Entries(Kinds)) /\ s.size = cur.size /\ s.crc = cur.crc
        /\ s.data_length = cur.data_length /\ s.section_number = cur.section_number
        /\ s.payload = [cur.payload EXCEPT ![loops.nd_loop_len_pos].n
                                             = loopLen(loops.net_desc_len)]
        /\ UNCHANGED << descriptors, items, desc_loop >>
        /\ \/ state' = "ABORTED"
           \/ state' = "MALLOC_SEC" /\ \E t : NoStreams(s, e, t)
    BY ONLY <1>1, BaseInv, GetNetDescEndsSection, GetNetDescLeaves
  <1>3. CASE state' = "ABORTED"
    BY <1>3, AbortLoad
  <1>4. CASE state' # "ABORTED"
    <2>1. PICK t \in Sections(Entries(Kinds)) :
            /\ t.data_length = cur.data_length + 2
            /\ t.payload = [Append(s.payload, Entry("ts_loop_len", 0, 0))
                              EXCEPT ![e].n = loopLen(0)]
            /\ WriteSecReturn(FALSE, t, sec_bytes, D_BIT)
      BY <1>2, <1>4 DEF NoStreams
    <2>2. loops' = NoLoops
      BY <1>4 DEF GetNetDescEndsSection, Leave, Abort
    <2>3. PICK D, F, P : /\ D = Descriptors' /\ F = LoopWords' /\ P = NetLens'
                         /\ P \in Seq(DescLength) /\ Descs(D)
                         /\ SectionsIn(Complete(D, F, P)) /\ CurSays(D, F, P)
                         /\ desc_loop' = NoLoop /\ \A i \in DOMAIN items' : ~Open(i)'
      BY <1>2, NetLoad
    <2>4. run.op_state \in NetStates
      BY <1>2 DEF NetStates
    <2>5. PICK p, q, r, n, c, x : /\ p = s.payload /\ q = Append(p, Entry("ts_loop_len", 0, 0))
                                  /\ r = t.payload /\ n = cur.data_length /\ c = loops
                                  /\ x = cur.payload
      OBVIOUS
    <2>6. Nets(P, p, n, c) /\ NetsSaid(P, p) /\ p \in Seq(Entries(Kinds))
      BY <1>2, <2>3, <2>4, <2>5, NetStoredSays DEF CurSays
    <2>7. n \in Nat /\ x \in Seq(Entries(Kinds))
      BY <1>2, <2>4, <2>5, NetFacts
    <2>8. e = Len(p) + 1
      <3>1. p = [x EXCEPT ![c.nd_loop_len_pos].n = loopLen(c.net_desc_len)]
        BY <1>2, <2>5
      <3>2. Len(p) = Len(x)
        BY ONLY <2>6, <2>7, <3>1
      <3> QED
        BY <1>1, <2>5, <3>2
    <2>9. /\ Streams(D, F, P, q, n + 2, e, 0, 0) /\ e \in Nat
          /\ BytesIn(D, q, BASE_LEN) = 0
      <3>1. Descs(D) /\ P \in Seq(DescLength)
        BY <2>3
      <3>2. q = Append(p, Entry("ts_loop_len", 0, 0)) /\ n \in Nat
        BY <2>5, <2>7
      <3> QED
        <4>1. NetsEnded(D, F, P, q, n, e)
          BY ONLY <3>1, <3>2, <2>6, <2>8, NetsEnd
        <4> QED
          BY ONLY <4>1 DEF NetsEnded
    <2>10. Filled(D, F, P, r, n + 2)
      <3>1. q \in Seq(Entries(Kinds))
        <4>1. Entry("ts_loop_len", 0, 0) \in Entries(Kinds)
          BY NetEntry, Ui16
        <4> QED
          BY ONLY <2>5, <2>6, <4>1
      <3>2. r \in Seq(Entries(Kinds))
        BY <2>5, SectionFieldTypes
      <3>3. PICK w : w = loopLen(0)
        OBVIOUS
      <3>4. r = [q EXCEPT ![e].n = w] /\ w = loopLen(BytesIn(D, q, BASE_LEN))
        BY <2>1, <2>5, <2>9, <3>3
      <3>5. PICK m : m = n + 2
        OBVIOUS
      <3>6. Streams(D, F, P, q, m, e, 0, 0)
        BY <2>9, <3>5
      <3>7. Filled(D, F, P, r, m)
        BY ONLY <2>3, <2>9, <3>1, <3>2, <3>4, <3>6, StreamsStored
      <3> QED
        BY <3>5, <3>7
    <2>11. PICK done \in BOOLEAN : done = FALSE
      OBVIOUS
    <2>12. /\ WriteSecReturn(done, t, sec_bytes, D_BIT)
           /\ Filled(D, F, P, t.payload, t.data_length)
      BY <2>1, <2>5, <2>10, <2>11
    <2> QED
      BY <1>2, <2>2, <2>3, <2>12, ReturnLoad
  <1> QED
    BY <1>3, <1>4

\* A network descriptor.
LEMMA WriteNetDescLoad ==
  ASSUME BaseInv, LoadInv, WriteNetDesc
  PROVE  LoadInv'
  <1>1. PICK d, v : d = run.nd /\ v = netDescLength(descriptors[d])
    OBVIOUS
  <1>2. /\ BaseInv' /\ state = "WRITE_SEC" /\ run.op_state = "WRITE_NET_DESC"
        /\ UNCHANGED << descriptors, items, desc_loop >>
        /\ d \in DOMAIN descriptors
        /\ \/ state' = "ABORTED"
           \/ /\ state' = "WRITE_SEC" /\ OnlyCur
              /\ cur'.payload = Append(cur.payload, Entry("net_desc", 0, d))
              /\ Entry("net_desc", 0, d) \in Entries(Kinds)
              /\ cur'.data_length = cur.data_length + v
              /\ loops' = [loops EXCEPT !.net_desc_len = (loops.net_desc_len + v) % 65536]
              /\ run'.op_state = "GET_NET_DESC"
    BY <1>1, WriteNetDescBase
  <1>3. CASE state' = "ABORTED"
    BY <1>3, AbortLoad
  <1>4. CASE state' # "ABORTED"
    <2>1. PICK D, F, P : /\ D = Descriptors' /\ F = LoopWords' /\ P = NetLens' /\ P = NetLens
                         /\ P \in Seq(DescLength)
                         /\ SectionsIn(Complete(D, F, P)) /\ CurSays(D, F, P)
                         /\ desc_loop' = NoLoop /\ \A i \in DOMAIN items' : ~Open(i)'
      BY <1>2, NetLoad
    <2>2. PICK p, n, c, q, z, y : /\ p = cur.payload /\ n = cur.data_length /\ c = loops
                                  /\ q = cur'.payload /\ z = cur'.data_length /\ y = loops'
      OBVIOUS
    <2>3. run.op_state \in NetStates /\ run'.op_state \notin HeadStates
      BY <1>2, <1>4 DEF NetStates, HeadStates
    <2>4. p \in Seq(Entries(Kinds)) /\ n \in Nat
      BY <1>2, <2>2, <2>3, NetFacts
    <2>5. z < 65536
      <3>1. DriverTypes(Entries(Kinds))'
        BY <1>2 DEF BaseInv, DriverRest
      <3> QED
        BY <1>2, <1>4, <2>2, <3>1, BaseFacts, CurWidthRest
    <2>6. d \in DOMAIN P /\ P[d] = v
      BY <1>1, <1>2, <2>1 DEF NetLens
    <2>7. Nets(P, p, n, c)
      BY <1>2, <2>1, <2>2, <2>3 DEF CurSays
    <2>8. NetPut(p, n, d, P[d], q, z)
      BY <1>2, <1>4, <2>2, <2>5, <2>6 DEF NetPut
    <2>9. y = [c EXCEPT !.net_desc_len = (c.net_desc_len + P[d]) % 65536]
      BY <1>2, <1>4, <2>2, <2>6
    <2>10. Nets(P, q, z, y)
      <3>1. P \in Seq(DescLength) /\ d \in DOMAIN P
        BY <2>1, <2>6
      <3> QED
        BY ONLY <3>1, <2>4, <2>7, <2>8, <2>9, NetsDesc
    <2>11. CurSays(D, F, P)'
      BY <1>2, <1>4, <2>2, <2>10 DEF CurSays, StreamStates
    <2>12. OpenInv'
      BY <1>2, <2>1, <2>3, NoneOpenNext
    <2> QED
      BY <1>2, <1>4, <2>1, <2>11, <2>12, ContinueLoad
  <1> QED
    BY <1>3, <1>4

\* The transport streams' loop is begun.
LEMMA WriteXportLoopLenLoad ==
  ASSUME BaseInv, LoadInv, WriteXportLoopLen
  PROVE  LoadInv'
  <1>1. /\ BaseInv' /\ state = "WRITE_SEC" /\ run.op_state = "WRITE_XPORT_LOOP_LEN"
        /\ UNCHANGED << descriptors, items, desc_loop >>
        /\ \/ state' = "ABORTED"
           \/ /\ state' = "WRITE_SEC" /\ OnlyCur
              /\ cur'.payload = Append(cur.payload, Entry("ts_loop_len", 0, 0))
              /\ cur'.data_length = cur.data_length + 2
              /\ loops' = [loops EXCEPT !.ts_loop_len_pos = Len(cur.payload) + 1]
              /\ run'.op_state \in StreamStates
    BY WriteXportLoopLenBase
  <1>2. CASE state' = "ABORTED"
    BY <1>2, AbortLoad
  <1>3. CASE state' # "ABORTED"
    <2>1. PICK D, F, P : /\ D = Descriptors' /\ F = LoopWords' /\ P = NetLens'
                         /\ P \in Seq(DescLength) /\ Descs(D)
                         /\ SectionsIn(Complete(D, F, P)) /\ CurSays(D, F, P)
                         /\ desc_loop' = NoLoop /\ \A i \in DOMAIN items' : ~Open(i)'
      BY <1>1, NetLoad
    <2>2. PICK p, n, c, q, t : /\ p = cur.payload /\ n = cur.data_length /\ c = loops
                               /\ q = cur'.payload /\ t = Len(p) + 1
      OBVIOUS
    <2>3. run.op_state \in NetStates
      BY <1>1 DEF NetStates
    <2>4. run'.op_state \notin HeadStates /\ run'.op_state \notin NetStates
      BY <1>1, <1>3 DEF NetStates, HeadStates, StreamStates
    <2>5. p \in Seq(Entries(Kinds)) /\ n \in Nat
      BY <1>1, <2>2, <2>3, NetFacts
    <2>6. Nets(P, p, n, c) /\ NetsSaid(P, p)
      BY <1>1, <2>1, <2>2, <2>3 DEF CurSays
    <2>7. /\ Streams(D, F, P, q, n + 2, t, 0, 0) /\ t \in Nat
          /\ BytesIn(D, q, BASE_LEN) = 0
      <3>1. Descs(D) /\ P \in Seq(DescLength)
        BY <2>1
      <3>2. q = Append(p, Entry("ts_loop_len", 0, 0)) /\ n \in Nat /\ t = Len(p) + 1
        BY <1>1, <1>3, <2>2, <2>5
      <3> QED
        <4>1. NetsEnded(D, F, P, q, n, t)
          BY ONLY <3>1, <3>2, <2>5, <2>6, NetsEnd
        <4> QED
          BY ONLY <4>1 DEF NetsEnded
    <2>8. loops'.ts_loop_len_pos = t /\ loops'.ts_loop_len = 0
      <3>1. PICK m : c = NetLoop(m)
        BY <2>6 DEF Nets
      <3>2. loops' = [c EXCEPT !.ts_loop_len_pos = t]
        BY <1>1, <1>3, <2>2
      <3> QED
        BY ONLY <3>1, <3>2 DEF NetLoop
    <2>9. desc_loop'.pos = 0 /\ desc_loop'.len = 0 /\ cur'.data_length = n + 2
      BY <1>1, <1>3, <2>1, <2>2 DEF NoLoop
    <2>10. CurSays(D, F, P)'
      <3>1. Streams(D, F, P, cur'.payload, cur'.data_length, loops'.ts_loop_len_pos,
                    desc_loop'.pos, desc_loop'.len)
        BY <2>2, <2>7, <2>8, <2>9
      <3>2. loops'.ts_loop_len = BytesIn(D, cur'.payload, BASE_LEN)
        BY <2>2, <2>7, <2>8
      <3>3. run'.op_state # "WRITE_XPORT_LOOP_LEN"
        BY <2>4 DEF NetStates
      <3> QED
        BY <2>4, <3>1, <3>2, <3>3 DEF CurSays
    <2>11. OpenInv'
      BY <1>1, <2>1, <2>4, NoneOpenNext
    <2> QED
      BY <1>1, <1>3, <2>1, <2>10, <2>11, ContinueLoad
  <1> QED
    BY <1>2, <1>3

\* Leaving, the section gets the length of its transport streams' loop: it is then
\* one that is read back.
LEMMA LeftFilled ==
  ASSUME NEW D, Descs(D), NEW F, NEW P \in Seq(DescLength), NEW s, NEW t,
         s.payload \in Seq(Entries(Kinds)), loops \in LoopsSet,
         Streams(D, F, P, s.payload, cur.data_length, loops.ts_loop_len_pos, 0, 0),
         loops.ts_loop_len = BytesIn(D, s.payload, BASE_LEN), TsStored(s, t)
  PROVE  Filled(D, F, P, t.payload, t.data_length)
  <1>1. PICK p, q, n, l : /\ p = s.payload /\ q = t.payload /\ n = cur.data_length
                          /\ l = loops.ts_loop_len_pos
    OBVIOUS
  <1>2. /\ t \in Sections(Entries(Kinds)) /\ t.data_length = n
        /\ q = [p EXCEPT ![l].n = loopLen(loops.ts_loop_len)]
    BY <1>1 DEF TsStored
  <1>3. PICK w : w = loopLen(BytesIn(D, p, BASE_LEN))
    OBVIOUS
  <1>4. q = [p EXCEPT ![l].n = w] /\ Streams(D, F, P, p, n, l, 0, 0)
    BY <1>1, <1>2, <1>3
  <1>5. q \in Seq(Entries(Kinds))
    <2>1. t.payload \in Seq(Entries(Kinds))
      BY ONLY <1>2, SectionFieldTypes
    <2> QED
      BY ONLY <1>1, <2>1
  <1>6. p \in Seq(Entries(Kinds)) /\ l \in Nat /\ Descs(D) /\ P \in Seq(DescLength)
    BY <1>1, LoopsFields
  <1>7. Filled(D, F, P, q, n)
    BY ONLY <1>3, <1>4, <1>5, <1>6, StreamsStored
  <1> QED
    BY <1>1, <1>2, <1>7

\* The next transport stream.
LEMMA GetStreamLoad ==
  ASSUME BaseInv, LoadInv, GetXportStreamFull \/ GetXportStreamFits \/ GetXportStreamEnd
  PROVE  LoadInv'
  <1>1. /\ BaseInv' /\ state = "WRITE_SEC" /\ run.op_state = "GET_XPORT_STREAM"
        /\ UNCHANGED << descriptors, items, desc_loop >>
        /\ \/ \E done \in BOOLEAN : \E t :
                /\ TsStored(cur, t) /\ WriteSecReturn(done, t, sec_bytes, D_BIT)
                /\ state' = IF done THEN "END_TABLE" ELSE "MALLOC_SEC"
           \/ /\ UNCHANGED << driver, loops >> /\ cur' = cur /\ state' = "WRITE_SEC"
              /\ run'.op_state = "WRITE_XPORT_STREAM"
    BY GetStreamBase
  <1>2. PICK D, F, P : /\ D = Descriptors' /\ F = LoopWords' /\ P = NetLens'
                       /\ P \in Seq(DescLength) /\ Descs(D)
                       /\ SectionsIn(Complete(D, F, P)) /\ CurSays(D, F, P)
                       /\ desc_loop = NoLoop /\ desc_loop' = NoLoop
                       /\ \A i \in DOMAIN items' : ~Open(i)'
    BY <1>1, NetLoad
  <1>3. /\ Streams(D, F, P, cur.payload, cur.data_length, loops.ts_loop_len_pos, 0, 0)
        /\ loops.ts_loop_len = BytesIn(D, cur.payload, BASE_LEN)
    <2>1. desc_loop.pos = 0 /\ desc_loop.len = 0
      BY <1>2 DEF NoLoop
    <2>2. run.op_state \in StreamStates
      BY <1>1 DEF StreamStates
    <2> QED
      BY <1>2, <2>1, <2>2 DEF CurSays
  <1>4. ASSUME NEW done \in BOOLEAN, NEW t, TsStored(cur, t),
               WriteSecReturn(done, t, sec_bytes, D_BIT), state' # "WRITE_SEC"
        PROVE  LoadInv'
    <2>1. cur.payload \in Seq(Entries(Kinds)) /\ loops \in LoopsSet
      <3>1. cur \in Sections(Entries(Kinds)) /\ loops \in LoopsSet
        BY <1>1, BaseFacts, RestFacts
      <3> QED
        BY <3>1, SectionFieldTypes
    <2>2. Filled(D, F, P, t.payload, t.data_length)
      <3>1. PICK s : s = cur
        OBVIOUS
      <3>2. /\ s.payload \in Seq(Entries(Kinds)) /\ TsStored(s, t)
            /\ Streams(D, F, P, s.payload, cur.data_length, loops.ts_loop_len_pos, 0, 0)
            /\ loops.ts_loop_len = BytesIn(D, s.payload, BASE_LEN)
        BY <1>3, <1>4, <2>1, <3>1
      <3> QED
        BY <1>2, <2>1, <3>2, LeftFilled
    <2>3. loops' = NoLoops
      BY <1>1, <1>4 DEF GetXportStreamFull, GetXportStreamFits, GetXportStreamEnd, Leave,
                        psiVars, driver
    <2>4. t \in Sections(Entries(Kinds))
      BY <1>4 DEF TsStored
    <2> QED
      BY <1>1, <1>2, <1>4, <2>2, <2>3, <2>4, ReturnLoad
  <1>5. CASE /\ UNCHANGED << driver, loops >> /\ cur' = cur /\ state' = "WRITE_SEC"
             /\ run'.op_state = "WRITE_XPORT_STREAM"
    <2>1. OnlyCur
      BY <1>5 DEF driver, OnlyCur
    <2>2. run'.op_state \notin HeadStates /\ run'.op_state \notin NetStates
      BY <1>5 DEF HeadStates, NetStates
    <2>3. OpenInv'
      BY <1>1, <1>2, <2>2, NoneOpenNext
    <2>4. CurSays(D, F, P)'
      <3>1. desc_loop'.pos = 0 /\ desc_loop'.len = 0
        BY <1>2 DEF NoLoop
      <3> QED
        BY <1>3, <1>5, <2>2, <3>1 DEF CurSays
    <2> QED
      BY <1>1, <1>2, <1>5, <2>1, <2>3, <2>4, ContinueLoad
  <1>6. \A done \in BOOLEAN : (IF done THEN "END_TABLE" ELSE "MALLOC_SEC") # "WRITE_SEC"
    OBVIOUS
  <1> QED
    BY <1>1, <1>4, <1>5, <1>6
-----------------------------------------------------------------------------
(* A transport stream's states.                                            *)

\* What a step of the transport stream being written starts from, and what it keeps.
LEMMA StreamLoad ==
  ASSUME BaseInv, LoadInv, At("WRITE_XPORT_STREAM"), NEW i, i = run.ts, OnlyRun(i),
         descriptors' = descriptors,
         NEW D, NEW F, NEW P, D = Descriptors, F = LoopWords, P = NetLens
  PROVE  /\ state = "WRITE_SEC" /\ i \in DOMAIN items /\ DOMAIN items' = DOMAIN items
         /\ \A j \in DOMAIN items' : j # i => ~Open(j)'
         /\ D = Descriptors' /\ F = LoopWords' /\ P = NetLens' /\ P \in Seq(DescLength)
         /\ Descs(D) /\ i \in DOMAIN D /\ D[i] = items[i].descriptors
         /\ \A n \in ui16 : F[i][n] = loopLen(n)
         /\ SectionsIn(Complete(D, F, P))
         /\ cur.payload \in Seq(Entries(Kinds)) /\ cur.data_length \in Nat
         /\ loops \in LoopsSet /\ loops.ts_loop_len_pos \in Nat
         /\ Streams(D, F, P, cur.payload, cur.data_length, loops.ts_loop_len_pos,
                    desc_loop.pos, desc_loop.len)
         /\ loops.ts_loop_len = BytesIn(D, cur.payload, BASE_LEN)
         /\ ~Open(i) => desc_loop = NoLoop
         /\ Open(i) => /\ desc_loop.pos \in Nat /\ desc_loop.pos # 0 /\ desc_loop.len \in ui16
                       /\ cur.payload[desc_loop.pos].owner = i
                       /\ cur.payload[Len(cur.payload)].owner = i
  <1>1. /\ ExtInv /\ state = "WRITE_SEC" /\ run.op_state = "WRITE_XPORT_STREAM"
        /\ i \in DOMAIN items /\ loops \in LoopsSet /\ cur \in Sections(Entries(Kinds))
    BY StreamFacts
  <1>2. cur.payload \in Seq(Entries(Kinds)) /\ cur.data_length \in Nat
    BY <1>1, SectionFieldTypes
  <1>3. /\ OpenInv /\ PayloadInv(D, F, P) /\ P \in Seq(DescLength)
        /\ Descs(D) /\ i \in DOMAIN D /\ D[i] = items[i].descriptors
        /\ \A n \in ui16 : F[i][n] = loopLen(n)
    BY <1>1, LoadFacts
  <1>4. /\ SectionsIn(Complete(D, F, P))
        /\ Streams(D, F, P, cur.payload, cur.data_length, loops.ts_loop_len_pos,
                   desc_loop.pos, desc_loop.len)
        /\ loops.ts_loop_len = BytesIn(D, cur.payload, BASE_LEN)
    BY <1>1, <1>3 DEF PayloadInv, CurSays, StreamStates
  <1>5. /\ items' \in Seq([id : ui16, descriptors : Seq(DescLength), run : Runs])
        /\ Len(items') = Len(items)
        /\ \A j \in DOMAIN items : /\ items'[j].descriptors = items[j].descriptors
                                   /\ j # i => items'[j] = items[j]
    BY DEF OnlyRun
  <1>6. Descriptors' = Descriptors /\ LoopWords' = LoopWords /\ DOMAIN items' = DOMAIN items
    BY <1>1, <1>5, SameLoops
  <1>7. Writing
    BY <1>1 DEF Writing
  <1>8. \A j \in DOMAIN items' : j # i => ~Open(j)'
    <2>1. \A j \in DOMAIN items : j # i => ~Open(j)
      BY <1>1, <1>3, <1>7 DEF OpenInv
    <2> QED
      BY <1>5, <1>6, <2>1 DEF Open
  <1>9. /\ ~Open(i) => desc_loop = NoLoop
        /\ Open(i) => /\ desc_loop.pos # 0 /\ cur.payload[desc_loop.pos].owner = i
                      /\ cur.payload[Len(cur.payload)].owner = i
    BY <1>1, <1>3, <1>7 DEF OpenInv
  <1>10. desc_loop.pos \in Nat /\ desc_loop.len \in ui16
    BY <1>1 DEF ExtInv
  <1>11. P = NetLens'
    BY DEF NetLens
  <1>12. loops.ts_loop_len_pos \in Nat
    BY <1>1, LoopsFields
  <1> QED
    BY <1>1, <1>2, <1>3, <1>4, <1>6, <1>8, <1>9, <1>10, <1>11, <1>12

\* It stays with the table, its loop open.
LEMMA StreamGoesOn ==
  ASSUME BaseInv, LoadInv, At("WRITE_XPORT_STREAM"), NEW i, i = run.ts, OnlyRun(i),
         descriptors' = descriptors, run' = run, state' = "WRITE_SEC", OnlyCur, Open(i)',
         NEW D, NEW F, NEW P, D = Descriptors, F = LoopWords, P = NetLens,
         NEW q, q = cur'.payload, desc_loop'.pos # 0,
         q[desc_loop'.pos].owner = i, q[Len(q)].owner = i,
         Streams(D, F, P, q, cur'.data_length, loops'.ts_loop_len_pos,
                 desc_loop'.pos, desc_loop'.len),
         loops'.ts_loop_len = BytesIn(D, q, BASE_LEN)
  PROVE  LoadInv'
  <1>1. /\ state = "WRITE_SEC" /\ i \in DOMAIN items /\ DOMAIN items' = DOMAIN items
        /\ \A j \in DOMAIN items' : j # i => ~Open(j)'
        /\ D = Descriptors' /\ F = LoopWords' /\ P = NetLens'
        /\ SectionsIn(Complete(D, F, P))
    BY StreamLoad
  <1>2. run.op_state = "WRITE_XPORT_STREAM"
    BY DEF At
  <1>3. OpenInv'
    BY <1>1, <1>2 DEF OpenInv, Writing, HeadStates
  <1>4. CurSays(D, F, P)'
    BY <1>2 DEF CurSays, NetStates
  <1> QED
    BY <1>1, <1>3, <1>4, ContinueLoad

\* What the table counts of the loop.
LEMMA TsCounted ==
  ASSUME NEW c \in LoopsSet, NEW m \in Nat, NEW v \in Nat, c.ts_loop_len = m, m + v < 65536,
         NEW y, y = [c EXCEPT !.ts_loop_len = (c.ts_loop_len + v) % 65536]
  PROVE  y.ts_loop_len = m + v /\ y.ts_loop_len_pos = c.ts_loop_len_pos
  <1>1. (m + v) % 65536 = m + v
    <2>1. PICK k \in Nat : k = m + v
      OBVIOUS
    <2>2. k < 65536 /\ k % 65536 = k
      BY ONLY k \in Nat, k = m + v, m + v < 65536
    <2> QED
      BY ONLY <2>1, <2>2
  <1>2. y = [c EXCEPT !.ts_loop_len = m + v]
    BY <1>1
  <1> QED
    BY ONLY c \in LoopsSet, <1>2 DEF LoopsSet

\* Its header.
LEMMA StreamHeadLoad ==
  ASSUME BaseInv, LoadInv, At("WRITE_XPORT_STREAM"), NEW i, i = run.ts,
         ItemWriteHead(i, BASE_LEN, 0), run' = run, Still,
         loops' = [loops EXCEPT !.ts_loop_len = (loops.ts_loop_len + BASE_LEN) % 65536]
  PROVE  LoadInv'
  <1>1. /\ BaseInv' /\ OnlyRun(i) /\ items[i].run.op_state \in {"INIT", "WRITE_HEAD"}
        /\ \/ state' = "ABORTED"
           \/ /\ state' = "WRITE_SEC" /\ OnlyCur
              /\ cur'.payload = PutItem(cur.payload, i, 0)
              /\ cur'.data_length = cur.data_length + BASE_LEN
              /\ desc_loop' = [pos |-> Len(cur.payload) + 2, len |-> 0]
              /\ items'[i].run.op_state \in {"GET_DESC", "WRITE_DESC"}
    BY StreamHeadBase
  <1>2. CASE state' = "ABORTED"
    BY <1>2, AbortLoad
  <1>3. CASE state' # "ABORTED"
    <2>1. PICK D, F, P : D = Descriptors /\ F = LoopWords /\ P = NetLens
      OBVIOUS
    <2>2. PICK p, n, q, t, c, y :
            /\ p = cur.payload /\ n = cur.data_length /\ q = cur'.payload
            /\ t = loops.ts_loop_len_pos /\ c = loops /\ y = loops'
      OBVIOUS
    <2>3. ~Open(i) /\ Open(i)'
      BY <1>1, <1>3 DEF Open
    <2>4. descriptors' = descriptors
      BY DEF Still
    <2>5. /\ P \in Seq(DescLength) /\ Descs(D) /\ i \in DOMAIN D /\ state = "WRITE_SEC"
          /\ p \in Seq(Entries(Kinds)) /\ n \in Nat /\ t \in Nat /\ c \in LoopsSet
          /\ Streams(D, F, P, p, n, t, desc_loop.pos, desc_loop.len) /\ desc_loop = NoLoop
          /\ c.ts_loop_len = BytesIn(D, p, BASE_LEN)
      BY <1>1, <2>1, <2>2, <2>3, <2>4, StreamLoad
    <2>6. Streams(D, F, P, p, n, t, 0, 0)
      BY <2>5 DEF NoLoop
    <2>7. q = PutItem(p, i, 0)
      BY <1>1, <1>3, <2>2
    <2>8. /\ Streams(D, F, P, q, n + BASE_LEN, t, Len(p) + 2, 0)
          /\ Len(q) = Len(p) + 2 /\ q[Len(q)].owner = i
          /\ BytesIn(D, p, BASE_LEN) \in Nat
          /\ BytesIn(D, q, BASE_LEN) = BytesIn(D, p, BASE_LEN) + BASE_LEN
      BY ONLY <2>5, <2>6, <2>7, StreamsHead
    <2>9. /\ desc_loop'.pos = Len(p) + 2 /\ desc_loop'.len = 0 /\ cur'.data_length = n + BASE_LEN
          /\ state' = "WRITE_SEC" /\ OnlyCur
      BY <1>1, <1>3, <2>2
    <2>10. desc_loop'.pos # 0 /\ desc_loop'.pos = Len(q)
      BY <2>5, <2>8, <2>9
    <2>11. BytesIn(D, p, BASE_LEN) + BASE_LEN < 65536
      <3>1. DriverTypes(Entries(Kinds))'
        BY <1>1 DEF BaseInv, DriverRest
      <3>2. n + BASE_LEN < 65536
        BY <2>5, <2>9, <3>1, BaseFacts, CurWidthRest
      <3>3. PICK l, z, len : l = Len(p) + 2 /\ z = n + BASE_LEN /\ len = 0
        OBVIOUS
      <3>4. l \in Nat /\ l # 0 /\ z \in Nat /\ q \in Seq(Entries(Kinds))
        <4>1. 0 \in ui16
          BY Ui16
        <4>2. q \in Seq(Entries(Kinds))
          <5>1. cur' \in Sections(Entries(Kinds))
            <6>1. stream' \in Seq(Sections(Entries(Kinds))) /\ Len(stream') = Len(stream)
              BY <2>9, <3>1 DEF DriverTypes, OnlyCur
            <6>2. Len(stream) \in Nat /\ first \in 1 .. Len(stream)
              BY <2>5, BaseFacts, RestFacts
            <6> QED
              BY <6>1, <6>2 DEF cur
          <5> QED
            BY <2>2, <5>1, SectionFieldTypes
        <4> QED
          BY <2>5, <3>3, <4>2 DEF BASE_LEN
      <3>5. Streams(D, F, P, q, z, t, l, len)
        BY <2>8, <3>3
      <3>6. HEADER_LEN + 4 + BytesIn(D, q, BASE_LEN) <= z /\ BytesIn(D, q, BASE_LEN) \in Nat
        BY ONLY <2>5, <3>4, <3>5, StreamsOpen
      <3>7. z < 65536
        BY <3>2, <3>3
      <3>8. BytesIn(D, q, BASE_LEN) < 65536
        BY ONLY <3>4, <3>6, <3>7 DEF HEADER_LEN
      <3> QED
        BY <2>8, <3>8
    <2>12. y.ts_loop_len = BytesIn(D, q, BASE_LEN) /\ y.ts_loop_len_pos = t
      <3>1. PICK m, v : m = BytesIn(D, p, BASE_LEN) /\ v = BASE_LEN
        OBVIOUS
      <3>2. m \in Nat /\ v \in Nat /\ c.ts_loop_len = m /\ m + v < 65536
        BY <2>5, <2>8, <2>11, <3>1 DEF BASE_LEN
      <3>3. y = [c EXCEPT !.ts_loop_len = (c.ts_loop_len + v) % 65536]
        BY <2>2, <3>1
      <3>4. y.ts_loop_len = m + v /\ y.ts_loop_len_pos = c.ts_loop_len_pos
        BY ONLY <2>5, <3>2, <3>3, TsCounted
      <3> QED
        BY <2>2, <2>8, <3>1, <3>4
    <2>13. /\ Streams(D, F, P, q, cur'.data_length, loops'.ts_loop_len_pos,
                      desc_loop'.pos, desc_loop'.len)
           /\ loops'.ts_loop_len = BytesIn(D, q, BASE_LEN)
      BY <2>2, <2>8, <2>9, <2>12
    <2>14. q[desc_loop'.pos].owner = i /\ q[Len(q)].owner = i /\ q = cur'.payload
      BY <2>2, <2>8, <2>10
    <2>15. /\ BaseInv /\ LoadInv /\ At("WRITE_XPORT_STREAM") /\ i = run.ts /\ run' = run
           /\ OnlyRun(i)
      BY <1>1
    <2> QED
      BY ONLY <2>1, <2>3, <2>4, <2>9, <2>10, <2>13, <2>14, <2>15, StreamGoesOn
  <1> QED
    BY <1>2, <1>3

\* Its next descriptor is fetched.
LEMMA StreamFetchLoad ==
  ASSUME BaseInv, LoadInv, At("WRITE_XPORT_STREAM"), NEW i, i = run.ts,
         ItemGetDescFits(i), UNCHANGED << run, loops >>, Still
  PROVE  LoadInv'
  <1>1. /\ OnlyRun(i) /\ items[i].run.op_state = "GET_DESC"
        /\ items'[i].run.op_state = "WRITE_DESC" /\ desc_loop' = desc_loop
        /\ OnlyCur /\ cur' = cur /\ state' = "WRITE_SEC" /\ descriptors' = descriptors
    BY StreamFetchBase DEF Still
  <1>2. Open(i) /\ Open(i)'
    BY <1>1 DEF Open
  <1>3. PICK D, F, P : D = Descriptors /\ F = LoopWords /\ P = NetLens
    OBVIOUS
  <1>4. /\ Streams(D, F, P, cur.payload, cur.data_length, loops.ts_loop_len_pos,
                   desc_loop.pos, desc_loop.len)
        /\ loops.ts_loop_len = BytesIn(D, cur.payload, BASE_LEN)
        /\ desc_loop.pos # 0 /\ cur.payload[desc_loop.pos].owner = i
        /\ cur.payload[Len(cur.payload)].owner = i
    BY <1>1, <1>2, <1>3, StreamLoad
  <1>5. PICK q : q = cur'.payload
    OBVIOUS
  <1>6. /\ Streams(D, F, P, q, cur'.data_length, loops'.ts_loop_len_pos,
                   desc_loop'.pos, desc_loop'.len)
        /\ loops'.ts_loop_len = BytesIn(D, q, BASE_LEN)
        /\ desc_loop'.pos # 0 /\ q[desc_loop'.pos].owner = i /\ q[Len(q)].owner = i
    BY <1>1, <1>4, <1>5
  <1>7. /\ BaseInv /\ LoadInv /\ At("WRITE_XPORT_STREAM") /\ i = run.ts /\ run' = run
    OBVIOUS
  <1> QED
    BY ONLY <1>1, <1>2, <1>3, <1>5, <1>6, <1>7, StreamGoesOn

\* It is written.
LEMMA StreamDescLoad ==
  ASSUME BaseInv, LoadInv, At("WRITE_XPORT_STREAM"), NEW i, i = run.ts,
         ItemWriteDesc(i), run' = run, Still,
         loops' = [loops EXCEPT !.ts_loop_len = (loops.ts_loop_len + ItemDescLen(i)) % 65536]
  PROVE  LoadInv'
  <1>1. /\ OnlyRun(i) /\ items[i].run.op_state = "WRITE_DESC"
        /\ items[i].run.d \in DOMAIN items[i].descriptors /\ items[i].run.d \in ui16
        /\ \/ state' = "ABORTED"
           \/ /\ state' = "WRITE_SEC" /\ OnlyCur
              /\ cur'.payload = Append(cur.payload, Entry("desc", i, items[i].run.d))
              /\ cur'.data_length = cur.data_length + ItemDescLen(i)
              /\ cur'.data_length < 65536
              /\ desc_loop'
                   = [pos |-> desc_loop.pos, len |-> (desc_loop.len + ItemDescLen(i)) % 65536]
              /\ items'[i].run.op_state = "GET_DESC"
    BY StreamDescBase
  <1>2. CASE state' = "ABORTED"
    BY <1>2, AbortLoad
  <1>3. CASE state' # "ABORTED"
    <2>1. PICK D, F, P : D = Descriptors /\ F = LoopWords /\ P = NetLens
      OBVIOUS
    <2>2. PICK p, n, q, l, len, d, t, c, y :
            /\ p = cur.payload /\ n = cur.data_length /\ q = cur'.payload
            /\ l = desc_loop.pos /\ len = desc_loop.len /\ d = items[i].run.d
            /\ t = loops.ts_loop_len_pos /\ c = loops /\ y = loops'
      OBVIOUS
    <2>3. Open(i) /\ Open(i)' /\ descriptors' = descriptors
      BY <1>1, <1>3 DEF Open, Still
    <2>4. /\ P \in Seq(DescLength) /\ Descs(D) /\ i \in DOMAIN D /\ D[i] = items[i].descriptors
          /\ p \in Seq(Entries(Kinds)) /\ n \in Nat /\ Streams(D, F, P, p, n, t, l, len)
          /\ c.ts_loop_len = BytesIn(D, p, BASE_LEN) /\ t \in Nat /\ c \in LoopsSet
          /\ l \in Nat /\ l # 0 /\ len \in ui16 /\ p[l].owner = i /\ p[Len(p)].owner = i
      BY <1>1, <2>1, <2>2, <2>3, StreamLoad
    <2>5. PICK v : v = D[i][d]
      OBVIOUS
    <2>6. d \in DOMAIN D[i] /\ d \in ui16 /\ ItemDescLen(i) = v /\ v \in Nat
      <3>1. d \in DOMAIN D[i] /\ d \in ui16 /\ ItemDescLen(i) = v
        BY <1>1, <2>2, <2>4, <2>5 DEF ItemDescLen
      <3>2. D[i] \in Seq(DescLength)
        BY ONLY <2>4 DEF Descs
      <3>3. v \in DescLength
        BY ONLY <2>5, <3>1, <3>2
      <3> QED
        BY <3>1, <3>3, DescLengths
    <2>7. /\ q = Append(p, Entry("desc", i, d)) /\ cur'.data_length = n + v /\ n + v < 65536
          /\ desc_loop'.pos = l /\ desc_loop'.len = (len + v) % 65536
          /\ state' = "WRITE_SEC" /\ OnlyCur
      BY <1>1, <1>3, <2>2, <2>6
    <2>8. /\ l \in 1 .. Len(p) /\ len \in Nat /\ len <= BytesIn(D, p, BASE_LEN)
          /\ BytesIn(D, p, BASE_LEN) \in Nat /\ HEADER_LEN + 4 + BytesIn(D, p, BASE_LEN) <= n
      BY ONLY <2>4, StreamsOpen
    <2>9. /\ Streams(D, F, P, q, n + v, t, l, len + v)
          /\ BytesIn(D, q, BASE_LEN) = BytesIn(D, p, BASE_LEN) + v
      <3>1. q = Append(p, Entry("desc", i, d))
        BY <2>7
      <3>2. /\ Descs(D) /\ P \in Seq(DescLength) /\ p \in Seq(Entries(Kinds)) /\ n \in Nat
            /\ t \in Nat /\ l \in Nat /\ l # 0 /\ Streams(D, F, P, p, n, t, l, len)
            /\ i \in DOMAIN D /\ d \in DOMAIN D[i] /\ d \in ui16 /\ p[Len(p)].owner = i
        BY ONLY <2>4, <2>6
      <3>3. PICK z, w : z = n + v /\ w = len + v
        OBVIOUS
      <3>4. Longer(D, F, P, p, q, z, t, l, w, v)
        BY ONLY <2>5, <3>1, <3>2, <3>3, StreamsDesc
      <3> QED
        BY <3>3, <3>4 DEF Longer
    <2>10. PICK m : m = BytesIn(D, p, BASE_LEN)
      OBVIOUS
    <2>11. m \in Nat /\ m + v < 65536 /\ (len + v) % 65536 = len + v
      <3>1. 8 + 4 + m <= n /\ n + v < 65536 /\ len <= m
        BY <2>7, <2>8, <2>10 DEF HEADER_LEN
      <3>2. len \in Nat /\ n \in Nat /\ v \in Nat /\ m \in Nat
        BY <2>4, <2>6, <2>8, <2>10
      <3> QED
        BY ONLY <3>1, <3>2
    <2>12. y.ts_loop_len = BytesIn(D, q, BASE_LEN) /\ y.ts_loop_len_pos = t
      <3>1. y = [c EXCEPT !.ts_loop_len = (c.ts_loop_len + v) % 65536]
        BY <2>2, <2>6
      <3>2. c.ts_loop_len = m
        BY <2>4, <2>10
      <3>3. y.ts_loop_len = m + v /\ y.ts_loop_len_pos = c.ts_loop_len_pos
        <4>1. c \in LoopsSet
          BY ONLY <2>4
        <4>2. v \in Nat
          BY ONLY <2>6
        <4>3. m \in Nat /\ m + v < 65536
          BY ONLY <2>11
        <4> QED
          BY ONLY <4>1, <4>2, <4>3, <3>1, <3>2, TsCounted
      <3> QED
        BY <2>2, <2>5, <2>9, <2>10, <3>3
    <2>13. /\ Streams(D, F, P, q, cur'.data_length, loops'.ts_loop_len_pos,
                      desc_loop'.pos, desc_loop'.len)
           /\ loops'.ts_loop_len = BytesIn(D, q, BASE_LEN)
      <3>1. /\ cur'.data_length = n + v /\ desc_loop'.pos = l /\ desc_loop'.len = len + v
        BY ONLY <2>7, <2>11
      <3>2. /\ loops'.ts_loop_len_pos = t /\ loops'.ts_loop_len = BytesIn(D, q, BASE_LEN)
        BY ONLY <2>2, <2>12
      <3>3. Streams(D, F, P, q, n + v, t, l, len + v)
        BY ONLY <2>9
      <3> QED
        BY ONLY <3>1, <3>2, <3>3
    <2>14. q[l].owner = i /\ q[Len(q)].owner = i
      <3>1. PICK T, x : T = Entries(Kinds) /\ x = Entry("desc", i, d)
        OBVIOUS
      <3>2. x \in T /\ x.owner = i
        BY <2>4, <2>6, <3>1, ItemNumber, NitNumbers, ItemEntry DEF ItemKinds
      <3>3. q = Append(p, x) /\ p \in Seq(T) /\ l \in 1 .. Len(p) /\ p[l].owner = i
        BY <2>4, <2>7, <2>8, <3>1
      <3> QED
        BY ONLY <3>2, <3>3
    <2>15. desc_loop'.pos # 0 /\ q[desc_loop'.pos].owner = i
      <3>1. l # 0 /\ desc_loop'.pos = l
        BY ONLY <2>4, <2>7
      <3> QED
        BY ONLY <2>14, <3>1
    <2>16. /\ OnlyRun(i) /\ state' = "WRITE_SEC" /\ OnlyCur /\ q = cur'.payload /\ run' = run
      BY <1>1, <2>2, <2>7
    <2>17. /\ BaseInv /\ LoadInv /\ At("WRITE_XPORT_STREAM") /\ i = run.ts
      OBVIOUS
    <2> QED
      BY ONLY <2>1, <2>3, <2>13, <2>14, <2>15, <2>16, <2>17, StreamGoesOn
  <1> QED
    BY <1>2, <1>3

\* It returns with its loop closed.
LEMMA StreamReturnsLoad ==
  ASSUME BaseInv, LoadInv, XportStreamFull \/ XportStreamDone
  PROVE  LoadInv'
  <1>1. PICK s, i : s = LoopPatched(cur) /\ i = run.ts
    OBVIOUS
  <1>2. /\ BaseInv' /\ At("WRITE_XPORT_STREAM") /\ OnlyRun(i)
        /\ items[i].run.op_state = "GET_DESC"
        /\ items'[i].run.op_state \in {"INIT", "WRITE_HEAD"} /\ desc_loop' = NoLoop
        /\ s \in Sections(Entries(Kinds)) /\ s.data_length = cur.data_length
        /\ s.payload = [cur.payload EXCEPT ![desc_loop.pos].n = loopLen(desc_loop.len)]
        /\ descriptors' = descriptors
        /\ \/ \E t : /\ TsStored(s, t) /\ WriteSecReturn(FALSE, t, sec_bytes, D_BIT)
                     /\ state' = "MALLOC_SEC"
           \/ /\ cur' = s /\ state' = "WRITE_SEC" /\ OnlyCur /\ loops' = loops
              /\ run'.op_state = "GET_XPORT_STREAM"
    BY <1>1, StreamReturnsBase
  <1>3. Open(i) /\ ~Open(i)'
    BY <1>2 DEF Open
  <1>4. PICK D, F, P : D = Descriptors /\ F = LoopWords /\ P = NetLens
    OBVIOUS
  <1>5. /\ state = "WRITE_SEC"
        /\ \A j \in DOMAIN items' : j # i => ~Open(j)'
        /\ D = Descriptors' /\ F = LoopWords' /\ P = NetLens' /\ P \in Seq(DescLength)
        /\ Descs(D) /\ SectionsIn(Complete(D, F, P))
        /\ \A n \in ui16 : F[i][n] = loopLen(n)
        /\ cur.payload \in Seq(Entries(Kinds))
        /\ loops \in LoopsSet /\ loops.ts_loop_len_pos \in Nat
        /\ Streams(D, F, P, cur.payload, cur.data_length, loops.ts_loop_len_pos,
                   desc_loop.pos, desc_loop.len)
        /\ loops.ts_loop_len = BytesIn(D, cur.payload, BASE_LEN)
        /\ desc_loop.pos \in Nat /\ desc_loop.pos # 0 /\ desc_loop.len \in ui16
        /\ cur.payload[desc_loop.pos].owner = i
    BY <1>1, <1>2, <1>3, <1>4, StreamLoad
  <1>6. /\ Streams(D, F, P, s.payload, cur.data_length, loops.ts_loop_len_pos, 0, 0)
        /\ loops.ts_loop_len = BytesIn(D, s.payload, BASE_LEN)
        /\ s.payload \in Seq(Entries(Kinds))
    <2>1. PICK p, n, l, len, q, t : /\ p = cur.payload /\ n = cur.data_length
                                    /\ l = desc_loop.pos /\ len = desc_loop.len /\ q = s.payload
                                    /\ t = loops.ts_loop_len_pos
      OBVIOUS
    <2>2. PICK w : w = F[p[l].owner][len]
      OBVIOUS
    <2>3. w = loopLen(len)
      BY <1>5, <2>1, <2>2
    <2>4. q \in Seq(Entries(Kinds))
      <3>1. s \in Sections(Entries(Kinds))
        BY <1>2
      <3>2. s.payload \in Seq(Entries(Kinds))
        BY ONLY <3>1, SectionFieldTypes
      <3> QED
        BY ONLY <2>1, <3>2
    <2>5. q = [p EXCEPT ![l].n = w]
      BY <1>2, <2>1, <2>3
    <2>6. /\ P \in Seq(DescLength) /\ Descs(D) /\ p \in Seq(Entries(Kinds)) /\ t \in Nat
          /\ Streams(D, F, P, p, n, t, l, len) /\ l \in Nat /\ l # 0 /\ len \in Nat
      BY <1>5, <2>1, Ui16
    <2>7. Streams(D, F, P, q, n, t, 0, 0) /\ BytesIn(D, q, BASE_LEN) = BytesIn(D, p, BASE_LEN)
      <3>1. Shut(D, F, P, p, q, n, t)
        BY ONLY <2>2, <2>4, <2>5, <2>6, StreamsPatch
      <3> QED
        BY <3>1 DEF Shut
    <2> QED
      BY <1>5, <2>1, <2>4, <2>7
  <1>7. \A j \in DOMAIN items' : ~Open(j)'
    BY <1>3, <1>5
  <1>8. ASSUME NEW t, TsStored(s, t), WriteSecReturn(FALSE, t, sec_bytes, D_BIT),
               state' = "MALLOC_SEC"
        PROVE  LoadInv'
    <2>1. Filled(D, F, P, t.payload, t.data_length)
      BY <1>5, <1>6, <1>8, LeftFilled
    <2>2. loops' = NoLoops
      <3>1. XportStreamDone => state' = state
        BY DEF XportStreamDone, WriteSecContinue
      <3> QED
        BY <1>5, <1>8, <3>1 DEF XportStreamFull, Leave
    <2>3. PICK done \in BOOLEAN : done = FALSE
      OBVIOUS
    <2>4. WriteSecReturn(done, t, sec_bytes, D_BIT) /\ t \in Sections(Entries(Kinds))
      BY <1>8, <2>3 DEF TsStored
    <2> QED
      BY <1>2, <1>5, <1>7, <2>1, <2>2, <2>4, ReturnLoad
  <1>9. CASE /\ cur' = s /\ state' = "WRITE_SEC" /\ OnlyCur /\ loops' = loops
             /\ run'.op_state = "GET_XPORT_STREAM"
    <2>1. run'.op_state \notin HeadStates /\ run'.op_state \notin NetStates
      BY <1>9 DEF HeadStates, NetStates
    <2>2. OpenInv'
      BY <1>2, <1>7, <2>1, NoneOpenNext
    <2>3. CurSays(D, F, P)'
      <3>1. desc_loop'.pos = 0 /\ desc_loop'.len = 0
        BY <1>2 DEF NoLoop
      <3> QED
        BY <1>2, <1>6, <1>9, <2>1, <3>1 DEF CurSays
    <2> QED
      BY <1>5, <1>9, <2>2, <2>3, ContinueLoad
  <1> QED
    BY <1>2, <1>8, <1>9
-----------------------------------------------------------------------------
(* The other steps.                                                        *)

\* Nothing is known of the loops when no section is being written.
LEMMA QuietFacts ==
  ASSUME BaseInv, LoadInv, state \in {"IDLE", "MALLOC_SEC", "END_TABLE"}
  PROVE  /\ (\A i \in DOMAIN items : ~Open(i)) /\ desc_loop = NoLoop /\ loops = NoLoops
         /\ run.op_state \in HeadStates /\ DriverInv(Entries(Kinds), D_BIT)
  <1>1. run.op_state \in HeadStates
    BY BaseFacts DEF Control
  <1>2. OpenInv
    BY DEF LoadInv
  <1>3. (\A i \in DOMAIN items : ~Open(i)) /\ desc_loop = NoLoop /\ loops = NoLoops
    BY <1>1, <1>2, NoneOpen DEF Writing, OpenInv
  <1>4. DriverInv(Entries(Kinds), D_BIT)
    BY NothingOwed
  <1> QED
    BY <1>1, <1>3, <1>4

\* The driver's own, and the application's that add nothing.
LEMMA DriverLoad ==
  ASSUME BaseInv, LoadInv, Configure \/ buildSections \/ MallocSec \/ EndTable,
         UNCHANGED << extVars, descriptors, run, loops >>
  PROVE  LoadInv'
  <1>1. BaseInv'
    BY DriverBase
  <1>2. PICK D, F, P : D = Descriptors /\ F = LoopWords /\ P = NetLens /\ SectionsIn(Complete(D, F, P))
    BY LoadParts
  <1>3. PICK C : C = Complete(D, F, P)
    OBVIOUS
  <1>4. state \in {"IDLE", "MALLOC_SEC", "END_TABLE"}
    BY ConfigureFrame DEF buildSections, MallocSec, EndTable
  <1>5. /\ (\A i \in DOMAIN items : ~Open(i)) /\ desc_loop = NoLoop /\ loops = NoLoops
        /\ run.op_state \in HeadStates /\ DriverInv(Entries(Kinds), D_BIT)
    BY <1>4, QuietFacts
  <1>6. SectionsIn(C)
    BY <1>2, <1>3
  <1>7. SectionsIn(C)'
    <2>1. CASE Configure
      <3>1. state' = "IDLE"
        BY <2>1, ConfigureFrame
      <3> QED
        BY <3>1 DEF SectionsIn
    <2>2. CASE buildSections
      BY <1>5, <2>2, SectionsInBegin
    <2>3. CASE MallocSec
      BY <1>5, <1>6, <2>3, SectionsInMalloc
    <2>4. CASE EndTable
      <3>1. state' \in {"IDLE", "ABORTED"}
        BY <2>4 DEF EndTable, Abort
      <3> QED
        BY <3>1 DEF SectionsIn
    <2> QED
      BY <2>1, <2>2, <2>3, <2>4
  <1>8. UNCHANGED << items, desc_loop, descriptors, run, loops >>
    BY DEF extVars
  <1>9. /\ D = Descriptors' /\ F = LoopWords' /\ P = NetLens'
        /\ (\A i \in DOMAIN items' : ~Open(i)') /\ desc_loop' = NoLoop
        /\ loops' = NoLoops /\ run'.op_state \in HeadStates
    BY <1>2, <1>5, <1>8 DEF Descriptors, LoopWords, NetLens, Open
  <1> QED
    BY <1>1, <1>3, <1>7, <1>9, QuietLoad

\* An application that adds something.
LEMMA AddLoad ==
  ASSUME BaseInv, LoadInv, BaseInv', state = "IDLE", state' = "IDLE",
         UNCHANGED << desc_loop, loops >>, \A i \in DOMAIN items' : ~Open(i)'
  PROVE  LoadInv'
  <1>1. PICK D, F, P : D = Descriptors' /\ F = LoopWords' /\ P = NetLens'
    OBVIOUS
  <1>2. desc_loop = NoLoop /\ loops = NoLoops
    BY QuietFacts
  <1>3. SectionsIn(Complete(D, F, P))'
    BY DEF SectionsIn
  <1> QED
    BY <1>1, <1>2, <1>3, QuietLoad

\* addDesc, addXportStream and addXportStreamDesc.
LEMMA ApiLoad ==
  ASSUME BaseInv, LoadInv,
         \/ \E nd \in NetDescLens : addDesc(nd)
         \/ \E xs_id \in ItemIds : addXportStream(xs_id)
         \/ addXportStreamDesc
  PROVE  LoadInv'
  <1>1. /\ ExtInv /\ Len(items) \in Nat /\ DOMAIN items = 1 .. Len(items)
    BY BaseFacts
  <1>2. CASE \E nd \in NetDescLens : addDesc(nd)
    <2>1. BaseInv' /\ UNCHANGED << driver, items, desc_loop >> /\ state = "IDLE"
      BY <1>2, AddDescBase
    <2>2. state' = "IDLE" /\ loops' = loops
      BY <1>2, <2>1 DEF addDesc, driver
    <2>3. \A i \in DOMAIN items : ~Open(i)
      BY <2>1, QuietFacts
    <2>4. \A i \in DOMAIN items' : ~Open(i)'
      BY <2>1, <2>3 DEF Open
    <2> QED
      BY <2>1, <2>2, <2>4, AddLoad
  <1>3. CASE \E xs_id \in ItemIds : addXportStream(xs_id)
    <2>1. /\ BaseInv' /\ items'[Len(items) + 1].run = ItemContext
          /\ Len(items') = Len(items) + 1
          /\ (\A j \in DOMAIN items : items'[j] = items[j]) /\ desc_loop' = desc_loop
          /\ state = "IDLE" /\ UNCHANGED << driver, descriptors >>
      BY <1>3, AddXportStreamBase
    <2>2. \A i \in DOMAIN items : ~Open(i)
      BY <2>1, QuietFacts
    <2>3. \A i \in DOMAIN items' : ~Open(i)'
      <3>1. DOMAIN items' = 1 .. Len(items) + 1
        BY <2>1 DEF BaseInv, ExtInv
      <3>2. ASSUME NEW i \in 1 .. Len(items) + 1 PROVE i \in 1 .. Len(items) \/ i = Len(items) + 1
        BY <1>1
      <3>3. ASSUME NEW i \in 1 .. Len(items) PROVE ~Open(i)'
        BY <1>1, <2>1, <2>2 DEF Open
      <3>4. PICK n : n = Len(items) + 1
        OBVIOUS
      <3>5. ~Open(n)'
        BY <2>1, <3>4 DEF Open, ItemContext
      <3> QED
        <4> SUFFICES ASSUME NEW i \in DOMAIN items' PROVE ~Open(i)'
          OBVIOUS
        <4>1. i \in 1 .. Len(items) \/ i = n
          BY <3>1, <3>2, <3>4
        <4> QED
          BY <3>3, <3>5, <4>1
    <2>4. state' = "IDLE" /\ loops' = loops
      BY <1>3, <2>1 DEF driver, addXportStream
    <2> QED
      BY <2>1, <2>3, <2>4, AddLoad
  <1>4. CASE addXportStreamDesc
    <2>1. /\ BaseInv' /\ Len(items') = Len(items)
          /\ (\A j \in DOMAIN items : items'[j].run = items[j].run) /\ desc_loop' = desc_loop
          /\ state = "IDLE" /\ UNCHANGED << driver, descriptors >>
      BY <1>4, AddXportStreamDescBase
    <2>2. \A i \in DOMAIN items : ~Open(i)
      BY <2>1, QuietFacts
    <2>3. DOMAIN items' = DOMAIN items
      BY <1>1, <2>1 DEF BaseInv, ExtInv
    <2>4. \A i \in DOMAIN items' : ~Open(i)'
      BY <2>1, <2>2, <2>3 DEF Open
    <2>5. state' = "IDLE" /\ loops' = loops
      BY <1>4, <2>1 DEF driver, addXportStreamDesc
    <2> QED
      BY <2>1, <2>4, <2>5, AddLoad
  <1> QED
    BY <1>2, <1>3, <1>4

\* It holds at the start.
LEMMA InitLoad == Init => LoadInv
  <1> SUFFICES ASSUME Init PROVE LoadInv
    OBVIOUS
  <1>1. state = "IDLE" /\ items = << >> /\ desc_loop = NoLoop /\ loops = NoLoops
    BY DEF Init, PsiInit, ExtInit
  <1>2. OpenInv
    BY <1>1 DEF OpenInv, Writing
  <1>3. PICK D, F, P : D = Descriptors /\ F = LoopWords /\ P = NetLens
    OBVIOUS
  <1>4. PayloadInv(D, F, P)
    BY <1>1 DEF PayloadInv, SectionsIn
  <1> QED
    BY <1>2, <1>3, <1>4 DEF LoadInv

\* And after every step.
LEMMA StepLoad == BaseInv /\ LoadInv /\ [Next]_vars => LoadInv'
  <1> SUFFICES ASSUME BaseInv, LoadInv, [Next]_vars PROVE LoadInv'
    OBVIOUS
  <1>1. CASE Api
    BY <1>1, DriverLoad, ApiLoad DEF Api
  <1>2. CASE (MallocSec \/ EndTable) /\ UNCHANGED << extVars, descriptors, run, loops >>
    BY <1>2, DriverLoad
  <1>3. CASE writeSection
    <2>1. CASE WriteHead
      BY <2>1, WriteHeadLoad
    <2>2. CASE GetNetDescEndsSection
      BY <2>2, GetNetDescLeavesLoad
    <2>3. CASE GetNetDescFits \/ NoMoreNetDescs
      BY <2>3, GetNetDescStaysLoad
    <2>4. CASE WriteNetDesc
      BY <2>4, WriteNetDescLoad
    <2>5. CASE WriteXportLoopLen
      BY <2>5, WriteXportLoopLenLoad
    <2>6. CASE GetXportStreamFull \/ GetXportStreamFits \/ GetXportStreamEnd
      BY <2>6, GetStreamLoad
    <2>7. CASE XportStreamWrites
      BY <2>7, StreamWriteSteps, StreamHeadLoad, StreamFetchLoad, StreamDescLoad
    <2>8. CASE XportStreamFull \/ XportStreamDone
      BY <2>8, StreamReturnsLoad
    <2> QED
      BY <1>3, <2>1, <2>2, <2>3, <2>4, <2>5, <2>6, <2>7, <2>8 DEF writeSection
  <1>4. CASE UNCHANGED vars
    <2>1. /\ UNCHANGED << items, desc_loop, descriptors, run, loops, state, stream, first >>
          /\ cur' = cur
      BY <1>4 DEF vars, psiVars, extVars, driver, cur
    <2>2. PICK D, F, P : D = Descriptors /\ F = LoopWords /\ P = NetLens
      OBVIOUS
    <2>3. OpenInv /\ PayloadInv(D, F, P)
      BY <2>2, LoadFacts
    <2>4. OpenInv'
      BY <2>1, <2>3 DEF OpenInv, Open, Writing
    <2>5. D = Descriptors' /\ F = LoopWords' /\ P = NetLens'
      BY <2>1, <2>2 DEF Descriptors, LoopWords, NetLens
    <2>6. PayloadInv(D, F, P)'
      BY <2>1, <2>3 DEF PayloadInv, CurSays, SectionsIn, Table
    <2> QED
      BY <2>4, <2>5, <2>6 DEF LoadInv
  <1> QED
    BY <1>1, <1>2, <1>3, <1>4 DEF Next, BuildStep

\* The second invariant holds of every state of the NIT and the BAT.
THEOREM LoadInvariance == Spec => []LoadInv
  BY InitLoad, StepLoad, BaseInvariance, PTL DEF Spec
-----------------------------------------------------------------------------
(* The sections read back.                                                 *)

\* What a receiver reads in a section's payload and section_length.
Reads(p, section_length) ==
  \E n \in 0 .. Len(p) - 2 :
    /\ p[1].kind = "net_loop_len" /\ p[n + 2].kind = "ts_loop_len"
    /\ \A j \in 2 .. Len(p) : p[j].kind = "net_desc" <=> j <= n + 1
    /\ p[1].n = loopLen(NetBytes(p)) /\ p[n + 2].n = loopLen(ItemBytes(p, BASE_LEN))
    /\ ReadsFrom(p, n + 3)
    /\ section_length % LEN_MASK = BASE_LENGTH + NetBytes(p) + ItemBytes(p, BASE_LEN) + CRC_LEN

\* A section of a finished build is read so.
LEMMA SectionRead ==
  ASSUME BaseInv, LoadInv, Built, NEW i \in Table, stream[i].size <= 4096
  PROVE  Reads(stream[i].payload, stream[i].section_length)
  <1>1. PICK n, p, c : /\ n = stream[i].data_length /\ p = stream[i].payload
                       /\ c = stream[i].section_length
    OBVIOUS
  <1>2. /\ p \in Seq(Entries(Kinds)) /\ n \in Nat /\ n + CRC_LEN <= 4096
        /\ c % LEN_MASK = n - 3 + CRC_LEN
    <2>1. DriverInv(Entries(Kinds), D_BIT)
      BY QuietFacts DEF Built
    <2> QED
      BY <1>1, <2>1, NitNumbers, SectionReads
  <1>3. PICK D, F, P : D = Descriptors /\ F = LoopWords /\ P = NetLens
    OBVIOUS
  <1>4. /\ PayloadInv(D, F, P) /\ P \in Seq(DescLength) /\ Descs(D)
        /\ \A j \in DOMAIN items : \A m \in ui16 : F[j][m] = loopLen(m)
    BY <1>3, LoadFacts
  <1>5. Filled(D, F, P, p, n)
    <2>1. What(stream[i]) \in Complete(D, F, P)
      BY <1>4 DEF PayloadInv, SectionsIn, Built
    <2> QED
      BY <1>1, <2>1 DEF What, Complete
  <1>6. ExtInv
    BY BaseFacts
  <1>7. PICK l, len : l = 0 /\ len = 0
    OBVIOUS
  <1>8. PICK t \in Nat : Streams(D, F, P, p, n, t, 0, 0) /\ p[t].n = loopLen(BytesIn(D, p, BASE_LEN))
    BY <1>5 DEF Filled
  <1>9. PICK s, b \in Nat : StreamsOf(D, F, P, p, n, t, l, len, s, b)
    <2>1. Streams(D, F, P, p, n, t, l, len)
      BY <1>7, <1>8
    <2> QED
      BY ONLY <1>2, <1>4, <1>8, <2>1, StreamsFacts
  <1>10. PICK T : T = Entries(Kinds)
    OBVIOUS
  <1>11. p \in Seq(T) /\ 1 <= s /\ Loops(D, F, p, s, l, len) /\ Loops(D, F, p, s, 0, 0)
    BY <1>2, <1>7, <1>9, <1>10 DEF StreamsOf
  <1>12. ReadsBack(D, F, p, s)
    BY <1>3, <1>6, <1>11, LoopsParse
  <1>13. ItemBytes(p, b) = BytesIn(D, p, b)
    BY <1>3, <1>6, <1>11, LoopsBytes
  <1>14. PICK bytes, net : bytes = BytesIn(D, p, b) /\ net = NetIn(P, p)
    OBVIOUS
  <1>15. bytes \in Nat
    <2>1. \A k \in 1 .. Len(p) : LenIn(D, p[k], b) \in Nat
      BY ONLY s \in Nat, b \in Nat, <1>4, <1>11, LoopsLengths
    <2> QED
      BY <1>11, <1>14, <2>1, BytesType
  <1>16. net \in Nat /\ n = HEADER_LEN + 4 + net + bytes /\ p[1].n = loopLen(net)
    BY <1>9, <1>14 DEF StreamsOf, NetsSaid
  <1>17. bytes < 4096
    BY <1>2, <1>15, <1>16 DEF HEADER_LEN, CRC_LEN
  <1>18. ReadsFrom(p, s)
    BY <1>4, <1>12, <1>14, <1>15, <1>17, ItemsRead
  <1>19. PICK m : m = t - 2
    OBVIOUS
  <1>20. /\ m \in 0 .. Len(p) - 2 /\ t = m + 2 /\ s = m + 3 /\ b = BASE_LEN
         /\ p[1].kind = "net_loop_len" /\ p[m + 2].kind = "ts_loop_len"
    <2>1. /\ 2 <= t /\ t <= Len(p) /\ s = t + 1 /\ b = BASE_LEN
          /\ p[1].kind = "net_loop_len" /\ p[t].kind = "ts_loop_len"
      BY <1>9 DEF StreamsOf
    <2> QED
      BY <1>2, <1>8, <1>19, <2>1
  <1>21. ASSUME NEW j \in 2 .. Len(p) PROVE p[j].kind = "net_desc" <=> j <= m + 1
    <2>1. CASE j <= m + 1
      <3>1. j \in 2 .. t - 1
        BY <1>8, <1>20, <2>1
      <3> QED
        BY <1>9, <2>1, <3>1 DEF StreamsOf
    <2>2. CASE j = m + 2
      BY <1>20, <2>2
    <2>3. CASE ~(j <= m + 1) /\ j # m + 2
      <3>1. j \in s .. Len(p)
        BY <1>2, <1>20, <2>3
      <3>2. p[j].kind \in ItemKinds
        BY <1>12, <3>1 DEF ReadsBack
      <3> QED
        BY <2>3, <3>2 DEF ItemKinds
    <2> QED
      BY <2>1, <2>2, <2>3
  <1>22. NetBytes(p) = net
    <2>1. ASSUME NEW k \in DOMAIN p
          PROVE  OwnLen("net_desc", P, p[k])
                   = IF p[k].kind = "net_desc" THEN netDescLength(descriptors[p[k].n]) ELSE 0
      <3>1. CASE p[k].kind = "net_desc"
        <4>1. k \in 2 .. t - 1
          <5>1. k \in 1 .. Len(p)
            BY <1>2
          <5>2. k # 1
            BY <1>20, <3>1
          <5>3. k \in 2 .. Len(p)
            BY <1>2, <5>1, <5>2
          <5> QED
            BY <1>8, <1>20, <1>21, <3>1, <5>3
        <4>2. p[k].n \in DOMAIN P
          BY <1>9, <4>1 DEF StreamsOf
        <4>3. P[p[k].n] = netDescLength(descriptors[p[k].n])
          BY <1>3, <4>2 DEF NetLens
        <4> QED
          BY <3>1, <4>3 DEF OwnLen
      <3> QED
        BY <3>1 DEF OwnLen
    <2>2. [k \in DOMAIN p |-> OwnLen("net_desc", P, p[k])]
            = [k \in DOMAIN p |-> IF p[k].kind = "net_desc"
                                  THEN netDescLength(descriptors[p[k].n]) ELSE 0]
      BY <2>1
    <2> QED
      BY <1>14, <2>2 DEF NetBytes, NetIn, OwnIn
  <1>23. c % LEN_MASK = BASE_LENGTH + net + bytes + CRC_LEN
    BY <1>2, <1>15, <1>16 DEF HEADER_LEN, BASE_LENGTH, CRC_LEN
  <1>24. Reads(p, c)
    <2>1. ReadsFrom(p, m + 3)
      BY <1>18, <1>20
    <2>2. p[1].n = loopLen(NetBytes(p)) /\ p[m + 2].n = loopLen(ItemBytes(p, BASE_LEN))
      BY <1>8, <1>13, <1>16, <1>20, <1>22
    <2>3. c % LEN_MASK = BASE_LENGTH + NetBytes(p) + ItemBytes(p, BASE_LEN) + CRC_LEN
      BY <1>13, <1>14, <1>20, <1>22, <1>23
    <2> QED
      BY ONLY <1>20, <1>21, <2>1, <2>2, <2>3 DEF Reads
  <1> QED
    BY <1>1, <1>24

\* For all network descriptors, marks and transport streams with descriptors of any
\* lengths, and all section lengths up to the 4096 bytes that a 12-bit length can
\* describe, each section of a finished build is read back as the table's own:
\* the first loop length is that of the network descriptors in this section, the
\* second that of the transport streams in it, and each stream's header is followed
\* by its loop length and that by the stream's own descriptors, of just that length.
THEOREM SectionsAreRead == Spec => []SectionsParse
  <1>1. BaseInv /\ LoadInv => SectionsParse
    <2> SUFFICES ASSUME BaseInv, LoadInv PROVE SectionsParse
      OBVIOUS
    <2>1. ASSUME Built, NEW i \in Table, stream[i].size <= 4096
          PROVE  Reads(stream[i].payload, stream[i].section_length)
      BY <2>1, SectionRead
    <2> QED
      BY <2>1 DEF SectionsParse, Reads, ReadsFrom, ItemsParse
  <1> QED
    BY <1>1, BaseInvariance, LoadInvariance, PTL
==============================================================================
