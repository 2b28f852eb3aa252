------------------------------ MODULE SdtProofs -------------------------------
(***************************************************************************)
(* Theorems about the SDT, for every set of services, descriptor and       *)
(* section lengths, and any number of builds.  The inductive invariant     *)
(* relates the two nested state machines, the table's and the item's, to   *)
(* the payload of the section they write.                                  *)
(***************************************************************************)
EXTENDS Sdt, ExtProofs
LOCAL INSTANCE FiniteSetsExt

Kinds == {"network_id", "item", "desc_loop_len", "desc"}

Services == [running_status : 0 .. 7, eit_schedule : BOOLEAN,
             eit_present_following : BOOLEAN, free_ca_mode : BOOLEAN]

SdtTypes ==
  /\ services \in Seq(Services) /\ Len(services) = Len(items)
  /\ run \in [op_state : {"INIT", "WRITE_HEAD", "GET_SERVICE", "WRITE_SERVICE"},
              serv : 0 .. Len(items), s_iter : 1 .. Len(items) + 1]

\* A section is begun with its header, and written in the states after it.
Control ==
  /\ state \in {"IDLE", "MALLOC_SEC", "END_TABLE"} => run.op_state \in {"INIT", "WRITE_HEAD"}
  /\ state = "WRITE_SEC" =>
       (run.op_state \in {"INIT", "WRITE_HEAD"} <=> cur.data_length = 0)
  /\ run.op_state = "WRITE_SERVICE" => run.serv # 0

Writing == state = "WRITE_SEC" /\ run.op_state = "WRITE_SERVICE"

OpenInv ==
  state # "ABORTED" =>
    /\ \A i \in DOMAIN items : Open(i) => Writing /\ i = run.serv
    /\ IF Writing /\ Open(run.serv)
       THEN /\ desc_loop.pos # 0
            /\ cur.payload[desc_loop.pos].owner = run.serv
            /\ cur.payload[Len(cur.payload)].owner = run.serv
       ELSE desc_loop = NoLoop

\* The words the items' loop lengths are put in.
Words == [i \in DOMAIN items |-> [n \in ui16 |-> serviceLoopLen(services[i], n)]]

\* A payload of n bytes, with the loop at l open.
SdtPayload(D, F, p, n, l, len) ==
  /\ 1 <= Len(p) /\ p[1].kind = "network_id"
  /\ Loops(D, F, p, 2, l, len)
  /\ n = HEADER_LEN + 3 + BytesIn(D, p, BASE_LEN)

Complete(D, F) ==
  {w \in Seq(Entries(Kinds)) \X Nat : SdtPayload(D, F, w[1], w[2], 0, 0)}

PayloadInv(D, F) ==
  /\ SectionsIn(Complete(D, F))
  /\ state = "WRITE_SEC" /\ cur.data_length # 0 =>
       SdtPayload(D, F, cur.payload, cur.data_length, desc_loop.pos, desc_loop.len)

IInv ==
  /\ SdtTypes /\ DriverInv(Entries(Kinds), D_BIT) /\ ExtInv
  /\ Control /\ OpenInv
  /\ \E D, F : D = Descriptors /\ F = Words /\ PayloadInv(D, F)
-----------------------------------------------------------------------------
\* The constants as numbers.
LEMMA SdtNumbers ==
  /\ D_BIT \in {0, 1} /\ BASE_LENGTH = HEADER_LEN + 3 - 3 /\ BASE_LEN = 5
  /\ BASE_LENGTH \in ui16 /\ MAX_SEC_LEN \in ui16 /\ ItemKinds \subseteq Kinds
  BY Ui16 DEF D_BIT, BASE_LENGTH, BASE_LEN, HEADER_LEN, MAX_SEC_LEN, ItemKinds, Kinds

\* What there is to show of the invariant after a step.
LEMMA KeepIInv ==
  ASSUME SdtTypes', DriverInv(Entries(Kinds), D_BIT)', ExtInv', Control', OpenInv',
         NEW D, NEW F, D = Descriptors', F = Words', PayloadInv(D, F)'
  PROVE  IInv'
  BY DEF IInv

\* The status, the flag and the length share 16 bits.
LEMMA LoopWord ==
  ASSUME NEW s \in Services, NEW n \in Nat
  PROVE  /\ serviceLoopLen(s, n) \in ui16
         /\ serviceLoopLen(s, n)
              = (n % LEN_MASK) + 4096 * (Bit(s.free_ca_mode) + 2 * s.running_status)
  <1>1. s.running_status \in 0 .. 7 /\ Bit(s.free_ca_mode) \in {0, 1}
    BY DEF Services, Bit
  <1>2. n % LEN_MASK \in 0 .. 4095
    BY DEF LEN_MASK
  <1>3. PICK b, r, m : b = Bit(s.free_ca_mode) /\ r = s.running_status /\ m = n % LEN_MASK
    OBVIOUS
  <1>4. r \in 0 .. 7 /\ b \in {0, 1} /\ m \in 0 .. 4095
    BY <1>1, <1>2, <1>3
  <1>7. /\ 8192 * r + 4096 * b + m = m + 4096 * (b + 2 * r) /\ 8192 * r + 4096 * b + m \in Int
        /\ 0 <= 8192 * r + 4096 * b + m /\ 8192 * r + 4096 * b + m < 65536
    BY ONLY <1>4
  <1>5. PICK v : v = 8192 * r + 4096 * b + m /\ v = serviceLoopLen(s, n)
    BY <1>3 DEF serviceLoopLen
  <1>6. v \in ui16
    BY <1>5, <1>7, Ui16
  <1> QED
    BY <1>3, <1>5, <1>6, <1>7

\* A service's header is a 16-bit value.
LEMMA FlagsWord ==
  ASSUME NEW s
  PROVE  flags(s) \in ui16
  BY Ui16 DEF flags, Bit

\* What the items say is the same as long as they have the same descriptors.
LEMMA SameDescriptors ==
  ASSUME items' \in Seq([id : ui16, descriptors : Seq(DescLength), run : Runs]),
         ExtInv, Len(items') = Len(items), services' = services,
         \A j \in DOMAIN items : items'[j].descriptors = items[j].descriptors
  PROVE  Descriptors' = Descriptors /\ Words' = Words
  <1>1. DOMAIN items' = DOMAIN items
    BY DEF ExtInv
  <1>2. Descriptors' = Descriptors
    BY <1>1 DEF Descriptors
  <1>3. Words' = Words
    BY <1>1 DEF Words
  <1> QED
    BY <1>2, <1>3

\* The types of what the items say.
LEMMA DescriptorTypes ==
  ASSUME ExtInv, SdtTypes, NEW D, NEW F, D = Descriptors, F = Words
  PROVE  /\ Descs(D) /\ DOMAIN D = DOMAIN items /\ DOMAIN services = DOMAIN items
         /\ \A i \in DOMAIN items : /\ D[i] = items[i].descriptors
                                    /\ services[i] \in Services
                                    /\ \A n \in ui16 : F[i][n] = serviceLoopLen(services[i], n)
  <1>1. items \in Seq([id : ui16, descriptors : Seq(DescLength), run : Runs])
    BY DEF ExtInv
  <1>2. /\ Descs(D) /\ DOMAIN D = DOMAIN items
        /\ \A i \in DOMAIN items : D[i] = items[i].descriptors
    BY DescriptorsType
  <1>3. DOMAIN services = DOMAIN items /\ \A i \in DOMAIN items : services[i] \in Services
    <2>1. services \in Seq(Services) /\ Len(services) = Len(items)
      BY DEF SdtTypes
    <2> QED
      BY ONLY <1>1, <2>1
  <1>4. F = [i \in DOMAIN items |-> [n \in ui16 |-> serviceLoopLen(services[i], n)]]
    BY DEF Words
  <1>5. ASSUME NEW i \in DOMAIN items
        PROVE  \A n \in ui16 : F[i][n] = serviceLoopLen(services[i], n)
    BY <1>4
  <1> QED
    BY <1>2, <1>3, <1>5

-----------------------------------------------------------------------------
(* The table's own states.                                                 *)

\* When the process has died little is left to show.
LEMMA AbortedIInv ==
  ASSUME IInv, DriverInv(Entries(Kinds), D_BIT)', ExtInv', state' = "ABORTED",
         Len(items') = Len(items), UNCHANGED << stream, services, run >>
  PROVE  IInv'
  <1>1. SdtTypes' /\ Control'
    BY DEF IInv, SdtTypes, Control
  <1>2. OpenInv'
    BY DEF OpenInv
  <1>3. PICK D, F : D = Descriptors' /\ F = Words'
    OBVIOUS
  <1>4. PayloadInv(D, F)'
    BY DEF PayloadInv, SectionsIn
  <1> QED
    BY <1>1, <1>2, <1>3, <1>4, KeepIInv

\* A payload of the network id alone.
LEMMA HeadPayload ==
  ASSUME NEW D, Descs(D), NEW F, NEW x \in Entries(Kinds), x.kind = "network_id",
         NEW p, p = Append(<< >>, x)
  PROVE  SdtPayload(D, F, p, HEADER_LEN + 3, 0, 0)
  <1>1. /\ p \in Seq(Entries(Kinds)) /\ Len(p) = 1 /\ p[1] = x
        /\ << >> \in Seq(Entries(Kinds)) /\ Len(<< >>) = 0
    OBVIOUS
  <1>2. \A k \in 1 .. Len(p) : p[k].kind \notin ItemKinds
    BY <1>1 DEF ItemKinds
  <1>3. Loops(D, F, p, 2, 0, 0)
    <2>1. PICK T : T = Entries(Kinds)
      OBVIOUS
    <2>4. PICK z \in Nat : z = 2
      OBVIOUS
    <2>2. p \in Seq(T) /\ Len(p) < z
      BY <1>1, <2>1, <2>4
    <2>3. Loops(D, F, p, z, 0, 0)
      BY ONLY z \in Nat, <1>2, <2>2, LoopsNone
    <2> QED
      BY <2>3, <2>4
  <1>4. BASE_LEN \in Nat /\ LenIn(D, x, BASE_LEN) = 0
    BY DEF LenIn, BASE_LEN
  <1>5. BytesIn(D, << >>, BASE_LEN) = 0
    <2>1. [k \in DOMAIN << >> |-> LenIn(D, << >>[k], BASE_LEN)] = << >>
      OBVIOUS
    <2> QED
      BY <2>1, TotalAppend DEF BytesIn
  <1>6. BytesIn(D, p, BASE_LEN) = BytesIn(D, << >>, BASE_LEN) + LenIn(D, x, BASE_LEN)
    <2>1. PICK e : e = << >>
      OBVIOUS
    <2>2. e \in Seq(Entries(Kinds)) /\ p = Append(e, x) /\ Len(e) = 0
      BY <1>1, <2>1
    <2>3. \A k \in 1 .. Len(e) : LenIn(D, e[k], BASE_LEN) \in Nat
      BY <2>2
    <2>4. PICK T : T = Entries(Kinds)
      OBVIOUS
    <2>7. PICK b \in Nat : b = BASE_LEN
      BY <1>4
    <2>5. e \in Seq(T) /\ x \in T /\ LenIn(D, x, b) \in Nat
          /\ \A k \in 1 .. Len(e) : LenIn(D, e[k], b) \in Nat
      BY <1>4, <2>2, <2>3, <2>4, <2>7
    <2>6. BytesIn(D, p, b) = BytesIn(D, e, b) + LenIn(D, x, b)
      BY ONLY Descs(D), b \in Nat, <2>2, <2>5, BytesInAppend
    <2> QED
      BY <2>1, <2>6, <2>7
  <1> QED
    BY <1>1, <1>3, <1>4, <1>5, <1>6 DEF SdtPayload, HEADER_LEN

\* The section begun: its header and the network id.
LEMMA HeadSection ==
  ASSUME DriverInv(Entries(Kinds), D_BIT), state = "WRITE_SEC", cur.data_length = 0,
         lengthFits(cur, HEADER_LEN + 3), UNCHANGED << attributes, length >>,
         NEW x \in Entries(Kinds),
         WriteSecContinue(put(writeSectionHeader(cur, D_BIT), x, 3), BASE_LENGTH)
  PROVE  /\ DriverInv(Entries(Kinds), D_BIT)' /\ state' = "WRITE_SEC" /\ OnlyCur
         /\ stream'[Len(stream)].payload = Append(<< >>, x)
         /\ cur'.payload = Append(<< >>, x)
         /\ cur'.data_length = HEADER_LEN + 3 /\ cur'.data_length # 0
  <1>1. /\ cur \in Sections(Entries(Kinds)) /\ cur.payload = << >> /\ cur.size \in Nat
        /\ HEADER_LEN + 3 <= cur.size /\ cur.crc = {}
    <2>1. cur.payload = << >>
      BY DEF DriverInv, CurInv, HEADER_LEN
    <2>2. /\ cur \in Sections(Entries(Kinds)) /\ cur.size \in Nat /\ cur.crc = {}
      BY CurFacts
    <2> QED
      BY <2>1, <2>2 DEF lengthFits, HEADER_LEN
  <1>2. PICK h : h = writeSectionHeader(cur, D_BIT)
    OBVIOUS
  <1>3. /\ h \in Sections(Entries(Kinds)) /\ h.size = cur.size
        /\ h.data_length = HEADER_LEN /\ h.payload = << >>
        /\ h.crc = cur.crc /\ h.section_number = cur_sec
    <2>1. length \in ui16 /\ cur_sec \in ui8 /\ version_number \in ui5
      BY DEF DriverInv, DriverTypes, PsiTypeOK
    <2>2. lengthFits(cur, HEADER_LEN) /\ 0 + HEADER_LEN = HEADER_LEN
      BY <1>1 DEF lengthFits, HEADER_LEN
    <2> QED
      BY <1>1, <1>2, <2>1, <2>2, SdtNumbers, HeaderFields
  <1>4. lengthFits(h, 3) /\ Append(h.payload, x) \in Seq(Entries(Kinds))
    BY <1>1, <1>3 DEF lengthFits
  <1>5. PICK s : s = put(h, x, 3)
    OBVIOUS
  <1>6. /\ s \in Sections(Entries(Kinds)) /\ s.size = h.size
        /\ s.data_length = h.data_length + 3 /\ s.payload = Append(h.payload, x)
        /\ s.crc = h.crc /\ s.section_number = h.section_number
    <2>1. PICK P : P = Entries(Kinds)
      OBVIOUS
    <2>4. PICK n \in Nat : n = 3
      OBVIOUS
    <2>2. /\ h \in Sections(P) /\ lengthFits(h, n) /\ Append(h.payload, x) \in Seq(P)
          /\ s = put(h, x, n)
      BY <1>3, <1>4, <1>5, <2>1, <2>4
    <2>3. /\ s \in Sections(P) /\ s.size = h.size
          /\ s.data_length = h.data_length + n /\ s.payload = Append(h.payload, x)
          /\ s.crc = h.crc /\ s.section_number = h.section_number
      BY ONLY n \in Nat, <2>2, PutFields
    <2> QED
      BY <2>1, <2>3, <2>4
  <1>7. /\ s.size = cur.size /\ s.crc = cur.crc /\ s.section_number = cur_sec
        /\ s.payload = Append(<< >>, x) /\ s.data_length = BASE_LENGTH + 3
        /\ HEADER_LEN <= s.data_length /\ s.data_length <= s.size
        /\ s.data_length = HEADER_LEN + 3 /\ s.data_length # 0
    BY <1>1, <1>3, <1>6, SdtNumbers DEF HEADER_LEN
  <1>8. WriteSecContinue(s, BASE_LENGTH)
    BY <1>2, <1>5
  <1>9. DriverInv(Entries(Kinds), D_BIT)' /\ cur' = s /\ state' = "WRITE_SEC"
    BY <1>6, <1>7, <1>8, SdtNumbers, ContinueDriver
  <1>10. stream' = ReplaceCur(s) /\ UNCHANGED << first, builds, cur_sec >>
    BY <1>8 DEF WriteSecContinue
  <1>11. /\ Len(stream') = Len(stream) /\ stream'[Len(stream)] = s
         /\ \A i \in 1 .. Len(stream) - 1 : stream'[i] = stream[i]
    BY <1>6, <1>10, ReplaceCurFrame
  <1> QED
    BY <1>7, <1>9, <1>10, <1>11 DEF OnlyCur
\* With no loop open, one that is none.
LEMMA NoneOpen ==
  ASSUME OpenInv, state # "ABORTED", ~Writing
  PROVE  desc_loop = NoLoop /\ \A i \in DOMAIN items : ~Open(i)
  BY DEF OpenInv

\* A section is begun.
LEMMA WriteHeadIInv ==
  ASSUME IInv, WriteHead
  PROVE  IInv'
  <1>1. /\ state = "WRITE_SEC" /\ run.op_state \in {"INIT", "WRITE_HEAD"}
        /\ UNCHANGED << attributes, length, items, desc_loop, services >>
    BY DEF WriteHead, extVars
  <1>2. /\ SdtTypes /\ DriverInv(Entries(Kinds), D_BIT) /\ ExtInv
        /\ Control /\ OpenInv
    BY DEF IInv
  <1>3. cur.data_length = 0
    BY <1>1, <1>2 DEF Control
  <1>4. ExtInv'
    <2>1. length \in Int /\ length' = length
      BY <1>1, <1>2, Ui16 DEF DriverInv, DriverTypes, PsiTypeOK
    <2> QED
      BY <1>1, <1>2, <2>1, LongerExt
  <1>5. CASE lengthFits(cur, HEADER_LEN + 3)
    <2>1. PICK x : x = Entry("network_id", 0, 0)
      OBVIOUS
    <2>2. x \in Entries(Kinds) /\ x.kind = "network_id"
      <3>1. "network_id" \in Kinds /\ 0 \in ui16
        BY Ui16 DEF Kinds
      <3> QED
        BY <2>1, <3>1, EntryType
    <2>3. /\ WriteSecContinue(put(writeSectionHeader(cur, D_BIT), x, 3), BASE_LENGTH)
          /\ run' = [run EXCEPT
               !.op_state = IF run.serv = 0 THEN "GET_SERVICE" ELSE "WRITE_SERVICE",
               !.s_iter = IF run.op_state = "INIT" THEN 1 ELSE @]
      BY <1>5, <2>1 DEF WriteHead
    <2>4. /\ DriverInv(Entries(Kinds), D_BIT)' /\ state' = "WRITE_SEC" /\ OnlyCur
          /\ stream'[Len(stream)].payload = Append(<< >>, x)
          /\ cur'.payload = Append(<< >>, x)
          /\ cur'.data_length = HEADER_LEN + 3 /\ cur'.data_length # 0
      BY <1>1, <1>2, <1>3, <1>5, <2>2, <2>3, HeadSection
    <2>5. SdtTypes' /\ run'.op_state \in {"GET_SERVICE", "WRITE_SERVICE"}
          /\ (run'.op_state = "WRITE_SERVICE" => run'.serv # 0)
          /\ run'.serv \in 0 .. Len(items)
      <3>1. Len(items) \in Nat
        BY <1>2 DEF ExtInv
      <3>2. run \in [op_state : {"INIT", "WRITE_HEAD", "GET_SERVICE", "WRITE_SERVICE"},
                     serv : 0 .. Len(items), s_iter : 1 .. Len(items) + 1]
        BY <1>2 DEF SdtTypes
      <3>3. run' = [op_state |-> IF run.serv = 0 THEN "GET_SERVICE" ELSE "WRITE_SERVICE",
                    serv |-> run.serv,
                    s_iter |-> IF run.op_state = "INIT" THEN 1 ELSE run.s_iter]
        BY <2>3, <3>2
      <3>4. run' \in [op_state : {"INIT", "WRITE_HEAD", "GET_SERVICE", "WRITE_SERVICE"},
                      serv : 0 .. Len(items), s_iter : 1 .. Len(items) + 1]
        BY ONLY <3>1, <3>2, <3>3
      <3> QED
        BY <1>1, <1>2, <3>2, <3>3, <3>4 DEF SdtTypes
    <2>6. Control'
      BY <2>4, <2>5 DEF Control
    <2>7. desc_loop = NoLoop /\ \A i \in DOMAIN items : ~Open(i)
      BY <1>1, <1>2, NoneOpen DEF Writing
    <2>8. OpenInv'
      <3>1. \A i \in DOMAIN items' : ~Open(i)'
        BY <1>1, <2>7 DEF Open
      <3>2. Writing' => run'.serv \in DOMAIN items'
        BY <1>1, <1>2, <2>5 DEF Writing, ExtInv
      <3> QED
        BY <1>1, <2>7, <3>1, <3>2 DEF OpenInv, NoLoop
    <2>9. PICK D, F : D = Descriptors /\ F = Words /\ PayloadInv(D, F)
      BY DEF IInv
    <2>10. D = Descriptors' /\ F = Words' /\ Descs(D)
      BY <1>1, <1>2, <2>9, DescriptorTypes DEF Descriptors, Words
    <2>11. PayloadInv(D, F)'
      <3>1. SectionsIn(Complete(D, F))'
        <4>1. PICK C : C = Complete(D, F)
          OBVIOUS
        <4>2. SectionsIn(C)
          BY <2>9, <4>1 DEF PayloadInv
        <4>3. SectionsIn(C)'
          BY <1>1, <1>2, <2>4, <4>2, SectionsInContinue
        <4> QED
          BY <4>1, <4>3
      <3>2. PICK p : p = Append(<< >>, x)
        OBVIOUS
      <3>3. SdtPayload(D, F, p, HEADER_LEN + 3, 0, 0)
        BY <2>2, <2>10, <3>2, HeadPayload
      <3>4. cur'.payload = p /\ desc_loop'.pos = 0 /\ desc_loop'.len = 0
        BY <1>1, <2>4, <2>7, <3>2 DEF NoLoop
      <3> QED
        BY <2>4, <3>1, <3>3, <3>4 DEF PayloadInv
    <2> QED
      BY <1>4, <2>4, <2>5, <2>6, <2>8, <2>10, <2>11, KeepIInv
  <1>6. CASE ~lengthFits(cur, HEADER_LEN + 3)
    <2>1. Abort /\ run' = run
      BY <1>6 DEF WriteHead
    <2>2. DriverInv(Entries(Kinds), D_BIT)' /\ state' = "ABORTED" /\ stream' = stream
      BY <1>1, <1>2, <2>1, AbortDriver DEF Abort
    <2> QED
      BY <1>1, <1>4, <2>1, <2>2, AbortedIInv
  <1> QED
    BY <1>5, <1>6
\* writeSection returns, having left the section at s, with no loop open in it.
LEMMA LeaveIInv ==
  ASSUME IInv, state = "WRITE_SEC", cur.data_length # 0,
         NEW s \in Sections(Entries(Kinds)), s.size = cur.size, s.crc = cur.crc,
         s.data_length = cur.data_length, s.section_number = cur.section_number,
         NEW done \in BOOLEAN, WriteSecReturn(done, s, sec_bytes, D_BIT),
         UNCHANGED << attributes, length, services >>,
         ExtInv', SdtTypes', run'.op_state \in {"INIT", "WRITE_HEAD"},
         Len(items') = Len(items),
         \A j \in DOMAIN items : items'[j].descriptors = items[j].descriptors,
         \A j \in DOMAIN items' : ~Open(j)', desc_loop' = NoLoop,
         NEW D, NEW F, D = Descriptors, F = Words, PayloadInv(D, F),
         SdtPayload(D, F, s.payload, s.data_length, 0, 0)
  PROVE  IInv'
  <1>1. /\ SdtTypes /\ DriverInv(Entries(Kinds), D_BIT) /\ ExtInv
        /\ Control /\ OpenInv
    BY DEF IInv
  <1>2. DriverInv(Entries(Kinds), D_BIT)'
    BY <1>1, SdtNumbers, ReturnDriver
  <1>3. PICK C : C = Complete(D, F)
    OBVIOUS
  <1>4. What(s) \in C
    <2>1. s.payload \in Seq(Entries(Kinds)) /\ s.data_length \in Nat
      BY SectionFieldTypes
    <2> QED
      BY <1>3, <2>1 DEF What, Complete
  <1>5. SectionsIn(C)
    BY <1>3 DEF PayloadInv
  <1>6. /\ SectionsIn(C)' /\ state' = (IF done THEN "END_TABLE" ELSE "MALLOC_SEC")
        /\ first' = first /\ builds' = builds /\ Len(stream') = Len(stream)
        /\ \A i \in 1 .. Len(stream) - 1 : stream'[i] = stream[i]
        /\ stream'[Len(stream)].payload = s.payload
    BY <1>1, <1>4, <1>5, SdtNumbers, SectionsInReturn
  <1>7. state' \in {"END_TABLE", "MALLOC_SEC"}
    BY <1>6
  <1>8. Control'
    BY <1>7 DEF Control
  <1>9. OpenInv'
    BY <1>7 DEF OpenInv, Writing
  <1>10. D = Descriptors' /\ F = Words'
    BY <1>1, SameDescriptors DEF ExtInv
  <1>11. PayloadInv(D, F)'
    BY <1>3, <1>6, <1>7 DEF PayloadInv
  <1> QED
    BY <1>2, <1>8, <1>9, <1>10, <1>11, KeepIInv

\* The next service is fetched, or there is none.
LEMMA GetServiceIInv ==
  ASSUME IInv, GetServiceFull \/ GetServiceFits \/ GetServiceEnd
  PROVE  IInv'
  <1>1. /\ state = "WRITE_SEC" /\ run.op_state = "GET_SERVICE"
        /\ UNCHANGED << attributes, length, items, desc_loop, services >>
    BY DEF GetServiceFull, GetServiceFits, GetServiceEnd, At, extVars, psiVars
  <1>2. /\ SdtTypes /\ DriverInv(Entries(Kinds), D_BIT) /\ ExtInv
        /\ Control /\ OpenInv
    BY DEF IInv
  <1>3. cur.data_length # 0
    BY <1>1, <1>2 DEF Control
  <1>4. desc_loop = NoLoop /\ \A i \in DOMAIN items : ~Open(i)
    BY <1>1, <1>2, NoneOpen DEF Writing
  <1>5. length \in ui16 /\ Len(items) \in Nat
    BY <1>2 DEF DriverInv, DriverTypes, PsiTypeOK, ExtInv
  <1>6. ExtInv'
    BY <1>1, <1>2, <1>5, Ui16, LongerExt
  <1>7. PICK D, F : D = Descriptors /\ F = Words /\ PayloadInv(D, F)
    BY DEF IInv
  <1>8. SdtPayload(D, F, cur.payload, cur.data_length, desc_loop.pos, desc_loop.len)
    BY <1>1, <1>3, <1>7 DEF PayloadInv
  <1>9. /\ run \in [op_state : {"INIT", "WRITE_HEAD", "GET_SERVICE", "WRITE_SERVICE"},
                    serv : 0 .. Len(items), s_iter : 1 .. Len(items) + 1]
        /\ run.s_iter \in 1 .. Len(items) + 1
    BY <1>2 DEF SdtTypes
  <1>10. ASSUME NEW op_state \in {"WRITE_HEAD", "WRITE_SERVICE"},
                run.s_iter <= Len(items), run' = Fetched(op_state)
         PROVE  SdtTypes' /\ run'.op_state = op_state /\ run'.serv \in 1 .. Len(items)
    <2>1. run' = [op_state |-> op_state, serv |-> run.s_iter, s_iter |-> run.s_iter + 1]
      BY <1>10 DEF Fetched
    <2>2. /\ run.s_iter \in 1 .. Len(items) /\ run.s_iter \in 0 .. Len(items)
          /\ run.s_iter + 1 \in 1 .. Len(items) + 1
      BY <1>5, <1>9, <1>10
    <2>3. /\ run' \in [op_state : {"INIT", "WRITE_HEAD", "GET_SERVICE", "WRITE_SERVICE"},
                       serv : 0 .. Len(items), s_iter : 1 .. Len(items) + 1]
          /\ run'.op_state = op_state /\ run'.serv \in 1 .. Len(items)
      BY <2>1, <2>2
    <2> QED
      BY <1>1, <1>2, <2>3 DEF SdtTypes
  <1>11. ASSUME NEW done \in BOOLEAN, Leave(done, cur), SdtTypes',
                run'.op_state \in {"INIT", "WRITE_HEAD"}
         PROVE  IInv'
    <2>1. PICK s : s = cur
      OBVIOUS
    <2>2. /\ s \in Sections(Entries(Kinds))
      BY <1>1, <1>2, <2>1, CurFacts
    <2>3. WriteSecReturn(done, s, sec_bytes, D_BIT)
      BY <1>11, <2>1 DEF Leave
    <2>4. \A j \in DOMAIN items' : ~Open(j)'
      BY <1>1, <1>4 DEF Open
    <2>5. SdtPayload(D, F, s.payload, s.data_length, 0, 0)
      BY <1>4, <1>8, <2>1 DEF NoLoop
    <2>6. /\ s.size = cur.size /\ s.crc = cur.crc /\ s.data_length = cur.data_length
          /\ s.section_number = cur.section_number
      BY <2>1
    <2> QED
      BY <1>1, <1>3, <1>4, <1>6, <1>7, <1>11, <2>2, <2>3, <2>4, <2>5, <2>6, LeaveIInv
  <1>12. CASE GetServiceFull
    <2>1. run' = Fetched("WRITE_HEAD") /\ Leave(FALSE, cur) /\ run.s_iter <= Len(items)
      BY <1>12 DEF GetServiceFull
    <2>2. SdtTypes' /\ run'.op_state = "WRITE_HEAD"
      BY <1>10, <2>1
    <2> QED
      BY <1>11, <2>1, <2>2
  <1>13. CASE GetServiceEnd
    <2>1. run' = Context /\ Leave(TRUE, cur)
      BY <1>13 DEF GetServiceEnd
    <2>2. SdtTypes' /\ run'.op_state = "INIT"
      BY <1>1, <1>2, <1>5, <2>1 DEF SdtTypes, Context
    <2> QED
      BY <1>11, <2>1, <2>2
  <1>14. CASE GetServiceFits
    <2>1. /\ run' = Fetched("WRITE_SERVICE") /\ run.s_iter <= Len(items)
          /\ UNCHANGED << attributes, length, driver >>
      BY <1>14 DEF GetServiceFits, psiVars
    <2>2. SdtTypes' /\ run'.op_state = "WRITE_SERVICE" /\ run'.serv \in 1 .. Len(items)
      BY <1>10, <2>1
    <2>3. DriverInv(Entries(Kinds), D_BIT)'
      BY <1>2, <1>5, <2>1, AddDriver
    <2>4. UNCHANGED << stream, state, first >> /\ cur' = cur
      BY <2>1 DEF driver, cur
    <2>5. Control'
      BY <1>1, <1>3, <2>2, <2>4 DEF Control
    <2>6. OpenInv'
      <3>1. run'.serv \in DOMAIN items
        BY <1>2, <2>2 DEF ExtInv
      <3> QED
        BY <1>1, <1>4, <3>1 DEF OpenInv, Open, NoLoop
    <2>7. D = Descriptors' /\ F = Words'
      BY <1>1, <1>7 DEF Descriptors, Words
    <2>8. PayloadInv(D, F)'
      BY <1>1, <1>7, <2>4 DEF PayloadInv, SectionsIn, Table
    <2> QED
      BY <1>6, <2>2, <2>3, <2>5, <2>6, <2>7, <2>8, KeepIInv
  <1> QED
    BY <1>12, <1>13, <1>14
-----------------------------------------------------------------------------
(* What a service's states do to the payload.                              *)

\* The header of service i.
LEMMA PayloadHead ==
  ASSUME NEW D, Descs(D), NEW F, NEW p \in Seq(Entries(Kinds)), NEW n \in Nat,
         SdtPayload(D, F, p, n, 0, 0), NEW i \in DOMAIN D, NEW header \in ui16,
         NEW q, q = PutItem(p, i, header)
  PROVE  /\ SdtPayload(D, F, q, n + BASE_LEN, Len(p) + 2, 0)
         /\ Len(q) = Len(p) + 2 /\ q[Len(q)].owner = i
  <1>1. PICK s \in Nat, b \in Nat : s = 2 /\ b = BASE_LEN
    BY DEF BASE_LEN
  <1>2. /\ 1 <= s /\ s <= Len(p) + 1 /\ Loops(D, F, p, s, 0, 0) /\ 1 <= Len(p)
        /\ p[1].kind = "network_id" /\ n = HEADER_LEN + 3 + BytesIn(D, p, b)
    BY <1>1 DEF SdtPayload
  <1>3. HeadPut(D, F, p, q, s, i, b)
    BY <1>2, SdtNumbers, ItemsHead
  <1>4. 1 <= Len(q) /\ q[1] = p[1]
    BY <1>2, <1>3 DEF HeadPut
  <1>5. n + b = HEADER_LEN + 3 + BytesIn(D, q, b)
    BY <1>2, <1>3 DEF HeadPut, HEADER_LEN
  <1> QED
    BY <1>1, <1>2, <1>3, <1>4, <1>5 DEF SdtPayload, HeadPut

\* The loop that is open is in the payload, and its bytes among the payload's.
LEMMA PayloadOpen ==
  ASSUME NEW D, Descs(D), NEW F, NEW p \in Seq(Entries(Kinds)), NEW n \in Nat,
         NEW l \in Nat, l # 0, NEW len, SdtPayload(D, F, p, n, l, len)
  PROVE  l \in 1 .. Len(p) /\ len \in Nat /\ HEADER_LEN + 3 + len <= n
  <1>1. PICK s \in Nat, b \in Nat : s = 2 /\ b = BASE_LEN
    BY DEF BASE_LEN
  <1>2. 1 <= s /\ Loops(D, F, p, s, l, len) /\ n = HEADER_LEN + 3 + BytesIn(D, p, b)
    BY <1>1 DEF SdtPayload
  <1>3. /\ l \in 1 .. Len(p) /\ len \in Nat
        /\ BytesIn(D, p, b) \in Nat /\ len <= BytesIn(D, p, b)
    BY <1>2, ItemsOpen
  <1> QED
    BY <1>2, <1>3 DEF HEADER_LEN

\* One of its descriptors.
LEMMA PayloadDesc ==
  ASSUME NEW D, Descs(D), NEW F, NEW p \in Seq(Entries(Kinds)), NEW n \in Nat,
         NEW l \in Nat, l # 0, NEW len,
         SdtPayload(D, F, p, n, l, len), NEW i \in DOMAIN D, NEW d \in DOMAIN D[i], d \in ui16,
         p[Len(p)].owner = i
  PROVE  SdtPayload(D, F, Append(p, Entry("desc", i, d)), n + D[i][d], l, len + D[i][d])
  <1>1. PICK s \in Nat, b \in Nat : s = 2 /\ b = BASE_LEN
    BY DEF BASE_LEN
  <1>2. /\ 1 <= s /\ Loops(D, F, p, s, l, len) /\ 1 <= Len(p)
        /\ p[1].kind = "network_id" /\ n = HEADER_LEN + 3 + BytesIn(D, p, b)
    BY <1>1 DEF SdtPayload
  <1>3. PICK q : q = Append(p, Entry("desc", i, d))
    OBVIOUS
  <1>4. DescPut(D, F, p, q, s, l, len, i, d, b)
    BY <1>2, <1>3, SdtNumbers, ItemsDesc
  <1>5. 1 <= Len(q) /\ q[1] = p[1]
    BY <1>2, <1>4 DEF DescPut
  <1>6. n + D[i][d] = HEADER_LEN + 3 + BytesIn(D, q, b)
    BY <1>2, <1>4 DEF DescPut, HEADER_LEN
  <1> QED
    BY <1>1, <1>2, <1>3, <1>4, <1>5, <1>6 DEF SdtPayload, DescPut

\* The loop closed: its word is of all its bytes.
LEMMA PayloadPatch ==
  ASSUME NEW D, Descs(D), NEW F, NEW p \in Seq(Entries(Kinds)), NEW n,
         NEW l \in Nat, l # 0, NEW len \in Nat, SdtPayload(D, F, p, n, l, len),
         NEW w \in ui16, w = F[p[l].owner][len], NEW q \in Seq(Entries(Kinds)),
         q = [p EXCEPT ![l].n = w]
  PROVE  SdtPayload(D, F, q, n, 0, 0)
  <1>1. PICK s \in Nat, b \in Nat : s = 2 /\ b = BASE_LEN
    BY DEF BASE_LEN
  <1>2. /\ 1 <= s /\ Loops(D, F, p, s, l, len) /\ 1 <= Len(p)
        /\ p[1].kind = "network_id" /\ n = HEADER_LEN + 3 + BytesIn(D, p, b)
    BY <1>1 DEF SdtPayload
  <1>3. WordPut(D, F, p, q, s, l, b)
    BY <1>2, ItemsPatch
  <1>4. 1 <= Len(q) /\ q[1].kind = "network_id"
    BY <1>2, <1>3 DEF WordPut
  <1> QED
    BY <1>1, <1>2, <1>3, <1>4 DEF SdtPayload, WordPut
-----------------------------------------------------------------------------
(* The service's states.                                                   *)

\* While a service is written, what is known of it.
LEMMA ServiceFacts ==
  ASSUME IInv, At("WRITE_SERVICE")
  PROVE  /\ SdtTypes /\ DriverInv(Entries(Kinds), D_BIT) /\ ExtInv
         /\ Control /\ OpenInv
         /\ state = "WRITE_SEC" /\ run.op_state = "WRITE_SERVICE" /\ Writing
         /\ run.serv \in DOMAIN items /\ cur.data_length # 0
         /\ cur \in Sections(Entries(Kinds)) /\ cur.payload \in Seq(Entries(Kinds))
         /\ cur.data_length \in Nat
  <1>1. /\ SdtTypes /\ DriverInv(Entries(Kinds), D_BIT) /\ ExtInv
        /\ Control /\ OpenInv
    BY DEF IInv
  <1>2. state = "WRITE_SEC" /\ run.op_state = "WRITE_SERVICE" /\ Writing
    BY DEF At, Writing
  <1>3. run.serv # 0 /\ cur.data_length # 0
    BY <1>1, <1>2 DEF Control
  <1>4. run.serv \in DOMAIN items
    <2>1. Len(items) \in Nat /\ DOMAIN items = 1 .. Len(items)
      BY <1>1 DEF ExtInv
    <2>2. run.serv \in 0 .. Len(items)
      BY <1>1 DEF SdtTypes
    <2> QED
      BY <1>3, <2>1, <2>2
  <1>5. cur \in Sections(Entries(Kinds)) /\ cur.data_length \in Nat
    BY <1>1, <1>2, CurFacts
  <1>6. cur.payload \in Seq(Entries(Kinds))
    BY <1>5, SectionFieldTypes
  <1> QED
    BY <1>1, <1>2, <1>3, <1>4, <1>5, <1>6

\* A step of the service within its section: it stays the one item open.
LEMMA ServiceStays ==
  ASSUME IInv, At("WRITE_SERVICE"), UNCHANGED << length, services, run >>,
         DriverInv(Entries(Kinds), D_BIT)', ExtInv', OnlyCur, OnlyRun(run.serv),
         state' = "WRITE_SEC", cur'.data_length # 0,
         NEW i, i = run.serv, items'[i].run.op_state \in {"GET_DESC", "WRITE_DESC"},
         desc_loop'.pos # 0, NEW p, p = cur'.payload,
         p[desc_loop'.pos].owner = i, p[Len(p)].owner = i,
         NEW D, NEW F, D = Descriptors, F = Words, PayloadInv(D, F),
         SdtPayload(D, F, p, cur'.data_length, desc_loop'.pos, desc_loop'.len)
  PROVE  IInv'
  <1>1. /\ SdtTypes /\ DriverInv(Entries(Kinds), D_BIT) /\ ExtInv
        /\ Control /\ OpenInv /\ i \in DOMAIN items
        /\ state = "WRITE_SEC" /\ run.op_state = "WRITE_SERVICE" /\ cur.data_length # 0
    BY ServiceFacts
  <1>2. /\ Len(items') = Len(items) /\ DOMAIN items' = DOMAIN items
        /\ \A j \in DOMAIN items : /\ items'[j].descriptors = items[j].descriptors
                                   /\ j # i => items'[j] = items[j]
    BY <1>1 DEF OnlyRun, ExtInv
  <1>3. SdtTypes'
    BY <1>1, <1>2 DEF SdtTypes
  <1>4. Control'
    BY <1>1 DEF Control
  <1>5. OpenInv'
    <2>1. \A j \in DOMAIN items : j # i => ~Open(j)
      BY <1>1 DEF OpenInv
    <2>2. \A j \in DOMAIN items' : Open(j)' => j = run'.serv
      BY <1>2, <2>1 DEF Open
    <2>3. Writing' /\ run'.serv = i
      BY <1>1 DEF Writing
    <2>4. Open(i)'
      BY DEF Open
    <2> QED
      BY <2>2, <2>3, <2>4 DEF OpenInv
  <1>6. D = Descriptors' /\ F = Words'
    BY <1>1, <1>2, SameDescriptors DEF ExtInv
  <1>7. PayloadInv(D, F)'
    <2>1. PICK C : C = Complete(D, F)
      OBVIOUS
    <2>2. SectionsIn(C)
      BY <2>1 DEF PayloadInv
    <2>3. SectionsIn(C)'
      BY <1>1, <2>2, SectionsInContinue
    <2> QED
      BY <2>1, <2>3 DEF PayloadInv
  <1> QED
    BY <1>3, <1>4, <1>5, <1>6, <1>7, KeepIInv

\* Its header is written.
LEMMA ServiceHeadIInv ==
  ASSUME IInv, At("WRITE_SERVICE"),
         ItemWriteHead(run.serv, BASE_LEN, flags(services[run.serv])),
         UNCHANGED << attributes, length, services, run >>
  PROVE  IInv'
  <1>1. PICK i : i = run.serv
    OBVIOUS
  <1>2. /\ SdtTypes /\ DriverInv(Entries(Kinds), D_BIT) /\ ExtInv
        /\ OpenInv /\ state = "WRITE_SEC" /\ Writing
        /\ i \in DOMAIN items /\ cur.data_length # 0
        /\ cur.payload \in Seq(Entries(Kinds)) /\ cur.data_length \in Nat
    BY <1>1, ServiceFacts
  <1>3. PICK header : header = flags(services[i])
    OBVIOUS
  <1>4. header \in ui16 /\ ItemWriteHead(i, BASE_LEN, header)
    BY <1>1, <1>3, FlagsWord
  <1>5. PICK b \in Nat : b = BASE_LEN /\ 2 <= b
    BY DEF BASE_LEN
  <1>6. /\ DriverInv(Entries(Kinds), D_BIT)' /\ ExtInv' /\ OnlyCur /\ OnlyRun(i)
        /\ items[i].run.op_state \in {"INIT", "WRITE_HEAD"}
        /\ \/ state' = "ABORTED"
           \/ /\ state' = "WRITE_SEC" /\ lengthFits(cur, b)
              /\ cur'.payload = PutItem(cur.payload, i, header)
              /\ cur'.data_length = cur.data_length + b /\ cur'.data_length # 0
              /\ desc_loop' = [pos |-> Len(cur.payload) + 2, len |-> 0]
              /\ items'[i].run =
                   [op_state |-> IF items[i].run.d = 0 THEN "GET_DESC" ELSE "WRITE_DESC",
                    d |-> items[i].run.d,
                    d_iter |-> IF items[i].run.op_state = "INIT"
                               THEN Iter(1, Len(items[i].descriptors))
                               ELSE items[i].run.d_iter]
    <2>1. ItemWriteHead(i, b, header)
      BY <1>4, <1>5
    <2> QED
      BY <1>2, <1>4, <1>5, <2>1, SdtNumbers, ItemHeadStep, SMTT(20)
  <1>7. CASE state' = "ABORTED"
    <2>1. stream' = stream
      BY <1>2, <1>4, <1>7 DEF ItemWriteHead, WriteSecContinue, Abort
    <2> QED
      BY <1>6, <1>7, <2>1, AbortedIInv DEF OnlyRun
  <1>8. CASE state' # "ABORTED"
    <2>1. PICK p, q : p = cur.payload /\ q = cur'.payload
      OBVIOUS
    <2>2. /\ p \in Seq(Entries(Kinds)) /\ q = PutItem(p, i, header)
          /\ cur'.data_length = cur.data_length + BASE_LEN /\ cur'.data_length # 0
          /\ desc_loop'.pos = Len(p) + 2 /\ desc_loop'.len = 0
          /\ items'[i].run.op_state \in {"GET_DESC", "WRITE_DESC"} /\ state' = "WRITE_SEC"
      BY <1>2, <1>5, <1>6, <1>8, <2>1
    <2>3. PICK D, F : D = Descriptors /\ F = Words /\ PayloadInv(D, F)
      BY DEF IInv
    <2>4. desc_loop = NoLoop
      BY <1>1, <1>2, <1>6 DEF OpenInv, Open
    <2>5. SdtPayload(D, F, p, cur.data_length, 0, 0)
      BY <1>2, <2>1, <2>3, <2>4 DEF PayloadInv, NoLoop
    <2>6. Descs(D) /\ i \in DOMAIN D /\ DOMAIN services = DOMAIN items
      BY <1>2, <2>3, DescriptorTypes
    <2>7. /\ SdtPayload(D, F, q, cur.data_length + BASE_LEN, Len(p) + 2, 0)
          /\ Len(q) = Len(p) + 2 /\ q[Len(q)].owner = i
      <3>1. PICK n \in Nat : n = cur.data_length
        BY <1>2
      <3>2. /\ p \in Seq(Entries(Kinds)) /\ SdtPayload(D, F, p, n, 0, 0)
            /\ q = PutItem(p, i, header)
        BY <2>2, <2>5, <3>1
      <3>3. /\ SdtPayload(D, F, q, n + BASE_LEN, Len(p) + 2, 0)
            /\ Len(q) = Len(p) + 2 /\ q[Len(q)].owner = i
        BY ONLY n \in Nat, <1>4, <2>6, <3>2, PayloadHead
      <3> QED
        BY <3>1, <3>3
    <2>8. SdtPayload(D, F, q, cur'.data_length, desc_loop'.pos, desc_loop'.len)
      BY <2>2, <2>7
    <2>9. desc_loop'.pos # 0 /\ q[desc_loop'.pos].owner = i /\ q[Len(q)].owner = i
      BY <2>2, <2>7
    <2> QED
      BY <1>1, <1>6, <2>1, <2>2, <2>3, <2>8, <2>9, ServiceStays
  <1> QED
    BY <1>7, <1>8
\* What is known of its loop while the service is open.
LEMMA OpenFacts ==
  ASSUME IInv, At("WRITE_SERVICE"), Open(run.serv),
         NEW D, NEW F, D = Descriptors, F = Words, PayloadInv(D, F)
  PROVE  /\ desc_loop.pos \in Nat /\ desc_loop.pos # 0 /\ desc_loop.len \in ui16
         /\ cur.payload[desc_loop.pos].owner = run.serv
         /\ cur.payload[Len(cur.payload)].owner = run.serv
         /\ SdtPayload(D, F, cur.payload, cur.data_length, desc_loop.pos, desc_loop.len)
         /\ Descs(D) /\ run.serv \in DOMAIN D /\ D[run.serv] = items[run.serv].descriptors
         /\ services[run.serv] \in Services
         /\ \A n \in ui16 : F[run.serv][n] = serviceLoopLen(services[run.serv], n)
  <1>1. /\ SdtTypes /\ ExtInv /\ OpenInv /\ Writing /\ run.serv \in DOMAIN items
        /\ state = "WRITE_SEC" /\ cur.data_length # 0
    BY ServiceFacts
  <1>2. /\ desc_loop.pos # 0 /\ cur.payload[desc_loop.pos].owner = run.serv
        /\ cur.payload[Len(cur.payload)].owner = run.serv
    BY <1>1 DEF OpenInv
  <1>3. desc_loop.pos \in Nat /\ desc_loop.len \in ui16
    BY <1>1 DEF ExtInv
  <1>4. SdtPayload(D, F, cur.payload, cur.data_length, desc_loop.pos, desc_loop.len)
    BY <1>1 DEF PayloadInv
  <1>5. /\ Descs(D) /\ run.serv \in DOMAIN D /\ D[run.serv] = items[run.serv].descriptors
        /\ services[run.serv] \in Services
        /\ \A n \in ui16 : F[run.serv][n] = serviceLoopLen(services[run.serv], n)
    BY <1>1, DescriptorTypes
  <1> QED
    BY <1>2, <1>3, <1>4, <1>5

\* Its next descriptor is fetched.
LEMMA ServiceFetchIInv ==
  ASSUME IInv, At("WRITE_SERVICE"), ItemGetDescFits(run.serv),
         UNCHANGED << attributes, length, services, run >>
  PROVE  IInv'
  <1>1. PICK i : i = run.serv
    OBVIOUS
  <1>2. /\ DriverInv(Entries(Kinds), D_BIT) /\ ExtInv
        /\ state = "WRITE_SEC" /\ i \in DOMAIN items /\ cur.data_length # 0
    BY <1>1, ServiceFacts
  <1>3. ItemGetDescFits(i)
    BY <1>1
  <1>4. /\ DriverInv(Entries(Kinds), D_BIT)' /\ ExtInv' /\ OnlyRun(i)
        /\ UNCHANGED << stream, state, builds, first, cur_sec, sec_bytes, desc_loop >>
        /\ items[i].run.op_state = "GET_DESC"
        /\ items'[i].run =
             [op_state |-> "WRITE_DESC", d |-> items[i].run.d_iter,
              d_iter |-> Iter(items[i].run.d_iter + 1, Len(items[i].descriptors))]
    BY <1>2, <1>3, ItemFitsStep
  <1>5. PICK D, F : D = Descriptors /\ F = Words /\ PayloadInv(D, F)
    BY DEF IInv
  <1>6. Open(run.serv)
    BY <1>1, <1>4 DEF Open
  <1>7. /\ desc_loop.pos # 0 /\ cur.payload[desc_loop.pos].owner = i
        /\ cur.payload[Len(cur.payload)].owner = i
        /\ SdtPayload(D, F, cur.payload, cur.data_length, desc_loop.pos, desc_loop.len)
    BY <1>1, <1>5, <1>6, OpenFacts
  <1>8. OnlyCur /\ cur' = cur
    BY <1>4 DEF OnlyCur, cur
  <1>9. PICK p : p = cur'.payload
    OBVIOUS
  <1>10. /\ items'[i].run.op_state \in {"GET_DESC", "WRITE_DESC"} /\ desc_loop'.pos # 0
         /\ p[desc_loop'.pos].owner = i /\ p[Len(p)].owner = i
         /\ SdtPayload(D, F, p, cur'.data_length, desc_loop'.pos, desc_loop'.len)
         /\ state' = "WRITE_SEC" /\ cur'.data_length # 0
    BY <1>2, <1>4, <1>7, <1>8, <1>9
  <1> QED
    BY <1>1, <1>4, <1>5, <1>8, <1>9, <1>10, ServiceStays

\* It is written.
LEMMA ServiceDescIInv ==
  ASSUME IInv, At("WRITE_SERVICE"), ItemWriteDesc(run.serv),
         UNCHANGED << attributes, length, services, run >>
  PROVE  IInv'
  <1>1. PICK i : i = run.serv
    OBVIOUS
  <1>2. /\ DriverInv(Entries(Kinds), D_BIT) /\ ExtInv
        /\ state = "WRITE_SEC" /\ i \in DOMAIN items /\ cur.data_length # 0
        /\ cur.payload \in Seq(Entries(Kinds)) /\ cur.data_length \in Nat
    BY <1>1, ServiceFacts
  <1>3. ItemWriteDesc(i)
    BY <1>1
  <1>4. /\ DriverInv(Entries(Kinds), D_BIT)' /\ ExtInv' /\ OnlyCur /\ OnlyRun(i)
        /\ items[i].run.op_state = "WRITE_DESC"
        /\ items[i].run.d \in DOMAIN items[i].descriptors
        /\ \/ state' = "ABORTED"
           \/ /\ state' = "WRITE_SEC"
              /\ cur'.payload = Append(cur.payload, Entry("desc", i, items[i].run.d))
              /\ cur'.data_length = cur.data_length + ItemDescLen(i)
              /\ cur'.data_length # 0
              /\ desc_loop'
                   = [pos |-> desc_loop.pos, len |-> (desc_loop.len + ItemDescLen(i)) % 65536]
              /\ items'[i].run = [op_state |-> "GET_DESC", d |-> items[i].run.d,
                                  d_iter |-> items[i].run.d_iter]
    BY <1>2, <1>3, SdtNumbers, ItemDescStep
  <1>5. CASE state' = "ABORTED"
    <2>1. stream' = stream
      BY <1>2, <1>3, <1>5 DEF ItemWriteDesc, WriteSecContinue, Abort
    <2> QED
      BY <1>4, <1>5, <2>1, AbortedIInv DEF OnlyRun
  <1>6. CASE state' # "ABORTED"
    <2>1. PICK D, F : D = Descriptors /\ F = Words /\ PayloadInv(D, F)
      BY DEF IInv
    <2>2. Open(run.serv)
      BY <1>1, <1>4 DEF Open
    <2>3. PICK l, len, d, p, q, n :
            /\ l = desc_loop.pos /\ len = desc_loop.len /\ d = items[i].run.d
            /\ p = cur.payload /\ q = cur'.payload /\ n = cur.data_length
      OBVIOUS
    <2>4. /\ l \in Nat /\ l # 0 /\ len \in ui16 /\ p[l].owner = i /\ p[Len(p)].owner = i
          /\ SdtPayload(D, F, p, n, l, len)
          /\ Descs(D) /\ i \in DOMAIN D /\ D[i] = items[i].descriptors
      BY <1>1, <2>1, <2>2, <2>3, OpenFacts
    <2>5. d \in DOMAIN D[i] /\ d \in ui16 /\ ItemDescLen(i) = D[i][d]
      <3>1. d \in 1 .. Len(items[i].descriptors) /\ 2 * Len(items[i].descriptors) <= length
            /\ Len(items[i].descriptors) \in Nat
        BY <1>2, <1>4, <2>3, ItemFacts
      <3>2. length \in ui16
        BY <1>2 DEF DriverInv, DriverTypes, PsiTypeOK
      <3>3. d \in ui16
        BY <3>1, <3>2, Ui16
      <3> QED
        BY <1>4, <2>3, <2>4, <3>3 DEF ItemDescLen
    <2>6. /\ p \in Seq(Entries(Kinds)) /\ n \in Nat /\ q = Append(p, Entry("desc", i, d))
          /\ cur'.data_length = n + D[i][d] /\ cur'.data_length # 0 /\ state' = "WRITE_SEC"
          /\ desc_loop' = [pos |-> l, len |-> (len + D[i][d]) % 65536]
          /\ items'[i].run.op_state \in {"GET_DESC", "WRITE_DESC"}
      BY <1>2, <1>4, <1>6, <2>3, <2>5
    <2>7. /\ SdtPayload(D, F, q, n + D[i][d], l, len + D[i][d])
          /\ l \in 1 .. Len(p) /\ len \in Nat /\ HEADER_LEN + 3 + len <= n
      <3>1. /\ Descs(D) /\ i \in DOMAIN D /\ d \in DOMAIN D[i] /\ d \in ui16 /\ l \in Nat /\ l # 0
            /\ p \in Seq(Entries(Kinds)) /\ n \in Nat /\ SdtPayload(D, F, p, n, l, len)
            /\ p[Len(p)].owner = i
        BY <2>4, <2>5, <2>6
      <3>2. SdtPayload(D, F, Append(p, Entry("desc", i, d)), n + D[i][d], l, len + D[i][d])
        BY ONLY <3>1, PayloadDesc
      <3>3. l \in 1 .. Len(p) /\ len \in Nat /\ HEADER_LEN + 3 + len <= n
        BY ONLY <3>1, PayloadOpen
      <3> QED
        BY <2>6, <3>2, <3>3
    <2>8. Len(q) = Len(p) + 1 /\ q[Len(q)].owner = i /\ q[l] = p[l]
      <3>1. PICK x : x = Entry("desc", i, d)
        OBVIOUS
      <3>2. x \in Entries(Kinds) /\ x.owner = i
        BY <2>4, <2>5, <3>1, ItemNumber, SdtNumbers, ItemEntry DEF ItemKinds
      <3>3. q = Append(p, x) /\ p \in Seq(Entries(Kinds)) /\ l \in 1 .. Len(p)
        BY <2>6, <2>7, <3>1
      <3> QED
        BY ONLY <3>2, <3>3
    <2>9. (len + D[i][d]) % 65536 = len + D[i][d]
      <3>1. D[i][d] \in Nat
        <4>1. D[i] \in Seq(DescLength)
          BY <2>4 DEF Descs
        <4>2. D[i][d] \in DescLength
          BY <2>5, <4>1
        <4> QED
          BY <4>2, DescLengths
      <3>2. cur'.data_length < 65536
        <4>1. cur' \in Sections(Entries(Kinds))
          <5>1. Len(stream) \in Nat /\ first \in 1 .. Len(stream)
            BY <1>2, CurFacts
          <5>2. stream' \in Seq(Sections(Entries(Kinds))) /\ Len(stream') = Len(stream)
            BY <1>4 DEF DriverInv, DriverTypes, OnlyCur
          <5> QED
            BY <5>1, <5>2 DEF cur
        <4> QED
          BY <4>1, SectionFieldTypes
      <3>3. PICK v : v = D[i][d]
        OBVIOUS
      <3>4. v \in Nat /\ n \in Nat /\ len \in Nat /\ n + v < 65536 /\ 8 + 3 + len <= n
        BY <2>6, <2>7, <3>1, <3>2, <3>3 DEF HEADER_LEN
      <3>5. (len + v) % 65536 = len + v
        BY ONLY <3>4
      <3> QED
        BY <3>3, <3>5
    <2>10. /\ desc_loop'.pos = l /\ desc_loop'.len = len + D[i][d]
      BY <2>6, <2>9
    <2>11. /\ SdtPayload(D, F, q, cur'.data_length, desc_loop'.pos, desc_loop'.len)
           /\ desc_loop'.pos # 0 /\ q[desc_loop'.pos].owner = i /\ q[Len(q)].owner = i
      BY <2>4, <2>6, <2>7, <2>8, <2>10
    <2>12. q = cur'.payload
      BY <2>3
    <2>13. /\ items'[i].run.op_state \in {"GET_DESC", "WRITE_DESC"}
           /\ state' = "WRITE_SEC" /\ cur'.data_length # 0
      BY <2>6
    <2> QED
      BY <1>1, <1>4, <2>1, <2>11, <2>12, <2>13, ServiceStays
  <1> QED
    BY <1>5, <1>6
\* It returns with its loop closed.
LEMMA PatchedSection ==
  ASSUME IInv, At("WRITE_SERVICE"), Open(run.serv),
         NEW D, NEW F, D = Descriptors, F = Words, PayloadInv(D, F),
         NEW s, s = ServiceLoopPatched
  PROVE  /\ s \in Sections(Entries(Kinds)) /\ s.size = cur.size /\ s.crc = cur.crc
         /\ s.data_length = cur.data_length /\ s.section_number = cur.section_number
         /\ SdtPayload(D, F, s.payload, s.data_length, 0, 0)
  <1>1. /\ cur \in Sections(Entries(Kinds)) /\ cur.payload \in Seq(Entries(Kinds))
    BY ServiceFacts
  <1>2. PICK l, len, i, p : /\ l = desc_loop.pos /\ len = desc_loop.len /\ i = run.serv
                            /\ p = cur.payload
    OBVIOUS
  <1>3. /\ l \in Nat /\ l # 0 /\ len \in ui16 /\ p[l].owner = i
        /\ SdtPayload(D, F, p, cur.data_length, l, len)
        /\ Descs(D) /\ services[i] \in Services
        /\ F[i][len] = serviceLoopLen(services[i], len)
    BY <1>2, OpenFacts
  <1>4. PICK w : w = serviceLoopLen(services[i], len)
    OBVIOUS
  <1>5. w \in ui16 /\ w = F[p[l].owner][len] /\ len \in Nat
    <2>1. len \in Nat
      BY <1>3, Ui16
    <2> QED
      BY <1>3, <1>4, <2>1, LoopWord
  <1>6. s = overwrite(cur, l, w)
    BY <1>2, <1>4 DEF ServiceLoopPatched
  <1>7. /\ s \in Sections(Entries(Kinds)) /\ s.size = cur.size /\ s.crc = cur.crc
        /\ s.data_length = cur.data_length /\ s.section_number = cur.section_number
        /\ s.payload = [p EXCEPT ![l].n = w]
    BY <1>1, <1>2, <1>3, <1>5, <1>6, OverwriteFields
  <1>8. PICK q, n : q = s.payload /\ n = cur.data_length
    OBVIOUS
  <1>9. /\ p \in Seq(Entries(Kinds)) /\ q \in Seq(Entries(Kinds)) /\ q = [p EXCEPT ![l].n = w]
        /\ SdtPayload(D, F, p, n, l, len)
    <2>1. s \in Sections(Entries(Kinds))
      BY <1>7
    <2>2. s.payload \in Seq(Entries(Kinds))
      BY ONLY <2>1, SectionFieldTypes
    <2> QED
      BY <1>1, <1>2, <1>3, <1>7, <1>8, <2>2
  <1>10. SdtPayload(D, F, q, n, 0, 0)
    <2>1. SdtPayload(D, F, q, n, 0, 0)
      BY ONLY <1>3, <1>5, <1>9, PayloadPatch
    <2> QED
      BY <2>1
  <1> QED
    BY <1>1, <1>2, <1>7, <1>8, <1>10

\* The items are none of them open once the service's is not.
LEMMA ServiceCloses ==
  ASSUME IInv, At("WRITE_SERVICE"), NEW i, i = run.serv, OnlyRun(i), ~Open(i)'
  PROVE  /\ \A j \in DOMAIN items' : ~Open(j)'
         /\ Len(items') = Len(items)
         /\ \A j \in DOMAIN items : items'[j].descriptors = items[j].descriptors
  <1>1. /\ ExtInv /\ OpenInv /\ state = "WRITE_SEC"
    BY ServiceFacts
  <1>2. /\ Len(items') = Len(items) /\ DOMAIN items' = DOMAIN items
        /\ \A j \in DOMAIN items : /\ items'[j].descriptors = items[j].descriptors
                                   /\ j # i => items'[j] = items[j]
    BY <1>1 DEF OnlyRun, ExtInv
  <1>3. \A j \in DOMAIN items : j # i => ~Open(j)
    BY <1>1 DEF OpenInv
  <1>4. \A j \in DOMAIN items' : ~Open(j)'
    BY <1>2, <1>3 DEF Open
  <1> QED
    BY <1>2, <1>4

\* A descriptor is left to the next section.
LEMMA ServiceFullIInv ==
  ASSUME IInv, ServiceFull
  PROVE  IInv'
  <1>1. /\ At("WRITE_SERVICE") /\ ItemGetDescFull(run.serv)
        /\ run' = [run EXCEPT !.op_state = "WRITE_HEAD"] /\ Leave(FALSE, ServiceLoopPatched)
        /\ UNCHANGED << attributes, length, services >>
    BY DEF ServiceFull
  <1>2. /\ SdtTypes /\ DriverInv(Entries(Kinds), D_BIT) /\ ExtInv
        /\ state = "WRITE_SEC" /\ run.serv \in DOMAIN items /\ cur.data_length # 0
    BY <1>1, ServiceFacts
  <1>3. PICK i : i = run.serv
    OBVIOUS
  <1>4. /\ ExtInv' /\ OnlyRun(i) /\ desc_loop' = NoLoop
        /\ items[i].run.op_state = "GET_DESC" /\ items'[i].run.op_state = "WRITE_HEAD"
    <2>1. ItemGetDescFull(i) /\ i \in DOMAIN items /\ length' = length
      BY <1>1, <1>2, <1>3
    <2>2. /\ ExtInv' /\ OnlyRun(i) /\ desc_loop' = NoLoop
          /\ items[i].run.op_state = "GET_DESC"
          /\ items'[i].run =
               [op_state |-> "WRITE_HEAD", d |-> items[i].run.d_iter,
                d_iter |-> Iter(items[i].run.d_iter + 1, Len(items[i].descriptors))]
      BY <1>2, <2>1, ItemFullStep
    <2> QED
      BY <2>2
  <1>5. Open(run.serv) /\ ~Open(i)'
    BY <1>3, <1>4 DEF Open
  <1>6. PICK D, F : D = Descriptors /\ F = Words /\ PayloadInv(D, F)
    BY DEF IInv
  <1>7. PICK s : s = ServiceLoopPatched
    OBVIOUS
  <1>8. /\ s \in Sections(Entries(Kinds)) /\ s.size = cur.size /\ s.crc = cur.crc
        /\ s.data_length = cur.data_length /\ s.section_number = cur.section_number
        /\ SdtPayload(D, F, s.payload, s.data_length, 0, 0)
    BY <1>1, <1>5, <1>6, <1>7, PatchedSection
  <1>9. /\ \A j \in DOMAIN items' : ~Open(j)'
        /\ Len(items') = Len(items)
        /\ \A j \in DOMAIN items : items'[j].descriptors = items[j].descriptors
    BY <1>1, <1>3, <1>4, <1>5, ServiceCloses
  <1>10. SdtTypes' /\ run'.op_state = "WRITE_HEAD"
    BY <1>1, <1>2, <1>9 DEF SdtTypes
  <1>11. WriteSecReturn(FALSE, s, sec_bytes, D_BIT)
    BY <1>1, <1>7 DEF Leave
  <1>12. PICK done \in BOOLEAN : done = FALSE
    OBVIOUS
  <1>13. WriteSecReturn(done, s, sec_bytes, D_BIT) /\ run'.op_state \in {"INIT", "WRITE_HEAD"}
    BY <1>10, <1>11, <1>12
  <1> QED
    BY <1>1, <1>2, <1>4, <1>6, <1>8, <1>9, <1>10, <1>13, LeaveIInv

\* The service has no more.
LEMMA ServiceDoneIInv ==
  ASSUME IInv, ServiceDone
  PROVE  IInv'
  <1>1. /\ At("WRITE_SERVICE") /\ ItemGetDescEnd(run.serv)
        /\ run' = [run EXCEPT !.op_state = "GET_SERVICE"]
        /\ WriteSecContinue(ServiceLoopPatched, sec_bytes)
        /\ UNCHANGED << attributes, length, services >>
    BY DEF ServiceDone
  <1>2. /\ SdtTypes /\ DriverInv(Entries(Kinds), D_BIT) /\ ExtInv
        /\ Control /\ OpenInv
        /\ state = "WRITE_SEC" /\ run.serv \in DOMAIN items /\ cur.data_length # 0
    BY <1>1, ServiceFacts
  <1>3. PICK i : i = run.serv
    OBVIOUS
  <1>4. /\ ExtInv' /\ OnlyRun(i) /\ desc_loop' = NoLoop
        /\ items[i].run.op_state = "GET_DESC" /\ items'[i].run.op_state = "INIT"
    <2>1. ItemGetDescEnd(i) /\ i \in DOMAIN items /\ length' = length
      BY <1>1, <1>2, <1>3
    <2> QED
      BY <1>2, <2>1, ItemEndStep DEF ItemContext
  <1>5. Open(run.serv) /\ ~Open(i)'
    BY <1>3, <1>4 DEF Open
  <1>6. PICK D, F : D = Descriptors /\ F = Words /\ PayloadInv(D, F)
    BY DEF IInv
  <1>7. PICK s : s = ServiceLoopPatched
    OBVIOUS
  <1>8. /\ s \in Sections(Entries(Kinds)) /\ s.size = cur.size /\ s.crc = cur.crc
        /\ s.data_length = cur.data_length /\ s.section_number = cur.section_number
        /\ SdtPayload(D, F, s.payload, s.data_length, 0, 0)
    BY <1>1, <1>5, <1>6, <1>7, PatchedSection
  <1>9. /\ \A j \in DOMAIN items' : ~Open(j)'
        /\ Len(items') = Len(items)
        /\ \A j \in DOMAIN items : items'[j].descriptors = items[j].descriptors
    BY <1>1, <1>3, <1>4, <1>5, ServiceCloses
  <1>10. SdtTypes' /\ run'.op_state = "GET_SERVICE"
    BY <1>1, <1>2, <1>9 DEF SdtTypes
  <1>11. /\ DriverInv(Entries(Kinds), D_BIT)' /\ cur' = s /\ state' = "WRITE_SEC"
    <2>1. PICK n : n = sec_bytes
      OBVIOUS
    <2>2. /\ n \in ui16 /\ cur.data_length = n + 3 /\ HEADER_LEN <= cur.data_length
          /\ cur.data_length <= cur.size /\ cur.section_number = cur_sec
      BY <1>2, <2>1, CountedFacts DEF DriverInv, DriverTypes, PsiTypeOK
    <2>3. WriteSecContinue(s, n)
      BY <1>1, <1>7, <2>1
    <2> QED
      BY <1>1, <1>2, <1>8, <2>2, <2>3, ContinueDriver
  <1>12. OnlyCur
    <2>1. stream' = ReplaceCur(s) /\ UNCHANGED << first, builds, cur_sec >>
      BY <1>1, <1>7 DEF WriteSecContinue
    <2>2. /\ Len(stream') = Len(stream) /\ \A j \in 1 .. Len(stream) - 1 : stream'[j] = stream[j]
      BY <1>2, <1>8, <2>1, ReplaceCurFrame
    <2> QED
      BY <2>1, <2>2 DEF OnlyCur
  <1>13. Control'
    BY <1>2, <1>8, <1>10, <1>11 DEF Control
  <1>14. OpenInv'
    <2>1. ~Writing'
      BY <1>10 DEF Writing
    <2> QED
      BY <1>4, <1>9, <2>1 DEF OpenInv
  <1>15. D = Descriptors' /\ F = Words'
    BY <1>1, <1>2, <1>4, <1>6, <1>9, SameDescriptors DEF ExtInv
  <1>16. PayloadInv(D, F)'
    <2>1. PICK C : C = Complete(D, F)
      OBVIOUS
    <2>2. SectionsIn(C)
      BY <1>6, <2>1 DEF PayloadInv
    <2>3. SectionsIn(C)'
      BY <1>2, <1>11, <1>12, <2>2, SectionsInContinue
    <2>4. desc_loop'.pos = 0 /\ desc_loop'.len = 0
      BY <1>4 DEF NoLoop
    <2>5. SdtPayload(D, F, cur'.payload, cur'.data_length, desc_loop'.pos, desc_loop'.len)
      BY <1>8, <1>11, <2>4
    <2> QED
      BY <2>1, <2>3, <2>5 DEF PayloadInv
  <1> QED
    BY <1>4, <1>10, <1>11, <1>13, <1>14, <1>15, <1>16, KeepIInv
-----------------------------------------------------------------------------
(* The driver's steps, and the application's.                              *)

\* Between sections no service is written.
LEMMA QuietIInv ==
  ASSUME IInv, state \in {"IDLE", "MALLOC_SEC", "END_TABLE"},
         UNCHANGED << items, desc_loop, services, run >>,
         DriverInv(Entries(Kinds), D_BIT)', ExtInv',
         state' = "WRITE_SEC" => cur'.data_length = 0,
         NEW D, NEW F, D = Descriptors, F = Words, SectionsIn(Complete(D, F))'
  PROVE  IInv'
  <1>1. SdtTypes /\ Control /\ OpenInv
    BY DEF IInv
  <1>2. run.op_state \in {"INIT", "WRITE_HEAD"}
    BY <1>1 DEF Control
  <1>3. SdtTypes' /\ Control'
    BY <1>1, <1>2 DEF SdtTypes, Control
  <1>4. desc_loop = NoLoop /\ \A i \in DOMAIN items : ~Open(i)
    BY <1>1, <1>2, NoneOpen DEF Writing
  <1>5. OpenInv'
    BY <1>2, <1>4 DEF OpenInv, Open, Writing, NoLoop
  <1>6. D = Descriptors' /\ F = Words'
    BY DEF Descriptors, Words
  <1>7. PayloadInv(D, F)'
    BY DEF PayloadInv
  <1> QED
    BY <1>3, <1>5, <1>6, <1>7, KeepIInv

\* The application sets the table's attributes or takes a new stream.
LEMMA ConfigureIInv ==
  ASSUME IInv, Configure, UNCHANGED << extVars, services, run >>
  PROVE  IInv'
  <1>1. DriverInv(Entries(Kinds), D_BIT) /\ ExtInv
    BY DEF IInv
  <1>2. /\ state = "IDLE" /\ state' = state /\ length' = length
        /\ \/ stream' = stream /\ first' = first /\ builds' = builds
           \/ stream' = << >> /\ first' = 1 /\ builds' = 0
    BY ConfigureFrame
  <1>3. DriverInv(Entries(Kinds), D_BIT)'
    BY <1>1, ConfigureDriver
  <1>4. ExtInv'
    <2>1. length \in Int
      BY <1>1, Ui16 DEF DriverInv, DriverTypes, PsiTypeOK
    <2> QED
      BY <1>1, <1>2, <2>1, LongerExt DEF extVars
  <1>5. PICK D, F, C : D = Descriptors /\ F = Words /\ C = Complete(D, F)
    OBVIOUS
  <1>6. SectionsIn(C)'
    BY <1>2 DEF SectionsIn
  <1> QED
    BY <1>1, <1>2, <1>3, <1>4, <1>5, <1>6, QuietIInv DEF extVars

\* A build starts.
LEMMA BuildIInv ==
  ASSUME IInv, buildSections, UNCHANGED << extVars, services, run >>
  PROVE  IInv'
  <1>1. DriverInv(Entries(Kinds), D_BIT) /\ ExtInv
    BY DEF IInv
  <1>2. /\ state = "IDLE" /\ state' = "MALLOC_SEC" /\ length' = length /\ stream' = stream
    BY DEF buildSections
  <1>3. DriverInv(Entries(Kinds), D_BIT)'
    BY <1>1, BuildSectionsDriver
  <1>4. ExtInv'
    <2>1. length \in Int
      BY <1>1, Ui16 DEF DriverInv, DriverTypes, PsiTypeOK
    <2> QED
      BY <1>1, <1>2, <2>1, LongerExt DEF extVars
  <1>5. PICK D, F, C : D = Descriptors /\ F = Words /\ C = Complete(D, F)
    OBVIOUS
  <1>6. SectionsIn(C)'
    BY <1>1, SectionsInBegin
  <1> QED
    BY <1>1, <1>2, <1>3, <1>4, <1>5, <1>6, QuietIInv DEF extVars

\* A section is allocated.
LEMMA MallocIInv ==
  ASSUME IInv, MallocSec, UNCHANGED << extVars, services, run >>
  PROVE  IInv'
  <1>1. DriverInv(Entries(Kinds), D_BIT) /\ ExtInv
    BY DEF IInv
  <1>2. /\ state = "MALLOC_SEC" /\ state' = "WRITE_SEC" /\ length' = length
    BY DEF MallocSec
  <1>3. DriverInv(Entries(Kinds), D_BIT)'
    BY <1>1, MallocSecDriver
  <1>4. ExtInv'
    <2>1. length \in Int
      BY <1>1, Ui16 DEF DriverInv, DriverTypes, PsiTypeOK
    <2> QED
      BY <1>1, <1>2, <2>1, LongerExt DEF extVars
  <1>5. /\ stream \in Seq(Sections(Entries(Kinds)))
        /\ stream' \in Seq(Sections(Entries(Kinds))) /\ Len(stream') = Len(stream) + 1
        /\ \A i \in 1 .. Len(stream) : stream'[i] = stream[i]
        /\ cur'.data_length = 0 /\ cur'.payload = << >> /\ cur' = stream'[Len(stream) + 1]
    BY <1>1, MallocSecFrame DEF DriverInv, DriverTypes
  <1>6. PICK D, F, C : D = Descriptors /\ F = Words /\ C = Complete(D, F) /\ SectionsIn(C)
    BY DEF IInv, PayloadInv
  <1>7. SectionsIn(C)'
    BY <1>1, <1>6, SectionsInMalloc
  <1> QED
    BY <1>1, <1>2, <1>3, <1>4, <1>5, <1>6, <1>7, QuietIInv DEF extVars

\* The build is completed.
LEMMA EndIInv ==
  ASSUME IInv, EndTable, UNCHANGED << extVars, services, run >>
  PROVE  IInv'
  <1>1. DriverInv(Entries(Kinds), D_BIT) /\ ExtInv
    BY DEF IInv
  <1>2. state = "END_TABLE" /\ length' = length
    BY DEF EndTable
  <1>3. DriverInv(Entries(Kinds), D_BIT)'
    BY <1>1, EndTableDriver
  <1>4. ExtInv'
    <2>1. length \in Int
      BY <1>1, Ui16 DEF DriverInv, DriverTypes, PsiTypeOK
    <2> QED
      BY <1>1, <1>2, <2>1, LongerExt DEF extVars
  <1>5. CASE state' = "ABORTED"
    <2>1. stream' = stream
      BY <1>5 DEF EndTable, Abort
    <2> QED
      BY <1>3, <1>4, <1>5, <2>1, AbortedIInv DEF extVars
  <1>6. CASE state' # "ABORTED"
    <2>1. /\ state' = "IDLE" /\ stream' \in Seq(Sections(Entries(Kinds)))
          /\ stream \in Seq(Sections(Entries(Kinds))) /\ Len(stream') = Len(stream)
          /\ \A i \in 1 .. Len(stream) : i < first => stream'[i] = stream[i]
          /\ \A i \in Table : stream'[i].payload = stream[i].payload
      BY <1>1, <1>6, EndTableFrame DEF DriverInv, DriverTypes
    <2>2. PICK D, F, C : D = Descriptors /\ F = Words /\ C = Complete(D, F)
      OBVIOUS
    <2>3. SectionsIn(C)'
      BY <2>1 DEF SectionsIn
    <2> QED
      BY <1>1, <1>2, <1>3, <1>4, <2>1, <2>2, <2>3, QuietIInv DEF extVars
  <1> QED
    BY <1>5, <1>6

\* Whatever the application adds, it adds between builds.
LEMMA AddIInv ==
  ASSUME IInv, state = "IDLE", UNCHANGED << attributes, driver, desc_loop >>,
         SdtTypes', DriverInv(Entries(Kinds), D_BIT)', ExtInv', run' = run,
         \A j \in DOMAIN items' : ~Open(j)'
  PROVE  IInv'
  <1>1. Control /\ OpenInv
    BY DEF IInv
  <1>2. UNCHANGED << state, stream >>
    BY DEF driver
  <1>3. run.op_state \in {"INIT", "WRITE_HEAD"} /\ desc_loop = NoLoop
    BY <1>1, NoneOpen DEF Control, Writing
  <1>4. Control'
    BY <1>2, <1>3 DEF Control
  <1>5. OpenInv'
    BY <1>2, <1>3 DEF OpenInv, Writing, NoLoop
  <1>6. PICK D, F : D = Descriptors' /\ F = Words'
    OBVIOUS
  <1>7. PayloadInv(D, F)'
    BY <1>2 DEF PayloadInv, SectionsIn
  <1> QED
    BY <1>4, <1>5, <1>6, <1>7, KeepIInv

\* A service's running status is cut to its three bits.
LEMMA ServiceType ==
  ASSUME NEW args \in ServiceArgs
  PROVE  [args EXCEPT !.running_status = threeBits(@)] \in Services
  <1>1. args \in [running_status : ui8, eit_schedule : BOOLEAN,
                  eit_present_following : BOOLEAN, free_ca_mode : BOOLEAN]
    BY SdtArgs
  <1>2. args.running_status \in Int
    BY <1>1, Ui8
  <1>3. threeBits(args.running_status) \in 0 .. 7
    BY <1>2 DEF threeBits
  <1> QED
    BY <1>1, <1>3 DEF Services

\* A service is added.
LEMMA AddServiceIInv ==
  ASSUME IInv, NEW sid \in ItemIds, NEW args \in ServiceArgs, addService(sid, args)
  PROVE  IInv'
  <1>1. SdtTypes /\ DriverInv(Entries(Kinds), D_BIT) /\ ExtInv /\ Control /\ OpenInv
    BY DEF IInv
  <1>2. PICK x : x = [args EXCEPT !.running_status = threeBits(@)]
    OBVIOUS
  <1>3. x \in Services /\ services' = Append(services, x) /\ run' = run
    BY <1>2, ServiceType DEF addService
  <1>4. /\ DriverInv(Entries(Kinds), D_BIT)' /\ ExtInv'
        /\ UNCHANGED << attributes, driver, desc_loop >> /\ state = "IDLE"
        /\ Len(items') = Len(items) + 1
        /\ \A j \in DOMAIN items : items'[j] = items[j]
        /\ items'[Len(items) + 1]
             = [id |-> sid, descriptors |-> << >>, run |-> ItemContext]
    <2>1. PICK list, b : list = DOMAIN items /\ b = BASE_LEN
      OBVIOUS
    <2>2. addItem(list, sid, sid, b) /\ sid \in ui16 /\ b \in Nat
      BY <2>1, ExtPsiTableArgs DEF addService, BASE_LEN
    <2> QED
      BY <1>1, <2>2, AddItemExt
  <1>5. PICK n \in Nat : n = Len(items) /\ DOMAIN items = 1 .. n /\ DOMAIN items' = 1 .. n + 1
    BY <1>1, <1>4 DEF ExtInv
  <1>6. SdtTypes'
    <2>1. /\ services' \in Seq(Services) /\ Len(services') = Len(items')
      BY <1>1, <1>3, <1>4, <1>5 DEF SdtTypes
    <2>2. 0 .. n \subseteq 0 .. n + 1 /\ 1 .. n + 1 \subseteq 1 .. n + 1 + 1
      OBVIOUS
    <2> QED
      BY <1>1, <1>3, <1>4, <1>5, <2>1, <2>2 DEF SdtTypes
  <1>7. \A j \in DOMAIN items' : ~Open(j)'
    <2>1. \A j \in DOMAIN items : ~Open(j)
      BY <1>1, <1>4, NoneOpen DEF Writing
    <2>2. ASSUME NEW j \in 1 .. n + 1 PROVE j = n + 1 \/ j \in 1 .. n
      OBVIOUS
    <2>3. items'[n + 1].run.op_state = "INIT"
      BY <1>4, <1>5 DEF ItemContext
    <2>4. \A j \in 1 .. n : items'[j] = items[j]
      BY <1>4, <1>5
    <2> QED
      BY <1>5, <2>1, <2>2, <2>3, <2>4 DEF Open
  <1> QED
    BY <1>3, <1>4, <1>6, <1>7, AddIInv

\* A descriptor is added to a service.
LEMMA AddServiceDescIInv ==
  ASSUME IInv, addServiceDesc
  PROVE  IInv'
  <1>1. SdtTypes /\ DriverInv(Entries(Kinds), D_BIT) /\ ExtInv /\ Control /\ OpenInv
    BY DEF IInv
  <1>2. PICK d_len \in DescLens : \/ addLastItemDesc(DOMAIN items, d_len)
                                  \/ \E sid \in ItemIds : addItemDesc(DOMAIN items, sid, d_len)
    BY DEF addServiceDesc
  <1>3. d_len \in DescLength /\ state = "IDLE" /\ UNCHANGED << services, run >>
    BY <1>2, ExtPsiTableArgs DEF addServiceDesc, addLastItemDesc, addItemDesc
  <1>4. PICK list : list = DOMAIN items
    OBVIOUS
  <1>5. \E i \in DOMAIN items : addDescTo(i, d_len)
    <2>1. list \subseteq DOMAIN items
      BY <1>4
    <2>2. CASE addLastItemDesc(list, d_len)
      <3>1. Max(list) \in list
        BY <1>1, <2>1, <2>2, Found DEF addLastItemDesc
      <3> QED
        BY <2>1, <2>2, <3>1 DEF addLastItemDesc
    <2>3. CASE \E sid \in ItemIds : addItemDesc(list, sid, d_len)
      <3>1. PICK sid \in ItemIds : addItemDesc(list, sid, d_len)
        BY <2>3
      <3>2. find(list, sid) \in list
        BY <1>1, <2>1, <3>1, Found DEF addItemDesc
      <3> QED
        BY <2>1, <3>1, <3>2 DEF addItemDesc
    <2> QED
      BY <1>2, <1>4, <2>2, <2>3
  <1>6. PICK i \in DOMAIN items : addDescTo(i, d_len)
    BY <1>5
  <1>7. /\ DriverInv(Entries(Kinds), D_BIT)' /\ ExtInv'
        /\ UNCHANGED << attributes, driver, desc_loop >>
        /\ Len(items') = Len(items)
        /\ \A j \in DOMAIN items : /\ items'[j].id = items[j].id
                                   /\ items'[j].run = items[j].run
    BY <1>1, <1>3, <1>6, AddDescExt
  <1>8. DOMAIN items' = DOMAIN items
    BY <1>1, <1>7 DEF ExtInv
  <1>9. SdtTypes'
    BY <1>1, <1>3, <1>7 DEF SdtTypes
  <1>10. \A j \in DOMAIN items' : ~Open(j)'
    BY <1>1, <1>3, <1>7, <1>8, NoneOpen DEF Writing, Open
  <1> QED
    BY <1>3, <1>7, <1>9, <1>10, AddIInv

-----------------------------------------------------------------------------
\* The invariant holds of a new table.
LEMMA InitIInv == Init => IInv
  <1> SUFFICES ASSUME Init PROVE IInv
    OBVIOUS
  <1>1. items = << >> /\ desc_loop = NoLoop /\ services = << >> /\ run = Context
    BY DEF Init, ExtInit
  <1>2. state = "IDLE" /\ stream = << >>
    BY DEF Init, PsiInit
  <1>3. SdtTypes
    BY <1>1 DEF SdtTypes, Context
  <1>4. DriverInv(Entries(Kinds), D_BIT)
    <2>1. PICK b, m : b = BASE_LENGTH /\ m = MAX_SEC_LEN
      OBVIOUS
    <2>2. b \in ui16 /\ m \in ui16 /\ PsiInit(b, m)
      BY <2>1, SdtNumbers DEF Init
    <2> QED
      BY <2>2, InitDriver
  <1>5. ExtInv
    BY <1>1, Ui16 DEF ExtInv, NoLoop
  <1>6. Control /\ OpenInv
    BY <1>1, <1>2 DEF Control, OpenInv, Context, Writing, NoLoop
  <1>7. PICK D, F : D = Descriptors /\ F = Words
    OBVIOUS
  <1>8. PayloadInv(D, F)
    BY <1>2 DEF PayloadInv, SectionsIn
  <1> QED
    BY <1>3, <1>4, <1>5, <1>6, <1>7, <1>8 DEF IInv

\* Every step keeps it.
LEMMA StepIInv == IInv /\ [Next]_vars => IInv'
  <1> SUFFICES ASSUME IInv, [Next]_vars PROVE IInv'
    OBVIOUS
  <1>1. CASE Api
    BY <1>1, ConfigureIInv, BuildIInv, AddServiceIInv, AddServiceDescIInv DEF Api
  <1>2. CASE (MallocSec \/ EndTable) /\ UNCHANGED << extVars, services, run >>
    BY <1>2, MallocIInv, EndIInv
  <1>3. CASE writeSection
    <2>1. CASE WriteHead
      BY <2>1, WriteHeadIInv
    <2>2. CASE GetServiceFull \/ GetServiceFits \/ GetServiceEnd
      BY <2>2, GetServiceIInv
    <2>3. CASE ServiceWrites
      BY <2>3, ServiceHeadIInv, ServiceFetchIInv, ServiceDescIInv DEF ServiceWrites
    <2>4. CASE ServiceFull \/ ServiceDone
      BY <2>4, ServiceFullIInv, ServiceDoneIInv
    <2> QED
      BY <1>3, <2>1, <2>2, <2>3, <2>4 DEF writeSection
  <1>4. CASE UNCHANGED vars
    <2>1. /\ UNCHANGED << attributes, length, driver, items, desc_loop, services, run >>
          /\ UNCHANGED << state, stream, first >> /\ cur' = cur
      BY <1>4 DEF vars, psiVars, extVars, driver, cur
    <2>2. /\ SdtTypes /\ DriverInv(Entries(Kinds), D_BIT) /\ ExtInv /\ Control /\ OpenInv
      BY DEF IInv
    <2>3. length \in ui16
      BY <2>2 DEF DriverInv, DriverTypes, PsiTypeOK
    <2>4. DriverInv(Entries(Kinds), D_BIT)' /\ ExtInv'
      BY <2>1, <2>2, <2>3, Ui16, AddDriver, LongerExt
    <2>5. SdtTypes' /\ Control'
      BY <2>1, <2>2 DEF SdtTypes, Control
    <2>6. OpenInv'
      BY <2>1, <2>2 DEF OpenInv, Open, Writing
    <2>7. PICK D, F : D = Descriptors /\ F = Words /\ PayloadInv(D, F)
      BY DEF IInv
    <2>8. D = Descriptors' /\ F = Words'
      BY <2>1, <2>7 DEF Descriptors, Words
    <2>9. PayloadInv(D, F)'
      BY <2>1, <2>7 DEF PayloadInv, SectionsIn, Table
    <2> QED
      BY <2>4, <2>5, <2>6, <2>8, <2>9, KeepIInv
  <1> QED
    BY <1>1, <1>2, <1>3, <1>4 DEF Next, BuildStep

\* The invariant holds of every state of the SDT.
THEOREM Invariance == Spec => []IInv
  BY InitIInv, StepIInv, PTL DEF Spec

-----------------------------------------------------------------------------
\* Every variable of the SDT keeps its type, whatever the splitting does: no byte
\* count, loop length word or section number leaves its width, every pending
\* position stays in its list.
THEOREM TypeCorrect == Spec => []TypeOK
  <1>1. IInv => TypeOK
    <2> SUFFICES ASSUME IInv PROVE TypeOK
      OBVIOUS
    <2>1. PsiTypeOK /\ stream \in Seq(Sections(Entries(Kinds)))
      BY DEF IInv, DriverInv, DriverTypes
    <2>2. ExtTypeOK
      BY ExtInvTypes DEF IInv
    <2>3. SdtTypes
      BY DEF IInv
    <2> QED
      BY <2>1, <2>2, <2>3 DEF TypeOK, SdtTypes, Services, Kinds
  <1> QED
    BY <1>1, Invariance, PTL

\* What a receiver reads in a section's payload and section_length.
Reads(p, section_length) ==
  /\ p[1].kind = "network_id"
  /\ \A k \in 2 .. Len(p) :
       /\ p[k].kind \in {"item", "desc_loop_len", "desc"}
       /\ k = 2 => p[k].kind = "item"
       /\ p[k].kind = "item" => k < Len(p) /\ p[k + 1].kind = "desc_loop_len"
       /\ p[k].kind # "item" => p[k].owner = p[k - 1].owner
       /\ p[k].kind = "desc_loop_len" =>
            /\ p[k - 1].kind = "item"
            /\ \A e \in k .. Len(p) : LoopEnds(p, k, e) =>
                 p[k].n = LoopBytes(p, k, e)
                            + 4096 * (Bit(services[p[k].owner].free_ca_mode)
                                        + 2 * services[p[k].owner].running_status)
  /\ section_length % LEN_MASK = BASE_LENGTH + ItemBytes(p, BASE_LEN) + CRC_LEN

\* A section of a finished build is read so.
LEMMA SectionRead ==
  ASSUME IInv, Built, NEW i \in Table, stream[i].size <= 4096
  PROVE  Reads(stream[i].payload, stream[i].section_length)
  <1>1. PICK n, p : n = stream[i].data_length /\ p = stream[i].payload
    OBVIOUS
  <1>2. /\ p \in Seq(Entries(Kinds)) /\ n \in Nat /\ n + CRC_LEN <= 4096
        /\ stream[i].section_length % LEN_MASK = n - 3 + CRC_LEN
    BY <1>1, SdtNumbers, SectionReads DEF IInv
  <1>3. PICK D, F : D = Descriptors /\ F = Words /\ PayloadInv(D, F)
    BY DEF IInv
  <1>4. SdtPayload(D, F, p, n, 0, 0)
    <2>1. What(stream[i]) \in Complete(D, F)
      BY <1>3 DEF PayloadInv, SectionsIn, Built
    <2> QED
      BY <1>1, <2>1 DEF What, Complete
  <1>5. /\ ExtInv /\ SdtTypes /\ Descs(D) /\ DOMAIN services = DOMAIN items
        /\ \A j \in DOMAIN items : /\ services[j] \in Services
                                   /\ \A m \in ui16 : F[j][m] = serviceLoopLen(services[j], m)
    BY <1>3, DescriptorTypes DEF IInv
  <1>6. PICK s \in Nat : s = 2
    OBVIOUS
  <1>7. PICK l, len : l = 0 /\ len = 0
    OBVIOUS
  <1>8. p[1].kind = "network_id" /\ Loops(D, F, p, s, 0, 0)
        /\ n = HEADER_LEN + 3 + BytesIn(D, p, BASE_LEN)
    BY <1>4, <1>6 DEF SdtPayload
  <1>9. PICK T : T = Entries(Kinds)
    OBVIOUS
  <1>10. p \in Seq(T) /\ 1 <= s /\ Loops(D, F, p, s, l, len)
    BY <1>2, <1>6, <1>7, <1>8, <1>9
  <1>11. ReadsBack(D, F, p, s)
    BY <1>3, <1>5, <1>8, <1>10, LoopsParse
  <1>12. PICK b \in Nat : b = BASE_LEN
    BY DEF BASE_LEN
  <1>13. PICK bytes : bytes = BytesIn(D, p, b)
    OBVIOUS
  <1>14. ItemBytes(p, BASE_LEN) = bytes /\ n = HEADER_LEN + 3 + bytes
    <2>1. ItemBytes(p, b) = BytesIn(D, p, b)
      BY <1>3, <1>5, <1>8, <1>10, LoopsBytes
    <2> QED
      BY <1>8, <1>12, <1>13, <2>1
  <1>15. bytes \in Int
    <2>1. \A k \in 1 .. Len(p) : LenIn(D, p[k], b) \in Nat
      BY ONLY s \in Nat, b \in Nat, <1>5, <1>10, LoopsLengths
    <2> QED
      BY <1>10, <1>13, <2>1, BytesType
  <1>16. stream[i].section_length % LEN_MASK = BASE_LENGTH + ItemBytes(p, BASE_LEN) + CRC_LEN
    BY <1>2, <1>14, <1>15 DEF HEADER_LEN, BASE_LENGTH, CRC_LEN
  <1>17. ASSUME NEW k \in s .. Len(p), p[k].kind = "desc_loop_len",
                NEW e \in k .. Len(p), LoopEnds(p, k, e)
         PROVE  p[k].n = LoopBytes(p, k, e) + 4096 * (Bit(services[p[k].owner].free_ca_mode)
                                                + 2 * services[p[k].owner].running_status)
    <2>1. PICK o, m : o = p[k].owner /\ m = LoopBytes(p, k, e)
      OBVIOUS
    <2>2. o \in DOMAIN items /\ p[k].n = F[o][m] /\ m \in Nat /\ m <= bytes
      BY <1>11, <1>13, <1>17, <2>1 DEF ReadsBack
    <2>3. m < 4096
      BY <1>2, <1>14, <1>15, <2>2, SMTT(20) DEF HEADER_LEN, CRC_LEN
    <2>4. m \in ui16 /\ m % LEN_MASK = m
      BY <2>2, <2>3, Ui16 DEF LEN_MASK
    <2>5. services[o] \in Services /\ F[o][m] = serviceLoopLen(services[o], m)
      BY <1>5, <2>2, <2>4
    <2>6. serviceLoopLen(services[o], m)
            = m + 4096 * (Bit(services[o].free_ca_mode) + 2 * services[o].running_status)
      BY <2>2, <2>4, <2>5, LoopWord
    <2> QED
      BY <2>1, <2>2, <2>5, <2>6
  <1>18. ASSUME NEW k \in s .. Len(p)
         PROVE  /\ p[k].kind \in {"item", "desc_loop_len", "desc"}
                /\ k = s => p[k].kind = "item"
                /\ p[k].kind = "item" => k < Len(p) /\ p[k + 1].kind = "desc_loop_len"
                /\ p[k].kind # "item" => p[k].owner = p[k - 1].owner
                /\ p[k].kind = "desc_loop_len" => p[k - 1].kind = "item"
    BY <1>11 DEF ReadsBack, ItemKinds
  <1>19. PICK c : c = stream[i].section_length
    OBVIOUS
  <1>20. /\ p[1].kind = "network_id"
         /\ c % LEN_MASK = BASE_LENGTH + ItemBytes(p, BASE_LEN) + CRC_LEN
    BY <1>8, <1>16, <1>19
  <1>21. \A k \in 2 .. Len(p) :
           /\ p[k].kind \in {"item", "desc_loop_len", "desc"}
           /\ k = 2 => p[k].kind = "item"
           /\ p[k].kind = "item" => k < Len(p) /\ p[k + 1].kind = "desc_loop_len"
           /\ p[k].kind # "item" => p[k].owner = p[k - 1].owner
           /\ p[k].kind = "desc_loop_len" => p[k - 1].kind = "item"
    BY ONLY <1>6, <1>18
  <1>22. \A k \in 2 .. Len(p) : p[k].kind = "desc_loop_len" =>
           \A e \in k .. Len(p) : LoopEnds(p, k, e) =>
             p[k].n = LoopBytes(p, k, e) + 4096 * (Bit(services[p[k].owner].free_ca_mode)
                                             + 2 * services[p[k].owner].running_status)
    BY ONLY <1>6, <1>17
  <1>23. Reads(p, c)
    BY ONLY <1>20, <1>21, <1>22 DEF Reads
  <1> QED
    BY <1>1, <1>19, <1>23

\* For all services, descriptors and section lengths up to the 4096 bytes that a
\* 12-bit length can describe, each section of a finished build is read back as
\* the services' own: every header is followed by its loop length and that by
\* the service's own descriptors, of just that length, with its status and flag.
THEOREM SectionsAreRead == Spec => []SectionsParse
  <1>1. IInv => SectionsParse
    <2> SUFFICES ASSUME IInv PROVE SectionsParse
      OBVIOUS
    <2>1. ASSUME Built, NEW i \in Table, stream[i].size <= 4096
          PROVE  Reads(stream[i].payload, stream[i].section_length)
      BY <2>1, SectionRead
    <2> QED
      BY <2>1 DEF SectionsParse, Reads, ItemsParse
  <1> QED
    BY <1>1, Invariance, PTL

\* The CRC of every section in the stream is that of its present bytes: closing a
\* loop overwrites bytes, but never of a section that has its CRC.
THEOREM CrcStaysCurrent == Spec => []CrcCurrent
  <1>1. IInv => CrcCurrent
    BY DriverCrc DEF IInv
  <1> QED
    BY <1>1, Invariance, PTL

\* For every section length up to 4096 bytes, a finished section says where it ends.
THEOREM SectionLengthCorrect == Spec => []SectionLengthCoversSection
  <1>1. IInv => SectionLengthCoversSection
    BY SdtNumbers, DriverSectionLength DEF IInv
  <1> QED
    BY <1>1, Invariance, PTL

\* The sections of a build are numbered from 0 and know the last, when there are
\* no more of them than an 8-bit number counts.
THEOREM NumbersCorrect == MaxSections <= 256 => (Spec => []SectionsNumbered)
  <1> SUFFICES ASSUME MaxSections <= 256 PROVE Spec => []SectionsNumbered
    OBVIOUS
  <1>1. IInv => SectionsNumbered
    BY DriverNumbers DEF IInv
  <1> QED
    BY <1>1, Invariance, PTL

-----------------------------------------------------------------------------
(* How the sections are filled.                                            *)

\* The item that is being written.
Who == IF run.op_state \in {"WRITE_HEAD", "WRITE_SERVICE"} THEN run.serv ELSE 0

\* The table's context between the items.
SdtContexts ==
  state # "ABORTED" =>
    /\ ItemsAt(Who)
    /\ run.op_state = "INIT" => run = Context
    /\ run.op_state \in {"WRITE_HEAD", "WRITE_SERVICE"} =>
         run.serv # 0 /\ run.s_iter = run.serv + 1
    /\ state \in {"IDLE", "END_TABLE"} => run = Context

\* The SDT as it is packed: it has no loop of its own.
SdtSheet ==
  [D |-> Descriptors, own |-> << >>, set |-> {}, base |-> BASE_LEN, fresh |-> BASE_LENGTH,
   M |-> getMaxDataLen, kind |-> "none"]

\* Where the two machines are with them.
SdtDue(ph, held, t, n) ==
  IF state = "END_TABLE" THEN ph = "END"
  ELSE \/ run.op_state = "INIT" /\ ph = "OUT" /\ held = "NONE" /\ t = 1 /\ n = 1
       \/ /\ run.op_state = "WRITE_HEAD" /\ ph = "OUT" /\ t = run.serv
          /\ ItemHeld(items[t].run, held, n)
       \/ run.op_state = "GET_SERVICE" /\ ph = "TOP" /\ held = "NONE" /\ t = run.s_iter /\ n = 1
       \/ /\ run.op_state = "WRITE_SERVICE" /\ t = run.serv
          /\ \/ ph = "TOP" /\ ItemHeld(items[t].run, held, n)
             \/ ph = "IN" /\ ItemBegun(items[t].run, Len(items[t].descriptors), held, n)

\* The sections, and how far they are filled.
SdtFilled(E, Q, ph, held, t, n) ==
  /\ SheetInv(E, Kinds, {}, Q, ph, held, t, n) /\ IsSheets(Kinds, Q) /\ SdtDue(ph, held, t, n)

\* The sections of a build, once it is started, are filled in order.
OrderInv ==
  /\ SdtContexts
  /\ state \in {"MALLOC_SEC", "WRITE_SEC", "END_TABLE"} =>
       \E E, Q, ph, held, t, n : E = SdtSheet /\ SdtFilled(E, Q, ph, held, t, n)

\* What is known of the sheet.
LEMMA SheetFacts ==
  ASSUME IInv, NEW E, E = SdtSheet
  PROVE  /\ PackArgs(E) /\ E.D = Descriptors /\ DOMAIN E.D = DOMAIN items
         /\ \A i \in DOMAIN items : E.D[i] = items[i].descriptors
         /\ E.base = BASE_LEN /\ E.fresh = BASE_LENGTH /\ E.M = getMaxDataLen
         /\ E.kind = "none" /\ E.set = {} /\ E.own = << >>
         /\ DOMAIN items = 1 .. Len(items) /\ Len(E.D) = Len(items) /\ Len(items) \in Nat
  <1>1. ExtInv /\ max_section_length \in ui16
    BY DEF IInv, DriverInv, DriverTypes, PsiTypeOK
  <1>2. PICK D : D = Descriptors
    OBVIOUS
  <1>3. /\ Descs(D) /\ DOMAIN D = DOMAIN items
        /\ \A i \in DOMAIN items : D[i] = items[i].descriptors
    BY <1>1, <1>2, DescriptorsType
  <1>4. DOMAIN items = 1 .. Len(items) /\ Len(items) \in Nat
    BY <1>1 DEF ExtInv
  <1>5. /\ E.D = D /\ E.base = BASE_LEN /\ E.fresh = BASE_LENGTH /\ E.M = getMaxDataLen
        /\ E.kind = "none" /\ E.set = {} /\ E.own = << >>
    BY <1>2 DEF SdtSheet
  <1>6. D \in Seq(Seq(Nat))
    <2>1. D \in Seq(Seq(DescLength)) /\ DescLength \subseteq Nat
      BY <1>3, DescLengths DEF Descs
    <2>2. \A s \in Seq(DescLength) : s \in Seq(Nat)
      BY <2>1, WiderSeq
    <2>3. Seq(DescLength) \subseteq Seq(Nat)
      BY <2>2
    <2> QED
      BY <2>1, <2>3, WiderSeq
  <1>7. getMaxDataLen \in Nat
    BY <1>1, Ui16 DEF getMaxDataLen, maxDataLen, CRC_LEN
  <1>8. PackArgs(E)
    BY <1>5, <1>6, <1>7 DEF PackArgs, BASE_LEN, BASE_LENGTH
  <1>9. Len(D) = Len(items)
    <2>1. DOMAIN D = 1 .. Len(D) /\ Len(D) \in Nat
      BY <1>6
    <2> QED
      BY <1>3, <1>4, <2>1
  <1> QED
    BY <1>2, <1>3, <1>4, <1>5, <1>8, <1>9

\* What there is to show of it after a step.
LEMMA KeepOrder ==
  ASSUME SdtContexts', NEW E, E = SdtSheet', NEW Q, NEW ph, NEW held, NEW t, NEW n,
         SheetInv(E, Kinds, {}, Q, ph, held, t, n), IsSheets(Kinds, Q)',
         SdtDue(ph, held, t, n)'
  PROVE  OrderInv'
  BY DEF OrderInv, SdtFilled

\* A failed assert leaves nothing to show.
LEMMA AbortedOrder ==
  ASSUME state' = "ABORTED"
  PROVE  OrderInv'
  BY DEF OrderInv, SdtContexts

\* The table stays the same during a build.
LEMMA SheetStays ==
  ASSUME IInv, UNCHANGED attributes, Descriptors' = Descriptors
  PROVE  SdtSheet' = SdtSheet
  BY DEF SdtSheet, attributes, getMaxDataLen, maxDataLen
-----------------------------------------------------------------------------
\* A section's header.
LEMMA WriteHeadOrder ==
  ASSUME IInv, OrderInv, WriteHead, IInv'
  PROVE  OrderInv'
  <1>1. /\ state = "WRITE_SEC" /\ run.op_state \in {"INIT", "WRITE_HEAD"}
        /\ UNCHANGED << attributes, length, items, desc_loop, services >>
    BY DEF WriteHead, extVars
  <1>2. /\ SdtTypes /\ DriverInv(Entries(Kinds), D_BIT) /\ ExtInv /\ Control
        /\ DriverTypes(Entries(Kinds))'
    BY DEF IInv, DriverInv
  <1>3. cur.data_length = 0
    BY <1>1, <1>2 DEF Control
  <1>4. CASE lengthFits(cur, HEADER_LEN + 3)
    <2>1. PICK x : x = Entry("network_id", 0, 0)
      OBVIOUS
    <2>2. x \in Entries(Kinds) /\ x.kind = "network_id" /\ x.owner = 0
      <3>1. "network_id" \in Kinds /\ 0 \in ui16
        BY Ui16 DEF Kinds
      <3> QED
        BY <2>1, <3>1, EntryType DEF Entry
    <2>3. /\ WriteSecContinue(put(writeSectionHeader(cur, D_BIT), x, 3), BASE_LENGTH)
          /\ run' = [run EXCEPT
               !.op_state = IF run.serv = 0 THEN "GET_SERVICE" ELSE "WRITE_SERVICE",
               !.s_iter = IF run.op_state = "INIT" THEN 1 ELSE @]
      BY <1>4, <2>1 DEF WriteHead
    <2>4. /\ state' = "WRITE_SEC" /\ OnlyCur /\ cur'.payload = Append(<< >>, x)
          /\ cur'.data_length # 0 /\ sec_bytes' = BASE_LENGTH
      BY <1>1, <1>2, <1>3, <1>4, <2>2, <2>3, HeadSection DEF WriteSecContinue
    <2>5. PICK E, Q, ph, held, t, n : E = SdtSheet /\ SdtFilled(E, Q, ph, held, t, n)
      BY <1>1 DEF OrderInv
    <2>6. PackArgs(E) /\ E.fresh = BASE_LENGTH /\ E.kind = "none"
      BY <2>5, SheetFacts
    <2>7. PICK p, b, R : p = Append(<< >>, x) /\ b = BASE_LENGTH /\ R = Append(Q, << p, b >>)
      OBVIOUS
    <2>8. IsSheets(Kinds, R)'
      <3>1. p = cur'.payload /\ b = sec_bytes' /\ IsSheets(Kinds, Q)
        BY <2>4, <2>5, <2>7 DEF SdtFilled
      <3>2. DriverRest(Entries(Kinds), D_BIT)
        BY <1>2, DriverIsRest
      <3> QED
        BY <1>1, <1>2, <1>3, <2>4, <2>7, <3>1, <3>2, SheetsOpen
    <2>9. SheetInv(E, Kinds, {}, R, "TOP", held, t, n)
      <3>1. ph = "OUT" /\ SheetInv(E, Kinds, {}, Q, ph, held, t, n)
        BY <1>1, <2>5 DEF SdtFilled, SdtDue
      <3>2. /\ p \in Seq(Entries(Kinds)) /\ p # << >> /\ Len(p) = 1 /\ p[1] = x
        BY <2>2, <2>7
      <3>3. \A k \in 1 .. Len(p) : p[k].owner = 0 /\ p[k].kind \notin {"item", "desc", E.kind}
        BY <2>2, <2>6, <3>2
      <3>4. R = Append(Q, << p, E.fresh >>)
        BY <2>6, <2>7
      <3> QED
        BY <3>1, <3>2, <3>3, <3>4, OpenPack
    <2>10. SdtContexts
      BY DEF OrderInv
    <2>11. /\ run'.op_state = (IF run.serv = 0 THEN "GET_SERVICE" ELSE "WRITE_SERVICE")
           /\ run'.serv = run.serv
           /\ run'.s_iter = IF run.op_state = "INIT" THEN 1 ELSE run.s_iter
      BY <1>2, <2>3 DEF SdtTypes
    <2>12. run.op_state = "INIT" => run.serv = 0 /\ run.s_iter = 1
      BY <1>1, <2>10 DEF SdtContexts, Context
    <2>13. run.op_state = "WRITE_HEAD" => run.serv # 0 /\ run.s_iter = run.serv + 1
      BY <1>1, <2>10 DEF SdtContexts
    <2>14. SdtContexts'
      <3>1. Who' = Who
        BY <1>1, <2>11, <2>12, <2>13 DEF Who
      <3>2. PICK w : w = Who
        OBVIOUS
      <3>3. ItemsAt(w)
        BY <1>1, <2>10, <3>2 DEF SdtContexts
      <3>4. ItemsAt(w)'
        BY <1>1, <3>3, ItemsAtSame
      <3> QED
        BY <1>1, <2>4, <2>11, <2>12, <2>13, <3>1, <3>2, <3>4 DEF SdtContexts
    <2>15. SdtDue("TOP", held, t, n)'
      <3>1. SdtDue(ph, held, t, n)
        BY <2>5 DEF SdtFilled
      <3>2. CASE run.op_state = "INIT"
        BY <1>1, <2>4, <2>11, <2>12, <3>1, <3>2 DEF SdtDue
      <3>3. CASE run.op_state = "WRITE_HEAD"
        BY <1>1, <2>4, <2>11, <2>13, <3>1, <3>3 DEF SdtDue
      <3> QED
        BY <1>1, <3>2, <3>3
    <2>16. E = SdtSheet'
      BY <1>1, <2>5, SheetStays DEF Descriptors
    <2> QED
      BY <2>8, <2>9, <2>14, <2>15, <2>16, KeepOrder
  <1>5. CASE ~lengthFits(cur, HEADER_LEN + 3)
    BY <1>5, AbortedOrder DEF WriteHead, Abort
  <1> QED
    BY <1>4, <1>5

\* What is known while a section is written.
LEMMA FilledFacts ==
  ASSUME IInv, OrderInv, state = "WRITE_SEC", run.op_state \in {"GET_SERVICE", "WRITE_SERVICE"}
  PROVE  /\ SdtTypes /\ DriverInv(Entries(Kinds), D_BIT) /\ DriverRest(Entries(Kinds), D_BIT)
         /\ ExtInv /\ cur.data_length # 0 /\ SdtContexts /\ D_BIT \in {0, 1}
         /\ cur \in Sections(Entries(Kinds)) /\ cur.data_length = sec_bytes + 3
         /\ \E E, Q, ph, held, t, n :
              /\ E = SdtSheet /\ SdtFilled(E, Q, ph, held, t, n)
              /\ Q # << >> /\ Q[Len(Q)][1] = cur.payload /\ Q[Len(Q)][2] = sec_bytes
              /\ Q \in SheetsOf(Kinds)
  <1>1. /\ SdtTypes /\ DriverInv(Entries(Kinds), D_BIT) /\ ExtInv /\ Control /\ SdtContexts
    BY DEF IInv, OrderInv
  <1>2. DriverRest(Entries(Kinds), D_BIT) /\ cur.data_length # 0
    BY <1>1, DriverIsRest DEF Control
  <1>3. cur.data_length = sec_bytes + 3
    BY <1>1, <1>2 DEF DriverInv, CurInv
  <1>4. cur \in Sections(Entries(Kinds))
    BY <1>2, RestFacts
  <1>5. PICK E, Q, ph, held, t, n : E = SdtSheet /\ SdtFilled(E, Q, ph, held, t, n)
    BY DEF OrderInv
  <1>6. Q # << >> /\ Q[Len(Q)][1] = cur.payload /\ Q[Len(Q)][2] = sec_bytes /\ Q \in SheetsOf(Kinds)
    BY <1>2, <1>5, SheetsCur DEF SdtFilled
  <1> QED
    BY <1>1, <1>2, <1>3, <1>4, <1>5, <1>6, SdtNumbers

\* A section is left as it is.
LEMMA LeaveSheets ==
  ASSUME DriverRest(Entries(Kinds), D_BIT), state = "WRITE_SEC", cur.data_length # 0,
         cur \in Sections(Entries(Kinds)), cur.data_length = sec_bytes + 3,
         NEW Q, IsSheets(Kinds, Q), NEW done \in BOOLEAN, Leave(done, cur)
  PROVE  IsSheets(Kinds, Q)' /\ state' = (IF done THEN "END_TABLE" ELSE "MALLOC_SEC")
  <1>1. /\ Q \in SheetsOf(Kinds) /\ Q # << >> /\ Q[Len(Q)][1] = cur.payload
        /\ Q[Len(Q)][2] = sec_bytes
    BY SheetsCur
  <1>2. PICK s, p, b : s = cur /\ p = s.payload /\ b = sec_bytes
    OBVIOUS
  <1>3. WriteSecReturn(done, s, sec_bytes, D_BIT) /\ s \in Sections(Entries(Kinds))
    BY <1>2 DEF Leave
  <1>4. s.data_length = sec_bytes + 3
    BY <1>2
  <1>5. PICK R : R = Replaced(Q, p, b)
    OBVIOUS
  <1>6. IsSheets(Kinds, R)'
    BY <1>2, <1>3, <1>4, <1>5, SdtNumbers, SheetsLeave
  <1>7. R = Q
    BY <1>1, <1>2, <1>5, ReplacedSame
  <1>8. state' = (IF done THEN "END_TABLE" ELSE "MALLOC_SEC")
    BY <1>3 DEF WriteSecReturn
  <1> QED
    BY <1>6, <1>7, <1>8

\* What starting a service takes, in terms of the sheet.
LEMMA StartTakes ==
  ASSUME NEW D, D = Descriptors, NEW i \in DOMAIN items, NEW d, d = D[i]
  PROVE  ItemStartsTooLong(i, BASE_LEN)
           <=> sec_bytes + BASE_LEN + (IF d = << >> THEN 0 ELSE d[1]) > getMaxDataLen
  <1>1. d = items[i].descriptors
    BY DEF Descriptors
  <1> QED
    BY <1>1 DEF ItemStartsTooLong

\* The next service is looked at.
LEMMA GetServiceOrder ==
  ASSUME IInv, OrderInv, GetServiceFull \/ GetServiceFits \/ GetServiceEnd, IInv'
  PROVE  OrderInv'
  <1>1. /\ state = "WRITE_SEC" /\ run.op_state = "GET_SERVICE"
        /\ UNCHANGED << attributes, length, items, desc_loop, services >>
    BY DEF GetServiceFull, GetServiceFits, GetServiceEnd, At, extVars, psiVars
  <1>2. /\ SdtTypes /\ DriverRest(Entries(Kinds), D_BIT)
        /\ ExtInv /\ cur.data_length # 0 /\ SdtContexts
        /\ cur \in Sections(Entries(Kinds)) /\ cur.data_length = sec_bytes + 3
    BY <1>1, FilledFacts
  <1>3. PICK E, Q, ph, held, t, n :
          /\ E = SdtSheet /\ SdtFilled(E, Q, ph, held, t, n)
          /\ Q # << >> /\ Q[Len(Q)][1] = cur.payload /\ Q[Len(Q)][2] = sec_bytes
          /\ Q \in SheetsOf(Kinds)
    BY <1>1, FilledFacts
  <1>4. /\ SheetInv(E, Kinds, {}, Q, "TOP", "NONE", t, n) /\ IsSheets(Kinds, Q)
        /\ t = run.s_iter /\ n = 1
    BY <1>1, <1>3 DEF SdtFilled, SdtDue
  <1>5. /\ PackArgs(E) /\ DOMAIN E.D = DOMAIN items /\ E.D = Descriptors
        /\ \A i \in DOMAIN items : E.D[i] = items[i].descriptors
        /\ E.base = BASE_LEN /\ E.fresh = BASE_LENGTH /\ E.M = getMaxDataLen
        /\ DOMAIN items = 1 .. Len(items) /\ Len(E.D) = Len(items) /\ Len(items) \in Nat
    BY <1>3, SheetFacts
  <1>6. /\ run \in [op_state : {"INIT", "WRITE_HEAD", "GET_SERVICE", "WRITE_SERVICE"},
                    serv : 0 .. Len(items), s_iter : 1 .. Len(items) + 1]
        /\ run.s_iter \in 1 .. Len(items) + 1
    BY <1>2 DEF SdtTypes
  <1>7. ItemsAt(0)
    BY <1>1, <1>2 DEF SdtContexts, Who
  <1>8. 0 \notin DOMAIN items
    BY <1>5
  <1>9. \A w : ItemsAt(w)
    BY <1>2, <1>7, <1>8, ItemsAtAny
  <1>10. E = SdtSheet'
    BY <1>1, <1>3, SheetStays DEF Descriptors
  <1>11. ASSUME NEW op_state \in {"WRITE_HEAD", "WRITE_SERVICE"}, run' = Fetched(op_state),
                run.s_iter <= Len(items), state' # "IDLE", state' # "END_TABLE"
         PROVE  /\ SdtContexts' /\ t \in DOMAIN items /\ items[t].run.op_state = "INIT"
                /\ run'.op_state = op_state /\ run'.serv = t
    <2>1. /\ run'.op_state = op_state /\ run'.serv = t /\ run'.s_iter = run'.serv + 1
          /\ run'.serv # 0
      BY <1>4, <1>6, <1>11 DEF Fetched
    <2>2. Who' = t
      BY <2>1 DEF Who
    <2>3. ItemsAt(t)'
      BY <1>1, <1>9, ItemsAtSame
    <2>4. SdtContexts'
      BY <1>11, <2>1, <2>2, <2>3 DEF SdtContexts
    <2>5. t \in DOMAIN items
      BY <1>4, <1>5, <1>6, <1>11
    <2>6. items[t].run.op_state = "INIT"
      BY <1>7, <1>8, <2>5 DEF ItemsAt
    <2> QED
      BY <2>1, <2>4, <2>5, <2>6
  <1>12. CASE GetServiceFull
    <2>1. run' = Fetched("WRITE_HEAD") /\ Leave(FALSE, cur) /\ run.s_iter <= Len(items)
          /\ ItemStartsTooLong(run.s_iter, BASE_LEN)
      BY <1>12 DEF GetServiceFull
    <2>2. IsSheets(Kinds, Q)' /\ state' = "MALLOC_SEC"
      <3>1. PICK done \in BOOLEAN : done = FALSE
        OBVIOUS
      <3>2. Leave(done, cur)
        BY <2>1, <3>1
      <3> QED
        BY <1>1, <1>2, <1>4, <3>1, <3>2, LeaveSheets
    <2>3. /\ SdtContexts' /\ t \in DOMAIN items /\ items[t].run.op_state = "INIT"
          /\ run'.op_state = "WRITE_HEAD" /\ run'.serv = t
      BY <1>11, <2>1, <2>2
    <2>4. SheetInv(E, Kinds, {}, Q, "OUT", "ITEM", t, n)
      <3>1. ItemStartsTooLong(t, BASE_LEN)
        BY <1>4, <2>1
      <3>2. sec_bytes + E.base + (IF E.D[t] = << >> THEN 0 ELSE E.D[t][1]) > E.M
        BY <1>5, <2>3, <3>1, StartTakes
      <3> QED
        BY <1>3, <1>4, <1>5, <2>3, <3>2, FullItemPack
    <2>5. SdtDue("OUT", "ITEM", t, n)'
      BY <1>1, <1>4, <2>2, <2>3 DEF SdtDue, ItemHeld
    <2> QED
      BY <1>10, <2>2, <2>3, <2>4, <2>5, KeepOrder
  <1>13. CASE GetServiceFits
    <2>1. /\ run' = Fetched("WRITE_SERVICE") /\ run.s_iter <= Len(items)
          /\ ~ItemStartsTooLong(run.s_iter, BASE_LEN)
          /\ UNCHANGED << stream, first, state, sec_bytes >>
      BY <1>13 DEF GetServiceFits, psiVars, driver
    <2>2. IsSheets(Kinds, Q)' /\ state' = "WRITE_SEC"
      BY <1>1, <1>4, <2>1, SheetsStay
    <2>3. /\ SdtContexts' /\ t \in DOMAIN items /\ items[t].run.op_state = "INIT"
          /\ run'.op_state = "WRITE_SERVICE" /\ run'.serv = t
      BY <1>11, <2>1, <2>2
    <2>4. SheetInv(E, Kinds, {}, Q, "TOP", "ITEM", t, n)
      <3>1. ~ItemStartsTooLong(t, BASE_LEN)
        BY <1>4, <2>1
      <3>2. ~(sec_bytes + E.base + (IF E.D[t] = << >> THEN 0 ELSE E.D[t][1]) > E.M)
        BY <1>5, <2>3, <3>1, StartTakes
      <3>3. E.D[t] # << >> => sec_bytes + E.base + E.D[t][1] <= E.M
        <4>1. /\ sec_bytes \in Nat /\ E.base \in Nat /\ E.M \in Nat /\ Len(E.D[t]) \in Nat
              /\ (E.D[t] # << >> => E.D[t][1] \in Nat)
          <5>1. sec_bytes \in Nat
            BY <1>1, <1>2, RestFacts
          <5>2. /\ Len(E.D[t]) \in Nat /\ (E.D[t] = << >> <=> Len(E.D[t]) = 0)
                /\ \A k \in 1 .. Len(E.D[t]) : E.D[t][k] \in Nat
            BY <1>5, <2>3, ItemType
          <5>3. E.base \in Nat /\ E.M \in Nat
            BY <1>5 DEF PackArgs
          <5> QED
            BY <5>1, <5>2, <5>3
        <4> QED
          BY <3>2, <4>1
      <3> QED
        BY <1>3, <1>4, <1>5, <2>3, <3>3, FetchItemPack
    <2>5. SdtDue("TOP", "ITEM", t, n)'
      BY <1>1, <1>4, <2>2, <2>3 DEF SdtDue, ItemHeld
    <2> QED
      BY <1>10, <2>2, <2>3, <2>4, <2>5, KeepOrder
  <1>14. CASE GetServiceEnd
    <2>1. run' = Context /\ Leave(TRUE, cur) /\ run.s_iter > Len(items)
      BY <1>14 DEF GetServiceEnd
    <2>2. IsSheets(Kinds, Q)' /\ state' = "END_TABLE"
      <3>1. PICK done \in BOOLEAN : done = TRUE
        OBVIOUS
      <3>2. Leave(done, cur)
        BY <2>1, <3>1
      <3> QED
        BY <1>1, <1>2, <1>4, <3>1, <3>2, LeaveSheets
    <2>3. t = Len(E.D) + 1
      BY <1>4, <1>5, <1>6, <2>1
    <2>4. SheetInv(E, Kinds, {}, Q, "END", "NONE", t, n)
      BY <1>4, <2>3, EndPack
    <2>5. SdtContexts'
      <3>1. run'.op_state = "INIT" /\ Who' = 0
        BY <2>1 DEF Context, Who
      <3>2. ItemsAt(0)'
        BY <1>1, <1>7, ItemsAtSame
      <3> QED
        BY <2>1, <3>1, <3>2 DEF SdtContexts
    <2>6. SdtDue("END", "NONE", t, n)'
      BY <2>2 DEF SdtDue
    <2> QED
      BY <1>10, <2>2, <2>4, <2>5, <2>6, KeepOrder
  <1> QED
    BY <1>12, <1>13, <1>14
\* The sections as the packing sees them while service i is written.
ServiceHas(i, r, len) ==
  \E E, Q, ph, held, n, m :
    /\ E = SdtSheet /\ SheetInv(E, Kinds, {}, Q, ph, held, i, n) /\ IsSheets(Kinds, Q)
    /\ \/ ph = "TOP" /\ ItemHeld(r, held, n)
       \/ ph = "IN" /\ ItemBegun(r, len, held, n)
    /\ Q # << >> /\ m = Len(Q) /\ Q[m][1] = cur.payload /\ Q[m][2] = sec_bytes
    /\ Q \in SheetsOf(Kinds) /\ i \in DOMAIN E.D /\ E.D[i] = items[i].descriptors
    /\ E.base = BASE_LEN /\ E.M = getMaxDataLen /\ len = Len(E.D[i])

\* What is known of the service that is written.
LEMMA ServiceSheet ==
  ASSUME IInv, OrderInv, At("WRITE_SERVICE"), NEW i, i = run.serv,
         NEW r, r = items[i].run, NEW len, len = Len(items[i].descriptors)
  PROVE  /\ DriverInv(Entries(Kinds), D_BIT) /\ DriverRest(Entries(Kinds), D_BIT)
         /\ state = "WRITE_SEC" /\ run.op_state = "WRITE_SERVICE" /\ ExtInv
         /\ cur.data_length # 0 /\ cur.data_length = sec_bytes + 3 /\ sec_bytes \in Nat
         /\ cur \in Sections(Entries(Kinds))
         /\ i \in DOMAIN items /\ ItemsAt(i) /\ RunOK(r, len) /\ NextOK(r, len)
         /\ len \in Nat /\ SdtTypes /\ run.s_iter = i + 1 /\ i # 0
         /\ ServiceHas(i, r, len)
  <1>1. /\ state = "WRITE_SEC" /\ run.op_state = "WRITE_SERVICE" /\ i \in DOMAIN items
        /\ DriverInv(Entries(Kinds), D_BIT) /\ SdtTypes
    BY ServiceFacts
  <1>2. /\ DriverRest(Entries(Kinds), D_BIT) /\ ExtInv /\ cur.data_length # 0 /\ SdtContexts
        /\ cur \in Sections(Entries(Kinds)) /\ cur.data_length = sec_bytes + 3
    BY <1>1, FilledFacts
  <1>3. PICK E, Q, ph, held, t, n :
          /\ E = SdtSheet /\ SdtFilled(E, Q, ph, held, t, n)
          /\ Q # << >> /\ Q[Len(Q)][1] = cur.payload /\ Q[Len(Q)][2] = sec_bytes
          /\ Q \in SheetsOf(Kinds)
    BY <1>1, FilledFacts
  <1>4. ItemsAt(i) /\ run.s_iter = i + 1 /\ i # 0
    BY <1>1, <1>2 DEF SdtContexts, Who
  <1>5. RunOK(r, len) /\ len \in Nat
    BY <1>1, <1>2, ItemFacts
  <1>6. NextOK(r, len)
    BY <1>1, <1>4 DEF ItemsAt
  <1>7. /\ i \in DOMAIN E.D /\ E.D[i] = items[i].descriptors
        /\ E.base = BASE_LEN /\ E.M = getMaxDataLen
    BY <1>1, <1>3, SheetFacts
  <1>8. PICK d : d = items[t].descriptors
    OBVIOUS
  <1>9. /\ t = i /\ SheetInv(E, Kinds, {}, Q, ph, held, i, n) /\ IsSheets(Kinds, Q)
        /\ \/ ph = "TOP" /\ ItemHeld(r, held, n)
           \/ ph = "IN" /\ ItemBegun(r, len, held, n)
    BY <1>1, <1>3 DEF SdtFilled, SdtDue
  <1>10. sec_bytes \in Nat
    BY <1>1, <1>2, RestFacts
  <1>11. PICK m : m = Len(Q)
    OBVIOUS
  <1>12. ServiceHas(i, r, len)
    BY <1>3, <1>7, <1>9, <1>11 DEF ServiceHas
  <1> QED
    BY <1>1, <1>2, <1>4, <1>5, <1>6, <1>10, <1>12

\* What there is to show of it after a step within the service.
LEMMA ServiceKeeps ==
  ASSUME IInv, OrderInv, At("WRITE_SERVICE"), NEW i, i = run.serv,
         OnlyRun(i), UNCHANGED << attributes, run >>, state' = "WRITE_SEC",
         NEW E, E = SdtSheet, NEW R, IsSheets(Kinds, R)',
         NEW q, q = items'[i].run, NEW len, len = Len(items[i].descriptors), NextOK(q, len),
         NEW held, NEW n, SheetInv(E, Kinds, {}, R, "IN", held, i, n), ItemBegun(q, len, held, n)
  PROVE  OrderInv'
  <1>1. /\ ExtInv /\ i \in DOMAIN items /\ ItemsAt(i) /\ run.op_state = "WRITE_SERVICE"
        /\ run.s_iter = i + 1 /\ i # 0
    BY ServiceSheet
  <1>2. ItemsAt(i)'
    BY <1>1, ItemsAtRun
  <1>3. Who' = i
    BY <1>1 DEF Who
  <1>4. SdtContexts'
    BY <1>1, <1>2, <1>3 DEF SdtContexts
  <1>5. E = SdtSheet'
    BY <1>1, DescriptorsSame, SheetStays
  <1>6. items'[i].descriptors = items[i].descriptors
    BY <1>1 DEF OnlyRun
  <1>7. SdtDue("IN", held, i, n)'
    BY <1>1, <1>6 DEF SdtDue
  <1> QED
    BY <1>4, <1>5, <1>7, KeepOrder

\* The bytes of the section after a step within the service.
LEMMA ServiceBytes ==
  ASSUME IInv', state' = "WRITE_SEC", cur'.data_length # 0, NEW n, n = sec_bytes'
  PROVE  cur'.data_length = n + 3 /\ n \in Nat /\ DriverTypes(Entries(Kinds))'
  <1>1. DriverInv(Entries(Kinds), D_BIT)'
    BY DEF IInv
  <1>2. DriverTypes(Entries(Kinds))' /\ cur'.data_length = n + 3
    BY <1>1 DEF DriverInv, CurInv
  <1>3. n \in ui16
    BY <1>2 DEF DriverTypes, PsiTypeOK
  <1> QED
    BY <1>2, <1>3, Ui16

\* A service's header.
LEMMA ServiceHeadOrder ==
  ASSUME IInv, OrderInv, At("WRITE_SERVICE"),
         ItemWriteHead(run.serv, BASE_LEN, flags(services[run.serv])),
         UNCHANGED << attributes, length, services, run >>, IInv'
  PROVE  OrderInv'
  <1>1. PICK i, r, len, header :
          /\ i = run.serv /\ r = items[i].run /\ len = Len(items[i].descriptors)
          /\ header = flags(services[i])
    OBVIOUS
  <1>2. /\ DriverInv(Entries(Kinds), D_BIT) /\ DriverRest(Entries(Kinds), D_BIT)
        /\ state = "WRITE_SEC" /\ run.op_state = "WRITE_SERVICE" /\ ExtInv
        /\ cur.data_length # 0 /\ cur.data_length = sec_bytes + 3 /\ sec_bytes \in Nat
        /\ i \in DOMAIN items /\ RunOK(r, len) /\ NextOK(r, len)
        /\ ServiceHas(i, r, len)
    BY ONLY IInv, OrderInv, At("WRITE_SERVICE"), <1>1, ServiceSheet
  <1>3. PICK E, Q, ph, held, n, m :
          /\ E = SdtSheet /\ SheetInv(E, Kinds, {}, Q, ph, held, i, n) /\ IsSheets(Kinds, Q)
          /\ \/ ph = "TOP" /\ ItemHeld(r, held, n)
             \/ ph = "IN" /\ ItemBegun(r, len, held, n)
          /\ Q # << >> /\ m = Len(Q) /\ Q[m][1] = cur.payload /\ Q[m][2] = sec_bytes
          /\ Q \in SheetsOf(Kinds) /\ i \in DOMAIN E.D /\ E.D[i] = items[i].descriptors
          /\ E.base = BASE_LEN /\ E.M = getMaxDataLen /\ len = Len(E.D[i])
    BY ONLY <1>2 DEF ServiceHas
  <1>4. header \in ui16 /\ BASE_LEN \in Nat /\ 2 <= BASE_LEN
    BY <1>1, FlagsWord, SdtNumbers
  <1>5. ItemWriteHead(i, BASE_LEN, header)
    BY <1>1
  <1>6. /\ OnlyCur /\ OnlyRun(i) /\ r.op_state \in {"INIT", "WRITE_HEAD"}
        /\ \/ state' = "ABORTED"
           \/ /\ state' = "WRITE_SEC"
              /\ cur'.payload = PutItem(cur.payload, i, header)
              /\ cur'.data_length = cur.data_length + BASE_LEN /\ cur'.data_length # 0
              /\ items'[i].run = HeadRun(r, len)
    <2>1. PICK base_len : base_len = BASE_LEN
      OBVIOUS
    <2>2. base_len \in Nat /\ 2 <= base_len /\ ItemWriteHead(i, base_len, header)
      BY <1>4, <1>5, <2>1
    <2>3. PICK K, bit : K = Kinds /\ bit = D_BIT
      OBVIOUS
    <2>4. DriverInv(Entries(K), bit) /\ ItemKinds \subseteq K
      BY <1>2, <2>3, SdtNumbers
    <2>5. /\ OnlyCur /\ OnlyRun(i)
          /\ items[i].run.op_state \in {"INIT", "WRITE_HEAD"}
          /\ \/ state' = "ABORTED"
             \/ /\ state' = "WRITE_SEC"
                /\ cur'.payload = PutItem(cur.payload, i, header)
                /\ cur'.data_length = cur.data_length + base_len /\ cur'.data_length # 0
                /\ items'[i].run =
                     [op_state |-> IF items[i].run.d = 0 THEN "GET_DESC" ELSE "WRITE_DESC",
                      d |-> items[i].run.d,
                      d_iter |-> IF items[i].run.op_state = "INIT"
                                 THEN Iter(1, Len(items[i].descriptors))
                                 ELSE items[i].run.d_iter]
      BY ONLY UNCHANGED << attributes, length >>, <1>2, <1>4, <2>2, <2>4, ItemHeadStep
    <2> QED
      BY ONLY <1>1, <2>1, <2>5 DEF HeadRun
  <1>7. CASE state' = "ABORTED"
    BY <1>7, AbortedOrder
  <1>8. CASE state' # "ABORTED"
    <2>1. ph = "TOP" /\ ItemHeld(r, held, n)
      BY <1>3, <1>6 DEF ItemBegun
    <2>2. PICK p, b, q : p = cur'.payload /\ b = sec_bytes' /\ q = items'[i].run
      OBVIOUS
    <2>3. cur'.data_length = b + 3 /\ b \in Nat /\ DriverTypes(Entries(Kinds))'
      BY <1>6, <1>8, <2>2, ServiceBytes
    <2>4. b = Q[m][2] + E.base /\ p = PutItem(Q[m][1], i, header)
      <3>1. b + 3 = sec_bytes + 3 + 5 /\ BASE_LEN = 5
        BY <1>2, <1>6, <1>8, <2>3, SdtNumbers
      <3>2. b = sec_bytes + 5
        BY ONLY <1>2, <2>3, <3>1
      <3> QED
        BY <1>3, <1>6, <1>8, <2>2, <3>1, <3>2
    <2>5. PICK R : R = Replaced(Q, p, b)
      OBVIOUS
    <2>6. IsSheets(Kinds, R)'
      BY <1>2, <1>3, <1>6, <1>8, <2>2, <2>3, <2>5, SheetsGrow
    <2>7. q = HeadRun(r, len)
      BY <1>6, <1>8, <2>2
    <2>8. /\ NextOK(q, len)
          /\ \E held2, n2 : SheetInv(E, Kinds, {}, R, "IN", held2, i, n2) /\ ItemBegun(q, len, held2, n2)
      <3>1. R = Replaced(Q, PutItem(Q[m][1], i, header), b) /\ b = Q[m][2] + E.base
        BY <2>4, <2>5
      <3>2. SheetInv(E, Kinds, {}, Q, "TOP", held, i, n)
        BY <1>3, <2>1
      <3>3. /\ m = Len(Q) /\ i \in DOMAIN E.D /\ len = Len(E.D[i]) /\ ItemKinds \subseteq Kinds
        BY <1>3, SdtNumbers
      <3> QED
        BY ONLY <1>2, <1>4, <2>1, <2>7, <3>1, <3>2, <3>3, ItemHeadPack
    <2>9. PICK held2, n2 : SheetInv(E, Kinds, {}, R, "IN", held2, i, n2) /\ ItemBegun(q, len, held2, n2)
      BY <2>8
    <2> QED
      BY <1>1, <1>3, <1>6, <1>8, <2>2, <2>6, <2>8, <2>9, ServiceKeeps
  <1> QED
    BY <1>7, <1>8

\* Its next descriptor is fetched.
LEMMA ServiceFetchOrder ==
  ASSUME IInv, OrderInv, At("WRITE_SERVICE"), ItemGetDescFits(run.serv),
         UNCHANGED << attributes, length, services, run >>
  PROVE  OrderInv'
  <1>1. PICK i, r, len :
          i = run.serv /\ r = items[i].run /\ len = Len(items[i].descriptors)
    OBVIOUS
  <1>2. /\ DriverInv(Entries(Kinds), D_BIT) /\ ExtInv /\ state = "WRITE_SEC"
        /\ i \in DOMAIN items /\ RunOK(r, len) /\ NextOK(r, len)
        /\ ServiceHas(i, r, len)
    BY ONLY IInv, OrderInv, At("WRITE_SERVICE"), <1>1, ServiceSheet
  <1>3. PICK E, Q, ph, held, n, m :
          /\ E = SdtSheet /\ SheetInv(E, Kinds, {}, Q, ph, held, i, n) /\ IsSheets(Kinds, Q)
          /\ \/ ph = "TOP" /\ ItemHeld(r, held, n)
             \/ ph = "IN" /\ ItemBegun(r, len, held, n)
          /\ Q # << >> /\ m = Len(Q) /\ Q[m][1] = cur.payload /\ Q[m][2] = sec_bytes
          /\ Q \in SheetsOf(Kinds) /\ i \in DOMAIN E.D /\ E.D[i] = items[i].descriptors
          /\ E.base = BASE_LEN /\ E.M = getMaxDataLen /\ len = Len(E.D[i])
    BY ONLY <1>2 DEF ServiceHas
  <1>4. ItemGetDescFits(i)
    BY <1>1
  <1>5. /\ OnlyRun(i) /\ UNCHANGED << stream, first, state, sec_bytes >>
        /\ r.op_state = "GET_DESC" /\ r.d_iter # 0
        /\ items'[i].run = FetchRun(r, len, "WRITE_DESC")
    BY <1>1, <1>2, <1>4, ItemFitsStep DEF FetchRun
  <1>6. ph = "IN" /\ ItemBegun(r, len, held, n)
    BY <1>3, <1>5 DEF ItemHeld
  <1>7. PICK q : q = items'[i].run
    OBVIOUS
  <1>8. IsSheets(Kinds, Q)'
    BY <1>3, <1>5, SheetsStay
  <1>9. /\ NextOK(q, len)
        /\ \E held2, n2 : SheetInv(E, Kinds, {}, Q, "IN", held2, i, n2) /\ ItemBegun(q, len, held2, n2)
    BY <1>2, <1>3, <1>5, <1>6, <1>7, ItemFitsPack
  <1>10. PICK held2, n2 : SheetInv(E, Kinds, {}, Q, "IN", held2, i, n2) /\ ItemBegun(q, len, held2, n2)
    BY <1>9
  <1> QED
    BY <1>1, <1>2, <1>3, <1>5, <1>7, <1>8, <1>9, <1>10, ServiceKeeps

\* It is written.
LEMMA ServiceDescOrder ==
  ASSUME IInv, OrderInv, At("WRITE_SERVICE"), ItemWriteDesc(run.serv),
         UNCHANGED << attributes, length, services, run >>, IInv'
  PROVE  OrderInv'
  <1>1. PICK i, r, len :
          i = run.serv /\ r = items[i].run /\ len = Len(items[i].descriptors)
    OBVIOUS
  <1>2. /\ DriverInv(Entries(Kinds), D_BIT) /\ DriverRest(Entries(Kinds), D_BIT)
        /\ state = "WRITE_SEC" /\ ExtInv
        /\ cur.data_length # 0 /\ cur.data_length = sec_bytes + 3 /\ sec_bytes \in Nat
        /\ i \in DOMAIN items /\ RunOK(r, len) /\ NextOK(r, len)
        /\ ServiceHas(i, r, len)
    BY ONLY IInv, OrderInv, At("WRITE_SERVICE"), <1>1, ServiceSheet
  <1>3. PICK E, Q, ph, held, n, m :
          /\ E = SdtSheet /\ SheetInv(E, Kinds, {}, Q, ph, held, i, n) /\ IsSheets(Kinds, Q)
          /\ \/ ph = "TOP" /\ ItemHeld(r, held, n)
             \/ ph = "IN" /\ ItemBegun(r, len, held, n)
          /\ Q # << >> /\ m = Len(Q) /\ Q[m][1] = cur.payload /\ Q[m][2] = sec_bytes
          /\ Q \in SheetsOf(Kinds) /\ i \in DOMAIN E.D /\ E.D[i] = items[i].descriptors
          /\ E.base = BASE_LEN /\ E.M = getMaxDataLen /\ len = Len(E.D[i])
    BY ONLY <1>2 DEF ServiceHas
  <1>4. ItemWriteDesc(i)
    BY <1>1
  <1>5. PICK d : d = items[i].descriptors[r.d]
    OBVIOUS
  <1>6. /\ OnlyCur /\ OnlyRun(i) /\ r.op_state = "WRITE_DESC"
        /\ r.d \in DOMAIN items[i].descriptors
        /\ \/ state' = "ABORTED"
           \/ /\ state' = "WRITE_SEC"
              /\ cur'.payload = Append(cur.payload, Entry("desc", i, r.d))
              /\ cur'.data_length = cur.data_length + d /\ cur'.data_length # 0
              /\ items'[i].run = WroteRun(r)
    BY <1>1, <1>2, <1>4, <1>5, SdtNumbers, ItemDescStep DEF ItemDescLen, WroteRun
  <1>7. CASE state' = "ABORTED"
    BY <1>7, AbortedOrder
  <1>8. CASE state' # "ABORTED"
    <2>1. ph = "IN" /\ ItemBegun(r, len, held, n)
      BY <1>3, <1>6 DEF ItemHeld
    <2>2. PICK p, b, q : p = cur'.payload /\ b = sec_bytes' /\ q = items'[i].run
      OBVIOUS
    <2>3. cur'.data_length = b + 3 /\ b \in Nat /\ DriverTypes(Entries(Kinds))'
      BY <1>6, <1>8, <2>2, ServiceBytes
    <2>4. r.d \in ui16 /\ d \in Nat
      <3>1. /\ r.d \in 1 .. Len(items[i].descriptors) /\ 2 * Len(items[i].descriptors) <= length
            /\ Len(items[i].descriptors) \in Nat /\ items[i].descriptors \in Seq(DescLength)
        <4>1. /\ items[i] \in [id : ui16, descriptors : Seq(DescLength), run : Runs]
              /\ 2 * Len(items[i].descriptors) <= length
          BY <1>2, ItemFacts
        <4> QED
          BY <1>6, <4>1
      <3>2. length \in ui16
        BY <1>2 DEF DriverInv, DriverTypes, PsiTypeOK
      <3>3. d \in DescLength
        BY <1>5, <3>1
      <3> QED
        <4>1. r.d \in ui16
          BY ONLY <3>1, <3>2, <3>3, Ui16
        <4>2. d \in Nat
          BY ONLY <3>1, <3>2, <3>3, DescLengths
        <4> QED
          BY ONLY <4>1, <4>2
    <2>5. b = Q[m][2] + d /\ p = Append(Q[m][1], Entry("desc", i, r.d)) /\ d = E.D[i][r.d]
      <3>1. b + 3 = sec_bytes + 3 + d
        BY <1>2, <1>6, <1>8, <2>3
      <3>2. b = sec_bytes + d
        BY ONLY <1>2, <2>3, <2>4, <3>1
      <3> QED
        BY <1>3, <1>5, <1>6, <1>8, <2>2, <3>2
    <2>6. PICK R : R = Replaced(Q, p, b)
      OBVIOUS
    <2>7. IsSheets(Kinds, R)'
      BY <1>2, <1>3, <1>6, <1>8, <2>2, <2>3, <2>6, SheetsGrow
    <2>8. /\ NextOK(q, len)
          /\ \E held2, n2 : SheetInv(E, Kinds, {}, R, "IN", held2, i, n2) /\ ItemBegun(q, len, held2, n2)
      <3>1. PICK x, k : x = Entry("desc", i, k) /\ k = r.d
        OBVIOUS
      <3>2. /\ R = Replaced(Q, Append(Q[m][1], x), b) /\ b = Q[m][2] + d
            /\ d = E.D[i][k] /\ k \in ui16
        BY <2>4, <2>5, <2>6, <3>1
      <3>3. SheetInv(E, Kinds, {}, Q, "IN", held, i, n)
        BY <1>3, <2>1
      <3>4. /\ m = Len(Q) /\ i \in DOMAIN E.D /\ len = Len(E.D[i]) /\ ItemKinds \subseteq Kinds
            /\ q = WroteRun(r) /\ r.op_state = "WRITE_DESC"
        BY <1>3, <1>6, <1>8, <2>2, SdtNumbers
      <3>5. GoesOn(E, Kinds, {}, R, i, q, len)
        BY ONLY <1>2, <2>1, <3>1, <3>2, <3>3, <3>4, ItemDescPack
      <3> QED
        BY ONLY <3>5 DEF GoesOn
    <2>9. PICK held2, n2 : SheetInv(E, Kinds, {}, R, "IN", held2, i, n2) /\ ItemBegun(q, len, held2, n2)
      BY <2>8
    <2> QED
      BY <1>1, <1>3, <1>6, <1>8, <2>2, <2>7, <2>8, <2>9, ServiceKeeps
  <1> QED
    BY <1>7, <1>8

\* The section with its loop closed.
LEMMA PatchedPayload ==
  ASSUME IInv, At("WRITE_SERVICE"), Open(run.serv), NEW s, s = ServiceLoopPatched
  PROVE  /\ s \in Sections(Entries(Kinds)) /\ s.data_length = cur.data_length
         /\ \E v, l, w : /\ v = cur.payload /\ l \in 1 .. Len(v) /\ v[l].kind = "desc_loop_len"
                       /\ s.payload = WithWord(v, l, w)
  <1>1. cur \in Sections(Entries(Kinds)) /\ cur.payload \in Seq(Entries(Kinds))
    BY ServiceFacts
  <1>2. PICK D, F : D = Descriptors /\ F = Words /\ PayloadInv(D, F)
    BY DEF IInv
  <1>3. PICK l, len, i, v, c :
          /\ l = desc_loop.pos /\ len = desc_loop.len /\ i = run.serv /\ v = cur.payload
          /\ c = cur.data_length
    OBVIOUS
  <1>4. /\ l \in Nat /\ l # 0 /\ len \in ui16 /\ SdtPayload(D, F, v, c, l, len)
        /\ services[i] \in Services /\ Descs(D)
    BY <1>2, <1>3, OpenFacts
  <1>5. v[l].kind = "desc_loop_len"
    BY <1>4 DEF SdtPayload, Loops
  <1>6. l \in 1 .. Len(v)
    <2>1. v \in Seq(Entries(Kinds)) /\ c \in Nat
      BY <1>1, <1>3, ServiceFacts
    <2> QED
      BY ONLY <1>4, <2>1, PayloadOpen
  <1>7. PICK w : w = serviceLoopLen(services[i], len)
    OBVIOUS
  <1>8. w \in ui16
    BY <1>4, <1>7, Ui16, LoopWord
  <1>9. s = overwrite(cur, l, w)
    BY <1>3, <1>7 DEF ServiceLoopPatched
  <1>10. /\ s \in Sections(Entries(Kinds)) /\ s.data_length = cur.data_length
         /\ s.payload = WithWord(v, l, w)
    <2>1. PICK u : u = cur
      OBVIOUS
    <2>2. /\ u \in Sections(Entries(Kinds)) /\ l \in Nat /\ w \in ui16
          /\ s = overwrite(u, l, w)
      BY <1>1, <1>4, <1>8, <1>9, <2>1
    <2>3. /\ s \in Sections(Entries(Kinds)) /\ s.data_length = u.data_length
          /\ s.payload = WithWord(u.payload, l, w)
      BY ONLY <2>2, OverwriteFields DEF WithWord
    <2> QED
      BY <1>3, <2>1, <2>3
  <1> QED
    BY <1>3, <1>5, <1>6, <1>10

\* The service's length, written when its last descriptor is.
LEMMA ServicePatched ==
  ASSUME IInv, At("WRITE_SERVICE"), Open(run.serv), NEW s, s = ServiceLoopPatched,
         NEW E, NEW Q, NEW ph, NEW held, NEW t, NEW n, SheetInv(E, Kinds, {}, Q, ph, held, t, n),
         Q # << >>, NEW m, m = Len(Q), Q[m][1] = cur.payload, Q[m][2] = sec_bytes,
         NEW p, p = s.payload, NEW b, b = sec_bytes, NEW R, R = Replaced(Q, p, b)
  PROVE  /\ s \in Sections(Entries(Kinds)) /\ s.data_length = cur.data_length
         /\ SheetInv(E, Kinds, {}, R, ph, held, t, n)
  <1>1. s \in Sections(Entries(Kinds)) /\ s.data_length = cur.data_length
    BY PatchedPayload
  <1>2. PICK v, l, w : /\ v = cur.payload /\ l \in 1 .. Len(v) /\ v[l].kind = "desc_loop_len"
                       /\ s.payload = WithWord(v, l, w)
    BY PatchedPayload
  <1>3. p \in Seq(Entries(Kinds))
    BY <1>1, SectionFieldTypes
  <1>4. SheetInv(E, Kinds, {}, R, ph, held, t, n)
    BY <1>2, <1>3, LoopPack
  <1> QED
    BY <1>1, <1>4

\* A descriptor is left to the next section.
LEMMA ServiceFullOrder ==
  ASSUME IInv, OrderInv, ServiceFull
  PROVE  OrderInv'
  <1>1. /\ At("WRITE_SERVICE") /\ ItemGetDescFull(run.serv)
        /\ run' = [run EXCEPT !.op_state = "WRITE_HEAD"] /\ Leave(FALSE, ServiceLoopPatched)
        /\ UNCHANGED << attributes, length, services >>
    BY DEF ServiceFull
  <1>2. PICK i, r, len :
          i = run.serv /\ r = items[i].run /\ len = Len(items[i].descriptors)
    OBVIOUS
  <1>3. /\ DriverRest(Entries(Kinds), D_BIT) /\ run.op_state = "WRITE_SERVICE"
        /\ state = "WRITE_SEC" /\ ExtInv
        /\ cur.data_length # 0 /\ cur.data_length = sec_bytes + 3 /\ sec_bytes \in Nat
        /\ i \in DOMAIN items /\ ItemsAt(i) /\ RunOK(r, len) /\ NextOK(r, len)
        /\ SdtTypes /\ run.s_iter = i + 1 /\ i # 0
        /\ ServiceHas(i, r, len)
    BY ONLY IInv, OrderInv, <1>1, <1>2, ServiceSheet
  <1>4. PICK E, Q, ph, held, n, m :
          /\ E = SdtSheet /\ SheetInv(E, Kinds, {}, Q, ph, held, i, n) /\ IsSheets(Kinds, Q)
          /\ \/ ph = "TOP" /\ ItemHeld(r, held, n)
             \/ ph = "IN" /\ ItemBegun(r, len, held, n)
          /\ Q # << >> /\ m = Len(Q) /\ Q[m][1] = cur.payload /\ Q[m][2] = sec_bytes
          /\ Q \in SheetsOf(Kinds) /\ i \in DOMAIN E.D /\ E.D[i] = items[i].descriptors
          /\ E.base = BASE_LEN /\ E.M = getMaxDataLen /\ len = Len(E.D[i])
    BY ONLY <1>3 DEF ServiceHas
  <1>5. ItemGetDescFull(i) /\ length' = length
    BY <1>1, <1>2
  <1>6. /\ OnlyRun(i) /\ r.op_state = "GET_DESC" /\ r.d_iter # 0
        /\ items'[i].run = FetchRun(r, len, "WRITE_HEAD")
    BY <1>2, <1>3, <1>5, ItemFullStep DEF FetchRun
  <1>7. ph = "IN" /\ ItemBegun(r, len, held, n)
    BY <1>4, <1>6 DEF ItemHeld
  <1>8. Q[m][2] + E.D[i][r.d_iter] > E.M
    BY <1>2, <1>4, <1>5 DEF ItemGetDescFull, ItemTooLong
  <1>9. PICK q : q = items'[i].run
    OBVIOUS
  <1>10. /\ NextOK(q, len)
         /\ \E held2, n2 : SheetInv(E, Kinds, {}, Q, "OUT", held2, i, n2) /\ ItemHeld(q, held2, n2)
    BY <1>3, <1>4, <1>6, <1>7, <1>8, <1>9, ItemFullPack
  <1>11. PICK held2, n2 : SheetInv(E, Kinds, {}, Q, "OUT", held2, i, n2) /\ ItemHeld(q, held2, n2)
    BY <1>10
  <1>12. PICK s, p, b, R : s = ServiceLoopPatched /\ p = s.payload /\ b = sec_bytes /\ R = Replaced(Q, p, b)
    OBVIOUS
  <1>13. Open(run.serv)
    BY <1>2, <1>6 DEF Open
  <1>14. /\ s \in Sections(Entries(Kinds)) /\ s.data_length = sec_bytes + 3
         /\ SheetInv(E, Kinds, {}, R, "OUT", held2, i, n2)
    <2>1. /\ s \in Sections(Entries(Kinds)) /\ s.data_length = cur.data_length
          /\ SheetInv(E, Kinds, {}, R, "OUT", held2, i, n2)
      <3>1. PICK ph2 : ph2 = "OUT"
        OBVIOUS
      <3>2. /\ SheetInv(E, Kinds, {}, Q, ph2, held2, i, n2)
            /\ Q # << >> /\ m = Len(Q) /\ Q[m][1] = cur.payload /\ Q[m][2] = sec_bytes
        BY <1>4, <1>11, <3>1
      <3>3. SheetInv(E, Kinds, {}, R, ph2, held2, i, n2)
        BY ONLY IInv, <1>1, <1>12, <1>13, <3>2, ServicePatched
      <3>4. s \in Sections(Entries(Kinds)) /\ s.data_length = cur.data_length
        BY ONLY IInv, <1>1, <1>12, <1>13, PatchedPayload
      <3> QED
        BY <3>1, <3>3, <3>4
    <2> QED
      BY <1>3, <2>1
  <1>15. PICK done \in BOOLEAN : done = FALSE
    OBVIOUS
  <1>16. WriteSecReturn(done, s, sec_bytes, D_BIT)
    BY <1>1, <1>12, <1>15 DEF Leave
  <1>17. IsSheets(Kinds, R)' /\ state' = "MALLOC_SEC"
    <2>1. IsSheets(Kinds, R)'
      BY <1>3, <1>4, <1>12, <1>14, <1>16, SdtNumbers, SheetsLeave
    <2>2. state' = "MALLOC_SEC"
      BY <1>15, <1>16 DEF WriteSecReturn
    <2> QED
      BY <2>1, <2>2
  <1>18. run'.op_state = "WRITE_HEAD" /\ run'.serv = i /\ run'.s_iter = i + 1
    BY <1>1, <1>2, <1>3 DEF SdtTypes
  <1>19. SdtContexts'
    <2>1. ItemsAt(i)'
      BY <1>2, <1>3, <1>6, <1>9, <1>10, ItemsAtRun
    <2>2. Who' = i
      BY <1>18 DEF Who
    <2> QED
      BY <1>3, <1>17, <1>18, <2>1, <2>2 DEF SdtContexts
  <1>20. SdtDue("OUT", held2, i, n2)'
    BY <1>9, <1>11, <1>17, <1>18 DEF SdtDue
  <1>21. E = SdtSheet'
    BY <1>1, <1>3, <1>4, <1>6, DescriptorsSame, SheetStays
  <1> QED
    BY <1>14, <1>17, <1>19, <1>20, <1>21, KeepOrder

\* The service has no more.
LEMMA ServiceDoneOrder ==
  ASSUME IInv, OrderInv, ServiceDone, IInv'
  PROVE  OrderInv'
  <1>1. /\ At("WRITE_SERVICE") /\ ItemGetDescEnd(run.serv)
        /\ run' = [run EXCEPT !.op_state = "GET_SERVICE"]
        /\ WriteSecContinue(ServiceLoopPatched, sec_bytes)
        /\ UNCHANGED << attributes, length, services >>
    BY DEF ServiceDone
  <1>2. PICK i, r, len :
          i = run.serv /\ r = items[i].run /\ len = Len(items[i].descriptors)
    OBVIOUS
  <1>3. /\ DriverRest(Entries(Kinds), D_BIT) /\ run.op_state = "WRITE_SERVICE"
        /\ state = "WRITE_SEC" /\ ExtInv
        /\ cur.data_length # 0 /\ cur.data_length = sec_bytes + 3 /\ sec_bytes \in Nat
        /\ i \in DOMAIN items /\ ItemsAt(i) /\ RunOK(r, len) /\ NextOK(r, len)
        /\ SdtTypes /\ run.s_iter = i + 1 /\ i # 0
        /\ ServiceHas(i, r, len)
    BY ONLY IInv, OrderInv, <1>1, <1>2, ServiceSheet
  <1>4. PICK E, Q, ph, held, n, m :
          /\ E = SdtSheet /\ SheetInv(E, Kinds, {}, Q, ph, held, i, n) /\ IsSheets(Kinds, Q)
          /\ \/ ph = "TOP" /\ ItemHeld(r, held, n)
             \/ ph = "IN" /\ ItemBegun(r, len, held, n)
          /\ Q # << >> /\ m = Len(Q) /\ Q[m][1] = cur.payload /\ Q[m][2] = sec_bytes
          /\ Q \in SheetsOf(Kinds) /\ i \in DOMAIN E.D /\ E.D[i] = items[i].descriptors
          /\ E.base = BASE_LEN /\ E.M = getMaxDataLen /\ len = Len(E.D[i])
    BY ONLY <1>3 DEF ServiceHas
  <1>5. ItemGetDescEnd(i) /\ length' = length
    BY <1>1, <1>2
  <1>6. /\ OnlyRun(i) /\ r.op_state = "GET_DESC" /\ r.d_iter = 0
        /\ items'[i].run = ItemContext
    BY <1>2, <1>3, <1>5, ItemEndStep
  <1>7. ph = "IN" /\ ItemBegun(r, len, held, n)
    BY <1>4, <1>6 DEF ItemHeld
  <1>8. SheetInv(E, Kinds, {}, Q, "TOP", "NONE", i + 1, 1)
    BY <1>3, <1>4, <1>6, <1>7, ItemEndPack
  <1>9. PICK t : t = i + 1
    OBVIOUS
  <1>10. PICK s, p, b, R : s = ServiceLoopPatched /\ p = s.payload /\ b = sec_bytes /\ R = Replaced(Q, p, b)
    OBVIOUS
  <1>11. Open(run.serv)
    BY <1>2, <1>6 DEF Open
  <1>12. /\ s \in Sections(Entries(Kinds)) /\ s.data_length = cur.data_length
         /\ SheetInv(E, Kinds, {}, R, "TOP", "NONE", t, 1)
    <2>1. SheetInv(E, Kinds, {}, Q, "TOP", "NONE", t, 1)
      BY <1>8, <1>9
    <2>2. /\ At("WRITE_SERVICE") /\ Open(run.serv) /\ s = ServiceLoopPatched
          /\ p = s.payload /\ b = sec_bytes /\ R = Replaced(Q, p, b)
          /\ Q # << >> /\ m = Len(Q) /\ Q[m][1] = cur.payload /\ Q[m][2] = sec_bytes
      BY ONLY <1>1, <1>4, <1>10, <1>11
    <2> QED
      BY ONLY IInv, <2>1, <2>2, ServicePatched
  <1>13. WriteSecContinue(s, sec_bytes)
    BY <1>1, <1>10
  <1>14. /\ OnlyCur /\ state' = "WRITE_SEC" /\ cur' = s /\ sec_bytes' = b
    BY <1>3, <1>10, <1>13, RestFacts DEF WriteSecContinue, OnlyCur, ReplaceCur, cur
  <1>15. IsSheets(Kinds, R)'
    <2>1. DriverTypes(Entries(Kinds))' /\ cur'.data_length # 0 /\ p = cur'.payload
      BY <1>3, <1>10, <1>12, <1>14 DEF IInv, DriverInv
    <2> QED
      BY <1>3, <1>4, <1>10, <1>14, <2>1, SheetsGrow
  <1>16. run'.op_state = "GET_SERVICE" /\ run'.s_iter = t
    BY <1>1, <1>3, <1>9 DEF SdtTypes
  <1>17. SdtContexts'
    <2>1. NextOK(ItemContext, len)
      BY DEF NextOK, ItemContext
    <2>2. ItemsAt(i)'
      BY <1>2, <1>3, <1>6, <2>1, ItemsAtRun
    <2>3. Who' = 0
      BY <1>16 DEF Who
    <2>4. ItemsAt(0)'
      BY <1>6, <2>2 DEF ItemsAt, ItemContext
    <2> QED
      BY <1>14, <1>16, <2>3, <2>4 DEF SdtContexts
  <1>18. SdtDue("TOP", "NONE", t, 1)'
    BY <1>14, <1>16 DEF SdtDue
  <1>19. E = SdtSheet'
    BY <1>1, <1>3, <1>4, <1>6, DescriptorsSame, SheetStays
  <1> QED
    BY <1>12, <1>15, <1>17, <1>18, <1>19, KeepOrder
-----------------------------------------------------------------------------
(* The driver's steps, and the application's.                              *)

\* While nothing is built the table is at its first context.
LEMMA IdleOrder ==
  ASSUME SdtContexts, items' = items, run' = run, run = Context, state # "ABORTED"
  PROVE  SdtContexts'
  <1>1. Who = 0 /\ Who' = 0
    BY DEF Who, Context
  <1>2. ItemsAt(0)
    BY <1>1 DEF SdtContexts
  <1>3. ItemsAt(0)'
    BY <1>2, ItemsAtSame
  <1> QED
    BY <1>1, <1>3 DEF SdtContexts, Context

\* A build begins.
LEMMA BuildOrder ==
  ASSUME IInv, OrderInv, buildSections, UNCHANGED << extVars, services, run >>
  PROVE  OrderInv'
  <1>1. /\ state = "IDLE" /\ state' = "MALLOC_SEC" /\ UNCHANGED << attributes, length >>
        /\ items' = items /\ run' = run
    BY DEF buildSections, extVars
  <1>2. SdtContexts /\ run = Context
    BY <1>1 DEF OrderInv, SdtContexts
  <1>3. DriverInv(Entries(Kinds), D_BIT)
    BY DEF IInv
  <1>4. PICK E, Q : E = SdtSheet /\ Q = << >>
    OBVIOUS
  <1>5. PackArgs(E) /\ E.own = << >>
    BY <1>4, SheetFacts
  <1>6. SheetInv(E, Kinds, {}, Q, "OUT", "NONE", 1, 1)
    <2>1. SheetInv(E, Kinds, {}, Q, "OUT", "NONE", 0, 1)
      BY <1>4, <1>5, BeginPack
    <2>2. 1 = Len(E.own) + 1
      BY <1>5
    <2>3. PICK t, n : t = 0 /\ n = Len(E.own) + 1
      OBVIOUS
    <2>4. SheetInv(E, Kinds, {}, Q, "OUT", "NONE", t, n)
      BY <2>1, <2>2, <2>3
    <2> QED
      BY <2>3, <2>4, OwnDonePack
  <1>7. IsSheets(Kinds, Q)'
    BY <1>3, <1>4, SheetsBegin
  <1>8. SdtContexts'
    BY <1>1, <1>2, IdleOrder
  <1>9. SdtDue("OUT", "NONE", 1, 1)'
    BY <1>1, <1>2 DEF SdtDue, Context
  <1>10. E = SdtSheet'
    BY <1>1, <1>4, SheetStays DEF Descriptors
  <1> QED
    BY <1>6, <1>7, <1>8, <1>9, <1>10, KeepOrder

\* A section is allocated.
LEMMA MallocOrder ==
  ASSUME IInv, OrderInv, MallocSec, UNCHANGED << extVars, services, run >>
  PROVE  OrderInv'
  <1>1. /\ state = "MALLOC_SEC" /\ state' = "WRITE_SEC" /\ UNCHANGED << attributes, length >>
        /\ items' = items /\ run' = run
    BY DEF MallocSec, extVars
  <1>2. DriverInv(Entries(Kinds), D_BIT) /\ run.op_state \in {"INIT", "WRITE_HEAD"}
    BY <1>1 DEF IInv, Control
  <1>3. PICK E, Q, ph, held, t, n : E = SdtSheet /\ SdtFilled(E, Q, ph, held, t, n)
    BY <1>1 DEF OrderInv
  <1>4. SheetInv(E, Kinds, {}, Q, ph, held, t, n) /\ IsSheets(Kinds, Q)
    BY <1>3 DEF SdtFilled
  <1>5. IsSheets(Kinds, Q)'
    BY <1>2, <1>4, SheetsMalloc
  <1>6. SdtContexts'
    <2>1. SdtContexts
      BY DEF OrderInv
    <2>2. PICK w : w = Who
      OBVIOUS
    <2>3. Who' = w /\ ItemsAt(w)
      BY <1>1, <2>1, <2>2 DEF SdtContexts, Who
    <2>4. ItemsAt(w)'
      BY <1>1, <2>3, ItemsAtSame
    <2> QED
      BY <1>1, <2>1, <2>3, <2>4 DEF SdtContexts
  <1>7. SdtDue(ph, held, t, n)'
    <2>1. SdtDue(ph, held, t, n)
      BY <1>3 DEF SdtFilled
    <2> QED
      BY <1>1, <1>2, <2>1 DEF SdtDue
  <1>8. E = SdtSheet'
    BY <1>1, <1>3, SheetStays DEF Descriptors
  <1> QED
    BY <1>4, <1>5, <1>6, <1>7, <1>8, KeepOrder

\* What there is to show while nothing is built.
LEMMA NothingBuilt ==
  ASSUME SdtContexts', state' \in {"IDLE", "ABORTED"}
  PROVE  OrderInv'
  BY DEF OrderInv

\* The build is completed.
LEMMA EndOrder ==
  ASSUME IInv, OrderInv, EndTable, UNCHANGED << extVars, services, run >>
  PROVE  OrderInv'
  <1>1. state = "END_TABLE" /\ state' \in {"IDLE", "ABORTED"} /\ items' = items /\ run' = run
    BY DEF EndTable, Abort, extVars
  <1>2. SdtContexts /\ run = Context
    BY <1>1 DEF OrderInv, SdtContexts
  <1>3. SdtContexts'
    BY <1>1, <1>2, IdleOrder
  <1> QED
    BY <1>1, <1>3, NothingBuilt

\* The table is configured.
LEMMA ConfigureOrder ==
  ASSUME IInv, OrderInv, Configure, UNCHANGED << extVars, services, run >>
  PROVE  OrderInv'
  <1>1. state = "IDLE" /\ state' = "IDLE" /\ items' = items /\ run' = run
    BY DEF Configure, setMaxSectionLen, setSectionReservedLen, setVersionNumber,
           incVersionNumber, setCurrentNextIndicator, NewTStream, driver, extVars
  <1>2. SdtContexts /\ run = Context
    BY <1>1 DEF OrderInv, SdtContexts
  <1>3. SdtContexts'
    BY <1>1, <1>2, IdleOrder
  <1> QED
    BY <1>1, <1>3, NothingBuilt

\* The items of an idle table change.
LEMMA AddedOrder ==
  ASSUME SdtContexts, state = "IDLE", state' = "IDLE", run' = run,
         ItemsAt(0) => ItemsAt(0)'
  PROVE  OrderInv'
  <1>1. run = Context
    BY DEF SdtContexts
  <1>2. Who = 0 /\ Who' = 0
    BY <1>1 DEF Who, Context
  <1>3. SdtContexts'
    BY <1>1, <1>2 DEF SdtContexts, Context
  <1> QED
    BY <1>3, NothingBuilt

\* A service is added.
LEMMA AddServiceOrder ==
  ASSUME IInv, OrderInv, NEW sid \in ItemIds, NEW args \in ServiceArgs, addService(sid, args)
  PROVE  OrderInv'
  <1>1. DriverInv(Entries(Kinds), D_BIT) /\ ExtInv /\ SdtContexts /\ run' = run
    BY DEF IInv, OrderInv, addService
  <1>2. PICK list, b : list = DOMAIN items /\ b = BASE_LEN
    OBVIOUS
  <1>3. addItem(list, sid, sid, b) /\ sid \in ui16 /\ b \in Nat
    BY <1>2, ExtPsiTableArgs DEF addService, BASE_LEN
  <1>4. /\ ExtInv' /\ UNCHANGED driver /\ state = "IDLE" /\ Len(items') = Len(items) + 1
        /\ \A j \in DOMAIN items : items'[j] = items[j]
        /\ items'[Len(items) + 1] = [id |-> sid, descriptors |-> << >>, run |-> ItemContext]
    BY <1>1, <1>3, AddItemExt
  <1>5. state' = "IDLE"
    BY <1>4 DEF driver
  <1>6. items'[Len(items) + 1].run = ItemContext
    BY <1>4
  <1>7. items' \in Seq([id : ui16, descriptors : Seq(DescLength), run : Runs])
    BY <1>4 DEF ExtInv
  <1>8. ItemsAt(0) => ItemsAt(0)'
    BY <1>1, <1>4, <1>6, <1>7, ItemsAtAdd
  <1> QED
    BY <1>1, <1>4, <1>5, <1>8, AddedOrder

\* A descriptor is added to a service.
LEMMA AddServiceDescOrder ==
  ASSUME IInv, OrderInv, addServiceDesc
  PROVE  OrderInv'
  <1>1. DriverInv(Entries(Kinds), D_BIT) /\ ExtInv /\ SdtContexts
    BY DEF IInv, OrderInv
  <1>2. PICK d_len \in DescLens : \/ addLastItemDesc(DOMAIN items, d_len)
                                  \/ \E sid \in ItemIds : addItemDesc(DOMAIN items, sid, d_len)
    BY DEF addServiceDesc
  <1>3. d_len \in DescLength /\ state = "IDLE" /\ run' = run
    BY <1>2, ExtPsiTableArgs DEF addServiceDesc, addLastItemDesc, addItemDesc
  <1>4. PICK list : list = DOMAIN items
    OBVIOUS
  <1>5. PICK i \in DOMAIN items : addDescTo(i, d_len)
    <2>1. list \subseteq DOMAIN items
      BY <1>4
    <2>2. CASE addLastItemDesc(list, d_len)
      <3>1. Max(list) \in list
        BY <1>1, <2>1, <2>2, Found DEF addLastItemDesc
      <3> QED
        BY <2>1, <2>2, <3>1 DEF addLastItemDesc
    <2>3. CASE \E sid \in ItemIds : addItemDesc(list, sid, d_len)
      <3>1. PICK sid \in ItemIds : addItemDesc(list, sid, d_len)
        BY <2>3
      <3>2. find(list, sid) \in list
        BY <1>1, <2>1, <3>1, Found DEF addItemDesc
      <3> QED
        BY <2>1, <3>1, <3>2 DEF addItemDesc
    <2> QED
      BY <1>2, <1>4, <2>2, <2>3
  <1>6. /\ ExtInv' /\ UNCHANGED driver /\ Len(items') = Len(items)
        /\ \A j \in DOMAIN items : items'[j].run = items[j].run
    BY <1>1, <1>3, <1>5, AddDescExt
  <1>7. state' = "IDLE"
    BY <1>3, <1>6 DEF driver
  <1>8. ItemsAt(0) => ItemsAt(0)'
    BY <1>1, <1>6, ItemsAtDesc
  <1> QED
    BY <1>1, <1>3, <1>7, <1>8, AddedOrder

\* A new table has nothing to show.
LEMMA InitOrder == Init => OrderInv
  <1> SUFFICES ASSUME Init PROVE OrderInv
    OBVIOUS
  <1>1. items = << >> /\ run = Context /\ state = "IDLE"
    BY DEF Init, ExtInit, PsiInit
  <1>2. \A w : ItemsAt(w)
    BY <1>1 DEF ItemsAt
  <1> QED
    BY <1>1, <1>2 DEF OrderInv, SdtContexts, Context

\* Nothing happens.
LEMMA StillOrder ==
  ASSUME OrderInv, UNCHANGED vars
  PROVE  OrderInv'
  <1>1. /\ UNCHANGED << attributes, items, run, state, stream, first, sec_bytes >>
    BY DEF vars, psiVars, extVars, driver
  <1>2. SdtContexts'
    <2>1. SdtContexts
      BY DEF OrderInv
    <2>2. PICK w : w = Who
      OBVIOUS
    <2>3. Who' = w
      BY <1>1, <2>2 DEF Who
    <2>4. ItemsAt(w) => ItemsAt(w)'
      BY <1>1, ItemsAtSame
    <2> QED
      BY <1>1, <2>1, <2>2, <2>3, <2>4 DEF SdtContexts
  <1>3. CASE state \in {"MALLOC_SEC", "WRITE_SEC", "END_TABLE"}
    <2>1. PICK E, Q, ph, held, t, n : E = SdtSheet /\ SdtFilled(E, Q, ph, held, t, n)
      BY <1>3 DEF OrderInv
    <2>2. /\ SheetInv(E, Kinds, {}, Q, ph, held, t, n) /\ IsSheets(Kinds, Q)
          /\ SdtDue(ph, held, t, n)
      BY <2>1 DEF SdtFilled
    <2>3. IsSheets(Kinds, Q)'
      BY <1>1, <2>2, SheetsStay
    <2>4. E = SdtSheet'
      BY <1>1, <2>1 DEF SdtSheet, Descriptors, attributes, getMaxDataLen, maxDataLen
    <2>5. SdtDue(ph, held, t, n)'
      BY <1>1, <2>2 DEF SdtDue
    <2> QED
      BY <1>2, <2>2, <2>3, <2>4, <2>5, KeepOrder
  <1>4. CASE state \notin {"MALLOC_SEC", "WRITE_SEC", "END_TABLE"}
    BY <1>1, <1>2, <1>4 DEF OrderInv
  <1> QED
    BY <1>3, <1>4

\* Every step keeps it.
LEMMA StepOrder == IInv /\ OrderInv /\ [Next]_vars => (IInv /\ OrderInv)'
  <1> SUFFICES ASSUME IInv, OrderInv, [Next]_vars PROVE IInv' /\ OrderInv'
    OBVIOUS
  <1>1. IInv'
    BY StepIInv
  <1>2. CASE Api
    BY <1>1, <1>2, ConfigureOrder, BuildOrder, AddServiceOrder, AddServiceDescOrder DEF Api
  <1>3. CASE (MallocSec \/ EndTable) /\ UNCHANGED << extVars, services, run >>
    BY <1>1, <1>3, MallocOrder, EndOrder
  <1>4. CASE writeSection
    <2>1. CASE WriteHead
      BY <1>1, <2>1, WriteHeadOrder
    <2>2. CASE GetServiceFull \/ GetServiceFits \/ GetServiceEnd
      BY <1>1, <2>2, GetServiceOrder
    <2>3. CASE ServiceWrites
      BY <1>1, <2>3, ServiceHeadOrder, ServiceFetchOrder, ServiceDescOrder DEF ServiceWrites
    <2>4. CASE ServiceFull \/ ServiceDone
      BY <1>1, <2>4, ServiceFullOrder, ServiceDoneOrder
    <2> QED
      BY <1>4, <2>1, <2>2, <2>3, <2>4 DEF writeSection
  <1>5. CASE UNCHANGED vars
    BY <1>1, <1>5, StillOrder
  <1> QED
    BY <1>1, <1>2, <1>3, <1>4, <1>5 DEF Next, BuildStep

\* However the services and their descriptors are split, whatever the section length:
\* they are carried once each and in order, with a header in front of each part, and
\* a section ends only where what comes next would not have fitted.
THEOREM ServicesInOrder == Spec => []PackedInOrder
  <1>1. IInv /\ OrderInv => PackedInOrder
    <2> SUFFICES ASSUME IInv, OrderInv, Built PROVE
                 /\ CarriedInOrder("none", {})
                 /\ \A i \in Table \ {first} : StartsFull(i, "none", BASE_LEN, << >>)
      BY DEF PackedInOrder
    <2>1. state = "END_TABLE"
      BY DEF Built
    <2>2. PICK E, Q, ph, held, t, n : E = SdtSheet /\ SdtFilled(E, Q, ph, held, t, n)
      BY <2>1 DEF OrderInv
    <2>3. SheetInv(E, Kinds, {}, Q, "END", held, t, n) /\ IsSheets(Kinds, Q)
      BY <2>1, <2>2 DEF SdtFilled, SdtDue
    <2>4. DriverRest(Entries(Kinds), D_BIT) /\ ExtInv
      BY DriverIsRest DEF IInv
    <2>5. /\ E.D = Descriptors /\ E.M = getMaxDataLen /\ E.kind = "none" /\ E.set = {}
          /\ E.base = BASE_LEN /\ E.own = << >>
      BY <2>2, SheetFacts
    <2>6. /\ CarriedInOrder(E.kind, E.set)
          /\ \A j \in Table : j # first /\ j - first + 1 \notin {}
               => StartsFull(j, E.kind, E.base, E.own)
      BY <2>3, <2>4, <2>5, BuiltPack
    <2> QED
      BY <2>5, <2>6
  <1> QED
    BY <1>1, InitIInv, InitOrder, StepOrder, PTL DEF Spec
==============================================================================
