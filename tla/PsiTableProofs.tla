---------------------------- MODULE PsiTableProofs ----------------------------
(***************************************************************************)
(* Lemmas about the operators every sectioned table is built from: what    *)
(* each write leaves of a section, and what replacing the section being    *)
(* written leaves of the stream.  The proofs of the tables cite them and   *)
(* never look inside a section again.  Then the tables that write one      *)
(* list of entries, none of them split: the CAT and the PAT.               *)
(***************************************************************************)
EXTENDS PsiTable, Packing, WellFoundedInduction, TLAPS

\* An interval by its bounds, stated once so that no proof has to expand one.
LEMMA Interval ==
  ASSUME NEW n \in Int
  PROVE  \A x : x \in 0 .. n <=> x \in Int /\ 0 <= x /\ x <= n
  OBVIOUS

\* A set of natural numbers with an element has a least one: < is well founded.
LEMMA LeastNatural ==
  ASSUME NEW T \in SUBSET Nat, T # {}
  PROVE  \E x \in T : \A y \in T : x <= y
  <1> DEFINE R == OpToRel(<, Nat)
  <1>1. IsWellFoundedOn(OpToRel(<, Nat), Nat)
    BY NatLessThanWellFounded
  <1>2. \A x, y \in Nat : << y, x >> \in R <=> y < x
    BY Z3 DEF OpToRel
  <1>3. PICK Q : Q = R
    OBVIOUS
  <1>4. PICK x \in T : \A y \in T : ~ (<< y, x >> \in Q)
    BY <1>1, <1>3, WFMin
  <1>5. \A y \in T : ~ (y < x)
    BY <1>2, <1>3, <1>4
  <1> QED
    BY <1>5

\* A set of natural numbers that is bounded has a greatest one.
LEMMA GreatestNatural ==
  ASSUME NEW n \in Nat, NEW T \in SUBSET (0 .. n), T # {}
  PROVE  \E x \in T : \A y \in T : y <= x
  <1> DEFINE S == {m \in 0 .. n : n - m \in T}
  <1>1. S \in SUBSET Nat /\ S # {}
    <2>1. PICK x \in T : TRUE
      OBVIOUS
    <2>2. n - x \in 0 .. n /\ n - (n - x) = x
      OBVIOUS
    <2>3. n - x \in S /\ S \in SUBSET Nat
      BY <2>2
    <2> QED
      BY <2>3
  <1>2. PICK m \in S : \A y \in S : m <= y
    BY <1>1, LeastNatural
  <1>3. ASSUME NEW y \in T PROVE y <= n - m
    <2>1. n - y \in 0 .. n /\ n - (n - y) = y
      OBVIOUS
    <2>2. m <= n - y
      BY <1>2, <2>1
    <2> QED
      BY <2>2
  <1> QED
    BY <1>2, <1>3

\* Induction over the natural numbers, for a set of them: with 0 and all
\* successors it is the set of all, for what is missing would have a least element.
LEMMA NatSetInduction ==
  ASSUME NEW S \in SUBSET Nat, 0 \in S, \A n \in S : n + 1 \in S
  PROVE  \A n \in Nat : n \in S
  <1> DEFINE T == Nat \ S
  <1> SUFFICES ASSUME T # {} PROVE FALSE
    OBVIOUS
  <1>1. PICK x \in T : \A y \in T : x <= y
    BY LeastNatural
  <1>2. x # 0 /\ x - 1 \in Nat /\ ~ (x <= x - 1) /\ x - 1 \notin T
    BY <1>1
  <1> QED
    BY <1>1, <1>2

\* The prover sees the integer types as opaque sets with these members.
LEMMA Ui5 == \A x : x \in ui5 <=> x \in Int /\ 0 <= x /\ x < 32
  BY DEF ui5

\* The 8-bit integers.
LEMMA Ui8 == \A x : x \in ui8 <=> x \in Int /\ 0 <= x /\ x < 256
  BY DEF ui8

\* The 16-bit integers.
LEMMA Ui16 == \A x : x \in ui16 <=> x \in Int /\ 0 <= x /\ x < 65536
  <1>1. UI16_MAX = 65535
    BY DEF UI16_MAX
  <1>2. UI16_MAX \in Int
    BY DEF UI16_MAX
  <1>3. \A x : x \in ui16 <=> x \in Int /\ 0 <= x /\ x <= UI16_MAX
    BY <1>2, Interval DEF ui16
  <1> QED
    BY <1>1, <1>3

\* The version number stays in its bit field, whatever is assigned to it.
LEMMA FiveBits == \A v \in ui5 \cup ui8 : fiveBits(v) \in ui5 /\ fiveBits(v + 1) \in ui5
  BY Ui5, Ui8 DEF fiveBits

\* So does the section number.
LEMMA NextSec == \A n \in ui8 : nextSec(n) \in ui8
  BY Ui8 DEF nextSec

\* The types of the fields of a section.
LEMMA SectionFieldTypes ==
  ASSUME NEW P, NEW s \in Sections(P)
  PROVE  /\ s.size \in Int /\ 0 <= s.size /\ s.size < 65536
         /\ s.data_length \in Int /\ 0 <= s.data_length /\ s.data_length < 65536
         /\ s.payload \in Seq(P)
  <1>1. s.size \in ui16 /\ s.data_length \in ui16 /\ s.payload \in Seq(P)
    BY DEF Sections
  <1> QED
    BY <1>1, Ui16

\* A section as getNewSection returns it.
LEMMA NewSectionFields ==
  ASSUME NEW P, NEW m \in ui16
  PROVE  /\ NewSection(m) \in Sections(P)
         /\ NewSection(m).size = m
         /\ NewSection(m).data_length = 0
         /\ NewSection(m).payload = << >>
         /\ NewSection(m).crc = {}
  <1>1. 0 \in ui16 /\ 65535 \in ui16 /\ 255 \in ui8
    BY Ui8, Ui16
  <1> QED
    BY <1>1 DEF NewSection, Sections

\* One more position in a payload of positions.
LEMMA AppendPosition ==
  ASSUME NEW s \in Sections(Nat), NEW x \in Nat
  PROVE  Append(s.payload, x) \in Seq(Nat)
  BY SectionFieldTypes

\* A write that passed the assert moves the position and nothing else.
LEMMA PutFields ==
  ASSUME NEW P, NEW s \in Sections(P), NEW x, NEW len \in Nat,
         Append(s.payload, x) \in Seq(P),
         lengthFits(s, len)
  PROVE  /\ put(s, x, len) \in Sections(P)
         /\ put(s, x, len).size = s.size
         /\ put(s, x, len).data_length = s.data_length + len
         /\ put(s, x, len).payload = Append(s.payload, x)
         /\ put(s, x, len).crc = s.crc
         /\ put(s, x, len).section_number = s.section_number
  <1>1. s.data_length \in ui16 /\ s.size \in ui16
    BY DEF Sections
  <1>2. s.data_length + len \in ui16
    BY <1>1, Ui16 DEF lengthFits
  <1> QED
    BY <1>2 DEF put, Sections

\* Overwriting section_length moves nothing else.
LEMMA SetSectionLengthFields ==
  ASSUME NEW P, NEW s \in Sections(P), NEW d \in ui16
  PROVE  /\ setSectionLength(s, d) \in Sections(P)
         /\ setSectionLength(s, d).size = s.size
         /\ setSectionLength(s, d).data_length = s.data_length
         /\ setSectionLength(s, d).payload = s.payload
         /\ setSectionLength(s, d).crc = s.crc
         /\ setSectionLength(s, d).section_number = s.section_number
         /\ s.size >= 2 => setSectionLength(s, d).section_length = d
  <1>1. s.size \in Int
    BY Ui16 DEF Sections
  <1> QED
    BY <1>1 DEF setSectionLength, Sections

\* A header adds 8 bytes, and no payload.
LEMMA HeaderFields ==
  ASSUME NEW P, NEW s \in Sections(P), NEW private_bit \in {0, 1},
         length \in ui16, cur_sec \in ui8, version_number \in ui5,
         lengthFits(s, HEADER_LEN)
  PROVE  /\ writeSectionHeader(s, private_bit) \in Sections(P)
         /\ writeSectionHeader(s, private_bit).size = s.size
         /\ writeSectionHeader(s, private_bit).data_length
              = s.data_length + HEADER_LEN
         /\ writeSectionHeader(s, private_bit).payload = s.payload
         /\ writeSectionHeader(s, private_bit).crc = s.crc
         /\ writeSectionHeader(s, private_bit).section_number = cur_sec
  <1>1. buildLengthData(private_bit, length) \in ui16
    BY Ui16 DEF buildLengthData, LEN_MASK
  <1>2. VersionByte \in ui8 /\ 0 \in ui8
    BY Ui5, Ui8 DEF VersionByte
  <1>3. s.data_length \in ui16 /\ s.size \in ui16
    BY DEF Sections
  <1>4. s.data_length + HEADER_LEN \in ui16
    BY <1>3, Ui16 DEF lengthFits, HEADER_LEN
  <1> QED
    BY <1>1, <1>2, <1>4 DEF writeSectionHeader, Sections

\* Stamping sets last_section_number and then computes the CRC, so the CRC is
\* that of the section as it stays.
LEMMA StampFields ==
  ASSUME NEW P, NEW s \in Sections(P), NEW last \in ui8, lengthFits(s, CRC_LEN)
  PROVE  /\ stamp(s, last) \in Sections(P)
         /\ stamp(s, last).size = s.size
         /\ stamp(s, last).data_length = s.data_length + CRC_LEN
         /\ stamp(s, last).payload = s.payload
         /\ stamp(s, last).section_length = s.section_length
         /\ stamp(s, last).section_number = s.section_number
         /\ s.size >= 7 => stamp(s, last).last_section_number = last
         /\ stamp(s, last).crc = {Image(stamp(s, last))}
  <1> DEFINE l == setLastSectionNumber(s, last)
  <1>1. /\ l \in Sections(P)
        /\ l.size = s.size /\ l.data_length = s.data_length
        /\ l.payload = s.payload /\ l.section_length = s.section_length
        /\ l.section_number = s.section_number
        /\ s.size >= 7 => l.last_section_number = last
    <2>1. s.size \in Int
      BY Ui16 DEF Sections
    <2> QED
      BY <2>1 DEF setLastSectionNumber, Sections
  <1>2. Image(l) \in Images(P)
    BY <1>1 DEF Image, Images, Sections
  <1>3. s.data_length \in ui16 /\ s.size \in ui16
    BY DEF Sections
  <1> HIDE DEF l
  <1>4. l.data_length + CRC_LEN \in ui16
    BY <1>1, <1>3, Ui16 DEF lengthFits, CRC_LEN
  <1>5. {Image(l)} \in SUBSET Images(P)
    BY <1>2
  <1>6. /\ calcCrc(l) \in Sections(P)
        /\ calcCrc(l).size = l.size
        /\ calcCrc(l).data_length = l.data_length + CRC_LEN
        /\ calcCrc(l).payload = l.payload
        /\ calcCrc(l).section_length = l.section_length
        /\ calcCrc(l).version = l.version
        /\ calcCrc(l).section_number = l.section_number
        /\ calcCrc(l).last_section_number = l.last_section_number
        /\ calcCrc(l).crc = {Image(l)}
    BY <1>1, <1>4, <1>5 DEF calcCrc, Sections
  <1>7. Image(calcCrc(l)) = Image(l)
    BY <1>6 DEF Image
  <1> QED
    BY <1>1, <1>6, <1>7 DEF stamp, l

-----------------------------------------------------------------------------
\* Replacing the section being written touches no other.
LEMMA ReplaceCurFields ==
  ASSUME NEW S, stream \in Seq(S), Len(stream) > 0, NEW s \in S
  PROVE  /\ ReplaceCur(s) \in Seq(S)
         /\ Len(ReplaceCur(s)) = Len(stream)
         /\ ReplaceCur(s)[Len(stream)] = s
         /\ \A i \in 1 .. Len(stream) - 1 : ReplaceCur(s)[i] = stream[i]
  BY DEF ReplaceCur

\* What the driver writes into section_length is a 16-bit value.
LEMMA FinalLengthType ==
  ASSUME NEW b \in {0, 1}, NEW n \in Nat
  PROVE  finalSectionLength(b, n) \in ui16
  BY Ui16 DEF finalSectionLength, buildLengthData, LEN_MASK

\* A section_length that counts n bytes and the CRC reads as n + 4, with the
\* flags intact, as long as n + 4 fits in 12 bits.
LEMMA FinalLengthReads ==
  ASSUME NEW private_bit \in {0, 1}, NEW n \in Nat, n <= 4091
  PROVE  /\ finalSectionLength(private_bit, n) % LEN_MASK = n + 4
         /\ finalSectionLength(private_bit, n) \div LEN_MASK \in {11, 15}
  BY DEF finalSectionLength, buildLengthData, LEN_MASK

-----------------------------------------------------------------------------
(* The invariant of the driver, which is the same for every table: P is    *)
(* what the table writes after the header of a section, private_bit the    *)
(* one it puts before section_length.                                      *)

\* The section being written: empty until its header is, and then its bytes are
\* the 3 that section_length does not count and those writeSection has counted.
CurInv ==
  /\ state \in {"WRITE_SEC", "END_TABLE"} => first <= Len(stream)
  /\ state = "WRITE_SEC" =>
       /\ cur.size = max_section_length
       /\ \/ cur.data_length = 0 /\ cur.payload = << >>
          \/ /\ cur.data_length = sec_bytes + 3
             /\ HEADER_LEN <= cur.data_length /\ cur.data_length <= cur.size
             /\ cur.section_number = cur_sec

\* The sections of a build are numbered from 0 by an 8-bit counter.
Number(i) == (i - first) % 256

\* A section that writeSection has left, but the driver has not stamped.
Closed(i, private_bit) ==
  /\ HEADER_LEN <= stream[i].data_length /\ stream[i].data_length <= stream[i].size
  /\ stream[i].size = max_section_length
  /\ stream[i].section_length = finalSectionLength(private_bit, stream[i].data_length - 3)
  /\ stream[i].section_number = Number(i)

ClosedInv(private_bit) ==
  \A i \in Table :
    \/ state \in {"MALLOC_SEC", "END_TABLE"}
    \/ state = "WRITE_SEC" /\ i # Len(stream)
    => Closed(i, private_bit)

\* A section with its CRC.
Stamped(i, private_bit) ==
  /\ stream[i].crc = {Image(stream[i])}
  /\ HEADER_LEN + CRC_LEN <= stream[i].data_length
  /\ stream[i].data_length <= stream[i].size
  /\ stream[i].section_length
       = finalSectionLength(private_bit, stream[i].data_length - CRC_LEN - 3)

StreamInv(private_bit) ==
  \A i \in DOMAIN stream :
    IF state = "IDLE" \/ i < first THEN Stamped(i, private_bit)
                                   ELSE stream[i].crc = {}

\* The counter of the sections against the sections there are, and what is left
\* in them of it when the build is over.
NumberInv ==
  /\ Len(stream) <= MaxSections
  /\ state = "MALLOC_SEC" => cur_sec = Number(Len(stream) + 1)
  /\ state \in {"WRITE_SEC", "END_TABLE"} => cur_sec = Number(Len(stream))
  /\ state = "IDLE" => \A i \in Table :
       /\ stream[i].section_number = Number(i)
       /\ stream[i].last_section_number = Number(Len(stream))

DriverTypes(P) == PsiTypeOK /\ stream \in Seq(Sections(P))

DriverInv(P, private_bit) ==
  /\ DriverTypes(P)
  /\ CurInv /\ ClosedInv(private_bit) /\ StreamInv(private_bit) /\ NumberInv

\* The driver's invariant holds of an empty stream.
LEMMA InitDriver ==
  ASSUME NEW P, NEW private_bit, NEW base_len \in ui16, NEW max_len \in ui16,
         PsiInit(base_len, max_len)
  PROVE  DriverInv(P, private_bit)
  <1>1. DriverTypes(P)
    <2>1. 0 \in ui8 /\ 0 \in ui16
      BY Ui8, Ui16
    <2>2. version_number \in ui5 /\ current_next_indicator \in BOOLEAN
      BY PsiTableArgs, FiveBits DEF PsiInit
    <2>3. builds \in 0 .. MaxBuilds
      BY PsiTableArgs DEF PsiInit
    <2> QED
      BY <2>1, <2>2, <2>3 DEF PsiInit, DriverTypes, PsiTypeOK
  <1>2. CurInv
    BY DEF CurInv, PsiInit
  <1>3. DOMAIN stream = {} /\ Table = {} /\ Len(stream) = 0
    BY DEF Table, PsiInit
  <1>4. ClosedInv(private_bit) /\ StreamInv(private_bit)
    BY <1>3 DEF ClosedInv, StreamInv
  <1>5. NumberInv
    BY <1>3, PsiTableArgs DEF NumberInv, PsiInit
  <1> QED
    BY <1>1, <1>2, <1>4, <1>5 DEF DriverInv

\* What the application's calls between builds leave of the driver's variables.
LEMMA ConfigureFrame ==
  ASSUME Configure
  PROVE  /\ state = "IDLE" /\ state' = state /\ length' = length
         /\ cur_sec' = cur_sec /\ sec_bytes' = sec_bytes
         /\ \/ stream' = stream /\ first' = first /\ builds' = builds
            \/ stream' = << >> /\ first' = 1 /\ builds' = 0
  BY DEF Configure, setMaxSectionLen, setSectionReservedLen, setVersionNumber,
     incVersionNumber, setCurrentNextIndicator, NewTStream, driver, attributes

\* They keep the attributes in their fields.
LEMMA ConfigureTypes ==
  ASSUME PsiTypeOK, Configure
  PROVE  /\ max_section_length' \in ui16 /\ version_number' \in ui5
         /\ current_next_indicator' \in BOOLEAN
  <1> USE DEF attributes, PsiTypeOK
  <1>1. CASE \E l \in MaxSectionLens : setMaxSectionLen(l)
    BY <1>1, PsiTableArgs DEF setMaxSectionLen
  <1>2. CASE \E l \in ReservedLens : setSectionReservedLen(l)
    BY <1>2, PsiTableArgs DEF setSectionReservedLen
  <1>3. CASE \E v \in VersionArgs : setVersionNumber(v)
    BY <1>3, PsiTableArgs, FiveBits DEF setVersionNumber
  <1>4. CASE incVersionNumber
    BY <1>4, FiveBits DEF incVersionNumber
  <1>5. CASE \E b \in CniArgs : setCurrentNextIndicator(b)
    BY <1>5, PsiTableArgs DEF setCurrentNextIndicator
  <1>6. CASE NewTStream
    BY <1>6 DEF NewTStream
  <1> QED
    BY <1>1, <1>2, <1>3, <1>4, <1>5, <1>6 DEF Configure

\* The application's calls leave the sections alone, or drop them all.
LEMMA ConfigureDriver ==
  ASSUME NEW P, NEW private_bit, DriverInv(P, private_bit), Configure
  PROVE  DriverInv(P, private_bit)'
  <1>1. /\ state = "IDLE" /\ state' = state /\ length' = length
        /\ cur_sec' = cur_sec /\ sec_bytes' = sec_bytes
    BY ConfigureFrame
  <1>2. /\ max_section_length' \in ui16 /\ version_number' \in ui5
        /\ current_next_indicator' \in BOOLEAN
    BY ConfigureTypes DEF DriverInv, DriverTypes
  <1>3. CurInv' /\ ClosedInv(private_bit)'
    BY <1>1 DEF CurInv, ClosedInv
  <1>4. CASE stream' = stream /\ first' = first /\ builds' = builds
    <2>1. DriverTypes(P)'
      BY <1>1, <1>2, <1>4 DEF DriverInv, DriverTypes, PsiTypeOK
    <2>2. StreamInv(private_bit)' /\ NumberInv'
      BY <1>1, <1>4 DEF DriverInv, StreamInv, Stamped, NumberInv, Number, Table
    <2> QED
      BY <1>3, <2>1, <2>2 DEF DriverInv
  <1>5. CASE stream' = << >> /\ first' = 1 /\ builds' = 0
    <2>1. /\ stream' \in Seq(Sections(P)) /\ first' \in 1 .. Len(stream') + 1
          /\ Len(stream') = 0 /\ DOMAIN stream' = {} /\ Table' = {}
      BY <1>5 DEF Table
    <2>2. builds' \in 0 .. MaxBuilds
      BY <1>5, PsiTableArgs
    <2>3. DriverTypes(P)'
      BY <1>1, <1>2, <2>1, <2>2 DEF DriverInv, DriverTypes, PsiTypeOK
    <2>4. StreamInv(private_bit)' /\ NumberInv'
      BY <1>1, <2>1, PsiTableArgs DEF StreamInv, NumberInv
    <2> QED
      BY <1>3, <2>3, <2>4 DEF DriverInv
  <1> QED
    BY <1>4, <1>5, ConfigureFrame

\* An add between builds moves only the length of the table.
LEMMA AddDriver ==
  ASSUME NEW P, NEW private_bit, DriverInv(P, private_bit),
         UNCHANGED << attributes, driver >>, length' \in ui16
  PROVE  DriverInv(P, private_bit)'
  <1>1. DriverTypes(P)'
    BY DEF DriverInv, DriverTypes, PsiTypeOK, attributes, driver
  <1>2. CurInv' /\ ClosedInv(private_bit)' /\ StreamInv(private_bit)' /\ NumberInv'
    BY DEF DriverInv, CurInv, cur, ClosedInv, Closed, StreamInv, Stamped, NumberInv,
       Number, Table, attributes, driver
  <1> QED
    BY <1>1, <1>2 DEF DriverInv

\* The length of the table stays 16 bits wide: an add that would overflow it is
\* refused.
LEMMA IncLength ==
  ASSUME NEW l \in Nat, length \in ui16, incLength(l)
  PROVE  length' \in ui16
  <1>1. length + l < 65536 /\ length' = length + l
    BY DEF incLength, STLengthFits, MAX_TABLE_LEN
  <1> QED
    BY <1>1, Ui16

\* A build begins with no section of its own.
LEMMA BuildSectionsDriver ==
  ASSUME NEW P, NEW private_bit, DriverInv(P, private_bit), buildSections
  PROVE  DriverInv(P, private_bit)'
  <1>1. /\ state = "IDLE" /\ state' = "MALLOC_SEC" /\ stream' = stream
        /\ first' = Len(stream) + 1 /\ builds < MaxBuilds /\ builds' = builds + 1
        /\ cur_sec' = 0 /\ sec_bytes' = 0 /\ UNCHANGED << attributes, length >>
    BY DEF buildSections
  <1>2. Len(stream) \in Nat /\ first \in 1 .. Len(stream) + 1
    BY DEF DriverInv, DriverTypes, PsiTypeOK
  <1>3. DriverTypes(P)'
    <2>1. 0 \in ui8 /\ 0 \in ui16
      BY Ui8, Ui16
    <2>2. builds' \in 0 .. MaxBuilds
      BY <1>1, PsiTableArgs DEF DriverInv, DriverTypes, PsiTypeOK
    <2> QED
      BY <1>1, <1>2, <2>1, <2>2 DEF DriverInv, DriverTypes, PsiTypeOK, attributes
  <1>4. Table' = {}
    BY <1>1, <1>2 DEF Table
  <1>5. CurInv' /\ ClosedInv(private_bit)'
    BY <1>1, <1>4 DEF CurInv, ClosedInv
  <1>6. StreamInv(private_bit)'
    BY <1>1, <1>2 DEF DriverInv, StreamInv, Stamped
  <1>7. NumberInv'
    <2>1. Number(Len(stream) + 1)' = 0
      BY <1>1, <1>2 DEF Number
    <2> QED
      BY <1>1, <2>1 DEF DriverInv, NumberInv
  <1> QED
    BY <1>3, <1>5, <1>6, <1>7 DEF DriverInv

\* A new section is empty, and those before it are not touched.
LEMMA MallocSecFrame ==
  ASSUME NEW P, DriverTypes(P), MallocSec
  PROVE  /\ stream' \in Seq(Sections(P)) /\ Len(stream') = Len(stream) + 1
         /\ \A i \in 1 .. Len(stream) : stream'[i] = stream[i]
         /\ cur'.size = max_section_length /\ cur'.data_length = 0
         /\ cur'.payload = << >> /\ cur'.crc = {}
         /\ cur' = stream'[Len(stream) + 1]
  <1> DEFINE s == NewSection(max_section_length)
  <1>1. /\ s \in Sections(P) /\ s.size = max_section_length
        /\ s.data_length = 0 /\ s.payload = << >> /\ s.crc = {}
    BY NewSectionFields DEF DriverTypes, PsiTypeOK
  <1>2. stream' = Append(stream, s) /\ stream \in Seq(Sections(P))
    BY DEF MallocSec, DriverTypes
  <1> HIDE DEF s
  <1>3. /\ stream' \in Seq(Sections(P)) /\ Len(stream') = Len(stream) + 1
        /\ stream'[Len(stream) + 1] = s
        /\ \A i \in 1 .. Len(stream) : stream'[i] = stream[i]
    BY <1>1, <1>2
  <1>4. cur' = s
    BY <1>3 DEF cur
  <1> QED
    BY <1>1, <1>3, <1>4

\* The driver allocates a section.
LEMMA MallocSecDriver ==
  ASSUME NEW P, NEW private_bit, DriverInv(P, private_bit), MallocSec
  PROVE  DriverInv(P, private_bit)'
  <1>1. /\ state = "MALLOC_SEC" /\ state' = "WRITE_SEC" /\ Len(stream) < MaxSections
        /\ UNCHANGED << attributes, length, builds, cur_sec, sec_bytes, first >>
    BY DEF MallocSec
  <1>2. /\ stream' \in Seq(Sections(P)) /\ Len(stream') = Len(stream) + 1
        /\ \A i \in 1 .. Len(stream) : stream'[i] = stream[i]
        /\ cur'.size = max_section_length /\ cur'.data_length = 0
        /\ cur'.payload = << >> /\ cur'.crc = {}
        /\ cur' = stream'[Len(stream) + 1]
    BY MallocSecFrame DEF DriverInv
  <1>3. Len(stream) \in Nat /\ first \in 1 .. Len(stream) + 1 /\ MaxSections \in Nat
    BY PsiTableArgs DEF DriverInv, DriverTypes, PsiTypeOK
  <1>4. DriverTypes(P)'
    BY <1>1, <1>2, <1>3 DEF DriverInv, DriverTypes, PsiTypeOK, attributes
  <1>5. CurInv'
    BY <1>1, <1>2, <1>3 DEF CurInv, attributes
  <1>6. ClosedInv(private_bit)'
    <2> SUFFICES ASSUME NEW i \in Table', i # Len(stream')
                 PROVE  Closed(i, private_bit)'
      BY <1>1 DEF ClosedInv
    <2>1. i \in Table /\ stream'[i] = stream[i]
      BY <1>1, <1>2, <1>3 DEF Table
    <2>2. Closed(i, private_bit)
      BY <1>1, <2>1 DEF DriverInv, ClosedInv
    <2> QED
      BY <1>1, <2>1, <2>2 DEF Closed, Number, attributes
  <1>7. StreamInv(private_bit)'
    BY <1>1, <1>2, <1>3 DEF DriverInv, StreamInv, Stamped
  <1>8. NumberInv'
    BY <1>1, <1>2, <1>3 DEF DriverInv, NumberInv, Number
  <1> QED
    BY <1>4, <1>5, <1>6, <1>7, <1>8 DEF DriverInv

\* What the driver's invariant says of all but the count of the section's bytes,
\* which a table may set before it has written them.
DriverRest(P, private_bit) ==
  /\ DriverTypes(P) /\ ClosedInv(private_bit) /\ StreamInv(private_bit) /\ NumberInv
  /\ state \in {"WRITE_SEC", "END_TABLE"} => first <= Len(stream)
  /\ state = "WRITE_SEC" => cur.size = max_section_length

\* A section with its header, of whose bytes counted so many are not written yet.
Owed(bytes) ==
  /\ cur.data_length + bytes = sec_bytes + 3
  /\ HEADER_LEN <= cur.data_length /\ cur.data_length <= cur.size
  /\ cur.section_number = cur_sec

\* Nothing happens to the table.
LEMMA SameRest ==
  ASSUME NEW P, NEW private_bit, DriverRest(P, private_bit),
         UNCHANGED << attributes, length, driver >>
  PROVE  DriverRest(P, private_bit)'
  <1>1. DriverTypes(P)'
    BY DEF DriverRest, DriverTypes, PsiTypeOK, attributes, driver
  <1>2. /\ ClosedInv(private_bit)' /\ StreamInv(private_bit)' /\ NumberInv'
        /\ (state \in {"WRITE_SEC", "END_TABLE"} => first <= Len(stream))'
        /\ (state = "WRITE_SEC" => cur.size = max_section_length)'
    BY DEF DriverRest, cur, ClosedInv, Closed, StreamInv, Stamped, NumberInv,
       Number, Table, attributes, driver
  <1> QED
    BY <1>1, <1>2 DEF DriverRest

\* The section being written, whatever is owed.
LEMMA RestFacts ==
  ASSUME NEW P, NEW private_bit, DriverRest(P, private_bit), state = "WRITE_SEC"
  PROVE  /\ stream \in Seq(Sections(P)) /\ Len(stream) \in Nat
         /\ first \in 1 .. Len(stream)
         /\ cur \in Sections(P) /\ cur = stream[Len(stream)]
         /\ cur.crc = {} /\ cur.size = max_section_length
         /\ cur.data_length \in Nat /\ cur.size \in Nat /\ cur.size < 65536
         /\ sec_bytes \in Nat /\ cur_sec = Number(Len(stream))
  <1>1. /\ stream \in Seq(Sections(P)) /\ Len(stream) \in Nat
        /\ first \in 1 .. Len(stream) /\ cur.size = max_section_length
    BY DEF DriverRest, DriverTypes, PsiTypeOK
  <1>2. cur \in Sections(P) /\ cur = stream[Len(stream)]
    BY <1>1 DEF cur
  <1>3. cur.crc = {}
    BY <1>1, <1>2 DEF DriverRest, StreamInv
  <1>4. cur.data_length \in Nat /\ cur.size \in Nat /\ cur.size < 65536
    BY <1>2, SectionFieldTypes
  <1>5. sec_bytes \in Nat
    BY Ui16 DEF DriverRest, DriverTypes, PsiTypeOK
  <1>6. cur_sec = Number(Len(stream))
    BY DEF DriverRest, NumberInv
  <1> QED
    BY <1>1, <1>2, <1>3, <1>4, <1>5, <1>6

\* The driver's invariant is that nothing is owed.
LEMMA DriverIsRest ==
  ASSUME NEW P, NEW private_bit
  PROVE  DriverInv(P, private_bit) <=>
           /\ DriverRest(P, private_bit)
           /\ state = "WRITE_SEC" => \/ cur.data_length = 0 /\ cur.payload = << >>
                                     \/ Owed(0)
  <1>1. ASSUME DriverInv(P, private_bit) PROVE DriverRest(P, private_bit)
    BY <1>1 DEF DriverInv, DriverRest, CurInv
  <1>2. ASSUME DriverRest(P, private_bit), state = "WRITE_SEC"
        PROVE  cur.data_length + 0 = cur.data_length
    BY <1>2, RestFacts
  <1>3. ASSUME DriverInv(P, private_bit), state = "WRITE_SEC"
        PROVE  (cur.data_length = 0 /\ cur.payload = << >>) \/ Owed(0)
    BY <1>1, <1>2, <1>3 DEF DriverInv, CurInv, Owed
  <1>4. ASSUME /\ DriverRest(P, private_bit)
               /\ state = "WRITE_SEC" => \/ cur.data_length = 0 /\ cur.payload = << >>
                                         \/ Owed(0)
        PROVE  DriverInv(P, private_bit)
    <2>1. CurInv
      BY <1>2, <1>4 DEF DriverRest, CurInv, Owed
    <2> QED
      BY <1>4, <2>1 DEF DriverRest, DriverInv
  <1> QED
    BY <1>1, <1>3, <1>4

\* The section being written, as every case of writeSection finds it.
LEMMA CurFacts ==
  ASSUME NEW P, NEW private_bit, DriverInv(P, private_bit), state = "WRITE_SEC"
  PROVE  /\ stream \in Seq(Sections(P)) /\ Len(stream) \in Nat
         /\ first \in 1 .. Len(stream)
         /\ cur \in Sections(P) /\ cur = stream[Len(stream)]
         /\ cur.crc = {} /\ cur.size = max_section_length
         /\ cur.data_length \in Nat /\ cur.size \in Nat
         /\ cur.data_length = 0 \/ HEADER_LEN <= cur.data_length
         /\ cur.data_length <= cur.size
  <1>1. DriverRest(P, private_bit)
    BY DriverIsRest
  <1>2. cur.data_length \in Nat /\ cur.size \in Nat
    BY <1>1, RestFacts
  <1>3. /\ cur.data_length = 0 \/ HEADER_LEN <= cur.data_length
        /\ cur.data_length <= cur.size
    BY <1>2 DEF DriverInv, CurInv
  <1> QED
    BY <1>1, <1>3, RestFacts

\* The same once its header is written.
LEMMA CountedFacts ==
  ASSUME NEW P, NEW private_bit, DriverInv(P, private_bit), state = "WRITE_SEC",
         cur.data_length # 0
  PROVE  /\ cur.data_length = sec_bytes + 3 /\ sec_bytes \in Nat
         /\ HEADER_LEN <= cur.data_length /\ cur.data_length <= cur.size
         /\ cur.section_number = cur_sec
         /\ getMaxDataLen = cur.size - 3 - CRC_LEN
  <1>1. /\ cur.data_length = sec_bytes + 3
        /\ HEADER_LEN <= cur.data_length /\ cur.data_length <= cur.size
        /\ cur.section_number = cur_sec /\ cur.size = max_section_length
    BY DEF DriverInv, CurInv
  <1>2. sec_bytes \in Nat
    BY Ui16 DEF DriverInv, DriverTypes, PsiTypeOK
  <1>3. cur.size \in Nat /\ cur.size < 65536 /\ cur.data_length \in Nat
    <2>1. cur \in Sections(P)
      BY CurFacts
    <2> QED
      BY <2>1, SectionFieldTypes
  <1>4. 8 <= max_section_length /\ max_section_length < 65536 /\ max_section_length \in Nat
    BY <1>1, <1>3 DEF HEADER_LEN
  <1>5. (max_section_length - 3 - 4) % 65536 = max_section_length - 3 - 4
    BY ONLY <1>4
  <1>6. getMaxDataLen = cur.size - 3 - CRC_LEN
    BY <1>1, <1>5 DEF getMaxDataLen, maxDataLen, CRC_LEN
  <1> QED
    BY <1>1, <1>2, <1>6

\* What a case of writeSection leaves of the stream, whether it stays in the
\* section or returns.
LEMMA ReplaceCurRest ==
  ASSUME NEW P, NEW private_bit, DriverRest(P, private_bit), state = "WRITE_SEC",
         NEW s \in Sections(P), stream' = ReplaceCur(s)
  PROVE  /\ stream' \in Seq(Sections(P)) /\ Len(stream') = Len(stream)
         /\ stream'[Len(stream)] = s /\ cur' = s
         /\ \A i \in 1 .. Len(stream) - 1 : stream'[i] = stream[i]
  <1>1. stream \in Seq(Sections(P)) /\ Len(stream) \in Nat /\ Len(stream) > 0
    BY RestFacts
  <1>2. /\ stream' \in Seq(Sections(P)) /\ Len(stream') = Len(stream)
        /\ stream'[Len(stream)] = s
        /\ \A i \in 1 .. Len(stream) - 1 : stream'[i] = stream[i]
    BY <1>1, ReplaceCurFields
  <1> QED
    BY <1>2 DEF cur

\* The same when nothing is owed.
LEMMA ReplaceCurFrame ==
  ASSUME NEW P, NEW private_bit, DriverInv(P, private_bit), state = "WRITE_SEC",
         NEW s \in Sections(P), stream' = ReplaceCur(s)
  PROVE  /\ stream' \in Seq(Sections(P)) /\ Len(stream') = Len(stream)
         /\ stream'[Len(stream)] = s /\ cur' = s
         /\ \A i \in 1 .. Len(stream) - 1 : stream'[i] = stream[i]
  <1>1. DriverRest(P, private_bit)
    BY DriverIsRest
  <1> QED
    BY <1>1, ReplaceCurRest

\* A case of writeSection that stays within the section moves nothing but what
\* it writes and counts.
LEMMA ContinueRest ==
  ASSUME NEW P, NEW private_bit, DriverRest(P, private_bit), state = "WRITE_SEC",
         NEW s \in Sections(P), NEW bytes \in ui16, s.size = cur.size, s.crc = cur.crc,
         WriteSecContinue(s, bytes), UNCHANGED << attributes, length >>
  PROVE  /\ DriverRest(P, private_bit)' /\ cur' = s /\ state' = "WRITE_SEC"
         /\ sec_bytes' = bytes /\ UNCHANGED << cur_sec, first, builds >>
         /\ Len(stream') = Len(stream)
         /\ \A i \in 1 .. Len(stream) - 1 : stream'[i] = stream[i]
  <1>1. /\ stream' = ReplaceCur(s) /\ sec_bytes' = bytes /\ state' = state
        /\ UNCHANGED << builds, cur_sec, first, attributes, length >>
    BY DEF WriteSecContinue
  <1>2. /\ Len(stream) \in Nat /\ first \in 1 .. Len(stream)
        /\ cur.crc = {} /\ cur.size = max_section_length
    BY RestFacts
  <1>3. /\ stream' \in Seq(Sections(P)) /\ Len(stream') = Len(stream)
        /\ stream'[Len(stream)] = s /\ cur' = s
        /\ \A i \in 1 .. Len(stream) - 1 : stream'[i] = stream[i]
    BY <1>1, ReplaceCurRest
  <1>4. DriverTypes(P)'
    BY <1>1, <1>2, <1>3 DEF DriverRest, DriverTypes, PsiTypeOK, attributes
  <1>5. first' <= Len(stream') /\ cur'.size = max_section_length'
    BY <1>1, <1>2, <1>3 DEF attributes
  <1>6. ClosedInv(private_bit)'
    <2> SUFFICES ASSUME NEW i \in Table', i # Len(stream')
                 PROVE  Closed(i, private_bit)'
      BY <1>1 DEF ClosedInv
    <2>1. i \in Table /\ stream'[i] = stream[i]
      BY <1>1, <1>2, <1>3 DEF Table
    <2>2. Closed(i, private_bit)
      BY <1>3, <2>1 DEF DriverRest, ClosedInv
    <2> QED
      BY <1>1, <2>1, <2>2 DEF Closed, Number, attributes
  <1>7. StreamInv(private_bit)'
    BY <1>1, <1>2, <1>3 DEF DriverRest, StreamInv, Stamped
  <1>8. NumberInv'
    BY <1>1, <1>3 DEF DriverRest, NumberInv, Number
  <1>9. DriverRest(P, private_bit)'
    BY <1>4, <1>5, <1>6, <1>7, <1>8 DEF DriverRest
  <1> QED
    BY <1>1, <1>3, <1>9

\* It preserves the invariant if it leaves the section well formed and its count
\* exact.
LEMMA ContinueDriver ==
  ASSUME NEW P, NEW private_bit, DriverInv(P, private_bit), state = "WRITE_SEC",
         NEW s \in Sections(P), NEW bytes \in ui16,
         s.size = cur.size, s.crc = cur.crc, s.section_number = cur_sec,
         s.data_length = bytes + 3,
         HEADER_LEN <= s.data_length, s.data_length <= s.size,
         WriteSecContinue(s, bytes), UNCHANGED << attributes, length >>
  PROVE  DriverInv(P, private_bit)' /\ cur' = s /\ state' = "WRITE_SEC"
  <1>1. DriverRest(P, private_bit)
    BY DriverIsRest
  <1>2. /\ DriverRest(P, private_bit)' /\ cur' = s /\ state' = "WRITE_SEC"
        /\ sec_bytes' = bytes /\ cur_sec' = cur_sec /\ first' <= Len(stream')
    BY <1>1, ContinueRest DEF DriverRest
  <1>3. CurInv'
    BY <1>2 DEF CurInv, DriverRest
  <1> QED
    BY <1>2, <1>3 DEF DriverRest, DriverInv

\* A return from writeSection restores the invariant, if all that was counted has
\* been written: the section, with its length overwritten, is closed.
LEMMA ReturnRest ==
  ASSUME NEW P, NEW private_bit \in {0, 1}, DriverRest(P, private_bit),
         state = "WRITE_SEC", NEW s \in Sections(P),
         s.size = cur.size, s.crc = cur.crc, s.data_length = sec_bytes + 3,
         HEADER_LEN <= s.data_length, s.data_length <= s.size,
         s.section_number = cur_sec,
         NEW done \in BOOLEAN, WriteSecReturn(done, s, sec_bytes, private_bit),
         UNCHANGED << attributes, length >>
  PROVE  DriverInv(P, private_bit)'
  <1> DEFINE L == finalSectionLength(private_bit, sec_bytes)
             z == setSectionLength(s, L)
  <1>1. /\ Len(stream) \in Nat /\ first \in 1 .. Len(stream) /\ sec_bytes \in Nat
        /\ cur.crc = {} /\ cur.size = max_section_length
    BY RestFacts
  <1>2. L \in ui16
    BY <1>1, FinalLengthType
  <1> HIDE DEF L
  <1>3. /\ z \in Sections(P) /\ z.size = cur.size /\ z.crc = {}
        /\ z.data_length = sec_bytes + 3 /\ z.section_length = L
        /\ z.section_number = cur_sec
    <2>1. s.size >= 2
      BY <1>1, SectionFieldTypes DEF HEADER_LEN
    <2> QED
      BY <1>1, <1>2, <2>1, SetSectionLengthFields
  <1>4. /\ stream' = ReplaceCur(z) /\ first' = first /\ builds' = builds
        /\ sec_bytes' = sec_bytes
        /\ state' = (IF done THEN "END_TABLE" ELSE "MALLOC_SEC")
        /\ cur_sec' = (IF done THEN cur_sec ELSE nextSec(cur_sec))
    BY DEF WriteSecReturn, L
  <1> HIDE DEF z
  <1>5. /\ stream' \in Seq(Sections(P)) /\ Len(stream') = Len(stream)
        /\ stream'[Len(stream)] = z
        /\ \A i \in 1 .. Len(stream) - 1 : stream'[i] = stream[i]
    BY <1>3, <1>4, ReplaceCurRest
  <1>6. DriverTypes(P)'
    <2>1. cur_sec' \in ui8
      <3>1. cur_sec \in ui8
        BY DEF DriverRest, DriverTypes, PsiTypeOK
      <3> QED
        BY ONLY <1>4, <3>1, NextSec
    <2> QED
      BY <1>1, <1>4, <1>5, <2>1 DEF DriverRest, DriverTypes, PsiTypeOK, attributes
  <1>7. CurInv'
    BY <1>1, <1>4, <1>5 DEF CurInv
  <1>8. cur_sec = Number(Len(stream))
    BY DEF DriverRest, NumberInv
  <1>9. ClosedInv(private_bit)'
    <2> SUFFICES ASSUME NEW i \in Table' PROVE Closed(i, private_bit)'
      BY DEF ClosedInv
    <2>1. CASE i = Len(stream)
      <3>1. /\ stream'[i].data_length - 3 = sec_bytes
            /\ HEADER_LEN <= stream'[i].data_length
            /\ stream'[i].data_length <= stream'[i].size
        BY <1>1, <1>3, <1>5, <2>1
      <3> QED
        BY <1>1, <1>3, <1>4, <1>5, <1>8, <2>1, <3>1
           DEF Closed, L, Number, attributes
    <2>2. CASE i # Len(stream)
      <3>1. i \in Table /\ stream'[i] = stream[i]
        BY <1>1, <1>4, <1>5, <2>2 DEF Table
      <3>2. Closed(i, private_bit)
        BY <2>2, <3>1 DEF DriverRest, ClosedInv
      <3> QED
        BY <1>4, <3>1, <3>2 DEF Closed, Number, attributes
    <2> QED
      BY <2>1, <2>2
  <1>10. StreamInv(private_bit)'
    BY <1>1, <1>3, <1>4, <1>5, SMTT(20) DEF DriverRest, StreamInv, Stamped
  <1>11. NumberInv'
    <2>1. Len(stream') <= MaxSections /\ state' # "WRITE_SEC" /\ state' # "IDLE"
      BY <1>4, <1>5 DEF DriverRest, NumberInv
    <2>2. nextSec(cur_sec) = ((Len(stream) + 1) - first) % 256
      BY <1>1, <1>8 DEF nextSec, Number
    <2>3. state' = "MALLOC_SEC" => cur_sec' = ((Len(stream') + 1) - first') % 256
      BY <1>4, <1>5, <2>2
    <2>4. state' = "END_TABLE" => cur_sec' = (Len(stream') - first') % 256
      BY <1>4, <1>5, <1>8 DEF Number
    <2> QED
      BY <2>1, <2>3, <2>4 DEF NumberInv, Number
  <1> QED
    BY <1>6, <1>7, <1>9, <1>10, <1>11 DEF DriverInv

\* It preserves the invariant when the section is no longer than it was.
LEMMA ReturnDriver ==
  ASSUME NEW P, NEW private_bit \in {0, 1}, DriverInv(P, private_bit),
         state = "WRITE_SEC", cur.data_length # 0, NEW s \in Sections(P),
         s.size = cur.size, s.crc = cur.crc, s.data_length = cur.data_length,
         s.section_number = cur.section_number,
         NEW done \in BOOLEAN, WriteSecReturn(done, s, sec_bytes, private_bit),
         UNCHANGED << attributes, length >>
  PROVE  DriverInv(P, private_bit)'
  <1>1. DriverRest(P, private_bit)
    BY DriverIsRest
  <1>2. /\ s.data_length = sec_bytes + 3
        /\ HEADER_LEN <= s.data_length /\ s.data_length <= s.size
        /\ s.section_number = cur_sec
    BY CountedFacts
  <1> QED
    BY <1>1, <1>2, ReturnRest

\* What a case of writeSection that writes x leaves of the section: the position
\* and the count move by the same length, and the count does not wrap.
LEMMA PutCounted ==
  ASSUME NEW P, NEW private_bit, DriverInv(P, private_bit), state = "WRITE_SEC",
         cur.data_length # 0,
         NEW x, NEW len \in Nat, Append(cur.payload, x) \in Seq(P),
         lengthFits(cur, len)
  PROVE  /\ put(cur, x, len) \in Sections(P)
         /\ put(cur, x, len).size = cur.size
         /\ put(cur, x, len).crc = cur.crc
         /\ put(cur, x, len).section_number = cur_sec
         /\ put(cur, x, len).payload = Append(cur.payload, x)
         /\ put(cur, x, len).data_length = sec_bytes + len + 3
         /\ put(cur, x, len).data_length <= put(cur, x, len).size
         /\ HEADER_LEN <= put(cur, x, len).data_length
         /\ put(cur, x, len).data_length # 0
         /\ (sec_bytes + len) % 65536 = sec_bytes + len
         /\ sec_bytes + len \in ui16
  <1>1. cur \in Sections(P) /\ cur.size \in Nat /\ cur.size < 65536
    BY CurFacts, SectionFieldTypes
  <1>2. /\ cur.data_length = sec_bytes + 3 /\ sec_bytes \in Nat
        /\ HEADER_LEN <= cur.data_length /\ cur.section_number = cur_sec
    BY CountedFacts
  <1>3. cur.data_length + len <= cur.size
    BY DEF lengthFits
  <1>4. sec_bytes + len + 3 <= cur.size /\ sec_bytes + len < 65536
    BY <1>1, <1>2, <1>3
  <1>5. (sec_bytes + len) % 65536 = sec_bytes + len /\ sec_bytes + len \in ui16
    BY <1>2, <1>4, Ui16
  <1>6. /\ put(cur, x, len) \in Sections(P)
        /\ put(cur, x, len).size = cur.size
        /\ put(cur, x, len).crc = cur.crc
        /\ put(cur, x, len).section_number = cur.section_number
        /\ put(cur, x, len).payload = Append(cur.payload, x)
        /\ put(cur, x, len).data_length = cur.data_length + len
    BY <1>1, PutFields
  <1>7. /\ put(cur, x, len).data_length = sec_bytes + len + 3
        /\ HEADER_LEN <= put(cur, x, len).data_length
        /\ put(cur, x, len).data_length # 0
    BY <1>2, <1>6 DEF HEADER_LEN
  <1> QED
    BY <1>2, <1>4, <1>5, <1>6, <1>7

\* ... and a position of a list is put like this.
LEMMA PutPosition ==
  ASSUME NEW private_bit, DriverInv(Nat, private_bit), state = "WRITE_SEC",
         cur.data_length # 0,
         NEW x \in Nat, NEW len \in Nat, lengthFits(cur, len),
         NEW s, s = put(cur, x, len)
  PROVE  /\ s \in Sections(Nat) /\ s.size = cur.size /\ s.crc = cur.crc
         /\ s.section_number = cur_sec /\ s.payload = Append(cur.payload, x)
         /\ s.data_length = sec_bytes + len + 3 /\ s.data_length # 0
         /\ s.data_length = cur.data_length + len
         /\ HEADER_LEN <= s.data_length /\ s.data_length <= s.size
         /\ (sec_bytes + len) % 65536 = sec_bytes + len
         /\ sec_bytes + len \in ui16
  <1>1. Append(cur.payload, x) \in Seq(Nat)
    BY CurFacts, AppendPosition
  <1>2. /\ put(cur, x, len) \in Sections(Nat)
        /\ put(cur, x, len).size = cur.size
        /\ put(cur, x, len).crc = cur.crc
        /\ put(cur, x, len).section_number = cur_sec
        /\ put(cur, x, len).payload = Append(cur.payload, x)
        /\ put(cur, x, len).data_length = sec_bytes + len + 3
        /\ put(cur, x, len).data_length <= put(cur, x, len).size
        /\ HEADER_LEN <= put(cur, x, len).data_length
        /\ put(cur, x, len).data_length # 0
        /\ (sec_bytes + len) % 65536 = sec_bytes + len
        /\ sec_bytes + len \in ui16
    BY <1>1, PutCounted
  <1>3. cur.data_length = sec_bytes + 3 /\ sec_bytes \in Nat
    BY CountedFacts
  <1>4. sec_bytes + len + 3 = cur.data_length + len
    BY <1>3
  <1> QED
    BY <1>2, <1>4

\* A failed assert leaves everything as it was.
LEMMA AbortRest ==
  ASSUME NEW P, NEW private_bit, DriverRest(P, private_bit), state # "IDLE", Abort,
         UNCHANGED << attributes, length >>
  PROVE  DriverInv(P, private_bit)'
  <1>1. DriverTypes(P)'
    BY DEF DriverRest, DriverTypes, PsiTypeOK, Abort, attributes
  <1>2. CurInv' /\ ClosedInv(private_bit)' /\ StreamInv(private_bit)' /\ NumberInv'
    BY DEF DriverRest, Abort, CurInv, ClosedInv, StreamInv, Stamped, NumberInv
  <1> QED
    BY <1>1, <1>2 DEF DriverInv

\* The same when nothing is owed.
LEMMA AbortDriver ==
  ASSUME NEW P, NEW private_bit, DriverInv(P, private_bit), state # "IDLE", Abort,
         UNCHANGED << attributes, length >>
  PROVE  DriverInv(P, private_bit)'
  <1>1. DriverRest(P, private_bit)
    BY DriverIsRest
  <1> QED
    BY <1>1, AbortRest

\* What stamping leaves of the stream.
LEMMA EndTableFrame ==
  ASSUME NEW P, DriverTypes(P), EndTable, state' # "ABORTED"
  PROVE  /\ state = "END_TABLE" /\ state' = "IDLE"
         /\ stream' \in Seq(Sections(P)) /\ Len(stream') = Len(stream)
         /\ UNCHANGED << attributes, length, builds, cur_sec, sec_bytes, first >>
         /\ \A i \in 1 .. Len(stream) : i < first => stream'[i] = stream[i]
         /\ \A i \in Table :
              /\ lengthFits(stream[i], CRC_LEN) /\ stream'[i].payload = stream[i].payload
              /\ stream'[i] = stamp(stream[i], cur_sec)
  <1> DEFINE Fits == \A i \in first .. Len(stream) : lengthFits(stream[i], CRC_LEN)
  <1>1. Fits /\ state = "END_TABLE"
    BY DEF EndTable, Abort
  <1>2. /\ stream' = [i \in 1 .. Len(stream) |->
                        IF i < first THEN stream[i] ELSE stamp(stream[i], cur_sec)]
        /\ state' = "IDLE"
        /\ UNCHANGED << builds, cur_sec, sec_bytes, first, attributes, length >>
    BY <1>1 DEF EndTable
  <1>3. /\ stream \in Seq(Sections(P)) /\ Len(stream) \in Nat
        /\ first \in 1 .. Len(stream) + 1 /\ cur_sec \in ui8
    BY DEF DriverTypes, PsiTypeOK
  <1>4. ASSUME NEW i \in Table
        PROVE  /\ stamp(stream[i], cur_sec) \in Sections(P)
               /\ stamp(stream[i], cur_sec).payload = stream[i].payload
               /\ lengthFits(stream[i], CRC_LEN)
               /\ i \in 1 .. Len(stream) /\ ~(i < first)
    <2>1. /\ stream[i] \in Sections(P) /\ lengthFits(stream[i], CRC_LEN)
          /\ i \in 1 .. Len(stream) /\ ~(i < first)
      BY <1>1, <1>3 DEF Table
    <2> QED
      BY <1>3, <2>1, StampFields
  <1>5. stream' \in Seq(Sections(P)) /\ Len(stream') = Len(stream)
    <2>1. \A i \in 1 .. Len(stream) :
            (IF i < first THEN stream[i] ELSE stamp(stream[i], cur_sec)) \in Sections(P)
      BY <1>3, <1>4 DEF Table
    <2> QED
      BY <1>2, <1>3, <2>1
  <1> QED
    BY <1>1, <1>2, <1>4, <1>5

\* The end of a build: every section of the table is stamped, or none is.
LEMMA EndTableDriver ==
  ASSUME NEW P, NEW private_bit, DriverInv(P, private_bit), EndTable
  PROVE  DriverInv(P, private_bit)'
  <1>1. CASE state' = "ABORTED"
    <2>1. Abort /\ state # "IDLE" /\ UNCHANGED << attributes, length >>
      BY <1>1 DEF EndTable
    <2> QED
      BY <2>1, AbortDriver
  <1>2. CASE state' # "ABORTED"
    <2>1. /\ state = "END_TABLE" /\ state' = "IDLE"
          /\ stream' \in Seq(Sections(P)) /\ Len(stream') = Len(stream)
          /\ UNCHANGED << attributes, length, builds, cur_sec, sec_bytes, first >>
          /\ \A i \in 1 .. Len(stream) : i < first => stream'[i] = stream[i]
          /\ \A i \in Table :
               /\ lengthFits(stream[i], CRC_LEN)
               /\ stream'[i] = stamp(stream[i], cur_sec)
      BY <1>2, EndTableFrame DEF DriverInv
    <2>2. /\ stream \in Seq(Sections(P)) /\ Len(stream) \in Nat
          /\ first \in 1 .. Len(stream) + 1 /\ cur_sec \in ui8
      BY DEF DriverInv, DriverTypes, PsiTypeOK
    <2>3. DriverTypes(P)'
      BY <2>1, <2>2 DEF DriverInv, DriverTypes, PsiTypeOK, attributes
    <2>4. CurInv' /\ ClosedInv(private_bit)'
      BY <2>1 DEF CurInv, ClosedInv
    <2>5. ASSUME NEW i \in Table
          PROVE  /\ Stamped(i, private_bit)'
                 /\ stream'[i].section_number = Number(i)
                 /\ stream'[i].last_section_number = cur_sec
      <3>1. stream[i] \in Sections(P) /\ lengthFits(stream[i], CRC_LEN)
        BY <2>1, <2>2 DEF Table
      <3>2. Closed(i, private_bit)
        BY <2>1 DEF DriverInv, ClosedInv
      <3>3. stream[i].data_length \in Int /\ stream[i].size \in Int
        BY <3>1, SectionFieldTypes
      <3>4. stream[i].size >= 7
        BY <3>2, <3>3 DEF Closed, HEADER_LEN
      <3>5. /\ stream'[i].size = stream[i].size
            /\ stream'[i].data_length = stream[i].data_length + CRC_LEN
            /\ stream'[i].section_length = stream[i].section_length
            /\ stream'[i].section_number = stream[i].section_number
            /\ stream'[i].last_section_number = cur_sec
            /\ stream'[i].crc = {Image(stream'[i])}
        BY <2>1, <2>2, <3>1, <3>4, StampFields
      <3>6. stream'[i].data_length - CRC_LEN - 3 = stream[i].data_length - 3
        BY <3>3, <3>5 DEF CRC_LEN
      <3> QED
        BY <3>1, <3>2, <3>3, <3>5, <3>6
           DEF Stamped, Closed, lengthFits, HEADER_LEN, CRC_LEN
    <2>6. StreamInv(private_bit)'
      <3> SUFFICES ASSUME NEW i \in DOMAIN stream' PROVE Stamped(i, private_bit)'
        BY <2>1 DEF StreamInv
      <3>1. i \in 1 .. Len(stream)
        BY <2>1
      <3>2. CASE i < first
        BY <2>1, <2>2, <3>1, <3>2 DEF DriverInv, StreamInv, Stamped
      <3>3. CASE ~(i < first)
        <4>1. i \in Table
          BY <2>2, <3>1, <3>3 DEF Table
        <4> QED
          BY <2>5, <4>1
      <3> QED
        BY <3>2, <3>3
    <2>7. NumberInv'
      <3>1. Len(stream) <= MaxSections /\ cur_sec = Number(Len(stream))
        BY <2>1 DEF DriverInv, NumberInv
      <3>2. Table' = Table /\ \A i : Number(i)' = Number(i)
        BY <2>1 DEF Table, Number
      <3> QED
        BY <2>1, <2>5, <3>1, <3>2 DEF NumberInv
    <2> QED
      BY <2>3, <2>4, <2>6, <2>7 DEF DriverInv
  <1> QED
    BY <1>1, <1>2

-----------------------------------------------------------------------------
(* The positions in the sections of the build, for the tables whose payload *)
(* is positions of a list: what each step of a build leaves of them.        *)

Written == UNION {In(i) : i \in Table}

Increasing ==
  /\ \A i, j \in Table : i < j => \A a \in In(i), b \in In(j) : a < b
  /\ \A i \in Table : \A k, l \in DOMAIN stream[i].payload :
       k < l => stream[i].payload[k] < stream[i].payload[l]

\* What is in the sections, and in what order, depends on the payloads alone.
LEMMA SamePayloads ==
  ASSUME first' = first, Len(stream') = Len(stream),
         \A i \in Table : stream'[i].payload = stream[i].payload
  PROVE  /\ Written' = Written
         /\ Increasing => Increasing'
  <1>1. Table' = Table
    BY DEF Table
  <1>2. \A i \in Table : In(i)' = In(i)
    BY DEF In
  <1>3. Written' = Written
    BY <1>1, <1>2 DEF Written
  <1>4. ASSUME Increasing PROVE Increasing'
    BY <1>1, <1>2, <1>4 DEF Increasing
  <1> QED
    BY <1>3, <1>4

\* Without sections nothing is written, so nothing is out of order.
LEMMA NoSections ==
  ASSUME Table = {}
  PROVE  Increasing /\ Written = {}
  BY DEF Increasing, Written

\* An empty section at the end of the table changes nothing.
LEMMA EmptySection ==
  ASSUME NEW n \in Nat, n = Len(stream) + 1, Len(stream) \in Nat,
         first \in 1 .. n, first' = first, Len(stream') = n,
         \A i \in 1 .. n - 1 : stream'[i] = stream[i],
         stream'[n].payload = << >>
  PROVE  /\ Written' = Written
         /\ Increasing => Increasing'
  <1>1. Table' = Table \cup {n} /\ n \notin Table
    BY DEF Table
  <1>2. \A i \in Table : stream'[i] = stream[i] /\ i \in Int /\ i < n
    BY DEF Table
  <1>3. DOMAIN stream'[n].payload = {}
    OBVIOUS
  <1>4. In(n)' = {}
    BY <1>3 DEF In
  <1>5. \A i \in Table : In(i)' = In(i)
    BY <1>2 DEF In
  <1>6. Written' = Written
    BY <1>1, <1>4, <1>5 DEF Written
  <1>7. ASSUME Increasing PROVE Increasing'
    <2>1. ASSUME NEW i \in Table', NEW j \in Table', i < j,
                 NEW a \in In(i)', NEW b \in In(j)'
          PROVE  a < b
      <3>1. i \in Table /\ j \in Table
        BY <1>1, <1>4, <2>1
      <3> QED
        BY <1>5, <1>7, <2>1, <3>1 DEF Increasing
    <2>2. ASSUME NEW i \in Table', NEW k \in DOMAIN stream'[i].payload,
                 NEW l \in DOMAIN stream'[i].payload, k < l
          PROVE  stream'[i].payload[k] < stream'[i].payload[l]
      <3>1. i \in Table
        BY <1>1, <1>3
      <3> QED
        BY <1>2, <1>7, <2>2, <3>1 DEF Increasing
    <2> QED
      BY <2>1, <2>2 DEF Increasing
  <1> QED
    BY <1>6, <1>7

\* Descriptor m + 1 goes to the end of the last section, after 1, ..., m.
LEMMA AppendNext ==
  ASSUME NEW n \in Nat, n = Len(stream), first \in 1 .. n,
         first' = first, Len(stream') = n,
         \A i \in 1 .. n - 1 : stream'[i] = stream[i],
         NEW p \in Seq(Nat), p = stream[n].payload,
         NEW m \in Nat, Written = 1 .. m, Increasing,
         stream'[n].payload = Append(p, m + 1)
  PROVE  Increasing' /\ Written' = 1 .. m + 1
  <1>1. Table' = Table /\ n \in Table
    BY DEF Table
  <1>2. \A i \in Table : i \in Int /\ i <= n /\ (i # n => stream'[i] = stream[i])
    BY SMTT(20) DEF Table
  <1>3. stream[n].payload = p /\ stream'[n].payload = Append(p, m + 1)
    OBVIOUS
  <1>4. /\ p \in Seq(Nat) /\ Len(p) \in Nat
        /\ DOMAIN p = 1 .. Len(p)
        /\ DOMAIN Append(p, m + 1) = 1 .. Len(p) + 1
        /\ \A k \in 1 .. Len(p) : Append(p, m + 1)[k] = p[k]
        /\ Append(p, m + 1)[Len(p) + 1] = m + 1
    OBVIOUS
  <1>5. \A i \in Table : i # n => In(i)' = In(i)
    BY <1>2 DEF In
  <1>6. In(n)' = In(n) \cup {m + 1}
    <2>1. In(n) = {p[k] : k \in 1 .. Len(p)}
      BY <1>3, <1>4 DEF In
    <2>2. In(n)' = {Append(p, m + 1)[k] : k \in 1 .. Len(p) + 1}
      BY <1>3, <1>4 DEF In
    <2>3. 1 .. Len(p) + 1 = (1 .. Len(p)) \cup {Len(p) + 1}
      BY <1>4
    <2> QED
      BY <1>4, <2>1, <2>2, <2>3
  <1>7. \A i \in Table : In(i) \subseteq 1 .. m
    BY DEF Written
  <1>8. Written' = 1 .. m + 1
    <2>1. Written' = Written \cup {m + 1}
      BY <1>1, <1>5, <1>6 DEF Written
    <2> QED
      BY <2>1
  <1>9. ASSUME NEW i \in Table', NEW j \in Table', i < j,
               NEW a \in In(i)', NEW b \in In(j)'
        PROVE  a < b
    <2>1. i \in Table /\ j \in Table /\ i # n /\ a \in In(i)
      BY <1>1, <1>2, <1>5, <1>9
    <2>2. CASE b \in In(j)
      BY <1>9, <2>1, <2>2 DEF Increasing
    <2>3. CASE b = m + 1
      <3>1. a \in 1 .. m
        BY <1>7, <2>1
      <3> QED
        BY <2>3, <3>1
    <2> QED
      BY <1>5, <1>6, <1>9, <2>1, <2>2, <2>3
  <1>10. ASSUME NEW i \in Table', NEW k \in DOMAIN stream'[i].payload,
                NEW l \in DOMAIN stream'[i].payload, k < l
         PROVE  stream'[i].payload[k] < stream'[i].payload[l]
    <2>1. CASE i # n
      BY <1>1, <1>2, <1>10, <2>1 DEF Increasing
    <2>2. CASE i = n
      <3>1. k \in 1 .. Len(p) /\ l \in 1 .. Len(p) + 1
        <4>1. k \in 1 .. Len(p) + 1 /\ l \in 1 .. Len(p) + 1
          BY <1>3, <1>4, <1>10, <2>2
        <4>2. k < l /\ Len(p) \in Nat
          BY <1>4, <1>10
        <4> QED
          BY ONLY <4>1, <4>2
      <3>2. stream'[i].payload[k] = p[k] /\ p[k] \in 1 .. m
        <4>1. p[k] \in In(n)
          BY <1>3, <1>4, <3>1 DEF In
        <4> QED
          BY <1>1, <1>3, <1>4, <1>7, <2>2, <3>1, <4>1
      <3>3. CASE l = Len(p) + 1
        BY <1>3, <1>4, <2>2, <3>2, <3>3, SMTT(20)
      <3>4. CASE l \in 1 .. Len(p)
        BY <1>1, <1>3, <1>4, <1>10, <2>2, <3>1, <3>2, <3>4 DEF Increasing
      <3>5. l = Len(p) + 1 \/ l \in 1 .. Len(p)
        <4>1. Len(p) \in Nat
          BY <1>4
        <4> QED
          BY ONLY <3>1, <4>1
      <3> QED
        BY <3>3, <3>4, <3>5
    <2> QED
      BY <2>1, <2>2
  <1> QED
    BY <1>8, <1>9, <1>10 DEF Increasing

\* Nothing is written in a table just constructed.
LEMMA InitPayloads ==
  ASSUME NEW base_len, NEW max_len, PsiInit(base_len, max_len)
  PROVE  Increasing /\ Written = {}
  <1>1. Table = {}
    BY DEF Table, PsiInit
  <1> QED
    BY <1>1, NoSections

\* The application's calls leave what is written, or turn to a new stream.
LEMMA ConfigurePayloads ==
  ASSUME Configure, Increasing
  PROVE  Increasing' /\ Written' \in {Written, {}}
  <1>1. \/ stream' = stream /\ first' = first
        \/ stream' = << >> /\ first' = 1
    BY ConfigureFrame
  <1>2. CASE stream' = stream /\ first' = first
    BY <1>2, SamePayloads
  <1>3. CASE stream' = << >> /\ first' = 1
    <2>1. Table' = {}
      BY <1>3 DEF Table
    <2> QED
      BY <2>1 DEF Increasing, Written
  <1> QED
    BY <1>1, <1>2, <1>3

\* A new build has written nothing.
LEMMA BuildSectionsPayloads ==
  ASSUME NEW P, DriverTypes(P), buildSections
  PROVE  Increasing' /\ Written' = {}
  <1>1. first' = Len(stream) + 1 /\ stream' = stream /\ Len(stream) \in Nat
    BY DEF buildSections, DriverTypes
  <1>2. Table' = {}
    BY <1>1 DEF Table
  <1> QED
    BY <1>2 DEF Increasing, Written

\* Allocating a section writes nothing.
LEMMA MallocSecPayloads ==
  ASSUME NEW P, DriverTypes(P), MallocSec
  PROVE  Written' = Written /\ (Increasing => Increasing')
  <1>1. /\ Len(stream) \in Nat /\ first \in 1 .. Len(stream) + 1 /\ first' = first
    BY DEF MallocSec, DriverTypes, PsiTypeOK
  <1>2. /\ Len(stream') = Len(stream) + 1
        /\ \A i \in 1 .. Len(stream) : stream'[i] = stream[i]
        /\ stream'[Len(stream) + 1].payload = << >>
    BY MallocSecFrame
  <1>3. PICK n \in Nat : n = Len(stream) + 1
    BY <1>1
  <1>4. \A i \in 1 .. n - 1 : stream'[i] = stream[i]
    BY <1>1, <1>2, <1>3
  <1> QED
    BY <1>1, <1>2, <1>3, <1>4, EmptySection

\* A case of writeSection that adds no payload, only a header.
LEMMA ReplacePayloads ==
  ASSUME NEW P, NEW private_bit, DriverInv(P, private_bit), state = "WRITE_SEC",
         NEW s \in Sections(P), s.payload = cur.payload,
         stream' = ReplaceCur(s), first' = first
  PROVE  Written' = Written /\ (Increasing => Increasing')
  <1>1. Len(stream) \in Nat /\ first \in 1 .. Len(stream) /\ cur = stream[Len(stream)]
    BY CurFacts
  <1>2. /\ Len(stream') = Len(stream) /\ stream'[Len(stream)] = s
        /\ \A i \in 1 .. Len(stream) - 1 : stream'[i] = stream[i]
    BY ReplaceCurFrame
  <1>3. \A i \in Table : stream'[i].payload = stream[i].payload
    BY <1>1, <1>2 DEF Table
  <1> QED
    BY <1>2, <1>3, SamePayloads

\* A return from writeSection that leaves the section as it is, for the driver
\* to overwrite its length.
LEMMA ReturnPayloads ==
  ASSUME NEW P, NEW private_bit \in {0, 1}, DriverInv(P, private_bit),
         state = "WRITE_SEC",
         NEW done, WriteSecReturn(done, cur, sec_bytes, private_bit)
  PROVE  Written' = Written /\ (Increasing => Increasing')
  <1> DEFINE L == finalSectionLength(private_bit, sec_bytes)
             s == setSectionLength(cur, L)
  <1>1. stream' = ReplaceCur(s) /\ first' = first
    BY DEF WriteSecReturn
  <1>2. cur \in Sections(P) /\ L \in ui16
    <2>1. sec_bytes \in Nat
      BY Ui16 DEF DriverInv, DriverTypes, PsiTypeOK
    <2> QED
      BY <2>1, CurFacts, FinalLengthType
  <1> HIDE DEF L
  <1>3. s \in Sections(P) /\ s.payload = cur.payload
    BY <1>2, SetSectionLengthFields
  <1> HIDE DEF s
  <1> QED
    BY <1>1, <1>3, ReplacePayloads

\* A failed assert writes nothing.
LEMMA AbortPayloads ==
  ASSUME Abort
  PROVE  Written' = Written /\ (Increasing => Increasing')
  BY SamePayloads DEF Abort

\* Stamping the sections of the table leaves their payloads alone.
LEMMA EndTablePayloads ==
  ASSUME NEW P, DriverTypes(P), EndTable
  PROVE  /\ Written' = Written /\ (Increasing => Increasing')
         /\ state' \in {"IDLE", "ABORTED"}
  <1>1. CASE state' = "ABORTED"
    <2>1. Abort
      BY <1>1 DEF EndTable
    <2> QED
      BY <1>1, <2>1, AbortPayloads
  <1>2. CASE state' # "ABORTED"
    <2>1. /\ state' = "IDLE" /\ Len(stream') = Len(stream) /\ first' = first
          /\ \A i \in Table : stream'[i].payload = stream[i].payload
      BY <1>2, EndTableFrame
    <2> QED
      BY <2>1, SamePayloads
  <1> QED
    BY <1>1, <1>2

\* The next position goes to the end of the section being written.
LEMMA WriteNext ==
  ASSUME NEW private_bit, DriverInv(Nat, private_bit), state = "WRITE_SEC",
         NEW m \in Nat, Written = 1 .. m, Increasing,
         NEW s \in Sections(Nat), s.payload = Append(cur.payload, m + 1),
         stream' = ReplaceCur(s), first' = first
  PROVE  Increasing' /\ Written' = 1 .. m + 1
  <1>1. /\ Len(stream) \in Nat /\ first \in 1 .. Len(stream)
        /\ cur \in Sections(Nat) /\ cur = stream[Len(stream)]
    BY CurFacts
  <1>2. PICK n \in Nat : n = Len(stream)
    BY <1>1
  <1>3. /\ Len(stream') = n /\ stream'[n] = s
        /\ \A i \in 1 .. n - 1 : stream'[i] = stream[i]
    BY <1>2, ReplaceCurFrame
  <1>4. PICK p \in Seq(Nat) : p = cur.payload
    BY <1>1, SectionFieldTypes
  <1>5. p = stream[n].payload /\ stream'[n].payload = Append(p, m + 1)
    BY <1>1, <1>2, <1>3, <1>4
  <1>6. first \in 1 .. n
    BY <1>1, <1>2
  <1> QED
    BY <1>2, <1>3, <1>4, <1>5, <1>6, AppendNext

-----------------------------------------------------------------------------
(* What the driver's invariant says of the sections in the stream.         *)

\* The CRC of a section in the stream is that of its present bytes.
LEMMA RestCrc ==
  ASSUME NEW P, NEW private_bit, DriverRest(P, private_bit)
  PROVE  CrcCurrent
  BY DEF DriverRest, StreamInv, Stamped, CrcCurrent

\* Up to the 4096 bytes a 12-bit length can describe, the section_length of a
\* finished section says where the section ends.
LEMMA RestSectionLength ==
  ASSUME NEW P, NEW private_bit \in {0, 1}, DriverRest(P, private_bit)
  PROVE  SectionLengthCoversSection
  <1> SUFFICES ASSUME NEW i \in DOMAIN stream, Finished(i), stream[i].size <= 4096
               PROVE  /\ stream[i].section_length % LEN_MASK
                           = stream[i].data_length - 3
                      /\ stream[i].section_length \div LEN_MASK \in {11, 15}
    BY DEF SectionLengthCoversSection
  <1>1. stream \in Seq(Sections(P)) /\ i \in 1 .. Len(stream)
    BY DEF DriverRest, DriverTypes
  <1>2. Stamped(i, private_bit)
    BY <1>1 DEF DriverRest, StreamInv, Finished
  <1>3. stream[i].data_length \in Int /\ stream[i].size \in Int
    BY <1>1, SectionFieldTypes
  <1> DEFINE n == stream[i].data_length - CRC_LEN - 3
  <1>4. n \in Nat /\ n <= 4091 /\ n + 4 = stream[i].data_length - 3
    BY <1>2, <1>3 DEF Stamped, HEADER_LEN, CRC_LEN
  <1>5. stream[i].section_length = finalSectionLength(private_bit, n)
    BY <1>2 DEF Stamped
  <1> HIDE DEF n
  <1> QED
    BY <1>4, <1>5, FinalLengthReads

\* With at most the 256 sections that the 8-bit counter can tell apart, the
\* sections of a build are numbered from 0 to the last.
LEMMA RestNumbers ==
  ASSUME NEW P, NEW private_bit, DriverRest(P, private_bit), MaxSections <= 256
  PROVE  SectionsNumbered
  <1> SUFFICES ASSUME state = "IDLE", NEW i \in Table
               PROVE  /\ stream[i].section_number = i - first
                      /\ stream[i].last_section_number = Len(stream) - first
    BY DEF SectionsNumbered
  <1>1. /\ Len(stream) \in Nat /\ first \in 1 .. Len(stream) + 1
        /\ Len(stream) <= MaxSections /\ MaxSections \in Nat
    BY PsiTableArgs DEF DriverRest, DriverTypes, PsiTypeOK, NumberInv
  <1>2. i \in Int /\ first <= i /\ i <= Len(stream)
    BY <1>1 DEF Table
  <1>3. Number(i) = i - first /\ Number(Len(stream)) = Len(stream) - first
    BY <1>1, <1>2 DEF Number
  <1> QED
    BY <1>3 DEF DriverRest, NumberInv

\* The same when nothing is owed.
LEMMA DriverCrc ==
  ASSUME NEW P, NEW private_bit, DriverInv(P, private_bit)
  PROVE  CrcCurrent
  <1>1. DriverRest(P, private_bit)
    BY DriverIsRest
  <1> QED
    BY <1>1, RestCrc

\* The same of section_length.
LEMMA DriverSectionLength ==
  ASSUME NEW P, NEW private_bit \in {0, 1}, DriverInv(P, private_bit)
  PROVE  SectionLengthCoversSection
  <1>1. DriverRest(P, private_bit)
    BY DriverIsRest
  <1> QED
    BY <1>1, RestSectionLength

\* The same of the numbers.
LEMMA DriverNumbers ==
  ASSUME NEW P, NEW private_bit, DriverInv(P, private_bit), MaxSections <= 256
  PROVE  SectionsNumbered
  <1>1. DriverRest(P, private_bit)
    BY DriverIsRest
  <1> QED
    BY <1>1, RestNumbers

-----------------------------------------------------------------------------
(***************************************************************************)
(* The tables that write one list of entries, none of them split: the CAT  *)
(* its descriptors, the PAT its programs.  First how the driver packs, for *)
(* a payload of positions of one list: L is the sequence of the lengths of *)
(* its entries, n how many of them are in the sections of the build.  Then *)
(* the machine that the writeSections of the tables are, but for what an   *)
(* entry is, stated once over the variables of the driver: r is the        *)
(* Context before a step and q the one after it, b the private_bit.  A     *)
(* table's own proofs show that its steps are these.                       *)
(***************************************************************************)


(***************************************************************************)
(* Bytes is a recursive function of the payload, and no induction is to be *)
(* had over it.  Instead the invariant carries the sum of each payload: v  *)
(* is what every function that satisfies the recursion gives for the whole *)
(* payload, and there is such a function.                                  *)
(***************************************************************************)
Rec(L, p, g) == g = [n \in 0 .. Len(p) |-> IF n = 0 THEN 0 ELSE g[n - 1] + L[p[n]]]

Sums(L, p, v) == (\E g : Rec(L, p, g)) /\ (\A g : Rec(L, p, g) => g[Len(p)] = v)

\* The sum carried is what Bytes returns.
LEMMA SumsBytes ==
  ASSUME NEW L, NEW p, NEW v, Sums(L, p, v)
  PROVE  Bytes(L, p) = v
  <1>1. PICK g : Rec(L, p, g)
    BY DEF Sums
  <1> DEFINE h == CHOOSE f : f = [n \in 0 .. Len(p) |->
                                    IF n = 0 THEN 0 ELSE f[n - 1] + L[p[n]]]
  <1>2. h = [n \in 0 .. Len(p) |-> IF n = 0 THEN 0 ELSE h[n - 1] + L[p[n]]]
    BY <1>1, Zenon DEF Rec
  <1>3. Bytes(L, p) = h[Len(p)]
    BY Zenon DEF Bytes
  <1> HIDE DEF h
  <1> QED
    BY <1>2, <1>3 DEF Sums, Rec

\* Nothing sums to 0.
LEMMA SumsNothing ==
  ASSUME NEW L
  PROVE  Sums(L, << >>, 0)
  <1> DEFINE g == [n \in 0 .. 0 |-> 0]
  <1>1. Len(<< >>) = 0 /\ \A n \in 0 .. 0 : n = 0
    OBVIOUS
  <1>2. Rec(L, << >>, g)
    BY <1>1 DEF Rec
  <1>3. ASSUME NEW f, Rec(L, << >>, f) PROVE f[Len(<< >>)] = 0
    <2>1. f = [n \in 0 .. Len(<< >>) |-> IF n = 0 THEN 0 ELSE f[n - 1] + L[<< >>[n]]]
      BY <1>3, Zenon DEF Rec
    <2>2. 0 \in 0 .. Len(<< >>)
      BY <1>1
    <2> QED
      BY <1>1, <2>1, <2>2, Zenon
  <1> HIDE DEF g
  <1> QED
    BY <1>2, <1>3, Zenon DEF Sums

\* One more entry adds its length.
LEMMA SumsAppend ==
  ASSUME NEW L, NEW T, NEW p \in Seq(T), NEW x \in T, NEW v \in Nat, L[x] \in Nat,
         Sums(L, p, v)
  PROVE  Sums(L, Append(p, x), v + L[x])
  <1> DEFINE q == Append(p, x)
  <1>1. /\ Len(q) = Len(p) + 1 /\ Len(p) \in Nat /\ q[Len(p) + 1] = x
        /\ \A n \in 1 .. Len(p) : q[n] = p[n]
    OBVIOUS
  <1> HIDE DEF q
  <1>2. PICK g : Rec(L, p, g)
    BY DEF Sums
  <1>3. g[Len(p)] = v
    BY <1>2 DEF Sums
  <1> DEFINE h == [n \in 0 .. Len(q) |-> IF n = Len(q) THEN v + L[x] ELSE g[n]]
  <1>4. Rec(L, q, h)
    <2>1. ASSUME NEW n \in 0 .. Len(q)
          PROVE  h[n] = IF n = 0 THEN 0 ELSE h[n - 1] + L[q[n]]
      <3>1. CASE n = Len(q)
        BY <1>1, <1>3, <3>1
      <3>2. CASE n # Len(q)
        <4>1. n \in 0 .. Len(p)
          BY <1>1, <3>2
        <4>2. g[n] = IF n = 0 THEN 0 ELSE g[n - 1] + L[p[n]]
          BY <1>2, <4>1 DEF Rec
        <4>3. n # 0 => n - 1 \in 0 .. Len(q) /\ n - 1 # Len(q) /\ q[n] = p[n]
          BY <1>1, <4>1
        <4> QED
          BY <1>1, <3>2, <4>1, <4>2, <4>3
      <3> QED
        BY <3>1, <3>2
    <2>2. h = [n \in 0 .. Len(q) |-> h[n]]
      OBVIOUS
    <2> HIDE DEF h
    <2> QED
      BY <2>1, <2>2 DEF Rec
  <1>5. ASSUME NEW f, Rec(L, q, f) PROVE f[Len(q)] = v + L[x]
    <2> DEFINE e == [n \in 0 .. Len(p) |-> f[n]]
    <2>1. \A n \in 0 .. Len(q) : f[n] = IF n = 0 THEN 0 ELSE f[n - 1] + L[q[n]]
      BY <1>5 DEF Rec
    <2>2. ASSUME NEW n \in 0 .. Len(p)
          PROVE  e[n] = IF n = 0 THEN 0 ELSE e[n - 1] + L[p[n]]
      <3>1. n \in 0 .. Len(q) /\ (n # 0 => q[n] = p[n] /\ n - 1 \in 0 .. Len(p))
        BY <1>1
      <3> QED
        BY <2>1, <3>1
    <2>3. Rec(L, p, e)
      <3>1. e = [n \in 0 .. Len(p) |-> e[n]]
        OBVIOUS
      <3> HIDE DEF e
      <3> QED
        BY <2>2, <3>1 DEF Rec
    <2>4. e[Len(p)] = v
      BY <2>3 DEF Sums
    <2>5. f[Len(p)] = v
      BY <1>1, <2>4
    <2> QED
      BY <1>1, <2>1, <2>5
  <1> QED
    BY <1>4, <1>5 DEF Sums, q

-----------------------------------------------------------------------------
(* The packing of the build in progress. *)

Building == state \in {"MALLOC_SEC", "WRITE_SEC", "END_TABLE"}

\* Every entry fits in a section of its own.
Adequate(L) ==
  /\ HEADER_LEN + CRC_LEN <= max_section_length
  /\ \A k \in DOMAIN L : HEADER_LEN + L[k] + CRC_LEN <= max_section_length

\* The last position before section i, and the last one in it.
Start(i) == IF i = first THEN 0 ELSE stream[i - 1].payload[Len(stream[i - 1].payload)]
Reached(i) == Start(i) + Len(stream[i].payload)

\* Section i goes on where the one before it ends, leaves room for its CRC, and
\* its bytes are those of its entries.
Packed(L, i) ==
  /\ Start(i) \in Nat
  /\ stream[i].payload = [k \in 1 .. Len(stream[i].payload) |-> Start(i) + k]
  /\ stream[i].data_length + CRC_LEN <= max_section_length
  /\ stream[i].data_length # 0 => Sums(L, stream[i].payload, stream[i].data_length - HEADER_LEN)

\* Section i holds something, and was left because of an entry too long for it.
Full(L, i) ==
  /\ stream[i].payload # << >>
  /\ Reached(i) + 1 \in DOMAIN L
  /\ max_section_length < stream[i].data_length + L[Reached(i) + 1] + CRC_LEN

\* The sections of a build that can succeed, n entries into it.
PackInv(L, n) ==
  Building /\ Adequate(L) =>
    /\ \A i \in Table : Packed(L, i)
    /\ \A i \in Table : i # Len(stream) \/ state = "MALLOC_SEC" => Full(L, i)
    /\ \A i \in Table : i = Len(stream) => n = Reached(i)
    /\ Table = {} => n = 0

\* Whether it can or not, a section holds its header and each of its entries.
HoldInv(L) ==
  Building => \A i \in Table : \A a \in In(i) :
    /\ a \in DOMAIN L
    /\ HEADER_LEN + L[a] <= stream[i].data_length

\* Whether a build can succeed does not change in the middle of it.
LEMMA AdequateKept ==
  ASSUME NEW L, UNCHANGED attributes
  PROVE  Adequate(L)' <=> Adequate(L)
  BY DEF Adequate, attributes

\* A build has no section to begin with.
LEMMA BuildSectionsPack ==
  ASSUME NEW P, DriverTypes(P), NEW L, buildSections
  PROVE  PackInv(L, 0)' /\ HoldInv(L)'
  <1>1. first' = Len(stream) + 1 /\ stream' = stream /\ Len(stream) \in Nat
    BY DEF buildSections, DriverTypes
  <1>2. Table' = {}
    BY <1>1 DEF Table
  <1> QED
    BY <1>2 DEF PackInv, HoldInv

\* Out of a build there is nothing to account for.
LEMMA NoBuildPack ==
  ASSUME NEW L, NEW n, state' \in {"IDLE", "ABORTED"}
  PROVE  PackInv(L, n)' /\ HoldInv(L)'
  BY DEF PackInv, HoldInv, Building

\* What the sections of the build start at depends on the payloads before.
LEMMA StartKept ==
  ASSUME NEW n \in Nat, first' = first, first \in 1 .. n + 1,
         \A i \in 1 .. n : stream'[i].payload = stream[i].payload
  PROVE  \A i \in first .. n + 1 : Start(i)' = Start(i)
  BY DEF Start

\* The new section goes on where the last one ends, and has room for its CRC.
LEMMA MallocSecPack ==
  ASSUME NEW private_bit, DriverInv(Nat, private_bit), MallocSec,
         NEW L, NEW n \in Nat, PackInv(L, n), HoldInv(L)
  PROVE  PackInv(L, n)' /\ HoldInv(L)'
  <1>1. /\ state = "MALLOC_SEC" /\ state' = "WRITE_SEC"
        /\ first' = first /\ UNCHANGED attributes
    BY DEF MallocSec
  <1>2. /\ Len(stream') = Len(stream) + 1
        /\ \A i \in 1 .. Len(stream) : stream'[i] = stream[i]
        /\ cur'.data_length = 0 /\ cur'.payload = << >>
        /\ cur' = stream'[Len(stream) + 1]
    BY MallocSecFrame DEF DriverInv
  <1>3. PICK z \in Nat : z = Len(stream)
    BY DEF DriverInv, DriverTypes
  <1>4. first \in 1 .. z + 1
    BY <1>3 DEF DriverInv, DriverTypes, PsiTypeOK
  <1>5. Table = first .. z /\ Table' = first .. z + 1
    BY <1>1, <1>2, <1>3 DEF Table
  <1>6. \A i \in Table : stream'[i] = stream[i] /\ i # z + 1
    BY <1>2, <1>3, <1>4, <1>5
  <1>7. stream'[z + 1].data_length = 0 /\ stream'[z + 1].payload = << >>
    BY <1>2, <1>3
  <1>8. \A i \in Table' : i \in Table \/ i = z + 1
    BY <1>4, <1>5
  <1>9. ASSUME Adequate(L)'
        PROVE  /\ \A i \in Table' : Packed(L, i)'
               /\ \A i \in Table' : i # Len(stream') => Full(L, i)'
               /\ \A i \in Table' : i = Len(stream') => n = Reached(i)'
               /\ Table' # {}
    <2>1. Adequate(L) /\ Building
      BY <1>1, <1>9, AdequateKept DEF Building
    <2>2. /\ \A i \in Table : Packed(L, i) /\ Full(L, i)
          /\ z \in Table => n = Reached(z)
          /\ Table = {} => n = 0
      BY <1>1, <1>3, <2>1 DEF PackInv
    <2>3. \A i \in first .. z + 1 : Start(i)' = Start(i)
      BY <1>1, <1>2, <1>3, <1>4, StartKept
    <2>4. \A i \in Table : Reached(i)' = Reached(i) /\ Packed(L, i)' /\ Full(L, i)'
      BY <1>1, <1>5, <1>6, <1>8, <2>2, <2>3, SMTT(20) DEF Reached, Packed, Full, attributes
    <2>5. n = Start(z + 1)
      <3>1. CASE Table = {}
        <4>1. first = z + 1
          BY <1>4, <1>5, <3>1
        <4> QED
          BY <2>2, <3>1, <4>1 DEF Start
      <3>2. CASE Table # {}
        <4>1. z \in Table /\ first # z + 1
          BY <1>4, <1>5, <3>2
        <4>2. Start(z + 1) = stream[z].payload[Len(stream[z].payload)]
          BY <4>1 DEF Start
        <4>3. /\ stream[z].payload \in Seq(Nat)
              /\ stream[z].payload # << >>
              /\ stream[z].payload = [k \in 1 .. Len(stream[z].payload) |-> Start(z) + k]
          <5>1. z \in 1 .. Len(stream) /\ stream \in Seq(Sections(Nat))
            BY <1>3, <1>4, <1>5, <4>1 DEF DriverInv, DriverTypes
          <5>2. stream[z] \in Sections(Nat)
            BY <5>1
          <5> QED
            BY <2>2, <4>1, <5>2, SectionFieldTypes DEF Packed, Full
        <4>4. Len(stream[z].payload) \in 1 .. Len(stream[z].payload)
          BY <4>3
        <4>5. Start(z + 1) = Reached(z)
          BY <4>2, <4>3, <4>4, Zenon DEF Reached
        <4> QED
          BY <2>2, <4>1, <4>5
      <3> QED
        BY <3>1, <3>2
    <2>6. Start(z + 1)' = Start(z + 1)
      BY <1>4, <2>3
    <2>7. Packed(L, z + 1)'
      <3>1. stream'[z + 1].payload = [k \in 1 .. Len(stream'[z + 1].payload) |-> Start(z + 1)' + k]
        BY <1>7
      <3>2. stream'[z + 1].data_length + CRC_LEN <= max_section_length'
        <4>1. HEADER_LEN + CRC_LEN <= max_section_length'
          BY <1>9 DEF Adequate
        <4>2. max_section_length' \in Int
          BY <1>1, Ui16 DEF attributes, DriverInv, DriverTypes, PsiTypeOK
        <4> QED
          BY <1>7, <4>1, <4>2 DEF HEADER_LEN, CRC_LEN
      <3> QED
        BY <1>7, <2>5, <2>6, <3>1, <3>2 DEF Packed
    <2>8. Reached(z + 1)' = n
      BY <1>7, <2>5, <2>6 DEF Reached
    <2>9. Table' # {} /\ Len(stream') = z + 1
      BY <1>2, <1>3, <1>4, <1>5
    <2> QED
      BY <1>8, <2>4, <2>7, <2>8, <2>9
  <1>10. PackInv(L, n)'
    BY <1>1, <1>9 DEF PackInv
  <1>11. HoldInv(L)'
    <2>1. \A i \in Table : \A a \in In(i)' :
            a \in DOMAIN L /\ HEADER_LEN + L[a] <= stream'[i].data_length
      BY <1>1, <1>6 DEF HoldInv, Building, In
    <2>2. In(z + 1)' = {}
      BY <1>7 DEF In
    <2> QED
      BY <1>8, <2>1, <2>2 DEF HoldInv
  <1> QED
    BY <1>10, <1>11

\* What a case of writeSection leaves of the packing, when it leaves s of the
\* section being written and m entries in the build.
LEMMA ReplacePack ==
  ASSUME NEW private_bit, DriverInv(Nat, private_bit), state = "WRITE_SEC",
         NEW L, NEW n, PackInv(L, n),
         NEW s \in Sections(Nat), stream' = ReplaceCur(s), first' = first,
         UNCHANGED attributes, NEW m, NEW z, z = Len(stream),
         Adequate(L) =>
           /\ s.payload = [k \in 1 .. Len(s.payload) |-> Start(z) + k]
           /\ m = Start(z) + Len(s.payload)
           /\ s.data_length + CRC_LEN <= max_section_length
           /\ s.data_length # 0 => Sums(L, s.payload, s.data_length - HEADER_LEN)
           /\ state' = "MALLOC_SEC" =>
                /\ s.payload # << >> /\ m + 1 \in DOMAIN L
                /\ max_section_length < s.data_length + L[m + 1] + CRC_LEN
  PROVE  PackInv(L, m)'
  <1> SUFFICES ASSUME Adequate(L)'
               PROVE  /\ \A i \in Table' : Packed(L, i)'
                      /\ \A i \in Table' : i # Len(stream') \/ state' = "MALLOC_SEC"
                                             => Full(L, i)'
                      /\ \A i \in Table' : i = Len(stream') => m = Reached(i)'
                      /\ Table' # {}
    BY DEF PackInv
  <1>1. Adequate(L) /\ Building
    BY AdequateKept DEF Building
  <1>2. z \in Nat /\ first \in 1 .. z
    BY CurFacts
  <1>3. /\ Len(stream') = z /\ stream'[z] = s
        /\ \A i \in 1 .. z - 1 : stream'[i] = stream[i]
    BY ReplaceCurFrame
  <1>4. Table = first .. z /\ Table' = first .. z /\ z \in Table
    BY <1>2, <1>3 DEF Table
  <1>5. \A i \in Table : i # z => stream'[i] = stream[i]
    BY <1>2, <1>3, <1>4
  <1>6. \A i \in Table : Start(i)' = Start(i)
    <2>1. PICK y \in Nat : y = z - 1
      BY <1>2
    <2>2. first \in 1 .. y + 1 /\ (\A i \in 1 .. y : stream'[i].payload = stream[i].payload)
          /\ y + 1 = z
      BY <1>2, <1>3, <2>1
    <2> QED
      BY <1>4, <2>2, StartKept
  <1>7. \A i \in Table : i # z => Packed(L, i) /\ Full(L, i)
    BY <1>1 DEF PackInv
  <1>8. \A i \in Table : i # z => Reached(i)' = Reached(i) /\ Packed(L, i)' /\ Full(L, i)'
    BY <1>5, <1>6, <1>7 DEF Reached, Packed, Full, attributes
  <1>9. Start(z)' = Start(z) /\ Reached(z)' = m
    BY <1>1, <1>3, <1>4, <1>6 DEF Reached
  <1>10. Packed(L, z)'
    <2>1. Start(z) \in Nat
      BY <1>1, <1>4 DEF PackInv, Packed
    <2> QED
      BY <1>1, <1>3, <1>9, <2>1 DEF Packed, attributes
  <1>11. state' = "MALLOC_SEC" => Full(L, z)'
    BY <1>1, <1>3, <1>9 DEF Full, attributes
  <1> QED
    BY <1>3, <1>4, <1>8, <1>9, <1>10, <1>11

\* The same of what the sections hold.
LEMMA ReplaceHold ==
  ASSUME NEW private_bit, DriverInv(Nat, private_bit), state = "WRITE_SEC",
         NEW L, HoldInv(L),
         NEW s \in Sections(Nat), stream' = ReplaceCur(s), first' = first,
         \A k \in DOMAIN s.payload :
           s.payload[k] \in DOMAIN L /\ HEADER_LEN + L[s.payload[k]] <= s.data_length
  PROVE  HoldInv(L)'
  <1>1. Building /\ Len(stream) \in Nat /\ first \in 1 .. Len(stream)
    BY CurFacts DEF Building
  <1>2. /\ Len(stream') = Len(stream) /\ stream'[Len(stream)] = s
        /\ \A i \in 1 .. Len(stream) - 1 : stream'[i] = stream[i]
    BY ReplaceCurFrame
  <1>3. Table' = Table /\ \A i \in Table : i # Len(stream) => stream'[i] = stream[i]
    BY <1>1, <1>2 DEF Table
  <1> SUFFICES ASSUME NEW i \in Table, NEW a \in In(i)'
               PROVE  a \in DOMAIN L /\ HEADER_LEN + L[a] <= stream'[i].data_length
    BY <1>3 DEF HoldInv
  <1>4. CASE i = Len(stream)
    BY <1>2, <1>4 DEF In
  <1>5. CASE i # Len(stream)
    <2>1. stream'[i] = stream[i]
      BY <1>3, <1>5
    <2>2. a \in In(i)
      BY <2>1 DEF In
    <2> QED
      BY <1>1, <2>1, <2>2 DEF HoldInv
  <1> QED
    BY <1>4, <1>5

\* A step that writes nothing.
LEMMA SamePack ==
  ASSUME NEW L, NEW n, PackInv(L, n), HoldInv(L),
         stream' = stream, first' = first, state' = state, UNCHANGED attributes
  PROVE  PackInv(L, n)' /\ HoldInv(L)'
  <1>1. Table' = Table /\ (Building' <=> Building)
    BY DEF Table, Building
  <1>2. \A i : /\ Reached(i)' = Reached(i) /\ In(i)' = In(i)
               /\ Packed(L, i)' <=> Packed(L, i)
               /\ Full(L, i)' <=> Full(L, i)
    BY DEF Start, Reached, In, Packed, Full, attributes
  <1>3. Adequate(L)' <=> Adequate(L)
    BY AdequateKept
  <1> QED
    BY <1>1, <1>2, <1>3 DEF PackInv, HoldInv

\* A header leaves the section without entries, and with room for its CRC.
LEMMA HeaderPack ==
  ASSUME NEW private_bit, DriverInv(Nat, private_bit), state = "WRITE_SEC",
         cur.data_length = 0, NEW L, NEW n, PackInv(L, n), HoldInv(L),
         NEW s \in Sections(Nat), s.payload = cur.payload, s.data_length = HEADER_LEN,
         stream' = ReplaceCur(s), first' = first, UNCHANGED attributes,
         state' = "WRITE_SEC"
  PROVE  PackInv(L, n)' /\ HoldInv(L)'
  <1>1. PICK z \in Nat : z = Len(stream)
    BY CurFacts
  <1>2. cur = stream[z] /\ z \in Table
    BY <1>1, CurFacts DEF Table
  <1>3. s.payload = << >>
    BY CurFacts DEF DriverInv, CurInv, HEADER_LEN
  <1>4. HoldInv(L)'
    BY <1>3, ReplaceHold
  <1>5. ASSUME Adequate(L)
        PROVE  /\ s.payload = [k \in 1 .. Len(s.payload) |-> Start(z) + k]
               /\ n = Start(z) + Len(s.payload)
               /\ s.data_length + CRC_LEN <= max_section_length
               /\ Sums(L, s.payload, s.data_length - HEADER_LEN)
    <2>1. n = Reached(z)
      BY <1>1, <1>2, <1>5 DEF PackInv, Building
    <2>2. n = Start(z) + Len(s.payload)
      BY <1>2, <2>1 DEF Reached
    <2>3. s.data_length - HEADER_LEN = 0
      BY DEF HEADER_LEN
    <2> QED
      BY <1>3, <1>5, <2>2, <2>3, SumsNothing DEF Adequate
  <1>6. PackInv(L, n)'
    BY <1>1, <1>5, ReplacePack
  <1> QED
    BY <1>4, <1>6

\* The next entry goes to the end of the section, which has room for it unless
\* some entry has none in any section.
LEMMA WritePack ==
  ASSUME NEW private_bit, DriverInv(Nat, private_bit), state = "WRITE_SEC",
         cur.data_length # 0, NEW L \in Seq(Nat), NEW n \in Nat,
         PackInv(L, n), HoldInv(L), n + 1 \in DOMAIN L,
         NEW s \in Sections(Nat), s.payload = Append(cur.payload, n + 1),
         s.data_length = cur.data_length + L[n + 1],
         Adequate(L) => cur.data_length + L[n + 1] + CRC_LEN <= max_section_length,
         stream' = ReplaceCur(s), first' = first, UNCHANGED attributes,
         state' = "WRITE_SEC"
  PROVE  PackInv(L, n + 1)' /\ HoldInv(L)'
  <1>1. PICK z \in Nat : z = Len(stream)
    BY CurFacts
  <1>2. cur = stream[z] /\ z \in Table
    BY <1>1, CurFacts DEF Table
  <1>3. PICK p \in Seq(Nat) : p = cur.payload
    BY CurFacts, SectionFieldTypes, SMTT(20)
  <1>4. PICK x \in Nat, v \in Nat, d \in Nat :
          x = n + 1 /\ d = cur.data_length /\ v = d - HEADER_LEN
    <2>1. cur.data_length \in Nat /\ HEADER_LEN <= cur.data_length
      BY CurFacts
    <2>2. cur.data_length - HEADER_LEN \in Nat /\ n + 1 \in Nat
      BY <2>1 DEF HEADER_LEN
    <2> QED
      BY <2>1, <2>2
  <1>5. L[x] \in Nat /\ x \in DOMAIN L
    BY <1>4
  <1>6. /\ s.payload = Append(p, x) /\ Len(s.payload) = Len(p) + 1
        /\ s.data_length = d + L[x] /\ Len(p) \in Nat
        /\ \A k \in 1 .. Len(p) : s.payload[k] = p[k]
        /\ s.payload[Len(p) + 1] = x
        /\ s.payload \in Seq(Nat)
    BY <1>3, <1>4, <1>5, SMTT(20)
  <1>7. HoldInv(L)'
    <2>1. ASSUME NEW k \in DOMAIN s.payload
          PROVE  s.payload[k] \in DOMAIN L /\ HEADER_LEN + L[s.payload[k]] <= s.data_length
      <3>1. CASE k = Len(p) + 1
        <4>1. v + 8 = d
          BY <1>4 DEF HEADER_LEN
        <4>2. 8 + L[x] <= d + L[x]
          BY <1>4, <1>5, <4>1, SMTT(20)
        <4> QED
          BY <1>5, <1>6, <3>1, <4>2 DEF HEADER_LEN
      <3>2. CASE k \in 1 .. Len(p)
        <4>1. p[k] \in In(z)
          BY <1>2, <1>3, <3>2, SMTT(20) DEF In
        <4>2. p[k] \in DOMAIN L /\ HEADER_LEN + L[p[k]] <= d
          BY <1>2, <1>4, <4>1 DEF HoldInv, Building
        <4>3. L[p[k]] \in Nat
          <5>1. \A a \in DOMAIN L : L[a] \in Nat
            OBVIOUS
          <5> QED
            BY <4>2, <5>1, Zenon
        <4>4. s.payload[k] = p[k]
          BY <1>6, <3>2
        <4>5. HEADER_LEN + L[p[k]] <= d + L[x]
          <5>1. HEADER_LEN + L[p[k]] \in Nat
            BY <4>3, SMTT(20) DEF HEADER_LEN
          <5> QED
            BY ONLY <1>4, <1>5, <4>2, <5>1, SMTT(20)
        <4> QED
          BY <1>6, <4>2, <4>4, <4>5
      <3>3. k \in 1 .. Len(p) + 1
        BY <1>6
      <3>4. k = Len(p) + 1 \/ k \in 1 .. Len(p)
        BY ONLY <1>6, <3>3
      <3> QED
        BY <3>1, <3>2, <3>4
    <2> QED
      BY <2>1, ReplaceHold
  <1>8. ASSUME Adequate(L)
        PROVE  /\ s.payload = [k \in 1 .. Len(s.payload) |-> Start(z) + k]
               /\ n + 1 = Start(z) + Len(s.payload)
               /\ s.data_length + CRC_LEN <= max_section_length
               /\ Sums(L, s.payload, s.data_length - HEADER_LEN)
    <2>1. n = Start(z) + Len(p) /\ Packed(L, z)
      BY <1>1, <1>2, <1>3, <1>8 DEF PackInv, Building, Reached
    <2>2. p = [k \in 1 .. Len(p) |-> Start(z) + k] /\ Sums(L, p, v)
      BY <1>2, <1>3, <1>4, <2>1 DEF Packed
    <2>3. Sums(L, s.payload, v + L[x])
      <3>1. Sums(L, Append(p, x), v + L[x])
        BY <1>5, <2>2, SumsAppend
      <3> QED
        BY <1>6, <3>1
    <2>4. v + L[x] = s.data_length - HEADER_LEN
      BY <1>4, <1>5, <1>6 DEF HEADER_LEN
    <2>5. Start(z) \in Nat
      BY <2>1 DEF Packed
    <2>6. n + 1 = Start(z) + Len(s.payload) /\ x = Start(z) + (Len(p) + 1)
      BY <1>4, <1>6, <2>1, <2>5, SMTT(20)
    <2>7. s.payload = [k \in 1 .. Len(s.payload) |-> Start(z) + k]
      <3>1. ASSUME NEW k \in 1 .. Len(p) + 1 PROVE s.payload[k] = Start(z) + k
        <4>1. CASE k = Len(p) + 1
          BY <1>6, <2>6, <4>1
        <4>2. CASE k # Len(p) + 1
          <5>1. k \in 1 .. Len(p)
            BY ONLY <1>6, <4>2
          <5>2. p[k] = Start(z) + k
            BY <2>2, <5>1
          <5> QED
            BY <1>6, <5>1, <5>2
        <4> QED
          BY <4>1, <4>2
      <3>2. s.payload = [k \in 1 .. Len(s.payload) |-> s.payload[k]]
        BY <1>6, SMTT(20)
      <3>3. \A k \in 1 .. Len(s.payload) : s.payload[k] = Start(z) + k
        BY <1>6, <3>1
      <3> QED
        BY <3>2, <3>3
    <2>8. s.data_length + CRC_LEN <= max_section_length
      BY <1>4, <1>6, <1>8
    <2> QED
      BY <2>3, <2>4, <2>6, <2>7, <2>8
  <1>9. PackInv(L, n + 1)'
    BY <1>1, <1>4, <1>8, ReplacePack, ZenonT(30)
  <1> QED
    BY <1>7, <1>9

\* A return from writeSection: the section is full when there is more to write.
LEMMA ReturnPack ==
  ASSUME NEW private_bit \in {0, 1}, DriverInv(Nat, private_bit), state = "WRITE_SEC",
         cur.data_length # 0, NEW L \in Seq(Nat), NEW n \in Nat,
         PackInv(L, n), HoldInv(L),
         NEW done \in BOOLEAN, WriteSecReturn(done, cur, sec_bytes, private_bit),
         UNCHANGED attributes,
         ~done => /\ n + 1 \in DOMAIN L
                  /\ max_section_length < cur.data_length + L[n + 1] + CRC_LEN
  PROVE  PackInv(L, n)' /\ HoldInv(L)'
  <1> DEFINE l == finalSectionLength(private_bit, sec_bytes)
             s == setSectionLength(cur, l)
  <1>1. stream' = ReplaceCur(s) /\ first' = first /\ (state' = "MALLOC_SEC" => ~done)
    BY DEF WriteSecReturn
  <1>2. /\ cur \in Sections(Nat) /\ l \in ui16 /\ cur.data_length \in Nat
        /\ HEADER_LEN <= cur.data_length
    <2>1. sec_bytes \in Nat
      BY CountedFacts
    <2> QED
      BY <2>1, CurFacts, FinalLengthType
  <1> HIDE DEF l
  <1>3. /\ s \in Sections(Nat) /\ s.payload = cur.payload
        /\ s.data_length = cur.data_length
    BY <1>2, SetSectionLengthFields
  <1> HIDE DEF s
  <1>4. PICK z \in Nat : z = Len(stream)
    BY CurFacts
  <1>5. cur = stream[z] /\ z \in Table
    BY <1>4, CurFacts DEF Table
  <1>6. HoldInv(L)'
    <2>1. \A k \in DOMAIN s.payload : s.payload[k] \in In(z)
      BY <1>3, <1>5 DEF In
    <2>2. \A a \in In(z) : a \in DOMAIN L /\ HEADER_LEN + L[a] <= s.data_length
      BY <1>3, <1>5 DEF HoldInv, Building
    <2>3. \A k \in DOMAIN s.payload :
            s.payload[k] \in DOMAIN L /\ HEADER_LEN + L[s.payload[k]] <= s.data_length
      BY <2>1, <2>2, Zenon
    <2> QED
      BY <1>1, <1>3, <2>3, ReplaceHold
  <1>7. ASSUME Adequate(L)
        PROVE  /\ s.payload = [k \in 1 .. Len(s.payload) |-> Start(z) + k]
               /\ n = Start(z) + Len(s.payload)
               /\ s.data_length + CRC_LEN <= max_section_length
               /\ Sums(L, s.payload, s.data_length - HEADER_LEN)
               /\ ~done => s.payload # << >>
    <2>1. n = Reached(z) /\ Packed(L, z)
      BY <1>4, <1>5, <1>7 DEF PackInv, Building
    <2>2. /\ s.payload = [k \in 1 .. Len(s.payload) |-> Start(z) + k]
          /\ n = Start(z) + Len(s.payload)
          /\ s.data_length + CRC_LEN <= max_section_length
          /\ Sums(L, s.payload, s.data_length - HEADER_LEN)
      BY <1>3, <1>5, <2>1 DEF Packed, Reached
    <2>3. ASSUME ~done, s.payload = << >> PROVE FALSE
      <3>1. PICK p, v : p = s.payload /\ v = s.data_length - HEADER_LEN
        OBVIOUS
      <3>2. Sums(L, p, v) /\ Sums(L, p, 0)
        <4>1. Sums(L, p, v)
          BY <2>2, <3>1
        <4>2. p = << >>
          BY <2>3, <3>1
        <4>3. Sums(L, << >>, 0)
          BY SumsNothing
        <4> QED
          BY <4>1, <4>2, <4>3, Zenon
      <3>3. v = 0
        BY ONLY <3>2 DEF Sums
      <3>4. s.data_length = 8
        BY <1>2, <1>3, <3>1, <3>3 DEF HEADER_LEN
      <3>5. PICK x \in DOMAIN L : x = n + 1
        BY <2>3
      <3>6. HEADER_LEN + L[x] + CRC_LEN <= max_section_length
        BY <1>7 DEF Adequate
      <3>7. max_section_length < 8 + L[x] + CRC_LEN
        BY <1>3, <2>3, <3>4, <3>5
      <3>8. L[x] \in Nat /\ max_section_length \in Int
        BY Ui16 DEF DriverInv, DriverTypes, PsiTypeOK
      <3> QED
        BY <3>6, <3>7, <3>8 DEF HEADER_LEN, CRC_LEN
    <2> QED
      BY <2>2, <2>3
  <1>8. ~done => /\ n + 1 \in DOMAIN L
                 /\ max_section_length < s.data_length + L[n + 1] + CRC_LEN
    BY <1>3
  <1>9. PackInv(L, n)'
    BY <1>1, <1>3, <1>4, <1>7, <1>8, ReplacePack, ZenonT(30)
  <1> QED
    BY <1>6, <1>9

-----------------------------------------------------------------------------
(* The end of a build. *)

\* If every entry fits in a section of its own, no section lacks room for its CRC.
LEMMA EndTableSucceeds ==
  ASSUME NEW private_bit, DriverInv(Nat, private_bit),
         NEW L, NEW n, PackInv(L, n), Adequate(L), EndTable
  PROVE  state' = "IDLE"
  <1>1. state = "END_TABLE" /\ Building
    BY DEF EndTable, Building
  <1>2. \A i \in Table : lengthFits(stream[i], CRC_LEN)
    <2>1. \A i \in Table : stream[i].data_length + CRC_LEN <= max_section_length
      BY <1>1 DEF PackInv, Packed
    <2>2. \A i \in Table : stream[i].size = max_section_length
      BY <1>1 DEF DriverInv, ClosedInv, Closed
    <2> QED
      BY <2>1, <2>2 DEF lengthFits
  <1> QED
    BY <1>2 DEF EndTable, Table

\* If no section does, every entry fits in a section of its own.
LEMMA EndTableAdequate ==
  ASSUME NEW private_bit, DriverInv(Nat, private_bit),
         NEW L \in Seq(Nat), HoldInv(L), Written = DOMAIN L,
         EndTable, state' # "ABORTED"
  PROVE  Adequate(L)
  <1>1. state = "END_TABLE" /\ Building
    BY DEF EndTable, Building
  <1>2. /\ Len(stream) \in Nat /\ first \in 1 .. Len(stream)
        /\ stream \in Seq(Sections(Nat)) /\ max_section_length \in Int
    BY <1>1, Ui16 DEF DriverInv, DriverTypes, PsiTypeOK, CurInv
  <1>3. ASSUME NEW i \in Table
        PROVE  /\ stream[i].data_length + CRC_LEN <= max_section_length
               /\ stream[i].data_length \in Int /\ HEADER_LEN <= stream[i].data_length
    <2>1. lengthFits(stream[i], CRC_LEN)
      BY EndTableFrame DEF DriverInv
    <2>2. Closed(i, private_bit)
      BY <1>1 DEF DriverInv, ClosedInv
    <2>3. i \in 1 .. Len(stream)
      BY <1>2 DEF Table
    <2>4. stream[i].data_length \in Int
      BY <1>2, <2>3, SectionFieldTypes
    <2> QED
      BY <2>1, <2>2, <2>4 DEF lengthFits, Closed
  <1>4. HEADER_LEN + CRC_LEN <= max_section_length
    <2>1. Len(stream) \in Table
      BY <1>2 DEF Table
    <2> QED
      BY <1>2, <1>3, <2>1 DEF HEADER_LEN, CRC_LEN
  <1>5. ASSUME NEW k \in DOMAIN L
        PROVE  HEADER_LEN + L[k] + CRC_LEN <= max_section_length
    <2>1. PICK i \in Table : k \in In(i)
      BY DEF Written
    <2>2. HEADER_LEN + L[k] <= stream[i].data_length
      BY <1>1, <2>1 DEF HoldInv
    <2>3. L[k] \in Nat
      OBVIOUS
    <2> QED
      BY <1>2, <1>3, <2>2, <2>3, SMTT(20) DEF HEADER_LEN, CRC_LEN
  <1> QED
    BY <1>4, <1>5 DEF Adequate

\* A section goes on where the one before it ended.
LEMMA StartReached ==
  ASSUME NEW private_bit, DriverInv(Nat, private_bit), NEW L, NEW i \in Table,
         i # first, Packed(L, i - 1), Full(L, i - 1)
  PROVE  Start(i) = Reached(i - 1)
  <1>1. /\ Len(stream) \in Nat /\ first \in 1 .. Len(stream) + 1
        /\ stream \in Seq(Sections(Nat))
    BY DEF DriverInv, DriverTypes, PsiTypeOK
  <1>2. PICK j \in 1 .. Len(stream) : j = i - 1
    BY <1>1 DEF Table
  <1>3. PICK p \in Seq(Nat) : p = stream[j].payload
    BY <1>1, SectionFieldTypes
  <1>4. p = [k \in 1 .. Len(p) |-> Start(j) + k] /\ Len(p) \in 1 .. Len(p)
    BY <1>2, <1>3 DEF Packed, Full
  <1>5. Start(i) = p[Len(p)]
    BY <1>2, <1>3 DEF Start
  <1>6. Reached(j) = Start(j) + Len(p)
    BY <1>3 DEF Reached
  <1> QED
    BY <1>2, <1>4, <1>5, <1>6, Zenon

\* The sections that a build adds to the stream are the greedy packing of the
\* entries, and number themselves.
LEMMA EndTablePacks ==
  ASSUME NEW private_bit, DriverInv(Nat, private_bit), MaxSections <= 256,
         NEW L \in Seq(Nat), PackInv(L, Len(L)), Adequate(L), EndTable,
         NEW b, b = first - 1, NEW N, N = Len(stream) - b,
         NEW secs, secs = [j \in 1 .. N |-> ShownOf(stream'[b + j])]
  PROVE  /\ GreedyPacking(L, max_section_length - (HEADER_LEN + CRC_LEN), secs)
         /\ Numbered(secs) /\ Len(secs) = N /\ N > 0
  <1>1. state = "END_TABLE" /\ Building /\ state' = "IDLE"
    BY EndTableSucceeds DEF EndTable, Building
  <1>2. /\ Len(stream) \in Nat /\ first \in 1 .. Len(stream)
        /\ stream \in Seq(Sections(Nat)) /\ max_section_length \in Int
    BY <1>1, Ui16 DEF DriverInv, DriverTypes, PsiTypeOK, CurInv
  <1>3. b \in Nat /\ N \in Nat /\ N > 0 /\ b + N = Len(stream) /\ first = b + 1
    BY <1>2
  <1>4. Table = first .. Len(stream) /\ \A j \in 1 .. N : b + j \in Table
    BY <1>2, <1>3 DEF Table
  <1>5. DOMAIN secs = 1 .. N /\ Len(secs) = N
    BY <1>3
  <1>6. ASSUME NEW j \in 1 .. N
        PROVE  /\ secs[j].payload = stream[b + j].payload
               /\ secs[j].payload \in Seq(Nat)
               /\ secs[j].section_number = stream'[b + j].section_number
               /\ secs[j].last_section_number = stream'[b + j].last_section_number
    <2>1. b + j \in Table /\ b + j \in 1 .. Len(stream)
      BY <1>2, <1>3, <1>4
    <2>2. stream'[b + j].payload = stream[b + j].payload
      BY <1>1, <2>1, EndTableFrame DEF DriverInv
    <2>3. stream[b + j].payload \in Seq(Nat)
      BY <1>2, <2>1, SectionFieldTypes
    <2> QED
      BY <2>2, <2>3 DEF ShownOf
  <1>7. /\ \A i \in Table : Packed(L, i)
        /\ \A i \in Table : i # Len(stream) => Full(L, i)
        /\ Len(L) = Reached(Len(stream))
    BY <1>1, <1>2, <1>4 DEF PackInv
  <1>8. ASSUME NEW j \in 1 .. N PROVE Before(secs, j) = Start(b + j)
    <2>1. CASE j = 1
      BY <1>3, <2>1 DEF Before, Start
    <2>2. CASE j # 1
      <3>1. j - 1 \in 1 .. N /\ b + j # first /\ (b + j) - 1 = b + (j - 1)
        BY <1>3, <2>2
      <3>2. secs[j - 1].payload = stream[(b + j) - 1].payload
        BY <1>6, <3>1
      <3> QED
        BY <2>2, <3>1, <3>2, Zenon DEF Before, Start
    <2> QED
      BY <2>1, <2>2
  <1>9. ASSUME NEW j \in 1 .. N
        PROVE  /\ Bytes(L, secs[j].payload) = stream[b + j].data_length - HEADER_LEN
               /\ stream[b + j].data_length \in Int
    <2>1. b + j \in Table /\ b + j \in 1 .. Len(stream)
      BY <1>2, <1>3, <1>4
    <2>2. stream[b + j].data_length \in Int
      BY <1>2, <2>1, SectionFieldTypes
    <2>3. stream[b + j].data_length # 0
      BY <1>1, <2>1 DEF DriverInv, ClosedInv, Closed, HEADER_LEN
    <2>4. Sums(L, secs[j].payload, stream[b + j].data_length - HEADER_LEN)
      BY <1>6, <1>7, <2>1, <2>3 DEF Packed
    <2> QED
      BY <2>2, <2>4, SumsBytes
  <1>10. ASSUME NEW j \in 1 .. N, j # 1
         PROVE  /\ j - 1 \in 1 .. N
                /\ secs[j - 1].payload # << >>
                /\ Before(secs, j) + 1 \in DOMAIN L
                /\ max_section_length - (HEADER_LEN + CRC_LEN)
                     < Bytes(L, secs[j - 1].payload) + L[Before(secs, j) + 1]
    <2>1. PICK i \in Table, h \in Table : i = b + j /\ h = i - 1 /\ h = b + (j - 1)
      BY <1>3, <1>4, <1>10
    <2>2. j - 1 \in 1 .. N /\ h # Len(stream) /\ i # first
      BY <1>2, <1>3, <1>10, <2>1
    <2>3. Packed(L, h) /\ Full(L, h)
      BY <1>7, <2>2
    <2>4. Before(secs, j) = Reached(h)
      <3>1. Start(i) = Reached(h)
        BY <2>1, <2>2, <2>3, StartReached
      <3> QED
        BY <1>8, <2>1, <3>1
    <2>5. /\ Reached(h) + 1 \in DOMAIN L
          /\ max_section_length < stream[h].data_length + L[Reached(h) + 1] + CRC_LEN
          /\ stream[h].payload # << >>
      BY <2>3 DEF Full
    <2>6. /\ Bytes(L, secs[j - 1].payload) = stream[h].data_length - HEADER_LEN
          /\ secs[j - 1].payload = stream[h].payload
          /\ stream[h].data_length \in Int
      BY <1>6, <1>9, <2>1, <2>2, SMTT(20)
    <2>7. PICK x \in DOMAIN L : x = Before(secs, j) + 1
      BY <2>4, <2>5
    <2>8. max_section_length - (HEADER_LEN + CRC_LEN) < Bytes(L, secs[j - 1].payload) + L[x]
      <3>1. /\ max_section_length < stream[h].data_length + L[x] + CRC_LEN
            /\ L[x] \in Nat /\ max_section_length \in Int
        BY <1>2, <2>4, <2>5, <2>7
      <3>2. PICK M \in Int, D \in Int, X \in Nat :
              M = max_section_length /\ D = stream[h].data_length /\ X = L[x]
        BY <2>6, <3>1
      <3>3. M < D + X + 4 /\ Bytes(L, secs[j - 1].payload) = D - 8
        BY <2>6, <3>1, <3>2 DEF HEADER_LEN, CRC_LEN
      <3>4. M - (8 + 4) < (D - 8) + X
        BY ONLY <3>3
      <3> QED
        BY <3>2, <3>3, <3>4 DEF HEADER_LEN, CRC_LEN
    <2> QED
      BY <2>2, <2>5, <2>6, <2>7, <2>8
  <1>11. Before(secs, N) + Len(secs[N].payload) = Len(L)
    <2>1. N \in 1 .. N
      BY <1>3
    <2>2. Before(secs, N) = Start(Len(stream)) /\ secs[N].payload = stream[Len(stream)].payload
      BY <1>3, <1>6, <1>8, <2>1, ZenonT(30)
    <2> QED
      BY <1>7, <2>2 DEF Reached
  <1>12. ASSUME NEW j \in 1 .. N
         PROVE  /\ secs[j].payload = [k \in 1 .. Len(secs[j].payload) |-> Before(secs, j) + k]
                /\ Bytes(L, secs[j].payload) <= max_section_length - (HEADER_LEN + CRC_LEN)
                /\ N > 1 => secs[j].payload # << >>
    <2>1. b + j \in Table
      BY <1>4
    <2>2. Packed(L, b + j)
      BY <1>7, <2>1
    <2>3. secs[j].payload = [k \in 1 .. Len(secs[j].payload) |-> Before(secs, j) + k]
      BY <1>6, <1>8, <2>2 DEF Packed
    <2>4. Bytes(L, secs[j].payload) <= max_section_length - (HEADER_LEN + CRC_LEN)
      <3>1. stream[b + j].data_length + CRC_LEN <= max_section_length
        BY <2>2 DEF Packed
      <3>2. /\ Bytes(L, secs[j].payload) = stream[b + j].data_length - HEADER_LEN
            /\ stream[b + j].data_length \in Int /\ max_section_length \in Int
        BY <1>2, <1>9
      <3> QED
        BY ONLY <3>1, <3>2 DEF HEADER_LEN, CRC_LEN
    <2>5. ASSUME N > 1, j = N PROVE secs[j].payload # << >>
      <3>1. Before(secs, j) + 1 \in 1 .. Len(L)
        <4>1. Before(secs, j) + 1 \in DOMAIN L
          BY <1>10, <2>5
        <4> QED
          BY <4>1
      <3>2. Before(secs, j) + Len(secs[j].payload) = Len(L)
        BY <1>11, <2>5
      <3> SUFFICES ASSUME secs[j].payload = << >> PROVE FALSE
        OBVIOUS
      <3>3. Len(secs[j].payload) = 0
        OBVIOUS
      <3>4. Before(secs, j) \in Nat
        BY <1>8, <2>2 DEF Packed
      <3>5. Before(secs, j) = Len(L)
        BY ONLY <3>2, <3>3, <3>4
      <3> QED
        BY ONLY <3>1, <3>4, <3>5
    <2>6. ASSUME j # N PROVE secs[j].payload # << >>
      <3>1. j + 1 \in 1 .. N /\ j + 1 # 1 /\ (j + 1) - 1 = j
        BY <1>3, <2>6
      <3> QED
        BY <1>10, <3>1
    <2> QED
      BY <2>3, <2>4, <2>5, <2>6
  <1>13. GreedyPacking(L, max_section_length - (HEADER_LEN + CRC_LEN), secs)
    <2>1. secs # << >>
      <3>1. Len(<< >>) = 0 /\ N # 0
        BY <1>3
      <3> QED
        BY <1>5, <3>1, Zenon
    <2>2. \A j \in 1 .. N : j # 1 =>
            Bytes(L, secs[j - 1].payload) + L[Before(secs, j) + 1]
              > max_section_length - (HEADER_LEN + CRC_LEN)
      BY <1>10
    <2> QED
      BY <1>5, <1>11, <1>12, <2>1, <2>2, ZenonT(30) DEF GreedyPacking
  <1>14. Numbered(secs)
    <2>1. ASSUME NEW j \in 1 .. N
          PROVE  /\ stream'[b + j].section_number = j - 1
                 /\ stream'[b + j].last_section_number = N - 1
      <3>1. DriverInv(Nat, private_bit)'
        BY EndTableDriver
      <3>2. first' = first /\ Len(stream') = Len(stream)
        BY <1>1, EndTableFrame DEF DriverInv
      <3>3. b + j \in Table'
        BY <1>4, <3>2 DEF Table
      <3>4. /\ stream'[b + j].section_number = ((b + j) - first) % 256
            /\ stream'[b + j].last_section_number = (Len(stream) - first) % 256
        BY <1>1, <3>1, <3>2, <3>3 DEF DriverInv, NumberInv, Number
      <3>5. N \in 1 .. 256 /\ (b + j) - first = j - 1 /\ Len(stream) - first = N - 1
        <4>1. Len(stream) <= MaxSections /\ MaxSections \in Nat
          BY PsiTableArgs DEF DriverInv, NumberInv
        <4>2. N <= 256
          BY ONLY <1>2, <1>3, <4>1, MaxSections <= 256
        <4>3. (b + j) - first = j - 1 /\ Len(stream) - first = N - 1
          BY <1>2, <1>3
        <4>4. N \in 1 .. 256
          BY ONLY <1>3, <4>2
        <4> QED
          BY <4>3, <4>4
      <3>6. (j - 1) % 256 = j - 1 /\ (N - 1) % 256 = N - 1
        BY ONLY <3>5
      <3> QED
        BY <3>4, <3>5, <3>6, ZenonT(30)
    <2> QED
      BY <1>5, <1>6, <2>1 DEF Numbered
  <1> QED
    BY <1>3, <1>5, <1>13, <1>14

-----------------------------------------------------------------------------
(* The stream as its reader sees it. *)

\* In the middle of a build its sections are not to be seen, and the others do
\* not change.
LEMMA BuildShown ==
  ASSUME NEW P, DriverTypes(P), state # "IDLE", state' # "IDLE", first' = first,
         \A i \in 1 .. Len(stream) : i < first => stream'[i] = stream[i]
  PROVE  Shown' = Shown
  <1>1. first \in 1 .. Len(stream) + 1 /\ Len(stream) \in Nat
    BY DEF DriverTypes, PsiTypeOK
  <1>2. Visible = first - 1 /\ Visible' = Visible
    BY DEF Visible
  <1>3. \A i \in 1 .. Visible : stream'[i] = stream[i]
    BY <1>1, <1>2
  <1> QED
    BY <1>2, <1>3 DEF Shown

\* A build begins with what there is to be seen.
LEMMA BuildSectionsShown ==
  ASSUME NEW P, DriverTypes(P), buildSections
  PROVE  Shown' = Shown
  <1>1. Visible' = Visible /\ stream' = stream
    BY DEF buildSections, Visible, DriverTypes
  <1> QED
    BY <1>1 DEF Shown

\* The application's calls leave what there is to be seen, or turn from it.
LEMMA ConfigureShown ==
  ASSUME Configure
  PROVE  Shown' \in {Shown, << >>}
  <1>1. CASE stream' = stream
    BY <1>1, ConfigureFrame DEF Shown, Visible
  <1>2. CASE stream' = << >>
    BY <1>2, ConfigureFrame DEF Shown, Visible
  <1> QED
    BY <1>1, <1>2, ConfigureFrame

\* A build that ends adds its sections to what there was to be seen.
LEMMA EndTableShown ==
  ASSUME NEW private_bit, DriverInv(Nat, private_bit), MaxSections <= 256,
         NEW L \in Seq(Nat), PackInv(L, Len(L)), Adequate(L), EndTable
  PROVE  /\ Len(Shown') > Len(Shown)
         /\ SubSeq(Shown', 1, Len(Shown)) = Shown
         /\ \E secs : /\ secs = SubSeq(Shown', Len(Shown) + 1, Len(Shown'))
                      /\ GreedyPacking(L, max_section_length - (HEADER_LEN + CRC_LEN), secs)
                      /\ Numbered(secs)
  <1>1. state = "END_TABLE" /\ state' = "IDLE"
    BY EndTableSucceeds DEF EndTable
  <1>2. /\ Len(stream) \in Nat /\ first \in 1 .. Len(stream)
        /\ Len(stream') = Len(stream)
        /\ \A i \in 1 .. Len(stream) : i < first => stream'[i] = stream[i]
    BY <1>1, EndTableFrame DEF DriverInv, DriverTypes, PsiTypeOK, CurInv
  <1>3. PICK b, N : b = first - 1 /\ N = Len(stream) - b
    OBVIOUS
  <1>4. b \in Nat /\ N \in Nat /\ b + N = Len(stream) /\ N > 0
    BY <1>2, <1>3
  <1>5. PICK secs : secs = [j \in 1 .. N |-> ShownOf(stream'[b + j])]
    OBVIOUS
  <1>6. /\ GreedyPacking(L, max_section_length - (HEADER_LEN + CRC_LEN), secs)
        /\ Numbered(secs)
    BY <1>3, <1>5, EndTablePacks
  <1>7. Shown = [i \in 1 .. b |-> ShownOf(stream[i])] /\ Len(Shown) = b
    <2>1. Visible = b
      BY <1>1, <1>3 DEF Visible
    <2> QED
      BY <1>4, <2>1 DEF Shown
  <1>8. Shown' = [i \in 1 .. b + N |-> ShownOf(stream'[i])] /\ Len(Shown') = b + N
    <2>1. Visible' = b + N
      BY <1>1, <1>2, <1>4 DEF Visible
    <2> QED
      BY <1>4, <2>1 DEF Shown
  <1>9. SubSeq(Shown', 1, b) = Shown
    <2>1. \A i \in 1 .. b : stream'[i] = stream[i]
      BY <1>2, <1>3, <1>4
    <2>2. SubSeq(Shown', 1, b) = [i \in 1 .. b |-> ShownOf(stream'[i])]
      BY <1>4, <1>8
    <2> QED
      BY <1>7, <2>1, <2>2
  <1>10. secs = SubSeq(Shown', b + 1, b + N)
    BY <1>4, <1>5, <1>8
  <1>11. /\ secs = SubSeq(Shown', Len(Shown) + 1, Len(Shown'))
         /\ SubSeq(Shown', 1, Len(Shown)) = Shown
    BY <1>7, <1>8, <1>9, <1>10
  <1>12. Len(Shown') > Len(Shown)
    BY <1>4, <1>7, <1>8
  <1> QED
    BY <1>6, <1>11, <1>12, Zenon
-----------------------------------------------------------------------------
(* The machine.                                                            *)

\* A Context: the case of the switch, the entry pending (0: nullptr) and the
\* iterator, for n entries.
Contexts(n) ==
  [op : {"INIT", "WRITE_HEAD", "GET", "WRITE"}, x : 0 .. n, iter : 1 .. n + 1]
Fresh == [op |-> "INIT", x |-> 0, iter |-> 1]

PutHead(r, q, b) ==
  /\ state = "WRITE_SEC" /\ r.op \in {"INIT", "WRITE_HEAD"}
  /\ IF lengthFits(cur, HEADER_LEN)
     THEN /\ WriteSecContinue(writeSectionHeader(cur, b), HEADER_LEN - 3)
          /\ q = [op |-> IF r.x = 0 THEN "GET" ELSE "WRITE", x |-> r.x,
                  iter |-> IF r.op = "INIT" THEN 1 ELSE r.iter]
     ELSE Abort /\ q = r

\* The entry at the iterator takes the section past its data: it has to wait.
TakesTooMuch(L, r) == sec_bytes + L[r.iter] > getMaxDataLen

LeaveFull(L, r, q, b) ==
  /\ state = "WRITE_SEC" /\ r.op = "GET" /\ r.iter <= Len(L) /\ TakesTooMuch(L, r)
  /\ q = [op |-> "WRITE_HEAD", x |-> r.iter, iter |-> r.iter + 1]
  /\ WriteSecReturn(FALSE, cur, sec_bytes, b)

Fetch(L, r, q) ==
  /\ state = "WRITE_SEC" /\ r.op = "GET" /\ r.iter <= Len(L) /\ ~TakesTooMuch(L, r)
  /\ q = [op |-> "WRITE", x |-> r.iter, iter |-> r.iter + 1]
  /\ UNCHANGED driver

LeaveDone(L, r, q, b) ==
  /\ state = "WRITE_SEC" /\ r.op = "GET" /\ r.iter > Len(L)
  /\ q = Fresh
  /\ WriteSecReturn(TRUE, cur, sec_bytes, b)

PutEntry(L, r, q) ==
  /\ state = "WRITE_SEC" /\ r.op = "WRITE"
  /\ IF lengthFits(cur, L[r.x])
     THEN /\ WriteSecContinue(put(cur, r.x, L[r.x]), (sec_bytes + L[r.x]) % 65536)
          /\ q = [op |-> "GET", x |-> r.x, iter |-> r.iter]
     ELSE Abort /\ q = r

ListStep(L, r, q, b) ==
  /\ \/ (MallocSec \/ EndTable) /\ q = r
     \/ PutHead(r, q, b) \/ LeaveFull(L, r, q, b) \/ Fetch(L, r, q)
     \/ LeaveDone(L, r, q, b) \/ PutEntry(L, r, q)
  /\ UNCHANGED << attributes, length >>

-----------------------------------------------------------------------------
(* The invariant of the machine.                                           *)

\* The context of writeSection against the driver's state.
RunInv(L, r) ==
  /\ state \in {"IDLE", "END_TABLE"} => r = Fresh
  /\ state = "MALLOC_SEC" => r.op \in {"INIT", "WRITE_HEAD"}
  /\ r.op = "INIT" => r = Fresh
  /\ r.op \in {"WRITE_HEAD", "WRITE"} => r.x \in DOMAIN L /\ r.iter = r.x + 1

\* A section has its header once writeSection is past WRITE_HEAD.
HeadInv(r) ==
  state = "WRITE_SEC" =>
    (cur.data_length = 0 <=> r.op \in {"INIT", "WRITE_HEAD"})

MachineInv(L, r, b) ==
  DriverInv(Nat, b) /\ r \in Contexts(Len(L)) /\ RunInv(L, r) /\ HeadInv(r)

\* The position of the entry that will be written next: the one pending, if there
\* is one, and else the one that the iterator points to.
Due(r) == IF r.op \in {"INIT", "GET"} THEN r.iter ELSE r.x

\* How far the build is when the first m entries are in the sections.
Standing(L, r, m) ==
  /\ state \in {"MALLOC_SEC", "WRITE_SEC"} => m = Due(r) - 1
  /\ state = "END_TABLE" => m = Len(L)

\* An entry that was found to fit, or that is the first of its section, leaves
\* room for the CRC, if each has it in a section of its own.
RoomInv(L, r) ==
  state = "WRITE_SEC" /\ r.op = "WRITE" /\ Adequate(L) =>
    cur.data_length + L[r.x] + CRC_LEN <= max_section_length

\* What the sections hold, m entries into the build.
Account(L, r, m) ==
  /\ Increasing /\ Written = 1 .. m
  /\ Standing(L, r, m) /\ PackInv(L, m) /\ HoldInv(L)

ListInv(L, r, b) ==
  /\ MachineInv(L, r, b) /\ RoomInv(L, r)
  /\ \E m \in 0 .. Len(L) : Account(L, r, m)

\* Out of a build there is no entry to account for that could still be moved.
LEMMA NoBuildList ==
  ASSUME NEW L \in Seq(Nat), NEW r, NEW b, MachineInv(L, r, b)', Increasing',
         state' \in {"IDLE", "ABORTED"},
         NEW m \in 0 .. Len(L), Written' = 1 .. m
  PROVE  ListInv(L, r, b)'
  <1>1. PackInv(L, m)' /\ HoldInv(L)'
    BY NoBuildPack
  <1>2. Standing(L, r, m)' /\ RoomInv(L, r)'
    BY DEF Standing, RoomInv
  <1> QED
    BY <1>1, <1>2 DEF ListInv, Account

-----------------------------------------------------------------------------
(* Between builds.                                                         *)

\* No section and no entry: nothing to get wrong.
LEMMA InitList ==
  ASSUME NEW b, NEW base_len \in ui16, NEW max_len \in ui16, PsiInit(base_len, max_len),
         NEW L \in Seq(Nat), L = << >>
  PROVE  ListInv(L, Fresh, b)
  <1>1. DriverInv(Nat, b) /\ Increasing /\ Written = 1 .. 0
    BY InitDriver, InitPayloads
  <1>2. state = "IDLE"
    BY DEF PsiInit
  <1>3. MachineInv(L, Fresh, b)
    BY <1>1, <1>2 DEF MachineInv, Contexts, Fresh, RunInv, HeadInv
  <1>4. Account(L, Fresh, 0) /\ RoomInv(L, Fresh)
    BY <1>1, <1>2 DEF Account, Standing, PackInv, HoldInv, Building, RoomInv
  <1> QED
    BY <1>3, <1>4 DEF ListInv

\* An application that leaves the driver alone may lengthen the list.
LEMMA AddList ==
  ASSUME NEW b, NEW L \in Seq(Nat), NEW r, ListInv(L, r, b), state = "IDLE",
         NEW K \in Seq(Nat), Len(L) <= Len(K),
         UNCHANGED << attributes, driver >>, length' \in ui16
  PROVE  ListInv(K, r, b)'
  <1>1. PICK m \in 0 .. Len(L) : Increasing /\ Written = 1 .. m
    BY DEF ListInv, Account
  <1>2. stream' = stream /\ first' = first /\ state' = "IDLE"
    BY DEF driver
  <1>3. Written' = 1 .. m /\ Increasing'
    BY <1>1, <1>2, SamePayloads
  <1>4. DriverInv(Nat, b)' /\ r = Fresh
    BY AddDriver DEF ListInv, MachineInv, RunInv
  <1>5. MachineInv(K, r, b)'
    BY <1>2, <1>4 DEF MachineInv, Contexts, Fresh, RunInv, HeadInv
  <1>6. m \in 0 .. Len(K)
    OBVIOUS
  <1> QED
    BY <1>2, <1>3, <1>5, <1>6, NoBuildList

\* A new stream has nothing written in it; the rest of Configure shows nowhere.
LEMMA ConfigureList ==
  ASSUME NEW b, NEW L \in Seq(Nat), NEW r, ListInv(L, r, b), Configure
  PROVE  ListInv(L, r, b)'
  <1>1. PICK m \in 0 .. Len(L) : Increasing /\ Written = 1 .. m
    BY DEF ListInv, Account
  <1>2. state = "IDLE" /\ state' = "IDLE"
    BY ConfigureFrame
  <1>3. DriverInv(Nat, b)' /\ Increasing' /\ Written' \in {Written, {}}
    BY <1>1, ConfigureDriver, ConfigurePayloads DEF ListInv, MachineInv
  <1>4. MachineInv(L, r, b)'
    BY <1>2, <1>3 DEF ListInv, MachineInv, RunInv, HeadInv
  <1>5. PICK n \in 0 .. Len(L) : Written' = 1 .. n
    <2>1. {} = 1 .. 0 /\ 0 \in 0 .. Len(L)
      OBVIOUS
    <2> QED
      BY <1>1, <1>3, <2>1
  <1> QED
    BY <1>2, <1>3, <1>4, <1>5, NoBuildList

\* A new build starts with none written and the iterator at the first.
LEMMA BuildSectionsList ==
  ASSUME NEW b, NEW L \in Seq(Nat), NEW r, ListInv(L, r, b), buildSections
  PROVE  ListInv(L, r, b)'
  <1>1. state = "IDLE" /\ state' = "MALLOC_SEC" /\ r = Fresh
    BY DEF buildSections, ListInv, MachineInv, RunInv
  <1>2. DriverInv(Nat, b)' /\ Increasing' /\ Written' = {}
    BY BuildSectionsDriver, BuildSectionsPayloads DEF ListInv, MachineInv, DriverInv
  <1>3. MachineInv(L, r, b)'
    BY <1>1, <1>2 DEF MachineInv, Contexts, Fresh, RunInv, HeadInv
  <1>4. PackInv(L, 0)' /\ HoldInv(L)'
    BY BuildSectionsPack DEF ListInv, MachineInv, DriverInv
  <1>5. Standing(L, r, 0)' /\ RoomInv(L, r)'
    BY <1>1 DEF Standing, Due, Fresh, RoomInv
  <1>6. Written' = 1 .. 0 /\ 0 \in 0 .. Len(L)
    BY <1>2
  <1> QED
    BY <1>2, <1>3, <1>4, <1>5, <1>6 DEF ListInv, Account

\* Nothing at all happens.
LEMMA SameList ==
  ASSUME NEW b, NEW L \in Seq(Nat), NEW r, ListInv(L, r, b), UNCHANGED psiVars
  PROVE  ListInv(L, r, b)'
  <1>1. UNCHANGED << attributes, driver >> /\ length' = length
    BY DEF psiVars
  <1>2. /\ stream' = stream /\ first' = first /\ state' = state /\ cur' = cur
        /\ sec_bytes' = sec_bytes
    BY <1>1 DEF driver, cur
  <1>3. PICK m \in 0 .. Len(L) : Account(L, r, m)
    BY DEF ListInv
  <1>4. DriverInv(Nat, b)'
    BY <1>1, AddDriver DEF ListInv, MachineInv, DriverInv, DriverTypes, PsiTypeOK
  <1>5. MachineInv(L, r, b)'
    BY <1>2, <1>4 DEF ListInv, MachineInv, RunInv, HeadInv
  <1>6. RoomInv(L, r)'
    BY <1>1, <1>2, AdequateKept DEF ListInv, RoomInv, attributes
  <1>7. Written' = 1 .. m /\ Increasing'
    BY <1>2, <1>3, SamePayloads DEF Account
  <1>8. PackInv(L, m)' /\ HoldInv(L)' /\ Standing(L, r, m)'
    BY <1>1, <1>2, <1>3, SamePack DEF Account, Standing
  <1> QED
    BY <1>5, <1>6, <1>7, <1>8 DEF ListInv, Account

-----------------------------------------------------------------------------
(* The steps of a build.                                                   *)

\* A failed assert ends the account.
LEMMA AbortList ==
  ASSUME NEW b, NEW L \in Seq(Nat), NEW r, ListInv(L, r, b), state = "WRITE_SEC", Abort,
         UNCHANGED << attributes, length >>
  PROVE  ListInv(L, r, b)'
  <1>1. PICK m \in 0 .. Len(L) : Increasing /\ Written = 1 .. m
    BY DEF ListInv, Account
  <1>2. DriverInv(Nat, b)' /\ Increasing' /\ Written' = 1 .. m /\ state' = "ABORTED"
    BY <1>1, AbortDriver, AbortPayloads DEF ListInv, MachineInv, Abort
  <1>3. MachineInv(L, r, b)'
    BY <1>2 DEF ListInv, MachineInv, RunInv, HeadInv
  <1> QED
    BY <1>2, <1>3, NoBuildList

\* A new section is empty and moves neither the iterator nor the pending entry.
LEMMA MallocSecList ==
  ASSUME NEW b, NEW L \in Seq(Nat), NEW r, ListInv(L, r, b), MallocSec
  PROVE  ListInv(L, r, b)'
  <1>1. PICK m \in 0 .. Len(L) : Account(L, r, m)
    BY DEF ListInv
  <1>2. state = "MALLOC_SEC" /\ state' = "WRITE_SEC"
    BY DEF MallocSec
  <1>3. DriverInv(Nat, b)' /\ cur'.data_length = 0
    BY MallocSecDriver, MallocSecFrame DEF ListInv, MachineInv, DriverInv
  <1>4. MachineInv(L, r, b)'
    BY <1>2, <1>3 DEF ListInv, MachineInv, RunInv, HeadInv
  <1>5. RoomInv(L, r)'
    BY <1>2 DEF ListInv, MachineInv, RunInv, RoomInv
  <1>6. Written' = 1 .. m /\ Increasing'
    BY <1>1, MallocSecPayloads DEF ListInv, MachineInv, DriverInv, Account
  <1>7. PackInv(L, m)' /\ HoldInv(L)'
    BY <1>1, MallocSecPack DEF ListInv, MachineInv, Account
  <1>8. Standing(L, r, m)'
    BY <1>1, <1>2 DEF Account, Standing
  <1> QED
    BY <1>4, <1>5, <1>6, <1>7, <1>8 DEF ListInv, Account

\* What WRITE_HEAD makes of the section being written.
LEMMA HeadFields ==
  ASSUME NEW b \in {0, 1}, NEW L \in Seq(Nat), NEW r, MachineInv(L, r, b),
         state = "WRITE_SEC", r.op \in {"INIT", "WRITE_HEAD"},
         lengthFits(cur, HEADER_LEN), NEW s, s = writeSectionHeader(cur, b)
  PROVE  /\ s \in Sections(Nat) /\ s.size = cur.size /\ s.crc = cur.crc
         /\ s.payload = cur.payload /\ s.section_number = cur_sec
         /\ s.data_length = HEADER_LEN /\ s.data_length # 0
         /\ s.data_length = HEADER_LEN - 3 + 3 /\ HEADER_LEN - 3 \in ui16
         /\ HEADER_LEN <= s.data_length /\ s.data_length <= s.size
         /\ cur.data_length = 0
  <1>1. cur \in Sections(Nat) /\ cur.data_length = 0 /\ cur.size \in Nat
    BY CurFacts DEF MachineInv, HeadInv
  <1>2. /\ s \in Sections(Nat) /\ s.size = cur.size /\ s.crc = cur.crc
        /\ s.payload = cur.payload /\ s.section_number = cur_sec
        /\ s.data_length = cur.data_length + HEADER_LEN
    <2>1. length \in ui16 /\ cur_sec \in ui8 /\ version_number \in ui5
      BY DEF MachineInv, DriverInv, DriverTypes, PsiTypeOK
    <2>2. lengthFits(cur, HEADER_LEN) /\ b \in {0, 1} /\ s = writeSectionHeader(cur, b)
      OBVIOUS
    <2> QED
      BY ONLY <1>1, <2>1, <2>2, HeaderFields
  <1> QED
    BY <1>1, <1>2, Ui16 DEF lengthFits, HEADER_LEN

\* The header is no payload; after it comes the pending entry, if any, and finds
\* room if it finds it anywhere.
LEMMA PutHeadList ==
  ASSUME NEW b \in {0, 1}, NEW L \in Seq(Nat), NEW r, NEW q, ListInv(L, r, b),
         PutHead(r, q, b), UNCHANGED << attributes, length >>
  PROVE  ListInv(L, q, b)'
  <1>1. state = "WRITE_SEC" /\ r.op \in {"INIT", "WRITE_HEAD"}
    BY DEF PutHead
  <1>2. CASE ~lengthFits(cur, HEADER_LEN)
    BY <1>1, <1>2, AbortList DEF PutHead
  <1>3. CASE lengthFits(cur, HEADER_LEN)
    <2>1. PICK s : s = writeSectionHeader(cur, b)
      OBVIOUS
    <2>2. /\ s \in Sections(Nat) /\ s.size = cur.size /\ s.crc = cur.crc
          /\ s.payload = cur.payload /\ s.section_number = cur_sec
          /\ s.data_length = HEADER_LEN /\ s.data_length # 0
          /\ s.data_length = HEADER_LEN - 3 + 3 /\ HEADER_LEN - 3 \in ui16
          /\ HEADER_LEN <= s.data_length /\ s.data_length <= s.size
          /\ cur.data_length = 0
      BY <1>1, <1>3, <2>1, HeadFields DEF ListInv
    <2>3. PICK m \in 0 .. Len(L) : Account(L, r, m)
      BY DEF ListInv
    <2>4. /\ WriteSecContinue(s, HEADER_LEN - 3)
          /\ q = [op |-> IF r.x = 0 THEN "GET" ELSE "WRITE", x |-> r.x,
                  iter |-> IF r.op = "INIT" THEN 1 ELSE r.iter]
      BY <1>3, <2>1 DEF PutHead
    <2>5. DriverInv(Nat, b)' /\ cur' = s /\ state' = "WRITE_SEC"
      BY <1>1, <2>2, <2>4, ContinueDriver DEF ListInv, MachineInv
    <2>6. stream' = ReplaceCur(s) /\ first' = first
      BY <2>4 DEF WriteSecContinue
    <2>7. /\ q \in Contexts(Len(L)) /\ q.op \in {"GET", "WRITE"} /\ Due(q) = Due(r)
          /\ q.op = "WRITE" => q.x \in DOMAIN L /\ q.iter = q.x + 1
      <3>1. CASE r.op = "INIT"
        <4>1. r = Fresh /\ r.iter = 1
          BY <3>1 DEF ListInv, MachineInv, RunInv, Fresh
        <4>2. q = [op |-> "GET", x |-> 0, iter |-> 1]
          BY <2>4, <3>1, <4>1 DEF Fresh
        <4>3. 0 \in 0 .. Len(L) /\ 1 \in 1 .. Len(L) + 1
          OBVIOUS
        <4> QED
          BY <3>1, <4>1, <4>2, <4>3 DEF Contexts, Due
      <3>2. CASE r.op = "WRITE_HEAD"
        <4>1. r.x \in DOMAIN L /\ r.iter = r.x + 1 /\ r \in Contexts(Len(L))
          BY <3>2 DEF ListInv, MachineInv, RunInv
        <4>2. q = [op |-> "WRITE", x |-> r.x, iter |-> r.iter]
          BY <2>4, <3>2, <4>1
        <4> QED
          BY <3>2, <4>1, <4>2 DEF Contexts, Due
      <3> QED
        BY <1>1, <3>1, <3>2
    <2>8. MachineInv(L, q, b)'
      BY <2>2, <2>5, <2>7 DEF MachineInv, RunInv, HeadInv
    <2>9. RoomInv(L, q)'
      <3>1. Adequate(L)' => Adequate(L)
        BY AdequateKept
      <3> SUFFICES ASSUME q.op = "WRITE", Adequate(L)
                   PROVE  s.data_length + L[q.x] + CRC_LEN <= max_section_length
        BY <2>5, <3>1 DEF RoomInv, attributes
      <3> QED
        BY <2>2, <2>7 DEF Adequate
    <2>10. Written' = 1 .. m /\ Increasing'
      BY <1>1, <2>2, <2>3, <2>6, ReplacePayloads DEF ListInv, MachineInv, Account
    <2>11. PackInv(L, m)' /\ HoldInv(L)'
      BY <1>1, <2>2, <2>3, <2>5, <2>6, HeaderPack DEF ListInv, MachineInv, Account
    <2>12. Standing(L, q, m)'
      BY <1>1, <2>3, <2>5, <2>7 DEF Account, Standing
    <2> QED
      BY <2>8, <2>9, <2>10, <2>11, <2>12 DEF ListInv, Account
  <1> QED
    BY <1>2, <1>3

\* What TakesTooMuch says of the section being written.
LEMMA TooMuchMeans ==
  ASSUME NEW b, NEW L \in Seq(Nat), NEW r, MachineInv(L, r, b), state = "WRITE_SEC",
         r.op = "GET", r.iter <= Len(L)
  PROVE  /\ r.iter \in DOMAIN L /\ cur.data_length # 0
         /\ TakesTooMuch(L, r) <=>
              max_section_length < cur.data_length + L[r.iter] + CRC_LEN
         /\ ~TakesTooMuch(L, r) <=>
              cur.data_length + L[r.iter] + CRC_LEN <= max_section_length
  <1>1. PICK x \in DOMAIN L : x = r.iter
    BY DEF MachineInv, Contexts
  <1>2. cur.data_length # 0
    BY DEF MachineInv, HeadInv
  <1>3. /\ cur.data_length = sec_bytes + 3 /\ sec_bytes \in Nat
        /\ getMaxDataLen = cur.size - 3 - CRC_LEN
        /\ cur.size \in Nat /\ cur.size = max_section_length
    BY <1>2, CountedFacts, CurFacts DEF MachineInv
  <1>4. L[x] \in Nat
    OBVIOUS
  <1> QED
    BY <1>1, <1>2, <1>3, <1>4, SMTT(20) DEF TakesTooMuch, CRC_LEN

\* The driver's word on section_length touches nothing that counts here.
LEMMA ReturnMachine ==
  ASSUME NEW b \in {0, 1}, NEW L \in Seq(Nat), NEW r, MachineInv(L, r, b),
         state = "WRITE_SEC", cur.data_length # 0,
         NEW done \in BOOLEAN, WriteSecReturn(done, cur, sec_bytes, b),
         UNCHANGED << attributes, length >>
  PROVE  /\ DriverInv(Nat, b)' /\ state' = IF done THEN "END_TABLE" ELSE "MALLOC_SEC"
         /\ Written' = Written /\ (Increasing => Increasing')
  <1>1. cur \in Sections(Nat)
    BY CurFacts DEF MachineInv
  <1>2. DriverInv(Nat, b)'
    BY <1>1, ReturnDriver DEF MachineInv
  <1> QED
    BY <1>2, ReturnPayloads DEF MachineInv, WriteSecReturn

\* An entry fetched that does not fit leaves the section full.
LEMMA LeaveFullList ==
  ASSUME NEW b \in {0, 1}, NEW L \in Seq(Nat), NEW r, NEW q, ListInv(L, r, b),
         LeaveFull(L, r, q, b), UNCHANGED << attributes, length >>
  PROVE  ListInv(L, q, b)'
  <1>1. /\ state = "WRITE_SEC" /\ r.op = "GET" /\ r.iter <= Len(L) /\ TakesTooMuch(L, r)
        /\ q = [op |-> "WRITE_HEAD", x |-> r.iter, iter |-> r.iter + 1]
        /\ WriteSecReturn(FALSE, cur, sec_bytes, b)
    BY DEF LeaveFull
  <1>2. /\ r.iter \in DOMAIN L /\ cur.data_length # 0
        /\ max_section_length < cur.data_length + L[r.iter] + CRC_LEN
    BY <1>1, TooMuchMeans DEF ListInv
  <1>3. PICK m \in 0 .. Len(L) : Account(L, r, m)
    BY DEF ListInv
  <1>4. PICK n \in Nat : n = m /\ r.iter = n + 1
    <2>1. m = r.iter - 1
      BY <1>1, <1>3 DEF Account, Standing, Due
    <2>2. m \in Nat /\ r.iter \in Nat
      BY <1>2
    <2>3. r.iter = m + 1
      BY <2>1, <2>2
    <2> QED
      BY <2>2, <2>3
  <1>5. /\ DriverInv(Nat, b)' /\ state' = "MALLOC_SEC"
        /\ Written' = Written /\ (Increasing => Increasing')
    BY <1>1, <1>2, ReturnMachine DEF ListInv
  <1>6. MachineInv(L, q, b)'
    BY <1>1, <1>2, <1>5 DEF MachineInv, Contexts, RunInv, HeadInv
  <1>7. RoomInv(L, q)'
    BY <1>5 DEF RoomInv
  <1>8. PackInv(L, m)' /\ HoldInv(L)'
    <2>1. n + 1 \in DOMAIN L /\ max_section_length < cur.data_length + L[n + 1] + CRC_LEN
      BY <1>2, <1>4
    <2>2. DriverInv(Nat, b) /\ PackInv(L, n) /\ HoldInv(L)
      BY <1>3, <1>4 DEF ListInv, MachineInv, Account
    <2>3. PackInv(L, n)' /\ HoldInv(L)'
      BY <1>1, <1>2, <2>1, <2>2, ReturnPack
    <2> QED
      BY <1>4, <2>3
  <1>9. Standing(L, q, m)'
    BY <1>1, <1>4, <1>5 DEF Standing, Due
  <1>10. Written' = 1 .. m /\ Increasing'
    BY <1>3, <1>5 DEF Account
  <1> QED
    BY <1>6, <1>7, <1>8, <1>9, <1>10 DEF ListInv, Account

\* One that fits is the next one; writing it is another case.
LEMMA FetchList ==
  ASSUME NEW b, NEW L \in Seq(Nat), NEW r, NEW q, ListInv(L, r, b),
         Fetch(L, r, q), UNCHANGED << attributes, length >>
  PROVE  ListInv(L, q, b)'
  <1>1. /\ state = "WRITE_SEC" /\ r.op = "GET" /\ r.iter <= Len(L) /\ ~TakesTooMuch(L, r)
        /\ q = [op |-> "WRITE", x |-> r.iter, iter |-> r.iter + 1]
    BY DEF Fetch
  <1>2. /\ stream' = stream /\ first' = first /\ state' = state /\ cur' = cur
    BY DEF Fetch, driver, cur
  <1>3. /\ r.iter \in DOMAIN L /\ cur.data_length # 0
        /\ cur.data_length + L[r.iter] + CRC_LEN <= max_section_length
    BY <1>1, TooMuchMeans DEF ListInv
  <1>4. PICK m \in 0 .. Len(L) : Account(L, r, m)
    BY DEF ListInv
  <1>5. DriverInv(Nat, b)'
    BY AddDriver DEF Fetch, ListInv, MachineInv, DriverInv, DriverTypes, PsiTypeOK
  <1>6. MachineInv(L, q, b)'
    BY <1>1, <1>2, <1>3, <1>5 DEF MachineInv, Contexts, RunInv, HeadInv
  <1>7. RoomInv(L, q)'
    BY <1>1, <1>2, <1>3 DEF RoomInv, attributes
  <1>8. Written' = 1 .. m /\ Increasing'
    BY <1>2, <1>4, SamePayloads DEF Account
  <1>9. PackInv(L, m)' /\ HoldInv(L)'
    BY <1>2, <1>4, SamePack DEF Account
  <1>10. Standing(L, q, m)'
    BY <1>1, <1>2, <1>4 DEF Account, Standing, Due
  <1> QED
    BY <1>6, <1>7, <1>8, <1>9, <1>10 DEF ListInv, Account

\* The iterator at the end means that every entry has been written; the last
\* section need not be full.
LEMMA LeaveDoneList ==
  ASSUME NEW b \in {0, 1}, NEW L \in Seq(Nat), NEW r, NEW q, ListInv(L, r, b),
         LeaveDone(L, r, q, b), UNCHANGED << attributes, length >>
  PROVE  ListInv(L, q, b)'
  <1>1. /\ state = "WRITE_SEC" /\ r.op = "GET" /\ r.iter > Len(L) /\ q = Fresh
        /\ WriteSecReturn(TRUE, cur, sec_bytes, b)
    BY DEF LeaveDone
  <1>2. cur.data_length # 0 /\ r.iter = Len(L) + 1
    BY <1>1 DEF ListInv, MachineInv, HeadInv, Contexts
  <1>3. PICK m \in 0 .. Len(L) : Account(L, r, m)
    BY DEF ListInv
  <1>4. PICK n \in Nat : n = m /\ n = Len(L)
    <2>1. m = r.iter - 1
      BY <1>1, <1>3 DEF Account, Standing, Due
    <2>2. m = Len(L) /\ m \in Nat
      BY <1>2, <2>1
    <2> QED
      BY <2>2
  <1>5. /\ DriverInv(Nat, b)' /\ state' = "END_TABLE"
        /\ Written' = Written /\ (Increasing => Increasing')
    BY <1>1, <1>2, ReturnMachine DEF ListInv
  <1>6. MachineInv(L, q, b)'
    BY <1>1, <1>5 DEF MachineInv, Contexts, Fresh, RunInv, HeadInv
  <1>7. RoomInv(L, q)' /\ Standing(L, q, m)'
    BY <1>4, <1>5 DEF RoomInv, Standing
  <1>8. PackInv(L, m)' /\ HoldInv(L)'
    <2>1. DriverInv(Nat, b) /\ PackInv(L, n) /\ HoldInv(L)
      BY <1>3, <1>4 DEF ListInv, MachineInv, Account
    <2>2. PackInv(L, n)' /\ HoldInv(L)'
      BY <1>1, <1>2, <2>1, ReturnPack
    <2> QED
      BY <1>4, <2>2
  <1>9. Written' = 1 .. m /\ Increasing'
    BY <1>3, <1>5 DEF Account
  <1> QED
    BY <1>6, <1>7, <1>8, <1>9 DEF ListInv, Account

\* The entry fetched, or pending from the last section, is the next one, and
\* finds the room it needs unless some entry fits in no section.
LEMMA PutEntryList ==
  ASSUME NEW b, NEW L \in Seq(Nat), NEW r, NEW q, ListInv(L, r, b),
         PutEntry(L, r, q), UNCHANGED << attributes, length >>
  PROVE  ListInv(L, q, b)'
  <1>1. state = "WRITE_SEC" /\ r.op = "WRITE"
    BY DEF PutEntry
  <1>2. /\ r.x \in DOMAIN L /\ r.iter = r.x + 1 /\ r \in Contexts(Len(L))
        /\ cur.data_length # 0
    BY <1>1 DEF ListInv, MachineInv, RunInv, HeadInv
  <1>3. CASE ~lengthFits(cur, L[r.x])
    BY <1>1, <1>3, AbortList DEF PutEntry
  <1>4. CASE lengthFits(cur, L[r.x])
    <2>1. PICK m \in 0 .. Len(L) : Account(L, r, m)
      BY DEF ListInv
    <2>2. PICK n \in Nat : n = m /\ r.x = n + 1
      <3>1. m = r.x - 1
        BY <1>1, <2>1 DEF Account, Standing, Due
      <3>2. m \in Nat /\ r.x \in Nat
        BY <1>2
      <3>3. r.x = m + 1
        BY <3>1, <3>2
      <3> QED
        BY <3>2, <3>3
    <2>3. PICK x \in Nat, len \in Nat : x = r.x /\ x = n + 1 /\ len = L[r.x] /\ len = L[n + 1]
      <3>1. n + 1 \in DOMAIN L /\ n + 1 \in Nat
        BY <1>2, <2>2
      <3>2. L[n + 1] \in Nat
        BY <3>1
      <3> QED
        BY <2>2, <3>1, <3>2
    <2>4. PICK s : s = put(cur, x, len)
      OBVIOUS
    <2>5. DriverInv(Nat, b) /\ lengthFits(cur, len)
      BY <1>4, <2>3 DEF ListInv, MachineInv
    <2>6. /\ s \in Sections(Nat) /\ s.size = cur.size /\ s.crc = cur.crc
          /\ s.section_number = cur_sec /\ s.payload = Append(cur.payload, x)
          /\ s.data_length = sec_bytes + len + 3 /\ s.data_length # 0
          /\ s.data_length = cur.data_length + len
          /\ HEADER_LEN <= s.data_length /\ s.data_length <= s.size
          /\ (sec_bytes + len) % 65536 = sec_bytes + len
          /\ sec_bytes + len \in ui16
      BY ONLY <1>1, <1>2, <2>3, <2>4, <2>5, PutPosition, SMTT(20)
    <2>7. /\ WriteSecContinue(s, sec_bytes + len)
          /\ q = [op |-> "GET", x |-> r.x, iter |-> r.iter]
      BY <1>4, <2>3, <2>4, <2>6 DEF PutEntry
    <2>8. DriverInv(Nat, b)' /\ cur' = s /\ state' = "WRITE_SEC"
      BY <1>1, <2>5, <2>6, <2>7, ContinueDriver
    <2>9. stream' = ReplaceCur(s) /\ first' = first
      BY <2>7 DEF WriteSecContinue
    <2>10. MachineInv(L, q, b)'
      BY <1>2, <2>6, <2>7, <2>8 DEF MachineInv, Contexts, RunInv, HeadInv
    <2>11. RoomInv(L, q)'
      BY <2>7 DEF RoomInv
    <2>12. s.payload = Append(cur.payload, n + 1) /\ s.data_length = cur.data_length + L[n + 1]
      BY <2>3, <2>6
    <2>13. Increasing' /\ Written' = 1 .. n + 1
      <3>1. Increasing /\ Written = 1 .. n
        BY <2>1, <2>2 DEF Account
      <3>2. s \in Sections(Nat) /\ s.payload = Append(cur.payload, n + 1)
        BY <2>6, <2>12
      <3> QED
        BY ONLY <1>1, <2>2, <2>5, <2>9, <3>1, <3>2, WriteNext
    <2>14. PackInv(L, n + 1)' /\ HoldInv(L)'
      <3>1. Adequate(L) => cur.data_length + L[n + 1] + CRC_LEN <= max_section_length
        BY <1>1, <2>2 DEF ListInv, RoomInv
      <3>2. PackInv(L, n) /\ HoldInv(L) /\ n + 1 \in DOMAIN L
        BY <1>2, <2>1, <2>2 DEF Account
      <3>3. DriverInv(Nat, b) /\ state = "WRITE_SEC" /\ cur.data_length # 0
        BY <1>1, <1>2, <2>5
      <3>4. s \in Sections(Nat) /\ state' = "WRITE_SEC" /\ UNCHANGED attributes
        BY <2>6, <2>8
      <3> QED
        BY ONLY L \in Seq(Nat), n \in Nat, <2>9, <2>12, <3>1, <3>2, <3>3, <3>4, WritePack,
                ZenonT(30)
    <2>15. Standing(L, q, n + 1)' /\ n + 1 \in 0 .. Len(L)
      BY <1>2, <2>2, <2>7, <2>8 DEF Standing, Due
    <2> QED
      BY <2>10, <2>11, <2>13, <2>14, <2>15 DEF ListInv, Account
  <1> QED
    BY <1>3, <1>4

\* Stamping the sections of the table leaves their payloads alone.
LEMMA EndTableList ==
  ASSUME NEW b, NEW L \in Seq(Nat), NEW r, ListInv(L, r, b), EndTable
  PROVE  ListInv(L, r, b)'
  <1>1. PICK m \in 0 .. Len(L) : Account(L, r, m)
    BY DEF ListInv
  <1>2. state = "END_TABLE" /\ r = Fresh
    BY DEF EndTable, ListInv, MachineInv, RunInv
  <1>3. /\ DriverInv(Nat, b)' /\ state' \in {"IDLE", "ABORTED"}
        /\ Written' = 1 .. m /\ Increasing'
    BY <1>1, EndTableDriver, EndTablePayloads DEF ListInv, MachineInv, DriverInv, Account
  <1>4. MachineInv(L, r, b)'
    BY <1>2, <1>3 DEF MachineInv, Contexts, Fresh, RunInv, HeadInv
  <1> QED
    BY <1>3, <1>4, NoBuildList

\* Every step of a build keeps the invariant.
LEMMA StepList ==
  ASSUME NEW b \in {0, 1}, NEW L \in Seq(Nat), NEW r, NEW q, ListInv(L, r, b),
         ListStep(L, r, q, b)
  PROVE  ListInv(L, q, b)'
  BY MallocSecList, EndTableList, PutHeadList, LeaveFullList, FetchList, LeaveDoneList,
     PutEntryList DEF ListStep

-----------------------------------------------------------------------------
(* What the machine delivers.                                              *)

\* The sections hold the entries in order, all of them at the end.
LEMMA ListInOrder ==
  ASSUME NEW b, NEW L \in Seq(Nat), NEW r, ListInv(L, r, b)
  PROVE  InOrderUpTo(Len(L))
  BY DEF ListInv, Account, Increasing, Written, Standing, InOrderUpTo

\* The section has room for its header if it has it for any entry, ...
LEMMA PutHeadHolds ==
  ASSUME NEW b, NEW L \in Seq(Nat), NEW r, NEW q, ListInv(L, r, b), Adequate(L),
         PutHead(r, q, b)
  PROVE  state' = "WRITE_SEC"
  <1>1. state = "WRITE_SEC" /\ r.op \in {"INIT", "WRITE_HEAD"}
    BY DEF PutHead
  <1>2. cur.data_length = 0 /\ cur.size = max_section_length /\ cur.size \in Nat
    BY <1>1, CurFacts DEF ListInv, MachineInv, HeadInv
  <1>3. lengthFits(cur, HEADER_LEN)
    BY <1>2 DEF lengthFits, Adequate, HEADER_LEN, CRC_LEN
  <1> QED
    BY <1>1, <1>3 DEF PutHead, WriteSecContinue

\* ... the unchecked write of a pending entry is safe then, ...
LEMMA PutEntryHolds ==
  ASSUME NEW b, NEW L \in Seq(Nat), NEW r, NEW q, ListInv(L, r, b), Adequate(L),
         PutEntry(L, r, q)
  PROVE  state' = "WRITE_SEC"
  <1>1. state = "WRITE_SEC" /\ r.op = "WRITE"
    BY DEF PutEntry
  <1>2. PICK x \in DOMAIN L : x = r.x
    BY <1>1 DEF ListInv, MachineInv, RunInv
  <1>3. L[x] \in Nat
    OBVIOUS
  <1>4. cur.data_length + L[x] + CRC_LEN <= max_section_length
    BY <1>1, <1>2 DEF ListInv, RoomInv
  <1>5. /\ cur.size = max_section_length /\ cur.size \in Nat
        /\ cur.data_length \in Nat
    BY <1>1, CurFacts DEF ListInv, MachineInv
  <1>6. lengthFits(cur, L[r.x])
    BY <1>2, <1>3, <1>4, <1>5 DEF lengthFits, CRC_LEN
  <1> QED
    BY <1>1, <1>6 DEF PutEntry, WriteSecContinue

\* ... and so is the CRC, then and only then.
LEMMA EndTableHolds ==
  ASSUME NEW b, NEW L \in Seq(Nat), NEW r, ListInv(L, r, b), EndTable
  PROVE  /\ Adequate(L) => state' = "IDLE"
         /\ state' # "ABORTED" => Adequate(L)
         /\ PackInv(L, Len(L))
  <1>1. PICK m \in 0 .. Len(L) : Account(L, r, m)
    BY DEF ListInv
  <1>2. Len(L) \in Nat /\ m = Len(L) /\ Written = DOMAIN L
    BY <1>1 DEF Account, Standing, EndTable
  <1>3. PackInv(L, Len(L)) /\ HoldInv(L) /\ DriverInv(Nat, b)
    BY <1>1, <1>2 DEF Account, ListInv, MachineInv
  <1> QED
    BY <1>2, <1>3, EndTableSucceeds, EndTableAdequate

\* A step of a build fails only if some entry fits in no section, and endTable
\* succeeds only if each does.
LEMMA ListFails ==
  ASSUME NEW b, NEW L \in Seq(Nat), NEW r, NEW q, ListInv(L, r, b),
         ListStep(L, r, q, b)
  PROVE  /\ state \in {"MALLOC_SEC", "WRITE_SEC", "END_TABLE"}
         /\ state' = "ABORTED" => Abort /\ ~Adequate(L)
         /\ state' = "IDLE" => EndTable /\ Adequate(L)
  <1>1. CASE EndTable
    BY <1>1, EndTableHolds DEF EndTable, Abort
  <1>2. CASE PutHead(r, q, b)
    BY <1>2, PutHeadHolds DEF PutHead, WriteSecContinue, Abort
  <1>3. CASE PutEntry(L, r, q)
    BY <1>3, PutEntryHolds DEF PutEntry, WriteSecContinue, Abort
  <1>4. CASE MallocSec
    BY <1>4 DEF MallocSec
  <1>5. CASE LeaveFull(L, r, q, b) \/ LeaveDone(L, r, q, b) \/ Fetch(L, r, q)
    BY <1>5 DEF LeaveFull, LeaveDone, Fetch, WriteSecReturn, driver
  <1> QED
    BY <1>1, <1>2, <1>3, <1>4, <1>5 DEF ListStep

\* Until endTable returns, the steps of a build do not show.
LEMMA ListHides ==
  ASSUME NEW b \in {0, 1}, NEW L \in Seq(Nat), NEW r, NEW q, ListInv(L, r, b),
         ListStep(L, r, q, b), state' # "IDLE"
  PROVE  Shown' = Shown
  <1>1. state # "IDLE"
    BY ListFails
  <1>2. ASSUME Abort PROVE Shown' = Shown
    BY <1>1, <1>2, BuildShown DEF Abort, ListInv, MachineInv, DriverInv
  <1>3. CASE MallocSec
    BY <1>1, <1>3, MallocSecFrame, BuildShown DEF ListInv, MachineInv, DriverInv, MallocSec
  <1>4. CASE Fetch(L, r, q)
    BY <1>4 DEF Fetch, driver, Shown, Visible
  <1>5. ASSUME NEW s, stream' = ReplaceCur(s), s \in Sections(Nat), first' = first,
               state = "WRITE_SEC"
        PROVE  Shown' = Shown
    <2>1. \A i \in 1 .. Len(stream) - 1 : stream'[i] = stream[i]
      BY <1>5, ReplaceCurFrame DEF ListInv, MachineInv
    <2>2. first \in 1 .. Len(stream) /\ Len(stream) \in Nat
      BY <1>5, CurFacts DEF ListInv, MachineInv
    <2>3. \A i \in 1 .. Len(stream) : i < first => stream'[i] = stream[i]
      BY <2>1, <2>2
    <2> QED
      BY <1>1, <1>5, <2>3, BuildShown DEF ListInv, MachineInv, DriverInv
  <1>6. CASE LeaveFull(L, r, q, b) \/ LeaveDone(L, r, q, b)
    <2>1. /\ state = "WRITE_SEC" /\ first' = first
          /\ stream' = ReplaceCur(setSectionLength(cur, finalSectionLength(b, sec_bytes)))
      BY <1>6 DEF LeaveFull, LeaveDone, WriteSecReturn
    <2>2. cur \in Sections(Nat) /\ sec_bytes \in Nat
      BY <2>1, CurFacts, Ui16 DEF ListInv, MachineInv, DriverInv, DriverTypes, PsiTypeOK
    <2>3. PICK d : d = finalSectionLength(b, sec_bytes)
      OBVIOUS
    <2>4. setSectionLength(cur, d) \in Sections(Nat)
      BY <2>2, <2>3, FinalLengthType, SetSectionLengthFields
    <2> QED
      BY <1>5, <2>1, <2>3, <2>4
  <1>7. CASE PutHead(r, q, b) /\ ~Abort
    <2>1. PICK s : s = writeSectionHeader(cur, b)
      OBVIOUS
    <2>2. /\ state = "WRITE_SEC" /\ r.op \in {"INIT", "WRITE_HEAD"}
          /\ first' = first /\ stream' = ReplaceCur(s) /\ lengthFits(cur, HEADER_LEN)
      BY <1>7, <2>1 DEF PutHead, WriteSecContinue
    <2>3. s \in Sections(Nat)
      BY <2>1, <2>2, HeadFields DEF ListInv
    <2> QED
      BY <1>5, <2>2, <2>3
  <1>8. CASE PutEntry(L, r, q) /\ ~Abort
    <2>1. state = "WRITE_SEC" /\ r.op = "WRITE" /\ DriverInv(Nat, b)
      BY <1>8 DEF PutEntry, ListInv, MachineInv
    <2>2. PICK x \in DOMAIN L : x = r.x /\ cur.data_length # 0
      BY <2>1 DEF ListInv, MachineInv, RunInv, HeadInv
    <2>3. PICK len \in Nat : len = L[x] /\ x \in Nat
      OBVIOUS
    <2>4. PICK s : s = put(cur, x, len)
      OBVIOUS
    <2>5. /\ first' = first /\ stream' = ReplaceCur(s) /\ lengthFits(cur, len)
      BY <1>8, <2>2, <2>3, <2>4 DEF PutEntry, WriteSecContinue
    <2>6. s \in Sections(Nat)
      BY ONLY <2>1, <2>2, <2>3, <2>4, <2>5, PutPosition
    <2> QED
      BY <1>5, <2>1, <2>5, <2>6
  <1>9. CASE EndTable
    BY <1>2, <1>9 DEF EndTable
  <1> QED
    BY <1>2, <1>3, <1>4, <1>6, <1>7, <1>8, <1>9 DEF ListStep

\* When it does, what shows is longer by the one greedy packing of the entries.
LEMMA ListShows ==
  ASSUME MaxSections <= 256,
         NEW b, NEW L \in Seq(Nat), NEW r, NEW q, ListInv(L, r, b),
         ListStep(L, r, q, b), state' = "IDLE"
  PROVE  /\ Len(Shown') > Len(Shown) /\ Len(Shown) <= Len(Shown')
         /\ SubSeq(Shown', 1, Len(Shown)) = Shown
         /\ \E secs : /\ secs = SubSeq(Shown', Len(Shown) + 1, Len(Shown'))
                      /\ GreedyPacking(L, max_section_length - (HEADER_LEN + CRC_LEN), secs)
                      /\ Numbered(secs)
  <1>1. EndTable /\ Adequate(L) /\ PackInv(L, Len(L)) /\ DriverInv(Nat, b)
    BY ListFails, EndTableHolds DEF ListInv, MachineInv
  <1>2. /\ Len(Shown') > Len(Shown)
        /\ SubSeq(Shown', 1, Len(Shown)) = Shown
        /\ \E secs : /\ secs = SubSeq(Shown', Len(Shown) + 1, Len(Shown'))
                     /\ GreedyPacking(L, max_section_length - (HEADER_LEN + CRC_LEN), secs)
                     /\ Numbered(secs)
    BY <1>1, EndTableShown
  <1>3. Len(Shown) \in Nat /\ Len(Shown') \in Nat
    <2>1. Len(stream) \in Nat /\ first \in 1 .. Len(stream) + 1
      BY <1>1 DEF DriverInv, DriverTypes, PsiTypeOK
    <2>2. Len(stream') \in Nat
      BY <1>1, EndTableFrame DEF DriverInv
    <2>3. Visible \in Nat /\ Visible' \in Nat
      BY <2>1, <2>2 DEF Visible
    <2> QED
      BY <2>3 DEF Shown
  <1>4. Len(Shown) <= Len(Shown')
    BY <1>2, <1>3
  <1> QED
    BY <1>2, <1>4
==============================================================================
