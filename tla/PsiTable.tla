------------------------------ MODULE PsiTable -------------------------------
(***************************************************************************)
(* STable and PSITable of table.h / table.cc: the attributes every         *)
(* sectioned table has and the driver PSITable::buildSections, which       *)
(* allocates a section, lets the derived class's writeSection fill it, and *)
(* stamps all the sections of the build at the end.  The derived tables    *)
(* (Cat, Pat, ...) extend this module and add writeSection.                *)
(*                                                                         *)
(* The program is single threaded.  Between builds (state "IDLE") the      *)
(* application calls whatever it likes; during a build only the build      *)
(* moves.  A failed assert ends the process: state "ABORTED".              *)
(***************************************************************************)
EXTENDS Section

CONSTANTS
  MaxSectionLens,  \* arguments of setMaxSectionLen
  ReservedLens,    \* arguments of setSectionReservedLen
  VersionArgs,     \* arguments of setVersionNumber; also bounds the versions
  CniArgs,         \* arguments of setCurrentNextIndicator
  MaxBuilds,       \* bound: builds per TStream
  MaxSections      \* bound: sections per TStream; a build that needs more hangs

ASSUME PsiTableArgs ==
  /\ MaxSectionLens \subseteq ui16
  /\ ReservedLens \subseteq ui8
  /\ VersionArgs \subseteq ui8
  /\ CniArgs \subseteq BOOLEAN
  /\ MaxBuilds \in Nat \ {0} /\ MaxSections \in Nat

VARIABLES
  max_section_length, length, version_number, current_next_indicator,
  stream,     \* TStream::section_list
  builds,     \* how many builds appended to the stream
  state,      \* the driver's State_t, or IDLE / ABORTED outside of it
  cur_sec, sec_bytes,
  first       \* table_sections is stream[first], ..., stream[Len(stream)]

attributes == << max_section_length, version_number, current_next_indicator >>
driver == << stream, builds, state, cur_sec, sec_bytes, first >>
psiVars == << attributes, length, driver >>

MAX_TABLE_LEN == 65536
LEN_MASK == 4096     \* x % LEN_MASK keeps the 12 bits of the code's 0x0fff

STLengthFits(l) == length + l < MAX_TABLE_LEN

\* The data bytes of a section of size m, less the CRC: ui16 arithmetic.
maxDataLenNoCrc(m) == (m - 3) % 65536    \* mutant: STable's, not overridden
maxDataLen(m) == (m - 3 - CRC_LEN) % 65536
getMaxDataLen == maxDataLen(max_section_length)

\* section_syntax_indicator (set in every PSI table), private_bit, reserved.
buildLengthData(private_bit, len) ==
  32768 + 16384 * private_bit + 12288 + (len % LEN_MASK)

\* The driver's last word on section_length: the CRC comes later, hence + 4.
finalSectionLengthNoCrc(private_bit, bytes) == buildLengthData(private_bit, bytes) \* mutant
finalSectionLength(private_bit, bytes) ==
  (buildLengthData(private_bit, bytes) + 4) % 65536

\* version_number is a 5-bit field.
fiveBitsUnmasked(v) == v    \* mutant
fiveBits(v) == v % 32

\* cur_sec++ on a ui8.
nextSecNever(n) == n        \* mutant
nextSec(n) == (n + 1) % 256

VersionByte ==
  192 + 2 * version_number + (IF current_next_indicator THEN 1 ELSE 0)

PsiInit(base_len, max_len) ==
  /\ max_section_length = max_len
  /\ length = base_len
  /\ version_number \in {fiveBits(v) : v \in VersionArgs}
  /\ current_next_indicator \in CniArgs
  /\ stream = << >> /\ builds = 0
  /\ state = "IDLE" /\ cur_sec = 0 /\ sec_bytes = 0 /\ first = 1

\* Descriptor::length(): the tag, the length byte and up to 255 bytes.
DescLength == 2 .. 257

-----------------------------------------------------------------------------
(* The application's calls between builds.                                 *)

setMaxSectionLen(l) ==
  /\ state = "IDLE"
  /\ max_section_length' = l
  /\ UNCHANGED << length, version_number, current_next_indicator, driver >>

setSectionReservedLen(l) ==
  /\ state = "IDLE"
  /\ (max_section_length - l) % 65536 \in MaxSectionLens   \* instance bound
  /\ max_section_length' = (max_section_length - l) % 65536
  /\ UNCHANGED << length, version_number, current_next_indicator, driver >>

setVersionNumber(v) ==
  /\ state = "IDLE"
  /\ version_number' = fiveBits(v)
  /\ UNCHANGED << max_section_length, current_next_indicator, length, driver >>

incVersionNumber ==
  /\ state = "IDLE"
  /\ fiveBits(version_number + 1) \in {fiveBits(v) : v \in VersionArgs} \* bound
  /\ version_number' = fiveBits(version_number + 1)
  /\ UNCHANGED << max_section_length, current_next_indicator, length, driver >>

setCurrentNextIndicator(b) ==
  /\ state = "IDLE"
  /\ current_next_indicator' = b
  /\ UNCHANGED << max_section_length, version_number, length, driver >>

\* incLength guards every add; a refused add changes nothing.
incLength(l) ==
  /\ STLengthFits(l)
  /\ length' = length + l

\* The application goes on with a new, empty TStream.
NewTStream ==
  /\ state = "IDLE" /\ builds > 0
  /\ stream' = << >> /\ builds' = 0 /\ first' = 1
  /\ UNCHANGED << attributes, length, state, cur_sec, sec_bytes >>

Configure ==
  \/ \E l \in MaxSectionLens : setMaxSectionLen(l)
  \/ \E l \in ReservedLens : setSectionReservedLen(l)
  \/ \E v \in VersionArgs : setVersionNumber(v)
  \/ incVersionNumber
  \/ \E b \in CniArgs : setCurrentNextIndicator(b)
  \/ NewTStream

-----------------------------------------------------------------------------
(* PSITable::buildSections.                                                *)

cur == stream[Len(stream)]      \* *s, the section allocated last

ReplaceCur(s) == [stream EXCEPT ![Len(stream)] = s]

buildSections ==
  /\ state = "IDLE" /\ builds < MaxBuilds
  /\ builds' = builds + 1
  /\ state' = "MALLOC_SEC"
  /\ cur_sec' = 0 /\ sec_bytes' = 0
  /\ first' = Len(stream) + 1
  /\ UNCHANGED << attributes, length, stream >>

MallocSec ==
  /\ state = "MALLOC_SEC" /\ Len(stream) < MaxSections
  /\ stream' = Append(stream, NewSection(max_section_length))
  /\ state' = "WRITE_SEC"
  /\ UNCHANGED << attributes, length, builds, cur_sec, sec_bytes, first >>

\* writeSection returned done, having left the section at s and the byte
\* count at bytes: the rest of the WRITE_SEC case.
WriteSecReturn(done, s, bytes, private_bit) ==
  /\ state' = IF done THEN "END_TABLE" ELSE "MALLOC_SEC"
  /\ cur_sec' = IF done THEN cur_sec ELSE nextSec(cur_sec)
  /\ sec_bytes' = bytes
  /\ stream' = ReplaceCur(setSectionLength(s, finalSectionLength(private_bit, bytes)))
  /\ UNCHANGED << builds, first >>

\* writeSection goes on within the section.
WriteSecContinue(s, bytes) ==
  /\ stream' = ReplaceCur(s)
  /\ sec_bytes' = bytes
  /\ UNCHANGED << builds, state, cur_sec, first >>

Abort ==
  /\ state' = "ABORTED"
  /\ UNCHANGED << stream, builds, cur_sec, sec_bytes, first >>

\* writeSectionHeader and the two section number bytes after it: the header
\* carries the table's whole length until the driver overwrites it.
writeSectionHeader(s, private_bit) ==
  [s EXCEPT !.section_length = buildLengthData(private_bit, length),
            !.version = VersionByte,
            !.section_number = cur_sec,
            !.last_section_number = 0,
            !.data_length = @ + HEADER_LEN]

stampCrcFirst(s, last) == setLastSectionNumber(calcCrc(s), last)   \* mutant
stamp(s, last) == calcCrc(setLastSectionNumber(s, last))

EndTable ==
  /\ state = "END_TABLE"
  /\ IF \A i \in first .. Len(stream) : lengthFits(stream[i], CRC_LEN)
     THEN /\ stream' = [i \in 1 .. Len(stream) |->
                          IF i < first THEN stream[i]
                          ELSE stamp(stream[i], cur_sec)]
          /\ state' = "IDLE"
          /\ UNCHANGED << builds, cur_sec, sec_bytes, first >>
     ELSE Abort
  /\ UNCHANGED << attributes, length >>

-----------------------------------------------------------------------------
(* Properties of every table the driver builds.                            *)

PsiTypeOK ==
  /\ max_section_length \in ui16 /\ length \in ui16
  /\ version_number \in ui5 /\ current_next_indicator \in BOOLEAN
  /\ builds \in 0 .. MaxBuilds
  /\ state \in {"IDLE", "MALLOC_SEC", "WRITE_SEC", "END_TABLE", "ABORTED"}
  /\ cur_sec \in ui8 /\ sec_bytes \in ui16
  /\ first \in 1 .. Len(stream) + 1

Finished(i) == stream[i].crc # {}

\* table_sections of the build in progress, or of the last one.
Table == first .. Len(stream)

\* The stream as its reader sees it: the sections of a build when it is over.
Visible == IF state = "IDLE" THEN Len(stream) ELSE first - 1
ShownOf(s) == [payload |-> s.payload, section_number |-> s.section_number,
               last_section_number |-> s.last_section_number]
Shown == [i \in 1 .. Visible |-> ShownOf(stream[i])]

\* What section i holds, for the tables whose payload is positions of a list.
In(i) == {stream[i].payload[k] : k \in DOMAIN stream[i].payload}

\* The positions written run 1, 2, ... through the sections of the build: none
\* is skipped, repeated or moved by the splitting, whatever was pending when a
\* section filled up; n of them once the table says it is done.
InOrderUpTo(n) ==
  /\ \A i, j \in Table : i < j => \A a \in In(i), b \in In(j) : a < b
  /\ \A i \in Table : \A k, l \in DOMAIN stream[i].payload :
       k < l => stream[i].payload[k] < stream[i].payload[l]
  /\ \E m \in 0 .. n : /\ UNION {In(i) : i \in Table} = 1 .. m
                       /\ state = "END_TABLE" => m = n

\* A receiver that adds 3 to the 12-bit section_length finds exactly the end
\* of the section, CRC included, and the flag bits above it intact: the driver
\* adds 4 for a CRC it has not written yet, after masking.  Past 4096 bytes a
\* section cannot state its length.
SectionLengthCoversSection ==
  \A i \in DOMAIN stream : Finished(i) /\ stream[i].size <= 4096 =>
    /\ stream[i].section_length % LEN_MASK = stream[i].data_length - 3
    /\ stream[i].section_length \div LEN_MASK \in {11, 15}

\* The CRC of a section in the stream is that of its present bytes: nothing
\* (no later build, no stamping of the numbers) touches a section after its
\* calcCrc.
CrcCurrent ==
  \A i \in DOMAIN stream : stream[i].crc \subseteq {Image(stream[i])}

\* The sections of a build are numbered from 0 and each carries the number of
\* the last: what a decoder needs to know that it has them all.
SectionsNumbered ==
  state = "IDLE" =>
    \A i \in Table : /\ stream[i].section_number = i - first
                        /\ stream[i].last_section_number = Len(stream) - first
==============================================================================
