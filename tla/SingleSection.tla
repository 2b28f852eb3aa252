---------------------------- MODULE SingleSection -----------------------------
(***************************************************************************)
(* The tables of one section: TDT, TOT, RST and Stuffing of tdt, tot and   *)
(* other_tables, on top of the STable of table.h / table.cc.  They accept  *)
(* up to 64 Kbytes like any table, and are then written into one section   *)
(* of max_section_length bytes, whatever they hold.                        *)
(*                                                                         *)
(* A descriptor is its length, a transport stream of the RST the 9 bytes   *)
(* it takes, stuffing data the number of its bytes, UTC the 5 it takes.    *)
(***************************************************************************)
EXTENDS Section, SequencesExt

CONSTANTS
  DescLens,        \* lengths of the descriptors added to the TOT
  DataLens,        \* lengths of the strings of the Stuffing table
  MaxSectionLens,  \* arguments of setMaxSectionLen
  ReservedLens,    \* arguments of setSectionReservedLen
  MaxEntries,      \* bound: entries of a list
  MaxStream        \* bound: sections of the stream

ASSUME SingleSectionArgs ==
  /\ DescLens \subseteq 2 .. 257 /\ DataLens \subseteq Nat
  /\ MaxSectionLens \subseteq ui16 /\ ReservedLens \subseteq ui8
  /\ MaxEntries \in Nat /\ MaxStream \in Nat

VARIABLES
  table,                     \* its class
  section_syntax_indicator,
  max_section_length, length,
  list,                      \* the bytes of each entry
  stream,                    \* TStream::section_list
  state                      \* IDLE, or ABORTED by a failed assert

attributes == << table, section_syntax_indicator >>
tableVars == << attributes, max_section_length, length, list, stream, state >>

MAX_TABLE_LEN == 65536
LEN_MASK == 4096             \* x % LEN_MASK keeps the 12 bits of 0x0fff
XPORT_STREAM_LEN == 9
CAPACITY == 4093

STLengthFits(l) == length + l < MAX_TABLE_LEN

\* DescList::d_length.
loop_length == FoldSeq(LAMBDA x, sum : x + sum, 0, list) % 65536

\* Stuffing keeps the first CAPACITY bytes of its data.
substrAll(d) == d    \* mutant
substr(d) == IF d > CAPACITY THEN CAPACITY ELSE d

\* The constructors: base length, section length, section_syntax_indicator.
New(class, base_len, max_len, ssi, l) ==
  /\ table = class /\ section_syntax_indicator = ssi
  /\ max_section_length = max_len /\ length = base_len + l
  /\ list = IF class = "Stuffing" THEN << l >> ELSE << >>

TableInit ==
  /\ \/ New("TDT", 5, 8, FALSE, 0)
     \/ New("TOT", 7, 1024, FALSE, 0)
     \/ New("RST", 0, 1024, FALSE, 0)
     \/ \E d \in DataLens, ssi \in BOOLEAN :
          /\ New("Stuffing", 0, 4096, ssi, substr(d))
  /\ stream = << >> /\ state = "IDLE"

setMaxSectionLen(l) ==
  /\ state = "IDLE"
  /\ max_section_length' = l
  /\ UNCHANGED << attributes, length, list, stream, state >>

setSectionReservedLen(l) ==
  /\ state = "IDLE"
  /\ (max_section_length - l) % 65536 \in MaxSectionLens   \* instance bound
  /\ max_section_length' = (max_section_length - l) % 65536
  /\ UNCHANGED << attributes, length, list, stream, state >>

\* TOT::addDesc and RST::addXportStream: a refused entry changes nothing.
add(class, l) ==
  /\ state = "IDLE" /\ table = class
  /\ Len(list) < MaxEntries
  /\ STLengthFits(l)
  /\ length' = length + l
  /\ list' = Append(list, l)
  /\ UNCHANGED << attributes, max_section_length, stream, state >>

addDesc(l) == add("TOT", l)
addXportStream == add("RST", XPORT_STREAM_LEN)

\* STable::buildLengthData; private_bit is 1 in these four.
buildLengthData(len) ==
  (IF section_syntax_indicator THEN 32768 ELSE 0) + 16384 + 12288 + (len % LEN_MASK)

\* STable::buildSections(Section&): table_id and the length word.
Header ==
  [NewSection(max_section_length) EXCEPT !.section_length = buildLengthData(length),
                                         !.data_length = 3]

\* UTC, of the TDT and the TOT: mjd and three BCD bytes.
putUtc(s) == put(s, "utc", 5)

\* The reserved bits are those LEN_MASK leaves.
loopLenOfAll == length % LEN_MASK    \* mutant: counts what precedes the loop too
loopLen == loop_length % LEN_MASK
putList(s) == FoldLeft(LAMBDA sec, l : put(sec, l, l), s, list)

Written ==
  CASE table = "TDT" -> putUtc(Header)
    [] table = "TOT" -> calcCrc(putList(put(putUtc(Header), loopLen, 2)))
    [] OTHER -> putList(Header)

\* buildSections: writes one after the other, each with its assert; the last that
\* fails leaves no room for itself, so the total tells whether one does.
buildSections ==
  /\ state = "IDLE" /\ Len(stream) < MaxStream
  /\ IF lengthFits(Written, 0)
     THEN stream' = Append(stream, Written) /\ UNCHANGED state
     ELSE state' = "ABORTED" /\ UNCHANGED stream
  /\ UNCHANGED << attributes, max_section_length, length, list >>

TableNext ==
  \/ \E l \in MaxSectionLens : setMaxSectionLen(l)
  \/ \E l \in ReservedLens : setSectionReservedLen(l)
  \/ \E l \in DescLens : addDesc(l)
  \/ addXportStream
  \/ buildSections

-----------------------------------------------------------------------------
TableTypeOK ==
  /\ table \in {"TDT", "TOT", "RST", "Stuffing"}
  /\ section_syntax_indicator \in BOOLEAN
  /\ max_section_length \in ui16 /\ length \in ui16
  /\ list \in Seq(Nat)
  /\ state \in {"IDLE", "ABORTED"}
  /\ \A i \in DOMAIN stream : lengthFits(stream[i], 0)

\* A build fails exactly when the accepted data, its header and CRC exceed the
\* section: the count of the adds is the count of the writes.  Stuffing never fails
\* with the section length it has by default.
BuildFailsIffTooSmall ==
  LET needed == 3 + length + (IF table = "TOT" THEN CRC_LEN ELSE 0) IN
  /\ state = "ABORTED" => needed > max_section_length
                          /\ (table = "Stuffing" => max_section_length # 4096)
  /\ state = "IDLE" => (needed <= max_section_length <=> lengthFits(Written, 0))
=============================================================================
