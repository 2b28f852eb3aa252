----------------------------- MODULE Packetizer ------------------------------
(***************************************************************************)
(* MpgPacketizer of packetizer.h / packetizer.cc: cuts a section into      *)
(* transport packets and appends them to its file.  It keeps one           *)
(* continuity counter, for whatever pids it is given.                      *)
(*                                                                         *)
(* A packet is its header fields and the bytes of the section it carries:  *)
(* which section, from which byte, how many; the rest is padding.          *)
(***************************************************************************)
EXTENDS Section

CONSTANTS
  Pids,         \* pids the application asks for
  ContCounts,   \* counters it starts a packetizer with
  FlagArgs,     \* arguments of setFlags, two BOOLEANs
  MaxPackets    \* bound: packets in the file before the last section

ASSUME PacketizerArgs ==
  /\ Pids \subseteq ui16 /\ ContCounts \subseteq ui8
  /\ FlagArgs \subseteq BOOLEAN \X BOOLEAN /\ MaxPackets \in Nat

VARIABLES
  continuity_count,
  flags,        \* transport_error_indicator and transport_priority
  file          \* the packets in packetfile

packetVars == << continuity_count, flags, file >>

PKT_DATA_SIZE == 184

PacketInit ==
  /\ continuity_count \in ContCounts
  /\ flags = [err |-> FALSE, pri |-> FALSE]
  /\ file = << >>

\* The constructor truncates the file.  The counter is the application's: to go on
\* with a pid, what the last packetize returned.
MpgPacketizer(cont_count) ==
  /\ file # << >>
  /\ continuity_count' = cont_count
  /\ flags' = [err |-> FALSE, pri |-> FALSE]
  /\ file' = << >>

setFlags(transport_err_ind, transport_pri) ==
  /\ flags' = [err |-> transport_err_ind, pri |-> transport_pri]
  /\ UNCHANGED << continuity_count, file >>

\* The packets of a section of total bytes, left of which are not yet sent.  Byte 0
\* of the first one is the pointer; it takes no byte of the section.
cutOverPointer(total) ==    \* mutant: a byte of the section goes where the pointer is
  LET cut[left \in 0 .. total] ==
        IF left = 0 THEN << >>
        ELSE LET take == IF left < PKT_DATA_SIZE THEN left ELSE PKT_DATA_SIZE
                 lost == IF left = total THEN 1 ELSE 0
             IN  << [start |-> left = total, from |-> total - left + lost,
                     bytes |-> take - lost] >> \o cut[left - take]
  IN  cut[total]
cutSection(total) ==
  LET cut[left \in 0 .. total] ==
        IF left = 0 THEN << >>
        ELSE LET room == PKT_DATA_SIZE - (IF left = total THEN 1 ELSE 0)
                 take == IF left < room THEN left ELSE room
             IN  << [start |-> left = total, from |-> total - left, bytes |-> take] >>
                   \o cut[left - take]
  IN  cut[total]

\* The 13 bits of the pid, the 4 of the counter; adaptation_field_control is 1, so
\* the counter moves.
nextCountNever(count, n) == count    \* mutant: counts sections, not packets
nextCountWide(count, n) == count + n    \* mutant
nextCount(count, n) == (count + n) % 256
getHeader(cut, pid, count, index) ==
  [start |-> cut.start, pid |-> pid % 8192, count |-> count % 16, flags |-> flags,
   section |-> index, from |-> cut.from, bytes |-> cut.bytes]

packetize(section, index, pid) ==
  LET cuts == cutSection(section.data_length) IN
  /\ Len(file) < MaxPackets
  /\ file' = file \o [k \in DOMAIN cuts |->
                      getHeader(cuts[k], pid, nextCount(continuity_count, k - 1), index)]
  /\ continuity_count' = nextCount(continuity_count, Len(cuts))
  /\ UNCHANGED flags

-----------------------------------------------------------------------------
PacketTypeOK ==
  /\ continuity_count \in ui8
  /\ \A i \in DOMAIN file :
       /\ file[i].pid \in 0 .. 8191 /\ file[i].count \in 0 .. 15
       /\ file[i].bytes \in 1 .. PKT_DATA_SIZE - (IF file[i].start THEN 1 ELSE 0)

\* The packets of a file are counted without a gap, over sections and over the end
\* of the ui8, and a packetizer made with what the last call returned goes on: a
\* receiver of a file with one pid finds none lost.  With several pids it would.
CountersRun ==
  /\ \A i \in 1 .. Len(file) - 1 : file[i + 1].count = (file[i].count + 1) % 16
  /\ file # << >> => continuity_count % 16 = (file[Len(file)].count + 1) % 16
=============================================================================
