------------------------------ MODULE Broadcast -------------------------------
(***************************************************************************)
(* From a table to transport packets: the single-section tables build      *)
(* sections into a stream, and the application packetizes the sections of  *)
(* the stream, in any order and on any pid.                                *)
(***************************************************************************)
EXTENDS SingleSection, Packetizer

vars == << tableVars, packetVars >>

Init == TableInit /\ PacketInit

Next ==
  \/ TableNext /\ UNCHANGED packetVars
  \/ /\ state = "IDLE"
     /\ \/ \E i \in DOMAIN stream, pid \in Pids : packetize(stream[i], i, pid)
        \/ \E count \in ContCounts : MpgPacketizer(count)
        \/ \E args \in FlagArgs : setFlags(args[1], args[2])
     /\ UNCHANGED tableVars

Spec == Init /\ [][Next]_vars

TypeOK == TableTypeOK /\ PacketTypeOK

\* The packets a receiver collects from the one at i on: those of its pid up to the
\* next that starts a section.
Packets(i) ==
  {j \in i .. Len(file) :
     /\ file[j].pid = file[i].pid
     /\ \A k \in i + 1 .. j : file[k].pid = file[i].pid => ~ file[k].start}

\* The bytes of the section, of data_length, that section_length says follow it.
\* The TOT's length leaves out its CRC.
stated(s) ==
  3 + (s.section_length % LEN_MASK) + (IF table = "TOT" THEN CRC_LEN ELSE 0)

\* A receiver that starts at any packet marked as a start and collects the packets
\* of that pid gets the section's bytes from the first to the last, in order, only
\* the last packet being padded, and section_length tells it where to stop (the TOT's
\* less the CRC it does not count; up to the 4096 bytes a length can say).  The TOT's
\* loop length, likewise, is what is left of the section.
Reassembled ==
  \A i \in DOMAIN file : file[i].start =>
    LET s == stream[file[i].section]
        lastOf == CHOOSE j \in Packets(i) : \A k \in Packets(i) : k <= j
    IN  /\ file[i].from = 0
        /\ \A j \in Packets(i) :
             /\ file[j].section = file[i].section
             /\ j # lastOf =>
                  /\ file[j + 1].from = file[j].from + file[j].bytes
                  /\ file[j].bytes = PKT_DATA_SIZE - (IF j = i THEN 1 ELSE 0)
        /\ file[lastOf].from + file[lastOf].bytes = s.data_length
        /\ s.data_length <= LEN_MASK =>
             /\ stated(s) = s.data_length
             /\ table = "TOT" => s.payload[2] = s.data_length - (3 + 7 + CRC_LEN)
=============================================================================
