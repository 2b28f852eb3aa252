------------------------------- MODULE Packing --------------------------------
(***************************************************************************)
(* What it means to pack the entries of a table into sections: entries is  *)
(* the sequence of their lengths, a payload is a sequence of positions in  *)
(* it, secs a sequence of sections that have a payload and two numbers.    *)
(***************************************************************************)
EXTENDS Integers, Sequences

Bytes(entries, payload) ==
  LET sum[n \in 0 .. Len(payload)] ==
        IF n = 0 THEN 0 ELSE sum[n - 1] + entries[payload[n]]
  IN  sum[Len(payload)]

\* The last position written before section i.
Before(secs, i) ==
  IF i = 1 THEN 0 ELSE secs[i - 1].payload[Len(secs[i - 1].payload)]

\* Every entry once and in order; no section over its room and, but for the one
\* section of a table without entries, none empty; a new section is started only
\* by an entry that the one before had no room for.
GreedyPacking(entries, room, secs) ==
  /\ secs # << >>
  /\ \A i \in DOMAIN secs :
       /\ secs[i].payload = [k \in 1 .. Len(secs[i].payload) |-> Before(secs, i) + k]
       /\ Len(secs) > 1 => secs[i].payload # << >>
       /\ Bytes(entries, secs[i].payload) <= room
  /\ Before(secs, Len(secs)) + Len(secs[Len(secs)].payload) = Len(entries)
  /\ \A i \in DOMAIN secs \ {1} :
       Bytes(entries, secs[i - 1].payload) + entries[Before(secs, i) + 1] > room

Numbered(secs) ==
  \A i \in DOMAIN secs : /\ secs[i].section_number = i - 1
                         /\ secs[i].last_section_number = Len(secs) - 1
==============================================================================
