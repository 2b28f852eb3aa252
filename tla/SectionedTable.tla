---------------------------- MODULE SectionedTable ----------------------------
(***************************************************************************)
(* What a sectioned table promises its application, with the machinery of  *)
(* buildSections (driver states, pending entry, placeholders rewritten     *)
(* later) hidden: a build appends to the stream, in one step, the greedy   *)
(* packing of the table's entries, numbered 0 .. last; or the process      *)
(* dies, because some entry cannot fit in a section.  Nothing else ever    *)
(* reaches the stream, except that the application may start an empty one. *)
(***************************************************************************)
EXTENDS Packing

CONSTANT Overhead      \* bytes of a section that are not entries

VARIABLES
  entries,             \* the lengths of the entries, in table order
  max_section_length,
  out,                 \* sections: [payload, section_number, last_section_number]
  failed

vars == << entries, max_section_length, out, failed >>

Room == max_section_length - Overhead

TooSmall == Room < 0 \/ \E i \in DOMAIN entries : entries[i] > Room

\* The sequence t begins with s.
Continues(t, s) == Len(s) <= Len(t) /\ SubSeq(t, 1, Len(s)) = s

Init == entries = << >> /\ out = << >> /\ failed = FALSE

\* The application edits the table or turns to a new, empty stream.
Edit ==
  /\ ~failed
  /\ out' \in {out, << >>}
  /\ Continues(entries', entries)
  /\ UNCHANGED failed

Build ==
  /\ ~failed /\ ~TooSmall
  /\ Len(out') > Len(out) /\ Continues(out', out)
  /\ LET secs == SubSeq(out', Len(out) + 1, Len(out')) IN
       GreedyPacking(entries, Room, secs) /\ Numbered(secs)
  /\ UNCHANGED << entries, max_section_length, failed >>

Die ==
  /\ ~failed /\ TooSmall
  /\ failed' = TRUE
  /\ UNCHANGED << entries, max_section_length, out >>

Next == Edit \/ Build \/ Die

Spec == Init /\ [][Next]_vars
==============================================================================
