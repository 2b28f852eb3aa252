------------------------------- MODULE Section -------------------------------
(***************************************************************************)
(* The section buffer of tstream.h / tstream.cc, as operators on a record; *)
(* the tables own the stream of sections and apply them.                   *)
(*                                                                         *)
(* A section is a byte buffer of a fixed size, written front to back.  The *)
(* header fields the tables go back to (section_length, section_number,    *)
(* last_section_number) are kept by name; what follows the header is kept  *)
(* in "payload" as the sequence of things written, in write order, and     *)
(* only their byte counts reach data_length.  The CRC is modelled by the   *)
(* image of the bytes it was computed over; "crc" is empty until then.     *)
(***************************************************************************)
EXTENDS Integers, Sequences

ui5 == 0 .. 31
ui8 == 0 .. 255
UI16_MAX == 65535
ui16 == 0 .. UI16_MAX

CRC_LEN == 4      \* Section::CRC_LEN
HEADER_LEN == 8   \* table_id 1, length 2, extension 2, version 1, numbers 1 + 1

\* The constructor fills the buffer with 0xff: a field nobody wrote reads so.
NewSection(size) ==
  [size |-> size, data_length |-> 0,
   section_length |-> 65535, version |-> 255, section_number |-> 255,
   last_section_number |-> 255, payload |-> << >>, crc |-> {}]

\* Every writer that moves the position asserts this first.
lengthFits(s, len) == s.data_length + len <= s.size

\* setBits / set08Bits / set16Bits and their kin: append x, of len bytes.
put(s, x, len) ==
  [s EXCEPT !.payload = Append(@, x), !.data_length = @ + len]

\* set16Bits(1, d): overwrites section_length, if the index is in the buffer.
setSectionLength(s, d) ==
  IF 2 > s.size THEN s ELSE [s EXCEPT !.section_length = d]

\* set08Bits(7, d): overwrites last_section_number, if the index is in it.
setLastSectionNumber(s, d) ==
  IF 7 > s.size THEN s ELSE [s EXCEPT !.last_section_number = d]

\* What the CRC covers: every byte written so far.
Image(s) ==
  [section_length |-> s.section_length, version |-> s.version,
   section_number |-> s.section_number,
   last_section_number |-> s.last_section_number, payload |-> s.payload]

\* calcCrc appends the CRC of the bytes before it.
calcCrc(s) == [s EXCEPT !.crc = {Image(s)}, !.data_length = @ + CRC_LEN]

\* The sections whose payload is made of elements of P.
Images(P) ==
  [section_length : ui16, version : ui8, section_number : ui8,
   last_section_number : ui8, payload : Seq(P)]

Sections(P) ==
  [size : ui16, data_length : ui16,
   section_length : ui16, version : ui8, section_number : ui8,
   last_section_number : ui8, payload : Seq(P), crc : SUBSET Images(P)]
==============================================================================
