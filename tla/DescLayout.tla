------------------------------ MODULE DescLayout ------------------------------
(***************************************************************************)
(* The vocabulary the descriptor classes are written in.  Of each class    *)
(* the modules MpegDesc, PmtDesc, DvbDesc, NitDesc, EitDesc, LinkageDescs  *)
(* give two definitions:                                                   *)
(*   - the class as it is declared: the bytes its constructor counts, the  *)
(*     widths of its fields, the bytes each kind of loop entry counts;     *)
(*   - its buildSections: the parts it writes, in order, a word being the  *)
(*     or of fields shifted to their places.                               *)
(* Nothing but the model's properties relates the two.                     *)
(***************************************************************************)
EXTENDS Integers, Sequences, TLC

(* Declarations. *)

CHECKED == "checked"
UNCHECKED == "unchecked"
CLONED == "cloned"

\* What limits a string when only the room left in the descriptor does.
ANY == 16777216

\* A class: the argument l of Descriptor(tag, l), the bits of its fields.
Class(base, bits) ==
  [base |-> base, bits |-> bits,
   strings |-> << >>,    \* of each string of the constructor, its limit
   options |-> << >>,    \* optional parts the constructor counts: how much
   settable |-> << >>,   \* optional parts a setter adds: how much it counts
   entries |-> << >>,    \* kinds of loop entry
   data |-> ""]          \* whether a vector of bytes is CHECKED as it is set, or CLONED

\* A kind of entry: what it counts before its texts, and whether a text too long
\* is cut, or the entry refused.
Counts(len) == [len |-> len, cut |-> FALSE, inside |-> ""]
CountsAndCuts(len) == [Counts(len) EXCEPT !.cut = TRUE]
CountsIn(outer, len) == [Counts(len) EXCEPT !.inside = outer]

(* The parts buildSections writes. *)

At(field, shift) == [field |-> field, shift |-> shift, width |-> 0]
Ones(shift, width) == [field |-> "reserved", shift |-> shift, width |-> width]

Part(part) == [part |-> part, bytes |-> 0, fields |-> << >>, of |-> "", nth |-> 0,
               parts |-> << >>]

Word(bytes, fields) == [Part("word") EXCEPT !.bytes = bytes, !.fields = fields]
Whole(bytes, field) == Word(bytes, << At(field, 0) >>)

Code == Part("code")                                    \* a LanguageCode
Text(n) == [Part("text") EXCEPT !.nth = n]              \* the nth string
TextLen(n) == [Part("text_len") EXCEPT !.nth = n]       \* its length, a byte
Data == Part("data")                                    \* a vector of bytes
LoopOf(kind) == [Part("loop") EXCEPT !.of = kind]
LoopLen(kind) == [Part("loop_len") EXCEPT !.of = kind]  \* its bytes, in a byte
If(option, parts) == [Part("if") EXCEPT !.of = option, !.parts = parts]

\* A class with its buildSections; loops gives the parts of each kind of entry.
Writes(class, parts) == class @@ [parts |-> parts, loops |-> << >>]
WritesLoops(class, parts, loops) == class @@ [parts |-> parts, loops |-> loops]

(* The two classes other classes only name. *)

\* StringDataDesc: nothing but a string.
StringDataDesc == [Class(0, << >>) EXCEPT !.strings = << ANY >>]
StringDataDesc_build == Writes(StringDataDesc, << Text(1) >>)

\* MultilingualTextDesc: a loop of texts, each with its language.
MultilingualTextDesc(base_len, bits) ==
  [Class(base_len, bits) EXCEPT !.entries = "text" :> CountsAndCuts(4)]
buildLoopData == "text" :> << Code, TextLen(1), Text(1) >>
MultilingualTextDesc_build(class) == WritesLoops(class, << LoopOf("text") >>, buildLoopData)

\* ClonedDataDesc of util_desc.h / util_desc.cc: a tag, a length and the bytes.
ClonedDataDesc == Writes([Class(0, << >>) EXCEPT !.data = CLONED],
                         << Data >>)
==============================================================================
