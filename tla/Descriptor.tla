------------------------------ MODULE Descriptor -------------------------------
(***************************************************************************)
(* Descriptor of descriptor.h / descriptor.cc: one descriptor object, of   *)
(* any of the classes of DescLayout's vocabulary, from its constructor to  *)
(* the last call that adds to it.  A descriptor counts its bytes twice, in *)
(* total_length as data is accepted and again, implicitly, when            *)
(* buildSections writes it: a section is laid out by the first count and   *)
(* filled by the second.                                                   *)
(*                                                                         *)
(* Strings and vectors are their lengths.  A refused call changes nothing  *)
(* and is a stutter.                                                       *)
(***************************************************************************)
EXTENDS DescLayout, FiniteSets
LOCAL INSTANCE FiniteSetsExt

CONSTANTS
  Classes,      \* the classes, by name
  StringSizes,  \* lengths of the strings and vectors passed in
  CodeSizes,    \* lengths of the language codes: a short one is kept as it is
  MaxEntries    \* bound: entries of a descriptor whose entries vary in size

NONE == ""
MAX_LEN == 255
CAPACITY == 257

OptionsLength(c, on) == MapThenSumSet(LAMBDA o : c.options[o], on)

\* The texts of an entry.
TextsOf(c, kind) == Cardinality({p \in DOMAIN c.loops[kind] : c.loops[kind][p].part = "text"})

\* What the constructors pass is a constant of the class and leaves room.
ASSUME DescriptorArgs ==
  /\ StringSizes \subseteq Nat /\ MaxEntries \in Nat /\ CodeSizes \subseteq 0 .. 3
  /\ \A n \in DOMAIN Classes :
       LET c == Classes[n] IN
       /\ n # NONE /\ c.base \in Nat /\ c.strings \in Seq(Nat)
       /\ DOMAIN c.options \subseteq STRING
       /\ \A on \in SUBSET DOMAIN c.options :
            /\ OptionsLength(c, on) \in Nat
            /\ 2 + c.base + OptionsLength(c, on) < CAPACITY
       /\ DOMAIN c.entries \subseteq STRING
       /\ \A k \in DOMAIN c.entries : c.entries[k].len \in Nat /\ TextsOf(c, k) \in 0 .. 2
       /\ DOMAIN c.settable \subseteq STRING
       /\ \A o \in DOMAIN c.settable : c.settable[o] \in Nat

VARIABLES
  name,          \* NONE until it is constructed
  class,         \* Classes[name]
  total_length,
  code,          \* the length of its language codes
  strs,          \* what is kept of the strings of its constructor
  entries,       \* its loops: the kind, the texts, the entry it is inside of
  data,          \* the vector of bytes, if the class has one
  on,            \* the optional parts present
  proper         \* history: every size given was the one checked and counted

vars == << name, class, total_length, code, strs, entries, data, on, proper >>

Constructed == name # NONE /\ Len(strs) = Len(class.strings)

\* One byte below the capacity, that a string cut to the room left may use.
lengthFits(total, len) == total + len < CAPACITY

\* incLength(str): str.length() is put in a ui16.
fitsWhole(total, str) == lengthFits(total, str % 65536)
keptUncut(total, str) == str    \* mutant
kept(total, str) == IF fitsWhole(total, str) THEN str ELSE CAPACITY - total
countedUncut(total, str) == total + (str % 65536)    \* mutant
counted(total, str) == IF fitsWhole(total, str) THEN total + (str % 65536) ELSE CAPACITY

Init ==
  /\ name = NONE /\ class = << >> /\ total_length = 2 /\ code \in CodeSizes
  /\ strs = << >> /\ entries = << >> /\ data = 0 /\ on = {} /\ proper = TRUE

\* The constructor up to its strings: they are taken one at a time after it.
Construct(n, options) ==
  /\ name = NONE /\ Classes[n].data # CLONED
  /\ name' = n /\ class' = Classes[n]
  /\ on' = options
  /\ total_length' = 2 + Classes[n].base + OptionsLength(Classes[n], options)
  /\ UNCHANGED << code, strs, entries, data, proper >>

\* ClonedDataDesc takes a whole descriptor, and throws unless its size is the one
\* its length byte gives.
Clone(n, size, length_byte) ==
  /\ name = NONE /\ Classes[n].data = CLONED
  /\ size <= MAX_LEN /\ size = 2 + length_byte
  /\ name' = n /\ class' = Classes[n]
  /\ total_length' = 2 + length_byte
  /\ data' = size - 2
  /\ UNCHANGED << code, strs, entries, on, proper >>

\* A string of the constructor, cut to what is left.
TakeString(str) ==
  /\ name # NONE /\ ~ Constructed
  /\ class.strings[Len(strs) + 1] = ANY
  /\ strs' = Append(strs, kept(total_length, str))
  /\ total_length' = counted(total_length, str)
  /\ proper' = (proper /\ str < 65536)
  /\ UNCHANGED << name, class, code, entries, data, on >>

\* set_code of TelephoneDesc: a string cut to its own limit.
TakeCode(str) ==
  /\ name # NONE /\ ~ Constructed
  /\ LET limit == class.strings[Len(strs) + 1]
         len == IF str < limit THEN str ELSE limit IN
     /\ limit # ANY
     /\ strs' = Append(strs, len)
     /\ total_length' = IF lengthFits(total_length, len) THEN total_length + len
                        ELSE total_length
     /\ proper' = (proper /\ lengthFits(total_length, len))
  /\ UNCHANGED << name, class, code, entries, data, on >>

\* What an entry counts: its length, in a ui8 whatever its texts add up to.
textsLength(sizes) ==
  CASE Len(sizes) = 0 -> 0
    [] Len(sizes) = 1 -> sizes[1]
    [] Len(sizes) = 2 -> sizes[1] + sizes[2]
entryAsksNone(kind, sizes) == class.entries[kind].len    \* mutant
entryAsks(kind, sizes) == (class.entries[kind].len + textsLength(sizes)) % 256

\* Loops whose entries are all of one size are filled to the capacity.
EntriesBound ==
  IF Cardinality(DOMAIN class.loops) = 1 /\ \A kind \in DOMAIN class.loops : TextsOf(class, kind) = 0
  THEN CAPACITY ELSE MaxEntries

\* add<Entry> of the classes that refuse an entry too long.
AddEntry(kind, sizes, outer) ==
  /\ Constructed /\ ~ class.entries[kind].cut
  /\ Len(entries) < EntriesBound
  /\ IF class.entries[kind].inside = "" THEN outer = 0
     ELSE /\ outer \in DOMAIN entries
          /\ entries[outer].kind = class.entries[kind].inside
  /\ LET asked == entryAsks(kind, sizes) IN
     /\ lengthFits(total_length, asked)
     /\ total_length' = total_length + asked
     /\ proper' = (proper /\ class.entries[kind].len + textsLength(sizes) < 256)
  /\ entries' = Append(entries, [kind |-> kind, sizes |-> sizes, outer |-> outer])
  /\ UNCHANGED << name, class, code, strs, data, on >>

\* addText of MultilingualTextDesc: once the language fits, the text is cut.
AddText(kind, str) ==
  /\ Constructed /\ class.entries[kind].cut
  /\ Len(entries) < EntriesBound
  /\ LET len == class.entries[kind].len IN
     /\ lengthFits(total_length, len)
     /\ entries' = Append(entries, [kind |-> kind, outer |-> 0,
                                    sizes |-> << kept(total_length + len, str) >>])
     /\ total_length' = counted(total_length + len, str)
  /\ proper' = (proper /\ str < 65536)
  /\ UNCHANGED << name, class, code, strs, data, on >>

\* setPrivateData, setSelectorBytes: incLength(ui8) of the vector's size.
\* setAdditionalInfo of _AC3Desc keeps the vector whatever incLength says.
SetData(size) ==
  /\ Constructed /\ class.data \in {CHECKED, UNCHECKED}
  /\ LET fits == lengthFits(total_length, size % 256) IN
     /\ fits \/ class.data = UNCHECKED
     /\ total_length' = IF fits THEN total_length + (size % 256) ELSE total_length
     /\ proper' = (proper /\ fits /\ size < 256 /\ data = 0)
  /\ data' = size
  /\ UNCHANGED << name, class, code, strs, entries, on >>

\* set_value of _AC3Desc: the first time, it counts.
SetOption(o) ==
  /\ Constructed /\ o \in DOMAIN class.settable \ on
  /\ LET len == class.settable[o]
         fits == lengthFits(total_length, len) IN
     /\ total_length' = IF len > 0 /\ fits THEN total_length + len ELSE total_length
     /\ proper' = (proper /\ (len = 0 \/ fits))
  /\ on' = on \cup {o}
  /\ UNCHANGED << name, class, code, strs, entries, data >>

Next ==
  \/ /\ name = NONE
     /\ \E n \in DOMAIN Classes :
          \/ \E options \in SUBSET DOMAIN Classes[n].options : Construct(n, options)
          \/ \E size \in StringSizes, length_byte \in 0 .. 255 : Clone(n, size, length_byte)
  \/ \E str \in StringSizes : TakeString(str) \/ TakeCode(str)
  \/ /\ Constructed
     /\ \/ \E kind \in DOMAIN class.entries, outer \in 0 .. Len(entries) :
             \E sizes \in [1 .. TextsOf(class, kind) -> StringSizes] : AddEntry(kind, sizes, outer)
        \/ \E kind \in DOMAIN class.entries, str \in StringSizes : AddText(kind, str)
        \/ \E size \in StringSizes : SetData(size)
        \/ \E o \in DOMAIN class.settable : SetOption(o)

Spec == Init /\ [][Next]_vars

-----------------------------------------------------------------------------
(* buildSections: the bytes it writes. *)

\* op(1) + ... + op(n)
SumTo(n, op(_)) ==
  LET sum[i \in 0 .. n] == IF i = 0 THEN 0 ELSE sum[i - 1] + op(i) IN sum[n]

\* A part, of the descriptor or of an entry: its texts are sizes.
PartBytes(p, sizes) ==
  CASE p.part = "word" -> p.bytes
    [] p.part = "code" -> code
    [] p.part = "text" -> sizes[p.nth]
    [] p.part \in {"text_len", "loop_len"} -> 1
    [] p.part = "data" -> data
    [] OTHER -> 0

PartsBytes(parts, sizes) == SumTo(Len(parts), LAMBDA i : PartBytes(parts[i], sizes))
EntryBytes(e) == PartsBytes(class.loops[entries[e].kind], entries[e].sizes)

\* A loop writes its entries, and inside of each the entries it holds.
InLoop(kind, e) ==
  \/ entries[e].kind = kind
  \/ class.entries[entries[e].kind].inside = kind
LoopBytes(kind) ==
  SumTo(Len(entries), LAMBDA e : IF InLoop(kind, e) THEN EntryBytes(e) ELSE 0)

\* What the two parts that hold parts add.
InnerBytes(p) ==
  CASE p.part = "loop" -> LoopBytes(p.of)
    [] p.part = "if" -> IF p.of \in on THEN PartsBytes(p.parts, strs) ELSE 0
    [] OTHER -> 0

Written ==
  2 + PartsBytes(class.parts, strs)
    + SumTo(Len(class.parts), LAMBDA i : InnerBytes(class.parts[i]))

\* The length byte of a loop, inside of an entry or (outer = 0) of none:
\* OUI_data_length, itemListSize(), size() * BASE_LEN.
InThis(kind, outer, e) == entries[e].kind = kind /\ entries[e].outer = outer
loopLength(kind, outer) ==
  SumTo(Len(entries), LAMBDA e : IF InThis(kind, outer, e)
                                 THEN entryAsks(kind, entries[e].sizes) ELSE 0) % 256
loopContents(kind, outer) ==
  SumTo(Len(entries), LAMBDA e : IF InThis(kind, outer, e) THEN EntryBytes(e) ELSE 0)

-----------------------------------------------------------------------------
\* What follows total_length fits the length byte; nothing has a negative size.
TypeOK ==
  /\ name \in DOMAIN Classes \cup {NONE}
  /\ total_length \in 2 .. CAPACITY
  /\ code \in CodeSizes
  /\ strs \in Seq(Nat)
  /\ entries \in Seq([kind : STRING, sizes : Seq(Nat), outer : Nat])
  /\ data \in Nat
  /\ on \subseteq STRING
  /\ proper \in BOOLEAN

\* What buildSections writes in excess of what was counted: SSUScanLinkageDesc does
\* not count its table type, PDCDesc writes its 3 bytes in 4, and
\* MobileHandoverLinkageDesc counts its first byte as 3.
Miscounted ==
  CASE name = "SSUScanLinkageDesc" -> 1
    [] name = "PDCDesc" -> 1
    [] name = "MobileHandoverLinkageDesc" -> -2
    [] OTHER -> 0

\* The language codes written.
CodesIn(parts) == Cardinality({i \in DOMAIN parts : parts[i].part = "code"})
Codes ==
  CodesIn(class.parts) + SumTo(Len(entries), LAMBDA e : CodesIn(class.loops[entries[e].kind]))

\* The two counts agree: after any calls whose sizes were checked as given,
\* buildSections writes the bytes length() promises to the table that lays the
\* sections out, but for three classes, and a byte less for every letter a
\* language code lacks.
CountedIsWritten ==
  Constructed /\ proper => Written = total_length + Miscounted - (3 - code) * Codes

LengthsRead(parts, sizes, outer) ==
  \A i \in DOMAIN parts :
    /\ parts[i].part = "text_len" => sizes[parts[i].nth] < 256
    /\ parts[i].part = "loop_len" =>
         loopLength(parts[i].of, outer) = loopContents(parts[i].of, outer)
\* A reader finds its way inside: every length byte of a text holds the text's
\* length, every length byte of a loop the bytes of the entries that follow it.
InnerLengthsRead ==
  Constructed /\ proper =>
    /\ LengthsRead(class.parts, strs, 0)
    /\ \A e \in DOMAIN entries :
         LengthsRead(class.loops[entries[e].kind], entries[e].sizes, e)

\* The words a class writes, in its own parts and in those of its loops.
WordsOf(c) ==
  LET lists == {c.parts} \cup {c.loops[k] : k \in DOMAIN c.loops}
                 \cup {c.parts[i].parts : i \in DOMAIN c.parts}
  IN  {w \in UNION {{l[i] : i \in DOMAIN l} : l \in lists} : w.part = "word"}

BitsOf(c, f) ==
  f.shift .. f.shift + (IF f.field = "reserved" THEN f.width ELSE c.bits[f.field]) - 1

\* The classes one of whose words is not the fields side by side: SystemClockDesc
\* ors the reserved bits over the accuracy's; in the others some bits of the word
\* belong to no field.
Overlaid == {"SystemClockDesc"}
Gaps == {"SystemClockDesc", "STDDesc", "MultiplexBufferUtilizationDesc", "CellListDesc",
         "PDCDesc"}

\* Fields or-ed into a word keep out of each other's bits and leave none unset, and
\* every field of a class is in some word: what is set can be read back.
WordsFilled ==
  name # NONE =>
    /\ \A w \in WordsOf(class) :
         LET bits(i) == BitsOf(class, w.fields[i])
             all == UNION {bits(i) : i \in DOMAIN w.fields} IN
         /\ \A i, j \in DOMAIN w.fields :
              i # j /\ name \notin Overlaid => bits(i) \cap bits(j) = {}
         /\ all \subseteq 0 .. 8 * w.bytes - 1
         /\ name \in Gaps \/ all = 0 .. 8 * w.bytes - 1
    /\ \A f \in DOMAIN class.bits :
         \E w \in WordsOf(class) : \E i \in DOMAIN w.fields : w.fields[i].field = f
=============================================================================
