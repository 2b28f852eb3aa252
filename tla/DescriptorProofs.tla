--------------------------- MODULE DescriptorProofs ----------------------------
(***************************************************************************)
(* A descriptor's count of its own bytes never leaves 2 .. 257, whatever   *)
(* classes there are, whatever sizes of strings and vectors they are       *)
(* given, in whatever order: the ui8 and ui16 a size is put in may lose    *)
(* part of it, but what is left is checked.                                *)
(***************************************************************************)
EXTENDS Descriptor, TLAPS

\* A descriptor is of the class it was constructed as, and has taken no more
\* strings than the class has.
ClassInv ==
  IF name = NONE THEN strs = << >> /\ total_length = 2
  ELSE /\ name \in DOMAIN Classes
       /\ class = Classes[name]
       /\ Len(strs) <= Len(class.strings)

IInv == TypeOK /\ ClassInv

Entry == [kind : STRING, sizes : Seq(Nat), outer : Nat]

-----------------------------------------------------------------------------
(* The arithmetic of the two incLength. *)

\* A size in a ui8 or a ui16 is a size.
LEMMA Truncated ==
  ASSUME NEW n \in Nat
  PROVE  n % 256 \in Nat /\ n % 65536 \in Nat
  <1>1. n % 256 \in Nat
    OBVIOUS
  <1>2. n % 65536 \in Nat
    OBVIOUS
  <1> QED
    BY <1>1, <1>2

\* incLength(ui8): what is checked keeps the count in range.
LEMMA Checked ==
  ASSUME NEW total \in 2 .. CAPACITY, NEW len \in Nat, lengthFits(total, len)
  PROVE  total + len \in 2 .. CAPACITY
  BY DEF lengthFits, CAPACITY

\* incLength(string): so does what is cut, and a string is never cut below 0.
LEMMA Cut ==
  ASSUME NEW total \in 2 .. CAPACITY, NEW str \in Nat
  PROVE  counted(total, str) \in 2 .. CAPACITY /\ kept(total, str) \in Nat
  <1>1. str % 65536 \in Nat
    BY ONLY str \in Nat, Truncated
  <1>2. CASE fitsWhole(total, str)
    BY <1>1, <1>2, Checked DEF fitsWhole, counted, kept
  <1>3. CASE ~ fitsWhole(total, str)
    BY <1>3 DEF counted, kept, CAPACITY
  <1> QED
    BY <1>2, <1>3

-----------------------------------------------------------------------------
(* What a class guarantees. *)

\* The facts about a class that the assumption states.
LEMMA ClassFacts ==
  ASSUME NEW n \in DOMAIN Classes
  PROVE  /\ n # NONE
         /\ Classes[n].base \in Nat
         /\ Classes[n].strings \in Seq(Nat)
         /\ DOMAIN Classes[n].options \subseteq STRING
         /\ DOMAIN Classes[n].entries \subseteq STRING
         /\ DOMAIN Classes[n].settable \subseteq STRING
         /\ \A o \in DOMAIN Classes[n].settable : Classes[n].settable[o] \in Nat
         /\ \A k \in DOMAIN Classes[n].entries :
              Classes[n].entries[k].len \in Nat /\ TextsOf(Classes[n], k) \in 0 .. 2
  BY DescriptorArgs DEF DescriptorArgs

\* What a constructor counts leaves room.
LEMMA ConstructorCounts ==
  ASSUME NEW n \in DOMAIN Classes, NEW options \in SUBSET DOMAIN Classes[n].options
  PROVE  2 + Classes[n].base + OptionsLength(Classes[n], options) \in 2 .. CAPACITY
  <1>1. /\ Classes[n].base \in Nat
        /\ OptionsLength(Classes[n], options) \in Nat
        /\ 2 + Classes[n].base + OptionsLength(Classes[n], options) < CAPACITY
    BY DescriptorArgs DEF DescriptorArgs
  <1>2. PICK a \in Nat, c \in Nat :
          a = Classes[n].base /\ c = OptionsLength(Classes[n], options)
    BY <1>1
  <1>3. 2 + a + c < CAPACITY
    BY <1>1, <1>2
  <1>4. 2 + a + c \in 2 .. CAPACITY
    BY <1>3 DEF CAPACITY
  <1> QED
    BY <1>2, <1>4

\* The sizes of an entry's texts are a sequence, and add up.
LEMMA Texts ==
  ASSUME NEW m \in 0 .. 2, NEW sizes \in [1 .. m -> StringSizes]
  PROVE  sizes \in Seq(Nat) /\ textsLength(sizes) \in Nat
  <1>1. sizes \in [1 .. m -> Nat]
    BY DescriptorArgs DEF DescriptorArgs
  <1>2. sizes \in Seq(Nat) /\ Len(sizes) = m
    BY <1>1
  <1>3. m \in {0, 1, 2}
    OBVIOUS
  <1> QED
    BY <1>1, <1>2, <1>3 DEF textsLength

-----------------------------------------------------------------------------
(* One lemma per action. *)

\* A descriptor that does not exist yet.
LEMMA InitIInv == Init => IInv
  <1> SUFFICES ASSUME Init PROVE IInv
    OBVIOUS
  <1>1. name \in DOMAIN Classes \cup {NONE} /\ total_length \in 2 .. CAPACITY
    BY DEF Init, CAPACITY
  <1>2. strs \in Seq(Nat) /\ entries \in Seq([kind : STRING, sizes : Seq(Nat), outer : Nat])
    BY DEF Init
  <1>3. code \in CodeSizes /\ data \in Nat /\ on \subseteq STRING /\ proper \in BOOLEAN
    BY DEF Init
  <1>4. ClassInv
    BY DEF Init, ClassInv
  <1> QED
    BY <1>1, <1>2, <1>3, <1>4 DEF IInv, TypeOK

\* Construction, up to the strings.
LEMMA ConstructIInv ==
  ASSUME IInv, NEW n \in DOMAIN Classes,
         NEW options \in SUBSET DOMAIN Classes[n].options, Construct(n, options)
  PROVE  IInv'
  <1>1. TypeOK'
    <2>1. total_length' \in 2 .. CAPACITY
      BY ConstructorCounts DEF Construct
    <2>2. on' \subseteq STRING /\ name' \in DOMAIN Classes
      BY ClassFacts DEF Construct
    <2> QED
      BY <2>1, <2>2 DEF Construct, IInv, TypeOK
  <1>2. ClassInv'
    BY ClassFacts DEF Construct, IInv, ClassInv
  <1> QED
    BY <1>1, <1>2 DEF IInv

\* A descriptor cloned from its bytes.
LEMMA CloneIInv ==
  ASSUME IInv, NEW n \in DOMAIN Classes, NEW size \in StringSizes,
         NEW length_byte \in 0 .. 255, Clone(n, size, length_byte)
  PROVE  IInv'
  <1>1. TypeOK'
    <2>1. total_length' \in 2 .. CAPACITY /\ data' \in Nat
      BY DEF Clone, CAPACITY
    <2>2. name' \in DOMAIN Classes
      BY ClassFacts DEF Clone
    <2> QED
      BY <2>1, <2>2 DEF Clone, IInv, TypeOK
  <1>2. ClassInv'
    BY ClassFacts DEF Clone, IInv, ClassInv
  <1> QED
    BY <1>1, <1>2 DEF IInv

\* One more string than before is still no more than the class has.
LEMMA AnotherString ==
  ASSUME IInv, name # NONE, ~ Constructed, NEW s \in Nat,
         strs' = Append(strs, s), UNCHANGED << name, class >>
  PROVE  /\ strs' \in Seq(Nat)
         /\ Len(strs) + 1 \in DOMAIN class.strings
         /\ class.strings \in Seq(Nat)
         /\ ClassInv'
  <1>1. /\ class = Classes[name] /\ name \in DOMAIN Classes
        /\ Len(strs) <= Len(class.strings) /\ strs \in Seq(Nat)
    BY DEF IInv, TypeOK, ClassInv
  <1>2. class.strings \in Seq(Nat)
    BY <1>1, ClassFacts
  <1>3. Len(strs) # Len(class.strings)
    BY DEF Constructed
  <1>4. Len(strs) + 1 <= Len(class.strings)
    BY <1>1, <1>2, <1>3
  <1>5. strs' \in Seq(Nat) /\ Len(strs') = Len(strs) + 1
    BY <1>1
  <1>6. Len(strs) + 1 \in DOMAIN class.strings
    BY <1>1, <1>2, <1>4
  <1> QED
    BY <1>1, <1>2, <1>4, <1>5, <1>6 DEF ClassInv

\* A string of the constructor that is cut to the room left.
LEMMA TakeStringIInv ==
  ASSUME IInv, NEW str \in StringSizes, TakeString(str)
  PROVE  IInv'
  <1>1. /\ total_length \in 2 .. CAPACITY /\ str \in Nat
        /\ name # NONE /\ ~ Constructed
    BY DescriptorArgs DEF DescriptorArgs, IInv, TypeOK, TakeString
  <1>2. total_length' \in 2 .. CAPACITY /\ kept(total_length, str) \in Nat
    BY <1>1, Cut DEF TakeString
  <1>3. strs' \in Seq(Nat) /\ ClassInv'
    BY <1>1, <1>2, AnotherString DEF TakeString
  <1> QED
    BY <1>2, <1>3 DEF TakeString, IInv, TypeOK

\* A string that is cut to a limit of its own.
LEMMA TakeCodeIInv ==
  ASSUME IInv, NEW str \in StringSizes, TakeCode(str)
  PROVE  IInv'
  <1> DEFINE limit == class.strings[Len(strs) + 1]
             len == IF str < limit THEN str ELSE limit
  <1>1. /\ total_length \in 2 .. CAPACITY /\ str \in Nat
        /\ name # NONE /\ ~ Constructed
    BY DescriptorArgs DEF DescriptorArgs, IInv, TypeOK, TakeCode
  <1>2. limit \in Nat
    <2>1. /\ class = Classes[name] /\ name \in DOMAIN Classes
          /\ Len(strs) <= Len(class.strings) /\ strs \in Seq(Nat)
      BY <1>1 DEF IInv, TypeOK, ClassInv
    <2>2. class.strings \in Seq(Nat) /\ Len(strs) # Len(class.strings)
      BY <1>1, <2>1, ClassFacts DEF Constructed
    <2>3. Len(strs) + 1 \in DOMAIN class.strings
      BY <2>1, <2>2
    <2> QED
      BY <2>2, <2>3
  <1>3. len \in Nat
    BY <1>1, <1>2
  <1>4. /\ strs' = Append(strs, len)
        /\ total_length' = IF lengthFits(total_length, len) THEN total_length + len
                           ELSE total_length
        /\ proper' \in BOOLEAN
        /\ UNCHANGED << name, class, code, entries, data, on >>
    BY DEF TakeCode, IInv, TypeOK
  <1> HIDE DEF limit, len
  <1>5. total_length' \in 2 .. CAPACITY
    BY <1>1, <1>3, <1>4, Checked
  <1>6. strs' \in Seq(Nat) /\ ClassInv'
    BY <1>1, <1>3, <1>4, AnotherString
  <1> QED
    BY <1>4, <1>5, <1>6 DEF IInv, TypeOK

\* Nothing about the class changes once the descriptor is constructed.
LEMMA SameClass ==
  ASSUME IInv, Constructed, UNCHANGED << name, class, strs >>
  PROVE  /\ ClassInv'
         /\ name \in DOMAIN Classes /\ class = Classes[name]
  BY DEF IInv, ClassInv, Constructed

\* An entry of a loop, whose length was put in a ui8.
LEMMA AddEntryIInv ==
  ASSUME IInv, Constructed,
         NEW kind \in DOMAIN class.entries, NEW outer \in 0 .. Len(entries),
         NEW sizes \in [1 .. TextsOf(class, kind) -> StringSizes],
         AddEntry(kind, sizes, outer)
  PROVE  IInv'
  <1>1. name \in DOMAIN Classes /\ class = Classes[name] /\ ClassInv'
    BY SameClass DEF AddEntry
  <1>2. /\ kind \in STRING /\ class.entries[kind].len \in Nat
        /\ TextsOf(class, kind) \in 0 .. 2
    BY <1>1, ClassFacts
  <1>3. sizes \in Seq(Nat) /\ textsLength(sizes) \in Nat
    BY <1>2, Texts
  <1>4. entryAsks(kind, sizes) \in Nat
    <2>1. class.entries[kind].len + textsLength(sizes) \in Nat
      BY <1>2, <1>3
    <2> QED
      BY ONLY <2>1, Truncated DEF entryAsks
  <1>5. total_length' \in 2 .. CAPACITY
    BY <1>4, Checked DEF AddEntry, IInv, TypeOK
  <1>6. entries' \in Seq(Entry)
    <2>1. entries \in Seq(Entry) /\ outer \in Nat
      BY DEF IInv, TypeOK, Entry
    <2>2. [kind |-> kind, sizes |-> sizes, outer |-> outer] \in Entry
      BY <1>2, <1>3, <2>1 DEF Entry
    <2>3. entries' = Append(entries, [kind |-> kind, sizes |-> sizes, outer |-> outer])
      BY DEF AddEntry
    <2> QED
      BY <2>1, <2>2, <2>3
  <1> QED
    BY <1>1, <1>5, <1>6 DEF AddEntry, IInv, TypeOK, Entry

\* A text with its language: the language is checked, the text is cut.
LEMMA AddTextIInv ==
  ASSUME IInv, Constructed,
         NEW kind \in DOMAIN class.entries, NEW str \in StringSizes, AddText(kind, str)
  PROVE  IInv'
  <1> DEFINE len == class.entries[kind].len
  <1>1. name \in DOMAIN Classes /\ class = Classes[name] /\ ClassInv'
    BY SameClass DEF AddText
  <1>2. kind \in STRING /\ len \in Nat /\ str \in Nat
    BY <1>1, ClassFacts, DescriptorArgs DEF DescriptorArgs
  <1>3. /\ lengthFits(total_length, len)
        /\ entries' = Append(entries, [kind |-> kind, outer |-> 0,
                                       sizes |-> << kept(total_length + len, str) >>])
        /\ total_length' = counted(total_length + len, str)
    BY DEF AddText
  <1> HIDE DEF len
  <1>4. total_length + len \in 2 .. CAPACITY
    BY <1>2, <1>3, Checked DEF IInv, TypeOK
  <1>5. total_length' \in 2 .. CAPACITY /\ kept(total_length + len, str) \in Nat
    BY <1>2, <1>3, <1>4, Cut
  <1>6. entries' \in Seq(Entry)
    <2>1. entries \in Seq(Entry)
      BY DEF IInv, TypeOK, Entry
    <2>2. [kind |-> kind, outer |-> 0,
           sizes |-> << kept(total_length + len, str) >>] \in Entry
      BY <1>2, <1>5 DEF Entry
    <2> QED
      BY <1>3, <2>1, <2>2
  <1> QED
    BY <1>1, <1>5, <1>6 DEF AddText, IInv, TypeOK, Entry

\* A vector, whose size was put in a ui8.
LEMMA SetDataIInv ==
  ASSUME IInv, Constructed, NEW size \in StringSizes, SetData(size)
  PROVE  IInv'
  <1>1. ClassInv'
    BY SameClass DEF SetData
  <1>2. size \in Nat /\ size % 256 \in Nat
    <2>1. size \in Nat
      BY DescriptorArgs DEF DescriptorArgs
    <2> QED
      BY ONLY <2>1, Truncated
  <1>3. total_length' \in 2 .. CAPACITY
    BY <1>2, Checked DEF SetData, IInv, TypeOK
  <1> QED
    BY <1>1, <1>2, <1>3 DEF SetData, IInv, TypeOK

\* An optional part.
LEMMA SetOptionIInv ==
  ASSUME IInv, Constructed, NEW o \in DOMAIN class.settable, SetOption(o)
  PROVE  IInv'
  <1>1. name \in DOMAIN Classes /\ class = Classes[name] /\ ClassInv'
    BY SameClass DEF SetOption
  <1>2. o \in STRING /\ class.settable[o] \in Nat
    BY <1>1, ClassFacts
  <1>3. total_length' \in 2 .. CAPACITY
    BY <1>2, Checked DEF SetOption, IInv, TypeOK
  <1> QED
    BY <1>1, <1>2, <1>3 DEF SetOption, IInv, TypeOK

\* Every step preserves the invariant.
LEMMA NextIInv == IInv /\ [Next]_vars => IInv'
  <1> SUFFICES ASSUME IInv, [Next]_vars PROVE IInv'
    OBVIOUS
  <1>1. ASSUME NEW n \in DOMAIN Classes, NEW options \in SUBSET DOMAIN Classes[n].options,
               Construct(n, options)
        PROVE  IInv'
    BY <1>1, ConstructIInv
  <1>2. ASSUME NEW n \in DOMAIN Classes, NEW size \in StringSizes,
               NEW length_byte \in 0 .. 255, Clone(n, size, length_byte)
        PROVE  IInv'
    BY <1>2, CloneIInv
  <1>3. ASSUME NEW str \in StringSizes, TakeString(str) \/ TakeCode(str)
        PROVE  IInv'
    BY <1>3, TakeStringIInv, TakeCodeIInv
  <1>4. ASSUME Constructed, NEW kind \in DOMAIN class.entries, NEW outer \in 0 .. Len(entries),
               NEW sizes \in [1 .. TextsOf(class, kind) -> StringSizes],
               AddEntry(kind, sizes, outer)
        PROVE  IInv'
    BY <1>4, AddEntryIInv
  <1>5. ASSUME Constructed, NEW kind \in DOMAIN class.entries, NEW str \in StringSizes,
               AddText(kind, str)
        PROVE  IInv'
    BY <1>5, AddTextIInv
  <1>6. ASSUME Constructed, NEW size \in StringSizes, SetData(size)
        PROVE  IInv'
    BY <1>6, SetDataIInv
  <1>7. ASSUME Constructed, NEW o \in DOMAIN class.settable, SetOption(o)
        PROVE  IInv'
    BY <1>7, SetOptionIInv
  <1>8. CASE UNCHANGED vars
    BY <1>8 DEF vars, IInv, TypeOK, ClassInv
  <1> QED
    BY <1>1, <1>2, <1>3, <1>4, <1>5, <1>6, <1>7, <1>8 DEF Next

-----------------------------------------------------------------------------
\* TypeOK, for all classes and sizes: in particular total_length stays in 2 .. 257,
\* what is kept of a string is never a negative number of bytes, and no sequence of
\* adds gets past the two incLength of descriptor.cc.
THEOREM TypeCorrect == Spec => []TypeOK
  <1>1. Spec => []IInv
    BY InitIInv, NextIInv, PTL DEF Spec
  <1>2. IInv => TypeOK
    BY DEF IInv
  <1> QED
    BY <1>1, <1>2, PTL
=============================================================================
