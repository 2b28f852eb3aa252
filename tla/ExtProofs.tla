------------------------------ MODULE ExtProofs -------------------------------
(***************************************************************************)
(* Lemmas about the tables with a list of items (SDT, PMT, NIT and BAT):   *)
(* sums of lengths, the application's calls, ListItem::write_section, and  *)
(* what the payload of a section is while items are written into it.       *)
(***************************************************************************)
EXTENDS ExtPsiTable, PsiTableProofs
LOCAL INSTANCE FiniteSetsExt

-----------------------------------------------------------------------------
(* Total.                                                                  *)

\* The first n partial sums of s.
SumsTo(s, n, g) ==
  g \in [0 .. n -> Nat] /\ g[0] = 0 /\ \A k \in 1 .. n : g[k] = g[k - 1] + s[k]

\* They exist.
LEMMA SumsExist ==
  ASSUME NEW s \in Seq(Nat)
  PROVE  \A n \in 0 .. Len(s) : \E g : SumsTo(s, n, g)
  <1> DEFINE T == {n \in Nat : n <= Len(s) => \E g : SumsTo(s, n, g)}
  <1>1. 0 \in T
    <2> DEFINE g == [k \in 0 .. 0 |-> 0]
    <2>1. SumsTo(s, 0, g)
      BY DEF SumsTo
    <2> QED
      BY <2>1
  <1>2. ASSUME NEW n \in T PROVE n + 1 \in T
    <2> SUFFICES ASSUME n + 1 <= Len(s) PROVE \E g : SumsTo(s, n + 1, g)
      OBVIOUS
    <2>1. PICK g : SumsTo(s, n, g)
      BY <1>2
    <2> DEFINE h == [k \in 0 .. n + 1 |-> IF k = n + 1 THEN g[n] + s[n + 1] ELSE g[k]]
    <2>2. s[n + 1] \in Nat
      OBVIOUS
    <2>3. h \in [0 .. n + 1 -> Nat] /\ h[0] = 0
      BY <2>1, <2>2 DEF SumsTo
    <2>4. ASSUME NEW k \in 1 .. n + 1 PROVE h[k] = h[k - 1] + s[k]
      BY <2>1 DEF SumsTo
    <2>5. SumsTo(s, n + 1, h)
      BY <2>3, <2>4 DEF SumsTo
    <2> QED
      BY <2>5
  <1>3. \A n \in Nat : n \in T
    <2> HIDE DEF T
    <2>1. T \in SUBSET Nat
      BY DEF T
    <2> QED
      BY <1>1, <1>2, <2>1, NatSetInduction
  <1> QED
    BY <1>3

\* They are the same for every sequence with the same beginning.
LEMMA SumsAgree ==
  ASSUME NEW s, NEW t, NEW m \in Nat, NEW n \in Nat, m <= n, NEW g, NEW h,
         SumsTo(s, m, g), SumsTo(t, n, h), \A k \in 1 .. m : s[k] = t[k]
  PROVE  g[m] = h[m]
  <1> DEFINE T == {k \in Nat : k <= m => g[k] = h[k]}
  <1>1. 0 \in T
    BY DEF SumsTo
  <1>2. ASSUME NEW k \in T PROVE k + 1 \in T
    <2> SUFFICES ASSUME k + 1 <= m PROVE g[k + 1] = h[k + 1]
      OBVIOUS
    <2>1. g[k + 1] = g[k] + s[k + 1]
      BY DEF SumsTo
    <2>2. h[k + 1] = h[k] + t[k + 1]
      BY DEF SumsTo
    <2> QED
      BY <1>2, <2>1, <2>2
  <1>3. \A k \in Nat : k \in T
    <2> HIDE DEF T
    <2>1. T \in SUBSET Nat
      BY DEF T
    <2> QED
      BY <1>1, <1>2, <2>1, NatSetInduction
  <1> QED
    BY <1>3

\* Total is the last of them.
LEMMA TotalIs ==
  ASSUME NEW s \in Seq(Nat), NEW g, SumsTo(s, Len(s), g)
  PROVE  Total(s) = g[Len(s)]
  <1> DEFINE f == CHOOSE f : f = [n \in 0 .. Len(s) |-> IF n = 0 THEN 0 ELSE f[n - 1] + s[n]]
  <1>1. g = [n \in 0 .. Len(s) |-> IF n = 0 THEN 0 ELSE g[n - 1] + s[n]]
    <2>1. g \in [0 .. Len(s) -> Nat] /\ Len(s) \in Nat
      BY DEF SumsTo
    <2>2. ASSUME NEW n \in 0 .. Len(s)
          PROVE  g[n] = IF n = 0 THEN 0 ELSE g[n - 1] + s[n]
      BY DEF SumsTo
    <2> QED
      BY <2>1, <2>2
  <1>2. f = [n \in 0 .. Len(s) |-> IF n = 0 THEN 0 ELSE f[n - 1] + s[n]]
    BY <1>1, Zenon
  <1>3. Total(s) = f[Len(s)]
    BY Zenon DEF Total
  <1> HIDE DEF f
  <1> DEFINE T == {n \in Nat : n <= Len(s) => f[n] = g[n]}
  <1>4. 0 \in T
    BY <1>1, <1>2
  <1>5. ASSUME NEW n \in T PROVE n + 1 \in T
    <2> SUFFICES ASSUME n + 1 <= Len(s) PROVE f[n + 1] = g[n + 1]
      OBVIOUS
    <2>1. n + 1 \in 0 .. Len(s) /\ n + 1 # 0 /\ (n + 1) - 1 = n
      OBVIOUS
    <2>2. f[n + 1] = f[n] + s[n + 1]
      BY <1>2, <2>1
    <2>3. g[n + 1] = g[n] + s[n + 1]
      BY <1>1, <2>1
    <2> QED
      BY <1>5, <2>2, <2>3
  <1>6. \A n \in Nat : n \in T
    <2> HIDE DEF T
    <2>1. T \in SUBSET Nat
      BY DEF T
    <2> QED
      BY <1>4, <1>5, <2>1, NatSetInduction
  <1> QED
    BY <1>3, <1>6

\* The sum of zeros.
LEMMA TotalZero ==
  ASSUME NEW s \in Seq(Nat), \A k \in 1 .. Len(s) : s[k] = 0
  PROVE  Total(s) = 0
  <1>1. PICK n \in Nat : n = Len(s)
    OBVIOUS
  <1>2. PICK g : g = [k \in 0 .. n |-> 0]
    OBVIOUS
  <1>3. SumsTo(s, Len(s), g)
    BY <1>1, <1>2 DEF SumsTo
  <1>4. Total(s) = g[n]
    BY <1>1, <1>3, TotalIs
  <1> QED
    BY <1>1, <1>2, <1>4

\* Nothing sums to 0, and one more length adds itself.
LEMMA TotalAppend ==
  /\ Total(<< >>) = 0
  /\ \A s \in Seq(Nat), x \in Nat : /\ Total(s) \in Nat
                                    /\ Total(Append(s, x)) = Total(s) + x
  <1>1. ASSUME NEW s \in Seq(Nat)
        PROVE  \E g : SumsTo(s, Len(s), g) /\ Total(s) = g[Len(s)] /\ Total(s) \in Nat
    <2>1. PICK g : SumsTo(s, Len(s), g)
      <3>1. Len(s) \in 0 .. Len(s)
        OBVIOUS
      <3> QED
        BY <3>1, SumsExist
    <2>2. g[Len(s)] \in Nat
      BY <2>1 DEF SumsTo
    <2> QED
      BY <2>1, <2>2, TotalIs
  <1>2. Total(<< >>) = 0
    <2>1. << >> \in Seq(Nat) /\ Len(<< >>) = 0
      OBVIOUS
    <2>2. PICK s \in Seq(Nat) : s = << >> /\ Len(s) = 0
      BY <2>1
    <2>3. PICK g : SumsTo(s, 0, g) /\ Total(s) = g[0]
      BY <1>1, <2>2
    <2> QED
      BY <2>2, <2>3 DEF SumsTo
  <1>3. ASSUME NEW s \in Seq(Nat), NEW x \in Nat
        PROVE  Total(s) \in Nat /\ Total(Append(s, x)) = Total(s) + x
    <2>1. PICK t \in Seq(Nat) : t = Append(s, x)
      <3>1. Append(s, x) \in Seq(Nat)
        OBVIOUS
      <3> QED
        BY <3>1
    <2>2. PICK m \in Nat : m = Len(s)
      OBVIOUS
    <2>3. Len(t) = m + 1 /\ t[m + 1] = x /\ \A k \in 1 .. m : s[k] = t[k]
      BY <2>1, <2>2
    <2>4. PICK g : SumsTo(s, m, g) /\ Total(s) = g[m] /\ Total(s) \in Nat
      BY <1>1, <2>2
    <2>5. PICK h : SumsTo(t, m + 1, h) /\ Total(t) = h[m + 1]
      BY <1>1, <2>3
    <2>6. g[m] = h[m]
      <3>1. m + 1 \in Nat /\ m <= m + 1
        OBVIOUS
      <3> QED
        BY ONLY m \in Nat, <2>3, <2>4, <2>5, <3>1, SumsAgree
    <2>7. h[m + 1] = h[m] + x
      <3>1. m + 1 \in 1 .. m + 1 /\ (m + 1) - 1 = m
        OBVIOUS
      <3> QED
        BY ONLY <2>3, <2>5, <3>1 DEF SumsTo
    <2> QED
      BY <2>1, <2>4, <2>5, <2>6, <2>7
  <1> QED
    BY <1>2, <1>3

-----------------------------------------------------------------------------
(* The items and their contexts.                                           *)

Runs == [op_state : {"INIT", "WRITE_HEAD", "GET_DESC", "WRITE_DESC"}, d : Nat, d_iter : Nat]

\* The context r of an item with n descriptors: a descriptor is pending when one
\* is to be written, and the iterator is past it.
RunOK(r, n) ==
  /\ r \in Runs /\ r.d \in 0 .. n /\ r.d_iter \in 0 .. n
  /\ r.d_iter # 0 => r.d < r.d_iter
  /\ r.op_state = "WRITE_DESC" => r.d # 0
  /\ r.op_state = "INIT" => r.d = 0

\* A descriptor's position fits in 16 bits since its bytes are in the length.
ItemOK(x, len) ==
  /\ x \in [id : ui16, descriptors : Seq(DescLength), run : Runs]
  /\ RunOK(x.run, Len(x.descriptors))
  /\ 2 * Len(x.descriptors) <= len

ExtInv ==
  /\ items \in Seq([id : ui16, descriptors : Seq(DescLength), run : Runs])
  /\ \A i \in DOMAIN items : ItemOK(items[i], length)
  /\ desc_loop \in [pos : Nat, len : ui16]

\* The type invariant is part of it.
LEMMA ExtInvTypes == ExtInv => ExtTypeOK
  <1> SUFFICES ASSUME ExtInv PROVE ExtTypeOK
    OBVIOUS
  <1>1. ASSUME NEW i \in DOMAIN items
        PROVE  /\ {items[i].run.d, items[i].run.d_iter} \subseteq 0 .. Len(items[i].descriptors)
               /\ items[i].run.d_iter # 0 => items[i].run.d < items[i].run.d_iter
    BY DEF ExtInv, ItemOK, RunOK
  <1> QED
    BY <1>1 DEF ExtInv, ExtTypeOK, Runs

\* The prover sees the descriptor lengths as an opaque set with these members.
LEMMA DescLengths == \A x : x \in DescLength <=> x \in Int /\ 2 <= x /\ x <= 257
  BY DEF DescLength

\* An iterator stays in its list, past the position before it.
LEMMA Iterator ==
  ASSUME NEW len \in Nat, NEW n \in Nat, n # 0
  PROVE  Iter(n, len) \in 0 .. len /\ (Iter(n, len) # 0 => Iter(n, len) = n)
  BY DEF Iter

\* What is known of an item.
LEMMA ItemFacts ==
  ASSUME ExtInv, NEW i \in DOMAIN items
  PROVE  /\ items[i] \in [id : ui16, descriptors : Seq(DescLength), run : Runs]
         /\ Len(items[i].descriptors) \in Nat
         /\ RunOK(items[i].run, Len(items[i].descriptors))
         /\ 2 * Len(items[i].descriptors) <= length
         /\ i \in Nat /\ i # 0
  BY DEF ExtInv, ItemOK

\* One element of a sequence replaced.
LEMMA ReplaceOne ==
  ASSUME NEW S, NEW s \in Seq(S), NEW i \in DOMAIN s, NEW x \in S, NEW t,
         t = [s EXCEPT ![i] = x]
  PROVE  /\ t \in Seq(S) /\ Len(t) = Len(s) /\ DOMAIN t = DOMAIN s
         /\ t[i] = x /\ \A j \in DOMAIN s : j # i => t[j] = s[j]
  OBVIOUS

\* Nothing but item i's context changes.
OnlyRun(i) ==
  /\ items' \in Seq([id : ui16, descriptors : Seq(DescLength), run : Runs])
  /\ Len(items') = Len(items)
  /\ \A j \in DOMAIN items : /\ items'[j].descriptors = items[j].descriptors
                             /\ items'[j].id = items[j].id
                             /\ j # i => items'[j] = items[j]

\* An item's context may change to any that is right for its descriptors.
LEMMA RunExt ==
  ASSUME ExtInv, NEW i \in DOMAIN items,
         NEW r, RunOK(r, Len(items[i].descriptors)),
         items' = [items EXCEPT ![i].run = r],
         desc_loop' \in [pos : Nat, len : ui16], length' = length
  PROVE  ExtInv' /\ OnlyRun(i) /\ items'[i].run = r
  <1>1. PICK x : x = [items[i] EXCEPT !.run = r]
    OBVIOUS
  <1>2. items[i] \in [id : ui16, descriptors : Seq(DescLength), run : Runs] /\ r \in Runs
    BY ItemFacts DEF RunOK
  <1>3. /\ x \in [id : ui16, descriptors : Seq(DescLength), run : Runs]
        /\ x.id = items[i].id /\ x.descriptors = items[i].descriptors /\ x.run = r
    BY <1>1, <1>2
  <1>4. items' = [items EXCEPT ![i] = x]
    BY <1>1
  <1>5. /\ items' \in Seq([id : ui16, descriptors : Seq(DescLength), run : Runs])
        /\ Len(items') = Len(items) /\ DOMAIN items' = DOMAIN items
        /\ items'[i] = x /\ \A j \in DOMAIN items : j # i => items'[j] = items[j]
    <2>1. PICK S : S = [id : ui16, descriptors : Seq(DescLength), run : Runs]
      OBVIOUS
    <2>2. items \in Seq(S) /\ x \in S
      BY <1>3, <2>1 DEF ExtInv
    <2>3. /\ items' \in Seq(S) /\ Len(items') = Len(items) /\ DOMAIN items' = DOMAIN items
          /\ items'[i] = x /\ \A j \in DOMAIN items : j # i => items'[j] = items[j]
      BY ONLY i \in DOMAIN items, <1>4, <2>2, ReplaceOne
    <2> QED
      BY <2>1, <2>3
  <1>6. ItemOK(x, length)
    BY <1>3, ItemFacts DEF ItemOK
  <1>7. \A j \in DOMAIN items : ItemOK(items'[j], length')
    BY <1>5, <1>6 DEF ExtInv
  <1>8. ExtInv'
    BY <1>5, <1>7 DEF ExtInv
  <1> QED
    BY <1>3, <1>5, <1>8 DEF OnlyRun

\* A longer table keeps its items.
LEMMA LongerExt ==
  ASSUME ExtInv, UNCHANGED << items, desc_loop >>, length \in Int, length' \in Int,
         length <= length'
  PROVE  ExtInv'
  <1>1. ASSUME NEW i \in DOMAIN items PROVE ItemOK(items[i], length')
    BY ItemFacts DEF ItemOK
  <1> QED
    BY <1>1 DEF ExtInv

-----------------------------------------------------------------------------
(* The application's calls.                                                *)

\* The item that a call is about is one of the list.
LEMMA Found ==
  ASSUME ExtInv, NEW list, list \subseteq DOMAIN items
  PROVE  /\ list # {} => Max(list) \in list
         /\ \A id : contains(list, id) => find(list, id) \in list
  <1>1. list # {} => Max(list) \in list
    <2> SUFFICES ASSUME list # {} PROVE Max(list) \in list
      OBVIOUS
    <2>1. Len(items) \in Nat /\ list \in SUBSET (0 .. Len(items))
      BY DEF ExtInv
    <2>2. PICK x \in list : \A y \in list : y <= x
      BY <2>1, GreatestNatural
    <2>3. \A y \in list : x >= y
      BY <2>1, <2>2
    <2> QED
      BY <2>3 DEF Max
  <1>2. ASSUME NEW id, contains(list, id) PROVE find(list, id) \in list
    <2>1. PICK S : S = {i \in list : items[i].id = id}
      OBVIOUS
    <2>2. S \in SUBSET Nat /\ S # {}
      BY <1>2, <2>1, ItemFacts DEF contains
    <2>3. PICK x \in S : \A y \in S : x <= y
      BY <2>2, LeastNatural
    <2>4. find(list, id) = CHOOSE z \in S : \A y \in S : z =< y
      BY <2>1 DEF find, Min
    <2> QED
      BY <2>1, <2>3, <2>4
  <1> QED
    BY <1>1, <1>2

\* An item added has no descriptors, and nothing of it is written.
LEMMA AddItemExt ==
  ASSUME NEW P, NEW private_bit, DriverInv(P, private_bit), ExtInv,
         NEW list, NEW id, NEW id_field \in ui16, NEW base_len \in Nat,
         addItem(list, id, id_field, base_len)
  PROVE  /\ DriverInv(P, private_bit)' /\ ExtInv'
         /\ UNCHANGED << attributes, driver, desc_loop >> /\ state = "IDLE"
         /\ Len(items') = Len(items) + 1
         /\ \A j \in DOMAIN items : items'[j] = items[j]
         /\ items'[Len(items) + 1]
              = [id |-> id_field, descriptors |-> << >>, run |-> ItemContext]
  <1>1. /\ state = "IDLE" /\ incLength(base_len)
        /\ items' = Append(items, [id |-> id_field, descriptors |-> << >>, run |-> ItemContext])
        /\ UNCHANGED << attributes, driver, desc_loop >>
    BY DEF addItem
  <1>2. length \in ui16
    BY DEF DriverInv, DriverTypes, PsiTypeOK
  <1>3. length' \in ui16 /\ length \in Int /\ length' \in Int /\ length <= length'
        /\ 0 <= length'
    BY <1>1, <1>2, IncLength, Ui16 DEF incLength
  <1>4. DriverInv(P, private_bit)'
    BY <1>1, <1>3, AddDriver
  <1>5. PICK x : x = [id |-> id_field, descriptors |-> << >>, run |-> ItemContext]
    OBVIOUS
  <1>6. ItemContext \in Runs /\ RunOK(ItemContext, 0)
    BY DEF ItemContext, Runs, RunOK
  <1>7. /\ x \in [id : ui16, descriptors : Seq(DescLength), run : Runs]
        /\ x.run = ItemContext /\ Len(x.descriptors) = 0
    BY <1>5, <1>6
  <1>8. ItemOK(x, length')
    BY <1>3, <1>6, <1>7 DEF ItemOK
  <1>9. /\ items' \in Seq([id : ui16, descriptors : Seq(DescLength), run : Runs])
        /\ Len(items') = Len(items) + 1 /\ DOMAIN items' = DOMAIN items \cup {Len(items) + 1}
        /\ \A j \in DOMAIN items : items'[j] = items[j]
        /\ items'[Len(items) + 1] = x
    <2>1. PICK S : S = [id : ui16, descriptors : Seq(DescLength), run : Runs]
      OBVIOUS
    <2>2. items \in Seq(S) /\ x \in S /\ items' = Append(items, x)
      BY <1>1, <1>5, <1>7, <2>1 DEF ExtInv
    <2>3. /\ items' \in Seq(S) /\ Len(items') = Len(items) + 1
          /\ DOMAIN items' = DOMAIN items \cup {Len(items) + 1}
          /\ \A j \in DOMAIN items : items'[j] = items[j]
          /\ items'[Len(items) + 1] = x
      BY ONLY <2>2
    <2> QED
      BY <2>1, <2>3
  <1>10. ASSUME NEW i \in DOMAIN items' PROVE ItemOK(items'[i], length')
    <2>1. CASE i \in DOMAIN items
      BY <1>3, <1>9, <2>1, ItemFacts DEF ItemOK
    <2>2. CASE i = Len(items) + 1
      BY <1>8, <1>9, <2>2
    <2> QED
      BY <1>9, <2>1, <2>2
  <1>11. ExtInv'
    BY <1>1, <1>9, <1>10 DEF ExtInv
  <1> QED
    BY <1>1, <1>4, <1>5, <1>9, <1>11

\* A descriptor added to an item leaves its context, and the other items.
LEMMA AddDescExt ==
  ASSUME NEW P, NEW private_bit, DriverInv(P, private_bit), ExtInv,
         NEW i \in DOMAIN items, NEW d_len \in DescLength, addDescTo(i, d_len)
  PROVE  /\ DriverInv(P, private_bit)' /\ ExtInv'
         /\ UNCHANGED << attributes, driver, desc_loop >>
         /\ Len(items') = Len(items)
         /\ \A j \in DOMAIN items : /\ items'[j].id = items[j].id
                                    /\ items'[j].run = items[j].run
  <1>1. /\ incLength(d_len)
        /\ items' = [items EXCEPT ![i].descriptors = Append(@, d_len)]
        /\ UNCHANGED << attributes, driver, desc_loop >>
    BY DEF addDescTo
  <1>2. length \in ui16 /\ d_len \in Nat /\ 2 <= d_len
    BY DescLengths DEF DriverInv, DriverTypes, PsiTypeOK
  <1>3. length' \in ui16 /\ length \in Int /\ length' \in Int /\ length + 2 <= length'
    BY <1>1, <1>2, IncLength, Ui16 DEF incLength
  <1>4. DriverInv(P, private_bit)'
    BY <1>1, <1>3, AddDriver
  <1>5. PICK x : x = [items[i] EXCEPT !.descriptors = Append(@, d_len)]
    OBVIOUS
  <1>6. /\ items[i] \in [id : ui16, descriptors : Seq(DescLength), run : Runs]
        /\ Append(items[i].descriptors, d_len) \in Seq(DescLength)
        /\ Len(Append(items[i].descriptors, d_len)) = Len(items[i].descriptors) + 1
    BY ItemFacts
  <1>7. /\ x \in [id : ui16, descriptors : Seq(DescLength), run : Runs]
        /\ x.run = items[i].run /\ x.id = items[i].id
        /\ Len(x.descriptors) = Len(items[i].descriptors) + 1
    BY <1>5, <1>6
  <1>8. ItemOK(x, length')
    <2>1. /\ RunOK(items[i].run, Len(items[i].descriptors))
          /\ 2 * Len(items[i].descriptors) <= length /\ Len(items[i].descriptors) \in Nat
      BY ItemFacts
    <2>2. RunOK(x.run, Len(x.descriptors))
      BY <1>7, <2>1 DEF RunOK
    <2>3. 2 * Len(x.descriptors) <= length'
      BY <1>3, <1>7, <2>1
    <2> QED
      BY <1>7, <2>2, <2>3 DEF ItemOK
  <1>9. /\ items' \in Seq([id : ui16, descriptors : Seq(DescLength), run : Runs])
        /\ Len(items') = Len(items) /\ DOMAIN items' = DOMAIN items
        /\ items'[i] = x /\ \A j \in DOMAIN items : j # i => items'[j] = items[j]
    <2>1. PICK S : S = [id : ui16, descriptors : Seq(DescLength), run : Runs]
      OBVIOUS
    <2>2. items \in Seq(S) /\ x \in S /\ items' = [items EXCEPT ![i] = x]
      BY <1>1, <1>5, <1>7, <2>1 DEF ExtInv
    <2>3. /\ items' \in Seq(S) /\ Len(items') = Len(items) /\ DOMAIN items' = DOMAIN items
          /\ items'[i] = x /\ \A j \in DOMAIN items : j # i => items'[j] = items[j]
      BY ONLY i \in DOMAIN items, <2>2, ReplaceOne
    <2> QED
      BY <2>1, <2>3
  <1>10. ASSUME NEW j \in DOMAIN items PROVE ItemOK(items'[j], length')
    <2>1. CASE j # i
      BY <1>3, <1>9, <2>1, ItemFacts DEF ItemOK
    <2>2. CASE j = i
      BY <1>8, <1>9, <2>2
    <2> QED
      BY <2>1, <2>2
  <1>11. ExtInv'
    BY <1>1, <1>9, <1>10 DEF ExtInv
  <1> QED
    BY <1>1, <1>4, <1>7, <1>9, <1>11

-----------------------------------------------------------------------------
(* ListItem::write_section.                                                *)

ItemKinds == {"item", "desc_loop_len", "desc"}

\* An entry of one of the table's kinds.
LEMMA EntryType ==
  ASSUME NEW K, NEW kind \in K, NEW owner \in Nat, NEW n \in ui16
  PROVE  /\ Entry(kind, owner, n) \in Entries(K)
         /\ Entry(kind, owner, n).kind = kind
         /\ Entry(kind, owner, n).owner = owner
         /\ Entry(kind, owner, n).n = n
  BY DEF Entry, Entries

\* All that changes of the stream is the section being written.
OnlyCur ==
  /\ UNCHANGED << first, builds, cur_sec >>
  /\ Len(stream') = Len(stream)
  /\ \A j \in 1 .. Len(stream) - 1 : stream'[j] = stream[j]

\* The section being written is one of the stream's.
LEMMA CurWidthRest ==
  ASSUME NEW P, NEW private_bit, DriverRest(P, private_bit), state = "WRITE_SEC",
         DriverTypes(P)', OnlyCur
  PROVE  cur'.data_length < 65536
  <1>1. Len(stream) \in Nat /\ first \in 1 .. Len(stream)
    BY RestFacts
  <1>2. cur' \in Sections(P)
    <2>1. stream' \in Seq(Sections(P)) /\ Len(stream') = Len(stream)
      BY DEF DriverTypes, OnlyCur
    <2> QED
      BY <1>1, <2>1 DEF cur
  <1> QED
    BY <1>2, SectionFieldTypes

\* The same when every byte counted is written.
LEMMA CurWidth ==
  ASSUME NEW P, NEW private_bit, DriverInv(P, private_bit), state = "WRITE_SEC",
         DriverInv(P, private_bit)', OnlyCur
  PROVE  cur'.data_length < 65536
  <1>1. DriverRest(P, private_bit) /\ DriverTypes(P)'
    BY DriverIsRest DEF DriverInv
  <1> QED
    BY <1>1, CurWidthRest

\* The header's two entries.
PutItem(p, i, header) ==
  Append(Append(p, Entry("item", i, header)), Entry("desc_loop_len", i, 0))

\* One more entry of any kind, in a section that has its header.
LEMMA PutEntryDriver ==
  ASSUME NEW K, NEW private_bit, DriverInv(Entries(K), private_bit),
         state = "WRITE_SEC", cur.data_length # 0,
         NEW x \in Entries(K), NEW len \in Nat, lengthFits(cur, len),
         WriteSecContinue(put(cur, x, len), (sec_bytes + len) % 65536),
         UNCHANGED << attributes, length >>
  PROVE  /\ DriverInv(Entries(K), private_bit)' /\ state' = "WRITE_SEC" /\ OnlyCur
         /\ cur'.payload = Append(cur.payload, x) /\ cur'.data_length # 0
         /\ cur'.data_length = cur.data_length + len
  <1>1. PICK P : P = Entries(K)
    OBVIOUS
  <1>2. cur \in Sections(P) /\ cur.payload \in Seq(P) /\ cur.data_length = sec_bytes + 3
        /\ cur.data_length \in Nat /\ sec_bytes \in Nat
    BY <1>1, CurFacts, CountedFacts, SectionFieldTypes
  <1>3. Append(cur.payload, x) \in Seq(P)
    BY <1>1, <1>2
  <1>4. PICK s : s = put(cur, x, len)
    OBVIOUS
  <1>5. /\ s \in Sections(P) /\ s.size = cur.size /\ s.crc = cur.crc
        /\ s.section_number = cur_sec /\ s.payload = Append(cur.payload, x)
        /\ s.data_length = sec_bytes + len + 3 /\ s.data_length <= s.size
        /\ HEADER_LEN <= s.data_length /\ s.data_length # 0
        /\ (sec_bytes + len) % 65536 = sec_bytes + len
    BY <1>1, <1>3, <1>4, PutCounted
  <1>6. sec_bytes + len \in ui16
    BY <1>2, <1>5, Ui16, SectionFieldTypes
  <1>7. WriteSecContinue(s, sec_bytes + len)
    BY <1>4, <1>5
  <1>8. DriverInv(P, private_bit)' /\ cur' = s /\ state' = "WRITE_SEC"
    BY <1>1, <1>5, <1>6, <1>7, ContinueDriver
  <1>9. stream' = ReplaceCur(s) /\ UNCHANGED << first, builds, cur_sec >>
    BY <1>7 DEF WriteSecContinue
  <1>10. OnlyCur
    BY <1>1, <1>5, <1>9, ReplaceCurFrame DEF OnlyCur
  <1> QED
    BY <1>1, <1>2, <1>5, <1>8, <1>10

\* So is an entry's value overwritten: nothing is counted.
LEMMA OverwriteFields ==
  ASSUME NEW K, NEW s \in Sections(Entries(K)), NEW pos \in Nat, NEW d \in ui16
  PROVE  /\ overwrite(s, pos, d) \in Sections(Entries(K))
         /\ overwrite(s, pos, d).size = s.size
         /\ overwrite(s, pos, d).data_length = s.data_length
         /\ overwrite(s, pos, d).crc = s.crc
         /\ overwrite(s, pos, d).section_number = s.section_number
         /\ overwrite(s, pos, d).payload = [s.payload EXCEPT ![pos].n = d]
  <1>1. PICK p : p = [s.payload EXCEPT ![pos].n = d]
    OBVIOUS
  <1>2. s.payload \in Seq(Entries(K))
    BY SectionFieldTypes
  <1>3. p \in Seq(Entries(K))
    <2>1. DOMAIN p = 1 .. Len(s.payload) /\ Len(s.payload) \in Nat
      BY <1>1, <1>2
    <2>2. ASSUME NEW k \in 1 .. Len(s.payload) PROVE p[k] \in Entries(K)
      <3>1. s.payload[k] \in Entries(K)
        BY <1>2
      <3>2. p[k] = IF k = pos THEN [s.payload[k] EXCEPT !.n = d] ELSE s.payload[k]
        BY <1>1, <2>1
      <3> QED
        BY <3>1, <3>2 DEF Entries
    <2>3. p = [k \in 1 .. Len(s.payload) |-> p[k]]
      BY <1>1, <2>1
    <2> QED
      BY <2>1, <2>2, <2>3
  <1>4. overwrite(s, pos, d) = [s EXCEPT !.payload = p]
    BY <1>1 DEF overwrite, Sections
  <1> QED
    BY <1>1, <1>3, <1>4 DEF Sections

\* Two entries written at once.
LEMMA PutTwoDriver ==
  ASSUME NEW K, NEW private_bit, DriverInv(Entries(K), private_bit),
         state = "WRITE_SEC", cur.data_length # 0,
         NEW x \in Entries(K), NEW y \in Entries(K), NEW m \in Nat, NEW n \in Nat,
         NEW len \in Nat, len = m + n, lengthFits(cur, len),
         WriteSecContinue(put(put(cur, x, m), y, n), (sec_bytes + len) % 65536),
         UNCHANGED << attributes, length >>
  PROVE  /\ DriverInv(Entries(K), private_bit)' /\ state' = "WRITE_SEC" /\ OnlyCur
         /\ cur'.payload = Append(Append(cur.payload, x), y) /\ cur'.data_length # 0
         /\ cur'.data_length = cur.data_length + len
  <1>1. PICK P : P = Entries(K)
    OBVIOUS
  <1>2. cur \in Sections(P) /\ cur.payload \in Seq(P) /\ cur.data_length = sec_bytes + 3
        /\ cur.data_length \in Nat /\ sec_bytes \in Nat /\ cur.size \in Nat
    BY <1>1, CurFacts, CountedFacts, SectionFieldTypes
  <1>3. Append(cur.payload, x) \in Seq(P)
    BY <1>1, <1>2
  <1>4. PICK s : s = put(cur, x, m)
    OBVIOUS
  <1>5. lengthFits(cur, m)
    BY <1>2 DEF lengthFits
  <1>6. /\ s \in Sections(P) /\ s.size = cur.size /\ s.crc = cur.crc
        /\ s.section_number = cur_sec /\ s.payload = Append(cur.payload, x)
        /\ s.data_length = sec_bytes + m + 3 /\ HEADER_LEN <= s.data_length
    BY <1>1, <1>3, <1>4, <1>5, PutCounted
  <1>7. Append(s.payload, y) \in Seq(P)
    BY <1>1, <1>3, <1>6
  <1>8. lengthFits(s, n)
    BY <1>2, <1>6 DEF lengthFits
  <1>9. PICK t : t = put(s, y, n)
    OBVIOUS
  <1>10. /\ t \in Sections(P) /\ t.size = s.size /\ t.crc = s.crc
         /\ t.section_number = s.section_number /\ t.payload = Append(s.payload, y)
         /\ t.data_length = s.data_length + n
    <2> s \in Sections(P)
      BY <1>6
    <2>1. /\ put(s, y, n) \in Sections(P) /\ put(s, y, n).size = s.size
          /\ put(s, y, n).crc = s.crc
          /\ put(s, y, n).section_number = s.section_number
          /\ put(s, y, n).payload = Append(s.payload, y)
          /\ put(s, y, n).data_length = s.data_length + n
      BY ONLY s \in Sections(P), n \in Nat, <1>7, <1>8, PutFields
    <2> QED
      BY <1>9, <2>1
  <1>11. /\ t.data_length = sec_bytes + len + 3 /\ t.data_length <= t.size
         /\ HEADER_LEN <= t.data_length /\ t.data_length # 0
         /\ t.size \in Int /\ t.size < 65536
    BY <1>2, <1>6, <1>8, <1>10, SectionFieldTypes DEF lengthFits, HEADER_LEN
  <1>12. sec_bytes + len \in ui16 /\ (sec_bytes + len) % 65536 = sec_bytes + len
    BY <1>2, <1>11, Ui16, SMTT(20)
  <1>13. WriteSecContinue(t, sec_bytes + len)
    BY <1>4, <1>9, <1>12
  <1>14. DriverInv(P, private_bit)' /\ cur' = t /\ state' = "WRITE_SEC"
    BY <1>1, <1>6, <1>10, <1>11, <1>12, <1>13, ContinueDriver
  <1>15. stream' = ReplaceCur(t) /\ UNCHANGED << first, builds, cur_sec >>
    BY <1>13 DEF WriteSecContinue
  <1>16. OnlyCur
    BY <1>1, <1>10, <1>15, ReplaceCurFrame DEF OnlyCur
  <1> QED
    BY <1>1, <1>2, <1>6, <1>10, <1>11, <1>14, <1>16, SMTT(20)

\* A failed assert leaves everything as it is.
LEMMA AbortExt ==
  ASSUME NEW P, NEW private_bit, DriverInv(P, private_bit), ExtInv, state # "IDLE",
         Abort, UNCHANGED extVars, UNCHANGED << attributes, length >>
  PROVE  /\ DriverInv(P, private_bit)' /\ ExtInv' /\ state' = "ABORTED"
         /\ UNCHANGED << stream, builds, cur_sec, first, items, desc_loop >>
  <1>1. UNCHANGED << items, desc_loop >>
    BY DEF extVars
  <1>2. DriverInv(P, private_bit)'
    BY AbortDriver
  <1>3. ExtInv'
    BY <1>1 DEF ExtInv
  <1> QED
    BY <1>1, <1>2, <1>3 DEF Abort

\* The header is written, or the process dies.
LEMMA ItemHeadStep ==
  ASSUME NEW K, ItemKinds \subseteq K, NEW private_bit,
         DriverInv(Entries(K), private_bit), ExtInv,
         state = "WRITE_SEC", cur.data_length # 0, NEW i \in DOMAIN items,
         NEW base_len \in Nat, 2 <= base_len, NEW header \in ui16,
         ItemWriteHead(i, base_len, header), UNCHANGED << attributes, length >>
  PROVE  /\ DriverInv(Entries(K), private_bit)' /\ ExtInv' /\ OnlyCur /\ OnlyRun(i)
         /\ items[i].run.op_state \in {"INIT", "WRITE_HEAD"}
         /\ \/ state' = "ABORTED"
            \/ /\ state' = "WRITE_SEC" /\ lengthFits(cur, base_len)
               /\ cur'.payload = PutItem(cur.payload, i, header)
               /\ cur'.data_length = cur.data_length + base_len /\ cur'.data_length # 0
               /\ desc_loop' = [pos |-> Len(cur.payload) + 2, len |-> 0]
               /\ items'[i].run =
                    [op_state |-> IF items[i].run.d = 0 THEN "GET_DESC" ELSE "WRITE_DESC",
                     d |-> items[i].run.d,
                     d_iter |-> IF items[i].run.op_state = "INIT"
                                THEN Iter(1, Len(items[i].descriptors))
                                ELSE items[i].run.d_iter]
  <1>1. items[i].run.op_state \in {"INIT", "WRITE_HEAD"}
    BY DEF ItemWriteHead
  <1>2. CASE ~lengthFits(cur, base_len)
    <2>1. Abort /\ UNCHANGED extVars
      BY <1>2 DEF ItemWriteHead
    <2>2. /\ DriverInv(Entries(K), private_bit)' /\ ExtInv' /\ state' = "ABORTED"
          /\ UNCHANGED << stream, builds, cur_sec, first, items, desc_loop >>
      BY <2>1, AbortExt
    <2>3. OnlyCur /\ OnlyRun(i)
      BY <2>2 DEF OnlyCur, OnlyRun, ExtInv
    <2> QED
      BY <1>1, <2>2, <2>3
  <1>3. CASE lengthFits(cur, base_len)
    <2> DEFINE r == [op_state |-> IF items[i].run.d = 0 THEN "GET_DESC" ELSE "WRITE_DESC",
                     d |-> items[i].run.d,
                     d_iter |-> IF items[i].run.op_state = "INIT"
                                THEN Iter(1, Len(items[i].descriptors))
                                ELSE items[i].run.d_iter]
    <2>1. /\ WriteSecContinue(put(put(cur, Entry("item", i, header), base_len - 2),
                                  Entry("desc_loop_len", i, 0), 2),
                              (sec_bytes + base_len) % 65536)
          /\ desc_loop' = [pos |-> Len(cur.payload) + 2, len |-> 0]
          /\ items' = [items EXCEPT ![i].run = r]
      BY <1>3 DEF ItemWriteHead
    <2>2. i \in Nat /\ 0 \in ui16 /\ {"item", "desc_loop_len"} \subseteq K
          /\ base_len - 2 \in Nat /\ base_len = (base_len - 2) + 2
      BY ItemFacts, Ui16 DEF ItemKinds
    <2>3. /\ Entry("item", i, header) \in Entries(K)
          /\ Entry("desc_loop_len", i, 0) \in Entries(K)
      BY <2>2, EntryType
    <2>4. /\ DriverInv(Entries(K), private_bit)' /\ state' = "WRITE_SEC" /\ OnlyCur
          /\ cur'.payload = PutItem(cur.payload, i, header)
          /\ cur'.data_length = cur.data_length + base_len /\ cur'.data_length # 0
      BY <1>3, <2>1, <2>2, <2>3, PutTwoDriver, SMTT(20) DEF PutItem
    <2>5. RunOK(r, Len(items[i].descriptors))
      <3>1. /\ RunOK(items[i].run, Len(items[i].descriptors))
            /\ Len(items[i].descriptors) \in Nat
        BY ItemFacts
      <3>2. /\ Iter(1, Len(items[i].descriptors)) \in 0 .. Len(items[i].descriptors)
            /\ Iter(1, Len(items[i].descriptors)) # 0 => Iter(1, Len(items[i].descriptors)) = 1
        BY <3>1, Iterator, SMTT(20)
      <3>3. items[i].run.op_state = "INIT" => items[i].run.d = 0
        BY <3>1 DEF RunOK
      <3> QED
        BY <3>1, <3>2, <3>3 DEF RunOK, Runs
    <2>6. desc_loop' \in [pos : Nat, len : ui16]
      <3>1. cur.payload \in Seq(Entries(K))
        BY CurFacts, SectionFieldTypes
      <3>2. Len(cur.payload) + 2 \in Nat
        BY <3>1
      <3> QED
        BY <2>1, <2>2, <3>2
    <2>7. ExtInv' /\ OnlyRun(i) /\ items'[i].run = r
      <3> HIDE DEF r
      <3>1. length' = length /\ items' = [items EXCEPT ![i].run = r]
        BY <2>1
      <3> QED
        BY <2>5, <2>6, <3>1, RunExt
    <2> QED
      BY <1>1, <1>3, <2>1, <2>4, <2>7
  <1> QED
    BY <1>2, <1>3

\* A descriptor is fetched: it is pending, and the iterator past it.
LEMMA FetchedRun ==
  ASSUME ExtInv, NEW i \in DOMAIN items, ItemMore(i),
         NEW op_state \in {"WRITE_HEAD", "WRITE_DESC"}, NEW r,
         r = [op_state |-> op_state, d |-> items[i].run.d_iter,
              d_iter |-> Iter(items[i].run.d_iter + 1, Len(items[i].descriptors))]
  PROVE  /\ RunOK(r, Len(items[i].descriptors)) /\ r.d # 0
         /\ ItemFetched(i, op_state) = [items EXCEPT ![i].run = r]
  <1>1. /\ RunOK(items[i].run, Len(items[i].descriptors)) /\ items[i].run.d_iter # 0
        /\ Len(items[i].descriptors) \in Nat
    BY ItemFacts DEF ItemMore
  <1>2. PICK n \in Nat, m \in Nat :
          /\ n = Len(items[i].descriptors) /\ m = items[i].run.d_iter /\ m # 0 /\ m <= n
    BY <1>1 DEF RunOK
  <1>3. Iter(m + 1, n) \in 0 .. n /\ (Iter(m + 1, n) # 0 => Iter(m + 1, n) = m + 1)
    <2>1. m + 1 \in Nat /\ m + 1 # 0
      OBVIOUS
    <2> QED
      BY <2>1, Iterator
  <1>4. r = [op_state |-> op_state, d |-> m, d_iter |-> Iter(m + 1, n)]
    BY <1>2
  <1>5. RunOK(r, n) /\ r.d # 0
    BY <1>2, <1>3, <1>4 DEF RunOK, Runs
  <1>6. ItemFetched(i, op_state) = [items EXCEPT ![i].run = r]
    BY <1>4, <1>2 DEF ItemFetched
  <1> QED
    BY <1>2, <1>5, <1>6

\* Nothing is written when a descriptor that fits is fetched.
LEMMA ItemFitsStep ==
  ASSUME NEW P, NEW private_bit, DriverInv(P, private_bit), ExtInv,
         NEW i \in DOMAIN items, ItemGetDescFits(i), UNCHANGED << attributes, length >>
  PROVE  /\ DriverInv(P, private_bit)' /\ ExtInv' /\ OnlyRun(i)
         /\ UNCHANGED << stream, state, builds, first, cur_sec, sec_bytes, desc_loop >>
         /\ items[i].run.op_state = "GET_DESC" /\ items[i].run.d_iter # 0
         /\ items'[i].run =
              [op_state |-> "WRITE_DESC", d |-> items[i].run.d_iter,
               d_iter |-> Iter(items[i].run.d_iter + 1, Len(items[i].descriptors))]
         /\ sec_bytes + items[i].descriptors[items[i].run.d_iter] <= getMaxDataLen
  <1>1. /\ ItemMore(i) /\ ~ ItemTooLong(i) /\ items' = ItemFetched(i, "WRITE_DESC")
        /\ UNCHANGED << driver, desc_loop >>
    BY DEF ItemGetDescFits
  <1>2. PICK r :
          r = [op_state |-> "WRITE_DESC", d |-> items[i].run.d_iter,
               d_iter |-> Iter(items[i].run.d_iter + 1, Len(items[i].descriptors))]
    OBVIOUS
  <1>3. RunOK(r, Len(items[i].descriptors)) /\ items' = [items EXCEPT ![i].run = r]
    BY <1>1, <1>2, FetchedRun
  <1>4. ExtInv' /\ OnlyRun(i) /\ items'[i].run = r
    <2>1. desc_loop' \in [pos : Nat, len : ui16] /\ length' = length
      BY <1>1 DEF ExtInv
    <2> QED
      BY <1>3, <2>1, RunExt
  <1>5. length' \in ui16 /\ UNCHANGED << attributes, driver >>
    BY <1>1 DEF DriverInv, DriverTypes, PsiTypeOK
  <1>6. DriverInv(P, private_bit)'
    BY <1>5, AddDriver
  <1>7. sec_bytes + items[i].descriptors[items[i].run.d_iter] <= getMaxDataLen
    <2>1. /\ sec_bytes \in Int /\ items[i].descriptors[items[i].run.d_iter] \in Int
          /\ getMaxDataLen \in Int
      <3>1. sec_bytes \in ui16 /\ max_section_length \in ui16
        BY DEF DriverInv, DriverTypes, PsiTypeOK
      <3>2. getMaxDataLen \in Int
        BY <3>1, Ui16 DEF getMaxDataLen, maxDataLen, CRC_LEN
      <3>3. /\ items[i].descriptors \in Seq(DescLength)
            /\ items[i].run.d_iter \in 1 .. Len(items[i].descriptors)
        BY <1>1, ItemFacts DEF ItemMore, RunOK
      <3>4. items[i].descriptors[items[i].run.d_iter] \in DescLength
        BY <3>3
      <3> QED
        BY <3>1, <3>2, <3>4, Ui16, DescLengths
    <2> QED
      BY <1>1, <2>1 DEF ItemTooLong
  <1> QED
    BY <1>1, <1>2, <1>4, <1>6, <1>7 DEF ItemMore, driver

\* A descriptor that does not fit is left pending, and the loop is closed.
LEMMA ItemFullStep ==
  ASSUME ExtInv, NEW i \in DOMAIN items, ItemGetDescFull(i), length' = length
  PROVE  /\ ExtInv' /\ OnlyRun(i) /\ desc_loop' = NoLoop
         /\ items[i].run.op_state = "GET_DESC" /\ items[i].run.d_iter # 0
         /\ items'[i].run =
              [op_state |-> "WRITE_HEAD", d |-> items[i].run.d_iter,
               d_iter |-> Iter(items[i].run.d_iter + 1, Len(items[i].descriptors))]
  <1>1. /\ ItemMore(i) /\ items' = ItemFetched(i, "WRITE_HEAD") /\ desc_loop' = NoLoop
    BY DEF ItemGetDescFull
  <1>2. PICK r :
          r = [op_state |-> "WRITE_HEAD", d |-> items[i].run.d_iter,
               d_iter |-> Iter(items[i].run.d_iter + 1, Len(items[i].descriptors))]
    OBVIOUS
  <1>3. RunOK(r, Len(items[i].descriptors)) /\ items' = [items EXCEPT ![i].run = r]
    BY <1>1, <1>2, FetchedRun
  <1>4. desc_loop' \in [pos : Nat, len : ui16]
    BY <1>1, Ui16 DEF NoLoop
  <1>5. ExtInv' /\ OnlyRun(i) /\ items'[i].run = r
    BY <1>3, <1>4, RunExt
  <1> QED
    BY <1>1, <1>2, <1>5 DEF ItemMore

\* With no more descriptors the item's context is as it was before it was written.
LEMMA ItemEndStep ==
  ASSUME ExtInv, NEW i \in DOMAIN items, ItemGetDescEnd(i), length' = length
  PROVE  /\ ExtInv' /\ OnlyRun(i) /\ desc_loop' = NoLoop
         /\ items[i].run.op_state = "GET_DESC" /\ items[i].run.d_iter = 0
         /\ items'[i].run = ItemContext
  <1>1. /\ items[i].run.op_state = "GET_DESC" /\ ~ ItemMore(i)
        /\ items' = [items EXCEPT ![i].run = ItemContext] /\ desc_loop' = NoLoop
    BY DEF ItemGetDescEnd
  <1>2. PICK r : r = ItemContext
    OBVIOUS
  <1>3. RunOK(r, Len(items[i].descriptors))
    BY <1>2, ItemFacts DEF RunOK, Runs, ItemContext
  <1>4. desc_loop' \in [pos : Nat, len : ui16]
    BY <1>1, Ui16 DEF NoLoop
  <1>5. items' = [items EXCEPT ![i].run = r]
    BY <1>1, <1>2
  <1>6. ExtInv' /\ OnlyRun(i) /\ items'[i].run = r
    BY <1>3, <1>4, <1>5, RunExt
  <1> QED
    BY <1>1, <1>2, <1>6 DEF ItemMore

\* The pending descriptor is written and counted, or the process dies.
LEMMA ItemDescStep ==
  ASSUME NEW K, ItemKinds \subseteq K, NEW private_bit,
         DriverInv(Entries(K), private_bit), ExtInv,
         state = "WRITE_SEC", cur.data_length # 0, NEW i \in DOMAIN items,
         ItemWriteDesc(i), UNCHANGED << attributes, length >>
  PROVE  /\ DriverInv(Entries(K), private_bit)' /\ ExtInv' /\ OnlyCur /\ OnlyRun(i)
         /\ items[i].run.op_state = "WRITE_DESC"
         /\ items[i].run.d \in DOMAIN items[i].descriptors
         /\ \/ state' = "ABORTED"
            \/ /\ state' = "WRITE_SEC"
               /\ cur'.payload = Append(cur.payload, Entry("desc", i, items[i].run.d))
               /\ cur'.data_length = cur.data_length + ItemDescLen(i)
               /\ cur'.data_length # 0
               /\ desc_loop'
                    = [pos |-> desc_loop.pos, len |-> (desc_loop.len + ItemDescLen(i)) % 65536]
               /\ items'[i].run = [op_state |-> "GET_DESC", d |-> items[i].run.d,
                                   d_iter |-> items[i].run.d_iter]
  <1>1. items[i].run.op_state = "WRITE_DESC"
    BY DEF ItemWriteDesc
  <1>2. /\ RunOK(items[i].run, Len(items[i].descriptors))
        /\ items[i].descriptors \in Seq(DescLength) /\ i \in Nat
        /\ 2 * Len(items[i].descriptors) <= length /\ Len(items[i].descriptors) \in Nat
    BY ItemFacts
  <1>3. items[i].run.d \in 1 .. Len(items[i].descriptors)
    BY <1>1, <1>2 DEF RunOK
  <1>4. ItemDescLen(i) \in DescLength
    BY <1>2, <1>3 DEF ItemDescLen
  <1>5. ItemDescLen(i) \in Nat
    BY <1>4, DescLengths
  <1>6. CASE ~ lengthFits(cur, ItemDescLen(i))
    <2>1. Abort /\ UNCHANGED extVars
      BY <1>6 DEF ItemWriteDesc
    <2>2. /\ DriverInv(Entries(K), private_bit)' /\ ExtInv' /\ state' = "ABORTED"
          /\ UNCHANGED << stream, builds, cur_sec, first, items, desc_loop >>
      BY <2>1, AbortExt
    <2>3. OnlyCur /\ OnlyRun(i)
      BY <2>2 DEF OnlyCur, OnlyRun, ExtInv
    <2> QED
      BY <1>1, <1>2, <1>3, <2>2, <2>3
  <1>7. CASE lengthFits(cur, ItemDescLen(i))
    <2>1. PICK r : r = [op_state |-> "GET_DESC", d |-> items[i].run.d,
                        d_iter |-> items[i].run.d_iter]
      OBVIOUS
    <2>2. PICK x : x = Entry("desc", i, items[i].run.d)
      OBVIOUS
    <2>3. /\ WriteSecContinue(put(cur, x, ItemDescLen(i)), (sec_bytes + ItemDescLen(i)) % 65536)
          /\ desc_loop' = [desc_loop EXCEPT !.len = (@ + ItemDescLen(i)) % 65536]
          /\ items' = [items EXCEPT ![i].run.op_state = "GET_DESC"]
      BY <1>7, <2>2 DEF ItemWriteDesc
    <2>4. x \in Entries(K)
      <3>1. length \in ui16
        BY DEF DriverInv, DriverTypes, PsiTypeOK
      <3>2. items[i].run.d \in ui16
        BY <1>2, <1>3, <3>1, Ui16
      <3>3. "desc" \in K
        BY DEF ItemKinds
      <3> QED
        BY <1>2, <2>2, <3>2, <3>3, EntryType
    <2>5. /\ DriverInv(Entries(K), private_bit)' /\ state' = "WRITE_SEC" /\ OnlyCur
          /\ cur'.payload = Append(cur.payload, x) /\ cur'.data_length # 0
          /\ cur'.data_length = cur.data_length + ItemDescLen(i)
      BY <1>5, <1>7, <2>3, <2>4, PutEntryDriver
    <2>6. /\ desc_loop'
               = [pos |-> desc_loop.pos, len |-> (desc_loop.len + ItemDescLen(i)) % 65536]
          /\ desc_loop' \in [pos : Nat, len : ui16]
      <3>1. desc_loop \in [pos : Nat, len : ui16]
        BY DEF ExtInv
      <3>2. desc_loop.len \in Nat /\ desc_loop.pos \in Nat
        BY <3>1, Ui16
      <3>3. PICK v : v = (desc_loop.len + ItemDescLen(i)) % 65536
        OBVIOUS
      <3>4. v \in ui16
        BY <1>5, <3>2, <3>3, Ui16
      <3>5. desc_loop' = [desc_loop EXCEPT !.len = v]
        BY <2>3, <3>3
      <3>6. desc_loop' = [pos |-> desc_loop.pos, len |-> v]
        BY <3>1, <3>5
      <3> QED
        BY <3>2, <3>3, <3>4, <3>6
    <2>7. RunOK(r, Len(items[i].descriptors))
      BY <1>2, <2>1 DEF RunOK, Runs
    <2>8. items' = [items EXCEPT ![i].run = r]
      <3>1. r = [items[i].run EXCEPT !.op_state = "GET_DESC"]
        BY <1>2, <2>1 DEF RunOK, Runs
      <3> QED
        BY <2>3, <3>1
    <2>9. ExtInv' /\ OnlyRun(i) /\ items'[i].run = r
      <3>1. length' = length /\ desc_loop' \in [pos : Nat, len : ui16]
        BY <2>6
      <3> QED
        BY ONLY ExtInv, i \in DOMAIN items, <2>7, <2>8, <3>1, RunExt
    <2> QED
      BY <1>1, <1>2, <1>3, <2>1, <2>2, <2>5, <2>6, <2>9
  <1> QED
    BY <1>6, <1>7

-----------------------------------------------------------------------------
(***************************************************************************)
(* What a payload is while items are written into it.  D is the sequence   *)
(* of the items' descriptors, F[i][n] how n bytes of item i are announced. *)
(* All loops but the one at l, if l is not 0, say what follows them; the   *)
(* one at l is open: its descriptors are the last ones, len bytes of them. *)
(***************************************************************************)
LenIn(D, e, base_len) ==
  IF e.kind = "desc" THEN D[e.owner][e.n] ELSE IF e.kind = "item" THEN base_len ELSE 0

BytesIn(D, p, base_len) == Total([k \in DOMAIN p |-> LenIn(D, p[k], base_len)])

LoopIn(D, p, l, e, base_len) == Total([k \in 1 .. e - l |-> LenIn(D, p[l + k], base_len)])

LoopRead(D, F, p, k) ==
  \A e \in k .. Len(p) : LoopEnds(p, k, e) => p[k].n = F[p[k].owner][LoopIn(D, p, k, e, 0)]

\* The entry at position k is in its place, whatever its value.
Placed(D, p, start, k) ==
  /\ p[k].kind \in ItemKinds /\ p[k].owner \in DOMAIN D
  /\ p[k].kind = "desc" => p[k].n \in DOMAIN D[p[k].owner]
  /\ k = start => p[k].kind = "item"
  /\ p[k].kind = "item" => k < Len(p) /\ p[k + 1].kind = "desc_loop_len"
  /\ p[k].kind # "item" => p[k].owner = p[k - 1].owner
  /\ p[k].kind = "desc_loop_len" => p[k - 1].kind = "item"

Loops(D, F, p, start, l, len) ==
  /\ \A k \in 1 .. start - 1 : k <= Len(p) => p[k].kind \notin ItemKinds
  /\ \A k \in start .. Len(p) :
       /\ Placed(D, p, start, k)
       /\ p[k].kind = "desc_loop_len" /\ k # l => LoopRead(D, F, p, k)
  /\ l # 0 => /\ l \in start .. Len(p) /\ p[l].kind = "desc_loop_len"
              /\ \A k \in l + 1 .. Len(p) : p[k].kind = "desc"
              /\ LoopIn(D, p, l, Len(p), 0) = len

\* The lengths of an item's descriptors are lengths.
Descs(D) == D \in Seq(Seq(DescLength))

\* Two sequences with the same elements.
LEMMA SameSeq ==
  ASSUME NEW S, NEW s \in Seq(S), NEW t \in Seq(S), Len(s) = Len(t),
         \A k \in 1 .. Len(s) : s[k] = t[k]
  PROVE  s = t
  OBVIOUS

\* The entry's length, in a payload in its place.
LEMMA LenInType ==
  ASSUME NEW D, Descs(D), NEW e, NEW base_len \in Nat,
         e.kind = "desc" => e.owner \in DOMAIN D /\ e.n \in DOMAIN D[e.owner]
  PROVE  LenIn(D, e, base_len) \in Nat
  <1>1. CASE e.kind = "desc"
    <2>1. D[e.owner] \in Seq(DescLength)
      BY <1>1 DEF Descs
    <2>2. D[e.owner][e.n] \in DescLength
      BY <1>1, <2>1
    <2> QED
      BY <1>1, <2>2, DescLengths DEF LenIn
  <1>2. CASE e.kind # "desc"
    BY <1>2 DEF LenIn
  <1> QED
    BY <1>1, <1>2

\* The sum over the entries of a loop does not see what is beyond it.
LEMMA LoopInSame ==
  ASSUME NEW D, NEW p, NEW q, NEW base_len, NEW l \in Nat, NEW e \in Nat,
         \A k \in l + 1 .. e : q[k] = p[k]
  PROVE  LoopIn(D, q, l, e, base_len) = LoopIn(D, p, l, e, base_len)
  <1>1. \A k \in 1 .. e - l : q[l + k] = p[l + k]
    OBVIOUS
  <1>2. [k \in 1 .. e - l |-> LenIn(D, q[l + k], base_len)] = [k \in 1 .. e - l |-> LenIn(D, p[l + k], base_len)]
    BY <1>1
  <1> QED
    BY <1>2 DEF LoopIn

\* An empty loop has no bytes.
LEMMA LoopInNone ==
  ASSUME NEW D, NEW p, NEW base_len, NEW l \in Nat
  PROVE  LoopIn(D, p, l, l, base_len) = 0
  <1>1. [k \in 1 .. l - l |-> LenIn(D, p[l + k], base_len)] = << >>
    OBVIOUS
  <1> QED
    BY <1>1, TotalAppend DEF LoopIn

\* A loop grows by the bytes of the descriptor it grows by.
LEMMA LoopInMore ==
  ASSUME NEW D, Descs(D), NEW p, NEW base_len, NEW l \in Nat, NEW e \in Nat, l <= e,
         \A k \in l + 1 .. e + 1 : LenIn(D, p[k], base_len) \in Nat
  PROVE  LoopIn(D, p, l, e + 1, base_len) = LoopIn(D, p, l, e, base_len) + LenIn(D, p[e + 1], base_len)
  <1>1. PICK n \in Nat : n = e - l
    OBVIOUS
  <1>2. PICK s : s = [k \in 1 .. n |-> LenIn(D, p[l + k], base_len)]
    OBVIOUS
  <1>3. PICK x : x = LenIn(D, p[e + 1], base_len)
    OBVIOUS
  <1>4. \A k \in 1 .. n + 1 : l + k \in l + 1 .. e + 1 /\ LenIn(D, p[l + k], base_len) \in Nat
    BY <1>1
  <1>5. s \in Seq(Nat) /\ Len(s) = n /\ x \in Nat
    <2>1. \A k \in 1 .. n : LenIn(D, p[l + k], base_len) \in Nat
      BY <1>4
    <2>2. x \in Nat
      BY <1>3
    <2> QED
      BY <1>2, <2>1, <2>2
  <1>6. [k \in 1 .. n + 1 |-> LenIn(D, p[l + k], base_len)] = Append(s, x)
    <2>1. PICK t : t = [k \in 1 .. n + 1 |-> LenIn(D, p[l + k], base_len)]
      OBVIOUS
    <2>2. t \in Seq(Nat) /\ Len(t) = n + 1
      BY <1>4, <2>1
    <2>3. l + (n + 1) = e + 1
      BY <1>1
    <2>4. t[n + 1] = x
      <3>1. n + 1 \in 1 .. n + 1
        OBVIOUS
      <3>2. t[n + 1] = LenIn(D, p[l + (n + 1)], base_len)
        BY <2>1, <3>1
      <3> QED
        BY <1>3, <2>3, <3>2
    <2>5. \A k \in 1 .. n : t[k] = s[k]
      BY <1>2, <2>1
    <2>6. Append(s, x) \in Seq(Nat) /\ Len(Append(s, x)) = n + 1
          /\ Append(s, x)[n + 1] = x /\ \A k \in 1 .. n : Append(s, x)[k] = s[k]
      BY <1>5
    <2>7. \A k \in 1 .. n + 1 : t[k] = Append(s, x)[k]
      BY <2>4, <2>5, <2>6
    <2>8. t = Append(s, x)
      BY <2>2, <2>6, <2>7, SameSeq
    <2> QED
      BY <2>1, <2>8
  <1>7. LoopIn(D, p, l, e + 1, base_len) = Total(Append(s, x))
    <2>1. (e + 1) - l = n + 1
      BY <1>1
    <2> QED
      BY <1>6, <2>1 DEF LoopIn
  <1>8. LoopIn(D, p, l, e, base_len) = Total(s)
    BY <1>1, <1>2 DEF LoopIn
  <1> QED
    BY <1>3, <1>5, <1>7, <1>8, TotalAppend

\* One more entry adds its bytes.
LEMMA BytesInAppend ==
  ASSUME NEW D, NEW T, NEW p \in Seq(T), NEW x \in T, NEW base_len \in Nat,
         \A k \in 1 .. Len(p) : LenIn(D, p[k], base_len) \in Nat,
         LenIn(D, x, base_len) \in Nat
  PROVE  BytesIn(D, Append(p, x), base_len) = BytesIn(D, p, base_len) + LenIn(D, x, base_len)
  <1>1. PICK q \in Seq(T) : q = Append(p, x)
    <2>1. Append(p, x) \in Seq(T)
      OBVIOUS
    <2> QED
      BY <2>1
  <1>2. PICK n \in Nat : n = Len(p)
    OBVIOUS
  <1>3. /\ Len(q) = n + 1 /\ q[n + 1] = x /\ \A k \in 1 .. n : q[k] = p[k]
        /\ DOMAIN p = 1 .. n /\ DOMAIN q = 1 .. n + 1
    BY <1>1, <1>2
  <1>4. PICK y \in Nat : y = LenIn(D, x, base_len)
    OBVIOUS
  <1>5. PICK s : s = [k \in 1 .. n |-> LenIn(D, p[k], base_len)]
    OBVIOUS
  <1>6. s \in Seq(Nat) /\ Len(s) = n
    BY <1>2, <1>5
  <1>7. PICK t : t = [k \in 1 .. n + 1 |-> LenIn(D, q[k], base_len)]
    OBVIOUS
  <1>8. t[n + 1] = y /\ \A k \in 1 .. n : t[k] = s[k]
    <2>1. n + 1 \in 1 .. n + 1
      OBVIOUS
    <2>2. t[n + 1] = y
      BY <1>3, <1>4, <1>7, <2>1
    <2>3. \A k \in 1 .. n : t[k] = s[k]
      BY <1>3, <1>5, <1>7
    <2> QED
      BY <2>2, <2>3
  <1>9. t \in Seq(Nat) /\ Len(t) = n + 1
    <2>1. ASSUME NEW k \in 1 .. n + 1 PROVE LenIn(D, q[k], base_len) \in Nat
      <3>1. CASE k = n + 1
        BY <1>3, <3>1
      <3>2. CASE k # n + 1
        <4>1. k \in 1 .. n
          BY <3>2
        <4> QED
          BY <1>2, <1>3, <4>1
      <3> QED
        BY <3>1, <3>2
    <2> QED
      BY <1>7, <2>1
  <1>10. t = Append(s, y)
    <2>1. Append(s, y) \in Seq(Nat) /\ Len(Append(s, y)) = n + 1
          /\ Append(s, y)[n + 1] = y /\ \A k \in 1 .. n : Append(s, y)[k] = s[k]
      BY <1>6
    <2>2. \A k \in 1 .. n + 1 : t[k] = Append(s, y)[k]
      BY <1>8, <2>1
    <2> QED
      BY <1>9, <2>1, <2>2, SameSeq
  <1>11. BytesIn(D, q, base_len) = Total(Append(s, y)) /\ BytesIn(D, p, base_len) = Total(s)
    BY <1>3, <1>5, <1>7, <1>10 DEF BytesIn
  <1> QED
    BY <1>1, <1>4, <1>6, <1>11, TotalAppend

\* What an entry's bytes do not depend on may change.
LEMMA BytesInSame ==
  ASSUME NEW D, NEW p, NEW q, NEW base_len, DOMAIN q = DOMAIN p,
         \A k \in DOMAIN p : LenIn(D, q[k], base_len) = LenIn(D, p[k], base_len)
  PROVE  BytesIn(D, q, base_len) = BytesIn(D, p, base_len)
  <1>1. [k \in DOMAIN q |-> LenIn(D, q[k], base_len)] = [k \in DOMAIN p |-> LenIn(D, p[k], base_len)]
    OBVIOUS
  <1> QED
    BY <1>1 DEF BytesIn

\* The bytes of a payload of items are natural numbers.
LEMMA LoopsLengths ==
  ASSUME NEW D, Descs(D), NEW F, NEW T, NEW p \in Seq(T), NEW start \in Nat, NEW l, NEW len,
         Loops(D, F, p, start, l, len), NEW base_len \in Nat
  PROVE  \A k \in 1 .. Len(p) : LenIn(D, p[k], base_len) \in Nat
  <1> SUFFICES ASSUME NEW k \in 1 .. Len(p) PROVE LenIn(D, p[k], base_len) \in Nat
    OBVIOUS
  <1>1. CASE k < start
    <2>1. p[k].kind # "desc"
      BY <1>1 DEF Loops, ItemKinds
    <2> QED
      BY <2>1, LenInType
  <1>2. CASE start <= k
    <2>1. Placed(D, p, start, k)
      BY <1>2 DEF Loops
    <2> QED
      BY <2>1, LenInType DEF Placed
  <1> QED
    BY <1>1, <1>2

\* Before the first item there is nothing to read.
LEMMA LoopsNone ==
  ASSUME NEW D, NEW F, NEW T, NEW p \in Seq(T), NEW start \in Nat, Len(p) < start,
         \A k \in 1 .. Len(p) : p[k].kind \notin ItemKinds
  PROVE  Loops(D, F, p, start, 0, 0)
  BY DEF Loops

\* An item's header closes the payload's last loop, and opens its own.
LEMMA LoopsHead ==
  ASSUME NEW D, Descs(D), NEW F, NEW T, NEW p \in Seq(T), NEW start \in Nat,
         1 <= start, start <= Len(p) + 1,
         Loops(D, F, p, start, 0, 0), NEW i \in DOMAIN D, NEW header,
         Entry("item", i, header) \in T, Entry("desc_loop_len", i, 0) \in T,
         NEW q, q = PutItem(p, i, header)
  PROVE  Loops(D, F, q, start, Len(p) + 2, 0)
  <1>1. PICK n \in Nat : n = Len(p)
    OBVIOUS
  <1>2. PICK x \in T, y \in T : x = Entry("item", i, header) /\ y = Entry("desc_loop_len", i, 0)
    OBVIOUS
  <1>3. q = Append(Append(p, x), y)
    BY <1>2 DEF PutItem
  <1>4. /\ q \in Seq(T) /\ Len(q) = n + 2 /\ q[n + 1] = x /\ q[n + 2] = y
        /\ \A k \in 1 .. n : q[k] = p[k]
    BY <1>1, <1>3
  <1>5. /\ x.kind = "item" /\ x.owner = i /\ y.kind = "desc_loop_len" /\ y.owner = i
    BY <1>2 DEF Entry
  <1>6. ASSUME NEW k \in start .. n + 2 PROVE Placed(D, q, start, k)
    <2>1. CASE k \in start .. n
      <3>1. Placed(D, p, start, k)
        BY <1>1, <2>1 DEF Loops
      <3>2. q[k] = p[k] /\ (k # start => k - 1 \in 1 .. n /\ q[k - 1] = p[k - 1])
        BY <1>4, <2>1
      <3>3. p[k].kind = "item" => k + 1 \in 1 .. n /\ q[k + 1] = p[k + 1]
        BY <1>1, <1>4, <2>1, <3>1 DEF Placed
      <3> QED
        BY <1>1, <1>4, <2>1, <3>1, <3>2, <3>3 DEF Placed
    <2>2. CASE k = n + 1
      BY <1>4, <1>5, <2>2 DEF Placed, ItemKinds
    <2>3. CASE k = n + 2
      <3>1. k - 1 = n + 1 /\ k # start
        BY <1>1, <2>3
      <3> QED
        BY <1>4, <1>5, <2>3, <3>1 DEF Placed, ItemKinds
    <2> QED
      BY <2>1, <2>2, <2>3
  <1>7. ASSUME NEW k \in start .. n + 2, q[k].kind = "desc_loop_len", k # n + 2
        PROVE  LoopRead(D, F, q, k)
    <2>1. k \in start .. n
      BY <1>4, <1>5, <1>7
    <2>2. q[k] = p[k] /\ k \in 1 .. n /\ k # 0
      BY <1>4, <2>1
    <2>3. LoopRead(D, F, p, k)
      BY <1>1, <1>7, <2>1, <2>2 DEF Loops
    <2> SUFFICES ASSUME NEW e \in k .. n + 2, LoopEnds(q, k, e)
                 PROVE  q[k].n = F[q[k].owner][LoopIn(D, q, k, e, 0)]
      BY <1>4 DEF LoopRead
    <2>4. e \in k .. n
      <3>1. n + 1 \notin k + 1 .. e
        BY <1>4, <1>5 DEF LoopEnds
      <3> QED
        BY <2>1, <3>1
    <2>5. LoopEnds(p, k, e)
      <3>1. \A j \in k + 1 .. e : p[j].kind = "desc"
        BY <1>4, <2>2, <2>4 DEF LoopEnds
      <3>2. e # n => p[e + 1].kind # "desc"
        <4> SUFFICES ASSUME e # n PROVE p[e + 1].kind # "desc"
          OBVIOUS
        <4>1. e + 1 \in 1 .. n /\ e # n + 2
          BY <2>2, <2>4
        <4> QED
          BY <1>4, <4>1 DEF LoopEnds
      <3> QED
        BY <1>1, <3>1, <3>2 DEF LoopEnds
    <2>6. LoopIn(D, q, k, e, 0) = LoopIn(D, p, k, e, 0)
      <3>1. k \in Nat /\ e \in Nat /\ \A j \in k + 1 .. e : q[j] = p[j]
        BY <1>4, <2>2, <2>4
      <3> QED
        BY <3>1, LoopInSame
    <2> QED
      BY <1>1, <2>2, <2>3, <2>4, <2>5, <2>6 DEF LoopRead
  <1>8. LoopIn(D, q, n + 2, n + 2, 0) = 0
    BY LoopInNone
  <1>9. \A k \in 1 .. start - 1 : k <= n + 2 => q[k].kind \notin ItemKinds
    <2> SUFFICES ASSUME NEW k \in 1 .. start - 1 PROVE q[k].kind \notin ItemKinds
      OBVIOUS
    <2>1. k \in 1 .. n
      BY <1>1
    <2> QED
      BY <1>1, <1>4, <2>1 DEF Loops
  <1>10. n + 2 \in start .. n + 2 /\ \A k \in (n + 2) + 1 .. n + 2 : q[k].kind = "desc"
    BY <1>1
  <1>11. Loops(D, F, q, start, n + 2, 0)
    BY <1>4, <1>5, <1>6, <1>7, <1>8, <1>9, <1>10 DEF Loops
  <1> QED
    BY <1>1, <1>11

\* A descriptor goes to the loop that is open.
LEMMA LoopsDesc ==
  ASSUME NEW D, Descs(D), NEW F, NEW T, NEW p \in Seq(T), NEW start \in Nat, 1 <= start,
         NEW l \in Nat, l # 0, NEW len, Loops(D, F, p, start, l, len),
         NEW i \in DOMAIN D, NEW n \in DOMAIN D[i], Entry("desc", i, n) \in T,
         p[Len(p)].owner = i, NEW q, q = Append(p, Entry("desc", i, n))
  PROVE  Loops(D, F, q, start, l, len + D[i][n])
  <1>1. PICK m \in Nat : m = Len(p)
    OBVIOUS
  <1>2. PICK x \in T : x = Entry("desc", i, n)
    OBVIOUS
  <1>3. q \in Seq(T) /\ Len(q) = m + 1 /\ q[m + 1] = x /\ \A k \in 1 .. m : q[k] = p[k]
    BY <1>1, <1>2
  <1>4. x.kind = "desc" /\ x.owner = i /\ x.n = n
    BY <1>2 DEF Entry
  <1>5. /\ l \in start .. m /\ p[l].kind = "desc_loop_len"
        /\ \A k \in l + 1 .. m : p[k].kind = "desc"
        /\ LoopIn(D, p, l, m, 0) = len
    BY <1>1 DEF Loops
  <1>6. ASSUME NEW k \in start .. m + 1 PROVE Placed(D, q, start, k)
    <2>1. CASE k \in start .. m
      <3>1. Placed(D, p, start, k)
        BY <1>1, <2>1 DEF Loops
      <3>2. q[k] = p[k] /\ (k # start => k - 1 \in 1 .. m /\ q[k - 1] = p[k - 1])
        BY <1>3, <2>1
      <3>3. p[k].kind = "item" => k + 1 \in 1 .. m /\ q[k + 1] = p[k + 1]
        BY <1>1, <1>3, <2>1, <3>1 DEF Placed
      <3> QED
        BY <1>1, <1>3, <2>1, <3>1, <3>2, <3>3 DEF Placed
    <2>2. CASE k = m + 1
      <3>1. k - 1 = m /\ m \in 1 .. m /\ k # start
        BY <1>5, <2>2
      <3> QED
        BY <1>1, <1>3, <1>4, <2>2, <3>1 DEF Placed, ItemKinds
    <2> QED
      BY <2>1, <2>2
  <1>7. ASSUME NEW k \in start .. m + 1, q[k].kind = "desc_loop_len", k # l
        PROVE  LoopRead(D, F, q, k)
    <2>1. k \in start .. m /\ k < l
      <3>1. k # m + 1
        BY <1>3, <1>4, <1>7
      <3>2. ~ (l < k)
        <4> SUFFICES ASSUME l < k PROVE FALSE
          OBVIOUS
        <4>1. l \in Nat /\ k \in Nat /\ l + 1 <= k /\ k <= m
          BY <3>1
        <4>2. k \in l + 1 .. m /\ k \in 1 .. m
          BY <4>1
        <4> QED
          BY <1>3, <1>5, <1>7, <4>2
      <3> QED
        BY <1>5, <1>7, <3>1, <3>2
    <2>2. q[k] = p[k] /\ k \in 1 .. m
      BY <1>3, <2>1
    <2>3. LoopRead(D, F, p, k)
      BY <1>1, <1>7, <2>1, <2>2 DEF Loops
    <2> SUFFICES ASSUME NEW e \in k .. m + 1, LoopEnds(q, k, e)
                 PROVE  q[k].n = F[q[k].owner][LoopIn(D, q, k, e, 0)]
      BY <1>3 DEF LoopRead
    <2>4. e \in k .. m /\ e < l
      <3>1. l \notin k + 1 .. e
        <4>1. q[l].kind = "desc_loop_len"
          BY <1>3, <1>5
        <4> QED
          BY <4>1 DEF LoopEnds
      <3> QED
        BY <1>5, <2>1, <3>1
    <2>5. LoopEnds(p, k, e)
      <3>1. \A j \in k + 1 .. e : p[j].kind = "desc"
        BY <1>3, <2>2, <2>4 DEF LoopEnds
      <3>2. e + 1 \in 1 .. m /\ e # m + 1 /\ e # m
        BY <1>5, <2>2, <2>4
      <3> QED
        BY <1>1, <1>3, <3>1, <3>2 DEF LoopEnds
    <2>6. LoopIn(D, q, k, e, 0) = LoopIn(D, p, k, e, 0)
      <3>1. k \in Nat /\ e \in Nat /\ \A j \in k + 1 .. e : q[j] = p[j]
        BY <1>3, <2>2, <2>4
      <3> QED
        BY ONLY <3>1, LoopInSame
    <2> QED
      BY <1>1, <2>2, <2>3, <2>4, <2>5, <2>6 DEF LoopRead
  <1>8. LoopIn(D, q, l, m + 1, 0) = len + D[i][n]
    <2>1. \A k \in l + 1 .. m + 1 : LenIn(D, q[k], 0) \in Nat
      <3>1. ASSUME NEW k \in l + 1 .. m + 1 PROVE LenIn(D, q[k], 0) \in Nat
        <4>1. Placed(D, q, start, k)
          BY <1>5, <1>6
        <4> QED
          BY <4>1, LenInType DEF Placed
      <3> QED
        BY <3>1
    <2>2. LoopIn(D, q, l, m + 1, 0) = LoopIn(D, q, l, m, 0) + LenIn(D, q[m + 1], 0)
      <3>1. l <= m
        BY <1>5
      <3> QED
        BY ONLY Descs(D), l \in Nat, m \in Nat, <2>1, <3>1, LoopInMore
    <2>3. LoopIn(D, q, l, m, 0) = LoopIn(D, p, l, m, 0)
      <3>1. \A k \in l + 1 .. m : q[k] = p[k]
        BY <1>3
      <3> QED
        BY ONLY l \in Nat, m \in Nat, <3>1, LoopInSame
    <2>4. LenIn(D, q[m + 1], 0) = D[i][n]
      BY <1>3, <1>4 DEF LenIn
    <2> QED
      BY <1>5, <2>2, <2>3, <2>4
  <1>9. \A k \in 1 .. start - 1 : k <= m + 1 => q[k].kind \notin ItemKinds
    <2> SUFFICES ASSUME NEW k \in 1 .. start - 1 PROVE q[k].kind \notin ItemKinds
      OBVIOUS
    <2>1. k \in 1 .. m
      BY <1>5
    <2> QED
      BY <1>1, <1>3, <2>1 DEF Loops
  <1>10. /\ l \in start .. m + 1 /\ q[l].kind = "desc_loop_len"
         /\ \A k \in l + 1 .. m + 1 : q[k].kind = "desc"
    <2>1. l \in 1 .. m
      BY <1>5
    <2>2. ASSUME NEW k \in l + 1 .. m + 1 PROVE q[k].kind = "desc"
      <3>1. CASE k = m + 1
        BY <1>3, <1>4, <3>1
      <3>2. CASE k # m + 1
        <4>1. k \in l + 1 .. m /\ k \in 1 .. m
          BY <3>2
        <4> QED
          BY <1>3, <1>5, <4>1
      <3> QED
        BY <3>1, <3>2
    <2> QED
      BY <1>3, <1>5, <2>1, <2>2
  <1>11. Loops(D, F, q, start, l, len + D[i][n])
    BY <1>3, <1>6, <1>7, <1>8, <1>9, <1>10 DEF Loops
  <1> QED
    BY <1>1, <1>11

\* Its length written, a loop is closed.
LEMMA LoopsPatch ==
  ASSUME NEW D, Descs(D), NEW F, NEW T, NEW p \in Seq(T), NEW start \in Nat, 1 <= start,
         NEW l \in Nat, l # 0, NEW len, Loops(D, F, p, start, l, len),
         NEW q \in Seq(T), Len(q) = Len(p), q[l].n = F[p[l].owner][len],
         \A k \in 1 .. Len(p) : q[k].kind = p[k].kind,
         \A k \in 1 .. Len(p) : q[k].owner = p[k].owner,
         \A k \in 1 .. Len(p) : k # l => q[k].n = p[k].n
  PROVE  Loops(D, F, q, start, 0, 0)
  <1>1. PICK m \in Nat : m = Len(p)
    OBVIOUS
  <1>2. Len(q) = m
    BY <1>1
  <1>3. /\ l \in start .. m /\ p[l].kind = "desc_loop_len"
        /\ \A k \in l + 1 .. m : p[k].kind = "desc"
        /\ LoopIn(D, p, l, m, 0) = len
    BY <1>1 DEF Loops
  <1>4. ASSUME NEW k \in 1 .. m, k # l PROVE q[k].n = p[k].n
    BY <1>1, <1>4
  <1>5. q[l].n = F[p[l].owner][len]
    BY <1>1, <1>3
  <1>6. ASSUME NEW k \in start .. m PROVE Placed(D, q, start, k)
    <2>1. Placed(D, p, start, k)
      BY <1>1 DEF Loops
    <2>2. k \in 1 .. m /\ (k # start => k - 1 \in 1 .. m)
      OBVIOUS
    <2>3. p[k].kind = "item" => k + 1 \in 1 .. m
      BY <1>1, <2>1, <2>2 DEF Placed
    <2>4. p[k].kind = "desc" => k # l
      BY <1>3
    <2> QED
      BY <1>1, <1>2, <1>4, <2>1, <2>2, <2>3, <2>4 DEF Placed
  <1>7. \A k \in 1 .. m : LenIn(D, q[k], 0) = LenIn(D, p[k], 0)
    <2> SUFFICES ASSUME NEW k \in 1 .. m PROVE LenIn(D, q[k], 0) = LenIn(D, p[k], 0)
      OBVIOUS
    <2>1. q[k].kind = p[k].kind /\ q[k].owner = p[k].owner
      BY <1>1
    <2>2. p[k].kind = "desc" => q[k].n = p[k].n
      BY <1>3, <1>4
    <2> QED
      BY <2>1, <2>2 DEF LenIn
  <1>8. ASSUME NEW k \in start .. m, NEW e \in k .. m
        PROVE  LoopIn(D, q, k, e, 0) = LoopIn(D, p, k, e, 0)
    <2>1. \A j \in 1 .. e - k : k + j \in 1 .. m
      OBVIOUS
    <2>2. [j \in 1 .. e - k |-> LenIn(D, q[k + j], 0)] = [j \in 1 .. e - k |-> LenIn(D, p[k + j], 0)]
      BY <1>7, <2>1
    <2> QED
      BY <2>2 DEF LoopIn
  <1>9. ASSUME NEW k \in start .. m, q[k].kind = "desc_loop_len"
        PROVE  LoopRead(D, F, q, k)
    <2> SUFFICES ASSUME NEW e \in k .. m, LoopEnds(q, k, e)
                 PROVE  q[k].n = F[q[k].owner][LoopIn(D, q, k, e, 0)]
      BY <1>2 DEF LoopRead
    <2>1. k \in 1 .. m /\ p[k].kind = "desc_loop_len" /\ q[k].owner = p[k].owner
      BY <1>1, <1>9
    <2>2. LoopEnds(p, k, e)
      <3>1. \A j \in k + 1 .. e : j \in 1 .. m
        BY <2>1
      <3>2. e # m => e + 1 \in 1 .. m
        BY <2>1
      <3> QED
        BY <1>1, <1>2, <3>1, <3>2 DEF LoopEnds
    <2>3. CASE k = l
      <3>1. e = m
        <4> SUFFICES ASSUME e # m PROVE FALSE
          OBVIOUS
        <4>1. e + 1 \in l + 1 .. m
          BY <2>3
        <4> QED
          BY <1>1, <1>3, <2>2, <4>1 DEF LoopEnds
      <3> QED
        BY <1>3, <1>5, <1>8, <2>1, <2>3, <3>1
    <2>4. CASE k # l
      <3>1. LoopRead(D, F, p, k)
        BY <1>1, <2>1, <2>4 DEF Loops
      <3>2. p[k].n = F[p[k].owner][LoopIn(D, p, k, e, 0)]
        BY <1>1, <2>2, <3>1 DEF LoopRead
      <3> QED
        BY <1>4, <1>8, <2>1, <2>4, <3>2
    <2> QED
      BY <2>3, <2>4
  <1>10. \A k \in 1 .. start - 1 : k <= m => q[k].kind \notin ItemKinds
    BY <1>1 DEF Loops
  <1> QED
    BY <1>2, <1>6, <1>9, <1>10 DEF Loops

\* A value patched before the items is none of theirs.
LEMMA LoopsBefore ==
  ASSUME NEW D, NEW F, NEW p, NEW q, NEW start \in Nat, 1 <= start,
         NEW m \in Nat, Len(p) = m, Len(q) = m, NEW t \in Nat, t < start,
         Loops(D, F, p, start, 0, 0),
         \A k \in 1 .. m : /\ q[k].kind = p[k].kind /\ q[k].owner = p[k].owner
                           /\ k # t => q[k].n = p[k].n
  PROVE  Loops(D, F, q, start, 0, 0)
  <1>1. ASSUME NEW k \in 1 .. m
        PROVE  /\ q[k].kind = p[k].kind /\ q[k].owner = p[k].owner
               /\ k # t => q[k].n = p[k].n
    OBVIOUS
  <1>2. ASSUME NEW k \in start .. m PROVE Placed(D, q, start, k)
    <2>1. Placed(D, p, start, k) /\ k \in 1 .. m /\ k # t
      BY DEF Loops
    <2>2. q[k].kind = p[k].kind /\ q[k].owner = p[k].owner /\ q[k].n = p[k].n
      BY <1>1, <2>1
    <2>3. k # start => k - 1 \in 1 .. m
      OBVIOUS
    <2>4. p[k].kind = "item" => k + 1 \in 1 .. m
      BY <2>1 DEF Placed
    <2>5. k # start => q[k - 1].kind = p[k - 1].kind /\ q[k - 1].owner = p[k - 1].owner
      BY <1>1, <2>3
    <2>6. p[k].kind = "item" => q[k + 1].kind = p[k + 1].kind
      BY <1>1, <2>4
    <2> QED
      BY <2>1, <2>2, <2>5, <2>6 DEF Placed
  <1>3. ASSUME NEW k \in start .. m, q[k].kind = "desc_loop_len"
        PROVE  LoopRead(D, F, q, k)
    <2> SUFFICES ASSUME NEW e \in k .. m, LoopEnds(q, k, e)
                 PROVE  q[k].n = F[q[k].owner][LoopIn(D, q, k, e, 0)]
      BY DEF LoopRead
    <2>1. k \in 1 .. m /\ k # t
      OBVIOUS
    <2>2. p[k].kind = "desc_loop_len" /\ q[k].owner = p[k].owner /\ q[k].n = p[k].n
      BY <1>1, <1>3, <2>1
    <2>3. LoopEnds(p, k, e)
      <3>1. \A j \in k + 1 .. e : j \in 1 .. m
        BY <2>1
      <3>2. e # m => e + 1 \in 1 .. m
        BY <2>1
      <3> QED
        BY <1>1, <3>1, <3>2 DEF LoopEnds
    <2>4. LoopIn(D, q, k, e, 0) = LoopIn(D, p, k, e, 0)
      <3>1. ASSUME NEW j \in 1 .. e - k PROVE LenIn(D, q[k + j], 0) = LenIn(D, p[k + j], 0)
        <4>1. k + j \in 1 .. m /\ k + j # t
          OBVIOUS
        <4> QED
          BY <1>1, <4>1 DEF LenIn
      <3>2. [j \in 1 .. e - k |-> LenIn(D, q[k + j], 0)]
              = [j \in 1 .. e - k |-> LenIn(D, p[k + j], 0)]
        BY <3>1
      <3> QED
        BY <3>2 DEF LoopIn
    <2>5. LoopRead(D, F, p, k)
      BY <2>2 DEF Loops
    <2>6. p[k].n = F[p[k].owner][LoopIn(D, p, k, e, 0)]
      BY <2>3, <2>5 DEF LoopRead
    <2> QED
      BY <2>2, <2>4, <2>6
  <1>4. \A k \in 1 .. start - 1 : k <= m => q[k].kind \notin ItemKinds
    BY <1>1 DEF Loops
  <1> QED
    BY <1>2, <1>3, <1>4 DEF Loops

\* The bytes of a loop are among those of its section.
LEMMA LoopInBytes ==
  ASSUME NEW D, Descs(D), NEW T, NEW p \in Seq(T), NEW base_len \in Nat,
         \A k \in 1 .. Len(p) : LenIn(D, p[k], base_len) \in Nat,
         NEW l \in Nat, NEW e \in l .. Len(p)
  PROVE  LoopIn(D, p, l, e, 0) \in Nat /\ LoopIn(D, p, l, e, 0) <= BytesIn(D, p, base_len)
  <1>1. PICK n \in Nat : n = Len(p)
    OBVIOUS
  <1>2. \A k \in 1 .. n : /\ LenIn(D, p[k], 0) \in Nat /\ LenIn(D, p[k], base_len) \in Nat
                          /\ LenIn(D, p[k], 0) <= LenIn(D, p[k], base_len)
    BY <1>1 DEF LenIn
  <1> DEFINE S == {m \in Nat : m <= n =>
                     /\ LoopIn(D, p, 0, m, base_len) \in Nat
                     /\ \A x \in l .. m : /\ LoopIn(D, p, l, x, 0) \in Nat
                                          /\ LoopIn(D, p, l, x, 0) <= LoopIn(D, p, 0, m, base_len)}
  <1>3. 0 \in S
    <2>1. LoopIn(D, p, 0, 0, base_len) = 0
      BY LoopInNone
    <2>2. ASSUME NEW x \in l .. 0 PROVE LoopIn(D, p, l, x, 0) = 0
      <3>1. l = 0 /\ x = 0
        OBVIOUS
      <3> QED
        BY <3>1, LoopInNone
    <2> QED
      BY <2>1, <2>2
  <1>4. ASSUME NEW m \in S PROVE m + 1 \in S
    <2> SUFFICES ASSUME m + 1 <= n
                 PROVE  /\ LoopIn(D, p, 0, m + 1, base_len) \in Nat
                        /\ \A x \in l .. m + 1 :
                             /\ LoopIn(D, p, l, x, 0) \in Nat
                             /\ LoopIn(D, p, l, x, 0) <= LoopIn(D, p, 0, m + 1, base_len)
      OBVIOUS
    <2>1. m \in Nat /\ m <= n /\ m + 1 \in 1 .. n
      OBVIOUS
    <2>2. PICK v \in Nat : v = LoopIn(D, p, 0, m, base_len)
      BY <2>1
    <2>3. LoopIn(D, p, 0, m + 1, base_len) = v + LenIn(D, p[m + 1], base_len)
      <3>1. PICK z \in Nat : z = 0
        OBVIOUS
      <3>2. \A k \in z + 1 .. m + 1 : LenIn(D, p[k], base_len) \in Nat
        BY <1>2, <2>1, <3>1
      <3>3. m \in Nat /\ z <= m
        BY <2>1, <3>1
      <3>4. LoopIn(D, p, z, m + 1, base_len)
              = LoopIn(D, p, z, m, base_len) + LenIn(D, p[m + 1], base_len)
        BY ONLY Descs(D), <3>1, <3>2, <3>3, LoopInMore
      <3> QED
        BY <2>2, <3>1, <3>4
    <2>4. ASSUME NEW x \in l .. m + 1
          PROVE  /\ LoopIn(D, p, l, x, 0) \in Nat
                 /\ LoopIn(D, p, l, x, 0) <= v + LenIn(D, p[m + 1], base_len)
      <3>1. LenIn(D, p[m + 1], base_len) \in Nat /\ LenIn(D, p[m + 1], 0) \in Nat
            /\ LenIn(D, p[m + 1], 0) <= LenIn(D, p[m + 1], base_len)
        BY <1>2, <2>1
      <3>2. CASE x <= m
        <4>1. x \in l .. m
          BY <2>1, <3>2
        <4>2. LoopIn(D, p, l, x, 0) \in Nat /\ LoopIn(D, p, l, x, 0) <= v
          BY <2>1, <2>2, <4>1
        <4> QED
          BY <3>1, <4>2
      <3>3. CASE x = m + 1 /\ l <= m
        <4>1. m \in l .. m
          BY <2>1, <3>3
        <4>2. LoopIn(D, p, l, m, 0) \in Nat /\ LoopIn(D, p, l, m, 0) <= v
          BY <2>1, <2>2, <4>1
        <4>3. LoopIn(D, p, l, m + 1, 0) = LoopIn(D, p, l, m, 0) + LenIn(D, p[m + 1], 0)
          <5>1. \A k \in l + 1 .. m + 1 : LenIn(D, p[k], 0) \in Nat
            BY <1>2, <2>1
          <5>2. l <= m
            BY <3>3
          <5> QED
            BY ONLY Descs(D), l \in Nat, <2>1, <5>1, <5>2, LoopInMore, SMTT(20)
        <4> QED
          BY <3>1, <3>3, <4>2, <4>3
      <3>4. CASE x = m + 1 /\ l = m + 1
        <4>1. LoopIn(D, p, l, l, 0) = 0
          BY LoopInNone
        <4> QED
          BY <3>1, <3>4, <4>1
      <3> QED
        BY <2>1, <3>2, <3>3, <3>4
    <2> QED
      BY <1>2, <2>1, <2>3, <2>4
  <1>5. \A m \in Nat : m \in S
    <2> HIDE DEF S
    <2>1. S \in SUBSET Nat
      BY DEF S
    <2> QED
      BY <1>3, <1>4, <2>1, NatSetInduction
  <1>6. LoopIn(D, p, 0, n, base_len) = BytesIn(D, p, base_len)
    <2>1. [k \in 1 .. n - 0 |-> LenIn(D, p[0 + k], base_len)] = [k \in DOMAIN p |-> LenIn(D, p[k], base_len)]
      BY <1>1
    <2> QED
      BY <2>1 DEF LoopIn, BytesIn
  <1>7. e \in l .. n /\ n \in S
    BY <1>1, <1>5
  <1> QED
    BY <1>6, <1>7

\* The descriptors of the items.
Descriptors == [i \in DOMAIN items |-> items[i].descriptors]

\* From start on p is items, the length of i's loop of n bytes read as F[i][n].
ReadsBack(D, F, p, start) ==
  \A k \in start .. Len(p) :
    /\ p[k].kind \in ItemKinds
    /\ k = start => p[k].kind = "item"
    /\ p[k].kind = "item" => k < Len(p) /\ p[k + 1].kind = "desc_loop_len"
    /\ p[k].kind # "item" => p[k].owner = p[k - 1].owner
    /\ p[k].kind = "desc_loop_len" =>
         /\ p[k - 1].kind = "item" /\ p[k].owner \in DOMAIN items
         /\ \A e \in k .. Len(p) : LoopEnds(p, k, e) =>
              /\ p[k].n = F[p[k].owner][LoopBytes(p, k, e)]
              /\ LoopBytes(p, k, e) \in Nat
              /\ \A base_len \in Nat : LoopBytes(p, k, e) <= BytesIn(D, p, base_len)

\* The lengths are those of the items' descriptors.
LEMMA LoopsEntries ==
  ASSUME ExtInv, NEW D, D = Descriptors,
         NEW F, NEW T, NEW p \in Seq(T), NEW start \in Nat, 1 <= start,
         Loops(D, F, p, start, 0, 0), NEW base_len \in Nat
  PROVE  \A k \in 1 .. Len(p) : EntryLen(p[k], base_len) = LenIn(D, p[k], base_len)
  <1>1. DOMAIN D = DOMAIN items /\ Descs(D)
    <2>1. items \in Seq([id : ui16, descriptors : Seq(DescLength), run : Runs])
      BY DEF ExtInv
    <2>2. PICK n \in Nat : n = Len(items) /\ DOMAIN items = 1 .. n
      BY <2>1
    <2>3. \A i \in 1 .. n : items[i].descriptors \in Seq(DescLength)
      BY <2>2, ItemFacts
    <2> QED
      BY <2>2, <2>3 DEF Descs, Descriptors
  <1>2. ASSUME NEW k \in 1 .. Len(p)
        PROVE  EntryLen(p[k], base_len) = LenIn(D, p[k], base_len)
    <2>1. CASE p[k].kind = "desc"
      <3>1. start <= k
        BY <2>1 DEF Loops, ItemKinds
      <3>2. Placed(D, p, start, k)
        BY <3>1 DEF Loops
      <3>3. p[k].owner \in DOMAIN items
        BY <1>1, <3>2 DEF Placed
      <3> QED
        BY <2>1, <3>3 DEF EntryLen, LenIn, Descriptors
    <2>2. CASE p[k].kind # "desc"
      BY <2>2 DEF EntryLen, LenIn
    <2> QED
      BY <2>1, <2>2
  <1> QED
    BY <1>2

\* And so are the bytes.
LEMMA LoopsBytes ==
  ASSUME ExtInv, NEW D, D = Descriptors,
         NEW F, NEW T, NEW p \in Seq(T), NEW start \in Nat, 1 <= start,
         Loops(D, F, p, start, 0, 0), NEW base_len \in Nat
  PROVE  ItemBytes(p, base_len) = BytesIn(D, p, base_len)
  <1>1. \A k \in 1 .. Len(p) : EntryLen(p[k], base_len) = LenIn(D, p[k], base_len)
    BY LoopsEntries
  <1>2. [k \in DOMAIN p |-> EntryLen(p[k], base_len)] = [k \in DOMAIN p |-> LenIn(D, p[k], base_len)]
    BY <1>1
  <1> QED
    BY <1>2 DEF ItemBytes, BytesIn

\* Read with the lengths the items' descriptors have.
LEMMA LoopsParse ==
  ASSUME ExtInv, NEW D, D = Descriptors,
         NEW F, NEW T, NEW p \in Seq(T), NEW start \in Nat, 1 <= start,
         Loops(D, F, p, start, 0, 0)
  PROVE  ReadsBack(D, F, p, start)
  <1>1. DOMAIN D = DOMAIN items /\ Descs(D)
    <2>1. items \in Seq([id : ui16, descriptors : Seq(DescLength), run : Runs])
      BY DEF ExtInv
    <2>2. PICK n \in Nat : n = Len(items) /\ DOMAIN items = 1 .. n
      BY <2>1
    <2>3. \A i \in 1 .. n : items[i].descriptors \in Seq(DescLength)
      BY <2>2, ItemFacts
    <2> QED
      BY <2>2, <2>3 DEF Descs, Descriptors
  <1>2. ASSUME NEW k \in 1 .. Len(p)
        PROVE  EntryLen(p[k], 0) = LenIn(D, p[k], 0)
    <2>1. PICK b \in Nat : b = 0
      OBVIOUS
    <2>2. EntryLen(p[k], b) = LenIn(D, p[k], b)
      BY LoopsEntries
    <2> QED
      BY <2>1, <2>2
  <1>3. ASSUME NEW k \in start .. Len(p), NEW e \in k .. Len(p)
        PROVE  LoopBytes(p, k, e) = LoopIn(D, p, k, e, 0)
    <2>1. \A j \in 1 .. e - k : k + j \in 1 .. Len(p)
      OBVIOUS
    <2>2. [j \in 1 .. e - k |-> EntryLen(p[k + j], 0)] = [j \in 1 .. e - k |-> LenIn(D, p[k + j], 0)]
      BY <1>2, <2>1
    <2> QED
      BY <2>2 DEF LoopBytes, LoopIn
  <1>5. ASSUME NEW k \in start .. Len(p), p[k].kind = "desc_loop_len",
               NEW e \in k .. Len(p), LoopEnds(p, k, e)
        PROVE  /\ p[k].n = F[p[k].owner][LoopBytes(p, k, e)]
               /\ LoopBytes(p, k, e) \in Nat
               /\ \A base_len \in Nat : LoopBytes(p, k, e) <= BytesIn(D, p, base_len)
    <2>1. k # 0 /\ LoopRead(D, F, p, k)
      BY <1>5 DEF Loops
    <2>2. p[k].n = F[p[k].owner][LoopIn(D, p, k, e, 0)]
      BY <1>5, <2>1 DEF LoopRead
    <2>3. ASSUME NEW base_len \in Nat
          PROVE  LoopIn(D, p, k, e, 0) \in Nat /\ LoopIn(D, p, k, e, 0) <= BytesIn(D, p, base_len)
      <3>1. k \in Nat
        OBVIOUS
      <3>2. \A j \in 1 .. Len(p) : LenIn(D, p[j], base_len) \in Nat
        BY <1>1, LoopsLengths
      <3> QED
        BY <1>1, <3>1, <3>2, LoopInBytes
    <2>4. LoopIn(D, p, k, e, 0) \in Nat
      <3>1. 0 \in Nat
        OBVIOUS
      <3> QED
        BY <2>3, <3>1
    <2> QED
      BY <1>3, <2>2, <2>3, <2>4
  <1>6. ASSUME NEW k \in start .. Len(p) PROVE Placed(D, p, start, k)
    BY DEF Loops
  <1> QED
    BY <1>1, <1>5, <1>6 DEF Placed, ReadsBack

-----------------------------------------------------------------------------
(* The sections of the build that writeSection has left: C is the set of   *)
(* the payloads and data lengths that they may have.                       *)

What(s) == << s.payload, s.data_length >>

SectionsIn(C) ==
  state \in {"MALLOC_SEC", "WRITE_SEC", "END_TABLE"} =>
    \A i \in Table : (state = "WRITE_SEC" /\ i = Len(stream)) \/ What(stream[i]) \in C

\* No section is left when a build is over, or has not begun.
LEMMA SectionsInIdle ==
  ASSUME NEW C, state \in {"IDLE", "ABORTED"}
  PROVE  SectionsIn(C)
  BY DEF SectionsIn

\* A build begins with none.
LEMMA SectionsInBegin ==
  ASSUME NEW C, NEW P, NEW private_bit, DriverInv(P, private_bit), buildSections
  PROVE  SectionsIn(C)'
  <1>1. stream' = stream /\ first' = Len(stream) + 1
    BY DEF buildSections
  <1>2. Len(stream) \in Nat
    BY DEF DriverInv, DriverTypes
  <1> QED
    BY <1>1, <1>2 DEF SectionsIn, Table

\* A new section is the one being written.
LEMMA SectionsInMalloc ==
  ASSUME NEW C, NEW P, NEW private_bit, DriverInv(P, private_bit), SectionsIn(C), MallocSec
  PROVE  SectionsIn(C)'
  <1>1. state = "MALLOC_SEC" /\ state' = "WRITE_SEC" /\ first' = first
    BY DEF MallocSec
  <1>2. /\ Len(stream') = Len(stream) + 1 /\ Len(stream) \in Nat /\ first \in 1 .. Len(stream) + 1
        /\ \A i \in 1 .. Len(stream) : stream'[i] = stream[i]
    BY MallocSecFrame DEF DriverInv, DriverTypes, PsiTypeOK
  <1>3. ASSUME NEW i \in first .. Len(stream) + 1, i # Len(stream) + 1
        PROVE  What(stream'[i]) \in C
    <2>1. i \in first .. Len(stream) /\ i \in 1 .. Len(stream)
      BY <1>2, <1>3
    <2> QED
      BY <1>1, <1>2, <2>1 DEF SectionsIn, Table
  <1> QED
    BY <1>1, <1>2, <1>3 DEF SectionsIn, Table, What

\* The section being written may become anything, while it is being written.
LEMMA SectionsInContinueRest ==
  ASSUME NEW C, NEW P, NEW private_bit, DriverRest(P, private_bit), SectionsIn(C),
         state = "WRITE_SEC", state' = "WRITE_SEC", OnlyCur
  PROVE  SectionsIn(C)'
  <1>1. /\ Len(stream') = Len(stream) /\ Len(stream) \in Nat /\ first \in 1 .. Len(stream)
        /\ \A i \in 1 .. Len(stream) - 1 : stream'[i] = stream[i]
        /\ first' = first
    BY RestFacts DEF OnlyCur
  <1>2. ASSUME NEW i \in first .. Len(stream), i # Len(stream)
        PROVE  What(stream'[i]) \in C
    <2>1. i \in 1 .. Len(stream) - 1
      BY <1>1, <1>2
    <2> QED
      BY <1>1, <1>2, <2>1 DEF SectionsIn, Table
  <1> QED
    BY <1>1, <1>2 DEF SectionsIn, Table, What

\* The same when nothing is owed.
LEMMA SectionsInContinue ==
  ASSUME NEW C, NEW P, NEW private_bit, DriverInv(P, private_bit), SectionsIn(C),
         state = "WRITE_SEC", state' = "WRITE_SEC", OnlyCur
  PROVE  SectionsIn(C)'
  <1>1. DriverRest(P, private_bit)
    BY DriverIsRest
  <1> QED
    BY <1>1, SectionsInContinueRest

\* A section is left as C says.
LEMMA SectionsInReturnRest ==
  ASSUME NEW C, NEW P, NEW private_bit \in {0, 1}, DriverRest(P, private_bit), SectionsIn(C),
         state = "WRITE_SEC", NEW s \in Sections(P),
         NEW done \in BOOLEAN, WriteSecReturn(done, s, sec_bytes, private_bit),
         What(s) \in C
  PROVE  /\ SectionsIn(C)' /\ state' = IF done THEN "END_TABLE" ELSE "MALLOC_SEC"
         /\ first' = first /\ builds' = builds /\ Len(stream') = Len(stream)
         /\ \A i \in 1 .. Len(stream) - 1 : stream'[i] = stream[i]
         /\ stream'[Len(stream)].payload = s.payload
  <1>1. PICK L, z : /\ L = finalSectionLength(private_bit, sec_bytes)
                    /\ z = setSectionLength(s, L)
    OBVIOUS
  <1>2. L \in ui16
    BY <1>1, FinalLengthType, RestFacts
  <1>3. z \in Sections(P) /\ z.payload = s.payload /\ z.data_length = s.data_length
    BY <1>1, <1>2, SetSectionLengthFields
  <1>4. /\ stream' = ReplaceCur(z) /\ first' = first /\ builds' = builds
        /\ state' = IF done THEN "END_TABLE" ELSE "MALLOC_SEC"
    BY <1>1 DEF WriteSecReturn
  <1>5. /\ stream \in Seq(Sections(P)) /\ Len(stream) \in Nat /\ first \in 1 .. Len(stream)
    BY RestFacts
  <1>6. /\ Len(stream') = Len(stream) /\ stream'[Len(stream)] = z
        /\ \A i \in 1 .. Len(stream) - 1 : stream'[i] = stream[i]
    BY <1>3, <1>4, ReplaceCurRest
  <1>7. ASSUME NEW i \in first .. Len(stream) PROVE What(stream'[i]) \in C
    <2>1. CASE i = Len(stream)
      BY <1>3, <1>6, <2>1 DEF What
    <2>2. CASE i # Len(stream)
      <3>1. i \in 1 .. Len(stream) - 1
        BY <1>5, <2>2
      <3> QED
        BY <1>6, <2>2, <3>1 DEF SectionsIn, Table
    <2> QED
      BY <2>1, <2>2
  <1>8. SectionsIn(C)'
    BY <1>4, <1>6, <1>7 DEF SectionsIn, Table, What
  <1> QED
    BY <1>3, <1>4, <1>6, <1>8

\* The same when nothing is owed.
LEMMA SectionsInReturn ==
  ASSUME NEW C, NEW P, NEW private_bit \in {0, 1}, DriverInv(P, private_bit), SectionsIn(C),
         state = "WRITE_SEC", cur.data_length # 0, NEW s \in Sections(P),
         s.data_length = cur.data_length,
         NEW done \in BOOLEAN, WriteSecReturn(done, s, sec_bytes, private_bit),
         What(s) \in C
  PROVE  /\ SectionsIn(C)' /\ state' = IF done THEN "END_TABLE" ELSE "MALLOC_SEC"
         /\ first' = first /\ builds' = builds /\ Len(stream') = Len(stream)
         /\ \A i \in 1 .. Len(stream) - 1 : stream'[i] = stream[i]
         /\ stream'[Len(stream)].payload = s.payload
  <1>1. DriverRest(P, private_bit)
    BY DriverIsRest
  <1> QED
    BY <1>1, SectionsInReturnRest
-----------------------------------------------------------------------------
(* What the items say, and what an item writes.                            *)

\* A function on 1 .. n is a sequence.
LEMMA FunctionSeq ==
  ASSUME NEW S, NEW n \in Nat, NEW f \in [1 .. n -> S]
  PROVE  f \in Seq(S) /\ DOMAIN f = 1 .. n
  OBVIOUS

\* What the items' descriptors are.
LEMMA DescriptorsType ==
  ASSUME ExtInv, NEW D, D = Descriptors
  PROVE  /\ Descs(D) /\ DOMAIN D = DOMAIN items
         /\ \A i \in DOMAIN items : D[i] = items[i].descriptors
  <1>1. items \in Seq([id : ui16, descriptors : Seq(DescLength), run : Runs])
    BY DEF ExtInv
  <1>2. D = [i \in DOMAIN items |-> items[i].descriptors]
    BY DEF Descriptors
  <1>3. Descs(D) /\ DOMAIN D = DOMAIN items
    <2>1. PICK n \in Nat : n = Len(items) /\ DOMAIN items = 1 .. n
      BY <1>1
    <2>2. \A i \in 1 .. n : items[i].descriptors \in Seq(DescLength)
      BY <2>1, ItemFacts
    <2>3. D = [i \in 1 .. n |-> items[i].descriptors]
      BY <1>2, <2>1
    <2>4. D = [i \in 1 .. n |-> D[i]] /\ \A i \in 1 .. n : D[i] \in Seq(DescLength)
      BY ONLY <2>2, <2>3
    <2>5. D \in Seq(Seq(DescLength)) /\ DOMAIN D = 1 .. n
      <3>1. PICK S : S = Seq(DescLength)
        OBVIOUS
      <3>2. D \in [1 .. n -> S]
        BY ONLY <2>4, <3>1
      <3> QED
        BY <3>1, <3>2, FunctionSeq
    <2> QED
      BY <2>1, <2>5 DEF Descs
  <1> QED
    BY <1>2, <1>3

\* The bytes of a payload are a natural number.
LEMMA BytesType ==
  ASSUME NEW D, NEW T, NEW p \in Seq(T), NEW b, \A k \in 1 .. Len(p) : LenIn(D, p[k], b) \in Nat
  PROVE  BytesIn(D, p, b) \in Nat
  <1>1. [k \in DOMAIN p |-> LenIn(D, p[k], b)] \in Seq(Nat)
    OBVIOUS
  <1> QED
    BY <1>1, TotalAppend DEF BytesIn

\* The items are numbered.
LEMMA ItemNumber ==
  ASSUME NEW D, Descs(D), NEW i \in DOMAIN D
  PROVE  i \in Nat
  BY DEF Descs

\* An entry of an item.
LEMMA ItemEntry ==
  ASSUME NEW K, ItemKinds \subseteq K, NEW kind \in ItemKinds, NEW i \in Nat, NEW n \in ui16
  PROVE  /\ Entry(kind, i, n) \in Entries(K) /\ Entry(kind, i, n).kind = kind
         /\ Entry(kind, i, n).owner = i /\ Entry(kind, i, n).n = n
  BY EntryType

\* An overwrite changes one value.
LEMMA PatchOne ==
  ASSUME NEW K, NEW p \in Seq(Entries(K)), NEW l, NEW w, NEW q, q = [p EXCEPT ![l].n = w]
  PROVE  /\ DOMAIN q = DOMAIN p
         /\ \A k \in DOMAIN p : /\ q[k].kind = p[k].kind /\ q[k].owner = p[k].owner
                                /\ q[k].n = IF k = l THEN w ELSE p[k].n
  <1>1. ASSUME NEW k \in DOMAIN p
        PROVE  /\ q[k].kind = p[k].kind /\ q[k].owner = p[k].owner
               /\ q[k].n = IF k = l THEN w ELSE p[k].n
    <2>1. p[k] \in Entries(K)
      OBVIOUS
    <2> QED
      BY <2>1 DEF Entries
  <1> QED
    BY <1>1

\* q is p with the header of item i at its end, whose loop is open.
HeadPut(D, F, p, q, start, i, b) ==
  /\ Len(q) = Len(p) + 2 /\ q[Len(q)].owner = i /\ \A k \in 1 .. Len(p) : q[k] = p[k]
  /\ Loops(D, F, q, start, Len(p) + 2, 0)
  /\ BytesIn(D, p, b) \in Nat /\ BytesIn(D, q, b) = BytesIn(D, p, b) + b

\* q is p with descriptor d of item i at its end, in the loop at l.
DescPut(D, F, p, q, start, l, len, i, d, b) ==
  /\ Len(q) = Len(p) + 1 /\ q[Len(q)].owner = i /\ \A k \in 1 .. Len(p) : q[k] = p[k]
  /\ Loops(D, F, q, start, l, len + D[i][d]) /\ D[i][d] \in Nat
  /\ BytesIn(D, p, b) \in Nat /\ BytesIn(D, q, b) = BytesIn(D, p, b) + D[i][d]

\* q is p with the loop at l closed.
WordPut(D, F, p, q, start, l, b) ==
  /\ Loops(D, F, q, start, 0, 0) /\ BytesIn(D, q, b) = BytesIn(D, p, b) /\ Len(q) = Len(p)
  /\ \A k \in 1 .. Len(p) : /\ q[k].kind = p[k].kind /\ q[k].owner = p[k].owner
                            /\ k # l => q[k].n = p[k].n

\* An item's header opens its loop.
LEMMA ItemsHead ==
  ASSUME NEW K, ItemKinds \subseteq K, NEW D, Descs(D), NEW F,
         NEW p \in Seq(Entries(K)), NEW start \in Nat, 1 <= start, start <= Len(p) + 1,
         Loops(D, F, p, start, 0, 0), NEW i \in DOMAIN D, NEW header \in ui16,
         NEW q, q = PutItem(p, i, header), NEW b \in Nat
  PROVE  HeadPut(D, F, p, q, start, i, b)
  <1>1. PICK T : T = Entries(K)
    OBVIOUS
  <1>2. PICK x, y : x = Entry("item", i, header) /\ y = Entry("desc_loop_len", i, 0)
    OBVIOUS
  <1>3. x \in T /\ x.kind = "item" /\ y \in T /\ y.kind = "desc_loop_len" /\ y.owner = i
    <2>1. i \in Nat /\ 0 \in ui16 /\ "item" \in ItemKinds /\ "desc_loop_len" \in ItemKinds
      BY Ui16, ItemNumber DEF ItemKinds
    <2> QED
      BY <1>1, <1>2, <2>1, ItemEntry
  <1>4. p \in Seq(T)
    BY <1>1
  <1>5. Loops(D, F, q, start, Len(p) + 2, 0)
    <2>1. Entry("item", i, header) \in T /\ Entry("desc_loop_len", i, 0) \in T
      BY <1>2, <1>3
    <2> QED
      BY <1>4, <2>1, LoopsHead, Zenon
  <1>6. \A k \in 1 .. Len(p) : LenIn(D, p[k], b) \in Nat
    BY ONLY Descs(D), start \in Nat, b \in Nat, <1>4, Loops(D, F, p, start, 0, 0), LoopsLengths
  <1>7. LenIn(D, x, b) = b /\ LenIn(D, y, b) = 0
    BY <1>3 DEF LenIn
  <1>8. PICK r : r = Append(p, x)
    OBVIOUS
  <1>9. /\ r \in Seq(T) /\ q = Append(r, y) /\ Len(r) = Len(p) + 1
        /\ r[Len(p) + 1] = x /\ \A k \in 1 .. Len(p) : r[k] = p[k]
    BY <1>2, <1>3, <1>4, <1>8 DEF PutItem
  <1>10. /\ q \in Seq(T) /\ Len(q) = Len(p) + 2 /\ q[Len(p) + 2] = y /\ q[Len(p) + 1] = x
         /\ \A k \in 1 .. Len(p) : q[k] = p[k]
    BY ONLY <1>3, <1>4, <1>9
  <1>11. \A k \in 1 .. Len(r) : LenIn(D, r[k], b) \in Nat
    <2>1. ASSUME NEW k \in 1 .. Len(r) PROVE k \in 1 .. Len(p) \/ k = Len(p) + 1
      BY <1>9
    <2> QED
      BY <1>6, <1>7, <1>9, <2>1
  <1>12. BytesIn(D, r, b) = BytesIn(D, p, b) + b
    BY <1>3, <1>4, <1>6, <1>7, <1>8, BytesInAppend
  <1>13. BytesIn(D, q, b) = BytesIn(D, r, b) + 0
    BY <1>3, <1>7, <1>9, <1>11, BytesInAppend
  <1>14. BytesIn(D, p, b) \in Nat
    BY <1>4, <1>6, BytesType
  <1>15. BytesIn(D, q, b) = BytesIn(D, p, b) + b
    BY ONLY b \in Nat, <1>12, <1>13, <1>14
  <1> QED
    BY <1>3, <1>5, <1>10, <1>14, <1>15 DEF HeadPut

\* The loop that is open is in the payload, and its bytes among the payload's.
LEMMA ItemsOpen ==
  ASSUME NEW K, NEW D, Descs(D), NEW F, NEW p \in Seq(Entries(K)),
         NEW start \in Nat, 1 <= start, NEW l \in Nat, l # 0, NEW len,
         Loops(D, F, p, start, l, len), NEW b \in Nat
  PROVE  /\ l \in start .. Len(p) /\ l \in 1 .. Len(p) /\ p[l].kind = "desc_loop_len"
         /\ len \in Nat /\ BytesIn(D, p, b) \in Nat /\ len <= BytesIn(D, p, b)
  <1>1. PICK T : T = Entries(K)
    OBVIOUS
  <1>2. /\ p \in Seq(T) /\ l \in start .. Len(p) /\ p[l].kind = "desc_loop_len"
        /\ LoopIn(D, p, l, Len(p), 0) = len
    BY <1>1 DEF Loops
  <1>3. \A k \in 1 .. Len(p) : LenIn(D, p[k], b) \in Nat
    BY ONLY Descs(D), start \in Nat, b \in Nat, <1>2, Loops(D, F, p, start, l, len), LoopsLengths
  <1>4. Len(p) \in l .. Len(p) /\ l \in 1 .. Len(p)
    BY <1>2
  <1>5. len \in Nat /\ len <= BytesIn(D, p, b)
    <2>1. PICK e : e = Len(p)
      OBVIOUS
    <2>2. LoopIn(D, p, l, e, 0) \in Nat /\ LoopIn(D, p, l, e, 0) <= BytesIn(D, p, b)
      BY ONLY Descs(D), l \in Nat, b \in Nat, <1>2, <1>3, <1>4, <2>1, LoopInBytes
    <2> QED
      BY <1>2, <2>1, <2>2
  <1>6. BytesIn(D, p, b) \in Nat
    BY <1>2, <1>3, BytesType
  <1> QED
    BY <1>2, <1>4, <1>5, <1>6

\* One of its descriptors.
LEMMA ItemsDesc ==
  ASSUME NEW K, ItemKinds \subseteq K, NEW D, Descs(D), NEW F, NEW p \in Seq(Entries(K)),
         NEW start \in Nat, 1 <= start, NEW l \in Nat, l # 0, NEW len,
         Loops(D, F, p, start, l, len), NEW i \in DOMAIN D, NEW d \in DOMAIN D[i], d \in ui16,
         p[Len(p)].owner = i, NEW b \in Nat, NEW q, q = Append(p, Entry("desc", i, d))
  PROVE  DescPut(D, F, p, q, start, l, len, i, d, b)
  <1>1. PICK T : T = Entries(K)
    OBVIOUS
  <1>2. PICK x : x = Entry("desc", i, d)
    OBVIOUS
  <1>3. /\ x \in T /\ x.kind = "desc" /\ x.owner = i /\ x.n = d
    <2>1. i \in Nat /\ "desc" \in ItemKinds
      BY ItemNumber DEF ItemKinds
    <2> QED
      BY <1>1, <1>2, <2>1, ItemEntry
  <1>4. p \in Seq(T)
    BY <1>1
  <1>5. Loops(D, F, q, start, l, len + D[i][d])
    <2>1. Entry("desc", i, d) \in T
      BY <1>2, <1>3
    <2>2. Loops(D, F, Append(p, Entry("desc", i, d)), start, l, len + D[i][d])
      BY <1>4, <2>1, LoopsDesc, Zenon
    <2> QED
      BY <2>2
  <1>6. /\ q \in Seq(T) /\ Len(q) = Len(p) + 1 /\ q[Len(p) + 1] = x
        /\ \A k \in 1 .. Len(p) : q[k] = p[k]
    BY <1>2, <1>3, <1>4
  <1>7. \A k \in 1 .. Len(p) : LenIn(D, p[k], b) \in Nat
    BY ONLY Descs(D), start \in Nat, b \in Nat, <1>4, Loops(D, F, p, start, l, len), LoopsLengths
  <1>8. LenIn(D, x, b) = D[i][d] /\ D[i][d] \in Nat
    <2>1. LenIn(D, x, b) = D[i][d]
      BY <1>3 DEF LenIn
    <2>2. LenIn(D, x, b) \in Nat
      BY <1>3, LenInType
    <2> QED
      BY <2>1, <2>2
  <1>9. BytesIn(D, q, b) = BytesIn(D, p, b) + D[i][d]
    BY <1>2, <1>3, <1>4, <1>7, <1>8, BytesInAppend
  <1>10. BytesIn(D, p, b) \in Nat
    BY <1>4, <1>7, BytesType
  <1> QED
    BY <1>3, <1>5, <1>6, <1>8, <1>9, <1>10 DEF DescPut

\* The loop closed: its word is of all its bytes.
LEMMA ItemsPatch ==
  ASSUME NEW K, NEW D, Descs(D), NEW F, NEW p \in Seq(Entries(K)),
         NEW start \in Nat, 1 <= start, NEW l \in Nat, l # 0, NEW len,
         Loops(D, F, p, start, l, len), NEW w, w = F[p[l].owner][len],
         NEW q \in Seq(Entries(K)), q = [p EXCEPT ![l].n = w], NEW b
  PROVE  WordPut(D, F, p, q, start, l, b)
  <1>1. PICK m \in Nat : m = Len(p)
    OBVIOUS
  <1>2. l \in start .. m /\ p[l].kind = "desc_loop_len"
    BY <1>1 DEF Loops
  <1>3. DOMAIN p = 1 .. m /\ DOMAIN q = 1 .. m /\ Len(q) = m /\ l \in 1 .. m
    BY <1>1, <1>2
  <1>4. \A k \in 1 .. m : /\ q[k].kind = p[k].kind /\ q[k].owner = p[k].owner
                          /\ q[k].n = IF k = l THEN w ELSE p[k].n
    BY <1>3, PatchOne
  <1>5. Loops(D, F, q, start, 0, 0)
    <2>1. PICK T : T = Entries(K)
      OBVIOUS
    <2>2. p \in Seq(T) /\ q \in Seq(T) /\ Len(q) = Len(p) /\ q[l].n = F[p[l].owner][len]
      BY <1>1, <1>3, <1>4, <2>1
    <2>3. \A k \in 1 .. Len(p) : q[k].kind = p[k].kind
      BY <1>1, <1>4
    <2>4. \A k \in 1 .. Len(p) : q[k].owner = p[k].owner
      BY <1>1, <1>4
    <2>5. \A k \in 1 .. Len(p) : k # l => q[k].n = p[k].n
      BY <1>1, <1>4
    <2> QED
      BY ONLY Descs(D), l \in Nat, l # 0, start \in Nat, 1 <= start,
              Loops(D, F, p, start, l, len), <2>2, <2>3, <2>4, <2>5, LoopsPatch, ZenonT(30)
  <1>6. BytesIn(D, q, b) = BytesIn(D, p, b)
    <2>1. ASSUME NEW k \in DOMAIN p
          PROVE  LenIn(D, q[k], b) = LenIn(D, p[k], b)
      BY <1>2, <1>3, <1>4, <2>1 DEF LenIn
    <2> QED
      BY <1>3, <2>1, BytesInSame
  <1> QED
    BY <1>1, <1>3, <1>4, <1>5, <1>6 DEF WordPut
-----------------------------------------------------------------------------
(* The descriptors of the table's own, before its items: entries of a kind *)
(* of their own, whose lengths are P.                                      *)

OwnLen(kind, P, e) == IF e.kind = kind THEN P[e.n] ELSE 0

\* Their bytes in payload p.
OwnIn(kind, P, p) == Total([k \in DOMAIN p |-> OwnLen(kind, P, p[k])])

\* The length of an entry.
LEMMA OwnLenType ==
  ASSUME NEW kind, NEW P \in Seq(DescLength), NEW e, e.kind = kind => e.n \in DOMAIN P
  PROVE  OwnLen(kind, P, e) \in Nat
  <1>1. CASE e.kind = kind
    <2>1. P[e.n] \in DescLength
      BY <1>1
    <2> QED
      BY <1>1, <2>1, DescLengths DEF OwnLen
  <1>2. CASE e.kind # kind
    BY <1>2 DEF OwnLen
  <1> QED
    BY <1>1, <1>2

\* Their sum is a natural number.
LEMMA OwnType ==
  ASSUME NEW kind, NEW P, NEW T, NEW p \in Seq(T),
         \A k \in 1 .. Len(p) : OwnLen(kind, P, p[k]) \in Nat
  PROVE  OwnIn(kind, P, p) \in Nat
  <1>1. [k \in DOMAIN p |-> OwnLen(kind, P, p[k])] \in Seq(Nat)
    OBVIOUS
  <1> QED
    BY <1>1, TotalAppend DEF OwnIn

\* One more entry adds its length.
LEMMA OwnAppend ==
  ASSUME NEW kind, NEW P, NEW T, NEW p \in Seq(T), NEW x \in T,
         \A k \in 1 .. Len(p) : OwnLen(kind, P, p[k]) \in Nat, OwnLen(kind, P, x) \in Nat
  PROVE  OwnIn(kind, P, Append(p, x)) = OwnIn(kind, P, p) + OwnLen(kind, P, x)
  <1>1. PICK q \in Seq(T) : q = Append(p, x)
    <2>1. Append(p, x) \in Seq(T)
      OBVIOUS
    <2> QED
      BY <2>1
  <1>2. PICK n \in Nat : n = Len(p)
    OBVIOUS
  <1>3. /\ Len(q) = n + 1 /\ q[n + 1] = x /\ \A k \in 1 .. n : q[k] = p[k]
        /\ DOMAIN p = 1 .. n /\ DOMAIN q = 1 .. n + 1
    BY <1>1, <1>2
  <1>4. PICK y \in Nat : y = OwnLen(kind, P, x)
    OBVIOUS
  <1>5. PICK s, t : /\ s = [k \in 1 .. n |-> OwnLen(kind, P, p[k])]
                    /\ t = [k \in 1 .. n + 1 |-> OwnLen(kind, P, q[k])]
    OBVIOUS
  <1>6. s \in Seq(Nat) /\ Len(s) = n
    BY <1>2, <1>5
  <1>7. t[n + 1] = y /\ \A k \in 1 .. n : t[k] = s[k]
    <2>1. n + 1 \in 1 .. n + 1
      OBVIOUS
    <2>2. t[n + 1] = y
      BY <1>3, <1>4, <1>5, <2>1
    <2>3. \A k \in 1 .. n : t[k] = s[k]
      BY <1>3, <1>5
    <2> QED
      BY <2>2, <2>3
  <1>8. t \in Seq(Nat) /\ Len(t) = n + 1
    <2>1. ASSUME NEW k \in 1 .. n + 1 PROVE OwnLen(kind, P, q[k]) \in Nat
      <3>1. CASE k = n + 1
        BY <1>3, <3>1
      <3>2. CASE k # n + 1
        <4>1. k \in 1 .. n
          BY <3>2
        <4> QED
          BY <1>2, <1>3, <4>1
      <3> QED
        BY <3>1, <3>2
    <2>2. t = [k \in 1 .. n + 1 |-> OwnLen(kind, P, q[k])]
      BY <1>5
    <2> QED
      BY ONLY n \in Nat, <2>1, <2>2
  <1>9. t = Append(s, y)
    <2>1. Append(s, y) \in Seq(Nat) /\ Len(Append(s, y)) = n + 1
          /\ Append(s, y)[n + 1] = y /\ \A k \in 1 .. n : Append(s, y)[k] = s[k]
      BY <1>6
    <2>2. \A k \in 1 .. n + 1 : t[k] = Append(s, y)[k]
      BY <1>7, <2>1
    <2> QED
      BY <1>8, <2>1, <2>2, SameSeq
  <1>10. OwnIn(kind, P, q) = Total(Append(s, y)) /\ OwnIn(kind, P, p) = Total(s)
    BY <1>3, <1>5, <1>9 DEF OwnIn
  <1> QED
    BY <1>1, <1>4, <1>6, <1>10, TotalAppend

\* Only those entries count.
LEMMA OwnSame ==
  ASSUME NEW kind, NEW P, NEW p, NEW q, DOMAIN q = DOMAIN p,
         \A k \in DOMAIN p : OwnLen(kind, P, q[k]) = OwnLen(kind, P, p[k])
  PROVE  OwnIn(kind, P, q) = OwnIn(kind, P, p)
  <1>1. [k \in DOMAIN q |-> OwnLen(kind, P, q[k])] = [k \in DOMAIN p |-> OwnLen(kind, P, p[k])]
    OBVIOUS
  <1> QED
    BY <1>1 DEF OwnIn
-----------------------------------------------------------------------------
(* Tables whose items' lengths are announced by the plain word.            *)

\* An item whose header is in the section and whose loop is not closed.
Open(i) == items[i].run.op_state \in {"GET_DESC", "WRITE_DESC"}

\* The words the loop lengths are put in.
LoopWords == [i \in DOMAIN items |-> [n \in ui16 |-> loopLen(n)]]

\* What the items say of the payloads stays when only their contexts change.
LEMMA SameLoops ==
  ASSUME ExtInv, items' \in Seq([id : ui16, descriptors : Seq(DescLength), run : Runs]),
         Len(items') = Len(items),
         \A j \in DOMAIN items : items'[j].descriptors = items[j].descriptors
  PROVE  Descriptors' = Descriptors /\ LoopWords' = LoopWords /\ DOMAIN items' = DOMAIN items
  <1>1. DOMAIN items' = DOMAIN items
    BY DEF ExtInv
  <1>2. Descriptors' = Descriptors
    BY <1>1 DEF Descriptors
  <1>3. LoopWords' = LoopWords
    BY <1>1 DEF LoopWords
  <1> QED
    BY <1>1, <1>2, <1>3

\* What a receiver reads in a section's payload, whose items begin at s.
ReadsFrom(p, s) ==
  \A k \in s .. Len(p) :
    /\ p[k].kind \in {"item", "desc_loop_len", "desc"}
    /\ k = s => p[k].kind = "item"
    /\ p[k].kind = "item" => k < Len(p) /\ p[k + 1].kind = "desc_loop_len"
    /\ p[k].kind # "item" => p[k].owner = p[k - 1].owner
    /\ p[k].kind = "desc_loop_len" =>
         /\ p[k - 1].kind = "item"
         /\ \A e \in k .. Len(p) : LoopEnds(p, k, e) => p[k].n = loopLen(LoopBytes(p, k, e))

\* Its items are read so.
LEMMA ItemsRead ==
  ASSUME NEW D, NEW F, NEW p, NEW s, ReadsBack(D, F, p, s),
         \A i \in DOMAIN items : \A n \in ui16 : F[i][n] = loopLen(n),
         NEW b \in Nat, BytesIn(D, p, b) \in Nat, BytesIn(D, p, b) < 4096
  PROVE  ReadsFrom(p, s)
  <1>1. ASSUME NEW k \in s .. Len(p), p[k].kind = "desc_loop_len",
               NEW e \in k .. Len(p), LoopEnds(p, k, e)
        PROVE  p[k].n = loopLen(LoopBytes(p, k, e))
    <2>1. PICK o, m, bytes : o = p[k].owner /\ m = LoopBytes(p, k, e) /\ bytes = BytesIn(D, p, b)
      OBVIOUS
    <2>2. o \in DOMAIN items /\ p[k].n = F[o][m] /\ m \in Nat /\ m <= bytes
      BY <1>1, <2>1 DEF ReadsBack
    <2>3. bytes \in Nat /\ bytes < 4096
      BY <2>1
    <2>4. m \in ui16
      BY <2>2, <2>3, Ui16
    <2> QED
      BY <2>1, <2>2, <2>4
  <1>2. ASSUME NEW k \in s .. Len(p)
        PROVE  /\ p[k].kind \in {"item", "desc_loop_len", "desc"}
               /\ k = s => p[k].kind = "item"
               /\ p[k].kind = "item" => k < Len(p) /\ p[k + 1].kind = "desc_loop_len"
               /\ p[k].kind # "item" => p[k].owner = p[k - 1].owner
               /\ p[k].kind = "desc_loop_len" => p[k - 1].kind = "item"
    BY DEF ReadsBack, ItemKinds
  <1> QED
    BY ONLY <1>1, <1>2 DEF ReadsFrom
-----------------------------------------------------------------------------
\* A section of a finished build: its types, and its length as it is read.
LEMMA SectionReads ==
  ASSUME NEW K, NEW private_bit \in {0, 1}, DriverInv(Entries(K), private_bit),
         Built, NEW i \in Table, stream[i].size <= 4096,
         NEW p, NEW n, p = stream[i].payload, n = stream[i].data_length
  PROVE  /\ p \in Seq(Entries(K)) /\ n \in Nat /\ HEADER_LEN <= n /\ n + CRC_LEN <= 4096
         /\ stream[i].section_length % LEN_MASK = n - 3 + CRC_LEN
  <1>1. /\ stream[i] \in Sections(Entries(K)) /\ Closed(i, private_bit)
    <2>1. state = "END_TABLE"
      BY DEF Built
    <2>2. i \in DOMAIN stream
      BY <2>1 DEF DriverInv, DriverTypes, PsiTypeOK, Table
    <2> QED
      BY <2>1, <2>2 DEF DriverInv, DriverTypes, ClosedInv
  <1>2. p \in Seq(Entries(K)) /\ n \in Int /\ stream[i].size \in Int
    BY <1>1, SectionFieldTypes
  <1>3. n + CRC_LEN <= 4096 /\ HEADER_LEN <= n
    BY <1>1, <1>2 DEF Built, lengthFits, Closed, CRC_LEN
  <1>4. PICK m : m = n - 3
    OBVIOUS
  <1>5. m \in Nat /\ m <= 4091 /\ stream[i].section_length = finalSectionLength(private_bit, m)
    BY <1>1, <1>2, <1>3, <1>4 DEF Closed, HEADER_LEN, CRC_LEN
  <1>6. stream[i].section_length % LEN_MASK = m + 4
    BY <1>5, FinalLengthReads
  <1> QED
    BY <1>2, <1>3, <1>4, <1>6 DEF HEADER_LEN, CRC_LEN

-----------------------------------------------------------------------------
(* How the sections of a build are filled, whichever table they are of.    *)
(* E is the table: the descriptors of its items (D), the lengths of its    *)
(* own loop (own), the positions of that loop that are to be carried       *)
(* (set), the kind they are written as, the bytes of an item's header      *)
(* (base) and of a section without any (fresh), and how many a section     *)
(* may have (M). Q are the sections that have a header, each with its      *)
(* payload and the bytes counted in it. What is due is at place << t, n >>,*)
(* or at the first place after it: held says whether it was fetched        *)
(* ("ITEM"), or was when its item was already begun ("DESC"). Between      *)
(* sections ph is "OUT", in a section "TOP", and "IN" when the section has *)
(* the header of the item that is due.                                     *)

\* Entry k of section i is e.
Holds(Q, i, k, e) == i \in 1 .. Len(Q) /\ k \in 1 .. Len(Q[i][1]) /\ e = Q[i][1][k]

\* It is carried for its own sake: of the table's own loop, a descriptor, or an
\* item that has none.
IsThing(E, e) == \/ e.kind \in {E.kind, "desc"}
                 \/ e.kind = "item" /\ E.D[e.owner] = << >>

\* The position after an item's last.
Past(E, i) == IF E.D[i] = << >> THEN 2 ELSE Len(E.D[i]) + 1

\* Place << a, b >> of the table.
IsPlace(E, a, b) == \/ a = 0 /\ b \in E.set
                    \/ a \in DOMAIN E.D /\ b \in Nat /\ 1 <= b /\ b < Past(E, a)

\* An entry is at place << owner, Nth >>; places are in lexicographic order.
Nth(e) == IF e.kind = "item" THEN 1 ELSE e.n

Sooner(a, b, c, d) == a < c \/ (a = c /\ b < d)

\* What E is made of.
PackArgs(E) ==
  /\ E.D \in Seq(Seq(Nat)) /\ E.own \in Seq(Nat) /\ E.set \subseteq DOMAIN E.own
  /\ E.base \in Nat /\ E.fresh \in Nat /\ E.M \in Nat
  /\ E.kind \notin {"item", "desc", "desc_loop_len"}

\* What is due, and how far the machine is with it.
DueOK(E, Q, ph, held, t, n) ==
  /\ t \in Nat /\ n \in Nat /\ 1 <= n /\ t <= Len(E.D) + 1
  /\ ph \in {"OUT", "TOP", "IN", "END"} /\ held \in {"NONE", "ITEM", "DESC"}
  /\ ph \in {"TOP", "IN"} => Q # << >>
  /\ t = 0 => n <= Len(E.own) + 1 /\ held # "DESC" /\ ph # "IN"
  /\ t = 0 /\ held = "ITEM" => n \in E.set
  /\ t = Len(E.D) + 1 => n = 1 /\ held = "NONE" /\ ph # "IN"
  /\ t \in DOMAIN E.D =>
       /\ n <= Past(E, t)
       /\ ph # "IN" /\ held # "DESC" => n = 1
       /\ held = "DESC" => n <= Len(E.D[t])
  /\ ph = "IN" => held # "ITEM"
  /\ ph = "IN" /\ E.D[t] = << >> => n = 2
  /\ ph = "END" => t = Len(E.D) + 1

\* Sections whose entries are of the kinds K.
SheetsOf(K) == Seq(Seq(Entries(K)) \X Nat)

\* The sections are of their kinds, and what they count is counted.
SheetsOK(E, K, Q, ph) ==
  /\ Q \in SheetsOf(K)
  /\ \A i \in 1 .. Len(Q) : Q[i][1] # << >> /\ E.fresh <= Q[i][2]
  /\ ph = "IN" => E.fresh + E.base <= Q[Len(Q)][2]

\* Everything before what is due is in the sections, once and in order.
Ordered(E, Q, t, n) ==
  /\ \A i, k, e : Holds(Q, i, k, e) /\ IsThing(E, e) =>
       IsPlace(E, e.owner, Nth(e)) /\ Sooner(e.owner, Nth(e), t, n)
  /\ \A a, b : IsPlace(E, a, b) /\ Sooner(a, b, t, n) =>
       \E i, k, e : Holds(Q, i, k, e) /\ IsThing(E, e) /\ a = e.owner /\ b = Nth(e)
  /\ \A i, k, e, j, l, f :
       /\ Holds(Q, i, k, e) /\ IsThing(E, e) /\ Holds(Q, j, l, f) /\ IsThing(E, f)
       /\ i < j \/ (i = j /\ k < l)
       => Sooner(e.owner, Nth(e), f.owner, Nth(f))

\* Nothing is of an item after the one due, nor of that one before it is begun.
Owned(Q, ph, held, t) ==
  \A i, k, e : Holds(Q, i, k, e) =>
    /\ e.owner <= t /\ (e.kind \in {"item", "desc"} => e.owner # 0)
    /\ e.kind \notin {"item", "desc", "desc_loop_len"} => e.owner = 0
    /\ e.owner = t /\ t # 0 => ph = "IN" \/ held = "DESC"

\* A section with an item's first descriptor has its header as well.
Heavy(E, Q) ==
  \A i, k, e : Holds(Q, i, k, e) /\ e.kind = "desc" =>
    /\ e.owner \in DOMAIN E.D /\ e.n \in 1 .. Len(E.D[e.owner])
    /\ e.n = 1 => E.fresh + E.base + E.D[e.owner][1] <= Q[i][2]

\* Every item fits in a section of its own as far as its first descriptor.
Roomy(E) ==
  \A i \in DOMAIN E.D : E.D[i] # << >> => E.fresh + E.base + E.D[i][1] <= E.M

\* So does the one that is due, with what is in the section already.
HeadFits(E, Q, ph, held, t, n) ==
  t \in DOMAIN E.D /\ E.D[t] # << >> =>
    /\ ph = "TOP" /\ held = "ITEM" => Q[Len(Q)][2] + E.base + E.D[t][1] <= E.M
    /\ ph = "IN" /\ held = "NONE" /\ n = 1 => Q[Len(Q)][2] + E.D[t][1] <= E.M
    /\ ph # "IN" /\ held = "DESC" => 1 < n

\* The header of the item due is the last thing in the section.
Lonely(Q, ph, held, n, i, k) ==
  /\ i = Len(Q) /\ ph = "IN" /\ k + 1 = Len(Q[i][1])
  /\ held = "DESC" \/ n = 1

\* An item's header is followed by its length and its first descriptor.
Followed(E, Q, ph, held, n) ==
  \A i, k, e : Holds(Q, i, k, e) /\ e.kind = "item" /\ ~IsThing(E, e) =>
    \/ \E f : Holds(Q, i, k + 2, f) /\ f.kind = "desc"
    \/ Lonely(Q, ph, held, n, i, k)

\* Section i carries nothing yet.
Bare(E, Q, i) == \A k, e : Holds(Q, i, k, e) => ~IsThing(E, e)

\* The bytes that e, the first thing of a section, would have taken after last.
Takes(E, last, e) ==
  CASE e.kind = "item" -> E.base
    [] e.kind = "desc" -> E.D[e.owner][e.n] + (IF last.owner = e.owner THEN 0 ELSE E.base)
    [] OTHER -> E.own[e.n]

\* The last entry of section i.
LastIn(Q, i) == Q[i][1][Len(Q[i][1])]

\* What is due takes them.
DueTakes(E, last, t, n) ==
  IF t = 0 THEN E.own[n]
  ELSE IF E.D[t] = << >> THEN E.base
  ELSE E.D[t][n] + (IF last.owner = t THEN 0 ELSE E.base)

\* Section i begins with what had no room in the one before.
Begins(E, Q, i) ==
  \E k, e : /\ Holds(Q, i, k, e) /\ IsThing(E, e)
            /\ \A l, f : Holds(Q, i, l, f) /\ l < k => ~IsThing(E, f)
            /\ Q[i - 1][2] + Takes(E, LastIn(Q, i - 1), e) > E.M

\* Section i has nothing yet, and what is due had no room before.
BeginsNext(E, Q, ph, held, t, n, i) ==
  /\ i = Len(Q) /\ ph \in {"TOP", "IN"} /\ Bare(E, Q, i)
  /\ t <= Len(E.D)
  /\ ph = "TOP" => held # "NONE"
  /\ ph = "IN" => E.D[t] # << >> /\ (held = "DESC" \/ n = 1)
  /\ Q[i - 1][2] + DueTakes(E, LastIn(Q, i - 1), t, n) > E.M

\* A section was left since what is due had no room.
Waits(E, B, Q, ph, held, t, n) ==
  ph = "OUT" /\ Q # << >> /\ Len(Q) + 1 \notin B =>
    /\ held # "NONE" /\ t <= Len(E.D)
    /\ Q[Len(Q)][2] + DueTakes(E, LastIn(Q, Len(Q)), t, n) > E.M

\* Every section but those of B begins with what had no room in the one before.
FullBefore(E, B, Q, ph, held, t, n) ==
  /\ \A i \in 2 .. Len(Q) : i \notin B => Begins(E, Q, i) \/ BeginsNext(E, Q, ph, held, t, n, i)
  /\ Waits(E, B, Q, ph, held, t, n)

\* The invariant of the packing.
SheetInv(E, K, B, Q, ph, held, t, n) ==
  /\ PackArgs(E) /\ DueOK(E, Q, ph, held, t, n) /\ SheetsOK(E, K, Q, ph)
  /\ Ordered(E, Q, t, n) /\ Owned(Q, ph, held, t) /\ Heavy(E, Q)
  /\ Roomy(E) => /\ HeadFits(E, Q, ph, held, t, n)
                 /\ Followed(E, Q, ph, held, n)
                 /\ FullBefore(E, B, Q, ph, held, t, n)

-----------------------------------------------------------------------------
(* What a change of the sections does to what they hold.                   *)

\* R holds what Q does, and the entries of N: << section, position, entry >>.
Grown(Q, R, N) == \A i, k, e : Holds(R, i, k, e) <=> Holds(Q, i, k, e) \/ << i, k, e >> \in N

\* R is Q with something else in the last section.
Replaced(Q, p, b) == [Q EXCEPT ![Len(Q)] = << p, b >>]

\* Replacing the last section.
LEMMA ReplacedSheets ==
  ASSUME NEW K, NEW Q \in SheetsOf(K), Q # << >>, NEW p \in Seq(Entries(K)), NEW b \in Nat
  PROVE  /\ Replaced(Q, p, b) \in SheetsOf(K) /\ Len(Replaced(Q, p, b)) = Len(Q)
         /\ Len(Q) \in Nat /\ 1 <= Len(Q)
         /\ Replaced(Q, p, b)[Len(Q)][1] = p /\ Replaced(Q, p, b)[Len(Q)][2] = b
         /\ \A i \in 1 .. Len(Q) : i # Len(Q) => Replaced(Q, p, b)[i] = Q[i]
  <1>1. PICK S, w, R : S = Seq(Entries(K)) \X Nat /\ w = << p, b >> /\ R = Replaced(Q, p, b)
    OBVIOUS
  <1>2. w \in S /\ w[1] = p /\ w[2] = b /\ Q \in Seq(S)
    BY <1>1 DEF SheetsOf
  <1>3. R = [Q EXCEPT ![Len(Q)] = w]
    BY <1>1 DEF Replaced
  <1>4. /\ R \in Seq(S) /\ Len(R) = Len(Q) /\ R[Len(Q)] = w
        /\ Len(Q) \in Nat /\ 1 <= Len(Q)
        /\ \A i \in 1 .. Len(Q) : i # Len(Q) => R[i] = Q[i]
    BY ONLY <1>2, <1>3, Q # << >>
  <1> QED
    BY <1>1, <1>2, <1>4 DEF SheetsOf

\* The parts of one.
LEMMA SheetTypes ==
  ASSUME NEW K, NEW Q \in SheetsOf(K)
  PROVE  /\ Len(Q) \in Nat /\ (Q # << >> <=> 1 <= Len(Q))
         /\ \A i \in 1 .. Len(Q) :
              Q[i][1] \in Seq(Entries(K)) /\ Q[i][2] \in Nat /\ Len(Q[i][1]) \in Nat
  <1>1. PICK S : S = Seq(Entries(K)) \X Nat
    OBVIOUS
  <1>2. Q \in Seq(S)
    BY <1>1 DEF SheetsOf
  <1>3. /\ Len(Q) \in Nat /\ (Q # << >> <=> 1 <= Len(Q))
        /\ \A i \in 1 .. Len(Q) : Q[i] \in S
    BY ONLY <1>2
  <1>4. \A w \in S : w[1] \in Seq(Entries(K)) /\ w[2] \in Nat /\ Len(w[1]) \in Nat
    BY <1>1
  <1> QED
    BY <1>3, <1>4

\* N are the entries of p as section m.
SheetOf(N, m, p) ==
  \A i, k, e : << i, k, e >> \in N <=> i = m /\ k \in 1 .. Len(p) /\ e = p[k]

\* R is Q and section p of b bytes, which are the entries N.
Opened(K, Q, R, N, p, b) ==
  /\ R \in SheetsOf(K) /\ Len(R) = Len(Q) + 1 /\ R # << >>
  /\ Len(Q) \in Nat
  /\ R[Len(Q) + 1][1] = p /\ R[Len(Q) + 1][2] = b
  /\ \A i \in 1 .. Len(Q) : R[i] = Q[i]
  /\ Grown(Q, R, N)

\* A section is begun.
LEMMA OpenHolds ==
  ASSUME NEW K, NEW Q \in SheetsOf(K),
         NEW p \in Seq(Entries(K)), NEW b \in Nat, NEW R, R = Append(Q, << p, b >>),
         NEW N, SheetOf(N, Len(Q) + 1, p)
  PROVE  Opened(K, Q, R, N, p, b)
  <1>1. /\ R \in SheetsOf(K) /\ Len(R) = Len(Q) + 1 /\ R # << >>
        /\ Len(Q) \in Nat
        /\ R[Len(Q) + 1][1] = p /\ R[Len(Q) + 1][2] = b
        /\ \A i \in 1 .. Len(Q) : R[i] = Q[i]
    <2>1. PICK S, w : S = Seq(Entries(K)) \X Nat /\ w = << p, b >>
      OBVIOUS
    <2>2. w \in S /\ w[1] = p /\ w[2] = b /\ Q \in Seq(S) /\ R = Append(Q, w)
      BY <2>1 DEF SheetsOf
    <2>3. /\ R \in Seq(S) /\ Len(R) = Len(Q) + 1 /\ R # << >> /\ Len(Q) \in Nat
          /\ R[Len(Q) + 1] = w /\ \A i \in 1 .. Len(Q) : R[i] = Q[i]
      BY ONLY <2>2
    <2> QED
      BY <2>1, <2>2, <2>3 DEF SheetsOf
  <1>2. PICK m \in Nat : m = Len(Q)
    BY <1>1
  <1>3. ASSUME NEW i, NEW k, NEW e
        PROVE  Holds(R, i, k, e) <=> Holds(Q, i, k, e) \/ << i, k, e >> \in N
    <2>1. i \in 1 .. m + 1 <=> i \in 1 .. m \/ i = m + 1
      BY <1>2
    <2>2. CASE i \in 1 .. m
      <3>1. R[i] = Q[i] /\ i # m + 1
        BY <1>1, <1>2, <2>2
      <3>2. << i, k, e >> \notin N
        BY <1>2, <3>1 DEF SheetOf
      <3> QED
        BY <1>1, <1>2, <2>2, <3>1, <3>2 DEF Holds
    <2>3. CASE i = m + 1
      <3>1. ~Holds(Q, i, k, e)
        BY <1>2, <2>3 DEF Holds
      <3>2. Holds(R, i, k, e) <=> k \in 1 .. Len(p) /\ e = p[k]
        BY <1>1, <1>2, <2>3 DEF Holds
      <3>3. << i, k, e >> \in N <=> k \in 1 .. Len(p) /\ e = p[k]
        BY <1>2, <2>3 DEF SheetOf
      <3> QED
        BY <3>1, <3>2, <3>3
    <2> QED
      <3>1. i \notin 1 .. m + 1 => << i, k, e >> \notin N
        BY <1>2, <2>1 DEF SheetOf
      <3> QED
        BY <1>1, <1>2, <2>1, <2>2, <2>3, <3>1 DEF Holds
  <1> QED
    BY <1>1, <1>2, <1>3 DEF Grown, Opened

\* R is Q with entry x of b bytes at position z of section m.
PutAt(K, Q, R, m, z, x, b) ==
  /\ R \in SheetsOf(K) /\ Len(R) = m /\ R # << >>
  /\ m \in Nat /\ 1 <= m /\ z \in Nat /\ 1 <= z
  /\ Len(R[m][1]) = z /\ R[m][1][z] = x /\ R[m][2] = b /\ R[m][1] # << >>
  /\ \A i \in 1 .. m : i # m => R[i] = Q[i]
  /\ Grown(Q, R, {<< m, z, x >>}) /\ LastIn(R, m) = x

\* One more entry in the last section.
LEMMA PutHolds ==
  ASSUME NEW K, NEW Q \in SheetsOf(K), Q # << >>,
         NEW x \in Entries(K), NEW b \in Nat,
         NEW m, m = Len(Q), NEW z, z = Len(Q[m][1]) + 1,
         NEW R, R = Replaced(Q, Append(Q[m][1], x), b)
  PROVE  PutAt(K, Q, R, m, z, x, b)
  <1>1. PICK p : p = Q[m][1]
    OBVIOUS
  <1>2. /\ m \in Nat /\ 1 <= m /\ p \in Seq(Entries(K)) /\ z = Len(p) + 1 /\ Len(p) \in Nat
    BY <1>1, SheetTypes
  <1>3. PICK q : q = Append(p, x)
    OBVIOUS
  <1>4. /\ q \in Seq(Entries(K)) /\ Len(q) = z /\ q[z] = x
        /\ \A k \in 1 .. Len(p) : q[k] = p[k]
    BY <1>2, <1>3
  <1>5. /\ R \in SheetsOf(K) /\ Len(R) = m /\ R # << >>
        /\ R[m][1] = q /\ R[m][2] = b /\ \A i \in 1 .. m : i # m => R[i] = Q[i]
    <2>1. R = Replaced(Q, q, b) /\ q \in Seq(Entries(K))
      BY <1>1, <1>3, <1>4
    <2>2. /\ R \in SheetsOf(K) /\ Len(R) = Len(Q)
          /\ R[Len(Q)][1] = q /\ R[Len(Q)][2] = b /\ 1 <= Len(Q)
          /\ \A i \in 1 .. Len(Q) : i # Len(Q) => R[i] = Q[i]
      BY <2>1, ReplacedSheets
    <2> QED
      BY <2>2
  <1>6. ASSUME NEW i, NEW k, NEW e
        PROVE  Holds(R, i, k, e) <=> Holds(Q, i, k, e) \/ << i, k, e >> \in {<< m, z, x >>}
    <2>1. << i, k, e >> \in {<< m, z, x >>} <=> i = m /\ k = z /\ e = x
      OBVIOUS
    <2>2. CASE i \in 1 .. m /\ i # m
      <3>1. R[i] = Q[i]
        BY <1>5, <2>2
      <3> QED
        BY <1>5, <2>1, <2>2, <3>1 DEF Holds
    <2>3. CASE i = m
      <3>1. m \in 1 .. m
        BY <1>2
      <3>2. Holds(Q, i, k, e) <=> k \in 1 .. Len(p) /\ e = p[k]
        BY <1>1, <2>3, <3>1 DEF Holds
      <3>3. Holds(R, i, k, e) <=> k \in 1 .. z /\ e = q[k]
        BY <1>4, <1>5, <2>3, <3>1 DEF Holds
      <3>4. k \in 1 .. z <=> k \in 1 .. Len(p) \/ k = z
        BY <1>2
      <3>5. z \notin 1 .. Len(p)
        BY <1>2
      <3> QED
        BY <1>4, <2>1, <2>3, <3>2, <3>3, <3>4, <3>5
    <2>4. CASE i \notin 1 .. m
      <3>1. m \in 1 .. m
        BY <1>2
      <3> QED
        BY <1>5, <2>1, <2>4, <3>1 DEF Holds
    <2> QED
      BY <2>2, <2>3, <2>4
  <1>7. LastIn(R, m) = x /\ R[m][1] # << >>
    BY <1>2, <1>4, <1>5 DEF LastIn
  <1> QED
    BY <1>2, <1>4, <1>5, <1>6, <1>7 DEF Grown, PutAt

\* The last section's lengths are patched: nothing of what an entry is changes.
Alike(e, f) == e = f \/ (e.kind = f.kind /\ e.owner = f.owner
                           /\ e.kind \notin {"item", "desc"})

\* For a table whose own loop is of this kind.
Same(kind, e, f) == Alike(e, f) /\ (e.kind = kind => e = f)

\* What is the same but for a length carries the same.
LEMMA SameThing ==
  ASSUME NEW E, NEW e, NEW f, Same(E.kind, e, f)
  PROVE  /\ e.kind = f.kind /\ e.owner = f.owner
         /\ IsThing(E, e) <=> IsThing(E, f)
         /\ e.kind \in {"item", "desc"} => e = f
         /\ IsThing(E, e) => e = f
  BY DEF Same, Alike, IsThing

\* What is held is held alike.
Patched(kind, Q, R) ==
  /\ Len(R) = Len(Q)
  /\ \A i \in 1 .. Len(Q) : R[i][2] = Q[i][2] /\ Len(R[i][1]) = Len(Q[i][1])
  /\ \A i, k, e : Holds(Q, i, k, e) => \E f : Holds(R, i, k, f) /\ Same(kind, e, f)
  /\ \A i, k, f : Holds(R, i, k, f) => \E e : Holds(Q, i, k, e) /\ Same(kind, e, f)

\* A length written afterwards leaves every entry in its place.
LEMMA PatchHolds ==
  ASSUME NEW K, NEW Q \in SheetsOf(K), Q # << >>, NEW kind,
         NEW m, m = Len(Q), NEW q \in Seq(Entries(K)), NEW p, p = Q[m][1],
         Len(q) = Len(p), \A k \in 1 .. Len(p) : Same(kind, p[k], q[k]),
         NEW R, R = Replaced(Q, q, Q[m][2])
  PROVE  R \in SheetsOf(K) /\ Patched(kind, Q, R)
  <1>1. m \in Nat /\ 1 <= m /\ Q[m][2] \in Nat /\ m \in 1 .. m
    BY SheetTypes
  <1>2. PICK b : b = Q[m][2]
    OBVIOUS
  <1>3. /\ R \in SheetsOf(K) /\ Len(R) = m
        /\ R[m][1] = q /\ R[m][2] = b /\ \A i \in 1 .. m : i # m => R[i] = Q[i]
    <2>1. /\ R \in SheetsOf(K) /\ Len(R) = Len(Q)
          /\ R[Len(Q)][1] = q /\ R[Len(Q)][2] = b
          /\ \A i \in 1 .. Len(Q) : i # Len(Q) => R[i] = Q[i]
      BY <1>1, <1>2, ReplacedSheets
    <2> QED
      BY ONLY <2>1, m = Len(Q)
  <1>4. ASSUME NEW i \in 1 .. m
        PROVE  /\ R[i][2] = Q[i][2] /\ Len(R[i][1]) = Len(Q[i][1])
               /\ \A k \in 1 .. Len(Q[i][1]) : Same(kind, Q[i][1][k], R[i][1][k])
    <2>1. CASE i = m
      BY <1>2, <1>3, <2>1
    <2>2. CASE i # m
      BY <1>3, <2>2 DEF Same, Alike
    <2> QED
      BY <2>1, <2>2
  <1>5. ASSUME NEW i, NEW k, NEW e, Holds(Q, i, k, e)
        PROVE  \E f : Holds(R, i, k, f) /\ Same(kind, e, f)
    <2>1. i \in 1 .. m /\ k \in 1 .. Len(Q[i][1]) /\ e = Q[i][1][k]
      BY <1>5 DEF Holds
    <2>2. Holds(R, i, k, R[i][1][k]) /\ Same(kind, e, R[i][1][k])
      BY <1>3, <1>4, <2>1 DEF Holds
    <2> QED
      BY <2>2
  <1>6. ASSUME NEW i, NEW k, NEW f, Holds(R, i, k, f)
        PROVE  \E e : Holds(Q, i, k, e) /\ Same(kind, e, f)
    <2>1. i \in 1 .. m /\ k \in 1 .. Len(R[i][1]) /\ f = R[i][1][k]
      BY <1>3, <1>6 DEF Holds
    <2>2. Holds(Q, i, k, Q[i][1][k]) /\ Same(kind, Q[i][1][k], f)
      BY <1>4, <2>1 DEF Holds
    <2> QED
      BY <2>2
  <1> QED
    BY <1>3, <1>4, <1>5, <1>6 DEF Patched

-----------------------------------------------------------------------------
(* The order of what is held.                                              *)

\* Nothing that has a place came in.
LEMMA OrderedKept ==
  ASSUME NEW E, NEW Q, NEW R, NEW N, NEW t, NEW n, Ordered(E, Q, t, n), Grown(Q, R, N),
         \A i, k, e : << i, k, e >> \in N => ~IsThing(E, e)
  PROVE  Ordered(E, R, t, n)
  <1>1. \A i, k, e : IsThing(E, e) => (Holds(R, i, k, e) <=> Holds(Q, i, k, e))
    BY ONLY Grown(Q, R, N), (\A i, k, e : << i, k, e >> \in N => ~IsThing(E, e)) DEF Grown
  <1>2. \A i, k, e : Holds(R, i, k, e) /\ IsThing(E, e) =>
          IsPlace(E, e.owner, Nth(e)) /\ Sooner(e.owner, Nth(e), t, n)
    BY ONLY Ordered(E, Q, t, n), <1>1 DEF Ordered
  <1>3. \A a, b : IsPlace(E, a, b) /\ Sooner(a, b, t, n) =>
          \E i, k, e : Holds(R, i, k, e) /\ IsThing(E, e) /\ a = e.owner /\ b = Nth(e)
    <2> SUFFICES ASSUME NEW a, NEW b, IsPlace(E, a, b), Sooner(a, b, t, n)
                 PROVE  \E i, k, e : /\ Holds(R, i, k, e) /\ IsThing(E, e)
                                     /\ a = e.owner /\ b = Nth(e)
      OBVIOUS
    <2>1. PICK i, k, e : Holds(Q, i, k, e) /\ IsThing(E, e) /\ a = e.owner /\ b = Nth(e)
      BY ONLY Ordered(E, Q, t, n), IsPlace(E, a, b), Sooner(a, b, t, n) DEF Ordered
    <2>2. Holds(R, i, k, e)
      BY ONLY <1>1, <2>1
    <2> QED
      BY ONLY <2>1, <2>2
  <1>4. \A i, k, e, j, l, f :
          /\ Holds(R, i, k, e) /\ IsThing(E, e) /\ Holds(R, j, l, f) /\ IsThing(E, f)
          /\ i < j \/ (i = j /\ k < l)
          => Sooner(e.owner, Nth(e), f.owner, Nth(f))
    BY ONLY Ordered(E, Q, t, n), <1>1 DEF Ordered
  <1> QED
    BY ONLY <1>2, <1>3, <1>4 DEF Ordered

\* What is due did, behind all the rest; << u, v >> comes next.
LEMMA OrderedPut ==
  ASSUME NEW E, NEW Q, NEW R, NEW N, NEW t, NEW n, NEW u, NEW v,
         Ordered(E, Q, t, n), Grown(Q, R, N),
         NEW m, NEW z, NEW x, << m, z, x >> \in N, IsThing(E, x),
         x.owner = t, Nth(x) = n, IsPlace(E, t, n), Sooner(t, n, u, v),
         \A i, k, e : << i, k, e >> \in N /\ IsThing(E, e) => i = m /\ k = z /\ e = x,
         m \in Nat, z \in Nat,
         \A i, k, e : Holds(Q, i, k, e) => i \in Nat /\ k \in Nat /\ (i < m \/ (i = m /\ k < z)),
         \A a, b : IsPlace(E, a, b) =>
           (Sooner(a, b, u, v) <=> Sooner(a, b, t, n) \/ (a = t /\ b = n))
  PROVE  Ordered(E, R, u, v)
  <1>1. ASSUME NEW i, NEW k, NEW e, Holds(R, i, k, e), IsThing(E, e)
        PROVE  \/ Holds(Q, i, k, e)
               \/ i = m /\ k = z /\ e = x
    BY <1>1 DEF Grown
  <1>2. ASSUME NEW i, NEW k, NEW e, Holds(Q, i, k, e), IsThing(E, e)
        PROVE  IsPlace(E, e.owner, Nth(e)) /\ Sooner(e.owner, Nth(e), t, n)
    BY <1>2 DEF Ordered
  <1>3. ASSUME NEW i, NEW k, NEW e, Holds(R, i, k, e), IsThing(E, e)
        PROVE  IsPlace(E, e.owner, Nth(e)) /\ Sooner(e.owner, Nth(e), u, v)
    BY <1>1, <1>2, <1>3
  <1>4. ASSUME NEW a, NEW b, IsPlace(E, a, b), Sooner(a, b, u, v)
        PROVE  \E i, k, e : Holds(R, i, k, e) /\ IsThing(E, e) /\ a = e.owner /\ b = Nth(e)
    <2>1. CASE a = t /\ b = n
      <3>1. Holds(R, m, z, x)
        BY DEF Grown
      <3> QED
        BY <2>1, <3>1
    <2>2. CASE ~(a = t /\ b = n)
      <3>1. PICK i, k, e : Holds(Q, i, k, e) /\ IsThing(E, e) /\ a = e.owner /\ b = Nth(e)
        BY <1>4, <2>2 DEF Ordered
      <3>2. Holds(R, i, k, e)
        BY <3>1 DEF Grown
      <3> QED
        BY <3>1, <3>2
    <2> QED
      BY <2>1, <2>2
  <1>5. ASSUME NEW i, NEW k, NEW e, NEW j, NEW l, NEW f,
               Holds(R, i, k, e), IsThing(E, e), Holds(R, j, l, f), IsThing(E, f),
               i < j \/ (i = j /\ k < l)
        PROVE  Sooner(e.owner, Nth(e), f.owner, Nth(f))
    <2>1. CASE Holds(Q, i, k, e) /\ Holds(Q, j, l, f)
      BY <1>5, <2>1 DEF Ordered
    <2>2. CASE Holds(Q, i, k, e) /\ j = m /\ l = z /\ f = x
      BY <1>2, <1>5, <2>2
    <2>3. CASE i = m /\ k = z /\ Holds(Q, j, l, f)
      <3>1. j \in Nat /\ l \in Nat /\ (j < m \/ (j = m /\ l < z))
        BY <2>3
      <3> QED
        BY ONLY <1>5, <2>3, <3>1, m \in Nat, z \in Nat
    <2>4. CASE i = m /\ k = z /\ j = m /\ l = z
      BY ONLY <1>5, <2>4, m \in Nat, z \in Nat
    <2> QED
      BY <1>1, <1>5, <2>1, <2>2, <2>3, <2>4
  <1> QED
    BY <1>3, <1>4, <1>5 DEF Ordered

\* No place lies between << t, n >> and << u, v >>.
Onward(E, t, n, u, v) ==
  t <= u /\ \A a, b : IsPlace(E, a, b) => (Sooner(a, b, u, v) <=> Sooner(a, b, t, n))

\* What is due may be named by any place before the next there is.
LEMMA OrderedNext ==
  ASSUME NEW E, NEW Q, NEW t, NEW n, NEW u, NEW v, Ordered(E, Q, t, n), Onward(E, t, n, u, v)
  PROVE  Ordered(E, Q, u, v)
  BY DEF Ordered, Onward

\* A length written afterwards changes no order.
LEMMA OrderedPatch ==
  ASSUME NEW E, NEW Q, NEW R, NEW t, NEW n, Ordered(E, Q, t, n), Patched(E.kind, Q, R)
  PROVE  Ordered(E, R, t, n)
  <1>1. ASSUME NEW i, NEW k, NEW e, Holds(R, i, k, e), IsThing(E, e)
        PROVE  Holds(Q, i, k, e)
    <2>1. PICK f : Holds(Q, i, k, f) /\ Same(E.kind, f, e)
      BY <1>1 DEF Patched
    <2>2. f = e
      BY <1>1, <2>1, SameThing
    <2> QED
      BY <2>1, <2>2
  <1>2. ASSUME NEW i, NEW k, NEW e, Holds(Q, i, k, e), IsThing(E, e)
        PROVE  Holds(R, i, k, e)
    <2>1. PICK f : Holds(R, i, k, f) /\ Same(E.kind, e, f)
      BY <1>2 DEF Patched
    <2>2. f = e
      BY <1>2, <2>1, SameThing
    <2> QED
      BY <2>1, <2>2
  <1> QED
    BY <1>1, <1>2 DEF Ordered

-----------------------------------------------------------------------------
(* The steps that change no section.                                       *)

\* The machine moves on, and nothing of it is about the sections.
LEMMA QuietPack ==
  ASSUME NEW E, NEW K, NEW B, NEW Q, NEW ph, NEW held, NEW t, NEW n,
         SheetInv(E, K, B, Q, ph, held, t, n),
         NEW C, NEW ph2, NEW held2, NEW u, NEW v,
         DueOK(E, Q, ph2, held2, u, v), ph2 = "IN" => ph = "IN",
         Onward(E, t, n, u, v),
         u = t => (ph = "IN" \/ held = "DESC" => ph2 = "IN" \/ held2 = "DESC"),
         Roomy(E) => /\ HeadFits(E, Q, ph2, held2, u, v)
                     /\ Followed(E, Q, ph2, held2, v)
                     /\ FullBefore(E, C, Q, ph2, held2, u, v)
  PROVE  SheetInv(E, K, C, Q, ph2, held2, u, v)
  <1>1. SheetsOK(E, K, Q, ph2)
    BY DEF SheetInv, SheetsOK
  <1>2. Ordered(E, Q, u, v)
    BY OrderedNext DEF SheetInv
  <1>3. Owned(Q, ph2, held2, u)
    <2>1. t \in Nat /\ u \in Nat /\ t <= u
      BY DEF SheetInv, DueOK, Onward
    <2>2. SUFFICES ASSUME NEW i, NEW k, NEW e, Holds(Q, i, k, e)
                   PROVE  /\ e.owner <= u /\ (e.kind \in {"item", "desc"} => e.owner # 0)
                          /\ e.kind \notin {"item", "desc", "desc_loop_len"} => e.owner = 0
                          /\ e.owner = u /\ u # 0 => ph2 = "IN" \/ held2 = "DESC"
      BY DEF Owned
    <2>3. /\ e.owner <= t /\ (e.kind \in {"item", "desc"} => e.owner # 0)
          /\ e.kind \notin {"item", "desc", "desc_loop_len"} => e.owner = 0
          /\ e.owner = t /\ t # 0 => ph = "IN" \/ held = "DESC"
      BY <2>2 DEF SheetInv, Owned
    <2>4. e.owner \in Nat
      <3>1. e \in Entries(K)
        BY <2>2, SheetTypes DEF SheetInv, SheetsOK, Holds
      <3> QED
        BY <3>1 DEF Entries
    <2> QED
      BY <2>1, <2>3, <2>4
  <1> QED
    BY <1>1, <1>2, <1>3 DEF SheetInv

\* The types of what the invariant relates.
LEMMA DueType ==
  ASSUME NEW E, NEW K, NEW B, NEW Q, NEW ph, NEW held, NEW t, NEW n,
         SheetInv(E, K, B, Q, ph, held, t, n)
  PROVE  /\ PackArgs(E) /\ t \in Nat /\ n \in Nat /\ Len(E.D) \in Nat /\ Len(E.own) \in Nat
         /\ DOMAIN E.D = 1 .. Len(E.D) /\ DOMAIN E.own = 1 .. Len(E.own)
         /\ E.set \subseteq 1 .. Len(E.own)
         /\ \A i \in 1 .. Len(E.own) : E.own[i] \in Nat
         /\ E.base \in Nat /\ E.fresh \in Nat /\ E.M \in Nat
         /\ Q \in SheetsOf(K) /\ Len(Q) \in Nat /\ (Q # << >> <=> 1 <= Len(Q))
  <1>1. PackArgs(E) /\ DueOK(E, Q, ph, held, t, n) /\ SheetsOK(E, K, Q, ph)
    BY DEF SheetInv
  <1>2. PICK S : S = Seq(Nat)
    OBVIOUS
  <1>3. E.D \in Seq(S) /\ E.own \in Seq(Nat) /\ E.set \subseteq DOMAIN E.own
    BY <1>1, <1>2 DEF PackArgs
  <1> QED
    <2>1. /\ t \in Nat /\ n \in Nat /\ Q \in SheetsOf(K)
          /\ E.base \in Nat /\ E.fresh \in Nat /\ E.M \in Nat
      BY ONLY <1>1 DEF PackArgs, DueOK, SheetsOK
    <2>2. Len(Q) \in Nat /\ (Q # << >> <=> 1 <= Len(Q))
      BY ONLY <2>1, SheetTypes
    <2>3. /\ Len(E.D) \in Nat /\ DOMAIN E.D = 1 .. Len(E.D)
      BY ONLY <1>3
    <2>4. /\ Len(E.own) \in Nat /\ DOMAIN E.own = 1 .. Len(E.own)
          /\ \A i \in 1 .. Len(E.own) : E.own[i] \in Nat
      BY ONLY <1>3
    <2>5. E.set \subseteq 1 .. Len(E.own)
      BY ONLY <1>3, <2>4
    <2> QED
      BY ONLY <1>1, <2>1, <2>2, <2>3, <2>4, <2>5

\* The items' lengths.
LEMMA ItemType ==
  ASSUME NEW E, PackArgs(E), NEW i \in DOMAIN E.D
  PROVE  /\ i \in Nat /\ 1 <= i /\ i <= Len(E.D) /\ Len(E.D[i]) \in Nat
         /\ (E.D[i] = << >> <=> Len(E.D[i]) = 0)
         /\ \A k \in 1 .. Len(E.D[i]) : E.D[i][k] \in Nat
         /\ Past(E, i) \in Nat /\ 2 <= Past(E, i)
         /\ (E.D[i] # << >> => Past(E, i) = Len(E.D[i]) + 1)
         /\ (E.D[i] = << >> => Past(E, i) = 2)
  <1>1. PICK S : S = Seq(Nat)
    OBVIOUS
  <1>2. E.D \in Seq(S)
    BY <1>1 DEF PackArgs
  <1>3. i \in Nat /\ 1 <= i /\ i <= Len(E.D) /\ E.D[i] \in S
    BY <1>2
  <1>4. PICK d : d = E.D[i]
    OBVIOUS
  <1>5. /\ Len(d) \in Nat /\ (d = << >> <=> Len(d) = 0)
        /\ \A k \in 1 .. Len(d) : d[k] \in Nat
    BY <1>1, <1>3, <1>4
  <1> QED
    BY <1>3, <1>4, <1>5 DEF Past

\* A build begins.
LEMMA BeginPack ==
  ASSUME NEW E, NEW K, PackArgs(E)
  PROVE  SheetInv(E, K, {}, << >>, "OUT", "NONE", 0, 1)
  <1>1. PICK Q : Q = << >>
    OBVIOUS
  <1>2. Q \in SheetsOf(K) /\ Len(Q) = 0
    BY <1>1 DEF SheetsOf
  <1>3. /\ \A i, k, e : ~Holds(Q, i, k, e)
        /\ \A i \in 1 .. Len(Q) : FALSE
        /\ \A i \in 2 .. Len(Q) : FALSE
    BY <1>2 DEF Holds
  <1>4. Len(E.D) \in Nat /\ Len(E.own) \in Nat /\ DOMAIN E.D = 1 .. Len(E.D)
        /\ E.set \subseteq 1 .. Len(E.own)
    <2>1. PICK S : S = Seq(Nat)
      OBVIOUS
    <2>2. E.D \in Seq(S) /\ E.own \in Seq(Nat) /\ E.set \subseteq DOMAIN E.own
      BY <2>1 DEF PackArgs
    <2> QED
      BY ONLY <2>2
  <1>5. DueOK(E, Q, "OUT", "NONE", 0, 1)
    BY <1>4 DEF DueOK
  <1>6. SheetsOK(E, K, Q, "OUT")
    BY <1>2, <1>3 DEF SheetsOK
  <1>7. ASSUME NEW a, NEW b, IsPlace(E, a, b) PROVE ~Sooner(a, b, 0, 1)
    BY <1>4, <1>7 DEF IsPlace, Sooner
  <1>8. Ordered(E, Q, 0, 1)
    BY <1>3, <1>7 DEF Ordered
  <1>9. /\ Owned(Q, "OUT", "NONE", 0) /\ Heavy(E, Q)
        /\ HeadFits(E, Q, "OUT", "NONE", 0, 1)
        /\ Followed(E, Q, "OUT", "NONE", 1)
    BY <1>3, <1>4 DEF Owned, Heavy, HeadFits, Followed
  <1>10. FullBefore(E, {}, Q, "OUT", "NONE", 0, 1)
    BY <1>1, <1>3 DEF FullBefore, Waits
  <1> QED
    BY <1>1, <1>5, <1>6, <1>8, <1>9, <1>10 DEF SheetInv

\* Places one after the other.
LEMMA SoonerSucc ==
  ASSUME NEW t \in Nat, NEW n \in Nat, NEW a \in Nat, NEW b \in Nat
  PROVE  Sooner(a, b, t, n + 1) <=> Sooner(a, b, t, n) \/ (a = t /\ b = n)
  BY DEF Sooner

\* The types of a place.
LEMMA PlaceType ==
  ASSUME NEW E, NEW K, NEW B, NEW Q, NEW ph, NEW held, NEW t, NEW n,
         SheetInv(E, K, B, Q, ph, held, t, n), NEW a, NEW b, IsPlace(E, a, b)
  PROVE  /\ a \in Nat /\ b \in Nat /\ 1 <= b /\ a <= Len(E.D)
         /\ a = 0 => b \in E.set /\ b <= Len(E.own)
         /\ a # 0 => a \in DOMAIN E.D /\ b < Past(E, a) /\ Past(E, a) \in Nat
  <1>1. CASE a = 0 /\ b \in E.set
    <2>1. b \in 1 .. Len(E.own) /\ Len(E.D) \in Nat /\ Len(E.own) \in Nat
      BY <1>1, DueType
    <2> QED
      BY <1>1, <2>1
  <1>2. CASE a \in DOMAIN E.D /\ b \in Nat /\ 1 <= b /\ b < Past(E, a)
    <2>1. PackArgs(E)
      BY DEF SheetInv
    <2>2. a \in Nat /\ 1 <= a /\ a <= Len(E.D) /\ Past(E, a) \in Nat
      BY ONLY <1>2, <2>1, ItemType
    <2> QED
      BY ONLY <1>2, <2>2
  <1> QED
    BY <1>1, <1>2 DEF IsPlace

\* If the section being written is begun as it must be, all are.
LEMMA AllBegun ==
  ASSUME NEW E, NEW B, NEW Q, NEW ph, NEW held, NEW t, NEW n,
         FullBefore(E, B, Q, ph, held, t, n),
         ph = "TOP" => held = "NONE", ph = "IN" => held # "DESC" /\ n # 1
  PROVE  \A i \in 2 .. Len(Q) : i \notin B => Begins(E, Q, i)
  BY DEF FullBefore, BeginsNext

\* Then the next step of the machine in the section leaves it so.
LEMMA StaysFilled ==
  ASSUME NEW E, NEW B, NEW Q, NEW ph, NEW held, NEW t, NEW n, ph # "OUT",
         \A i \in 2 .. Len(Q) : i \notin B => Begins(E, Q, i)
  PROVE  FullBefore(E, B, Q, ph, held, t, n)
  BY DEF FullBefore, Waits

\* The table's own loop is done.
LEMMA OwnDonePack ==
  ASSUME NEW E, NEW K, NEW B, NEW Q, NEW ph \in {"OUT", "TOP"}, NEW t, NEW n,
         SheetInv(E, K, B, Q, ph, "NONE", t, n), t = 0, n = Len(E.own) + 1
  PROVE  SheetInv(E, K, B, Q, ph, "NONE", 1, 1)
  <1>1. /\ PackArgs(E) /\ Len(E.D) \in Nat /\ Len(E.own) \in Nat
        /\ DOMAIN E.D = 1 .. Len(E.D)
    BY DueType
  <1>2. /\ DueOK(E, Q, ph, "NONE", t, n) /\ Owned(Q, ph, "NONE", t)
        /\ Roomy(E) => /\ HeadFits(E, Q, ph, "NONE", t, n)
                       /\ Followed(E, Q, ph, "NONE", n)
                       /\ FullBefore(E, B, Q, ph, "NONE", t, n)
    BY DEF SheetInv
  <1>3. DueOK(E, Q, ph, "NONE", 1, 1)
    <2>1. 1 \in DOMAIN E.D => 1 <= Past(E, 1)
      BY ONLY <1>1, ItemType
    <2> QED
      BY <1>1, <1>2, <2>1 DEF DueOK
  <1>4. ASSUME NEW a, NEW b, IsPlace(E, a, b)
        PROVE  Sooner(a, b, 1, 1) <=> Sooner(a, b, t, n)
    <2>1. /\ a \in Nat /\ b \in Nat /\ 1 <= b
          /\ a = 0 => b <= Len(E.own)
      BY ONLY <1>4, PlaceType, SheetInv(E, K, B, Q, ph, "NONE", t, n)
    <2>2. PICK m \in Nat : m = Len(E.own)
      BY <1>1
    <2>3. Sooner(a, b, 1, 1) <=> Sooner(a, b, 0, m + 1)
      BY ONLY <2>1, <2>2 DEF Sooner
    <2> QED
      BY <2>2, <2>3
  <1>5. ASSUME Roomy(E)
        PROVE  /\ HeadFits(E, Q, ph, "NONE", 1, 1) /\ Followed(E, Q, ph, "NONE", 1)
               /\ FullBefore(E, B, Q, ph, "NONE", 1, 1)
    <2>1. HeadFits(E, Q, ph, "NONE", 1, 1)
      BY DEF HeadFits
    <2>2. Followed(E, Q, ph, "NONE", 1)
      BY <1>2, <1>5 DEF Followed, Lonely
    <2>3. FullBefore(E, B, Q, ph, "NONE", 1, 1)
      BY <1>2, <1>5 DEF FullBefore, BeginsNext, Waits
    <2> QED
      BY <2>1, <2>2, <2>3
  <1>6. Onward(E, t, n, 1, 1)
    BY <1>4 DEF Onward
  <1> QED
    BY <1>1, <1>2, <1>3, <1>5, <1>6, QuietPack

\* A step of the machine in its section, which changes nothing in it. Before it nothing
\* is held that the section does not begin with.
LEMMA MovePack ==
  ASSUME NEW E, NEW K, NEW B, NEW Q, NEW ph, NEW held, NEW t, NEW n,
         SheetInv(E, K, B, Q, ph, held, t, n), Q # << >>,
         NEW C, B \subseteq C, NEW ph2, NEW held2, NEW u, NEW v,
         DueOK(E, Q, ph2, held2, u, v), ph2 = "IN" => ph = "IN",
         Onward(E, t, n, u, v),
         u = t => (ph = "IN" \/ held = "DESC" => ph2 = "IN" \/ held2 = "DESC"),
         ph = "TOP" => held = "NONE",
         Roomy(E) => /\ HeadFits(E, Q, ph2, held2, u, v)
                     /\ Followed(E, Q, ph2, held2, v)
                     /\ ph = "IN" => held # "DESC" /\ n # 1,
         Waits(E, C, Q, ph2, held2, u, v)
  PROVE  SheetInv(E, K, C, Q, ph2, held2, u, v)
  <1>1. ASSUME Roomy(E)
        PROVE  FullBefore(E, C, Q, ph2, held2, u, v)
    <2>1. FullBefore(E, B, Q, ph, held, t, n)
      BY <1>1 DEF SheetInv
    <2>2. \A i \in 2 .. Len(Q) : i \notin B => Begins(E, Q, i)
      <3>1. ph = "IN" => held # "DESC" /\ n # 1
        BY <1>1
      <3> QED
        BY ONLY <2>1, <3>1, AllBegun, ph = "TOP" => held = "NONE"
    <2> QED
      BY ONLY <2>2, Waits(E, C, Q, ph2, held2, u, v), B \subseteq C DEF FullBefore
  <1> QED
    BY <1>1, QuietPack

\* What held things are followed by, between two steps in the table's own loop or
\* in an item of which a descriptor has been written.
LEMMA FollowedAll ==
  ASSUME NEW E, NEW Q, NEW ph, NEW held, NEW n, Followed(E, Q, ph, held, n),
         ph = "IN" => held # "DESC" /\ n # 1, NEW ph2, NEW held2, NEW v
  PROVE  Followed(E, Q, ph2, held2, v)
  BY DEF Followed, Lonely

\* Staying is a move.
LEMMA NoMove ==
  ASSUME NEW E, NEW t \in Nat, NEW n
  PROVE  Onward(E, t, n, t, n)
  BY DEF Onward

\* An entry of the table's own loop is fetched.
LEMMA FetchOwnPack ==
  ASSUME NEW E, NEW K, NEW B, NEW Q, NEW t, NEW n,
         SheetInv(E, K, B, Q, "TOP", "NONE", t, n), t = 0, n \in E.set
  PROVE  SheetInv(E, K, B, Q, "TOP", "ITEM", t, n)
  <1>1. /\ DueOK(E, Q, "TOP", "NONE", t, n)
        /\ Roomy(E) => Followed(E, Q, "TOP", "NONE", n)
    BY DEF SheetInv
  <1>2. Len(E.D) \in Nat /\ 0 \notin DOMAIN E.D
    BY DueType
  <1>3. DueOK(E, Q, "TOP", "ITEM", t, n) /\ Q # << >>
    BY <1>1, <1>2 DEF DueOK
  <1>4. HeadFits(E, Q, "TOP", "ITEM", t, n)
    BY <1>2 DEF HeadFits
  <1>5. Roomy(E) => Followed(E, Q, "TOP", "ITEM", n)
    BY <1>1, FollowedAll
  <1>6. Onward(E, t, n, t, n) /\ B \subseteq B /\ Waits(E, B, Q, "TOP", "ITEM", t, n)
    BY NoMove DEF Waits
  <1> QED
    BY ONLY <1>3, <1>4, <1>5, <1>6, MovePack, SheetInv(E, K, B, Q, "TOP", "NONE", t, n)

\* It has no room: it is first in the next section.
LEMMA FullOwnPack ==
  ASSUME NEW E, NEW K, NEW B, NEW Q, NEW t, NEW n,
         SheetInv(E, K, B, Q, "TOP", "NONE", t, n), t = 0, n \in E.set,
         Q[Len(Q)][2] + E.own[n] > E.M
  PROVE  SheetInv(E, K, B, Q, "OUT", "ITEM", t, n)
  <1>1. /\ DueOK(E, Q, "TOP", "NONE", t, n)
        /\ Roomy(E) => Followed(E, Q, "TOP", "NONE", n)
    BY DEF SheetInv
  <1>2. Len(E.D) \in Nat /\ 0 \notin DOMAIN E.D
    BY DueType
  <1>3. DueOK(E, Q, "OUT", "ITEM", t, n) /\ Q # << >>
    BY <1>1, <1>2 DEF DueOK
  <1>4. HeadFits(E, Q, "OUT", "ITEM", t, n)
    BY <1>2 DEF HeadFits
  <1>5. Roomy(E) => Followed(E, Q, "OUT", "ITEM", n)
    BY <1>1, FollowedAll
  <1>6. Onward(E, t, n, t, n) /\ B \subseteq B
    BY NoMove
  <1>7. Waits(E, B, Q, "OUT", "ITEM", t, n)
    BY <1>2 DEF DueTakes, Waits
  <1> QED
    BY ONLY <1>3, <1>4, <1>5, <1>6, <1>7, MovePack, SheetInv(E, K, B, Q, "TOP", "NONE", t, n)

\* A mark: what comes next is first in the next section, whether there is room or not.
LEMMA MarkPack ==
  ASSUME NEW E, NEW K, NEW B, NEW Q, NEW t, NEW n,
         SheetInv(E, K, B, Q, "TOP", "NONE", t, n), t = 0, n <= Len(E.own), n \notin E.set,
         NEW C, C = B \cup {Len(Q) + 1}
  PROVE  SheetInv(E, K, C, Q, "OUT", "NONE", t, n + 1)
  <1>1. /\ DueOK(E, Q, "TOP", "NONE", t, n)
        /\ Roomy(E) => Followed(E, Q, "TOP", "NONE", n)
    BY DEF SheetInv
  <1>2. Len(E.D) \in Nat /\ 0 \notin DOMAIN E.D /\ Len(E.own) \in Nat
    BY DueType
  <1>3. DueOK(E, Q, "OUT", "NONE", t, n + 1) /\ Q # << >> /\ n \in Nat
    BY <1>1, <1>2 DEF DueOK
  <1>4. HeadFits(E, Q, "OUT", "NONE", t, n + 1)
    BY <1>2 DEF HeadFits
  <1>5. Roomy(E) => Followed(E, Q, "OUT", "NONE", n + 1)
    BY <1>1, FollowedAll
  <1>6. ASSUME NEW a, NEW b, IsPlace(E, a, b)
        PROVE  Sooner(a, b, t, n + 1) <=> Sooner(a, b, t, n)
    <2>1. /\ a \in Nat /\ b \in Nat
          /\ a = 0 => b \in E.set
      BY ONLY <1>6, PlaceType, SheetInv(E, K, B, Q, "TOP", "NONE", t, n)
    <2>2. ~(a = 0 /\ b = n)
      BY <2>1
    <2> QED
      BY ONLY <1>3, <2>1, <2>2, t = 0, SoonerSucc
  <1>7. Onward(E, t, n, t, n + 1) /\ B \subseteq C
    BY <1>6 DEF Onward
  <1>8. Waits(E, C, Q, "OUT", "NONE", t, n + 1)
    BY DEF Waits
  <1> QED
    BY ONLY <1>3, <1>4, <1>5, <1>7, <1>8, MovePack, SheetInv(E, K, B, Q, "TOP", "NONE", t, n)

\* An item is fetched: its header fits, and its first descriptor.
LEMMA FetchItemPack ==
  ASSUME NEW E, NEW K, NEW B, NEW Q, NEW t, NEW n,
         SheetInv(E, K, B, Q, "TOP", "NONE", t, n), t \in DOMAIN E.D,
         E.D[t] # << >> => Q[Len(Q)][2] + E.base + E.D[t][1] <= E.M
  PROVE  SheetInv(E, K, B, Q, "TOP", "ITEM", t, n)
  <1>1. /\ DueOK(E, Q, "TOP", "NONE", t, n)
        /\ Roomy(E) => Followed(E, Q, "TOP", "NONE", n)
    BY DEF SheetInv
  <1>2. Len(E.D) \in Nat /\ 0 \notin DOMAIN E.D /\ Len(E.D) + 1 \notin DOMAIN E.D /\ t \in Nat
    BY DueType
  <1>3. DueOK(E, Q, "TOP", "ITEM", t, n) /\ Q # << >>
    BY <1>1, <1>2 DEF DueOK
  <1>4. HeadFits(E, Q, "TOP", "ITEM", t, n)
    BY <1>2 DEF HeadFits
  <1>5. Roomy(E) => Followed(E, Q, "TOP", "ITEM", n)
    BY <1>1, FollowedAll
  <1>6. Onward(E, t, n, t, n) /\ B \subseteq B /\ Waits(E, B, Q, "TOP", "ITEM", t, n)
    BY <1>2, NoMove DEF Waits
  <1> QED
    BY ONLY <1>3, <1>4, <1>5, <1>6, MovePack, SheetInv(E, K, B, Q, "TOP", "NONE", t, n)

\* Or they do not.
LEMMA FullItemPack ==
  ASSUME NEW E, NEW K, NEW B, NEW Q, NEW t, NEW n,
         SheetInv(E, K, B, Q, "TOP", "NONE", t, n), t \in DOMAIN E.D,
         Q[Len(Q)][2] + E.base + (IF E.D[t] = << >> THEN 0 ELSE E.D[t][1]) > E.M
  PROVE  SheetInv(E, K, B, Q, "OUT", "ITEM", t, n)
  <1>1. /\ DueOK(E, Q, "TOP", "NONE", t, n) /\ Owned(Q, "TOP", "NONE", t)
        /\ Roomy(E) => Followed(E, Q, "TOP", "NONE", n)
        /\ SheetsOK(E, K, Q, "TOP")
    BY DEF SheetInv
  <1>2. /\ Len(E.D) \in Nat /\ 0 \notin DOMAIN E.D /\ Len(E.D) + 1 \notin DOMAIN E.D /\ t \in Nat
        /\ t <= Len(E.D) /\ E.base \in Nat /\ E.M \in Nat
        /\ Q \in SheetsOf(K) /\ PackArgs(E)
    BY DueType
  <1>3. DueOK(E, Q, "OUT", "ITEM", t, n) /\ Q # << >> /\ n = 1
    BY <1>1, <1>2 DEF DueOK
  <1>4. HeadFits(E, Q, "OUT", "ITEM", t, n)
    BY <1>2 DEF HeadFits
  <1>5. Roomy(E) => Followed(E, Q, "OUT", "ITEM", n)
    BY <1>1, FollowedAll
  <1>6. Onward(E, t, n, t, n) /\ B \subseteq B
    BY <1>2, NoMove
  <1>7. LastIn(Q, Len(Q)).owner # t
    <2>1. /\ Len(Q) \in Nat /\ Len(Q) \in 1 .. Len(Q) /\ Q[Len(Q)][1] \in Seq(Entries(K))
          /\ Q[Len(Q)][1] # << >>
      BY <1>1, <1>2, <1>3, SheetTypes DEF SheetsOK
    <2>2. PICK p : p = Q[Len(Q)][1]
      OBVIOUS
    <2>3. Len(p) \in 1 .. Len(p)
      BY ONLY <2>1, <2>2
    <2>4. Holds(Q, Len(Q), Len(p), LastIn(Q, Len(Q)))
      BY <2>1, <2>2, <2>3 DEF Holds, LastIn
    <2> QED
      BY <1>1, <1>2, <2>4 DEF Owned
  <1>8. Q[Len(Q)][2] + DueTakes(E, LastIn(Q, Len(Q)), t, n) > E.M
    <2>1. Q[Len(Q)][2] \in Nat
      BY <1>2, <1>3, SheetTypes
    <2>2. E.D[t] # << >> => E.D[t][1] \in Nat
      <3>1. /\ Len(E.D[t]) \in Nat /\ (E.D[t] = << >> <=> Len(E.D[t]) = 0)
            /\ \A k \in 1 .. Len(E.D[t]) : E.D[t][k] \in Nat
        BY ONLY <1>2, ItemType, t \in DOMAIN E.D
      <3> QED
        BY <3>1
    <2>3. CASE E.D[t] = << >>
      BY <1>2, <2>1, <2>3 DEF DueTakes
    <2>4. CASE E.D[t] # << >>
      <3>1. DueTakes(E, LastIn(Q, Len(Q)), t, n) = E.D[t][1] + E.base
        BY <1>2, <1>3, <1>7, <2>4 DEF DueTakes
      <3> QED
        BY <1>2, <2>1, <2>2, <2>4, <3>1
    <2> QED
      BY <2>3, <2>4
  <1>9. Waits(E, B, Q, "OUT", "ITEM", t, n)
    BY <1>2, <1>8 DEF Waits
  <1> QED
    BY ONLY <1>3, <1>4, <1>5, <1>6, <1>9, MovePack, SheetInv(E, K, B, Q, "TOP", "NONE", t, n)

\* There are no more.
LEMMA EndPack ==
  ASSUME NEW E, NEW K, NEW B, NEW Q, NEW t, NEW n,
         SheetInv(E, K, B, Q, "TOP", "NONE", t, n), t = Len(E.D) + 1
  PROVE  SheetInv(E, K, B, Q, "END", "NONE", t, n)
  <1>1. /\ DueOK(E, Q, "TOP", "NONE", t, n)
        /\ Roomy(E) => Followed(E, Q, "TOP", "NONE", n)
    BY DEF SheetInv
  <1>2. Len(E.D) \in Nat /\ 0 \notin DOMAIN E.D /\ Len(E.D) + 1 \notin DOMAIN E.D /\ t \in Nat
    BY DueType
  <1>3. DueOK(E, Q, "END", "NONE", t, n) /\ Q # << >>
    BY <1>1, <1>2 DEF DueOK
  <1>4. HeadFits(E, Q, "END", "NONE", t, n)
    BY <1>2 DEF HeadFits
  <1>5. Roomy(E) => Followed(E, Q, "END", "NONE", n)
    BY <1>1, FollowedAll
  <1>6. Onward(E, t, n, t, n) /\ B \subseteq B /\ Waits(E, B, Q, "END", "NONE", t, n)
    BY <1>2, NoMove DEF Waits
  <1> QED
    BY ONLY <1>3, <1>4, <1>5, <1>6, MovePack, SheetInv(E, K, B, Q, "TOP", "NONE", t, n)

\* A descriptor of the item is fetched.
LEMMA FetchDescPack ==
  ASSUME NEW E, NEW K, NEW B, NEW Q, NEW t, NEW n,
         SheetInv(E, K, B, Q, "IN", "NONE", t, n), n <= Len(E.D[t])
  PROVE  SheetInv(E, K, B, Q, "IN", "DESC", t, n)
  <1>1. /\ DueOK(E, Q, "IN", "NONE", t, n)
        /\ Roomy(E) => /\ Followed(E, Q, "IN", "NONE", n)
                       /\ FullBefore(E, B, Q, "IN", "NONE", t, n)
    BY DEF SheetInv
  <1>2. /\ Len(E.D) \in Nat /\ DOMAIN E.D = 1 .. Len(E.D) /\ t \in Nat /\ n \in Nat
        /\ PackArgs(E)
    BY DueType
  <1>3. t \in DOMAIN E.D /\ 1 <= n /\ Q # << >>
    BY <1>1, <1>2 DEF DueOK
  <1>4. E.D[t] # << >> /\ Len(E.D[t]) \in Nat
    <2>1. Len(E.D[t]) \in Nat /\ (E.D[t] = << >> <=> Len(E.D[t]) = 0)
      BY ONLY <1>2, <1>3, ItemType
    <2> QED
      BY <1>2, <1>3, <2>1
  <1>5. DueOK(E, Q, "IN", "DESC", t, n)
    BY <1>1, <1>2, <1>3, <1>4 DEF DueOK
  <1>6. HeadFits(E, Q, "IN", "DESC", t, n)
    BY DEF HeadFits
  <1>7. Roomy(E) => Followed(E, Q, "IN", "DESC", n)
    BY <1>1 DEF Followed, Lonely
  <1>8. Roomy(E) => FullBefore(E, B, Q, "IN", "DESC", t, n)
    <2>1. ASSUME NEW i, BeginsNext(E, Q, "IN", "NONE", t, n, i)
          PROVE  BeginsNext(E, Q, "IN", "DESC", t, n, i)
      BY <2>1 DEF BeginsNext
    <2> QED
      BY <1>1, <2>1 DEF FullBefore, Waits
  <1>9. Onward(E, t, n, t, n)
    BY <1>2, NoMove
  <1> QED
    BY ONLY <1>5, <1>6, <1>7, <1>8, <1>9, QuietPack, SheetInv(E, K, B, Q, "IN", "NONE", t, n)

\* It has no room.
LEMMA FullDescPack ==
  ASSUME NEW E, NEW K, NEW B, NEW Q, NEW t, NEW n,
         SheetInv(E, K, B, Q, "IN", "NONE", t, n), n <= Len(E.D[t]),
         Q[Len(Q)][2] + E.D[t][n] > E.M
  PROVE  SheetInv(E, K, B, Q, "OUT", "DESC", t, n)
  <1>1. /\ DueOK(E, Q, "IN", "NONE", t, n) /\ SheetsOK(E, K, Q, "IN")
        /\ Roomy(E) => /\ Followed(E, Q, "IN", "NONE", n)
                       /\ HeadFits(E, Q, "IN", "NONE", t, n)
    BY DEF SheetInv
  <1>2. /\ Len(E.D) \in Nat /\ DOMAIN E.D = 1 .. Len(E.D) /\ t \in Nat /\ n \in Nat
        /\ PackArgs(E) /\ Q \in SheetsOf(K) /\ E.base \in Nat /\ E.M \in Nat
    BY DueType
  <1>3. t \in DOMAIN E.D /\ t # 0 /\ 1 <= n /\ Q # << >> /\ t # Len(E.D) + 1 /\ t <= Len(E.D)
    BY <1>1, <1>2 DEF DueOK
  <1>4. /\ E.D[t] # << >> /\ Len(E.D[t]) \in Nat /\ E.D[t][n] \in Nat
        /\ n <= Past(E, t)
    <2>1. /\ Len(E.D[t]) \in Nat /\ (E.D[t] = << >> <=> Len(E.D[t]) = 0)
          /\ \A k \in 1 .. Len(E.D[t]) : E.D[t][k] \in Nat
          /\ (E.D[t] # << >> => Past(E, t) = Len(E.D[t]) + 1)
      BY ONLY <1>2, <1>3, ItemType
    <2> QED
      BY <1>2, <1>3, <2>1
  <1>5. Len(Q) \in Nat /\ Q[Len(Q)][2] \in Nat
    BY <1>2, <1>3, SheetTypes
  <1>6. DueOK(E, Q, "OUT", "DESC", t, n)
    BY <1>1, <1>2, <1>3, <1>4 DEF DueOK
  <1>7. Roomy(E) => n # 1
    BY <1>1, <1>2, <1>3, <1>4, <1>5 DEF HeadFits
  <1>8. Roomy(E) => HeadFits(E, Q, "OUT", "DESC", t, n)
    BY <1>2, <1>3, <1>7 DEF HeadFits
  <1>9. Roomy(E) => Followed(E, Q, "OUT", "DESC", n)
    BY <1>1, <1>7, FollowedAll
  <1>10. Waits(E, B, Q, "OUT", "DESC", t, n)
    <2>1. PICK x, y, z : /\ x = Q[Len(Q)][2] /\ y = E.D[t][n]
                         /\ z = IF LastIn(Q, Len(Q)).owner = t THEN 0 ELSE E.base
      OBVIOUS
    <2>2. x \in Nat /\ y \in Nat /\ z \in Nat /\ E.M \in Nat /\ x + y > E.M
      BY ONLY <1>2, <1>4, <1>5, <2>1, Q[Len(Q)][2] + E.D[t][n] > E.M
    <2>3. DueTakes(E, LastIn(Q, Len(Q)), t, n) = y + z
      BY ONLY <1>3, <1>4, <2>1 DEF DueTakes
    <2>4. x + (y + z) > E.M
      BY ONLY <2>2
    <2> QED
      BY ONLY <1>3, <2>1, <2>3, <2>4 DEF Waits
  <1>11. Onward(E, t, n, t, n) /\ B \subseteq B
    BY <1>2, NoMove
  <1> QED
    BY ONLY <1>3, <1>6, <1>7, <1>8, <1>9, <1>10, <1>11, MovePack,
            SheetInv(E, K, B, Q, "IN", "NONE", t, n)

\* An item is done.
LEMMA ItemDonePack ==
  ASSUME NEW E, NEW K, NEW B, NEW Q, NEW t, NEW n,
         SheetInv(E, K, B, Q, "IN", "NONE", t, n), n = Past(E, t)
  PROVE  SheetInv(E, K, B, Q, "TOP", "NONE", t + 1, 1)
  <1>1. /\ DueOK(E, Q, "IN", "NONE", t, n)
        /\ Roomy(E) => Followed(E, Q, "IN", "NONE", n)
    BY DEF SheetInv
  <1>2. /\ Len(E.D) \in Nat /\ DOMAIN E.D = 1 .. Len(E.D) /\ t \in Nat /\ n \in Nat
        /\ PackArgs(E)
    BY DueType
  <1>3. t \in DOMAIN E.D /\ 1 <= n /\ Q # << >> /\ 1 <= t /\ t <= Len(E.D)
    BY <1>1, <1>2 DEF DueOK
  <1>4. 2 <= n
    BY ONLY <1>2, <1>3, ItemType, n = Past(E, t)
  <1>5. DueOK(E, Q, "TOP", "NONE", t + 1, 1)
    <2>1. t + 1 \in DOMAIN E.D => 2 <= Past(E, t + 1) /\ Past(E, t + 1) \in Nat
      BY ONLY <1>2, ItemType
    <2> QED
      BY <1>2, <1>3, <2>1 DEF DueOK
  <1>6. HeadFits(E, Q, "TOP", "NONE", t + 1, 1)
    BY DEF HeadFits
  <1>7. Roomy(E) => Followed(E, Q, "TOP", "NONE", 1)
    BY <1>1, <1>4, FollowedAll
  <1>8. ASSUME NEW a, NEW b, IsPlace(E, a, b)
        PROVE  Sooner(a, b, t + 1, 1) <=> Sooner(a, b, t, n)
    <2>1. /\ a \in Nat /\ b \in Nat /\ 1 <= b
          /\ a # 0 => b < Past(E, a)
      BY ONLY <1>8, PlaceType, SheetInv(E, K, B, Q, "IN", "NONE", t, n)
    <2>2. a = t => b < n
      BY <1>3, <2>1, n = Past(E, t)
    <2> QED
      BY ONLY <1>2, <2>1, <2>2 DEF Sooner
  <1>9. Onward(E, t, n, t + 1, 1) /\ B \subseteq B /\ Waits(E, B, Q, "TOP", "NONE", t + 1, 1)
    BY <1>2, <1>8 DEF Onward, Waits
  <1>10. t + 1 # t /\ n # 1
    BY ONLY <1>2, <1>4
  <1> QED
    BY ONLY <1>3, <1>5, <1>6, <1>7, <1>9, <1>10, MovePack,
            SheetInv(E, K, B, Q, "IN", "NONE", t, n)

-----------------------------------------------------------------------------
(* The steps that write.                                                   *)

\* What was held is in a section, and before the place of the next entry.
LEMMA HoldsType ==
  ASSUME NEW K, NEW Q \in SheetsOf(K), NEW i, NEW k, NEW e, Holds(Q, i, k, e)
  PROVE  /\ i \in Nat /\ k \in Nat /\ 1 <= i /\ i <= Len(Q) /\ Len(Q) \in Nat
         /\ 1 <= k /\ k <= Len(Q[i][1]) /\ Len(Q[i][1]) \in Nat
         /\ e \in Entries(K) /\ e.owner \in Nat
  <1>1. /\ Len(Q) \in Nat /\ i \in 1 .. Len(Q) /\ k \in 1 .. Len(Q[i][1]) /\ e = Q[i][1][k]
        /\ Q[i][1] \in Seq(Entries(K)) /\ Len(Q[i][1]) \in Nat
    BY SheetTypes DEF Holds
  <1>2. e \in Entries(K)
    BY ONLY <1>1
  <1> QED
    BY <1>1, <1>2 DEF Entries

\* A section that has begun as it must still does when the last one is changed.
LEMMA BeginsKept ==
  ASSUME NEW E, NEW Q, NEW R, NEW i, Begins(E, Q, i), R[i - 1] = Q[i - 1],
         \A k, e : Holds(Q, i, k, e) /\ IsThing(E, e) => Holds(R, i, k, e),
         \A k, e, l, f : Holds(Q, i, k, e) /\ Holds(R, i, l, f) /\ l < k /\ IsThing(E, f) =>
           Holds(Q, i, l, f)
  PROVE  Begins(E, R, i)
  <1>1. PICK k, e : /\ Holds(Q, i, k, e) /\ IsThing(E, e)
                    /\ \A l, f : Holds(Q, i, l, f) /\ l < k => ~IsThing(E, f)
                    /\ Q[i - 1][2] + Takes(E, LastIn(Q, i - 1), e) > E.M
    BY DEF Begins
  <1>2. LastIn(R, i - 1) = LastIn(Q, i - 1)
    BY DEF LastIn
  <1>3. \A l, f : Holds(R, i, l, f) /\ l < k => ~IsThing(E, f)
    BY <1>1
  <1>4. Holds(R, i, k, e)
    BY <1>1
  <1> QED
    BY <1>1, <1>2, <1>3, <1>4 DEF Begins

\* New entries that are of the item due, or of no item.
LEMMA OwnedGrown ==
  ASSUME NEW Q, NEW R, NEW N, NEW ph, NEW held, NEW t, NEW ph2, NEW held2,
         Owned(Q, ph, held, t), Grown(Q, R, N),
         ph = "IN" \/ held = "DESC" => ph2 = "IN" \/ held2 = "DESC",
         \A i, k, e : << i, k, e >> \in N =>
           /\ e.owner <= t /\ (e.kind \in {"item", "desc"} => e.owner # 0)
           /\ e.kind \notin {"item", "desc", "desc_loop_len"} => e.owner = 0
           /\ e.owner = t /\ t # 0 => ph2 = "IN" \/ held2 = "DESC"
  PROVE  Owned(R, ph2, held2, t)
  BY DEF Owned, Grown

\* A descriptor that is held.
LEMMA HeavyType ==
  ASSUME NEW E, PackArgs(E), NEW Q, Heavy(E, Q),
         NEW i, NEW k, NEW e, Holds(Q, i, k, e), e.kind = "desc"
  PROVE  /\ e.owner \in DOMAIN E.D /\ e.n \in 1 .. Len(E.D[e.owner])
         /\ E.D[e.owner][e.n] \in Nat /\ E.D[e.owner][1] \in Nat
         /\ IsThing(E, e)
  <1>1. e.owner \in DOMAIN E.D /\ e.n \in 1 .. Len(E.D[e.owner]) /\ IsThing(E, e)
    BY DEF Heavy, IsThing
  <1>2. /\ Len(E.D[e.owner]) \in Nat
        /\ \A l \in 1 .. Len(E.D[e.owner]) : E.D[e.owner][l] \in Nat
    BY ONLY <1>1, ItemType, PackArgs(E)
  <1>3. 1 \in 1 .. Len(E.D[e.owner])
    BY <1>1, <1>2
  <1> QED
    BY <1>1, <1>2, <1>3

\* New descriptors that are counted with their item's header.
LEMMA HeavyGrown ==
  ASSUME NEW E, NEW K, NEW Q \in SheetsOf(K), NEW R \in SheetsOf(K), NEW N,
         Heavy(E, Q), Grown(Q, R, N), PackArgs(E),
         \A i \in 1 .. Len(Q) : Q[i][2] <= R[i][2],
         Len(Q) <= Len(R),
         \A i, k, e : << i, k, e >> \in N /\ e.kind = "desc" =>
           /\ e.owner \in DOMAIN E.D /\ e.n \in 1 .. Len(E.D[e.owner])
           /\ e.n = 1 => E.fresh + E.base + E.D[e.owner][1] <= R[i][2]
  PROVE  Heavy(E, R)
  <1>1. SUFFICES ASSUME NEW i, NEW k, NEW e, Holds(R, i, k, e), e.kind = "desc"
                 PROVE  /\ e.owner \in DOMAIN E.D /\ e.n \in 1 .. Len(E.D[e.owner])
                        /\ e.n = 1 => E.fresh + E.base + E.D[e.owner][1] <= R[i][2]
    BY DEF Heavy
  <1>2. CASE << i, k, e >> \in N
    BY <1>1, <1>2
  <1>3. CASE Holds(Q, i, k, e)
    <2>1. /\ e.owner \in DOMAIN E.D /\ e.n \in 1 .. Len(E.D[e.owner])
          /\ e.n = 1 => E.fresh + E.base + E.D[e.owner][1] <= Q[i][2]
      BY <1>1, <1>3 DEF Heavy
    <2>2. E.D[e.owner][1] \in Nat
      BY <1>1, <1>3, HeavyType
    <2>3. /\ i \in Nat /\ 1 <= i /\ i <= Len(Q) /\ Len(Q) \in Nat /\ Len(R) \in Nat
      BY <1>3, HoldsType, SheetTypes
    <2>4. i \in 1 .. Len(Q) /\ i \in 1 .. Len(R)
      BY ONLY <2>3, Len(Q) <= Len(R)
    <2>5. Q[i][2] <= R[i][2] /\ Q[i][2] \in Nat /\ R[i][2] \in Nat
      BY <2>4, SheetTypes
    <2>6. E.fresh \in Nat /\ E.base \in Nat
      BY DEF PackArgs
    <2>7. PICK h \in Nat : h = E.fresh + E.base + E.D[e.owner][1]
      <3>1. E.fresh + E.base + E.D[e.owner][1] \in Nat
        BY ONLY <2>2, <2>6
      <3> QED
        BY <3>1
    <2> QED
      BY ONLY <2>1, <2>5, <2>7
  <1> QED
    BY <1>1, <1>2, <1>3 DEF Grown

\* Of what is new only x is a thing, at position z of section m.
Only(E, N, m, z, x) ==
  /\ << m, z, x >> \in N /\ IsThing(E, x) /\ z \in Nat
  /\ \A i, k, e : << i, k, e >> \in N /\ IsThing(E, e) => i = m /\ k = z /\ e = x

\* It is what is due.
IsDue(E, x, t, n) == IsPlace(E, t, n) /\ x.owner = t /\ Nth(x) = n

\* The machine's due entry, x, is written behind the rest.
LEMMA PutOrdered ==
  ASSUME NEW E, NEW K, NEW B, NEW Q, NEW ph, NEW held, NEW t, NEW n,
         SheetInv(E, K, B, Q, ph, held, t, n), Q # << >>,
         NEW m, m = Len(Q), NEW z, z = Len(Q[m][1]) + 1,
         NEW R, NEW N, Grown(Q, R, N),
         NEW x, Only(E, N, m, z, x), IsDue(E, x, t, n), NEW v, v = n + 1
  PROVE  Ordered(E, R, t, v)
  <1>1. /\ Ordered(E, Q, t, n) /\ t \in Nat /\ n \in Nat /\ Q \in SheetsOf(K)
        /\ m \in Nat /\ 1 <= m
    BY DueType DEF SheetInv
  <1>2. m \in 1 .. m /\ z \in Nat
    <2>1. Len(Q[m][1]) \in Nat
      BY <1>1, SheetTypes
    <2> QED
      BY <1>1, <2>1
  <1>3. ASSUME NEW i, NEW k, NEW e, Holds(Q, i, k, e)
        PROVE  i \in Nat /\ k \in Nat /\ (i < m \/ (i = m /\ k < z))
    <2>1. /\ i \in Nat /\ k \in Nat /\ i <= m
          /\ 1 <= k /\ k <= Len(Q[i][1]) /\ Len(Q[i][1]) \in Nat
      BY <1>1, <1>3, HoldsType
    <2>2. i = m => k < z
      BY ONLY <2>1, z = Len(Q[m][1]) + 1
    <2> QED
      BY ONLY <1>1, <2>1, <2>2
  <1>4. ASSUME NEW a, NEW b, IsPlace(E, a, b)
        PROVE  Sooner(a, b, t, n + 1) <=> Sooner(a, b, t, n) \/ (a = t /\ b = n)
    BY <1>1, <1>4, PlaceType, SoonerSucc
  <1>5. Sooner(t, n, t, n + 1)
    BY <1>1 DEF Sooner
  <1>6. Ordered(E, R, t, v)
    <2>1. Sooner(t, n, t, v)
      BY <1>5
    <2>2. \A a, b : IsPlace(E, a, b) =>
            (Sooner(a, b, t, v) <=> Sooner(a, b, t, n) \/ (a = t /\ b = n))
      BY <1>4
    <2>3. /\ Ordered(E, Q, t, n) /\ m \in Nat /\ z \in Nat /\ Grown(Q, R, N)
          /\ << m, z, x >> \in N /\ IsThing(E, x) /\ x.owner = t /\ Nth(x) = n
          /\ IsPlace(E, t, n)
          /\ \A i, k, e : << i, k, e >> \in N /\ IsThing(E, e) => i = m /\ k = z /\ e = x
      BY <1>1, <1>2 DEF Only, IsDue
    <2> QED
      BY ONLY <1>3, <2>1, <2>2, <2>3, OrderedPut
  <1> QED
    BY <1>6

\* What comes behind the last entry does not change how sections begin.
LEMMA GrownBegins ==
  ASSUME NEW E, NEW K, NEW Q \in SheetsOf(K), NEW R, NEW N, Grown(Q, R, N),
         NEW m, m = Len(Q), NEW z, z = Len(Q[m][1]) + 1,
         \A i \in 1 .. m : i # m => R[i] = Q[i],
         \A i, k, e : << i, k, e >> \in N => i \in Nat /\ k \in Nat /\ m <= i /\ (i = m => z <= k),
         NEW i \in 2 .. m, Begins(E, Q, i)
  PROVE  Begins(E, R, i)
  <1>1. m \in Nat
    BY SheetTypes
  <1>2. R[i - 1] = Q[i - 1]
    <2>1. i - 1 \in 1 .. m /\ i - 1 # m
      BY ONLY <1>1, i \in 2 .. m
    <2> QED
      BY <2>1
  <1>3. \A k, e : Holds(Q, i, k, e) /\ IsThing(E, e) => Holds(R, i, k, e)
    BY DEF Grown
  <1>4. ASSUME NEW k, NEW e, NEW l, NEW f,
               Holds(Q, i, k, e), Holds(R, i, l, f), l < k, IsThing(E, f)
        PROVE  Holds(Q, i, l, f)
    <2>1. /\ k \in Nat /\ k <= Len(Q[i][1]) /\ Len(Q[i][1]) \in Nat /\ i \in Nat /\ i <= m
      BY <1>4, HoldsType
    <2>2. CASE << i, l, f >> \in N
      <3>1. l \in Nat /\ m <= i /\ (i = m => z <= l)
        BY <2>2
      <3>2. i = m
        BY ONLY <1>1, <2>1, <3>1
      <3>3. Len(Q[i][1]) < l
        BY ONLY <2>1, <3>1, <3>2, z = Len(Q[m][1]) + 1
      <3> QED
        BY ONLY <1>4, <2>1, <3>1, <3>3
    <2> QED
      BY <1>4, <2>2 DEF Grown
  <1> QED
    BY ONLY <1>2, <1>3, <1>4, Begins(E, Q, i), BeginsKept

\* What was due is written first in the section, as it must be.
LEMMA DueBegins ==
  ASSUME NEW E, NEW Q, NEW R, NEW N, Grown(Q, R, N),
         NEW m, NEW z, NEW x, Only(E, N, m, z, x),
         NEW ph, NEW held, NEW t, NEW n, BeginsNext(E, Q, ph, held, t, n, m),
         R[m - 1] = Q[m - 1],
         Takes(E, LastIn(Q, m - 1), x) = DueTakes(E, LastIn(Q, m - 1), t, n)
  PROVE  Begins(E, R, m)
  <1>1. Holds(R, m, z, x)
    BY DEF Grown, Only
  <1>2. ASSUME NEW l, NEW f, Holds(R, m, l, f), l < z
        PROVE  ~IsThing(E, f)
    <2>1. \A k, e : Holds(Q, m, k, e) => ~IsThing(E, e)
      BY DEF BeginsNext, Bare
    <2>2. ~(z < z)
      BY DEF Only
    <2> QED
      BY <1>2, <2>1, <2>2 DEF Grown, Only
  <1>3. Q[m - 1][2] + DueTakes(E, LastIn(Q, m - 1), t, n) > E.M
    BY DEF BeginsNext
  <1>4. LastIn(R, m - 1) = LastIn(Q, m - 1)
    BY DEF LastIn
  <1>5. R[m - 1][2] + Takes(E, LastIn(R, m - 1), x) > E.M
    BY <1>3, <1>4
  <1>6. IsThing(E, x)
    BY DEF Only
  <1> QED
    BY ONLY <1>1, <1>2, <1>5, <1>6 DEF Begins

\* Or is still to be.
LEMMA StillNext ==
  ASSUME NEW E, NEW Q, NEW R, NEW N, Grown(Q, R, N),
         \A i, k, e : << i, k, e >> \in N => ~IsThing(E, e), Len(R) = Len(Q),
         NEW ph, NEW held, NEW t, NEW n, NEW i, BeginsNext(E, Q, ph, held, t, n, i),
         R[i - 1] = Q[i - 1], NEW ph2 \in {"TOP", "IN"}, NEW held2,
         ph2 = "TOP" => held2 # "NONE",
         ph2 = "IN" => E.D[t] # << >> /\ (held2 = "DESC" \/ n = 1)
  PROVE  BeginsNext(E, R, ph2, held2, t, n, i)
  <1>1. Bare(E, R, i)
    BY DEF BeginsNext, Bare, Grown
  <1>2. LastIn(R, i - 1) = LastIn(Q, i - 1)
    BY DEF LastIn
  <1> QED
    BY <1>1, <1>2 DEF BeginsNext

\* A section is begun.
LEMMA OpenPack ==
  ASSUME NEW E, NEW K, NEW B, NEW Q, NEW held, NEW t, NEW n,
         SheetInv(E, K, B, Q, "OUT", held, t, n),
         NEW p \in Seq(Entries(K)), p # << >>,
         \A k \in 1 .. Len(p) : p[k].owner = 0 /\ p[k].kind \notin {"item", "desc", E.kind},
         NEW R, R = Append(Q, << p, E.fresh >>)
  PROVE  SheetInv(E, K, B, R, "TOP", held, t, n)
  <1>1. /\ DueOK(E, Q, "OUT", held, t, n) /\ SheetsOK(E, K, Q, "OUT")
        /\ Ordered(E, Q, t, n) /\ Owned(Q, "OUT", held, t) /\ Heavy(E, Q)
        /\ Roomy(E) => /\ HeadFits(E, Q, "OUT", held, t, n)
                       /\ Followed(E, Q, "OUT", held, n)
                       /\ FullBefore(E, B, Q, "OUT", held, t, n)
    BY DEF SheetInv
  <1>2. /\ PackArgs(E) /\ t \in Nat /\ n \in Nat /\ E.fresh \in Nat /\ E.base \in Nat
        /\ Q \in SheetsOf(K) /\ E.M \in Nat
    BY DueType
  <1>3. PICK m \in Nat : m = Len(Q)
    BY <1>2, SheetTypes
  <1>4. PICK N : N = {<< m + 1, k, p[k] >> : k \in 1 .. Len(p)}
    OBVIOUS
  <1>5. /\ R \in SheetsOf(K) /\ Len(R) = m + 1 /\ R # << >>
        /\ R[m + 1][1] = p /\ R[m + 1][2] = E.fresh
        /\ \A i \in 1 .. m : R[i] = Q[i]
        /\ Grown(Q, R, N)
    <2>1. PICK b \in Nat : b = E.fresh
      BY <1>2
    <2>2. R = Append(Q, << p, b >>)
      BY <2>1
    <2>3. Opened(K, Q, R, N, p, b)
      <3>1. SheetOf(N, Len(Q) + 1, p) /\ Q \in SheetsOf(K)
        BY <1>2, <1>3, <1>4 DEF SheetOf
      <3> QED
        BY ONLY <2>2, <3>1, b \in Nat, p \in Seq(Entries(K)), OpenHolds
    <2> QED
      BY <1>3, <2>1, <2>3 DEF Opened
  <1>6. ASSUME NEW i, NEW k, NEW e, << i, k, e >> \in N
        PROVE  /\ i = m + 1 /\ k \in Nat /\ e.owner = 0 /\ ~IsThing(E, e)
               /\ e.kind \notin {"item", "desc"}
    BY <1>4, <1>6 DEF IsThing
  <1>7. DueOK(E, R, "TOP", held, t, n)
    BY <1>1, <1>5 DEF DueOK
  <1>8. SheetsOK(E, K, R, "TOP")
    <2>1. ASSUME NEW i \in 1 .. Len(R) PROVE R[i][1] # << >> /\ E.fresh <= R[i][2]
      <3>1. CASE i = m + 1
        BY <1>2, <1>5, <3>1
      <3>2. CASE i \in 1 .. m
        BY <1>1, <1>3, <1>5, <3>2 DEF SheetsOK
      <3> QED
        BY <1>5, <3>1, <3>2
    <2> QED
      BY <1>5, <2>1 DEF SheetsOK
  <1>9. Ordered(E, R, t, n)
    BY ONLY <1>1, <1>5, <1>6, OrderedKept
  <1>10. Owned(R, "TOP", held, t)
    <2>1. ASSUME NEW i, NEW k, NEW e, << i, k, e >> \in N
          PROVE  /\ e.owner <= t /\ (e.kind \in {"item", "desc"} => e.owner # 0)
                 /\ e.kind \notin {"item", "desc", "desc_loop_len"} => e.owner = 0
                 /\ e.owner = t /\ t # 0 => "TOP" = "IN" \/ held = "DESC"
      BY <1>2, <1>6, <2>1
    <2> QED
      BY ONLY <1>1, <1>5, <2>1, OwnedGrown
  <1>11. Heavy(E, R)
    <2>1. \A i \in 1 .. Len(Q) : Q[i][2] <= R[i][2]
      BY <1>2, <1>3, <1>5, SheetTypes
    <2>2. Len(Q) <= Len(R)
      BY <1>3, <1>5
    <2> QED
      BY ONLY <1>1, <1>2, <1>5, <1>6, <2>1, <2>2, HeavyGrown
  <1>12. ASSUME Roomy(E)
         PROVE  /\ HeadFits(E, R, "TOP", held, t, n)
                /\ Followed(E, R, "TOP", held, n)
                /\ FullBefore(E, B, R, "TOP", held, t, n)
    <2>1. HeadFits(E, R, "TOP", held, t, n)
      BY <1>1, <1>5, <1>12 DEF HeadFits, Roomy
    <2>2. Followed(E, R, "TOP", held, n)
      <3>1. SUFFICES ASSUME NEW i, NEW k, NEW e, Holds(R, i, k, e), e.kind = "item", ~IsThing(E, e)
                     PROVE  \E f : Holds(R, i, k + 2, f) /\ f.kind = "desc"
        BY DEF Followed
      <3>2. Holds(Q, i, k, e)
        BY <1>5, <1>6, <3>1 DEF Grown
      <3>3. \E f : Holds(Q, i, k + 2, f) /\ f.kind = "desc"
        BY <1>1, <1>12, <3>1, <3>2 DEF Followed, Lonely
      <3> QED
        BY <1>5, <3>3 DEF Grown
    <2>3. ASSUME NEW i \in 2 .. Len(R), i \notin B
          PROVE  Begins(E, R, i) \/ BeginsNext(E, R, "TOP", held, t, n, i)
      <3>1. CASE i \in 2 .. m
        <4>1. Begins(E, Q, i)
          BY <1>1, <1>3, <1>12, <2>3, <3>1 DEF FullBefore, BeginsNext
        <4>2. R[i - 1] = Q[i - 1]
          <5>1. i - 1 \in 1 .. m
            BY <3>1
          <5> QED
            BY <1>5, <5>1
        <4>3. \A k, e : Holds(R, i, k, e) <=> Holds(Q, i, k, e)
          <5>1. i # m + 1
            BY <3>1
          <5> QED
            BY <1>5, <1>6, <5>1 DEF Grown
        <4> QED
          BY ONLY <4>1, <4>2, <4>3, BeginsKept
      <3>2. CASE i = m + 1
        <4>1. m \in 1 .. m /\ i - 1 = m /\ Q # << >>
          BY <1>3, <2>3, <3>2, SheetTypes, <1>2
        <4>2. /\ held # "NONE" /\ t <= Len(E.D)
              /\ Q[m][2] + DueTakes(E, LastIn(Q, m), t, n) > E.M
          BY <1>1, <1>3, <1>12, <2>3, <3>2, <4>1 DEF FullBefore, Waits
        <4>3. R[m] = Q[m] /\ LastIn(R, m) = LastIn(Q, m)
          BY <1>5, <4>1 DEF LastIn
        <4>4. Bare(E, R, i)
          <5>1. ASSUME NEW k, NEW e, Holds(R, i, k, e) PROVE ~IsThing(E, e)
            <6>1. ~Holds(Q, i, k, e)
              <7>1. i \notin 1 .. Len(Q)
                BY <1>3, <3>2
              <7> QED
                BY <7>1 DEF Holds
            <6> QED
              BY <1>5, <1>6, <5>1, <6>1 DEF Grown
          <5> QED
            BY <5>1 DEF Bare
        <4> QED
          BY <1>5, <3>2, <4>1, <4>2, <4>3, <4>4 DEF BeginsNext
      <3> QED
        BY <1>3, <1>5, <3>1, <3>2
    <2> QED
      BY <2>1, <2>2, <2>3 DEF FullBefore, Waits
  <1> QED
    BY <1>2, <1>7, <1>8, <1>9, <1>10, <1>11, <1>12 DEF SheetInv

\* N are entries behind position z - 1 of section m, which R has.
Behind(E, R, N, m, z, t, ph, held) ==
  \A i, k, e : << i, k, e >> \in N =>
    /\ i = m /\ k \in Nat /\ z <= k
    /\ e.owner <= t /\ (e.kind \in {"item", "desc"} => e.owner # 0)
    /\ e.kind \notin {"item", "desc", "desc_loop_len"} => e.owner = 0
    /\ e.owner = t /\ t # 0 => ph = "IN" \/ held = "DESC"
    /\ e.kind = "desc" =>
         /\ e.owner \in DOMAIN E.D /\ e.n \in 1 .. Len(E.D[e.owner])
         /\ e.n = 1 => E.fresh + E.base + E.D[e.owner][1] <= R[m][2]

\* R is Q with more in its last section.
Lengthened(K, Q, R, N) ==
  /\ R \in SheetsOf(K) /\ Len(R) = Len(Q) /\ R # << >> /\ R[Len(Q)][1] # << >>
  /\ Q[Len(Q)][2] <= R[Len(Q)][2]
  /\ \A i \in 1 .. Len(Q) : i # Len(Q) => R[i] = Q[i]
  /\ Grown(Q, R, N)

\* Something is written.
LEMMA WrittenPack ==
  ASSUME NEW E, NEW K, NEW B, NEW Q, NEW ph, NEW held, NEW t, NEW n,
         SheetInv(E, K, B, Q, ph, held, t, n), Q # << >>,
         NEW m, m = Len(Q), NEW z, z = Len(Q[m][1]) + 1,
         NEW R, NEW N, Lengthened(K, Q, R, N), NEW ph2 \in {"TOP", "IN"}, NEW held2, NEW v,
         Behind(E, R, N, m, z, t, ph2, held2),
         ph = "IN" \/ held = "DESC" => ph2 = "IN" \/ held2 = "DESC",
         Ordered(E, R, t, v), DueOK(E, R, ph2, held2, t, v),
         ph2 = "IN" => E.fresh + E.base <= R[m][2],
         Roomy(E) =>
           /\ HeadFits(E, R, ph2, held2, t, v) /\ Followed(E, R, ph2, held2, v)
           /\ 2 <= m /\ BeginsNext(E, Q, ph, held, t, n, m) =>
                Begins(E, R, m) \/ BeginsNext(E, R, ph2, held2, t, v, m)
  PROVE  SheetInv(E, K, B, R, ph2, held2, t, v)
  <1>1. /\ SheetsOK(E, K, Q, ph) /\ Owned(Q, ph, held, t) /\ Heavy(E, Q)
        /\ Roomy(E) => FullBefore(E, B, Q, ph, held, t, n)
    BY ONLY SheetInv(E, K, B, Q, ph, held, t, n) DEF SheetInv
  <1>2. /\ PackArgs(E) /\ Q \in SheetsOf(K) /\ m \in Nat /\ 1 <= m
        /\ E.fresh \in Nat /\ E.base \in Nat
    BY DueType
  <1>3. /\ R \in SheetsOf(K) /\ Len(R) = m /\ R # << >> /\ R[m][1] # << >>
        /\ Q[m][2] <= R[m][2] /\ Q[m][2] \in Nat /\ R[m][2] \in Nat
        /\ \A i \in 1 .. m : i # m => R[i] = Q[i]
        /\ Grown(Q, R, N) /\ Len(Q[m][1]) \in Nat
    <2>1. m \in 1 .. m
      BY <1>2
    <2> QED
      BY <1>2, <2>1, SheetTypes DEF Lengthened
  <1>4. SheetsOK(E, K, R, ph2)
    <2>1. ASSUME NEW i \in 1 .. m PROVE R[i][1] # << >> /\ E.fresh <= R[i][2]
      <3>1. Q[i][1] # << >> /\ E.fresh <= Q[i][2]
        BY <1>1 DEF SheetsOK
      <3>2. CASE i = m
        BY ONLY <1>2, <1>3, <3>1, <3>2
      <3>3. CASE i # m
        BY <1>3, <3>1, <3>3
      <3> QED
        BY <3>2, <3>3
    <2> QED
      BY <1>3, <2>1 DEF SheetsOK
  <1>5. Owned(R, ph2, held2, t)
    <2>1. \A i, k, e : << i, k, e >> \in N =>
            /\ e.owner <= t /\ (e.kind \in {"item", "desc"} => e.owner # 0)
            /\ e.kind \notin {"item", "desc", "desc_loop_len"} => e.owner = 0
            /\ e.owner = t /\ t # 0 => ph2 = "IN" \/ held2 = "DESC"
      BY DEF Behind
    <2>2. ph = "IN" \/ held = "DESC" => ph2 = "IN" \/ held2 = "DESC"
      OBVIOUS
    <2> QED
      BY ONLY <1>1, <1>3, <2>1, <2>2, OwnedGrown
  <1>6. Heavy(E, R)
    <2>1. \A i, k, e : << i, k, e >> \in N /\ e.kind = "desc" =>
           /\ e.owner \in DOMAIN E.D /\ e.n \in 1 .. Len(E.D[e.owner])
           /\ e.n = 1 => E.fresh + E.base + E.D[e.owner][1] <= R[i][2]
      BY DEF Behind
    <2>2. ASSUME NEW i \in 1 .. Len(Q) PROVE Q[i][2] <= R[i][2]
      <3>1. Q[i][2] \in Nat
        BY <1>2, SheetTypes
      <3>2. CASE i = m
        BY <1>3, <3>2
      <3>3. CASE i # m
        BY <1>3, <3>1, <3>3
      <3> QED
        BY <3>2, <3>3
    <2>3. Len(Q) <= Len(R)
      BY <1>2, <1>3
    <2> QED
      BY ONLY <1>1, <1>2, <1>3, <2>1, <2>2, <2>3, HeavyGrown
  <1>7. ASSUME Roomy(E)
        PROVE  FullBefore(E, B, R, ph2, held2, t, v)
    <2>1. \A i, k, e : << i, k, e >> \in N => i \in Nat /\ k \in Nat /\ m <= i /\ (i = m => z <= k)
      BY <1>2 DEF Behind
    <2>2. ASSUME NEW i \in 2 .. m, i \notin B
          PROVE  Begins(E, R, i) \/ BeginsNext(E, R, ph2, held2, t, v, i)
      <3>1. CASE Begins(E, Q, i)
        BY ONLY <1>2, <1>3, <2>1, <3>1, GrownBegins, m = Len(Q), z = Len(Q[m][1]) + 1, i \in 2 .. m
      <3>2. CASE BeginsNext(E, Q, ph, held, t, n, i)
        <4>1. i = m /\ 2 <= m
          BY <3>2 DEF BeginsNext
        <4> QED
          BY <1>7, <3>2, <4>1
      <3> QED
        BY <1>1, <1>7, <2>2, <3>1, <3>2 DEF FullBefore
    <2> QED
      BY <1>3, <2>2 DEF FullBefore, Waits
  <1>8. Ordered(E, R, t, v) /\ DueOK(E, R, ph2, held2, t, v)
    OBVIOUS
  <1>9. Roomy(E) => HeadFits(E, R, ph2, held2, t, v) /\ Followed(E, R, ph2, held2, v)
    OBVIOUS
  <1>10. Roomy(E) => /\ HeadFits(E, R, ph2, held2, t, v)
                     /\ Followed(E, R, ph2, held2, v)
                     /\ FullBefore(E, B, R, ph2, held2, t, v)
    BY <1>7, <1>9
  <1>11. SheetsOK(E, K, R, ph2) /\ Owned(R, ph2, held2, t) /\ Heavy(E, R) /\ PackArgs(E)
    BY <1>2, <1>4, <1>5, <1>6
  <1> QED
    BY ONLY <1>8, <1>10, <1>11 DEF SheetInv


\* One entry more.
LEMMA PutLengthened ==
  ASSUME NEW K, NEW Q, NEW x, NEW b, NEW m, m = Len(Q), Q[m][2] <= b,
         NEW z, NEW R, PutAt(K, Q, R, m, z, x, b)
  PROVE  Lengthened(K, Q, R, {<< m, z, x >>})
  BY DEF Lengthened, PutAt

\* Two.
TwoAt(K, Q, R, N, m, z, x, y, b) ==
  /\ Lengthened(K, Q, R, N) /\ m \in Nat /\ 1 <= m /\ z \in Nat
  /\ \A i, k, e : << i, k, e >> \in N <=> i = m /\ ((k = z /\ e = x) \/ (k = z + 1 /\ e = y))
  /\ Len(R[m][1]) = z + 1 /\ R[m][2] = b /\ LastIn(R, m) = y

\* Two entries appended to the last section.
LEMMA PutTwoHolds ==
  ASSUME NEW K, NEW Q \in SheetsOf(K), Q # << >>, NEW x \in Entries(K), NEW y \in Entries(K),
         NEW b \in Nat, NEW m, m = Len(Q), Q[m][2] <= b,
         NEW z, z = Len(Q[m][1]) + 1,
         NEW R, R = Replaced(Q, Append(Append(Q[m][1], x), y), b)
  PROVE  \E N : TwoAt(K, Q, R, N, m, z, x, y, b)
  <1>1. PICK P : P = Replaced(Q, Append(Q[m][1], x), b)
    OBVIOUS
  <1>2. PutAt(K, Q, P, m, z, x, b)
    BY <1>1, PutHolds
  <1>3. P \in SheetsOf(K) /\ P # << >> /\ Len(P) = m /\ Len(P[m][1]) = z /\ z \in Nat /\ m \in Nat
    BY <1>2 DEF PutAt
  <1>4. P[m][1] = Append(Q[m][1], x)
    <2>1. PICK p : p = Append(Q[m][1], x)
      OBVIOUS
    <2>2. p \in Seq(Entries(K))
      <3>1. Q[m][1] \in Seq(Entries(K))
        <4>1. m \in 1 .. m
          BY <1>2 DEF PutAt
        <4> QED
          BY <4>1, SheetTypes
      <3> QED
        BY <2>1, <3>1
    <2>3. P = Replaced(Q, p, b)
      BY <1>1, <2>1
    <2> QED
      <3>1. /\ Replaced(Q, p, b)[Len(Q)][1] = p /\ Replaced(Q, p, b)[Len(Q)][2] = b
            /\ \A i \in 1 .. Len(Q) : i # Len(Q) => Replaced(Q, p, b)[i] = Q[i]
        BY <2>2, ReplacedSheets
      <3> QED
        BY <2>1, <2>3, <3>1
  <1>5. PICK S : S = Replaced(P, Append(P[m][1], y), b)
    OBVIOUS
  <1>6. PutAt(K, P, S, m, z + 1, y, b)
    BY ONLY <1>3, <1>5, PutHolds, b \in Nat, y \in Entries(K)
  <1>7. R = S
    <2>1. PICK q : q = Append(Append(Q[m][1], x), y)
      OBVIOUS
    <2>2. R = Replaced(Q, q, b) /\ S = Replaced(P, q, b)
      BY <1>4, <1>5, <2>1
    <2>3. Replaced(P, q, b) = Replaced(Q, q, b)
      <3>1. PICK p, w, u : p = Append(Q[m][1], x) /\ w = << p, b >> /\ u = << q, b >>
        OBVIOUS
      <3>2. P = [Q EXCEPT ![m] = w] /\ Q # << >> /\ Q \in SheetsOf(K)
        BY <1>1, <3>1 DEF Replaced
      <3>3. Replaced(P, q, b) = [P EXCEPT ![m] = u] /\ Replaced(Q, q, b) = [Q EXCEPT ![m] = u]
        BY <1>3, <3>1 DEF Replaced
      <3> QED
        BY ONLY <3>2, <3>3
    <2> QED
      BY <2>2, <2>3
  <1>8. PICK N : N = {<< m, z, x >>, << m, z + 1, y >>}
    OBVIOUS
  <1>9. ASSUME NEW i, NEW k, NEW e
        PROVE  << i, k, e >> \in N <=> i = m /\ ((k = z /\ e = x) \/ (k = z + 1 /\ e = y))
    BY <1>8
  <1>10. Grown(Q, R, N)
    <2>1. Grown(Q, P, {<< m, z, x >>}) /\ Grown(P, R, {<< m, z + 1, y >>})
      BY <1>2, <1>6, <1>7 DEF PutAt
    <2>2. ASSUME NEW i, NEW k, NEW e
          PROVE  Holds(R, i, k, e) <=> Holds(Q, i, k, e) \/ << i, k, e >> \in N
      <3>1. Holds(R, i, k, e) <=> Holds(P, i, k, e) \/ << i, k, e >> \in {<< m, z + 1, y >>}
        BY <2>1 DEF Grown
      <3>2. Holds(P, i, k, e) <=> Holds(Q, i, k, e) \/ << i, k, e >> \in {<< m, z, x >>}
        BY <2>1 DEF Grown
      <3>3. << i, k, e >> \in N <=>
              << i, k, e >> \in {<< m, z, x >>} \/ << i, k, e >> \in {<< m, z + 1, y >>}
        BY <1>8
      <3> QED
        BY ONLY <3>1, <3>2, <3>3
    <2> QED
      BY <2>2 DEF Grown
  <1>11. /\ R \in SheetsOf(K) /\ Len(R) = m /\ R # << >> /\ 1 <= m /\ LastIn(R, m) = y
         /\ Len(R[m][1]) = z + 1 /\ R[m][2] = b /\ R[m][1] # << >>
         /\ \A i \in 1 .. m : i # m => R[i] = Q[i]
    BY <1>2, <1>6, <1>7 DEF PutAt
  <1> QED
    BY <1>3, <1>9, <1>10, <1>11 DEF TwoAt, Lengthened

\* Headers have what they need behind them, and the new ones are about to.
FollowedBy(E, Q) ==
  \A i, k, e : Holds(Q, i, k, e) /\ e.kind = "item" /\ ~IsThing(E, e) =>
    \E f : Holds(Q, i, k + 2, f) /\ f.kind = "desc"

\* A new header that awaits its first descriptor.
LEMMA FollowedMore ==
  ASSUME NEW E, NEW Q, NEW R, NEW N, Grown(Q, R, N), FollowedBy(E, Q),
         NEW ph, NEW held, NEW n,
         \A i, k, e : << i, k, e >> \in N /\ e.kind = "item" /\ ~IsThing(E, e) =>
           Lonely(R, ph, held, n, i, k)
  PROVE  Followed(E, R, ph, held, n)
  <1>1. SUFFICES ASSUME NEW i, NEW k, NEW e, Holds(R, i, k, e), e.kind = "item", ~IsThing(E, e)
                 PROVE  \/ \E f : Holds(R, i, k + 2, f) /\ f.kind = "desc"
                        \/ Lonely(R, ph, held, n, i, k)
    BY DEF Followed
  <1>2. CASE Holds(Q, i, k, e)
    <2>1. PICK f : Holds(Q, i, k + 2, f) /\ f.kind = "desc"
      BY <1>1, <1>2 DEF FollowedBy
    <2> QED
      BY <2>1 DEF Grown
  <1>3. CASE << i, k, e >> \in N
    BY <1>1, <1>3
  <1> QED
    BY <1>1, <1>2, <1>3 DEF Grown

\* Outside an item no header awaits anything.
LEMMA NoneLonely ==
  ASSUME NEW E, NEW Q, NEW ph, NEW held, NEW n, Followed(E, Q, ph, held, n), ph # "IN"
  PROVE  FollowedBy(E, Q)
  BY DEF Followed, FollowedBy, Lonely

\* A word that is no entry's: a length of the table's own.
LEMMA WordPack ==
  ASSUME NEW E, NEW K, NEW B, NEW Q, NEW held, NEW t, NEW n,
         SheetInv(E, K, B, Q, "TOP", held, t, n),
         NEW x \in Entries(K), x.owner = 0, x.kind \notin {"item", "desc", E.kind},
         NEW m, m = Len(Q), NEW b, b = Q[m][2],
         NEW R, R = Replaced(Q, Append(Q[m][1], x), b)
  PROVE  SheetInv(E, K, B, R, "TOP", held, t, n)
  <1>1. /\ DueOK(E, Q, "TOP", held, t, n) /\ Ordered(E, Q, t, n)
        /\ Roomy(E) => /\ HeadFits(E, Q, "TOP", held, t, n)
                       /\ Followed(E, Q, "TOP", held, n)
    BY DEF SheetInv
  <1>2. /\ Q \in SheetsOf(K) /\ Q # << >> /\ m \in Nat /\ 1 <= m /\ t \in Nat /\ n \in Nat
        /\ m \in 1 .. m
    BY <1>1, DueType DEF DueOK
  <1>3. PICK z : z = Len(Q[m][1]) + 1
    OBVIOUS
  <1>4. b \in Nat /\ Q[m][2] <= b
    BY <1>2, SheetTypes
  <1>5. PutAt(K, Q, R, m, z, x, b)
    BY <1>2, <1>3, <1>4, PutHolds
  <1>6. PICK N : N = {<< m, z, x >>}
    OBVIOUS
  <1>7. Lengthened(K, Q, R, N)
    BY <1>4, <1>5, <1>6, PutLengthened
  <1>8. ~IsThing(E, x)
    BY DEF IsThing
  <1>9. /\ Len(R) = m /\ R # << >> /\ R[m][2] = b /\ Grown(Q, R, N) /\ z \in Nat
        /\ \A i \in 1 .. m : i # m => R[i] = Q[i]
    BY <1>5, <1>6 DEF PutAt
  <1>10. \A i, k, e : << i, k, e >> \in N => i = m /\ k = z /\ e = x
    BY <1>6
  <1>11. Behind(E, R, N, m, z, t, "TOP", held)
    BY <1>2, <1>9, <1>10 DEF Behind
  <1>12. Ordered(E, R, t, n)
    BY <1>1, <1>8, <1>9, <1>10, OrderedKept
  <1>13. DueOK(E, R, "TOP", held, t, n)
    BY <1>1, <1>9 DEF DueOK
  <1>14. Roomy(E) => HeadFits(E, R, "TOP", held, t, n)
    BY <1>1, <1>9 DEF HeadFits
  <1>15. Roomy(E) => Followed(E, R, "TOP", held, n)
    <2>1. Roomy(E) => FollowedBy(E, Q)
      BY <1>1, NoneLonely
    <2> QED
      BY <1>9, <1>10, <2>1, FollowedMore
  <1>16. ASSUME 2 <= m, BeginsNext(E, Q, "TOP", held, t, n, m)
         PROVE  BeginsNext(E, R, "TOP", held, t, n, m)
    <2>1. R[m - 1] = Q[m - 1]
      <3>1. m - 1 \in 1 .. m /\ m - 1 # m
        BY ONLY <1>2, <1>16
      <3> QED
        BY <1>9, <3>1
    <2>2. held # "NONE"
      BY <1>16 DEF BeginsNext
    <2>3. Len(R) = Len(Q)
      BY <1>9
    <2> QED
      BY ONLY <1>8, <1>9, <1>10, <1>16, <2>1, <2>2, <2>3, StillNext
  <1> QED
    BY ONLY <1>2, <1>3, <1>7, <1>11, <1>12, <1>13, <1>14, <1>15, <1>16, WrittenPack,
            SheetInv(E, K, B, Q, "TOP", held, t, n), m = Len(Q)

\* The entry of the table's own loop that is due.
LEMMA PutOwnPack ==
  ASSUME NEW E, NEW K, NEW B, NEW Q, NEW t, NEW n,
         SheetInv(E, K, B, Q, "TOP", "ITEM", t, n), t = 0,
         NEW x \in Entries(K), x.owner = 0, x.kind = E.kind, x.n = n,
         NEW m, m = Len(Q), NEW b, b = Q[m][2] + E.own[n],
         NEW R, R = Replaced(Q, Append(Q[m][1], x), b)
  PROVE  SheetInv(E, K, B, R, "TOP", "NONE", t, n + 1)
  <1>1. /\ DueOK(E, Q, "TOP", "ITEM", t, n) /\ Ordered(E, Q, t, n)
        /\ Roomy(E) => Followed(E, Q, "TOP", "ITEM", n)
    BY DEF SheetInv
  <1>2. /\ Q \in SheetsOf(K) /\ Q # << >> /\ m \in Nat /\ 1 <= m /\ n \in Nat
        /\ m \in 1 .. m /\ PackArgs(E) /\ Len(E.D) \in Nat /\ 0 \notin DOMAIN E.D
    BY <1>1, DueType DEF DueOK
  <1>3. n \in E.set /\ 1 <= n /\ n <= Len(E.own) /\ E.own[n] \in Nat /\ Len(E.own) \in Nat
    <2>1. n \in E.set
      BY <1>1 DEF DueOK
    <2>2. /\ E.set \subseteq 1 .. Len(E.own) /\ Len(E.own) \in Nat
          /\ \A i \in 1 .. Len(E.own) : E.own[i] \in Nat
      BY DueType
    <2> QED
      BY <1>2, <2>1, <2>2
  <1>4. PICK z : z = Len(Q[m][1]) + 1
    OBVIOUS
  <1>5. b \in Nat /\ Q[m][2] <= b
    <2>1. Q[m][2] \in Nat
      BY <1>2, SheetTypes
    <2> QED
      BY <1>3, <2>1
  <1>6. PutAt(K, Q, R, m, z, x, b)
    BY <1>2, <1>4, <1>5, PutHolds
  <1>7. PICK N : N = {<< m, z, x >>}
    OBVIOUS
  <1>8. Lengthened(K, Q, R, N)
    BY <1>5, <1>6, <1>7, PutLengthened
  <1>9. IsThing(E, x) /\ Nth(x) = n /\ x.kind \notin {"item", "desc"}
    BY <1>2 DEF IsThing, Nth, PackArgs
  <1>10. /\ Len(R) = m /\ R # << >> /\ R[m][2] = b /\ Grown(Q, R, N) /\ z \in Nat
         /\ \A i \in 1 .. m : i # m => R[i] = Q[i]
    BY <1>6, <1>7 DEF PutAt
  <1>11. \A i, k, e : << i, k, e >> \in N <=> i = m /\ k = z /\ e = x
    BY <1>7
  <1>12. Behind(E, R, N, m, z, t, "TOP", "NONE")
    BY <1>2, <1>9, <1>10, <1>11 DEF Behind
  <1>13. Only(E, N, m, z, x)
    BY <1>9, <1>10, <1>11 DEF Only
  <1>14. PICK v : v = n + 1
    OBVIOUS
  <1>15. Ordered(E, R, t, v)
    <2>1. IsDue(E, x, t, n)
      BY <1>3, <1>9 DEF IsPlace, IsDue
    <2> QED
      BY ONLY <1>2, <1>4, <1>10, <1>13, <1>14, <2>1, PutOrdered, m = Len(Q),
              SheetInv(E, K, B, Q, "TOP", "ITEM", t, n)
  <1>16. DueOK(E, R, "TOP", "NONE", t, n + 1)
    BY <1>1, <1>2, <1>3, <1>10 DEF DueOK
  <1>17. HeadFits(E, R, "TOP", "NONE", t, n + 1)
    BY <1>2 DEF HeadFits
  <1>18. Roomy(E) => Followed(E, R, "TOP", "NONE", n + 1)
    <2>1. Roomy(E) => FollowedBy(E, Q)
      BY <1>1, NoneLonely
    <2> QED
      BY <1>9, <1>10, <1>11, <2>1, FollowedMore
  <1>19. ASSUME 2 <= m, BeginsNext(E, Q, "TOP", "ITEM", t, n, m)
         PROVE  Begins(E, R, m)
    <2>1. R[m - 1] = Q[m - 1]
      <3>1. m - 1 \in 1 .. m /\ m - 1 # m
        BY ONLY <1>2, <1>19
      <3> QED
        BY <1>10, <3>1
    <2>2. Takes(E, LastIn(Q, m - 1), x) = DueTakes(E, LastIn(Q, m - 1), t, n)
      BY <1>9 DEF Takes, DueTakes
    <2> QED
      BY ONLY <1>10, <1>13, <1>19, <2>1, <2>2, DueBegins
  <1>20. /\ Ordered(E, R, t, v) /\ DueOK(E, R, "TOP", "NONE", t, v)
         /\ HeadFits(E, R, "TOP", "NONE", t, v)
         /\ Roomy(E) => Followed(E, R, "TOP", "NONE", v)
    BY <1>14, <1>15, <1>16, <1>17, <1>18
  <1>21. SheetInv(E, K, B, R, "TOP", "NONE", t, v)
    BY ONLY <1>2, <1>4, <1>8, <1>12, <1>19, <1>20, WrittenPack,
            SheetInv(E, K, B, Q, "TOP", "ITEM", t, n), m = Len(Q)
  <1> QED
    BY <1>14, <1>21

\* A descriptor of the item that is due.
LEMMA PutDescPack ==
  ASSUME NEW E, NEW K, NEW B, NEW Q, NEW t, NEW n,
         SheetInv(E, K, B, Q, "IN", "DESC", t, n),
         NEW x \in Entries(K), x.owner = t, x.kind = "desc", x.n = n,
         NEW m, m = Len(Q), NEW b, b = Q[m][2] + E.D[t][n],
         NEW R, R = Replaced(Q, Append(Q[m][1], x), b)
  PROVE  SheetInv(E, K, B, R, "IN", "NONE", t, n + 1)
  <1>1. /\ DueOK(E, Q, "IN", "DESC", t, n) /\ Ordered(E, Q, t, n) /\ SheetsOK(E, K, Q, "IN")
        /\ Roomy(E) => Followed(E, Q, "IN", "DESC", n)
    BY DEF SheetInv
  <1>2. /\ Q \in SheetsOf(K) /\ Q # << >> /\ m \in Nat /\ 1 <= m /\ t \in Nat /\ n \in Nat
        /\ m \in 1 .. m /\ PackArgs(E) /\ Len(E.D) \in Nat /\ DOMAIN E.D = 1 .. Len(E.D)
        /\ E.fresh \in Nat /\ E.base \in Nat
    BY <1>1, DueType DEF DueOK
  <1>3. /\ t \in DOMAIN E.D /\ t # 0 /\ t # Len(E.D) + 1
        /\ 1 <= n /\ n <= Len(E.D[t]) /\ Len(E.D[t]) \in Nat /\ E.D[t] # << >>
        /\ E.D[t][n] \in Nat /\ Past(E, t) = Len(E.D[t]) + 1
    <2>1. t \in DOMAIN E.D /\ 1 <= n /\ n <= Len(E.D[t]) /\ t # 0 /\ t # Len(E.D) + 1
      BY <1>1, <1>2 DEF DueOK
    <2>2. /\ Len(E.D[t]) \in Nat /\ (E.D[t] = << >> <=> Len(E.D[t]) = 0)
          /\ \A k \in 1 .. Len(E.D[t]) : E.D[t][k] \in Nat
          /\ (E.D[t] # << >> => Past(E, t) = Len(E.D[t]) + 1)
      BY ONLY <1>2, <2>1, ItemType
    <2>3. Len(E.D[t]) # 0 /\ n \in 1 .. Len(E.D[t])
      BY ONLY <1>2, <2>1, <2>2
    <2> QED
      BY <2>1, <2>2, <2>3
  <1>4. PICK z : z = Len(Q[m][1]) + 1
    OBVIOUS
  <1>5. b \in Nat /\ Q[m][2] <= b /\ E.fresh + E.base <= Q[m][2] /\ Q[m][2] \in Nat
    <2>1. Q[m][2] \in Nat
      BY <1>2, SheetTypes
    <2>2. E.fresh + E.base <= Q[m][2]
      BY <1>1 DEF SheetsOK
    <2> QED
      BY <1>3, <2>1, <2>2
  <1>6. PutAt(K, Q, R, m, z, x, b)
    BY <1>2, <1>4, <1>5, PutHolds
  <1>7. PICK N : N = {<< m, z, x >>}
    OBVIOUS
  <1>8. Lengthened(K, Q, R, N)
    BY <1>5, <1>6, <1>7, PutLengthened
  <1>9. IsThing(E, x) /\ Nth(x) = n
    BY <1>2 DEF IsThing, Nth, PackArgs
  <1>10. /\ Len(R) = m /\ R # << >> /\ R[m][2] = b /\ Grown(Q, R, N) /\ z \in Nat
         /\ \A i \in 1 .. m : i # m => R[i] = Q[i]
    BY <1>6, <1>7 DEF PutAt
  <1>11. \A i, k, e : << i, k, e >> \in N <=> i = m /\ k = z /\ e = x
    BY <1>7
  <1>12. Behind(E, R, N, m, z, t, "IN", "NONE")
    <2>1. n = 1 => E.fresh + E.base + E.D[t][1] <= R[m][2]
      <3>1. ASSUME n = 1 PROVE b = Q[m][2] + E.D[t][1] /\ E.D[t][1] \in Nat
        BY <1>3, <3>1
      <3> QED
        BY ONLY <1>2, <1>5, <1>10, <3>1
    <2>2. ASSUME NEW i, NEW k, NEW e, << i, k, e >> \in N
          PROVE  i = m /\ k \in Nat /\ z <= k /\ e.owner = t /\ e.kind = "desc" /\ e.n = n
      BY <1>2, <1>10, <1>11, <2>2
    <2>3. t <= t /\ n \in 1 .. Len(E.D[t])
      BY <1>2, <1>3
    <2>4. ASSUME NEW i, NEW k, NEW e, << i, k, e >> \in N
          PROVE  /\ e.owner <= t /\ e.owner # 0
                 /\ e.kind = "desc" /\ e.owner \in DOMAIN E.D /\ e.n \in 1 .. Len(E.D[e.owner])
                 /\ e.n = 1 => E.fresh + E.base + E.D[e.owner][1] <= R[m][2]
      <3>1. e.owner = t /\ e.kind = "desc" /\ e.n = n
        BY ONLY <2>2, <2>4
      <3> QED
        BY ONLY <1>3, <2>1, <2>3, <3>1
    <2> QED
      BY ONLY <2>2, <2>4 DEF Behind
  <1>13. Only(E, N, m, z, x)
    BY <1>9, <1>10, <1>11 DEF Only
  <1>14. PICK v : v = n + 1
    OBVIOUS
  <1>15. Ordered(E, R, t, v)
    <2>1. IsDue(E, x, t, n)
      BY <1>2, <1>3, <1>9 DEF IsPlace, IsDue
    <2> QED
      BY ONLY <1>2, <1>4, <1>10, <1>13, <1>14, <2>1, PutOrdered, m = Len(Q),
              SheetInv(E, K, B, Q, "IN", "DESC", t, n)
  <1>16. DueOK(E, R, "IN", "NONE", t, n + 1)
    BY <1>1, <1>2, <1>3, <1>10 DEF DueOK
  <1>17. HeadFits(E, R, "IN", "NONE", t, n + 1)
    BY <1>2, <1>3 DEF HeadFits
  <1>18. Holds(R, m, z, x)
    BY <1>10, <1>13 DEF Grown, Only
  <1>19. ASSUME NEW i, NEW k, NEW e, << i, k, e >> \in N
         PROVE  IsThing(E, e)
    BY <1>9, <1>11, <1>19
  <1>20. ASSUME Roomy(E)
         PROVE  Followed(E, R, "IN", "NONE", n + 1)
    <2>1. SUFFICES ASSUME NEW i, NEW k, NEW e, Holds(R, i, k, e), e.kind = "item", ~IsThing(E, e)
                   PROVE  \E f : Holds(R, i, k + 2, f) /\ f.kind = "desc"
      BY DEF Followed
    <2>2. Holds(Q, i, k, e)
      <3>1. << i, k, e >> \notin N
        BY <1>19, <2>1
      <3> QED
        BY <1>10, <2>1, <3>1 DEF Grown
    <2>3. CASE \E f : Holds(Q, i, k + 2, f) /\ f.kind = "desc"
      BY <1>10, <2>3 DEF Grown
    <2>4. CASE Lonely(Q, "IN", "DESC", n, i, k)
      <3>1. i = m /\ k + 2 = z
        <4>1. i = m /\ k + 1 = Len(Q[m][1])
          BY <2>4 DEF Lonely
        <4>2. k \in Nat /\ Len(Q[m][1]) \in Nat
          BY <1>2, <2>2, <4>1, HoldsType
        <4> QED
          BY ONLY <1>4, <4>1, <4>2
      <3>2. Holds(R, i, k + 2, x)
        BY <1>18, <3>1
      <3> QED
        BY <3>2
    <2> QED
      BY <1>1, <1>20, <2>1, <2>2, <2>3, <2>4 DEF Followed
  <1>21. ASSUME 2 <= m, BeginsNext(E, Q, "IN", "DESC", t, n, m)
         PROVE  Begins(E, R, m)
    <2>1. R[m - 1] = Q[m - 1]
      <3>1. m - 1 \in 1 .. m /\ m - 1 # m
        BY ONLY <1>2, <1>21
      <3> QED
        BY <1>10, <3>1
    <2>2. Takes(E, LastIn(Q, m - 1), x) = DueTakes(E, LastIn(Q, m - 1), t, n)
      BY <1>3, <1>9 DEF Takes, DueTakes
    <2> QED
      BY ONLY <1>10, <1>13, <1>21, <2>1, <2>2, DueBegins
  <1>22. /\ Ordered(E, R, t, v) /\ DueOK(E, R, "IN", "NONE", t, v)
         /\ HeadFits(E, R, "IN", "NONE", t, v)
         /\ Roomy(E) => Followed(E, R, "IN", "NONE", v)
         /\ E.fresh + E.base <= R[m][2]
    <2>1. E.fresh + E.base <= b
      BY ONLY <1>2, <1>5
    <2> QED
      BY <1>10, <1>14, <1>15, <1>16, <1>17, <1>20, <2>1
  <1>23. SheetInv(E, K, B, R, "IN", "NONE", t, v)
    BY ONLY <1>2, <1>4, <1>8, <1>12, <1>21, <1>22, WrittenPack,
            SheetInv(E, K, B, Q, "IN", "DESC", t, n), m = Len(Q)
  <1> QED
    BY <1>14, <1>23

\* The header of the item that is due, whose descriptors are to follow.
LEMMA HeadPack ==
  ASSUME NEW E, NEW K, NEW B, NEW Q, NEW held, NEW t, NEW n,
         SheetInv(E, K, B, Q, "TOP", held, t, n), t \in DOMAIN E.D, E.D[t] # << >>,
         held # "NONE",
         NEW x \in Entries(K), x.owner = t, x.kind = "item",
         NEW y \in Entries(K), y.owner = t, y.kind = "desc_loop_len",
         NEW m, m = Len(Q), NEW b, b = Q[m][2] + E.base,
         NEW R, R = Replaced(Q, Append(Append(Q[m][1], x), y), b),
         NEW held2, held2 = IF held = "ITEM" THEN "NONE" ELSE "DESC"
  PROVE  SheetInv(E, K, B, R, "IN", held2, t, n)
  <1>1. /\ DueOK(E, Q, "TOP", held, t, n) /\ Ordered(E, Q, t, n) /\ SheetsOK(E, K, Q, "TOP")
        /\ Roomy(E) => HeadFits(E, Q, "TOP", held, t, n) /\ Followed(E, Q, "TOP", held, n)
    BY DEF SheetInv
  <1>2. /\ Q \in SheetsOf(K) /\ Q # << >> /\ m \in Nat /\ 1 <= m /\ t \in Nat /\ n \in Nat
        /\ m \in 1 .. m /\ PackArgs(E) /\ Len(E.D) \in Nat /\ DOMAIN E.D = 1 .. Len(E.D)
        /\ E.fresh \in Nat /\ E.base \in Nat /\ E.M \in Nat
    BY <1>1, DueType DEF DueOK
  <1>3. /\ t # 0 /\ t # Len(E.D) + 1 /\ 1 <= n /\ n <= Past(E, t)
        /\ Len(E.D[t]) \in Nat /\ 1 <= Len(E.D[t]) /\ E.D[t][1] \in Nat
        /\ held \in {"ITEM", "DESC"}
        /\ (held = "ITEM" => n = 1 /\ held2 = "NONE")
        /\ (held = "DESC" => n <= Len(E.D[t]) /\ held2 = "DESC")
    <2>1. /\ 1 <= n /\ n <= Past(E, t) /\ t # 0 /\ t # Len(E.D) + 1
          /\ held \in {"ITEM", "DESC"}
          /\ (held # "DESC" => n = 1) /\ (held = "DESC" => n <= Len(E.D[t]))
      BY <1>1, <1>2 DEF DueOK
    <2>2. /\ Len(E.D[t]) \in Nat /\ (E.D[t] = << >> <=> Len(E.D[t]) = 0)
          /\ \A k \in 1 .. Len(E.D[t]) : E.D[t][k] \in Nat
      BY ONLY <1>2, ItemType, t \in DOMAIN E.D
    <2>3. 1 <= Len(E.D[t]) /\ 1 \in 1 .. Len(E.D[t])
      BY <2>2
    <2> QED
      BY <2>1, <2>2, <2>3
  <1>4. PICK z : z = Len(Q[m][1]) + 1
    OBVIOUS
  <1>5. b \in Nat /\ Q[m][2] <= b /\ E.fresh + E.base <= b /\ Q[m][2] \in Nat
    <2>1. Q[m][2] \in Nat
      BY <1>2, SheetTypes
    <2>2. E.fresh <= Q[m][2]
      BY <1>1, <1>2 DEF SheetsOK
    <2>3. PICK c, d, e \in Nat : c = Q[m][2] /\ d = E.base /\ e = E.fresh
      BY ONLY <1>2, <2>1
    <2>4. b = c + d /\ e <= c
      BY ONLY b = Q[m][2] + E.base, <2>2, <2>3
    <2>5. b \in Nat /\ c <= b /\ e + d <= b
      BY ONLY c \in Nat, d \in Nat, e \in Nat, <2>4
    <2> QED
      BY ONLY <2>1, <2>3, <2>5
  <1>6. PICK N : TwoAt(K, Q, R, N, m, z, x, y, b)
    BY <1>2, <1>4, <1>5, PutTwoHolds
  <1>7. /\ Lengthened(K, Q, R, N) /\ z \in Nat
        /\ \A i, k, e : << i, k, e >> \in N => i = m /\ ((k = z /\ e = x) \/ (k = z + 1 /\ e = y))
        /\ Len(R[m][1]) = z + 1 /\ R[m][2] = b
    BY <1>6 DEF TwoAt
  <1>8. ~IsThing(E, x) /\ ~IsThing(E, y)
    BY <1>2 DEF IsThing, PackArgs
  <1>9. /\ Len(R) = m /\ R # << >> /\ Grown(Q, R, N)
        /\ \A i \in 1 .. m : i # m => R[i] = Q[i]
    BY <1>2, <1>7 DEF Lengthened
  <1>10. \A i, k, e : << i, k, e >> \in N => ~IsThing(E, e)
    BY <1>7, <1>8
  <1>11. Behind(E, R, N, m, z, t, "IN", held2)
    <2>1. ASSUME NEW i, NEW k, NEW e, << i, k, e >> \in N
          PROVE  /\ i = m /\ k \in Nat /\ z <= k /\ e.owner = t
                 /\ e.kind \in {"item", "desc_loop_len"}
      <3>1. i = m /\ ((k = z /\ e = x) \/ (k = z + 1 /\ e = y))
        BY <1>7, <2>1
      <3>2. k \in Nat /\ z <= k
        BY <1>7, <3>1
      <3> QED
        BY <3>1, <3>2
    <2> QED
      BY <1>2, <1>3, <2>1 DEF Behind
  <1>12. Ordered(E, R, t, n)
    BY ONLY <1>1, <1>9, <1>10, OrderedKept
  <1>13. DueOK(E, R, "IN", held2, t, n)
    BY <1>1, <1>3, <1>9 DEF DueOK
  <1>14. Roomy(E) => HeadFits(E, R, "IN", held2, t, n)
    <2>1. ASSUME Roomy(E), held = "ITEM"
          PROVE  b + E.D[t][1] <= E.M
      <3>1. Q[m][2] + E.base + E.D[t][1] <= E.M
        BY <1>1, <2>1 DEF HeadFits
      <3> QED
        BY ONLY <1>2, <1>3, <1>5, <3>1, b = Q[m][2] + E.base
    <2> QED
      BY <1>3, <1>7, <1>9, <2>1 DEF HeadFits
  <1>15. Roomy(E) => Followed(E, R, "IN", held2, n)
    <2>1. Roomy(E) => FollowedBy(E, Q)
      BY <1>1, NoneLonely
    <2>2. ASSUME NEW i, NEW k, NEW e, << i, k, e >> \in N, e.kind = "item"
          PROVE  Lonely(R, "IN", held2, n, i, k)
      <3>1. i = m /\ ((k = z /\ e = x) \/ (k = z + 1 /\ e = y))
        BY <1>7, <2>2
      <3>2. i = m /\ k = z
        BY <2>2, <3>1
      <3> QED
        BY <1>3, <1>7, <1>9, <3>2 DEF Lonely
    <2>3. \A i, k, e : << i, k, e >> \in N /\ e.kind = "item" /\ ~IsThing(E, e) =>
            Lonely(R, "IN", held2, n, i, k)
      BY <2>2
    <2> QED
      BY ONLY <1>9, <2>1, <2>3, FollowedMore
  <1>16. ASSUME 2 <= m, BeginsNext(E, Q, "TOP", held, t, n, m)
         PROVE  BeginsNext(E, R, "IN", held2, t, n, m)
    <2>1. R[m - 1] = Q[m - 1]
      <3>1. m - 1 \in 1 .. m /\ m - 1 # m
        BY ONLY <1>2, <1>16
      <3> QED
        BY <1>9, <3>1
    <2>2. E.D[t] # << >> /\ (held2 = "DESC" \/ n = 1)
      BY <1>3
    <2>3. Len(R) = Len(Q)
      BY <1>9
    <2>4. "IN" \in {"TOP", "IN"} /\ "IN" # "TOP"
      OBVIOUS
    <2> QED
      BY ONLY <1>9, <1>10, <1>16, <2>1, <2>2, <2>3, <2>4, StillNext
  <1>17. E.fresh + E.base <= R[m][2]
    BY <1>5, <1>7
  <1>18. Lengthened(K, Q, R, N) /\ Q # << >>
    BY <1>2, <1>7
  <1>19. Roomy(E) =>
           /\ HeadFits(E, R, "IN", held2, t, n) /\ Followed(E, R, "IN", held2, n)
           /\ 2 <= m /\ BeginsNext(E, Q, "TOP", held, t, n, m) =>
                Begins(E, R, m) \/ BeginsNext(E, R, "IN", held2, t, n, m)
    BY <1>14, <1>15, <1>16
  <1>20. "IN" \in {"TOP", "IN"} /\ ("TOP" = "IN" \/ held = "DESC" => "IN" = "IN" \/ held2 = "DESC")
    OBVIOUS
  <1> QED
    BY ONLY <1>4, <1>11, <1>12, <1>13, <1>17, <1>18, <1>19, <1>20, WrittenPack,
            SheetInv(E, K, B, Q, "TOP", held, t, n), m = Len(Q)

\* The header of the item that is due, which has no descriptors.
LEMMA LoneHeadPack ==
  ASSUME NEW E, NEW K, NEW B, NEW Q, NEW held, NEW t, NEW n,
         SheetInv(E, K, B, Q, "TOP", held, t, n), t \in DOMAIN E.D, E.D[t] = << >>,
         held # "NONE",
         NEW x \in Entries(K), x.owner = t, x.kind = "item",
         NEW y \in Entries(K), y.owner = t, y.kind = "desc_loop_len",
         NEW m, m = Len(Q), NEW b, b = Q[m][2] + E.base,
         NEW R, R = Replaced(Q, Append(Append(Q[m][1], x), y), b)
  PROVE  SheetInv(E, K, B, R, "IN", "NONE", t, 2)
  <1>1. /\ DueOK(E, Q, "TOP", held, t, n) /\ Ordered(E, Q, t, n) /\ SheetsOK(E, K, Q, "TOP")
        /\ Roomy(E) => Followed(E, Q, "TOP", held, n)
    BY DEF SheetInv
  <1>2. /\ Q \in SheetsOf(K) /\ Q # << >> /\ m \in Nat /\ 1 <= m /\ t \in Nat /\ n \in Nat
        /\ m \in 1 .. m /\ PackArgs(E) /\ Len(E.D) \in Nat /\ DOMAIN E.D = 1 .. Len(E.D)
        /\ E.fresh \in Nat /\ E.base \in Nat /\ E.M \in Nat
    BY <1>1, DueType DEF DueOK
  <1>3. t # 0 /\ t # Len(E.D) + 1 /\ n = 1 /\ held = "ITEM" /\ Past(E, t) = 2
    <2>1. /\ 1 <= n /\ t # 0 /\ t # Len(E.D) + 1 /\ held \in {"ITEM", "DESC"}
          /\ (held # "DESC" => n = 1) /\ (held = "DESC" => n <= Len(E.D[t]))
      BY <1>1, <1>2 DEF DueOK
    <2>2. Len(E.D[t]) = 0
      OBVIOUS
    <2>3. held # "DESC"
      BY ONLY <1>2, <2>1, <2>2
    <2> QED
      BY <2>1, <2>3 DEF Past
  <1>4. PICK z : z = Len(Q[m][1]) + 1
    OBVIOUS
  <1>5. b \in Nat /\ Q[m][2] <= b /\ E.fresh + E.base <= b /\ Q[m][2] \in Nat
    <2>1. Q[m][2] \in Nat
      BY <1>2, SheetTypes
    <2>2. E.fresh <= Q[m][2]
      BY <1>1, <1>2 DEF SheetsOK
    <2>3. PICK c, d, e \in Nat : c = Q[m][2] /\ d = E.base /\ e = E.fresh
      BY ONLY <1>2, <2>1
    <2>4. b = c + d /\ e <= c
      BY ONLY b = Q[m][2] + E.base, <2>2, <2>3
    <2>5. b \in Nat /\ c <= b /\ e + d <= b
      BY ONLY c \in Nat, d \in Nat, e \in Nat, <2>4
    <2> QED
      BY ONLY <2>1, <2>3, <2>5
  <1>6. PICK N : TwoAt(K, Q, R, N, m, z, x, y, b)
    BY <1>2, <1>4, <1>5, PutTwoHolds
  <1>7. /\ Lengthened(K, Q, R, N) /\ z \in Nat
        /\ \A i, k, e : << i, k, e >> \in N <=> i = m /\ ((k = z /\ e = x) \/ (k = z + 1 /\ e = y))
        /\ Len(R[m][1]) = z + 1 /\ R[m][2] = b
    BY <1>6 DEF TwoAt
  <1>8. IsThing(E, x) /\ Nth(x) = n /\ ~IsThing(E, y)
    BY <1>2, <1>3 DEF IsThing, PackArgs, Nth
  <1>9. /\ Len(R) = m /\ R # << >> /\ Grown(Q, R, N)
        /\ \A i \in 1 .. m : i # m => R[i] = Q[i]
    BY <1>2, <1>7 DEF Lengthened
  <1>10. Only(E, N, m, z, x)
    BY <1>7, <1>8 DEF Only
  <1>11. Behind(E, R, N, m, z, t, "IN", "NONE")
    <2>1. ASSUME NEW i, NEW k, NEW e, << i, k, e >> \in N
          PROVE  /\ i = m /\ k \in Nat /\ z <= k /\ e.owner = t
                 /\ e.kind \in {"item", "desc_loop_len"}
      <3>1. i = m /\ ((k = z /\ e = x) \/ (k = z + 1 /\ e = y))
        BY <1>7, <2>1
      <3>2. k \in Nat /\ z <= k
        BY <1>7, <3>1
      <3> QED
        BY <3>1, <3>2
    <2> QED
      BY <1>2, <1>3, <2>1 DEF Behind
  <1>12. PICK v : v = 2
    OBVIOUS
  <1>13. Ordered(E, R, t, v)
    <2>1. IsDue(E, x, t, n)
      BY <1>2, <1>3, <1>8 DEF IsPlace, IsDue
    <2>2. v = n + 1
      BY <1>3, <1>12
    <2> QED
      BY ONLY <1>2, <1>4, <1>9, <1>10, <2>1, <2>2, PutOrdered, m = Len(Q),
              SheetInv(E, K, B, Q, "TOP", held, t, n)
  <1>14. DueOK(E, R, "IN", "NONE", t, v)
    BY <1>1, <1>3, <1>9, <1>12 DEF DueOK
  <1>15. HeadFits(E, R, "IN", "NONE", t, v)
    BY DEF HeadFits
  <1>16. Roomy(E) => Followed(E, R, "IN", "NONE", v)
    <2>1. Roomy(E) => FollowedBy(E, Q)
      BY <1>1, NoneLonely
    <2>2. \A i, k, e : << i, k, e >> \in N /\ e.kind = "item" /\ ~IsThing(E, e) =>
            Lonely(R, "IN", "NONE", v, i, k)
      BY <1>7, <1>8
    <2> QED
      BY ONLY <1>9, <2>1, <2>2, FollowedMore
  <1>17. ASSUME 2 <= m, BeginsNext(E, Q, "TOP", held, t, n, m)
         PROVE  Begins(E, R, m)
    <2>1. R[m - 1] = Q[m - 1]
      <3>1. m - 1 \in 1 .. m /\ m - 1 # m
        BY ONLY <1>2, <1>17
      <3> QED
        BY <1>9, <3>1
    <2>2. Takes(E, LastIn(Q, m - 1), x) = DueTakes(E, LastIn(Q, m - 1), t, n)
      BY <1>3 DEF Takes, DueTakes
    <2> QED
      BY ONLY <1>9, <1>10, <1>17, <2>1, <2>2, DueBegins
  <1>18. E.fresh + E.base <= R[m][2]
    BY <1>5, <1>7
  <1>19. SheetInv(E, K, B, R, "IN", "NONE", t, v)
    <2>1. PICK ph, ph2, held2 : ph = "TOP" /\ ph2 = "IN" /\ held2 = "NONE"
      OBVIOUS
    <2>2. /\ SheetInv(E, K, B, Q, ph, held, t, n) /\ Q # << >> /\ m = Len(Q)
          /\ z = Len(Q[m][1]) + 1 /\ Lengthened(K, Q, R, N) /\ ph2 \in {"TOP", "IN"}
          /\ Behind(E, R, N, m, z, t, ph2, held2) /\ Ordered(E, R, t, v)
          /\ DueOK(E, R, ph2, held2, t, v)
      BY <1>2, <1>4, <1>7, <1>11, <1>13, <1>14, <2>1
    <2>3. /\ ph = "IN" \/ held = "DESC" => ph2 = "IN" \/ held2 = "DESC"
          /\ ph2 = "IN" => E.fresh + E.base <= R[m][2]
      BY <1>18, <2>1
    <2>4. Roomy(E) =>
            /\ HeadFits(E, R, ph2, held2, t, v) /\ Followed(E, R, ph2, held2, v)
            /\ 2 <= m /\ BeginsNext(E, Q, ph, held, t, n, m) =>
                 Begins(E, R, m) \/ BeginsNext(E, R, ph2, held2, t, v, m)
      BY <1>15, <1>16, <1>17, <2>1
    <2>5. SheetInv(E, K, B, R, ph2, held2, t, v)
      BY ONLY <2>2, <2>3, <2>4, WrittenPack
    <2> QED
      BY <2>1, <2>5
  <1> QED
    BY <1>12, <1>19

\* The bytes taken depend on whose the last entry was.
LEMMA TakesAlike ==
  ASSUME NEW E, NEW u, NEW w, u.owner = w.owner
  PROVE  /\ \A e : Takes(E, u, e) = Takes(E, w, e)
         /\ \A t, n : DueTakes(E, u, t, n) = DueTakes(E, w, t, n)
  BY DEF Takes, DueTakes

\* Lengths are patched.
LEMMA PatchPack ==
  ASSUME NEW E, NEW K, NEW B, NEW Q, NEW ph, NEW held, NEW t, NEW n,
         SheetInv(E, K, B, Q, ph, held, t, n), Q # << >>,
         NEW R \in SheetsOf(K), Patched(E.kind, Q, R)
  PROVE  SheetInv(E, K, B, R, ph, held, t, n)
  <1>1. /\ DueOK(E, Q, ph, held, t, n) /\ SheetsOK(E, K, Q, ph) /\ Ordered(E, Q, t, n)
        /\ Owned(Q, ph, held, t) /\ Heavy(E, Q)
        /\ Roomy(E) => /\ HeadFits(E, Q, ph, held, t, n)
                       /\ Followed(E, Q, ph, held, n)
                       /\ FullBefore(E, B, Q, ph, held, t, n)
    BY DEF SheetInv
  <1>2. /\ PackArgs(E) /\ Q \in SheetsOf(K) /\ Len(Q) \in Nat /\ 1 <= Len(Q)
        /\ Len(Q) \in 1 .. Len(Q)
    BY DueType
  <1>3. /\ Len(R) = Len(Q) /\ R # << >>
        /\ \A i \in 1 .. Len(Q) : R[i][2] = Q[i][2] /\ Len(R[i][1]) = Len(Q[i][1])
    BY <1>2, SheetTypes DEF Patched
  <1>4. ASSUME NEW i \in 1 .. Len(Q) PROVE Q[i][1] # << >> /\ R[i][1] # << >>
    <2>1. Q[i][1] # << >> /\ Len(R[i][1]) = Len(Q[i][1])
      BY <1>1, <1>3 DEF SheetsOK
    <2>2. Q[i][1] \in Seq(Entries(K)) /\ R[i][1] \in Seq(Entries(K))
      BY <1>2, <1>3, SheetTypes
    <2> QED
      BY <2>1, <2>2
  <1>5. ASSUME NEW i, NEW k, NEW f, Holds(R, i, k, f)
        PROVE  \E e : /\ Holds(Q, i, k, e) /\ e.kind = f.kind /\ e.owner = f.owner
                      /\ (IsThing(E, e) <=> IsThing(E, f))
                      /\ (e.kind \in {"item", "desc"} => e = f)
                      /\ (IsThing(E, e) => e = f)
    <2>1. PICK e : Holds(Q, i, k, e) /\ Same(E.kind, e, f)
      BY <1>5 DEF Patched
    <2> QED
      BY ONLY <2>1 DEF Same, Alike, IsThing
  <1>6. ASSUME NEW i, NEW k, NEW e, Holds(Q, i, k, e), IsThing(E, e) \/ e.kind \in {"item", "desc"}
        PROVE  Holds(R, i, k, e)
    <2>1. PICK f : Holds(R, i, k, f) /\ Same(E.kind, e, f)
      BY <1>6 DEF Patched
    <2> QED
      BY ONLY <1>6, <2>1 DEF Same, Alike, IsThing
  <1>7. ASSUME NEW i \in 1 .. Len(Q) PROVE LastIn(R, i).owner = LastIn(Q, i).owner
    <2>1. PICK k, e : k = Len(R[i][1]) /\ e = R[i][1][k]
      OBVIOUS
    <2>2. R[i][1] \in Seq(Entries(K)) /\ R[i][1] # << >>
      BY <1>3, <1>4, SheetTypes
    <2>3. k \in 1 .. Len(R[i][1])
      BY <2>1, <2>2
    <2>4. Holds(R, i, k, e)
      BY <1>3, <2>1, <2>3 DEF Holds
    <2>5. PICK d : Holds(Q, i, k, d) /\ d.owner = e.owner
      BY <1>5, <2>4
    <2>6. d = Q[i][1][Len(Q[i][1])]
      BY <1>3, <2>1, <2>5 DEF Holds
    <2> QED
      BY <2>1, <2>5, <2>6 DEF LastIn
  <1>8. DueOK(E, R, ph, held, t, n)
    BY <1>1, <1>3 DEF DueOK
  <1>9. SheetsOK(E, K, R, ph)
    BY <1>1, <1>2, <1>3, <1>4 DEF SheetsOK
  <1>10. Ordered(E, R, t, n)
    BY <1>1, OrderedPatch
  <1>11. Owned(R, ph, held, t)
    BY <1>1, <1>5 DEF Owned
  <1>12. Heavy(E, R)
    <2>1. ASSUME NEW i, NEW k, NEW e, Holds(R, i, k, e), e.kind = "desc"
          PROVE  Holds(Q, i, k, e) /\ R[i][2] = Q[i][2]
      <3>1. i \in 1 .. Len(Q)
        BY <1>3, <2>1 DEF Holds
      <3> QED
        BY <1>3, <1>5, <2>1, <3>1
    <2> QED
      BY <1>1, <2>1 DEF Heavy
  <1>13. HeadFits(E, Q, ph, held, t, n) => HeadFits(E, R, ph, held, t, n)
    BY <1>2, <1>3 DEF HeadFits
  <1>14. ASSUME NEW i \in 1 .. Len(Q), Bare(E, Q, i) PROVE Bare(E, R, i)
    BY <1>5, <1>14 DEF Bare
  <1>15. Followed(E, Q, ph, held, n) => Followed(E, R, ph, held, n)
    <2>1. SUFFICES ASSUME Followed(E, Q, ph, held, n), NEW i, NEW k, NEW e,
                          Holds(R, i, k, e), e.kind = "item", ~IsThing(E, e)
                   PROVE  \/ \E f : Holds(R, i, k + 2, f) /\ f.kind = "desc"
                          \/ Lonely(R, ph, held, n, i, k)
      BY DEF Followed
    <2>2. Holds(Q, i, k, e) /\ i \in 1 .. Len(Q)
      BY <1>3, <1>5, <2>1 DEF Holds
    <2>3. CASE \E f : Holds(Q, i, k + 2, f) /\ f.kind = "desc"
      BY <1>6, <2>3
    <2>4. CASE Lonely(Q, ph, held, n, i, k)
      BY <1>3, <2>2, <2>4 DEF Lonely
    <2> QED
      BY <2>1, <2>2, <2>3, <2>4 DEF Followed
  <1>16. ASSUME NEW i \in 2 .. Len(Q)
         PROVE  i - 1 \in 1 .. Len(Q) /\ i \in 1 .. Len(Q)
    BY <1>2
  <1>17. ASSUME NEW i \in 2 .. Len(Q), Begins(E, Q, i) PROVE Begins(E, R, i)
    <2>1. PICK k, e : /\ Holds(Q, i, k, e) /\ IsThing(E, e)
                      /\ \A l, f : Holds(Q, i, l, f) /\ l < k => ~IsThing(E, f)
                      /\ Q[i - 1][2] + Takes(E, LastIn(Q, i - 1), e) > E.M
      BY <1>17 DEF Begins
    <2>2. Holds(R, i, k, e)
      BY <1>6, <2>1
    <2>3. ASSUME NEW l, NEW f, Holds(R, i, l, f), l < k PROVE ~IsThing(E, f)
      BY <1>5, <2>1, <2>3
    <2>4. Takes(E, LastIn(R, i - 1), e) = Takes(E, LastIn(Q, i - 1), e)
      BY <1>7, <1>16, TakesAlike
    <2>5. R[i - 1][2] + Takes(E, LastIn(R, i - 1), e) > E.M
      BY <1>3, <1>16, <2>1, <2>4
    <2> QED
      BY ONLY <2>1, <2>2, <2>3, <2>5 DEF Begins
  <1>18. ASSUME NEW i \in 2 .. Len(Q), BeginsNext(E, Q, ph, held, t, n, i)
         PROVE  BeginsNext(E, R, ph, held, t, n, i)
    <2>1. DueTakes(E, LastIn(R, i - 1), t, n) = DueTakes(E, LastIn(Q, i - 1), t, n)
      BY <1>7, <1>16, TakesAlike
    <2>2. R[i - 1][2] = Q[i - 1][2]
      BY <1>3, <1>16
    <2>3. Bare(E, R, i)
      BY <1>14, <1>16, <1>18 DEF BeginsNext
    <2> QED
      BY <1>3, <1>18, <2>1, <2>2, <2>3 DEF BeginsNext
  <1>19. Waits(E, B, Q, ph, held, t, n) => Waits(E, B, R, ph, held, t, n)
    <2>1. DueTakes(E, LastIn(R, Len(Q)), t, n) = DueTakes(E, LastIn(Q, Len(Q)), t, n)
      BY <1>2, <1>7, TakesAlike
    <2> QED
      BY <1>2, <1>3, <2>1 DEF Waits
  <1>20. FullBefore(E, B, Q, ph, held, t, n) => FullBefore(E, B, R, ph, held, t, n)
    BY <1>3, <1>17, <1>18, <1>19 DEF FullBefore
  <1> QED
    BY ONLY <1>1, <1>2, <1>8, <1>9, <1>10, <1>11, <1>12, <1>13, <1>15, <1>20 DEF SheetInv

-----------------------------------------------------------------------------
(* The sections of the build in progress.                                  *)

\* The last that has its header.
Headed == IF state = "WRITE_SEC" /\ cur.data_length = 0 THEN Len(stream) - 1 ELSE Len(stream)

\* What is counted of the section being written may not be written yet.
SheetAt(j) ==
  << stream[j].payload,
     IF state = "WRITE_SEC" /\ j = Len(stream) THEN sec_bytes ELSE stream[j].data_length - 3 >>

\* Q are the sections of this build that have a header.
IsSheets(K, Q) ==
  /\ Q \in SheetsOf(K) /\ Len(Q) = Headed - first + 1
  /\ \A j \in first .. Headed : Q[j - first + 1] = SheetAt(j)

\* Where sections f to l are among the m there are.
LEMMA Positions ==
  ASSUME NEW f \in Nat, NEW l \in Nat, 1 <= f, f <= l, NEW m, m = l - f + 1, NEW j \in f .. l
  PROVE  /\ m \in Nat /\ 1 <= m
         /\ (j = l => j - f + 1 = m)
         /\ (j # l => /\ j \in 1 .. l - 1 /\ j \in f .. l - 1
                     /\ j - f + 1 \in 1 .. m /\ j - f + 1 \in 1 .. m - 1 /\ j - f + 1 # m)
  OBVIOUS

\* The last one replaced, or one more.
Last(K, Q, R, m, p, b) ==
  /\ R \in SheetsOf(K) /\ Len(R) = m /\ R[m] = << p, b >>
  /\ \A i \in 1 .. Len(Q) : i # m => R[i] = Q[i]

\* A section whose payload is replaced.
LEMMA SheetReplaced ==
  ASSUME NEW K, NEW Q \in SheetsOf(K), Q # << >>, NEW p \in Seq(Entries(K)), NEW b \in Nat,
         NEW m, m = Len(Q), NEW R, R = Replaced(Q, p, b)
  PROVE  Last(K, Q, R, m, p, b)
  <1>1. /\ R \in SheetsOf(K) /\ Len(R) = Len(Q)
        /\ \A i \in 1 .. Len(Q) : i # Len(Q) => R[i] = Q[i]
    BY ReplacedSheets
  <1>2. PICK w : w = << p, b >>
    OBVIOUS
  <1>3. R = [Q EXCEPT ![m] = w]
    BY <1>2 DEF Replaced
  <1>4. m \in DOMAIN Q
    <2>1. Q \in Seq(Seq(Entries(K)) \X Nat)
      BY DEF SheetsOf
    <2> QED
      BY ONLY <2>1, Q # << >>, m = Len(Q)
  <1>5. R[m] = w
    BY ONLY <1>3, <1>4
  <1> QED
    BY <1>1, <1>2, <1>5 DEF Last

\* A section that is added.
LEMMA SheetAdded ==
  ASSUME NEW K, NEW Q \in SheetsOf(K), NEW p \in Seq(Entries(K)), NEW b \in Nat,
         NEW m, m = Len(Q) + 1, NEW R, R = Append(Q, << p, b >>)
  PROVE  Last(K, Q, R, m, p, b)
  <1>1. PICK S, w : S = Seq(Entries(K)) \X Nat /\ w = << p, b >>
    OBVIOUS
  <1>2. w \in S /\ Q \in Seq(S) /\ R = Append(Q, w)
    BY <1>1 DEF SheetsOf
  <1>3. /\ R \in Seq(S) /\ Len(R) = m /\ R[m] = w
        /\ \A i \in 1 .. Len(Q) : R[i] = Q[i]
    BY ONLY <1>2, m = Len(Q) + 1
  <1> QED
    BY <1>1, <1>3 DEF SheetsOf, Last

\* There is none yet.
LEMMA SheetsBegin ==
  ASSUME NEW K, NEW P, NEW private_bit, DriverInv(P, private_bit), buildSections
  PROVE  IsSheets(K, << >>)'
  <1>1. /\ stream' = stream /\ first' = Len(stream) + 1 /\ state' = "MALLOC_SEC"
        /\ Len(stream) \in Nat
    BY DEF buildSections, DriverInv, DriverTypes
  <1>2. PICK Q : Q = << >>
    OBVIOUS
  <1>3. Q \in SheetsOf(K) /\ Len(Q) = 0
    BY <1>2 DEF SheetsOf
  <1>4. Headed' = Len(stream)
    BY <1>1 DEF Headed
  <1>5. IsSheets(K, Q)'
    BY <1>1, <1>3, <1>4 DEF IsSheets
  <1> QED
    BY <1>2, <1>5

\* A section without a header is none.
LEMMA SheetsMalloc ==
  ASSUME NEW K, NEW P, NEW private_bit, DriverInv(P, private_bit), MallocSec,
         NEW Q, IsSheets(K, Q)
  PROVE  IsSheets(K, Q)'
  <1>1. state = "MALLOC_SEC" /\ state' = "WRITE_SEC" /\ first' = first
    BY DEF MallocSec
  <1>2. /\ Len(stream') = Len(stream) + 1 /\ Len(stream) \in Nat /\ first \in 1 .. Len(stream) + 1
        /\ \A i \in 1 .. Len(stream) : stream'[i] = stream[i]
        /\ stream'[Len(stream) + 1].data_length = 0
    BY MallocSecFrame DEF DriverInv, DriverTypes, PsiTypeOK
  <1>3. Headed = Len(stream) /\ Headed' = Len(stream)
    BY <1>1, <1>2 DEF Headed, cur
  <1>4. ASSUME NEW j \in first .. Len(stream) PROVE SheetAt(j)' = SheetAt(j)
    <2>1. j \in 1 .. Len(stream) /\ j # Len(stream) + 1
      BY <1>2
    <2> QED
      BY <1>1, <1>2, <2>1 DEF SheetAt
  <1> QED
    BY <1>1, <1>3, <1>4 DEF IsSheets

\* A header makes it one.
LEMMA SheetsOpen ==
  ASSUME NEW K, NEW private_bit, DriverRest(Entries(K), private_bit), state = "WRITE_SEC",
         cur.data_length = 0, NEW Q, IsSheets(K, Q),
         OnlyCur, state' = "WRITE_SEC", DriverTypes(Entries(K))', cur'.data_length # 0,
         NEW p, p = cur'.payload, NEW b, b = sec_bytes'
  PROVE  IsSheets(K, Append(Q, << p, b >>))' /\ p \in Seq(Entries(K))
  <1>1. /\ Len(stream') = Len(stream) /\ Len(stream) \in Nat /\ first \in 1 .. Len(stream)
        /\ \A i \in 1 .. Len(stream) - 1 : stream'[i] = stream[i]
        /\ first' = first
    BY RestFacts DEF OnlyCur
  <1>2. Headed = Len(stream) - 1 /\ Headed' = Len(stream) /\ cur' = stream'[Len(stream)]
    BY <1>1 DEF Headed, cur
  <1>3. PICK f, l, m, h : f = first /\ l = Len(stream) /\ m = l - f + 1 /\ h = Len(Q)
    OBVIOUS
  <1>4. << p, b >> = SheetAt(l)' /\ p \in Seq(Entries(K)) /\ b \in Nat
    <2>1. stream' \in Seq(Sections(Entries(K))) /\ sec_bytes' \in ui16
      BY DEF DriverTypes, PsiTypeOK
    <2>2. cur' \in Sections(Entries(K))
      BY <1>1, <1>2, <2>1
    <2>3. cur'.payload \in Seq(Entries(K))
      BY <2>2, SectionFieldTypes
    <2> QED
      BY <1>1, <1>2, <1>3, <2>1, <2>3, Ui16 DEF SheetAt
  <1>5. p \in Seq(Entries(K)) /\ b \in Nat
    BY <1>4
  <1>6. f \in Nat /\ l \in Nat /\ 1 <= f /\ f <= l
    BY <1>1, <1>3
  <1>7. Q \in SheetsOf(K) /\ h + 1 = m /\ h = m - 1 /\ m \in Nat
    <2>1. Q \in SheetsOf(K) /\ h = l - 1 - f + 1
      BY <1>2, <1>3 DEF IsSheets
    <2> QED
      BY ONLY <1>3, <1>6, <2>1
  <1>8. PICK R : R = Append(Q, << p, b >>)
    OBVIOUS
  <1>9. h = Len(Q)
    BY <1>3
  <1>10. /\ R \in SheetsOf(K) /\ Len(R) = m /\ R[m] = << p, b >>
        /\ \A i \in 1 .. m - 1 : R[i] = Q[i]
    <2>1. Q \in SheetsOf(K) /\ m = Len(Q) + 1
      BY <1>7, <1>9
    <2>2. Last(K, Q, R, m, p, b)
      BY ONLY <1>5, <1>8, <2>1, SheetAdded
    <2>3. m \notin 1 .. m - 1 /\ Len(Q) = m - 1
      BY ONLY <1>7, <1>9
    <2> QED
      BY ONLY <2>2, <2>3 DEF Last
  <1>11. ASSUME NEW j \in f .. l
        PROVE  R[j - f + 1] = SheetAt(j)'
    <2>1. CASE j = l
      <3>1. j - f + 1 = m
        BY <1>3, <1>6, <2>1, Positions
      <3> QED
        BY <1>3, <1>4, <1>10, <2>1, <3>1
    <2>2. CASE j # l
      <3>1. j \in 1 .. l - 1 /\ j \in f .. l - 1 /\ j - f + 1 \in 1 .. m - 1
        BY <1>3, <1>6, <2>2, Positions
      <3>2. SheetAt(j)' = SheetAt(j)
        BY <1>1, <1>3, <2>2, <3>1 DEF SheetAt
      <3>3. Q[j - f + 1] = SheetAt(j)
        BY <1>2, <1>3, <3>1 DEF IsSheets
      <3> QED
        BY <1>10, <3>1, <3>2, <3>3
    <2> QED
      BY <2>1, <2>2
  <1>12. IsSheets(K, R)'
    BY <1>1, <1>2, <1>3, <1>10, <1>11 DEF IsSheets
  <1> QED
    BY <1>4, <1>8, <1>12

\* The last is the section being written.
LEMMA SheetsCur ==
  ASSUME NEW K, NEW private_bit, DriverRest(Entries(K), private_bit), state = "WRITE_SEC",
         cur.data_length # 0, NEW Q, IsSheets(K, Q)
  PROVE  /\ Q \in SheetsOf(K) /\ Q # << >> /\ Len(Q) = Len(stream) - first + 1
         /\ Q[Len(Q)][1] = cur.payload /\ Q[Len(Q)][2] = sec_bytes
  <1>1. /\ Len(stream) \in Nat /\ first \in 1 .. Len(stream) /\ Headed = Len(stream)
        /\ cur = stream[Len(stream)]
    BY RestFacts DEF Headed
  <1>2. /\ Q \in SheetsOf(K) /\ Len(Q) = Len(stream) - first + 1
        /\ Q[Len(stream) - first + 1] = SheetAt(Len(stream))
    BY <1>1 DEF IsSheets
  <1>3. Q # << >>
    BY <1>1, <1>2, SheetTypes
  <1> QED
    BY <1>1, <1>2, <1>3 DEF SheetAt

\* Something is written in it, or nothing.
LEMMA SheetsGrow ==
  ASSUME NEW K, NEW private_bit, DriverRest(Entries(K), private_bit), state = "WRITE_SEC",
         cur.data_length # 0, NEW Q, IsSheets(K, Q),
         OnlyCur, state' = "WRITE_SEC", DriverTypes(Entries(K))', cur'.data_length # 0,
         NEW p, p = cur'.payload, NEW b, b = sec_bytes'
  PROVE  IsSheets(K, Replaced(Q, p, b))'
  <1>1. /\ Len(stream') = Len(stream) /\ Len(stream) \in Nat /\ first \in 1 .. Len(stream)
        /\ \A i \in 1 .. Len(stream) - 1 : stream'[i] = stream[i]
        /\ first' = first
    BY RestFacts DEF OnlyCur
  <1>2. Headed = Len(stream) /\ Headed' = Len(stream) /\ cur' = stream'[Len(stream)]
    BY <1>1 DEF Headed, cur
  <1>3. PICK f, l, m : f = first /\ l = Len(stream) /\ m = l - f + 1
    OBVIOUS
  <1>4. << p, b >> = SheetAt(l)' /\ p \in Seq(Entries(K)) /\ b \in Nat
    <2>1. stream' \in Seq(Sections(Entries(K))) /\ sec_bytes' \in ui16
      BY DEF DriverTypes, PsiTypeOK
    <2>2. cur' \in Sections(Entries(K))
      BY <1>1, <1>2, <2>1
    <2>3. cur'.payload \in Seq(Entries(K))
      BY <2>2, SectionFieldTypes
    <2> QED
      BY <1>1, <1>2, <1>3, <2>1, <2>3, Ui16 DEF SheetAt
  <1>5. p \in Seq(Entries(K)) /\ b \in Nat
    BY <1>4
  <1>6. f \in Nat /\ l \in Nat /\ 1 <= f /\ f <= l
    BY <1>1, <1>3
  <1>7. Q \in SheetsOf(K) /\ Q # << >> /\ m = Len(Q)
    BY <1>3, SheetsCur
  <1>8. PICK R : R = Replaced(Q, p, b)
    OBVIOUS
  <1>9. /\ R \in SheetsOf(K) /\ Len(R) = m /\ R[m] = << p, b >>
        /\ \A i \in 1 .. m : i # m => R[i] = Q[i]
    <2>1. Last(K, Q, R, m, p, b)
      BY ONLY <1>5, <1>7, <1>8, SheetReplaced
    <2> QED
      BY ONLY <1>7, <2>1 DEF Last
  <1>10. ASSUME NEW j \in f .. l
        PROVE  R[j - f + 1] = SheetAt(j)'
    <2>1. CASE j = l
      <3>1. j - f + 1 = m
        BY <1>3, <1>6, <2>1, Positions
      <3> QED
        BY <1>3, <1>4, <1>9, <2>1, <3>1
    <2>2. CASE j # l
      <3>1. j \in 1 .. l - 1 /\ j - f + 1 \in 1 .. m /\ j - f + 1 # m
        BY <1>3, <1>6, <2>2, Positions
      <3>2. SheetAt(j)' = SheetAt(j)
        BY <1>1, <1>3, <2>2, <3>1 DEF SheetAt
      <3>3. Q[j - f + 1] = SheetAt(j)
        BY <1>2, <1>3 DEF IsSheets
      <3> QED
        BY <1>9, <3>1, <3>2, <3>3
    <2> QED
      BY <2>1, <2>2
  <1>11. IsSheets(K, R)'
    BY <1>1, <1>2, <1>3, <1>9, <1>10 DEF IsSheets
  <1> QED
    BY <1>8, <1>11

\* It is left, with all that was counted.
LEMMA SheetsLeave ==
  ASSUME NEW K, NEW private_bit \in {0, 1}, DriverRest(Entries(K), private_bit),
         state = "WRITE_SEC", cur.data_length # 0, NEW Q, IsSheets(K, Q),
         NEW s \in Sections(Entries(K)), s.data_length = sec_bytes + 3, NEW done \in BOOLEAN,
         WriteSecReturn(done, s, sec_bytes, private_bit),
         NEW p, p = s.payload, NEW b, b = sec_bytes
  PROVE  IsSheets(K, Replaced(Q, p, b))'
  <1>1. PICK L, z : /\ L = finalSectionLength(private_bit, sec_bytes)
                    /\ z = setSectionLength(s, L)
    OBVIOUS
  <1>2. L \in ui16
    BY <1>1, FinalLengthType, RestFacts
  <1>3. z \in Sections(Entries(K)) /\ z.payload = s.payload /\ z.data_length = s.data_length
    BY <1>1, <1>2, SetSectionLengthFields
  <1>4. stream' = ReplaceCur(z) /\ first' = first /\ state' \in {"END_TABLE", "MALLOC_SEC"}
    BY <1>1 DEF WriteSecReturn
  <1>5. /\ stream \in Seq(Sections(Entries(K))) /\ Len(stream) \in Nat
        /\ first \in 1 .. Len(stream) /\ sec_bytes \in Nat
    BY RestFacts
  <1>6. /\ Len(stream') = Len(stream) /\ stream'[Len(stream)] = z
        /\ \A i \in 1 .. Len(stream) - 1 : stream'[i] = stream[i]
    BY <1>3, <1>4, <1>5, ReplaceCurRest
  <1>7. Headed = Len(stream) /\ Headed' = Len(stream)
    BY <1>4, <1>6 DEF Headed
  <1>8. PICK f, l, m : f = first /\ l = Len(stream) /\ m = l - f + 1
    OBVIOUS
  <1>9. << p, b >> = SheetAt(l)' /\ p \in Seq(Entries(K)) /\ b \in Nat
    <2>1. p \in Seq(Entries(K))
      BY SectionFieldTypes
    <2>2. z.data_length - 3 = b
      BY <1>3, <1>5
    <2> QED
      BY <1>3, <1>4, <1>5, <1>6, <1>8, <2>1, <2>2 DEF SheetAt
  <1>10. p \in Seq(Entries(K)) /\ b \in Nat
    BY <1>9
  <1>11. f \in Nat /\ l \in Nat /\ 1 <= f /\ f <= l
    BY <1>5, <1>8
  <1>12. Q \in SheetsOf(K) /\ Q # << >> /\ m = Len(Q)
    BY <1>8, SheetsCur
  <1>13. PICK R : R = Replaced(Q, p, b)
    OBVIOUS
  <1>14. /\ R \in SheetsOf(K) /\ Len(R) = m /\ R[m] = << p, b >>
        /\ \A i \in 1 .. m : i # m => R[i] = Q[i]
    <2>1. Last(K, Q, R, m, p, b)
      BY ONLY <1>10, <1>12, <1>13, SheetReplaced
    <2> QED
      BY ONLY <1>12, <2>1 DEF Last
  <1>15. ASSUME NEW j \in f .. l
        PROVE  R[j - f + 1] = SheetAt(j)'
    <2>1. CASE j = l
      <3>1. j - f + 1 = m
        BY <1>8, <1>11, <2>1, Positions
      <3> QED
        BY <1>8, <1>9, <1>14, <2>1, <3>1
    <2>2. CASE j # l
      <3>1. j \in 1 .. l - 1 /\ j - f + 1 \in 1 .. m /\ j - f + 1 # m
        BY <1>8, <1>11, <2>2, Positions
      <3>2. SheetAt(j)' = SheetAt(j)
        BY <1>4, <1>5, <1>6, <1>8, <2>2, <3>1 DEF SheetAt
      <3>3. Q[j - f + 1] = SheetAt(j)
        BY <1>7, <1>8 DEF IsSheets
      <3> QED
        BY <1>14, <3>1, <3>2, <3>3
    <2> QED
      BY <2>1, <2>2
  <1>16. Len(R) = l - f + 1
    BY <1>8, <1>14
  <1>17. Headed' = l /\ first' = f
    BY <1>4, <1>7, <1>8
  <1>18. IsSheets(K, R)'
    BY <1>14, <1>15, <1>16, <1>17 DEF IsSheets
  <1> QED
    BY <1>13, <1>18

\* Nothing happens to the sections.
LEMMA SheetsStay ==
  ASSUME NEW K, NEW Q, IsSheets(K, Q), UNCHANGED << stream, first, state, sec_bytes >>
  PROVE  IsSheets(K, Q)'
  BY DEF IsSheets, Headed, SheetAt, cur

\* Replacing the last section by itself.
LEMMA ReplacedSame ==
  ASSUME NEW K, NEW Q \in SheetsOf(K), Q # << >>
  PROVE  Replaced(Q, Q[Len(Q)][1], Q[Len(Q)][2]) = Q
  <1>1. PICK S, w : S = Seq(Entries(K)) \X Nat /\ w = Q[Len(Q)]
    OBVIOUS
  <1>2. Q \in Seq(S)
    BY <1>1 DEF SheetsOf
  <1>3. w \in S
    BY ONLY <1>1, <1>2, Q # << >>
  <1>4. w = << w[1], w[2] >>
    BY ONLY <1>1, <1>3
  <1>5. [Q EXCEPT ![Len(Q)] = w] = Q
    BY ONLY <1>1, <1>2
  <1> QED
    BY <1>1, <1>4, <1>5 DEF Replaced

\* A sequence of some is one of more.
LEMMA WiderSeq ==
  ASSUME NEW S, NEW T, S \subseteq T, NEW s \in Seq(S)
  PROVE  s \in Seq(T)
  <1>1. PICK n \in Nat : n = Len(s) /\ DOMAIN s = 1 .. n
    OBVIOUS
  <1>2. s \in [1 .. n -> T]
    <2>1. \A k \in 1 .. n : s[k] \in T
      BY <1>1
    <2>2. s = [k \in 1 .. n |-> s[k]]
      BY <1>1
    <2> QED
      BY <2>1, <2>2
  <1> QED
    BY <1>2, FunctionSeq

-----------------------------------------------------------------------------
(* What the sections are when the table says it is done.                   *)

\* Every place is carried, once and in order, and every section but the first
\* and those of B begins with what had no room.
AllCarried(E, B, Q) ==
  /\ \A a, b : IsPlace(E, a, b) =>
       \E i, k, e : Holds(Q, i, k, e) /\ IsThing(E, e) /\ a = e.owner /\ b = Nth(e)
  /\ \A i, k, e : Holds(Q, i, k, e) =>
       /\ IsThing(E, e) => IsPlace(E, e.owner, Nth(e))
       /\ e.kind \in {"item", "desc"} => e.owner \in DOMAIN E.D
       /\ e.kind = "item" /\ ~IsThing(E, e) =>
            \E f : Holds(Q, i, k + 2, f) /\ f.kind = "desc"
  /\ \A i, k, e, j, l, f :
       /\ Holds(Q, i, k, e) /\ IsThing(E, e) /\ Holds(Q, j, l, f) /\ IsThing(E, f)
       /\ i < j \/ (i = j /\ k < l)
       => Sooner(e.owner, Nth(e), f.owner, Nth(f))
  /\ \A i \in 2 .. Len(Q) : i \notin B => Begins(E, Q, i)

\* Every place is before the end.
LEMMA PlaceSooner ==
  ASSUME NEW E, PackArgs(E), NEW t, t = Len(E.D) + 1, NEW n, NEW a, NEW b, IsPlace(E, a, b)
  PROVE  Sooner(a, b, t, n)
  <1>1. Len(E.D) \in Nat /\ DOMAIN E.D = 1 .. Len(E.D)
    BY DEF PackArgs
  <1>2. a = 0 \/ a \in 1 .. Len(E.D)
    BY <1>1 DEF IsPlace
  <1>3. a < t
    BY <1>1, <1>2
  <1> QED
    BY <1>3 DEF Sooner

\* At the end every place is carried.
LEMMA AllPlaces ==
  ASSUME NEW E, NEW K, NEW B, NEW Q, NEW held, NEW t, NEW n,
         SheetInv(E, K, B, Q, "END", held, t, n)
  PROVE  \A a, b : IsPlace(E, a, b) =>
           \E i, k, e : Holds(Q, i, k, e) /\ IsThing(E, e) /\ a = e.owner /\ b = Nth(e)
  <1>1. Ordered(E, Q, t, n) /\ t = Len(E.D) + 1 /\ PackArgs(E)
    BY DEF SheetInv, DueOK
  <1>2. \A a, b : IsPlace(E, a, b) => Sooner(a, b, t, n)
    BY <1>1, PlaceSooner
  <1> QED
    BY <1>1, <1>2 DEF Ordered

\* An item that is done has its first descriptor in a section, and that has its header.
LEMMA EndRoomy ==
  ASSUME NEW E, NEW K, NEW B, NEW Q, NEW held, NEW t, NEW n,
         SheetInv(E, K, B, Q, "END", held, t, n),
         \A i \in 1 .. Len(Q) : Q[i][2] <= E.M
  PROVE  Roomy(E)
  <1>1. PackArgs(E) /\ Owned(Q, "END", held, t) /\ Heavy(E, Q) /\ SheetsOK(E, K, Q, "END")
    BY DEF SheetInv
  <1>2. SUFFICES ASSUME NEW i \in DOMAIN E.D, E.D[i] # << >>
                 PROVE  E.fresh + E.base + E.D[i][1] <= E.M
    BY DEF Roomy
  <1>3. /\ i \in Nat /\ 1 <= i /\ Past(E, i) \in Nat /\ 2 <= Past(E, i)
        /\ Len(E.D[i]) \in Nat /\ Len(E.D[i]) # 0 /\ E.D[i][1] \in Nat
    <2>1. /\ i \in Nat /\ 1 <= i /\ Past(E, i) \in Nat /\ 2 <= Past(E, i)
          /\ Len(E.D[i]) \in Nat /\ (E.D[i] = << >> <=> Len(E.D[i]) = 0)
          /\ \A k \in 1 .. Len(E.D[i]) : E.D[i][k] \in Nat
      BY <1>1, <1>2, ItemType
    <2> QED
      BY <1>2, <2>1
  <1>4. IsPlace(E, i, 1)
    BY <1>2, <1>3 DEF IsPlace
  <1>5. PICK j, k, e : Holds(Q, j, k, e) /\ IsThing(E, e) /\ i = e.owner /\ 1 = Nth(e)
    BY <1>4, AllPlaces
  <1>6. e.kind = "desc" /\ e.n = 1
    <2>1. e.kind = "item" => E.D[e.owner] = << >>
      BY <1>1, <1>5 DEF IsThing, PackArgs
    <2>2. e.kind # "item"
      BY <1>2, <1>5, <2>1
    <2>3. e.kind # "desc" => e.kind = E.kind
      BY <1>5, <2>2 DEF IsThing
    <2>4. e.kind \notin {"item", "desc", "desc_loop_len"} => e.owner = 0
      BY <1>1, <1>5 DEF Owned
    <2>5. e.kind = E.kind => e.owner = 0
      BY <1>1, <2>4 DEF PackArgs
    <2>6. e.kind = "desc"
      BY <1>3, <1>5, <2>3, <2>5
    <2> QED
      BY <1>5, <2>6 DEF Nth
  <1>7. E.fresh + E.base + E.D[e.owner][1] <= Q[j][2]
    BY <1>1, <1>5, <1>6 DEF Heavy
  <1>8. j \in 1 .. Len(Q)
    BY <1>5 DEF Holds
  <1>9. Q[j][2] <= E.M /\ Q[j][2] \in Nat
    BY <1>1, <1>8, SheetTypes DEF SheetsOK
  <1>10. E.fresh + E.base + E.D[i][1] <= Q[j][2]
    BY <1>5, <1>7
  <1>11. E.fresh \in Nat /\ E.base \in Nat /\ E.M \in Nat
    BY <1>1 DEF PackArgs
  <1> QED
    BY ONLY <1>3, <1>9, <1>10, <1>11

\* At the end the invariant says what the sections are.
LEMMA EndCarried ==
  ASSUME NEW E, NEW K, NEW B, NEW Q, NEW held, NEW t, NEW n,
         SheetInv(E, K, B, Q, "END", held, t, n),
         \A i \in 1 .. Len(Q) : Q[i][2] <= E.M
  PROVE  AllCarried(E, B, Q)
  <1>1. /\ PackArgs(E) /\ Owned(Q, "END", held, t) /\ Heavy(E, Q) /\ SheetsOK(E, K, Q, "END")
        /\ Ordered(E, Q, t, n) /\ DueOK(E, Q, "END", held, t, n) /\ t = Len(E.D) + 1
    BY DEF SheetInv, DueOK
  <1>2. Followed(E, Q, "END", held, n) /\ FullBefore(E, B, Q, "END", held, t, n)
    BY EndRoomy DEF SheetInv
  <1>3. \A i, k, e : Holds(Q, i, k, e) => (IsThing(E, e) => IsPlace(E, e.owner, Nth(e)))
    BY <1>1 DEF Ordered
  <1>4. ASSUME NEW i, NEW k, NEW e, Holds(Q, i, k, e), e.kind \in {"item", "desc"}
        PROVE  e.owner \in DOMAIN E.D
    <2>1. e.owner <= t /\ e.owner # 0 /\ (e.owner = t /\ t # 0 => held = "DESC")
      BY <1>1, <1>4 DEF Owned
    <2>2. held = "NONE" /\ t \in Nat /\ Len(E.D) \in Nat /\ DOMAIN E.D = 1 .. Len(E.D) /\ t # 0
      BY <1>1 DEF DueOK, PackArgs
    <2>3. e \in Entries(K)
      BY <1>1, <1>4, SheetTypes DEF SheetsOK, Holds
    <2>4. e.owner \in Nat
      BY <2>3 DEF Entries
    <2> QED
      BY <1>1, <2>1, <2>2, <2>4
  <1>5. ASSUME NEW i, NEW k, NEW e, Holds(Q, i, k, e), e.kind = "item", ~IsThing(E, e)
        PROVE  \E f : Holds(Q, i, k + 2, f) /\ f.kind = "desc"
    BY <1>2, <1>5 DEF Followed, Lonely
  <1>6. ASSUME NEW i \in 2 .. Len(Q), i \notin B
        PROVE  Begins(E, Q, i)
    BY <1>2, <1>6 DEF FullBefore, BeginsNext
  <1>7. \A i, k, e, j, l, f :
         /\ Holds(Q, i, k, e) /\ IsThing(E, e) /\ Holds(Q, j, l, f) /\ IsThing(E, f)
         /\ i < j \/ (i = j /\ k < l)
         => Sooner(e.owner, Nth(e), f.owner, Nth(f))
    BY <1>1 DEF Ordered
  <1> QED
    BY <1>3, <1>4, <1>5, <1>6, <1>7, AllPlaces DEF AllCarried
-----------------------------------------------------------------------------
(* The properties the tables state of their sections.                      *)

\* Section j of the stream is i of Q.
Nr(i, j) == i = j - first + 1

\* Both numbers count in the same order.
InStep ==
  \A i, j, l, m : j \in Table /\ l \in Table /\ Nr(i, j) /\ Nr(m, l) =>
    /\ (i < m <=> j < l) /\ (i = m <=> j = l)
    /\ (j # first => i - 1 \in Nat /\ Nr(i - 1, j - 1) /\ j - 1 \in Table /\ 2 <= i)

\* Q are the sections of the table, counted from 1.
Shows(Q) ==
  /\ \A j \in Table : \E i \in 1 .. Len(Q) : Nr(i, j)
  /\ \A i \in 1 .. Len(Q) : \E j \in Table : Nr(i, j)
  /\ \A i, j : j \in Table /\ Nr(i, j) =>
       /\ i \in 1 .. Len(Q)
       /\ Q[i][1] = stream[j].payload /\ Q[i][2] = stream[j].data_length - 3
       /\ \A k, e : Holds(Q, i, k, e) <=> k \in DOMAIN stream[j].payload /\ e = stream[j].payload[k]
  /\ InStep

\* They are when the table says it is done.
LEMMA ShowsAll ==
  ASSUME NEW K, NEW Q, IsSheets(K, Q), state = "END_TABLE",
         Len(stream) \in Nat, first \in Nat, 1 <= first, first <= Len(stream)
  PROVE  Shows(Q)
  <1>1. Headed = Len(stream)
    BY DEF Headed
  <1>2. PICK f, l, m : f = first /\ l = Len(stream) /\ m = Len(Q)
    OBVIOUS
  <1>3. f \in Nat /\ l \in Nat /\ 1 <= f /\ f <= l /\ m = l - f + 1
    BY <1>1, <1>2 DEF IsSheets
  <1>4. Table = f .. l
    BY <1>2 DEF Table
  <1>5. \A i, j : Nr(i, j) <=> i = j - f + 1
    BY <1>2 DEF Nr
  <1>6. \A j \in f .. l : \E i \in 1 .. m : i = j - f + 1
    BY ONLY <1>3
  <1>7. \A i \in 1 .. m : \E j \in f .. l : i = j - f + 1
    <2>1. ASSUME NEW i \in 1 .. m PROVE \E j \in f .. l : i = j - f + 1
      <3>1. i + f - 1 \in f .. l /\ i = (i + f - 1) - f + 1
        BY ONLY <1>3, <2>1
      <3> QED
        BY ONLY <3>1
    <2> QED
      BY <2>1
  <1>8. ASSUME NEW i, NEW j \in f .. l, i = j - f + 1
        PROVE  /\ i \in 1 .. m
               /\ Q[i][1] = stream[j].payload /\ Q[i][2] = stream[j].data_length - 3
               /\ \A k, e : Holds(Q, i, k, e)
                              <=> k \in DOMAIN stream[j].payload /\ e = stream[j].payload[k]
    <2>1. i \in 1 .. m
      BY ONLY <1>3, <1>8
    <2>2. Q[i] = SheetAt(j)
      BY <1>1, <1>2, <1>8 DEF IsSheets
    <2>3. SheetAt(j)[1] = stream[j].payload /\ SheetAt(j)[2] = stream[j].data_length - 3
      BY DEF SheetAt
    <2>4. Q[i][1] = stream[j].payload /\ Q[i][2] = stream[j].data_length - 3
      BY <2>2, <2>3
    <2>5. Q \in SheetsOf(K)
      BY DEF IsSheets
    <2>6. Q[i][1] \in Seq(Entries(K))
      BY <1>2, <2>1, <2>5, SheetTypes
    <2>7. DOMAIN Q[i][1] = 1 .. Len(Q[i][1])
      BY <2>6
    <2> QED
      BY <1>2, <2>1, <2>4, <2>7 DEF Holds
  <1>9. ASSUME NEW i, NEW j \in f .. l, i = j - f + 1, NEW n \in f .. l, NEW h, h = n - f + 1
        PROVE  /\ (i < h <=> j < n) /\ (i = h <=> j = n)
               /\ j # f => i - 1 \in Nat /\ i - 1 = j - 1 - f + 1 /\ j - 1 \in f .. l /\ 2 <= i
    BY ONLY <1>3, <1>9
  <1>10. \A j \in Table : \E i \in 1 .. Len(Q) : Nr(i, j)
    BY ONLY <1>2, <1>4, <1>5, <1>6
  <1>11. \A i \in 1 .. Len(Q) : \E j \in Table : Nr(i, j)
    BY ONLY <1>2, <1>4, <1>5, <1>7
  <1>12. ASSUME NEW i, NEW j, j \in Table, Nr(i, j)
         PROVE  /\ i \in 1 .. Len(Q)
                /\ Q[i][1] = stream[j].payload /\ Q[i][2] = stream[j].data_length - 3
                /\ \A k, e : Holds(Q, i, k, e)
                               <=> k \in DOMAIN stream[j].payload /\ e = stream[j].payload[k]
    BY <1>2, <1>4, <1>5, <1>8, <1>12
  <1>13. ASSUME NEW i, NEW j, NEW n, NEW h, j \in Table, n \in Table, Nr(i, j), Nr(h, n)
         PROVE  /\ (i < h <=> j < n) /\ (i = h <=> j = n)
                /\ (j # first => i - 1 \in Nat /\ Nr(i - 1, j - 1) /\ j - 1 \in Table /\ 2 <= i)
    <2>1. /\ j \in f .. l /\ n \in f .. l /\ i = j - f + 1 /\ h = n - f + 1
      BY <1>4, <1>5, <1>13
    <2>2. /\ (i < h <=> j < n) /\ (i = h <=> j = n)
          /\ j # f => i - 1 \in Nat /\ i - 1 = j - 1 - f + 1 /\ j - 1 \in f .. l /\ 2 <= i
      BY ONLY <1>9, <2>1
    <2> QED
      BY <1>2, <1>4, <1>5, <2>2
  <1> QED
    BY ONLY <1>10, <1>11, <1>12, <1>13 DEF Shows, InStep

\* What the application put in is told alike.
LEMMA ThingsCarry ==
  ASSUME ExtInv, NEW E, E.D = Descriptors, NEW e,
         e.kind \in {"item", "desc"} => e.owner \in DOMAIN E.D
  PROVE  /\ Carries(e, E.kind) <=> IsThing(E, e)
         /\ Place(e)[1] = e.owner /\ Place(e)[2] = Nth(e)
  <1>1. DOMAIN E.D = DOMAIN items /\ \A i \in DOMAIN items : E.D[i] = items[i].descriptors
    BY DescriptorsType
  <1>2. e.kind = "item" => E.D[e.owner] = items[e.owner].descriptors
    BY <1>1
  <1> QED
    BY <1>2 DEF Carries, IsThing, Place, Nth

\* A place is one of the table's.
LEMMA PlacesAre ==
  ASSUME ExtInv, NEW E, PackArgs(E), E.D = Descriptors
  PROVE  /\ \A place \in Places(E.set) : IsPlace(E, place[1], place[2])
         /\ \A e : IsPlace(E, e.owner, Nth(e)) => Place(e) \in Places(E.set)
  <1>1. DOMAIN E.D = DOMAIN items /\ \A i \in DOMAIN items : E.D[i] = items[i].descriptors
    BY DescriptorsType
  <1>2. PICK of : of = [i \in DOMAIN items |-> IF items[i].descriptors = << >> THEN {1}
                                              ELSE DOMAIN items[i].descriptors]
    OBVIOUS
  <1>3. Places(E.set) = ({0} \X E.set) \cup UNION {{i} \X of[i] : i \in DOMAIN items}
    BY <1>2 DEF Places
  <1>4. ASSUME NEW i \in DOMAIN items, NEW b
        PROVE  b \in of[i] <=> b \in Nat /\ 1 <= b /\ b < Past(E, i)
    <2>1. /\ Len(E.D[i]) \in Nat /\ (E.D[i] = << >> <=> Len(E.D[i]) = 0)
          /\ (E.D[i] # << >> => Past(E, i) = Len(E.D[i]) + 1)
          /\ (E.D[i] = << >> => Past(E, i) = 2)
      BY <1>1, ItemType
    <2>2. DOMAIN E.D[i] = 1 .. Len(E.D[i])
      <3>1. E.D[i] \in Seq(Nat)
        BY <1>1 DEF PackArgs
      <3> QED
        BY <3>1
    <2>3. of[i] = IF E.D[i] = << >> THEN {1} ELSE 1 .. Len(E.D[i])
      BY <1>1, <1>2, <2>2
    <2>4. CASE E.D[i] = << >>
      BY <2>1, <2>3, <2>4
    <2>5. CASE E.D[i] # << >>
      BY <2>1, <2>3, <2>5
    <2> QED
      BY <2>4, <2>5
  <1>5. ASSUME NEW place \in Places(E.set)
        PROVE  IsPlace(E, place[1], place[2])
    <2>1. CASE place \in {0} \X E.set
      BY <2>1 DEF IsPlace
    <2>2. CASE place \in UNION {{i} \X of[i] : i \in DOMAIN items}
      <3>1. PICK i \in DOMAIN items : place \in {i} \X of[i]
        BY <2>2
      <3>2. place[1] = i /\ place[2] \in of[i]
        BY <3>1
      <3> QED
        BY <1>1, <1>4, <3>2 DEF IsPlace
    <2> QED
      BY <1>3, <1>5, <2>1, <2>2
  <1>6. ASSUME NEW e, IsPlace(E, e.owner, Nth(e))
        PROVE  Place(e) \in Places(E.set)
    <2>1. PICK a, b : a = e.owner /\ b = Nth(e) /\ Place(e) = << a, b >>
      BY DEF Place, Nth
    <2>2. IsPlace(E, a, b)
      BY <1>6, <2>1
    <2>3. CASE a = 0 /\ b \in E.set
      BY <1>3, <2>1, <2>3
    <2>4. CASE a \in DOMAIN items /\ b \in of[a]
      <3>1. << a, b >> \in {a} \X of[a]
        BY <2>4
      <3> QED
        BY <1>3, <2>1, <2>4, <3>1
    <2> QED
      BY <1>1, <1>4, <2>2, <2>3, <2>4 DEF IsPlace
  <1> QED
    BY <1>5, <1>6

\* What the entries of the stream are, by what Q holds.
LEMMA EntryFacts ==
  ASSUME ExtInv, NEW E, E.D = Descriptors, NEW B, NEW Q, AllCarried(E, B, Q), Shows(Q),
         NEW i, NEW j \in Table, Nr(i, j), NEW k \in DOMAIN stream[j].payload,
         NEW e, e = stream[j].payload[k]
  PROVE  /\ Holds(Q, i, k, e)
         /\ Carries(e, E.kind) <=> IsThing(E, e)
         /\ Place(e)[1] = e.owner /\ Place(e)[2] = Nth(e)
         /\ e.kind \in {"item", "desc"} => e.owner \in DOMAIN E.D
  <1>1. Holds(Q, i, k, e)
    BY DEF Shows, InStep
  <1>2. e.kind \in {"item", "desc"} => e.owner \in DOMAIN E.D
    BY <1>1 DEF AllCarried
  <1> QED
    BY <1>1, <1>2, ThingsCarry

\* A place of the table is in a section of it.
LEMMA OneCarried ==
  ASSUME ExtInv, NEW E, PackArgs(E), E.D = Descriptors, NEW B, NEW Q, AllCarried(E, B, Q),
         Shows(Q), NEW place \in Places(E.set)
  PROVE  \E j \in Table : \E k \in DOMAIN stream[j].payload :
           /\ Carries(stream[j].payload[k], E.kind)
           /\ Place(stream[j].payload[k]) = place
  <1>1. IsPlace(E, place[1], place[2])
    BY PlacesAre
  <1>2. PICK i, k, e : Holds(Q, i, k, e) /\ IsThing(E, e)
                       /\ place[1] = e.owner /\ place[2] = Nth(e)
    BY <1>1 DEF AllCarried
  <1>3. i \in 1 .. Len(Q)
    BY <1>2 DEF Holds
  <1>4. PICK j \in Table : Nr(i, j)
    BY <1>3 DEF Shows, InStep
  <1>5. k \in DOMAIN stream[j].payload /\ e = stream[j].payload[k]
    BY <1>2, <1>4 DEF Shows, InStep
  <1>6. Carries(e, E.kind)
    BY <1>2, <1>4, <1>5, EntryFacts
  <1>7. Place(e) = place
    <2>1. Place(e) = << place[1], place[2] >>
      BY <1>2 DEF Place, Nth
    <2>2. \E b, c : place = << b, c >>
      BY DEF Places
    <2> QED
      BY <2>1, <2>2
  <1> QED
    BY <1>5, <1>6, <1>7

\* What the sections carry is in order.
LEMMA CarriedOrdered ==
  ASSUME ExtInv, NEW E, PackArgs(E), E.D = Descriptors, NEW B, NEW Q, AllCarried(E, B, Q),
         Shows(Q)
  PROVE  CarriedInOrder(E.kind, E.set)
  <1>1. ASSUME NEW j \in Table, NEW k \in DOMAIN stream[j].payload,
               NEW e, e = stream[j].payload[k]
        PROVE  /\ Carries(e, E.kind) => Place(e) \in Places(E.set)
               /\ \A m \in Table : \A l \in DOMAIN stream[m].payload :
                    /\ j < m \/ (j = m /\ k < l)
                    /\ Carries(e, E.kind) /\ Carries(stream[m].payload[l], E.kind)
                    => Earlier(Place(e), Place(stream[m].payload[l]))
               /\ e.kind = "item" /\ ~Carries(e, E.kind) =>
                    /\ k + 2 <= Len(stream[j].payload)
                    /\ stream[j].payload[k + 2].kind = "desc"
    <2>1. PICK i \in 1 .. Len(Q) : Nr(i, j)
      BY DEF Shows, InStep
    <2>2. /\ Holds(Q, i, k, e) /\ (Carries(e, E.kind) <=> IsThing(E, e))
          /\ Place(e)[1] = e.owner /\ Place(e)[2] = Nth(e)
      BY <1>1, <2>1, EntryFacts
    <2>3. Carries(e, E.kind) => Place(e) \in Places(E.set)
      BY <2>2, PlacesAre DEF AllCarried
    <2>4. ASSUME NEW m \in Table, NEW l \in DOMAIN stream[m].payload,
                 NEW f, f = stream[m].payload[l], j < m \/ (j = m /\ k < l),
                 Carries(e, E.kind), Carries(f, E.kind)
          PROVE  Earlier(Place(e), Place(f))
      <3>1. PICK h \in 1 .. Len(Q) : Nr(h, m)
        BY DEF Shows, InStep
      <3>2. /\ Holds(Q, h, l, f) /\ (Carries(f, E.kind) <=> IsThing(E, f))
            /\ Place(f)[1] = f.owner /\ Place(f)[2] = Nth(f)
        BY <2>4, <3>1, EntryFacts
      <3>3. (i < h <=> j < m) /\ (i = h <=> j = m)
        <4>1. InStep
          BY ONLY Shows(Q) DEF Shows
        <4> QED
          BY ONLY m \in Table, j \in Table, <2>1, <3>1, <4>1 DEF InStep
      <3>4. i < h \/ (i = h /\ k < l)
        BY ONLY <2>4, <3>3
      <3>5. Sooner(e.owner, Nth(e), f.owner, Nth(f))
        BY <2>2, <2>4, <3>2, <3>4 DEF AllCarried
      <3> QED
        BY <2>2, <3>2, <3>5 DEF Sooner, Earlier
    <2>5. ASSUME e.kind = "item", ~Carries(e, E.kind)
          PROVE  /\ k + 2 <= Len(stream[j].payload)
                 /\ stream[j].payload[k + 2].kind = "desc"
      <3>1. PICK f : Holds(Q, i, k + 2, f) /\ f.kind = "desc"
        BY <2>2, <2>5 DEF AllCarried
      <3>2. k + 2 \in 1 .. Len(Q[i][1]) /\ f = Q[i][1][k + 2]
        BY <3>1 DEF Holds
      <3>3. Q[i][1] = stream[j].payload
        BY <2>1 DEF Shows, InStep
      <3> QED
        BY <3>1, <3>2, <3>3
    <2> QED
      BY <2>3, <2>4, <2>5
  <1>2. \A place \in Places(E.set) :
          \E j \in Table : \E k \in DOMAIN stream[j].payload :
            /\ Carries(stream[j].payload[k], E.kind)
            /\ Place(stream[j].payload[k]) = place
    BY OneCarried
  <1> QED
    BY <1>1, <1>2 DEF CarriedInOrder

\* The bytes something would have taken.
LEMMA TakesAre ==
  ASSUME ExtInv, NEW E, E.D = Descriptors, NEW last, NEW e,
         e.kind = "desc" => e.owner \in DOMAIN E.D
  PROVE  Takes(E, last, e) = Needed(last, e, E.base, E.own)
  <1>1. DOMAIN E.D = DOMAIN items /\ \A i \in DOMAIN items : E.D[i] = items[i].descriptors
    BY DescriptorsType
  <1>2. e.kind = "desc" => E.D[e.owner][e.n] = items[e.owner].descriptors[e.n]
    BY <1>1
  <1>3. CASE e.kind = "item"
    BY <1>3 DEF Takes, Needed
  <1>4. CASE e.kind = "desc"
    BY <1>2, <1>4 DEF Takes, Needed
  <1>5. CASE e.kind # "item" /\ e.kind # "desc"
    BY <1>5 DEF Takes, Needed
  <1> QED
    BY <1>3, <1>4, <1>5

\* A section begins with what had no room.
LEMMA StartedFull ==
  ASSUME ExtInv, NEW E, PackArgs(E), E.M = getMaxDataLen, E.D = Descriptors,
         NEW B, NEW Q, AllCarried(E, B, Q), Shows(Q), NEW j \in Table, j # first,
         NEW i, Nr(i, j), i \notin B
  PROVE  StartsFull(j, E.kind, E.base, E.own)
  <1>1. i \in 2 .. Len(Q) /\ Nr(i - 1, j - 1) /\ j - 1 \in Table
    <2>1. i \in 1 .. Len(Q) /\ 2 <= i /\ Nr(i - 1, j - 1) /\ j - 1 \in Table
      BY DEF Shows, InStep
    <2> QED
      BY <2>1
  <1>2. PICK k, e : /\ Holds(Q, i, k, e) /\ IsThing(E, e)
                    /\ \A l, f : Holds(Q, i, l, f) /\ l < k => ~IsThing(E, f)
                    /\ Q[i - 1][2] + Takes(E, LastIn(Q, i - 1), e) > E.M
    BY <1>1 DEF AllCarried, Begins
  <1>3. k \in DOMAIN stream[j].payload /\ e = stream[j].payload[k]
    BY <1>2 DEF Shows, InStep
  <1>4. Carries(e, E.kind) /\ (e.kind \in {"item", "desc"} => e.owner \in DOMAIN E.D)
    BY <1>2, <1>3, EntryFacts
  <1>5. ASSUME NEW l \in 1 .. k - 1 PROVE ~Carries(stream[j].payload[l], E.kind)
    <2>1. Q[i][1] = stream[j].payload /\ k \in 1 .. Len(Q[i][1]) /\ i \in 1 .. Len(Q)
      BY <1>2 DEF Shows, InStep, Holds
    <2>2. l \in 1 .. Len(Q[i][1]) /\ l < k
      BY <2>1
    <2>3. PICK f : f = stream[j].payload[l]
      OBVIOUS
    <2>4. Holds(Q, i, l, f)
      BY <2>1, <2>2, <2>3 DEF Holds
    <2>5. ~IsThing(E, f)
      BY <1>2, <2>2, <2>4
    <2>6. l \in DOMAIN stream[j].payload
      BY <2>4 DEF Shows, InStep
    <2> QED
      BY <2>3, <2>5, <2>6, EntryFacts
  <1>6. /\ Q[i - 1][1] = stream[j - 1].payload
        /\ Q[i - 1][2] = stream[j - 1].data_length - 3
    BY <1>1 DEF Shows, InStep
  <1>7. PICK last : last = LastIn(Q, i - 1)
                    /\ last = stream[j - 1].payload[Len(stream[j - 1].payload)]
    BY <1>6 DEF LastIn
  <1>8. Takes(E, last, e) = Needed(last, e, E.base, E.own)
    BY <1>4, TakesAre
  <1>9. stream[j - 1].data_length - 3 + Needed(last, e, E.base, E.own) > getMaxDataLen
    BY <1>2, <1>6, <1>7, <1>8
  <1> QED
    BY <1>3, <1>4, <1>5, <1>7, <1>9 DEF StartsFull
-----------------------------------------------------------------------------
(* ListItem::write_section as a part of that: r is the item's context and  *)
(* len how many descriptors it has.                                        *)

\* The item has been fetched, or left with a descriptor pending.
ItemHeld(r, held, n) ==
  \/ r.op_state = "INIT" /\ held = "ITEM" /\ n = 1
  \/ r.op_state = "WRITE_HEAD" /\ held = "DESC" /\ n = r.d

\* It is being written.
ItemBegun(r, len, held, n) ==
  \/ /\ r.op_state = "GET_DESC" /\ held = "NONE"
     /\ n = IF len = 0 THEN 2 ELSE r.d + 1
  \/ r.op_state = "WRITE_DESC" /\ held = "DESC" /\ n = r.d

\* Its iterator is one ahead.
NextOK(r, len) ==
  /\ r.op_state # "INIT" => r.d_iter = Iter(r.d + 1, len)
  /\ r.op_state = "WRITE_HEAD" => r.d # 0

\* It goes on so.
GoesOn(E, K, B, Q, t, r, len) ==
  /\ NextOK(r, len)
  /\ \E held, n : SheetInv(E, K, B, Q, "IN", held, t, n) /\ ItemBegun(r, len, held, n)

\* An item's context once its header is written, once a descriptor of it is, and
\* once the next is fetched.
HeadRun(r, len) ==
  [op_state |-> IF r.d = 0 THEN "GET_DESC" ELSE "WRITE_DESC", d |-> r.d,
   d_iter |-> IF r.op_state = "INIT" THEN Iter(1, len) ELSE r.d_iter]

WroteRun(r) == [op_state |-> "GET_DESC", d |-> r.d, d_iter |-> r.d_iter]

FetchRun(r, len, op_state) ==
  [op_state |-> op_state, d |-> r.d_iter, d_iter |-> Iter(r.d_iter + 1, len)]

\* The header is written.
LEMMA ItemHeadPack ==
  ASSUME NEW E, NEW K, ItemKinds \subseteq K, NEW B, NEW Q, NEW held, NEW t, NEW n,
         SheetInv(E, K, B, Q, "TOP", held, t, n), t \in DOMAIN E.D,
         NEW len, len = Len(E.D[t]), NEW r, RunOK(r, len), NextOK(r, len),
         ItemHeld(r, held, n), NEW header \in ui16,
         NEW m, m = Len(Q), NEW b, b = Q[m][2] + E.base,
         NEW R, R = Replaced(Q, PutItem(Q[m][1], t, header), b),
         NEW q, q = HeadRun(r, len)
  PROVE  /\ NextOK(q, len)
         /\ \E held2, n2 : SheetInv(E, K, B, R, "IN", held2, t, n2) /\ ItemBegun(q, len, held2, n2)
  <1>1. PackArgs(E) /\ t \in Nat
    BY DueType
  <1>2. len \in Nat /\ (E.D[t] = << >> <=> len = 0)
    BY <1>1, ItemType
  <1>3. /\ r.d \in 0 .. len /\ r.d_iter \in 0 .. len /\ (r.op_state = "INIT" => r.d = 0)
        /\ r.op_state \in {"INIT", "WRITE_HEAD"} /\ (r.op_state = "WRITE_HEAD" => r.d # 0)
        /\ held # "NONE"
    BY DEF RunOK, NextOK, ItemHeld
  <1>4. /\ q.op_state = (IF r.d = 0 THEN "GET_DESC" ELSE "WRITE_DESC") /\ q.d = r.d
        /\ q.d_iter = IF r.op_state = "INIT" THEN Iter(1, len) ELSE r.d_iter
    BY DEF HeadRun
  <1>5. NextOK(q, len)
    <2>1. r.op_state = "INIT" => r.d + 1 = 1
      BY <1>3
    <2>2. r.op_state = "WRITE_HEAD" => r.d_iter = Iter(r.d + 1, len)
      BY DEF NextOK
    <2> QED
      BY <1>3, <1>4, <2>1, <2>2 DEF NextOK
  <1>6. PICK x, y : x = Entry("item", t, header) /\ y = Entry("desc_loop_len", t, 0)
    OBVIOUS
  <1>7. /\ x \in Entries(K) /\ x.owner = t /\ x.kind = "item"
        /\ y \in Entries(K) /\ y.owner = t /\ y.kind = "desc_loop_len"
    BY <1>1, <1>6, ItemEntry, Ui16 DEF ItemKinds
  <1>8. R = Replaced(Q, Append(Append(Q[m][1], x), y), b)
    BY <1>6 DEF PutItem
  <1>9. CASE len = 0
    <2>1. SheetInv(E, K, B, R, "IN", "NONE", t, 2)
      BY <1>2, <1>3, <1>7, <1>8, <1>9, LoneHeadPack
    <2>2. r.d = 0
      BY <1>3, <1>9
    <2>3. ItemBegun(q, len, "NONE", 2)
      BY <1>4, <1>9, <2>2 DEF ItemBegun
    <2> QED
      BY <1>5, <2>1, <2>3
  <1>10. CASE len # 0
    <2>1. PICK held2 : held2 = IF held = "ITEM" THEN "NONE" ELSE "DESC"
      OBVIOUS
    <2>2. SheetInv(E, K, B, R, "IN", held2, t, n)
      BY <1>2, <1>3, <1>7, <1>8, <1>10, <2>1, HeadPack
    <2>3. ItemBegun(q, len, held2, n)
      <3>1. CASE r.op_state = "INIT"
        <4>1. r.d = 0 /\ held = "ITEM" /\ n = 1 /\ 0 + 1 = 1
          BY <1>3, <3>1 DEF ItemHeld
        <4> QED
          BY <1>4, <1>10, <2>1, <4>1 DEF ItemBegun
      <3>2. CASE r.op_state = "WRITE_HEAD"
        <4>1. r.d # 0 /\ held = "DESC" /\ n = r.d
          BY <1>3, <3>2 DEF ItemHeld
        <4> QED
          BY <1>4, <2>1, <4>1 DEF ItemBegun
      <3> QED
        BY <1>3, <3>1, <3>2
    <2> QED
      BY <1>5, <2>2, <2>3
  <1> QED
    BY <1>9, <1>10

\* A descriptor is written.
LEMMA ItemDescPack ==
  ASSUME NEW E, NEW K, ItemKinds \subseteq K, NEW B, NEW Q, NEW held, NEW t, NEW n,
         SheetInv(E, K, B, Q, "IN", held, t, n), t \in DOMAIN E.D,
         NEW len, len = Len(E.D[t]), NEW r, RunOK(r, len), NextOK(r, len),
         ItemBegun(r, len, held, n), r.op_state = "WRITE_DESC",
         NEW k \in ui16, k = r.d, NEW d, d = E.D[t][k], NEW x, x = Entry("desc", t, k),
         NEW m, m = Len(Q), NEW b, b = Q[m][2] + d,
         NEW R, R = Replaced(Q, Append(Q[m][1], x), b),
         NEW q, q = WroteRun(r)
  PROVE  GoesOn(E, K, B, R, t, q, len)
  <1>1. PackArgs(E) /\ t \in Nat
    BY DueType
  <1>2. len \in Nat /\ r.d \in 0 .. len /\ r.d # 0 /\ n = r.d /\ held = "DESC"
    BY <1>1, ItemType DEF RunOK, ItemBegun
  <1>3. x \in Entries(K) /\ x.owner = t /\ x.kind = "desc" /\ x.n = n
    BY <1>1, <1>2, ItemEntry DEF ItemKinds
  <1>4. b = Q[m][2] + E.D[t][n] /\ R = Replaced(Q, Append(Q[m][1], x), b)
    BY <1>2
  <1>5. SheetInv(E, K, B, Q, "IN", "DESC", t, n)
    BY <1>2
  <1>6. SheetInv(E, K, B, R, "IN", "NONE", t, n + 1)
    BY <1>3, <1>4, <1>5, PutDescPack
  <1>7. q.op_state = "GET_DESC" /\ q.d = n /\ q.d_iter = r.d_iter /\ len # 0
    BY <1>2 DEF WroteRun
  <1>8. ItemBegun(q, len, "NONE", n + 1)
    BY <1>7 DEF ItemBegun
  <1>9. NextOK(q, len)
    BY <1>2, <1>7 DEF NextOK
  <1> QED
    BY <1>6, <1>8, <1>9 DEF GoesOn

\* Where it is with the iterator.
LEMMA IterAt ==
  ASSUME NEW len \in Nat, NEW r, RunOK(r, len), NextOK(r, len), NEW held, NEW n,
         ItemBegun(r, len, held, n), r.op_state = "GET_DESC"
  PROVE  /\ held = "NONE" /\ r.d \in Nat
         /\ IF r.d_iter = 0 THEN n = IF len = 0 THEN 2 ELSE len + 1
            ELSE n = r.d_iter /\ n \in 1 .. len
  <1>1. /\ r.d \in 0 .. len /\ r.d_iter \in 0 .. len /\ held = "NONE"
        /\ n = (IF len = 0 THEN 2 ELSE r.d + 1)
        /\ r.d_iter = IF r.d + 1 > len THEN 0 ELSE r.d + 1
    BY DEF RunOK, NextOK, ItemBegun, Iter
  <1>2. PICK d, i : d = r.d /\ i = r.d_iter
    OBVIOUS
  <1>3. /\ d \in 0 .. len /\ i \in 0 .. len
        /\ n = (IF len = 0 THEN 2 ELSE d + 1)
        /\ i = IF d + 1 > len THEN 0 ELSE d + 1
    BY <1>1, <1>2
  <1>4. IF i = 0 THEN n = IF len = 0 THEN 2 ELSE len + 1 ELSE n = i /\ n \in 1 .. len
    BY ONLY <1>3, len \in Nat
  <1> QED
    BY <1>1, <1>2, <1>4

\* The next descriptor is fetched.
LEMMA ItemFitsPack ==
  ASSUME NEW E, NEW K, NEW B, NEW Q, NEW held, NEW t, NEW n,
         SheetInv(E, K, B, Q, "IN", held, t, n), t \in DOMAIN E.D,
         NEW len, len = Len(E.D[t]), NEW r, RunOK(r, len), NextOK(r, len),
         ItemBegun(r, len, held, n), r.op_state = "GET_DESC", r.d_iter # 0,
         NEW q, q = FetchRun(r, len, "WRITE_DESC")
  PROVE  /\ NextOK(q, len)
         /\ \E held2, n2 : SheetInv(E, K, B, Q, "IN", held2, t, n2) /\ ItemBegun(q, len, held2, n2)
  <1>1. PackArgs(E)
    BY DueType
  <1>2. len \in Nat
    BY <1>1, ItemType
  <1>3. held = "NONE" /\ n = r.d_iter /\ n \in 1 .. len
    BY <1>2, IterAt
  <1>4. SheetInv(E, K, B, Q, "IN", "NONE", t, n) /\ n <= Len(E.D[t])
    BY <1>2, <1>3
  <1>5. SheetInv(E, K, B, Q, "IN", "DESC", t, n)
    BY <1>4, FetchDescPack
  <1>6. q.op_state = "WRITE_DESC" /\ q.d = n /\ q.d_iter = Iter(n + 1, len)
    BY <1>3 DEF FetchRun
  <1> QED
    BY <1>5, <1>6 DEF ItemBegun, NextOK

\* It had no room: the item is left with it.
LEMMA ItemFullPack ==
  ASSUME NEW E, NEW K, NEW B, NEW Q, NEW held, NEW t, NEW n,
         SheetInv(E, K, B, Q, "IN", held, t, n), t \in DOMAIN E.D,
         NEW len, len = Len(E.D[t]), NEW r, RunOK(r, len), NextOK(r, len),
         ItemBegun(r, len, held, n), r.op_state = "GET_DESC", r.d_iter # 0,
         Q[Len(Q)][2] + E.D[t][r.d_iter] > E.M,
         NEW q, q = FetchRun(r, len, "WRITE_HEAD")
  PROVE  /\ NextOK(q, len)
         /\ \E held2, n2 : SheetInv(E, K, B, Q, "OUT", held2, t, n2) /\ ItemHeld(q, held2, n2)
  <1>1. PackArgs(E)
    BY DueType
  <1>2. len \in Nat
    BY <1>1, ItemType
  <1>3. held = "NONE" /\ n = r.d_iter /\ n \in 1 .. len
    BY <1>2, IterAt
  <1>4. SheetInv(E, K, B, Q, "IN", "NONE", t, n) /\ n <= Len(E.D[t])
    BY <1>2, <1>3
  <1>5. Q[Len(Q)][2] + E.D[t][n] > E.M
    BY <1>3
  <1>6. SheetInv(E, K, B, Q, "OUT", "DESC", t, n)
    BY <1>4, <1>5, FullDescPack
  <1>7. q.op_state = "WRITE_HEAD" /\ q.d = n /\ q.d_iter = Iter(n + 1, len) /\ n # 0
    BY <1>3 DEF FetchRun
  <1> QED
    BY <1>6, <1>7 DEF ItemHeld, NextOK

\* It is done.
LEMMA ItemEndPack ==
  ASSUME NEW E, NEW K, NEW B, NEW Q, NEW held, NEW t, NEW n,
         SheetInv(E, K, B, Q, "IN", held, t, n), t \in DOMAIN E.D,
         NEW len, len = Len(E.D[t]), NEW r, RunOK(r, len), NextOK(r, len),
         ItemBegun(r, len, held, n), r.op_state = "GET_DESC", r.d_iter = 0
  PROVE  SheetInv(E, K, B, Q, "TOP", "NONE", t + 1, 1)
  <1>1. PackArgs(E)
    BY DueType
  <1>2. /\ len \in Nat /\ (E.D[t] = << >> <=> len = 0)
        /\ (E.D[t] # << >> => Past(E, t) = len + 1) /\ (E.D[t] = << >> => Past(E, t) = 2)
    BY <1>1, ItemType
  <1>3. held = "NONE" /\ n = IF len = 0 THEN 2 ELSE len + 1
    BY <1>2, IterAt
  <1>4. n = Past(E, t)
    BY <1>2, <1>3
  <1> QED
    BY <1>3, <1>4, ItemDonePack

\* A payload with a loop's word put in.
WithWord(p, l, w) == [p EXCEPT ![l].n = w]

\* The item's loop gets its length.
LEMMA LoopPack ==
  ASSUME NEW E, NEW K, NEW B, NEW Q, NEW ph, NEW held, NEW t, NEW n,
         SheetInv(E, K, B, Q, ph, held, t, n), Q # << >>,
         NEW m, m = Len(Q), NEW z, z = Q[m][1],
         NEW l \in 1 .. Len(z), z[l].kind = "desc_loop_len",
         NEW w, NEW p \in Seq(Entries(K)), p = WithWord(z, l, w),
         NEW b, b = Q[m][2], NEW R, R = Replaced(Q, p, b)
  PROVE  SheetInv(E, K, B, R, ph, held, t, n)
  <1>1. Q \in SheetsOf(K) /\ PackArgs(E)
    BY DueType
  <1>2. z \in Seq(Entries(K)) /\ Len(z) \in Nat
    BY <1>1, SheetTypes
  <1>3. p = [z EXCEPT ![l].n = w]
    BY DEF WithWord
  <1>4. p \in Seq(Entries(K)) /\ Len(p) = Len(z)
    <2>1. DOMAIN p = DOMAIN z
      BY <1>3
    <2> QED
      BY <1>2, <2>1
  <1>5. ASSUME NEW k \in 1 .. Len(z) PROVE Same(E.kind, z[k], p[k])
    <2>1. /\ p[k].kind = z[k].kind /\ p[k].owner = z[k].owner
          /\ p[k].n = IF k = l THEN w ELSE z[k].n
      BY <1>2, <1>3, PatchOne
    <2>2. z[k] \in Entries(K) /\ p[k] \in Entries(K)
      BY <1>2, <1>4
    <2>3. k # l => p[k] = z[k]
      BY <1>2, <1>3
    <2>4. z[l].kind = "desc_loop_len"
      OBVIOUS
    <2> QED
      BY <1>1, <2>1, <2>3, <2>4 DEF Same, Alike, PackArgs
  <1>6. R \in SheetsOf(K) /\ Patched(E.kind, Q, R)
    BY <1>1, <1>2, <1>4, <1>5, PatchHolds
  <1> QED
    BY <1>6, PatchPack
-----------------------------------------------------------------------------
(* The items' contexts: only that of w, if it is an item, is not the first *)
(* one.                                                                    *)
ItemsAt(w) ==
  \A i \in DOMAIN items : /\ NextOK(items[i].run, Len(items[i].descriptors))
                          /\ i # w => items[i].run.op_state = "INIT"

\* The items stay as they are.
LEMMA ItemsAtSame ==
  ASSUME NEW w, ItemsAt(w), items' = items
  PROVE  ItemsAt(w)'
  BY DEF ItemsAt

\* All items wait.
LEMMA ItemsAtAny ==
  ASSUME ExtInv, NEW w, ItemsAt(w), w \in DOMAIN items => items[w].run.op_state = "INIT", NEW x
  PROVE  ItemsAt(x)
  BY DEF ItemsAt

\* One item goes on.
LEMMA ItemsAtRun ==
  ASSUME ExtInv, NEW i \in DOMAIN items, ItemsAt(i), OnlyRun(i),
         NEW len, len = Len(items[i].descriptors), NEW r, r = items'[i].run, NextOK(r, len)
  PROVE  ItemsAt(i)'
  <1>1. DOMAIN items' = DOMAIN items
    BY DEF OnlyRun, ExtInv
  <1>2. ASSUME NEW j \in DOMAIN items
        PROVE  /\ NextOK(items'[j].run, Len(items'[j].descriptors))
               /\ j # i => items'[j].run.op_state = "INIT"
    <2>1. CASE j = i
      <3>1. items'[i].descriptors = items[i].descriptors
        BY DEF OnlyRun
      <3> QED
        BY <2>1, <3>1
    <2>2. CASE j # i
      <3>1. items'[j] = items[j]
        BY <2>2 DEF OnlyRun
      <3> QED
        BY <2>2, <3>1 DEF ItemsAt
    <2> QED
      BY <2>1, <2>2
  <1> QED
    BY <1>1, <1>2 DEF ItemsAt

\* An item is added.
LEMMA ItemsAtAdd ==
  ASSUME ExtInv, ItemsAt(0), items' \in Seq([id : ui16, descriptors : Seq(DescLength), run : Runs]),
         Len(items') = Len(items) + 1, \A j \in DOMAIN items : items'[j] = items[j],
         items'[Len(items) + 1].run = ItemContext
  PROVE  ItemsAt(0)'
  <1>1. PICK n \in Nat : n = Len(items) /\ DOMAIN items = 1 .. n /\ DOMAIN items' = 1 .. n + 1
    <2>1. PICK S : S = [id : ui16, descriptors : Seq(DescLength), run : Runs]
      OBVIOUS
    <2>2. items \in Seq(S) /\ items' \in Seq(S)
      BY <2>1 DEF ExtInv
    <2>3. Len(items) \in Nat /\ DOMAIN items = 1 .. Len(items) /\ DOMAIN items' = 1 .. Len(items')
      BY ONLY <2>2
    <2> QED
      BY <2>3
  <1>2. ASSUME NEW j \in 1 .. n + 1
        PROVE  /\ NextOK(items'[j].run, Len(items'[j].descriptors))
               /\ j # 0 => items'[j].run.op_state = "INIT"
    <2>1. CASE j = n + 1
      <3>1. items'[j].run.op_state = "INIT"
        BY <1>1, <2>1 DEF ItemContext
      <3> QED
        BY <3>1 DEF NextOK
    <2>2. CASE j # n + 1
      <3>1. j \in 1 .. n /\ j # 0
        BY <2>2
      <3> QED
        BY <1>1, <3>1 DEF ItemsAt
    <2> QED
      BY <2>1, <2>2
  <1> QED
    BY <1>1, <1>2 DEF ItemsAt

\* A descriptor is added to an item.
LEMMA ItemsAtDesc ==
  ASSUME ExtInv, ItemsAt(0), ExtInv', Len(items') = Len(items),
         \A j \in DOMAIN items : items'[j].run = items[j].run
  PROVE  ItemsAt(0)'
  <1>1. PICK n \in Nat : n = Len(items) /\ DOMAIN items = 1 .. n /\ DOMAIN items' = 1 .. n
    BY DEF ExtInv
  <1>2. ASSUME NEW j \in 1 .. n PROVE items'[j].run.op_state = "INIT"
    BY <1>1 DEF ItemsAt
  <1> QED
    BY <1>1, <1>2 DEF ItemsAt, NextOK

\* The descriptors stay as they are.
LEMMA DescriptorsSame ==
  ASSUME ExtInv, NEW i, OnlyRun(i)
  PROVE  Descriptors' = Descriptors /\ DOMAIN items' = DOMAIN items
  BY SameLoops DEF OnlyRun

\* The bytes of the sections that are built.
LEMMA BuiltBytes ==
  ASSUME NEW K, NEW private_bit, DriverRest(Entries(K), private_bit), Built,
         NEW Q, IsSheets(K, Q), NEW M, M = getMaxDataLen
  PROVE  /\ Shows(Q) /\ \A i \in 1 .. Len(Q) : Q[i][2] <= M
  <1>1. /\ Len(stream) \in Nat /\ first \in Nat /\ 1 <= first /\ first <= Len(stream)
        /\ state = "END_TABLE" /\ stream \in Seq(Sections(Entries(K)))
        /\ max_section_length \in ui16
    BY DEF DriverRest, DriverTypes, PsiTypeOK, Built
  <1>2. Shows(Q)
    BY <1>1, ShowsAll
  <1>3. ASSUME NEW i \in 1 .. Len(Q) PROVE Q[i][2] <= M
    <2>1. PICK j \in Table : Nr(i, j)
      BY <1>2 DEF Shows, InStep
    <2>2. Q[i][2] = stream[j].data_length - 3
      BY <1>2, <2>1 DEF Shows, InStep
    <2>3. stream[j].size = max_section_length
      BY <1>1 DEF DriverRest, ClosedInv, Closed
    <2>4. lengthFits(stream[j], CRC_LEN)
      BY DEF Built
    <2>5. stream[j].data_length \in Nat
      <3>1. j \in DOMAIN stream
        BY <1>1 DEF Table
      <3>2. stream[j] \in Sections(Entries(K))
        BY <1>1, <3>1
      <3> QED
        BY <3>2, Ui16 DEF Sections
    <2>6. PICK x, s : x = stream[j].data_length /\ s = max_section_length
      OBVIOUS
    <2>7. x + 4 <= s /\ x \in Nat /\ s \in Nat /\ s < 65536
      BY <1>1, <2>3, <2>4, <2>5, <2>6, Ui16 DEF lengthFits, CRC_LEN
    <2>8. x - 3 <= (s - 3 - 4) % 65536
      <3>1. CASE s < 7
        BY <2>7, <3>1
      <3>2. CASE 7 <= s
        BY <2>7, <3>2
      <3> QED
        BY <2>7, <3>1, <3>2
    <2> QED
      BY <2>2, <2>6, <2>8 DEF getMaxDataLen, maxDataLen, CRC_LEN
  <1> QED
    BY <1>2, <1>3

\* What the tables promise of a build whose sections are Q.
LEMMA BuiltPack ==
  ASSUME NEW K, NEW private_bit, DriverRest(Entries(K), private_bit), ExtInv, Built,
         NEW E, E.D = Descriptors, E.M = getMaxDataLen, NEW B, NEW Q, IsSheets(K, Q),
         NEW held, NEW t, NEW n, SheetInv(E, K, B, Q, "END", held, t, n)
  PROVE  /\ CarriedInOrder(E.kind, E.set)
         /\ \A j \in Table : j # first /\ j - first + 1 \notin B
              => StartsFull(j, E.kind, E.base, E.own)
  <1>1. Shows(Q) /\ \A i \in 1 .. Len(Q) : Q[i][2] <= E.M
    BY BuiltBytes
  <1>2. AllCarried(E, B, Q) /\ PackArgs(E)
    BY <1>1, EndCarried DEF SheetInv
  <1>3. ASSUME NEW j \in Table, j # first, j - first + 1 \notin B
        PROVE  StartsFull(j, E.kind, E.base, E.own)
    <2>1. PICK i : i = j - first + 1
      OBVIOUS
    <2>2. Nr(i, j) /\ i \notin B
      BY <1>3, <2>1 DEF Nr
    <2> QED
      BY <1>1, <1>2, <1>3, <2>2, StartedFull
  <1> QED
    BY <1>1, <1>2, <1>3, CarriedOrdered
==============================================================================
