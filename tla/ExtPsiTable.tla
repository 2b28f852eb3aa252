----------------------------- MODULE ExtPsiTable ------------------------------
(***************************************************************************)
(* ExtPSITable of table.h / table.cc: a sectioned table with a list of     *)
(* items, each with descriptors of its own.  An item is written by         *)
(* ListItem::write_section, a second state machine nested in the table's:  *)
(* its context is kept in the item, so an item half written when a section *)
(* fills up goes on in the next, behind a second copy of its header.       *)
(*                                                                         *)
(* What is written after the header of a section is a sequence of entries. *)
(* The value of a loop length entry is patched in place when the loop ends *)
(* (set16Bits at a saved position).                                        *)
(***************************************************************************)
EXTENDS PsiTable
LOCAL INSTANCE FiniteSetsExt

CONSTANTS
  CHECK_DUPLICATES,  \* the configure option
  ItemIds, DescLens, \* what the application adds
  MaxItems, MaxItemDescs   \* bounds

ASSUME ExtPsiTableArgs ==
  /\ CHECK_DUPLICATES \in BOOLEAN
  /\ ItemIds \subseteq ui16 /\ DescLens \subseteq DescLength
  /\ MaxItems \in Nat /\ MaxItemDescs \in Nat

VARIABLES
  items,      \* the list of items: [id, descriptors, run]
  desc_loop   \* write_section's desc_loop_len_pos and desc_loop_len

extVars == << items, desc_loop >>

\* The iterator at position n of a list of len: 0 is end(), which stays the end
\* when the list grows.
Iter(n, len) == IF n > len THEN 0 ELSE n

\* d and d_iter are positions in the item's descriptors; d = 0 is nullptr.
ItemContext == [op_state |-> "INIT", d |-> 0, d_iter |-> 0]

NoLoop == [pos |-> 0, len |-> 0]

ExtInit == items = << >> /\ desc_loop = NoLoop

\* An entry: a descriptor, an item's header or a loop length, of which item,
\* and the descriptor's position or the loop length's value.
Entry(kind, owner, n) == [kind |-> kind, owner |-> owner, n |-> n]
Entries(kinds) == [kind : kinds, owner : Nat, n : ui16]

\* rbits(~LEN_MASK) | (len & LEN_MASK)
loopLen(len) == 61440 + (len % LEN_MASK)

overwrite(s, pos, d) == [s EXCEPT !.payload[pos].n = d]

-----------------------------------------------------------------------------
(* The application's calls.                                                *)

(* A list of items is the set of its positions in "items": all of them but *)
(* in the EIT, which has two lists.                                        *)

contains(list, id) == \E i \in list : items[i].id = id

\* std::find_if: the first of the list.
find(list, id) == Min({i \in list : items[i].id = id})

\* A duplicate is refused with an exception, if the build checks.  The item
\* keeps the id in a field that may be narrower.
addItem(list, id, id_field, base_len) ==
  /\ state = "IDLE" /\ Len(items) < MaxItems
  /\ ~(CHECK_DUPLICATES /\ contains(list, id))
  /\ incLength(base_len)
  /\ items' = Append(items, [id |-> id_field, descriptors |-> << >>, run |-> ItemContext])
  /\ UNCHANGED << attributes, driver, desc_loop >>

addDescTo(i, d_len) ==
  /\ Len(items[i].descriptors) < MaxItemDescs
  /\ incLength(d_len)
  /\ items' = [items EXCEPT ![i].descriptors = Append(@, d_len)]
  /\ UNCHANGED << attributes, driver, desc_loop >>

addLastItemDesc(list, d_len) ==
  /\ state = "IDLE" /\ list # {}
  /\ addDescTo(Max(list), d_len)

addItemDesc(list, id, d_len) ==
  /\ state = "IDLE" /\ contains(list, id)
  /\ addDescTo(find(list, id), d_len)

-----------------------------------------------------------------------------
(* ListItem::write_section on item i, one action per case.  The calling    *)
(* table's state, and the rest of its section, are up to the caller.       *)

\* What the tables make sure of before they start an item: that its header
\* fits, and its first descriptor, if there is one.
ItemAlone(i, base_len) ==   \* mutant
  sec_bytes + base_len > getMaxDataLen
ItemStartsTooLong(i, base_len) ==
  sec_bytes + base_len
    + (IF items[i].descriptors = << >> THEN 0 ELSE Head(items[i].descriptors))
    > getMaxDataLen

\* INIT falls through to WRITE_HEAD.  header is what the item's header says.
ItemWriteHead(i, base_len, header) ==
  /\ items[i].run.op_state \in {"INIT", "WRITE_HEAD"}
  /\ IF lengthFits(cur, base_len)
     THEN /\ WriteSecContinue(put(put(cur, Entry("item", i, header), base_len - 2),
                                  Entry("desc_loop_len", i, 0), 2),
                              (sec_bytes + base_len) % 65536)
          /\ desc_loop' = [pos |-> Len(cur.payload) + 2, len |-> 0]
          /\ items' = [items EXCEPT ![i].run =
               [op_state |-> IF @.d = 0 THEN "GET_DESC" ELSE "WRITE_DESC",
                d |-> @.d,
                d_iter |-> IF @.op_state = "INIT" THEN Iter(1, Len(items[i].descriptors))
                                                 ELSE @.d_iter]]
     ELSE Abort /\ UNCHANGED extVars

ItemMore(i) == items[i].run.op_state = "GET_DESC" /\ items[i].run.d_iter # 0

ItemTooLongEarly(i) ==      \* mutant
  sec_bytes + items[i].descriptors[items[i].run.d_iter] >= getMaxDataLen
ItemTooLong(i) ==
  sec_bytes + items[i].descriptors[items[i].run.d_iter] > getMaxDataLen

\* The item with its next descriptor fetched.
ItemPeeked(i, op_state) ==  \* mutant
  [items EXCEPT ![i].run = [op_state |-> op_state, d |-> @.d_iter, d_iter |-> @.d_iter]]
ItemStays(i, op_state) ==   \* mutant
  [items EXCEPT ![i].run.d = items[i].run.d_iter]
ItemFetched(i, op_state) ==
  [items EXCEPT ![i].run = [op_state |-> op_state, d |-> @.d_iter,
                          d_iter |-> Iter(@.d_iter + 1, Len(items[i].descriptors))]]

\* The section when write_section returns: the loop it wrote has its length.
LoopUnpatched(s) == s       \* mutant
LoopPatched(s) == overwrite(s, desc_loop.pos, loopLen(desc_loop.len))

\* Returns false, a descriptor pending.  The caller closes LoopPatched(cur).
ItemGetDescFull(i) ==
  /\ ItemMore(i) /\ ItemTooLong(i)
  /\ items' = ItemFetched(i, "WRITE_HEAD")
  /\ desc_loop' = NoLoop

ItemGetDescFits(i) ==
  /\ ItemMore(i) /\ ~ItemTooLong(i)
  /\ items' = ItemFetched(i, "WRITE_DESC")
  /\ UNCHANGED << driver, desc_loop >>

\* Returns true.
ItemGetDescEnd(i) ==
  /\ items[i].run.op_state = "GET_DESC" /\ ~ItemMore(i)
  /\ items' = [items EXCEPT ![i].run = ItemContext]
  /\ desc_loop' = NoLoop

ItemDescLen(i) == items[i].descriptors[items[i].run.d]

\* A descriptor pending from the last section is written with no check.
ItemWriteDesc(i) ==
  /\ items[i].run.op_state = "WRITE_DESC"
  /\ IF lengthFits(cur, ItemDescLen(i))
     THEN /\ WriteSecContinue(put(cur, Entry("desc", i, items[i].run.d), ItemDescLen(i)),
                              (sec_bytes + ItemDescLen(i)) % 65536)
          /\ desc_loop' = [desc_loop EXCEPT !.len = (@ + ItemDescLen(i)) % 65536]
          /\ items' = [items EXCEPT ![i].run.op_state = "GET_DESC"]
     ELSE Abort /\ UNCHANGED extVars

-----------------------------------------------------------------------------
(* Reading the sections back, for the tables' properties.                  *)

\* The sections are complete but for their CRCs, for which there is room.
Built == state = "END_TABLE" /\ \A i \in Table : lengthFits(stream[i], CRC_LEN)

\* The sum of a sequence of lengths.
Total(lens) ==
  LET sum[n \in 0 .. Len(lens)] == IF n = 0 THEN 0 ELSE sum[n - 1] + lens[n]
  IN  sum[Len(lens)]

EntryLen(e, base_len) ==
  CASE e.kind = "desc" -> items[e.owner].descriptors[e.n]
    [] e.kind = "item" -> base_len
    [] OTHER -> 0

\* The bytes of payload p, item headers of base_len bytes included.
ItemBytes(p, base_len) == Total([k \in DOMAIN p |-> EntryLen(p[k], base_len)])

\* The bytes of the entries of p after position l, up to e.
LoopBytes(p, l, e) == Total([k \in 1 .. e - l |-> EntryLen(p[l + k], 0)])

\* The descriptors that directly follow position l of p end at e.
LoopEnds(p, l, e) ==
  /\ \A k \in l + 1 .. e : p[k].kind = "desc"
  /\ e = Len(p) \/ p[e + 1].kind # "desc"

\* From position start on, p is items: each header is followed by its loop length,
\* that by the item's own descriptors, and it is read as theirs: word(i, n) is how
\* n bytes of descriptors of item i are announced.
ItemsParse(p, start, word(_, _)) ==
  \A k \in start .. Len(p) :
    /\ p[k].kind \in {"item", "desc_loop_len", "desc"}
    /\ k = start => p[k].kind = "item"
    /\ p[k].kind = "item" => k < Len(p) /\ p[k + 1].kind = "desc_loop_len"
    /\ p[k].kind # "item" => p[k].owner = p[k - 1].owner
    /\ p[k].kind = "desc_loop_len" =>
         /\ p[k - 1].kind = "item"
         /\ \A e \in k .. Len(p) :
              LoopEnds(p, k, e) => p[k].n = word(p[k].owner, LoopBytes(p, k, e))

\* Entry e of a payload is something the application put in the table: a descriptor
\* of an item or of the table's own loop (those are of kind outer), or an item that
\* has none. The other headers only stand in front of descriptors.
Carries(e, outer) == \/ e.kind \in {outer, "desc"}
                     \/ e.kind = "item" /\ items[e.owner].descriptors = << >>

\* Its place in the table: of which item, 0 for the table itself, and which.
Place(e) == << e.owner, IF e.kind = "item" THEN 1 ELSE e.n >>
Earlier(a, b) == a[1] < b[1] \/ (a[1] = b[1] /\ a[2] < b[2])

\* The places there are; own are the positions of the table's own loop.
Places(own) ==
  LET of(i) == IF items[i].descriptors = << >> THEN {1} ELSE DOMAIN items[i].descriptors
  IN ({0} \X own) \cup UNION {{i} \X of(i) : i \in DOMAIN items}

\* The sections carry what there is once and in order, and an item's header,
\* repeated in each section that goes on with it, has one of its descriptors behind it.
CarriedInOrder(outer, own) ==
  LET Found(i, k, place) == /\ Carries(stream[i].payload[k], outer)
                            /\ Place(stream[i].payload[k]) = place
  IN /\ \A place \in Places(own) :
          \E i \in Table : \E k \in DOMAIN stream[i].payload : Found(i, k, place)
     /\ \A i \in Table : \A k \in DOMAIN stream[i].payload :
          LET e == stream[i].payload[k] IN
            /\ Carries(e, outer) => Place(e) \in Places(own)
            /\ \A j \in Table : \A l \in DOMAIN stream[j].payload :
                 /\ i < j \/ (i = j /\ k < l)
                 /\ Carries(e, outer) /\ Carries(stream[j].payload[l], outer)
                 => Earlier(Place(e), Place(stream[j].payload[l]))
            /\ e.kind = "item" /\ ~Carries(e, outer) =>
                 /\ k + 2 <= Len(stream[i].payload)
                 /\ stream[i].payload[k + 2].kind = "desc"

\* The bytes that e, the first thing a section carries, would have taken at the end
\* of the section before, after its entry last; own are the lengths of the table's
\* own loop.
Needed(last, e, base_len, own) ==
  CASE e.kind = "item" -> base_len
    [] e.kind = "desc" -> items[e.owner].descriptors[e.n]
                            + (IF last.owner = e.owner THEN 0 ELSE base_len)
    [] OTHER -> own[e.n]

\* Section i carries something, and the first of it had no room in the one before.
StartsFull(i, outer, base_len, own) ==
  LET p == stream[i - 1].payload
      q == stream[i].payload
  IN \E k \in DOMAIN q :
       /\ Carries(q[k], outer) /\ \A l \in 1 .. k - 1 : ~Carries(q[l], outer)
       /\ stream[i - 1].data_length - 3 + Needed(p[Len(p)], q[k], base_len, own)
            > getMaxDataLen

ItemDescMax(i) == Max({0} \cup {items[i].descriptors[n] : n \in DOMAIN items[i].descriptors})

ExtTypeOK ==
  /\ items \in Seq([id : ui16, descriptors : Seq(DescLength),
                    run : [op_state : {"INIT", "WRITE_HEAD", "GET_DESC", "WRITE_DESC"},
                           d : Nat, d_iter : Nat]])
  /\ \A i \in DOMAIN items : LET c == items[i].run IN
       /\ {c.d, c.d_iter} \subseteq 0 .. Len(items[i].descriptors)
       /\ c.d_iter # 0 => c.d < c.d_iter
  /\ desc_loop \in [pos : Nat, len : ui16]
==============================================================================
