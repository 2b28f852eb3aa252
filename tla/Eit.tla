--------------------------------- MODULE Eit ---------------------------------
(***************************************************************************)
(* EIT and PF_EIT of eit.h / eit.cc: two lists of events, the present and  *)
(* the following ones, each with descriptors.  PF_EIT has a driver of its  *)
(* own: it calls writeSection once for each list, with one context, and    *)
(* does not look at what it returns.  What did not fit stays pending: for  *)
(* the other list's section, or for the next build.                        *)
(***************************************************************************)
EXTENDS ExtPsiTable
LOCAL INSTANCE SequencesExt

CONSTANT EventArgs   \* what the events are added with, besides the id

ASSUME EitArgs == EventArgs \subseteq [running_status : ui8, free_CA_mode : BOOLEAN]

VARIABLES
  lists,    \* items[0], the present events, and items[1]: positions in items
  events,   \* the fields of the events, in the order of items
  run,      \* the mutable Context kept across calls of writeSection
  build     \* history: "fits" or "overflow" if the last build began with a new
            \* context, as its events fitted or not; "dirty" if it did not

eitVars == << lists, events, run, build >>
vars == << psiVars, extVars, eitVars >>

BASE_LENGTH == 11
MAX_SEC_LEN == 4096
BASE_LEN == 12       \* Event::BASE_LEN
D_BIT == 1           \* data_bit's default
last_sec == 1        \* of buildSections

\* event is a position in items, 0 is nullptr; ev_iter is one of list.
Context == [op_state |-> "INIT", event |-> 0, list |-> 1, ev_iter |-> 0]

Init == /\ PsiInit(BASE_LENGTH, MAX_SEC_LEN) /\ ExtInit
        /\ lists = << << >>, << >> >> /\ events = << >>
        /\ run = Context /\ build = "fits"

Events(l) == {lists[l][n] : n \in DOMAIN lists[l]}

\* addPresentEvent (l = 1) and addFollowingEvent (l = 2) on addEvent.
addEvent(l, ev_id, args) ==
  /\ addItem(Events(l), ev_id, ev_id, BASE_LEN)
  /\ lists' = [lists EXCEPT ![l] = Append(@, Len(items) + 1)]
  /\ events' = Append(events, [args EXCEPT !.running_status = @ % 8])
  /\ UNCHANGED << run, build >>

addEventDesc(l) ==
  /\ \E d_len \in DescLens : \/ addLastItemDesc(Events(l), d_len)
                             \/ \E ev_id \in ItemIds : addItemDesc(Events(l), ev_id, d_len)
  /\ UNCHANGED eitVars

-----------------------------------------------------------------------------
(* writeSection, one action per case, with the caller's list.              *)

listAlwaysPresent == lists[1]      \* mutant
list == lists[cur_sec + 1]         \* the argument: items[cur_sec]

\* Event::write_desc_loop_len.
eventLoopLenUnmasked(e, len) ==    \* mutant
  8192 * e.running_status + len
eventLoopLen(e, len) ==
  8192 * e.running_status + 4096 * (IF e.free_CA_mode THEN 1 ELSE 0) + (len % LEN_MASK)

EventLoopPatched ==
  overwrite(cur, desc_loop.pos, eventLoopLen(events[run.event], desc_loop.len))

At(op_state) == state = "WRITE_SEC" /\ run.op_state = op_state

table == << attributes, length, lists, events, build >>

\* INIT falls through to WRITE_HEAD: the header, the two ids, the last segment
\* and table numbers.
WriteHead ==
  /\ state = "WRITE_SEC" /\ run.op_state \in {"INIT", "WRITE_HEAD"}
  /\ IF lengthFits(cur, HEADER_LEN + 6)
     THEN /\ LET s == [writeSectionHeader(cur, D_BIT) EXCEPT !.last_section_number = last_sec]
             IN WriteSecContinue(put(s, Entry("ids", 0, 0), 6), BASE_LENGTH)
          /\ LET next == IF run.event = 0 THEN "GET_EVENT" ELSE "WRITE_EVENT" IN
             run' = IF run.op_state = "INIT"
                    THEN [run EXCEPT !.op_state = next, !.list = cur_sec + 1,
                                     !.ev_iter = Iter(1, Len(list))]
                    ELSE [run EXCEPT !.op_state = next]
     ELSE Abort /\ UNCHANGED run
  /\ UNCHANGED << table, extVars >>

\* run.ev_iter != list.end(), whichever list the iterator is of.
MoreEvents == run.list # cur_sec + 1 \/ run.ev_iter # 0

\* Past the end of the other list the iterator reads as an event what is none.
WrongList == At("GET_EVENT") /\ MoreEvents /\ run.ev_iter = 0 /\ Abort
             /\ UNCHANGED << table, extVars, run >>

Next_event == lists[run.list][run.ev_iter]

Fetched(op_state) ==
  [run EXCEPT !.op_state = op_state, !.event = Next_event,
              !.ev_iter = Iter(@ + 1, Len(lists[run.list]))]

GetEventFits ==
  /\ At("GET_EVENT") /\ run.ev_iter # 0
  /\ ~ItemStartsTooLong(Next_event, BASE_LEN)
  /\ run' = Fetched("WRITE_EVENT")
  /\ UNCHANGED << table, driver, extVars >>

\* writeSection returns, the section being s, and buildSections goes on: its
\* length, with no room for the CRC added, the CRC, the next section.
Return(s) ==
  LET sized == setSectionLength(s, buildLengthData(D_BIT, sec_bytes)) IN
    IF lengthFits(sized, CRC_LEN)
    THEN /\ stream' = ReplaceCur(calcCrc(sized))
         /\ cur_sec' = cur_sec + 1
         /\ state' = IF cur_sec = last_sec THEN "IDLE" ELSE "MALLOC_SEC"
         /\ UNCHANGED << builds, sec_bytes, first >>
    ELSE Abort

GetEventFull ==
  /\ At("GET_EVENT") /\ run.ev_iter # 0
  /\ ItemStartsTooLong(Next_event, BASE_LEN)
  /\ run' = Fetched("WRITE_HEAD")
  /\ Return(cur)
  /\ UNCHANGED << table, extVars >>

RestartEventKept == [Context EXCEPT !.event = run.event]   \* mutant
Restart == Context

GetEventEnd ==
  /\ At("GET_EVENT") /\ ~MoreEvents
  /\ run' = Restart
  /\ Return(cur)
  /\ UNCHANGED << table, extVars >>

\* WRITE_EVENT is in the event's own write_section.
EventWrites ==
  /\ At("WRITE_EVENT")
  /\ \/ ItemWriteHead(run.event, BASE_LEN, 0)
     \/ ItemGetDescFits(run.event)
     \/ ItemWriteDesc(run.event)
  /\ UNCHANGED << table, run >>

EventFull ==
  /\ At("WRITE_EVENT")
  /\ ItemGetDescFull(run.event)
  /\ run' = [run EXCEPT !.op_state = "WRITE_HEAD"]
  /\ Return(EventLoopPatched)
  /\ UNCHANGED table

EventDone ==
  /\ At("WRITE_EVENT")
  /\ ItemGetDescEnd(run.event)
  /\ run' = [run EXCEPT !.op_state = "GET_EVENT"]
  /\ WriteSecContinue(EventLoopPatched, sec_bytes)
  /\ UNCHANGED table

writeSection ==
  \/ WriteHead \/ WrongList
  \/ GetEventFull \/ GetEventFits \/ GetEventEnd
  \/ EventWrites \/ EventFull \/ EventDone

-----------------------------------------------------------------------------
(* What there is to carry, and what is carried.                            *)

\* What section i carries: its descriptors, and the items that have none. A header
\* repeated in a later section is not counted twice, and none may be written with no
\* descriptor behind it.
Content(i) ==
  LET p == stream[i].payload
      Counts(j) == \/ p[j].kind = "desc"
                   \/ p[j].kind = "item" /\ (items[p[j].owner].descriptors = << >>
                                             \/ j + 2 \notin DOMAIN p \/ p[j + 2].kind # "desc")
      at == SelectSeq([j \in DOMAIN p |-> j], Counts)
  IN [j \in DOMAIN at |-> [p[at[j]] EXCEPT !.n = IF p[at[j]].kind = "item" THEN 0 ELSE @]]

\* All that the sections of the build carry.
Contents ==
  FlattenSeq([k \in 1 .. Len(stream) - first + 1 |-> Content(first + k - 1)])

\* What the items, a sequence of positions, must be carried as.
ItemContent(events_of) ==
  LET of(i) == IF items[i].descriptors = << >> THEN << Entry("item", i, 0) >>
               ELSE [n \in DOMAIN items[i].descriptors |-> Entry("desc", i, n)]
  IN FlattenSeq([k \in DOMAIN events_of |-> of(events_of[k])])

-----------------------------------------------------------------------------
(* PF_EIT::buildSections.                                                  *)

Bytes(l) == LET p == ItemContent(lists[l])
                heads == [n \in DOMAIN lists[l] |-> Entry("item", lists[l][n], 0)]
            IN ItemBytes(heads, BASE_LEN)
                 + ItemBytes(SelectSeq(p, LAMBDA e : e.kind = "desc"), BASE_LEN)

Fits(l) == HEADER_LEN + 6 + Bytes(l) + CRC_LEN <= max_section_length

buildPfSections ==
  /\ buildSections
  /\ build' = IF run # Context THEN "dirty"
              ELSE IF Fits(1) /\ Fits(2) THEN "fits" ELSE "overflow"
  /\ UNCHANGED << extVars, lists, events, run >>

Api == \/ /\ Configure
          /\ UNCHANGED << extVars, eitVars >>
       \/ \E l \in 1 .. 2, ev_id \in ItemIds, args \in EventArgs : addEvent(l, ev_id, args)
       \/ \E l \in 1 .. 2 : addEventDesc(l)
       \/ buildPfSections

\* A build in progress runs to its end before the application goes on.
BuildStep == \/ MallocSec /\ UNCHANGED << extVars, eitVars >>
             \/ writeSection

Next == Api \/ BuildStep

Spec == Init /\ [][Next]_vars

-----------------------------------------------------------------------------
(* Properties.                                                             *)

TypeOK ==
  /\ PsiTypeOK /\ ExtTypeOK
  /\ stream \in Seq(Sections(Entries({"ids", "item", "desc_loop_len", "desc"})))
  /\ Events(1) \cap Events(2) = {} /\ Events(1) \cup Events(2) = DOMAIN items
  /\ events \in Seq([running_status : 0 .. 7, free_CA_mode : BOOLEAN])
  /\ Len(events) = Len(items)
  /\ run \in [op_state : {"INIT", "WRITE_HEAD", "GET_EVENT", "WRITE_EVENT"},
              event : 0 .. Len(items), list : 1 .. 2, ev_iter : Nat]
  /\ run.ev_iter <= Len(lists[run.list])
  /\ build \in {"fits", "overflow", "dirty"}

\* Whatever is pending from before, each event in a section has its own status
\* bits and the length of just the descriptors that follow it there; the section
\* states its own length less the 4 bytes of its CRC, which this driver, unlike
\* PSITable's, does not add.
SectionsParse ==
  \A i \in DOMAIN stream : Finished(i) =>
    LET p == stream[i].payload IN
      /\ p[1].kind = "ids"
      /\ ItemsParse(p, 2, LAMBDA owner, len :
           len + 4096 * (2 * events[owner].running_status
                           + (IF events[owner].free_CA_mode THEN 1 ELSE 0)))
      /\ stream[i].section_length % LEN_MASK = BASE_LENGTH + ItemBytes(p, BASE_LEN)
      /\ stream[i].data_length = 3 + BASE_LENGTH + ItemBytes(p, BASE_LEN) + CRC_LEN

\* Section 0 carries the present events, section 1 the following ones.
PresentThenFollowing ==
  /\ Len(stream) = first + 1
  /\ \A l \in 1 .. 2 : Content(first + l - 1) = ItemContent(lists[l])

\* A build that starts with nothing pending puts the present events in section 0
\* and the following ones in section 1, and leaves nothing pending, exactly when
\* each list fits in one section: nothing tells the caller when it does not.
RightIffFits ==
  [][state = "WRITE_SEC" /\ state' \in {"IDLE", "ABORTED"} =>
       /\ build = "fits" => state' = "IDLE" /\ PresentThenFollowing' /\ run' = Context
       /\ build = "overflow" => ~(state' = "IDLE" /\ PresentThenFollowing')]_vars

\* No build, not even one that starts with an event of an earlier build pending,
\* carries an event or a descriptor twice, or a list's events out of order.
NeverRepeats ==
  LET c == Contents IN
    state \in {"MALLOC_SEC", "IDLE"} => \A j, k \in DOMAIN c : j < k =>
      /\ c[j] # c[k]
      /\ (\E l \in 1 .. 2 : {c[j].owner, c[k].owner} \subseteq Events(l)) =>
           \/ c[j].owner < c[k].owner
           \/ c[j].owner = c[k].owner /\ c[j].n < c[k].n
==============================================================================
