-------------------------------- MODULE NitBat --------------------------------
(***************************************************************************)
(* NIT_BAT of nit_bat.h / nit_bat.cc, the NITs and the BAT: a loop of      *)
(* network descriptors, then a loop of transport streams each with its     *)
(* descriptors.  Both loops, and the descriptor loop of each transport     *)
(* stream, carry a length written before it is known.  A SECTION_END_MARK  *)
(* among the network descriptors ends a section that is not full.          *)
(***************************************************************************)
EXTENDS ExtPsiTable
LOCAL INSTANCE SequencesExt
LOCAL INSTANCE FiniteSetsExt

CONSTANTS
  NetDescLens,   \* what addDesc adds: lengths of descriptors, or the MARK
  MaxNetDescs    \* bound

\* A UtilityDesc(SECTION_END_MARK): it writes nothing here, but its length()
\* is the 2 of an empty descriptor.
SECTION_END_MARK == 0
NetDesc == DescLength \cup {SECTION_END_MARK}
netDescLength(nd) == IF nd = SECTION_END_MARK THEN 2 ELSE nd

ASSUME NitBatArgs == NetDescLens \subseteq NetDesc /\ MaxNetDescs \in Nat

VARIABLES
  descriptors,   \* the DescList of network descriptors
  run,           \* the mutable Context kept across calls of writeSection
  loops          \* writeSection's positions and lengths of the two loops

vars == << psiVars, extVars, descriptors, run, loops >>

BASE_LENGTH == 9
MAX_SEC_LEN == 1024
BASE_LEN == 6        \* XportStream::BASE_LEN
D_BIT == 1           \* data_bit's default

\* nd and ts are positions in the lists; 0 is nullptr.
Context == [op_state |-> "INIT", nd_done |-> FALSE,
            nd |-> 0, nd_iter |-> 1, ts |-> 0, ts_iter |-> 1]

NoLoops == [nd_loop_len_pos |-> 0, net_desc_len |-> 0,
            ts_loop_len_pos |-> 0, ts_loop_len |-> 0]

Init == /\ PsiInit(BASE_LENGTH, MAX_SEC_LEN) /\ ExtInit
        /\ descriptors = << >>
        /\ run = Context
        /\ loops = NoLoops

addDesc(nd) ==
  /\ state = "IDLE" /\ Len(descriptors) < MaxNetDescs
  /\ incLength(netDescLength(nd))
  /\ descriptors' = Append(descriptors, nd)
  /\ UNCHANGED << attributes, driver, extVars, run, loops >>

addXportStream(xs_id) ==
  /\ addItem(DOMAIN items, xs_id, xs_id, BASE_LEN)
  /\ UNCHANGED << descriptors, run, loops >>

addXportStreamDesc ==
  /\ \E d_len \in DescLens : \/ addLastItemDesc(DOMAIN items, d_len)
                             \/ \E xs_id \in ItemIds :
                                  addItemDesc(DOMAIN items, xs_id, d_len)
  /\ UNCHANGED << descriptors, run, loops >>

-----------------------------------------------------------------------------
(* writeSection, one action per case.                                      *)

At(op_state) == state = "WRITE_SEC" /\ run.op_state = op_state

\* Every way out of writeSection: the section is s, the length of the transport
\* stream loop goes to its place, and the locals are gone.
Leave(done, s, ts_loop_len_pos, ts_loop_len) ==
  /\ WriteSecReturn(done, overwrite(s, ts_loop_len_pos, loopLen(ts_loop_len)),
                    sec_bytes, D_BIT)
  /\ loops' = NoLoops

NetLens == [n \in DOMAIN descriptors |-> netDescLength(descriptors[n])]

\* DescList::loop_length(): a first guess at net_loop_len.
loop_length == Total(NetLens) % 65536

\* INIT falls through to WRITE_HEAD.
WriteHead ==
  /\ state = "WRITE_SEC" /\ run.op_state \in {"INIT", "WRITE_HEAD"}
  /\ IF lengthFits(cur, HEADER_LEN + 2)
     THEN /\ WriteSecContinue(put(writeSectionHeader(cur, D_BIT),
                                  Entry("net_loop_len", 0, loop_length), 2),
                              BASE_LENGTH)
          /\ loops' = [loops EXCEPT !.nd_loop_len_pos = 1]
          /\ run' = [run EXCEPT
               !.op_state = IF run.nd = 0 THEN "GET_NET_DESC" ELSE "WRITE_NET_DESC",
               !.nd_iter = IF run.op_state = "INIT" THEN 1 ELSE @,
               !.ts_iter = IF run.op_state = "INIT" THEN 1 ELSE @]
     ELSE Abort /\ UNCHANGED << run, loops >>
  /\ UNCHANGED << attributes, length, extVars, descriptors >>

MoreNetDescs == ~run.nd_done /\ run.nd_iter <= Len(descriptors)

NetDescTooLong ==           \* mutant
  sec_bytes + netDescLength(descriptors[run.nd_iter]) > getMaxDataLen
NetDescEndsSection ==
  LET nd == descriptors[run.nd_iter] IN
    nd = SECTION_END_MARK \/ sec_bytes + netDescLength(nd) > getMaxDataLen

\* GET_NET_DESC begins by storing the length of the loop so far.
NetLoopPatched == overwrite(cur, loops.nd_loop_len_pos, loopLen(loops.net_desc_len))

\* A mark is dropped, a descriptor too long is pending; either way the section
\* ends with an empty transport stream loop.
AfterSection == IF descriptors[run.nd_iter] = SECTION_END_MARK THEN 0 ELSE run.nd_iter

GetNetDescEndsSection ==
  /\ At("GET_NET_DESC") /\ MoreNetDescs /\ NetDescEndsSection
  /\ IF lengthFits(cur, 2)
     THEN /\ run' = [run EXCEPT !.op_state = "WRITE_HEAD", !.nd = AfterSection,
                                !.nd_iter = @ + 1]
          /\ Leave(FALSE, put(NetLoopPatched, Entry("ts_loop_len", 0, 0), 2),
                   Len(cur.payload) + 1, 0)
     ELSE Abort /\ UNCHANGED << run, loops >>
  /\ UNCHANGED << attributes, length, extVars, descriptors >>

GetNetDescFits ==
  /\ At("GET_NET_DESC") /\ MoreNetDescs /\ ~NetDescEndsSection
  /\ run' = [run EXCEPT !.op_state = "WRITE_NET_DESC", !.nd = run.nd_iter,
                        !.nd_iter = @ + 1]
  /\ WriteSecContinue(NetLoopPatched, sec_bytes)
  /\ UNCHANGED << attributes, length, extVars, descriptors, loops >>

NoMoreNetDescs ==
  /\ At("GET_NET_DESC") /\ ~MoreNetDescs
  /\ run' = [run EXCEPT !.op_state = "WRITE_XPORT_LOOP_LEN",
                        !.nd_done = TRUE,
                        !.nd = IF run.nd_done THEN @ ELSE 0]
  /\ WriteSecContinue(NetLoopPatched, sec_bytes)
  /\ UNCHANGED << attributes, length, extVars, descriptors, loops >>

WriteNetDesc ==
  /\ At("WRITE_NET_DESC")
  /\ LET d_len == netDescLength(descriptors[run.nd]) IN
       IF lengthFits(cur, d_len)
       THEN /\ WriteSecContinue(put(cur, Entry("net_desc", 0, run.nd), d_len),
                                (sec_bytes + d_len) % 65536)
            /\ loops' = [loops EXCEPT !.net_desc_len = (@ + d_len) % 65536]
            /\ run' = [run EXCEPT !.op_state = "GET_NET_DESC"]
       ELSE Abort /\ UNCHANGED << run, loops >>
  /\ UNCHANGED << attributes, length, extVars, descriptors >>

WriteXportLoopLen ==
  /\ At("WRITE_XPORT_LOOP_LEN")
  /\ IF lengthFits(cur, 2)
     THEN /\ WriteSecContinue(put(cur, Entry("ts_loop_len", 0, 0), 2), sec_bytes)
          /\ loops' = [loops EXCEPT !.ts_loop_len_pos = Len(cur.payload) + 1]
          /\ run' = [run EXCEPT !.op_state =
               IF run.ts = 0 THEN "GET_XPORT_STREAM" ELSE "WRITE_XPORT_STREAM"]
     ELSE Abort /\ UNCHANGED << run, loops >>
  /\ UNCHANGED << attributes, length, extVars, descriptors >>

GetXportStreamFull ==
  /\ At("GET_XPORT_STREAM") /\ run.ts_iter <= Len(items)
  /\ ItemStartsTooLong(run.ts_iter, BASE_LEN)
  /\ run' = [run EXCEPT !.op_state = "WRITE_HEAD", !.ts = run.ts_iter, !.ts_iter = @ + 1]
  /\ Leave(FALSE, cur, loops.ts_loop_len_pos, loops.ts_loop_len)
  /\ UNCHANGED << attributes, length, extVars, descriptors >>

GetXportStreamFits ==
  /\ At("GET_XPORT_STREAM") /\ run.ts_iter <= Len(items)
  /\ ~ItemStartsTooLong(run.ts_iter, BASE_LEN)
  /\ run' = [run EXCEPT !.op_state = "WRITE_XPORT_STREAM", !.ts = run.ts_iter,
                        !.ts_iter = @ + 1]
  /\ UNCHANGED << psiVars, extVars, descriptors, loops >>

GetXportStreamEnd ==
  /\ At("GET_XPORT_STREAM") /\ run.ts_iter > Len(items)
  /\ run' = Context
  /\ Leave(TRUE, cur, loops.ts_loop_len_pos, loops.ts_loop_len)
  /\ UNCHANGED << attributes, length, extVars, descriptors >>

\* WRITE_XPORT_STREAM is in the transport stream's own write_section, which
\* adds what it writes to ts_loop_len.
XportStreamWrites ==
  /\ At("WRITE_XPORT_STREAM")
  /\ \/ /\ ItemWriteHead(run.ts, BASE_LEN, 0)
        /\ loops' = [loops EXCEPT !.ts_loop_len = (@ + BASE_LEN) % 65536]
     \/ /\ ItemGetDescFits(run.ts)
        /\ UNCHANGED loops
     \/ /\ ItemWriteDesc(run.ts)
        /\ loops' = [loops EXCEPT !.ts_loop_len = (@ + ItemDescLen(run.ts)) % 65536]
  /\ UNCHANGED << attributes, length, descriptors, run >>

XportStreamFull ==
  /\ At("WRITE_XPORT_STREAM")
  /\ ItemGetDescFull(run.ts)
  /\ run' = [run EXCEPT !.op_state = "WRITE_HEAD"]
  /\ Leave(FALSE, LoopPatched(cur), loops.ts_loop_len_pos, loops.ts_loop_len)
  /\ UNCHANGED << attributes, length, descriptors >>

XportStreamDone ==
  /\ At("WRITE_XPORT_STREAM")
  /\ ItemGetDescEnd(run.ts)
  /\ run' = [run EXCEPT !.op_state = "GET_XPORT_STREAM"]
  /\ WriteSecContinue(LoopPatched(cur), sec_bytes)
  /\ UNCHANGED << attributes, length, descriptors, loops >>

writeSection ==
  \/ WriteHead
  \/ GetNetDescEndsSection \/ GetNetDescFits \/ NoMoreNetDescs \/ WriteNetDesc
  \/ WriteXportLoopLen
  \/ GetXportStreamFull \/ GetXportStreamFits \/ GetXportStreamEnd
  \/ XportStreamWrites \/ XportStreamFull \/ XportStreamDone

-----------------------------------------------------------------------------

Api == \/ /\ Configure \/ buildSections
          /\ UNCHANGED << extVars, descriptors, run, loops >>
       \/ \E nd \in NetDescLens : addDesc(nd)
       \/ \E xs_id \in ItemIds : addXportStream(xs_id)
       \/ addXportStreamDesc

\* A build in progress runs to its end before the application goes on.
BuildStep == \/ /\ MallocSec \/ EndTable
                /\ UNCHANGED << extVars, descriptors, run, loops >>
             \/ writeSection

Next == Api \/ BuildStep

Spec == Init /\ [][Next]_vars

FairSpec == Spec /\ WF_vars(BuildStep)

-----------------------------------------------------------------------------
(* Properties.                                                             *)

TypeOK ==
  /\ PsiTypeOK /\ ExtTypeOK
  /\ stream \in Seq(Sections(Entries(
       {"net_loop_len", "net_desc", "ts_loop_len", "item", "desc_loop_len", "desc"})))
  /\ descriptors \in Seq(NetDesc)
  /\ run \in [op_state : {"INIT", "WRITE_HEAD", "GET_NET_DESC", "WRITE_NET_DESC",
                          "WRITE_XPORT_LOOP_LEN", "GET_XPORT_STREAM",
                          "WRITE_XPORT_STREAM"},
              nd_done : BOOLEAN,
              nd : 0 .. Len(descriptors), nd_iter : 1 .. Len(descriptors) + 1,
              ts : 0 .. Len(items), ts_iter : 1 .. Len(items) + 1]
  /\ loops \in [nd_loop_len_pos : Nat, net_desc_len : ui16,
                ts_loop_len_pos : Nat, ts_loop_len : ui16]

NetBytes(p) ==
  Total([k \in DOMAIN p |-> IF p[k].kind = "net_desc" THEN netDescLength(descriptors[p[k].n])
                            ELSE 0])

\* Whatever the splitting, each section of a table is read by the lengths it
\* carries: the first loop length leads past the network descriptors of this very
\* section, to the second; that covers the transport streams and their descriptors,
\* each stream's own loop length the stream's; and section_length leads to the end,
\* of a section that can state its length.
SectionsParse ==
  Built => \A i \in Table : stream[i].size <= 4096 =>
    LET p == stream[i].payload
    IN \E n \in 0 .. Len(p) - 2 :
       /\ p[1].kind = "net_loop_len" /\ p[n + 2].kind = "ts_loop_len"
       /\ \A j \in 2 .. Len(p) : p[j].kind = "net_desc" <=> j <= n + 1
       /\ p[1].n = loopLen(NetBytes(p)) /\ p[n + 2].n = loopLen(ItemBytes(p, BASE_LEN))
       /\ ItemsParse(p, n + 3, LAMBDA owner, len : loopLen(len))
       /\ stream[i].section_length % LEN_MASK
            = BASE_LENGTH + NetBytes(p) + ItemBytes(p, BASE_LEN) + CRC_LEN

\* Nothing is lost, repeated or moved, however the two loops and the contexts
\* of the two state machines are cut by the ends of sections; marks leave no
\* trace.
InOrder ==
  Built => CarriedInOrder("net_desc",
             {n \in DOMAIN descriptors : descriptors[n] # SECTION_END_MARK})

Carried(i) == {stream[i].payload[k] : k \in {k \in DOMAIN stream[i].payload :
                                              Carries(stream[i].payload[k], "net_desc")}}

Precedes(e, m) == e.kind = "net_desc" /\ e.n < m

\* No section has entries of both sides of a mark.
MarksBreak ==
  Built =>
    \A i \in Table : \A m \in DOMAIN descriptors :
      descriptors[m] = SECTION_END_MARK =>
        \/ \A e \in Carried(i) : Precedes(e, m)
        \/ \A e \in Carried(i) : ~Precedes(e, m)

\* A section ends early only at a mark: otherwise the next thing to write would
\* not have fitted.
SectionsFull ==
  Built =>
    \A i \in Table \ {first} :
      \/ \E m \in DOMAIN descriptors :
           /\ descriptors[m] = SECTION_END_MARK
           /\ \A e \in Carried(i - 1) : Precedes(e, m)
           /\ \A e \in Carried(i) : ~Precedes(e, m)
      \/ StartsFull(i, "net_desc", BASE_LEN, NetLens)

Room == max_section_length - 3 - CRC_LEN - BASE_LENGTH

TooSmall ==
  \/ Room < 0
  \/ \E n \in DOMAIN descriptors : descriptors[n] > Room
  \/ \E i \in DOMAIN items : BASE_LEN + ItemDescMax(i) > Room

\* A build dies in an assert exactly when some descriptor, with the headers it
\* needs, cannot fit in a section of its own.
BuildFailsIffTooSmall ==
  [][state # "IDLE" => /\ state' = "ABORTED" => TooSmall
                       /\ state' = "IDLE" => ~TooSmall]_vars

\* A build ends.
BuildEnds == [](state = "MALLOC_SEC" => <>(state \in {"IDLE", "ABORTED"}))
==============================================================================
