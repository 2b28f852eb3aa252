--------------------------------- MODULE Pmt ---------------------------------
(***************************************************************************)
(* PMT of pmt.h / pmt.cc: a loop of program descriptors, announced by a    *)
(* length patched when it is known, then the elementary streams to the end *)
(* of the section, each with its descriptors.                              *)
(***************************************************************************)
EXTENDS ExtPsiTable

CONSTANTS
  ProgDescLens,    \* what addProgramDesc adds
  MaxProgDescs     \* bound

ASSUME PmtArgs == ProgDescLens \subseteq DescLength /\ MaxProgDescs \in Nat

VARIABLES
  prog_desc,            \* the DescList of program descriptors
  program_info_length,
  run,                  \* the mutable Context kept across calls of writeSection
  info,                 \* writeSection's prog_info_len and prog_info_len_pos
  asked                 \* history: the elem_pid each stream was added with

vars == << psiVars, extVars, prog_desc, program_info_length, run, info, asked >>

BASE_LENGTH == 9
MAX_SEC_LEN == 1024
BASE_LEN == 5        \* ElementaryStream::BASE_LEN
D_BIT == 0

\* pd and es are positions in the lists; 0 is nullptr.
Context == [d_done |-> FALSE, op_state |-> "INIT",
            pd |-> 0, es |-> 0, pd_iter |-> 1, es_iter |-> 1]

NoInfo == [pos |-> 0, len |-> 0]

Init == /\ PsiInit(BASE_LENGTH, MAX_SEC_LEN) /\ ExtInit
        /\ prog_desc = << >> /\ program_info_length = 0
        /\ run = Context /\ info = NoInfo /\ asked = << >>

\* elementary_pid is a 13-bit field, and so is pcr_pid.
twelveBits(pid) == pid % 4096    \* mutant
thirteenBits(pid) == pid % 8192

addProgramDesc(d_len) ==
  /\ state = "IDLE" /\ Len(prog_desc) < MaxProgDescs
  /\ incLength(d_len)
  /\ prog_desc' = Append(prog_desc, d_len)
  /\ program_info_length' = (program_info_length + d_len) % 65536
  /\ UNCHANGED << attributes, driver, extVars, run, info, asked >>

addElemStream(elem_pid) ==
  /\ addItem(DOMAIN items, elem_pid, thirteenBits(elem_pid), BASE_LEN)
  /\ asked' = Append(asked, elem_pid)
  /\ UNCHANGED << prog_desc, program_info_length, run, info >>

addElemStreamDesc ==
  /\ \E d_len \in DescLens : \/ addLastItemDesc(DOMAIN items, d_len)
                             \/ \E elem_pid \in ItemIds :
                                  addItemDesc(DOMAIN items, elem_pid, d_len)
  /\ UNCHANGED << prog_desc, program_info_length, run, info, asked >>

-----------------------------------------------------------------------------
(* writeSection, one action per case.                                      *)

table == << attributes, length, prog_desc, program_info_length, asked >>

At(op_state) == state = "WRITE_SEC" /\ run.op_state = op_state

\* Every way out of writeSection; its locals are gone.
Leave(done, s) ==
  /\ WriteSecReturn(done, s, sec_bytes, D_BIT)
  /\ info' = NoInfo

\* INIT falls through to WRITE_HEAD: the header, the PCR pid, the length.
WriteHead ==
  /\ state = "WRITE_SEC" /\ run.op_state \in {"INIT", "WRITE_HEAD"}
  /\ IF lengthFits(cur, HEADER_LEN + 4)
     THEN /\ WriteSecContinue(put(put(writeSectionHeader(cur, D_BIT),
                                      Entry("pcr_pid", 0, 0), 2),
                                  Entry("prog_info_len", 0, 0), 2),
                              BASE_LENGTH)
          /\ info' = [pos |-> 2, len |-> 0]
          /\ run' = [run EXCEPT
               !.op_state = IF run.pd = 0 THEN "GET_PROG_DESC" ELSE "WRITE_PROG_DESC",
               !.pd_iter = IF run.op_state = "INIT" THEN 1 ELSE @,
               !.es_iter = IF run.op_state = "INIT" THEN 1 ELSE @]
     ELSE Abort /\ UNCHANGED << run, info >>
  /\ UNCHANGED << table, extVars >>

MoreProgDescs == ~run.d_done /\ run.pd_iter <= Len(prog_desc)

ProgDescTooLong == sec_bytes + prog_desc[run.pd_iter] > getMaxDataLen

\* GET_PROG_DESC begins by storing the length of the loop so far.
infoNeverStored == cur   \* mutant
infoStored == overwrite(cur, info.pos, loopLen(info.len))

GetProgDescFull ==
  /\ At("GET_PROG_DESC") /\ MoreProgDescs /\ ProgDescTooLong
  /\ run' = [run EXCEPT !.op_state = "WRITE_HEAD", !.pd = run.pd_iter, !.pd_iter = @ + 1]
  /\ Leave(FALSE, infoStored)
  /\ UNCHANGED << table, extVars >>

GetProgDescFits ==
  /\ At("GET_PROG_DESC") /\ MoreProgDescs /\ ~ProgDescTooLong
  /\ run' = [run EXCEPT !.op_state = "WRITE_PROG_DESC", !.pd = run.pd_iter, !.pd_iter = @ + 1]
  /\ WriteSecContinue(infoStored, sec_bytes)
  /\ UNCHANGED << table, extVars, info >>

\* Once the descriptors are done they are done for all later sections, and a
\* pending stream goes on.
streamsRefetched == "GET_XPORT_STREAM"   \* mutant
streamsNext == IF run.es = 0 THEN "GET_XPORT_STREAM" ELSE "WRITE_XPORT_STREAM"

NoMoreProgDescs ==
  /\ At("GET_PROG_DESC") /\ ~MoreProgDescs
  /\ run' = [run EXCEPT !.op_state = streamsNext,
                        !.d_done = TRUE,
                        !.pd = IF run.d_done THEN @ ELSE 0]
  /\ WriteSecContinue(infoStored, sec_bytes)
  /\ UNCHANGED << table, extVars, info >>

WriteProgDesc ==
  /\ At("WRITE_PROG_DESC")
  /\ LET d_len == prog_desc[run.pd] IN
       IF lengthFits(cur, d_len)
       THEN /\ WriteSecContinue(put(cur, Entry("prog_desc", 0, run.pd), d_len),
                                (sec_bytes + d_len) % 65536)
            /\ info' = [info EXCEPT !.len = (@ + d_len) % 65536]
            /\ run' = [run EXCEPT !.op_state = "GET_PROG_DESC"]
       ELSE Abort /\ UNCHANGED << run, info >>
  /\ UNCHANGED << table, extVars >>

GetStreamFull ==
  /\ At("GET_XPORT_STREAM") /\ run.es_iter <= Len(items)
  /\ ItemStartsTooLong(run.es_iter, BASE_LEN)
  /\ run' = [run EXCEPT !.op_state = "WRITE_HEAD", !.es = run.es_iter, !.es_iter = @ + 1]
  /\ Leave(FALSE, cur)
  /\ UNCHANGED << table, extVars >>

GetStreamFits ==
  /\ At("GET_XPORT_STREAM") /\ run.es_iter <= Len(items)
  /\ ~ItemStartsTooLong(run.es_iter, BASE_LEN)
  /\ run' = [run EXCEPT !.op_state = "WRITE_XPORT_STREAM", !.es = run.es_iter,
                        !.es_iter = @ + 1]
  /\ UNCHANGED << table, driver, extVars, info >>

GetStreamEnd ==
  /\ At("GET_XPORT_STREAM") /\ run.es_iter > Len(items)
  /\ run' = Context
  /\ Leave(TRUE, cur)
  /\ UNCHANGED << table, extVars >>

\* WRITE_XPORT_STREAM is in the stream's own write_section; its header is the
\* type and the pid behind three reserved bits.
StreamWrites ==
  /\ At("WRITE_XPORT_STREAM")
  /\ \/ ItemWriteHead(run.es, BASE_LEN, 57344 + items[run.es].id)
     \/ ItemGetDescFits(run.es)
     \/ ItemWriteDesc(run.es)
  /\ UNCHANGED << table, run, info >>

StreamFull ==
  /\ At("WRITE_XPORT_STREAM")
  /\ ItemGetDescFull(run.es)
  /\ run' = [run EXCEPT !.op_state = "WRITE_HEAD"]
  /\ Leave(FALSE, LoopPatched(cur))
  /\ UNCHANGED table

StreamDone ==
  /\ At("WRITE_XPORT_STREAM")
  /\ ItemGetDescEnd(run.es)
  /\ run' = [run EXCEPT !.op_state = "GET_XPORT_STREAM"]
  /\ WriteSecContinue(LoopPatched(cur), sec_bytes)
  /\ UNCHANGED << table, info >>

writeSection ==
  \/ WriteHead
  \/ GetProgDescFull \/ GetProgDescFits \/ NoMoreProgDescs \/ WriteProgDesc
  \/ GetStreamFull \/ GetStreamFits \/ GetStreamEnd
  \/ StreamWrites \/ StreamFull \/ StreamDone

-----------------------------------------------------------------------------

Api == \/ /\ Configure \/ buildSections
          /\ UNCHANGED << extVars, prog_desc, program_info_length, run, info, asked >>
       \/ \E d_len \in ProgDescLens : addProgramDesc(d_len)
       \/ \E elem_pid \in ItemIds : addElemStream(elem_pid)
       \/ addElemStreamDesc

\* A build in progress runs to its end before the application goes on.
BuildStep ==
  \/ /\ MallocSec \/ EndTable
     /\ UNCHANGED << extVars, prog_desc, program_info_length, run, info, asked >>
  \/ writeSection

Next == Api \/ BuildStep

Spec == Init /\ [][Next]_vars

-----------------------------------------------------------------------------
(* Properties.                                                             *)

TypeOK ==
  /\ PsiTypeOK /\ ExtTypeOK
  /\ stream \in Seq(Sections(Entries(
       {"pcr_pid", "prog_info_len", "prog_desc", "item", "desc_loop_len", "desc"})))
  /\ prog_desc \in Seq(DescLength) /\ program_info_length \in ui16
  /\ run \in [d_done : BOOLEAN,
              op_state : {"INIT", "WRITE_HEAD", "GET_PROG_DESC", "WRITE_PROG_DESC",
                          "GET_XPORT_STREAM", "WRITE_XPORT_STREAM"},
              pd : 0 .. Len(prog_desc), es : 0 .. Len(items),
              pd_iter : 1 .. Len(prog_desc) + 1, es_iter : 1 .. Len(items) + 1]
  /\ info \in [pos : Nat, len : ui16]
  /\ asked \in Seq(ui16) /\ Len(asked) = Len(items)

ProgBytes(p) ==
  Total([k \in DOMAIN p |-> IF p[k].kind = "prog_desc" THEN prog_desc[p[k].n] ELSE 0])

\* Each section is read by the lengths it carries: program_info_length leads past
\* the program descriptors of this very section (none, once they were all in
\* earlier ones), the length of each stream's loop past that stream's, and
\* section_length to the end, of a section that can state its length.
SectionsParse ==
  Built => \A i \in Table : stream[i].size <= 4096 =>
    LET p == stream[i].payload
    IN \E n \in 0 .. Len(p) :
       /\ p[1].kind = "pcr_pid" /\ p[2].kind = "prog_info_len"
       /\ \A j \in 3 .. Len(p) : p[j].kind = "prog_desc" <=> j <= n + 2
       /\ p[2].n = loopLen(ProgBytes(p))
       /\ ItemsParse(p, n + 3, LAMBDA owner, len : loopLen(len))
       /\ stream[i].section_length % LEN_MASK
            = BASE_LENGTH + ProgBytes(p) + ItemBytes(p, BASE_LEN) + CRC_LEN

\* Program descriptors, then streams and their descriptors, are carried once each
\* and in order; and a section ends only where what comes next would not have
\* fitted.
PackedInOrder ==
  Built => /\ CarriedInOrder("prog_desc", DOMAIN prog_desc)
           /\ \A i \in Table \ {first} : StartsFull(i, "prog_desc", BASE_LEN, prog_desc)

\* With CHECK_DUPLICATES two streams share the pid that goes on the wire only
\* when the later one was asked for with a pid of more than 13 bits: duplicates
\* are looked for with the bits the stream will not keep.
PidsUnique ==
  CHECK_DUPLICATES =>
    \A i, j \in DOMAIN items :
      i < j /\ items[i].id = items[j].id => asked[j] > 8191
==============================================================================
