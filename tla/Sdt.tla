--------------------------------- MODULE Sdt ---------------------------------
(***************************************************************************)
(* SDT of sdt.h / sdt.cc: one loop of services, each with its descriptors. *)
(* The length of a service's descriptor loop shares its 16 bits with the   *)
(* running status and the free_CA flag.                                    *)
(***************************************************************************)
EXTENDS ExtPsiTable

CONSTANT ServiceArgs   \* what addService is given, besides the id

ASSUME SdtArgs ==
  ServiceArgs \subseteq [running_status : ui8, eit_schedule : BOOLEAN,
                         eit_present_following : BOOLEAN, free_ca_mode : BOOLEAN]

VARIABLES
  services,   \* the fields of the services, in the order of items
  run         \* the mutable Context kept across calls of writeSection

vars == << psiVars, extVars, services, run >>

BASE_LENGTH == 8
MAX_SEC_LEN == 1024
BASE_LEN == 5        \* Service::BASE_LEN
D_BIT == 1           \* data_bit's default

\* serv is a position in items; 0 is nullptr.
Context == [op_state |-> "INIT", serv |-> 0, s_iter |-> 1]

Init == /\ PsiInit(BASE_LENGTH, MAX_SEC_LEN) /\ ExtInit
        /\ services = << >>
        /\ run = Context

\* running_status is a 3-bit field.
threeBitsUnmasked(rs) == rs   \* mutant
threeBits(rs) == rs % 8

addService(sid, args) ==
  /\ addItem(DOMAIN items, sid, sid, BASE_LEN)
  /\ services' = Append(services, [args EXCEPT !.running_status = threeBits(@)])
  /\ UNCHANGED run

addServiceDesc ==
  /\ \E d_len \in DescLens : \/ addLastItemDesc(DOMAIN items, d_len)
                             \/ \E sid \in ItemIds : addItemDesc(DOMAIN items, sid, d_len)
  /\ UNCHANGED << services, run >>

-----------------------------------------------------------------------------
(* writeSection, one action per case.                                      *)

Bit(b) == IF b THEN 1 ELSE 0

\* Service::write_header ors the two flags into the same bit.
flags(s) == 252 + Bit(s.eit_schedule \/ s.eit_present_following)

\* Service::write_desc_loop_len.
serviceLoopLen(s, len) ==
  8192 * s.running_status + 4096 * Bit(s.free_ca_mode) + (len % LEN_MASK)

ServiceLoopPatched ==
  overwrite(cur, desc_loop.pos, serviceLoopLen(services[run.serv], desc_loop.len))

At(op_state) == state = "WRITE_SEC" /\ run.op_state = op_state

Leave(done, s) == WriteSecReturn(done, s, sec_bytes, D_BIT)

\* INIT falls through to WRITE_HEAD.
WriteHead ==
  /\ state = "WRITE_SEC" /\ run.op_state \in {"INIT", "WRITE_HEAD"}
  /\ IF lengthFits(cur, HEADER_LEN + 3)
     THEN /\ WriteSecContinue(put(writeSectionHeader(cur, D_BIT),
                                  Entry("network_id", 0, 0), 3),
                              BASE_LENGTH)
          /\ run' = [run EXCEPT
               !.op_state = IF run.serv = 0 THEN "GET_SERVICE" ELSE "WRITE_SERVICE",
               !.s_iter = IF run.op_state = "INIT" THEN 1 ELSE @]
     ELSE Abort /\ UNCHANGED run
  /\ UNCHANGED << attributes, length, extVars, services >>

Fetched(op_state) ==
  [op_state |-> op_state, serv |-> run.s_iter, s_iter |-> run.s_iter + 1]

GetServiceFull ==
  /\ At("GET_SERVICE") /\ run.s_iter <= Len(items)
  /\ ItemStartsTooLong(run.s_iter, BASE_LEN)
  /\ run' = Fetched("WRITE_HEAD")
  /\ Leave(FALSE, cur)
  /\ UNCHANGED << attributes, length, extVars, services >>

GetServiceFits ==
  /\ At("GET_SERVICE") /\ run.s_iter <= Len(items)
  /\ ~ItemStartsTooLong(run.s_iter, BASE_LEN)
  /\ run' = Fetched("WRITE_SERVICE")
  /\ UNCHANGED << psiVars, extVars, services >>

GetServiceEnd ==
  /\ At("GET_SERVICE") /\ run.s_iter > Len(items)
  /\ run' = Context
  /\ Leave(TRUE, cur)
  /\ UNCHANGED << attributes, length, extVars, services >>

\* WRITE_SERVICE is in the service's own write_section.
ServiceWrites ==
  /\ At("WRITE_SERVICE")
  /\ \/ ItemWriteHead(run.serv, BASE_LEN, flags(services[run.serv]))
     \/ ItemGetDescFits(run.serv)
     \/ ItemWriteDesc(run.serv)
  /\ UNCHANGED << attributes, length, services, run >>

ServiceFull ==
  /\ At("WRITE_SERVICE")
  /\ ItemGetDescFull(run.serv)
  /\ run' = [run EXCEPT !.op_state = "WRITE_HEAD"]
  /\ Leave(FALSE, ServiceLoopPatched)
  /\ UNCHANGED << attributes, length, services >>

ServiceDone ==
  /\ At("WRITE_SERVICE")
  /\ ItemGetDescEnd(run.serv)
  /\ run' = [run EXCEPT !.op_state = "GET_SERVICE"]
  /\ WriteSecContinue(ServiceLoopPatched, sec_bytes)
  /\ UNCHANGED << attributes, length, services >>

writeSection ==
  \/ WriteHead
  \/ GetServiceFull \/ GetServiceFits \/ GetServiceEnd
  \/ ServiceWrites \/ ServiceFull \/ ServiceDone

-----------------------------------------------------------------------------

Api == \/ /\ Configure \/ buildSections
          /\ UNCHANGED << extVars, services, run >>
       \/ \E sid \in ItemIds, args \in ServiceArgs : addService(sid, args)
       \/ addServiceDesc

\* A build in progress runs to its end before the application goes on.
BuildStep == \/ /\ MallocSec \/ EndTable
                /\ UNCHANGED << extVars, services, run >>
             \/ writeSection

Next == Api \/ BuildStep

Spec == Init /\ [][Next]_vars

-----------------------------------------------------------------------------
(* Properties.                                                             *)

TypeOK ==
  /\ PsiTypeOK /\ ExtTypeOK
  /\ stream \in Seq(Sections(Entries({"network_id", "item", "desc_loop_len", "desc"})))
  /\ services \in Seq([running_status : 0 .. 7, eit_schedule : BOOLEAN,
                       eit_present_following : BOOLEAN, free_ca_mode : BOOLEAN])
  /\ Len(services) = Len(items)
  /\ run \in [op_state : {"INIT", "WRITE_HEAD", "GET_SERVICE", "WRITE_SERVICE"},
              serv : 0 .. Len(items), s_iter : 1 .. Len(items) + 1]

\* A receiver reads of each service, in each section that carries a part of it,
\* its own running status and free_CA flag and the length of just the
\* descriptors that follow there; and the section ends where its length says.
\* Past 4096 bytes neither length fits in its 12 bits.
SectionsParse ==
  Built => \A i \in Table : stream[i].size <= 4096 =>
    LET p == stream[i].payload IN
      /\ p[1].kind = "network_id"
      /\ ItemsParse(p, 2, LAMBDA owner, len :
           len + 4096 * (Bit(services[owner].free_ca_mode)
                           + 2 * services[owner].running_status))
      /\ stream[i].section_length % LEN_MASK
           = BASE_LENGTH + ItemBytes(p, BASE_LEN) + CRC_LEN

\* The services and their descriptors are carried once each and in order; and a
\* section ends only where what comes next would not have fitted.
PackedInOrder ==
  Built => /\ CarriedInOrder("none", {})
           /\ \A i \in Table \ {first} : StartsFull(i, "none", BASE_LEN, << >>)

\* Receivers can tell the two EIT flags of a service apart: headers with the same
\* byte of flags are of services whose flags are the same.
FlagsApart ==
  \A s, t \in DOMAIN stream :
    \A j \in DOMAIN stream[s].payload, k \in DOMAIN stream[t].payload :
      LET a == stream[s].payload[j]
          b == stream[t].payload[k] IN
        a.kind = "item" /\ b.kind = "item" /\ a.n = b.n =>
          /\ services[a.owner].eit_schedule = services[b.owner].eit_schedule
          /\ services[a.owner].eit_present_following
               = services[b.owner].eit_present_following
==============================================================================
