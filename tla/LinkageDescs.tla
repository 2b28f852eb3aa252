----------------------------- MODULE LinkageDescs -----------------------------
(***************************************************************************)
(* The descriptors of linkage_desc.h / linkage_desc.cc and of ssu_desc.h / *)
(* ssu_desc.cc, derived from LinkageDesc and from _DataBroadcastIdDesc.    *)
(***************************************************************************)
EXTENDS DescLayout

Linkage_bits == [xport_stream_id |-> 16, original_network_id |-> 16, service_id |-> 16,
                 linkage_type |-> 8]
Linkage_fields == << Whole(2, "xport_stream_id"), Whole(2, "original_network_id"),
                     Whole(2, "service_id"), Whole(1, "linkage_type") >>

\* Its constructor throws for the linkage types that have a class of their own.
LinkageDesc == [Class(7, Linkage_bits) EXCEPT !.data = CHECKED]
LinkageDesc_build == Writes(LinkageDesc, Linkage_fields \o << Data >>)

\* setPrivateData is LinkageDesc's: the vector of this class is never set.
MobileHandoverLinkageDesc == [Class(7 + 3,
  Linkage_bits @@ [hand_over_type |-> 4, origin_type |-> 1, network_id |-> 16,
                   initial_service_id |-> 16])
  EXCEPT !.data = CHECKED, !.options = [not_HO_RESERVED |-> 2, NIT |-> 2]]
MobileHandoverLinkageDesc_build == Writes(MobileHandoverLinkageDesc,
  Linkage_fields
    \o << Data,
          Word(1, << At("hand_over_type", 4), Ones(1, 3), At("origin_type", 0) >>),
          If("not_HO_RESERVED", << Whole(2, "network_id") >>),
          If("NIT", << Whole(2, "initial_service_id") >>) >>)

\* expected_length is a ui8, and so is OUI_data_length, which sums it up.
SSULinkageDesc == [Class(7 + 1, Linkage_bits @@ [OUI |-> 24])
  EXCEPT !.data = CHECKED, !.entries = "oui" :> Counts(4)]
SSULinkageDesc_build == WritesLoops(SSULinkageDesc,
  Linkage_fields \o << LoopLen("oui"), LoopOf("oui"), Data >>,
  "oui" :> << Whole(3, "OUI"), TextLen(1), Text(1) >>)

\* The table type is written and was not counted.
SSUScanLinkageDesc == [Class(7, Linkage_bits @@ [table_type |-> 8])
                         EXCEPT !.data = CHECKED]
SSUScanLinkageDesc_build ==
  Writes(SSUScanLinkageDesc, Linkage_fields \o << Data, Whole(1, "table_type") >>)

SSUDataBroadcastIdDesc == [Class(1 + 2,
  [data_broadcast_id |-> 16, OUI |-> 24, update_type |-> 4, update_versioning_flag |-> 1,
   update_version |-> 5])
  EXCEPT !.data = CHECKED, !.entries = "oui" :> Counts(6)]
SSUDataBroadcastIdDesc_build == WritesLoops(SSUDataBroadcastIdDesc,
  << Whole(2, "data_broadcast_id"), LoopLen("oui"), LoopOf("oui"), Data >>,
  "oui" :> << Whole(3, "OUI"), Word(1, << Ones(4, 4), At("update_type", 0) >>),
              Word(1, << Ones(6, 2), At("update_versioning_flag", 5),
                         At("update_version", 0) >>),
              TextLen(1), Text(1) >>)

LinkageClasses ==
  [LinkageDesc |-> LinkageDesc_build,
   MobileHandoverLinkageDesc |-> MobileHandoverLinkageDesc_build,
   SSULinkageDesc |-> SSULinkageDesc_build,
   SSUScanLinkageDesc |-> SSUScanLinkageDesc_build,
   SSUDataBroadcastIdDesc |-> SSUDataBroadcastIdDesc_build]
==============================================================================
