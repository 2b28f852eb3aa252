------------------------------- MODULE PmtDesc -------------------------------
(* The descriptors of pmt_desc.h / pmt_desc.cc and of sdt_desc.h / sdt_desc.cc. *)
EXTENDS DescLayout

AdaptationFieldDataDesc == Writes(Class(1, [data |-> 8]),
                                  << Whole(1, "data") >>)

\* fields[i].on is one of the settable options, fields[i].val its byte.
fields ==
  << "COMPONENT_TYPE", "BSID", "MAINID", "ASVC",
     "MIXINFO_EXISTS", "SUBSTREAM_1", "SUBSTREAM_2", "SUBSTREAM_3" >>
_AC3Desc(num_fields) ==
  [Class(1, [f \in {fields[i] : i \in 1 .. num_fields} |-> 1] @@ [val |-> 8])
    EXCEPT !.settable = [f \in {fields[i] : i \in 1 .. num_fields} |->
                           IF f = "MIXINFO_EXISTS" THEN 0 ELSE 1],
           !.data = UNCHECKED]
AC3_bits(class, num_fields) ==
  Writes(class,
    << Word(1, [i \in 1 .. num_fields |-> At(fields[i], 8 - i)]
                 \o (IF num_fields = 4 THEN << Ones(0, 4) >> ELSE << >>)) >>
    \o [i \in 1 .. num_fields |->
          If(fields[i], IF fields[i] = "MIXINFO_EXISTS" THEN << >>
                        ELSE << Whole(1, "val") >>)]
    \o << Data >>)

AC3Desc == AC3_bits(_AC3Desc(4), 4)
ExtendedAC3Desc == AC3_bits(_AC3Desc(8), 8)

AncillaryDataDesc == Writes(Class(1, [data |-> 8]), << Whole(1, "data") >>)

_DataBroadcastIdDesc(base_len) ==
  Class(base_len + 2, [data_broadcast_id |-> 16])
_DataBroadcastIdDesc_build == << Whole(2, "data_broadcast_id") >>

DataBroadcastIdDesc == [_DataBroadcastIdDesc(0) EXCEPT !.data = CHECKED]
DataBroadcastIdDesc_build == Writes(DataBroadcastIdDesc, _DataBroadcastIdDesc_build \o << Data >>)

ServiceMoveDesc == Class(6,
  [original_network_id |-> 16, xport_stream_id |-> 16, new_service_id |-> 16])
ServiceMoveDesc_build == Writes(ServiceMoveDesc,
  << Whole(2, "original_network_id"), Whole(2, "xport_stream_id"), Whole(2, "new_service_id") >>)

StreamIdentifierDesc == Writes(Class(1, [data |-> 8]),
                               << Whole(1, "data") >>)

SubtitlingDesc == [Class(0,
  [type |-> 8, composition_page_id |-> 16, ancillary_page_id |-> 16])
  EXCEPT !.entries = "subtitling" :> Counts(8)]
SubtitlingDesc_build == WritesLoops(SubtitlingDesc, << LoopOf("subtitling") >>,
  "subtitling" :> << Code, Whole(1, "type"), Whole(2, "composition_page_id"),
                     Whole(2, "ancillary_page_id") >>)

TeletextDesc == [Class(0,
  [type |-> 5, magazine_number |-> 3, page_number |-> 8])
  EXCEPT !.entries = "teletext" :> Counts(5)]
TeletextDesc_build == WritesLoops(TeletextDesc, << LoopOf("teletext") >>,
  "teletext" :> << Code, Word(1, << At("type", 3), At("magazine_number", 0) >>),
                   Whole(1, "page_number") >>)

-----------------------------------------------------------------------------
(* sdt_desc.h / sdt_desc.cc. *)

\* The lengths of the two names are added to 5 in a ui8.
MultilingualServiceNameDesc ==
  [Class(0, << >>) EXCEPT !.entries = "language" :> Counts(5)]
MultilingualServiceNameDesc_build ==
  WritesLoops(MultilingualServiceNameDesc, << LoopOf("language") >>,
    "language" :> << Code, TextLen(1), Text(1), TextLen(2), Text(2) >>)

NVODReferenceDesc == [Class(0,
  [xport_stream_id |-> 16, original_network_id |-> 16, service_id |-> 16])
  EXCEPT !.entries = "ident" :> Counts(6)]
NVODReferenceDesc_build == WritesLoops(NVODReferenceDesc, << LoopOf("ident") >>,
  "ident" :> << Whole(2, "xport_stream_id"), Whole(2, "original_network_id"),
                Whole(2, "service_id") >>)

ServiceDesc == [Class(3, [type |-> 8]) EXCEPT !.strings = << ANY, ANY >>]
ServiceDesc_build == Writes(ServiceDesc,
  << Whole(1, "type"), TextLen(1), Text(1), TextLen(2), Text(2) >>)

TimeShiftedServiceDesc == Writes(Class(2, [data |-> 16]),
                                 << Whole(2, "data") >>)

PmtClasses ==
  [AdaptationFieldDataDesc |-> AdaptationFieldDataDesc, AC3Desc |-> AC3Desc,
   ExtendedAC3Desc |-> ExtendedAC3Desc, AncillaryDataDesc |-> AncillaryDataDesc,
   DataBroadcastIdDesc |-> DataBroadcastIdDesc_build,
   ServiceMoveDesc |-> ServiceMoveDesc_build,
   StreamIdentifierDesc |-> StreamIdentifierDesc,
   SubtitlingDesc |-> SubtitlingDesc_build, TeletextDesc |-> TeletextDesc_build,
   MultilingualServiceNameDesc |-> MultilingualServiceNameDesc_build,
   NVODReferenceDesc |-> NVODReferenceDesc_build, ServiceDesc |-> ServiceDesc_build,
   TimeShiftedServiceDesc |-> TimeShiftedServiceDesc]
==============================================================================
