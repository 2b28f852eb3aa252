------------------------------- MODULE DvbDesc -------------------------------
(* The descriptors of dvb_desc.h / dvb_desc.cc (MosaicDesc is not implemented). *)
EXTENDS DescLayout

BouquetNameDesc == StringDataDesc_build

CAIdentifierDesc == [Class(0, [system_id |-> 16])
                       EXCEPT !.entries = "id" :> Counts(2)]
CAIdentifierDesc_build ==
  WritesLoops(CAIdentifierDesc, << LoopOf("id") >>, "id" :> << Whole(2, "system_id") >>)

CountryAvailabilityDesc ==
  [Class(1, [country_availability_flag |-> 1])
     EXCEPT !.entries = "country" :> Counts(3)]
CountryAvailabilityDesc_build == WritesLoops(CountryAvailabilityDesc,
  << Word(1, << At("country_availability_flag", 7), Ones(0, 7) >>), LoopOf("country") >>,
  "country" :> << Code >>)

DataBroadcastDesc ==
  [Class(8, [data_broadcast_id |-> 16, component_tag |-> 8])
     EXCEPT !.strings = << ANY, ANY >>]
DataBroadcastDesc_build == Writes(DataBroadcastDesc,
  << Whole(2, "data_broadcast_id"), Whole(1, "component_tag"),
     TextLen(1), Text(1), Code, TextLen(2), Text(2) >>)

DSNGDesc == StringDataDesc_build

LocalTimeOffsetDesc == [Class(0,
  [country_region_id |-> 6, local_time_offset_polarity |-> 1, local_time_offset |-> 16,
   mjd |-> 16, bcd_hour |-> 8, bcd_minute |-> 8, bcd_second |-> 8, next_time_offset |-> 16])
  EXCEPT !.entries = "time_offset" :> Counts(13)]
LocalTimeOffsetDesc_build == WritesLoops(LocalTimeOffsetDesc, << LoopOf("time_offset") >>,
  "time_offset" :>
    << Code,
       Word(1, << At("country_region_id", 2), Ones(1, 1),
                  At("local_time_offset_polarity", 0) >>),
       Whole(2, "local_time_offset"), Whole(2, "mjd"), Whole(1, "bcd_hour"),
       Whole(1, "bcd_minute"), Whole(1, "bcd_second"), Whole(2, "next_time_offset") >>)

MultilingualBouquetNameDesc ==
  MultilingualTextDesc_build(MultilingualTextDesc(0, << >>))

PartialTransportStreamDesc == Class(8,
  [peak_rate |-> 22, min_overall_smoothing_rate |-> 22, max_overall_smoothing_buffer |-> 14])
PartialTransportStreamDesc_build == Writes(PartialTransportStreamDesc,
  << Word(3, << Ones(22, 2), At("peak_rate", 0) >>),
     Word(3, << Ones(22, 2), At("min_overall_smoothing_rate", 0) >>),
     Word(2, << Ones(14, 2), At("max_overall_smoothing_buffer", 0) >>) >>)

PrivateDataSpecifierDesc == Writes(Class(4, [data |-> 32]),
                                   << Whole(4, "data") >>)

ServiceListDesc == [Class(0, [id |-> 16, type |-> 8])
                      EXCEPT !.entries = "service" :> Counts(3)]
ServiceListDesc_build == WritesLoops(ServiceListDesc, << LoopOf("service") >>,
  "service" :> << Whole(2, "id"), Whole(1, "type") >>)

StuffingDesc == StringDataDesc_build

TransportStreamDesc == StringDataDesc_build

\* MAX_CP_LEN, MAX_IAC_LEN, MAX_OC_LEN, MAX_NAC_LEN, MAX_CN_LEN: the widths of
\* the lengths written are those the limits need.
set_code == << 3, 7, 3, 7, 15 >>
TelephoneDesc == [Class(3,
  [foreign_availability |-> 1, connection_type |-> 5, cp_len |-> 2, iac_len |-> 3,
   oc_len |-> 2, nac_len |-> 3, cn_len |-> 4])
  EXCEPT !.strings = set_code]
TelephoneDesc_build == Writes(TelephoneDesc,
  << Word(1, << Ones(6, 2), At("foreign_availability", 5), At("connection_type", 0) >>),
     Word(1, << Ones(7, 1), At("cp_len", 5), At("iac_len", 2), At("oc_len", 0) >>),
     Word(1, << Ones(7, 1), At("nac_len", 4), At("cn_len", 0) >>),
     Text(1), Text(2), Text(3), Text(4), Text(5) >>)

DvbClasses ==
  [BouquetNameDesc |-> BouquetNameDesc, CAIdentifierDesc |-> CAIdentifierDesc_build,
   CountryAvailabilityDesc |-> CountryAvailabilityDesc_build,
   DataBroadcastDesc |-> DataBroadcastDesc_build, DSNGDesc |-> DSNGDesc,
   LocalTimeOffsetDesc |-> LocalTimeOffsetDesc_build,
   MultilingualBouquetNameDesc |-> MultilingualBouquetNameDesc,
   PartialTransportStreamDesc |-> PartialTransportStreamDesc_build,
   PrivateDataSpecifierDesc |-> PrivateDataSpecifierDesc,
   ServiceListDesc |-> ServiceListDesc_build, StuffingDesc |-> StuffingDesc,
   TransportStreamDesc |-> TransportStreamDesc,
   TelephoneDesc |-> TelephoneDesc_build]
==============================================================================
