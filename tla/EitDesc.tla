------------------------------- MODULE EitDesc -------------------------------
(* The descriptors of eit_desc.h / eit_desc.cc and of eacem_desc.h / eacem_desc.cc. *)
EXTENDS DescLayout

ComponentDesc ==
  [Class(6, [stream_content |-> 4, component_type |-> 8, component_tag |-> 8])
     EXCEPT !.strings = << ANY >>]
ComponentDesc_build == Writes(ComponentDesc,
  << Word(1, << Ones(4, 4), At("stream_content", 0) >>), Whole(1, "component_type"),
     Whole(1, "component_tag"), Code, Text(1) >>)

ContentDesc == [Class(0,
  [nibble_level_1 |-> 4, nibble_level_2 |-> 4, user_nibble_1 |-> 4, user_nibble_2 |-> 4])
  EXCEPT !.entries = "content" :> Counts(2)]
ContentDesc_build == WritesLoops(ContentDesc, << LoopOf("content") >>,
  "content" :> << Word(1, << At("nibble_level_1", 4), At("nibble_level_2", 0) >>),
                  Word(1, << At("user_nibble_1", 4), At("user_nibble_2", 0) >>) >>)

\* An item's length is a ui16 handed to a ui8; itemListSize adds items up in a ui8.
ExtendedEventDesc == [Class(6,
  [descriptor_number |-> 4, last_descriptor_number |-> 4])
  EXCEPT !.strings = << ANY >>, !.entries = "item" :> Counts(2)]
ExtendedEventDesc_build == WritesLoops(ExtendedEventDesc,
  << Word(1, << At("descriptor_number", 4), At("last_descriptor_number", 0) >>), Code,
     LoopLen("item"), LoopOf("item"), TextLen(1), Text(1) >>,
  "item" :> << TextLen(1), Text(1), TextLen(2), Text(2) >>)

MultilingualComponentDesc ==
  MultilingualTextDesc(1, [component_tag |-> 8])
MultilingualComponentDesc_build == WritesLoops(MultilingualComponentDesc,
  << Whole(1, "component_tag"), LoopOf("text") >>, buildLoopData)

ParentalRatingDesc == [Class(0, [value |-> 8])
                         EXCEPT !.entries = "rating" :> Counts(4)]
ParentalRatingDesc_build == WritesLoops(ParentalRatingDesc, << LoopOf("rating") >>,
  "rating" :> << Code, Whole(1, "value") >>)

\* setBits of a ui32: four bytes.
PDCDesc == Class(3, [programme_identification_label |-> 20])
PDCDesc_build == Writes(PDCDesc,
  << Word(4, << Ones(20, 4), At("programme_identification_label", 0) >>) >>)

ShortEventDesc == [Class(5, << >>) EXCEPT !.strings = << ANY, ANY >>]
ShortEventDesc_build == Writes(ShortEventDesc,
  << Code, TextLen(1), Text(1), TextLen(2), Text(2) >>)

ShortSmoothingBufferDesc ==
  [Class(1, [sb_size |-> 2, sb_leak_rate |-> 6])
     EXCEPT !.strings = << ANY >>]
ShortSmoothingBufferDesc_build == Writes(ShortSmoothingBufferDesc,
  << Word(1, << At("sb_size", 6), At("sb_leak_rate", 0) >>), Text(1) >>)

TimeShiftedEventDesc == Class(4,
  [ref_service_id |-> 16, ref_event_id |-> 16])
TimeShiftedEventDesc_build ==
  Writes(TimeShiftedEventDesc, << Whole(2, "ref_service_id"), Whole(2, "ref_event_id") >>)

-----------------------------------------------------------------------------
(* eacem_desc.h / eacem_desc.cc: the namespace EACEM. *)

EACEM_PrivateDataSpecifierDesc ==
  Writes(Class(4, [data |-> 32]), << Whole(4, "data") >>)

EACEM_StreamIdentifierDesc ==
  Writes(Class(1, [data |-> 8]), << Whole(1, "data") >>)

LogicalChannelDesc == [Class(0,
  [sid |-> 16, visible_service_flag |-> 1, logical_channel_number |-> 10])
  EXCEPT !.entries = "channel" :> Counts(4)]
LogicalChannelDesc_build == WritesLoops(LogicalChannelDesc, << LoopOf("channel") >>,
  "channel" :> << Whole(2, "sid"),
                  Word(2, << At("visible_service_flag", 15), Ones(10, 5),
                             At("logical_channel_number", 0) >>) >>)

EitClasses ==
  [ComponentDesc |-> ComponentDesc_build, ContentDesc |-> ContentDesc_build,
   ExtendedEventDesc |-> ExtendedEventDesc_build,
   MultilingualComponentDesc |-> MultilingualComponentDesc_build,
   ParentalRatingDesc |-> ParentalRatingDesc_build, PDCDesc |-> PDCDesc_build,
   ShortEventDesc |-> ShortEventDesc_build,
   ShortSmoothingBufferDesc |-> ShortSmoothingBufferDesc_build,
   TimeShiftedEventDesc |-> TimeShiftedEventDesc_build,
   EACEM_PrivateDataSpecifierDesc |-> EACEM_PrivateDataSpecifierDesc,
   EACEM_StreamIdentifierDesc |-> EACEM_StreamIdentifierDesc,
   LogicalChannelDesc |-> LogicalChannelDesc_build]
==============================================================================
