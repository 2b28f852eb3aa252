------------------------------- MODULE MpegDesc -------------------------------
(* The descriptors of mpeg_desc.h / mpeg_desc.cc. *)
EXTENDS DescLayout

AudioStreamDesc == Class(1,
  [free_format_flag |-> 1, id |-> 1, layer |-> 2, variable_rate_indicator |-> 1])
AudioStreamDesc_build == Writes(AudioStreamDesc,
  << Word(1, << At("free_format_flag", 7), At("id", 6), At("layer", 4),
                At("variable_rate_indicator", 3), Ones(0, 3) >>) >>)

CADesc == [Class(4, [CA_system_id |-> 16, CA_pid |-> 13])
             EXCEPT !.strings = << ANY >>]
CADesc_build == Writes(CADesc,
  << Whole(2, "CA_system_id"), Word(2, << Ones(13, 3), At("CA_pid", 0) >>), Text(1) >>)

CopyrightDesc == [Class(4, [identifier |-> 32]) EXCEPT !.strings = << ANY >>]
CopyrightDesc_build == Writes(CopyrightDesc, << Whole(4, "identifier"), Text(1) >>)

DataStreamAlignmentDesc == Writes(Class(1, [data |-> 8]),
                                  << Whole(1, "data") >>)

HierarchyDesc == Class(4,
  [type |-> 4, layer_index |-> 6, embedded_layer |-> 6, priority |-> 6])
HierarchyDesc_build == Writes(HierarchyDesc,
  << Word(1, << Ones(4, 4), At("type", 0) >>), Word(1, << Ones(6, 2), At("layer_index", 0) >>),
     Word(1, << Ones(6, 2), At("embedded_layer", 0) >>),
     Word(1, << Ones(6, 2), At("priority", 0) >>) >>)

IBPDesc == Class(2,
  [closed_gop_flag |-> 1, identical_gop_flag |-> 1, max_gop_len |-> 14])
IBPDesc_build == Writes(IBPDesc,
  << Word(2, << At("closed_gop_flag", 15), At("identical_gop_flag", 14),
                At("max_gop_len", 0) >>) >>)

ISO639LanguageDesc == [Class(0, [audio_type |-> 8])
                         EXCEPT !.entries = "language" :> Counts(4)]
ISO639LanguageDesc_build == WritesLoops(ISO639LanguageDesc,
  << LoopOf("language") >>, "language" :> << Code, Whole(1, "audio_type") >>)

MaximumBitrateDesc == Class(3, [maximum_bitrate |-> 22])
MaximumBitrateDesc_build == Writes(MaximumBitrateDesc,
  << Word(3, << Ones(22, 2), At("maximum_bitrate", 0) >>) >>)

MultiplexBufferUtilizationDesc == Class(4,
  [bound_valid_flag |-> 1, LTW_offset_lb |-> 15, LTW_offset_ub |-> 14])
MultiplexBufferUtilizationDesc_build == Writes(MultiplexBufferUtilizationDesc,
  << Word(2, << At("bound_valid_flag", 15), At("LTW_offset_lb", 0) >>),
     Word(2, << Ones(15, 1), At("LTW_offset_ub", 0) >>) >>)

PrivateDataIndicatorDesc == Writes(Class(4, [data |-> 32]),
                                   << Whole(4, "data") >>)

RegistrationDesc == [Class(4, [identifier |-> 32])
                       EXCEPT !.strings = << ANY >>]
RegistrationDesc_build == Writes(RegistrationDesc, << Whole(4, "identifier"), Text(1) >>)

SmoothingBufferDesc == Class(6, [sb_leak_rate |-> 22, sb_size |-> 22])
SmoothingBufferDesc_build == Writes(SmoothingBufferDesc,
  << Word(3, << Ones(22, 2), At("sb_leak_rate", 0) >>),
     Word(3, << Ones(22, 2), At("sb_size", 0) >>) >>)

STDDesc == Class(1, [leak_valid_flag |-> 1])
STDDesc_build == Writes(STDDesc, << Word(1, << Ones(1, 3), At("leak_valid_flag", 0) >>) >>)

SystemClockDesc == Class(2,
  [external_clock_reference_indicator |-> 1, clock_accuracy_integer |-> 6,
   clock_accuracy_exponent |-> 3])
SystemClockDesc_build == Writes(SystemClockDesc,
  << Word(1, << At("external_clock_reference_indicator", 7), Ones(4, 3),
                At("clock_accuracy_integer", 0) >>),
     Word(1, << At("clock_accuracy_exponent", 5), Ones(0, 5) >>) >>)

TargetBackgroundGridDesc == Class(4,
  [horizontal_size |-> 14, vertical_size |-> 14, pel_aspect_ratio |-> 4])
TargetBackgroundGridDesc_build == Writes(TargetBackgroundGridDesc,
  << Word(4, << At("horizontal_size", 18), At("vertical_size", 4),
                At("pel_aspect_ratio", 0) >>) >>)

\* MPEG_2: constructed with MPEG_1_only_flag false.
VideoStreamDesc == [Class(1,
  [multiple_frame_rate_flag |-> 1, frame_rate_code |-> 4, MPEG_1_only_flag |-> 1,
   constrained_parameter_flag |-> 1, still_picture_flag |-> 1,
   profile_and_level_indication |-> 8, chroma_format |-> 2, frame_rate_extension_flag |-> 1])
  EXCEPT !.options = "MPEG_2" :> 2]
VideoStreamDesc_build == Writes(VideoStreamDesc,
  << Word(1, << At("multiple_frame_rate_flag", 7), At("frame_rate_code", 3),
                At("MPEG_1_only_flag", 2), At("constrained_parameter_flag", 1),
                At("still_picture_flag", 0) >>),
     If("MPEG_2",
        << Whole(1, "profile_and_level_indication"),
           Word(1, << At("chroma_format", 6), At("frame_rate_extension_flag", 5),
                      Ones(0, 5) >>) >>) >>)

VideoWindowDesc == Class(4,
  [horizontal_offset |-> 14, vertical_offset |-> 14, window_priority |-> 4])
VideoWindowDesc_build == Writes(VideoWindowDesc,
  << Word(4, << At("horizontal_offset", 18), At("vertical_offset", 4),
                At("window_priority", 0) >>) >>)

MpegClasses ==
  [AudioStreamDesc |-> AudioStreamDesc_build, CADesc |-> CADesc_build,
   CopyrightDesc |-> CopyrightDesc_build,
   DataStreamAlignmentDesc |-> DataStreamAlignmentDesc,
   HierarchyDesc |-> HierarchyDesc_build, IBPDesc |-> IBPDesc_build,
   ISO639LanguageDesc |-> ISO639LanguageDesc_build,
   MaximumBitrateDesc |-> MaximumBitrateDesc_build,
   MultiplexBufferUtilizationDesc |-> MultiplexBufferUtilizationDesc_build,
   PrivateDataIndicatorDesc |-> PrivateDataIndicatorDesc,
   RegistrationDesc |-> RegistrationDesc_build,
   SmoothingBufferDesc |-> SmoothingBufferDesc_build, STDDesc |-> STDDesc_build,
   SystemClockDesc |-> SystemClockDesc_build,
   TargetBackgroundGridDesc |-> TargetBackgroundGridDesc_build,
   VideoStreamDesc |-> VideoStreamDesc_build,
   VideoWindowDesc |-> VideoWindowDesc_build]
==============================================================================
