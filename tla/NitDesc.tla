------------------------------- MODULE NitDesc -------------------------------
(* The descriptors of nit_desc.h / nit_desc.cc. *)
EXTENDS DescLayout

CableDeliverySystemDesc == Class(11,
  [frequency |-> 32, symbol_rate |-> 28, modulation |-> 8, fec_outer |-> 4, fec_inner |-> 4])
CableDeliverySystemDesc_build == Writes(CableDeliverySystemDesc,
  << Whole(4, "frequency"), Word(2, << Ones(4, 12), At("fec_outer", 0) >>),
     Whole(1, "modulation"), Word(4, << At("symbol_rate", 4), At("fec_inner", 0) >>) >>)

SatelliteDeliverySystemDesc == Class(11,
  [frequency |-> 32, symbol_rate |-> 28, orbital_position |-> 16, modulation_system |-> 1,
   modulation_type |-> 2, roll_off |-> 2, polarisation |-> 2, fec_inner |-> 4,
   west_east |-> 1])
SatelliteDeliverySystemDesc_build == Writes(SatelliteDeliverySystemDesc,
  << Whole(4, "frequency"), Whole(2, "orbital_position"),
     Word(1, << At("west_east", 7), At("polarisation", 5), At("roll_off", 3),
                At("modulation_system", 2), At("modulation_type", 0) >>),
     Word(4, << At("symbol_rate", 4), At("fec_inner", 0) >>) >>)

TerrestrialDeliverySystemDesc == Class(11,
  [ctr_frequency |-> 32, bandwidth |-> 3, constellation |-> 2, hierarchy_info |-> 3,
   cr_HP_stream |-> 3, cr_LP_stream |-> 3, guard_interval |-> 2, transmission_mode |-> 2,
   priority |-> 1, other_freq_flag |-> 1, time_slicing_indicator |-> 1,
   MPE_FEC_indicator |-> 1])
TerrestrialDeliverySystemDesc_build == Writes(TerrestrialDeliverySystemDesc,
  << Whole(4, "ctr_frequency"),
     Word(1, << At("bandwidth", 5), At("priority", 4), At("time_slicing_indicator", 3),
                At("MPE_FEC_indicator", 2), Ones(0, 2) >>),
     Word(1, << At("constellation", 6), At("hierarchy_info", 3), At("cr_HP_stream", 0) >>),
     Word(1, << At("cr_LP_stream", 5), At("guard_interval", 3), At("transmission_mode", 1),
                At("other_freq_flag", 0) >>),
     Word(4, << Ones(0, 32) >>) >>)

\* expected_length(reference_type): a reference carries an ActualServInfo or not.
AnnouncementSupportDesc == [Class(2,
  [announcement_support_indicator |-> 16, type |-> 4, reference_type |-> 3,
   original_network_id |-> 16, xport_stream_id |-> 16, service_id |-> 16,
   component_tag |-> 8])
  EXCEPT !.entries = [announcement |-> Counts(1), reference |-> Counts(8)]]
Announcement_bits == Word(1, << At("type", 4), Ones(3, 1), At("reference_type", 0) >>)
AnnouncementSupportDesc_build == WritesLoops(AnnouncementSupportDesc,
  << Whole(2, "announcement_support_indicator"),
     LoopOf("announcement"), LoopOf("reference") >>,
  [announcement |-> << Announcement_bits >>,
   reference |-> << Announcement_bits, Whole(2, "original_network_id"),
                    Whole(2, "xport_stream_id"), Whole(2, "service_id"),
                    Whole(1, "component_tag") >>])

CellFrequencyLinkDesc == [Class(0,
  [cell_id |-> 16, frequency |-> 32, cell_id_extension |-> 8, transposer_frequency |-> 32])
  EXCEPT !.entries = [cell |-> Counts(7), subcell |-> CountsIn("cell", 5)]]
CellFrequencyLinkDesc_build == WritesLoops(CellFrequencyLinkDesc, << LoopOf("cell") >>,
  [cell |-> << Whole(2, "cell_id"), Whole(4, "frequency"), LoopLen("subcell"),
               LoopOf("subcell") >>,
   subcell |-> << Whole(1, "cell_id_extension"), Whole(4, "transposer_frequency") >>])

CellListDesc == [Class(0,
  [id |-> 16, latitude |-> 16, longitude |-> 16, extend_of_latitude |-> 12,
   extend_of_longitude |-> 12, cell_id_extension |-> 8])
  EXCEPT !.entries = [cell |-> Counts(10), subcell |-> CountsIn("cell", 8)]]
CellListDesc_build == WritesLoops(CellListDesc, << LoopOf("cell") >>,
  [cell |-> << Whole(2, "id"), Whole(2, "latitude"), Whole(2, "longitude"),
               Whole(2, "extend_of_latitude"), Whole(2, "extend_of_longitude"),
               LoopOf("subcell") >>,
   subcell |-> << Whole(1, "cell_id_extension"), Whole(2, "latitude"),
                  Whole(2, "longitude"),
                  Word(3, << At("extend_of_latitude", 12),
                             At("extend_of_longitude", 0) >>) >>])

FrequencyListDesc == [Class(1, [coding_type |-> 2, frequency |-> 32])
                        EXCEPT !.entries = "frequency" :> Counts(4)]
FrequencyListDesc_buildShifted == WritesLoops(FrequencyListDesc,    \* mutant
  << Word(1, << Ones(2, 6), At("coding_type", 1) >>), LoopOf("frequency") >>,
  "frequency" :> << Whole(4, "frequency") >>)
FrequencyListDesc_build == WritesLoops(FrequencyListDesc,
  << Word(1, << Ones(2, 6), At("coding_type", 0) >>), LoopOf("frequency") >>,
  "frequency" :> << Whole(4, "frequency") >>)

MultilingualNetworkNameDesc ==
  MultilingualTextDesc_build(MultilingualTextDesc(0, << >>))

NetworkNameDesc == StringDataDesc_build

NitClasses ==
  [CableDeliverySystemDesc |-> CableDeliverySystemDesc_build,
   SatelliteDeliverySystemDesc |-> SatelliteDeliverySystemDesc_build,
   TerrestrialDeliverySystemDesc |-> TerrestrialDeliverySystemDesc_build,
   AnnouncementSupportDesc |-> AnnouncementSupportDesc_build,
   CellFrequencyLinkDesc |-> CellFrequencyLinkDesc_build,
   CellListDesc |-> CellListDesc_build,
   FrequencyListDesc |-> FrequencyListDesc_build,
   MultilingualNetworkNameDesc |-> MultilingualNetworkNameDesc,
   NetworkNameDesc |-> NetworkNameDesc]
==============================================================================
