-------------------------------- MODULE MCSdt --------------------------------
(* Services for the run of Sdt: each flag alone, and statuses that use one bit  *)
(* too many for their field.                                                    *)
EXTENDS Sdt

MCServiceArgs ==
  {[running_status |-> 4, eit_schedule |-> TRUE,
    eit_present_following |-> FALSE, free_ca_mode |-> TRUE],
   [running_status |-> 9, eit_schedule |-> FALSE,
    eit_present_following |-> TRUE, free_ca_mode |-> FALSE],
   [running_status |-> 0, eit_schedule |-> FALSE,
    eit_present_following |-> FALSE, free_ca_mode |-> FALSE]}
==============================================================================
