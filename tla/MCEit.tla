-------------------------------- MODULE MCEit --------------------------------
(* Events for the runs of Eit: a status that uses one bit too many for its      *)
(* field, with the bit below it set.                                            *)
EXTENDS Eit

MCEventArgs == {[running_status |-> 12, free_CA_mode |-> TRUE]}
==============================================================================
