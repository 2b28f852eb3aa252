-------------------------------- MODULE MCUtc ---------------------------------
(* Every day from 1 March 1900, the first the formulas are meant for, to 22    *)
(* April 2038, the last of the 16 bits, with times that carry to each field.   *)
EXTENDS Utc

FirstDay == {[mjd |-> 15079, M |-> 3, D |-> 1, Y |-> 1900]}
SomeTimes == { << 0, 0, 0 >>, << 9, 59, 60 >>, << 10, 0, 5 >>, << 23, 59, 59 >> }
==============================================================================
