------------------------------ MODULE MCThrottle ------------------------------
(* Instances of Throttle for TLC: writes smaller and larger than a burst.  *)
EXTENDS Throttle

MCSizes == {1, 3, 7}
=============================================================================
