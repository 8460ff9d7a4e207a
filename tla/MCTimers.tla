------------------------------ MODULE MCTimers ------------------------------
(* Timers for TLC, in units of 50 milliseconds: sys_now takes the values 0 *)
(* to 2147 in milliseconds, 0 to 42 here.                                  *)
EXTENDS Timers

MCIntervalOf(t) == 20
=============================================================================
