----------------------------- MODULE MCOffline -----------------------------
(* Model values of Offline for TLC.                                        *)
EXTENDS Offline, TLC

(* The users are not alike: only some are in Restless. *)
Symmetry == Permutations(Msgs)

(* No guard and none of the invariants but GivenIsSent reads given or      *)
(* sent.                                                                   *)
View == <<store, sessions, free, held, fresh, accepted, handed, cuts>>
============================================================================
