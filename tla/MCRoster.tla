------------------------------ MODULE MCRoster ------------------------------
(* Roster with two users who write to each other.  The first has a         *)
(* namesake elsewhere, to whom the second writes too.                      *)
EXTENDS Roster

CONSTANTS u1, u2

MCTargets == 
    [u \in Users |->
        IF u = u1 THEN {Addr(u2)} ELSE {Addr(u1), [name |-> u1, here |-> FALSE]}]
=============================================================================
