----------------------------- MODULE MCPersist -----------------------------
(* Persist for TLC: a region of two sectors and one of one, each holding 0 *)
(* or 1.  The checksum is the contents itself, which has no collisions.    *)
EXTENDS Persist

MCStart == <<1, 3>>
MCCount == <<2, 1>>
MCCrc(stores) == stores
MCCrcVal == Stores

(* The layout of the real disk. *)
ASSUME Layout(5, <<1, 43, 99, 107, 186>>, <<42, 56, 8, 79, 8>>)
============================================================================
