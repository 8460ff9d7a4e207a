------------------------------- MODULE MCMuc -------------------------------
(* Model values of Muc for TLC.                                            *)
EXTENDS Muc, TLC

Symmetry == Permutations(Users) \cup Permutations(Nicks) \cup Permutations(Names)
============================================================================
