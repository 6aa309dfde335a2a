-------------------------------- MODULE MCPool --------------------------------
(***************************************************************************)
(* Pool for TLC.  Tasks are interchangeable, and so are connections: runs  *)
(* that check safety use both symmetries.                                  *)
(***************************************************************************)
EXTENDS Pool, TLC

Symmetry == Permutations(Tasks) \cup Permutations(Conns)
=============================================================================
