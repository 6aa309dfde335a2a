------------------------------ MODULE MCProducer ------------------------------
(***************************************************************************)
(* Producer for TLC.  Tasks, messages and connections are interchangeable: *)
(* runs that check safety use the three symmetries.                        *)
(***************************************************************************)
EXTENDS Producer, TLC

Symmetry == Permutations(Tasks) \cup Permutations(Msgs) \cup Permutations(Conns)
=============================================================================
