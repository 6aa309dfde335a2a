------------------------ MODULE MCConnectionHandler ------------------------
(***************************************************************************)
(* ConnectionHandler for TLC.  Deliveries are interchangeable and so are   *)
(* workers: runs that check safety may use Symmetry; those that check      *)
(* liveness may not.  The state space is finite as it is: nsqd has at most *)
(* one heartbeat out and Msgs is finite.                                   *)
(***************************************************************************)
EXTENDS ConnectionHandler, TLC

Symmetry == Permutations(Msgs) \cup Permutations(Workers)
=============================================================================
