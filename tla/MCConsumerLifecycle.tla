------------------------ MODULE MCConsumerLifecycle ------------------------
(***************************************************************************)
(* ConsumerLifecycle for TLC.  Addresses, callers and connections are      *)
(* interchangeable, but the runs check liveness or a step property and use *)
(* no symmetry.                                                            *)
(***************************************************************************)
EXTENDS ConsumerLifecycle
=============================================================================
