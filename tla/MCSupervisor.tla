----------------------------- MODULE MCSupervisor -----------------------------
(***************************************************************************)
(* Supervisor for TLC.  Its states are finitely many: sockets are used     *)
(* again, and a socket has few frames nobody has read.                     *)
(***************************************************************************)
EXTENDS Supervisor
=============================================================================
