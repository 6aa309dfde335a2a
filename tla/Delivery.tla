------------------------------ MODULE Delivery ------------------------------
(***************************************************************************)
(* What a consumer promises nsqd about the messages it is pushed: a        *)
(* pushed message gets one answer, FIN or REQ, or none at all (the         *)
(* connection failed, the handler panicked or never answered); an answer   *)
(* is given only to a message that was pushed, and is never followed by a  *)
(* second one.  ConnectionHandler is shown to implement this.              *)
(***************************************************************************)

CONSTANT Msgs    \* the deliveries nsqd can make on one connection

VARIABLE fate    \* what became of each delivery, as nsqd sees it

Answers == {"FIN", "REQ"}
Fates   == {"queued", "inFlight"} \cup Answers

Init == fate = [m \in Msgs |-> "queued"]

Push(m) ==
    /\ fate[m] = "queued"
    /\ fate' = [fate EXCEPT ![m] = "inFlight"]

Answer(m, a) ==
    /\ fate[m] = "inFlight"
    /\ fate' = [fate EXCEPT ![m] = a]

Next == \E m \in Msgs : Push(m) \/ \E a \in Answers : Answer(m, a)

Spec == Init /\ [][Next]_fate
=============================================================================
