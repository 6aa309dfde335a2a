------------------------------- MODULE MCOneShot -------------------------------
(***************************************************************************)
(* OneShot for TLC: one call of each kind, mpublish also with no message,  *)
(* connect with a secret.  Bodies of one and two bytes tell sizes, counts  *)
(* and totals of MPUB apart.                                               *)
(***************************************************************************)
EXTENDS OneShot

Body1 == <<Chunk("a")>>
Body2 == <<Chunk("b"), Chunk("c")>>

Call(call, bodies) == [call |-> call, bodies |-> bodies, secret |-> FALSE]

MCInputs == {
    Call("publish", <<Body2>>), Call("mpublish", <<>>), Call("mpublish", <<Body1, Body2>>),
    Call("subscribe", <<>>),
    [call |-> "connect", bodies |-> <<>>, secret |-> TRUE]}

MCDeliveries == {[header |-> "m1", body |-> Body1]}
=============================================================================
