------------------------------- MODULE Producer -------------------------------
(***************************************************************************)
(* NsqProducer of producer.rs towards one nsqd: publish, publish_delayed,  *)
(* publish_multi and ping, called by concurrent tasks that share one       *)
(* Connection of the map connections.                                      *)
(*                                                                         *)
(* write_bytes and read_frame lock the two halves of the connection each   *)
(* for itself, so a publish is a write and, later, a read of whatever      *)
(* frame comes next.  nsqd answers the commands of a connection in order.  *)
(***************************************************************************)
EXTENDS Integers, Sequences, FiniteSets, FiniteSetsExt

CONSTANTS
    Tasks,     \* the tasks that call the producer
    Msgs,      \* what they publish, each once: a message, or the list of a
               \* publish_multi, which nsqd stores or refuses as a whole
    Conns,     \* names for connections, used again once nobody has one
    None,
    MaxTries,  \* bound: attempts of a publish before its backoff gives up
    Faults     \* what may happen

ASSUME ProducerAssumption ==
    /\ None \notin Tasks \cup Msgs \cup Conns
    /\ MaxTries \in Nat \ {0}
    /\ Faults \subseteq {"loss", "reject", "timeout", "heartbeat"}

VARIABLES
    pc,       \* pc[t]: where task t is
    msg,      \* msg[t]: what t publishes; None for a ping
    tries,    \* tries[t]: attempts begun
    using,    \* using[t]: the connection t has got
    cached,   \* NsqProducer::connections: the connection to this nsqd, or None
    dialer,   \* the task that dials with the map locked, or None
    live,     \* the connections that are up
    wire,     \* wire[c]: messages written to c that nsqd has not handled
    inbox,    \* inbox[c]: frames that nsqd sent on c and nobody has read
    copies,   \* copies[m]: how many times nsqd has stored m
    result    \* result[m]: what the publish of m returned; "beat" is an Ok
              \* for which a heartbeat was read, "empty" one of an empty list

vars == <<pc, msg, tries, using, cached, dialer, live, wire, inbox, copies, result>>

taskVars == <<pc, msg, tries, using>>
mapVars  == <<cached, dialer>>
nsqdVars == <<live, wire, inbox, copies>>

Frames == {"OK", "ERROR", "heartbeat"}
Readers(c) == {t \in Tasks : pc[t] = "read" /\ using[t] = c}
Unused(c)  == c # cached /\ \A t \in Tasks : using[t] # c

Init ==
    /\ pc = [t \in Tasks |-> "out"]
    /\ msg = [t \in Tasks |-> None]
    /\ tries = [t \in Tasks |-> 0]
    /\ using = [t \in Tasks |-> None]
    /\ cached = None
    /\ dialer = None
    /\ live = {}
    /\ wire = [c \in Conns |-> <<>>]
    /\ inbox = [c \in Conns |-> <<>>]
    /\ copies = [m \in Msgs |-> 0]
    /\ result = [m \in Msgs |-> "none"]

-----------------------------------------------------------------------------
(* The command is built, and the backoff begins its first attempt. *)
Begin(t, m) ==
    /\ msg' = [msg EXCEPT ![t] = m]
    /\ tries' = [tries EXCEPT ![t] = 1]
    /\ pc' = [pc EXCEPT ![t] = "get"]
    /\ UNCHANGED <<using, mapVars, nsqdVars, result>>

Unpublished(m) == result[m] = "none" /\ \A u \in Tasks : msg[u] # m

(* publish, and publish_delayed, whose delay only nsqd looks at. *)
Publish(t, m) ==
    /\ pc[t] = "out"
    /\ Unpublished(m)
    /\ Begin(t, m)

(* An empty list is ignored: Ok, and nothing is written. *)
PublishMulti(t, m) ==
    /\ pc[t] = "out"
    /\ Unpublished(m)
    /\ \/ Begin(t, m)
       \/ /\ result' = [result EXCEPT ![m] = "empty"]
          /\ UNCHANGED <<taskVars, mapVars, nsqdVars>>

Ping(t) ==
    /\ pc[t] = "out"
    /\ pc' = [pc EXCEPT ![t] = "get"]
    /\ UNCHANGED <<msg, tries, using, mapVars, nsqdVars, result>>

(* The task leaves the call; a publish has a result. *)
Return(t, outcome) ==
    /\ pc' = [pc EXCEPT ![t] = "out"]
    /\ msg' = [msg EXCEPT ![t] = None]
    /\ tries' = [tries EXCEPT ![t] = 0]
    /\ using' = [using EXCEPT ![t] = None]
    /\ result' = IF msg[t] \in Msgs THEN [result EXCEPT ![msg[t]] = outcome] ELSE result

(* Mutation of Got: ping waits for an answer to its NOP. *)
GotReading(t, c) ==
    /\ using' = [using EXCEPT ![t] = c]
    /\ pc' = [pc EXCEPT ![t] = IF msg[t] = None THEN "read" ELSE "write"]
    /\ UNCHANGED <<msg, tries, result>>

(* The task has connection c. *)
Got(t, c) ==
    IF msg[t] = None
    THEN Return(t, "ok")
    ELSE /\ using' = [using EXCEPT ![t] = c]
         /\ pc' = [pc EXCEPT ![t] = "write"]
         /\ UNCHANGED <<msg, tries, result>>

(* get_or_create_connection pings the connection of the map: it writes a    *)
(* NOP and reads nothing.  To a connection that is down the write may still *)
(* succeed; to one that is up it may time out.                              *)
GetConnection(t) ==
    /\ pc[t] = "get"
    /\ dialer = None
    /\ \/ /\ cached # None
          /\ Got(t, cached)
          /\ UNCHANGED mapVars
       \/ /\ cached \notin live \/ "timeout" \in Faults
          /\ cached' = None
          /\ dialer' = t
          /\ pc' = [pc EXCEPT ![t] = "dial"]
          /\ UNCHANGED <<msg, tries, using, result>>
    /\ UNCHANGED nsqdVars

(* Connection::new ends.  Its failure is permanent: publish does not retry. *)
Dialed(t) ==
    /\ pc[t] = "dial"
    /\ dialer' = None
    /\ \/ \E c \in Conns :
             /\ Unused(c)
             /\ cached' = c
             /\ live' = live \cup {c}
             /\ wire' = [wire EXCEPT ![c] = <<>>]
             /\ inbox' = [inbox EXCEPT ![c] = <<>>]
             /\ Got(t, c)
       \/ /\ Return(t, "error")
          /\ UNCHANGED <<cached, live, wire, inbox>>
    /\ UNCHANGED copies

(* Mutation of Retry: the backoff never gives up. *)
RetryForever(t) ==
    /\ tries' = [tries EXCEPT ![t] = @ + 1]
    /\ using' = [using EXCEPT ![t] = None]
    /\ pc' = [pc EXCEPT ![t] = "get"]
    /\ UNCHANGED <<msg, result>>

(* A transient error: the backoff runs the operation again, or gives up. *)
Retry(t) ==
    \/ /\ tries[t] < MaxTries
       /\ tries' = [tries EXCEPT ![t] = @ + 1]
       /\ using' = [using EXCEPT ![t] = None]
       /\ pc' = [pc EXCEPT ![t] = "get"]
       /\ UNCHANGED <<msg, result>>
    \/ Return(t, "error")

Write(t) ==
    /\ pc[t] = "write"
    /\ \/ /\ wire' = IF using[t] \in live
                     THEN [wire EXCEPT ![using[t]] = Append(@, msg[t])] ELSE wire
          /\ pc' = [pc EXCEPT ![t] = "read"]
          /\ UNCHANGED <<msg, tries, using, result>>
       \/ /\ using[t] \notin live \/ "timeout" \in Faults
          /\ Retry(t)
          /\ UNCHANGED wire
    /\ UNCHANGED <<mapVars, live, inbox, copies>>

(* Mutation of ReadFrame: the frame is left for the next reader. *)
PeekFrame(t) ==
    /\ pc[t] = "read"
    /\ inbox[using[t]] # <<>>
    /\ \/ Head(inbox[using[t]]) = "OK" /\ Return(t, "ok")
       \/ Head(inbox[using[t]]) = "heartbeat" /\ Return(t, "beat")
       \/ Head(inbox[using[t]]) = "ERROR" /\ Retry(t)
    /\ UNCHANGED <<mapVars, live, wire, inbox, copies>>

(* The next frame of the connection, whichever command it answers.  Any     *)
(* response means success.                                                  *)
ReadFrame(t) ==
    /\ pc[t] = "read"
    /\ inbox[using[t]] # <<>>
    /\ inbox' = [inbox EXCEPT ![using[t]] = Tail(@)]
    /\ \/ /\ Head(inbox[using[t]]) = "OK"
          /\ Return(t, "ok")
       \/ /\ Head(inbox[using[t]]) = "heartbeat"
          /\ Return(t, "beat")
       \/ /\ Head(inbox[using[t]]) = "ERROR"
          /\ Retry(t)
    /\ UNCHANGED <<mapVars, live, wire, copies>>

ReadFails(t) ==
    /\ pc[t] = "read"
    /\ \/ using[t] \notin live /\ inbox[using[t]] = <<>>
       \/ "timeout" \in Faults
    /\ Retry(t)
    /\ UNCHANGED <<mapVars, nsqdVars>>

-----------------------------------------------------------------------------
(* nsqd and the network *)

NsqdHandles(c) ==
    /\ wire[c] # <<>>
    /\ wire' = [wire EXCEPT ![c] = Tail(@)]
    /\ \/ /\ copies' = [copies EXCEPT ![Head(wire[c])] = @ + 1]
          /\ inbox' = [inbox EXCEPT ![c] = Append(@, "OK")]
       \/ /\ "reject" \in Faults
          /\ inbox' = [inbox EXCEPT ![c] = Append(@, "ERROR")]
          /\ UNCHANGED copies
    /\ UNCHANGED <<taskVars, mapVars, live, result>>

(* A heartbeat that nobody has read is not followed by a second one. *)
NsqdHeartbeat(c) ==
    /\ "heartbeat" \in Faults
    /\ c \in live
    /\ \A i \in 1..Len(inbox[c]) : inbox[c][i] # "heartbeat"
    /\ inbox' = [inbox EXCEPT ![c] = Append(@, "heartbeat")]
    /\ UNCHANGED <<taskVars, mapVars, live, wire, copies, result>>

(* What was written is lost; what was received may still be read. *)
ConnectionLost(c) ==
    /\ "loss" \in Faults
    /\ c \in live
    /\ live' = live \ {c}
    /\ wire' = [wire EXCEPT ![c] = <<>>]
    /\ \/ inbox' = [inbox EXCEPT ![c] = <<>>]
       \/ UNCHANGED inbox
    /\ UNCHANGED <<taskVars, mapVars, copies, result>>

-----------------------------------------------------------------------------
Step(t) == GetConnection(t) \/ Dialed(t) \/ Write(t) \/ ReadFrame(t) \/ ReadFails(t)

Next ==
    \/ \E t \in Tasks : Ping(t) \/ Step(t)
    \/ \E t \in Tasks, m \in Msgs : Publish(t, m) \/ PublishMulti(t, m)
    \/ \E c \in Conns : NsqdHandles(c) \/ NsqdHeartbeat(c) \/ ConnectionLost(c)

Spec == Init /\ [][Next]_vars

-----------------------------------------------------------------------------
(* Properties *)

TypeOK ==
    /\ pc \in [Tasks -> {"out", "get", "dial", "write", "read"}]
    /\ msg \in [Tasks -> Msgs \cup {None}]
    /\ tries \in [Tasks -> 0..MaxTries]
    /\ using \in [Tasks -> Conns \cup {None}]
    /\ cached \in Conns \cup {None}
    /\ dialer \in Tasks \cup {None}
    /\ live \subseteq Conns
    /\ wire \in [Conns -> Seq(Msgs)]
    /\ inbox \in [Conns -> Seq(Frames)]
    /\ copies \in [Msgs -> Nat]
    /\ result \in [Msgs -> {"none", "ok", "beat", "error", "empty"}]

(* A publish that returns Ok was stored by nsqd: the response is read "to   *)
(* confirm that the publish succeeded".                                     *)
AckedIsStored == \A m \in Msgs : result[m] \in {"ok", "beat"} => copies[m] > 0

(* No response is awaited in vain: a live connection has a frame, sent or   *)
(* due, for each task that reads it.  Pings share the connection and must   *)
(* not take a frame; reads that timed out leave one behind.                 *)
FrameForEachReader ==
    \A c \in live : Len(wire[c]) + Len(inbox[c]) >= Cardinality(Readers(c))

(* However tasks, retries and late responses mix, no OK of nsqd is taken    *)
(* for two publishes.                                                       *)
AcksCovered ==
    Cardinality({m \in Msgs : result[m] = "ok"}) <= MapThenSumSet(LAMBDA m : copies[m], Msgs)
=============================================================================
