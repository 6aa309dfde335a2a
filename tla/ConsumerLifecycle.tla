-------------------------- MODULE ConsumerLifecycle --------------------------
(***************************************************************************)
(* The connections of a Consumer (consumer.rs): connect_to_nsqd,           *)
(* disconnect_from_nsqd, the poll loop of connect_to_nsqlookupd, start,    *)
(* stop, and the supervisor task that connect_to_nsqd spawns for a         *)
(* connection and that reconnects it.  A session, the run of               *)
(* handle_connection, is a step of the supervisor here; ConnectionHandler  *)
(* models what happens inside one.                                         *)
(*                                                                         *)
(* The mutex connections is held across awaits (dialing, closing), which   *)
(* is what makes the operations interact; is_running and connection_count  *)
(* are atomics.  An action is the code between two awaits.                 *)
(***************************************************************************)
EXTENDS Integers, FiniteSets

CONSTANTS
    Addrs,    \* addresses of nsqds
    Callers,  \* tasks that call the consumer, the lookupd poll loop included
    Conns,    \* names of connections; bound: connections there are at a time
    None,
    Calls,    \* the operations called
    Failures  \* what fails: a session with "io", which is retried, or with
              \* "other", and a stop by its "deadline"

ASSUME LifecycleAssumption ==
    /\ None \notin Addrs \cup Callers \cup Conns
    /\ Calls \subseteq {"connect", "poll", "disconnect", "stop", "start"}
    /\ Failures \subseteq {"io", "other", "deadline"}

VARIABLES
    running,  \* Consumer::is_running
    lock,     \* the caller that holds the mutex connections, or None
    table,    \* Consumer::connections: table[a] is a connection or None
    count,    \* Consumer::connection_count
    pc,       \* pc[t]: where caller t is
    arg,      \* arg[t]: the address t dials
    todo,     \* todo[t]: the addresses that t has still to connect to
    closing,  \* closing[t]: the connection t is closing
    lent,     \* connections that tasks of messages, or clones of messages, hold
    sup,      \* sup[c]: where the supervisor of c is
    sock      \* sock[c]: "open", "shut" by Connection::close, "lost", "none"

vars == <<running, lock, table, count, pc, arg, todo, closing, lent, sup, sock>>

callVars == <<lock, table, count, pc, arg, todo, closing>>

Listed  == {a \in Addrs : table[a] # None}
Alive   == {"check", "session", "sleep", "redial"}
Serving == {c \in Conns : sup[c] \in Alive}

(* The connections some Arc refers to: the map, a caller that closes it,    *)
(* its supervisor, the task of a message, or the responder of a clone of    *)
(* one that the handler keeps.  The socket of any other one is closed.      *)
Owned == {c \in Conns : \/ sup[c] \in Alive
                        \/ \E a \in Addrs : table[a] = c
                        \/ \E t \in Callers : closing[t] = c
                        \/ c \in lent}
Released(socks) == [c \in Conns |-> IF c \in Owned' THEN socks[c] ELSE "none"]

Init ==
    /\ running = TRUE
    /\ lock = None
    /\ table = [a \in Addrs |-> None]
    /\ count = 0
    /\ pc = [t \in Callers |-> "out"]
    /\ arg = [t \in Callers |-> None]
    /\ todo = [t \in Callers |-> {}]
    /\ closing = [t \in Callers |-> None]
    /\ lent = {}
    /\ sup = [c \in Conns |-> "none"]
    /\ sock = [c \in Conns |-> "none"]

-----------------------------------------------------------------------------
(* connect_to_nsqd, called directly or for each of the nodes of              *)
(* connect_to_nsqlookupd, by its first pass or by its poll loop.            *)

Connect(t, a) ==
    /\ "connect" \in Calls
    /\ pc[t] = "out"
    /\ pc' = [pc EXCEPT ![t] = "connect"]
    /\ todo' = [todo EXCEPT ![t] = {a}]
    /\ UNCHANGED <<running, lock, table, count, arg, closing, lent, sup, sock>>

(* A tick of the poll loop: is_running is tested before the nodes are       *)
(* fetched and not after.                                                   *)
Tick(t) ==
    /\ "poll" \in Calls
    /\ pc[t] = "out"
    /\ running
    /\ pc' = [pc EXCEPT ![t] = "connect"]
    /\ \E nodes \in SUBSET Addrs \ {{}} : todo' = [todo EXCEPT ![t] = nodes]
    /\ UNCHANGED <<running, lock, table, count, arg, closing, lent, sup, sock>>

(* Where connect_to_nsqd returns to, with these nodes still to connect to. *)
Onward(nodes) == IF nodes = {} THEN "out" ELSE "connect"

(* Mutation of ConnectLock: the map is not looked at. *)
ConnectLockBlind(t) ==
    /\ pc[t] = "connect"
    /\ lock = None
    /\ lock' = t
    /\ \E a \in todo[t] :
          /\ todo' = [todo EXCEPT ![t] = @ \ {a}]
          /\ arg' = [arg EXCEPT ![t] = a]
    /\ pc' = [pc EXCEPT ![t] = "dial"]
    /\ UNCHANGED <<running, table, count, closing, lent, sup, sock>>

ConnectLock(t) ==
    /\ pc[t] = "connect"
    /\ lock = None
    /\ \E a \in todo[t] :
          /\ todo' = [todo EXCEPT ![t] = @ \ {a}]
          /\ \/ /\ table[a] # None
                /\ pc' = [pc EXCEPT ![t] = Onward(todo[t] \ {a})]
                /\ UNCHANGED <<lock, arg>>
             \/ /\ table[a] = None
                /\ lock' = t
                /\ arg' = [arg EXCEPT ![t] = a]
                /\ pc' = [pc EXCEPT ![t] = "dial"]
    /\ UNCHANGED <<running, table, count, closing, lent, sup, sock>>

(* Mutation of Dialed: a dial that fails is counted, too. *)
DialedCounted(t) ==
    /\ pc[t] = "dial"
    /\ \/ \E c \in Conns :
             /\ c \notin Owned
             /\ table' = [table EXCEPT ![arg[t]] = c]
             /\ sup' = [sup EXCEPT ![c] = "check"]
             /\ sock' = [sock EXCEPT ![c] = "open"]
       \/ UNCHANGED <<table, sup, sock>>
    /\ count' = count + 1
    /\ lock' = None
    /\ arg' = [arg EXCEPT ![t] = None]
    /\ pc' = [pc EXCEPT ![t] = Onward(todo[t])]
    /\ UNCHANGED <<running, todo, closing, lent>>

(* Connection::new ends, while connections is locked. *)
Dialed(t) ==
    /\ pc[t] = "dial"
    /\ \/ /\ \E c \in Conns :
                /\ c \notin Owned
                /\ table' = [table EXCEPT ![arg[t]] = c]
                /\ sup' = [sup EXCEPT ![c] = "check"]
                /\ sock' = [sock EXCEPT ![c] = "open"]
          /\ count' = count + 1
       \/ UNCHANGED <<table, sup, sock, count>>
    /\ lock' = None
    /\ arg' = [arg EXCEPT ![t] = None]
    /\ pc' = [pc EXCEPT ![t] = Onward(todo[t])]
    /\ UNCHANGED <<running, todo, closing, lent>>

-----------------------------------------------------------------------------
(* disconnect_from_nsqd *)

Disconnect(t, a) ==
    /\ "disconnect" \in Calls
    /\ pc[t] = "out"
    /\ lock = None
    /\ table[a] # None
    /\ lock' = t
    /\ closing' = [closing EXCEPT ![t] = table[a]]
    /\ table' = [table EXCEPT ![a] = None]
    /\ count' = count - 1
    /\ pc' = [pc EXCEPT ![t] = "close"]
    /\ UNCHANGED <<running, arg, todo, lent, sup, sock>>

(* Connection::close shuts the write half that the connection has by now. *)
Shut(c) == [sock EXCEPT ![c] = IF @ = "open" THEN "shut" ELSE @]

DisconnectClosed(t) ==
    /\ pc[t] = "close"
    /\ closing' = [closing EXCEPT ![t] = None]
    /\ lock' = None
    /\ pc' = [pc EXCEPT ![t] = "out"]
    /\ UNCHANGED <<running, table, count, arg, todo, lent, sup>>
    /\ sock' = Released(Shut(closing[t]))

-----------------------------------------------------------------------------
(* start and stop *)

Start ==
    /\ "start" \in Calls
    /\ running' = TRUE
    /\ UNCHANGED <<callVars, lent, sup, sock>>

Stop(t) ==
    /\ "stop" \in Calls
    /\ pc[t] = "out"
    /\ running' = FALSE
    /\ pc' = [pc EXCEPT ![t] = "stop"]
    /\ UNCHANGED <<lock, table, count, arg, todo, closing, lent, sup, sock>>

StopLock(t) ==
    /\ pc[t] = "stop"
    /\ lock = None
    /\ lock' = t
    /\ pc' = [pc EXCEPT ![t] = "drain"]
    /\ UNCHANGED <<running, table, count, arg, todo, closing, lent, sup, sock>>

(* Mutation of DrainNext: iter() for drain(), the entry stays. *)
DrainIter(t) ==
    /\ pc[t] = "drain"
    /\ closing[t] = None
    /\ \E a \in Listed : closing' = [closing EXCEPT ![t] = table[a]]
    /\ UNCHANGED <<running, lock, table, count, pc, arg, todo, lent, sup, sock>>

(* Connections leave the map one by one; the deadline ends the loop and the *)
(* rest leave it without being closed.                                      *)
DrainNext(t) ==
    /\ pc[t] = "drain"
    /\ closing[t] = None
    /\ \E a \in Listed :
          /\ closing' = [closing EXCEPT ![t] = table[a]]
          /\ table' = [table EXCEPT ![a] = None]
    /\ UNCHANGED <<running, lock, count, pc, arg, todo, lent, sup, sock>>

DrainClosed(t) ==
    /\ pc[t] = "drain"
    /\ closing[t] # None
    /\ closing' = [closing EXCEPT ![t] = None]
    /\ UNCHANGED <<running, lock, table, count, pc, arg, todo, lent, sup>>
    /\ sock' = Released(Shut(closing[t]))

DrainDeadline(t) ==
    /\ "deadline" \in Failures
    /\ pc[t] = "drain"
    /\ closing[t] # None
    /\ closing' = [closing EXCEPT ![t] = None]
    /\ table' = [a \in Addrs |-> None]
    /\ UNCHANGED <<running, lock, count, pc, arg, todo, lent, sup>>
    /\ sock' = Released(sock)

StopDone(t) ==
    /\ pc[t] = "drain"
    /\ closing[t] = None /\ Listed = {}
    /\ count' = 0
    /\ lock' = None
    /\ pc' = [pc EXCEPT ![t] = "out"]
    /\ UNCHANGED <<running, table, arg, todo, closing, lent, sup, sock>>

-----------------------------------------------------------------------------
(* The supervisor of a connection *)

(* A supervisor that ends drops its reference. *)
EndSupervisor(c) ==
    /\ sup' = [sup EXCEPT ![c] = "ended"]
    /\ UNCHANGED <<callVars, lent>>
    /\ sock' = Released(sock)

CheckRunning(c) ==
    /\ sup[c] = "check"
    /\ \/ /\ running
          /\ sup' = [sup EXCEPT ![c] = "session"]
          /\ UNCHANGED <<callVars, lent, sock>>
       \/ /\ ~running
          /\ EndSupervisor(c)
    /\ UNCHANGED running

(* handle_connection returns Ok: it has seen that the consumer is stopped. *)
SessionStops(c) ==
    /\ sup[c] = "session"
    /\ ~running
    /\ EndSupervisor(c)
    /\ UNCHANGED running

(* It returns Err.  Broken pipes, resets, aborts and ends of stream are     *)
(* retried; Error::TimedOut, a malformed frame and E_INVALID are not.       *)
SessionFails(c, failure) ==
    /\ sup[c] = "session"
    /\ \/ /\ running /\ failure = "io"
          /\ sup' = [sup EXCEPT ![c] = "sleep"]
          /\ sock' = [sock EXCEPT ![c] = "lost"]
          /\ UNCHANGED <<callVars, lent>>
       \/ /\ ~running \/ failure = "other"
          /\ EndSupervisor(c)
    /\ UNCHANGED running

(* Mutation of Wake: a stopped consumer sleeps on. *)
WakeNever(c) ==
    /\ sup[c] = "sleep"
    /\ running
    /\ sup' = [sup EXCEPT ![c] = "redial"]
    /\ UNCHANGED <<running, callVars, lent, sock>>

Wake(c) ==
    /\ sup[c] = "sleep"
    /\ \/ /\ running
          /\ sup' = [sup EXCEPT ![c] = "redial"]
          /\ UNCHANGED <<callVars, lent, sock>>
       \/ /\ ~running
          /\ EndSupervisor(c)
    /\ UNCHANGED running

(* Mutation of Redialed: a reconnect that fails ends the loop. *)
RedialedOnce(c) ==
    /\ sup[c] = "redial"
    /\ \/ /\ sock' = [sock EXCEPT ![c] = "open"]
          /\ sup' = [sup EXCEPT ![c] = "check"]
          /\ UNCHANGED <<callVars, lent>>
       \/ EndSupervisor(c)
    /\ UNCHANGED running

(* reconnect replaces both halves of the socket, or fails; the loop goes on *)
(* either way.                                                              *)
Redialed(c) ==
    /\ sup[c] = "redial"
    /\ \E outcome \in {"open", "lost"} : sock' = [sock EXCEPT ![c] = outcome]
    /\ sup' = [sup EXCEPT ![c] = "check"]
    /\ UNCHANGED <<running, callVars, lent>>

-----------------------------------------------------------------------------
(* The messages of a session *)

(* A task is spawned for a message; it, and whoever keeps a clone of the    *)
(* message, may outlive the session and the supervisor.                     *)
Lend(c) ==
    /\ sup[c] = "session"
    /\ lent' = lent \cup {c}
    /\ UNCHANGED <<running, callVars, sup, sock>>

Return(c) ==
    /\ c \in lent
    /\ lent' = lent \ {c}
    /\ UNCHANGED <<running, callVars, sup>>
    /\ sock' = Released(sock)

-----------------------------------------------------------------------------
Call(t) ==
    \/ \E a \in Addrs : Connect(t, a) \/ Disconnect(t, a)
    \/ Tick(t) \/ Stop(t)

Go(t) ==
    \/ ConnectLock(t) \/ DisconnectClosed(t)
    \/ StopLock(t) \/ DrainNext(t) \/ DrainClosed(t) \/ DrainDeadline(t) \/ StopDone(t)

Supervise(c) ==
    \/ CheckRunning(c) \/ SessionStops(c)
    \/ \E failure \in Failures \ {"deadline"} : SessionFails(c, failure)
    \/ Wake(c) \/ Redialed(c)

Next ==
    \/ \E t \in Callers : Call(t) \/ Go(t) \/ Dialed(t)
    \/ \E c \in Conns : Supervise(c) \/ Lend(c) \/ Return(c)
    \/ Start

Spec == Init /\ [][Next]_vars

(* A tokio mutex is fair to its waiters; close is bounded by the deadline   *)
(* or by the kernel; the loop of a session looks at is_running at least     *)
(* every 30 s.  Dials end: connect_with_retry is bounded, and the nsqds are *)
(* assumed to answer IDENTIFY or to close, because initialize reads the     *)
(* answer without a timeout.                                                *)
FairSpec ==
    /\ Spec
    /\ \A t \in Callers : SF_vars(Go(t)) /\ WF_vars(Dialed(t))
    /\ \A c \in Conns :
          /\ WF_vars(CheckRunning(c)) /\ WF_vars(SessionStops(c))
          /\ WF_vars(Wake(c)) /\ WF_vars(Redialed(c))

-----------------------------------------------------------------------------
(* Properties *)

TypeOK ==
    /\ running \in BOOLEAN
    /\ lock \in Callers \cup {None}
    /\ table \in [Addrs -> Conns \cup {None}]
    /\ count \in 0..Cardinality(Addrs)
    /\ pc \in [Callers -> {"out", "connect", "dial", "close", "stop", "drain"}]
    /\ arg \in [Callers -> Addrs \cup {None}]
    /\ todo \in [Callers -> SUBSET Addrs]
    /\ closing \in [Callers -> Conns \cup {None}]
    /\ lent \subseteq Conns
    /\ sup \in [Conns -> {"none", "ended"} \cup Alive]
    /\ sock \in [Conns -> {"none", "open", "shut", "lost"}]

(* ConsumerStats::connections is the number of connections in the map, save *)
(* while a stop empties it: count and map are updated apart.                *)
CountMatches ==
    (\A t \in Callers : pc[t] # "drain") => count = Cardinality(Listed)

(* No connection is listed under two addresses, or listed while it is being *)
(* closed by a disconnect or by a stop.                                     *)
ListedOnce ==
    \A a \in Listed :
        /\ \A b \in Listed : table[a] = table[b] => a = b
        /\ \A t \in Callers : closing[t] # table[a]

(* A session that failed with an error that is retried is followed by       *)
(* another one, or the consumer was stopped: reconnect may fail many times, *)
(* but the supervisor does not give up.                                     *)
SessionsRetried == \A c \in Conns : sup[c] = "sleep" ~> (sup[c] = "session" \/ ~running)

(* After stop every supervisor ends, wherever it was.                       *)
SupervisorsEnd == <>[](~running) => \A c \in Conns : []<>(c \notin Serving)

(* stop returns: it "waits for all connections to close or times out".      *)
StopReturns == \A t \in Callers : pc[t] \in {"stop", "drain"} ~> pc[t] = "out"

(* Where no shutdown_deadline fires ("deadline" is not among Failures), a   *)
(* stop that returns leaves no connection that is served over an open       *)
(* socket.                                                                  *)
StopCloses ==
    [][\A t \in Callers : StopDone(t) =>
          \A c \in Conns : ~(sup[c] = "session" /\ sock[c] = "open")]_vars
=============================================================================
