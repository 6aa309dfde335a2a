------------------------------ MODULE Supervisor ------------------------------
(***************************************************************************)
(* One connection of a Consumer across its sessions: the task that         *)
(* connect_to_nsqd spawns (consumer.rs), Connection::reconnect, which      *)
(* replaces the two halves of the socket one after the other and then      *)
(* identifies itself (connection.rs), and the tasks of messages, which     *)
(* share the Connection and live on when their session ends.               *)
(*                                                                         *)
(* ConsumerLifecycle has a session and a reconnect as single steps; here   *)
(* they are the commands the supervisor writes and the frames it reads,    *)
(* and what an nsqd that keeps the protocol makes of commands that arrive  *)
(* in the wrong state.  Two sockets are enough: the one in use and the     *)
(* next one.                                                               *)
(***************************************************************************)
EXTENDS Integers, Sequences, FiniteSets

CONSTANTS
    Socks,        \* names of sockets
    Tasks,        \* permits of the semaphore, one for each running handler
    None,
    MaxInFlight,  \* ConsumerConfig::max_in_flight
    MaxDelay,     \* max_retry_delay
    Faults        \* what goes wrong

ASSUME SupervisorAssumption ==
    /\ None \notin Socks
    /\ Cardinality(Socks) >= 2
    /\ MaxInFlight \in Nat \ {0}
    /\ MaxDelay \in Nat \ {0}
    /\ Faults \subseteq {"loss", "stall", "refuse", "stop"}

VARIABLES
    running,  \* Consumer::is_running
    at,       \* where the supervisor is
    delay,    \* retry_delay
    linked,   \* the last dial or reconnect returned Ok, and no io error since
    rh, wh,   \* the socket of read_half and of write_half
    wlock,    \* initialize holds write_half
    link,     \* link[s]: "up", "lost"
    peer,     \* peer[s]: nsqd's state: "new", "known", "subscribed", "ready"
    inq,      \* inq[s]: what nsqd sent and was not read
    task,     \* task[k]: "none", "handling" or "credit", as in ConnectionHandler
    of        \* of[k]: the socket of k's message, None once it is gone

vars == <<running, at, delay, linked, rh, wh, wlock, link, peer, inq, task, of>>

sockVars == <<link, peer, inq>>
taskVars == <<task, of>>

Frames  == {"OK", "message", "E_FIN_FAILED", "E_INVALID", "E_BAD_PROTOCOL"}
Session == {"sub", "rdy", "loop", "permit"}
Redial  == {"dial", "swap", "init", "reply"}

(* Connection::new has returned Ok and connect_to_nsqd spawns the task. *)
Init ==
    /\ running = TRUE
    /\ at = "check"
    /\ delay = 1
    /\ linked = TRUE
    /\ rh \in Socks
    /\ wh = rh
    /\ wlock = FALSE
    /\ link = [s \in Socks |-> IF s = rh THEN "up" ELSE "lost"]
    /\ peer = [s \in Socks |-> IF s = rh THEN "known" ELSE "new"]
    /\ inq = [s \in Socks |-> <<>>]
    /\ task = [k \in Tasks |-> "none"]
    /\ of = [k \in Tasks |-> None]

-----------------------------------------------------------------------------
(* nsqd *)

(* nsqd reads a command: SUB is for a client that identified itself, RDY    *)
(* and FIN for one that subscribed.  A command out of turn is refused and   *)
(* the connection closed; a FIN of a message that another connection got is *)
(* refused only.                                                            *)
Hears(s, command, own) ==
    LET answer(frame) == [inq EXCEPT ![s] = Append(@, frame)] IN
    \/ /\ link[s] = "lost"
       /\ UNCHANGED sockVars
    \/ /\ link[s] = "up"
       /\ \/ /\ command = "SUB" /\ peer[s] = "known"
             /\ peer' = [peer EXCEPT ![s] = "subscribed"]
             /\ inq' = answer("OK")
             /\ UNCHANGED link
          \/ /\ command = "RDY" /\ peer[s] \in {"subscribed", "ready"}
             /\ peer' = [peer EXCEPT ![s] = "ready"]
             /\ UNCHANGED <<inq, link>>
          \/ /\ command = "FIN" /\ peer[s] \in {"subscribed", "ready"}
             /\ inq' = IF own THEN inq ELSE answer("E_FIN_FAILED")
             /\ UNCHANGED <<peer, link>>
          \/ /\ IF command = "SUB" THEN peer[s] # "known"
                                   ELSE peer[s] \notin {"subscribed", "ready"}
             /\ inq' = answer(IF peer[s] = "new" THEN "E_BAD_PROTOCOL" ELSE "E_INVALID")
             /\ link' = [link EXCEPT ![s] = "lost"]
             /\ UNCHANGED peer

Unanswered(s) ==
    Cardinality({i \in 1..Len(inq[s]) : inq[s][i] = "message"})
  + Cardinality({k \in Tasks : task[k] = "handling" /\ of[k] = s})

NsqdPush(s) ==
    /\ link[s] = "up" /\ peer[s] = "ready"
    /\ Unanswered(s) < MaxInFlight
    /\ inq' = [inq EXCEPT ![s] = Append(@, "message")]
    /\ UNCHANGED <<running, at, delay, linked, rh, wh, wlock, link, peer, taskVars>>

(* The peer or the network is gone, or a disconnect shut the write half. *)
LinkLost(s) ==
    /\ "loss" \in Faults
    /\ link[s] = "up"
    /\ link' = [link EXCEPT ![s] = "lost"]
    /\ UNCHANGED <<running, at, delay, linked, rh, wh, wlock, peer, inq, taskVars>>

(* Consumer::stop and Consumer::start. *)
SetRunning ==
    /\ "stop" \in Faults
    /\ running' = ~running
    /\ UNCHANGED <<at, delay, linked, rh, wh, wlock, sockVars, taskVars>>

-----------------------------------------------------------------------------
(* The session *)

CheckRunning ==
    /\ at = "check"
    /\ at' = IF running THEN "sub" ELSE "ended"
    /\ UNCHANGED <<running, delay, linked, rh, wh, wlock, sockVars, taskVars>>

(* A write to a socket that is lost may still succeed. *)
Subscribe ==
    /\ at = "sub"
    /\ Hears(wh, "SUB", TRUE)
    /\ at' = "rdy"
    /\ UNCHANGED <<running, delay, linked, rh, wh, wlock, taskVars>>

InitialReady ==
    /\ at = "rdy"
    /\ Hears(wh, "RDY", TRUE)
    /\ at' = "loop"
    /\ UNCHANGED <<running, delay, linked, rh, wh, wlock, taskVars>>

LoopStops ==
    /\ at = "loop"
    /\ ~running
    /\ at' = "ended"
    /\ UNCHANGED <<running, delay, linked, rh, wh, wlock, sockVars, taskVars>>

LoopReads ==
    /\ at = "loop"
    /\ inq[rh] # <<>> /\ Head(inq[rh]) # "E_INVALID"
    /\ inq' = [inq EXCEPT ![rh] = Tail(@)]
    /\ at' = IF Head(inq[rh]) = "message" THEN "permit" ELSE "loop"
    /\ UNCHANGED <<running, delay, linked, rh, wh, wlock, link, peer, taskVars>>

(* The semaphore belongs to the connection: tasks of earlier sessions hold  *)
(* its permits, too.                                                        *)
AcquirePermit ==
    /\ at = "permit"
    /\ \E k \in Tasks :
          /\ task[k] = "none"
          /\ task' = [task EXCEPT ![k] = "handling"]
          /\ of' = [of EXCEPT ![k] = rh]
    /\ at' = "loop"
    /\ UNCHANGED <<running, delay, linked, rh, wh, wlock, sockVars>>

(* Mutation of Longer: the delay is not capped. *)
LongerAlways(d) == 2 * d

Longer(d) == IF 2 * d < MaxDelay THEN 2 * d ELSE MaxDelay

(* Mutation of SessionBreaks: is_running is not read after the session. *)
SessionBreaksOn ==
    /\ at \in {"sub", "rdy", "loop"}
    /\ link[wh] = "lost"
    /\ at' = "sleep" /\ linked' = FALSE /\ delay' = Longer(delay)
    /\ UNCHANGED <<running, rh, wh, wlock, sockVars, taskVars>>

(* handle_connection returns an io error, which is retried after a sleep of *)
(* retry_delay and some jitter.                                             *)
SessionBreaks ==
    /\ at \in {"sub", "rdy", "loop"}
    /\ link[wh] = "lost"
    /\ \/ /\ running
          /\ at' = "sleep" /\ linked' = FALSE /\ delay' = Longer(delay)
       \/ /\ ~running
          /\ at' = "ended"
          /\ UNCHANGED <<delay, linked>>
    /\ UNCHANGED <<running, rh, wh, wlock, sockVars, taskVars>>

(* It returns an error that is not retried: E_INVALID, or Error::TimedOut.  *)
SessionFails ==
    /\ \/ at = "loop" /\ inq[rh] # <<>> /\ Head(inq[rh]) = "E_INVALID"
       \/ at \in {"sub", "rdy", "loop"} /\ "stall" \in Faults
    /\ at' = "ended"
    /\ UNCHANGED <<running, delay, linked, rh, wh, wlock, sockVars, taskVars>>

-----------------------------------------------------------------------------
(* Reconnecting *)

Wake ==
    /\ at = "sleep"
    /\ at' = IF running THEN "dial" ELSE "ended"
    /\ UNCHANGED <<running, delay, linked, rh, wh, wlock, sockVars, taskVars>>

(* connect_with_retry returns Err, and the loop goes on with the old socket. *)
DialFails ==
    /\ "refuse" \in Faults
    /\ at = "dial"
    /\ at' = "check"
    /\ UNCHANGED <<running, delay, linked, rh, wh, wlock, sockVars, taskVars>>

(* It returns a stream, and the read half is replaced. *)
Dialed ==
    /\ at = "dial"
    /\ \E s \in Socks \ {wh} :
          /\ rh' = s
          /\ link' = [link EXCEPT ![s] = "up"]
          /\ peer' = [peer EXCEPT ![s] = "new"]
          /\ inq' = [inq EXCEPT ![s] = <<>>]
    /\ at' = "swap"
    /\ UNCHANGED <<running, delay, linked, wh, wlock, taskVars>>

(* Mutations of SwapWrite: initialize is not called; the write half stays. *)
SwapWriteBare ==
    /\ at = "swap"
    /\ wh' = rh
    /\ of' = [k \in Tasks |-> None]
    /\ at' = "check" /\ linked' = TRUE /\ delay' = 1
    /\ UNCHANGED <<running, rh, wlock, sockVars, task>>

SwapReadOnly ==
    /\ at = "swap"
    /\ at' = "init"
    /\ UNCHANGED <<running, delay, linked, rh, wh, wlock, sockVars, taskVars>>

(* The write half is replaced and the old socket closed: what tasks write   *)
(* from now on goes to the new one, where their messages are unknown.       *)
SwapWrite ==
    /\ at = "swap"
    /\ wh' = rh
    /\ link' = [link EXCEPT ![wh] = "lost"]
    /\ peer' = [peer EXCEPT ![wh] = "new"]
    /\ inq' = [inq EXCEPT ![wh] = <<>>]
    /\ of' = [k \in Tasks |-> None]
    /\ at' = "init"
    /\ UNCHANGED <<running, delay, linked, rh, wlock, task>>

(* initialize takes the write lock for the whole exchange. *)
Identify ==
    /\ at = "init"
    /\ wlock' = TRUE
    /\ IF link[wh] = "up"
       THEN /\ peer' = [peer EXCEPT ![wh] = "known"]
            /\ inq' = [inq EXCEPT ![wh] = Append(@, "OK")]
       ELSE UNCHANGED <<peer, inq>>
    /\ at' = "reply"
    /\ UNCHANGED <<running, delay, linked, rh, wh, link, taskVars>>

(* Mutation of Identified: the delay is not set back. *)
IdentifiedLate ==
    /\ at = "reply"
    /\ inq[rh] # <<>> /\ Head(inq[rh]) = "OK"
    /\ inq' = [inq EXCEPT ![rh] = Tail(@)]
    /\ linked' = TRUE
    /\ wlock' = FALSE
    /\ at' = "check"
    /\ UNCHANGED <<running, delay, rh, wh, link, peer, taskVars>>

Identified ==
    /\ at = "reply"
    /\ inq[rh] # <<>> /\ Head(inq[rh]) = "OK"
    /\ inq' = [inq EXCEPT ![rh] = Tail(@)]
    /\ linked' = TRUE /\ delay' = 1
    /\ wlock' = FALSE
    /\ at' = "check"
    /\ UNCHANGED <<running, rh, wh, link, peer, taskVars>>

(* An error frame, or the end of the stream. *)
IdentifyFails ==
    /\ at = "reply"
    /\ link[rh] = "lost"
    /\ wlock' = FALSE
    /\ at' = "check"
    /\ UNCHANGED <<running, delay, linked, rh, wh, sockVars, taskVars>>

-----------------------------------------------------------------------------
(* The tasks of messages, of this session or of an earlier one *)

(* Mutation of TaskAnswers: a write that fails is tried again. *)
TaskInsists(k) ==
    /\ task[k] = "handling"
    /\ ~wlock
    /\ Hears(wh, "FIN", of[k] = wh)
    /\ task' = [task EXCEPT ![k] = IF link[wh] = "lost" THEN "handling" ELSE "credit"]
    /\ UNCHANGED <<running, at, delay, linked, rh, wh, wlock, of>>

(* The handler has returned: FIN or REQ is written, or the write fails and  *)
(* the task ends, or nothing is to be written.                              *)
TaskAnswers(k) ==
    /\ task[k] = "handling"
    /\ \/ /\ ~wlock
          /\ Hears(wh, "FIN", of[k] = wh)
          /\ task' = [task EXCEPT ![k] = "credit"]
       \/ /\ link[wh] = "lost"
          /\ task' = [task EXCEPT ![k] = "none"]
          /\ UNCHANGED sockVars
       \/ /\ task' = [task EXCEPT ![k] = "credit"]
          /\ UNCHANGED sockVars
    /\ UNCHANGED <<running, at, delay, linked, rh, wh, wlock, of>>

(* The credit is given back, with or without a RDY. *)
TaskCredits(k) ==
    /\ task[k] = "credit"
    /\ \/ ~wlock /\ Hears(wh, "RDY", TRUE)
       \/ UNCHANGED sockVars
    /\ task' = [task EXCEPT ![k] = "none"]
    /\ UNCHANGED <<running, at, delay, linked, rh, wh, wlock, of>>

-----------------------------------------------------------------------------
Reconnect == Dialed \/ SwapWrite \/ Identify \/ Identified \/ IdentifyFails

Next ==
    \/ CheckRunning \/ Subscribe \/ InitialReady
    \/ LoopStops \/ LoopReads \/ AcquirePermit \/ SessionBreaks \/ SessionFails
    \/ Wake \/ DialFails \/ Reconnect
    \/ \E k \in Tasks : TaskAnswers(k) \/ TaskCredits(k)
    \/ \E s \in Socks : NsqdPush(s) \/ LinkLost(s)
    \/ SetRunning

Spec == Init /\ [][Next]_vars

(* tokio polls what is ready; an end of stream is read in the end; handlers *)
(* return; an nsqd that is dialed again and again accepts in the end, and   *)
(* answers IDENTIFY at once or closes.                                      *)
FairSpec ==
    /\ Spec
    /\ WF_vars(CheckRunning) /\ WF_vars(Subscribe) /\ WF_vars(InitialReady)
    /\ WF_vars(LoopStops) /\ WF_vars(LoopReads) /\ WF_vars(AcquirePermit)
    /\ WF_vars(SessionBreaks) /\ WF_vars(Wake)
    /\ SF_vars(Dialed) /\ WF_vars(Reconnect)
    /\ \A k \in Tasks : SF_vars(TaskAnswers(k)) /\ SF_vars(TaskCredits(k))

-----------------------------------------------------------------------------
(* Properties *)

TypeOK ==
    /\ running \in BOOLEAN
    /\ at \in {"check", "sleep", "ended"} \cup Session \cup Redial
    /\ delay \in 1..MaxDelay
    /\ linked \in BOOLEAN
    /\ rh \in Socks /\ wh \in Socks
    /\ wlock \in BOOLEAN
    /\ link \in [Socks -> {"up", "lost"}]
    /\ peer \in [Socks -> {"new", "known", "subscribed", "ready"}]
    /\ inq \in [Socks -> Seq(Frames)]
    /\ task \in [Tasks -> {"none", "handling", "credit"}]
    /\ of \in [Tasks -> Socks \cup {None}]

(* While a socket is up, nsqd and the supervisor agree on how far the       *)
(* connection is: no command of the supervisor itself is ever refused,      *)
(* whatever was lost before and whatever tasks of earlier sessions wrote.   *)
InStep ==
    link[wh] = "up" =>
        /\ at = "sub" => peer[wh] = "known" /\ rh = wh
        /\ at = "rdy" => peer[wh] \in {"subscribed", "ready"} /\ rh = wh
        /\ at \in {"loop", "permit"} => peer[wh] = "ready" /\ rh = wh

(* The first retry after a working session is quick, however long the       *)
(* outage before it was: retry_delay is set back by every reconnect.        *)
QuickAgain == at \in Session /\ link[wh] = "up" => delay = 1

(* The supervisor and the tasks of its messages do what ConsumerLifecycle   *)
(* says of them.                                                            *)
LifeSup == IF at \in Session THEN "session" ELSE IF at \in Redial THEN "redial" ELSE at
LifeSock == IF linked /\ at \in Session \cup {"check", "ended"} THEN "open" ELSE "lost"
LifeLent == IF \E k \in Tasks : task[k] # "none" THEN {"conn"} ELSE {}

Life == INSTANCE ConsumerLifecycle WITH
    Addrs <- {"addr"}, Callers <- {}, Conns <- {"conn"},
    Calls <- {}, Failures <- {"io", "other"},
    lock <- None, table <- [a \in {"addr"} |-> "conn"], count <- 1,
    pc <- <<>>, arg <- <<>>, todo <- <<>>, closing <- <<>>, lent <- LifeLent,
    sup <- [c \in {"conn"} |-> LifeSup], sock <- [c \in {"conn"} |-> LifeSock]

SupervisesAsDeclared ==
    [][\/ Life!Supervise("conn") \/ Life!Lend("conn") \/ Life!Return("conn")
       \/ SetRunning]_<<running, LifeSup, LifeSock, LifeLent>>

(* Once links hold and the consumer runs, the supervisor serves nsqd again  *)
(* for good, whatever went before, or it has met an error it does not retry. *)
Resubscribed ==
    <>[]running /\ <>[][\A s \in Socks : ~LinkLost(s)]_vars =>
        <>[](at \in {"loop", "permit", "ended"})

(* A loop that waits for a permit gets one, though tasks of earlier         *)
(* sessions, whose socket is gone, may hold them all.                       *)
PermitReturns == at = "permit" ~> at # "permit"

(* "Automatic reconnection and error retry": while the consumer runs its    *)
(* connection is served or retried.                                         *)
KeepsServing == running => at # "ended"
=============================================================================
