-------------------------- MODULE ConnectionHandler --------------------------
(***************************************************************************)
(* One session of ConnectionHandler::handle_connection in consumer.rs: the *)
(* loop that reads frames from an nsqd, the task it spawns for each        *)
(* message, the clones of the message through which user code answers by   *)
(* hand (protocol.rs, Message), and the RDY bookkeeping.                   *)
(*                                                                         *)
(* Concurrency: the loop, every spawned task and every worker that holds a *)
(* clone of a message are tokio tasks that interleave at each .await; an   *)
(* action is the code between two of them.  Connection::write_bytes writes *)
(* a command under the write lock, so commands reach nsqd whole and in     *)
(* order; a write and nsqd's reaction to it are one step here.             *)
(***************************************************************************)
EXTENDS Integers, Sequences, FiniteSets

CONSTANTS
    Msgs,          \* the deliveries nsqd can make in this session
    Workers,       \* user tasks that keep clones of messages; {} if none does
    Calls,         \* the methods of Message that user code calls
    MaxInFlight,   \* ConsumerConfig::max_in_flight
    Concurrent,    \* permits of the semaphore: concurrent_handlers.max(1)
    DisableAuto,   \* ConsumerConfig::disable_auto_response
    Heartbeat,     \* the response frame _heartbeat_
    Ignored        \* any other response, or an error that is not E_INVALID

ASSUME ConfigAssumption ==
    /\ MaxInFlight \in Nat \ {0}
    /\ Concurrent \in Nat \ {0}
    /\ DisableAuto \in BOOLEAN
    /\ Calls \subseteq {"FIN", "REQ", "TOUCH", "disable"}
    /\ Heartbeat \notin Msgs
    /\ Ignored \notin Msgs \cup {Heartbeat}
    /\ "handler" \notin Workers

VARIABLES
    pc,         \* where the loop is
    running,    \* Consumer::is_running
    link,       \* "up"; "stalled": writes time out; "closed": our write half
                \* is shut down; "down": the peer is gone
    inbox,      \* frames nsqd has sent and read_frame has not returned
    window,     \* the last RDY count nsqd received
    beat,       \* nsqd has a heartbeat out that no NOP has answered
    phase,      \* phase[m]: how far the delivery m is
    op,         \* op[m][h]: command holder h of a clone of m is about to write
    responded,  \* Message::responded, shared by all clones of m
    optOut,     \* copies of m on which auto_response_disabled is set
    answers,    \* answers[m]: the FIN and REQ commands written for m
    rdy,        \* total_rdy_count
    stats       \* messages_received, messages_finished, messages_requeued

vars == <<pc, running, link, inbox, window, beat, phase, op, responded,
          optOut, answers, rdy, stats>>

loopVars == <<pc, running>>
wireVars == <<link, window, beat>>
userVars == <<op, responded, optOut>>

Holders == {"handler"} \cup Workers

(* Mutation of Alive: a panic keeps the permit. *)
AliveLeak == {"handling", "FIN", "REQ", "credit", "replenish", "store", "panicked"}

(* Tasks spawned and not finished: each owns a permit until it is dropped. *)
Alive  == {"handling", "FIN", "REQ", "credit", "replenish", "store"}
Ended  == {"done", "unready", "aborted", "panicked"}
Phases == {"queued", "sent", "waiting"} \cup Alive \cup Ended

In(phases) == {m \in Msgs : phase[m] \in phases}
InFlight   == {m \in Msgs : phase[m] # "queued" /\ answers[m] = <<>>}
CanWrite   == link = "up"
Half       == MaxInFlight \div 2

Init ==
    /\ pc = "subscribe"
    /\ running = TRUE
    /\ link = "up"
    /\ inbox = <<>>
    /\ window = 0
    /\ beat = FALSE
    /\ phase = [m \in Msgs |-> "queued"]
    /\ op = [m \in Msgs |-> [h \in Holders |-> "none"]]
    /\ responded = [m \in Msgs |-> FALSE]
    /\ optOut = [m \in Msgs |-> {}]
    /\ answers = [m \in Msgs |-> <<>>]
    /\ rdy = 0
    /\ stats = [received |-> 0, finished |-> 0, requeued |-> 0]

-----------------------------------------------------------------------------
(* The loop *)

Subscribe ==
    /\ pc = "subscribe"
    /\ IF CanWrite
       THEN pc' = "ready" /\ inbox' = Append(inbox, Ignored)    \* nsqd's OK
       ELSE pc' = "failed" /\ UNCHANGED inbox
    /\ UNCHANGED <<running, wireVars, phase, userVars, answers, rdy, stats>>

InitialReady ==
    /\ pc = "ready"
    /\ IF CanWrite
       THEN /\ window' = MaxInFlight
            /\ rdy' = MaxInFlight
            /\ pc' = "top"
       ELSE /\ pc' = "failed"
            /\ UNCHANGED <<window, rdy>>
    /\ UNCHANGED <<running, link, beat, inbox, phase, userVars, answers, stats>>

(* Mutation of CheckRunning: the flag is not looked at. *)
CheckNothing ==
    /\ pc = "top"
    /\ pc' = "select"
    /\ UNCHANGED <<running, wireVars, inbox, phase, userVars, answers, rdy, stats>>

CheckRunning ==
    /\ pc = "top"
    /\ pc' = IF running THEN "select" ELSE "stopped"
    /\ UNCHANGED <<running, wireVars, inbox, phase, userVars, answers, rdy, stats>>

(* The 30 s tick writes a NOP that nobody asked for. *)
HeartbeatTick ==
    /\ pc = "select"
    /\ pc' = IF CanWrite THEN "top" ELSE "failed"
    /\ UNCHANGED <<running, wireVars, inbox, phase, userVars, answers, rdy, stats>>

(* Mutation of ReadHeartbeat: no NOP is sent. *)
ReadHeartbeatOnly ==
    /\ pc = "select"
    /\ inbox # <<>>
    /\ Head(inbox) = Heartbeat
    /\ inbox' = Tail(inbox)
    /\ pc' = "top"
    /\ UNCHANGED <<running, wireVars, phase, userVars, answers, rdy, stats>>

ReadHeartbeat ==
    /\ pc = "select"
    /\ inbox # <<>>
    /\ Head(inbox) = Heartbeat
    /\ inbox' = Tail(inbox)
    /\ beat' = (beat /\ ~CanWrite)
    /\ pc' = IF CanWrite THEN "top" ELSE "failed"
    /\ UNCHANGED <<running, link, window, phase, userVars, answers, rdy, stats>>

ReadIgnored ==
    /\ pc = "select"
    /\ inbox # <<>>
    /\ Head(inbox) = Ignored
    /\ inbox' = Tail(inbox)
    /\ pc' = "top"
    /\ UNCHANGED <<running, wireVars, phase, userVars, answers, rdy, stats>>

ReadMessage ==
    /\ pc = "select"
    /\ inbox # <<>>
    /\ Head(inbox) \in Msgs
    /\ inbox' = Tail(inbox)
    /\ phase' = [phase EXCEPT ![Head(inbox)] = "waiting"]
    /\ stats' = [stats EXCEPT !.received = @ + 1]
    /\ pc' = "permit"
    /\ UNCHANGED <<running, wireVars, userVars, answers, rdy>>

(* EOF, a read timeout, a malformed frame or an E_INVALID error frame. *)
ReadFails ==
    /\ pc = "select"
    /\ pc' = "failed"
    /\ UNCHANGED <<running, wireVars, inbox, phase, userVars, answers, rdy, stats>>

(* While it waits here the loop neither reads nor ticks. *)
AcquirePermit ==
    /\ pc = "permit"
    /\ Cardinality(In(Alive)) < Concurrent
    /\ \E m \in In({"waiting"}) : phase' = [phase EXCEPT ![m] = "handling"]
    /\ pc' = "top"
    /\ UNCHANGED <<running, wireVars, inbox, userVars, answers, rdy, stats>>

-----------------------------------------------------------------------------
(* User code: the handler on its clone, workers on theirs *)

Holds(m, h) ==
    IF h = "handler" THEN phase[m] = "handling"
                     ELSE phase[m] \in Alive \cup Ended

(* Mutation of Claim: responded is stored without being compared. *)
ClaimBlindly(m, h, command) ==
    /\ Holds(m, h)
    /\ op[m][h] = "none"
    /\ responded' = [responded EXCEPT ![m] = TRUE]
    /\ op' = [op EXCEPT ![m][h] = command]
    /\ UNCHANGED <<loopVars, wireVars, inbox, phase, optOut, answers, rdy, stats>>

(* Message::finish and Message::requeue: the compare_exchange on responded. *)
Claim(m, h, command) ==
    /\ Holds(m, h)
    /\ op[m][h] = "none"
    /\ ~responded[m]
    /\ responded' = [responded EXCEPT ![m] = TRUE]
    /\ op' = [op EXCEPT ![m][h] = command]
    /\ UNCHANGED <<loopVars, wireVars, inbox, phase, optOut, answers, rdy, stats>>

(* Message::touch: has_responded is read before the write. *)
Touch(m, h) ==
    /\ "TOUCH" \in Calls
    /\ Holds(m, h)
    /\ op[m][h] = "none"
    /\ ~responded[m]
    /\ op' = [op EXCEPT ![m][h] = "TOUCH"]
    /\ UNCHANGED <<loopVars, wireVars, inbox, phase, responded, optOut, answers, rdy, stats>>

(* MessageResponder: the command is written, or the write fails or its      *)
(* future is dropped before it starts.                                      *)
WriteManual(m, h) ==
    /\ op[m][h] # "none"
    /\ op' = [op EXCEPT ![m][h] = "none"]
    /\ \/ /\ CanWrite
          /\ op[m][h] # "TOUCH"
          /\ answers' = [answers EXCEPT ![m] = Append(@, op[m][h])]
       \/ UNCHANGED answers
    /\ UNCHANGED <<loopVars, wireVars, inbox, phase, responded, optOut, rdy, stats>>

(* Message::disable_auto_response sets a plain bool of the clone it is      *)
(* called on; "task" is the copy the spawned task tests.                    *)
DisableAutoResponse(m) ==
    /\ "disable" \in Calls
    /\ Holds(m, "handler")
    /\ optOut' = [optOut EXCEPT ![m] = @ \cup {"handler"}]
    /\ UNCHANGED <<loopVars, wireVars, inbox, phase, op, responded, answers, rdy, stats>>

-----------------------------------------------------------------------------
(* The spawned task *)

(* Mutation of AutoResponds: disable_auto_response is not consulted. *)
AutoRespondsAlways(m) == "task" \notin optOut[m] /\ ~responded[m]

AutoResponds(m) == ~DisableAuto /\ "task" \notin optOut[m] /\ ~responded[m]

(* messages_finished or messages_requeued plus one. *)
Counted(verdict) ==
    IF verdict = "FIN" THEN [stats EXCEPT !.finished = @ + 1]
                       ELSE [stats EXCEPT !.requeued = @ + 1]

(* The verdict is what the task makes of Ok(_) and of Err(_). *)
HandlerReturns(m, verdict) ==
    /\ phase[m] = "handling"
    /\ op[m]["handler"] = "none"
    /\ \/ /\ AutoResponds(m)
          /\ phase' = [phase EXCEPT ![m] = verdict]
          /\ UNCHANGED stats
       \/ /\ ~AutoResponds(m)
          /\ phase' = [phase EXCEPT ![m] = "credit"]
          /\ stats' = IF responded[m] THEN Counted(verdict) ELSE stats
    /\ UNCHANGED <<loopVars, wireVars, inbox, userVars, answers, rdy>>

(* A panic unwinds the task: only the permit is given back. *)
HandlerPanics(m) ==
    /\ phase[m] = "handling"
    /\ phase' = [phase EXCEPT ![m] = "panicked"]
    /\ op' = [op EXCEPT ![m]["handler"] = "none"]
    /\ UNCHANGED <<loopVars, wireVars, inbox, responded, optOut,
                   answers, rdy, stats>>

(* Mutations of AutoRespond: the answer is counted before it is written;    *)
(* a failed write does not end the task.                                    *)
CountBeforeWrite(m) ==
    /\ phase[m] \in {"FIN", "REQ"}
    /\ stats' = Counted(phase[m])
    /\ answers' = [answers EXCEPT ![m] = IF CanWrite THEN Append(@, phase[m]) ELSE @]
    /\ phase' = [phase EXCEPT ![m] = IF CanWrite THEN "credit" ELSE "aborted"]
    /\ UNCHANGED <<loopVars, wireVars, inbox, userVars, rdy>>

CreditAnyway(m) ==
    /\ phase[m] \in {"FIN", "REQ"}
    /\ answers' = [answers EXCEPT ![m] = IF CanWrite THEN Append(@, phase[m]) ELSE @]
    /\ phase' = [phase EXCEPT ![m] = "credit"]
    /\ UNCHANGED <<loopVars, wireVars, inbox, userVars, rdy, stats>>

(* The automatic FIN or REQ does not go through responded. *)
AutoRespond(m) ==
    /\ phase[m] \in {"FIN", "REQ"}
    /\ \/ /\ CanWrite
          /\ answers' = [answers EXCEPT ![m] = Append(@, phase[m])]
          /\ stats' = Counted(phase[m])
          /\ phase' = [phase EXCEPT ![m] = "credit"]
       \/ /\ ~CanWrite
          /\ phase' = [phase EXCEPT ![m] = "aborted"]
          /\ UNCHANGED <<answers, stats>>
    /\ UNCHANGED <<loopVars, wireVars, inbox, userVars, rdy>>

(* Mutation of Credit: fetch_sub taken to return the new value. *)
CreditOfOld(m) ==
    /\ phase[m] = "credit"
    /\ rdy' = rdy - 1
    /\ phase' = [phase EXCEPT ![m] = IF rdy <= Half THEN "replenish" ELSE "done"]
    /\ UNCHANGED <<loopVars, wireVars, inbox, userVars, answers, stats>>

(* fetch_sub on total_rdy_count and the test of what remains. *)
Credit(m) ==
    /\ phase[m] = "credit"
    /\ rdy' = rdy - 1
    /\ phase' = [phase EXCEPT ![m] = IF rdy - 1 <= Half THEN "replenish" ELSE "done"]
    /\ UNCHANGED <<loopVars, wireVars, inbox, userVars, answers, stats>>

(* Mutation of Replenish: RDY announces the credit left, not the maximum. *)
ReplenishLess(m) ==
    /\ phase[m] = "replenish"
    /\ phase' = [phase EXCEPT ![m] = IF CanWrite THEN "store" ELSE "unready"]
    /\ window' = IF CanWrite THEN rdy ELSE window
    /\ UNCHANGED <<loopVars, link, beat, inbox, userVars, answers, rdy, stats>>

Replenish(m) ==
    /\ phase[m] = "replenish"
    /\ phase' = [phase EXCEPT ![m] = IF CanWrite THEN "store" ELSE "unready"]
    /\ window' = IF CanWrite THEN MaxInFlight ELSE window
    /\ UNCHANGED <<loopVars, link, beat, inbox, userVars, answers, rdy, stats>>

StoreReady(m) ==
    /\ phase[m] = "store"
    /\ rdy' = MaxInFlight
    /\ phase' = [phase EXCEPT ![m] = "done"]
    /\ UNCHANGED <<loopVars, wireVars, inbox, userVars, answers, stats>>

-----------------------------------------------------------------------------
(* nsqd, the network, and the rest of the consumer *)

(* nsqd pushes while fewer than RDY messages are unanswered. *)
NsqdPush(m) ==
    /\ link # "down"
    /\ phase[m] = "queued"
    /\ Cardinality(InFlight) < window
    /\ phase' = [phase EXCEPT ![m] = "sent"]
    /\ inbox' = Append(inbox, m)
    /\ UNCHANGED <<loopVars, wireVars, userVars, answers, rdy, stats>>

NsqdHeartbeat ==
    /\ link # "down"
    /\ ~beat
    /\ beat' = TRUE
    /\ inbox' = Append(inbox, Heartbeat)
    /\ UNCHANGED <<loopVars, link, window, phase, userVars, answers, rdy, stats>>

(* A peer that stalls and may drain again, Connection::close called by stop *)
(* or disconnect, a peer that is gone.                                      *)
LinkChanges ==
    /\ \/ link = "up"                   /\ link' = "stalled"
       \/ link = "stalled"              /\ link' = "up"
       \/ link \in {"up", "stalled"}    /\ link' = "closed"
       \/ link # "down"                 /\ link' = "down"
    /\ UNCHANGED <<loopVars, inbox, window, beat, phase, userVars, answers, rdy, stats>>

(* Consumer::stop and Consumer::start write is_running. *)
SetRunning ==
    /\ running' = ~running
    /\ UNCHANGED <<pc, wireVars, inbox, phase, userVars, answers, rdy, stats>>

-----------------------------------------------------------------------------
ReadFrame == ReadHeartbeat \/ ReadIgnored \/ ReadMessage

Loop ==
    \/ Subscribe \/ InitialReady \/ CheckRunning \/ HeartbeatTick
    \/ ReadFrame \/ ReadFails \/ AcquirePermit

User(m) ==
    \/ \E h \in Holders :
          \/ \E command \in Calls \cap {"FIN", "REQ"} : Claim(m, h, command)
          \/ Touch(m, h)
          \/ WriteManual(m, h)
    \/ DisableAutoResponse(m)

Task(m) ==
    \/ \E verdict \in {"FIN", "REQ"} : HandlerReturns(m, verdict)
    \/ HandlerPanics(m)
    \/ AutoRespond(m) \/ Credit(m) \/ Replenish(m) \/ StoreReady(m)

Environment ==
    \/ \E m \in Msgs : NsqdPush(m)
    \/ NsqdHeartbeat \/ LinkChanges \/ SetRunning

Next ==
    \/ Loop
    \/ \E m \in Msgs : User(m) \/ Task(m)
    \/ Environment

Spec == Init /\ [][Next]_vars

(* tokio keeps polling what is ready; the tick fires once in 30 s, so a     *)
(* frame that is there again and again is read; the user's handler returns  *)
(* in the end.  Nothing is assumed of nsqd, of the link or of workers.      *)
Fairness ==
    /\ WF_vars(Subscribe) /\ WF_vars(InitialReady) /\ WF_vars(CheckRunning)
    /\ WF_vars(HeartbeatTick) /\ SF_vars(ReadFrame) /\ WF_vars(AcquirePermit)
    /\ \A m \in Msgs :
          /\ SF_vars(\E verdict \in {"FIN", "REQ"} : HandlerReturns(m, verdict))
          /\ WF_vars(WriteManual(m, "handler"))
          /\ WF_vars(AutoRespond(m)) /\ WF_vars(Credit(m))
          /\ WF_vars(Replenish(m)) /\ WF_vars(StoreReady(m))

FairSpec == Spec /\ Fairness

-----------------------------------------------------------------------------
(* Properties *)

TypeOK ==
    /\ pc \in {"subscribe", "ready", "top", "select", "permit", "stopped", "failed"}
    /\ running \in BOOLEAN
    /\ link \in {"up", "stalled", "closed", "down"}
    /\ inbox \in Seq(Msgs \cup {Heartbeat, Ignored})
    /\ window \in {0, MaxInFlight}
    /\ beat \in BOOLEAN
    /\ phase \in [Msgs -> Phases]
    /\ op \in [Msgs -> [Holders -> {"none", "FIN", "REQ", "TOUCH"}]]
    /\ responded \in [Msgs -> BOOLEAN]
    /\ optOut \in [Msgs -> SUBSET {"handler", "task"}]
    /\ answers \in [Msgs -> Seq({"FIN", "REQ"})]
    /\ rdy \in Int
    /\ stats \in [received : Nat, finished : Nat, requeued : Nat]

(* nsqd gets at most one FIN or REQ for a delivery, whoever of the handler, *)
(* the workers and the task answers (the compare_exchange of protocol.rs,   *)
(* the has_responded tests of consumer.rs).                                 *)
SingleAnswer == \A m \in Msgs : Len(answers[m]) <= 1

(* The RDY counter never sinks to half of max_in_flight without a task that *)
(* is about to raise it, unless a write of RDY failed: total_rdy_count is   *)
(* decremented, compared and stored by different tasks.                     *)
ReplenishDuty ==
    window = 0 \/ rdy > Half \/ In({"replenish", "store", "unready"}) # {}

(* With automatic responses the statistics account for every message read:  *)
(* what is not counted as finished or requeued is still with a task, or was *)
(* lost by a panic or by a failed write.                                    *)
StatsLedger ==
    stats.received - stats.finished - stats.requeued =
        Cardinality(In({"waiting", "handling", "FIN", "REQ", "aborted", "panicked"}))

(* With automatic responses a task gives its credit back only for a message *)
(* that was answered, or that the handler claimed to answer.                *)
NoSilentDrop ==
    \A m \in In({"credit", "replenish", "store", "unready", "done"}) :
        responded[m] \/ answers[m] # <<>>

(* "After this call no FIN or REQ is sent automatically" and "CAS makes     *)
(* sure that it is answered only once": a message whose handler opted out   *)
(* is answered by hand, and so once at most.                                *)
OptOutHonoured == \A m \in Msgs : optOut[m] # {} => Len(answers[m]) <= 1

SessionOver == pc \in {"stopped", "failed"}

(* A message nsqd pushed is answered, unless user code or the link failed.  *)
DeliveryAnswered ==
    \A m \in Msgs :
        phase[m] = "sent" ~> \/ answers[m] # <<>>
                             \/ responded[m]
                             \/ phase[m] \in {"aborted", "panicked"}
                             \/ link # "up"
                             \/ SessionOver

(* A heartbeat is answered even if all permits are taken when it arrives.   *)
HeartbeatAnswered == beat ~> (~beat \/ link # "up" \/ SessionOver)

(* After stop the loop ends, also when nsqd sends nothing any more.         *)
StopObserved == <>[](~running) => <>SessionOver

(* What nsqd sees of the session is what Delivery promises. *)
Fate(m) ==
    IF answers[m] # <<>> THEN (IF Len(answers[m]) = 1 THEN answers[m][1] ELSE "twice")
    ELSE IF phase[m] = "queued" THEN "queued" ELSE "inFlight"

Promise == INSTANCE Delivery WITH fate <- [m \in Msgs |-> Fate(m)]
DeliverySpec == Promise!Spec
=============================================================================
