--------------------------- MODULE Supervisor_proofs ---------------------------
(***************************************************************************)
(* Theorems about Supervisor, for any sockets, permits, max_in_flight and  *)
(* longest delay, and any faults: its types, what it and nsqd agree on,    *)
(* and that its steps are those ConsumerLifecycle has for a supervisor.    *)
(***************************************************************************)
EXTENDS Supervisor, TLAPS

Links == {"up", "lost"}
Peers == {"new", "known", "subscribed", "ready"}

(* What a command does on its socket and leaves alone on the others.  The   *)
(* socket stays up only if the command was in turn.                         *)
LEMMA HearsEffect ==
    ASSUME TypeOK, NEW s \in Socks, NEW command \in {"SUB", "RDY", "FIN"}, NEW own,
           Hears(s, command, own)
    PROVE  /\ link' \in [Socks -> Links]
           /\ peer' \in [Socks -> Peers]
           /\ inq' \in [Socks -> Seq(Frames)]
           /\ \A r \in Socks \ {s} : link'[r] = link[r] /\ peer'[r] = peer[r]
           /\ link'[s] = "up" =>
                 /\ link[s] = "up"
                 /\ command = "SUB" => peer[s] = "known" /\ peer'[s] = "subscribed"
                 /\ command = "RDY" => /\ peer[s] \in {"subscribed", "ready"}
                                       /\ peer'[s] = "ready"
                 /\ command = "FIN" => /\ peer[s] \in {"subscribed", "ready"}
                                       /\ peer'[s] = peer[s]
<1> USE DEF TypeOK, Frames, Links, Peers
<1>1. CASE link[s] = "lost" /\ UNCHANGED sockVars
  BY <1>1 DEF sockVars
<1>2. CASE /\ link[s] = "up" /\ command = "SUB" /\ peer[s] = "known"
           /\ peer' = [peer EXCEPT ![s] = "subscribed"]
           /\ inq' = [inq EXCEPT ![s] = Append(@, "OK")]
           /\ UNCHANGED link
  BY <1>2
<1>3. CASE /\ link[s] = "up" /\ command = "RDY" /\ peer[s] \in {"subscribed", "ready"}
           /\ peer' = [peer EXCEPT ![s] = "ready"]
           /\ UNCHANGED <<inq, link>>
  BY <1>3
<1>4. CASE /\ link[s] = "up" /\ command = "FIN" /\ peer[s] \in {"subscribed", "ready"}
           /\ inq' = IF own THEN inq ELSE [inq EXCEPT ![s] = Append(@, "E_FIN_FAILED")]
           /\ UNCHANGED <<peer, link>>
  BY <1>4
<1>5. CASE /\ link[s] = "up"
           /\ \E frame \in Frames : inq' = [inq EXCEPT ![s] = Append(@, frame)]
           /\ link' = [link EXCEPT ![s] = "lost"]
           /\ UNCHANGED peer
  BY <1>5
<1> QED BY <1>1, <1>2, <1>3, <1>4, <1>5 DEF Hears

(* The delay stays within its bounds. *)
LEMMA LongerType == ASSUME NEW d \in 1..MaxDelay PROVE Longer(d) \in 1..MaxDelay
BY SupervisorAssumption DEF Longer

-----------------------------------------------------------------------------
(* How far the connection is.  wlock is held while the answer to IDENTIFY   *)
(* is awaited; the halves differ only within the swap; from the end of a    *)
(* session until the write half is replaced its socket is lost; and a       *)
(* socket that is up is, for nsqd, where the supervisor takes it to be.     *)
Course ==
    /\ wlock <=> at = "reply"
    /\ rh = wh <=> at # "swap"
    /\ at \in {"sleep", "dial", "swap"} => link[wh] = "lost"
    /\ at = "swap" /\ link[rh] = "up" => peer[rh] = "new"
    /\ at \in {"sleep"} \cup Redial => ~linked
    /\ link[wh] = "up" =>
          /\ at = "init" => peer[wh] = "new"
          /\ at \in {"check", "sub", "reply"} => peer[wh] = "known"
          /\ at = "rdy" => peer[wh] \in {"subscribed", "ready"}
          /\ at \in {"loop", "permit"} => peer[wh] = "ready"
          /\ at \in Session \cup {"check"} => delay = 1

Inv == TypeOK /\ Course

LEMMA Initially == Init => Inv
<1> SUFFICES ASSUME Init PROVE Inv
  OBVIOUS
<1>1. delay \in 1..MaxDelay
  BY SupervisorAssumption DEF Init
<1>2. inq \in [Socks -> Seq(Frames)]
  <2>1. <<>> \in Seq(Frames)
    OBVIOUS
  <2> QED BY <2>1 DEF Init
<1>3. /\ link \in [Socks -> Links] /\ peer \in [Socks -> Peers]
      /\ task \in [Tasks -> {"none", "handling", "credit"}]
      /\ of \in [Tasks -> Socks \cup {None}]
  BY DEF Init, Links, Peers
<1>4. TypeOK
  BY <1>1, <1>2, <1>3 DEF Init, TypeOK, Links, Peers
<1>5. Course
  BY DEF Init, Course, Session, Redial
<1> QED BY <1>4, <1>5 DEF Inv

(* The steps of a session keep the invariant. *)
LEMMA SessionKeeps ==
    ASSUME Inv,
           \/ CheckRunning \/ Subscribe \/ InitialReady \/ LoopStops \/ LoopReads
           \/ AcquirePermit \/ SessionBreaks \/ SessionFails
    PROVE  Inv'
<1> USE DEF Inv, Course, Session, Redial, sockVars, taskVars, Links, Peers
<1>0. TypeOK
  OBVIOUS
<1>1. CASE CheckRunning
  BY <1>1 DEF CheckRunning, TypeOK
<1>2. CASE Subscribe
  BY <1>0, <1>2, HearsEffect DEF Subscribe, TypeOK
<1>3. CASE InitialReady
  BY <1>0, <1>3, HearsEffect DEF InitialReady, TypeOK
<1>4. CASE LoopStops
  BY <1>4 DEF LoopStops, TypeOK
<1>5. CASE LoopReads
  <2>1. inq' \in [Socks -> Seq(Frames)]
    BY <1>0, <1>5 DEF LoopReads, TypeOK
  <2> QED BY <1>5, <2>1 DEF LoopReads, TypeOK
<1>6. CASE AcquirePermit
  BY <1>6 DEF AcquirePermit, TypeOK
<1>7. CASE SessionBreaks
  BY <1>7, LongerType DEF SessionBreaks, TypeOK
<1>8. CASE SessionFails
  BY <1>8 DEF SessionFails, TypeOK
<1> QED BY <1>1, <1>2, <1>3, <1>4, <1>5, <1>6, <1>7, <1>8

(* So do those of a reconnect. *)
LEMMA ReconnectKeeps ==
    ASSUME Inv, Wake \/ DialFails \/ Reconnect
    PROVE  Inv'
<1> USE DEF Inv, Course, Session, Redial, sockVars, taskVars, Links, Peers
<1>1. CASE Wake
  BY <1>1 DEF Wake, TypeOK
<1>2. CASE DialFails
  BY <1>2 DEF DialFails, TypeOK
<1>0. <<>> \in Seq(Frames)
  OBVIOUS
<1>3. CASE Dialed
  <2>1. PICK s \in Socks \ {wh} :
           /\ rh' = s
           /\ link' = [link EXCEPT ![s] = "up"]
           /\ peer' = [peer EXCEPT ![s] = "new"]
           /\ inq' = [inq EXCEPT ![s] = <<>>]
    BY <1>3 DEF Dialed
  <2>2. inq' \in [Socks -> Seq(Frames)]
    BY <1>0, <2>1 DEF TypeOK
  <2> QED BY <1>3, <2>1, <2>2 DEF Dialed, TypeOK
<1>4. CASE SwapWrite
  <2>1. inq' \in [Socks -> Seq(Frames)]
    BY <1>0, <1>4 DEF SwapWrite, TypeOK
  <2>2. of' \in [Tasks -> Socks \cup {None}]
    BY <1>4 DEF SwapWrite
  <2> QED BY <1>4, <2>1, <2>2 DEF SwapWrite, TypeOK
<1>5. CASE Identify
  <2>0. Append(inq[wh], "OK") \in Seq(Frames)
    BY DEF TypeOK, Frames
  <2>1. inq' \in [Socks -> Seq(Frames)]
    <3>1. CASE inq' = [inq EXCEPT ![wh] = Append(@, "OK")]
      BY <2>0, <3>1 DEF TypeOK
    <3>2. CASE inq' = inq
      BY <3>2 DEF TypeOK
    <3> QED BY <1>5, <3>1, <3>2 DEF Identify
  <2> QED BY <1>5, <2>1 DEF Identify, TypeOK
<1>6. CASE Identified
  <2>1. inq' \in [Socks -> Seq(Frames)]
    BY <1>6 DEF Identified, TypeOK
  <2>2. delay' \in 1..MaxDelay
    BY <1>6, SupervisorAssumption DEF Identified
  <2>3. TypeOK'
    BY <1>6, <2>1, <2>2 DEF Identified, TypeOK
  <2>4. Course'
    BY <1>6 DEF Identified, TypeOK
  <2> QED BY <2>3, <2>4
<1>7. CASE IdentifyFails
  BY <1>7 DEF IdentifyFails, TypeOK
<1> QED BY <1>1, <1>2, <1>3, <1>4, <1>5, <1>6, <1>7 DEF Reconnect

(* So does what tasks, nsqd, the network and the user do meanwhile. *)
LEMMA OthersKeep ==
    ASSUME Inv,
           \/ \E k \in Tasks : TaskAnswers(k) \/ TaskCredits(k)
           \/ \E s \in Socks : NsqdPush(s) \/ LinkLost(s)
           \/ SetRunning
    PROVE  Inv'
<1> USE DEF Inv, Course, Session, Redial, sockVars, taskVars, Links, Peers
<1>0. TypeOK
  OBVIOUS
<1>1. ASSUME NEW k \in Tasks, TaskAnswers(k) PROVE Inv'
  <2>1. /\ UNCHANGED <<running, at, delay, linked, rh, wh, wlock, of>>
        /\ task' \in [Tasks -> {"none", "handling", "credit"}]
    BY <1>1 DEF TaskAnswers, TypeOK
  <2>2. CASE UNCHANGED sockVars
    BY <2>1, <2>2 DEF TypeOK
  <2>3. CASE ~wlock /\ Hears(wh, "FIN", of[k] = wh)
    BY <1>0, <2>1, <2>3, HearsEffect DEF TypeOK
  <2> QED BY <1>1, <2>2, <2>3 DEF TaskAnswers
<1>2. ASSUME NEW k \in Tasks, TaskCredits(k) PROVE Inv'
  <2>1. /\ UNCHANGED <<running, at, delay, linked, rh, wh, wlock, of>>
        /\ task' \in [Tasks -> {"none", "handling", "credit"}]
    BY <1>2 DEF TaskCredits, TypeOK
  <2>2. CASE UNCHANGED sockVars
    BY <2>1, <2>2 DEF TypeOK
  <2>3. CASE ~wlock /\ Hears(wh, "RDY", TRUE)
    BY <1>0, <2>1, <2>3, HearsEffect DEF TypeOK
  <2> QED BY <1>2, <2>2, <2>3 DEF TaskCredits
<1>3. ASSUME NEW s \in Socks, NsqdPush(s) PROVE Inv'
  <2>1. inq' \in [Socks -> Seq(Frames)]
    BY <1>3 DEF NsqdPush, TypeOK, Frames
  <2> QED BY <1>3, <2>1 DEF NsqdPush, TypeOK
<1>4. ASSUME NEW s \in Socks, LinkLost(s) PROVE Inv'
  BY <1>4 DEF LinkLost, TypeOK
<1>5. CASE SetRunning
  BY <1>5 DEF SetRunning, TypeOK
<1> QED BY <1>1, <1>2, <1>3, <1>4, <1>5

LEMMA Invariant == Spec => []Inv
<1>1. ASSUME Inv, [Next]_vars PROVE Inv'
  <2>1. CASE UNCHANGED vars
    BY <1>1, <2>1 DEF vars, Inv, TypeOK, Course
  <2> QED BY <1>1, <2>1, SessionKeeps, ReconnectKeeps, OthersKeep DEF Next
<1> QED BY <1>1, Initially, PTL DEF Spec

-----------------------------------------------------------------------------
(* Every variable keeps its type, the delay between 1 and max_retry_delay   *)
(* included, whatever outages and late tasks do.                            *)
THEOREM SupervisorTypeCorrect == Spec => []TypeOK
<1>1. Inv => TypeOK
  BY DEF Inv
<1> QED BY <1>1, Invariant, PTL

(* Over any number of sockets, outages and tasks of lost sessions, nsqd     *)
(* never refuses a command of the supervisor on a socket that is up.        *)
THEOREM InStepHolds == Spec => []InStep
<1>1. Inv => InStep
  BY DEF Inv, Course, InStep
<1> QED BY <1>1, Invariant, PTL

(* However long the delays of an outage became, a session on a socket that  *)
(* is up begins with the shortest one.                                      *)
THEOREM QuickAgainHolds == Spec => []QuickAgain
<1>1. Inv => QuickAgain
  BY DEF Inv, Course, QuickAgain
<1> QED BY <1>1, Invariant, PTL

-----------------------------------------------------------------------------
(* The refinement *)

Seen == <<running, LifeSup, LifeSock, LifeLent>>

(* The table lists the connection all the time: its socket is not released, *)
(* whatever its supervisor does.                                            *)
LEMMA LifeOwns == (Life!Owned)' = {"conn"}
BY DEF Life!Owned, Life!Alive

LEMMA LifeEnds ==
    ASSUME LifeSup' = "ended", UNCHANGED <<LifeSock, LifeLent>>
    PROVE  Life!EndSupervisor("conn")
BY LifeOwns DEF Life!EndSupervisor, Life!Released, Life!callVars

(* The steps of a session: its commands and frames cannot be seen, its      *)
(* beginning and its end can.                                               *)
LEMMA SessionSteps ==
    ASSUME Inv,
           \/ CheckRunning \/ Subscribe \/ InitialReady \/ LoopStops \/ LoopReads
           \/ SessionBreaks \/ SessionFails
    PROVE  Life!Supervise("conn") \/ UNCHANGED Seen
<1> USE DEF Session, Redial, LifeSup, LifeSock
<1>0. UNCHANGED LifeLent
  BY DEF CheckRunning, Subscribe, InitialReady, LoopStops, LoopReads, SessionBreaks,
         SessionFails, taskVars, LifeLent
<1>1. CASE CheckRunning
  <2>1. CASE running
    BY <1>0, <1>1, <2>1 DEF CheckRunning, Life!CheckRunning, Life!Supervise, Life!callVars
  <2>2. CASE ~running
    <3>1. Life!EndSupervisor("conn")
      BY <1>0, <1>1, <2>2, LifeEnds DEF CheckRunning
    <3> QED BY <1>1, <2>2, <3>1 DEF CheckRunning, Life!CheckRunning, Life!Supervise
  <2> QED BY <2>1, <2>2 DEF Inv, TypeOK
<1>2. CASE Subscribe \/ InitialReady \/ LoopReads
  <2>1. at \in Session /\ at' \in Session /\ UNCHANGED <<running, linked>>
    BY <1>2 DEF Subscribe, InitialReady, LoopReads
  <2> QED BY <1>0, <2>1 DEF Seen
<1>3. CASE LoopStops
  <2>1. Life!EndSupervisor("conn")
    BY <1>0, <1>3, LifeEnds DEF LoopStops
  <2> QED BY <1>3, <2>1 DEF LoopStops, Life!SessionStops, Life!Supervise
<1>4. CASE SessionBreaks
  <2>1. CASE running
    <3>1. /\ LifeSup = "session" /\ LifeSup' = "sleep" /\ LifeSock' = "lost"
          /\ UNCHANGED <<running, LifeLent>>
      BY <1>0, <1>4, <2>1 DEF SessionBreaks
    <3>2. Life!SessionFails("conn", "io")
      BY <2>1, <3>1 DEF Life!SessionFails, Life!callVars
    <3> QED BY <3>2 DEF Life!Supervise
  <2>2. CASE ~running
    <3>1. Life!EndSupervisor("conn")
      BY <1>0, <1>4, <2>2, LifeEnds DEF SessionBreaks
    <3> QED BY <1>4, <2>2, <3>1 DEF SessionBreaks, Life!SessionFails, Life!Supervise
  <2> QED BY <2>1, <2>2 DEF Inv, TypeOK
<1>5. CASE SessionFails
  <2>1. Life!EndSupervisor("conn")
    BY <1>0, <1>5, LifeEnds DEF SessionFails
  <2>2. Life!SessionFails("conn", "other")
    BY <1>5, <2>1 DEF SessionFails, Life!SessionFails
  <2> QED BY <2>2 DEF Life!Supervise
<1> QED BY <1>1, <1>2, <1>3, <1>4, <1>5

(* Those of a reconnect: nothing is seen until it has succeeded or failed.  *)
LEMMA ReconnectSteps ==
    ASSUME Inv, Wake \/ DialFails \/ Reconnect
    PROVE  Life!Supervise("conn") \/ UNCHANGED Seen
<1> USE DEF Session, Redial, LifeSup, LifeSock, Inv, Course
<1>0. UNCHANGED LifeLent
  BY DEF Wake, DialFails, Reconnect, Dialed, SwapWrite, Identify, Identified, IdentifyFails,
         taskVars, LifeLent
<1>1. CASE Wake
  <2>1. CASE running
    BY <1>0, <1>1, <2>1 DEF Wake, Life!Wake, Life!Supervise, Life!callVars
  <2>2. CASE ~running
    <3>1. Life!EndSupervisor("conn")
      BY <1>0, <1>1, <2>2, LifeEnds DEF Wake
    <3> QED BY <1>1, <2>2, <3>1 DEF Wake, Life!Wake, Life!Supervise
  <2> QED BY <2>1, <2>2 DEF Inv, TypeOK
<1>2. CASE DialFails \/ Identified \/ IdentifyFails
  BY <1>0, <1>2 DEF DialFails, Identified, IdentifyFails,
              Life!Redialed, Life!Supervise, Life!callVars
<1>3. CASE Dialed \/ SwapWrite \/ Identify
  BY <1>0, <1>3 DEF Dialed, SwapWrite, Identify, Seen
<1> QED BY <1>1, <1>2, <1>3 DEF Reconnect

(* The tasks of messages: the first one is lent the connection, and the     *)
(* last one to end returns it.                                              *)
LEMMA TaskSteps ==
    ASSUME Inv, AcquirePermit \/ \E k \in Tasks : TaskAnswers(k) \/ TaskCredits(k)
    PROVE  Life!Lend("conn") \/ Life!Return("conn") \/ UNCHANGED Seen
<1> USE DEF Session, LifeSup, LifeSock
<1>1. CASE AcquirePermit
  <2>1. /\ at \in Session /\ at' \in Session /\ UNCHANGED <<running, linked>>
        /\ LifeLent' = {"conn"}
    BY <1>1 DEF AcquirePermit, LifeLent, Inv, TypeOK
  <2>2. LifeSup = "session" /\ UNCHANGED <<running, LifeSup, LifeSock>>
    BY <2>1
  <2>3. LifeLent' = LifeLent \cup {"conn"}
    BY <2>1 DEF LifeLent
  <2> HIDE DEF LifeSup, LifeSock
  <2> QED BY <2>2, <2>3 DEF Life!Lend, Life!callVars
<1>2. CASE \E k \in Tasks : TaskAnswers(k) \/ TaskCredits(k)
  <2>0. UNCHANGED <<running, at, linked>>
    BY <1>2 DEF TaskAnswers, TaskCredits
  <2>1. UNCHANGED <<running, LifeSup, LifeSock>>
    BY <2>0
  <2>2. LifeLent = {"conn"}
    BY <1>2 DEF TaskAnswers, TaskCredits, LifeLent
  <2>3. LifeLent' = {"conn"} \/ LifeLent' = {}
    BY DEF LifeLent
  <2>4. ASSUME LifeLent' = {} PROVE Life!Return("conn")
    BY <2>1, <2>2, <2>4, LifeOwns DEF Life!Return, Life!Released, Life!callVars
  <2> QED BY <2>1, <2>2, <2>3, <2>4 DEF Seen
<1> QED BY <1>1, <1>2

(* Each step of Supervisor is one of Life!Supervise, lends or returns the   *)
(* connection, changes is_running, or cannot be seen in ConsumerLifecycle:  *)
(* a reconnect is one step there, its last one here, and one that failed    *)
(* half way leaves the socket lost.                                         *)
THEOREM SupervisesHolds == Spec => SupervisesAsDeclared
<1> DEFINE Declared == \/ Life!Supervise("conn") \/ Life!Lend("conn")
                       \/ Life!Return("conn") \/ SetRunning
<1>1. ASSUME Inv, [Next]_vars PROVE Declared \/ UNCHANGED Seen
  <2>1. CASE \/ \E s \in Socks : NsqdPush(s) \/ LinkLost(s)
             \/ UNCHANGED vars
    <3>1. UNCHANGED <<running, at, linked, task>>
      BY <2>1 DEF NsqdPush, LinkLost, vars, taskVars
    <3> QED BY <3>1 DEF Seen, LifeSup, LifeSock, LifeLent
  <2>2. CASE \/ CheckRunning \/ Subscribe \/ InitialReady \/ LoopStops \/ LoopReads
             \/ SessionBreaks \/ SessionFails
    BY <1>1, <2>2, SessionSteps
  <2>3. CASE Wake \/ DialFails \/ Reconnect
    BY <1>1, <2>3, ReconnectSteps
  <2>4. CASE AcquirePermit \/ \E k \in Tasks : TaskAnswers(k) \/ TaskCredits(k)
    BY <1>1, <2>4, TaskSteps
  <2> QED BY <1>1, <2>1, <2>2, <2>3, <2>4 DEF Next
<1>2. ASSUME Inv, [Next]_vars
      PROVE  [\/ Life!Supervise("conn") \/ Life!Lend("conn") \/ Life!Return("conn")
              \/ SetRunning]_<<running, LifeSup, LifeSock, LifeLent>>
  BY <1>1, <1>2 DEF Seen
<1> QED BY <1>2, Invariant, PTL DEF Spec, SupervisesAsDeclared
=============================================================================
