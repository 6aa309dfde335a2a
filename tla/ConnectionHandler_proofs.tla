----------------------- MODULE ConnectionHandler_proofs -----------------------
(***************************************************************************)
(* Theorems about ConnectionHandler, for every set of messages and of      *)
(* workers and every configuration.  TypeCorrect comes first; each other   *)
(* theorem adds the invariant it needs and reuses it.                      *)
(***************************************************************************)
EXTENDS ConnectionHandler, FiniteSetTheorems, TLAPS

StatsType == [received : Nat, finished : Nat, requeued : Nat]

(* Counting a message that was read does, too. *)
LEMMA ReceivedType ==
    ASSUME stats \in StatsType
    PROVE  [stats EXCEPT !.received = @ + 1] \in StatsType
BY DEF StatsType

(* Counting an answer keeps the counters natural numbers. *)
LEMMA CountedType ==
    ASSUME stats \in StatsType, NEW verdict
    PROVE  Counted(verdict) \in StatsType
BY DEF Counted, StatsType

(* Every variable keeps its type: in particular no RDY count but            *)
(* max_in_flight reaches nsqd and no task leaves the phases of the code.    *)
THEOREM TypeCorrect == Spec => []TypeOK
<1>1. Init => TypeOK
  <2> SUFFICES ASSUME Init PROVE TypeOK
    OBVIOUS
  <2>1. inbox \in Seq(Msgs \cup {Heartbeat, Ignored})
    BY DEF Init
  <2>2. answers \in [Msgs -> Seq({"FIN", "REQ"})]
    BY DEF Init
  <2>3. op \in [Msgs -> [Holders -> {"none", "FIN", "REQ", "TOUCH"}]]
    BY DEF Init
  <2>4. stats \in StatsType
    BY DEF Init, StatsType
  <2>5. phase \in [Msgs -> Phases]
    BY DEF Init, Phases
  <2>6. responded \in [Msgs -> BOOLEAN]
    BY DEF Init
  <2>7. optOut \in [Msgs -> SUBSET {"handler", "task"}]
    BY DEF Init
  <2>9. /\ pc \in {"subscribe", "ready", "top", "select", "permit", "stopped", "failed"}
        /\ link \in {"up", "stalled", "closed", "down"}
        /\ window \in {0, MaxInFlight}
        /\ rdy \in Int
    BY DEF Init
  <2>10. running \in BOOLEAN /\ beat \in BOOLEAN
    BY DEF Init
  <2> QED BY <2>1, <2>2, <2>3, <2>4, <2>5, <2>6, <2>7, <2>9, <2>10
         DEF TypeOK, StatsType
<1>2. ASSUME TypeOK, [Next]_vars PROVE TypeOK'
  <2> USE ConfigAssumption, <1>2
      DEF TypeOK, loopVars, wireVars, userVars, Phases, Alive, Ended
  <2>1. CASE Loop
    <3>1. CASE Subscribe
      <4>1. Append(inbox, Ignored) \in Seq(Msgs \cup {Heartbeat, Ignored})
        OBVIOUS
      <4> QED BY <3>1, <4>1 DEF Subscribe
    <3>2. CASE InitialReady  BY <3>2 DEF InitialReady
    <3>3. CASE CheckRunning  BY <3>3 DEF CheckRunning
    <3>4. CASE HeartbeatTick BY <3>4 DEF HeartbeatTick
    <3>5. CASE ReadHeartbeat BY <3>5 DEF ReadHeartbeat
    <3>6. CASE ReadIgnored   BY <3>6 DEF ReadIgnored
    <3>7. CASE ReadMessage   
      <4>1. stats' \in StatsType
        BY <3>7, ReceivedType DEF ReadMessage, StatsType
      <4>2. inbox' \in Seq(Msgs \cup {Heartbeat, Ignored})
        BY <3>7 DEF ReadMessage
      <4>3. phase' \in [Msgs -> Phases]
        BY <3>7 DEF ReadMessage
      <4> QED BY <3>7, <4>1, <4>2, <4>3 DEF ReadMessage, StatsType
    <3>8. CASE ReadFails     BY <3>8 DEF ReadFails
    <3>9. CASE AcquirePermit BY <3>9 DEF AcquirePermit
    <3> QED BY <2>1, <3>1, <3>2, <3>3, <3>4, <3>5, <3>6, <3>7, <3>8, <3>9
            DEF Loop, ReadFrame
  <2>2. ASSUME NEW m \in Msgs, User(m) PROVE TypeOK'
    <3>1. ASSUME NEW h \in Holders, NEW command \in {"FIN", "REQ"}, Claim(m, h, command)
          PROVE  TypeOK'
      BY <3>1 DEF Claim
    <3>2. ASSUME NEW h \in Holders, Touch(m, h) PROVE TypeOK'
      BY <3>2 DEF Touch
    <3>3. ASSUME NEW h \in Holders, WriteManual(m, h) PROVE TypeOK'
      <4>1. op[m][h] \in {"none", "FIN", "REQ", "TOUCH"}
        OBVIOUS
      <4>2. answers' \in [Msgs -> Seq({"FIN", "REQ"})]
        <5>1. CASE op[m][h] \in {"FIN", "REQ"}
          <6> DEFINE command == op[m][h]
          <6>1. command \in {"FIN", "REQ"}
            BY <5>1
          <6>2. \/ answers' = [answers EXCEPT ![m] = Append(@, command)]
                \/ answers' = answers
            BY <3>3 DEF WriteManual
          <6> HIDE DEF command
          <6>3. answers \in [Msgs -> Seq({"FIN", "REQ"})]
            OBVIOUS
          <6> QED BY ONLY <6>1, <6>2, <6>3
        <5>2. CASE op[m][h] \notin {"FIN", "REQ"}
          BY <3>3, <4>1, <5>2 DEF WriteManual
        <5> QED BY <5>1, <5>2
      <4>3. op' \in [Msgs -> [Holders -> {"none", "FIN", "REQ", "TOUCH"}]]
        BY <3>3 DEF WriteManual
      <4> QED BY <3>3, <4>2, <4>3 DEF WriteManual
    <3>4. CASE DisableAutoResponse(m) BY <3>4 DEF DisableAutoResponse
    <3> QED BY <2>2, <3>1, <3>2, <3>3, <3>4 DEF User
  <2>3. ASSUME NEW m \in Msgs, Task(m) PROVE TypeOK'
    <3>1. ASSUME NEW verdict \in {"FIN", "REQ"}, HandlerReturns(m, verdict) PROVE TypeOK'
      <4>1. phase' \in [Msgs -> Phases]
        BY <3>1 DEF HandlerReturns
      <4>2. stats' \in StatsType
        BY <3>1, CountedType DEF HandlerReturns, StatsType
      <4> QED BY <3>1, <4>1, <4>2 DEF HandlerReturns, StatsType
    <3>2. CASE HandlerPanics(m) BY <3>2 DEF HandlerPanics, Holders
    <3>3. CASE AutoRespond(m)
      <4>1. phase' \in [Msgs -> Phases]
        BY <3>3 DEF AutoRespond
      <4>2. stats' \in StatsType
        BY <3>3, CountedType DEF AutoRespond, StatsType
      <4>3. answers' \in [Msgs -> Seq({"FIN", "REQ"})]
        <5> DEFINE command == phase[m]
        <5>1. command \in {"FIN", "REQ"}
          BY <3>3 DEF AutoRespond
        <5>2. \/ answers' = [answers EXCEPT ![m] = Append(@, command)]
              \/ answers' = answers
          BY <3>3 DEF AutoRespond
        <5> HIDE DEF command
        <5>3. answers \in [Msgs -> Seq({"FIN", "REQ"})]
          OBVIOUS
        <5> QED BY ONLY <5>1, <5>2, <5>3
      <4> QED BY <3>3, <4>1, <4>2, <4>3 DEF AutoRespond, StatsType
    <3>4. CASE Credit(m)        BY <3>4 DEF Credit
    <3>5. CASE Replenish(m)     BY <3>5 DEF Replenish
    <3>6. CASE StoreReady(m)    BY <3>6 DEF StoreReady
    <3> QED BY <2>3, <3>1, <3>2, <3>3, <3>4, <3>5, <3>6 DEF Task
  <2>4. CASE Environment
    <3>1. ASSUME NEW m \in Msgs, NsqdPush(m) PROVE TypeOK'
      BY <3>1 DEF NsqdPush
    <3>2. CASE NsqdHeartbeat BY <3>2 DEF NsqdHeartbeat
    <3>3. CASE LinkChanges   BY <3>3 DEF LinkChanges
    <3>4. CASE SetRunning    BY <3>4 DEF SetRunning
    <3> QED BY <2>4, <3>1, <3>2, <3>3, <3>4 DEF Environment
  <2>5. CASE UNCHANGED vars BY <2>5 DEF vars
  <2> QED BY <2>1, <2>2, <2>3, <2>4, <2>5 DEF Next
<1> QED BY <1>1, <1>2, PTL DEF Spec

-----------------------------------------------------------------------------
(* A delivery in the inbox has been sent, not yet read, and is there once.  *)
InboxFresh ==
    \A i \in 1..Len(inbox) : inbox[i] \in Msgs =>
        /\ phase[inbox[i]] = "sent"
        /\ \A j \in 1..Len(inbox) : inbox[j] = inbox[i] => j = i

(* The loop reads every delivery once: nsqd pushes a queued one, a read     *)
(* takes it out, and no task touches one that was not read.                 *)
THEOREM InboxFreshHolds == Spec => []InboxFresh
<1> USE ConfigAssumption DEF In
<1>1. Init => InboxFresh
  BY DEF Init, InboxFresh
<1>2. ASSUME TypeOK, InboxFresh, [Next]_vars PROVE InboxFresh'
  <2> USE <1>2 DEF loopVars, wireVars, userVars
  <2>0. /\ inbox \in Seq(Msgs \cup {Heartbeat, Ignored})
        /\ phase \in [Msgs -> Phases]
    BY DEF TypeOK
  <2>a. ASSUME NEW m \in Msgs, NEW p, phase[m] # "sent",
               phase' = [phase EXCEPT ![m] = p], UNCHANGED inbox
        PROVE  InboxFresh'
    BY <2>0, <2>a DEF InboxFresh
  <2>b. ASSUME UNCHANGED <<phase, inbox>> PROVE InboxFresh'
    BY <2>b DEF InboxFresh
  <2>c. ASSUME NEW f, f \notin Msgs, inbox' = Append(inbox, f), UNCHANGED phase
        PROVE  InboxFresh'
    BY <2>0, <2>c DEF InboxFresh
  <2>d. ASSUME inbox # <<>>, inbox' = Tail(inbox) 
        PROVE  /\ Len(inbox') = Len(inbox) - 1
               /\ \A i \in 1..Len(inbox') : i + 1 \in 1..Len(inbox) /\ inbox'[i] = inbox[i + 1]
    BY <2>0, <2>d
  <2>1. CASE Loop
    <3>1. CASE Subscribe     BY <3>1, <2>b, <2>c DEF Subscribe
    <3>2. CASE InitialReady  BY <3>2, <2>b DEF InitialReady
    <3>3. CASE CheckRunning  BY <3>3, <2>b DEF CheckRunning
    <3>4. CASE HeartbeatTick BY <3>4, <2>b DEF HeartbeatTick
    <3>5. CASE ReadHeartbeat
      <4>1. UNCHANGED phase /\ inbox # <<>> /\ inbox' = Tail(inbox)
        BY <3>5 DEF ReadHeartbeat
      <4> QED BY <4>1, <2>d, <2>0 DEF InboxFresh
    <3>6. CASE ReadIgnored
      <4>1. UNCHANGED phase /\ inbox # <<>> /\ inbox' = Tail(inbox)
        BY <3>6 DEF ReadIgnored
      <4> QED BY <4>1, <2>d, <2>0 DEF InboxFresh
    <3>7. CASE ReadMessage
      <4>1. /\ phase' = [phase EXCEPT ![inbox[1]] = "waiting"]
            /\ inbox[1] \in Msgs /\ 1 \in 1..Len(inbox)
            /\ inbox # <<>> /\ inbox' = Tail(inbox)
        BY <3>7, <2>0 DEF ReadMessage
      <4> QED BY <4>1, <2>d, <2>0 DEF InboxFresh
    <3>8. CASE ReadFails     BY <3>8, <2>b DEF ReadFails
    <3>9. CASE AcquirePermit BY <3>9, <2>a DEF AcquirePermit
    <3> QED BY <2>1, <3>1, <3>2, <3>3, <3>4, <3>5, <3>6, <3>7, <3>8, <3>9
            DEF Loop, ReadFrame
  <2>2. ASSUME NEW m \in Msgs, User(m) PROVE InboxFresh'
    BY <2>2, <2>b DEF User, Claim, Touch, WriteManual, DisableAutoResponse
  <2>3. ASSUME NEW m \in Msgs, Task(m) PROVE InboxFresh'
    <3>1. ASSUME NEW verdict \in {"FIN", "REQ"}, HandlerReturns(m, verdict)
          PROVE  InboxFresh'
      BY <3>1, <2>a DEF HandlerReturns
    <3>2. CASE HandlerPanics(m) BY <3>2, <2>a DEF HandlerPanics
    <3>3. CASE AutoRespond(m)   BY <3>3, <2>a DEF AutoRespond
    <3>4. CASE Credit(m)        BY <3>4, <2>a DEF Credit
    <3>5. CASE Replenish(m)     BY <3>5, <2>a DEF Replenish
    <3>6. CASE StoreReady(m)    BY <3>6, <2>a DEF StoreReady
    <3> QED BY <2>3, <3>1, <3>2, <3>3, <3>4, <3>5, <3>6 DEF Task
  <2>4. CASE Environment
    <3>1. ASSUME NEW m \in Msgs, NsqdPush(m) PROVE InboxFresh'
      <4>1. /\ phase[m] = "queued" /\ phase' = [phase EXCEPT ![m] = "sent"]
            /\ inbox' = Append(inbox, m)
        BY <3>1 DEF NsqdPush
      <4>2. \A i \in 1..Len(inbox) : inbox[i] # m
        BY <4>1 DEF InboxFresh
      <4> QED BY <2>0, <4>1, <4>2 DEF InboxFresh
    <3>2. CASE NsqdHeartbeat BY <3>2, <2>c DEF NsqdHeartbeat
    <3> QED BY <2>4, <3>1, <3>2, <2>b DEF Environment, LinkChanges, SetRunning
  <2>5. CASE UNCHANGED vars BY <2>5, <2>b DEF vars
  <2> QED BY <2>1, <2>2, <2>3, <2>4, <2>5 DEF Next
<1> QED BY <1>1, <1>2, TypeCorrect, PTL DEF Spec

-----------------------------------------------------------------------------
(* The RDY counter never sinks to half of max_in_flight without a task that *)
(* is about to raise it.  The invariant is inductive given the types: a     *)
(* task leaves "credit" for "replenish" exactly when it takes the counter   *)
(* down to the threshold, and leaves "store" having put it above.           *)
THEOREM ReplenishDutyHolds == Spec => []ReplenishDuty
<1> USE ConfigAssumption DEF ReplenishDuty, In
<1>1. Init => ReplenishDuty
  BY DEF Init
<1>2. ASSUME TypeOK, InboxFresh, ReplenishDuty, [Next]_vars PROVE ReplenishDuty'
  <2> USE <1>2 DEF loopVars, wireVars, userVars
  <2>0. rdy \in Int /\ phase \in [Msgs -> Phases] /\ window \in {0, MaxInFlight}
    BY DEF TypeOK
  <2>a. MaxInFlight > Half /\ Half \in Int
    BY DEF Half
  <2>b. ASSUME NEW m \in Msgs, NEW p, p \notin {"replenish", "store", "unready"},
               phase[m] \notin {"replenish", "store", "unready"},
               phase' = [phase EXCEPT ![m] = p], UNCHANGED <<rdy, window>>
        PROVE  ReplenishDuty'
    BY <2>0, <2>b DEF Half
  <2>c. ASSUME UNCHANGED <<phase, rdy, window>> PROVE ReplenishDuty'
    BY <2>c DEF Half
  <2>1. CASE Loop
    <3>1. CASE Subscribe     BY <3>1, <2>c DEF Subscribe
    <3>2. CASE InitialReady  BY <3>2, <2>0, <2>a DEF InitialReady, Half
    <3>3. CASE CheckRunning  BY <3>3, <2>c DEF CheckRunning
    <3>4. CASE HeartbeatTick BY <3>4, <2>c DEF HeartbeatTick
    <3>5. CASE ReadHeartbeat BY <3>5, <2>c DEF ReadHeartbeat
    <3>6. CASE ReadIgnored   BY <3>6, <2>c DEF ReadIgnored
    <3>7. CASE ReadMessage
      <4>1. inbox \in Seq(Msgs \cup {Heartbeat, Ignored})
        BY DEF TypeOK
      <4>2. 1 \in 1..Len(inbox) /\ Head(inbox) = inbox[1]
        BY <3>7, <4>1 DEF ReadMessage
      <4>3. inbox[1] \in Msgs /\ phase[inbox[1]] = "sent"
        BY <3>7, <4>2 DEF ReadMessage, InboxFresh
      <4> QED BY <3>7, <4>2, <4>3, <2>b DEF ReadMessage
    <3>8. CASE ReadFails     BY <3>8, <2>c DEF ReadFails
    <3>9. CASE AcquirePermit BY <3>9, <2>b DEF AcquirePermit
    <3> QED BY <2>1, <3>1, <3>2, <3>3, <3>4, <3>5, <3>6, <3>7, <3>8, <3>9
            DEF Loop, ReadFrame
  <2>2. ASSUME NEW m \in Msgs, User(m) PROVE ReplenishDuty'
    BY <2>2, <2>c DEF User, Claim, Touch, WriteManual, DisableAutoResponse
  <2>3. ASSUME NEW m \in Msgs, Task(m) PROVE ReplenishDuty'
    <3>1. ASSUME NEW verdict \in {"FIN", "REQ"}, HandlerReturns(m, verdict)
          PROVE  ReplenishDuty'
      BY <3>1, <2>b DEF HandlerReturns
    <3>2. CASE HandlerPanics(m) BY <3>2, <2>b DEF HandlerPanics
    <3>3. CASE AutoRespond(m)   BY <3>3, <2>b DEF AutoRespond
    <3>4. CASE Credit(m)        BY <3>4, <2>0 DEF Credit, Half
    <3>5. CASE Replenish(m)     BY <3>5, <2>0 DEF Replenish, Half
    <3>6. CASE StoreReady(m)    BY <3>6, <2>0, <2>a DEF StoreReady, Half
    <3> QED BY <2>3, <3>1, <3>2, <3>3, <3>4, <3>5, <3>6 DEF Task
  <2>4. CASE Environment
    <3>1. ASSUME NEW m \in Msgs, NsqdPush(m) PROVE ReplenishDuty'
      BY <3>1, <2>b DEF NsqdPush
    <3> QED BY <2>4, <3>1, <2>c
            DEF Environment, NsqdHeartbeat, LinkChanges, SetRunning
  <2>5. CASE UNCHANGED vars BY <2>5, <2>c DEF vars
  <2> QED BY <2>1, <2>2, <2>3, <2>4, <2>5 DEF Next
<1> QED BY <1>1, <1>2, TypeCorrect, InboxFreshHolds, PTL DEF Spec

-----------------------------------------------------------------------------
(* Who may answer a delivery, when only one side does: with automatic       *)
(* responses and no worker that keeps a clone, or with the responses of the *)
(* task disabled.                                                           *)
OneSideAnswers == DisableAuto \/ Workers = {}

Manual == {"FIN", "REQ"}
Unanswered == {"queued", "sent", "waiting", "handling", "FIN", "REQ"}

(* The exchange on responded elects the holder that may write: as long as   *)
(* responded is false there is no claim and, unless a task has answered by  *)
(* itself, no answer; a claim is the only one and precedes any answer.      *)
Elected(m) ==
    /\ ~responded[m] => \A h \in Holders : op[m][h] \notin Manual
    /\ ~responded[m] /\ (DisableAuto \/ phase[m] \in Unanswered) => answers[m] = <<>>
    /\ \A h \in Holders : op[m][h] \in Manual =>
          /\ answers[m] = <<>>
          /\ \A g \in Holders : op[m][g] \in Manual => g = h
    /\ phase[m] \in Manual => ~DisableAuto /\ ~responded[m]
    /\ op[m]["handler"] # "none" => phase[m] = "handling"
    /\ phase[m] = "queued" =>
          answers[m] = <<>> /\ \A h \in Holders : op[m][h] = "none"
    /\ phase[m] \in {"sent", "waiting"} => \A h \in Holders : op[m][h] = "none"
    /\ Len(answers[m]) <= 1

AnswerInv == TypeOK /\ InboxFresh /\ \A m \in Msgs : Elected(m)

(* Every action keeps the election of every delivery.                       *)
LEMMA ElectionKept ==
    ASSUME OneSideAnswers, TypeOK, InboxFresh, \A m \in Msgs : Elected(m), [Next]_vars
    PROVE  \A n \in Msgs : Elected(n)'
<1> SUFFICES ASSUME NEW n \in Msgs PROVE Elected(n)'
  OBVIOUS
<1> USE ConfigAssumption
    DEF OneSideAnswers, loopVars, wireVars, userVars, Manual, Unanswered, Holders, In,
        Alive, Ended
<1>0. Elected(n)
  OBVIOUS
<1>1. /\ phase \in [Msgs -> Phases]
      /\ responded \in [Msgs -> BOOLEAN]
      /\ op \in [Msgs -> [Holders -> {"none", "FIN", "REQ", "TOUCH"}]]
      /\ answers \in [Msgs -> Seq({"FIN", "REQ"})]
  BY DEF TypeOK
<1>a. ASSUME UNCHANGED <<phase, op, responded, answers>> PROVE Elected(n)'
  BY <1>0, <1>a DEF Elected
<1>2. CASE Loop
  <2>1. CASE ReadMessage
    <3>1. inbox \in Seq(Msgs \cup {Heartbeat, Ignored})
      BY DEF TypeOK
    <3>2. 1 \in 1..Len(inbox) /\ Head(inbox) = inbox[1]
      BY <2>1, <3>1 DEF ReadMessage
    <3>3. inbox[1] \in Msgs /\ phase[inbox[1]] = "sent"
      BY <2>1, <3>2 DEF ReadMessage, InboxFresh
    <3> QED BY <2>1, <3>2, <3>3, <1>0, <1>1 DEF ReadMessage, Elected
  <2>2. CASE AcquirePermit
    BY <2>2, <1>0, <1>1 DEF AcquirePermit, Elected
  <2> QED BY <1>2, <2>1, <2>2, <1>a DEF Loop, ReadFrame, Subscribe, InitialReady,
             CheckRunning, HeartbeatTick, ReadHeartbeat, ReadIgnored, ReadFails
<1>3. ASSUME NEW m \in Msgs, User(m) PROVE Elected(n)'
  <2>0. Elected(m)
    OBVIOUS
  <2>1. ASSUME NEW h \in Holders, NEW command \in Manual, Claim(m, h, command)
        PROVE  Elected(n)'
    BY <2>1, <2>0, <1>0, <1>1 DEF Claim, Holds, Elected
  <2>2. ASSUME NEW h \in Holders, Touch(m, h) PROVE Elected(n)'
    BY <2>2, <2>0, <1>0, <1>1 DEF Touch, Holds, Elected
  <2>3. ASSUME NEW h \in Holders, WriteManual(m, h) PROVE Elected(n)'
    BY <2>3, <2>0, <1>0, <1>1 DEF WriteManual, Elected
  <2>4. CASE DisableAutoResponse(m)
    BY <2>4, <1>a DEF DisableAutoResponse
  <2> QED BY <1>3, <2>1, <2>2, <2>3, <2>4 DEF User
<1>4. ASSUME NEW m \in Msgs, Task(m) PROVE Elected(n)'
  <2>0. Elected(m)
    OBVIOUS
  <2>1. ASSUME NEW verdict \in Manual, HandlerReturns(m, verdict) PROVE Elected(n)'
    BY <2>1, <2>0, <1>0, <1>1 DEF HandlerReturns, AutoResponds, Elected
  <2>2. CASE HandlerPanics(m)
    BY <2>2, <2>0, <1>0, <1>1 DEF HandlerPanics, Elected
  <2>3. CASE AutoRespond(m)
    BY <2>3, <2>0, <1>0, <1>1 DEF AutoRespond, Elected
  <2>4. CASE Credit(m)
    BY <2>4, <2>0, <1>0, <1>1 DEF Credit, Elected
  <2>5. CASE Replenish(m)
    BY <2>5, <2>0, <1>0, <1>1 DEF Replenish, Elected
  <2>6. CASE StoreReady(m)
    BY <2>6, <2>0, <1>0, <1>1 DEF StoreReady, Elected
  <2> QED BY <1>4, <2>1, <2>2, <2>3, <2>4, <2>5, <2>6 DEF Task
<1>5. CASE Environment
  <2>1. ASSUME NEW m \in Msgs, NsqdPush(m) PROVE Elected(n)'
    BY <2>1, <1>0, <1>1 DEF NsqdPush, Elected
  <2> QED BY <1>5, <2>1, <1>a DEF Environment, NsqdHeartbeat, LinkChanges, SetRunning
<1>6. CASE UNCHANGED vars
  BY <1>6, <1>a DEF vars
<1> QED BY <1>2, <1>3, <1>4, <1>5, <1>6 DEF Next

(* AnswerInv is an invariant of a session in which one side answers.        *)
LEMMA AnswerInvHolds == ASSUME OneSideAnswers PROVE Spec => []AnswerInv
<1>1. Init => \A m \in Msgs : Elected(m)
  BY DEF Init, Elected, Manual, Unanswered, Holders
<1>2. TypeOK /\ InboxFresh /\ (\A m \in Msgs : Elected(m)) /\ [Next]_vars
        => (\A m \in Msgs : Elected(m))'
  BY ElectionKept
<1> QED BY <1>1, <1>2, TypeCorrect, InboxFreshHolds, PTL DEF Spec, AnswerInv

(* nsqd gets at most one FIN or REQ for a delivery when one side answers:   *)
(* the exchange of Message::finish and requeue elects one holder.  The      *)
(* assumption is needed: the automatic response of the task takes no part   *)
(* in the election.                                                         *)
THEOREM SingleAnswerHolds == ASSUME OneSideAnswers PROVE Spec => []SingleAnswer
<1>1. AnswerInv => SingleAnswer
  BY DEF AnswerInv, Elected, SingleAnswer
<1> QED BY <1>1, AnswerInvHolds, PTL

-----------------------------------------------------------------------------
(* What nsqd sees of such a session is what Delivery promises: a delivery   *)
(* is answered after it was pushed, once, and the answer is final.          *)
THEOREM DeliveryImplemented == ASSUME OneSideAnswers PROVE Spec => DeliverySpec
<1> DEFINE fates == [m \in Msgs |-> Fate(m)]
<1>1. Init => Promise!Init
  BY DEF Init, Promise!Init, Fate
<1>2. ASSUME AnswerInv, AnswerInv', [Next]_vars
      PROVE  Promise!Next \/ UNCHANGED fates
  <2> USE <1>2 DEF Fate, loopVars, wireVars, userVars, In
  <2>1. /\ phase \in [Msgs -> Phases]
        /\ answers \in [Msgs -> Seq({"FIN", "REQ"})]
        /\ op \in [Msgs -> [Holders -> {"none", "FIN", "REQ", "TOUCH"}]]
    BY DEF AnswerInv, TypeOK
  <2>a. ASSUME UNCHANGED answers,
               \A m \in Msgs : phase'[m] = "queued" <=> phase[m] = "queued"
        PROVE  UNCHANGED fates
    BY <2>a
  <2>b. ASSUME NEW m \in Msgs, NEW a \in {"FIN", "REQ"},
               phase[m] # "queued", answers[m] = <<>>,
               answers' = [answers EXCEPT ![m] = Append(@, a)],
               \A n \in Msgs : phase'[n] = "queued" <=> phase[n] = "queued"
        PROVE  Promise!Next
    <3>1. answers'[m] = <<a>> /\ \A n \in Msgs : n # m => answers'[n] = answers[n]
      BY <2>1, <2>b
    <3>2. fates[m] = "inFlight"
      BY <2>b
    <3>3. \A n \in Msgs : fates'[n] = IF n = m THEN a ELSE fates[n]
      BY <3>1, <2>b
    <3>4. fates' = [fates EXCEPT ![m] = a]
      BY <3>3
    <3>5. Promise!Answer(m, a)
      BY <3>2, <3>4 DEF Promise!Answer
    <3> QED BY <3>5 DEF Promise!Next, Promise!Answers
  <2>2. CASE Loop
    <3>1. CASE ReadMessage
      <4>1. inbox \in Seq(Msgs \cup {Heartbeat, Ignored})
        BY DEF AnswerInv, TypeOK
      <4>2. 1 \in 1..Len(inbox) /\ Head(inbox) = inbox[1]
        BY <3>1, <4>1 DEF ReadMessage
      <4>3. inbox[1] \in Msgs /\ phase[inbox[1]] = "sent"
        BY <3>1, <4>2 DEF ReadMessage, AnswerInv, InboxFresh
      <4> QED BY <3>1, <4>2, <4>3, <2>1, <2>a DEF ReadMessage
    <3>2. CASE AcquirePermit
      BY <3>2, <2>1, <2>a DEF AcquirePermit
    <3> QED BY <2>2, <3>1, <3>2, <2>a DEF Loop, ReadFrame, Subscribe, InitialReady,
               CheckRunning, HeartbeatTick, ReadHeartbeat, ReadIgnored, ReadFails
  <2>3. ASSUME NEW m \in Msgs, User(m) PROVE Promise!Next \/ UNCHANGED fates
    <3>1. ASSUME NEW h \in Holders, WriteManual(m, h)
          PROVE  Promise!Next \/ UNCHANGED fates
      <4>1. CASE UNCHANGED answers
        BY <4>1, <3>1, <2>a DEF WriteManual
      <4>2. CASE answers' # answers
        <5>1. /\ op[m][h] \in {"FIN", "REQ"}
              /\ answers' = [answers EXCEPT ![m] = Append(@, op[m][h])]
              /\ UNCHANGED phase
          BY <4>2, <3>1, <2>1 DEF WriteManual
        <5>2. phase[m] # "queued" /\ answers[m] = <<>>
          BY <5>1 DEF AnswerInv, Elected, Manual
        <5> QED BY <5>1, <5>2, <2>b
      <4> QED BY <4>1, <4>2
    <3> QED BY <2>3, <3>1, <2>a DEF User, Claim, Touch, DisableAutoResponse
  <2>4. ASSUME NEW m \in Msgs, Task(m) PROVE Promise!Next \/ UNCHANGED fates
    <3>1. CASE AutoRespond(m)
      <4>1. CASE UNCHANGED answers
        BY <4>1, <3>1, <2>1, <2>a DEF AutoRespond
      <4>2. CASE answers' # answers
        <5>1. /\ phase[m] \in {"FIN", "REQ"}
              /\ answers' = [answers EXCEPT ![m] = Append(@, phase[m])]
              /\ phase' = [phase EXCEPT ![m] = "credit"]
          BY <4>2, <3>1 DEF AutoRespond
        <5>2. answers[m] = <<>>
          BY <5>1 DEF AnswerInv, Elected, Manual, Unanswered
        <5> QED BY <5>1, <5>2, <2>1, <2>b
      <4> QED BY <4>1, <4>2
    <3>2. ASSUME NEW verdict \in {"FIN", "REQ"}, HandlerReturns(m, verdict)
          PROVE  UNCHANGED fates
      BY <3>2, <2>1, <2>a DEF HandlerReturns
    <3> QED BY <2>4, <3>1, <3>2, <2>1, <2>a
            DEF Task, HandlerPanics, Credit, Replenish, StoreReady
  <2>5. CASE Environment
    <3>1. ASSUME NEW m \in Msgs, NsqdPush(m) PROVE Promise!Next
      <4>1. /\ phase[m] = "queued" /\ phase' = [phase EXCEPT ![m] = "sent"]
            /\ UNCHANGED answers
        BY <3>1 DEF NsqdPush
      <4>2. answers[m] = <<>>
        BY <4>1 DEF AnswerInv, Elected
      <4>3. fates[m] = "queued"
        BY <4>1, <4>2
      <4>4. \A n \in Msgs : fates'[n] = IF n = m THEN "inFlight" ELSE fates[n]
        BY <4>1, <4>2, <2>1
      <4>5. fates' = [fates EXCEPT ![m] = "inFlight"]
        BY <4>4
      <4> QED BY <4>3, <4>5 DEF Promise!Next, Promise!Push
    <3> QED BY <2>5, <3>1, <2>a DEF Environment, NsqdHeartbeat, LinkChanges, SetRunning
  <2>6. CASE UNCHANGED vars
    BY <2>6, <2>a DEF vars
  <2> QED BY <2>2, <2>3, <2>4, <2>5, <2>6 DEF Next
<1> QED BY <1>1, <1>2, AnswerInvHolds, PTL DEF Spec, DeliverySpec, Promise!Spec

-----------------------------------------------------------------------------
(* With automatic responses a task gives its credit back only for a message *)
(* that was answered or claimed: opting out does not reach the copy of the  *)
(* message the task tests, and a failed write ends the task.                *)
THEOREM NoSilentDropHolds == ASSUME ~DisableAuto PROVE Spec => []NoSilentDrop
<1> DEFINE Inv == /\ NoSilentDrop
                  /\ \A m \in Msgs : "task" \notin optOut[m]
<1> USE ConfigAssumption DEF NoSilentDrop, In, loopVars, wireVars, userVars
<1>1. Init => Inv
  BY DEF Init
<1>2. ASSUME TypeOK, InboxFresh, Inv, [Next]_vars PROVE Inv'
  <2> USE <1>2
  <2>1. /\ phase \in [Msgs -> Phases]
        /\ responded \in [Msgs -> BOOLEAN]
        /\ answers \in [Msgs -> Seq({"FIN", "REQ"})]
        /\ optOut \in [Msgs -> SUBSET {"handler", "task"}]
        /\ inbox \in Seq(Msgs \cup {Heartbeat, Ignored})
    BY DEF TypeOK
  <2>a. ASSUME NEW m \in Msgs, NEW p, phase' = [phase EXCEPT ![m] = p],
               \/ p \notin {"credit", "replenish", "store", "unready", "done"}
               \/ responded[m]
               \/ answers[m] # <<>>,
               UNCHANGED <<responded, answers, optOut>>
        PROVE  Inv'
    BY <2>1, <2>a
  <2>b. ASSUME UNCHANGED <<phase, responded, answers, optOut>> PROVE Inv'
    BY <2>b
  <2>2. CASE Loop
    <3>1. CASE ReadMessage
      <4>1. Head(inbox) \in Msgs
        BY <3>1 DEF ReadMessage
      <4> QED BY <3>1, <4>1, <2>a DEF ReadMessage
    <3>2. CASE AcquirePermit
      BY <3>2, <2>a DEF AcquirePermit
    <3> QED BY <2>2, <3>1, <3>2, <2>b DEF Loop, ReadFrame, Subscribe, InitialReady,
               CheckRunning, HeartbeatTick, ReadHeartbeat, ReadIgnored, ReadFails
  <2>3. ASSUME NEW m \in Msgs, User(m) PROVE Inv'
    <3>1. ASSUME NEW h \in Holders, NEW command \in {"FIN", "REQ"}, Claim(m, h, command)
          PROVE  Inv'
      BY <3>1, <2>1 DEF Claim
    <3>2. ASSUME NEW h \in Holders, WriteManual(m, h) PROVE Inv'
      <4>1. UNCHANGED <<phase, responded, optOut>>
        BY <3>2 DEF WriteManual
      <4>2. \A n \in Msgs : answers[n] # <<>> => answers'[n] # <<>>
        BY <3>2, <2>1 DEF WriteManual
      <4> QED BY <4>1, <4>2
    <3>3. CASE DisableAutoResponse(m)
      BY <3>3, <2>1 DEF DisableAutoResponse
    <3> QED BY <2>3, <3>1, <3>2, <3>3, <2>b DEF User, Touch
  <2>4. ASSUME NEW m \in Msgs, Task(m) PROVE Inv'
    <3>1. ASSUME NEW verdict \in {"FIN", "REQ"}, HandlerReturns(m, verdict)
          PROVE  Inv'
      BY <3>1, <2>1, <2>a DEF HandlerReturns, AutoResponds
    <3>2. CASE HandlerPanics(m)
      BY <3>2, <2>a DEF HandlerPanics
    <3>3. CASE AutoRespond(m)
      BY <3>3, <2>1 DEF AutoRespond
    <3>4. CASE Credit(m)
      BY <3>4, <2>a DEF Credit
    <3>5. CASE Replenish(m)
      BY <3>5, <2>a DEF Replenish
    <3>6. CASE StoreReady(m)
      BY <3>6, <2>a DEF StoreReady
    <3> QED BY <2>4, <3>1, <3>2, <3>3, <3>4, <3>5, <3>6 DEF Task
  <2>5. CASE Environment
    <3>1. ASSUME NEW m \in Msgs, NsqdPush(m) PROVE Inv'
      BY <3>1, <2>a DEF NsqdPush
    <3> QED BY <2>5, <3>1, <2>b DEF Environment, NsqdHeartbeat, LinkChanges, SetRunning
  <2>6. CASE UNCHANGED vars
    BY <2>6, <2>b DEF vars
  <2> QED BY <2>2, <2>3, <2>4, <2>5, <2>6 DEF Next
<1> QED BY <1>1, <1>2, TypeCorrect, InboxFreshHolds, PTL DEF Spec

-----------------------------------------------------------------------------
(* The messages that were read and not counted: the task has them, or they  *)
(* were lost by a panic or by a failed write.                               *)
Uncounted == {"waiting", "handling", "FIN", "REQ", "aborted", "panicked"}

(* How the number of such messages moves when one delivery does.            *)
LEMMA UncountedMoves ==
    ASSUME IsFiniteSet(Msgs), phase \in [Msgs -> Phases],
           NEW m \in Msgs, NEW p, phase' = [phase EXCEPT ![m] = p]
    PROVE  /\ Cardinality(In(Uncounted)) \in Nat
           /\ phase[m] \notin Uncounted /\ p \in Uncounted =>
                 Cardinality(In(Uncounted)') = Cardinality(In(Uncounted)) + 1
           /\ phase[m] \in Uncounted /\ p \notin Uncounted =>
                 Cardinality(In(Uncounted)') = Cardinality(In(Uncounted)) - 1
           /\ (phase[m] \in Uncounted <=> p \in Uncounted) =>
                 Cardinality(In(Uncounted)') = Cardinality(In(Uncounted))
<1> DEFINE S == In(Uncounted)
           T == {n \in Msgs : phase'[n] \in Uncounted}
<1>0. In(Uncounted)' = T
  BY DEF In, Uncounted
<1>1. IsFiniteSet(S)
  <2>1. S \subseteq Msgs
    BY DEF In
  <2> QED BY <2>1, FS_Subset
<1>2. Cardinality(S) \in Nat
  BY <1>1, FS_CardinalityType
<1>3. /\ m \in S <=> phase[m] \in Uncounted
      /\ m \in T <=> p \in Uncounted
      /\ \A n \in Msgs : n # m => (n \in S <=> n \in T)
      /\ S \subseteq Msgs /\ T \subseteq Msgs
  BY DEF In
<1> HIDE DEF S, T
<1>4. ASSUME m \notin S, m \in T PROVE Cardinality(T) = Cardinality(S) + 1
  <2>1. T = S \cup {m}
    BY <1>3, <1>4
  <2> QED BY <2>1, <1>1, <1>4, FS_AddElement
<1>5. ASSUME m \in S, m \notin T PROVE Cardinality(T) = Cardinality(S) - 1
  <2>1. T = S \ {m}
    BY <1>3, <1>5
  <2> QED BY <2>1, <1>1, <1>5, FS_RemoveElement
<1>6. ASSUME m \in S <=> m \in T PROVE T = S
  BY <1>3, <1>6
<1> QED BY <1>0, <1>2, <1>3, <1>4, <1>5, <1>6 DEF S

(* With automatic responses the statistics account for every message read:  *)
(* whatever fails or panics and in whatever order tasks count, a message is *)
(* counted when its answer is written or found claimed, and only then.      *)
THEOREM StatsLedgerHolds ==
    ASSUME ~DisableAuto, IsFiniteSet(Msgs) PROVE Spec => []StatsLedger
<1> DEFINE Inv == /\ StatsLedger
                  /\ \A m \in Msgs : "task" \notin optOut[m]
<1>1. Init => Inv
  <2> SUFFICES ASSUME Init PROVE Inv
    OBVIOUS
  <2>1. In(Uncounted) = {}
    BY DEF Init, In, Uncounted
  <2>2. Cardinality(In(Uncounted)) = 0
    BY <2>1, FS_EmptySet
  <2>3. stats.received = 0 /\ stats.finished = 0 /\ stats.requeued = 0
    BY DEF Init
  <2>4. \A m \in Msgs : optOut[m] = {}
    BY DEF Init
  <2> QED BY <2>2, <2>3, <2>4 DEF StatsLedger, Uncounted
<1>2. ASSUME TypeOK, InboxFresh, Inv, [Next]_vars PROVE Inv'
  <2> USE <1>2, ConfigAssumption DEF loopVars, wireVars, userVars
  <2>1. /\ phase \in [Msgs -> Phases]
        /\ responded \in [Msgs -> BOOLEAN]
        /\ optOut \in [Msgs -> SUBSET {"handler", "task"}]
        /\ stats \in StatsType
        /\ stats.received \in Nat /\ stats.finished \in Nat /\ stats.requeued \in Nat
    BY DEF TypeOK, StatsType
  <2> DEFINE ledger == stats.received - stats.finished - stats.requeued
  <2>2. ledger = Cardinality(In(Uncounted))
    BY DEF StatsLedger, Uncounted
  <2>3. ASSUME ledger' = Cardinality(In(Uncounted)') PROVE StatsLedger'
    BY <2>3 DEF StatsLedger, Uncounted
  <2>a. ASSUME NEW m \in Msgs, NEW p, phase' = [phase EXCEPT ![m] = p],
               phase[m] \in Uncounted <=> p \in Uncounted,
               UNCHANGED stats
        PROVE  StatsLedger'
    BY <2>a, <2>1, <2>2, <2>3, UncountedMoves
  <2>b. ASSUME UNCHANGED <<phase, stats>> PROVE StatsLedger'
    BY <2>b DEF StatsLedger, In
  <2>c. ASSUME NEW m \in Msgs, NEW p, phase' = [phase EXCEPT ![m] = p],
               phase[m] \in Uncounted, p \notin Uncounted,
               NEW verdict, stats' = Counted(verdict)
        PROVE  StatsLedger'
    <3>1. Cardinality(In(Uncounted)') = Cardinality(In(Uncounted)) - 1
      BY <2>c, <2>1, UncountedMoves
    <3>2. ledger' = ledger - 1
      BY <2>c, <2>1 DEF Counted, StatsType
    <3> QED BY <3>1, <3>2, <2>2, <2>3
  <2>d. UNCHANGED optOut => \A m \in Msgs : "task" \notin optOut'[m]
    OBVIOUS
  <2>4. CASE Loop
    <3>1. CASE ReadMessage
      <4>1. inbox \in Seq(Msgs \cup {Heartbeat, Ignored})
        BY DEF TypeOK
      <4>2. 1 \in 1..Len(inbox) /\ Head(inbox) = inbox[1]
        BY <3>1, <4>1 DEF ReadMessage
      <4>3. inbox[1] \in Msgs /\ phase[inbox[1]] = "sent"
        BY <3>1, <4>2 DEF ReadMessage, InboxFresh
      <4>4. phase' = [phase EXCEPT ![inbox[1]] = "waiting"]
        BY <3>1, <4>2 DEF ReadMessage
      <4>5. Cardinality(In(Uncounted)') = Cardinality(In(Uncounted)) + 1
        BY <4>3, <4>4, <2>1, UncountedMoves DEF Uncounted
      <4>6. Cardinality(In(Uncounted)) \in Nat
        BY <4>3, <4>4, <2>1, UncountedMoves
      <4>7. ledger' = ledger + 1
        BY <3>1, <2>1 DEF ReadMessage, StatsType
      <4> QED BY <3>1, <4>5, <4>6, <4>7, <2>2, <2>3, <2>d DEF ReadMessage
    <3>2. CASE AcquirePermit
      BY <3>2, <2>a, <2>d DEF AcquirePermit, In, Uncounted
    <3> QED BY <2>4, <3>1, <3>2, <2>b, <2>d DEF Loop, ReadFrame, Subscribe, InitialReady,
               CheckRunning, HeartbeatTick, ReadHeartbeat, ReadIgnored, ReadFails
  <2>5. ASSUME NEW m \in Msgs, User(m) PROVE Inv'
    <3>1. CASE DisableAutoResponse(m)
      BY <3>1, <2>1, <2>b DEF DisableAutoResponse
    <3> QED BY <2>5, <3>1, <2>b, <2>d DEF User, Claim, Touch, WriteManual
  <2>6. ASSUME NEW m \in Msgs, Task(m) PROVE Inv'
    <3>1. ASSUME NEW verdict \in {"FIN", "REQ"}, HandlerReturns(m, verdict)
          PROVE  Inv'
      <4>1. CASE AutoResponds(m)
        BY <3>1, <4>1, <2>a, <2>d DEF HandlerReturns, Uncounted
      <4>2. CASE ~AutoResponds(m)
        <5>1. responded[m]
          BY <4>2, <2>1 DEF AutoResponds
        <5> QED BY <3>1, <4>2, <5>1, <2>c, <2>d DEF HandlerReturns, Uncounted
      <4> QED BY <4>1, <4>2
    <3>2. CASE HandlerPanics(m)
      BY <3>2, <2>a, <2>d DEF HandlerPanics, Uncounted
    <3>3. CASE AutoRespond(m)
      <4>1. phase[m] \in Uncounted /\ UNCHANGED optOut
        BY <3>3 DEF AutoRespond, Uncounted
      <4>2. CASE CanWrite
        <5>1. /\ phase' = [phase EXCEPT ![m] = "credit"]
              /\ stats' = Counted(phase[m])
          BY <3>3, <4>2 DEF AutoRespond
        <5>2. "credit" \notin Uncounted
          BY DEF Uncounted
        <5> QED BY <4>1, <5>1, <5>2, <2>c, <2>d
      <4>3. CASE ~CanWrite
        BY <3>3, <4>1, <4>3, <2>a, <2>d DEF AutoRespond, Uncounted
      <4> QED BY <4>2, <4>3
    <3>4. CASE Credit(m)
      BY <3>4, <2>a, <2>d DEF Credit, Uncounted
    <3>5. CASE Replenish(m)
      BY <3>5, <2>a, <2>d DEF Replenish, Uncounted
    <3>6. CASE StoreReady(m)
      BY <3>6, <2>a, <2>d DEF StoreReady, Uncounted
    <3> QED BY <2>6, <3>1, <3>2, <3>3, <3>4, <3>5, <3>6 DEF Task
  <2>7. CASE Environment
    <3>1. ASSUME NEW m \in Msgs, NsqdPush(m) PROVE Inv'
      BY <3>1, <2>a, <2>d DEF NsqdPush, Uncounted
    <3> QED BY <2>7, <3>1, <2>b, <2>d
            DEF Environment, NsqdHeartbeat, LinkChanges, SetRunning
  <2>8. CASE UNCHANGED vars
    BY <2>8, <2>b, <2>d DEF vars
  <2> QED BY <2>4, <2>5, <2>6, <2>7, <2>8 DEF Next
<1> QED BY <1>1, <1>2, TypeCorrect, InboxFreshHolds, PTL DEF Spec
=============================================================================
