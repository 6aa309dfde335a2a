------------------------------ MODULE Pool_proofs ------------------------------
(***************************************************************************)
(* Theorems about Pool, for every set of tasks and of connections, every   *)
(* configuration, and every choice of calls and faults.                    *)
(***************************************************************************)
EXTENDS Pool, FiniteSetTheorems, SequenceTheorems, TLAPS

(* A task that puts has a connection to put. *)
PutHolds == \A t \in Tasks : pc[t] \in PutSteps => conn[t] \in Conns

(* What is kept of the idle connections is a sequence of them, in order. *)
LEMMA KeepSelects ==
    ASSUME idle \in Seq(Conns), NEW places \in SUBSET (1..Len(idle)), Keep(places)
    PROVE  /\ idle' \in Seq(Conns)
           /\ \E at \in [1..Len(idle') -> places] :
                 /\ \A i, j \in 1..Len(idle') : at[i] = at[j] => i = j
                 /\ \A i \in 1..Len(idle') : idle'[i] = idle[at[i]]
<1> DEFINE size == Cardinality(places)
<1>1. size \in Nat
  <2>1. IsFiniteSet(1..Len(idle))
    BY FS_Interval
  <2> QED BY <2>1, FS_Subset, FS_CardinalityType
<1>2. PICK at \in [1..size -> places] :
          /\ \A i, j \in 1..size : i < j => at[i] < at[j]
          /\ idle' = [i \in 1..size |-> idle[at[i]]]
  BY DEF Keep
<1> HIDE DEF size
<1>3. \A i \in 1..size : at[i] \in 1..Len(idle)
  BY <1>2
<1>4. idle' \in Seq(Conns) /\ Len(idle') = size
  BY <1>1, <1>2, <1>3
<1>5. ASSUME NEW i \in 1..size, NEW j \in 1..size, at[i] = at[j] PROVE i = j
  <2>1. CASE i < j
    BY <1>2, <1>3, <1>5, <2>1
  <2>2. CASE j < i
    BY <1>2, <1>3, <1>5, <2>2
  <2> QED BY <1>1, <2>1, <2>2
<1> QED BY <1>2, <1>4, <1>5

(* Closing a connection gives it a fate. *)
LEMMA CloseType ==
    ASSUME fate \in [Conns -> {"unborn", "open", "closed", "dropped"}], NEW c, NEW failed
    PROVE  Close(c, failed) \in [Conns -> {"unborn", "open", "closed", "dropped"}]
BY DEF Close

(* A request that no longer waits is a request. *)
LEMMA RequestType ==
    ASSUME NEW r \in [by : Tasks, waits : BOOLEAN]
    PROVE  [r EXCEPT !.waits = FALSE] \in [by : Tasks, waits : BOOLEAN]
OBVIOUS

(* A function on an initial segment of the natural numbers is a sequence. *)
LEMMA SeqOfFunction ==
    ASSUME NEW S, NEW n \in Nat, NEW f \in [1..n -> S]
    PROVE  f \in Seq(S) /\ Len(f) = n
OBVIOUS

(* The operations of get keep the types. *)
LEMMA GetTypes ==
    ASSUME TypeOK, NEW t \in Tasks,
           \/ GetCall(t) \/ GetPop(t) \/ GetDiscard(t) \/ GetCount(t) \/ GetReq(t)
           \/ GetReceive(t) \/ GetCancelled(t)
    PROVE  TypeOK'
<1> USE PoolAssumption DEF TypeOK, GetSteps, PutSteps, OtherSteps, Locks
<1>1. CASE GetCall(t)
  BY <1>1 DEF GetCall
<1>2. CASE GetPop(t)
  <2>1. CASE idle = <<>>
    BY <1>2, <2>1 DEF GetPop
  <2>2. CASE idle # <<>>
    <3>1. Head(idle) \in Conns /\ Tail(idle) \in Seq(Conns)
      BY <2>2, HeadTailProperties
    <3>2. /\ idle' = Tail(idle)
          /\ conn' = [conn EXCEPT ![t] = Head(idle)]
          /\ fate' = fate \/ \E failed : fate' = Close(Head(idle), failed)
          /\ UNCHANGED <<closed, count, reqs, slot>>
      BY <1>2, <2>2 DEF GetPop
    <3>3. fate' \in [Conns -> {"unborn", "open", "closed", "dropped"}]
      BY <3>2, CloseType
    <3>4. \E step \in {"out", "getPop"} : pc' = [pc EXCEPT ![t] = step]
      BY <1>2, <2>2 DEF GetPop
    <3>5. \E holder \in {None, t} : owner' = [owner EXCEPT !["idle"] = holder]
      BY <1>2, <2>2 DEF GetPop
    <3>6. pc' \in [Tasks -> {"out"} \cup GetSteps \cup PutSteps \cup OtherSteps]
      BY <3>4
    <3>7. owner' \in [Locks -> Tasks \cup {None}]
      BY <3>5
    <3> QED BY <3>1, <3>2, <3>3, <3>6, <3>7
  <2> QED BY <2>1, <2>2
<1>3. CASE GetDiscard(t)
  BY <1>3 DEF GetDiscard
<1>4. CASE GetCount(t)
  <2>1. CASE AtCap
    BY <1>4, <2>1 DEF GetCount
  <2>2. CASE ~AtCap
    <3>1. /\ count' \in {count, count + 1}
          /\ pc' = [pc EXCEPT ![t] = "out"]
          /\ \/ UNCHANGED <<conn, fate>>
             \/ \E c \in Conns : /\ fate' = [fate EXCEPT ![c] = "open"]
                                 /\ conn' = [conn EXCEPT ![t] = c]
          /\ UNCHANGED <<owner, closed, idle, reqs, slot>>
      BY <1>4, <2>2 DEF GetCount
    <3>2. pc' \in [Tasks -> {"out"} \cup GetSteps \cup PutSteps \cup OtherSteps]
      BY <3>1
    <3>3. /\ conn' \in [Tasks -> Conns \cup {None}]
          /\ fate' \in [Conns -> {"unborn", "open", "closed", "dropped"}]
      BY <3>1
    <3> QED BY <3>1, <3>2, <3>3
  <2> QED BY <2>1, <2>2
<1>5. CASE GetReq(t)
  <2>1. reqs' \in Seq([by : Tasks, waits : BOOLEAN])
    BY <1>5 DEF GetReq
  <2> QED BY <1>5, <2>1 DEF GetReq
<1>6. CASE GetReceive(t)
  BY <1>6 DEF GetReceive
<1>7. CASE GetCancelled(t)
  <2>1. reqs' \in Seq([by : Tasks, waits : BOOLEAN])
    <3> DEFINE Requests == [by : Tasks, waits : BOOLEAN]
    <3>1. reqs \in Seq(Requests)
      OBVIOUS
    <3>2. reqs' = [i \in 1..Len(reqs) |->
                      IF reqs[i].by = t THEN [reqs[i] EXCEPT !.waits = FALSE] ELSE reqs[i]]
      BY <1>7 DEF GetCancelled
    <3>3. ASSUME NEW i \in 1..Len(reqs)
          PROVE  /\ reqs[i] \in Requests
                 /\ [reqs[i] EXCEPT !.waits = FALSE] \in Requests
      <4>1. reqs[i] \in Requests
        BY <3>1, ElementOfSeq
      <4> QED BY <4>1, RequestType
    <3> HIDE DEF Requests
    <3>4. reqs' \in [1..Len(reqs) -> Requests]
      BY <3>2, <3>3, Zenon
    <3>5. reqs' \in Seq(Requests)
      BY <3>1, <3>4, LenProperties, SeqOfFunction
    <3> QED BY <3>5 DEF Requests
  <2> QED BY <1>7, <2>1 DEF GetCancelled
<1> QED BY <1>1, <1>2, <1>3, <1>4, <1>5, <1>6, <1>7

(* Those of put do. *)
LEMMA PutTypes ==
    ASSUME TypeOK, PutHolds, NEW t \in Tasks,
           PutCall(t) \/ PutReqs(t) \/ PutIdle(t) \/ PutCount(t)
    PROVE  TypeOK'
<1> USE PoolAssumption DEF TypeOK, GetSteps, PutSteps, OtherSteps, Locks
<1>1. CASE PutCall(t)
  <2>1. fate' \in [Conns -> {"unborn", "open", "closed", "dropped"}]
    BY <1>1, CloseType DEF PutCall
  <2> QED BY <1>1, <2>1 DEF PutCall
<1>2. CASE PutReqs(t)
  <2>1. CASE reqs = <<>>
    BY <1>2, <2>1 DEF PutReqs
  <2>2. CASE reqs # <<>>
    <3> DEFINE last == reqs[Len(reqs)]
               Requests == [by : Tasks, waits : BOOLEAN]
    <3>0. Len(reqs) \in 1..Len(reqs) /\ \A i \in 1..Len(reqs) : reqs[i] \in Requests
      <4>1. reqs \in Seq(Requests)
        OBVIOUS
      <4> HIDE DEF Requests
      <4>2. Len(reqs) \in Nat \ {0}
        BY <2>2, <4>1, EmptySeq
      <4> QED BY <4>1, <4>2, ElementOfSeq
    <3>1. last \in Requests
      BY <3>0
    <3>2. SubSeq(reqs, 1, Len(reqs) - 1) \in Seq([by : Tasks, waits : BOOLEAN])
      <4>1. \A i \in 1..(Len(reqs) - 1) : reqs[i] \in Requests
        BY <3>0
      <4>2. Len(reqs) - 1 \in Int
        BY <3>0
      <4> HIDE DEF Requests
      <4>3. SubSeq(reqs, 1, Len(reqs) - 1) \in Seq(Requests)
        BY <4>1, <4>2, SubSeqProperties
      <4> QED BY <4>3 DEF Requests
    <3>3. fate' \in [Conns -> {"unborn", "open", "closed", "dropped"}]
      BY <1>2, <2>2, CloseType DEF PutReqs
    <3>4. /\ reqs' = SubSeq(reqs, 1, Len(reqs) - 1)
          /\ \/ /\ slot' = [slot EXCEPT ![last.by] = conn[t]]
                /\ conn' = [conn EXCEPT ![t] = None]
                /\ pc' = [pc EXCEPT ![t] = "out"]
             \/ /\ pc' = [pc EXCEPT ![t] = "putCount"]
                /\ UNCHANGED <<slot, conn>>
          /\ UNCHANGED <<closed, idle, count, owner>>
      BY <1>2, <2>2 DEF PutReqs
    <3>5. slot' \in [Tasks -> Conns \cup {None, "Closed"}]
      BY <3>1, <3>4, SMTT(60)
    <3>6. conn' \in [Tasks -> Conns \cup {None}]
      BY <3>4
    <3>7. pc' \in [Tasks -> {"out"} \cup GetSteps \cup PutSteps \cup OtherSteps]
      BY <3>4
    <3> QED BY <3>2, <3>3, <3>4, <3>5, <3>6, <3>7
  <2> QED BY <2>1, <2>2
<1>3. CASE PutIdle(t)
  <2>1. conn[t] \in Conns
    BY <1>3 DEF PutIdle, PutHolds
  <2>2. Append(idle, conn[t]) \in Seq(Conns)
    BY <2>1
  <2>3. /\ idle' = idle \/ idle' = Append(idle, conn[t])
        /\ conn' = conn \/ conn' = [conn EXCEPT ![t] = None]
        /\ \E step \in {"out", "putFull"} : pc' = [pc EXCEPT ![t] = step]
        /\ \/ owner' = [owner EXCEPT !["reqs"] = None]
           \/ owner' = [owner EXCEPT !["idle"] = t]
        /\ fate' = fate \/ \E failed : fate' = Close(conn[t], failed)
        /\ UNCHANGED <<closed, count, reqs, slot>>
    BY <1>3 DEF PutIdle
  <2>4. fate' \in [Conns -> {"unborn", "open", "closed", "dropped"}]
    BY <2>3, CloseType
  <2>5. pc' \in [Tasks -> {"out"} \cup GetSteps \cup PutSteps \cup OtherSteps]
    BY <2>3
  <2>6. owner' \in [Locks -> Tasks \cup {None}]
    BY <2>3
  <2> QED BY <2>2, <2>3, <2>4, <2>5, <2>6, ZenonT(60)
<1>4. CASE PutCount(t)
  BY <1>4 DEF PutCount, Holds
<1> QED BY <1>1, <1>2, <1>3, <1>4

(* Those of clean_idle_conns and release do. *)
LEMMA OtherTypes ==
    ASSUME TypeOK, NEW t \in Tasks,
           \/ CleanCall(t) \/ CleanIdle(t) \/ CleanCount(t)
           \/ ReleaseCall(t) \/ ReleaseIdle(t) \/ ReleaseReqs(t) \/ ReleaseCount(t)
    PROVE  TypeOK'
<1> USE PoolAssumption DEF TypeOK, GetSteps, PutSteps, OtherSteps, Locks
<1>1. CASE CleanCall(t)
  BY <1>1 DEF CleanCall
<1>2. CASE CleanIdle(t)
  BY <1>2 DEF CleanIdle
<1>3. CASE CleanCount(t)
  <2>1. PICK places \in SUBSET (1..Len(idle)) : Keep(places)
    <3>1. PICK stale \in SUBSET (1..Len(idle)) :
             \/ Keep((1..Len(idle)) \ stale)
             \/ \E i \in stale : Keep((1..Len(idle)) \ {j \in stale : j > i})
      BY <1>3 DEF CleanCount
    <3> QED BY <3>1
  <2>2. idle' \in Seq(Conns)
    BY <2>1, KeepSelects
  <2>3. count' \in Int
    <3>1. ASSUME NEW stale \in SUBSET (1..Len(idle)) PROVE Cardinality(stale) \in Nat
      <4>1. IsFiniteSet(1..Len(idle))
        BY LenProperties, FS_Interval
      <4> QED BY <4>1, FS_Subset, FS_CardinalityType
    <3>2. \/ \E stale \in SUBSET (1..Len(idle)) : count' = count - Cardinality(stale)
          \/ count' = count
      BY <1>3 DEF CleanCount
    <3> QED BY <3>1, <3>2
  <2>4. fate' \in [Conns -> {"unborn", "open", "closed", "dropped"}]
    BY <1>3 DEF CleanCount
  <2> QED BY <1>3, <2>2, <2>3, <2>4 DEF CleanCount
<1>4. CASE ReleaseCall(t)
  BY <1>4 DEF ReleaseCall
<1>5. CASE ReleaseIdle(t)
  <2>1. CASE fate' = [c \in Conns |-> IF \E i \in 1..Len(idle) : idle[i] = c
                                     THEN "closed" ELSE fate[c]] /\ idle' = <<>>
    <3>0. /\ \/ owner' = [owner EXCEPT !["idle"] = t]
             \/ owner' = [owner EXCEPT !["closed"] = None]
          /\ \E step \in {"relReqs", "out"} : pc' = [pc EXCEPT ![t] = step]
          /\ UNCHANGED <<closed, count, reqs, slot, conn>>
      BY <1>5, Zenon DEF ReleaseIdle
    <3>1. owner' \in [Locks -> Tasks \cup {None}]
      BY <3>0
    <3>2. fate' \in [Conns -> {"unborn", "open", "closed", "dropped"}]
      BY <2>1
    <3>3. idle' \in Seq(Conns)
      BY <2>1
    <3>4. pc' \in [Tasks -> {"out"} \cup GetSteps \cup PutSteps \cup OtherSteps]
      BY <3>0
    <3> QED BY <3>0, <3>1, <3>2, <3>3, <3>4
  <2>2. ASSUME NEW i \in 1..Len(idle),
               fate' = [c \in Conns |-> IF c = idle[i] THEN "dropped"
                                        ELSE IF \E j \in 1..(i - 1) : idle[j] = c
                                        THEN "closed" ELSE fate[c]],
               idle' = SubSeq(idle, i + 1, Len(idle))
        PROVE  TypeOK'
    <3>0. /\ \/ owner' = [owner EXCEPT !["idle"] = t]
             \/ owner' = [owner EXCEPT !["closed"] = None]
          /\ \E step \in {"relReqs", "out"} : pc' = [pc EXCEPT ![t] = step]
          /\ UNCHANGED <<closed, count, reqs, slot, conn>>
      BY <1>5, Zenon DEF ReleaseIdle
    <3>1. owner' \in [Locks -> Tasks \cup {None}]
      BY <3>0
    <3>2. fate' \in [Conns -> {"unborn", "open", "closed", "dropped"}]
      BY <2>2
    <3>3. idle' \in Seq(Conns)
      <4>1. \A n \in (i + 1)..Len(idle) : idle[n] \in Conns
        BY LenProperties, ElementOfSeq
      <4>2. Len(idle) \in Int
        BY LenProperties
      <4> QED BY <2>2, <4>1, <4>2, SubSeqProperties
    <3>4. pc' \in [Tasks -> {"out"} \cup GetSteps \cup PutSteps \cup OtherSteps]
      BY <3>0
    <3> QED BY <3>0, <3>1, <3>2, <3>3, <3>4
  <2> QED BY <1>5, <2>1, <2>2 DEF ReleaseIdle
<1>6. CASE ReleaseReqs(t)
  BY <1>6 DEF ReleaseReqs
<1>7. CASE ReleaseCount(t)
  BY <1>7 DEF ReleaseCount, Holds
<1> QED BY <1>1, <1>2, <1>3, <1>4, <1>5, <1>6, <1>7

(* No step takes its connection from a task that puts it. *)
LEMMA PutHoldsKept ==
    ASSUME TypeOK, PutHolds, NEW t \in Tasks,
           \/ GetCall(t) \/ PutCall(t) \/ CleanCall(t) \/ ReleaseCall(t)
           \/ GetCancelled(t) \/ Inside(t)
    PROVE  PutHolds'
<1>1. ASSUME NEW u \in Tasks, u # t PROVE pc'[u] = pc[u] /\ conn'[u] = conn[u]
  BY <1>1 DEF TypeOK, GetCall, PutCall, CleanCall, ReleaseCall, GetCancelled, Inside,
     GetPop, GetDiscard, GetCount, GetReq, GetReceive, PutReqs, PutIdle, PutCount,
     CleanIdle, CleanCount, ReleaseIdle, ReleaseReqs, ReleaseCount
<1>2. pc'[t] \in PutSteps => conn'[t] \in Conns
  <2>1. CASE GetCall(t) \/ CleanCall(t) \/ ReleaseCall(t) \/ GetCancelled(t)
             \/ CleanIdle(t) \/ CleanCount(t) \/ ReleaseIdle(t) \/ ReleaseReqs(t)
             \/ ReleaseCount(t) \/ GetPop(t) \/ GetDiscard(t) \/ GetCount(t)
             \/ GetReq(t) \/ GetReceive(t) \/ PutCount(t)
    BY <2>1 DEF TypeOK, PutSteps, GetCall, CleanCall, ReleaseCall, GetCancelled, CleanIdle,
       CleanCount, ReleaseIdle, ReleaseReqs, ReleaseCount, GetPop, GetDiscard, GetCount,
       GetReq, GetReceive, PutCount
  <2>2. CASE PutCall(t) \/ PutReqs(t) \/ PutIdle(t)
    BY <2>2 DEF TypeOK, PutHolds, PutSteps, PutCall, PutReqs, PutIdle
  <2> QED BY <2>1, <2>2 DEF Inside
<1> QED BY <1>1, <1>2 DEF PutHolds

Types == TypeOK /\ PutHolds

(* The steps of the pool keep the types. *)
LEMMA TypesInvariant == Spec => []Types
<1>1. Init => Types
  <2> SUFFICES ASSUME Init PROVE Types
    OBVIOUS
  <2>1. idle \in Seq(Conns)
    BY PoolAssumption DEF Init
  <2>2. PutHolds
    BY DEF Init, PutHolds, PutSteps
  <2>3. /\ pc \in [Tasks -> {"out"} \cup GetSteps \cup PutSteps \cup OtherSteps]
        /\ owner \in [Locks -> Tasks \cup {None}]
    BY DEF Init
  <2>4. fate \in [Conns -> {"unborn", "open", "closed", "dropped"}]
    BY DEF Init
  <2>5. closed \in BOOLEAN /\ conn \in [Tasks -> Conns \cup {None}]
    BY DEF Init
  <2>8. count \in Int
    BY PoolAssumption DEF Init, PoolAssumption
  <2>7. slot \in [Tasks -> Conns \cup {None, "Closed"}]
    BY DEF Init
  <2>6. reqs \in Seq([by : Tasks, waits : BOOLEAN])
    BY DEF Init
  <2> QED BY <2>1, <2>2, <2>3, <2>4, <2>5, <2>6, <2>7, <2>8 DEF Types, TypeOK
<1>2. ASSUME Types, [Next]_vars PROVE Types'
  <2>1. CASE UNCHANGED vars
    BY <1>2, <2>1 DEF Types, TypeOK, PutHolds, vars
  <2>2. ASSUME NEW t \in Tasks,
               \/ GetCall(t) \/ PutCall(t) \/ CleanCall(t) \/ ReleaseCall(t)
               \/ GetCancelled(t) \/ Inside(t)
        PROVE  Types'
    BY <1>2, <2>2, GetTypes, PutTypes, OtherTypes, PutHoldsKept DEF Types, Inside
  <2> QED BY <1>2, <2>1, <2>2 DEF Next
<1> QED BY <1>1, <1>2, PTL DEF Spec

(* Every variable keeps its type: no request and no idle connection is      *)
(* empty, whatever is dropped, fails or goes stale on the way.              *)
THEOREM PoolTypeCorrect == Spec => []TypeOK
<1>1. Types => TypeOK
  BY DEF Types
<1> QED BY <1>1, TypesInvariant, PTL

-----------------------------------------------------------------------------
(* Where connections are. *)

(* A connection is held by one task, carried by one channel, or idle at one *)
(* place, and in no two of these ways.                                      *)
Places ==
    /\ \A t, u \in Tasks : conn[t] \in Conns /\ conn[t] = conn[u] => t = u
    /\ \A t, u \in Tasks : slot[t] \in Conns /\ slot[t] = slot[u] => t = u
    /\ \A i, j \in 1..Len(idle) : idle[i] = idle[j] => i = j
    /\ \A t, u \in Tasks : conn[t] \in Conns => conn[t] # slot[u]
    /\ \A t \in Tasks, i \in 1..Len(idle) : idle[i] # conn[t] /\ idle[i] # slot[t]

(* Exactly the connections that a task has closed and is about to take off  *)
(* the count are not open.                                                  *)
Discarding == {"getPop", "putCount", "putFull"}

Openness ==
    /\ \A t \in Tasks : slot[t] \in Conns => fate[slot[t]] = "open"
    /\ \A i \in 1..Len(idle) : fate[idle[i]] = "open"
    /\ \A t \in Tasks : conn[t] \in Conns =>
                           (fate[conn[t]] = "open" <=> pc[t] \notin Discarding)

Located == Types /\ Places /\ Openness

(* A task goes on with what it has. *)
LEMMA GoesOn ==
    ASSUME Located, NEW t \in Tasks, NEW step, pc' = [pc EXCEPT ![t] = step],
           step \notin Discarding, pc[t] \notin Discarding \/ conn[t] \notin Conns,
           UNCHANGED <<idle, slot, conn, fate>>
    PROVE  Places' /\ Openness'
BY DEF Located, Types, TypeOK, Places, Openness

(* A task closes what it has, and keeps it to be taken off the count. *)
LEMMA Closes ==
    ASSUME Located, NEW t \in Tasks, NEW step \in Discarding,
           pc' = [pc EXCEPT ![t] = step],
           NEW failed, fate' = Close(conn[t], failed),
           UNCHANGED <<idle, slot, conn>>
    PROVE  Places' /\ Openness'
<1>1. Places'
  BY DEF Located, Places
<1>2. /\ conn[t] \in Conns => fate'[conn[t]] # "open"
      /\ \A c \in Conns : c # conn[t] => fate'[c] = fate[c]
  BY DEF Close, Located, Types, TypeOK
<1>3. \A u \in Tasks : u # t => pc'[u] = pc[u] /\ (conn[u] \in Conns => conn[u] # conn[t])
  BY DEF Located, Types, TypeOK, Places
<1>4. pc'[t] \in Discarding
  BY DEF Located, Types, TypeOK
<1>5. \A i \in 1..Len(idle) : idle[i] \in Conns /\ idle[i] # conn[t]
  <2>1. \A i \in 1..Len(idle) : idle[i] \in Conns
    BY ElementOfSeq DEF Located, Types, TypeOK
  <2> QED BY <2>1 DEF Located, Places
<1>6. \A u \in Tasks : slot[u] \in Conns => slot[u] # conn[t]
  BY DEF Located, Places
<1> HIDE DEF Discarding
<1>7. Openness'
  BY <1>2, <1>3, <1>4, <1>5, <1>6 DEF Located, Openness
<1> QED BY <1>1, <1>7

(* A task drops what it has. *)
LEMMA Drops ==
    ASSUME Located, NEW t \in Tasks, NEW step, pc' = [pc EXCEPT ![t] = step],
           conn' = [conn EXCEPT ![t] = None],
           \A c \in Conns : c # conn[t] => fate'[c] = fate[c],
           UNCHANGED <<idle, slot>>
    PROVE  Places' /\ Openness'
<1>1. Places'
  BY PoolAssumption DEF Located, Types, TypeOK, Places
<1>2. /\ conn'[t] \notin Conns
      /\ \A u \in Tasks : u # t => /\ pc'[u] = pc[u] /\ conn'[u] = conn[u]
                                   /\ conn[u] \in Conns => conn[u] # conn[t]
  BY PoolAssumption DEF Located, Types, TypeOK, Places
<1>3. \A i \in 1..Len(idle) : idle[i] \in Conns /\ idle[i] # conn[t]
  <2>1. \A i \in 1..Len(idle) : idle[i] \in Conns
    BY ElementOfSeq DEF Located, Types, TypeOK
  <2> QED BY <2>1 DEF Located, Places
<1>4. \A u \in Tasks : slot[u] \in Conns => slot[u] # conn[t]
  BY DEF Located, Places
<1>5. Openness'
  BY <1>2, <1>3, <1>4 DEF Located, Openness
<1> QED BY <1>1, <1>5

(* Some idle connections are closed and taken out, the others stay. *)
LEMMA Sweeps ==
    ASSUME Located, NEW t \in Tasks, NEW step, pc' = [pc EXCEPT ![t] = step],
           step \notin Discarding, pc[t] \notin Discarding,
           idle' \in Seq(Conns),
           NEW at \in [1..Len(idle') -> 1..Len(idle)],
           \A i, j \in 1..Len(idle') : at[i] = at[j] => i = j,
           \A i \in 1..Len(idle') : idle'[i] = idle[at[i]],
           \A c \in Conns :
              \/ fate'[c] = fate[c]
              \/ \E j \in 1..Len(idle) : /\ idle[j] = c
                                        /\ \A i \in 1..Len(idle') : at[i] # j,
           UNCHANGED <<slot, conn>>
    PROVE  Places' /\ Openness'
<1>1. \A i \in 1..Len(idle') : at[i] \in 1..Len(idle) /\ idle[at[i]] \in Conns
  BY ElementOfSeq DEF Located, Types, TypeOK
<1>2. Places'
  <2>1. \A i \in 1..Len(idle'), u \in Tasks : idle'[i] # conn[u] /\ idle'[i] # slot[u]
    BY <1>1 DEF Located, Places
  <2>2. \A i, j \in 1..Len(idle') : idle'[i] = idle'[j] => i = j
    <3>1. ASSUME NEW i \in 1..Len(idle'), NEW j \in 1..Len(idle'), idle'[i] = idle'[j]
          PROVE  at[i] = at[j]
      <4>1. \A k, n \in 1..Len(idle) : idle[k] = idle[n] => k = n
        BY DEF Located, Places
      <4>2. idle[at[i]] = idle[at[j]]
        BY <3>1
      <4> QED BY <1>1, <4>1, <4>2
    <3> QED BY <3>1
  <2> QED BY <2>1, <2>2 DEF Located, Places
<1>3. \A i \in 1..Len(idle') : fate'[idle'[i]] = "open"
  BY <1>1 DEF Located, Places, Openness
<1>4. ASSUME NEW u \in Tasks
      PROVE  /\ conn[u] \in Conns => fate'[conn[u]] = fate[conn[u]]
             /\ slot[u] \in Conns => fate'[slot[u]] = fate[slot[u]]
  BY DEF Located, Places
<1>5. \A u \in Tasks : conn[u] \in Conns =>
                        (fate[conn[u]] = "open" <=> pc'[u] \notin Discarding)
  <2>1. \A u \in Tasks : pc'[u] \in Discarding <=> pc[u] \in Discarding
    BY DEF Located, Types, TypeOK
  <2> QED BY <2>1 DEF Located, Openness
<1>6. Openness'
  BY <1>3, <1>4, <1>5 DEF Located, Openness
<1> QED BY <1>2, <1>6

(* get: a connection comes from the front of idle, from the factory or from *)
(* the channel.                                                             *)
LEMMA GetPlaces ==
    ASSUME Located, NEW t \in Tasks,
           \/ GetCall(t) \/ GetPop(t) \/ GetDiscard(t) \/ GetCount(t) \/ GetReq(t)
           \/ GetReceive(t) \/ GetCancelled(t)
    PROVE  Places' /\ Openness'
<1>0. Types
  BY DEF Located
<1>1. CASE GetCall(t)
  BY <1>1, GoesOn DEF GetCall, Discarding
<1>2. CASE GetPop(t)
  <2>1. CASE idle = <<>>
    <3>1. conn[t] \notin Conns \/ pc[t] \notin Discarding
      BY <1>2, PoolAssumption DEF GetPop, Discarding
    <3> QED BY <1>2, <2>1, <3>1, GoesOn DEF GetPop, Discarding
  <2>2. CASE idle # <<>>
    <3>1. /\ Len(idle) \in Nat \ {0} /\ Head(idle) = idle[1]
          /\ Tail(idle) \in Seq(Conns) /\ Len(Tail(idle)) = Len(idle) - 1
          /\ \A i \in 1..(Len(idle) - 1) : Tail(idle)[i] = idle[i + 1]
      BY <1>0, <2>2, HeadTailProperties, EmptySeq DEF Types, TypeOK
    <3>2. \A i \in 1..Len(idle) : idle[i] \in Conns
      BY <1>0, ElementOfSeq DEF Types, TypeOK
    <3>3. /\ idle' = Tail(idle)
          /\ conn' = [conn EXCEPT ![t] = Head(idle)]
          /\ UNCHANGED slot
          /\ \/ pc' = [pc EXCEPT ![t] = "out"] /\ fate' = fate
             \/ /\ pc' = [pc EXCEPT ![t] = "getPop"]
                /\ \E failed : fate' = Close(Head(idle), failed)
      BY <1>2, <2>2 DEF GetPop
    <3>4. /\ conn'[t] = idle[1]
          /\ \A u \in Tasks : u # t => conn'[u] = conn[u] /\ pc'[u] = pc[u]
          /\ Len(idle') = Len(idle) - 1
          /\ \A i \in 1..(Len(idle) - 1) : idle'[i] = idle[i + 1]
      BY <1>0, <3>1, <3>3 DEF Types, TypeOK
    <3>5. Places'
      <4>1. \A i \in 1..(Len(idle) - 1) : i + 1 \in 1..Len(idle) /\ i + 1 # 1
        BY <3>1
      <4>2. \A i \in 1..Len(idle') :
              /\ idle'[i] \in Conns /\ idle'[i] # idle[1]
              /\ \A u \in Tasks : idle'[i] # conn[u] /\ idle'[i] # slot[u]
        BY <3>1, <3>2, <3>4, <4>1 DEF Located, Places
      <4>3. \A i, j \in 1..Len(idle') : idle'[i] = idle'[j] => i = j
        <5>1. ASSUME NEW i \in 1..Len(idle'), NEW j \in 1..Len(idle'), idle'[i] = idle'[j]
              PROVE  i + 1 = j + 1
          BY <5>1, <3>4, <4>1, SMTT(60) DEF Located, Places
        <5> QED BY <5>1
      <4>4. \A u \in Tasks : idle[1] # conn[u] /\ idle[1] # slot[u]
        BY <3>1 DEF Located, Places
      <4> QED BY <3>2, <3>3, <3>4, <4>2, <4>3, <4>4 DEF Located, Places
    <3>6. /\ \A c \in Conns : c # idle[1] => fate'[c] = fate[c]
          /\ fate'[idle[1]] = "open" <=> pc'[t] \notin Discarding
      <4>1. fate[idle[1]] = "open"
        BY <3>1 DEF Located, Openness
      <4>2. CASE pc' = [pc EXCEPT ![t] = "out"] /\ fate' = fate
        BY <1>0, <4>1, <4>2 DEF Types, TypeOK, Discarding
      <4>3. CASE /\ pc' = [pc EXCEPT ![t] = "getPop"]
                 /\ \E failed : fate' = Close(Head(idle), failed)
        BY <1>0, <3>1, <3>2, <4>3 DEF Types, TypeOK, Discarding, Close
      <4> QED BY <3>3, <4>2, <4>3
    <3>7. Openness'
      <4>1. \A u \in Tasks : slot[u] \in Conns => slot[u] # idle[1]
        BY <3>1 DEF Located, Places
      <4>2. \A u \in Tasks : conn[u] \in Conns => conn[u] # idle[1]
        BY <3>1 DEF Located, Places
      <4>3. \A i \in 1..(Len(idle) - 1) : idle[i + 1] # idle[1] /\ idle[i + 1] \in Conns
        BY <3>1, <3>2 DEF Located, Places
      <4>4. \A i \in 1..(Len(idle) - 1) : fate[idle[i + 1]] = "open"
        BY <3>1 DEF Located, Openness
      <4> QED BY <3>3, <3>4, <3>6, <4>1, <4>2, <4>3, <4>4 DEF Located, Openness
    <3> QED BY <3>5, <3>7
  <2> QED BY <2>1, <2>2
<1>3. CASE GetDiscard(t)
  <2>1. pc' = [pc EXCEPT ![t] = pc[t]]
    BY <1>0, <1>3 DEF GetDiscard, Types, TypeOK
  <2> QED BY <1>3, <2>1, Drops DEF GetDiscard
<1>4. CASE GetCount(t)
  <2>1. CASE UNCHANGED <<conn, fate>>
    <3>1. \E step \in {"getReq", "out"} : pc' = [pc EXCEPT ![t] = step]
      BY <1>4 DEF GetCount
    <3> QED BY <1>4, <2>1, <3>1, GoesOn DEF GetCount, Discarding
  <2>2. ASSUME NEW c \in Conns, Unused(c), fate' = [fate EXCEPT ![c] = "open"],
               conn' = [conn EXCEPT ![t] = c], pc' = [pc EXCEPT ![t] = "out"]
        PROVE  Places' /\ Openness'
    <3>1. /\ \A u \in Tasks : conn[u] # c /\ slot[u] # c
          /\ \A i \in 1..Len(idle) : idle[i] # c
      BY <2>2 DEF Located, Openness, Unused
    <3>2. UNCHANGED <<idle, slot>>
      BY <1>4 DEF GetCount
    <3>3. \A i \in 1..Len(idle) : idle[i] \in Conns
      BY <1>0, ElementOfSeq DEF Types, TypeOK
    <3>4. Places'
      BY <1>0, <2>2, <3>1, <3>2 DEF Located, Types, TypeOK, Places
    <3>5. Openness'
      BY <1>0, <2>2, <3>1, <3>2, <3>3 DEF Located, Types, TypeOK, Openness, Discarding
    <3> QED BY <3>4, <3>5
  <2>3. CASE AtCap
    BY <1>4, <2>3, <2>1 DEF GetCount
  <2>4. CASE ~AtCap
    BY <1>4, <2>4, <2>1, <2>2 DEF GetCount
  <2> QED BY <2>3, <2>4
<1>5. CASE GetReq(t)
  BY <1>5, GoesOn DEF GetReq, Discarding
<1>6. CASE GetReceive(t)
  <2>1. /\ conn'[t] = IF slot[t] \in Conns THEN slot[t] ELSE None
        /\ slot'[t] = None /\ pc'[t] = "out"
        /\ \A u \in Tasks : u # t =>
              conn'[u] = conn[u] /\ slot'[u] = slot[u] /\ pc'[u] = pc[u]
        /\ UNCHANGED <<idle, fate>>
    BY <1>0, <1>6 DEF GetReceive, Types, TypeOK
  <2>2. None \notin Conns /\ \A i \in 1..Len(idle) : idle[i] \in Conns
    BY <1>0, PoolAssumption, ElementOfSeq DEF Types, TypeOK
  <2>3. Places'
    BY <2>1, <2>2 DEF Located, Places
  <2>4. Openness'
    BY <2>1, <2>2 DEF Located, Openness, Discarding
  <2> QED BY <2>3, <2>4
<1>7. CASE GetCancelled(t)
  <2>1. /\ slot'[t] = None /\ pc'[t] = "out" /\ pc[t] = "wait"
        /\ \A u \in Tasks : u # t => slot'[u] = slot[u] /\ pc'[u] = pc[u]
        /\ \A c \in Conns : c # slot[t] => fate'[c] = fate[c]
        /\ UNCHANGED <<idle, conn>>
    BY <1>0, <1>7 DEF GetCancelled, Types, TypeOK
  <2>2. None \notin Conns /\ \A i \in 1..Len(idle) : idle[i] \in Conns
    BY <1>0, PoolAssumption, ElementOfSeq DEF Types, TypeOK
  <2>3. Places'
    BY <2>1, <2>2 DEF Located, Places
  <2>4. Openness'
    BY <2>1, <2>2 DEF Located, Places, Openness, Discarding
  <2> QED BY <2>3, <2>4
<1> QED BY <1>1, <1>2, <1>3, <1>4, <1>5, <1>6, <1>7

(* put: a connection goes to a channel, to the back of idle, or is closed. *)
LEMMA PutPlaces ==
    ASSUME Located, NEW t \in Tasks,
           PutCall(t) \/ PutReqs(t) \/ PutIdle(t) \/ PutCount(t)
    PROVE  Places' /\ Openness'
<1>0. Types
  BY DEF Located
<1>1. CASE PutCall(t)
  <2>1. CASE closed
    <3>1. /\ pc' = [pc EXCEPT ![t] = pc[t]]
          /\ \A c \in Conns : c # conn[t] => fate'[c] = fate[c]
      BY <1>0, <1>1, <2>1 DEF PutCall, Types, TypeOK
    <3> QED BY <1>1, <2>1, <3>1, Drops DEF PutCall
  <2>2. CASE ~closed
    <3>1. CASE \E failed : /\ fate' = Close(conn[t], failed)
                           /\ pc' = [pc EXCEPT ![t] = "putCount"]
                           /\ UNCHANGED conn
      BY <1>1, <3>1, Closes DEF PutCall, Discarding
    <3>2. CASE pc' = [pc EXCEPT ![t] = "putReqs"] /\ UNCHANGED <<conn, fate>>
      BY <1>1, <3>2, GoesOn DEF PutCall, Discarding
    <3> QED BY <1>1, <2>2, <3>1, <3>2 DEF PutCall
  <2> QED BY <2>1, <2>2
<1>2. CASE PutReqs(t)
  <2>1. CASE reqs = <<>>
    BY <1>2, <2>1, GoesOn DEF PutReqs, Discarding
  <2>2. CASE reqs # <<>>
    <3> DEFINE last == reqs[Len(reqs)]
    <3>1. CASE ~last.waits
      BY <1>2, <2>2, <3>1, Closes DEF PutReqs, Discarding
    <3>2. CASE last.waits
      <4>1. last.by \in Tasks
        <5>1. Len(reqs) \in 1..Len(reqs)
          BY <1>0, <2>2, EmptySeq DEF Types, TypeOK
        <5>2. last \in [by : Tasks, waits : BOOLEAN]
          BY <1>0, <5>1, ElementOfSeq DEF Types, TypeOK
        <5> QED BY <5>2
      <4>2. /\ slot' = [slot EXCEPT ![last.by] = conn[t]]
            /\ conn' = [conn EXCEPT ![t] = None]
            /\ pc' = [pc EXCEPT ![t] = "out"]
            /\ UNCHANGED <<idle, fate>>
        BY <1>2, <2>2, <3>2 DEF PutReqs
      <4>3. conn[t] \in Conns /\ pc[t] = "putReqs"
        BY <1>0, <1>2 DEF PutReqs, Types, PutHolds, PutSteps
      <4> HIDE DEF last
      <4>4. PICK w \in Tasks : /\ slot'[w] = conn[t]
                               /\ \A u \in Tasks : u # w => slot'[u] = slot[u]
        BY <1>0, <4>1, <4>2 DEF Types, TypeOK
      <4>5. /\ conn'[t] = None /\ pc'[t] = "out"
            /\ \A u \in Tasks : u # t => conn'[u] = conn[u] /\ pc'[u] = pc[u]
        BY <1>0, <4>2 DEF Types, TypeOK
      <4>6. None \notin Conns /\ \A i \in 1..Len(idle) : idle[i] \in Conns
        BY <1>0, PoolAssumption, ElementOfSeq DEF Types, TypeOK
      <4>7. Places'
        BY <4>2, <4>3, <4>4, <4>5, <4>6 DEF Located, Places
      <4>8. Openness'
        BY <4>2, <4>3, <4>4, <4>5, <4>6 DEF Located, Openness, Discarding
      <4> QED BY <4>7, <4>8
    <3> QED BY <3>1, <3>2
  <2> QED BY <2>1, <2>2
<1>3. CASE PutIdle(t)
  <2>1. CASE /\ idle' = Append(idle, conn[t])
             /\ conn' = [conn EXCEPT ![t] = None]
             /\ pc' = [pc EXCEPT ![t] = "out"]
             /\ UNCHANGED fate
    <3>1. conn[t] \in Conns /\ pc[t] = "putIdle" /\ UNCHANGED slot
      BY <1>0, <1>3 DEF PutIdle, Types, PutHolds, PutSteps
    <3>2. /\ Len(idle) \in Nat /\ Len(idle') = Len(idle) + 1
          /\ idle'[Len(idle) + 1] = conn[t]
          /\ \A i \in 1..Len(idle) : idle'[i] = idle[i] /\ idle[i] \in Conns
      BY <1>0, <2>1, <3>1 DEF Types, TypeOK
    <3>3. /\ conn'[t] = None /\ pc'[t] = "out"
          /\ \A u \in Tasks : u # t => conn'[u] = conn[u] /\ pc'[u] = pc[u]
      BY <1>0, <2>1 DEF Types, TypeOK
    <3>4. None \notin Conns /\ \A u \in Tasks : slot[u] # conn[t]
      BY <3>1, PoolAssumption DEF Located, Places
    <3>5. \A i \in 1..Len(idle') :
             \/ i \in 1..Len(idle) /\ idle'[i] = idle[i]
             \/ i = Len(idle) + 1 /\ idle'[i] = conn[t]
      BY <3>2
    <3>6. Places'
      BY <3>1, <3>2, <3>3, <3>4, <3>5 DEF Located, Places
    <3>7. fate[conn[t]] = "open"
      BY <3>1 DEF Located, Openness, Discarding
    <3>8. Openness'
      BY <2>1, <3>1, <3>2, <3>3, <3>4, <3>5, <3>7 DEF Located, Openness, Discarding
    <3> QED BY <3>6, <3>8
  <2>2. CASE /\ fate' = Close(conn[t], FALSE)
             /\ pc' = [pc EXCEPT ![t] = "putFull"]
             /\ UNCHANGED <<idle, conn>>
    BY <1>3, <2>2, Closes DEF PutIdle, Discarding
  <2>3. CASE /\ fate' = Close(conn[t], TRUE)
             /\ conn' = [conn EXCEPT ![t] = None]
             /\ pc' = [pc EXCEPT ![t] = "out"]
             /\ UNCHANGED idle
    <3>1. \A c \in Conns : c # conn[t] => fate'[c] = fate[c]
      BY <1>0, <2>3 DEF Close, Types, TypeOK
    <3> QED BY <1>3, <2>3, <3>1, Drops DEF PutIdle
  <2> QED BY <1>3, <2>1, <2>2, <2>3 DEF PutIdle
<1>4. CASE PutCount(t)
  BY <1>4, Drops DEF PutCount
<1> QED BY <1>1, <1>2, <1>3, <1>4

(* clean_idle_conns and release take connections out of idle only. *)
LEMMA OtherPlaces ==
    ASSUME Located, NEW t \in Tasks,
           \/ CleanCall(t) \/ CleanIdle(t) \/ CleanCount(t)
           \/ ReleaseCall(t) \/ ReleaseIdle(t) \/ ReleaseReqs(t) \/ ReleaseCount(t)
    PROVE  Places' /\ Openness'
<1>0. /\ Types /\ idle \in Seq(Conns) /\ Len(idle) \in Nat
      /\ \A i, j \in 1..Len(idle) : idle[i] = idle[j] => i = j
      /\ \A i \in 1..Len(idle) : idle[i] \in Conns
  BY LenProperties, ElementOfSeq DEF Located, Types, TypeOK, Places
<1>1. CASE CleanCall(t)
  BY <1>1, GoesOn DEF CleanCall, Discarding
<1>2. CASE CleanIdle(t)
  BY <1>2, GoesOn DEF CleanIdle, Discarding
<1>3. CASE CleanCount(t)
  <2>1. /\ pc' = [pc EXCEPT ![t] = "out"] /\ "out" \notin Discarding
        /\ pc[t] \notin Discarding
        /\ UNCHANGED <<slot, conn>>
    BY <1>3 DEF CleanCount, Discarding
  <2>2. PICK swept \in SUBSET (1..Len(idle)) :
            /\ Keep((1..Len(idle)) \ swept)
            /\ fate' = [c \in Conns |-> IF \E j \in swept : idle[j] = c
                                        THEN "closed" ELSE fate[c]]
    <3>1. PICK stale \in SUBSET (1..Len(idle)) :
             \/ /\ fate' = [c \in Conns |-> IF \E i \in stale : idle[i] = c
                                            THEN "closed" ELSE fate[c]]
                /\ Keep((1..Len(idle)) \ stale)
             \/ \E i \in stale :
                   LET swept == {j \in stale : j > i} IN
                   /\ fate' = [c \in Conns |-> IF \E j \in swept : idle[j] = c
                                               THEN "closed" ELSE fate[c]]
                   /\ Keep((1..Len(idle)) \ swept)
      BY <1>3, Zenon DEF CleanCount
    <3> QED BY <3>1
  <2>3. PICK at \in [1..Len(idle') -> (1..Len(idle)) \ swept] :
            /\ \A i, j \in 1..Len(idle') : at[i] = at[j] => i = j
            /\ \A i \in 1..Len(idle') : idle'[i] = idle[at[i]]
    BY <1>0, <2>2, KeepSelects
  <2>4. idle' \in Seq(Conns)
    BY <1>0, <2>2, KeepSelects
  <2>5. /\ at \in [1..Len(idle') -> 1..Len(idle)]
        /\ \A i \in 1..Len(idle') : at[i] \notin swept
    BY <2>3
  <2>6. \A c \in Conns :
           \/ fate'[c] = fate[c]
           \/ \E j \in 1..Len(idle) : idle[j] = c /\ \A i \in 1..Len(idle') : at[i] # j
    BY <2>2, <2>5
  <2> QED BY <2>1, <2>3, <2>4, <2>5, <2>6, Sweeps
<1>4. CASE ReleaseCall(t)
  BY <1>4, GoesOn DEF ReleaseCall, Discarding
<1>5. CASE ReleaseIdle(t)
  <2>1. PICK step \in {"relReqs", "out"} : pc' = [pc EXCEPT ![t] = step]
    BY <1>5 DEF ReleaseIdle
  <2>2. step \notin Discarding /\ pc[t] \notin Discarding /\ UNCHANGED <<slot, conn>>
    BY <1>5, <2>1 DEF ReleaseIdle, Discarding
  <2>3. CASE /\ fate' = [c \in Conns |-> IF \E i \in 1..Len(idle) : idle[i] = c
                                         THEN "closed" ELSE fate[c]]
             /\ idle' = <<>>
    <3> DEFINE at == [i \in 1..Len(idle') |-> i]
    <3>1. idle' \in Seq(Conns) /\ Len(idle') = 0
      BY <2>3
    <3>2. at \in [1..Len(idle') -> 1..Len(idle)]
      BY <3>1
    <3>3. \A i \in 1..Len(idle') : FALSE
      BY <3>1
    <3>4. \A c \in Conns : fate'[c] = fate[c] \/ \E j \in 1..Len(idle) : idle[j] = c
      BY <2>3
    <3> HIDE DEF at
    <3> QED BY <2>1, <2>2, <3>1, <3>2, <3>3, <3>4, Sweeps
  <2>4. ASSUME NEW k \in 1..Len(idle),
               fate' = [c \in Conns |-> IF c = idle[k] THEN "dropped"
                                        ELSE IF \E j \in 1..(k - 1) : idle[j] = c
                                        THEN "closed" ELSE fate[c]],
               idle' = SubSeq(idle, k + 1, Len(idle))
        PROVE  Places' /\ Openness'
    <3> DEFINE at == [i \in 1..Len(idle') |-> k + i]
    <3>1. /\ idle' \in Seq(Conns) /\ Len(idle') = Len(idle) - k
          /\ \A i \in 1..Len(idle') : idle'[i] = idle[k + i]
      <4>1. \A i \in (k + 1)..Len(idle) : idle[i] \in Conns
        BY <1>0
      <4>2. k + 1 \in Int /\ Len(idle) \in Int
        BY <1>0
      <4>3. /\ idle' \in Seq(Conns)
            /\ Len(idle') = IF k + 1 <= Len(idle) THEN Len(idle) - (k + 1) + 1 ELSE 0
            /\ \A i \in 1..(Len(idle) - (k + 1) + 1) : idle'[i] = idle[k + 1 + i - 1]
        BY <2>4, <4>1, <4>2, SubSeqProperties
      <4>4. Len(idle') = Len(idle) - k
        BY <1>0, <4>3
      <4>5. ASSUME NEW i \in 1..Len(idle') PROVE idle'[i] = idle[k + i]
        <5>1. k + 1 + i - 1 = k + i /\ i \in 1..(Len(idle) - (k + 1) + 1)
          BY <1>0, <4>4
        <5> QED BY <4>3, <5>1
      <4> QED BY <4>3, <4>4, <4>5
    <3>2. /\ at \in [1..Len(idle') -> 1..Len(idle)]
          /\ \A i, j \in 1..Len(idle') : at[i] = at[j] => i = j
          /\ \A i \in 1..Len(idle') : idle'[i] = idle[at[i]]
          /\ \A i \in 1..Len(idle') : at[i] > k
      BY <1>0, <3>1
    <3> HIDE DEF at
    <3>3. \A c \in Conns :
             \/ fate'[c] = fate[c]
             \/ \E j \in 1..k : idle[j] = c
      <4>1. k \in 1..k /\ \A j \in 1..(k - 1) : j \in 1..k
        OBVIOUS
      <4> QED BY <2>4, <4>1
    <3>4. \A c \in Conns :
             \/ fate'[c] = fate[c]
             \/ \E j \in 1..Len(idle) : idle[j] = c /\ \A i \in 1..Len(idle') : at[i] # j
      BY <1>0, <3>2, <3>3
    <3>5. idle' \in Seq(Conns)
      BY <3>1
    <3> QED BY <2>1, <2>2, <3>2, <3>4, <3>5, Sweeps, ZenonT(30)
  <2> QED BY <1>5, <2>3, <2>4 DEF ReleaseIdle
<1>6. CASE ReleaseReqs(t)
  <2>1. /\ \A u \in Tasks : slot'[u] = slot[u] \/ slot'[u] \notin Conns
        /\ \A u \in Tasks, c \in Conns : c = slot'[u] => c = slot[u]
        /\ UNCHANGED <<idle, conn, fate>>
    BY <1>0, <1>6, PoolAssumption DEF ReleaseReqs
  <2>2. Places'
    BY <1>0, <2>1 DEF Located, Places
  <2>3. \A u \in Tasks : pc'[u] \in Discarding <=> pc[u] \in Discarding
    BY <1>0, <1>6 DEF ReleaseReqs, Types, TypeOK, Discarding
  <2>4. Openness'
    BY <2>1, <2>3 DEF Located, Openness
  <2> QED BY <2>2, <2>4
<1>7. CASE ReleaseCount(t)
  BY <1>7, GoesOn DEF ReleaseCount, Discarding
<1> QED BY <1>1, <1>2, <1>3, <1>4, <1>5, <1>6, <1>7

(* Types, places and openness hold together. *)
LEMMA LocatedInvariant == Spec => []Located
<1>1. Init => Places /\ Openness
  <2> SUFFICES ASSUME Init PROVE Places /\ Openness
    OBVIOUS
  <2>1. /\ \A t \in Tasks : conn[t] = None /\ slot[t] = None
        /\ idle \in [1..InitialCap -> Conns] /\ Len(idle) = InitialCap
        /\ \A i, j \in 1..InitialCap : idle[i] = idle[j] => i = j
        /\ fate = [c \in Conns |-> IF \E i \in 1..InitialCap : idle[i] = c
                                   THEN "open" ELSE "unborn"]
    BY PoolAssumption DEF Init
  <2>2. None \notin Conns /\ \A i \in 1..Len(idle) : idle[i] \in Conns
    BY <2>1, PoolAssumption
  <2>3. Places
    BY <2>1, <2>2 DEF Places
  <2>4. Openness
    BY <2>1, <2>2 DEF Openness
  <2> QED BY <2>3, <2>4
<1>2. ASSUME Located, [Next]_vars, Types' PROVE Located'
  <2>1. CASE UNCHANGED vars
    BY <1>2, <2>1 DEF Located, Places, Openness, vars
  <2>2. ASSUME NEW t \in Tasks,
               \/ GetCall(t) \/ PutCall(t) \/ CleanCall(t) \/ ReleaseCall(t)
               \/ GetCancelled(t) \/ Inside(t)
        PROVE  Places' /\ Openness'
    BY <1>2, <2>2, GetPlaces, PutPlaces, OtherPlaces DEF Inside
  <2> QED BY <1>2, <2>1, <2>2 DEF Next, Located
<1> QED BY <1>1, <1>2, TypesInvariant, PTL DEF Spec, Located

(* A set in which any two elements are the same has at most one. *)
LEMMA AtMostOne ==
    ASSUME NEW S, \A x, y \in S : x = y
    PROVE  Cardinality(S) \in {0, 1} /\ (Cardinality(S) = 1 => S # {})
<1>1. CASE S = {}
  BY <1>1, FS_EmptySet
<1>2. ASSUME NEW x \in S PROVE Cardinality(S) = 1
  <2>1. S = {x}
    OBVIOUS
  <2> QED BY <2>1, FS_Singleton
<1> QED BY <1>1, <1>2

(* No connection is with two callers, or with a caller and in the pool,     *)
(* however get, put, clean_idle_conns, release and dropped gets overlap.    *)
THEOREM ExclusiveHolds == Spec => []Exclusive
<1>1. ASSUME Located PROVE Exclusive
  <2> SUFFICES ASSUME NEW c \in Conns
               PROVE    Cardinality({t \in Tasks : conn[t] = c})
                      + Cardinality({t \in Tasks : slot[t] = c})
                      + Cardinality({i \in 1..Len(idle) : idle[i] = c}) <= 1
    BY DEF Exclusive
  <2> DEFINE C == {t \in Tasks : conn[t] = c}
             S == {t \in Tasks : slot[t] = c}
             I == {i \in 1..Len(idle) : idle[i] = c}
  <2>1. /\ \A x, y \in C : x = y
        /\ \A x, y \in S : x = y
        /\ \A x, y \in I : x = y
        /\ C = {} \/ S = {}
        /\ C = {} \/ I = {}
        /\ S = {} \/ I = {}
    BY <1>1 DEF Located, Places
  <2> HIDE DEF C, S, I
  <2>2. /\ Cardinality(C) \in {0, 1} /\ (Cardinality(C) = 1 => C # {})
        /\ Cardinality(S) \in {0, 1} /\ (Cardinality(S) = 1 => S # {})
        /\ Cardinality(I) \in {0, 1} /\ (Cardinality(I) = 1 => I # {})
    BY <2>1, AtMostOne
  <2>3. Cardinality(C) + Cardinality(S) + Cardinality(I) <= 1
    BY <2>1, <2>2
  <2> QED BY <2>3 DEF C, S, I
<1> QED BY <1>1, LocatedInvariant, PTL

(* What a caller has got, what a channel carries and what is idle is open.  *)
THEOREM UsableIsOpenHolds == Spec => []UsableIsOpen
<1>1. Located => UsableIsOpen
  BY DEF Located, Openness, Discarding, UsableIsOpen
<1> QED BY <1>1, LocatedInvariant, PTL

-----------------------------------------------------------------------------
(* What the count covers. *)

(* What the count stands for: the open connections and those in hand. *)
Covered == {c \in Conns : fate[c] = "open" \/ \E t \in Tasks : conn[t] = c}

Ledger ==
    /\ ~closed => count >= Cardinality(Covered)
    /\ \A t \in Tasks : pc[t] \in {"relIdle", "relReqs", "relCount"} => closed

(* Covered and its subsets can be counted. *)
LEMMA CoveredFinite ==
    ASSUME IsFiniteSet(Conns), NEW S \in SUBSET Conns, NEW T \in SUBSET S
    PROVE  /\ IsFiniteSet(S) /\ Cardinality(S) \in Nat
           /\ IsFiniteSet(T) /\ Cardinality(T) \in Nat
           /\ Cardinality(T) <= Cardinality(S)
<1>1. IsFiniteSet(S)
  BY FS_Subset
<1>2. IsFiniteSet(T) /\ Cardinality(T) <= Cardinality(S)
  BY <1>1, FS_Subset
<1> QED BY <1>1, <1>2, FS_CardinalityType

(* As many connections leave idle as places are swept. *)
LEMMA SweptCounted ==
    ASSUME Located, NEW stale \in SUBSET (1..Len(idle))
    PROVE  LET closing == {c \in Conns : \E i \in stale : idle[i] = c} IN
           /\ Cardinality(stale) \in Nat
           /\ IsFiniteSet(closing) /\ Cardinality(closing) = Cardinality(stale)
           /\ \A c \in closing : fate[c] = "open"
<1> DEFINE closing == {c \in Conns : \E i \in stale : idle[i] = c}
           at == [i \in stale |-> idle[i]]
<1>1. /\ Len(idle) \in Nat
      /\ \A i \in 1..Len(idle) : idle[i] \in Conns
      /\ \A i, j \in 1..Len(idle) : idle[i] = idle[j] => i = j
  BY LenProperties, ElementOfSeq DEF Located, Types, TypeOK, Places
<1>2. IsFiniteSet(stale)
  <2>1. IsFiniteSet(1..Len(idle))
    BY <1>1, FS_Interval
  <2> QED BY <2>1, FS_Subset
<1>3. at \in Bijection(stale, closing)
  <2>1. at \in [stale -> closing]
    BY <1>1
  <2>2. \A i, j \in stale : at[i] = at[j] => i = j
    BY <1>1
  <2>3. \A c \in closing : \E i \in stale : at[i] = c
    OBVIOUS
  <2> QED BY <2>1, <2>2, <2>3 DEF Bijection, Injection, Surjection, IsInjective
<1>4. ExistsBijection(stale, closing)
  BY <1>3 DEF ExistsBijection
<1>5. \A c \in closing : fate[c] = "open"
  BY DEF Located, Openness
<1> HIDE DEF closing
<1>6. IsFiniteSet(closing) /\ Cardinality(closing) = Cardinality(stale)
  BY <1>2, <1>4, FS_Bijection
<1> QED BY <1>2, <1>5, <1>6, FS_CardinalityType DEF closing

(* A task takes its closed connection off the count. *)
LEMMA TakenOff ==
    ASSUME IsFiniteSet(Conns), Located, NEW t \in Tasks,
           conn[t] \in Conns, pc[t] \in Discarding,
           conn' = [conn EXCEPT ![t] = None], UNCHANGED fate
    PROVE  Cardinality(Covered') <= Cardinality(Covered) - 1
<1>1. conn[t] \in Covered /\ Covered \subseteq Conns
  BY DEF Covered
<1>2. conn[t] \notin Covered'
  BY PoolAssumption DEF Located, Types, TypeOK, Places, Openness, Covered
<1>3. Covered' \subseteq Covered
  BY PoolAssumption DEF Located, Types, TypeOK, Covered
<1>4. Covered' \in SUBSET (Covered \ {conn[t]})
  BY <1>2, <1>3
<1>5. /\ IsFiniteSet(Covered \ {conn[t]})
      /\ Cardinality(Covered \ {conn[t]}) = Cardinality(Covered) - 1
  BY <1>1, CoveredFinite, FS_RemoveElement
<1> QED BY <1>4, <1>5, FS_Subset

(* Only get opens a connection; what callers receive was open before. *)
LEMMA CoveredShrinks ==
    ASSUME Located, NEW t \in Tasks,
           \/ GetCall(t) \/ GetPop(t) \/ GetReq(t) \/ GetReceive(t) \/ GetCancelled(t)
           \/ PutCall(t) \/ PutReqs(t) \/ PutIdle(t) \/ CleanCall(t) \/ CleanIdle(t)
    PROVE  Covered' \subseteq Covered
<1>1. \A c \in Conns : fate'[c] = "open" => fate[c] = "open"
  <2>1. CASE GetPop(t) \/ PutCall(t) \/ PutReqs(t) \/ PutIdle(t)
    <3>1. fate' = fate \/ (\E c, failed : fate' = Close(c, failed))
             \/ fate' = [fate EXCEPT ![conn[t]] = "dropped"]
      BY <2>1 DEF GetPop, PutCall, PutReqs, PutIdle
    <3> QED BY <3>1 DEF Close, Located, Types, TypeOK
  <2>2. CASE GetCancelled(t)
    BY <2>2 DEF GetCancelled, Located, Types, TypeOK
  <2>3. CASE GetCall(t) \/ GetReq(t) \/ GetReceive(t) \/ CleanCall(t) \/ CleanIdle(t)
    BY <2>3 DEF GetCall, GetReq, GetReceive, CleanCall, CleanIdle
  <2> QED BY <2>1, <2>2, <2>3
<1>2. \A u \in Tasks : conn'[u] \in Conns => conn'[u] \in Covered
  <2>1. CASE GetPop(t)
    <3>1. CASE idle = <<>>
      BY <2>1, <3>1 DEF GetPop, Covered
    <3>2. CASE idle # <<>>
      <4>1. Head(idle) \in Conns /\ Head(idle) = idle[1] /\ 1 \in 1..Len(idle)
        BY <3>2, HeadTailProperties, EmptySeq DEF Located, Types, TypeOK
      <4>2. Head(idle) \in Covered
        BY <4>1 DEF Located, Openness, Covered
      <4> QED BY <2>1, <3>2, <4>2 DEF GetPop, Covered, Located, Types, TypeOK
    <3> QED BY <3>1, <3>2
  <2>2. CASE GetReceive(t)
    <3>1. slot[t] \in Conns => slot[t] \in Covered
      BY DEF Located, Openness, Covered
    <3> QED BY <2>2, <3>1, PoolAssumption DEF GetReceive, Covered, Located, Types, TypeOK
  <2>3. CASE PutCall(t) \/ PutReqs(t) \/ PutIdle(t)
    <3>1. conn' = conn \/ conn' = [conn EXCEPT ![t] = None]
      BY <2>3 DEF PutCall, PutReqs, PutIdle
    <3> QED BY <3>1, PoolAssumption DEF Covered, Located, Types, TypeOK
  <2>4. CASE GetCall(t) \/ GetReq(t) \/ GetCancelled(t) \/ CleanCall(t) \/ CleanIdle(t)
    BY <2>4 DEF GetCall, GetReq, GetCancelled, CleanCall, CleanIdle, Covered
  <2> QED BY <2>1, <2>2, <2>3, <2>4
<1> QED BY <1>1, <1>2 DEF Covered

(* Before release, a step changes the count by at least as much as it       *)
(* changes what the count covers, and raises it only below the cap.         *)
LEMMA CountMoves ==
    ASSUME IsFiniteSet(Conns), Located, Ledger, ~closed', NEW t \in Tasks,
           \/ GetCall(t) \/ PutCall(t) \/ CleanCall(t) \/ ReleaseCall(t)
           \/ GetCancelled(t) \/ Inside(t)
    PROVE  /\ Cardinality(Covered') - Cardinality(Covered) <= count' - count
           /\ count' <= count \/ (~AtCap /\ count' = count + 1)
<1>0. /\ count \in Int
      /\ Cardinality(Covered) \in Nat /\ Cardinality(Covered') \in Nat
      /\ IsFiniteSet(Covered)
  <2>1. Covered \subseteq Conns /\ Covered' \subseteq Conns
    BY DEF Covered
  <2> QED BY <2>1, CoveredFinite DEF Located, Types, TypeOK
<1>1. ASSUME Covered' \subseteq Covered, count' = count
      PROVE  /\ Cardinality(Covered') - Cardinality(Covered) <= count' - count
             /\ count' <= count
  <2>1. Cardinality(Covered') <= Cardinality(Covered)
    BY <1>0, <1>1, FS_Subset
  <2> QED BY <1>0, <1>1, <2>1
<1>2. CASE \/ GetCall(t) \/ GetPop(t) \/ GetReq(t) \/ GetReceive(t) \/ GetCancelled(t)
           \/ PutCall(t) \/ PutReqs(t) \/ PutIdle(t) \/ CleanCall(t) \/ CleanIdle(t)
  <2>1. count' = count
    BY <1>2 DEF GetCall, GetPop, GetReq, GetReceive, GetCancelled, PutCall, PutReqs,
       PutIdle, CleanCall, CleanIdle
  <2>2. Covered' \subseteq Covered
    BY <1>2, CoveredShrinks
  <2> QED BY <1>1, <2>1, <2>2
<1>3. CASE GetDiscard(t) \/ PutCount(t)
  <2>1. /\ conn[t] \in Conns /\ pc[t] \in Discarding
        /\ conn' = [conn EXCEPT ![t] = None] /\ UNCHANGED fate
        /\ count' = count - 1
    BY <1>3 DEF GetDiscard, PutCount, Discarding, Located, Types, TypeOK, PutHolds, PutSteps
  <2>2. Cardinality(Covered') <= Cardinality(Covered) - 1
    BY <2>1, TakenOff
  <2> QED BY <1>0, <2>1, <2>2
<1>4. CASE GetCount(t)
  <2>1. CASE UNCHANGED <<count, conn, fate>>
    <3>1. Covered' = Covered
      BY <2>1 DEF Covered
    <3> QED BY <1>1, <2>1, <3>1
  <2>2. ASSUME NEW c \in Conns, ~AtCap, count' = count + 1,
               fate' = [fate EXCEPT ![c] = "open"], conn' = [conn EXCEPT ![t] = c]
        PROVE  /\ Cardinality(Covered') - Cardinality(Covered) <= count' - count
               /\ ~AtCap /\ count' = count + 1
    <3>1. Covered' \in SUBSET (Covered \cup {c})
      BY <2>2 DEF Covered, Located, Types, TypeOK
    <3>2. /\ IsFiniteSet(Covered \cup {c})
          /\ Cardinality(Covered \cup {c}) <= Cardinality(Covered) + 1
      BY <1>0, FS_AddElement
    <3>3. Cardinality(Covered \cup {c}) \in Nat
      BY <3>2, FS_CardinalityType
    <3>4. Cardinality(Covered') <= Cardinality(Covered \cup {c})
      BY <3>1, <3>2, FS_Subset
    <3>5. Cardinality(Covered') <= Cardinality(Covered) + 1
      BY <1>0, <3>2, <3>3, <3>4
    <3> QED BY <1>0, <2>2, <3>5
  <2>3. CASE AtCap
    BY <1>4, <2>1, <2>3 DEF GetCount
  <2>4. CASE ~AtCap
    BY <1>4, <2>1, <2>2, <2>4 DEF GetCount
  <2> QED BY <2>3, <2>4
<1>5. CASE CleanCount(t)
  <2>1. UNCHANGED conn
    BY <1>5 DEF CleanCount
  <2>2. ASSUME NEW stale \in SUBSET (1..Len(idle)),
               fate' = [c \in Conns |-> IF \E i \in stale : idle[i] = c
                                        THEN "closed" ELSE fate[c]],
               count' = count - Cardinality(stale)
        PROVE  /\ Cardinality(Covered') - Cardinality(Covered) <= count' - count
               /\ count' <= count
    <3> DEFINE closing == {c \in Conns : \E i \in stale : idle[i] = c}
    <3>1. /\ Cardinality(stale) \in Nat
          /\ IsFiniteSet(closing) /\ Cardinality(closing) = Cardinality(stale)
          /\ \A c \in closing : fate[c] = "open"
      BY SweptCounted
    <3>2. closing \subseteq Covered
      BY <3>1 DEF Covered
    <3>3. \A c \in closing : fate'[c] # "open" /\ \A u \in Tasks : conn'[u] # c
      <4>1. \A c \in closing, u \in Tasks : conn[u] # c
        BY DEF Located, Places
      <4> QED BY <2>1, <2>2, <4>1
    <3>4. Covered' \subseteq Covered
      BY <2>1, <2>2 DEF Covered
    <3>5. Covered' \cap closing = {}
      BY <3>3 DEF Covered
    <3> HIDE DEF closing
    <3>6. Covered' \in SUBSET (Covered \ closing) /\ Covered \cap closing = closing
      BY <3>2, <3>4, <3>5
    <3>7. /\ IsFiniteSet(Covered \ closing)
          /\ Cardinality(Covered \ closing) = Cardinality(Covered) - Cardinality(closing)
      BY <1>0, <3>6, FS_Difference
    <3>8. Cardinality(Covered') <= Cardinality(Covered \ closing)
      BY <3>6, <3>7, FS_Subset
    <3> QED BY <1>0, <2>2, <3>1, <3>7, <3>8
  <2>3. ASSUME NEW swept, count' = count,
               fate' = [c \in Conns |-> IF \E j \in swept : idle[j] = c
                                        THEN "closed" ELSE fate[c]]
        PROVE  /\ Cardinality(Covered') - Cardinality(Covered) <= count' - count
               /\ count' <= count
    <3>1. Covered' \subseteq Covered
      BY <2>1, <2>3 DEF Covered
    <3> QED BY <1>1, <2>3, <3>1
  <2> QED BY <1>5, <2>2, <2>3, Zenon DEF CleanCount
<1>6. CASE ReleaseCall(t) \/ ReleaseIdle(t) \/ ReleaseReqs(t) \/ ReleaseCount(t)
  <2>1. CASE ReleaseCall(t)
    BY <2>1 DEF ReleaseCall
  <2>2. CASE ReleaseIdle(t) \/ ReleaseReqs(t) \/ ReleaseCount(t)
    <3>1. pc[t] \in {"relIdle", "relReqs", "relCount"} /\ closed' = closed
      BY <2>2 DEF ReleaseIdle, ReleaseReqs, ReleaseCount
    <3> QED BY <3>1 DEF Ledger
  <2> QED BY <1>6, <2>1, <2>2
<1> QED BY <1>2, <1>3, <1>4, <1>5, <1>6 DEF Inside

(* A task that releases the pool has closed it. *)
LEMMA ReleaserCloses ==
    ASSUME Located, Ledger, NEW t \in Tasks,
           \/ GetCall(t) \/ PutCall(t) \/ CleanCall(t) \/ ReleaseCall(t)
           \/ GetCancelled(t) \/ Inside(t)
    PROVE  /\ closed => closed'
           /\ \A u \in Tasks : pc'[u] \in {"relIdle", "relReqs", "relCount"} => closed'
<1>1. closed => closed'
  BY DEF GetCall, PutCall, CleanCall, ReleaseCall, GetCancelled, Inside,
     GetPop, GetDiscard, GetCount, GetReq, GetReceive, PutReqs, PutIdle, PutCount,
     CleanIdle, CleanCount, ReleaseIdle, ReleaseReqs, ReleaseCount
<1>2. \A u \in Tasks : u # t => pc'[u] = pc[u]
  BY DEF Located, Types, TypeOK, GetCall, PutCall, CleanCall, ReleaseCall, GetCancelled,
     Inside, GetPop, GetDiscard, GetCount, GetReq, GetReceive, PutReqs, PutIdle, PutCount,
     CleanIdle, CleanCount, ReleaseIdle, ReleaseReqs, ReleaseCount
<1>3. pc'[t] \in {"relIdle", "relReqs", "relCount"} =>
         closed' \/ pc[t] \in {"relIdle", "relReqs", "relCount"}
  BY DEF Located, Types, TypeOK, GetCall, PutCall, CleanCall, ReleaseCall, GetCancelled,
     Inside, GetPop, GetDiscard, GetCount, GetReq, GetReceive, PutReqs, PutIdle, PutCount,
     CleanIdle, CleanCount, ReleaseIdle, ReleaseReqs, ReleaseCount
<1> QED BY <1>1, <1>2, <1>3 DEF Ledger

(* At first the count is InitialCap, and it covers the idle connections. *)
LEMMA LedgerInit ==
    ASSUME IsFiniteSet(Conns), Init
    PROVE  Ledger /\ count = InitialCap
<1>1. /\ idle \in [1..InitialCap -> Conns] /\ InitialCap \in Nat /\ count = InitialCap
      /\ \A t \in Tasks : conn[t] = None /\ pc[t] = "out"
      /\ \A c \in Conns : fate[c] = "open" <=> \E i \in 1..InitialCap : idle[i] = c
  BY PoolAssumption DEF Init
<1>2. Covered = {c \in Conns : \E i \in 1..InitialCap : idle[i] = c}
  BY <1>1, PoolAssumption DEF Covered
<1>3. idle \in Surjection(1..InitialCap, Covered)
  <2>1. idle \in [1..InitialCap -> Covered]
    <3>1. \A i \in 1..InitialCap : idle[i] \in Covered
      BY <1>1, <1>2
    <3> QED BY <1>1, <3>1
  <2>2. \A c \in Covered : \E i \in 1..InitialCap : idle[i] = c
    BY <1>2
  <2> QED BY <2>1, <2>2 DEF Surjection
<1>4. Cardinality(Covered) <= InitialCap
  <2>1. IsFiniteSet(1..InitialCap) /\ Cardinality(1..InitialCap) = InitialCap
    BY <1>1, FS_Interval
  <2> QED BY <1>3, <2>1, FS_Surjection
<1>5. Cardinality(Covered) \in Nat
  <2>1. Covered \subseteq Conns
    BY DEF Covered
  <2> QED BY <2>1, CoveredFinite
<1> QED BY <1>1, <1>4, <1>5 DEF Ledger

(* Ledger is an invariant, with Located. *)
LEMMA LedgerInvariant == ASSUME IsFiniteSet(Conns) PROVE Spec => []Ledger
<1>1. Init => Ledger
  BY LedgerInit
<1>2. ASSUME Located, Ledger, [Next]_vars PROVE Ledger'
  <2>0. /\ count \in Int
        /\ Cardinality(Covered) \in Nat /\ Cardinality(Covered') \in Nat
    <3>1. Covered \subseteq Conns /\ Covered' \subseteq Conns
      BY DEF Covered
    <3> QED BY <1>2, <3>1, CoveredFinite DEF Located, Types, TypeOK
  <2>1. CASE UNCHANGED vars
    BY <1>2, <2>1 DEF Ledger, Covered, vars
  <2>2. ASSUME NEW t \in Tasks,
               \/ GetCall(t) \/ PutCall(t) \/ CleanCall(t) \/ ReleaseCall(t)
               \/ GetCancelled(t) \/ Inside(t)
        PROVE  Ledger'
    <3>1. /\ closed => closed'
          /\ \A u \in Tasks : pc'[u] \in {"relIdle", "relReqs", "relCount"} => closed'
      BY <1>2, <2>2, ReleaserCloses
    <3>2. ASSUME ~closed' PROVE count' >= Cardinality(Covered')
      <4>1. Cardinality(Covered') - Cardinality(Covered) <= count' - count
        BY <1>2, <2>2, <3>2, CountMoves
      <4>2. count' \in Int
        BY <1>2, <2>2, <3>2, GetTypes, PutTypes, OtherTypes DEF Located, Types, TypeOK, Inside
      <4>3. count >= Cardinality(Covered)
        BY <1>2, <3>1, <3>2 DEF Ledger
      <4> QED BY <2>0, <4>1, <4>2, <4>3
    <3> QED BY <3>1, <3>2 DEF Ledger
  <2> QED BY <1>2, <2>1, <2>2 DEF Next
<1> QED BY <1>1, <1>2, LocatedInvariant, PTL DEF Spec

(* Until release, opening_conns covers every open connection and every one  *)
(* that is about to be taken off, whatever goes stale and fails to close;   *)
(* in particular this usize does not wrap below 0.                          *)
THEOREM CountCoversHolds == ASSUME IsFiniteSet(Conns) PROVE Spec => []CountCovers
<1>1. Ledger => CountCovers
  BY DEF Ledger, CountCovers, Covered
<1> QED BY <1>1, LedgerInvariant, PTL

(* Until release no more than max_cap connections are open, if the pool was *)
(* not created with more.                                                   *)
THEOREM CapRespectedHolds ==
    ASSUME IsFiniteSet(Conns), InitialCap <= MaxCap
    PROVE  Spec => []CapRespected
<1> DEFINE Capped == ~closed => count <= MaxCap
<1>1. Init => Capped
  BY LedgerInit
<1>2. ASSUME Located, Ledger, Capped, [Next]_vars PROVE Capped'
  <2>1. CASE UNCHANGED vars
    BY <1>2, <2>1 DEF vars
  <2>2. ASSUME NEW t \in Tasks, ~closed',
               \/ GetCall(t) \/ PutCall(t) \/ CleanCall(t) \/ ReleaseCall(t)
               \/ GetCancelled(t) \/ Inside(t)
        PROVE  count' <= MaxCap
    <3>1. count' <= count \/ (~AtCap /\ count' = count + 1)
      BY <1>2, <2>2, CountMoves
    <3>2. count <= MaxCap
      BY <1>2, <2>2, ReleaserCloses
    <3>3. count \in Int /\ count' \in Int /\ MaxCap \in Nat
      BY <1>2, <2>2, GetTypes, PutTypes, OtherTypes, PoolAssumption
      DEF Located, Types, TypeOK, Inside
    <3> QED BY <3>1, <3>2, <3>3 DEF AtCap
  <2> QED BY <1>2, <2>1, <2>2 DEF Next
<1>3. ASSUME Types, Ledger, Capped PROVE CapRespected
  <2>1. SUFFICES ASSUME ~closed PROVE Cardinality(Opened) <= MaxCap
    BY DEF CapRespected
  <2>2. Opened \subseteq Covered /\ Covered \subseteq Conns
    BY DEF Opened, Covered
  <2>3. /\ Cardinality(Opened) \in Nat /\ Cardinality(Covered) \in Nat
        /\ Cardinality(Opened) <= Cardinality(Covered)
    BY <2>2, CoveredFinite
  <2>4. Cardinality(Covered) <= count /\ count <= MaxCap
    BY <1>3, <2>1 DEF Ledger
  <2> QED BY <1>3, <2>3, <2>4, PoolAssumption DEF Types, TypeOK
<1> QED BY <1>1, <1>2, <1>3, TypesInvariant, LocatedInvariant, LedgerInvariant, PTL DEF Spec

-----------------------------------------------------------------------------
(* Who holds which lock. *)

(* At which steps which lock is held across an await. *)
Owners ==
    \A t \in Tasks :
       /\ owner["idle"] = t <=>
             pc[t] \in {"getPop", "putFull", "cleanCount", "relReqs", "relCount"}
       /\ owner["count"] = t <=> pc[t] = "getReq"
       /\ owner["reqs"] = t <=> pc[t] \in {"putIdle", "putFull", "relCount"}
       /\ owner["closed"] = t <=> pc[t] \in {"relIdle", "relReqs", "relCount"}

(* Each step takes and gives back locks as it enters and leaves these steps. *)
LEMMA OwnersKept ==
    ASSUME Types, Owners, NEW t \in Tasks,
           \/ GetCall(t) \/ PutCall(t) \/ CleanCall(t) \/ ReleaseCall(t)
           \/ GetCancelled(t) \/ Inside(t)
    PROVE  Owners'
<1> USE PoolAssumption DEF Free, Holds, Locks
<1>0. None \notin Tasks
  OBVIOUS
<1>1. \A u \in Tasks : u # t => pc'[u] = pc[u]
  BY DEF Types, TypeOK, GetCall, PutCall, CleanCall, ReleaseCall, GetCancelled,
     Inside, GetPop, GetDiscard, GetCount, GetReq, GetReceive, PutReqs, PutIdle, PutCount,
     CleanIdle, CleanCount, ReleaseIdle, ReleaseReqs, ReleaseCount
<1>2. ASSUME UNCHANGED owner,
             pc[t] \in {"out", "getIdle", "getCount", "wait", "putReqs", "putCount"},
             pc'[t] \in {"out", "getIdle", "getCount", "wait", "putReqs", "putCount",
                         "cleanIdle"}
      PROVE  Owners'
  BY <1>1, <1>2 DEF Owners
<1>3. CASE GetCall(t) \/ PutCall(t) \/ CleanCall(t) \/ GetCancelled(t) \/ GetReceive(t)
  <2>1. UNCHANGED owner /\ pc[t] \in {"out", "wait"}
    BY <1>3 DEF GetCall, PutCall, CleanCall, GetCancelled, GetReceive
  <2>2. pc'[t] \in {"out", "getIdle", "putReqs", "putCount", "cleanIdle"}
    BY <1>3 DEF GetCall, PutCall, CleanCall, GetCancelled, GetReceive, Types, TypeOK
  <2> QED BY <1>2, <2>1, <2>2
<1>4. CASE GetPop(t)
  <2>1. owner["idle"] \in {None, t} /\ pc[t] \in {"getIdle", "getPop"}
    BY <1>4 DEF GetPop, Owners
  <2>2. /\ \/ pc'[t] \in {"out", "getCount"} /\ owner' = [owner EXCEPT !["idle"] = None]
           \/ pc'[t] = "getPop" /\ owner' = [owner EXCEPT !["idle"] = t]
    BY <1>4 DEF GetPop, Types, TypeOK
  <2> QED BY <1>0, <1>1, <2>1, <2>2 DEF Owners, Types, TypeOK
<1>5. CASE GetDiscard(t)
  BY <1>5 DEF GetDiscard, Owners
<1>6. CASE GetCount(t)
  <2>1. /\ pc[t] = "getCount" /\ owner["count"] = None
        /\ \/ pc'[t] = "getReq" /\ owner' = [owner EXCEPT !["count"] = t]
           \/ pc'[t] = "out" /\ owner' = owner
    BY <1>6 DEF GetCount, Types, TypeOK
  <2> QED BY <1>0, <1>1, <2>1 DEF Owners, Types, TypeOK
<1>7. CASE GetReq(t)
  <2>1. /\ pc[t] = "getReq" /\ pc'[t] = "wait"
        /\ owner' = [owner EXCEPT !["count"] = None]
    BY <1>7 DEF GetReq, Types, TypeOK
  <2> QED BY <1>0, <1>1, <2>1 DEF Owners, Types, TypeOK
<1>8. CASE PutReqs(t)
  <2>1. /\ pc[t] = "putReqs" /\ owner["reqs"] = None
        /\ \/ pc'[t] \in {"out", "putCount"} /\ owner' = owner
           \/ pc'[t] = "putIdle" /\ owner' = [owner EXCEPT !["reqs"] = t]
    BY <1>8 DEF PutReqs, Types, TypeOK
  <2> QED BY <1>0, <1>1, <2>1 DEF Owners, Types, TypeOK
<1>9. CASE PutIdle(t)
  <2>1. /\ pc[t] = "putIdle" /\ owner["idle"] = None
        /\ \/ pc'[t] = "out" /\ owner' = [owner EXCEPT !["reqs"] = None]
           \/ pc'[t] = "putFull" /\ owner' = [owner EXCEPT !["idle"] = t]
    BY <1>9 DEF PutIdle, Types, TypeOK
  <2> QED BY <1>0, <1>1, <2>1 DEF Owners, Types, TypeOK
<1>10. CASE PutCount(t) \/ ReleaseCount(t)
  <2>1. /\ pc'[t] = "out"
        /\ owner' = [l \in Locks |-> IF owner[l] = t THEN None ELSE owner[l]]
    BY <1>10 DEF PutCount, ReleaseCount, Types, TypeOK
  <2>2. \A l \in Locks :
           /\ owner'[l] # t
           /\ \A u \in Tasks : u # t => (owner'[l] = u <=> owner[l] = u)
    BY <1>0, <2>1
  <2> QED BY <1>1, <2>1, <2>2 DEF Owners
<1>11. CASE CleanIdle(t)
  <2>1. /\ pc[t] = "cleanIdle" /\ owner["idle"] = None
        /\ pc'[t] = "cleanCount" /\ owner' = [owner EXCEPT !["idle"] = t]
    BY <1>11 DEF CleanIdle, Types, TypeOK
  <2> QED BY <1>0, <1>1, <2>1 DEF Owners, Types, TypeOK
<1>12. CASE CleanCount(t)
  <2>1. /\ pc[t] = "cleanCount" /\ pc'[t] = "out"
        /\ owner' = [owner EXCEPT !["idle"] = None]
    BY <1>12 DEF CleanCount, Types, TypeOK
  <2> QED BY <1>0, <1>1, <2>1 DEF Owners, Types, TypeOK
<1>13. CASE ReleaseCall(t)
  <2>1. /\ pc[t] = "out" /\ owner["closed"] = None
        /\ pc'[t] = "relIdle" /\ owner' = [owner EXCEPT !["closed"] = t]
    BY <1>13 DEF ReleaseCall, Types, TypeOK
  <2> QED BY <1>0, <1>1, <2>1 DEF Owners, Types, TypeOK
<1>14. CASE ReleaseIdle(t)
  <2>1. /\ pc[t] = "relIdle" /\ owner["idle"] = None
        /\ \/ pc'[t] = "relReqs" /\ owner' = [owner EXCEPT !["idle"] = t]
           \/ pc'[t] = "out" /\ owner' = [owner EXCEPT !["closed"] = None]
    BY <1>14 DEF ReleaseIdle, Types, TypeOK
  <2> QED BY <1>0, <1>1, <2>1 DEF Owners, Types, TypeOK
<1>15. CASE ReleaseReqs(t)
  <2>1. /\ pc[t] = "relReqs" /\ owner["reqs"] = None
        /\ pc'[t] = "relCount" /\ owner' = [owner EXCEPT !["reqs"] = t]
    BY <1>15 DEF ReleaseReqs, Types, TypeOK
  <2> QED BY <1>0, <1>1, <2>1 DEF Owners, Types, TypeOK
<1> QED BY <1>3, <1>4, <1>5, <1>6, <1>7, <1>8, <1>9, <1>10, <1>11, <1>12, <1>13, <1>14,
           <1>15 DEF Inside

(* Wherever tasks wait for each other in a circle, a get at the cap or a    *)
(* release asks for conn_reqs against a put or a release: from any task of  *)
(* the circle at most two steps from a holder to the lock it asks for lead  *)
(* to one of these.                                                         *)
THEOREM LockCyclesHolds == Spec => []LockCycles
<1>1. Init => Owners
  BY PoolAssumption DEF Init, Owners, Locks
<1>2. ASSUME Types, Owners, [Next]_vars PROVE Owners'
  <2>1. CASE UNCHANGED vars
    BY <1>2, <2>1 DEF Owners, vars
  <2> QED BY <1>2, <2>1, OwnersKept DEF Next
<1>3. ASSUME Types, Owners PROVE LockCycles
  <2> SUFFICES ASSUME NEW tasks \in SUBSET Tasks, tasks # {}, Deadlocked(tasks)
               PROVE  \E t, u \in tasks : /\ pc[t] \in {"getReq", "relReqs"}
                                          /\ pc[u] \in {"putIdle", "putFull", "relCount"}
    BY DEF LockCycles
  <2>1. ASSUME NEW t \in tasks, Asks(t) = {"count"}
        PROVE  \E u \in tasks : pc[u] = "getReq"
    BY <1>3, <2>1 DEF Deadlocked, Owners
  <2>2. ASSUME NEW t \in tasks, Asks(t) = {"reqs"}
        PROVE  \E u \in tasks : pc[u] \in {"putIdle", "putFull", "relCount"}
    BY <1>3, <2>2 DEF Deadlocked, Owners
  <2>3. ASSUME NEW t \in tasks, Asks(t) = {"idle"}
        PROVE  \E u \in tasks :
                  pc[u] \in {"getPop", "putFull", "cleanCount", "relReqs", "relCount"}
    BY <1>3, <2>3 DEF Deadlocked, Owners
  <2>4. \A t \in tasks : pc[t] \in {"getReq", "relReqs"} =>
           \E u \in tasks : pc[u] \in {"putIdle", "putFull", "relCount"}
    BY <2>2 DEF Asks
  <2>5. \A t \in tasks : Asks(t) = {"count"} \/ Asks(t) = {"idle"} \/ Asks(t) = {"reqs"}
    BY DEF Deadlocked, Asks
  <2>6. ASSUME NEW t \in tasks, Asks(t) = {"idle"}
        PROVE  \E u \in tasks : pc[u] = "relReqs" \/ Asks(u) = {"count"}
    BY <2>3, <2>5, <2>6 DEF Asks
  <2>7. ASSUME NEW t \in tasks, Asks(t) = {"reqs"}
        PROVE  \E u \in tasks : Asks(u) = {"idle"} \/ Asks(u) = {"count"}
    BY <2>2, <2>7 DEF Asks
  <2>8. \E t \in tasks : pc[t] \in {"getReq", "relReqs"}
    BY <2>1, <2>5, <2>6, <2>7
  <2> QED BY <2>4, <2>8
<1> QED BY <1>1, <1>2, <1>3, TypesInvariant, PTL DEF Spec
=============================================================================
