----------------------- MODULE ConsumerLifecycle_proofs -----------------------
(***************************************************************************)
(* Theorems about ConsumerLifecycle, for every finite set of addresses and *)
(* every set of callers, of names of connections and of calls.             *)
(***************************************************************************)
EXTENDS ConsumerLifecycle, FiniteSetTheorems, TLAPS

(* The mutex connections is held from the dial, the close and the drain on, *)
(* and the address that a caller dials stays free until the dial has ended. *)
Locking ==
    /\ \A t \in Callers : pc[t] \in {"dial", "close", "drain"} <=> lock = t
    /\ \A t \in Callers : pc[t] = "dial" => arg[t] \in Addrs /\ table[arg[t]] = None

Inv == TypeOK /\ Locking /\ CountMatches /\ ListedOnce

(* What may be listed is finite, so that it can be counted. *)
LEMMA ListedFinite ==
    ASSUME IsFiniteSet(Addrs)
    PROVE  /\ IsFiniteSet(Listed)
           /\ Cardinality(Listed) \in 0..Cardinality(Addrs)
<1>1. Listed \subseteq Addrs
  BY DEF Listed
<1>2. IsFiniteSet(Listed) /\ Cardinality(Listed) <= Cardinality(Addrs)
  BY <1>1, FS_Subset
<1> QED BY <1>2, FS_CardinalityType

(* Listing a connection under a free address makes one more. *)
LEMMA ListedGains ==
    ASSUME IsFiniteSet(Addrs), table \in [Addrs -> Conns \cup {None}],
           NEW a \in Addrs, table[a] = None,
           NEW c \in Conns, table' = [table EXCEPT ![a] = c]
    PROVE  /\ Cardinality(Listed)' = Cardinality(Listed) + 1
           /\ Cardinality(Listed)' \in 0..Cardinality(Addrs)
<1>1. c # None
  BY LifecycleAssumption
<1>2. Listed' = Listed \cup {a} /\ a \notin Listed
  BY <1>1 DEF Listed
<1>3. Listed' \subseteq Addrs
  BY DEF Listed
<1>4. Cardinality(Listed') = Cardinality(Listed) + 1
  BY <1>2, ListedFinite, FS_AddElement
<1>5. IsFiniteSet(Listed') /\ Cardinality(Listed') <= Cardinality(Addrs)
  BY <1>3, FS_Subset
<1> QED BY <1>4, <1>5, FS_CardinalityType

(* Taking a connection out of the map makes one less. *)
LEMMA ListedLoses ==
    ASSUME IsFiniteSet(Addrs), table \in [Addrs -> Conns \cup {None}],
           NEW a \in Addrs, table[a] # None, table' = [table EXCEPT ![a] = None]
    PROVE  /\ Cardinality(Listed)' = Cardinality(Listed) - 1
           /\ Cardinality(Listed)' \in 0..Cardinality(Addrs)
<1>1. Listed' = Listed \ {a} /\ a \in Listed
  BY DEF Listed
<1>2. Listed' \subseteq Addrs
  BY DEF Listed
<1>3. Cardinality(Listed') = Cardinality(Listed) - 1
  BY <1>1, ListedFinite, FS_RemoveElement
<1>4. IsFiniteSet(Listed') /\ Cardinality(Listed') <= Cardinality(Addrs)
  BY <1>2, FS_Subset
<1> QED BY <1>3, <1>4, FS_CardinalityType

(* Only the sockets depend on who refers to a connection. *)
LEMMA ReleasedType ==
    ASSUME NEW socks \in [Conns -> {"none", "open", "shut", "lost"}]
    PROVE  Released(socks) \in [Conns -> {"none", "open", "shut", "lost"}]
BY DEF Released

(* Closing a connection leaves sock a table of sockets. *)
LEMMA ShutType ==
    ASSUME sock \in [Conns -> {"none", "open", "shut", "lost"}], NEW c
    PROVE  Shut(c) \in [Conns -> {"none", "open", "shut", "lost"}]
BY DEF Shut

(* Inv holds at first; the lemmas that follow show that every step keeps it. *)
LEMMA Initially ==
    ASSUME IsFiniteSet(Addrs), Init
    PROVE  Inv
<1> USE DEF Init
<1>1. Listed = {}
  BY DEF Listed
<1>2. Cardinality(Listed) = 0 /\ 0 \in 0..Cardinality(Addrs)
  BY <1>1, FS_EmptySet, FS_CardinalityType
<1>3. Locking
  BY LifecycleAssumption DEF Locking
<1> QED BY <1>1, <1>2, <1>3 DEF Inv, TypeOK, CountMatches, ListedOnce, Alive

(* The operations of connect_to_nsqd, and the poll loop that calls it. *)
LEMMA ConnectKeeps ==
    ASSUME IsFiniteSet(Addrs), Inv, NEW t \in Callers,
           \/ \E a \in Addrs : Connect(t, a)
           \/ Tick(t) \/ ConnectLock(t) \/ Dialed(t)
    PROVE  Inv'
<1> USE LifecycleAssumption DEF Inv
<1>1. ASSUME NEW a \in Addrs, Connect(t, a) PROVE Inv'
  <2>1. TypeOK'
    BY <1>1 DEF Connect, TypeOK, Alive
  <2>2. Locking'
    BY <1>1 DEF Connect, TypeOK, Locking
  <2>3. CountMatches' /\ ListedOnce'
    BY <1>1 DEF Connect, TypeOK, CountMatches, ListedOnce, Listed
  <2> QED BY <2>1, <2>2, <2>3
<1>2. CASE ConnectLock(t)
  <2>1. PICK a \in todo[t] :
           /\ todo' = [todo EXCEPT ![t] = @ \ {a}]
           /\ \/ /\ table[a] # None
                 /\ pc' = [pc EXCEPT ![t] = Onward(todo[t] \ {a})]
                 /\ UNCHANGED <<lock, arg>>
              \/ /\ table[a] = None
                 /\ lock' = t
                 /\ arg' = [arg EXCEPT ![t] = a]
                 /\ pc' = [pc EXCEPT ![t] = "dial"]
    BY <1>2 DEF ConnectLock
  <2>2. a \in Addrs /\ todo[t] \ {a} \subseteq Addrs
    BY DEF TypeOK
  <2>3. TypeOK'
    BY <1>2, <2>1, <2>2 DEF ConnectLock, TypeOK, Alive, Onward
  <2>4. Locking'
    BY <1>2, <2>1, <2>2 DEF ConnectLock, TypeOK, Locking, Onward
  <2>5. CountMatches' /\ ListedOnce'
    BY <1>2, <2>1 DEF ConnectLock, TypeOK, CountMatches, ListedOnce, Listed, Onward
  <2> QED BY <2>3, <2>4, <2>5
<1>3. CASE Dialed(t)
  <2>1. /\ lock = t /\ arg[t] \in Addrs /\ table[arg[t]] = None
        /\ \A u \in Callers : u # t => pc[u] \notin {"dial", "close", "drain"}
    BY <1>3 DEF Dialed, Locking
  <2>2. count = Cardinality(Listed)
    BY <2>1, <1>3 DEF Dialed, CountMatches
  <2>3. Locking'
    BY <1>3, <2>1 DEF Dialed, TypeOK, Locking, Onward
  <2>4. ASSUME NEW c \in Conns, c \notin Owned,
               table' = [table EXCEPT ![arg[t]] = c],
               sup' = [sup EXCEPT ![c] = "check"],
               sock' = [sock EXCEPT ![c] = "open"],
               count' = count + 1
        PROVE  Inv'
    <3>1. /\ Cardinality(Listed)' = Cardinality(Listed) + 1
          /\ Cardinality(Listed)' \in 0..Cardinality(Addrs)
      BY <2>1, <2>4, ListedGains DEF TypeOK
    <3>2. count' = Cardinality(Listed)'
      BY <2>2, <2>4, <3>1
    <3>3. TypeOK'
      BY <1>3, <2>4, <3>1, <3>2 DEF Dialed, TypeOK, Alive, Onward
    <3>4. ListedOnce'
      <4>1. /\ \A a \in Addrs : table[a] # c
            /\ \A u \in Callers : closing[u] # c
        BY <2>4 DEF Owned
      <4> QED BY <1>3, <2>1, <2>4, <4>1 DEF Dialed, TypeOK, ListedOnce, Listed, Onward
    <3> QED BY <2>3, <3>2, <3>3, <3>4 DEF CountMatches
  <2>5. ASSUME UNCHANGED <<table, sup, sock, count>> PROVE Inv'
    <3>1. TypeOK'
      BY <1>3, <2>5 DEF Dialed, TypeOK, Alive, Onward
    <3>2. CountMatches' /\ ListedOnce'
      BY <1>3, <2>2, <2>5 DEF Dialed, CountMatches, ListedOnce, Listed, Onward
    <3> QED BY <2>3, <3>1, <3>2
  <2> QED BY <1>3, <2>4, <2>5 DEF Dialed
<1>4. CASE Tick(t)
  <2>1. TypeOK'
    BY <1>4 DEF Tick, TypeOK, Alive
  <2>2. Locking' /\ CountMatches' /\ ListedOnce'
    BY <1>4 DEF Tick, TypeOK, Locking, CountMatches, ListedOnce, Listed
  <2> QED BY <2>1, <2>2
<1> QED BY <1>1, <1>2, <1>3, <1>4

(* disconnect_from_nsqd. *)
LEMMA DisconnectKeeps ==
    ASSUME IsFiniteSet(Addrs), Inv, NEW t \in Callers,
           (\E a \in Addrs : Disconnect(t, a)) \/ DisconnectClosed(t)
    PROVE  Inv'
<1> USE LifecycleAssumption DEF Inv
<1>1. ASSUME NEW a \in Addrs, Disconnect(t, a) PROVE Inv'
  <2>1. \A u \in Callers : pc[u] \notin {"dial", "close", "drain"}
    BY <1>1 DEF Disconnect, Locking
  <2>2. count = Cardinality(Listed)
    BY <2>1 DEF CountMatches
  <2>3. /\ Cardinality(Listed)' = Cardinality(Listed) - 1
        /\ Cardinality(Listed)' \in 0..Cardinality(Addrs)
    BY <1>1, ListedLoses DEF Disconnect, TypeOK
  <2>4. count' = Cardinality(Listed)'
    BY <1>1, <2>2, <2>3 DEF Disconnect
  <2>5. TypeOK'
    BY <1>1, <2>3, <2>4 DEF Disconnect, TypeOK, Alive
  <2>6. Locking'
    BY <1>1, <2>1 DEF Disconnect, TypeOK, Locking
  <2>7. ListedOnce'
    BY <1>1 DEF Disconnect, TypeOK, ListedOnce, Listed
  <2> QED BY <2>4, <2>5, <2>6, <2>7 DEF CountMatches
<1>2. CASE DisconnectClosed(t)
  <2>1. \A u \in Callers : pc[u] # "drain"
    BY <1>2 DEF DisconnectClosed, Locking
  <2>2. TypeOK'
    BY <1>2, ShutType, ReleasedType DEF DisconnectClosed, TypeOK, Alive
  <2>3. Locking'
    BY <1>2 DEF DisconnectClosed, TypeOK, Locking
  <2>4. CountMatches' /\ ListedOnce'
    BY <1>2, <2>1 DEF DisconnectClosed, TypeOK, CountMatches, ListedOnce, Listed
  <2> QED BY <2>2, <2>3, <2>4
<1> QED BY <1>1, <1>2

(* stop: the counter is left behind while the map is drained, by the holder *)
(* of the lock, and meets it again at 0.                                    *)
LEMMA StopKeeps ==
    ASSUME IsFiniteSet(Addrs), Inv, NEW t \in Callers,
           \/ Stop(t) \/ StopLock(t) \/ DrainNext(t) \/ DrainClosed(t)
           \/ DrainDeadline(t) \/ StopDone(t)
    PROVE  Inv'
<1> USE LifecycleAssumption DEF Inv
<1>1. CASE Stop(t)
  <2>1. TypeOK'
    BY <1>1 DEF Stop, TypeOK, Alive
  <2>2. Locking'
    BY <1>1 DEF Stop, TypeOK, Locking
  <2>3. CountMatches' /\ ListedOnce'
    BY <1>1 DEF Stop, TypeOK, CountMatches, ListedOnce, Listed
  <2> QED BY <2>1, <2>2, <2>3
<1>2. CASE StopLock(t)
  <2>1. TypeOK'
    BY <1>2 DEF StopLock, TypeOK, Alive
  <2>2. Locking'
    BY <1>2 DEF StopLock, TypeOK, Locking
  <2>3. CountMatches' /\ ListedOnce'
    BY <1>2 DEF StopLock, TypeOK, CountMatches, ListedOnce, Listed
  <2> QED BY <2>1, <2>2, <2>3
<1>3. CASE DrainNext(t) \/ DrainClosed(t) \/ DrainDeadline(t)
  <2>1. /\ pc[t] = "drain"
        /\ UNCHANGED <<running, lock, count, pc, arg, todo, lent, sup>>
    BY <1>3 DEF DrainNext, DrainClosed, DrainDeadline, TypeOK
  <2>2. CountMatches'
    BY <2>1 DEF CountMatches
  <2>3. table' \in [Addrs -> Conns \cup {None}]
    BY <1>3 DEF DrainNext, DrainClosed, DrainDeadline, TypeOK
  <2>4. closing' \in [Callers -> Conns \cup {None}]
    BY <1>3 DEF DrainNext, DrainClosed, DrainDeadline, TypeOK, Listed
  <2>5. sock' \in [Conns -> {"none", "open", "shut", "lost"}]
    BY <1>3, ShutType, ReleasedType DEF DrainNext, DrainClosed, DrainDeadline, TypeOK
  <2>6. TypeOK'
    BY <2>1, <2>3, <2>4, <2>5 DEF TypeOK, Alive
  <2>7. Locking'
    <3>1. \A a \in Addrs : table[a] = None => table'[a] = None
      BY <1>3 DEF DrainNext, DrainClosed, DrainDeadline, TypeOK
    <3> QED BY <2>1, <3>1 DEF Locking
  <2>8. ListedOnce'
    BY <1>3 DEF DrainNext, DrainClosed, DrainDeadline, TypeOK, ListedOnce, Listed
  <2> QED BY <2>2, <2>6, <2>7, <2>8
<1>4. CASE StopDone(t)
  <2>1. Listed' = {} /\ count' = 0
    BY <1>4 DEF StopDone, Listed
  <2>2. Cardinality(Listed)' = 0 /\ 0 \in 0..Cardinality(Addrs)
    BY <2>1, FS_EmptySet, FS_CardinalityType
  <2>3. TypeOK'
    BY <1>4, <2>2 DEF StopDone, TypeOK, Alive
  <2>4. Locking'
    BY <1>4 DEF StopDone, TypeOK, Locking
  <2> QED BY <2>1, <2>2, <2>3, <2>4 DEF CountMatches, ListedOnce
<1> QED BY <1>1, <1>2, <1>3, <1>4

(* Supervisors, tasks of messages and start touch neither the map nor its   *)
(* counter.                                                                 *)
LEMMA OthersKeep ==
    ASSUME Inv,
           \/ \E c \in Conns : Supervise(c) \/ Lend(c) \/ Return(c)
           \/ Start \/ UNCHANGED vars
    PROVE  Inv'
<1> USE DEF Inv
<1>1. UNCHANGED callVars
  BY DEF Supervise, CheckRunning, SessionStops, SessionFails, Wake, Redialed, EndSupervisor,
         Lend, Return, Start, vars, callVars
<1>2. running' \in BOOLEAN
  BY DEF Supervise, CheckRunning, SessionStops, SessionFails, Wake, Redialed, EndSupervisor,
         Lend, Return, Start, vars, TypeOK
<1>3. sup' \in [Conns -> {"none", "ended"} \cup Alive]
  BY DEF Supervise, CheckRunning, SessionStops, SessionFails, Wake, Redialed, EndSupervisor,
         Lend, Return, Start, vars, TypeOK, Alive
<1>4. sock' \in [Conns -> {"none", "open", "shut", "lost"}]
  BY ReleasedType
  DEF Supervise, CheckRunning, SessionStops, SessionFails, Wake, Redialed, EndSupervisor,
      Lend, Return, Start, vars, TypeOK
<1>5. lent' \subseteq Conns
  BY DEF Supervise, CheckRunning, SessionStops, SessionFails, Wake, Redialed, EndSupervisor,
         Lend, Return, Start, vars, TypeOK
<1>6. TypeOK'
  BY <1>1, <1>2, <1>3, <1>4, <1>5 DEF TypeOK, callVars, Alive
<1>7. Locking' /\ CountMatches' /\ ListedOnce'
  BY <1>1 DEF Locking, CountMatches, ListedOnce, Listed, callVars
<1> QED BY <1>6, <1>7

(* Inv is an invariant; the theorems below take their part of it. *)
LEMMA Invariant == ASSUME IsFiniteSet(Addrs) PROVE Spec => []Inv
<1>1. Init => Inv
  BY Initially
<1>2. ASSUME Inv, [Next]_vars PROVE Inv'
  <2>1. ASSUME NEW t \in Callers, Call(t) \/ Go(t) \/ Dialed(t) PROVE Inv'
    BY <1>2, <2>1, ConnectKeeps, DisconnectKeeps, StopKeeps DEF Call, Go
  <2> QED BY <1>2, <2>1, OthersKeep DEF Next
<1> QED BY <1>1, <1>2, PTL DEF Spec

(* Every variable keeps its type; the counter of connections never leaves   *)
(* 0 to the number of addresses, in particular it never wraps below 0.      *)
THEOREM LifecycleTypeCorrect == ASSUME IsFiniteSet(Addrs) PROVE Spec => []TypeOK
<1>1. Inv => TypeOK
  BY DEF Inv
<1> QED BY <1>1, Invariant, PTL

(* Save while a stop drains the map, connection_count is the number of      *)
(* listed connections, although both are updated apart.                     *)
THEOREM CountMatchesHolds == ASSUME IsFiniteSet(Addrs) PROVE Spec => []CountMatches
<1>1. Inv => CountMatches
  BY DEF Inv
<1> QED BY <1>1, Invariant, PTL

(* No connection is listed twice, or listed while somebody closes it,       *)
(* however connects, disconnects, stops and polls overlap.                  *)
THEOREM ListedOnceHolds == ASSUME IsFiniteSet(Addrs) PROVE Spec => []ListedOnce
<1>1. Inv => ListedOnce
  BY DEF Inv
<1> QED BY <1>1, Invariant, PTL
=============================================================================
