--------------------------------- MODULE Pool ---------------------------------
(***************************************************************************)
(* The generic connection pool of pool.rs: new, get, put, clean_idle_conns *)
(* and release, called by concurrent tasks.                                *)
(*                                                                         *)
(* The pool has four tokio mutexes (closed, idle_conns, opening_conns and  *)
(* conn_reqs) and every .await of its code is on one of them or on the     *)
(* oneshot channel of a waiting get.  An action is the code between two    *)
(* awaits; it starts by taking a lock, and a lock the code still holds at  *)
(* the next await is recorded in owner.  Time, the pinger and the closer   *)
(* are choices: an idle connection may turn out to be stale, a connection  *)
(* that is put may have outlived max_lifetime, a closer may fail.          *)
(***************************************************************************)
EXTENDS Integers, Sequences, FiniteSets

CONSTANTS
    Tasks,        \* the tasks that call the pool
    Conns,        \* names for connections, used again once nobody has one
    None,
    InitialCap,   \* PoolConfig::initial_cap
    MaxIdle,      \* PoolConfig::max_idle
    MaxCap,       \* PoolConfig::max_cap
    Calls,        \* the operations the tasks call
    Faults,       \* what may happen to them
    MaxCancelled  \* bound: requests of dropped gets that conn_reqs may hold

ASSUME PoolAssumption ==
    /\ None \notin Tasks \cup Conns
    /\ "Closed" \notin Conns    \* an answer to a waiting get, see slot
    /\ InitialCap \in Nat /\ MaxIdle \in Nat /\ MaxCap \in Nat
    /\ Calls \subseteq {"get", "put", "clean", "release"}
    /\ Faults \subseteq {"stale", "expired", "closer", "factory"}
    /\ MaxCancelled \in Nat

VARIABLES
    pc,       \* pc[t]: where t is in the pool's code, "out" if in none
    owner,    \* owner[l]: the task that holds lock l across an await
    closed,   \* Pool::closed
    idle,     \* Pool::idle_conns
    count,    \* Pool::opening_conns; a usize, so below 0 it is huge
    reqs,     \* Pool::conn_reqs: who asked, and whether it still waits
    slot,     \* slot[t]: the oneshot channel of t's request
    conn,     \* conn[t]: the connection t holds or works on
    fate      \* fate[c]: "open", "closed" by the closer, "dropped" by its last
              \* owner without a closer that succeeded, or "unborn"

vars == <<pc, owner, closed, idle, count, reqs, slot, conn, fate>>

Locks == {"closed", "idle", "count", "reqs"}
Free(l)    == owner[l] = None
Holds(t,l) == owner[l] = t

(* Mutation of AtCap: the limit is compared with > instead of >=. *)
AtCapLate == count > MaxCap \/ count < 0

(* A new connection may not be made; a count that has wrapped is huge. *)
AtCap == count >= MaxCap \/ count < 0

GetSteps   == {"getIdle", "getPop", "getCount", "getReq", "wait"}
PutSteps   == {"putReqs", "putIdle", "putFull", "putCount"}
OtherSteps == {"cleanIdle", "cleanCount", "relIdle", "relReqs", "relCount"}

Opened == {c \in Conns : fate[c] = "open"}
Fails  == IF "closer" \in Faults THEN BOOLEAN ELSE {FALSE}
Close(c, failed) == [fate EXCEPT ![c] = IF failed THEN "dropped" ELSE "closed"]

Unused(c) == fate[c] # "open" /\ \A t \in Tasks : conn[t] # c

(* The first InitialCap connections the factory makes. *)
Init ==
    /\ pc = [t \in Tasks |-> "out"]
    /\ owner = [l \in Locks |-> None]
    /\ closed = FALSE
    /\ idle \in {s \in [1..InitialCap -> Conns] :
                    \A i, j \in 1..InitialCap : s[i] = s[j] => i = j}
    /\ count = InitialCap
    /\ reqs = <<>>
    /\ slot = [t \in Tasks |-> None]
    /\ conn = [t \in Tasks |-> None]
    /\ fate = [c \in Conns |-> IF \E i \in 1..InitialCap : idle[i] = c
                               THEN "open" ELSE "unborn"]

-----------------------------------------------------------------------------
(* get *)

GetCall(t) ==
    /\ "get" \in Calls
    /\ pc[t] = "out" /\ conn[t] = None
    /\ Free("closed")
    /\ ~closed
    /\ pc' = [pc EXCEPT ![t] = "getIdle"]
    /\ UNCHANGED <<owner, closed, idle, count, reqs, slot, conn, fate>>

(* One turn of the loop over the idle connections, front first. *)
GetPop(t) ==
    /\ \/ pc[t] = "getIdle" /\ Free("idle")
       \/ pc[t] = "getPop" /\ conn[t] = None
    /\ \/ /\ idle = <<>>
          /\ pc' = [pc EXCEPT ![t] = "getCount"]
          /\ owner' = [owner EXCEPT !["idle"] = None]
          /\ UNCHANGED <<idle, conn, fate>>
       \/ /\ idle # <<>>
          /\ idle' = Tail(idle)
          /\ conn' = [conn EXCEPT ![t] = Head(idle)]
          /\ pc' = [pc EXCEPT ![t] = "out"]
          /\ owner' = [owner EXCEPT !["idle"] = None]
          /\ UNCHANGED fate
       \/ /\ idle # <<>> /\ "stale" \in Faults
          /\ idle' = Tail(idle)
          /\ \E failed \in Fails : fate' = Close(Head(idle), failed)
          /\ conn' = [conn EXCEPT ![t] = Head(idle)]
          /\ pc' = [pc EXCEPT ![t] = "getPop"]
          /\ owner' = [owner EXCEPT !["idle"] = t]
    /\ UNCHANGED <<closed, count, reqs, slot>>

(* Mutation of GetDiscard: a closer that fails takes one off, too. *)
GetDiscardTwice(t) ==
    /\ pc[t] = "getPop" /\ conn[t] # None
    /\ Free("count")
    /\ count' = IF fate[conn[t]] = "dropped" THEN count - 2 ELSE count - 1
    /\ conn' = [conn EXCEPT ![t] = None]
    /\ UNCHANGED <<pc, owner, closed, idle, reqs, slot, fate>>

(* Mutation of GetDiscard: the guard of opening_conns outlives the turn. *)
GetDiscardKeeps(t) ==
    /\ pc[t] = "getPop" /\ conn[t] # None
    /\ Free("count")
    /\ count' = count - 1
    /\ owner' = [owner EXCEPT !["count"] = t]
    /\ conn' = [conn EXCEPT ![t] = None]
    /\ UNCHANGED <<pc, closed, idle, reqs, slot, fate>>

(* A stale connection leaves the count while idle_conns is still locked. *)
GetDiscard(t) ==
    /\ pc[t] = "getPop" /\ conn[t] # None
    /\ Free("count")
    /\ count' = count - 1
    /\ conn' = [conn EXCEPT ![t] = None]
    /\ UNCHANGED <<pc, owner, closed, idle, reqs, slot, fate>>

GetCount(t) ==
    /\ pc[t] = "getCount"
    /\ Free("count")
    /\ \/ /\ AtCap
          /\ owner' = [owner EXCEPT !["count"] = t]
          /\ pc' = [pc EXCEPT ![t] = "getReq"]
          /\ UNCHANGED <<count, conn, fate>>
       \/ /\ ~AtCap
          /\ \E c \in Conns :
                /\ Unused(c)
                /\ fate' = [fate EXCEPT ![c] = "open"]
                /\ conn' = [conn EXCEPT ![t] = c]
          /\ count' = count + 1
          /\ pc' = [pc EXCEPT ![t] = "out"]
          /\ UNCHANGED owner
       \/ /\ ~AtCap /\ "factory" \in Faults
          /\ pc' = [pc EXCEPT ![t] = "out"]
          /\ UNCHANGED <<owner, count, conn, fate>>
    /\ UNCHANGED <<closed, idle, reqs, slot>>

GetReq(t) ==
    /\ pc[t] = "getReq"
    /\ Free("reqs")
    /\ reqs' = Append(reqs, [by |-> t, waits |-> TRUE])
    /\ owner' = [owner EXCEPT !["count"] = None]
    /\ pc' = [pc EXCEPT ![t] = "wait"]
    /\ UNCHANGED <<closed, idle, count, slot, conn, fate>>

(* Mutation of GetReceive: Err(Closed) is taken for a connection. *)
GetReceiveAny(t) ==
    /\ pc[t] = "wait" /\ slot[t] # None
    /\ conn' = [conn EXCEPT ![t] = slot[t]]
    /\ slot' = [slot EXCEPT ![t] = None]
    /\ pc' = [pc EXCEPT ![t] = "out"]
    /\ UNCHANGED <<owner, closed, idle, count, reqs, fate>>

(* The channel delivers a connection or Err(PoolError::Closed). *)
GetReceive(t) ==
    /\ pc[t] = "wait" /\ slot[t] # None
    /\ conn' = [conn EXCEPT ![t] = IF slot[t] \in Conns THEN slot[t] ELSE None]
    /\ slot' = [slot EXCEPT ![t] = None]
    /\ pc' = [pc EXCEPT ![t] = "out"]
    /\ UNCHANGED <<owner, closed, idle, count, reqs, fate>>

(* The caller drops the future of a waiting get: the receiver is gone, and  *)
(* with it a connection that was already sent.                              *)
GetCancelled(t) ==
    /\ pc[t] = "wait"
    /\ Cardinality({i \in 1..Len(reqs) : ~reqs[i].waits}) < MaxCancelled
    /\ reqs' = [i \in 1..Len(reqs) |->
                   IF reqs[i].by = t THEN [reqs[i] EXCEPT !.waits = FALSE] ELSE reqs[i]]
    /\ fate' = IF slot[t] \in Conns THEN [fate EXCEPT ![slot[t]] = "dropped"] ELSE fate
    /\ slot' = [slot EXCEPT ![t] = None]
    /\ pc' = [pc EXCEPT ![t] = "out"]
    /\ UNCHANGED <<owner, closed, idle, count, conn>>

-----------------------------------------------------------------------------
(* put *)

PutCall(t) ==
    /\ "put" \in Calls
    /\ pc[t] = "out" /\ conn[t] # None
    /\ Free("closed")
    /\ \/ /\ closed
          /\ fate' = [fate EXCEPT ![conn[t]] = "dropped"]
          /\ conn' = [conn EXCEPT ![t] = None]
          /\ UNCHANGED pc
       \/ /\ ~closed /\ "expired" \in Faults
          /\ \E failed \in Fails : fate' = Close(conn[t], failed)
          /\ pc' = [pc EXCEPT ![t] = "putCount"]
          /\ UNCHANGED conn
       \/ /\ ~closed
          /\ pc' = [pc EXCEPT ![t] = "putReqs"]
          /\ UNCHANGED <<conn, fate>>
    /\ UNCHANGED <<owner, closed, idle, count, reqs, slot>>

(* Mutation of PutReqs: put goes on after it has served a request. *)
PutReqsGoesOn(t) ==
    /\ pc[t] = "putReqs"
    /\ Free("reqs")
    /\ \/ /\ reqs # <<>>
          /\ reqs' = SubSeq(reqs, 1, Len(reqs) - 1)
          /\ reqs[Len(reqs)].waits
          /\ slot' = [slot EXCEPT ![reqs[Len(reqs)].by] = conn[t]]
          /\ UNCHANGED <<owner, pc>>
       \/ /\ reqs = <<>>
          /\ owner' = [owner EXCEPT !["reqs"] = t]
          /\ pc' = [pc EXCEPT ![t] = "putIdle"]
          /\ UNCHANGED <<reqs, slot>>
    /\ UNCHANGED <<closed, idle, count, conn, fate>>

(* The youngest request is served.  With none, conn_reqs stays locked. *)
PutReqs(t) ==
    /\ pc[t] = "putReqs"
    /\ Free("reqs")
    /\ \/ /\ reqs # <<>>
          /\ LET last == reqs[Len(reqs)] IN
             /\ reqs' = SubSeq(reqs, 1, Len(reqs) - 1)
             /\ \/ /\ last.waits
                   /\ slot' = [slot EXCEPT ![last.by] = conn[t]]
                   /\ conn' = [conn EXCEPT ![t] = None]
                   /\ pc' = [pc EXCEPT ![t] = "out"]
                   /\ UNCHANGED fate
                \/ /\ ~last.waits
                   /\ \E failed \in Fails : fate' = Close(conn[t], failed)
                   /\ pc' = [pc EXCEPT ![t] = "putCount"]
                   /\ UNCHANGED <<slot, conn>>
          /\ UNCHANGED owner
       \/ /\ reqs = <<>>
          /\ owner' = [owner EXCEPT !["reqs"] = t]
          /\ pc' = [pc EXCEPT ![t] = "putIdle"]
          /\ UNCHANGED <<reqs, slot, conn, fate>>
    /\ UNCHANGED <<closed, idle, count>>

PutIdle(t) ==
    /\ pc[t] = "putIdle"
    /\ Free("idle")
    /\ \/ /\ Len(idle) < MaxIdle
          /\ idle' = Append(idle, conn[t])
          /\ conn' = [conn EXCEPT ![t] = None]
          /\ owner' = [owner EXCEPT !["reqs"] = None]
          /\ pc' = [pc EXCEPT ![t] = "out"]
          /\ UNCHANGED fate
       \/ /\ Len(idle) >= MaxIdle
          /\ fate' = Close(conn[t], FALSE)
          /\ owner' = [owner EXCEPT !["idle"] = t]
          /\ pc' = [pc EXCEPT ![t] = "putFull"]
          /\ UNCHANGED <<idle, conn>>
       \/ /\ Len(idle) >= MaxIdle /\ TRUE \in Fails    \* an early return
          /\ fate' = Close(conn[t], TRUE)
          /\ conn' = [conn EXCEPT ![t] = None]
          /\ owner' = [owner EXCEPT !["reqs"] = None]
          /\ pc' = [pc EXCEPT ![t] = "out"]
          /\ UNCHANGED idle
    /\ UNCHANGED <<closed, count, reqs, slot>>

(* The connection was closed; the locks still held are given back. *)
PutCount(t) ==
    /\ pc[t] \in {"putCount", "putFull"}
    /\ Free("count")
    /\ count' = count - 1
    /\ conn' = [conn EXCEPT ![t] = None]
    /\ owner' = [l \in Locks |-> IF Holds(t, l) THEN None ELSE owner[l]]
    /\ pc' = [pc EXCEPT ![t] = "out"]
    /\ UNCHANGED <<closed, idle, reqs, slot, fate>>

-----------------------------------------------------------------------------
(* clean_idle_conns and release *)

CleanCall(t) ==
    /\ "clean" \in Calls
    /\ pc[t] = "out"
    /\ Free("closed")
    /\ ~closed
    /\ pc' = [pc EXCEPT ![t] = "cleanIdle"]
    /\ UNCHANGED <<owner, closed, idle, count, reqs, slot, conn, fate>>

CleanIdle(t) ==
    /\ pc[t] = "cleanIdle"
    /\ Free("idle")
    /\ owner' = [owner EXCEPT !["idle"] = t]
    /\ pc' = [pc EXCEPT ![t] = "cleanCount"]
    /\ UNCHANGED <<closed, idle, count, reqs, slot, conn, fate>>

(* Mutation of Keep: stale connections are closed and stay. *)
KeepAll(places) == UNCHANGED idle

(* The idle connections at these places stay, in their order. *)
Keep(places) ==
    LET size == Cardinality(places) IN
    \E at \in [1..size -> places] :
        /\ \A i, j \in 1..size : i < j => at[i] < at[j]
        /\ idle' = [i \in 1..size |-> idle[at[i]]]

(* The stale places are swept from the back; the first closer that fails    *)
(* ends the call with what was removed missing from the count.              *)
CleanCount(t) ==
    /\ pc[t] = "cleanCount"
    /\ Free("count")
    /\ \E stale \in SUBSET (1..Len(idle)) :
          \/ /\ fate' = [c \in Conns |-> IF \E i \in stale : idle[i] = c
                                         THEN "closed" ELSE fate[c]]
             /\ Keep((1..Len(idle)) \ stale)
             /\ count' = count - Cardinality(stale)
          \/ /\ TRUE \in Fails
             /\ \E i \in stale :
                   LET swept == {j \in stale : j > i} IN
                   /\ fate' = [c \in Conns |-> IF \E j \in swept : idle[j] = c
                                               THEN "closed" ELSE fate[c]]
                   /\ Keep((1..Len(idle)) \ swept)
                   /\ UNCHANGED count
    /\ owner' = [owner EXCEPT !["idle"] = None]
    /\ pc' = [pc EXCEPT ![t] = "out"]
    /\ UNCHANGED <<closed, reqs, slot, conn>>

ReleaseCall(t) ==
    /\ "release" \in Calls
    /\ pc[t] = "out"
    /\ Free("closed")
    /\ closed' = TRUE
    /\ owner' = [owner EXCEPT !["closed"] = t]
    /\ pc' = [pc EXCEPT ![t] = "relIdle"]
    /\ UNCHANGED <<idle, count, reqs, slot, conn, fate>>

(* All idle connections are closed, or those before the first failure. *)
ReleaseIdle(t) ==
    /\ pc[t] = "relIdle"
    /\ Free("idle")
    /\ \/ /\ fate' = [c \in Conns |-> IF \E i \in 1..Len(idle) : idle[i] = c
                                      THEN "closed" ELSE fate[c]]
          /\ idle' = <<>>
          /\ owner' = [owner EXCEPT !["idle"] = t]
          /\ pc' = [pc EXCEPT ![t] = "relReqs"]
       \/ /\ TRUE \in Fails
          /\ \E i \in 1..Len(idle) :
                /\ fate' = [c \in Conns |->
                               IF c = idle[i] THEN "dropped"
                               ELSE IF \E j \in 1..(i - 1) : idle[j] = c
                               THEN "closed" ELSE fate[c]]
                /\ idle' = SubSeq(idle, i + 1, Len(idle))
          /\ owner' = [owner EXCEPT !["closed"] = None]
          /\ pc' = [pc EXCEPT ![t] = "out"]
    /\ UNCHANGED <<closed, count, reqs, slot, conn>>

ReleaseReqs(t) ==
    /\ pc[t] = "relReqs"
    /\ Free("reqs")
    /\ slot' = [u \in Tasks |->
                   IF \E i \in 1..Len(reqs) : reqs[i].by = u /\ reqs[i].waits
                   THEN "Closed" ELSE slot[u]]
    /\ reqs' = <<>>
    /\ owner' = [owner EXCEPT !["reqs"] = t]
    /\ pc' = [pc EXCEPT ![t] = "relCount"]
    /\ UNCHANGED <<closed, idle, count, conn, fate>>

ReleaseCount(t) ==
    /\ pc[t] = "relCount"
    /\ Free("count")
    /\ count' = 0
    /\ owner' = [l \in Locks |-> IF Holds(t, l) THEN None ELSE owner[l]]
    /\ pc' = [pc EXCEPT ![t] = "out"]
    /\ UNCHANGED <<closed, idle, reqs, slot, conn, fate>>

-----------------------------------------------------------------------------
Inside(t) ==
    \/ GetPop(t) \/ GetDiscard(t) \/ GetCount(t) \/ GetReq(t) \/ GetReceive(t)
    \/ PutReqs(t) \/ PutIdle(t) \/ PutCount(t)
    \/ CleanIdle(t) \/ CleanCount(t)
    \/ ReleaseIdle(t) \/ ReleaseReqs(t) \/ ReleaseCount(t)

Next == \E t \in Tasks :
    \/ GetCall(t) \/ PutCall(t) \/ CleanCall(t) \/ ReleaseCall(t)
    \/ GetCancelled(t)
    \/ Inside(t)

Spec == Init /\ [][Next]_vars

-----------------------------------------------------------------------------
(* Properties *)

TypeOK ==
    /\ pc \in [Tasks -> {"out"} \cup GetSteps \cup PutSteps \cup OtherSteps]
    /\ owner \in [Locks -> Tasks \cup {None}]
    /\ closed \in BOOLEAN
    /\ idle \in Seq(Conns)
    /\ count \in Int
    /\ reqs \in Seq([by : Tasks, waits : BOOLEAN])
    /\ slot \in [Tasks -> Conns \cup {None, "Closed"}]
    /\ conn \in [Tasks -> Conns \cup {None}]
    /\ fate \in [Conns -> {"unborn", "open", "closed", "dropped"}]

(* A connection is in one place: with one task, on one channel, or idle     *)
(* once.  get, put, clean and release move connections between tasks.       *)
Exclusive ==
    \A c \in Conns :
        Cardinality({t \in Tasks : conn[t] = c})
      + Cardinality({t \in Tasks : slot[t] = c})
      + Cardinality({i \in 1..Len(idle) : idle[i] = c}) <= 1

(* What a caller has got, what a channel carries and what is idle is open:  *)
(* no connection is handed out or pooled after the closer closed it.        *)
UsableIsOpen ==
    \A c \in Conns :
        (\/ \E t \in Tasks : slot[t] = c \/ (pc[t] = "out" /\ conn[t] = c)
         \/ \E i \in 1..Len(idle) : idle[i] = c) => fate[c] = "open"

(* Until release, opening_conns covers every open connection and every one  *)
(* that a task has closed and is about to take off the count, however       *)
(* connections go stale or expire and closers fail.                         *)
CountCovers ==
    ~closed => count >= Cardinality({c \in Conns :
                                       fate[c] = "open" \/ \E t \in Tasks : conn[t] = c})

(* Until release at most max_cap connections are open ("Maximum connections *)
(* allowed").                                                               *)
CapRespected == ~closed => Cardinality(Opened) <= MaxCap

(* The lock a task in the middle of an operation asks for. *)
Asks(t) ==
    CASE pc[t] \in {"getIdle", "putIdle", "cleanIdle", "relIdle"} -> {"idle"}
      [] pc[t] \in {"getReq", "putReqs", "relReqs"} -> {"reqs"}
      [] \/ pc[t] \in {"getCount", "putFull", "putCount", "cleanCount", "relCount"}
         \/ pc[t] = "getPop" /\ conn[t] # None -> {"count"}
      [] OTHER -> {}

(* Tasks of which each asks for a lock that one of them holds. *)
Deadlocked(tasks) == \A t \in tasks : \E l \in Asks(t) : owner[l] \in tasks

(* The four mutexes are taken in three orders.  Tasks wait for each other   *)
(* only where a get at the cap, or a release, asks for conn_reqs against a  *)
(* put or a release that holds it; no other orders of get, put, clean and   *)
(* release cross, and no task waits for a lock of its own.                  *)
LockCycles ==
    \A tasks \in (SUBSET Tasks) \ {{}} : Deadlocked(tasks) =>
        \E t, u \in tasks : /\ pc[t] \in {"getReq", "relReqs"}
                            /\ pc[u] \in {"putIdle", "putFull", "relCount"}

(* A get waits for "a connection to become available": when all other tasks *)
(* are out of the pool, none waits while a connection is idle.              *)
NoStranding ==
    (\A t \in Tasks : pc[t] = "out" \/ (pc[t] = "wait" /\ slot[t] = None)) =>
        idle = <<>> \/ \A t \in Tasks : pc[t] = "out"

=============================================================================
