--------------------------- MODULE Producer_proofs ---------------------------
(***************************************************************************)
(* Theorems about Producer, for all tasks, messages and connections, any   *)
(* number of attempts and any faults.                                      *)
(***************************************************************************)
EXTENDS Producer, FoldTheorems, FiniteSetTheorems, FunctionTheorems,
        SequenceTheorems, TLAPS

(* A task that writes or reads has a connection and a message. *)
Equipped ==
    \A t \in Tasks :
        /\ pc[t] \in {"write", "read"} => using[t] \in Conns
        /\ pc[t] = "write" => msg[t] \in Msgs

Types == TypeOK /\ Equipped

(* The ways in which a task leaves a step. *)
LEMMA Leaves ==
    ASSUME Types, NEW t \in Tasks,
           \/ \E outcome \in {"ok", "beat", "error"} : Return(t, outcome)
           \/ Retry(t) /\ pc[t] \in {"write", "read"}
           \/ \E c \in Conns : Got(t, c)
    PROVE  /\ pc' \in [Tasks -> {"out", "get", "dial", "write", "read"}]
           /\ msg' \in [Tasks -> Msgs \cup {None}]
           /\ tries' \in [Tasks -> 0..MaxTries]
           /\ using' \in [Tasks -> Conns \cup {None}]
           /\ result' \in [Msgs -> {"none", "ok", "beat", "error", "empty"}]
           /\ Equipped'
           /\ pc'[t] # "read"
           /\ \A u \in Tasks : u # t => pc'[u] = pc[u] /\ using'[u] = using[u]
<1> USE ProducerAssumption DEF Types, TypeOK, Equipped
<1>1. CASE \E outcome \in {"ok", "beat", "error"} : Return(t, outcome)
  BY <1>1 DEF Return
<1>2. CASE /\ tries' = [tries EXCEPT ![t] = @ + 1] /\ tries[t] < MaxTries
           /\ using' = [using EXCEPT ![t] = None]
           /\ pc' = [pc EXCEPT ![t] = "get"]
           /\ UNCHANGED <<msg, result>>
  BY <1>2
<1>3. CASE /\ msg[t] # None
           /\ \E c \in Conns : using' = [using EXCEPT ![t] = c]
           /\ pc' = [pc EXCEPT ![t] = "write"]
           /\ UNCHANGED <<msg, tries, result>>
  BY <1>3
<1> QED BY <1>1, <1>2, <1>3 DEF Retry, Got

(* The operations keep the types. *)
LEMMA TypesKept == ASSUME Types, [Next]_vars PROVE Types'
<1> USE ProducerAssumption DEF Types, TypeOK, Equipped, mapVars, nsqdVars, taskVars
<1>1. CASE UNCHANGED vars
  BY <1>1 DEF vars
<1>2. ASSUME NEW t \in Tasks, NEW m \in Msgs, Publish(t, m) \/ PublishMulti(t, m)
      PROVE  Types'
  <2>1. CASE Begin(t, m) /\ pc[t] = "out"
    BY <2>1 DEF Begin
  <2>2. CASE result' = [result EXCEPT ![m] = "empty"] /\ UNCHANGED <<taskVars, mapVars, nsqdVars>>
    BY <2>2
  <2> QED BY <1>2, <2>1, <2>2 DEF Publish, PublishMulti
<1>3. ASSUME NEW t \in Tasks, Ping(t) PROVE Types'
  BY <1>3 DEF Ping
<1>4. ASSUME NEW t \in Tasks, GetConnection(t) PROVE Types'
  <2>1. CASE cached # None /\ Got(t, cached) /\ UNCHANGED mapVars
    BY <1>4, <2>1, Leaves DEF GetConnection
  <2>2. CASE /\ cached' = None /\ dialer' = t
             /\ pc' = [pc EXCEPT ![t] = "dial"]
             /\ UNCHANGED <<msg, tries, using, result>>
    BY <1>4, <2>2 DEF GetConnection
  <2> QED BY <1>4, <2>1, <2>2 DEF GetConnection
<1>5. ASSUME NEW t \in Tasks, Dialed(t) PROVE Types'
  <2>1. ASSUME NEW c \in Conns, Got(t, c), cached' = c, live' = live \cup {c},
               wire' = [wire EXCEPT ![c] = <<>>], inbox' = [inbox EXCEPT ![c] = <<>>]
        PROVE  Types'
    BY <1>5, <2>1, Leaves DEF Dialed
  <2>2. CASE Return(t, "error") /\ UNCHANGED <<cached, live, wire, inbox>>
    BY <1>5, <2>2, Leaves DEF Dialed
  <2> QED BY <1>5, <2>1, <2>2 DEF Dialed
<1>6. ASSUME NEW t \in Tasks, Write(t) PROVE Types'
  <2>1. CASE UNCHANGED wire /\ Retry(t)
    BY <1>6, <2>1, Leaves DEF Write
  <2>2. CASE /\ wire' = IF using[t] \in live
                        THEN [wire EXCEPT ![using[t]] = Append(@, msg[t])] ELSE wire
             /\ pc' = [pc EXCEPT ![t] = "read"]
             /\ UNCHANGED <<msg, tries, using, result>>
    <3>1. /\ using[t] \in Conns /\ msg[t] \in Msgs
          /\ Append(wire[using[t]], msg[t]) \in Seq(Msgs)
      BY <1>6 DEF Write
    <3>2. wire' \in [Conns -> Seq(Msgs)]
      BY <2>2, <3>1
    <3> QED BY <1>6, <2>2, <3>1, <3>2 DEF Write
  <2> QED BY <1>6, <2>1, <2>2 DEF Write
<1>7. ASSUME NEW t \in Tasks, ReadFrame(t) PROVE Types'
  <2>1. inbox' \in [Conns -> Seq(Frames)]
    BY <1>7, HeadTailProperties DEF ReadFrame
  <2>2. (\E outcome \in {"ok", "beat", "error"} : Return(t, outcome)) \/ Retry(t)
    BY <1>7 DEF ReadFrame
  <2> QED BY <1>7, <2>1, <2>2, Leaves DEF ReadFrame
<1>8. ASSUME NEW t \in Tasks, ReadFails(t) PROVE Types'
  BY <1>8, Leaves DEF ReadFails
<1>9. ASSUME NEW c \in Conns, NsqdHandles(c) PROVE Types'
  <2>1. Head(wire[c]) \in Msgs /\ Tail(wire[c]) \in Seq(Msgs)
    BY <1>9, HeadTailProperties DEF NsqdHandles
  <2>2. /\ wire' \in [Conns -> Seq(Msgs)] /\ copies' \in [Msgs -> Nat]
    BY <1>9, <2>1 DEF NsqdHandles
  <2>3. \E frame \in Frames : inbox' = [inbox EXCEPT ![c] = Append(@, frame)]
    BY <1>9 DEF NsqdHandles, Frames
  <2>4. inbox' \in [Conns -> Seq(Frames)]
    BY <2>3
  <2> QED BY <1>9, <2>2, <2>4 DEF NsqdHandles
<1>10. ASSUME NEW c \in Conns, NsqdHeartbeat(c) PROVE Types'
  <2>1. inbox' \in [Conns -> Seq(Frames)]
    BY <1>10 DEF NsqdHeartbeat, Frames
  <2> QED BY <1>10, <2>1 DEF NsqdHeartbeat
<1>11. ASSUME NEW c \in Conns, ConnectionLost(c) PROVE Types'
  <2>1. wire' \in [Conns -> Seq(Msgs)]
    BY <1>11 DEF ConnectionLost
  <2>2. inbox' \in [Conns -> Seq(Frames)]
    <3>1. <<>> \in Seq(Frames)
      OBVIOUS
    <3>2. inbox' = inbox \/ inbox' = [inbox EXCEPT ![c] = <<>>]
      BY <1>11 DEF ConnectionLost
    <3> QED BY <3>1, <3>2, Zenon
  <2> QED BY <1>11, <2>1, <2>2 DEF ConnectionLost
<1> QED BY <1>1, <1>2, <1>3, <1>4, <1>5, <1>6, <1>7, <1>8, <1>9, <1>10, <1>11 DEF Next, Step

LEMMA TypesInvariant == Spec => []Types
<1>1. Init => Types
  BY ProducerAssumption DEF Init, Types, TypeOK, Equipped
<1> QED BY <1>1, TypesKept, PTL DEF Spec

(* Every variable keeps its type; in particular the backoff ends within its *)
(* attempts.                                                                *)
THEOREM ProducerTypeCorrect == Spec => []TypeOK
<1>1. Types => TypeOK
  BY DEF Types
<1> QED BY <1>1, TypesInvariant, PTL

-----------------------------------------------------------------------------
(* Frames and readers. *)

(* How the readers of a connection change when one task moves. *)
LEMMA ReadersMove ==
    ASSUME IsFiniteSet(Tasks), NEW t \in Tasks, NEW c \in Conns,
           \A u \in Tasks : u # t => pc'[u] = pc[u] /\ using'[u] = using[u]
    PROVE  /\ Cardinality(Readers(c)) \in Nat /\ Cardinality(Readers(c)') \in Nat
           /\ Cardinality(Readers(c)') <= Cardinality(Readers(c)) + 1
           /\ pc'[t] # "read" =>
                 IF t \in Readers(c)
                 THEN Cardinality(Readers(c)') = Cardinality(Readers(c)) - 1
                 ELSE Cardinality(Readers(c)') = Cardinality(Readers(c))
           /\ using'[t] # c => Cardinality(Readers(c)') <= Cardinality(Readers(c))
<1> DEFINE old == Readers(c)
           new == Readers(c)'
           others == Readers(c) \ {t}
<1>1. /\ IsFiniteSet(old) /\ IsFiniteSet(new) /\ IsFiniteSet(others)
      /\ Cardinality(old) \in Nat /\ Cardinality(new) \in Nat /\ Cardinality(others) \in Nat
  <2>1. old \subseteq Tasks /\ new \subseteq Tasks /\ others \subseteq Tasks
    BY DEF Readers
  <2> QED BY <2>1, FS_Subset, FS_CardinalityType
<1>2. new = others \/ new = others \cup {t}
  BY DEF Readers
<1>3. pc'[t] # "read" \/ using'[t] # c => new = others
  BY DEF Readers
<1>4. IF t \in old THEN Cardinality(others) = Cardinality(old) - 1 ELSE others = old
  BY <1>1, FS_RemoveElement
<1>5. Cardinality(others \cup {t}) = Cardinality(others) + 1
  BY <1>1, FS_AddElement
<1> HIDE DEF old, new, others
<1>6. Cardinality(others) <= Cardinality(old)
  BY <1>1, <1>4
<1>7. Cardinality(new) <= Cardinality(old) + 1
  <2>1. \/ Cardinality(new) = Cardinality(others)
        \/ Cardinality(new) = Cardinality(others) + 1
    BY <1>2, <1>5, Zenon
  <2> QED BY <1>1, <1>6, <2>1
<1>8. using'[t] # c => Cardinality(new) <= Cardinality(old)
  BY <1>3, <1>6
<1>9. pc'[t] # "read" =>
         IF t \in old THEN Cardinality(new) = Cardinality(old) - 1
                      ELSE Cardinality(new) = Cardinality(old)
  BY <1>3, <1>4
<1> QED BY <1>1, <1>7, <1>8, <1>9 DEF old, new


(* A task that does not come to read needs no further frame. *)
LEMMA NoNewReader ==
    ASSUME IsFiniteSet(Tasks), Types, FrameForEachReader, NEW t \in Tasks,
           \A u \in Tasks : u # t => pc'[u] = pc[u] /\ using'[u] = using[u],
           pc'[t] # "read", UNCHANGED <<live, wire, inbox>>
    PROVE  FrameForEachReader'
<1> SUFFICES ASSUME NEW c \in live
             PROVE  Len(wire[c]) + Len(inbox[c]) >= Cardinality(Readers(c)')
  BY DEF FrameForEachReader
<1>1. c \in Conns /\ wire[c] \in Seq(Msgs) /\ inbox[c] \in Seq(Frames)
  BY DEF Types, TypeOK
<1>2. Len(wire[c]) + Len(inbox[c]) >= Cardinality(Readers(c))
  BY DEF FrameForEachReader
<1>3. /\ Cardinality(Readers(c)) \in Nat /\ Cardinality(Readers(c)') \in Nat
      /\ Cardinality(Readers(c)') <= Cardinality(Readers(c))
  BY <1>1, ReadersMove
<1>4. Len(wire[c]) \in Nat /\ Len(inbox[c]) \in Nat
  BY <1>1, LenProperties
<1> QED BY <1>1, <1>2, <1>3, <1>4 DEF Types, TypeOK

(* nsqd and the network leave the readers as they are. *)
LEMMA SameReaders ==
    ASSUME IsFiniteSet(Tasks), Types, FrameForEachReader, UNCHANGED <<pc, using>>,
           live' \subseteq live,
           \A c \in live' : Len(wire'[c]) + Len(inbox'[c]) >= Len(wire[c]) + Len(inbox[c]),
           wire' \in [Conns -> Seq(Msgs)], inbox' \in [Conns -> Seq(Frames)]
    PROVE  FrameForEachReader'
<1> SUFFICES ASSUME NEW c \in live'
             PROVE  Len(wire'[c]) + Len(inbox'[c]) >= Cardinality(Readers(c)')
  BY DEF FrameForEachReader
<1>1. /\ wire[c] \in Seq(Msgs) /\ inbox[c] \in Seq(Frames)
      /\ wire'[c] \in Seq(Msgs) /\ inbox'[c] \in Seq(Frames)
  BY DEF Types, TypeOK
<1>2. /\ Len(wire[c]) \in Nat /\ Len(inbox[c]) \in Nat
      /\ Len(wire'[c]) \in Nat /\ Len(inbox'[c]) \in Nat
  BY <1>1, LenProperties
<1>3. Readers(c)' = Readers(c) /\ Cardinality(Readers(c)) \in Nat
  <2>1. IsFiniteSet(Readers(c))
    BY FS_Subset DEF Readers
  <2> QED BY <2>1, FS_CardinalityType DEF Readers
<1>4. Len(wire[c]) + Len(inbox[c]) >= Cardinality(Readers(c))
  BY DEF FrameForEachReader
<1> QED BY <1>1, <1>2, <1>3, <1>4 DEF Types, TypeOK

(* A write brings a reader and a frame, a read takes one of each, and a new *)
(* connection has neither.                                                  *)
LEMMA FramesKept ==
    ASSUME IsFiniteSet(Tasks), Types, FrameForEachReader, [Next]_vars
    PROVE  FrameForEachReader'
<1> USE DEF mapVars, nsqdVars, taskVars
<1>0. TypeOK /\ Types' /\ TypeOK'
  BY TypesKept DEF Types
<1>1. CASE UNCHANGED vars
  BY <1>0, <1>1, SameReaders DEF vars, TypeOK
<1>2. ASSUME NEW t \in Tasks,
             Ping(t) \/ \E m \in Msgs : Publish(t, m) \/ PublishMulti(t, m)
      PROVE  FrameForEachReader'
  <2>1. CASE UNCHANGED <<taskVars, nsqdVars>>
    BY <1>0, <2>1, SameReaders DEF TypeOK
  <2>2. CASE pc' = [pc EXCEPT ![t] = "get"] /\ UNCHANGED <<using, nsqdVars>>
    BY <1>0, <2>2, NoNewReader DEF TypeOK
  <2> QED BY <1>2, <2>1, <2>2 DEF Publish, PublishMulti, Begin, Ping
<1>3. ASSUME NEW t \in Tasks, GetConnection(t) PROVE FrameForEachReader'
  <2>1. CASE cached # None /\ Got(t, cached)
    BY <1>0, <1>3, <2>1, Leaves, NoNewReader DEF GetConnection, TypeOK
  <2>2. CASE pc' = [pc EXCEPT ![t] = "dial"] /\ UNCHANGED using
    BY <1>0, <1>3, <2>2, NoNewReader DEF GetConnection, TypeOK
  <2> QED BY <1>3, <2>1, <2>2 DEF GetConnection
<1>4. ASSUME NEW t \in Tasks, Dialed(t) PROVE FrameForEachReader'
  <2>1. CASE Return(t, "error") /\ UNCHANGED <<live, wire, inbox>>
    BY <1>4, <2>1, Leaves, NoNewReader
  <2>2. ASSUME NEW c \in Conns, Unused(c), Got(t, c), live' = live \cup {c},
               wire' = [wire EXCEPT ![c] = <<>>], inbox' = [inbox EXCEPT ![c] = <<>>]
        PROVE  FrameForEachReader'
    <3>1. /\ pc'[t] # "read"
          /\ \A u \in Tasks : u # t => pc'[u] = pc[u] /\ using'[u] = using[u]
      BY <2>2, Leaves
    <3>2. Readers(c)' = {}
      BY <2>2, <3>1 DEF Readers, Unused
    <3>3. Len(wire'[c]) + Len(inbox'[c]) >= Cardinality(Readers(c)')
      BY <1>0, <2>2, <3>2, FS_EmptySet DEF TypeOK
    <3>4. ASSUME NEW d \in live, d # c
          PROVE  Len(wire'[d]) + Len(inbox'[d]) >= Cardinality(Readers(d)')
      <4>1. /\ wire'[d] = wire[d] /\ inbox'[d] = inbox[d] /\ d \in Conns
            /\ wire[d] \in Seq(Msgs) /\ inbox[d] \in Seq(Frames)
        BY <1>0, <2>2, <3>4 DEF TypeOK
      <4>2. Len(wire[d]) \in Nat /\ Len(inbox[d]) \in Nat
        BY <4>1, LenProperties
      <4>3. Len(wire[d]) + Len(inbox[d]) >= Cardinality(Readers(d))
        BY DEF FrameForEachReader
      <4>4. /\ Cardinality(Readers(d)) \in Nat /\ Cardinality(Readers(d)') \in Nat
            /\ Cardinality(Readers(d)') <= Cardinality(Readers(d))
        BY <3>1, <4>1, ReadersMove
      <4> QED BY <1>0, <4>1, <4>2, <4>3, <4>4 DEF TypeOK
    <3> QED BY <2>2, <3>3, <3>4 DEF FrameForEachReader
  <2> QED BY <1>4, <2>1, <2>2 DEF Dialed
<1>5. ASSUME NEW t \in Tasks, Write(t) PROVE FrameForEachReader'
  <2>1. CASE Retry(t) /\ UNCHANGED wire
    BY <1>5, <2>1, Leaves, NoNewReader DEF Write
  <2>2. CASE /\ wire' = IF using[t] \in live
                        THEN [wire EXCEPT ![using[t]] = Append(@, msg[t])] ELSE wire
             /\ pc' = [pc EXCEPT ![t] = "read"] /\ UNCHANGED using
    <3>1. SUFFICES ASSUME NEW c \in live
                   PROVE  Len(wire'[c]) + Len(inbox[c]) >= Cardinality(Readers(c)')
      BY <1>5 DEF FrameForEachReader, Write
    <3>2. /\ c \in Conns /\ wire[c] \in Seq(Msgs) /\ inbox[c] \in Seq(Frames)
          /\ msg[t] \in Msgs
      BY <1>5 DEF Types, TypeOK, Equipped, Write
    <3>3. Len(wire[c]) \in Nat /\ Len(inbox[c]) \in Nat
      BY <3>2, LenProperties
    <3>4. /\ Cardinality(Readers(c)) \in Nat /\ Cardinality(Readers(c)') \in Nat
          /\ Cardinality(Readers(c)') <= Cardinality(Readers(c)) + 1
          /\ using[t] # c => Cardinality(Readers(c)') <= Cardinality(Readers(c))
      BY <1>0, <2>2, <3>2, ReadersMove DEF TypeOK
    <3>5. Len(wire[c]) + Len(inbox[c]) >= Cardinality(Readers(c))
      BY DEF FrameForEachReader
    <3>6. CASE using[t] = c
      <4>1. Len(wire'[c]) = Len(wire[c]) + 1
        BY <1>0, <2>2, <3>2, <3>6, AppendProperties DEF TypeOK
      <4> QED BY <1>0, <3>2, <3>3, <3>4, <3>5, <4>1 DEF TypeOK
    <3>7. CASE using[t] # c
      <4>1. wire'[c] = wire[c]
        BY <2>2, <3>7
      <4> QED BY <1>0, <3>2, <3>3, <3>4, <3>5, <3>7, <4>1 DEF TypeOK
    <3> QED BY <3>6, <3>7
  <2> QED BY <1>5, <2>1, <2>2 DEF Write
<1>6. ASSUME NEW t \in Tasks, ReadFrame(t) PROVE FrameForEachReader'
  <2>1. /\ pc'[t] # "read"
        /\ \A u \in Tasks : u # t => pc'[u] = pc[u] /\ using'[u] = using[u]
    BY <1>6, Leaves DEF ReadFrame
  <2>2. SUFFICES ASSUME NEW c \in live
                 PROVE  Len(wire[c]) + Len(inbox'[c]) >= Cardinality(Readers(c)')
    BY <1>6 DEF FrameForEachReader, ReadFrame
  <2>3. c \in Conns /\ wire[c] \in Seq(Msgs) /\ inbox[c] \in Seq(Frames)
    BY <1>0 DEF TypeOK
  <2>4. Len(wire[c]) \in Nat /\ Len(inbox[c]) \in Nat
    BY <2>3, LenProperties
  <2>5. Len(wire[c]) + Len(inbox[c]) >= Cardinality(Readers(c))
    BY DEF FrameForEachReader
  <2>6. /\ Cardinality(Readers(c)) \in Nat
        /\ IF t \in Readers(c) THEN Cardinality(Readers(c)') = Cardinality(Readers(c)) - 1
                               ELSE Cardinality(Readers(c)') = Cardinality(Readers(c))
    BY <2>1, <2>3, ReadersMove
  <2>7. CASE using[t] = c
    <3>1. t \in Readers(c) /\ inbox[c] # <<>> /\ inbox' = [inbox EXCEPT ![c] = Tail(@)]
      BY <1>6, <2>7 DEF ReadFrame, Readers
    <3>2. Len(inbox'[c]) = Len(inbox[c]) - 1
      BY <1>0, <2>3, <3>1, HeadTailProperties DEF TypeOK
    <3> QED BY <1>0, <2>3, <2>4, <2>5, <2>6, <3>1, <3>2 DEF TypeOK
  <2>8. CASE using[t] # c
    <3>1. inbox'[c] = inbox[c] /\ t \notin Readers(c)
      BY <1>6, <2>8 DEF ReadFrame, Readers
    <3> QED BY <1>0, <2>3, <2>4, <2>5, <2>6, <3>1 DEF TypeOK
  <2> QED BY <2>7, <2>8
<1>7. ASSUME NEW t \in Tasks, ReadFails(t) PROVE FrameForEachReader'
  BY <1>7, Leaves, NoNewReader DEF ReadFails
<1>8. ASSUME NEW c \in Conns, NsqdHandles(c) PROVE FrameForEachReader'
  <2>1. wire[c] # <<>> /\ wire' = [wire EXCEPT ![c] = Tail(@)]
    BY <1>8 DEF NsqdHandles
  <2>2. \E frame \in Frames : inbox' = [inbox EXCEPT ![c] = Append(@, frame)]
    BY <1>8 DEF NsqdHandles, Frames
  <2>3. Len(wire'[c]) = Len(wire[c]) - 1 /\ Len(wire[c]) \in Nat
    BY <1>0, <2>1, HeadTailProperties, LenProperties DEF TypeOK
  <2>4. Len(inbox'[c]) = Len(inbox[c]) + 1 /\ Len(inbox[c]) \in Nat
    BY <1>0, <2>2, AppendProperties, LenProperties DEF TypeOK
  <2>5. \A d \in Conns : d # c => wire'[d] = wire[d] /\ inbox'[d] = inbox[d]
    BY <2>1, <2>2
  <2>6. ASSUME NEW d \in Conns
        PROVE  Len(wire'[d]) + Len(inbox'[d]) >= Len(wire[d]) + Len(inbox[d])
    <3>1. Len(wire[d]) \in Nat /\ Len(inbox[d]) \in Nat
      BY <1>0, LenProperties DEF TypeOK
    <3>2. CASE d = c
      BY <1>0, <2>3, <2>4, <3>2 DEF TypeOK
    <3>3. CASE d # c
      BY <1>0, <2>5, <3>1, <3>3 DEF TypeOK
    <3> QED BY <3>2, <3>3
  <2> QED BY <1>0, <1>8, <2>6, SameReaders DEF NsqdHandles, TypeOK
<1>9. ASSUME NEW c \in Conns, NsqdHeartbeat(c) PROVE FrameForEachReader'
  <2>1. Len(inbox'[c]) = Len(inbox[c]) + 1 /\ Len(inbox[c]) \in Nat
    BY <1>0, <1>9, AppendProperties, LenProperties DEF NsqdHeartbeat, TypeOK, Frames
  <2>2. UNCHANGED <<pc, using, live, wire>> /\ \A d \in Conns : d # c => inbox'[d] = inbox[d]
    BY <1>9 DEF NsqdHeartbeat
  <2>3. ASSUME NEW d \in Conns
        PROVE  Len(wire'[d]) + Len(inbox'[d]) >= Len(wire[d]) + Len(inbox[d])
    <3>1. Len(wire[d]) \in Nat /\ Len(inbox[d]) \in Nat
      BY <1>0, LenProperties DEF TypeOK
    <3>2. CASE d = c
      BY <1>0, <2>1, <2>2, <3>1, <3>2 DEF TypeOK
    <3>3. CASE d # c
      BY <1>0, <2>2, <3>1, <3>3 DEF TypeOK
    <3> QED BY <3>2, <3>3
  <2> QED BY <1>0, <2>2, <2>3, SameReaders DEF TypeOK
<1>10. ASSUME NEW c \in Conns, ConnectionLost(c) PROVE FrameForEachReader'
  <2>1. live' = live \ {c} /\ UNCHANGED <<pc, using>>
    BY <1>10 DEF ConnectionLost
  <2>2. \A d \in Conns : d # c => wire'[d] = wire[d] /\ inbox'[d] = inbox[d]
    <3>1. inbox' = inbox \/ inbox' = [inbox EXCEPT ![c] = <<>>]
      BY <1>10 DEF ConnectionLost
    <3>2. wire' = [wire EXCEPT ![c] = <<>>]
      BY <1>10 DEF ConnectionLost
    <3> QED BY <1>0, <3>1, <3>2, Zenon DEF TypeOK
  <2>3. ASSUME NEW d \in live'
        PROVE  Len(wire'[d]) + Len(inbox'[d]) >= Len(wire[d]) + Len(inbox[d])
    <3>1. d \in Conns /\ d # c
      BY <1>0, <2>1 DEF TypeOK
    <3>2. Len(wire[d]) \in Nat /\ Len(inbox[d]) \in Nat
      BY <1>0, <3>1, LenProperties DEF TypeOK
    <3> QED BY <1>0, <2>2, <3>1, <3>2 DEF TypeOK
  <2> QED BY <1>0, <2>1, <2>3, SameReaders DEF TypeOK
<1> QED BY <1>1, <1>2, <1>3, <1>4, <1>5, <1>6, <1>7, <1>8, <1>9, <1>10 DEF Next, Step

(* Among any number of tasks that share a connection nobody awaits a        *)
(* response in vain: the frame is there, or nsqd owes it.                   *)
THEOREM FrameForEachReaderHolds ==
    ASSUME IsFiniteSet(Tasks) PROVE Spec => []FrameForEachReader
<1>1. Init => FrameForEachReader
  BY DEF Init, FrameForEachReader
<1>2. Types /\ FrameForEachReader /\ [Next]_vars => FrameForEachReader'
  BY FramesKept
<1> QED BY <1>1, <1>2, TypesInvariant, PTL DEF Spec

-----------------------------------------------------------------------------
(* Acknowledgements *)

(* An OK that waits to be read is the place it has in its inbox; a copy of  *)
(* a message is a piece of copies, in the words of FoldTheorems.            *)
Due    == {p \in Conns \X Nat : /\ p[2] \in 1..Len(inbox[p[1]])
                               /\ inbox[p[1]][p[2]] = "OK"}
Acked  == {m \in Msgs : result[m] = "ok"}
Stored == Pieces(copies, Msgs)

(* Each message stored is answered by one OK, and a read takes the OK away: *)
(* what is acknowledged and what still can be are together covered.         *)
Ledger ==
    /\ IsFiniteSet(Due)
    /\ Cardinality(Acked) + Cardinality(Due) <= Cardinality(Stored)

(* A frame is appended. *)
LEMMA DueGrows ==
    ASSUME TypeOK, IsFiniteSet(Due), NEW c \in Conns, NEW frame \in Frames,
           inbox' = [inbox EXCEPT ![c] = Append(@, frame)]
    PROVE  /\ IsFiniteSet(Due')
           /\ Cardinality(Due') = Cardinality(Due) + (IF frame = "OK" THEN 1 ELSE 0)
<1> DEFINE new == <<c, Len(inbox[c]) + 1>>
<1>1. /\ inbox \in [Conns -> Seq(Frames)] /\ inbox[c] \in Seq(Frames)
      /\ Len(inbox[c]) \in Nat
  BY DEF TypeOK
<1>2. /\ Len(inbox'[c]) = Len(inbox[c]) + 1
      /\ inbox'[c][Len(inbox[c]) + 1] = frame
      /\ \A i \in 1..Len(inbox[c]) : inbox'[c][i] = inbox[c][i]
      /\ \A d \in Conns : d # c => inbox'[d] = inbox[d]
  BY <1>1
<1>3. new \notin Due /\ new \in Conns \X Nat
  BY <1>1 DEF Due
<1>4. Due' = IF frame = "OK" THEN Due \cup {new} ELSE Due
  <2>1. ASSUME NEW d \in Conns, NEW i \in Nat
        PROVE  <<d, i>> \in Due' <=> <<d, i>> \in Due \/ (frame = "OK" /\ <<d, i>> = new)
    <3>1. CASE d = c
      BY <1>1, <1>2, <3>1 DEF Due
    <3>2. CASE d # c
      BY <1>2, <3>2 DEF Due
    <3> QED BY <3>1, <3>2
  <2>2. Due' \subseteq Conns \X Nat /\ Due \subseteq Conns \X Nat
    BY DEF Due
  <2>3. new \in Conns \X Nat
    BY <1>3
  <2> HIDE DEF new
  <2>4. \A q \in Conns \X Nat : q \in Due' <=> q \in Due \/ (frame = "OK" /\ q = new)
    BY <2>1
  <2> QED BY <2>2, <2>3, <2>4
<1>5. /\ IsFiniteSet(Due \cup {new})
      /\ Cardinality(Due \cup {new}) = Cardinality(Due) + 1
  BY <1>3, FS_AddElement
<1>6. Cardinality(Due) \in Nat
  BY FS_CardinalityType
<1> HIDE DEF new
<1> QED BY <1>4, <1>5, <1>6

(* The first frame of an inbox is taken: the places of the others move. *)
LEMMA DueMoves ==
    ASSUME TypeOK, IsFiniteSet(Due), NEW c \in Conns, inbox[c] # <<>>,
           inbox' = [inbox EXCEPT ![c] = Tail(@)]
    PROVE  /\ IsFiniteSet(Due')
           /\ Cardinality(Due') =
                 Cardinality(Due) - (IF Head(inbox[c]) = "OK" THEN 1 ELSE 0)
<1> DEFINE old  == <<c, 1>>
           rest == Due \ {old}
           back == [p \in Due' |-> IF p[1] = c THEN <<c, p[2] + 1>> ELSE p]
<1>1. /\ inbox \in [Conns -> Seq(Frames)] /\ inbox[c] \in Seq(Frames)
      /\ Len(inbox[c]) \in Nat /\ Len(inbox[c]) >= 1
  BY DEF TypeOK
<1>2. /\ Len(inbox'[c]) = Len(inbox[c]) - 1
      /\ \A i \in 1..(Len(inbox[c]) - 1) : inbox'[c][i] = inbox[c][i + 1]
      /\ \A d \in Conns : d # c => inbox'[d] = inbox[d]
  BY <1>1
<1>3. old \in Due <=> Head(inbox[c]) = "OK"
  BY <1>1 DEF Due
<1>4. ASSUME NEW d \in Conns, NEW i \in Nat
      PROVE  <<d, i>> \in Due' <=> IF d = c THEN <<c, i + 1>> \in Due /\ i >= 1
                                            ELSE <<d, i>> \in Due
  <2>1. CASE d = c
    BY <1>1, <1>2, <2>1 DEF Due
  <2>2. CASE d # c
    BY <1>2, <2>2 DEF Due
  <2> QED BY <2>1, <2>2
<1>5. Due' \subseteq Conns \X Nat /\ Due \subseteq Conns \X Nat
  BY DEF Due
<1>6. ExistsBijection(Due', rest)
  <2>1. back \in [Due' -> rest]
    BY <1>4, <1>5
  <2>2. ASSUME NEW p \in Due', NEW q \in Due', back[p] = back[q] PROVE p = q
    BY <1>5, <2>2
  <2>3. ASSUME NEW p \in rest PROVE \E q \in Due' : back[q] = p
    <3>1. PICK d \in Conns, i \in Nat : p = <<d, i>>
      BY <1>5
    <3>2. CASE d # c
      BY <1>4, <3>1, <3>2
    <3>3. CASE d = c
      <4>1. i \in 1..Len(inbox[c]) /\ i # 1
        BY <3>1, <3>3 DEF Due
      <4>2. <<c, i - 1>> \in Due'
        BY <1>1, <1>4, <3>1, <3>3, <4>1
      <4>3. back[<<c, i - 1>>] = <<c, (i - 1) + 1>>
        BY <4>2
      <4>4. <<c, (i - 1) + 1>> = p
        BY <3>1, <3>3, <4>1
      <4> QED BY <4>2, <4>3, <4>4
    <3> QED BY <3>2, <3>3
  <2> HIDE DEF back, rest
  <2>4. back \in Injection(Due', rest)
    BY <2>1, <2>2 DEF Injection, IsInjective
  <2>5. back \in Surjection(Due', rest)
    BY <2>1, <2>3 DEF Surjection
  <2> QED BY <2>4, <2>5 DEF ExistsBijection, Bijection
<1>7. /\ IsFiniteSet(rest)
      /\ Cardinality(rest) = IF old \in Due THEN Cardinality(Due) - 1 ELSE Cardinality(Due)
  BY FS_RemoveElement
<1>8. IsFiniteSet(Due') /\ Cardinality(Due') = Cardinality(rest)
  <2>1. ExistsBijection(rest, Due')
    BY <1>6, Fun_ExistsBijSymmetric
  <2> HIDE DEF rest
  <2> QED BY <1>7, <2>1, FS_Bijection
<1>9. Cardinality(Due) \in Nat
  BY FS_CardinalityType
<1> HIDE DEF old, rest
<1> QED BY <1>3, <1>7, <1>8, <1>9

(* An inbox is emptied. *)
LEMMA DueCut ==
    ASSUME TypeOK, IsFiniteSet(Due), NEW c \in Conns,
           inbox' = [inbox EXCEPT ![c] = <<>>] \/ UNCHANGED inbox
    PROVE  IsFiniteSet(Due') /\ Cardinality(Due') <= Cardinality(Due)
<1>1. \A d \in Conns : inbox'[d] = inbox[d] \/ inbox'[d] = <<>>
  BY DEF TypeOK
<1>2. Due' \in SUBSET Due
  BY <1>1 DEF Due
<1> QED BY <1>2, FS_Subset

(* A message gets a result. *)
LEMMA AckedGrows ==
    ASSUME IsFiniteSet(Msgs), NEW m, NEW outcome,
           result' = [result EXCEPT ![m] = outcome] \/ UNCHANGED result,
           TypeOK
    PROVE  /\ Cardinality(Acked) \in Nat /\ Cardinality(Acked') \in Nat
           /\ Cardinality(Acked') <= Cardinality(Acked) + (IF outcome = "ok" THEN 1 ELSE 0)
<1> DEFINE more == Acked \cup {m}
<1>1. IsFiniteSet(Acked) /\ IsFiniteSet(Acked')
  BY FS_Subset DEF Acked
<1>2. Cardinality(Acked) \in Nat /\ Cardinality(Acked') \in Nat
  BY <1>1, FS_CardinalityType
<1>3. Acked' \in SUBSET (IF outcome = "ok" THEN more ELSE Acked)
  BY DEF Acked, TypeOK
<1>4. /\ IsFiniteSet(more)
      /\ Cardinality(more) = IF m \in Acked THEN Cardinality(Acked) ELSE Cardinality(Acked) + 1
  BY <1>1, FS_AddElement
<1> HIDE DEF more
<1>5. CASE outcome = "ok"
  <2>1. Cardinality(Acked') <= Cardinality(more)
    BY <1>3, <1>4, <1>5, FS_Subset
  <2> QED BY <1>2, <1>4, <1>5, <2>1
<1>6. CASE outcome # "ok"
  <2>1. Cardinality(Acked') <= Cardinality(Acked)
    BY <1>1, <1>3, <1>6, FS_Subset
  <2> QED BY <1>2, <1>6, <2>1
<1> QED BY <1>5, <1>6

(* nsqd stores a message once more. *)
LEMMA StoredGrows ==
    ASSUME IsFiniteSet(Msgs), TypeOK, NEW m \in Msgs,
           copies' = [copies EXCEPT ![m] = @ + 1]
    PROVE  Cardinality(Stored') = Cardinality(Stored) + 1 /\ Cardinality(Stored) \in Nat
<1> DEFINE new == <<m, copies[m] + 1>>
<1>1. IsFiniteSet(Stored)
  BY PiecesCount DEF TypeOK, Stored
<1>2. new \notin Stored
  BY DEF Stored, Pieces, TypeOK
<1>3. Stored' = Stored \cup {new}
  BY DEF Stored, Pieces, TypeOK
<1> HIDE DEF new
<1> QED BY <1>1, <1>2, <1>3, FS_AddElement, FS_CardinalityType

(* Nothing is acknowledged and no frame is sent. *)
LEMMA QuietStep ==
    ASSUME IsFiniteSet(Msgs), TypeOK, Ledger, UNCHANGED copies,
           NEW m, NEW outcome \in {"beat", "error", "empty"},
           result' = [result EXCEPT ![m] = outcome] \/ UNCHANGED result,
           \/ \E c \in Conns : inbox' = [inbox EXCEPT ![c] = <<>>]
           \/ UNCHANGED inbox
    PROVE  Ledger'
<1>1. IsFiniteSet(Due') /\ Cardinality(Due') <= Cardinality(Due)
  <2>1. CASE UNCHANGED inbox
    BY <2>1, FS_CardinalityType DEF Ledger, Due
  <2> QED BY <2>1, DueCut DEF Ledger
<1>2. /\ Cardinality(Acked) \in Nat /\ Cardinality(Acked') \in Nat
      /\ Cardinality(Acked') <= Cardinality(Acked)
  <2>1. /\ Cardinality(Acked) \in Nat /\ Cardinality(Acked') \in Nat
        /\ Cardinality(Acked') <= Cardinality(Acked) + (IF outcome = "ok" THEN 1 ELSE 0)
    BY AckedGrows, Zenon
  <2> QED BY <2>1
<1>3. Stored' = Stored /\ Cardinality(Stored) \in Nat
  BY PiecesCount, FS_CardinalityType DEF Stored, TypeOK
<1>4. Cardinality(Due) \in Nat /\ Cardinality(Due') \in Nat
  BY <1>1, FS_CardinalityType DEF Ledger
<1> QED BY <1>1, <1>2, <1>3, <1>4 DEF Ledger

(* A frame that is not an OK is sent. *)
LEMMA OtherFrame ==
    ASSUME IsFiniteSet(Msgs), TypeOK, Ledger, UNCHANGED <<copies, result>>,
           NEW c \in Conns, NEW frame \in Frames \ {"OK"},
           inbox' = [inbox EXCEPT ![c] = Append(@, frame)]
    PROVE  Ledger'
<1>1. IsFiniteSet(Due') /\ Cardinality(Due') = Cardinality(Due) + 0
  BY DueGrows DEF Ledger
<1>2. Cardinality(Due) \in Nat
  BY FS_CardinalityType DEF Ledger
<1>3. Acked' = Acked /\ Stored' = Stored
  BY DEF Acked, Stored
<1> QED BY <1>1, <1>2, <1>3 DEF Ledger

(* Every step keeps the ledger. *)
LEMMA LedgerKept ==
    ASSUME IsFiniteSet(Msgs), Types, Ledger, [Next]_vars
    PROVE  Ledger'
<1> USE DEF mapVars, nsqdVars, taskVars
<1>0. TypeOK /\ None \notin Msgs
  BY ProducerAssumption DEF Types
<1>1. CASE UNCHANGED <<copies, result, inbox>>
  BY <1>0, <1>1, QuietStep
<1>2. ASSUME NEW t \in Tasks, GetConnection(t) \/ Dialed(t) \/ Write(t) \/ ReadFails(t)
      PROVE  Ledger'
  <2>1. UNCHANGED copies
    BY <1>2 DEF GetConnection, Dialed, Write, ReadFails
  <2>2. \/ \E c \in Conns : inbox' = [inbox EXCEPT ![c] = <<>>]
        \/ UNCHANGED inbox
    BY <1>2 DEF GetConnection, Dialed, Write, ReadFails
  <2>3. UNCHANGED result \/ result' = [result EXCEPT ![msg[t]] = "error"]
    BY <1>0, <1>2 DEF GetConnection, Dialed, Write, ReadFails, Got, Retry, Return
  <2> QED BY <1>0, <2>1, <2>2, <2>3, QuietStep
<1>3. ASSUME NEW t \in Tasks, ReadFrame(t) PROVE Ledger'
  <2> DEFINE c == using[t]
             outcome == IF Head(inbox[c]) = "OK" THEN "ok"
                        ELSE IF Head(inbox[c]) = "heartbeat" THEN "beat" ELSE "error"
  <2>1. /\ c \in Conns /\ inbox[c] # <<>>
        /\ inbox' = [inbox EXCEPT ![c] = Tail(@)]
        /\ UNCHANGED copies
    BY <1>3 DEF ReadFrame, Types, Equipped
  <2>2. UNCHANGED result \/ result' = [result EXCEPT ![msg[t]] = outcome]
    BY <1>3 DEF ReadFrame, Retry, Return
  <2>3. /\ IsFiniteSet(Due')
        /\ Cardinality(Due') =
              Cardinality(Due) - (IF Head(inbox[c]) = "OK" THEN 1 ELSE 0)
    BY <1>0, <2>1, DueMoves DEF Ledger
  <2>4. Stored' = Stored /\ Cardinality(Stored) \in Nat
    BY <1>0, <2>1, PiecesCount, FS_CardinalityType DEF Stored, TypeOK
  <2>5. Cardinality(Due) \in Nat /\ Cardinality(Due') \in Nat
    BY <2>3, FS_CardinalityType DEF Ledger
  <2>6. outcome = "ok" <=> Head(inbox[c]) = "OK"
    OBVIOUS
  <2> HIDE DEF c, outcome
  <2>7. /\ Cardinality(Acked) \in Nat /\ Cardinality(Acked') \in Nat
        /\ Cardinality(Acked') <= Cardinality(Acked) + (IF outcome = "ok" THEN 1 ELSE 0)
    BY <1>0, <2>2, AckedGrows
  <2> QED BY <2>3, <2>4, <2>5, <2>6, <2>7 DEF Ledger
<1>4. ASSUME NEW c \in Conns, NsqdHandles(c) PROVE Ledger'
  <2>1. CASE /\ copies' = [copies EXCEPT ![Head(wire[c])] = @ + 1]
             /\ inbox' = [inbox EXCEPT ![c] = Append(@, "OK")]
    <3>1. Head(wire[c]) \in Msgs
      BY <1>0, <1>4, HeadTailProperties DEF NsqdHandles, TypeOK
    <3>2. IsFiniteSet(Due') /\ Cardinality(Due') = Cardinality(Due) + 1
      BY <1>0, <2>1, DueGrows DEF Ledger, Frames
    <3>3. Cardinality(Stored') = Cardinality(Stored) + 1 /\ Cardinality(Stored) \in Nat
      BY <1>0, <2>1, <3>1, StoredGrows
    <3>4. Cardinality(Due) \in Nat
      BY FS_CardinalityType DEF Ledger
    <3>5. Acked' = Acked /\ Cardinality(Acked) \in Nat
      <4>1. IsFiniteSet(Acked)
        BY FS_Subset DEF Acked
      <4> QED BY <1>4, <4>1, FS_CardinalityType DEF Acked, NsqdHandles
    <3> QED BY <3>2, <3>3, <3>4, <3>5 DEF Ledger
  <2>2. CASE inbox' = [inbox EXCEPT ![c] = Append(@, "ERROR")] /\ UNCHANGED copies
    BY <1>0, <1>4, <2>2, OtherFrame DEF NsqdHandles, Frames
  <2> QED BY <1>4, <2>1, <2>2 DEF NsqdHandles
<1>5. ASSUME NEW c \in Conns, NsqdHeartbeat(c) PROVE Ledger'
  BY <1>0, <1>5, OtherFrame DEF NsqdHeartbeat, Frames
<1>6. ASSUME NEW c \in Conns, ConnectionLost(c) PROVE Ledger'
  BY <1>0, <1>6, QuietStep DEF ConnectionLost
<1>7. ASSUME NEW t \in Tasks, NEW m \in Msgs, Publish(t, m) \/ PublishMulti(t, m)
      PROVE  Ledger'
  <2>1. CASE UNCHANGED <<copies, result, inbox>>
    BY <1>1, <2>1
  <2>2. CASE UNCHANGED <<copies, inbox>> /\ result' = [result EXCEPT ![m] = "empty"]
    BY <1>0, <2>2, QuietStep
  <2> QED BY <1>7, <2>1, <2>2 DEF Publish, PublishMulti, Begin
<1>8. (\E t \in Tasks : Ping(t)) \/ UNCHANGED vars => UNCHANGED <<copies, result, inbox>>
  BY DEF Ping, vars
<1> QED BY <1>1, <1>2, <1>3, <1>4, <1>5, <1>6, <1>7, <1>8 DEF Next, Step

(* Of any finite number of messages, published through whatever retries,    *)
(* late answers and lost connections, no more are acknowledged by an OK     *)
(* than nsqd has stored copies: no OK counts for two.                       *)
THEOREM AcksCoveredHolds ==
    ASSUME IsFiniteSet(Msgs) PROVE Spec => []AcksCovered
<1>1. Init => Ledger
  <2> SUFFICES ASSUME Init PROVE Ledger
    OBVIOUS
  <2>1. Due = {} /\ Acked = {}
    BY DEF Init, Due, Acked
  <2>2. Stored = {}
    BY DEF Init, Stored, Pieces
  <2> QED BY <2>1, <2>2, FS_EmptySet DEF Ledger
<1>2. Types /\ Ledger /\ [Next]_vars => Ledger'
  BY LedgerKept
<1>3. Types /\ Ledger => AcksCovered
  <2> SUFFICES ASSUME Types, Ledger PROVE AcksCovered
    OBVIOUS
  <2>1. copies \in [Msgs -> Nat]
    BY DEF Types, TypeOK
  <2>2. MapThenSumSet(LAMBDA m : copies[m], Msgs) = Cardinality(Stored)
    BY <2>1, SumCounts, Zenon DEF Stored
  <2>3. /\ IsFiniteSet(Acked) /\ Cardinality(Acked) \in Nat
        /\ Cardinality(Due) \in Nat /\ Cardinality(Stored) \in Nat
    BY <2>1, PiecesCount, FS_Subset, FS_CardinalityType DEF Acked, Stored, Ledger
  <2>4. Cardinality(Acked) <= Cardinality(Stored)
    BY <2>3 DEF Ledger
  <2> QED BY <2>2, <2>4, Zenon DEF AcksCovered, Acked
<1> QED BY <1>1, <1>2, <1>3, TypesInvariant, PTL DEF Spec
=============================================================================
