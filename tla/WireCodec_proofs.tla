--------------------------- MODULE WireCodec_proofs ---------------------------
(***************************************************************************)
(* Theorems about the operators of WireCodec, for streams of any length:   *)
(* where a read cuts a stream, and that the decoders invert the encoders.  *)
(***************************************************************************)
EXTENDS WireCodec, FoldTheorems, SequenceTheorems, TLAPS

(* Names and texts.  The provers do not know that a literal is a string:    *)
(* those of OneShot are listed.                                             *)
Values == STRING \cup
    {"MAGIC", "IDENTIFY", "AUTH", "PUB", "MPUB", "SUB", "RDY", "DPUB", "CLS",
     "config", "secret", "later", "OK", "E_FAILED", "E_INVALID", "heartbeat"}

(* The units of a text, those that are no number and no command, and all.   *)
Chars  == {"chunk"} \X Values
Opaque == ({"chunk", "header"} \X Values) \cup ({"junk"} \X (Nat \ {0}))
Units  == Opaque \cup ({"num"} \X Nat) \cup ({"line"} \X Values)

(* A unit has a width, and what breaks off it is a unit.                    *)
LEMMA UnitsBreak ==
    /\ \A u \in Units : /\ Width(u) \in Nat \ {0}
                        /\ \A n \in 1..(Width(u) - 1) : Junk(n) \in Opaque
    /\ Opaque \subseteq Units /\ Chars \subseteq Opaque
    /\ \A n \in Nat \ {0} : Junk(n) \in Opaque /\ Width(Junk(n)) = n
<1>1. \A u \in Units : Width(u) \in Nat \ {0}
  BY DEF Units, Opaque, Width, LineSize
<1>2. \A n \in Nat \ {0} : Junk(n) \in Opaque /\ Width(Junk(n)) = n
  BY DEF Opaque, Junk, Width
<1>3. Opaque \subseteq Units /\ Chars \subseteq Opaque
  BY DEF Opaque, Units, Chars
<1>4. \A u \in Units : \A n \in 1..(Width(u) - 1) : Junk(n) \in Opaque
  BY <1>1, <1>2
<1> QED BY <1>1, <1>2, <1>3, <1>4

(* Streams one after the other.                                             *)
LEMMA Streams ==
    \A us, vs \in Seq(Units) : us \o vs \in Seq(Units)
OBVIOUS

(* The empty stream is neutral.                                             *)
LEMMA NoStream ==
    \A us \in Seq(Units) : us \o <<>> = us /\ <<>> \o us = us
BY ConcatEmptySeq

(* Streams are joined in any grouping.                                      *)
LEMMA Assoc ==
    ASSUME NEW us \in Seq(Units), NEW vs \in Seq(Units), NEW ws \in Seq(Units)
    PROVE  (us \o vs) \o ws = us \o (vs \o ws)
BY ConcatAssociative

(* Two units in front of a stream are one, and one.                         *)
LEMMA TwoUnits ==
    ASSUME NEW u \in Units, NEW v \in Units, NEW us \in Seq(Units)
    PROVE  <<u, v>> \o us = <<u>> \o (<<v>> \o us)
<1>1. <<u>> \in Seq(Units) /\ <<v>> \in Seq(Units)
  OBVIOUS
<1>2. <<u, v>> = <<u>> \o <<v>>
  <2>1. <<u, v>> = Append(<<u>>, v)
    OBVIOUS
  <2>2. Append(<<u>>, v) = <<u>> \o <<v>>
    BY <1>1, AppendIsConcat
  <2> QED BY <2>1, <2>2, Zenon
<1>3. (<<u>> \o <<v>>) \o us = <<u>> \o (<<v>> \o us)
  BY <1>1, Assoc
<1> QED BY <1>2, <1>3, Zenon

(* End is a running sum.                                                    *)
LEMMA EndIsSum ==
    ASSUME NEW us \in Seq(Units)
    PROVE  \E g \in [0..Len(us) -> Nat] :
              /\ g[0] = 0
              /\ \A i \in 1..Len(us) : g[i] = g[i - 1] + Width(us[i])
              /\ \A k \in 0..Len(us) : End(us, k) = g[k]
<1> DEFINE w == [i \in 1..Len(us) |-> Width(us[i])]
<1>1. Len(us) \in Nat /\ w \in [1..Len(us) -> Nat]
  BY UnitsBreak
<1>2. PICK g \in [0..Len(us) -> Nat] :
         g[0] = 0 /\ \A i \in 1..Len(us) : g[i] = g[i - 1] + w[i]
  <2> HIDE DEF w
  <2> QED BY <1>1, RunningSum
<1>3. \A i \in 1..Len(us) : g[i] = g[i - 1] + Width(us[i])
  BY <1>2
<1>4. ASSUME NEW k \in 0..Len(us) PROVE End(us, k) = g[k]
  <2> DEFINE rec(h) == [i \in 0..k |-> IF i = 0 THEN 0 ELSE h[i - 1] + Width(us[i])]
             end    == CHOOSE h : h = rec(h)
             part   == [i \in 0..k |-> g[i]]
  <2>1. End(us, k) = end[k]
    BY DEF End
  <2>2. part = rec(part)
    <3>1. ASSUME NEW i \in 0..k PROVE part[i] = IF i = 0 THEN 0 ELSE part[i - 1] + Width(us[i])
      BY <1>2, <1>3
    <3> QED BY <3>1
  <2>3. end = rec(end)
    <3> HIDE DEF part
    <3> QED BY <2>2
  <2>4. PICK h : /\ End(us, k) = h[k]
                 /\ \A i \in 0..k : h[i] = IF i = 0 THEN 0 ELSE h[i - 1] + Width(us[i])
    <3> HIDE DEF end
    <3>1. \A i \in 0..k : end[i] = IF i = 0 THEN 0 ELSE end[i - 1] + Width(us[i])
      BY <2>3
    <3> QED BY <2>1, <3>1
  <2>5. h[0] = g[0]
    BY <1>2, <2>4
  <2>6. ASSUME NEW i \in 1..k, h[i - 1] = g[i - 1] PROVE h[i] = g[i]
    <3>1. i \in 0..k /\ i # 0 /\ i \in 1..Len(us)
      OBVIOUS
    <3> QED BY <1>3, <2>4, <2>6, <3>1
  <2>7. h[k] = g[k]
    <3> DEFINE S == {i \in Nat : i <= k => h[i] = g[i]}
    <3>1. 0 \in S
      BY <2>5
    <3>2. \A i \in S : i + 1 \in S
      BY <2>6
    <3>3. S = Nat
      <4>1. S \in SUBSET Nat
        OBVIOUS
      <4> HIDE DEF S
      <4> QED BY <3>1, <3>2, <4>1, SetInduction
    <3> QED BY <3>3
  <2> QED BY <2>4, <2>7
<1> QED BY <1>2, <1>3, <1>4

(* Each unit ends its width after the one before it.                        *)
LEMMA EndStep ==
    ASSUME NEW us \in Seq(Units)
    PROVE  /\ End(us, 0) = 0
           /\ \A k \in 0..Len(us) : End(us, k) \in Nat
           /\ \A k \in 1..Len(us) : /\ Width(us[k]) \in Nat \ {0}
                                    /\ End(us, k) = End(us, k - 1) + Width(us[k])
           /\ Size(us) \in Nat
<1>1. PICK g \in [0..Len(us) -> Nat] :
              /\ g[0] = 0
              /\ \A i \in 1..Len(us) : g[i] = g[i - 1] + Width(us[i])
              /\ \A k \in 0..Len(us) : End(us, k) = g[k]
  BY EndIsSum
<1>2. \A k \in 1..Len(us) : Width(us[k]) \in Nat \ {0}
  BY UnitsBreak
<1>3. Len(us) \in Nat
  OBVIOUS
<1>4. \A k \in 1..Len(us) : k \in 0..Len(us) /\ k - 1 \in 0..Len(us)
  BY <1>3
<1>5. 0 \in 0..Len(us) /\ Len(us) \in 0..Len(us)
  BY <1>3
<1>6. \A k \in 0..Len(us) : End(us, k) \in Nat
  BY <1>1
<1>7. End(us, 0) = 0
  BY <1>1, <1>5, Zenon
<1>8. ASSUME NEW k \in 1..Len(us) PROVE End(us, k) = End(us, k - 1) + Width(us[k])
  <2>1. End(us, k) = g[k] /\ End(us, k - 1) = g[k - 1] /\ g[k] = g[k - 1] + Width(us[k])
    BY <1>1, <1>4, Zenon
  <2> QED BY <2>1, Zenon
<1>9. Size(us) \in Nat
  BY <1>5, <1>6, Zenon DEF Size
<1> QED BY <1>2, <1>6, <1>7, <1>8, <1>9, Zenon

(* Later units end later.                                                   *)
LEMMA EndGrows ==
    ASSUME NEW us \in Seq(Units), NEW j \in 0..Len(us), NEW k \in 0..Len(us), j < k
    PROVE  End(us, j) < End(us, k)
<1> DEFINE S == {i \in Nat : j + 1 + i <= Len(us) => End(us, j) < End(us, j + 1 + i)}
<1>1. Len(us) \in Nat /\ j \in Nat /\ k \in Nat
  OBVIOUS
<1>2. 0 \in S
  <2>1. j + 1 + 0 = j + 1
    BY <1>1
  <2>2. CASE j + 1 <= Len(us)
    <3>1. j + 1 \in 1..Len(us) /\ (j + 1) - 1 = j
      BY <1>1, <2>2
    <3> QED BY <2>1, <3>1, EndStep
  <2> QED BY <2>1, <2>2
<1>3. ASSUME NEW i \in S PROVE i + 1 \in S
  <2>1. CASE j + 1 + (i + 1) <= Len(us)
    <3>1. /\ j + 1 + (i + 1) \in 1..Len(us) /\ (j + 1 + (i + 1)) - 1 = j + 1 + i
          /\ j + 1 + i \in 0..Len(us)
      BY <1>1, <1>3, <2>1
    <3>2. End(us, j) < End(us, j + 1 + i)
      BY <1>3, <3>1
    <3> QED BY <3>1, <3>2, EndStep
  <2> QED BY <2>1
<1>4. S = Nat
  <2>1. S \in SUBSET Nat
    OBVIOUS
  <2> HIDE DEF S
  <2> QED BY <1>2, <1>3, <2>1, SetInduction
<1>5. k - (j + 1) \in S
  <2>1. k - (j + 1) \in Nat
    BY <1>1
  <2> HIDE DEF S
  <2> QED BY <1>4, <2>1
<1>6. j + 1 + (k - (j + 1)) = k
  BY <1>1
<1> QED BY <1>5, <1>6

(* Where the first n bytes end.                                             *)
LEMMA WholeIs ==
    ASSUME NEW us \in Seq(Units), NEW n \in Nat,
           NEW k \in 0..Len(us), End(us, k) <= n, k < Len(us) => n < End(us, k + 1)
    PROVE  Whole(us, n) = k
<1>0. Len(us) \in Nat /\ \A i \in 0..Len(us) : End(us, i) \in Nat
  BY EndStep
<1>1. {i \in 1..Len(us) : End(us, i) <= n} = 1..k
  <2>1. ASSUME NEW i \in 1..Len(us), i <= k PROVE End(us, i) <= n
    <3>1. CASE i < k
      <4>1. End(us, i) < End(us, k)
        BY <3>1, EndGrows
      <4> QED BY <1>0, <4>1
    <3> QED BY <2>1, <3>1
  <2>2. ASSUME NEW i \in 1..Len(us), i > k PROVE ~(End(us, i) <= n)
    <3>1. CASE i = k + 1
      BY <1>0, <3>1
    <3>2. CASE i > k + 1
      <4>1. k + 1 \in 0..Len(us) /\ i \in 0..Len(us)
        BY <3>2
      <4>2. End(us, k + 1) < End(us, i)
        BY <3>2, <4>1, EndGrows
      <4> QED BY <1>0, <3>2, <4>1, <4>2
    <3> QED BY <2>2, <3>1, <3>2
  <2> QED BY <2>1, <2>2
<1>2. Cardinality(1..k) = k
  <2>1. Cardinality(1..k) = IF 1 > k THEN 0 ELSE k - 1 + 1
    BY FS_Interval
  <2> QED BY <2>1
<1> QED BY <1>1, <1>2 DEF Whole

(* The ends of the units of a stream that is followed by another.           *)
LEMMA EndPrefix ==
    ASSUME NEW us \in Seq(Units), NEW vs \in Seq(Units)
    PROVE  \A k \in 0..Len(us) : End(us \o vs, k) = End(us, k)
<1> DEFINE S == {k \in Nat : k <= Len(us) => End(us \o vs, k) = End(us, k)}
<1>1. /\ us \o vs \in Seq(Units) /\ Len(us) \in Nat
      /\ Len(us \o vs) \in Nat /\ Len(us) <= Len(us \o vs)
  OBVIOUS
<1>2. 0 \in S
  BY <1>1, EndStep
<1>3. ASSUME NEW k \in S PROVE k + 1 \in S
  <2>1. CASE k + 1 <= Len(us)
    <3>1. /\ k + 1 \in 1..Len(us) /\ k + 1 \in 1..Len(us \o vs) /\ (k + 1) - 1 = k
          /\ (us \o vs)[k + 1] = us[k + 1]
      BY <1>1, <2>1
    <3>2. End(us \o vs, k + 1) = End(us \o vs, k) + Width(us[k + 1])
      BY <1>1, <3>1, EndStep
    <3>3. End(us, k + 1) = End(us, k) + Width(us[k + 1])
      BY <3>1, EndStep
    <3>4. End(us \o vs, k) = End(us, k)
      BY <1>3, <2>1
    <3> QED BY <3>2, <3>3, <3>4
  <2> QED BY <2>1
<1>4. S = Nat
  <2>1. S \in SUBSET Nat
    OBVIOUS
  <2> HIDE DEF S
  <2> QED BY <1>2, <1>3, <2>1, SetInduction
<1> QED BY <1>4

(* The ends of the units that follow a stream.                              *)
LEMMA EndSuffix ==
    ASSUME NEW us \in Seq(Units), NEW vs \in Seq(Units)
    PROVE  \A k \in 0..Len(vs) : End(us \o vs, Len(us) + k) = Size(us) + End(vs, k)
<1> DEFINE S == {k \in Nat : k <= Len(vs) => End(us \o vs, Len(us) + k) = Size(us) + End(vs, k)}
<1>1. /\ us \o vs \in Seq(Units) /\ Len(us) \in Nat /\ Len(vs) \in Nat
      /\ Len(us \o vs) = Len(us) + Len(vs)
  OBVIOUS
<1>2. 0 \in S
  <2>1. Len(us) + 0 = Len(us) /\ Len(us) \in 0..Len(us)
    BY <1>1
  <2>2. End(us \o vs, Len(us)) = Size(us) /\ Size(us) \in Nat
    BY <2>1, EndPrefix, EndStep DEF Size
  <2>3. End(vs, 0) = 0
    BY EndStep
  <2> QED BY <2>1, <2>2, <2>3
<1>3. ASSUME NEW k \in S PROVE k + 1 \in S
  <2>1. CASE k + 1 <= Len(vs)
    <3>1. /\ k + 1 \in 1..Len(vs) /\ (k + 1) - 1 = k
          /\ Len(us) + (k + 1) \in 1..Len(us \o vs)
          /\ (Len(us) + (k + 1)) - 1 = Len(us) + k
      BY <1>1, <2>1
    <3>2. (us \o vs)[Len(us) + (k + 1)] = vs[k + 1]
      BY <1>1, <3>1
    <3>3. End(us \o vs, Len(us) + (k + 1)) = End(us \o vs, Len(us) + k) + Width(vs[k + 1])
      BY <1>1, <3>1, <3>2, EndStep
    <3>4. End(vs, k + 1) = End(vs, k) + Width(vs[k + 1])
      BY <3>1, EndStep
    <3>5. End(us \o vs, Len(us) + k) = Size(us) + End(vs, k)
      BY <1>3, <2>1
    <3>6. Size(us) \in Nat /\ End(vs, k) \in Nat /\ Width(vs[k + 1]) \in Nat
      BY <2>1, <3>1, EndStep
    <3> QED BY <3>3, <3>4, <3>5, <3>6
  <2> QED BY <2>1
<1>4. S = Nat
  <2>1. S \in SUBSET Nat
    OBVIOUS
  <2> HIDE DEF S
  <2> QED BY <1>2, <1>3, <2>1, SetInduction
<1> QED BY <1>4

(* Sizes add up.                                                            *)
LEMMA SizeConcat ==
    ASSUME NEW us \in Seq(Units), NEW vs \in Seq(Units)
    PROVE  /\ us \o vs \in Seq(Units)
           /\ Size(us \o vs) = Size(us) + Size(vs)
           /\ Size(us) \in Nat /\ Size(vs) \in Nat
<1>1. Len(us \o vs) = Len(us) + Len(vs) /\ Len(vs) \in 0..Len(vs)
  OBVIOUS
<1>2. End(us \o vs, Len(us) + Len(vs)) = Size(us) + End(vs, Len(vs))
  BY <1>1, EndSuffix
<1> QED BY <1>1, <1>2, EndStep DEF Size

(* The sizes of no unit and of one; every unit has a byte at least.         *)
LEMMA SizeSmall ==
    /\ <<>> \in Seq(Units) /\ Size(<<>>) = 0
    /\ \A u \in Units : <<u>> \in Seq(Units) /\ Size(<<u>>) = Width(u) /\ Width(u) \in Nat \ {0}
    /\ \A us \in Seq(Units) : Size(us) = 0 => us = <<>>
<1>1. <<>> \in Seq(Units) /\ Len(<<>>) = 0
  OBVIOUS
<1>2. Size(<<>>) = 0
  BY <1>1, EndStep DEF Size
<1>3. ASSUME NEW u \in Units
      PROVE  <<u>> \in Seq(Units) /\ Size(<<u>>) = Width(u) /\ Width(u) \in Nat \ {0}
  <2>1. <<u>> \in Seq(Units) /\ Len(<<u>>) = 1 /\ 1 \in 1..1 /\ <<u>>[1] = u /\ 1 - 1 = 0
    OBVIOUS
  <2>2. End(<<u>>, 0) = 0 /\ End(<<u>>, 1) = End(<<u>>, 0) + Width(u) /\ Width(u) \in Nat \ {0}
    BY <2>1, EndStep
  <2> QED BY <2>1, <2>2 DEF Size
<1>4. ASSUME NEW us \in Seq(Units), Size(us) = 0, us # <<>> PROVE FALSE
  <2>1. Len(us) \in Nat \ {0}
    BY <1>4, EmptySeq
  <2>2. 0 \in 0..Len(us) /\ Len(us) \in 0..Len(us) /\ 0 < Len(us)
    BY <2>1
  <2> QED BY <1>4, <2>2, EndGrows, EndStep DEF Size
<1> QED BY <1>1, <1>2, <1>3, <1>4

(* A read that ends between two units.                                      *)
LEMMA CutBetween ==
    ASSUME NEW us \in Seq(Units), NEW vs \in Seq(Units)
    PROVE  Take(us \o vs, Size(us)) = us /\ Drop(us \o vs, Size(us)) = vs
<1> DEFINE ws == us \o vs
           k  == Len(us)
<1>1. /\ ws \in Seq(Units) /\ k \in Nat /\ Len(ws) \in Nat
      /\ Len(ws) = k + Len(vs) /\ Len(vs) \in Nat /\ k \in 0..Len(ws)
  OBVIOUS
<1>2. Size(us) \in Nat /\ End(ws, k) = Size(us)
  <2>1. k \in 0..Len(us)
    BY <1>1
  <2> QED BY <2>1, EndPrefix, EndStep DEF Size
<1>3. k < Len(ws) => Size(us) < End(ws, k + 1)
  <2>1. CASE k < Len(ws)
    <3>1. k + 1 \in 1..Len(ws) /\ (k + 1) - 1 = k
      BY <1>1, <2>1
    <3>2. End(ws, k + 1) = End(ws, k) + Width(ws[k + 1]) /\ Width(ws[k + 1]) \in Nat \ {0}
      <4> HIDE DEF ws, k
      <4> QED BY <1>1, <3>1, EndStep
    <3> QED BY <1>2, <3>2
  <2> QED BY <2>1
<1>4. Whole(ws, Size(us)) = k
  <2> HIDE DEF ws, k
  <2>1. End(ws, k) <= Size(us)
    BY <1>2
  <2> QED BY <1>1, <1>2, <1>3, <2>1, WholeIs
<1>5. Take(ws, Size(us)) = SubSeq(ws, 1, k) \o <<>> /\ Drop(ws, Size(us)) = SubSeq(ws, k + 1, Len(ws))
  <2> DEFINE n == Size(us)
  <2>1. n - End(ws, k) = 0 /\ ~(0 > 0)
    BY <1>2
  <2> HIDE DEF ws, k, n
  <2>2. Whole(ws, n) = k
    BY <1>4 DEF n
  <2>3. Take(ws, n) = SubSeq(ws, 1, k) \o <<>> /\ Drop(ws, n) = SubSeq(ws, k + 1, Len(ws))
    BY <2>1, <2>2 DEF Take, Drop
  <2> QED BY <2>3 DEF n
<1>6. SubSeq(ws, 1, k) = us
  BY SubSeqOfConcat1, SubSeqFull, <1>1
<1>7. SubSeq(ws, k + 1, Len(ws)) = vs
  <2>1. SubSeq(ws, k + 1, Len(ws)) \in Seq(Units) /\ Len(SubSeq(ws, k + 1, Len(ws))) = Len(vs)
    BY <1>1
  <2>2. \A i \in 1..Len(vs) : SubSeq(ws, k + 1, Len(ws))[i] = vs[i]
    BY <1>1
  <2> QED BY <2>1, <2>2, SeqEqual
<1> QED BY <1>5, <1>6, <1>7, ConcatEmptySeq

(* A read that ends inside a unit: the unit breaks into junk.               *)
LEMMA CutInside ==
    ASSUME NEW us \in Seq(Units), NEW u \in Units, NEW vs \in Seq(Units),
           NEW r \in 1..(Width(u) - 1)
    PROVE  /\ Take(us \o (<<u>> \o vs), Size(us) + r) = us \o <<Junk(r)>>
           /\ Drop(us \o (<<u>> \o vs), Size(us) + r) = <<Junk(Width(u) - r)>> \o vs
<1> DEFINE ws == us \o (<<u>> \o vs)
           k  == Len(us)
           n  == Size(us) + r
<1>1. /\ ws \in Seq(Units) /\ k \in Nat /\ Len(ws) \in Nat
      /\ Len(ws) = k + 1 + Len(vs) /\ Len(vs) \in Nat /\ k \in 0..Len(ws)
      /\ k + 1 \in 1..Len(ws) /\ ws[k + 1] = u /\ (k + 1) - 1 = k
  OBVIOUS
<1>2. Size(us) \in Nat /\ End(ws, k) = Size(us) /\ r \in Nat \ {0} /\ r < Width(u)
  <2>1. k \in 0..Len(us) /\ <<u>> \o vs \in Seq(Units)
    BY <1>1
  <2>2. Width(u) \in Nat \ {0}
    BY UnitsBreak
  <2>3. End(ws, k) = End(us, k)
    BY <2>1, EndPrefix
  <2>4. Size(us) = End(us, k) /\ Size(us) \in Nat
    BY EndStep DEF Size
  <2>5. r \in Nat \ {0} /\ r < Width(u)
    BY <2>2
  <2> QED BY <2>3, <2>4, <2>5
<1>3. End(ws, k + 1) = Size(us) + Width(u) /\ Width(u) \in Nat
  <2> HIDE DEF ws, k
  <2> QED BY <1>1, <1>2, EndStep
<1>4. Whole(ws, n) = k
  <2> HIDE DEF ws, k
  <2>1. End(ws, k) <= n /\ n < End(ws, k + 1) /\ n \in Nat
    BY <1>2, <1>3
  <2> HIDE DEF n
  <2> QED BY <1>1, <2>1, WholeIs
<1>5. /\ Take(ws, n) = SubSeq(ws, 1, k) \o <<Junk(r)>>
      /\ Drop(ws, n) = <<Junk(Width(u) - r)>> \o SubSeq(ws, k + 2, Len(ws))
  <2> HIDE DEF ws, k
  <2>1. n - End(ws, k) = r /\ r > 0
    BY <1>2
  <2> HIDE DEF n
  <2> QED BY <1>1, <1>4, <2>1 DEF Take, Drop
<1>6. SubSeq(ws, 1, k) = us
  BY SubSeqOfConcat1, SubSeqFull, <1>1
<1>7. SubSeq(ws, k + 2, Len(ws)) = vs
  <2>1. SubSeq(ws, k + 2, Len(ws)) \in Seq(Units) /\ Len(SubSeq(ws, k + 2, Len(ws))) = Len(vs)
    BY <1>1
  <2>2. \A i \in 1..Len(vs) : SubSeq(ws, k + 2, Len(ws))[i] = vs[i]
    BY <1>1
  <2> QED BY <2>1, <2>2, SeqEqual
<1> QED BY <1>5, <1>6, <1>7

(* Every read ends between two units or inside one.                         *)
LEMMA EveryCut ==
    ASSUME NEW ws \in Seq(Units), NEW n \in 0..Size(ws)
    PROVE  \/ \E us, vs \in Seq(Units) : ws = us \o vs /\ n = Size(us)
           \/ \E us, vs \in Seq(Units), u \in Units : \E r \in 1..(Width(u) - 1) :
                 ws = us \o (<<u>> \o vs) /\ n = Size(us) + r
<1> DEFINE later == {k \in 0..Len(ws) : n <= End(ws, k)}
<1>1. Len(ws) \in Nat /\ Len(ws) \in 0..Len(ws) /\ Size(ws) \in Nat /\ n \in Nat
  BY EndStep
<1>2. later \in SUBSET Nat /\ later # {}
  BY <1>1 DEF Size
<1>3. PICK k \in later : \A j \in later : k <= j
  <2> HIDE DEF later
  <2> QED BY <1>2, LeastNumber
<1>4. k \in 0..Len(ws) /\ n <= End(ws, k) /\ End(ws, k) \in Nat
  BY <1>3, EndStep
<1> DEFINE us == SubSeq(ws, 1, k)
           vs == SubSeq(ws, k + 1, Len(ws))
<1>5. us \in Seq(Units) /\ vs \in Seq(Units) /\ Len(us) = k
  BY <1>1, <1>4
<1>6. ws = us \o vs
  <2>1. 1 \in 1..(Len(ws) + 1) /\ k \in (1 - 1)..Len(ws) /\ Len(ws) \in k..Len(ws)
    BY <1>1, <1>4
  <2>2. us \o vs = SubSeq(ws, 1, Len(ws))
    BY <2>1, ConcatAdjacentSubSeq
  <2> QED BY <2>2, SubSeqFull
<1>7. Size(us) = End(ws, k)
  <2> HIDE DEF us, vs
  <2>1. k \in 0..Len(us)
    BY <1>4, <1>5
  <2> QED BY <1>5, <1>6, <2>1, EndPrefix DEF Size
<1>8. CASE n = End(ws, k)
  <2> HIDE DEF us, vs
  <2> QED BY <1>5, <1>6, <1>7, <1>8
<1>9. CASE n # End(ws, k)
  <2>1. k \in 1..Len(ws) /\ k - 1 \in 0..Len(ws)
    BY <1>1, <1>4, <1>9, EndStep
  <2>2. End(ws, k - 1) < n
    <3>1. k - 1 \notin later
      <4>1. ~(k <= k - 1)
        BY <2>1
      <4> HIDE DEF later
      <4> QED BY <1>3, <4>1
    <3> QED BY <1>1, <2>1, <3>1, EndStep, SMTT(60)
  <2> DEFINE u  == ws[k]
             bs == SubSeq(ws, 1, k - 1)
             r  == n - End(ws, k - 1)
  <2>3. u \in Units /\ bs \in Seq(Units) /\ Len(bs) = k - 1 /\ <<u>> \in Seq(Units)
    BY <1>1, <2>1
  <2>4. us = bs \o <<u>>
    <3>1. 1 \in 1..Len(ws) /\ k \in 1..Len(ws)
      BY <1>1, <2>1
    <3> QED BY <2>3, <3>1, SubSeqRecursiveSecond
  <2>5. End(ws, k) = End(ws, k - 1) + Width(u) /\ Width(u) \in Nat /\ End(ws, k - 1) \in Nat
    BY <2>1, EndStep
  <2>6. r \in 1..(Width(u) - 1) /\ n = End(ws, k - 1) + r
    BY <1>1, <1>4, <1>9, <2>2, <2>5
  <2> HIDE DEF us, vs, bs, u, r
  <2>7. ws = bs \o (<<u>> \o vs)
    <3>1. (bs \o <<u>>) \o vs = bs \o (<<u>> \o vs)
      BY <1>5, <2>3, Assoc
    <3> QED BY <1>6, <2>4, <3>1
  <2>8. Size(bs) = End(ws, k - 1)
    <3>1. k - 1 \in 0..Len(bs) /\ <<u>> \o vs \in Seq(Units)
      BY <1>5, <2>1, <2>3
    <3>2. End(ws, k - 1) = End(bs, k - 1)
      BY <2>3, <2>7, <3>1, EndPrefix
    <3> QED BY <2>3, <3>2 DEF Size
  <2> QED BY <1>5, <2>3, <2>6, <2>7, <2>8
<1> QED BY <1>8, <1>9

(* What a read takes and leaves are streams of the sizes asked for.         *)
LEMMA Parts ==
    ASSUME NEW ws \in Seq(Units), NEW n \in 0..Size(ws)
    PROVE  /\ Take(ws, n) \in Seq(Units) /\ Size(Take(ws, n)) = n
           /\ Drop(ws, n) \in Seq(Units) /\ Size(Drop(ws, n)) = Size(ws) - n
<1> DEFINE Goal == /\ Take(ws, n) \in Seq(Units) /\ Size(Take(ws, n)) = n
                   /\ Drop(ws, n) \in Seq(Units) /\ Size(Drop(ws, n)) = Size(ws) - n
<1>1. ASSUME NEW us \in Seq(Units), NEW vs \in Seq(Units), ws = us \o vs, n = Size(us)
      PROVE  Goal
  <2>1. Take(ws, n) = us /\ Drop(ws, n) = vs
    BY <1>1, CutBetween, Zenon
  <2>2. Size(ws) = Size(us) + Size(vs) /\ Size(us) \in Nat /\ Size(vs) \in Nat
    BY <1>1, SizeConcat, Zenon
  <2>3. Size(vs) = Size(ws) - n
    BY <1>1, <2>2
  <2> QED BY <1>1, <2>1, <2>3, Zenon
<1>2. ASSUME NEW us \in Seq(Units), NEW vs \in Seq(Units), NEW u \in Units,
             NEW r \in 1..(Width(u) - 1), ws = us \o (<<u>> \o vs), n = Size(us) + r
      PROVE  Goal
  <2> DEFINE a == <<Junk(r)>>
             b == <<Junk(Width(u) - r)>>
             v == <<u>>
  <2>1. Take(ws, n) = us \o a /\ Drop(ws, n) = b \o vs
    BY <1>2, CutInside, Zenon
  <2>2. Width(u) \in Nat \ {0} /\ r \in Nat \ {0} /\ Width(u) - r \in Nat \ {0}
    <3>1. Width(u) \in Nat \ {0}
      BY UnitsBreak
    <3> QED BY <3>1
  <2>3. /\ a \in Seq(Units) /\ Size(a) = r
        /\ b \in Seq(Units) /\ Size(b) = Width(u) - r
        /\ v \in Seq(Units) /\ Size(v) = Width(u)
    BY <2>2, UnitsBreak, SizeSmall
  <2>4. ws = us \o (v \o vs)
    BY <1>2
  <2> HIDE DEF a, b, v
  <2>5. /\ us \o a \in Seq(Units) /\ Size(us \o a) = Size(us) + r
        /\ b \o vs \in Seq(Units) /\ Size(b \o vs) = Width(u) - r + Size(vs)
        /\ v \o vs \in Seq(Units) /\ Size(v \o vs) = Width(u) + Size(vs)
    <3>1. us \o a \in Seq(Units) /\ Size(us \o a) = Size(us) + Size(a)
      BY <2>3, SizeConcat, Zenon
    <3>2. b \o vs \in Seq(Units) /\ Size(b \o vs) = Size(b) + Size(vs)
      BY <2>3, SizeConcat, Zenon
    <3>3. v \o vs \in Seq(Units) /\ Size(v \o vs) = Size(v) + Size(vs)
      BY <2>3, SizeConcat, Zenon
    <3> QED BY <2>3, <3>1, <3>2, <3>3, Zenon
  <2>6. Size(ws) = Size(us) + Size(v \o vs) /\ Size(us) \in Nat /\ Size(vs) \in Nat
    BY <2>4, <2>5, SizeConcat, EndStep, Zenon
  <2> DEFINE x == Size(us)
             y == Size(vs)
             w == Size(b \o vs)
             z == Size(v \o vs)
  <2>7. w = Width(u) - r + y /\ z = Width(u) + y /\ Size(ws) = x + z /\ x \in Nat /\ y \in Nat
    BY <2>5, <2>6, Zenon
  <2>8. n = x + r
    BY <1>2, Zenon
  <2> HIDE DEF x, y, w, z
  <2>9. w = Size(ws) - n
    BY <2>2, <2>7, <2>8, SMTT(60)
  <2>10. Size(b \o vs) = Size(ws) - n
    BY <2>9, Zenon DEF w
  <2> QED BY <1>2, <2>1, <2>5, <2>10, Zenon
<1>3. \/ \E us, vs \in Seq(Units) : ws = us \o vs /\ n = Size(us)
      \/ \E us, vs \in Seq(Units), u \in Units : \E r \in 1..(Width(u) - 1) :
            ws = us \o (<<u>> \o vs) /\ n = Size(us) + r
  BY EveryCut
<1> HIDE DEF Goal
<1>4. Goal
  BY <1>1, <1>2, <1>3, Zenon
<1> QED BY <1>4 DEF Goal

(* A read that goes on into a second stream.                                *)
LEMMA CutFurther ==
    ASSUME NEW us \in Seq(Units), NEW vs \in Seq(Units), NEW n \in 0..Size(vs)
    PROVE  /\ Take(us \o vs, Size(us) + n) = us \o Take(vs, n)
           /\ Drop(us \o vs, Size(us) + n) = Drop(vs, n)
<1> DEFINE Goal == /\ Take(us \o vs, Size(us) + n) = us \o Take(vs, n)
                   /\ Drop(us \o vs, Size(us) + n) = Drop(vs, n)
<1>1. ASSUME NEW as \in Seq(Units), NEW bs \in Seq(Units), vs = as \o bs, n = Size(as)
      PROVE  Goal
  <2>1. Take(vs, n) = as /\ Drop(vs, n) = bs
    BY <1>1, CutBetween, Zenon
  <2>2. us \o as \in Seq(Units)
    BY Streams, Zenon
  <2>3. us \o vs = (us \o as) \o bs
    BY <1>1, Assoc, ZenonT(60)
  <2>4. Size(us \o as) = Size(us) + n
    BY <1>1, SizeConcat, Zenon
  <2>5. /\ Take((us \o as) \o bs, Size(us \o as)) = us \o as
        /\ Drop((us \o as) \o bs, Size(us \o as)) = bs
    BY <2>2, CutBetween, Zenon
  <2> QED BY <2>1, <2>3, <2>4, <2>5, Zenon
<1>2. ASSUME NEW as \in Seq(Units), NEW bs \in Seq(Units), NEW u \in Units,
             NEW r \in 1..(Width(u) - 1), vs = as \o (<<u>> \o bs), n = Size(as) + r
      PROVE  Goal
  <2> DEFINE a == <<Junk(r)>>
             c == <<Junk(Width(u) - r)>>
             v == <<u>>
  <2>1. Take(vs, n) = as \o a /\ Drop(vs, n) = c \o bs
    BY <1>2, CutInside, ZenonT(60)
  <2>2. v \in Seq(Units) /\ a \in Seq(Units)
    BY UnitsBreak, SizeSmall
  <2>3. us \o as \in Seq(Units)
    BY Streams, Zenon
  <2>4. /\ Take((us \o as) \o (v \o bs), Size(us \o as) + r) = (us \o as) \o a
        /\ Drop((us \o as) \o (v \o bs), Size(us \o as) + r) = c \o bs
    BY <2>3, CutInside, Zenon
  <2>5. Size(us \o as) + r = Size(us) + n
    <3> DEFINE x == Size(us \o as)
               y == Size(us)
               z == Size(as)
    <3>1. x = y + z /\ y \in Nat /\ z \in Nat
      BY SizeConcat, Zenon
    <3>0. r \in Nat
      <4>1. Width(u) \in Nat
        BY UnitsBreak
      <4> QED BY <4>1
    <3>2. n = z + r
      BY <1>2
    <3> HIDE DEF x, y, z
    <3>3. x + r = y + n
      BY <3>0, <3>1, <3>2
    <3> QED BY <3>3 DEF x, y
  <2> HIDE DEF a, c
  <2>6. us \o vs = (us \o as) \o (v \o bs)
    <3>1. vs = as \o (v \o bs)
      BY <1>2
    <3> HIDE DEF v
    <3>2. v \o bs \in Seq(Units)
      BY <2>2, Streams, Zenon
    <3> QED BY <3>1, <3>2, Assoc, ZenonT(60)
  <2>7. (us \o as) \o a = us \o (as \o a)
    BY <2>2, Assoc, ZenonT(60)
  <2> QED BY <2>1, <2>4, <2>5, <2>6, <2>7, Zenon
<1>3. \/ \E as, bs \in Seq(Units) : vs = as \o bs /\ n = Size(as)
      \/ \E as, bs \in Seq(Units), u \in Units : \E r \in 1..(Width(u) - 1) :
            vs = as \o (<<u>> \o bs) /\ n = Size(as) + r
  BY EveryCut
<1> HIDE DEF Goal
<1>4. Goal
  BY <1>1, <1>2, <1>3
<1> QED BY <1>4 DEF Goal

(* A read within the first of two streams.                                  *)
LEMMA CutSooner ==
    ASSUME NEW us \in Seq(Units), NEW vs \in Seq(Units), NEW n \in 0..Size(us)
    PROVE  /\ Take(us \o vs, n) = Take(us, n)
           /\ Drop(us \o vs, n) = Drop(us, n) \o vs
<1> DEFINE Goal == /\ Take(us \o vs, n) = Take(us, n)
                   /\ Drop(us \o vs, n) = Drop(us, n) \o vs
<1>1. ASSUME NEW as \in Seq(Units), NEW bs \in Seq(Units), us = as \o bs, n = Size(as)
      PROVE  Goal
  <2>1. Take(us, n) = as /\ Drop(us, n) = bs
    BY <1>1, CutBetween, Zenon
  <2>2. bs \o vs \in Seq(Units)
    BY Streams, Zenon
  <2>3. us \o vs = as \o (bs \o vs)
    BY <1>1, Assoc, Zenon
  <2>4. Take(as \o (bs \o vs), n) = as /\ Drop(as \o (bs \o vs), n) = bs \o vs
    BY <1>1, <2>2, CutBetween, Zenon
  <2> QED BY <2>1, <2>3, <2>4, Zenon
<1>2. ASSUME NEW as \in Seq(Units), NEW bs \in Seq(Units), NEW u \in Units,
             NEW r \in 1..(Width(u) - 1), us = as \o (<<u>> \o bs), n = Size(as) + r
      PROVE  Goal
  <2> DEFINE a == <<Junk(r)>>
             c == <<Junk(Width(u) - r)>>
             v == <<u>>
  <2>1. Take(us, n) = as \o a /\ Drop(us, n) = c \o bs
    BY <1>2, CutInside, ZenonT(60)
  <2>2. v \in Seq(Units)
    BY SizeSmall
  <2>3. c \in Seq(Units)
    <3>1. Width(u) \in Nat \ {0}
      BY UnitsBreak
    <3>2. Width(u) - r \in Nat \ {0}
      BY <3>1
    <3> QED BY <3>2, UnitsBreak, SizeSmall
  <2>4. bs \o vs \in Seq(Units)
    BY Streams, Zenon
  <2>5. /\ Take(as \o (v \o (bs \o vs)), n) = as \o a
        /\ Drop(as \o (v \o (bs \o vs)), n) = c \o (bs \o vs)
    BY <1>2, <2>4, CutInside, ZenonT(60)
  <2> HIDE DEF a, c
  <2>6. us \o vs = as \o (v \o (bs \o vs))
    <3>1. us = as \o (v \o bs)
      BY <1>2
    <3> HIDE DEF v
    <3>2. v \o bs \in Seq(Units)
      BY <2>2, Streams, Zenon
    <3>3. us \o vs = as \o ((v \o bs) \o vs)
      BY <3>1, <3>2, Assoc, ZenonT(60)
    <3>4. (v \o bs) \o vs = v \o (bs \o vs)
      BY <2>2, Assoc, Zenon
    <3> QED BY <3>3, <3>4, Zenon
  <2>7. (c \o bs) \o vs = c \o (bs \o vs)
    BY <2>3, Assoc, Zenon
  <2> QED BY <2>1, <2>5, <2>6, <2>7, Zenon
<1>3. \/ \E as, bs \in Seq(Units) : us = as \o bs /\ n = Size(as)
      \/ \E as, bs \in Seq(Units), u \in Units : \E r \in 1..(Width(u) - 1) :
            us = as \o (<<u>> \o bs) /\ n = Size(as) + r
  BY EveryCut
<1> HIDE DEF Goal
<1>4. Goal
  BY <1>1, <1>2, <1>3
<1> QED BY <1>4 DEF Goal

-----------------------------------------------------------------------------
(* Streams end to end *)

(* The first i of the streams ss, end to end, for each i.                   *)
IsJoin(g, A, ss) ==
    /\ g \in [0..Len(ss) -> Seq(A)]
    /\ g[0] = <<>>
    /\ \A i \in 1..Len(ss) : g[i] = g[i - 1] \o ss[i]

(* FlattenSeq joins streams one after the other.                            *)
LEMMA FlattenJoins ==
    ASSUME NEW A, NEW ss \in Seq(Seq(A))
    PROVE  \E g : IsJoin(g, A, ss) /\ FlattenSeq(ss) = g[Len(ss)]
<1> DEFINE n == Len(ss)
           step == [i \in 1..n |-> [x \in Seq(A) |-> x \o ss[i]]]
<1>1. n \in Nat /\ \A i \in 1..n : ss[i] \in Seq(A)
  OBVIOUS
<1>2. step \in [1..n -> [Seq(A) -> Seq(A)]] /\ <<>> \in Seq(A)
  <2>1. \A i \in 1..n : \A x \in Seq(A) : x \o ss[i] \in Seq(A)
    BY <1>1
  <2> HIDE DEF n
  <2> QED BY <2>1
<1>3. \A i \in 1..n : \A x \in Seq(A) : step[i][x] = x \o ss[i]
  OBVIOUS
<1>4. PICK g : g \in [0..n -> Seq(A)] /\ g[0] = <<>> /\ \A i \in 1..n : g[i] = g[i - 1] \o ss[i]
  <2> HIDE DEF step, n
  <2>1. PICK g : IsRun(g, n, Seq(A), <<>>, step)
    BY <1>1, <1>2, Recursion
  <2>2. g \in [0..n -> Seq(A)] /\ g[0] = <<>> /\ \A i \in 1..n : g[i] = step[i][g[i - 1]]
    BY <2>1 DEF IsRun
  <2>3. \A i \in 1..n : g[i - 1] \in Seq(A)
    <3>1. \A i \in 1..n : i - 1 \in 0..n
      BY <1>1
    <3> QED BY <2>2, <3>1
  <2>4. \A i \in 1..n : g[i] = g[i - 1] \o ss[i]
    BY <1>3, <2>2, <2>3
  <2> QED BY <2>2, <2>4
<1>5. FlattenSeq(ss) = g[n]
  <2>1. CASE n = 0
    <3>1. ss = <<>>
      BY <2>1
    <3> QED BY <1>4, <2>1, <3>1 DEF FlattenSeq
  <2>2. CASE n # 0
    <3> DEFINE rec(h) == [i \in 1..n |-> IF i = 1 THEN ss[i] ELSE h[i - 1] \o ss[i]]
               flat   == CHOOSE h : h = rec(h)
               part   == [i \in 1..n |-> g[i]]
    <3>1. FlattenSeq(ss) = flat[n]
      BY <2>2 DEF FlattenSeq
    <3>2. g[1] = ss[1]
      <4>1. 1 \in 1..n /\ 1 - 1 = 0
        BY <1>1, <2>2
      <4>2. g[1] = <<>> \o ss[1] /\ ss[1] \in Seq(A)
        BY <1>1, <1>4, <4>1
      <4> QED BY <4>2, ConcatEmptySeq
    <3>3. part = rec(part)
      <4>1. ASSUME NEW i \in 1..n PROVE part[i] = IF i = 1 THEN ss[i] ELSE part[i - 1] \o ss[i]
        <5>1. CASE i = 1
          BY <3>2, <5>1
        <5>2. CASE i # 1
          <6>1. i - 1 \in 1..n
            BY <1>1, <5>2
          <6> HIDE DEF n
          <6> QED BY <1>4, <5>2, <6>1
        <5> QED BY <5>1, <5>2
      <4> QED BY <4>1
    <3>4. flat = rec(flat)
      <4> HIDE DEF part
      <4> QED BY <3>3
    <3>5. PICK h : /\ FlattenSeq(ss) = h[n]
                   /\ \A i \in 1..n : h[i] = IF i = 1 THEN ss[i] ELSE h[i - 1] \o ss[i]
      <4> HIDE DEF flat
      <4>1. \A i \in 1..n : flat[i] = IF i = 1 THEN ss[i] ELSE flat[i - 1] \o ss[i]
        BY <3>4
      <4> QED BY <3>1, <4>1
    <3>6. h[n] = g[n]
      <4> DEFINE S == {i \in Nat : i + 1 <= n => h[i + 1] = g[i + 1]}
      <4> HIDE DEF n
      <4>1. 0 \in S
        BY <1>1, <2>2, <3>2, <3>5
      <4>2. ASSUME NEW i \in S PROVE i + 1 \in S
        <5>1. CASE (i + 1) + 1 <= n
          <6>1. /\ (i + 1) + 1 \in 1..n /\ (i + 1) + 1 # 1
                /\ ((i + 1) + 1) - 1 = i + 1 /\ i + 1 <= n
            BY <1>1, <5>1
          <6>2. h[(i + 1) + 1] = h[i + 1] \o ss[(i + 1) + 1]
            BY <3>5, <6>1
          <6>3. g[(i + 1) + 1] = g[i + 1] \o ss[(i + 1) + 1]
            BY <1>4, <6>1
          <6>4. h[i + 1] = g[i + 1]
            BY <6>1
          <6>5. h[(i + 1) + 1] = g[(i + 1) + 1]
            BY <6>2, <6>3, <6>4, Zenon
          <6> QED BY <6>5
        <5> QED BY <5>1
      <4>3. S = Nat
        <5>1. S \in SUBSET Nat
          OBVIOUS
        <5> HIDE DEF S
        <5> QED BY <4>1, <4>2, <5>1, SetInduction
      <4>4. n - 1 \in Nat /\ (n - 1) + 1 = n
        BY <1>1, <2>2
      <4> QED BY <4>3, <4>4
    <3> QED BY <3>5, <3>6
  <2> QED BY <2>1, <2>2
<1> QED BY <1>4, <1>5 DEF IsJoin

(* What the empty and the longer sequences of streams join to.              *)
LEMMA FlattenEmpty == FlattenSeq(<<>>) = <<>>
BY DEF FlattenSeq

(* Streams of A join to a stream of A.                                      *)
LEMMA FlattenIn ==
    ASSUME NEW A, NEW ss \in Seq(Seq(A))
    PROVE  FlattenSeq(ss) \in Seq(A)
<1>1. PICK g : IsJoin(g, A, ss) /\ FlattenSeq(ss) = g[Len(ss)]
  BY FlattenJoins
<1>2. Len(ss) \in 0..Len(ss)
  OBVIOUS
<1> QED BY <1>1, <1>2 DEF IsJoin

(* The last stream joins at the end.                                        *)
LEMMA FlattenAppend ==
    ASSUME NEW A, NEW ss \in Seq(Seq(A)), NEW s \in Seq(A)
    PROVE  FlattenSeq(Append(ss, s)) = FlattenSeq(ss) \o s
<1> DEFINE n  == Len(ss)
           ts == Append(ss, s)
<1>1. /\ ts \in Seq(Seq(A)) /\ n \in Nat /\ Len(ts) = n + 1
      /\ ts[n + 1] = s /\ \A i \in 1..n : ts[i] = ss[i]
  OBVIOUS
<1>2. PICK g : IsJoin(g, A, ss) /\ FlattenSeq(ss) = g[n]
  BY FlattenJoins
<1>3. PICK h : IsJoin(h, A, ts) /\ FlattenSeq(ts) = h[n + 1]
  <2> HIDE DEF ts, n
  <2> QED BY <1>1, FlattenJoins
<1>4. g[0] = <<>> /\ \A i \in 1..n : g[i] = g[i - 1] \o ss[i]
  BY <1>2 DEF IsJoin
<1> HIDE DEF n, ts
<1>5. h[0] = <<>> /\ \A i \in 1..(n + 1) : h[i] = h[i - 1] \o ts[i]
  BY <1>1, <1>3 DEF IsJoin
<1>6. h[n] = g[n]
  <2> DEFINE S == {i \in Nat : i <= n => h[i] = g[i]}
  <2>1. 0 \in S
    BY <1>4, <1>5
  <2>2. ASSUME NEW i \in S PROVE i + 1 \in S
    <3>1. CASE i + 1 <= n
      <4>1. i + 1 \in 1..n /\ i + 1 \in 1..(n + 1) /\ (i + 1) - 1 = i /\ h[i] = g[i]
        BY <1>1, <3>1
      <4>2. h[i + 1] = h[i] \o ts[i + 1] /\ g[i + 1] = g[i] \o ss[i + 1]
        BY <1>4, <1>5, <4>1
      <4>3. ts[i + 1] = ss[i + 1]
        BY <1>1, <4>1
      <4>4. h[i + 1] = g[i + 1]
        BY <4>1, <4>2, <4>3, Zenon
      <4> QED BY <4>4
    <3> QED BY <3>1
  <2>3. S = Nat
    <3>1. S \in SUBSET Nat
      OBVIOUS
    <3> HIDE DEF S
    <3> QED BY <2>1, <2>2, <3>1, SetInduction
  <2> QED BY <1>1, <2>3
<1>7. h[n + 1] = h[n] \o s
  <2>1. n + 1 \in 1..(n + 1) /\ (n + 1) - 1 = n
    BY <1>1
  <2> QED BY <1>1, <1>5, <2>1
<1>8. FlattenSeq(ts) = FlattenSeq(ss) \o s
  BY <1>2, <1>3, <1>6, <1>7, Zenon
<1> QED BY <1>8 DEF ts

(* One stream alone is what it joins to.                                    *)
LEMMA FlattenOne ==
    ASSUME NEW A, NEW s \in Seq(A)
    PROVE  FlattenSeq(<<s>>) = s
<1>1. <<>> \in Seq(Seq(A)) /\ Append(<<>>, s) = <<s>>
  OBVIOUS
<1>2. FlattenSeq(Append(<<>>, s)) = FlattenSeq(<<>>) \o s
  BY <1>1, FlattenAppend
<1> QED BY <1>1, <1>2, FlattenEmpty, ConcatEmptySeq

(* The first stream joins at the front.                                     *)
LEMMA FlattenCons ==
    ASSUME NEW A, NEW s \in Seq(A), NEW ss \in Seq(Seq(A))
    PROVE  FlattenSeq(<<s>> \o ss) = s \o FlattenSeq(ss)
<1>0. \A x, y \in Seq(A) : (s \o x) \o y = s \o (x \o y)
  BY ConcatAssociative
<1> DEFINE n  == Len(ss)
           ts == <<s>> \o ss
<1>1. /\ ts \in Seq(Seq(A)) /\ n \in Nat /\ Len(ts) = n + 1
      /\ ts[1] = s /\ \A i \in 1..n : ts[i + 1] = ss[i]
  OBVIOUS
<1>2. PICK g : IsJoin(g, A, ss) /\ FlattenSeq(ss) = g[n]
  BY FlattenJoins
<1>3. PICK h : IsJoin(h, A, ts) /\ FlattenSeq(ts) = h[n + 1]
  <2> HIDE DEF ts, n
  <2> QED BY <1>1, FlattenJoins
<1>4. /\ g[0] = <<>> /\ \A i \in 1..n : g[i] = g[i - 1] \o ss[i]
      /\ \A i \in 0..n : g[i] \in Seq(A)
  BY <1>2 DEF IsJoin
<1>5. \A i \in 1..n : ss[i] \in Seq(A)
  OBVIOUS
<1> HIDE DEF n, ts
<1>6. h[0] = <<>> /\ \A i \in 1..(n + 1) : h[i] = h[i - 1] \o ts[i]
  BY <1>1, <1>3 DEF IsJoin
<1>7. h[n + 1] = s \o g[n]
  <2> DEFINE S == {i \in Nat : i <= n => h[i + 1] = s \o g[i]}
  <2>1. 0 \in S
    <3>1. 1 \in 1..(n + 1) /\ 1 - 1 = 0 /\ 0 + 1 = 1
      BY <1>1
    <3>2. h[1] = <<>> \o s
      BY <1>1, <1>6, <3>1
    <3>3. h[1] = s \o g[0]
      BY <1>4, <3>2, ConcatEmptySeq
    <3> QED BY <3>1, <3>3
  <2>2. ASSUME NEW i \in S PROVE i + 1 \in S
    <3>1. CASE i + 1 <= n
      <4>1. /\ i + 1 \in 1..n /\ (i + 1) + 1 \in 1..(n + 1) /\ i \in 0..n
            /\ (i + 1) - 1 = i /\ ((i + 1) + 1) - 1 = i + 1
            /\ h[i + 1] = s \o g[i]
        BY <1>1, <3>1
      <4>2. h[(i + 1) + 1] = h[i + 1] \o ts[(i + 1) + 1] /\ g[i + 1] = g[i] \o ss[i + 1]
        BY <1>4, <1>6, <4>1
      <4>3. ts[(i + 1) + 1] = ss[i + 1] /\ g[i] \in Seq(A) /\ ss[i + 1] \in Seq(A)
        BY <1>1, <1>4, <1>5, <4>1
      <4>4. (s \o g[i]) \o ss[i + 1] = s \o (g[i] \o ss[i + 1])
        BY <1>0, <4>3, Zenon
      <4>5. h[(i + 1) + 1] = s \o g[i + 1]
        BY <4>1, <4>2, <4>3, <4>4, Zenon
      <4> QED BY <4>5
    <3> QED BY <3>1
  <2>3. S = Nat
    <3>1. S \in SUBSET Nat
      OBVIOUS
    <3> HIDE DEF S
    <3> QED BY <2>1, <2>2, <3>1, SetInduction
  <2>4. n \in S /\ n <= n
    <3> HIDE DEF S
    <3> QED BY <1>1, <2>3
  <2> QED BY <2>4, Zenon
<1>8. FlattenSeq(ts) = s \o FlattenSeq(ss)
  BY <1>2, <1>3, <1>7, Zenon
<1> QED BY <1>8 DEF ts

(* What the images of the items join to.                                    *)
Joined(image, items) == FlattenSeq([i \in DOMAIN items |-> image[items[i]]])

Joins(image, V, A) ==
    /\ Joined(image, <<>>) = <<>>
    /\ \A items \in Seq(V) : Joined(image, items) \in Seq(A)
    /\ \A items \in Seq(V), item \in V :
          Joined(image, Append(items, item)) = Joined(image, items) \o image[item]
    /\ \A items \in Seq(V), item \in V :
          Joined(image, <<item>> \o items) = image[item] \o Joined(image, items)
    /\ \A item \in V : Joined(image, <<item>>) = image[item]

(* Joined has the equations of Joins, whatever the items and their images.  *)
LEMMA JoinedIs ==
    ASSUME NEW V, NEW A, NEW image \in [V -> Seq(A)]
    PROVE  Joins(image, V, A)
<1> DEFINE all(items) == [i \in DOMAIN items |-> image[items[i]]]
<1>1. Joined(image, <<>>) = <<>>
  <2>1. [i \in DOMAIN <<>> |-> image[<<>>[i]]] = <<>>
    OBVIOUS
  <2> QED BY <2>1, FlattenEmpty DEF Joined
<1>2. ASSUME NEW items \in Seq(V) PROVE all(items) \in Seq(Seq(A))
  <2>1. /\ Len(items) \in Nat /\ DOMAIN items = 1..Len(items)
        /\ \A i \in 1..Len(items) : image[items[i]] \in Seq(A)
    OBVIOUS
  <2>2. all(items) \in [1..Len(items) -> Seq(A)]
    BY <2>1
  <2> HIDE DEF all
  <2>3. all(items) \in UNION {[1..n -> Seq(A)] : n \in Nat}
    BY <2>1, <2>2
  <2>4. Seq(Seq(A)) = UNION {[1..n -> Seq(A)] : n \in Nat}
    BY SeqDef
  <2> QED BY <2>3, <2>4, Zenon
<1>3. ASSUME NEW items \in Seq(V) PROVE Joined(image, items) \in Seq(A)
  <2>1. FlattenSeq(all(items)) \in Seq(A)
    <3> HIDE DEF all
    <3> QED BY <1>2, FlattenIn
  <2> QED BY <2>1 DEF Joined
<1>4. ASSUME NEW items \in Seq(V), NEW item \in V
      PROVE  Joined(image, Append(items, item)) = Joined(image, items) \o image[item]
  <2>1. all(Append(items, item)) = Append(all(items), image[item])
    OBVIOUS
  <2>2. FlattenSeq(Append(all(items), image[item])) = FlattenSeq(all(items)) \o image[item]
    <3>1. image[item] \in Seq(A)
      OBVIOUS
    <3> HIDE DEF all
    <3> QED BY <1>2, <3>1, FlattenAppend
  <2> QED BY <2>1, <2>2 DEF Joined
<1>5. ASSUME NEW items \in Seq(V), NEW item \in V
      PROVE  Joined(image, <<item>> \o items) = image[item] \o Joined(image, items)
  <2>1. all(<<item>> \o items) = <<image[item]>> \o all(items)
    OBVIOUS
  <2>2. FlattenSeq(<<image[item]>> \o all(items)) = image[item] \o FlattenSeq(all(items))
    <3>1. image[item] \in Seq(A)
      OBVIOUS
    <3> HIDE DEF all
    <3> QED BY <1>2, <3>1, FlattenCons
  <2> QED BY <2>1, <2>2 DEF Joined
<1>6. ASSUME NEW item \in V PROVE Joined(image, <<item>>) = image[item]
  <2>1. all(<<item>>) = <<image[item]>>
    OBVIOUS
  <2>2. FlattenSeq(<<image[item]>>) = image[item]
    <3>1. image[item] \in Seq(A)
      OBVIOUS
    <3> QED BY <3>1, FlattenOne
  <2> QED BY <2>1, <2>2 DEF Joined
<1> HIDE DEF all
<1> QED BY <1>1, <1>3, <1>4, <1>5, <1>6 DEF Joins

-----------------------------------------------------------------------------
(* Numbers, headers and texts at the head of a stream *)

(* A text is as long in bytes as in units.                                  *)
LEMMA TextSize ==
    ASSUME NEW t \in Seq(Chars)
    PROVE  t \in Seq(Opaque) /\ t \in Seq(Units) /\ Size(t) = Len(t)
<1>1. t \in Seq(Opaque) /\ t \in Seq(Units) /\ Len(t) \in Nat
  BY UnitsBreak
<1>2. \A i \in 1..Len(t) : Width(t[i]) = 1
  BY DEF Chars, Width
<1> DEFINE S == {i \in Nat : i <= Len(t) => End(t, i) = i}
<1>3. 0 \in S
  BY <1>1, EndStep
<1>4. ASSUME NEW i \in S PROVE i + 1 \in S
  <2>1. CASE i + 1 <= Len(t)
    <3>1. i + 1 \in 1..Len(t) /\ (i + 1) - 1 = i /\ End(t, i) = i
      BY <1>1, <2>1
    <3>2. End(t, i + 1) = End(t, i) + 1
      BY <1>1, <1>2, <3>1, EndStep
    <3> QED BY <3>1, <3>2
  <2> QED BY <2>1
<1>5. S = Nat
  <2>1. S \in SUBSET Nat
    OBVIOUS
  <2> HIDE DEF S
  <2> QED BY <1>3, <1>4, <2>1, SetInduction
<1>6. Len(t) \in S
  <2> HIDE DEF S
  <2> QED BY <1>1, <1>5
<1> QED BY <1>1, <1>6 DEF Size

(* Opaque units are units.                                                  *)
LEMMA OpaqueStream ==
    ASSUME NEW us \in Seq(Opaque)
    PROVE  us \in Seq(Units) /\ Size(us) \in Nat
<1>1. us \in Seq(Units)
  BY UnitsBreak
<1> QED BY <1>1, EndStep

(* A unit at the head of a stream is read as it was written.                *)
LEMMA HeadUnit ==
    ASSUME NEW u \in Units, NEW us \in Seq(Units)
    PROVE  /\ <<u>> \o us \in Seq(Units)
           /\ Size(<<u>> \o us) = Width(u) + Size(us) /\ Size(us) \in Nat
           /\ Take(<<u>> \o us, Width(u)) = <<u>> /\ Drop(<<u>> \o us, Width(u)) = us
<1> DEFINE v == <<u>>
<1>1. v \in Seq(Units) /\ Size(v) = Width(u)
  BY SizeSmall
<1> HIDE DEF v
<1>2. v \o us \in Seq(Units) /\ Size(v \o us) = Size(v) + Size(us) /\ Size(us) \in Nat
  BY <1>1, SizeConcat, Zenon
<1>3. Take(v \o us, Size(v)) = v /\ Drop(v \o us, Size(v)) = us
  BY <1>1, CutBetween, Zenon
<1>4. /\ v \o us \in Seq(Units)
      /\ Size(v \o us) = Width(u) + Size(us) /\ Size(us) \in Nat
      /\ Take(v \o us, Width(u)) = v /\ Drop(v \o us, Width(u)) = us
  BY <1>1, <1>2, <1>3, Zenon
<1> QED BY <1>4 DEF v

(* A number at the head of a stream is what its first four bytes read as.   *)
LEMMA HeadNum ==
    ASSUME NEW n \in Nat, NEW us \in Seq(Units)
    PROVE  /\ <<Num(n)>> \o us \in Seq(Units)
           /\ Size(<<Num(n)>> \o us) = 4 + Size(us) /\ Size(us) \in Nat
           /\ Take(<<Num(n)>> \o us, 4) = <<Num(n)>> /\ Drop(<<Num(n)>> \o us, 4) = us
           /\ \A stray \in Nat : ReadNum(Take(<<Num(n)>> \o us, 4), stray) = n
<1>1. Num(n) \in Units /\ Width(Num(n)) = 4
  BY DEF Units, Num, Width
<1>2. \A stray \in Nat : ReadNum(<<Num(n)>>, stray) = n
  BY DEF ReadNum, Num
<1> DEFINE u == Num(n)
<1> HIDE DEF u
<1>3. u \in Units /\ Width(u) = 4 /\ \A stray \in Nat : ReadNum(<<u>>, stray) = n
  BY <1>1, <1>2 DEF u
<1>4. /\ <<u>> \o us \in Seq(Units)
      /\ Size(<<u>> \o us) = Width(u) + Size(us) /\ Size(us) \in Nat
      /\ Take(<<u>> \o us, Width(u)) = <<u>> /\ Drop(<<u>> \o us, Width(u)) = us
  BY <1>3, HeadUnit, Zenon
<1>5. /\ <<u>> \o us \in Seq(Units)
      /\ Size(<<u>> \o us) = 4 + Size(us) /\ Size(us) \in Nat
      /\ Take(<<u>> \o us, 4) = <<u>> /\ Drop(<<u>> \o us, 4) = us
      /\ \A stray \in Nat : ReadNum(Take(<<u>> \o us, 4), stray) = n
  BY <1>3, <1>4, Zenon
<1> QED BY <1>5, Zenon DEF u

(* A cut behind the first unit leaves that unit whole.                      *)
LEMMA HeadFurther ==
    ASSUME NEW u \in Units, NEW us \in Seq(Units), NEW n \in 0..Size(us)
    PROVE  /\ Take(<<u>> \o us, Width(u) + n) = <<u>> \o Take(us, n)
           /\ Drop(<<u>> \o us, Width(u) + n) = Drop(us, n)
<1> DEFINE v == <<u>>
<1>1. v \in Seq(Units) /\ Size(v) = Width(u)
  BY SizeSmall
<1> HIDE DEF v
<1>2. /\ Take(v \o us, Size(v) + n) = v \o Take(us, n)
      /\ Drop(v \o us, Size(v) + n) = Drop(us, n)
  BY <1>1, CutFurther, Zenon
<1>3. /\ Take(v \o us, Width(u) + n) = v \o Take(us, n)
      /\ Drop(v \o us, Width(u) + n) = Drop(us, n)
  BY <1>1, <1>2, Zenon
<1> QED BY <1>3, Zenon DEF v

(* The same for a number.                                                   *)
LEMMA NumFurther ==
    ASSUME NEW n \in Nat, NEW us \in Seq(Units), NEW m \in 0..Size(us)
    PROVE  /\ Take(<<Num(n)>> \o us, 4 + m) = <<Num(n)>> \o Take(us, m)
           /\ Drop(<<Num(n)>> \o us, 4 + m) = Drop(us, m)
<1>1. Num(n) \in Units /\ Width(Num(n)) = 4
  BY DEF Units, Num, Width
<1> DEFINE u == Num(n)
<1>2. u \in Units /\ Width(u) = 4
  BY <1>1
<1> HIDE DEF u
<1>3. /\ Take(<<u>> \o us, Width(u) + m) = <<u>> \o Take(us, m)
      /\ Drop(<<u>> \o us, Width(u) + m) = Drop(us, m)
  BY <1>2, HeadFurther, Zenon
<1>4. /\ Take(<<u>> \o us, 4 + m) = <<u>> \o Take(us, m)
      /\ Drop(<<u>> \o us, 4 + m) = Drop(us, m)
  BY <1>2, <1>3, Zenon
<1> QED BY <1>4, Zenon DEF u

(* A read of all there is.                                                  *)
LEMMA CutAll ==
    ASSUME NEW us \in Seq(Units)
    PROVE  Take(us, Size(us)) = us /\ Drop(us, Size(us)) = <<>>
<1>1. <<>> \in Seq(Units) /\ us \o <<>> = us
  BY NoStream, SizeSmall
<1>2. Take(us \o <<>>, Size(us)) = us /\ Drop(us \o <<>>, Size(us)) = <<>>
  BY <1>1, CutBetween, Zenon
<1> QED BY <1>1, <1>2, Zenon

(* A message's header at the head of a stream is its first 26 bytes.        *)
LEMMA HeadHeader ==
    ASSUME NEW h \in Values, NEW us \in Seq(Units)
    PROVE  /\ <<Header(h)>> \o us \in Seq(Units)
           /\ Size(<<Header(h)>> \o us) = 26 + Size(us) /\ Size(us) \in Nat
           /\ Take(<<Header(h)>> \o us, 26) = <<Header(h)>>
           /\ Drop(<<Header(h)>> \o us, 26) = us
<1>1. Header(h) \in Units /\ Width(Header(h)) = 26
  BY DEF Units, Opaque, Header, Width
<1> DEFINE u == Header(h)
<1> HIDE DEF u
<1>2. u \in Units /\ Width(u) = 26
  BY <1>1 DEF u
<1>3. /\ <<u>> \o us \in Seq(Units)
      /\ Size(<<u>> \o us) = Width(u) + Size(us) /\ Size(us) \in Nat
      /\ Take(<<u>> \o us, Width(u)) = <<u>> /\ Drop(<<u>> \o us, Width(u)) = us
  BY <1>2, HeadUnit, Zenon
<1>4. /\ <<u>> \o us \in Seq(Units)
      /\ Size(<<u>> \o us) = 26 + Size(us) /\ Size(us) \in Nat
      /\ Take(<<u>> \o us, 26) = <<u>> /\ Drop(<<u>> \o us, 26) = us
  BY <1>2, <1>3, Zenon
<1> QED BY <1>4, Zenon DEF u

-----------------------------------------------------------------------------
(* Frames *)

(* The frames that nsqd writes: an answer is a text, a message is a header  *)
(* and a text.                                                              *)
Answers  == {Frame(type, text) : type \in {Response, Error}, text \in Seq(Chars)}
Messages == {Frame(Message, <<Header(h)>> \o text) : h \in Values, text \in Seq(Chars)}
Frames   == Answers \cup Messages

(* What a frame is made of; none of its data is read as a number.           *)
LEMMA FrameData ==
    ASSUME NEW f \in Frames
    PROVE  /\ f.type \in {Response, Error, Message} /\ f.type \in 0..2
           /\ f.data \in Seq(Opaque) /\ f.data \in Seq(Units) /\ Size(f.data) \in Nat
           /\ f = Frame(f.type, f.data)
           /\ f.type = Message => \E h \in Values, text \in Seq(Chars) :
                                     f.data = <<Header(h)>> \o text
<1>1. CASE f \in Answers
  <2>1. PICK type \in {Response, Error}, text \in Seq(Chars) : f = Frame(type, text)
    BY <1>1 DEF Answers
  <2>2. f.type = type /\ f.data = text /\ f = Frame(f.type, f.data)
    BY <2>1 DEF Frame
  <2>3. text \in Seq(Opaque) /\ text \in Seq(Units) /\ Size(text) \in Nat
    BY TextSize, EndStep
  <2>4. type # Message /\ type \in 0..2
    BY DEF Response, Error, Message
  <2> QED BY <2>2, <2>3, <2>4
<1>2. CASE f \in Messages
  <2>1. PICK h \in Values, text \in Seq(Chars) : f = Frame(Message, <<Header(h)>> \o text)
    BY <1>2 DEF Messages
  <2>2. f.type = Message /\ f.data = <<Header(h)>> \o text /\ f = Frame(f.type, f.data)
    BY <2>1 DEF Frame
  <2>3. text \in Seq(Opaque)
    BY TextSize
  <2>4. Header(h) \in Opaque
    BY DEF Opaque, Header
  <2>5. <<Header(h)>> \o text \in Seq(Opaque)
    <3> DEFINE u == Header(h)
    <3>1. u \in Opaque
      BY <2>4
    <3> HIDE DEF u
    <3>2. <<u>> \o text \in Seq(Opaque)
      BY <2>3, <3>1
    <3> QED BY <3>2 DEF u
  <2>6. f.data \in Seq(Units) /\ Size(f.data) \in Nat
    BY <2>2, <2>5, OpaqueStream, Zenon
  <2>7. Message \in {Response, Error, Message} /\ Message \in 0..2
    BY DEF Message
  <2> QED BY <2>2, <2>5, <2>6, <2>7
<1> QED BY <1>1, <1>2 DEF Frames

(* The layout of a frame.                                                   *)
LEMMA FrameLayout ==
    ASSUME NEW f \in Frames
    PROVE  /\ FrameBytes(f) = <<Num(4 + Size(f.data))>> \o (<<Num(f.type)>> \o f.data)
           /\ FrameBytes(f) \in Seq(Units)
           /\ <<Num(f.type)>> \o f.data \in Seq(Units)
           /\ Size(FrameBytes(f)) = 8 + Size(f.data) /\ Size(f.data) \in Nat
<1> DEFINE d == f.data
           a == Num(4 + Size(f.data))
           b == Num(f.type)
<1>1. d \in Seq(Units) /\ f.type \in Nat /\ Size(d) \in Nat /\ 4 + Size(d) \in Nat
  BY FrameData
<1>2. FrameBytes(f) = <<a, b>> \o d
  BY DEF FrameBytes
<1>3. a \in Units /\ b \in Units
  BY <1>1 DEF Num, Units
<1>4. <<Num(f.type)>> \o d \in Seq(Units) /\ Size(<<Num(f.type)>> \o d) = 4 + Size(d)
  BY <1>1, HeadNum
<1>5. /\ <<Num(4 + Size(d))>> \o (<<Num(f.type)>> \o d) \in Seq(Units)
      /\ Size(<<Num(4 + Size(d))>> \o (<<Num(f.type)>> \o d)) = 4 + Size(<<Num(f.type)>> \o d)
  BY <1>1, <1>4, HeadNum
<1> HIDE DEF d, a, b
<1>6. <<a, b>> \o d = <<a>> \o (<<b>> \o d)
  BY <1>1, <1>3, TwoUnits, Zenon
<1>7. FrameBytes(f) = <<Num(4 + Size(d))>> \o (<<Num(f.type)>> \o d)
  BY <1>2, <1>6 DEF a, b, d
<1>8. Size(FrameBytes(f)) = 8 + Size(d)
  BY <1>1, <1>4, <1>5, <1>7
<1> QED BY <1>1, <1>4, <1>5, <1>7, <1>8 DEF d

(* A message's data is its header and its body.                             *)
LEMMA MessageDecoded ==
    ASSUME NEW h \in Values, NEW text \in Seq(Chars)
    PROVE  DecodeMessage(<<Header(h)>> \o text) =
              [verdict |-> "ok", header |-> <<Header(h)>>, body |-> text]
<1> DEFINE us == <<Header(h)>> \o text
<1>1. text \in Seq(Units)
  BY TextSize
<1>2. /\ Size(us) = 26 + Size(text) /\ Size(text) \in Nat
      /\ Take(us, 26) = <<Header(h)>> /\ Drop(us, 26) = text
  BY <1>1, HeadHeader
<1> HIDE DEF us
<1>3. ~(Size(us) < 4) /\ ~(Size(us) < 26)
  BY <1>2
<1>4. DecodeMessage(us) = [verdict |-> "ok", header |-> Take(us, 26), body |-> Drop(us, 26)]
  BY <1>3, Zenon DEF DecodeMessage
<1> QED BY <1>2, <1>4, Zenon DEF us

(* decode_frame gives back the frame whose type and data it is given.       *)
LEMMA FrameDecoded ==
    ASSUME NEW stray \in Nat, NEW f \in Frames
    PROVE  DecodeFrame(<<Num(f.type)>> \o f.data, stray) = f
<1> DEFINE us == <<Num(f.type)>> \o f.data
<1>1. /\ f.type \in {Response, Error, Message} /\ f.type \in Nat
      /\ f.data \in Seq(Units) /\ f = Frame(f.type, f.data)
  BY FrameData
<1>2. /\ Size(us) = 4 + Size(f.data) /\ Size(f.data) \in Nat
      /\ Drop(us, 4) = f.data /\ ReadNum(Take(us, 4), stray) = f.type
  BY <1>1, HeadNum
<1> HIDE DEF us
<1>3. ~(Size(us) < 4)
  BY <1>2
<1>4. CASE f.type \in {Response, Error}
  <2>1. DecodeFrame(us, stray) = Frame(f.type, f.data)
    BY <1>2, <1>3, <1>4 DEF DecodeFrame, Response, Error, Message
  <2> QED BY <1>1, <2>1 DEF us
<1>5. CASE f.type = Message
  <2>1. PICK h \in Values, text \in Seq(Chars) : f.data = <<Header(h)>> \o text
    BY <1>5, FrameData
  <2> DEFINE msg  == DecodeMessage(f.data)
             head == <<Header(h)>>
  <2>2. msg = [verdict |-> "ok", header |-> head, body |-> text] /\ f.data = head \o text
    BY <2>1, MessageDecoded
  <2> HIDE DEF msg, head
  <2>3. msg.verdict = "ok" /\ msg.header \o msg.body = f.data
    <3>1. msg.verdict = "ok" /\ msg.header = head /\ msg.body = text
      BY <2>2
    <3> QED BY <2>2, <3>1, Zenon
  <2>4. DecodeMessage(f.data) = msg
    BY DEF msg
  <2>5. f.type \notin {Response, Error}
    BY <1>5 DEF Response, Error, Message
  <2>6. DecodeFrame(us, stray) = Frame(f.type, msg.header \o msg.body)
    BY <1>2, <1>3, <1>5, <2>3, <2>4, <2>5 DEF DecodeFrame
  <2> QED BY <1>1, <2>3, <2>6 DEF us
<1> QED BY <1>1, <1>4, <1>5

(* The parts of a frame's bytes.                                            *)
LEMMA FrameParts ==
    ASSUME NEW stray \in Nat, NEW f \in Frames
    PROVE  /\ Size(FrameBytes(f)) = 8 + Size(f.data)
           /\ ReadNum(Take(FrameBytes(f), 4), stray) = 4 + Size(f.data)
           /\ Drop(FrameBytes(f), 4) = <<Num(f.type)>> \o f.data
           /\ ReadNum(Take(Drop(FrameBytes(f), 4), 4), stray) = f.type
           /\ Drop(FrameBytes(f), 8) = f.data
<1> DEFINE d == f.data
           x == <<Num(f.type)>> \o d
           a == 4 + Size(d)
           us == FrameBytes(f)
<1>1. d \in Seq(Units) /\ f.type \in Nat /\ Size(d) \in Nat /\ a \in Nat
  BY FrameData
<1>2. us = <<Num(a)>> \o x /\ x \in Seq(Units) /\ Size(us) = 8 + Size(d)
  BY FrameLayout
<1>3. Size(x) = 4 + Size(d) /\ Drop(x, 4) = d /\ ReadNum(Take(x, 4), stray) = f.type
  BY <1>1, HeadNum
<1>4. 4 \in 0..Size(x) /\ 4 + 4 = 8
  <2> HIDE DEF x, d
  <2> QED BY <1>1, <1>3
<1> HIDE DEF us, x, a
<1>5. Drop(us, 4) = x /\ ReadNum(Take(us, 4), stray) = a
  BY <1>1, <1>2, HeadNum
<1>6. Drop(us, 8) = d
  <2>1. Drop(<<Num(a)>> \o x, 4 + 4) = Drop(x, 4)
    BY <1>1, <1>2, <1>4, NumFurther, Zenon
  <2>2. 4 + 4 = 8
    OBVIOUS
  <2> QED BY <1>2, <1>3, <2>1, <2>2
<1> QED BY <1>2, <1>3, <1>5, <1>6, Zenon DEF us, x, a

(* read_frame of a slice gives back the frame.                              *)
THEOREM SliceRead ==
    ASSUME NEW stray \in Nat, NEW f \in Frames
    PROVE  ReadSlice(FrameBytes(f), stray) = f
<1> DEFINE us == FrameBytes(f)
           size == 4 + Size(f.data)
<1>1. /\ Size(us) = 8 + Size(f.data)
      /\ ReadNum(Take(us, 4), stray) = size
      /\ ReadNum(Take(Drop(us, 4), 4), stray) = f.type
      /\ Drop(us, 8) = f.data
  BY FrameParts
<1>2. f.data \in Seq(Units) /\ Size(f.data) \in Nat /\ f = Frame(f.type, f.data) /\ TryFrom(f.type)
  BY FrameData DEF TryFrom
<1>3. ~(Size(us) < 8) /\ ~(Size(us) < size + 4) /\ ~(size < 4) /\ size - 4 = Size(f.data)
  <2> HIDE DEF us
  <2> QED BY <1>1, <1>2
<1> HIDE DEF us, size
<1>4. ReadSlice(us, stray) = Frame(f.type, Take(Drop(us, 8), size - 4))
  BY <1>1, <1>2, <1>3, Zenon DEF ReadSlice
<1>5. Take(f.data, Size(f.data)) = f.data
  BY <1>2, CutAll
<1> QED BY <1>1, <1>2, <1>3, <1>4, <1>5, Zenon DEF us

(* Nor does it read a frame from a part of one.                             *)
THEOREM PartRefused ==
    ASSUME NEW stray \in Nat, NEW f \in Frames, NEW n \in 0..(Size(FrameBytes(f)) - 1)
    PROVE  ReadSlice(Take(FrameBytes(f), n), stray) = Err
<1> DEFINE d == f.data
           x == <<Num(f.type)>> \o d
           a == 4 + Size(d)
           us == FrameBytes(f)
           part == Take(us, n)
<1>1. d \in Seq(Units) /\ f.type \in Nat /\ Size(d) \in Nat /\ a \in Nat
  BY FrameData
<1>2. us = <<Num(a)>> \o x /\ x \in Seq(Units) /\ us \in Seq(Units) /\ Size(us) = 8 + Size(d)
  BY FrameLayout
<1>3. Size(x) = 4 + Size(d)
  BY <1>1, HeadNum
<1>4. n \in 0..Size(us) /\ n \in Nat /\ n < 8 + Size(d)
  <2> HIDE DEF us, d
  <2> QED BY <1>1, <1>2 DEF us
<1> HIDE DEF us, x
<1>5. Size(part) = n
  BY <1>2, <1>4, Parts
<1>6. CASE n < 8
  <2> HIDE DEF part
  <2> QED BY <1>5, <1>6 DEF ReadSlice, part, us
<1>7. CASE n >= 8
  <2> DEFINE m == n - 4
             rest == Take(x, m)
  <2>1. m \in 0..Size(x) /\ n = 4 + m
    <3> HIDE DEF d
    <3> QED BY <1>1, <1>3, <1>4, <1>7
  <2>2. part = <<Num(a)>> \o rest
    <3> HIDE DEF a, m
    <3> QED BY <1>1, <1>2, <2>1, NumFurther, Zenon
  <2>3. rest \in Seq(Units)
    <3> HIDE DEF m
    <3> QED BY <1>2, <2>1, Parts
  <2> HIDE DEF rest, part, a
  <2>4. ReadNum(Take(part, 4), stray) = a
    BY <1>1, <2>2, <2>3, HeadNum
  <2>5. n < a + 4
    <3> HIDE DEF d
    <3> QED BY <1>1, <1>4 DEF a
  <2>6. Size(part) < a + 4
    BY <1>5, <2>5
  <2>7. ReadSlice(part, stray) = Err
    BY <2>4, <2>6, Zenon DEF ReadSlice
  <2> QED BY <2>7 DEF part, us
<1> QED BY <1>4, <1>6, <1>7

(* from_bytes finds the message in the frame.                               *)
LEMMA MessageFromBytes ==
    ASSUME NEW stray \in Nat, NEW f \in Frames, f.type = Message
    PROVE  FromBytes(FrameBytes(f), stray) = DecodeMessage(f.data)
<1> DEFINE us == FrameBytes(f)
           d  == f.data
<1>1. PICK h \in Values, text \in Seq(Chars) : d = <<Header(h)>> \o text
  BY FrameData
<1>2. text \in Seq(Units)
  BY TextSize
<1>3. /\ d \in Seq(Units) /\ Size(d) = 26 + Size(text) /\ Size(text) \in Nat
      /\ Take(d, 26) = <<Header(h)>> /\ Drop(d, 26) = text
  BY <1>1, <1>2, HeadHeader
<1>4. DecodeMessage(d) = [verdict |-> "ok", header |-> <<Header(h)>>, body |-> text]
  BY <1>1, MessageDecoded
<1>5. /\ Size(us) = 8 + Size(d)
      /\ ReadNum(Take(Drop(us, 4), 4), stray) = Message
      /\ Drop(us, 8) = d
  BY FrameParts
<1>6. Drop(us, 34) = text
  <2> DEFINE x == <<Num(f.type)>> \o d
             a == 4 + Size(d)
             y == 4 + 26
  <2>1. f.type \in Nat /\ a \in Nat
    BY <1>3, FrameData
  <2>2. us = <<Num(a)>> \o x /\ x \in Seq(Units)
    BY FrameLayout
  <2>3. Size(x) = 4 + Size(d)
    BY <1>3, <2>1, HeadNum
  <2>4. 26 \in 0..Size(d) /\ y \in 0..Size(x) /\ 34 = 4 + y
    <3> HIDE DEF x, d
    <3> QED BY <1>3, <2>3
  <2>5. Drop(x, y) = Drop(d, 26)
    BY <1>3, <2>1, <2>4, NumFurther
  <2> HIDE DEF x, us, a, y
  <2>6. Drop(us, 4 + y) = Drop(x, y)
    BY <2>1, <2>2, <2>4, NumFurther, Zenon
  <2> QED BY <1>3, <2>4, <2>5, <2>6, Zenon
<1> HIDE DEF us, d
<1>7. ~(Size(us) < 26) /\ ~(Size(us) < 34)
  BY <1>3, <1>5
<1>8. FromBytes(us, stray) =
         [verdict |-> "ok", header |-> Take(Drop(us, 8), 26), body |-> Drop(us, 34)]
  BY <1>5, <1>7, Zenon DEF FromBytes
<1> QED BY <1>3, <1>4, <1>5, <1>6, <1>8, Zenon DEF us, d

-----------------------------------------------------------------------------
(* Commands *)

(* What nsqd makes of a stream.                                             *)
Verdicts == [verdict : {"ok", "wait", "bad"}, bodies : Seq(Seq(Units)), rest : Seq(Units)]

(* Whatever is read as a number is a natural number.                        *)
LEMMA NumRead ==
    ASSUME NEW stray \in Nat, NEW us \in Seq(Units)
    PROVE  ReadNum(us, stray) \in Nat
<1>1. CASE Len(us) = 1 /\ us[1][1] = "num"
  <2>1. us[1] \in Units
    <3>1. 1 \in 1..Len(us)
      BY <1>1
    <3> QED BY <3>1
  <2>2. us[1][2] \in Nat
    BY <1>1, <2>1 DEF Units, Opaque
  <2> QED BY <1>1, <2>2 DEF ReadNum
<1> QED BY <1>1 DEF ReadNum

(* A body with its size, and less than all of it.                           *)
LEMMA SizedIs ==
    ASSUME NEW b \in Seq(Chars), NEW us \in Seq(Units)
    PROVE  /\ Sized(b) \in Seq(Units) /\ Size(Sized(b)) = 4 + Len(b) /\ Len(b) \in Nat
           /\ Sized(b) \o us = <<Num(Len(b))>> \o (b \o us)
           /\ b \o us \in Seq(Units) /\ Size(b \o us) = Len(b) + Size(us) /\ Size(us) \in Nat
           /\ Take(b \o us, Len(b)) = b /\ Drop(b \o us, Len(b)) = us
<1> DEFINE v == <<Num(Len(b))>>
<1>1. b \in Seq(Units) /\ Size(b) = Len(b) /\ Len(b) \in Nat
  BY TextSize
<1>2. v \in Seq(Units)
  BY <1>1, SizeSmall DEF Num, Units
<1>3. Sized(b) = v \o b
  BY DEF Sized
<1>4. Sized(b) \in Seq(Units) /\ Size(Sized(b)) = 4 + Len(b)
  BY <1>1, <1>3, HeadNum
<1> HIDE DEF v
<1>5. Sized(b) \o us = v \o (b \o us)
  <2>1. (v \o b) \o us = v \o (b \o us)
    BY <1>1, <1>2, Assoc, Zenon
  <2> QED BY <1>3, <2>1, Zenon
<1>6. b \o us \in Seq(Units) /\ Size(b \o us) = Size(b) + Size(us) /\ Size(us) \in Nat
  BY <1>1, SizeConcat, Zenon
<1>7. Take(b \o us, Size(b)) = b /\ Drop(b \o us, Size(b)) = us
  BY <1>1, CutBetween, Zenon
<1>8. Size(b \o us) = Len(b) + Size(us)
  BY <1>1, <1>6, Zenon
<1> QED BY <1>1, <1>4, <1>5, <1>6, <1>7, <1>8, Zenon DEF v

(* A body with its size, when it is heard at all, is heard as it is.        *)
LEMMA SizedHeard ==
    ASSUME NEW stray \in Nat, NEW b \in Seq(Chars), NEW us \in Seq(Units),
           SizedAt(Sized(b) \o us, stray).verdict = "ok"
    PROVE  SizedAt(Sized(b) \o us, stray) = [verdict |-> "ok", bodies |-> <<b>>, rest |-> us]
<1> DEFINE x == b \o us
           n == Len(b)
           all == <<Num(n)>> \o x
<1>1. /\ Sized(b) \o us = all /\ n \in Nat /\ x \in Seq(Units)
      /\ Size(x) = n + Size(us) /\ Size(us) \in Nat
      /\ Take(x, n) = b /\ Drop(x, n) = us
  BY SizedIs
<1> HIDE DEF x, n
<1>2. /\ Size(all) = 4 + Size(x) /\ ReadNum(Take(all, 4), stray) = n /\ Drop(all, 4) = x
  BY <1>1, HeadNum
<1> HIDE DEF all
<1>3. ~(Size(all) < 4) /\ ~(Size(x) < n)
  BY <1>1, <1>2
<1>4. SizedAt(all, stray).verdict = "ok"
  BY <1>1, Zenon
<1>5. n \in 1..MaxBody
  <2>1. Refuses.verdict # "ok"
    BY DEF Refuses
  <2> QED BY <1>2, <1>3, <1>4, <2>1, Zenon DEF SizedAt
<1>6. SizedAt(all, stray) = [verdict |-> "ok", bodies |-> <<Take(x, n)>>, rest |-> Drop(x, n)]
  BY <1>2, <1>3, <1>5, Zenon DEF SizedAt
<1> QED BY <1>1, <1>6, Zenon

(* No proper part of a body with its size is heard as a body.               *)
LEMMA SizedUnheard ==
    ASSUME NEW stray \in Nat, NEW b \in Seq(Chars), NEW n \in 0..(Size(Sized(b)) - 1)
    PROVE  SizedAt(Take(Sized(b), n), stray).verdict # "ok"
<1> DEFINE all  == Sized(b)
           len  == Len(b)
           part == Take(all, n)
<1>1. all \in Seq(Units) /\ Size(all) = 4 + len /\ len \in Nat
  BY SizedIs, SizeSmall
<1>2. b \in Seq(Units) /\ Size(b) = len /\ all = <<Num(len)>> \o b
  BY TextSize DEF Sized
<1>3. n \in 0..Size(all) /\ n < 4 + len /\ n \in Nat
  <2> HIDE DEF all, len
  <2> QED BY <1>1 DEF all
<1>4. Waits.verdict # "ok" /\ Refuses.verdict # "ok"
  BY DEF Waits, Refuses
<1> HIDE DEF all, len
<1>5. Size(part) = n
  BY <1>1, <1>3, Parts
<1>6. CASE n < 4
  <2> HIDE DEF part
  <2>1. SizedAt(part, stray) = Waits
    BY <1>5, <1>6, Zenon DEF SizedAt
  <2> QED BY <1>4, <2>1 DEF part, all
<1>7. CASE ~(n < 4)
  <2> DEFINE m == n - 4
             rest == Take(b, m)
  <2>1. m \in 0..Size(b) /\ n = 4 + m /\ m < len
    BY <1>1, <1>2, <1>3, <1>7
  <2> HIDE DEF m
  <2>2. part = <<Num(len)>> \o rest
    BY <1>1, <1>2, <2>1, NumFurther, Zenon
  <2>3. rest \in Seq(Units) /\ Size(rest) = m
    BY <1>2, <2>1, Parts
  <2> HIDE DEF rest, part
  <2>4. ReadNum(Take(part, 4), stray) = len /\ Drop(part, 4) = rest
    BY <1>1, <2>2, <2>3, HeadNum
  <2>5. Size(rest) < len
    BY <2>1, <2>3
  <2>6. SizedAt(part, stray) \in {Waits, Refuses}
    BY <1>5, <1>7, <2>4, <2>5, Zenon DEF SizedAt
  <2>7. SizedAt(part, stray).verdict # "ok"
    BY <1>4, <2>6, Zenon
  <2> QED BY <2>7 DEF part, all
<1> QED BY <1>6, <1>7

(* SizedAt gives a verdict on every stream.                                 *)
LEMMA SizedVerdict ==
    ASSUME NEW stray \in Nat, NEW us \in Seq(Units)
    PROVE  SizedAt(us, stray) \in Verdicts
<1>1. Waits \in Verdicts /\ Refuses \in Verdicts
  <2>1. <<>> \in Seq(Units) /\ <<>> \in Seq(Seq(Units))
    OBVIOUS
  <2> QED BY <2>1 DEF Waits, Refuses, Verdicts
<1>2. Size(us) \in Nat
  BY EndStep
<1>3. CASE Size(us) >= 4
  <2> DEFINE n    == ReadNum(Take(us, 4), stray)
             rest == Drop(us, 4)
             ok   == [verdict |-> "ok", bodies |-> <<Take(rest, n)>>, rest |-> Drop(rest, n)]
  <2>1. n \in Nat /\ rest \in Seq(Units)
    <3>1. 4 \in 0..Size(us)
      BY <1>2, <1>3
    <3> QED BY <3>1, NumRead, Parts
  <2>2. ~(Size(us) < 4)
    BY <1>2, <1>3
  <2>3. \/ SizedAt(us, stray) \in {Waits, Refuses}
        \/ ~(Size(rest) < n) /\ SizedAt(us, stray) = ok
    BY <2>2, Zenon DEF SizedAt
  <2> HIDE DEF n, rest
  <2>4. CASE ~(Size(rest) < n) /\ SizedAt(us, stray) = ok
    <3>1. Size(rest) \in Nat
      BY <2>1, EndStep
    <3>2. n \in 0..Size(rest)
      BY <2>1, <2>4, <3>1
    <3>3. Take(rest, n) \in Seq(Units) /\ Drop(rest, n) \in Seq(Units)
      BY <2>1, <3>2, Parts
    <3>4. <<Take(rest, n)>> \in Seq(Seq(Units))
      BY <3>3
    <3>5. ok \in Verdicts
      BY <3>3, <3>4 DEF Verdicts
    <3> QED BY <2>4, <3>5
  <2> QED BY <1>1, <2>3, <2>4
<1>4. CASE ~(Size(us) >= 4)
  <2>1. Size(us) < 4
    BY <1>2, <1>4
  <2>2. SizedAt(us, stray) = Waits
    BY <2>1 DEF SizedAt
  <2> QED BY <1>1, <2>2
<1> QED BY <1>3, <1>4

(* What nsqd has after each of count bodies.                                *)
IsReading(g, us, count, stray) ==
    /\ g \in [0..count -> Verdicts]
    /\ g[0] = [verdict |-> "ok", bodies |-> <<>>, rest |-> us]
    /\ \A i \in 1..count :
          g[i] = IF g[i - 1].verdict # "ok" THEN g[i - 1]
                 ELSE [SizedAt(g[i - 1].rest, stray) EXCEPT !.bodies = g[i - 1].bodies \o @]

(* SizedTimes is the end of a chain of reads.                               *)
LEMMA SizedReading ==
    ASSUME NEW stray \in Nat, NEW us \in Seq(Units), NEW count \in Nat
    PROVE  \E g : IsReading(g, us, count, stray) /\ SizedTimes(us, count, stray) = g[count]
<1> DEFINE first   == [verdict |-> "ok", bodies |-> <<>>, rest |-> us]
           then(v) == IF v.verdict # "ok" THEN v
                      ELSE [SizedAt(v.rest, stray) EXCEPT !.bodies = v.bodies \o @]
           step    == [i \in 1..count |-> [v \in Verdicts |-> then(v)]]
<1>1. first \in Verdicts
  <2>1. <<>> \in Seq(Seq(Units))
    OBVIOUS
  <2> QED BY <2>1 DEF Verdicts
<1>2. ASSUME NEW v \in Verdicts PROVE then(v) \in Verdicts
  <2>1. v.rest \in Seq(Units) /\ v.bodies \in Seq(Seq(Units))
    BY DEF Verdicts
  <2>2. SizedAt(v.rest, stray) \in Verdicts
    BY <2>1, SizedVerdict
  <2> DEFINE next == SizedAt(v.rest, stray)
             bs   == v.bodies \o next.bodies
  <2>3. bs \in Seq(Seq(Units))
    <3>1. next.bodies \in Seq(Seq(Units))
      BY <2>2 DEF Verdicts
    <3> QED BY <2>1, <3>1
  <2>4. [next EXCEPT !.bodies = bs] \in Verdicts
    <3> HIDE DEF next, bs
    <3>1. next \in Verdicts
      BY <2>2 DEF next
    <3> QED BY <2>3, <3>1 DEF Verdicts
  <2>5. [SizedAt(v.rest, stray) EXCEPT !.bodies = v.bodies \o @] = [next EXCEPT !.bodies = bs]
    BY <2>2 DEF Verdicts
  <2> QED BY <2>4, <2>5
<1>3. step \in [1..count -> [Verdicts -> Verdicts]]
  <2> HIDE DEF then
  <2> QED BY <1>2
<1>4. \A i \in 1..count : \A v \in Verdicts : step[i][v] = then(v)
  <2> HIDE DEF then
  <2> QED OBVIOUS
<1> HIDE DEF step, then, first
<1>5. PICK g : IsRun(g, count, Verdicts, first, step)
  BY <1>1, <1>3, Recursion
<1>6. g \in [0..count -> Verdicts] /\ g[0] = first /\ \A i \in 1..count : g[i] = step[i][g[i - 1]]
  BY <1>5 DEF IsRun
<1>7. \A i \in 1..count : g[i - 1] \in Verdicts
  <2>1. \A i \in 1..count : i - 1 \in 0..count
    OBVIOUS
  <2> QED BY <1>6, <2>1
<1>8. \A i \in 1..count : g[i] = then(g[i - 1])
  BY <1>4, <1>6, <1>7
<1>9. SizedTimes(us, count, stray) = g[count]
  <2> DEFINE rec(h) == [i \in 0..count |-> IF i = 0 THEN first ELSE then(h[i - 1])]
             after  == CHOOSE h : h = rec(h)
             part   == [i \in 0..count |-> g[i]]
  <2>1. SizedTimes(us, count, stray) = after[count]
    BY DEF SizedTimes, first, then
  <2>2. part = rec(part)
    <3>1. ASSUME NEW i \in 0..count PROVE part[i] = IF i = 0 THEN first ELSE then(part[i - 1])
      BY <1>6, <1>8
    <3> QED BY <3>1
  <2>3. after = rec(after)
    <3> HIDE DEF part
    <3> QED BY <2>2
  <2>4. PICK h : /\ SizedTimes(us, count, stray) = h[count]
                 /\ \A i \in 0..count : h[i] = IF i = 0 THEN first ELSE then(h[i - 1])
    <3> HIDE DEF after
    <3>1. \A i \in 0..count : after[i] = IF i = 0 THEN first ELSE then(after[i - 1])
      BY <2>3
    <3> QED BY <2>1, <3>1
  <2>5. h[count] = g[count]
    <3> DEFINE S == {i \in Nat : i <= count => h[i] = g[i]}
    <3>1. 0 \in S
      BY <1>6, <2>4
    <3>2. ASSUME NEW i \in S PROVE i + 1 \in S
      <4>1. CASE i + 1 <= count
        <5>1. /\ i + 1 \in 1..count /\ i + 1 \in 0..count /\ i + 1 # 0
              /\ (i + 1) - 1 = i /\ h[i] = g[i]
          BY <4>1
        <5>2. h[i + 1] = then(h[i]) /\ g[i + 1] = then(g[i])
          BY <1>8, <2>4, <5>1
        <5>3. h[i + 1] = g[i + 1]
          BY <5>1, <5>2, Zenon
        <5> QED BY <5>3
      <4> QED BY <4>1
    <3>3. S = Nat
      <4>1. S \in SUBSET Nat
        OBVIOUS
      <4> HIDE DEF S
      <4> QED BY <3>1, <3>2, <4>1, SetInduction
    <3>4. count \in S
      <4> HIDE DEF S
      <4> QED BY <3>3
    <3> QED BY <3>4
  <2> QED BY <2>4, <2>5
<1>10. IsReading(g, us, count, stray)
  <2>1. \A i \in 1..count :
           g[i] = IF g[i - 1].verdict # "ok" THEN g[i - 1]
                  ELSE [SizedAt(g[i - 1].rest, stray) EXCEPT !.bodies = g[i - 1].bodies \o @]
    BY <1>8, Zenon DEF then
  <2> QED BY <1>6, <2>1, Zenon DEF IsReading, first
<1> QED BY <1>9, <1>10

(* Bodies with their sizes, end to end.                                     *)
BodyBytes  == [b \in Seq(Chars) |-> Sized(b)]
Bodied(bs) == Joined(BodyBytes, bs)

(* Bodied has the equations of Joins.                                       *)
LEMMA BodiedIs ==
    /\ Bodied(<<>>) = <<>>
    /\ \A bs \in Seq(Seq(Chars)) : Bodied(bs) \in Seq(Units) /\ Size(Bodied(bs)) \in Nat
    /\ \A bs \in Seq(Seq(Chars)), b \in Seq(Chars) :
          Bodied(<<b>> \o bs) = Sized(b) \o Bodied(bs)
<1>1. \A b \in Seq(Chars) : Sized(b) \in Seq(Units)
  BY SizedIs, SizeSmall
<1>2. BodyBytes \in [Seq(Chars) -> Seq(Units)]
  BY <1>1 DEF BodyBytes
<1>3. \A b \in Seq(Chars) : BodyBytes[b] = Sized(b)
  BY DEF BodyBytes
<1>4. /\ Bodied(<<>>) = <<>>
      /\ \A bs \in Seq(Seq(Chars)) : Bodied(bs) \in Seq(Units)
      /\ \A bs \in Seq(Seq(Chars)), b \in Seq(Chars) :
            Bodied(<<b>> \o bs) = BodyBytes[b] \o Bodied(bs)
  <2>1. Joins(BodyBytes, Seq(Chars), Units)
    BY <1>2, JoinedIs
  <2> QED BY <2>1, Zenon DEF Joins, Bodied
<1>5. \A bs \in Seq(Seq(Chars)) : Size(Bodied(bs)) \in Nat
  BY <1>4, EndStep
<1> QED BY <1>3, <1>4, <1>5, Zenon

(* The bodies that are done and those to do, one further.                   *)
LEMMA NextBody ==
    ASSUME NEW T, NEW done \in Seq(T), NEW todo \in Seq(T), Len(done) < Len(done \o todo)
    PROVE  \E b \in T, more \in Seq(T) :
              /\ todo = <<b>> \o more
              /\ done \o todo = (done \o <<b>>) \o more
              /\ done \o <<b>> \in Seq(T) /\ Len(done \o <<b>>) = Len(done) + 1
<1>1. Len(todo) \in Nat /\ Len(todo) # 0
  BY EmptySeq
<1> DEFINE b    == todo[1]
           more == SubSeq(todo, 2, Len(todo))
<1>2. b \in T /\ more \in Seq(T) /\ <<b>> \in Seq(T)
  BY <1>1
<1>3. todo = <<b>> \o more
  <2>1. 1 \in 1..Len(todo) /\ Len(todo) \in 1..Len(todo) /\ 1 + 1 = 2
    BY <1>1
  <2>2. SubSeq(todo, 1, Len(todo)) = <<b>> \o SubSeq(todo, 1 + 1, Len(todo))
    BY <2>1, SubSeqRecursiveFirst
  <2>3. SubSeq(todo, 1, Len(todo)) = todo
    BY SubSeqFull
  <2> QED BY <2>1, <2>2, <2>3
<1>4. \A x, y, z \in Seq(T) : (x \o y) \o z = x \o (y \o z)
  BY ConcatAssociative, SMTT(60)
<1> HIDE DEF b, more
<1>5. done \o todo = (done \o <<b>>) \o more
  BY <1>2, <1>3, <1>4, Zenon
<1>6. done \o <<b>> \in Seq(T) /\ Len(done \o <<b>>) = Len(done) + 1
  BY <1>2
<1> QED BY <1>2, <1>3, <1>5, <1>6, Zenon

(* When as many bodies are read as there are, none is left.                 *)
LEMMA NoBody ==
    ASSUME NEW T, NEW done \in Seq(T), NEW todo \in Seq(T), Len(done) = Len(done \o todo)
    PROVE  todo = <<>> /\ done \o todo = done
<1>1. Len(todo) = 0
  OBVIOUS
<1>2. todo = <<>>
  BY <1>1
<1>3. done \o <<>> = done
  BY ConcatEmptySeq
<1> QED BY <1>2, <1>3, Zenon

(* All bodies of a command are read, whatever follows.                      *)
LEMMA BodiesHeard ==
    ASSUME NEW stray \in Nat, NEW bs \in Seq(Seq(Chars)), NEW us \in Seq(Units),
           SizedTimes(Bodied(bs) \o us, Len(bs), stray).verdict = "ok"
    PROVE  /\ SizedTimes(Bodied(bs) \o us, Len(bs), stray).bodies = bs
           /\ SizedTimes(Bodied(bs) \o us, Len(bs), stray).rest = us
<1> DEFINE n   == Len(bs)
           all == Bodied(bs) \o us
           At(v, i) == \E done, todo \in Seq(Seq(Chars)) :
                          /\ bs = done \o todo /\ Len(done) = i
                          /\ v.bodies = done /\ v.rest = Bodied(todo) \o us
<1>1. n \in Nat /\ all \in Seq(Units)
  BY BodiedIs, Streams
<1>2. PICK g : IsReading(g, all, n, stray) /\ SizedTimes(all, n, stray) = g[n]
  <2> HIDE DEF n, all
  <2> QED BY <1>1, SizedReading
<1>3. /\ g[0] = [verdict |-> "ok", bodies |-> <<>>, rest |-> all]
      /\ \A i \in 1..n :
            g[i] = IF g[i - 1].verdict # "ok" THEN g[i - 1]
                   ELSE [SizedAt(g[i - 1].rest, stray) EXCEPT !.bodies = g[i - 1].bodies \o @]
  BY <1>2 DEF IsReading
<1>4. At(g[0], 0)
  <2>1. <<>> \in Seq(Seq(Chars)) /\ bs = <<>> \o bs /\ Len(<<>>) = 0
    BY ConcatEmptySeq
  <2>2. g[0].bodies = <<>> /\ g[0].rest = Bodied(bs) \o us
    BY <1>3
  <2> QED BY <2>1, <2>2, Zenon
<1>5. ASSUME NEW i \in 1..n, g[i - 1].verdict = "ok" => At(g[i - 1], i - 1), g[i].verdict = "ok"
      PROVE  At(g[i], i)
  <2> DEFINE before == g[i - 1]
             next   == SizedAt(before.rest, stray)
  <2>1. before.verdict = "ok"
    <3>1. i \in 1..n
      BY <1>5
    <3> QED BY <1>3, <1>5, <3>1, Zenon
  <2>2. g[i] = [next EXCEPT !.bodies = before.bodies \o @]
    BY <1>3, <2>1
  <2>3. PICK done, todo \in Seq(Seq(Chars)) :
           /\ bs = done \o todo /\ Len(done) = i - 1
           /\ before.bodies = done /\ before.rest = Bodied(todo) \o us
    BY <1>5, <2>1
  <2>4. PICK b \in Seq(Chars), more \in Seq(Seq(Chars)) :
           /\ todo = <<b>> \o more
           /\ done \o todo = (done \o <<b>>) \o more
           /\ done \o <<b>> \in Seq(Seq(Chars)) /\ Len(done \o <<b>>) = Len(done) + 1
    <3>1. Len(done) < Len(done \o todo)
      <4>1. Len(done \o todo) = n
        BY <2>3
      <4>2. i - 1 < n
        BY <1>1
      <4> QED BY <2>3, <4>1, <4>2
    <3> QED BY <3>1, NextBody, ZenonT(60)
  <2>5. before.rest = Sized(b) \o (Bodied(more) \o us)
    <3>1. Bodied(todo) = Sized(b) \o Bodied(more)
      BY <2>4, BodiedIs, Zenon
    <3>2. Sized(b) \in Seq(Units) /\ Bodied(more) \in Seq(Units)
      BY BodiedIs, SizedIs
    <3>3. (Sized(b) \o Bodied(more)) \o us = Sized(b) \o (Bodied(more) \o us)
      BY <3>2, Assoc, Zenon
    <3> QED BY <2>3, <3>1, <3>3, Zenon
  <2>6. Bodied(more) \o us \in Seq(Units) /\ next \in Verdicts
    <3>1. Bodied(more) \in Seq(Units) /\ Bodied(todo) \in Seq(Units)
      BY BodiedIs
    <3>2. before.rest \in Seq(Units)
      BY <2>3, <3>1, Streams, Zenon
    <3> QED BY <3>1, <3>2, Streams, SizedVerdict, Zenon
  <2> HIDE DEF next, before
  <2>7. next.verdict = "ok"
    <3>1. [next EXCEPT !.bodies = before.bodies \o @].verdict = next.verdict
      BY <2>6 DEF Verdicts
    <3> QED BY <1>5, <2>2, <3>1, Zenon
  <2>8. next = [verdict |-> "ok", bodies |-> <<b>>, rest |-> Bodied(more) \o us]
    <3>1. SizedAt(Sized(b) \o (Bodied(more) \o us), stray).verdict = "ok"
      BY <2>5, <2>7, Zenon DEF next
    <3> QED BY <2>5, <2>6, <3>1, SizedHeard, Zenon DEF next
  <2>9. g[i].bodies = done \o <<b>> /\ g[i].rest = Bodied(more) \o us
    <3> DEFINE new == done \o <<b>>
               rest == Bodied(more) \o us
    <3>1. g[i] = [next EXCEPT !.bodies = before.bodies \o next.bodies]
      BY <2>2, <2>8
    <3>2. before.bodies \o next.bodies = new /\ next.rest = rest
      BY <2>3, <2>8
    <3> HIDE DEF new, rest
    <3>3. g[i] = [next EXCEPT !.bodies = new]
      BY <3>1, <3>2, Zenon
    <3>4. g[i].bodies = new /\ g[i].rest = next.rest
      BY <2>6, <3>3 DEF Verdicts
    <3> QED BY <3>2, <3>4, Zenon DEF new, rest
  <2>10. Len(done \o <<b>>) = i
    <3>1. Len(done) = i - 1 /\ Len(done \o <<b>>) = Len(done) + 1
      BY <2>3, <2>4
    <3> QED BY <3>1
  <2>11. bs = (done \o <<b>>) \o more
    BY <2>3, <2>4, Zenon
  <2> QED BY <2>4, <2>9, <2>10, <2>11, Zenon
<1> HIDE DEF n, all, At
<1>6. g[n].verdict = "ok" => At(g[n], n)
  <2> DEFINE S == {i \in Nat : i <= n => (g[i].verdict = "ok" => At(g[i], i))}
  <2>1. 0 \in S
    BY <1>4
  <2>2. ASSUME NEW i \in S PROVE i + 1 \in S
    <3>1. CASE i + 1 <= n
      <4> DEFINE j == i + 1
      <4>1. j \in 1..n /\ j - 1 = i /\ i <= n
        BY <1>1, <3>1
      <4>2. g[i].verdict = "ok" => At(g[i], i)
        BY <4>1
      <4> HIDE DEF j
      <4>3. g[j - 1].verdict = "ok" => At(g[j - 1], j - 1)
        BY <4>1, <4>2
      <4>4. g[j].verdict = "ok" => At(g[j], j)
        BY <1>5, <4>1, <4>3
      <4> QED BY <4>4 DEF j
    <3> QED BY <3>1
  <2>3. S = Nat
    <3>1. S \in SUBSET Nat
      OBVIOUS
    <3> HIDE DEF S
    <3> QED BY <2>1, <2>2, <3>1, SetInduction
  <2>4. n \in S /\ n <= n
    <3> HIDE DEF S
    <3> QED BY <1>1, <2>3
  <2> QED BY <2>4
<1>7. At(g[n], n)
  BY <1>2, <1>6 DEF all, n
<1>8. PICK done, todo \in Seq(Seq(Chars)) :
         /\ bs = done \o todo /\ Len(done) = n
         /\ g[n].bodies = done /\ g[n].rest = Bodied(todo) \o us
  BY <1>7 DEF At
<1>9. todo = <<>> /\ bs = done
  <2>1. Len(done) = Len(done \o todo)
    BY <1>8 DEF n
  <2> QED BY <1>8, <2>1, NoBody, Zenon
<1>10. Bodied(todo) \o us = us
  BY <1>9, BodiedIs, NoStream, Zenon
<1>11. g[n].bodies = bs /\ g[n].rest = us
  BY <1>8, <1>9, <1>10, Zenon
<1> QED BY <1>2, <1>11, Zenon DEF all, n

(* Not all bodies are read while bytes are missing.                         *)
LEMMA BodiesUnheard ==
    ASSUME NEW stray \in Nat, NEW bs \in Seq(Seq(Chars)), NEW size \in 0..(Size(Bodied(bs)) - 1)
    PROVE  SizedTimes(Take(Bodied(bs), size), Len(bs), stray).verdict # "ok"
<1> DEFINE n   == Len(bs)
           all == Take(Bodied(bs), size)
           At(v, i) == \E done, todo \in Seq(Seq(Chars)) :
                          /\ bs = done \o todo /\ Len(done) = i
                          /\ \E m \in 0..(Size(Bodied(todo)) - 1) : v.rest = Take(Bodied(todo), m)
<1>1. n \in Nat /\ all \in Seq(Units)
  <2>1. Bodied(bs) \in Seq(Units) /\ Size(Bodied(bs)) \in Nat
    BY BodiedIs
  <2>2. size \in 0..Size(Bodied(bs))
    BY <2>1
  <2> QED BY <2>1, <2>2, Parts
<1>2. PICK g : IsReading(g, all, n, stray) /\ SizedTimes(all, n, stray) = g[n]
  <2> HIDE DEF n, all
  <2> QED BY <1>1, SizedReading
<1>3. /\ g \in [0..n -> Verdicts]
      /\ g[0] = [verdict |-> "ok", bodies |-> <<>>, rest |-> all]
      /\ \A i \in 1..n :
            g[i] = IF g[i - 1].verdict # "ok" THEN g[i - 1]
                   ELSE [SizedAt(g[i - 1].rest, stray) EXCEPT !.bodies = g[i - 1].bodies \o @]
  BY <1>2 DEF IsReading
<1>4. At(g[0], 0)
  <2>1. <<>> \in Seq(Seq(Chars)) /\ bs = <<>> \o bs /\ Len(<<>>) = 0
    BY ConcatEmptySeq
  <2>2. g[0].rest = Take(Bodied(bs), size)
    BY <1>3
  <2> QED BY <2>1, <2>2, Zenon
<1>5. ASSUME NEW i \in 1..n, g[i - 1].verdict = "ok" => At(g[i - 1], i - 1), g[i].verdict = "ok"
      PROVE  At(g[i], i)
  <2> DEFINE before == g[i - 1]
             next   == SizedAt(before.rest, stray)
  <2>1. before.verdict = "ok"
    BY <1>3, <1>5, Zenon
  <2>2. g[i] = [next EXCEPT !.bodies = before.bodies \o @]
    BY <1>3, <2>1
  <2>3. PICK done, todo \in Seq(Seq(Chars)) :
           /\ bs = done \o todo /\ Len(done) = i - 1
           /\ \E m \in 0..(Size(Bodied(todo)) - 1) : before.rest = Take(Bodied(todo), m)
    BY <1>5, <2>1
  <2>4. PICK b \in Seq(Chars), more \in Seq(Seq(Chars)) :
           /\ todo = <<b>> \o more
           /\ done \o todo = (done \o <<b>>) \o more
           /\ done \o <<b>> \in Seq(Seq(Chars)) /\ Len(done \o <<b>>) = Len(done) + 1
    <3>1. Len(done) < Len(done \o todo)
      <4>1. Len(done \o todo) = n
        BY <2>3
      <4>2. i - 1 < n
        BY <1>1
      <4> QED BY <2>3, <4>1, <4>2
    <3> QED BY <3>1, NextBody, ZenonT(60)
  <2>5. Bodied(todo) = Sized(b) \o Bodied(more)
    BY <2>4, BodiedIs, Zenon
  <2>6. PICK m \in 0..(Size(Bodied(todo)) - 1) : before.rest = Take(Bodied(todo), m)
    BY <2>3
  <2>7. before.rest \in Seq(Units) /\ next \in Verdicts
    <3>1. i - 1 \in 0..n
      BY <1>1
    <3>2. before \in Verdicts
      BY <1>3, <3>1
    <3>3. before.rest \in Seq(Units)
      BY <3>2 DEF Verdicts
    <3> QED BY <3>3, SizedVerdict
  <2> DEFINE head == Sized(b)
             tail == Bodied(more)
  <2>8. head \in Seq(Units) /\ tail \in Seq(Units) /\ Size(tail) \in Nat /\ Size(head) \in Nat
    BY BodiedIs, SizedIs, EndStep
  <2>9. before.rest = Take(head \o tail, m)
    BY <2>5, <2>6, Zenon
  <2>10. Size(Bodied(todo)) = Size(head) + Size(tail)
    BY <2>5, <2>8, SizeConcat, Zenon
  <2>11. m \in Nat /\ m < Size(head) + Size(tail)
    <3> DEFINE x == Size(Bodied(todo))
    <3>1. m \in 0..(x - 1)
      BY <2>6
    <3> HIDE DEF x, head, tail
    <3>2. x = Size(head) + Size(tail)
      BY <2>10 DEF x
    <3> QED BY <2>8, <3>1, <3>2
  <2> HIDE DEF next, before, head, tail
  <2>12. next.verdict = "ok"
    <3>1. [next EXCEPT !.bodies = before.bodies \o @].verdict = next.verdict
      BY <2>7 DEF Verdicts
    <3> QED BY <1>5, <2>2, <3>1, Zenon
  <2>13. m >= Size(head)
    <3> SUFFICES ASSUME ~(m >= Size(head)) PROVE FALSE
      OBVIOUS
    <3>1. m \in 0..Size(head) /\ m \in 0..(Size(head) - 1)
      BY <2>8, <2>11
    <3>2. before.rest = Take(head, m)
      BY <2>8, <2>9, <3>1, CutSooner, Zenon
    <3>3. SizedAt(Take(head, m), stray).verdict # "ok"
      BY <3>1, SizedUnheard DEF head
    <3> QED BY <2>12, <3>2, <3>3, Zenon DEF next
  <2> DEFINE k == m - Size(head)
  <2>14. k \in 0..Size(tail) /\ k \in 0..(Size(tail) - 1) /\ m = Size(head) + k
    BY <2>8, <2>11, <2>13, SMTT(60)
  <2> HIDE DEF k
  <2>15. before.rest = head \o Take(tail, k)
    BY <2>8, <2>9, <2>14, CutFurther, Zenon
  <2>16. Take(tail, k) \in Seq(Units)
    BY <2>8, <2>14, Parts
  <2>17. next.rest = Take(tail, k)
    <3> DEFINE us == Take(tail, k)
    <3> HIDE DEF us
    <3>1. us \in Seq(Units) /\ before.rest = Sized(b) \o us
      BY <2>15, <2>16 DEF us, head
    <3>2. SizedAt(Sized(b) \o us, stray).verdict = "ok"
      BY <2>12, <3>1, Zenon DEF next
    <3>3. SizedAt(Sized(b) \o us, stray) = [verdict |-> "ok", bodies |-> <<b>>, rest |-> us]
      BY <3>1, <3>2, SizedHeard
    <3>4. next.rest = us
      BY <3>1, <3>3 DEF next
    <3> QED BY <3>4 DEF us
  <2>18. g[i].rest = Take(Bodied(more), k)
    <3>1. [next EXCEPT !.bodies = before.bodies \o @].rest = next.rest
      BY <2>7 DEF Verdicts
    <3> QED BY <2>2, <2>17, <3>1, Zenon DEF tail
  <2>19. Len(done \o <<b>>) = i
    <3>1. Len(done) = i - 1 /\ Len(done \o <<b>>) = Len(done) + 1
      BY <2>3, <2>4
    <3> QED BY <3>1
  <2>20. bs = (done \o <<b>>) \o more
    BY <2>3, <2>4, Zenon
  <2>21. k \in 0..(Size(Bodied(more)) - 1)
    BY <2>14 DEF tail
  <2> QED BY <2>4, <2>18, <2>19, <2>20, <2>21, Zenon
<1> HIDE DEF n, all, At
<1>6. g[n].verdict = "ok" => At(g[n], n)
  <2> DEFINE S == {i \in Nat : i <= n => (g[i].verdict = "ok" => At(g[i], i))}
  <2>1. 0 \in S
    BY <1>4
  <2>2. ASSUME NEW i \in S PROVE i + 1 \in S
    <3>1. CASE i + 1 <= n
      <4> DEFINE j == i + 1
      <4>1. j \in 1..n /\ j - 1 = i /\ i <= n
        BY <1>1, <3>1
      <4>2. g[i].verdict = "ok" => At(g[i], i)
        BY <4>1
      <4> HIDE DEF j
      <4>3. g[j - 1].verdict = "ok" => At(g[j - 1], j - 1)
        BY <4>1, <4>2
      <4>4. g[j].verdict = "ok" => At(g[j], j)
        BY <1>5, <4>1, <4>3
      <4> QED BY <4>4 DEF j
    <3> QED BY <3>1
  <2>3. S = Nat
    <3>1. S \in SUBSET Nat
      OBVIOUS
    <3> HIDE DEF S
    <3> QED BY <2>1, <2>2, <3>1, SetInduction
  <2>4. n \in S /\ n <= n
    <3> HIDE DEF S
    <3> QED BY <1>1, <2>3
  <2> QED BY <2>4
<1>7. ~At(g[n], n)
  <2> SUFFICES ASSUME At(g[n], n) PROVE FALSE
    OBVIOUS
  <2>1. PICK done, todo \in Seq(Seq(Chars)) :
           /\ bs = done \o todo /\ Len(done) = n
           /\ \E m \in 0..(Size(Bodied(todo)) - 1) : g[n].rest = Take(Bodied(todo), m)
    BY DEF At
  <2>2. todo = <<>>
    <3>1. Len(done) = Len(done \o todo)
      BY <2>1 DEF n
    <3> QED BY <3>1, NoBody, Zenon
  <2>3. Size(Bodied(todo)) = 0
    BY <2>2, BodiedIs, SizeSmall, Zenon
  <2> QED BY <2>1, <2>3
<1> QED BY <1>2, <1>6, <1>7, Zenon DEF all, n

(* The bodies of MPUB, after the size of all that follows and their number. *)
LEMMA MultiIs ==
    ASSUME NEW bs \in Seq(Seq(Chars))
    PROVE  /\ Multi(bs) = <<Num(4 + Size(Bodied(bs)))>> \o (<<Num(Len(bs))>> \o Bodied(bs))
           /\ Multi(bs) \in Seq(Units) /\ Size(Multi(bs)) = 8 + Size(Bodied(bs))
           /\ Bodied(bs) \in Seq(Units) /\ Size(Bodied(bs)) \in Nat /\ Len(bs) \in Nat
           /\ 4 + Size(Bodied(bs)) \in Nat
<1> DEFINE all == Bodied(bs)
<1>1. all \in Seq(Units) /\ Size(all) \in Nat /\ Len(bs) \in Nat /\ 4 + Size(all) \in Nat
  BY BodiedIs
<1>2. FlattenSeq([i \in DOMAIN bs |-> Sized(bs[i])]) = all
  <2>1. [i \in DOMAIN bs |-> Sized(bs[i])] = [i \in DOMAIN bs |-> BodyBytes[bs[i]]]
    <3>1. \A i \in DOMAIN bs : bs[i] \in Seq(Chars)
      OBVIOUS
    <3>2. \A i \in DOMAIN bs : Sized(bs[i]) = BodyBytes[bs[i]]
      BY <3>1 DEF BodyBytes
    <3> QED BY <3>2
  <2> QED BY <2>1 DEF Bodied, Joined
<1> DEFINE a == Num(4 + Size(all))
           b == Num(Len(bs))
<1>3. Multi(bs) = <<a, b>> \o all
  <2> HIDE DEF all
  <2> QED BY <1>2, Zenon DEF Multi
<1>4. a \in Units /\ b \in Units
  BY <1>1 DEF Num, Units
<1>5. <<Num(Len(bs))>> \o all \in Seq(Units) /\ Size(<<Num(Len(bs))>> \o all) = 4 + Size(all)
  BY <1>1, HeadNum
<1>6. /\ <<Num(4 + Size(all))>> \o (<<Num(Len(bs))>> \o all) \in Seq(Units)
      /\ Size(<<Num(4 + Size(all))>> \o (<<Num(Len(bs))>> \o all)) = 4 + (4 + Size(all))
  BY <1>1, <1>5, HeadNum, ZenonT(60)
<1> HIDE DEF all, a, b
<1>7. Multi(bs) = <<a>> \o (<<b>> \o all)
  BY <1>1, <1>3, <1>4, TwoUnits, Zenon
<1>8. Multi(bs) = <<Num(4 + Size(all))>> \o (<<Num(Len(bs))>> \o all)
  BY <1>7 DEF a, b
<1>9. 4 + (4 + Size(all)) = 8 + Size(all)
  BY <1>1
<1> QED BY <1>1, <1>6, <1>8, <1>9, Zenon DEF all

(* What MultiAt finds after two numbers.                                    *)
LEMMA MultiReads ==
    ASSUME NEW stray \in Nat, NEW total \in Nat, NEW count \in Nat, NEW us \in Seq(Units),
           MultiAt(<<Num(total)>> \o (<<Num(count)>> \o us), stray).verdict = "ok"
    PROVE  MultiAt(<<Num(total)>> \o (<<Num(count)>> \o us), stray) =
               SizedTimes(us, count, stray)
<1> DEFINE x   == <<Num(count)>> \o us
           all == <<Num(total)>> \o x
<1>1. /\ x \in Seq(Units) /\ Size(x) = 4 + Size(us) /\ Size(us) \in Nat
      /\ Drop(x, 4) = us /\ ReadNum(Take(x, 4), stray) = count
  BY HeadNum
<1>2. 4 \in 0..Size(x) /\ 4 + 4 = 8
  <2> HIDE DEF x
  <2> QED BY <1>1
<1> HIDE DEF x
<1>3. Size(all) = 4 + Size(x) /\ Drop(all, 4) = x /\ ReadNum(Take(all, 4), stray) = total
  BY <1>1, HeadNum
<1>4. Drop(all, 8) = us
  <2>1. Drop(all, 4 + 4) = Drop(x, 4)
    BY <1>1, <1>2, NumFurther, Zenon
  <2> QED BY <1>1, <1>2, <2>1
<1>5. MultiAt(all, stray).verdict = "ok"
  BY DEF x
<1> HIDE DEF all
<1>6. ~(Size(all) < 8)
  BY <1>1, <1>3
<1>7. Refuses.verdict # "ok"
  BY DEF Refuses
<1>8. ~(total > MaxBody \/ count \notin 1..((total - 4) \div 5))
  BY <1>1, <1>3, <1>5, <1>6, <1>7, Zenon DEF MultiAt
<1>9. MultiAt(all, stray) = SizedTimes(us, count, stray)
  BY <1>1, <1>3, <1>4, <1>6, <1>8, Zenon DEF MultiAt
<1> QED BY <1>9 DEF all, x

(* The bodies of MPUB, when they are heard, are heard as they are.          *)
LEMMA MultiHeard ==
    ASSUME NEW stray \in Nat, NEW bs \in Seq(Seq(Chars)), NEW us \in Seq(Units),
           MultiAt(Multi(bs) \o us, stray).verdict = "ok"
    PROVE  /\ MultiAt(Multi(bs) \o us, stray).bodies = bs
           /\ MultiAt(Multi(bs) \o us, stray).rest = us
<1> DEFINE total == 4 + Size(Bodied(bs))
           count == Len(bs)
           all   == Bodied(bs)
           v     == <<Num(total)>>
           w     == <<Num(count)>>
<1>1. Multi(bs) = v \o (w \o all) /\ total \in Nat /\ count \in Nat /\ all \in Seq(Units)
  BY MultiIs
<1>2. v \in Seq(Units) /\ w \in Seq(Units)
  <2> HIDE DEF total, count
  <2>1. Num(total) \in Units /\ Num(count) \in Units
    BY <1>1 DEF Num, Units
  <2> QED BY <2>1, SizeSmall
<1> HIDE DEF total, count, all, v, w
<1>3. Multi(bs) \o us = v \o (w \o (all \o us))
  <2>1. w \o all \in Seq(Units) /\ all \o us \in Seq(Units)
    BY <1>1, <1>2, Streams, Zenon
  <2>2. (v \o (w \o all)) \o us = v \o ((w \o all) \o us)
    BY <1>2, <2>1, Assoc, Zenon
  <2>3. (w \o all) \o us = w \o (all \o us)
    BY <1>1, <1>2, Assoc, Zenon
  <2> QED BY <1>1, <2>2, <2>3, Zenon
<1>4. all \o us \in Seq(Units)
  BY <1>1, Streams, Zenon
<1>5. MultiAt(Multi(bs) \o us, stray) = SizedTimes(all \o us, count, stray)
  <2>1. Multi(bs) \o us = <<Num(total)>> \o (<<Num(count)>> \o (all \o us))
    BY <1>3 DEF v, w
  <2>2. MultiAt(<<Num(total)>> \o (<<Num(count)>> \o (all \o us)), stray).verdict = "ok"
    BY <2>1, Zenon
  <2>3. MultiAt(<<Num(total)>> \o (<<Num(count)>> \o (all \o us)), stray) =
            SizedTimes(all \o us, count, stray)
    BY <1>1, <1>4, <2>2, MultiReads
  <2> QED BY <2>1, <2>3, Zenon
<1>6. SizedTimes(Bodied(bs) \o us, Len(bs), stray).verdict = "ok"
  BY <1>5, Zenon DEF all, count
<1>7. /\ SizedTimes(Bodied(bs) \o us, Len(bs), stray).bodies = bs
      /\ SizedTimes(Bodied(bs) \o us, Len(bs), stray).rest = us
  BY <1>6, BodiesHeard
<1> QED BY <1>5, <1>7, Zenon DEF all, count

(* No proper part of them is heard.                                         *)
LEMMA MultiUnheard ==
    ASSUME NEW stray \in Nat, NEW bs \in Seq(Seq(Chars)), NEW n \in 0..(Size(Multi(bs)) - 1)
    PROVE  MultiAt(Take(Multi(bs), n), stray).verdict # "ok"
<1> DEFINE total == 4 + Size(Bodied(bs))
           count == Len(bs)
           bytes == Bodied(bs)
           x     == <<Num(count)>> \o bytes
           all   == Multi(bs)
           part  == Take(all, n)
<1>1. /\ all = <<Num(total)>> \o x /\ total \in Nat /\ count \in Nat
      /\ bytes \in Seq(Units) /\ Size(bytes) \in Nat
      /\ all \in Seq(Units) /\ Size(all) = 8 + Size(bytes)
  BY MultiIs
<1>2. x \in Seq(Units) /\ Size(x) = 4 + Size(bytes)
  BY <1>1, HeadNum
<1>3. n \in 0..Size(all) /\ n \in Nat /\ n < 8 + Size(bytes)
  <2> HIDE DEF all, bytes
  <2> QED BY <1>1, SMTT(60) DEF all
<1> HIDE DEF all, x, total, count
<1>4. Size(part) = n
  BY <1>1, <1>3, Parts
<1>5. CASE n < 8
  <2> HIDE DEF part
  <2>1. MultiAt(part, stray) = Waits
    BY <1>4, <1>5, Zenon DEF MultiAt
  <2>2. Waits.verdict # "ok"
    BY DEF Waits
  <2> QED BY <2>1, <2>2, Zenon DEF part, all
<1>6. CASE ~(n < 8)
  <2> DEFINE m == n - 8
             k == 4 + m
             rest == Take(bytes, m)
  <2>1. m \in 0..Size(bytes) /\ m \in 0..(Size(bytes) - 1) /\ k \in 0..Size(x) /\ n = 4 + k
    <3> HIDE DEF bytes
    <3> QED BY <1>1, <1>2, <1>3, <1>6
  <2>2. rest \in Seq(Units)
    <3> HIDE DEF m
    <3> QED BY <1>1, <2>1, Parts
  <2>3. Take(x, k) = <<Num(count)>> \o rest
    <3> HIDE DEF m
    <3> QED BY <1>1, <2>1, NumFurther, Zenon DEF x
  <2>4. part = <<Num(total)>> \o Take(x, k)
    <3> HIDE DEF k
    <3> QED BY <1>1, <1>2, <2>1, NumFurther, Zenon
  <2>5. SizedTimes(rest, count, stray).verdict # "ok"
    <3> HIDE DEF m
    <3> QED BY <2>1, BodiesUnheard DEF count
  <2> HIDE DEF rest, part, m, k
  <2>6. part = <<Num(total)>> \o (<<Num(count)>> \o rest)
    BY <2>3, <2>4, Zenon
  <2>7. MultiAt(part, stray).verdict # "ok"
    <3> SUFFICES ASSUME MultiAt(part, stray).verdict = "ok" PROVE FALSE
      OBVIOUS
    <3>1. MultiAt(part, stray) = SizedTimes(rest, count, stray)
      BY <1>1, <2>2, <2>6, MultiReads, Zenon
    <3> QED BY <2>5, <3>1, Zenon
  <2> QED BY <2>7 DEF part, all
<1> QED BY <1>5, <1>6

(* The commands that commands.rs writes, and what follows their lines.      *)
OneBody  == [name : WithBody, bodies : {<<b>> : b \in Seq(Chars)}]
Many     == [name : {"MPUB"}, bodies : Seq(Seq(Chars))]
Bare     == [name : {"MAGIC", "SUB", "RDY", "CLS"}, bodies : {<<>>}]
Commands == OneBody \cup Many \cup Bare

Args(c) ==
    IF c.name \in WithBody THEN Sized(c.bodies[1])
    ELSE IF c.name = "MPUB" THEN Multi(c.bodies) ELSE <<>>

ArgsAt(name, us, stray) ==
    IF name \in WithBody THEN SizedAt(us, stray)
    ELSE IF name = "MPUB" THEN MultiAt(us, stray)
    ELSE [verdict |-> "ok", bodies |-> <<>>, rest |-> us]

(* What a command is, by its name.                                          *)
LEMMA CommandIs ==
    ASSUME NEW c \in Commands
    PROVE  /\ c = Command(c.name, c.bodies) /\ Line(c.name) \in Units
           /\ \/ c.name \in WithBody /\ \E b \in Seq(Chars) : c.bodies = <<b>>
              \/ c.name = "MPUB" /\ c.name \notin WithBody /\ c.bodies \in Seq(Seq(Chars))
              \/ c.name \notin WithBody /\ c.name # "MPUB" /\ c.bodies = <<>>
<1>1. CASE c \in OneBody
  <2>1. c = Command(c.name, c.bodies) /\ c.name \in WithBody
    BY <1>1 DEF OneBody, Command
  <2>2. \E b \in Seq(Chars) : c.bodies = <<b>>
    BY <1>1 DEF OneBody
  <2>3. Line(c.name) \in Units
    BY <2>1 DEF Line, Units, Values, WithBody
  <2> QED BY <2>1, <2>2, <2>3
<1>2. CASE c \in Many
  <2>1. c = Command(c.name, c.bodies) /\ c.name = "MPUB" /\ c.bodies \in Seq(Seq(Chars))
    BY <1>2 DEF Many, Command
  <2>2. Line("MPUB") \in Units /\ "MPUB" \notin WithBody
    BY DEF Line, Units, Values, WithBody
  <2> QED BY <2>1, <2>2
<1>3. CASE c \in Bare
  <2>1. c = Command(c.name, c.bodies) /\ c.name \in {"MAGIC", "SUB", "RDY", "CLS"}
        /\ c.bodies = <<>>
    BY <1>3 DEF Bare, Command
  <2>2. Line(c.name) \in Units /\ c.name \notin WithBody /\ c.name # "MPUB"
    BY <2>1 DEF Line, Units, Values, WithBody
  <2> QED BY <2>1, <2>2
<1> QED BY <1>1, <1>2, <1>3 DEF Commands

(* The bytes of a command are its line and what follows it.                 *)
LEMMA ArgsIs ==
    ASSUME NEW c \in Commands
    PROVE  /\ ToBytes(c) = <<Line(c.name)>> \o Args(c)
           /\ Line(c.name) \in Units /\ Width(Line(c.name)) = 6
           /\ Args(c) \in Seq(Units) /\ Size(Args(c)) \in Nat
           /\ ToBytes(c) \in Seq(Units) /\ Size(ToBytes(c)) = 6 + Size(Args(c))
<1>1. ToBytes(c) = <<Line(c.name)>> \o Args(c)
  BY Zenon DEF ToBytes, Args
<1>2. Line(c.name) \in Units /\ Width(Line(c.name)) = 6
  BY CommandIs DEF Line, Width, LineSize
<1>3. Args(c) \in Seq(Units)
  <2>1. CASE c.name \in WithBody /\ \E b \in Seq(Chars) : c.bodies = <<b>>
    <3>1. PICK b \in Seq(Chars) : c.bodies = <<b>>
      BY <2>1
    <3>2. Args(c) = Sized(b)
      BY <2>1, <3>1 DEF Args
    <3> QED BY <3>2, SizedIs, SizeSmall
  <2>2. CASE c.name = "MPUB" /\ c.name \notin WithBody /\ c.bodies \in Seq(Seq(Chars))
    <3>1. Args(c) = Multi(c.bodies)
      BY <2>2 DEF Args
    <3> QED BY <2>2, <3>1, MultiIs
  <2>3. CASE c.name \notin WithBody /\ c.name # "MPUB" /\ c.bodies = <<>>
    <3>1. Args(c) = <<>>
      BY <2>3 DEF Args
    <3> QED BY <3>1, SizeSmall
  <2> QED BY <2>1, <2>2, <2>3, CommandIs, Zenon
<1> DEFINE u == Line(c.name)
           us == Args(c)
<1> HIDE DEF u, us
<1>4. u \in Units /\ Width(u) = 6 /\ us \in Seq(Units) /\ ToBytes(c) = <<u>> \o us
  BY <1>1, <1>2, <1>3 DEF u, us
<1>5. <<u>> \o us \in Seq(Units) /\ Size(<<u>> \o us) = Width(u) + Size(us) /\ Size(us) \in Nat
  BY <1>4, HeadUnit, Zenon
<1>6. ToBytes(c) \in Seq(Units) /\ Size(ToBytes(c)) = 6 + Size(us) /\ Size(us) \in Nat
  BY <1>4, <1>5, Zenon
<1> QED BY <1>1, <1>2, <1>3, <1>6, Zenon DEF us

(* A stream that begins with a line is a command's if what follows is.      *)
LEMMA LineRead ==
    ASSUME NEW stray \in Nat, NEW name, Line(name) \in Units, NEW us \in Seq(Units)
    PROVE  /\ CommandAt(<<Line(name)>> \o us, stray) = ArgsAt(name, us, stray)
           /\ (<<Line(name)>> \o us)[1][2] = name
           /\ <<Line(name)>> \o us # <<>>
<1> DEFINE u   == Line(name)
           all == <<u>> \o us
<1>1. u[1] = "line" /\ u[2] = name /\ u \in Units
  BY DEF Line
<1> HIDE DEF u
<1>2. all[1] = u /\ Tail(all) = us /\ 1 \in 1..Len(all) /\ all # <<>>
  <2>1. all \in Seq(Units) /\ Len(all) = 1 + Len(us) /\ all[1] = u /\ Len(us) \in Nat
    BY <1>1
  <2>2. 1 \in 1..Len(all) /\ all # <<>>
    <3> HIDE DEF all
    <3> QED BY <2>1
  <2>3. Tail(all) = us
    BY <1>1
  <2> QED BY <2>1, <2>2, <2>3
<1> HIDE DEF all
<1>3. ~(\A i \in 1..Len(all) : all[i][1] # "line") /\ ~(all[1][1] # "line") /\ all[1][2] = name
  BY <1>1, <1>2
<1>4. CommandAt(all, stray) = CASE name \in WithBody -> SizedAt(us, stray)
                         [] name = "MPUB"     -> MultiAt(us, stray)
                         [] OTHER -> [verdict |-> "ok", bodies |-> <<>>, rest |-> us]
  BY <1>2, <1>3, Zenon DEF CommandAt
<1>5. "MPUB" \notin WithBody
  BY DEF WithBody
<1>6. CommandAt(all, stray) = ArgsAt(name, us, stray)
  <2>1. CASE name \in WithBody
    BY <1>4, <1>5, <2>1 DEF ArgsAt
  <2>2. CASE name = "MPUB"
    BY <1>4, <1>5, <2>2 DEF ArgsAt
  <2>3. CASE name \notin WithBody /\ name # "MPUB"
    BY <1>4, <2>3 DEF ArgsAt
  <2> QED BY <2>1, <2>2, <2>3
<1> QED BY <1>2, <1>3, <1>6 DEF all, u

(* nsqd reads a command that was written, whatever follows it.              *)
THEOREM CommandHeard ==
    ASSUME NEW stray \in Nat, NEW c \in Commands, NEW us \in Seq(Units)
    PROVE  /\ ToBytes(c) \o us # <<>> /\ (ToBytes(c) \o us)[1][2] = c.name
           /\ CommandAt(ToBytes(c) \o us, stray).verdict = "ok" =>
                 /\ CommandAt(ToBytes(c) \o us, stray).bodies = c.bodies
                 /\ CommandAt(ToBytes(c) \o us, stray).rest = us
<1> DEFINE line == <<Line(c.name)>>
           args == Args(c)
           all  == args \o us
<1>1. ToBytes(c) = line \o args /\ args \in Seq(Units) /\ Line(c.name) \in Units
  BY ArgsIs
<1>2. line \in Seq(Units)
  BY <1>1, SizeSmall
<1> HIDE DEF line, args
<1>3. ToBytes(c) \o us = line \o all
  <2>1. (line \o args) \o us = line \o (args \o us)
    BY <1>1, <1>2, Assoc, Zenon
  <2> QED BY <1>1, <2>1, Zenon
<1>4. all \in Seq(Units)
  BY <1>1, Streams, Zenon
<1> HIDE DEF all
<1>5. /\ CommandAt(line \o all, stray) = ArgsAt(c.name, all, stray)
      /\ (line \o all)[1][2] = c.name /\ line \o all # <<>>
  BY <1>1, <1>4, LineRead DEF line
<1>6. ASSUME ArgsAt(c.name, all, stray).verdict = "ok"
      PROVE  /\ ArgsAt(c.name, all, stray).bodies = c.bodies
             /\ ArgsAt(c.name, all, stray).rest = us
  <2>1. CASE c.name \in WithBody /\ \E b \in Seq(Chars) : c.bodies = <<b>>
    <3>1. PICK b \in Seq(Chars) : c.bodies = <<b>>
      BY <2>1
    <3>2. all = Sized(b) \o us
      BY <2>1, <3>1 DEF Args, args, all
    <3>3. ArgsAt(c.name, all, stray) = SizedAt(Sized(b) \o us, stray)
      BY <2>1, <3>2 DEF ArgsAt
    <3>4. SizedAt(Sized(b) \o us, stray).verdict = "ok"
      BY <1>6, <3>3, Zenon
    <3>5. SizedAt(Sized(b) \o us, stray) = [verdict |-> "ok", bodies |-> <<b>>, rest |-> us]
      BY <3>4, SizedHeard
    <3> QED BY <3>1, <3>3, <3>5
  <2>2. CASE c.name = "MPUB" /\ c.name \notin WithBody /\ c.bodies \in Seq(Seq(Chars))
    <3>1. all = Multi(c.bodies) \o us
      BY <2>2 DEF Args, args, all
    <3>2. ArgsAt(c.name, all, stray) = MultiAt(Multi(c.bodies) \o us, stray)
      BY <2>2, <3>1 DEF ArgsAt
    <3>3. MultiAt(Multi(c.bodies) \o us, stray).verdict = "ok"
      BY <1>6, <3>2, Zenon
    <3>4. /\ MultiAt(Multi(c.bodies) \o us, stray).bodies = c.bodies
          /\ MultiAt(Multi(c.bodies) \o us, stray).rest = us
      <4> DEFINE bs == c.bodies
      <4>1. bs \in Seq(Seq(Chars)) /\ MultiAt(Multi(bs) \o us, stray).verdict = "ok"
        BY <2>2, <3>3
      <4> HIDE DEF bs
      <4>2. /\ MultiAt(Multi(bs) \o us, stray).bodies = bs
            /\ MultiAt(Multi(bs) \o us, stray).rest = us
        BY <4>1, MultiHeard
      <4> QED BY <4>2 DEF bs
    <3> QED BY <3>2, <3>4, Zenon
  <2>3. CASE c.name \notin WithBody /\ c.name # "MPUB" /\ c.bodies = <<>>
    <3>1. args = <<>>
      BY <2>3 DEF Args, args
    <3>2. all = us
      BY <3>1, NoStream, Zenon DEF all
    <3>3. ArgsAt(c.name, all, stray) = [verdict |-> "ok", bodies |-> <<>>, rest |-> us]
      BY <2>3, <3>2 DEF ArgsAt
    <3> QED BY <2>3, <3>3
  <2> QED BY <2>1, <2>2, <2>3, CommandIs, Zenon
<1> QED BY <1>3, <1>5, <1>6, Zenon

(* It does not take a part of one for a command.                            *)
THEOREM CommandUnheard ==
    ASSUME NEW stray \in Nat, NEW c \in Commands, NEW n \in 1..(Size(ToBytes(c)) - 1)
    PROVE  CommandAt(Take(ToBytes(c), n), stray).verdict # "ok"
<1> DEFINE u    == Line(c.name)
           args == Args(c)
           all  == ToBytes(c)
           part == Take(all, n)
<1>1. /\ all = <<u>> \o args /\ u \in Units /\ Width(u) = 6
      /\ args \in Seq(Units) /\ Size(args) \in Nat /\ Size(all) = 6 + Size(args)
  BY ArgsIs
<1>2. n \in Nat /\ n >= 1 /\ n < 6 + Size(args)
  <2> HIDE DEF all, args
  <2> QED BY <1>1 DEF all
<1> HIDE DEF u, args, all
<1>3. CASE n < 6
  <2>1. n \in 1..(Width(u) - 1) /\ <<>> \in Seq(Units) /\ Size(<<>>) = 0 /\ 0 + n = n
    BY <1>1, <1>2, <1>3, SizeSmall
  <2>2. Take(<<>> \o (<<u>> \o args), Size(<<>>) + n) = <<>> \o <<Junk(n)>>
    BY <1>1, <2>1, CutInside, Zenon
  <2>3. <<u>> \o args \in Seq(Units) /\ <<Junk(n)>> \in Seq(Units)
    <3>1. n \in Nat \ {0}
      BY <1>2
    <3> QED BY <1>1, <3>1, UnitsBreak, HeadUnit, SizeSmall
  <2>4. <<>> \o (<<u>> \o args) = <<u>> \o args /\ <<>> \o <<Junk(n)>> = <<Junk(n)>>
    BY <2>3, NoStream, Zenon
  <2>5. part = <<Junk(n)>>
    <3>1. Size(<<>>) + n = n
      BY <2>1
    <3> QED BY <1>1, <2>2, <2>4, <3>1, Zenon
  <2>6. \A i \in 1..Len(part) : part[i][1] # "line"
    BY <2>5 DEF Junk
  <2>7. CommandAt(part, stray) = Waits
    BY <2>6 DEF CommandAt
  <2>8. Waits.verdict # "ok"
    BY DEF Waits
  <2> QED BY <2>7, <2>8, Zenon DEF all
<1>4. CASE ~(n < 6)
  <2> DEFINE m == n - 6
             rest == Take(args, m)
  <2>1. m \in 0..Size(args) /\ m \in 0..(Size(args) - 1) /\ n = Width(u) + m
    BY <1>1, <1>2, <1>4
  <2> HIDE DEF m
  <2>2. part = <<u>> \o rest
    BY <1>1, <2>1, HeadFurther, Zenon
  <2>3. rest \in Seq(Units)
    BY <1>1, <2>1, Parts
  <2> HIDE DEF rest, part
  <2>4. CommandAt(part, stray) = ArgsAt(c.name, rest, stray)
    BY <1>1, <2>2, <2>3, LineRead DEF u
  <2>5. ArgsAt(c.name, rest, stray).verdict # "ok"
    <3>1. CASE c.name \in WithBody /\ \E b \in Seq(Chars) : c.bodies = <<b>>
      <4>1. PICK b \in Seq(Chars) : c.bodies = <<b>>
        BY <3>1
      <4>2. args = Sized(b)
        BY <3>1, <4>1 DEF Args, args
      <4>3. SizedAt(Take(Sized(b), m), stray).verdict # "ok"
        BY <2>1, <4>2, SizedUnheard
      <4> QED BY <3>1, <4>2, <4>3, Zenon DEF ArgsAt, rest
    <3>2. CASE c.name = "MPUB" /\ c.name \notin WithBody /\ c.bodies \in Seq(Seq(Chars))
      <4>1. args = Multi(c.bodies)
        BY <3>2 DEF Args, args
      <4>2. MultiAt(Take(Multi(c.bodies), m), stray).verdict # "ok"
        BY <2>1, <3>2, <4>1, MultiUnheard
      <4> QED BY <3>2, <4>1, <4>2, Zenon DEF ArgsAt, rest
    <3>3. CASE c.name \notin WithBody /\ c.name # "MPUB" /\ c.bodies = <<>>
      <4>1. args = <<>>
        BY <3>3 DEF Args, args
      <4>2. Size(args) = 0
        BY <4>1, SizeSmall
      <4> QED BY <2>1, <4>2
    <3> QED BY <3>1, <3>2, <3>3, CommandIs, Zenon
  <2> QED BY <2>4, <2>5, Zenon DEF part, all
<1> QED BY <1>3, <1>4
=============================================================================
