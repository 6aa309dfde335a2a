---------------------------- MODULE OneShot_proofs ----------------------------
(***************************************************************************)
(* Theorems about OneShot: for all calls, bodies of any length and number, *)
(* any number of messages, heartbeats and commands of the user's.          *)
(***************************************************************************)
EXTENDS OneShot, WireCodec_proofs

-----------------------------------------------------------------------------
(* The frames nsqd writes *)

(* Answers and heartbeats are texts of one unit, in the model.              *)
LEMMA AnswerFrames ==
    /\ Ok \in Frames
    /\ Frame(Error, <<Chunk("E_FAILED")>>) \in Frames
    /\ Frame(Error, <<Chunk("E_INVALID")>>) \in Frames
    /\ Frame(Response, <<Chunk("heartbeat")>>) \in Frames
<1>1. ASSUME NEW type \in {Response, Error}, NEW c \in Chars
      PROVE  Frame(type, <<c>>) \in Frames
  <2> DEFINE t == <<c>>
  <2>1. t \in Seq(Chars)
    OBVIOUS
  <2> HIDE DEF t
  <2>2. Frame(type, t) \in Frames
    BY <2>1 DEF Frames, Answers
  <2> QED BY <2>2 DEF t
<1>2. /\ Chunk("OK") \in Chars /\ Chunk("E_FAILED") \in Chars
      /\ Chunk("E_INVALID") \in Chars /\ Chunk("heartbeat") \in Chars
  BY DEF Chars, Chunk, Values
<1>3. Response \in {Response, Error} /\ Error \in {Response, Error}
  OBVIOUS
<1> QED BY <1>1, <1>2, <1>3, Zenon DEF Ok

(* So are the messages of Deliveries.                                       *)
LEMMA MessageFrames ==
    ASSUME NEW m \in Deliveries
    PROVE  Frame(Message, <<Header(m.header)>> \o m.body) \in Frames
<1>1. m.header \in STRING /\ m.body \in Seq({"chunk"} \X STRING)
  BY OneShotAssumption
<1>2. m.header \in Values /\ STRING \subseteq Values
  BY <1>1 DEF Values
<1>3. {"chunk"} \X STRING \subseteq Chars
  BY <1>2 DEF Chars
<1>4. m.body \in Seq(Chars)
  BY <1>1, <1>3
<1> QED BY <1>2, <1>4 DEF Frames, Messages

(* nsqd changes of what the client reads only what it sends.                *)
LEMMA NsqdSendsFrames ==
    ASSUME Nsqd
    PROVE  /\ UNCHANGED <<input, pc, at, need, kind, got, broken, said, torn>>
           /\ UNCHANGED <<sent, down>> \/ \E f \in Frames : Send(f)
<1>1. CASE NsqdHears
  BY <1>1, AnswerFrames DEF NsqdHears
<1>2. CASE NsqdRejects
  BY <1>2, AnswerFrames DEF NsqdRejects
<1>3. CASE NsqdRefuses
  BY <1>3, AnswerFrames DEF NsqdRefuses
<1>4. CASE NsqdSends
  BY <1>4, AnswerFrames, MessageFrames DEF NsqdSends
<1> QED BY <1>1, <1>2, <1>3, <1>4 DEF Nsqd

(* No one else sends.                                                       *)
LEMMA OthersSendNothing ==
    ASSUME [Client \/ User \/ LinkLost]_vars
    PROVE  UNCHANGED sent
BY DEF Client, User, LinkLost, vars, Start, Dial, SendIdentify, SendAuth, Connected,
       SendCommand, SendReady, Subscribed, ReadFrame, ReadSize, ReadType, ReadData, ReadFails,
       UserReads, UserDrops, UserSends, UserCloses, nsqdVars

(* Everything sent is a frame.                                              *)
SentFrames == sent \in Seq(Frames)

(* nsqd sends only frames.                                                  *)
THEOREM SentFramesHold == Spec => []SentFrames
<1>1. Init => SentFrames
  BY DEF Init, SentFrames
<1>2. SentFrames /\ [Next]_vars => SentFrames'
  <2> SUFFICES ASSUME SentFrames, [Next]_vars PROVE SentFrames'
    OBVIOUS
  <2>1. CASE Nsqd
    <3>1. CASE UNCHANGED sent
      BY <3>1 DEF SentFrames
    <3>2. ASSUME NEW f \in Frames, Send(f) PROVE SentFrames'
      <4>1. sent' = Append(sent, f)
        BY <3>2 DEF Send
      <4> QED BY <4>1 DEF SentFrames
    <3> QED BY <2>1, <3>1, <3>2, NsqdSendsFrames
  <2>2. CASE [Client \/ User \/ LinkLost]_vars
    BY <2>2, OthersSendNothing DEF SentFrames
  <2> QED BY <2>1, <2>2 DEF Next
<1> QED BY <1>1, <1>2, PTL DEF Spec

(* DecodersAgree: the decoders for slices read a frame nsqd writes, agree   *)
(* on it and refuse each of its proper prefixes.                            *)
THEOREM DecodersAgreeHolds == Spec => DecodersAgree
<1>1. ASSUME NEW f \in Frames PROVE Agreed(f)
  <2> SUFFICES ASSUME NEW stray \in Strays
               PROVE  LET bytes == FrameBytes(f) IN
                      /\ ReadSlice(bytes, stray) = f
                      /\ DecodeFrame(Drop(bytes, 4), stray) = f
                      /\ f.type = Message => FromBytes(bytes, stray) = DecodeMessage(f.data)
                      /\ \A n \in 0..(Size(bytes) - 1) : ReadSlice(Take(bytes, n), stray) = Err
    BY DEF Agreed
  <2> DEFINE bytes == FrameBytes(f)
  <2>1. stray \in Nat
    BY OneShotAssumption
  <2>2. ReadSlice(bytes, stray) = f
    BY <2>1, SliceRead
  <2>3. DecodeFrame(Drop(bytes, 4), stray) = f
    BY <2>1, FrameParts, FrameDecoded
  <2>4. f.type = Message => FromBytes(bytes, stray) = DecodeMessage(f.data)
    BY <2>1, MessageFromBytes
  <2>5. \A n \in 0..(Size(bytes) - 1) : ReadSlice(Take(bytes, n), stray) = Err
    BY <2>1, PartRefused
  <2> QED BY <2>2, <2>3, <2>4, <2>5, Zenon
<1>2. SentFrames /\ [Next]_vars => [sent' # sent => Agreed(Last(sent'))]_vars
  <2> SUFFICES ASSUME SentFrames, [Next]_vars, sent' # sent PROVE Agreed(Last(sent'))
    OBVIOUS
  <2>1. Nsqd
    BY OthersSendNothing DEF Next
  <2>2. PICK f \in Frames : sent' = Append(sent, f)
    BY <2>1, NsqdSendsFrames DEF Send
  <2>3. Last(sent') = f
    BY <2>2 DEF SentFrames, Last
  <2> QED BY <1>1, <2>3
<1> QED BY <1>2, SentFramesHold, PTL DEF Spec, DecodersAgree

-----------------------------------------------------------------------------
(* What is on the way to the client *)

(* The bytes of some frames.                                                *)
OfFrame   == [f \in Frames |-> FrameBytes(f)]
Flat(fs)  == Joined(OfFrame, fs)

(* Flat has the equations of Joins.                                         *)
LEMMA FlatIs ==
    /\ Flat(<<>>) = <<>>
    /\ \A fs \in Seq(Frames) : Flat(fs) \in Seq(Units)
    /\ \A fs \in Seq(Frames), f \in Frames : Flat(Append(fs, f)) = Flat(fs) \o FrameBytes(f)
    /\ \A fs \in Seq(Frames), f \in Frames : Flat(<<f>> \o fs) = FrameBytes(f) \o Flat(fs)
<1>1. OfFrame \in [Frames -> Seq(Units)]
  BY FrameLayout DEF OfFrame
<1>2. Joins(OfFrame, Frames, Units)
  <2> HIDE DEF OfFrame
  <2> QED BY <1>1, JoinedIs
<1>3. \A f \in Frames : OfFrame[f] = FrameBytes(f)
  BY DEF OfFrame
<1> QED BY <1>2, <1>3, Zenon DEF Joins, Flat

(* A stream of frames begins with the first one's size, type and data.      *)
LEMMA FlatHead ==
    ASSUME NEW f \in Frames, NEW fs \in Seq(Frames)
    PROVE  /\ Flat(<<f>> \o fs) =
                 <<Num(4 + Size(f.data))>> \o (<<Num(f.type)>> \o (f.data \o Flat(fs)))
           /\ f.data \o Flat(fs) \in Seq(Units) /\ f.data \in Seq(Units)
           /\ Flat(fs) \in Seq(Units) /\ Size(f.data) \in Nat /\ f.type \in 0..2
<1> DEFINE a == <<Num(4 + Size(f.data))>>
           b == <<Num(f.type)>>
           d == f.data
           us == Flat(fs)
<1>1. d \in Seq(Units) /\ Size(d) \in Nat /\ f.type \in 0..2
  BY FrameData
<1>2. us \in Seq(Units)
  BY FlatIs
<1>3. Num(4 + Size(d)) \in Units /\ Num(f.type) \in Units
  BY <1>1 DEF Num, Units
<1>4. a \in Seq(Units) /\ b \in Seq(Units)
  BY <1>3, SizeSmall
<1>5. FrameBytes(f) = a \o (b \o d)
  BY FrameLayout
<1>6. Flat(<<f>> \o fs) = FrameBytes(f) \o us
  BY FlatIs
<1> HIDE DEF a, b, d, us
<1>7. b \o d \in Seq(Units) /\ d \o us \in Seq(Units)
  BY <1>1, <1>2, <1>4, Streams, Zenon
<1>8. (a \o (b \o d)) \o us = a \o ((b \o d) \o us)
  BY <1>2, <1>4, <1>7, Assoc, Zenon
<1>9. (b \o d) \o us = b \o (d \o us)
  BY <1>1, <1>2, <1>4, Assoc, Zenon
<1>10. Flat(<<f>> \o fs) = a \o (b \o (d \o us))
  BY <1>5, <1>6, <1>8, <1>9, Zenon
<1> QED BY <1>1, <1>2, <1>7, <1>10 DEF a, b, d, us

(* A frame from its type on, and from its data on.                     *)
TypeNext(us, f, fs) == us = <<Num(f.type)>> \o (f.data \o Flat(fs))
DataNext(us, f, fs) == us = f.data \o Flat(fs)

(* Frames of S are frames, and there is a first one when there is one.      *)
LEMMA FramesOf ==
    ASSUME NEW S \in SUBSET Frames, NEW fs \in Seq(S)
    PROVE  /\ fs \in Seq(Frames) /\ Flat(fs) \in Seq(Units)
           /\ Size(Flat(fs)) # 0 => \E f \in S, gs \in Seq(S) : fs = <<f>> \o gs
<1>1. fs \in Seq(Frames)
  OBVIOUS
<1>2. ASSUME fs # <<>> PROVE \E f \in S, gs \in Seq(S) : fs = <<f>> \o gs
  <2>1. Head(fs) \in S /\ Tail(fs) \in Seq(S) /\ fs = <<Head(fs)>> \o Tail(fs)
    BY <1>2
  <2> QED BY <2>1
<1>3. Size(Flat(<<>>)) = 0
  BY FlatIs, SizeSmall
<1>4. Flat(fs) \in Seq(Units)
  BY <1>1, FlatIs
<1>5. Size(Flat(fs)) # 0 => fs # <<>>
  BY <1>3, Zenon
<1> QED BY <1>1, <1>2, <1>4, <1>5, Zenon

(* A whole frame in front of frames: its size, its type, its data.          *)
LEMMA FlatAligned ==
    ASSUME NEW stray \in Nat, NEW S \in SUBSET Frames, NEW f \in S, NEW fs \in Seq(S)
    PROVE  /\ TypeNext(Drop(Flat(<<f>> \o fs), 4), f, fs)
           /\ ReadNum(Take(Flat(<<f>> \o fs), 4), stray) = 4 + Size(f.data)
<1> DEFINE x == <<Num(f.type)>> \o (f.data \o Flat(fs))
           size == 4 + Size(f.data)
           us == Flat(<<f>> \o fs)
<1>1. f \in Frames /\ fs \in Seq(Frames)
  BY FramesOf
<1>2. /\ us = <<Num(size)>> \o x /\ f.data \o Flat(fs) \in Seq(Units)
      /\ Size(f.data) \in Nat /\ f.type \in 0..2
  BY <1>1, FlatHead, Zenon
<1>3. size \in Nat /\ f.type \in Nat
  BY <1>2
<1>4. x \in Seq(Units)
  BY <1>2, <1>3, HeadNum, Zenon
<1> HIDE DEF x, size
<1>5. Drop(us, 4) = x /\ ReadNum(Take(us, 4), stray) = size
  <2> HIDE DEF us
  <2> QED BY <1>2, <1>3, <1>4, HeadNum
<1>6. TypeNext(Drop(us, 4), f, fs)
  BY <1>5, Zenon DEF TypeNext, x
<1> QED BY <1>5, <1>6, Zenon DEF size

(* The next four bytes are the type, and the data follows.                  *)
LEMMA TypeCut ==
    ASSUME NEW stray \in Nat, NEW S \in SUBSET Frames, NEW f \in S, NEW fs \in Seq(S),
           NEW us, TypeNext(us, f, fs)
    PROVE  /\ DataNext(Drop(us, 4), f, fs) /\ ReadNum(Take(us, 4), stray) = f.type
           /\ us \in Seq(Units)
<1> DEFINE vs == f.data \o Flat(fs)
<1>1. f \in Frames /\ fs \in Seq(Frames)
  BY FramesOf
<1>2. vs \in Seq(Units) /\ f.type \in 0..2 /\ f.type \in Nat
  <2>1. vs \in Seq(Units) /\ f.type \in 0..2
    BY <1>1, FlatHead, Zenon
  <2> QED BY <2>1
<1>3. us = <<Num(f.type)>> \o vs
  BY DEF TypeNext
<1> HIDE DEF vs
<1>4. us \in Seq(Units) /\ Drop(us, 4) = vs /\ ReadNum(Take(us, 4), stray) = f.type
  BY <1>2, <1>3, HeadNum
<1> QED BY <1>4 DEF DataNext, vs

(* The next bytes are the data, and whole frames follow.                    *)
LEMMA DataCut ==
    ASSUME NEW S \in SUBSET Frames, NEW f \in S, NEW fs \in Seq(S), NEW us, DataNext(us, f, fs)
    PROVE  /\ Take(us, Size(f.data)) = f.data /\ Drop(us, Size(f.data)) = Flat(fs)
           /\ us \in Seq(Units)
<1>1. f \in Frames /\ fs \in Seq(Frames)
  BY FramesOf
<1>2. f.data \in Seq(Units) /\ Flat(fs) \in Seq(Units)
  BY <1>1, FrameData, FlatHead
<1>3. us = f.data \o Flat(fs)
  BY DEF DataNext
<1>4. Take(us, Size(f.data)) = f.data /\ Drop(us, Size(f.data)) = Flat(fs)
  BY <1>2, <1>3, CutBetween, Zenon
<1>5. us \in Seq(Units)
  BY <1>2, <1>3, Streams, Zenon
<1> QED BY <1>4, <1>5

(* One more frame is sent.                                                  *)
LEMMA OneMore ==
    ASSUME NEW us \in Seq(Units), NEW fs \in Seq(Frames), NEW f \in Frames
    PROVE  (us \o Flat(fs)) \o FrameBytes(f) = us \o Flat(Append(fs, f))
<1>1. Flat(fs) \in Seq(Units) /\ Flat(Append(fs, f)) = Flat(fs) \o FrameBytes(f)
  BY FlatIs
<1>2. FrameBytes(f) \in Seq(Units)
  BY FrameLayout
<1>3. (us \o Flat(fs)) \o FrameBytes(f) = us \o (Flat(fs) \o FrameBytes(f))
  BY <1>1, <1>2, Assoc, Zenon
<1> QED BY <1>1, <1>3, Zenon

(* A frame more is sent while the client is inside one.                     *)
LEMMA NextMore ==
    ASSUME NEW g \in Frames, NEW fs \in Seq(Frames), NEW f \in Frames, NEW us
    PROVE  /\ TypeNext(us, g, fs) => TypeNext(us \o FrameBytes(f), g, Append(fs, f))
           /\ DataNext(us, g, fs) => DataNext(us \o FrameBytes(f), g, Append(fs, f))
<1> DEFINE d == g.data
           a == <<Num(g.type)>>
           F == Flat(fs)
           b == FrameBytes(f)
<1>1. d \in Seq(Units) /\ F \in Seq(Units) /\ b \in Seq(Units) /\ g.type \in 0..2
  BY FrameLayout, FlatHead
<1>2. a \in Seq(Units)
  BY <1>1 DEF Num, Units
<1>3. (d \o F) \o b = d \o Flat(Append(fs, f))
  <2> HIDE DEF d
  <2> QED BY <1>1, OneMore, Zenon
<1>4. d \o F \in Seq(Units)
  <2> HIDE DEF d, F
  <2> QED BY <1>1, Streams, Zenon
<1>5. (a \o (d \o F)) \o b = a \o ((d \o F) \o b)
  <2> HIDE DEF a, d, F, b
  <2> QED BY <1>1, <1>2, <1>4, Assoc, Zenon
<1>6. TypeNext(us, g, fs) => us = a \o (d \o F)
  BY DEF TypeNext
<1>7. DataNext(us, g, fs) => us = d \o F
  BY DEF DataNext
<1> HIDE DEF F, b
<1>8. TypeNext(us, g, fs) => us \o b = a \o (d \o Flat(Append(fs, f)))
  <2> HIDE DEF a, d
  <2> QED BY <1>3, <1>5, <1>6, Zenon
<1>9. DataNext(us, g, fs) => us \o b = d \o Flat(Append(fs, f))
  <2> HIDE DEF a, d
  <2> QED BY <1>3, <1>7, Zenon
<1> QED BY <1>8, <1>9, Zenon DEF TypeNext, DataNext, a, b, d

-----------------------------------------------------------------------------
(* Where the client is in the stream *)

Sent == ToSet(sent)

(* f is the frame it is in and fs are those behind it: what is left.        *)
Within(f, fs) ==
    /\ f \in Sent /\ fs \in Seq(Sent)
    /\ need = Size(f.data)
    /\ sent = got \o (<<f>> \o fs)

AtSize ==
    /\ at = "size"
    /\ \E fs \in Seq(Sent) : sent = got \o fs /\ down = Flat(fs)

AtType ==
    /\ at = "type"
    /\ \E f, fs : Within(f, fs) /\ TypeNext(down, f, fs)

AtData ==
    /\ at = "data"
    /\ \E f, fs : Within(f, fs) /\ DataNext(down, f, fs) /\ kind = f.type

Intact == got \in Seq(Sent) /\ (AtSize \/ AtType \/ AtData)

Reads ==
    /\ SentFrames
    /\ down \in Seq(Units)
    /\ broken \in BOOLEAN
    /\ at # "size" => need \in Nat
    /\ broken => pc \in {"held", "reading", "done"}

(* Until a read is cut short the client is in the stream of frames; after   *)
(* that nothing is known of the bytes that it reads.                        *)
Position == Reads /\ (broken \/ Intact)

(* The frames sent are frames.                                              *)
LEMMA SentAre ==
    ASSUME SentFrames
    PROVE  /\ Sent \in SUBSET Frames
           /\ sent \in Seq(Sent)
           /\ \A f \in Sent : Size(f.data) \in Nat
<1>1. \A i \in 1..Len(sent) : sent[i] \in Frames
  BY DEF SentFrames
<1>2. Sent = {sent[i] : i \in 1..Len(sent)}
  BY DEF SentFrames, Sent, ToSet
<1>3. Sent \in SUBSET Frames
  BY <1>1, <1>2
<1>4. sent \in Seq(Sent)
  <2> DEFINE S == Sent
  <2>1. \A i \in 1..Len(sent) : sent[i] \in S
    BY <1>2
  <2> HIDE DEF S
  <2>2. sent \in Seq(S)
    BY <2>1 DEF SentFrames
  <2> QED BY <2>2 DEF S
<1>5. \A f \in Frames : Size(f.data) \in Nat
  BY FrameData
<1> QED BY <1>3, <1>4, <1>5

(* A read of some of the bytes leaves a stream of units.                    *)
LEMMA StreamLeft ==
    ASSUME down \in Seq(Units), NEW n \in Nat, Consume(n)
    PROVE  down' \in Seq(Units) /\ Take(down, n) \in Seq(Units)
<1>1. Size(down) \in Nat
  BY EndStep
<1>2. n \in 0..Size(down)
  BY <1>1 DEF Consume
<1> QED BY <1>2, Parts DEF Consume

(* One more frame sent is one more of those that are left.                  *)
LEMMA OneMoreSent ==
    \A us, vs \in Seq(Frames), f \in Frames : Append(us \o vs, f) = us \o Append(vs, f)
<1>1. \A x, y, z \in Seq(Frames) : (x \o y) \o z = x \o (y \o z)
  BY ConcatAssociative
<1>2. \A x \in Seq(Frames), f \in Frames : Append(x, f) = x \o <<f>> /\ <<f>> \in Seq(Frames)
  BY AppendIsConcat
<1>3. ASSUME NEW us \in Seq(Frames), NEW vs \in Seq(Frames), NEW f \in Frames
      PROVE  Append(us \o vs, f) = us \o Append(vs, f)
  <2> DEFINE w == <<f>>
  <2>1. w \in Seq(Frames) /\ us \o vs \in Seq(Frames)
    OBVIOUS
  <2>2. Append(us \o vs, f) = (us \o vs) \o w
    BY <1>2, <2>1, Zenon
  <2>3. Append(vs, f) = vs \o w
    BY <1>2, Zenon
  <2> HIDE DEF w
  <2>4. (us \o vs) \o w = us \o (vs \o w)
    BY <1>1, <2>1, Zenon
  <2> QED BY <2>2, <2>3, <2>4, Zenon
<1> QED BY <1>3, Zenon

(* The first of those that are left becomes the last of those that are      *)
(* read.                                                                    *)
LEMMA OneRead ==
    ASSUME NEW V, NEW us \in Seq(V), NEW u \in V, NEW vs \in Seq(V)
    PROVE  us \o (<<u>> \o vs) = Append(us, u) \o vs
<1>1. \A a, b, c \in Seq(V) : (a \o b) \o c = a \o (b \o c)
  BY ConcatAssociative
<1> DEFINE v == <<u>>
<1>2. v \in Seq(V) /\ Append(us, u) = us \o v
  BY AppendIsConcat
<1> HIDE DEF v
<1>3. us \o (v \o vs) = (us \o v) \o vs
  BY <1>1, <1>2, Zenon
<1> QED BY <1>2, <1>3, Zenon DEF v

(* A read that ends in an error inside a frame, or after another that did.  *)
LEMMA ErrorPosition ==
    ASSUME Position, NEW inside \in BOOLEAN, ReadError(inside), inside \/ broken,
           down' \in Seq(Units), UNCHANGED sent
    PROVE  Position'
<1>1. at' = "size" /\ broken' = TRUE /\ pc' \in {"held", "reading", "done"} /\ SentFrames'
  BY DEF ReadError, Fails, Returns, Position, Reads, SentFrames
<1> QED BY <1>1 DEF Position, Reads

(* A read that ends in an error between two frames.                         *)
LEMMA ErrorBetween ==
    ASSUME Position, ReadError(FALSE), at = "size", ~broken, UNCHANGED <<down, sent>>
    PROVE  Position'
<1>1. at' = "size" /\ broken' = FALSE /\ got' = got /\ Sent' = Sent /\ SentFrames'
  BY DEF ReadError, Position, Reads, SentFrames, Sent
<1>2. Reads'
  BY <1>1 DEF Position, Reads
<1>3. AtSize'
  BY <1>1 DEF Position, Intact, AtSize, AtType, AtData
<1> QED BY <1>1, <1>2, <1>3 DEF Position, Intact

(* Reading a size keeps the position.                                       *)
LEMMA PositionSize ==
    ASSUME Position, ReadSize
    PROVE  Position'
<1>1. PICK stray \in Strays :
         LET size == ReadNum(Take(down, 4), stray) IN
         IF IF Initializing THEN size = 0 ELSE size < 4
         THEN ReadError(TRUE)
         ELSE /\ need' = size - 4
              /\ at' = "type"
              /\ UNCHANGED <<pc, result, kind, got, broken>>
  BY DEF ReadSize
<1> DEFINE size == ReadNum(Take(down, 4), stray)
<1>2. /\ at = "size" /\ Consume(4) /\ UNCHANGED sent /\ down \in Seq(Units)
      /\ stray \in Nat /\ SentFrames
  BY OneShotAssumption DEF ReadSize, nsqdVars, Position, Reads
<1>3. down' \in Seq(Units) /\ size \in Nat
  BY <1>2, StreamLeft, NumRead
<1>4. \/ ReadError(TRUE)
      \/ /\ ~Initializing => ~(size < 4)
         /\ need' = size - 4 /\ at' = "type" /\ UNCHANGED <<pc, got, broken>>
  BY <1>1
<1>5. ASSUME need' \in Nat, at' = "type", UNCHANGED <<pc, broken>> PROVE Reads' /\ Sent' = Sent
  BY <1>2, <1>3, <1>5 DEF Position, Reads, SentFrames, Sent
<1>6. CASE ReadError(TRUE)
  BY <1>2, <1>3, <1>6, ErrorPosition
<1>7. CASE broken
  <2>1. ~Initializing
    BY <1>7 DEF Position, Reads, Initializing
  <2>2. ASSUME ~(size < 4), need' = size - 4 PROVE need' \in Nat
    <3> HIDE DEF size
    <3> QED BY <1>3, <2>2
  <2> QED BY <1>4, <1>5, <1>6, <1>7, <2>1, <2>2 DEF Position
<1>8. CASE ~broken
  <2>1. PICK fs \in Seq(Sent) : sent = got \o fs /\ down = Flat(fs)
    BY <1>2, <1>8 DEF Position, Intact, AtSize, AtType, AtData
  <2>2. Sent \in SUBSET Frames
    BY <1>2, SentAre
  <2>3. Size(Flat(fs)) # 0
    BY <1>2, <2>1 DEF Consume
  <2>4. PICK f \in Sent, gs \in Seq(Sent) : fs = <<f>> \o gs
    BY <2>2, <2>3, FramesOf
  <2>5. /\ TypeNext(Drop(Flat(<<f>> \o gs), 4), f, gs)
        /\ ReadNum(Take(Flat(<<f>> \o gs), 4), stray) = 4 + Size(f.data)
    BY <1>2, <2>2, FlatAligned
  <2>6. TypeNext(down', f, gs) /\ size = 4 + Size(f.data)
    BY <1>2, <2>1, <2>4, <2>5, Zenon DEF Consume
  <2>7. Size(f.data) \in Nat
    BY <1>2, SentAre
  <2>8. CASE need' = size - 4 /\ at' = "type" /\ UNCHANGED <<pc, got, broken>>
    <3> HIDE DEF size
    <3>1. need' = Size(f.data)
      BY <2>6, <2>7, <2>8
    <3>2. Reads' /\ Sent' = Sent
      BY <1>5, <2>7, <2>8, <3>1
    <3>3. sent = got \o (<<f>> \o gs)
      BY <2>1, <2>4
    <3>4. Within(f, gs)'
      BY <1>2, <2>8, <3>1, <3>2, <3>3 DEF Within
    <3>5. AtType'
      BY <2>6, <2>8, <3>4 DEF AtType
    <3> QED BY <1>8, <2>8, <3>2, <3>5 DEF Position, Intact
  <2> QED BY <1>4, <1>6, <2>8
<1> QED BY <1>7, <1>8 DEF Position, Reads

(* So does reading a type,                                                  *)
LEMMA PositionType ==
    ASSUME Position, ReadType
    PROVE  Position'
<1>1. PICK stray \in Strays :
         LET type == ReadNum(Take(down, 4), stray) IN
         IF IF Initializing THEN type # Response ELSE ~TryFrom(type)
         THEN ReadError(TRUE)
         ELSE /\ kind' = type
              /\ at' = "data"
              /\ UNCHANGED <<pc, result, need, got, broken>>
  BY DEF ReadType
<1> DEFINE type == ReadNum(Take(down, 4), stray)
<1>2. /\ at = "type" /\ Consume(4) /\ UNCHANGED sent /\ down \in Seq(Units)
      /\ stray \in Nat /\ SentFrames
  BY OneShotAssumption DEF ReadType, nsqdVars, Position, Reads
<1>3. down' \in Seq(Units)
  BY <1>2, StreamLeft
<1>4. \/ ReadError(TRUE)
      \/ kind' = type /\ at' = "data" /\ UNCHANGED <<pc, need, got, broken>>
  BY <1>1
<1>5. CASE ReadError(TRUE)
  BY <1>2, <1>3, <1>5, ErrorPosition
<1>6. CASE kind' = type /\ at' = "data" /\ UNCHANGED <<pc, need, got, broken>>
  <2>1. Reads' /\ Sent' = Sent
    BY <1>2, <1>3, <1>6 DEF Position, Reads, SentFrames, Sent
  <2>2. CASE ~broken
    <3>1. PICK f, fs : Within(f, fs) /\ TypeNext(down, f, fs)
      BY <1>2, <2>2 DEF Position, Intact, AtSize, AtType, AtData
    <3>2. f \in Sent /\ fs \in Seq(Sent) /\ Sent \in SUBSET Frames
      BY <1>2, <3>1, SentAre DEF Within
    <3>3. DataNext(down', f, fs) /\ type = f.type
      BY <1>2, <3>1, <3>2, TypeCut DEF Consume
    <3>4. Within(f, fs)'
      BY <1>2, <1>6, <2>1, <3>1 DEF Within
    <3>5. AtData'
      BY <1>6, <3>3, <3>4 DEF AtData
    <3> QED BY <1>6, <2>1, <2>2, <3>5 DEF Position, Intact
  <2>3. CASE broken
    BY <1>6, <2>1, <2>3 DEF Position
  <2> QED BY <2>2, <2>3 DEF Position, Reads
<1> QED BY <1>4, <1>5, <1>6

(* The data that is read in the stream of frames is that of the first.      *)
LEMMA DataRead ==
    ASSUME Position, ReadData, ~broken
    PROVE  /\ Proceeds /\ at' = "size" /\ UNCHANGED <<broken, sent>>
           /\ \E f, fs : /\ Within(f, fs) /\ kind = f.type
                         /\ got' = Append(got, f) /\ down' = Flat(fs)
<1>1. PICK f, fs : Within(f, fs) /\ DataNext(down, f, fs) /\ kind = f.type
  BY DEF ReadData, Position, Intact, AtSize, AtType, AtData
<1>2. Sent \in SUBSET Frames
  BY SentAre DEF Position, Reads
<1>3. f \in Sent /\ fs \in Seq(Sent) /\ need = Size(f.data) /\ f \in Frames
  BY <1>1, <1>2 DEF Within
<1>4. Take(down, need) = f.data /\ Drop(down, need) = Flat(fs)
  BY <1>1, <1>2, <1>3, DataCut
<1> DEFINE frame == DecodeFrame(<<Num(kind)>> \o Take(down, need), kind)
<1>5. frame = f /\ f.verdict = "ok"
  <2>1. f.type \in Nat /\ f.verdict = "ok"
    <3>1. f.type \in 0..2 /\ f = Frame(f.type, f.data)
      BY <1>3, FrameData
    <3>2. Frame(f.type, f.data).verdict = "ok"
      BY DEF Frame
    <3>3. f.verdict = "ok"
      BY <3>1, <3>2
    <3> QED BY <3>1, <3>3
  <2>2. DecodeFrame(<<Num(f.type)>> \o f.data, f.type) = f
    BY <1>3, <2>1, FrameDecoded
  <2>3. frame = f
    BY <1>1, <1>4, <2>2
  <2> QED BY <2>1, <2>3
<1>6. /\ frame.verdict = "ok" /\ got' = Append(got, frame) /\ at' = "size"
      /\ Proceeds /\ UNCHANGED <<broken, sent>> /\ down' = Drop(down, need)
  <2>1. frame.verdict = "ok"
    BY <1>5
  <2> HIDE DEF frame
  <2> QED BY <2>1 DEF ReadData, Consume, nsqdVars, frame
<1>7. got' = Append(got, f) /\ down' = Flat(fs)
  <2> HIDE DEF frame
  <2> QED BY <1>4, <1>5, <1>6
<1> QED BY <1>1, <1>6, <1>7

(* reading the data,                                                        *)
LEMMA PositionData ==
    ASSUME Position, ReadData
    PROVE  Position'
<1>1. /\ at = "data" /\ Consume(need) /\ UNCHANGED sent /\ need \in Nat /\ down \in Seq(Units)
  BY DEF ReadData, nsqdVars, Position, Reads
<1>2. down' \in Seq(Units) /\ SentFrames' /\ Sent' = Sent
  BY <1>1, StreamLeft DEF Position, Reads, SentFrames, Sent
<1>3. CASE broken
  <2>1. pc = "reading"
    BY <1>3 DEF Position, Reads, ReadData, Reading
  <2>2. \/ ReadError(FALSE)
        \/ /\ at' = "size" /\ broken' = broken
           /\ Proceeds \/ pc' = "done"
    BY DEF ReadData
  <2>3. CASE ReadError(FALSE)
    BY <1>1, <1>2, <1>3, <2>3, ErrorPosition
  <2>4. CASE /\ at' = "size" /\ broken' = broken
             /\ Proceeds \/ pc' = "done"
    <3>1. pc' \in {"held", "done"}
      BY <2>1, <2>4 DEF Proceeds
    <3> QED BY <1>2, <1>3, <2>4, <3>1 DEF Position, Reads
  <2> QED BY <2>2, <2>3, <2>4
<1>4. CASE ~broken
  <2>1. at' = "size" /\ broken' = broken
    BY <1>4, DataRead
  <2>2. PICK f, fs : /\ Within(f, fs) /\ got' = Append(got, f) /\ down' = Flat(fs)
    BY <1>4, DataRead
  <2>3. /\ got \in Seq(Sent) /\ f \in Sent /\ fs \in Seq(Sent)
        /\ sent = got \o (<<f>> \o fs)
    BY <1>4, <2>2 DEF Position, Intact, Within
  <2>4. got' \in Seq(Sent)
    BY <2>2, <2>3
  <2>5. got \o (<<f>> \o fs) = Append(got, f) \o fs
    BY <2>3, OneRead
  <2>6. sent' = got' \o fs
    BY <1>1, <2>2, <2>3, <2>5, Zenon
  <2>7. AtSize'
    BY <1>2, <2>1, <2>2, <2>3, <2>6 DEF AtSize
  <2> QED BY <1>2, <1>4, <2>1, <2>4, <2>7 DEF Position, Reads, Intact
<1> QED BY <1>3, <1>4 DEF Position, Reads

(* a read that fails or times out,                                          *)
LEMMA PositionFails ==
    ASSUME Position, ReadFails
    PROVE  Position'
<1>1. ReadError(at # "size") /\ UNCHANGED <<down, sent>>
  BY DEF ReadFails, nsqdVars
<1>2. (at # "size") \in BOOLEAN /\ down' \in Seq(Units)
  BY <1>1 DEF Position, Reads
<1>3. CASE at # "size" \/ broken
  BY <1>1, <1>2, <1>3, ErrorPosition
<1>4. CASE at = "size" /\ ~broken
  <2>1. ReadError(FALSE)
    BY <1>1, <1>4
  <2> QED BY <1>1, <1>4, <2>1, ErrorBetween
<1> QED BY <1>3, <1>4 DEF Position, Reads

(* a read that is dropped with a byte of a part read,                       *)
LEMMA PositionDrops ==
    ASSUME Position, UserDrops
    PROVE  Position'
<1>1. PICK n \in {0, 1} : Consume(n) /\ ReadError(at # "size" \/ n > 0)
  BY DEF UserDrops
<1>2. UNCHANGED sent /\ down \in Seq(Units) /\ n \in Nat
  BY DEF UserDrops, nsqdVars, Position, Reads
<1>3. down' \in Seq(Units)
  BY <1>1, <1>2, StreamLeft
<1>4. (at # "size" \/ n > 0) \in BOOLEAN
  OBVIOUS
<1>5. CASE (at # "size" \/ n > 0) \/ broken
  BY <1>1, <1>2, <1>3, <1>4, <1>5, ErrorPosition
<1>6. CASE ~(at # "size" \/ n > 0) /\ ~broken
  <2>1. n = 0 /\ at = "size"
    BY <1>6
  <2>2. down' = down
    <3>1. <<>> \in Seq(Units) /\ Size(<<>>) = 0
      BY SizeSmall
    <3>2. Drop(<<>> \o down, Size(<<>>)) = down /\ <<>> \o down = down
      BY <1>2, <3>1, CutBetween, NoStream, Zenon
    <3>3. down' = Drop(down, 0)
      BY <1>1, <2>1 DEF Consume
    <3> QED BY <3>1, <3>2, <3>3, Zenon
  <2>3. ReadError(FALSE)
    BY <1>1, <1>6
  <2> QED BY <1>2, <1>6, <2>1, <2>2, <2>3, ErrorBetween
<1> QED BY <1>5, <1>6 DEF Position, Reads

(* The actions that read nothing, and those of nsqd.                        *)
LEMMA PositionStays ==
    ASSUME Position, UNCHANGED <<at, need, kind, down, got, broken, sent>>,
           broken => pc' \in {"held", "reading", "done"}
    PROVE  Position'
BY DEF Position, Reads, Intact, SentFrames, Sent, AtSize, AtType, AtData, Within

(* what writes, connects or loses the link,                                 *)
LEMMA PositionOthers ==
    ASSUME Position,
           \/ Start \/ Dial \/ SendIdentify \/ SendAuth \/ Connected \/ SendCommand
           \/ SendReady \/ Subscribed \/ UserReads \/ UserSends \/ UserCloses \/ LinkLost
           \/ UNCHANGED vars
    PROVE  Position'
<1>1. UNCHANGED <<at, need, kind, down, got, broken, sent>>
  BY DEF Start, Dial, SendIdentify, SendAuth, Connected, SendCommand, SendReady, Subscribed,
         UserReads, UserSends, UserCloses, LinkLost, vars, readVars, nsqdVars
<1>2. broken => pc' \in {"held", "reading", "done"}
  <2>1. broken => pc \in {"held", "reading", "done"}
    BY DEF Position, Reads
  <2> QED BY <2>1 DEF Start, Dial, SendIdentify, SendAuth, Connected, SendCommand, SendReady,
             Subscribed, UserReads, UserSends, UserCloses, LinkLost, vars, Write, Fails,
             Returns
<1> QED BY <1>1, <1>2, PositionStays

(* and a frame that nsqd sends.                                             *)
LEMMA PositionSends ==
    ASSUME Position, NEW f \in Frames, Send(f), UNCHANGED <<pc, at, need, kind, got, broken>>
    PROVE  Position'
<1>1. /\ sent' = Append(sent, f) /\ down' = down \o FrameBytes(f) /\ f \in Frames
      /\ FrameBytes(f) \in Seq(Units)
  BY FrameLayout DEF Send
<1>2. /\ Sent \in SUBSET Frames /\ sent \in Seq(Sent) /\ down \in Seq(Units)
      /\ SentFrames
  BY SentAre DEF Position, Reads
<1>3. SentFrames'
  BY <1>1, <1>2 DEF SentFrames
<1>4. Sent \cup {f} \subseteq Sent' /\ Sent' \in SUBSET Frames
  <2>1. \A i \in 1..Len(sent) : Append(sent, f)[i] = sent[i] /\ i \in 1..(Len(sent) + 1)
    BY <1>2
  <2>2. Append(sent, f)[Len(sent) + 1] = f /\ Len(sent) + 1 \in 1..(Len(sent) + 1)
    BY <1>2
  <2>3. DOMAIN sent' = 1..(Len(sent) + 1) /\ DOMAIN sent = 1..Len(sent)
    BY <1>1, <1>2
  <2>4. Sent \cup {f} \subseteq Sent'
    BY <1>1, <2>1, <2>2, <2>3 DEF Sent, ToSet
  <2>5. Sent' \in SUBSET Frames
    BY <1>3 DEF SentFrames, Sent, ToSet
  <2> QED BY <2>4, <2>5
<1> DEFINE S == Sent
           T == Sent'
<1>5. S \in SUBSET Frames /\ T \in SUBSET Frames /\ S \cup {f} \subseteq T /\ f \in T
  BY <1>2, <1>4
<1>6. down' \in Seq(Units)
  BY <1>1, <1>2, Streams, Zenon
<1>7. Reads'
  BY <1>3, <1>6 DEF Position, Reads
<1>8. ASSUME NEW fs \in Seq(S)
      PROVE  fs \in Seq(Frames) /\ fs \in Seq(T) /\ Append(fs, f) \in Seq(T)
  <2> HIDE DEF S, T
  <2> QED BY <1>5
<1>9. ASSUME Intact PROVE Intact'
  <2>1. got \in Seq(Frames) /\ got' \in Seq(T)
    BY <1>8, <1>9 DEF Intact
  <2>2. ASSUME AtSize PROVE AtSize'
    <3>1. PICK fs \in Seq(Sent) : sent = got \o fs /\ down = Flat(fs)
      BY <2>2 DEF AtSize
    <3>2. fs \in Seq(Frames) /\ Append(fs, f) \in Seq(T)
      BY <1>8
    <3>3. down' = Flat(Append(fs, f))
      BY <1>1, <3>1, <3>2, FlatIs, Zenon
    <3>4. sent' = got \o Append(fs, f)
      BY <1>1, <2>1, <3>1, <3>2, OneMoreSent, Zenon
    <3> QED BY <2>2, <3>2, <3>3, <3>4 DEF AtSize
  <2>3. ASSUME NEW g, NEW fs, Within(g, fs)
        PROVE  /\ g \in Frames /\ fs \in Seq(Frames)
               /\ Within(g, Append(fs, f))'
    <3>1. /\ g \in Sent /\ fs \in Seq(Sent) /\ need = Size(g.data)
          /\ sent = got \o (<<g>> \o fs)
      BY <2>3 DEF Within
    <3>2. g \in Frames /\ g \in T /\ fs \in Seq(Frames) /\ Append(fs, f) \in Seq(T)
      BY <1>5, <1>8, <3>1
    <3>3. sent' = got \o (<<g>> \o Append(fs, f))
      <4> DEFINE gs == <<g>>
                 hs == gs \o fs
      <4>1. gs \in Seq(Frames) /\ hs \in Seq(Frames) /\ sent = got \o hs
        BY <3>1, <3>2
      <4> HIDE DEF gs
      <4>2. Append(hs, f) = gs \o Append(fs, f)
        <5> HIDE DEF hs
        <5>1. Append(gs \o fs, f) = gs \o Append(fs, f)
          BY <1>1, <3>2, <4>1, OneMoreSent, Zenon
        <5> QED BY <5>1 DEF hs
      <4> HIDE DEF hs
      <4>3. Append(got \o hs, f) = got \o Append(hs, f)
        BY <1>1, <2>1, <4>1, OneMoreSent, Zenon
      <4> QED BY <1>1, <4>1, <4>2, <4>3, Zenon DEF gs
    <3>4. Within(g, Append(fs, f))'
      BY <3>1, <3>2, <3>3 DEF Within
    <3> QED BY <3>2, <3>4
  <2>4. ASSUME AtType PROVE AtType'
    <3>1. PICK g, fs : Within(g, fs) /\ TypeNext(down, g, fs)
      BY <2>4 DEF AtType
    <3>2. g \in Frames /\ fs \in Seq(Frames) /\ Within(g, Append(fs, f))'
      BY <2>3, <3>1
    <3>3. TypeNext(down', g, Append(fs, f))
      BY <1>1, <3>1, <3>2, NextMore, Zenon
    <3> QED BY <2>4, <3>2, <3>3 DEF AtType
  <2>5. ASSUME AtData PROVE AtData'
    <3>1. PICK g, fs : Within(g, fs) /\ DataNext(down, g, fs) /\ kind = g.type
      BY <2>5 DEF AtData
    <3>2. g \in Frames /\ fs \in Seq(Frames) /\ Within(g, Append(fs, f))'
      BY <2>3, <3>1
    <3>3. DataNext(down', g, Append(fs, f))
      BY <1>1, <3>1, <3>2, NextMore, Zenon
    <3> QED BY <2>5, <3>1, <3>2, <3>3 DEF AtData
  <2> QED BY <1>9, <2>1, <2>2, <2>4, <2>5 DEF Intact
<1> QED BY <1>7, <1>9 DEF Position

(* The position of the client in the stream is inductive.                   *)
THEOREM PositionHolds == Spec => []Position
<1>1. Init => Position
  <2> SUFFICES ASSUME Init PROVE Position
    OBVIOUS
  <2>1. /\ sent = <<>> /\ got = <<>> /\ down = <<>> /\ at = "size" /\ broken = FALSE
    BY DEF Init
  <2> DEFINE S == Sent
  <2>2. <<>> \in Seq(Frames) /\ <<>> \in Seq(S) /\ <<>> \in Seq(Units)
    <3> HIDE DEF S
    <3> QED OBVIOUS
  <2>3. Reads /\ got \in Seq(Sent)
    BY <2>1, <2>2 DEF Reads, SentFrames
  <2>4. sent = got \o <<>> /\ down = Flat(<<>>)
    BY <2>1, FlatIs
  <2>5. AtSize
    BY <2>1, <2>2, <2>4 DEF AtSize
  <2> QED BY <2>3, <2>5 DEF Position, Intact
<1>2. Position /\ [Next]_vars => Position'
  <2> SUFFICES ASSUME Position, [Next]_vars PROVE Position'
    OBVIOUS
  <2>1. CASE ReadFrame
    BY <2>1, PositionSize, PositionType, PositionData, PositionFails DEF ReadFrame
  <2>2. CASE UserDrops
    BY <2>2, PositionDrops
  <2>3. CASE Nsqd
    <3>1. UNCHANGED <<pc, at, need, kind, got, broken>>
      BY <2>3, NsqdSendsFrames
    <3>2. CASE UNCHANGED <<sent, down>>
      <4>1. broken => pc' \in {"held", "reading", "done"}
        BY <3>1 DEF Position, Reads
      <4> QED BY <3>1, <3>2, <4>1, PositionStays
    <3>3. CASE \E f \in Frames : Send(f)
      BY <3>1, <3>3, PositionSends
    <3> QED BY <2>3, <3>2, <3>3, NsqdSendsFrames
  <2>4. CASE \/ Start \/ Dial \/ SendIdentify \/ SendAuth \/ Connected \/ SendCommand
             \/ SendReady \/ Subscribed \/ UserReads \/ UserSends \/ UserCloses \/ LinkLost
             \/ UNCHANGED vars
    BY <2>4, PositionOthers
  <2> QED BY <2>1, <2>2, <2>3, <2>4 DEF Next, Client, User
<1> QED BY <1>1, <1>2, PTL DEF Spec

(* What a sequence begins with.                                             *)
LEMMA PrefixOf ==
    ASSUME NEW V, NEW us \in Seq(V), NEW vs \in Seq(V)
    PROVE  IsPrefix(us, us \o vs)
<1> DEFINE ws == us \o vs
<1>1. /\ ws \in Seq(V) /\ Len(ws) = Len(us) + Len(vs) /\ Len(us) \in Nat /\ Len(vs) \in Nat
      /\ \A i \in 1..Len(us) : ws[i] = us[i]
  OBVIOUS
<1> HIDE DEF ws
<1>2. SubSeq(us, 1, Len(us)) = SubSeq(ws, 1, Len(us))
  BY <1>1
<1> QED BY <1>1, <1>2 DEF IsPrefix, ws

(* FramesIntact: the client reads the frames nsqd wrote, in their order,    *)
(* until a read is cut short, and then no call goes on.                     *)
THEOREM FramesIntactHolds == Spec => []FramesIntact
<1>1. Position => FramesIntact
  <2> SUFFICES ASSUME Position PROVE FramesIntact
    OBVIOUS
  <2>1. ASSUME ~broken PROVE IsPrefix(got, sent)
    <3>1. got \in Seq(Sent) /\ (AtSize \/ AtType \/ AtData)
      BY <2>1 DEF Position, Intact
    <3>2. ASSUME NEW fs \in Seq(Sent), sent = got \o fs PROVE IsPrefix(got, sent)
      BY <3>1, <3>2, PrefixOf
    <3>3. ASSUME NEW f, NEW fs, Within(f, fs) PROVE IsPrefix(got, sent)
      <4> DEFINE S == Sent
                 gs == <<f>> \o fs
      <4>1. f \in S /\ fs \in Seq(S) /\ sent = got \o gs
        BY <3>3 DEF Within
      <4>2. gs \in Seq(S)
        <5> HIDE DEF S
        <5> QED BY <4>1
      <4> HIDE DEF gs
      <4> QED BY <3>1, <4>1, <4>2, PrefixOf
    <3> QED BY <3>1, <3>2, <3>3 DEF AtSize, AtType, AtData
  <2> QED BY <2>1 DEF FramesIntact, Position, Reads
<1> QED BY <1>1, PositionHolds, PTL

(* A user keeps the connection that subscribe or create_nsqd_connection     *)
(* returned, unless a read after one that was cut short panics.             *)
Keeping ==
    /\ input.call = "connect" => pc \notin {"send", "answer"}
    /\ input.call \in {"subscribe", "connect"} /\ result = "ok" =>
          pc \in {"held", "reading"} \/ (pc = "done" /\ broken)

(* It is kept when an operation of the user's fails,                        *)
LEMMA FailsKeeping ==
    ASSUME Keeping, Fails, pc # "done", input' = input
    PROVE  Keeping'
BY DEF Keeping, Fails, Returns

(* and when data is read.                                                   *)
LEMMA DataKeeping ==
    ASSUME Keeping, Position, ReadData
    PROVE  Keeping'
<1>1. pc \in {"identified", "authed", "answer", "reading"} /\ input' = input
  BY DEF ReadData, Reading
<1>2. CASE ReadError(FALSE)
  BY <1>1, <1>2, FailsKeeping DEF ReadError
<1>3. CASE Proceeds
  BY <1>1, <1>3 DEF Proceeds, Answered, Returns, Keeping
<1>4. CASE pc' = "done" /\ UNCHANGED <<result, broken>>
  <2>1. CASE broken
    BY <1>1, <1>4, <2>1 DEF Keeping
  <2>2. CASE ~broken
    BY <1>3, <2>2, DataRead
  <2> QED BY <2>1, <2>2
<1> QED BY <1>2, <1>3, <1>4 DEF ReadData

(* PanicsAfterCut: no bytes of a frame that nsqd wrote make decode_message  *)
(* panic, so that a user's task ends only after a read that was cut short.  *)
THEOREM PanicsAfterCutHolds == Spec => []PanicsAfterCut
<1>1. Init => Keeping
  BY DEF Init, Keeping
<1>2. Keeping /\ Position /\ [Next]_vars => Keeping'
  <2> SUFFICES ASSUME Keeping, Position, [Next]_vars PROVE Keeping'
    OBVIOUS
  <2>1. CASE ReadData
    BY <2>1, DataKeeping
  <2>2. CASE ReadSize
    <3>1. PICK stray \in Strays :
             LET size == ReadNum(Take(down, 4), stray) IN
             IF IF Initializing THEN size = 0 ELSE size < 4
             THEN ReadError(TRUE)
             ELSE /\ need' = size - 4
                  /\ at' = "type"
                  /\ UNCHANGED <<pc, result, kind, got, broken>>
      BY <2>2 DEF ReadSize
    <3>2. Fails \/ UNCHANGED <<pc, result, broken>>
      BY <3>1 DEF ReadError
    <3>3. pc # "done" /\ input' = input
      BY <2>2 DEF ReadSize, Reading
    <3> QED BY <3>2, <3>3, FailsKeeping DEF Keeping
  <2>3. CASE ReadType
    <3>1. PICK stray \in Strays :
             LET type == ReadNum(Take(down, 4), stray) IN
             IF IF Initializing THEN type # Response ELSE ~TryFrom(type)
             THEN ReadError(TRUE)
             ELSE /\ kind' = type
                  /\ at' = "data"
                  /\ UNCHANGED <<pc, result, need, got, broken>>
      BY <2>3 DEF ReadType
    <3>2. Fails \/ UNCHANGED <<pc, result, broken>>
      BY <3>1 DEF ReadError
    <3>3. pc # "done" /\ input' = input
      BY <2>3 DEF ReadType, Reading
    <3> QED BY <3>2, <3>3, FailsKeeping DEF Keeping
  <2>4. CASE ReadFails \/ UserDrops
    <3>1. Fails /\ pc # "done" /\ input' = input
      BY <2>4 DEF ReadFails, UserDrops, ReadError, Reading
    <3> QED BY <3>1, FailsKeeping
  <2>5. CASE Nsqd \/ LinkLost \/ UNCHANGED vars
    <3>1. UNCHANGED <<input, pc, result, broken>>
      BY <2>5 DEF Nsqd, NsqdHears, NsqdRejects, NsqdRefuses, NsqdSends, LinkLost, readVars, vars
    <3> QED BY <3>1 DEF Keeping
  <2>6. ASSUME NEW command, NEW next, Write(command, next), input' = input, UNCHANGED broken,
               \/ pc = "send" /\ next = "answer"
               \/ pc = "ready" /\ next = "subscribed"
               \/ pc = "held" /\ next = "held"
        PROVE  Keeping'
    <3>1. Fails \/ (pc' = next /\ UNCHANGED result)
      BY <2>6 DEF Write
    <3> QED BY <2>6, <3>1, FailsKeeping DEF Keeping
  <2>7. CASE SendCommand \/ SendReady \/ UserSends
    BY <2>6, <2>7, Zenon DEF SendCommand, SendReady, UserSends, readVars
  <2>8. CASE UserCloses
    <3>1. CASE Write(Command("CLS", <<>>), "held")
      BY <2>6, <2>8, <3>1 DEF UserCloses, readVars
    <3>2. CASE UNCHANGED <<pc, result>>
      BY <2>8, <3>2 DEF UserCloses, readVars, Keeping
    <3> QED BY <2>8, <3>1, <3>2 DEF UserCloses
  <2>9. CASE \/ Start \/ Dial \/ SendIdentify \/ SendAuth \/ Connected \/ Subscribed
             \/ UserReads
    BY <2>9 DEF Start, Dial, SendIdentify, SendAuth, Connected, Subscribed, UserReads, Returns,
                readVars, Keeping
  <2> QED BY <2>1, <2>2, <2>3, <2>4, <2>5, <2>7, <2>8, <2>9
          DEF Next, Client, User, ReadFrame
<1>3. Keeping => PanicsAfterCut
  BY DEF Keeping, PanicsAfterCut
<1> QED BY <1>1, <1>2, <1>3, PositionHolds, PTL DEF Spec

(* A command leads nsqd from an open state to an open one.                  *)
Open == {"magic", "identify", "known", "subscribed", "ready", "closing"}

(* No command is for a closed nsqd, and none closes it.                     *)
LEMMA AfterIs ==
    ASSUME NEW name, NEW state \in DOMAIN After(name)
    PROVE  state \in Open /\ After(name)[state] \in Open
<1>1. CASE name = "MAGIC"
  BY <1>1 DEF After, Open
<1>2. CASE name = "IDENTIFY"
  BY <1>2 DEF After, Open
<1>3. CASE name = "SUB"
  BY <1>3 DEF After, Open
<1>4. CASE name = "RDY"
  BY <1>4 DEF After, Open
<1>5. CASE name = "CLS"
  BY <1>5 DEF After, Open
<1>6. CASE name \notin {"MAGIC", "IDENTIFY", "SUB", "RDY", "CLS"}
  <2>1. After(name) = [s \in {"known", "subscribed", "ready", "closing"} |-> s]
    BY <1>6 DEF After
  <2> QED BY <2>1 DEF Open
<1> QED BY <1>1, <1>2, <1>3, <1>4, <1>5, <1>6

(* TypeOK in parts, and need while a frame's size is not read.  That need   *)
(* is a number takes Position: sizes are read off the stream.               *)
TypePc ==
    /\ pc \in {"start", "dial", "identify", "identified", "auth", "authed", "connected",
               "send", "answer", "ready", "subscribed", "held", "reading", "done"}
    /\ result \in {"none", "ok", "error"}
TypeRead ==
    /\ at \in {"size", "type", "data"}
    /\ at = "size" => need = 0
    /\ kind \in {Response, Error, Message}
    /\ broken \in BOOLEAN
TypeWire ==
    /\ link \in {"none", "up", "shut", "lost"}
    /\ nsqd \in Open \cup {"closed"}
    /\ torn \in {"no", "cut", "spliced"}

OneShotTyping == TypePc /\ TypeRead /\ TypeWire

(* The types hold at first,                                                 *)
LEMMA TypingInit == Init => OneShotTyping
BY DEF Init, OneShotTyping, TypePc, TypeRead, TypeWire, Open, Response, Error, Message

(* when an operation fails,                                                 *)
LEMMA FailsTyped ==
    ASSUME TypePc, Fails
    PROVE  TypePc'
BY DEF TypePc, Fails, Returns

(* when a command is written, all of it, a part or none,                    *)
LEMMA WriteTyped ==
    ASSUME TypePc, torn \in {"no", "cut", "spliced"}, NEW command,
           NEW next \in {"answer", "subscribed", "held"}, Write(command, next)
    PROVE  TypePc' /\ torn' \in {"no", "cut", "spliced"}
<1>1. CASE Fails
  <2>1. torn' \in {"no", "cut", "spliced"}
    BY DEF Write, Say, SayPart, sayVars
  <2> QED BY <1>1, <2>1, FailsTyped
<1>2. CASE Say(<<command>>) /\ pc' = next /\ UNCHANGED result
  BY <1>2 DEF Say, TypePc
<1> QED BY <1>1, <1>2 DEF Write

(* when a read ends in an error,                                            *)
LEMMA ErrorTyped ==
    ASSUME TypePc, TypeRead, NEW inside \in BOOLEAN, ReadError(inside)
    PROVE  TypePc' /\ TypeRead'
BY FailsTyped DEF TypeRead, ReadError, Response, Error, Message

(* when the client reads,                                                   *)
LEMMA ReadTyped ==
    ASSUME OneShotTyping, ReadFrame
    PROVE  OneShotTyping'
<1>1. UNCHANGED <<link, nsqd, torn>>
  BY DEF ReadFrame, ReadSize, ReadType, ReadData, ReadFails, sayVars, nsqdVars
<1>2. TypeWire'
  BY <1>1 DEF OneShotTyping, TypeWire
<1>3. ASSUME NEW inside \in BOOLEAN, ReadError(inside) PROVE TypePc' /\ TypeRead'
  BY <1>3, ErrorTyped DEF OneShotTyping
<1>4. CASE ReadSize
  <2>1. CASE ReadError(TRUE)
    BY <1>2, <1>3, <2>1 DEF OneShotTyping
  <2>2. CASE at' = "type" /\ UNCHANGED <<pc, result, kind, broken>>
    BY <1>2, <2>2 DEF OneShotTyping, TypePc, TypeRead
  <2>3. \/ ReadError(TRUE)
        \/ at' = "type" /\ UNCHANGED <<pc, result, kind, broken>>
    <3>1. PICK stray \in Strays :
             LET size == ReadNum(Take(down, 4), stray) IN
             IF IF Initializing THEN size = 0 ELSE size < 4
             THEN ReadError(TRUE)
             ELSE /\ need' = size - 4
                  /\ at' = "type"
                  /\ UNCHANGED <<pc, result, kind, got, broken>>
      BY <1>4 DEF ReadSize
    <3> QED BY <3>1
  <2> QED BY <2>1, <2>2, <2>3
<1>5. CASE ReadType
  <2>1. CASE ReadError(TRUE)
    BY <1>2, <1>3, <2>1 DEF OneShotTyping
  <2>2. CASE /\ kind' \in {Response, Error, Message} /\ at' = "data"
             /\ UNCHANGED <<pc, result, broken>>
    BY <1>2, <2>2 DEF OneShotTyping, TypePc, TypeRead
  <2>3. \/ ReadError(TRUE)
        \/ /\ kind' \in {Response, Error, Message} /\ at' = "data"
           /\ UNCHANGED <<pc, result, broken>>
    <3>1. PICK stray \in Strays :
             LET type == ReadNum(Take(down, 4), stray) IN
             IF IF Initializing THEN type # Response ELSE ~TryFrom(type)
             THEN ReadError(TRUE)
             ELSE /\ kind' = type
                  /\ at' = "data"
                  /\ UNCHANGED <<pc, result, need, got, broken>>
      BY <1>5 DEF ReadType
    <3> QED BY <3>1 DEF TryFrom
  <2> QED BY <2>1, <2>2, <2>3
<1>6. CASE ReadData
  <2>1. \/ ReadError(FALSE)
        \/ /\ at' = "size" /\ need' = 0 /\ kind' = 0 /\ UNCHANGED broken
           /\ Proceeds \/ (pc' = "done" /\ UNCHANGED result)
    BY <1>6 DEF ReadData
  <2>2. CASE ReadError(FALSE)
    BY <1>2, <1>3, <2>2 DEF OneShotTyping
  <2>3. CASE /\ at' = "size" /\ need' = 0 /\ kind' = 0 /\ UNCHANGED broken
             /\ Proceeds \/ (pc' = "done" /\ UNCHANGED result)
    <3>1. TypeRead'
      BY <2>3 DEF OneShotTyping, TypeRead, Response, Error, Message
    <3>2. pc \in {"identified", "authed", "answer", "reading"} /\ TypePc
      BY <1>6 DEF ReadData, Reading, OneShotTyping
    <3>3. CASE pc' = "done" /\ UNCHANGED result
      BY <1>2, <3>1, <3>2, <3>3 DEF OneShotTyping, TypePc
    <3>4. CASE Proceeds
      <4>1. pc = "answer" => TypePc'
        BY <3>2, <3>4 DEF Proceeds, Answered, Returns, TypePc
      <4>2. pc # "answer" => UNCHANGED result /\ pc' \in {"auth", "connected", "held"}
        BY <3>2, <3>4 DEF Proceeds
      <4>3. TypePc'
        BY <3>2, <4>1, <4>2 DEF TypePc
      <4> QED BY <1>2, <3>1, <4>3 DEF OneShotTyping
    <3> QED BY <2>3, <3>3, <3>4
  <2> QED BY <2>1, <2>2, <2>3
<1>7. CASE ReadFails
  <2>1. (at # "size") \in BOOLEAN /\ ReadError(at # "size")
    BY <1>7 DEF ReadFails
  <2> QED BY <1>2, <1>3, <2>1 DEF OneShotTyping
<1> QED BY <1>4, <1>5, <1>6, <1>7 DEF ReadFrame

(* when nsqd reads or sends,                                                *)
LEMMA NsqdTyped ==
    ASSUME OneShotTyping, Nsqd
    PROVE  OneShotTyping'
<1>1. UNCHANGED <<pc, at, need, kind, result, broken, torn>>
  BY DEF Nsqd, NsqdHears, NsqdRejects, NsqdRefuses, NsqdSends
<1>2. TypePc' /\ TypeRead'
  BY <1>1 DEF OneShotTyping, TypePc, TypeRead
<1>3. nsqd' \in Open \cup {"closed"} /\ link' \in {"none", "up", "shut", "lost"}
  <2>1. CASE NsqdHears
    <3>1. nsqd' \in Open
      BY <2>1, AfterIs, Zenon DEF NsqdHears
    <3> QED BY <2>1, <3>1 DEF NsqdHears, OneShotTyping, TypeWire
  <2>2. CASE NsqdRejects
    BY <2>2 DEF NsqdRejects, OneShotTyping, TypeWire
  <2>3. CASE NsqdRefuses
    BY <2>3 DEF NsqdRefuses
  <2>4. CASE NsqdSends
    BY <2>4 DEF NsqdSends, OneShotTyping, TypeWire
  <2> QED BY <2>1, <2>2, <2>3, <2>4 DEF Nsqd
<1> QED BY <1>1, <1>2, <1>3 DEF OneShotTyping, TypeWire

(* in the other steps,                                                      *)
LEMMA OthersTyped ==
    ASSUME OneShotTyping,
           \/ Start \/ Dial \/ SendIdentify \/ SendAuth \/ Connected \/ SendCommand
           \/ SendReady \/ Subscribed \/ UserReads \/ UserSends \/ UserCloses \/ LinkLost
           \/ UNCHANGED vars
    PROVE  OneShotTyping'
<1>1. UNCHANGED <<at, need, kind, broken>>
  BY DEF Start, Dial, SendIdentify, SendAuth, Connected, SendCommand, SendReady, Subscribed,
         UserReads, UserSends, UserCloses, LinkLost, vars, readVars, nsqdVars
<1>2. TypeRead'
  BY <1>1 DEF OneShotTyping, TypeRead
<1>3. nsqd' \in Open \cup {"closed"} /\ link' \in {"none", "up", "shut", "lost"}
  BY DEF OneShotTyping, TypeWire,
         Start, Dial, SendIdentify, SendAuth, Connected, SendCommand, SendReady, Subscribed,
         UserReads, UserSends, UserCloses, LinkLost, vars, nsqdVars
<1>4. TypePc /\ torn \in {"no", "cut", "spliced"}
  BY DEF OneShotTyping, TypeWire
<1>5. TypePc' /\ torn' \in {"no", "cut", "spliced"}
  <2>1. CASE Start \/ Dial \/ SendIdentify \/ SendAuth \/ Connected \/ Subscribed \/ UserReads
    BY <1>4, <2>1 DEF Start, Dial, SendIdentify, SendAuth, Connected, Subscribed, UserReads,
                      Returns, Say, TypePc, sayVars
  <2>2. CASE LinkLost \/ UNCHANGED vars
    BY <1>4, <2>2 DEF LinkLost, vars, sayVars, TypePc
  <2>3. ASSUME NEW command, NEW next \in {"answer", "subscribed", "held"}, Write(command, next)
        PROVE  TypePc' /\ torn' \in {"no", "cut", "spliced"}
    BY <1>4, <2>3, WriteTyped
  <2>4. CASE SendCommand \/ SendReady \/ UserSends
    BY <2>3, <2>4, Zenon DEF SendCommand, SendReady, UserSends
  <2>5. CASE UserCloses
    <3>1. CASE Write(Command("CLS", <<>>), "held")
      BY <2>3, <3>1, Zenon
    <3>2. CASE UNCHANGED <<pc, result, sayVars>>
      BY <1>4, <3>2 DEF TypePc, sayVars
    <3> QED BY <2>5, <3>1, <3>2 DEF UserCloses
  <2> QED BY <2>1, <2>2, <2>4, <2>5
<1> QED BY <1>2, <1>3, <1>5 DEF OneShotTyping, TypeWire

(* and so in every step.                                                    *)
LEMMA TypingNext ==
    ASSUME OneShotTyping, [Next]_vars
    PROVE  OneShotTyping'
<1>1. CASE ReadFrame
  BY <1>1, ReadTyped
<1>2. CASE UserDrops
  <2>1. PICK n \in {0, 1} : ReadError(at # "size" \/ n > 0)
    BY <1>2 DEF UserDrops
  <2>2. (at # "size" \/ n > 0) \in BOOLEAN
    OBVIOUS
  <2>3. TypePc' /\ TypeRead'
    BY <2>1, <2>2, ErrorTyped DEF OneShotTyping
  <2>4. TypeWire'
    BY <1>2 DEF UserDrops, OneShotTyping, TypeWire, sayVars, nsqdVars
  <2> QED BY <2>3, <2>4 DEF OneShotTyping
<1>3. CASE Nsqd
  BY <1>3, NsqdTyped
<1>4. CASE \/ Start \/ Dial \/ SendIdentify \/ SendAuth \/ Connected \/ SendCommand
           \/ SendReady \/ Subscribed \/ UserReads \/ UserSends \/ UserCloses \/ LinkLost
           \/ UNCHANGED vars
  BY <1>4, OthersTyped
<1> QED BY <1>1, <1>2, <1>3, <1>4 DEF Next, Client, User

(* TypeOK: in particular, what the client waits for is a number of bytes,   *)
(* though initialize would subtract 4 from a size of 1, 2 or 3.             *)
THEOREM OneShotTypeCorrect == Spec => []TypeOK
<1>1. Spec => []OneShotTyping
  <2>1. OneShotTyping /\ [Next]_vars => OneShotTyping'
    BY TypingNext
  <2> QED BY TypingInit, <2>1, PTL DEF Spec
<1>2. OneShotTyping /\ Position => TypeOK
  <2> SUFFICES ASSUME OneShotTyping, Position PROVE TypeOK
    OBVIOUS
  <2>1. need \in Nat
    BY DEF Position, Reads, OneShotTyping, TypeRead
  <2> QED BY <2>1 DEF OneShotTyping, TypePc, TypeRead, TypeWire, TypeOK, Open
<1> QED BY <1>1, <1>2, PositionHolds, PTL

-----------------------------------------------------------------------------
(* What is on the way to nsqd *)

(* The bytes of some commands.                                              *)
OfCommand == [c \in Commands |-> ToBytes(c)]
Bytes(cs) == Joined(OfCommand, cs)

(* Bytes has the equations of Joins.                                        *)
LEMMA BytesIs ==
    /\ Bytes(<<>>) = <<>>
    /\ \A cs \in Seq(Commands) : Bytes(cs) \in Seq(Units)
    /\ \A cs \in Seq(Commands), c \in Commands : Bytes(Append(cs, c)) = Bytes(cs) \o ToBytes(c)
    /\ \A cs \in Seq(Commands), c \in Commands : Bytes(<<c>> \o cs) = ToBytes(c) \o Bytes(cs)
    /\ \A c \in Commands : Bytes(<<c>>) = ToBytes(c) /\ ToBytes(c) \in Seq(Units)
<1>1. OfCommand \in [Commands -> Seq(Units)]
  BY ArgsIs DEF OfCommand
<1>2. Joins(OfCommand, Commands, Units)
  <2> HIDE DEF OfCommand
  <2> QED BY <1>1, JoinedIs
<1>3. \A c \in Commands : OfCommand[c] = ToBytes(c) /\ ToBytes(c) \in Seq(Units)
  BY ArgsIs DEF OfCommand
<1> QED BY <1>2, <1>3, Zenon DEF Joins, Bytes

(* What Say puts on the wire.                                               *)
Spoken(cs) == FlattenSeq([i \in DOMAIN cs |-> ToBytes(cs[i])])

(* It is the bytes of the commands.                                         *)
LEMMA SpokenIs ==
    ASSUME NEW cs \in Seq(Commands)
    PROVE  Spoken(cs) = Bytes(cs)
<1>1. \A i \in DOMAIN cs : cs[i] \in Commands
  OBVIOUS
<1>2. \A i \in DOMAIN cs : OfCommand[cs[i]] = ToBytes(cs[i])
  BY <1>1 DEF OfCommand
<1>3. [i \in DOMAIN cs |-> OfCommand[cs[i]]] = [i \in DOMAIN cs |-> ToBytes(cs[i])]
  BY <1>2
<1> QED BY <1>3, Zenon DEF Spoken, Bytes, Joined

(* The commands that are said.                                              *)
LEMMA FixedCommands ==
    /\ Command("MAGIC", <<>>) \in Commands /\ Command("RDY", <<>>) \in Commands
    /\ Command("CLS", <<>>) \in Commands /\ Command("SUB", <<>>) \in Commands
    /\ Config \in Commands /\ Secret \in Commands
    /\ Command("DPUB", << <<Chunk("later")>> >>) \in Commands
<1>1. ASSUME NEW name \in WithBody, NEW c \in Chars PROVE Command(name, << <<c>> >>) \in Commands
  <2>1. <<c>> \in Seq(Chars)
    OBVIOUS
  <2> QED BY <2>1 DEF Command, Commands, OneBody
<1>2. Chunk("config") \in Chars /\ Chunk("secret") \in Chars /\ Chunk("later") \in Chars
  BY DEF Chunk, Chars, Values
<1>3. "IDENTIFY" \in WithBody /\ "AUTH" \in WithBody /\ "DPUB" \in WithBody
  BY DEF WithBody
<1>4. \A name \in {"MAGIC", "SUB", "RDY", "CLS"} : Command(name, <<>>) \in Commands
  BY DEF Command, Commands, Bare
<1> QED BY <1>1, <1>2, <1>3, <1>4 DEF Config, Secret

(* The command of a call is a command.                                      *)
LEMMA QueryCommand ==
    ASSUME input \in Inputs, input.call # "connect"
    PROVE  Query \in Commands
<1>1. input.bodies \in Seq(Seq({"chunk"} \X STRING))
  BY OneShotAssumption
<1>2. {"chunk"} \X STRING \subseteq Chars
  BY DEF Chars, Values
<1>3. Seq({"chunk"} \X STRING) \subseteq Seq(Chars)
  BY <1>2
<1>4. input.bodies \in Seq(Seq(Chars))
  <2> DEFINE A == Seq({"chunk"} \X STRING)
             B == Seq(Chars)
  <2>1. A \subseteq B /\ input.bodies \in Seq(A)
    BY <1>1, <1>3
  <2> HIDE DEF A, B
  <2>2. input.bodies \in Seq(B)
    BY <2>1
  <2> QED BY <2>2 DEF B
<1>5. CASE input.call = "publish"
  <2>1. Len(input.bodies) = 1
    BY <1>5, OneShotAssumption
  <2>2. \E b \in Seq(Chars) : input.bodies = <<b>>
    <3> DEFINE B == Seq(Chars)
    <3>1. input.bodies \in Seq(B)
      BY <1>4
    <3> HIDE DEF B
    <3>2. input.bodies = <<input.bodies[1]>> /\ input.bodies[1] \in B
      BY <2>1, <3>1
    <3> QED BY <3>2 DEF B
  <2>3. Query = Command("PUB", input.bodies)
    BY <1>5 DEF Query
  <2> QED BY <2>2, <2>3 DEF Command, Commands, OneBody, WithBody
<1>6. CASE input.call = "mpublish"
  <2>1. Query = Command("MPUB", input.bodies)
    BY <1>6 DEF Query
  <2> QED BY <1>4, <2>1 DEF Command, Commands, Many
<1>7. CASE input.call = "subscribe"
  <2>1. Query = Command("SUB", <<>>)
    BY <1>7 DEF Query
  <2> QED BY <2>1, FixedCommands
<1> QED BY <1>5, <1>6, <1>7, OneShotAssumption

(* The line alone takes LineSize bytes.                                     *)
LEMMA BytesSize ==
    ASSUME NEW c \in Commands
    PROVE  ToBytes(c) \in Seq(Units) /\ Size(ToBytes(c)) \in Nat /\ Size(ToBytes(c)) >= 6
<1> DEFINE m == Size(Args(c))
           n == Size(ToBytes(c))
<1>1. ToBytes(c) \in Seq(Units) /\ m \in Nat /\ n = 6 + m
  BY ArgsIs, Zenon
<1> HIDE DEF m, n
<1>2. n \in Nat /\ n >= 6
  BY <1>1
<1> QED BY <1>1, <1>2 DEF n

(* A write that is cut writes a part.                                       *)
LEMMA CutsWithin ==
    ASSUME NEW c \in Commands, NEW n \in Cuts(ToBytes(c))
    PROVE  n \in 1..(Size(ToBytes(c)) - 1)
<1> DEFINE us == ToBytes(c)
<1>1. us \in Seq(Units) /\ Size(us) \in Nat /\ Size(us) >= 6
  BY BytesSize
<1>2. CASE n = 1
  BY <1>1, <1>2
<1>3. ASSUME NEW k \in 1..(Len(us) - 1), n = End(us, k)
      PROVE  n \in 1..(Size(us) - 1)
  <2> HIDE DEF us
  <2>1. Len(us) \in Nat
    BY <1>1
  <2>2. 0 \in 0..Len(us) /\ k \in 0..Len(us) /\ Len(us) \in 0..Len(us) /\ 0 < k /\ k < Len(us)
    BY <2>1
  <2>3. End(us, 0) < End(us, k) /\ End(us, k) < End(us, Len(us))
    BY <1>1, <2>2, EndGrows
  <2>4. End(us, 0) = 0 /\ End(us, k) \in Nat /\ End(us, Len(us)) = Size(us)
    BY <1>1, <2>2, EndStep DEF Size
  <2> QED BY <1>1, <1>3, <2>3, <2>4
<1>4. n = 1 \/ \E k \in 1..(Len(us) - 1) : n = End(us, k)
  BY DEF Cuts
<1> QED BY <1>2, <1>3, <1>4

-----------------------------------------------------------------------------
(* What nsqd has heard of what was said *)

(* cs is what it has not heard, to the last of which only a part was        *)
(* written when a write was cut.                                            *)
Unheard(us, cs, whole) ==
    IF whole THEN us = Bytes(cs)
    ELSE \E ds \in Seq(Commands), c \in Commands : \E n \in 1..(Size(ToBytes(c)) - 1) :
            cs = Append(ds, c) /\ us = Bytes(ds) \o Take(ToBytes(c), n)

UserSpoke == \E i \in DOMAIN said : said[i].name \in {"DPUB", "CLS"}

Saying ==
    /\ input \in Inputs
    /\ said \in Seq(Commands)
    /\ torn \in {"no", "cut", "spliced"}
    /\ pc = "send" => input.call # "connect"
    /\ torn # "no" => pc \in {"held", "reading", "done"}
    /\ torn = "spliced" => UserSpoke
    /\ link = "lost" => nsqd = "closed"

Hearing ==
    torn # "spliced" =>
        /\ heard \in Seq(Commands)
        /\ \E cs \in Seq(Commands) :
              /\ said = heard \o cs
              /\ nsqd # "closed" => Unheard(up, cs, torn = "no")

Speech == Saying /\ Hearing

(* One command at the head of what it has not heard.                        *)
LEMMA HearsNext ==
    ASSUME NEW stray \in Nat, NEW cs \in Seq(Commands), NEW us, NEW whole \in BOOLEAN, Unheard(us, cs, whole),
           us # <<>>, CommandAt(us, stray).verdict = "ok"
    PROVE  \E c \in Commands, rest \in Seq(Commands) :
              /\ cs = <<c>> \o rest
              /\ Command(us[1][2], CommandAt(us, stray).bodies) = c
              /\ Unheard(CommandAt(us, stray).rest, rest, whole)
<1>1. ASSUME NEW ds \in Seq(Commands), ds # <<>>
      PROVE  \E c \in Commands, rest \in Seq(Commands) : ds = <<c>> \o rest
  <2>1. Head(ds) \in Commands /\ Tail(ds) \in Seq(Commands) /\ ds = <<Head(ds)>> \o Tail(ds)
    BY <1>1
  <2> QED BY <2>1
<1>2. ASSUME NEW c \in Commands, NEW vs \in Seq(Units), us = ToBytes(c) \o vs
      PROVE  Command(us[1][2], CommandAt(us, stray).bodies) = c /\ CommandAt(us, stray).rest = vs
  <2>1. us[1][2] = c.name /\ CommandAt(us, stray).bodies = c.bodies /\ CommandAt(us, stray).rest = vs
    BY <1>2, CommandHeard
  <2> QED BY <2>1, CommandIs
<1>3. CASE whole
  <2>1. us = Bytes(cs)
    BY <1>3 DEF Unheard
  <2>2. cs # <<>>
    BY <2>1, BytesIs
  <2>3. PICK c \in Commands, rest \in Seq(Commands) : cs = <<c>> \o rest
    BY <1>1, <2>2
  <2>4. us = ToBytes(c) \o Bytes(rest) /\ Bytes(rest) \in Seq(Units)
    BY <2>1, <2>3, BytesIs, Zenon
  <2>5. Command(us[1][2], CommandAt(us, stray).bodies) = c /\ CommandAt(us, stray).rest = Bytes(rest)
    BY <1>2, <2>4
  <2>6. Unheard(CommandAt(us, stray).rest, rest, whole)
    BY <1>3, <2>5 DEF Unheard
  <2> QED BY <2>3, <2>5, <2>6
<1>4. CASE ~whole
  <2>1. PICK ds \in Seq(Commands), d \in Commands : \E n \in 1..(Size(ToBytes(d)) - 1) :
            cs = Append(ds, d) /\ us = Bytes(ds) \o Take(ToBytes(d), n)
    BY <1>4 DEF Unheard
  <2>2. PICK n \in 1..(Size(ToBytes(d)) - 1) :
            cs = Append(ds, d) /\ us = Bytes(ds) \o Take(ToBytes(d), n)
    BY <2>1
  <2> DEFINE part == Take(ToBytes(d), n)
  <2>3. part \in Seq(Units)
    <3> DEFINE all == ToBytes(d)
    <3>1. all \in Seq(Units) /\ Size(all) \in Nat /\ n \in 1..(Size(all) - 1)
      BY BytesSize
    <3> HIDE DEF all
    <3>2. n \in 0..Size(all)
      BY <3>1
    <3>3. Take(all, n) \in Seq(Units)
      BY <3>1, <3>2, Parts
    <3> QED BY <3>3 DEF all
  <2>4. ds # <<>>
    <3> SUFFICES ASSUME ds = <<>> PROVE FALSE
      OBVIOUS
    <3>1. us = part
      BY <2>2, <2>3, BytesIs, NoStream, Zenon
    <3>2. CommandAt(part, stray).verdict # "ok"
      BY CommandUnheard
    <3> QED BY <3>1, <3>2, Zenon
  <2>5. PICK c \in Commands, rest \in Seq(Commands) : ds = <<c>> \o rest
    BY <1>1, <2>4
  <2> HIDE DEF part
  <2>6. us = ToBytes(c) \o (Bytes(rest) \o part) /\ Bytes(rest) \o part \in Seq(Units)
    <3>1. Bytes(ds) = ToBytes(c) \o Bytes(rest) /\ Bytes(rest) \in Seq(Units)
          /\ ToBytes(c) \in Seq(Units)
      BY <2>5, BytesIs, Zenon
    <3>2. (ToBytes(c) \o Bytes(rest)) \o part = ToBytes(c) \o (Bytes(rest) \o part)
      BY <2>3, <3>1, Assoc, Zenon
    <3>3. us = Bytes(ds) \o part
      BY <2>2 DEF part
    <3> QED BY <2>3, <3>1, <3>2, <3>3, Streams, Zenon
  <2>7. Command(us[1][2], CommandAt(us, stray).bodies) = c
        /\ CommandAt(us, stray).rest = Bytes(rest) \o part
    BY <1>2, <2>6
  <2>8. cs = <<c>> \o Append(rest, d) /\ Append(rest, d) \in Seq(Commands)
    <3>1. cs = Append(<<c>> \o rest, d)
      BY <2>2, <2>5
    <3>2. Append(<<c>> \o rest, d) = <<c>> \o Append(rest, d)
      OBVIOUS
    <3> QED BY <3>1, <3>2
  <2>9. Unheard(CommandAt(us, stray).rest, Append(rest, d), whole)
    BY <1>4, <2>7, Zenon DEF Unheard, part
  <2> QED BY <2>7, <2>8, <2>9
<1> QED BY <1>3, <1>4

(* Commands are joined in any grouping.                                     *)
LEMMA CommandsAssoc ==
    \A x, y, z \in Seq(Commands) : (x \o y) \o z = x \o (y \o z)
BY ConcatAssociative

(* The bytes of two lots of commands are those of both, joined.             *)
LEMMA BytesMore ==
    ASSUME NEW cs \in Seq(Commands), NEW more \in Seq(Commands)
    PROVE  Bytes(cs \o more) = Bytes(cs) \o Bytes(more)
<1> DEFINE S == {n \in Nat : \A ds \in Seq(Commands) :
                    Len(ds) = n => Bytes(cs \o ds) = Bytes(cs) \o Bytes(ds)}
<1>1. /\ \A x, y \in Seq(Commands) : x \o y \in Seq(Commands)
      /\ \A x, y \in Seq(Commands), c \in Commands : Append(x \o y, c) = x \o Append(y, c)
  <2>1. \A x, y, z \in Seq(Commands) : (x \o y) \o z = x \o (y \o z)
    BY ConcatAssociative
  <2>2. \A x \in Seq(Commands), c \in Commands :
           Append(x, c) = x \o <<c>> /\ <<c>> \in Seq(Commands)
    BY AppendIsConcat
  <2>3. \A x, y \in Seq(Commands) : x \o y \in Seq(Commands)
    OBVIOUS
  <2>4. ASSUME NEW x \in Seq(Commands), NEW y \in Seq(Commands), NEW c \in Commands
        PROVE  Append(x \o y, c) = x \o Append(y, c)
    <3> DEFINE w == <<c>>
    <3>1. w \in Seq(Commands) /\ Append(y, c) = y \o w
      BY <2>2
    <3>2. Append(x \o y, c) = (x \o y) \o w
      BY <2>2, <2>3, Zenon
    <3> HIDE DEF w
    <3>3. (x \o y) \o w = x \o (y \o w)
      BY <2>1, <3>1, Zenon
    <3> QED BY <3>1, <3>2, <3>3, Zenon
  <2> QED BY <2>3, <2>4, Zenon
<1>2. 0 \in S
  <2> SUFFICES ASSUME NEW ds \in Seq(Commands), Len(ds) = 0
               PROVE  Bytes(cs \o ds) = Bytes(cs) \o Bytes(ds)
    OBVIOUS
  <2>1. ds = <<>> /\ cs \o ds = cs
    OBVIOUS
  <2>2. Bytes(ds) = <<>> /\ Bytes(cs) \in Seq(Units)
    BY <2>1, BytesIs
  <2>3. Bytes(cs) \o <<>> = Bytes(cs)
    BY <2>2, NoStream, Zenon
  <2> QED BY <2>1, <2>2, <2>3, Zenon
<1>3. ASSUME NEW n \in S PROVE n + 1 \in S
  <2> SUFFICES ASSUME NEW ds \in Seq(Commands), Len(ds) = n + 1
               PROVE  Bytes(cs \o ds) = Bytes(cs) \o Bytes(ds)
    OBVIOUS
  <2> DEFINE es == SubSeq(ds, 1, n)
             c  == ds[n + 1]
  <2>1. n \in Nat /\ es \in Seq(Commands) /\ Len(es) = n /\ c \in Commands
        /\ ds = Append(es, c)
    OBVIOUS
  <2>2. Bytes(cs \o es) = Bytes(cs) \o Bytes(es)
    BY <2>1
  <2> HIDE DEF es, c
  <2>3. cs \o ds = Append(cs \o es, c) /\ cs \o es \in Seq(Commands)
    BY <1>1, <2>1, Zenon
  <2>4. Bytes(Append(cs \o es, c)) = Bytes(cs \o es) \o ToBytes(c)
    BY <2>1, <2>3, BytesIs, Zenon
  <2>5. Bytes(ds) = Bytes(es) \o ToBytes(c)
    BY <2>1, BytesIs, Zenon
  <2>6. Bytes(cs) \in Seq(Units) /\ Bytes(es) \in Seq(Units) /\ ToBytes(c) \in Seq(Units)
    BY <2>1, BytesIs
  <2>7. (Bytes(cs) \o Bytes(es)) \o ToBytes(c) = Bytes(cs) \o (Bytes(es) \o ToBytes(c))
    BY <2>6, Assoc, Zenon
  <2> QED BY <2>2, <2>3, <2>4, <2>5, <2>7, Zenon
<1>4. S = Nat
  <2>1. S \in SUBSET Nat
    OBVIOUS
  <2> HIDE DEF S
  <2> QED BY <1>2, <1>3, <2>1, SetInduction
<1>5. Len(more) \in Nat
  OBVIOUS
<1>6. Len(more) \in S
  <2> HIDE DEF S
  <2> QED BY <1>4, <1>5
<1> QED BY <1>6

(* Say, when no write has been cut and when one has.                        *)
LEMMA SaySpeech ==
    ASSUME Speech, NEW more \in Seq(Commands), Say(more),
           UNCHANGED <<input, link, nsqd, heard>>,
           pc' = "send" => input.call # "connect",
           torn # "no" => pc' \in {"held", "reading", "done"} /\ UserSpoke'
    PROVE  Speech'
<1>1. /\ said' = said \o more
      /\ torn' = IF torn = "no" THEN "no" ELSE "spliced"
      /\ up' = IF link = "lost" THEN up ELSE up \o Spoken(more)
  BY DEF Say, Spoken
<1>2. Spoken(more) = Bytes(more)
  BY SpokenIs
<1>3. Saying /\ said \in Seq(Commands)
  BY DEF Speech, Saying
<1>4. said' \in Seq(Commands)
  BY <1>1, <1>3
<1>5. Saying'
  BY <1>1, <1>3, <1>4 DEF Saying
<1>6. Hearing'
  <2> SUFFICES ASSUME torn' # "spliced" PROVE Hearing'
    BY DEF Hearing
  <2>1. torn = "no" /\ torn' = "no"
    BY <1>1
  <2>h. heard \in Seq(Commands)
    BY <2>1 DEF Speech, Hearing
  <2>2. PICK cs \in Seq(Commands) :
           said = heard \o cs /\ (nsqd # "closed" => Unheard(up, cs, torn = "no"))
    BY <2>1 DEF Speech, Hearing
  <2> DEFINE ds == cs \o more
  <2>3. ds \in Seq(Commands)
    OBVIOUS
  <2>4. said' = heard \o ds
    BY <1>1, <2>h, <2>2, CommandsAssoc, Zenon
  <2>5. ASSUME nsqd # "closed" PROVE up' = Bytes(ds)
    <3>1. link # "lost" /\ up = Bytes(cs)
      BY <1>3, <2>1, <2>2, <2>5 DEF Saying, Unheard
    <3>2. up' = up \o Bytes(more)
      BY <1>1, <1>2, <3>1, Zenon
    <3>3. Bytes(ds) = Bytes(cs) \o Bytes(more)
      BY BytesMore
    <3> QED BY <3>1, <3>2, <3>3, Zenon
  <2> HIDE DEF ds
  <2>6. nsqd' # "closed" => Unheard(up', ds, torn' = "no")
    BY <2>1, <2>5 DEF Unheard
  <2>7. said' = heard' \o ds
    BY <2>4
  <2> QED BY <2>h, <2>3, <2>6, <2>7 DEF Hearing
<1> QED BY <1>5, <1>6 DEF Speech

(* What the user has said is still said.                                    *)
LEMMA UserStillSpoke ==
    ASSUME said \in Seq(Commands), NEW command \in Commands, said' = Append(said, command),
           UserSpoke \/ command.name \in {"DPUB", "CLS"}
    PROVE  UserSpoke'
<1>1. ASSUME UserSpoke PROVE UserSpoke'
  <2>1. PICK i \in DOMAIN said : said[i].name \in {"DPUB", "CLS"}
    BY <1>1 DEF UserSpoke
  <2>2. i \in DOMAIN said' /\ said'[i] = said[i]
    OBVIOUS
  <2> QED BY <2>1, <2>2 DEF UserSpoke
<1>2. ASSUME command.name \in {"DPUB", "CLS"} PROVE UserSpoke'
  <2>1. Len(said) + 1 \in DOMAIN said' /\ said'[Len(said) + 1] = command
    OBVIOUS
  <2> QED BY <1>2, <2>1 DEF UserSpoke
<1> QED BY <1>1, <1>2

(* SayPart: a part of one more command is written.                          *)
LEMMA SayPartSpeech ==
    ASSUME Speech, NEW c \in Commands, NEW n \in Cuts(ToBytes(c)), SayPart(c, n),
           UNCHANGED <<input, link, nsqd, heard>>,
           pc' \in {"held", "done"},
           torn # "no" => UserSpoke'
    PROVE  Speech'
<1>1. /\ said' = Append(said, c)
      /\ torn' = IF torn = "no" THEN "cut" ELSE "spliced"
      /\ up' = up \o Take(ToBytes(c), n)
  BY DEF SayPart
<1>2. Saying /\ said \in Seq(Commands)
  BY DEF Speech, Saying
<1>3. said' \in Seq(Commands)
  BY <1>1, <1>2
<1>4. Saying'
  BY <1>1, <1>2, <1>3 DEF Saying
<1>5. Hearing'
  <2> SUFFICES ASSUME torn' # "spliced" PROVE Hearing'
    BY DEF Hearing
  <2>1. torn = "no" /\ torn' = "cut"
    BY <1>1
  <2>2. heard \in Seq(Commands)
    BY <2>1 DEF Speech, Hearing
  <2>3. PICK cs \in Seq(Commands) :
           said = heard \o cs /\ (nsqd # "closed" => Unheard(up, cs, torn = "no"))
    BY <2>1 DEF Speech, Hearing
  <2> DEFINE ds == Append(cs, c)
  <2>4. ds \in Seq(Commands)
    OBVIOUS
  <2>5. said' = heard \o ds
    <3>1. Append(heard \o cs, c) = heard \o Append(cs, c)
      BY <2>2
    <3> QED BY <1>1, <2>3, <3>1, Zenon
  <2>6. n \in 1..(Size(ToBytes(c)) - 1)
    BY CutsWithin
  <2>7. ASSUME nsqd # "closed" PROVE Unheard(up', ds, FALSE)
    <3>1. up = Bytes(cs)
      BY <2>1, <2>3, <2>7 DEF Unheard
    <3>2. up' = Bytes(cs) \o Take(ToBytes(c), n)
      BY <1>1, <3>1, Zenon
    <3> QED BY <2>6, <3>2, Zenon DEF Unheard
  <2> HIDE DEF ds
  <2>8. nsqd' # "closed" => Unheard(up', ds, torn' = "no")
    <3>1. (torn' = "no") = FALSE
      BY <2>1
    <3> QED BY <2>7, <3>1
  <2> QED BY <2>2, <2>4, <2>5, <2>8 DEF Hearing
<1> QED BY <1>4, <1>5 DEF Speech

(* The steps that write nothing and read nothing of what was written.       *)
LEMMA SilentSpeech ==
    ASSUME Speech, UNCHANGED <<input, sayVars, heard>>,
           nsqd' = nsqd \/ nsqd' = "closed",
           link' = "lost" => nsqd' = "closed",
           pc' = "send" => input.call # "connect",
           torn # "no" => pc' \in {"held", "reading", "done"}
    PROVE  Speech'
<1>1. up' = up /\ said' = said /\ torn' = torn /\ heard' = heard /\ input' = input
  BY DEF sayVars
<1>2. UserSpoke => UserSpoke'
  BY <1>1 DEF UserSpoke
<1>3. Saying'
  BY <1>1, <1>2 DEF Speech, Saying
<1>4. Hearing'
  BY <1>1 DEF Speech, Hearing
<1> QED BY <1>3, <1>4 DEF Speech

(* An operation that fails ends the call, or leaves the user with the       *)
(* connection.                                                              *)
LEMMA FailsTo == Fails => pc' \in {"held", "done"}
BY DEF Fails, Returns

(* Write: all of the command, a part of it or none.                         *)
LEMMA WriteSpeech ==
    ASSUME Speech, NEW c \in Commands, NEW next \in {"answer", "subscribed", "held"},
           Write(c, next), UNCHANGED <<input, link, nsqd, heard>>,
           torn # "no" => next = "held" /\ c.name \in {"DPUB", "CLS"}
    PROVE  Speech'
<1>1. <<c>> \in Seq(Commands) /\ said \in Seq(Commands)
  BY DEF Speech, Saying
<1>2. ASSUME Say(<<c>>), pc' = next PROVE Speech'
  <2>1. said' = Append(said, c)
    <3>1. said' = said \o <<c>>
      BY <1>2 DEF Say
    <3> QED BY <1>1, <3>1
  <2>2. torn # "no" => pc' \in {"held", "reading", "done"} /\ UserSpoke'
    BY <1>1, <1>2, <2>1, UserStillSpoke
  <2>3. pc' = "send" => input.call # "connect"
    BY <1>2
  <2> QED BY <1>1, <1>2, <2>2, <2>3, SaySpeech
<1>3. ASSUME NEW n \in Cuts(ToBytes(c)), SayPart(c, n), Fails PROVE Speech'
  <2>1. said' = Append(said, c)
    BY <1>3 DEF SayPart
  <2>2. torn # "no" => UserSpoke'
    BY <1>1, <2>1, UserStillSpoke
  <2> QED BY <1>3, <2>2, FailsTo, SayPartSpeech
<1>4. ASSUME Fails, UNCHANGED sayVars PROVE Speech'
  <2>1. pc' \in {"held", "done"}
    BY <1>4, FailsTo
  <2>2. link' = "lost" => nsqd' = "closed"
    BY DEF Speech, Saying
  <2> QED BY <1>4, <2>1, <2>2, SilentSpeech
<1> QED BY <1>2, <1>3, <1>4 DEF Write

(* nsqd reads a command, for which it is in a state that is not "closed".   *)
LEMMA HearSpeech ==
    ASSUME Speech, NEW stray \in Nat, nsqd # "closed", up # <<>>, CommandAt(up, stray).verdict = "ok",
           up' = CommandAt(up, stray).rest,
           heard' = Append(heard, Command(up[1][2], CommandAt(up, stray).bodies)),
           UNCHANGED <<input, pc, link, said, torn>>
    PROVE  Speech'
<1>1. UserSpoke => UserSpoke'
  BY DEF UserSpoke
<1>2. link # "lost"
  BY DEF Speech, Saying
<1>3. Saying'
  BY <1>1, <1>2 DEF Speech, Saying
<1>4. Hearing'
  <2> SUFFICES ASSUME torn # "spliced" PROVE Hearing'
    BY DEF Hearing
  <2>1. heard \in Seq(Commands)
    BY DEF Speech, Hearing
  <2>2. PICK cs \in Seq(Commands) : said = heard \o cs /\ Unheard(up, cs, torn = "no")
    BY DEF Speech, Hearing
  <2>3. PICK c \in Commands, rest \in Seq(Commands) :
           /\ cs = <<c>> \o rest
           /\ Command(up[1][2], CommandAt(up, stray).bodies) = c
           /\ Unheard(CommandAt(up, stray).rest, rest, torn = "no")
    <3> DEFINE whole == torn = "no"
    <3>1. whole \in BOOLEAN /\ Unheard(up, cs, whole)
      BY <2>2
    <3> HIDE DEF whole
    <3>2. \E c \in Commands, rest \in Seq(Commands) :
              /\ cs = <<c>> \o rest
              /\ Command(up[1][2], CommandAt(up, stray).bodies) = c
              /\ Unheard(CommandAt(up, stray).rest, rest, whole)
      BY <3>1, HearsNext
    <3> QED BY <3>2 DEF whole
  <2>4. heard' = Append(heard, c) /\ heard' \in Seq(Commands)
    <3>1. heard' = Append(heard, c)
      BY <2>3, Zenon
    <3> QED BY <2>1, <3>1
  <2>5. said = heard' \o rest
    <3>1. heard \o (<<c>> \o rest) = Append(heard, c) \o rest
      BY <2>1
    <3> QED BY <2>2, <2>3, <2>4, <3>1, Zenon
  <2>6. said' = heard' \o rest /\ Unheard(up', rest, torn' = "no")
    BY <2>3, <2>5, Zenon
  <2> QED BY <2>4, <2>6 DEF Hearing
<1> QED BY <1>3, <1>4 DEF Speech

(* The client's reads: none leads to "send", and from a torn write only to  *)
(* the user.                                                                *)
LEMMA ReadsSpeech ==
    ASSUME Speech,
           ReadSize \/ ReadType \/ ReadData \/ ReadFails \/ UserDrops
    PROVE  Speech'
<1>1. UNCHANGED <<input, sayVars, heard, nsqd, link>>
  BY DEF ReadSize, ReadType, ReadData, ReadFails, UserDrops, nsqdVars
<1>2. Reading
  BY DEF ReadSize, ReadType, ReadData, ReadFails, UserDrops, Reading
<1>3. pc' # "send" /\ (pc = "reading" => pc' \in {"held", "reading", "done"})
  <2>1. ASSUME ReadError(TRUE) \/ ReadError(at # "size") PROVE pc' \in {"held", "done"}
    BY <2>1, FailsTo DEF ReadError
  <2>2. CASE ReadSize
    BY <1>2, <2>1, <2>2 DEF ReadSize, Reading
  <2>3. CASE ReadType
    BY <1>2, <2>1, <2>3 DEF ReadType, Reading
  <2>4. CASE ReadData
    <3>1. ReadError(FALSE) \/ Proceeds \/ pc' = "done"
      BY <2>4 DEF ReadData
    <3>2. CASE ReadError(FALSE)
      BY <3>2, FailsTo DEF ReadError
    <3>3. CASE Proceeds
      BY <1>2, <3>3 DEF Reading, Proceeds, Answered, Returns
    <3>4. CASE pc' = "done"
      BY <3>4
    <3> QED BY <3>1, <3>2, <3>3, <3>4
  <2>5. CASE ReadFails
    BY <2>1, <2>5 DEF ReadFails
  <2>6. CASE UserDrops
    BY <2>6, FailsTo DEF UserDrops, ReadError
  <2> QED BY <2>2, <2>3, <2>4, <2>5, <2>6
<1>4. torn # "no" => pc = "reading"
  BY <1>2 DEF Speech, Saying, Reading
<1>5. link' = "lost" => nsqd' = "closed"
  BY <1>1 DEF Speech, Saying
<1> QED BY <1>1, <1>3, <1>4, <1>5, SilentSpeech

(* What the client says.                                                    *)
LEMMA SaysSpeech ==
    ASSUME Speech,
           SendIdentify \/ SendAuth \/ SendCommand \/ SendReady \/ UserSends \/ UserCloses
    PROVE  Speech'
<1>1. UNCHANGED <<input, nsqd, heard>>
  BY DEF SendIdentify, SendAuth, SendCommand, SendReady, UserSends, UserCloses, nsqdVars
<1>2. torn # "no" => pc \in {"held", "reading", "done"}
  BY DEF Speech, Saying
<1>3. link = "lost" => nsqd = "closed"
  BY DEF Speech, Saying
<1>4. CASE SendIdentify
  <2>1. pc = "identify" /\ UNCHANGED link
    BY <1>4 DEF SendIdentify
  <2>2. ASSUME Say(<<Command("MAGIC", <<>>), Config>>), pc' = "identified" PROVE Speech'
    <3> DEFINE more == <<Command("MAGIC", <<>>), Config>>
    <3>1. more \in Seq(Commands)
      BY FixedCommands
    <3> HIDE DEF more
    <3>2. Say(more) /\ torn = "no" /\ pc' # "send"
      BY <1>2, <2>1, <2>2 DEF more
    <3> QED BY <1>1, <2>1, <3>1, <3>2, SaySpeech
  <2>3. ASSUME Returns("error"), UNCHANGED sayVars PROVE Speech'
    <3>1. pc' = "done" /\ (link' = "lost" => nsqd' = "closed")
      BY <1>1, <1>3, <2>1, <2>3 DEF Returns
    <3> QED BY <1>1, <2>3, <3>1, SilentSpeech
  <2> QED BY <1>4, <2>2, <2>3 DEF SendIdentify
<1>5. CASE SendAuth
  <2>1. pc = "auth" /\ UNCHANGED link
    BY <1>5 DEF SendAuth
  <2>2. ASSUME Say(<<Secret>>), pc' = "authed" PROVE Speech'
    <3> DEFINE more == <<Secret>>
    <3>1. more \in Seq(Commands)
      BY FixedCommands
    <3> HIDE DEF more
    <3>2. Say(more) /\ torn = "no" /\ pc' # "send"
      BY <1>2, <2>1, <2>2 DEF more
    <3> QED BY <1>1, <2>1, <3>1, <3>2, SaySpeech
  <2>3. ASSUME Returns("error"), UNCHANGED sayVars PROVE Speech'
    <3>1. pc' = "done" /\ (link' = "lost" => nsqd' = "closed")
      BY <1>1, <1>3, <2>1, <2>3 DEF Returns
    <3> QED BY <1>1, <2>3, <3>1, SilentSpeech
  <2> QED BY <1>5, <2>2, <2>3 DEF SendAuth
<1>6. CASE SendCommand
  <2>1. pc = "send" /\ Write(Query, "answer") /\ UNCHANGED link
    BY <1>6 DEF SendCommand
  <2>2. Query \in Commands
    BY <2>1, QueryCommand DEF Speech, Saying
  <2>3. torn = "no"
    BY <1>2, <2>1
  <2> QED BY <1>1, <2>1, <2>2, <2>3, WriteSpeech
<1>7. CASE SendReady
  <2>1. pc = "ready" /\ Write(Command("RDY", <<>>), "subscribed") /\ UNCHANGED link
    BY <1>7 DEF SendReady
  <2>2. torn = "no"
    BY <1>2, <2>1
  <2> QED BY <1>1, <2>1, <2>2, FixedCommands, WriteSpeech
<1>8. CASE UserSends
  <2> DEFINE c == Command("DPUB", << <<Chunk("later")>> >>)
  <2>1. c \in Commands /\ c.name = "DPUB"
    BY FixedCommands DEF Command
  <2>2. Write(c, "held") /\ UNCHANGED link
    BY <1>8 DEF UserSends
  <2> HIDE DEF c
  <2> QED BY <1>1, <2>1, <2>2, WriteSpeech
<1>9. CASE UserCloses
  <2>1. ASSUME Write(Command("CLS", <<>>), "held"), UNCHANGED link PROVE Speech'
    <3>1. Command("CLS", <<>>) \in Commands /\ Command("CLS", <<>>).name = "CLS"
      BY FixedCommands DEF Command
    <3> QED BY <1>1, <2>1, <3>1, WriteSpeech
  <2>2. ASSUME link' = "shut", UNCHANGED <<pc, result, sayVars>> PROVE Speech'
    <3>1. pc = "held"
      BY <1>9 DEF UserCloses
    <3> QED BY <1>1, <2>2, <3>1, SilentSpeech
  <2> QED BY <1>9, <2>1, <2>2 DEF UserCloses
<1> QED BY <1>4, <1>5, <1>6, <1>7, <1>8, <1>9

(* nsqd reads, refuses, sends or goes away.                                 *)
LEMMA NsqdSpeech ==
    ASSUME Speech, Nsqd \/ LinkLost
    PROVE  Speech'
<1>1. /\ link = "lost" => nsqd = "closed"
      /\ pc = "send" => input.call # "connect"
      /\ torn # "no" => pc \in {"held", "reading", "done"}
  BY DEF Speech, Saying
<1>2. CASE NsqdHears
  <2>1. PICK stray \in Strays :
           /\ nsqd # "closed" /\ up # <<>> /\ CommandAt(up, stray).verdict = "ok"
           /\ up' = CommandAt(up, stray).rest
           /\ heard' = Append(heard, Command(up[1][2], CommandAt(up, stray).bodies))
           /\ UNCHANGED <<input, pc, link, said, torn>>
    BY <1>2 DEF NsqdHears
  <2>2. stray \in Nat
    BY OneShotAssumption
  <2> QED BY <2>1, <2>2, HearSpeech
<1>3. CASE NsqdRejects
  <2>1. PICK stray \in Strays :
           /\ up # <<>> /\ CommandAt(up, stray).verdict = "ok"
           /\ nsqd \in DOMAIN After(up[1][2])
           /\ up' = CommandAt(up, stray).rest
           /\ heard' = Append(heard, Command(up[1][2], CommandAt(up, stray).bodies))
           /\ UNCHANGED <<input, pc, link, said, torn>>
    BY <1>3 DEF NsqdRejects
  <2>2. nsqd # "closed" /\ stray \in Nat
    BY <2>1, OneShotAssumption DEF After
  <2> QED BY <2>1, <2>2, HearSpeech
<1>4. CASE NsqdRefuses
  <2>1. /\ nsqd' = "closed"
        /\ UNCHANGED <<input, pc, up, said, torn, heard>>
    BY <1>4 DEF NsqdRefuses
  <2> QED BY <1>1, <2>1, SilentSpeech DEF sayVars
<1>5. CASE NsqdSends
  <2>1. UNCHANGED <<input, pc, up, said, torn, heard, nsqd, link>>
    BY <1>5 DEF NsqdSends
  <2> QED BY <1>1, <2>1, SilentSpeech DEF sayVars
<1>6. CASE LinkLost
  <2>1. nsqd' = "closed" /\ UNCHANGED <<input, pc, sayVars, heard>>
    BY <1>6 DEF LinkLost
  <2> QED BY <1>1, <2>1, SilentSpeech
<1> QED BY <1>2, <1>3, <1>4, <1>5, <1>6 DEF Nsqd

(* The other steps of the client write nothing.                             *)
LEMMA OthersSpeech ==
    ASSUME Speech, Start \/ Dial \/ Connected \/ Subscribed \/ UserReads \/ UNCHANGED vars
    PROVE  Speech'
<1>1. UNCHANGED <<input, sayVars, heard, nsqd>>
  BY DEF Start, Dial, Connected, Subscribed, UserReads, vars, nsqdVars, sayVars
<1>2. link' = "lost" => nsqd' = "closed"
  BY <1>1 DEF Start, Dial, Connected, Subscribed, UserReads, vars, Speech, Saying
<1>3. pc' = "send" => input.call # "connect"
  BY <1>1 DEF Start, Dial, Connected, Subscribed, UserReads, vars, Returns, Speech, Saying
<1>4. torn # "no" => pc' \in {"held", "reading", "done"}
  BY DEF Start, Dial, Connected, Subscribed, UserReads, vars, Returns, Speech, Saying
<1> QED BY <1>1, <1>2, <1>3, <1>4, SilentSpeech

(* What nsqd has read and what is on the way to it are what was said, until *)
(* a user writes on after a write that was cut.                             *)
THEOREM SpeechHolds == Spec => []Speech
<1>1. Init => Speech
  <2> SUFFICES ASSUME Init PROVE Speech
    OBVIOUS
  <2>1. Saying
    BY DEF Init, Saying
  <2>2. Unheard(up, <<>>, torn = "no")
    BY BytesIs DEF Init, Unheard
  <2>3. <<>> \in Seq(Commands) /\ heard = <<>> /\ said = heard \o <<>>
    BY DEF Init
  <2> QED BY <2>1, <2>2, <2>3 DEF Speech, Hearing
<1>2. Speech /\ [Next]_vars => Speech'
  BY ReadsSpeech, SaysSpeech, NsqdSpeech, OthersSpeech, Zenon
     DEF Next, Client, User, ReadFrame
<1> QED BY <1>1, <1>2, PTL DEF Spec

(* HeardAsSaid: nsqd reads the commands that were written, in their order,  *)
(* unless a user wrote on after a write that was cut (connection.rs,        *)
(* write_bytes: the timeout drops the write wherever it is).                *)
THEOREM HeardAsSaidHolds == Spec => []HeardAsSaid
<1>1. Speech => HeardAsSaid
  <2> SUFFICES ASSUME Speech PROVE HeardAsSaid
    OBVIOUS
  <2>1. CASE torn = "spliced"
    BY <2>1 DEF Speech, Saying, UserSpoke, HeardAsSaid
  <2>2. CASE torn # "spliced"
    <3>1. heard \in Seq(Commands)
      BY <2>2 DEF Speech, Hearing
    <3>2. PICK cs \in Seq(Commands) : said = heard \o cs
      BY <2>2 DEF Speech, Hearing
    <3>3. IsPrefix(heard, said)
      BY <3>1, <3>2, PrefixOf
    <3> QED BY <3>3 DEF HeardAsSaid
  <2> QED BY <2>1, <2>2
<1> QED BY <1>1, SpeechHolds, PTL

-----------------------------------------------------------------------------
(* A call that publishes *)

Publishing == input.call \in {"publish", "mpublish"}

Greeting == <<Command("MAGIC", <<>>), Config>>
Heartbeat == <<Chunk("heartbeat")>>

(* The second frame nsqd sent was taken for the confirmation, or there was  *)
(* nothing to publish.                                                      *)
Confirmed ==
    \/ Len(got) = 2 /\ Len(sent) >= 2 /\ got[2] = sent[2] /\ sent[2].type = Response
    \/ said = <<>> /\ input.bodies = <<>>

Progress ==
    /\ pc \in {"start", "dial", "identify", "identified", "connected", "send", "answer", "done"}
    /\ pc \in {"start", "dial", "identify"} => said = <<>> /\ got = <<>>
    /\ pc = "identified" => said = Greeting /\ got = <<>>
    /\ pc \in {"connected", "send"} => said = Greeting /\ Len(got) = 1
    /\ pc = "answer" => said = Append(Greeting, Query) /\ Len(got) = 1
    /\ pc = "done" => said \in {<<>>, Greeting, Append(Greeting, Query)}
    /\ result = "ok" => pc = "done" /\ Confirmed

(* What nsqd answers after IDENTIFY is no plain response before it has      *)
(* stored the bodies, and only the third command has bodies to store.       *)
Storing ==
    /\ Len(heard) < 3 => stored = <<>>
    /\ nsqd \in {"magic", "identify"} => sent = <<>>
    /\ \A i \in 2..Len(sent) :
          sent[i].type = Response => sent[i].data = Heartbeat \/ stored = input.bodies

Confirming == Publishing => Progress /\ Storing

(* Two commands and a third.                                                *)
LEMMA ThirdSaid ==
    ASSUME NEW g \in Seq(Commands), NEW c \in Commands, Len(g) = 2
    PROVE  LET said3 == Append(g, c) IN
           /\ said3 \in Seq(Commands) /\ Len(said3) = 3
           /\ said3[1] = g[1] /\ said3[2] = g[2] /\ said3[3] = c
<1>1. \A s \in Seq(Commands) : Append(s, c) \in Seq(Commands) /\ Len(Append(s, c)) = Len(s) + 1
  OBVIOUS
<1>2. \A s \in Seq(Commands) : \A i \in 1..Len(s) : Append(s, c)[i] = s[i]
  OBVIOUS
<1>3. \A s \in Seq(Commands) : Append(s, c)[Len(s) + 1] = c
  OBVIOUS
<1> DEFINE t == Append(g, c)
<1>4. t \in Seq(Commands) /\ Len(t) = Len(g) + 1 /\ (\A i \in 1..Len(g) : t[i] = g[i])
      /\ t[Len(g) + 1] = c
  BY <1>1, <1>2, <1>3, Zenon
<1> HIDE DEF t
<1>5. Len(t) = 3 /\ t[1] = g[1] /\ t[2] = g[2] /\ t[3] = c
  <2>1. Len(g) + 1 = 3 /\ 1 \in 1..Len(g) /\ 2 \in 1..Len(g)
    OBVIOUS
  <2> QED BY <1>4, <2>1, Zenon
<1> QED BY <1>4, <1>5, Zenon DEF t

(* A publishing call says three commands, of which one has bodies to store. *)
LEMMA PublishingSays ==
    ASSUME input \in Inputs, Publishing
    PROVE  /\ Query \in Commands /\ Query.name \in {"PUB", "MPUB"}
           /\ Query.bodies = input.bodies
           /\ ~input.secret /\ input.call \notin {"subscribe", "connect"}
           /\ Greeting \in Seq(Commands) /\ Append(Greeting, Query) \in Seq(Commands)
           /\ Len(Append(Greeting, Query)) = 3
           /\ Greeting[1].name = "MAGIC" /\ Greeting[2].name = "IDENTIFY"
<1>1. input.call \notin {"subscribe", "connect"} /\ ~input.secret
  BY OneShotAssumption DEF Publishing
<1>2. Query \in Commands
  BY <1>1, QueryCommand
<1>3. Query.name \in {"PUB", "MPUB"} /\ Query.bodies = input.bodies
  BY DEF Publishing, Query, Command
<1>4. Greeting \in Seq(Commands) /\ Len(Greeting) = 2
  BY FixedCommands DEF Greeting
<1>5. Append(Greeting, Query) \in Seq(Commands) /\ Len(Append(Greeting, Query)) = 3
  BY <1>2, <1>4, ThirdSaid
<1>6. Greeting[1].name = "MAGIC" /\ Greeting[2].name = "IDENTIFY"
  BY DEF Greeting, Config, Command
<1> QED BY <1>1, <1>2, <1>3, <1>4, <1>5, <1>6

(* Of its commands, each at its place.                                      *)
LEMMA SaidIs ==
    ASSUME input \in Inputs, Publishing, Progress
    PROVE  /\ Len(said) <= 3
           /\ \A i \in 1..Len(said) :
                 \/ i = 1 /\ said[i].name = "MAGIC"
                 \/ i = 2 /\ said[i].name = "IDENTIFY"
                 \/ i = 3 /\ said[i] = Query
           /\ ~UserSpoke
<1> DEFINE Q == Query
           G == Greeting
<1>1. /\ G \in Seq(Commands) /\ Len(G) = 2 /\ Q \in Commands
      /\ G[1].name = "MAGIC" /\ G[2].name = "IDENTIFY" /\ Q.name \in {"PUB", "MPUB"}
  BY PublishingSays DEF Greeting
<1>2. said \in {<<>>, G, Append(G, Q)}
  BY DEF Progress
<1> HIDE DEF G, Q
<1>3. /\ Len(said) <= 3
      /\ \A i \in 1..Len(said) :
            \/ i = 1 /\ said[i].name = "MAGIC"
            \/ i = 2 /\ said[i].name = "IDENTIFY"
            \/ i = 3 /\ said[i] = Q
      /\ DOMAIN said = 1..Len(said)
  <2>1. CASE said = <<>>
    BY <2>1
  <2>2. CASE said = G
    <3>1. said \in Seq(Commands) /\ Len(said) = 2
          /\ said[1].name = "MAGIC" /\ said[2].name = "IDENTIFY"
      BY <1>1, <2>2, Zenon
    <3> QED BY <3>1
  <2>3. CASE said = Append(G, Q)
    <3>1. /\ said \in Seq(Commands) /\ Len(said) = 3
          /\ said[1] = G[1] /\ said[2] = G[2] /\ said[3] = Q
      BY <1>1, <2>3, ThirdSaid, Zenon
    <3> QED BY <1>1, <3>1
  <2> QED BY <1>2, <2>1, <2>2, <2>3
<1>4. \A i \in DOMAIN said : said[i].name \notin {"DPUB", "CLS"}
  BY <1>1, <1>3
<1> QED BY <1>3, <1>4 DEF UserSpoke, Q

(* nsqd finds the command c at the head of what is on the way to it.        *)
Hears(c) ==
    /\ nsqd # "closed" /\ up # <<>>
    /\ \E stray \in Strays :
          /\ CommandAt(up, stray).verdict = "ok"
          /\ c = Command(up[1][2], CommandAt(up, stray).bodies)

(* It is the next of those that were said.                                  *)
LEMMA HeardNext ==
    ASSUME Speech, Publishing, Progress, NEW c, Hears(c)
    PROVE  /\ heard \in Seq(Commands)
           /\ LET n == Len(heard) + 1
              IN  \/ n = 1 /\ c.name = "MAGIC"
                  \/ n = 2 /\ c.name = "IDENTIFY"
                  \/ n = 3 /\ c = Query
<1>1. input \in Inputs
  BY DEF Speech, Saying
<1>2. torn # "spliced"
  BY <1>1, SaidIs DEF Speech, Saying
<1>3. heard \in Seq(Commands)
  BY <1>2 DEF Speech, Hearing
<1>4. PICK stray \in Strays : /\ CommandAt(up, stray).verdict = "ok"
                              /\ c = Command(up[1][2], CommandAt(up, stray).bodies)
  BY DEF Hears
<1>5. nsqd # "closed" /\ up # <<>> /\ stray \in Nat
  BY OneShotAssumption DEF Hears
<1> DEFINE whole == torn = "no"
<1>6. PICK cs \in Seq(Commands) : said = heard \o cs /\ Unheard(up, cs, whole)
  BY <1>2, <1>5 DEF Speech, Hearing
<1>7. whole \in BOOLEAN /\ up # <<>> /\ CommandAt(up, stray).verdict = "ok" /\ stray \in Nat
  BY <1>4, <1>5
<1> HIDE DEF whole
<1>8. PICK d \in Commands, rest \in Seq(Commands) :
         cs = <<d>> \o rest /\ Command(up[1][2], CommandAt(up, stray).bodies) = d
  <2>1. \E d \in Commands, rest \in Seq(Commands) :
           /\ cs = <<d>> \o rest
           /\ Command(up[1][2], CommandAt(up, stray).bodies) = d
           /\ Unheard(CommandAt(up, stray).rest, rest, whole)
    BY <1>6, <1>7, HearsNext
  <2> QED BY <2>1, Zenon
<1> DEFINE n == Len(heard) + 1
<1>9. n \in 1..Len(said) /\ said[n] = d /\ c = d
  BY <1>3, <1>4, <1>6, <1>8
<1> HIDE DEF n
<1>10. \/ n = 1 /\ c.name = "MAGIC"
       \/ n = 2 /\ c.name = "IDENTIFY"
       \/ n = 3 /\ c = Query
  BY <1>1, <1>9, SaidIs
<1> QED BY <1>3, <1>10, Zenon DEF n

(* One more frame is sent.                                                  *)
LEMMA SentMore ==
    ASSUME sent \in Seq(Frames), NEW f \in Frames, sent' = Append(sent, f)
    PROVE  /\ Len(sent) \in Nat /\ Len(sent') = Len(sent) + 1
           /\ \A i \in 1..Len(sent) : sent'[i] = sent[i]
           /\ sent'[Len(sent) + 1] = f
<1>1. Len(sent) \in Nat /\ Len(sent') = Len(sent) + 1
  OBVIOUS
<1>2. \A i \in 1..Len(sent) : sent'[i] = sent[i]
  OBVIOUS
<1>3. sent'[Len(sent) + 1] = f
  OBVIOUS
<1> QED BY <1>1, <1>2, <1>3

(* What a call has said and read stays so when nsqd sends.                  *)
LEMMA ProgressSends ==
    ASSUME Progress, sent \in Seq(Frames), UNCHANGED <<input, pc, result, said, got>>,
           UNCHANGED sent \/ \E f \in Frames : sent' = Append(sent, f)
    PROVE  Progress'
<1>1. Query' = Query
  BY DEF Query
<1>2. Confirmed => Confirmed'
  <2>1. CASE UNCHANGED sent
    BY <2>1 DEF Confirmed
  <2>2. ASSUME NEW f \in Frames, sent' = Append(sent, f), Confirmed PROVE Confirmed'
    <3>1. /\ Len(sent) \in Nat /\ Len(sent') = Len(sent) + 1
          /\ \A i \in 1..Len(sent) : sent'[i] = sent[i]
      BY <2>2, SentMore
    <3>2. Len(sent) >= 2 => Len(sent') >= 2 /\ sent'[2] = sent[2]
      BY <3>1
    <3> QED BY <2>2, <3>2 DEF Confirmed
  <2> QED BY <2>1, <2>2
<1> QED BY <1>1, <1>2 DEF Progress

(* A frame is sent that is no plain response, or the first, or confirms.    *)
LEMMA StoringSends ==
    ASSUME Storing, sent \in Seq(Frames), NEW f \in Frames, Send(f), input' = input,
           Len(heard') < 3 => stored' = <<>>,
           nsqd' \notin {"magic", "identify"},
           stored' = stored \/ stored' = input.bodies,
           \/ sent = <<>> \/ f.type # Response \/ f.data = Heartbeat
           \/ stored' = input.bodies
    PROVE  Storing'
<1>1. sent' = Append(sent, f)
  BY DEF Send
<1>2. /\ Len(sent) \in Nat /\ Len(sent') = Len(sent) + 1
      /\ \A i \in 1..Len(sent) : sent'[i] = sent[i]
      /\ sent'[Len(sent) + 1] = f
  BY <1>1, SentMore
<1>3. ASSUME NEW i \in 2..Len(sent'), sent'[i].type = Response
      PROVE  sent'[i].data = Heartbeat \/ stored' = input.bodies
  <2>1. CASE i \in 2..Len(sent)
    <3>1. sent'[i] = sent[i]
      BY <1>2, <2>1
    <3> QED BY <1>3, <2>1, <3>1 DEF Storing
  <2>2. CASE i \notin 2..Len(sent)
    <3>1. i = Len(sent) + 1 /\ sent # <<>> /\ sent'[i] = f
      BY <1>2, <2>2
    <3> QED BY <1>3, <3>1
  <2> QED BY <2>1, <2>2
<1> QED BY <1>3 DEF Storing

(* Storing is about the frames sent and what is stored, and the state of    *)
(* nsqd.                                                                    *)
LEMMA StoringStays ==
    ASSUME Storing, UNCHANGED <<input, stored, heard, sent>>,
           nsqd' = nsqd \/ nsqd' = "closed"
    PROVE  Storing'
BY DEF Storing

(* nsqd reads, refuses, sends.                                              *)
LEMMA NsqdConfirms ==
    ASSUME Confirming, Position, Speech, Nsqd
    PROVE  Confirming'
<1> SUFFICES ASSUME Publishing' PROVE Progress' /\ Storing'
  BY DEF Confirming
<1>1. /\ UNCHANGED <<input, pc, said, got>>
      /\ UNCHANGED <<sent, down>> \/ \E f \in Frames : Send(f)
  BY NsqdSendsFrames
<1>2. Publishing /\ Progress /\ Storing /\ sent \in Seq(Frames) /\ input \in Inputs
  BY <1>1 DEF Confirming, Publishing, Position, Reads, SentFrames, Speech, Saying
<1>3. Progress'
  <2>1. UNCHANGED result
    BY DEF Nsqd, NsqdHears, NsqdRejects, NsqdRefuses, NsqdSends
  <2>2. UNCHANGED sent \/ \E f \in Frames : sent' = Append(sent, f)
    BY <1>1 DEF Send
  <2> QED BY <1>1, <1>2, <2>1, <2>2, ProgressSends
<1> DEFINE n == Len(heard) + 1
<1>4. ASSUME NEW stray \in Strays, nsqd # "closed", up # <<>>, CommandAt(up, stray).verdict = "ok"
      PROVE  /\ Hears(Command(up[1][2], CommandAt(up, stray).bodies))
             /\ Command(up[1][2], CommandAt(up, stray).bodies).name = up[1][2]
             /\ Command(up[1][2], CommandAt(up, stray).bodies).bodies = CommandAt(up, stray).bodies
  BY <1>4 DEF Command, Hears
<1>5. ASSUME NEW c, Hears(c), heard' = Append(heard, c)
      PROVE  /\ n \in Nat /\ Len(heard') = n /\ heard \in Seq(Commands)
             /\ \/ n = 1 /\ c.name = "MAGIC"
                \/ n = 2 /\ c.name = "IDENTIFY"
                \/ n = 3 /\ c = Query
  <2>1. heard \in Seq(Commands)
    BY <1>2, <1>5, HeardNext
  <2>2. \/ n = 1 /\ c.name = "MAGIC"
        \/ n = 2 /\ c.name = "IDENTIFY"
        \/ n = 3 /\ c = Query
    BY <1>2, <1>5, HeardNext, Zenon
  <2>3. n \in Nat /\ Len(heard') = n
    BY <1>5, <2>1
  <2> QED BY <2>1, <2>2, <2>3
<1>6. Query.name \in {"PUB", "MPUB"} /\ Query.bodies = input.bodies
  BY <1>2, PublishingSays
<1>7. CASE NsqdHears
  <2>1. PICK c :
           /\ Hears(c)
           /\ nsqd \in DOMAIN After(c.name) /\ nsqd' = After(c.name)[nsqd]
           /\ heard' = Append(heard, c)
           /\ stored' = IF c.name \in {"PUB", "MPUB", "DPUB"}
                        THEN stored \o c.bodies ELSE stored
           /\ IF c.name \in {"MAGIC", "RDY"} THEN UNCHANGED <<sent, down>> ELSE Send(Ok)
    BY <1>4, <1>7, Zenon DEF NsqdHears
  <2> HIDE DEF n
  <2>2. CASE n = 1 /\ c.name = "MAGIC"
    <3>1. nsqd = "magic" /\ UNCHANGED <<sent, stored>> /\ stored = <<>> /\ sent = <<>>
      <4>1. nsqd = "magic"
        BY <2>1, <2>2 DEF After
      <4>2. Len(heard) < 3
        BY <1>5, <2>1, <2>2 DEF n
      <4> QED BY <1>2, <2>1, <2>2, <4>1, <4>2 DEF Storing
    <3>2. sent' = <<>> /\ stored' = <<>>
      BY <3>1
    <3>3. Storing'
      BY <3>2 DEF Storing
    <3> QED BY <1>3, <3>3
  <2>3. CASE n = 2 /\ c.name = "IDENTIFY"
    <3>1. nsqd = "identify" /\ nsqd' = "known" /\ Send(Ok) /\ UNCHANGED stored
      BY <2>1, <2>3 DEF After
    <3>2. stored = <<>> /\ sent = <<>>
      <4>1. Len(heard) < 3
        BY <1>5, <2>1, <2>3 DEF n
      <4> QED BY <1>2, <3>1, <4>1 DEF Storing
    <3>3. Ok \in Frames
      BY AnswerFrames
    <3>4. Storing'
      BY <1>1, <1>2, <3>1, <3>2, <3>3, StoringSends
    <3> QED BY <1>3, <3>4
  <2>4. CASE n = 3 /\ c = Query
    <3>1. Send(Ok) /\ stored' = stored \o input.bodies
      BY <1>6, <2>1, <2>4
    <3>2. stored = <<>> /\ Len(heard') = 3
      <4>1. Len(heard) < 3 /\ Len(heard') = 3
        BY <1>5, <2>1, <2>4 DEF n
      <4> QED BY <1>2, <4>1 DEF Storing
    <3>3. stored' = input.bodies
      <4> DEFINE B == Seq({"chunk"} \X STRING)
      <4>1. input.bodies \in Seq(B)
        BY <1>2, OneShotAssumption
      <4> HIDE DEF B
      <4>2. <<>> \o input.bodies = input.bodies
        BY <4>1
      <4> QED BY <3>1, <3>2, <4>2, Zenon
    <3>4. nsqd' \notin {"magic", "identify"}
      <4>1. c.name \in {"PUB", "MPUB"}
        BY <1>6, <2>4
      <4> QED BY <2>1, <4>1 DEF After
    <3>5. Ok \in Frames
      BY AnswerFrames
    <3>6. Storing'
      BY <1>1, <1>2, <3>1, <3>2, <3>3, <3>4, <3>5, StoringSends
    <3> QED BY <1>3, <3>6
  <2> QED BY <1>5, <2>1, <2>2, <2>3, <2>4
<1>8. CASE NsqdRejects
  <2> DEFINE f == Frame(Error, <<Chunk("E_FAILED")>>)
  <2>1. PICK c :
           /\ nsqd # "closed" => Hears(c)
           /\ c.name \in {"AUTH", "SUB", "PUB", "MPUB", "DPUB"} /\ nsqd \in DOMAIN After(c.name)
           /\ heard' = Append(heard, c)
           /\ Send(f) /\ UNCHANGED <<nsqd, stored>>
    <3>1. PICK stray \in Strays :
             /\ up # <<>> /\ CommandAt(up, stray).verdict = "ok"
             /\ up[1][2] \in {"AUTH", "SUB", "PUB", "MPUB", "DPUB"}
             /\ nsqd \in DOMAIN After(up[1][2])
             /\ heard' = Append(heard, Command(up[1][2], CommandAt(up, stray).bodies))
             /\ Send(f) /\ UNCHANGED <<nsqd, stored>>
      BY <1>8, Zenon DEF NsqdRejects
    <3> DEFINE c == Command(up[1][2], CommandAt(up, stray).bodies)
    <3>2. c.name = up[1][2]
      BY DEF Command
    <3>3. nsqd # "closed" => Hears(c)
      BY <1>4, <3>1
    <3> HIDE DEF c, f
    <3>4. heard' = Append(heard, c)
      BY <3>1 DEF c
    <3> QED BY <3>1, <3>2, <3>3, <3>4
  <2>2. f \in Frames /\ f.type # Response
    BY AnswerFrames DEF Frame, Error, Response
  <2> HIDE DEF n, f
  <2>3. nsqd \notin {"closed", "magic", "identify"}
    BY <2>1 DEF After
  <2>4. n = 3 /\ Len(heard') = 3
    BY <1>5, <2>1, <2>3
  <2>5. Storing'
    BY <1>1, <1>2, <2>1, <2>2, <2>3, <2>4, StoringSends
  <2> QED BY <1>3, <2>5
<1>9. CASE NsqdRefuses
  <2> DEFINE f == Frame(Error, <<Chunk("E_INVALID")>>)
  <2>1. nsqd' = "closed" /\ Send(f) /\ UNCHANGED <<heard, stored>>
    BY <1>9 DEF NsqdRefuses
  <2>2. f \in Frames /\ f.type # Response
    BY AnswerFrames DEF Frame, Error, Response
  <2> HIDE DEF f
  <2>3. Len(heard') < 3 => stored' = <<>>
    BY <1>2, <2>1 DEF Storing
  <2>4. Storing'
    BY <1>1, <1>2, <2>1, <2>2, <2>3, StoringSends
  <2> QED BY <1>3, <2>4
<1>10. CASE NsqdSends
  <2>1. /\ nsqd \in {"known", "subscribed", "ready"} /\ UNCHANGED <<nsqd, heard, stored>>
        /\ \/ Send(Frame(Response, <<Chunk("heartbeat")>>))
           \/ \E m \in Deliveries : Send(Frame(Message, <<Header(m.header)>> \o m.body))
    BY <1>10 DEF NsqdSends
  <2>2. Len(heard') < 3 => stored' = <<>>
    BY <1>2, <2>1 DEF Storing
  <2>3. \E f \in Frames : Send(f) /\ (f.type # Response \/ f.data = Heartbeat)
    <3>1. CASE Send(Frame(Response, <<Chunk("heartbeat")>>))
      BY <3>1, AnswerFrames DEF Frame, Heartbeat
    <3>2. ASSUME NEW m \in Deliveries, Send(Frame(Message, <<Header(m.header)>> \o m.body))
          PROVE  \E f \in Frames : Send(f) /\ (f.type # Response \/ f.data = Heartbeat)
      BY <3>2, MessageFrames DEF Frame, Message, Response
    <3> QED BY <2>1, <3>1, <3>2
  <2>4. Storing'
    BY <1>1, <1>2, <2>1, <2>2, <2>3, StoringSends
  <2> QED BY <1>3, <2>4
<1> QED BY <1>7, <1>8, <1>9, <1>10 DEF Nsqd

(* One more element, whatever it is.                                        *)
LEMMA AppendedLen ==
    ASSUME NEW S, NEW us \in Seq(S), NEW u
    PROVE  Len(Append(us, u)) = Len(us) + 1
OBVIOUS

(* What stands where when two sequences are joined.                         *)
LEMMA JoinedAt ==
    ASSUME NEW S, NEW us \in Seq(S), NEW vs \in Seq(S)
    PROVE  /\ Len(us \o vs) = Len(us) + Len(vs) /\ Len(us) \in Nat /\ Len(vs) \in Nat
           /\ \A i \in 1..Len(us) : (us \o vs)[i] = us[i]
           /\ Len(vs) >= 1 => (us \o vs)[Len(us) + 1] = vs[1]
OBVIOUS

(* The element behind the first.                                            *)
LEMMA ElementBehind ==
    ASSUME NEW S, NEW us \in Seq(S), NEW u \in S, NEW vs \in Seq(S)
    PROVE  (us \o (<<u>> \o vs))[Len(us) + 1] = u
<1> DEFINE one == <<u>>
           ws  == one \o vs
<1>1. one \in Seq(S) /\ Len(one) = 1 /\ one[1] = u
  OBVIOUS
<1>2. ws \in Seq(S)
  OBVIOUS
<1> HIDE DEF one
<1>3. Len(ws) = Len(one) + Len(vs) /\ Len(vs) \in Nat /\ \A i \in 1..Len(one) : ws[i] = one[i]
  BY <1>1, JoinedAt, Zenon
<1>4. 1 \in 1..Len(one) /\ Len(ws) >= 1
  <2> DEFINE k == Len(vs)
             m == Len(ws)
             n == Len(one)
  <2>1. m = n + k /\ k \in Nat /\ n = 1
    BY <1>1, <1>3
  <2> HIDE DEF k, m, n
  <2>2. 1 \in 1..n /\ m >= 1
    BY <2>1
  <2> QED BY <2>2 DEF m, n
<1>5. ws[1] = u
  BY <1>1, <1>3, <1>4, Zenon
<1> HIDE DEF ws
<1>6. (us \o ws)[Len(us) + 1] = u
  BY <1>2, <1>4, <1>5, JoinedAt, Zenon
<1> QED BY <1>6 DEF ws, one

(* The element behind a single one is the second.                           *)
LEMMA SecondOf ==
    ASSUME NEW S, NEW us \in Seq(S), NEW u \in S, NEW vs \in Seq(S), Len(us) = 1
    PROVE  (us \o (<<u>> \o vs))[2] = u
<1> DEFINE ws == us \o (<<u>> \o vs)
<1>1. ws[Len(us) + 1] = u
  BY ElementBehind, Zenon
<1> HIDE DEF ws
<1>2. ws[2] = u
  BY <1>1
<1> QED BY <1>2 DEF ws

(* The frame that answers the command is the second that nsqd sent.         *)
LEMMA SecondRead ==
    ASSUME Position, ReadData, ~broken, Len(got) = 1
    PROVE  /\ Len(got') = 2 /\ Len(sent') >= 2 /\ got'[2] = sent'[2]
           /\ sent'[2].type = kind
<1>1. PICK f, fs : Within(f, fs) /\ kind = f.type /\ got' = Append(got, f)
  BY DataRead
<1>2. /\ got \in Seq(Sent) /\ f \in Sent /\ fs \in Seq(Sent)
      /\ sent = got \o (<<f>> \o fs) /\ UNCHANGED sent
  BY <1>1, DataRead DEF Position, Intact, Within
<1> DEFINE S == Sent
<1>3. got \in Seq(S) /\ f \in S /\ fs \in Seq(S)
  BY <1>2
<1> HIDE DEF S
<1>4. Len(got') = 2 /\ got'[2] = f
  <2>1. \A us \in Seq(S), u \in S :
           Len(Append(us, u)) = Len(us) + 1 /\ Append(us, u)[Len(us) + 1] = u
    BY AppendProperties
  <2>2. Len(got') = Len(got) + 1 /\ got'[Len(got) + 1] = f
    BY <1>1, <1>3, <2>1, Zenon
  <2> QED BY <2>2
<1>5. sent[2] = f
  <2>1. (got \o (<<f>> \o fs))[2] = f
    BY <1>3, SecondOf, Zenon
  <2> QED BY <1>2, <2>1, Zenon
<1>6. Len(sent) >= 2
  <2> DEFINE gs == <<f>> \o fs
  <2>1. gs \in Seq(S) /\ Len(gs) = 1 + Len(fs) /\ Len(fs) \in Nat
    BY <1>3
  <2>2. sent = got \o gs
    BY <1>2
  <2> HIDE DEF gs
  <2> QED BY <1>3, <2>1, <2>2
<1> QED BY <1>1, <1>2, <1>4, <1>5, <1>6

(* A step of a call that says nothing confirms nothing.                     *)
LEMMA ProgressEnds ==
    ASSUME Progress, UNCHANGED <<input, said>>, pc' = "done", result' = "error"
    PROVE  Progress'
<1>1. Query' = Query
  BY DEF Query
<1> QED BY <1>1 DEF Progress

(* The call says its command.                                               *)
LEMMA CommandConfirms ==
    ASSUME Progress, input \in Inputs, Publishing, SendCommand
    PROVE  Progress'
<1>1. pc = "send" /\ Write(Query, "answer") /\ UNCHANGED <<input, got, sent>>
  BY DEF SendCommand, readVars, nsqdVars
<1>2. Query' = Query
  BY <1>1 DEF Query
<1>3. Query \in Commands /\ Greeting \in Seq(Commands)
  BY PublishingSays
<1>4. said = Greeting /\ Len(got) = 1 /\ result # "ok"
  BY <1>1 DEF Progress
<1>5. ASSUME Say(<<Query>>), pc' = "answer", UNCHANGED result PROVE Progress'
  <2>1. said' = Append(Greeting, Query)
    <3> DEFINE g == Greeting
               q == Query
    <3>1. said' = g \o <<q>> /\ g \in Seq(Commands) /\ q \in Commands
      BY <1>3, <1>4, <1>5 DEF Say
    <3> HIDE DEF g, q
    <3>2. said' = Append(g, q)
      BY <3>1
    <3> QED BY <3>2 DEF g, q
  <2> QED BY <1>1, <1>2, <1>4, <1>5, <2>1 DEF Progress
<1>6. ASSUME Fails, said' = said \/ said' = Append(Greeting, Query) PROVE Progress'
  <2>1. pc' = "done" /\ result' = "error"
    BY <1>1, <1>6 DEF Fails, Returns
  <2> QED BY <1>2, <1>4, <1>6, <2>1 DEF Progress
<1>7. \/ Say(<<Query>>) /\ pc' = "answer" /\ UNCHANGED result
      \/ Fails /\ (said' = said \/ said' = Append(Greeting, Query))
  <2>1. ASSUME NEW n, SayPart(Query, n) PROVE said' = Append(Greeting, Query)
    BY <1>4, <2>1 DEF SayPart
  <2> QED BY <1>1, <2>1 DEF Write, sayVars
<1> QED BY <1>5, <1>6, <1>7

(* The call reads.                                                          *)
LEMMA ReadConfirms ==
    ASSUME Progress, Position, input \in Inputs, Publishing,
           ReadSize \/ ReadType \/ ReadData \/ ReadFails
    PROVE  Progress'
<1>1. UNCHANGED <<input, said, sent>>
  BY DEF ReadSize, ReadType, ReadData, ReadFails, sayVars, nsqdVars
<1>2. pc \in {"identified", "answer"} /\ result # "ok"
  BY DEF ReadSize, ReadType, ReadData, ReadFails, Reading, Progress
<1>3. ASSUME NEW inside, ReadError(inside) PROVE Progress'
  <2>1. pc' = "done" /\ result' = "error"
    BY <1>2, <1>3 DEF ReadError, Fails, Returns
  <2> QED BY <1>1, <2>1, ProgressEnds
<1>4. Query' = Query
  BY <1>1 DEF Query
<1>5. ASSUME UNCHANGED <<pc, result, got>> PROVE Progress'
  BY <1>1, <1>2, <1>4, <1>5 DEF Progress
<1>6. CASE ReadSize
  <2>1. ReadError(TRUE) \/ UNCHANGED <<pc, result, got>>
    <3>1. PICK stray \in Strays :
             LET size == ReadNum(Take(down, 4), stray) IN
             IF IF Initializing THEN size = 0 ELSE size < 4
             THEN ReadError(TRUE)
             ELSE /\ need' = size - 4
                  /\ at' = "type"
                  /\ UNCHANGED <<pc, result, kind, got, broken>>
      BY <1>6 DEF ReadSize
    <3> QED BY <3>1
  <2> QED BY <1>3, <1>5, <2>1
<1>7. CASE ReadType
  <2>1. ReadError(TRUE) \/ UNCHANGED <<pc, result, got>>
    <3>1. PICK stray \in Strays :
             LET type == ReadNum(Take(down, 4), stray) IN
             IF IF Initializing THEN type # Response ELSE ~TryFrom(type)
             THEN ReadError(TRUE)
             ELSE /\ kind' = type
                  /\ at' = "data"
                  /\ UNCHANGED <<pc, result, need, got, broken>>
      BY <1>7 DEF ReadType
    <3> QED BY <3>1
  <2> QED BY <1>3, <1>5, <2>1
<1>8. CASE ReadFails
  BY <1>3, <1>8 DEF ReadFails
<1>9. CASE ReadData
  <2>1. ~broken
    BY <1>2 DEF Position, Reads
  <2>2. Proceeds
    BY <1>9, <2>1, DataRead
  <2>3. CASE pc = "identified"
    <3>1. pc' = "connected" /\ UNCHANGED result
      BY <2>2, <2>3, PublishingSays DEF Proceeds
    <3>2. Len(got') = 1
      <4>1. got = <<>>
        BY <2>3 DEF Progress
      <4>2. PICK f : got' = Append(got, f)
        BY <1>9, <2>1, DataRead
      <4> QED BY <4>1, <4>2
    <3>3. said' = Greeting /\ result' # "ok"
      BY <1>1, <1>2, <2>3, <3>1 DEF Progress
    <3> QED BY <3>1, <3>2, <3>3 DEF Progress
  <2>4. CASE pc = "answer"
    <3>1. Answered(kind)
      BY <2>2, <2>4 DEF Proceeds
    <3>2. CASE kind # Response
      <4>1. pc' = "done" /\ result' = "error"
        BY <3>1, <3>2 DEF Answered, Returns
      <4> QED BY <1>1, <4>1, ProgressEnds
    <3>3. CASE kind = Response
      <4>1. pc' = "done" /\ result' = "ok"
        BY <3>1, <3>3, PublishingSays DEF Answered, Returns
      <4>2. Len(got) = 1
        BY <2>4 DEF Progress
      <4>3. Confirmed'
        BY <1>9, <2>1, <3>3, <4>2, SecondRead DEF Confirmed
      <4>4. said' = Append(Greeting, Query)
        BY <1>1, <2>4 DEF Progress
      <4> QED BY <1>4, <4>1, <4>3, <4>4 DEF Progress
    <3> QED BY <3>2, <3>3
  <2> QED BY <1>2, <2>3, <2>4
<1> QED BY <1>6, <1>7, <1>8, <1>9

(* No other step is one of a publishing call, or it changes nothing of it.  *)
LEMMA OthersConfirm ==
    ASSUME Confirming, Position, Speech, [Client \/ User \/ LinkLost]_vars
    PROVE  Confirming'
<1> SUFFICES ASSUME Publishing' PROVE Progress' /\ Storing'
  BY DEF Confirming
<1>1. /\ UNCHANGED <<input, stored, heard, sent>>
      /\ nsqd' = nsqd \/ nsqd' = "closed"
  BY DEF Client, User, LinkLost, vars, Start, Dial, SendIdentify, SendAuth, Connected,
         SendCommand, SendReady, Subscribed, ReadFrame, ReadSize, ReadType, ReadData, ReadFails,
         UserReads, UserDrops, UserSends, UserCloses, nsqdVars
<1>2. Publishing /\ Progress /\ Storing /\ input \in Inputs
  BY <1>1 DEF Confirming, Publishing, Speech, Saying
<1>3. Storing'
  BY <1>1, <1>2, StoringStays
<1>4. Query' = Query
  BY <1>1 DEF Query
<1>5. pc \notin {"auth", "ready", "subscribed", "held", "reading"}
  BY <1>2 DEF Progress
<1> SUFFICES Progress'
  BY <1>3
<1>6. ASSUME UNCHANGED <<pc, result, said, got>> PROVE Progress'
  BY <1>1, <1>2, <1>4, <1>6 DEF Progress, Confirmed
<1>7. CASE Start
  <2>1. pc = "start" /\ UNCHANGED <<said, got>>
    BY <1>7 DEF Start, readVars, sayVars
  <2>2. said = <<>> /\ got = <<>> /\ result # "ok"
    BY <1>2, <2>1 DEF Progress
  <2>3. CASE input.bodies = <<>> /\ pc' = "done"
    <3>1. Confirmed'
      BY <1>1, <2>1, <2>2, <2>3 DEF Confirmed
    <3> QED BY <2>1, <2>2, <2>3, <3>1 DEF Progress
  <2>4. CASE pc' = "dial" /\ UNCHANGED result
    BY <2>1, <2>2, <2>4 DEF Progress
  <2> QED BY <1>7, <2>3, <2>4 DEF Start, Returns
<1>8. CASE Dial
  <2>1. pc = "dial" /\ UNCHANGED <<said, got>>
    BY <1>8 DEF Dial, readVars, sayVars
  <2>2. said = <<>> /\ got = <<>> /\ result # "ok"
    BY <1>2, <2>1 DEF Progress
  <2>3. (pc' = "identify" /\ UNCHANGED result) \/ (pc' = "done" /\ result' = "error")
    BY <1>8 DEF Dial, Returns
  <2> QED BY <2>1, <2>2, <2>3 DEF Progress
<1>9. CASE SendIdentify
  <2>1. pc = "identify" /\ UNCHANGED got
    BY <1>9 DEF SendIdentify, readVars
  <2>2. said = <<>> /\ got = <<>> /\ result # "ok"
    BY <1>2, <2>1 DEF Progress
  <2>3. CASE Say(Greeting) /\ pc' = "identified" /\ UNCHANGED result
    <3>1. said' = Greeting
      <4> DEFINE g == Greeting
      <4>1. g \in Seq(Commands) /\ said' = <<>> \o g
        BY <1>2, <2>2, <2>3, PublishingSays DEF Say
      <4> HIDE DEF g
      <4>2. said' = g
        BY <4>1
      <4> QED BY <4>2 DEF g
    <3> QED BY <2>1, <2>2, <2>3, <3>1 DEF Progress
  <2>4. CASE Returns("error") /\ UNCHANGED said
    BY <1>1, <1>2, <2>4, ProgressEnds DEF Returns
  <2> QED BY <1>9, <2>3, <2>4 DEF SendIdentify, sayVars, Greeting
<1>10. CASE Connected
  <2>1. pc = "connected" /\ UNCHANGED <<said, got>> /\ pc' = "send" /\ UNCHANGED result
    BY <1>2, <1>10, PublishingSays DEF Connected, readVars, sayVars
  <2> QED BY <1>2, <2>1 DEF Progress
<1>11. CASE SendCommand
  BY <1>2, <1>11, CommandConfirms
<1>12. CASE ReadFrame
  BY <1>2, <1>12, ReadConfirms DEF ReadFrame
<1>13. CASE LinkLost \/ UNCHANGED vars
  <2>1. UNCHANGED <<pc, result, said, got>>
    BY <1>13 DEF LinkLost, vars, readVars, sayVars
  <2> QED BY <1>6, <2>1
<1>14. ~(SendAuth \/ SendReady \/ Subscribed \/ User)
  BY <1>5 DEF SendAuth, SendReady, Subscribed, User, UserReads, UserDrops, UserSends, UserCloses
<1> QED BY <1>7, <1>8, <1>9, <1>10, <1>11, <1>12, <1>13, <1>14, Zenon DEF Client

(* A call that publishes takes for its confirmation what nsqd sent after it *)
(* had stored the bodies, unless that is a heartbeat.                       *)
THEOREM ConfirmingHolds == Spec => []Confirming
<1>1. Init => Confirming
  <2> SUFFICES ASSUME Init PROVE Progress /\ Storing
    BY DEF Confirming
  <2> QED BY DEF Init, Progress, Storing
<1>2. Confirming /\ Position /\ Speech /\ [Next]_vars => Confirming'
  <2> SUFFICES ASSUME Confirming, Position, Speech, [Next]_vars PROVE Confirming'
    OBVIOUS
  <2>1. CASE Nsqd
    BY <2>1, NsqdConfirms
  <2>2. CASE [Client \/ User \/ LinkLost]_vars
    BY <2>2, OthersConfirm
  <2> QED BY <2>1, <2>2 DEF Next
<1> QED BY <1>1, <1>2, PositionHolds, SpeechHolds, PTL DEF Spec

(* OkIsStored: a publish or mpublish that returns Ok (commands.rs, "Read    *)
(* the response to confirm") has all its bodies stored and no other, unless *)
(* it took a heartbeat for the confirmation.                                *)
THEOREM OkIsStoredHolds == Spec => []OkIsStored
<1>1. Confirming /\ Position /\ Speech => OkIsStored
  <2> SUFFICES ASSUME Confirming, Position, Speech, result = "ok", Publishing
               PROVE  stored = input.bodies \/ got[Len(got)].data = Heartbeat
    BY DEF OkIsStored, Publishing, Heartbeat
  <2>1. Progress /\ Storing /\ Confirmed
    BY DEF Confirming, Progress
  <2>2. CASE Len(got) = 2 /\ Len(sent) >= 2 /\ got[2] = sent[2] /\ sent[2].type = Response
    <3>1. Len(sent) \in Nat
      BY DEF Position, Reads, SentFrames
    <3>2. 2 \in 2..Len(sent)
      BY <2>2, <3>1
    <3>3. sent[2].data = Heartbeat \/ stored = input.bodies
      BY <2>1, <2>2, <3>2 DEF Storing
    <3> QED BY <2>2, <3>3
  <2>3. CASE said = <<>> /\ input.bodies = <<>>
    <3>1. torn # "spliced"
      BY <2>3 DEF Speech, Saying, UserSpoke
    <3>2. heard \in Seq(Commands)
      BY <3>1 DEF Speech, Hearing
    <3>3. PICK cs \in Seq(Commands) : said = heard \o cs
      BY <3>1 DEF Speech, Hearing
    <3>4. Len(heard) = 0
      <4>1. Len(heard \o cs) = Len(heard) + Len(cs) /\ Len(heard) \in Nat /\ Len(cs) \in Nat
        BY <3>2
      <4>2. Len(heard \o cs) = 0
        BY <2>3, <3>3
      <4> QED BY <4>1, <4>2
    <3> QED BY <2>1, <2>3, <3>4 DEF Storing
  <2> QED BY <2>1, <2>2, <2>3 DEF Confirmed
<1> QED BY <1>1, ConfirmingHolds, PositionHolds, SpeechHolds, PTL

=============================================================================
