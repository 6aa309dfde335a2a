------------------------------ MODULE WireCodec ------------------------------
(***************************************************************************)
(* The wire format of protocol.rs: Command::to_bytes, and the decoders of  *)
(* frames and messages, with what an nsqd makes of the commands.           *)
(*                                                                         *)
(* A stream of bytes is a sequence of units.  A unit is a pair of what it  *)
(* is and its value: a big-endian number of 4 bytes, a line of text that   *)
(* is a command with its parameters, the 26 bytes of a message's           *)
(* timestamp, attempts and id, or one byte of a body or a text.  Reads     *)
(* count bytes; where a read ends inside a unit the unit breaks into junk. *)
(* Four bytes that are not a number as written are a number all the same   *)
(* for from_be_bytes, whatever the bytes happen to be: a body is any       *)
(* Vec<u8>.  What they are read as is the parameter stray of each reader,  *)
(* which one attempt to read takes for all such bytes that it meets.       *)
(***************************************************************************)
EXTENDS Integers, SequencesExt

CONSTANT MaxBody    \* the largest size that nsqd accepts of a client

ASSUME WireCodecAssumption == MaxBody \in Nat

Num(n)    == <<"num", n>>
Line(w)   == <<"line", w>>
Chunk(b)  == <<"chunk", b>>
Header(m) == <<"header", m>>
Junk(n)   == <<"junk", n>>

LineSize == 6    \* any size will do, as long as it is not that of a number

Width(u) ==
    CASE u[1] = "num" -> 4
      [] u[1] = "line" -> LineSize
      [] u[1] = "chunk" -> 1
      [] u[1] = "header" -> 26
      [] u[1] = "junk" -> u[2]

(* The number of bytes in the first k units, and in all. *)
End(us, k) ==
    LET end[i \in 0..k] == IF i = 0 THEN 0 ELSE end[i - 1] + Width(us[i])
    IN  end[k]

Size(us) == End(us, Len(us))

(* How many units end within the first n bytes. *)
Whole(us, n) == Cardinality({k \in 1..Len(us) : End(us, k) <= n})

(* The first n bytes of us, and the rest; us has at least n bytes. *)
Take(us, n) ==
    LET k == Whole(us, n)
        r == n - End(us, k)
    IN  SubSeq(us, 1, k) \o (IF r > 0 THEN <<Junk(r)>> ELSE <<>>)

Drop(us, n) ==
    LET k == Whole(us, n)
        r == n - End(us, k)
    IN  IF r > 0
        THEN <<Junk(Width(us[k + 1]) - r)>> \o SubSeq(us, k + 2, Len(us))
        ELSE SubSeq(us, k + 1, Len(us))

(* What from_be_bytes makes of four bytes. *)
ReadNum(us, stray) == IF Len(us) = 1 /\ us[1][1] = "num" THEN us[1][2] ELSE stray

-----------------------------------------------------------------------------
(* Command::to_bytes.  A command is its name and its bodies.                *)

Command(name, bodies) == [name |-> name, bodies |-> bodies]

(* Mutation of Multi: the last body is not counted. *)
MultiShort(bodies) ==
    LET rest == FlattenSeq([i \in DOMAIN bodies |-> <<Num(Len(bodies[i]))>> \o bodies[i]])
    IN  <<Num(4 + Size(rest)), Num(Len(bodies) - 1)>> \o rest

Sized(body) == <<Num(Len(body))>> \o body

(* The size of all that follows, the number of bodies, the bodies. *)
Multi(bodies) ==
    LET rest == FlattenSeq([i \in DOMAIN bodies |-> Sized(bodies[i])])
    IN  <<Num(4 + Size(rest)), Num(Len(bodies))>> \o rest

WithBody == {"IDENTIFY", "AUTH", "PUB", "DPUB"}

ToBytes(command) ==
    <<Line(command.name)>> \o
        (IF command.name \in WithBody THEN Sized(command.bodies[1])
         ELSE IF command.name = "MPUB" THEN Multi(command.bodies)
         ELSE <<>>)

-----------------------------------------------------------------------------
(* What nsqd reads at the head of a stream: a command, or that it has to    *)
(* wait for more, or that it will refuse what it got.                       *)

Waits   == [verdict |-> "wait", bodies |-> <<>>, rest |-> <<>>]
Refuses == [verdict |-> "bad", bodies |-> <<>>, rest |-> <<>>]

SizedAt(us, stray) ==
    IF Size(us) < 4 THEN Waits
    ELSE LET n    == ReadNum(Take(us, 4), stray)
             rest == Drop(us, 4)
         IN  IF n \notin 1..MaxBody THEN Refuses
             ELSE IF Size(rest) < n THEN Waits
             ELSE [verdict |-> "ok", bodies |-> <<Take(rest, n)>>, rest |-> Drop(rest, n)]

SizedTimes(us, count, stray) ==
    LET after[i \in 0..count] ==
            IF i = 0 THEN [verdict |-> "ok", bodies |-> <<>>, rest |-> us]
            ELSE LET before == after[i - 1]
                     next   == SizedAt(before.rest, stray)
                 IN  IF before.verdict # "ok" THEN before
                     ELSE [next EXCEPT !.bodies = before.bodies \o @]
    IN  after[count]

MultiAt(us, stray) ==
    IF Size(us) < 8 THEN Waits
    ELSE LET total == ReadNum(Take(us, 4), stray)
             count == ReadNum(Take(Drop(us, 4), 4), stray)
         IN  IF total > MaxBody \/ count \notin 1..((total - 4) \div 5) THEN Refuses
             ELSE SizedTimes(Drop(us, 8), count, stray)

CommandAt(us, stray) ==
    IF \A i \in 1..Len(us) : us[i][1] # "line" THEN Waits
    ELSE IF us[1][1] # "line" THEN Refuses
    ELSE CASE us[1][2] \in WithBody -> SizedAt(Tail(us), stray)
           [] us[1][2] = "MPUB"     -> MultiAt(Tail(us), stray)
           [] OTHER -> [verdict |-> "ok", bodies |-> <<>>, rest |-> Tail(us)]

-----------------------------------------------------------------------------
(* Frames, as nsqd writes them and as protocol.rs decodes them *)

Response == 0
Error    == 1
Message  == 2

Frame(type, data) == [verdict |-> "ok", type |-> type, data |-> data]
FrameBytes(f) == <<Num(4 + Size(f.data)), Num(f.type)>> \o f.data

(* The decoders' outcomes that are not a frame. *)
Err   == [verdict |-> "error"]
Panic == [verdict |-> "panic"]

(* Mutation of DecodeMessage: the size and the type are taken for a part of *)
(* the message, as they are in from_bytes.                                  *)
DecodeMessageWhole(us) ==
    IF Size(us) < 4 THEN Err
    ELSE IF Size(us) < 34 THEN Panic
    ELSE [verdict |-> "ok", header |-> Take(us, 26), body |-> Drop(us, 26)]

(* Protocol::decode_message tests for 4 bytes and slices 26. *)
DecodeMessage(us) ==
    IF Size(us) < 4 THEN Err
    ELSE IF Size(us) < 26 THEN Panic
    ELSE [verdict |-> "ok", header |-> Take(us, 26), body |-> Drop(us, 26)]

(* Protocol::decode_frame: the type and the data, without the size. *)
DecodeFrame(us, stray) ==
    IF Size(us) < 4 THEN Err
    ELSE LET type == ReadNum(Take(us, 4), stray)
             data == Drop(us, 4)
             msg  == DecodeMessage(data)
         IN  CASE type \in {Response, Error} -> Frame(type, data)
               [] type = Message -> IF msg.verdict = "ok"
                                    THEN Frame(type, msg.header \o msg.body) ELSE msg
               [] OTHER -> Err

TryFrom(type) == type \in {Response, Error, Message}

(* The function read_frame of protocol.rs: a frame at the head of a slice. *)
ReadSlice(us, stray) ==
    IF Size(us) < 8 THEN Err
    ELSE LET size == ReadNum(Take(us, 4), stray)
             type == ReadNum(Take(Drop(us, 4), 4), stray)
         IN  IF Size(us) < size + 4 \/ ~TryFrom(type) THEN Err
             ELSE IF size < 4 THEN Panic
             ELSE Frame(type, Take(Drop(us, 8), size - 4))

(* Mutation of FromBytes: the type is not skipped. *)
FromBytesLate(us, stray) ==
    IF Size(us) < 26 THEN Err
    ELSE IF ReadNum(Take(Drop(us, 4), 4), stray) # Message \/ Size(us) < 34 THEN Err
    ELSE [verdict |-> "ok", header |-> Take(Drop(us, 4), 26), body |-> Drop(us, 30)]

(* Message::from_bytes: a whole frame, whose size is skipped. *)
FromBytes(us, stray) ==
    IF Size(us) < 26 THEN Err
    ELSE IF ReadNum(Take(Drop(us, 4), 4), stray) # Message \/ Size(us) < 34 THEN Err
    ELSE [verdict |-> "ok", header |-> Take(Drop(us, 8), 26), body |-> Drop(us, 34)]
=============================================================================
