------------------------------- MODULE OneShot -------------------------------
(***************************************************************************)
(* The functions of commands.rs, each on a connection of its own, over the *)
(* bytes of the wire: publish_message, mpublish_messages, subscribe and    *)
(* create_nsqd_connection, the Connection they use (connection.rs: new,    *)
(* initialize, write_bytes, read_frame, close), and a user who goes on     *)
(* with the connection that the last two return.                           *)
(*                                                                         *)
(* A call is sequential; what makes it hard is the other side and time:    *)
(* nsqd answers late, refuses, pushes messages and heartbeats or goes      *)
(* away; a write may time out with a part written, a read with a part      *)
(* read, and a read may be dropped by a select.                            *)
(***************************************************************************)
EXTENDS WireCodec

CONSTANTS
    Inputs,     \* the calls: [call, bodies, secret]; publish has one body
    Deliveries, \* the messages nsqd may push: [header, body]
    MaxBeats,   \* bound: heartbeats nsqd sends
    MaxSends,   \* bound: commands the user sends on a connection it was given
    Faults,     \* what goes wrong
    Strays      \* bound: what bytes that are no number are read as

ASSUME OneShotAssumption ==
    /\ \A input \in Inputs :
          /\ input.call \in {"publish", "mpublish", "subscribe", "connect"}
          /\ input.bodies \in Seq(Seq({"chunk"} \X STRING))
          /\ input.call = "publish" => Len(input.bodies) = 1
          /\ input.secret \in BOOLEAN
          /\ input.secret => input.call = "connect"
    /\ \A m \in Deliveries :
          /\ m.header \in STRING
          /\ m.body \in Seq({"chunk"} \X STRING)
    /\ MaxBeats \in Nat /\ MaxSends \in Nat
    /\ Faults \subseteq {"lost", "stall", "reject", "drop"}
    /\ Strays \subseteq Nat /\ Strays # {}

VARIABLES
    input,   \* the call and its arguments
    pc,      \* where the client is
    at,      \* which part of a frame it reads next: "size", "type", "data"
    need,    \* how many bytes of data
    kind,    \* the type read
    result,  \* what the call returned
    link,    \* "none", "up", "shut" by the client, "lost"
    up,      \* bytes on the way to nsqd
    down,    \* bytes on the way to the client
    nsqd,    \* what it waits for or is: "magic", "identify", "known",
             \* "subscribed", "ready", "closing" after CLS, "closed"
    stored,  \* the bodies nsqd has stored
    said,    \* history: the commands written, or begun
    heard,   \* history: the commands nsqd has read
    sent,    \* history: the frames nsqd has written
    got,     \* history: the frames the client has read
    torn,    \* history: a write was "cut", or "spliced" by another after it
    broken   \* history: a read ended inside a frame

vars == <<input, pc, at, need, kind, result, link, up, down, nsqd, stored,
          said, heard, sent, got, torn, broken>>

readVars == <<at, need, kind, down, got, broken>>
sayVars  == <<up, said, torn>>
nsqdVars == <<nsqd, stored, heard, sent>>

Config == Command("IDENTIFY", << <<Chunk("config")>> >>)
Secret == Command("AUTH", << <<Chunk("secret")>> >>)
Query  ==
    CASE input.call = "publish"   -> Command("PUB", input.bodies)
      [] input.call = "mpublish"  -> Command("MPUB", input.bodies)
      [] input.call = "subscribe" -> Command("SUB", <<>>)

Init ==
    /\ input \in Inputs
    /\ pc = "start"
    /\ at = "size" /\ need = 0 /\ kind = 0
    /\ result = "none"
    /\ link = "none"
    /\ up = <<>> /\ down = <<>>
    /\ nsqd = "magic"
    /\ stored = <<>>
    /\ said = <<>> /\ heard = <<>> /\ sent = <<>> /\ got = <<>>
    /\ torn = "no"
    /\ broken = FALSE

-----------------------------------------------------------------------------
(* Writing *)

Returns(r) == pc' = "done" /\ result' = r

(* A user who was given the connection keeps it when an operation fails. *)
Fails ==
    IF pc \in {"held", "reading"} THEN pc' = "held" /\ UNCHANGED result
                                  ELSE Returns("error")

(* The bytes of some commands leave, all of them, or the first n.           *)
Say(commands) ==
    /\ said' = said \o commands
    /\ torn' = IF torn = "no" THEN "no" ELSE "spliced"
    /\ up' = IF link = "lost" THEN up
             ELSE up \o FlattenSeq([i \in DOMAIN commands |-> ToBytes(commands[i])])

SayPart(command, n) ==
    /\ said' = Append(said, command)
    /\ torn' = IF torn = "no" THEN "cut" ELSE "spliced"
    /\ up' = up \o Take(ToBytes(command), n)

(* Bound: a write is cut after its first byte or between two units. *)
Cuts(us) == {1} \cup {End(us, k) : k \in 1..(Len(us) - 1)}

(* Connection::write_bytes: everything is written (to a lost peer, too), or *)
(* an error, or write_timeout ends it after some of the bytes.              *)
Write(command, next) ==
    \/ /\ link \in {"up", "lost"}
       /\ Say(<<command>>)
       /\ pc' = next
       /\ UNCHANGED result
    \/ /\ link \in {"shut", "lost"}
       /\ Fails
       /\ UNCHANGED sayVars
    \/ /\ link = "up" /\ "stall" \in Faults
       /\ \E n \in Cuts(ToBytes(command)) : SayPart(command, n)
       /\ Fails
    \/ /\ link = "up" /\ "stall" \in Faults
       /\ Fails
       /\ UNCHANGED sayVars

-----------------------------------------------------------------------------
(* Connecting: Connection::new and initialize *)

Start ==
    /\ pc = "start"
    /\ IF input.call = "mpublish" /\ input.bodies = <<>>
       THEN Returns("ok")
       ELSE pc' = "dial" /\ UNCHANGED result
    /\ UNCHANGED <<input, readVars, link, sayVars, nsqdVars>>

(* connect_with_retry tries for 5 s. *)
Dial ==
    /\ pc = "dial"
    /\ \/ /\ link' = "up"
          /\ pc' = "identify"
          /\ UNCHANGED result
       \/ /\ Returns("error")
          /\ UNCHANGED link
    /\ UNCHANGED <<input, readVars, sayVars, nsqdVars>>

SendIdentify ==
    /\ pc = "identify"
    /\ \/ /\ Say(<<Command("MAGIC", <<>>), Config>>)
          /\ pc' = "identified"
          /\ UNCHANGED result
       \/ /\ link = "lost"
          /\ Returns("error")
          /\ UNCHANGED sayVars
    /\ UNCHANGED <<input, readVars, link, nsqdVars>>

SendAuth ==
    /\ pc = "auth"
    /\ \/ /\ Say(<<Secret>>)
          /\ pc' = "authed"
          /\ UNCHANGED result
       \/ /\ link = "lost"
          /\ Returns("error")
          /\ UNCHANGED sayVars
    /\ UNCHANGED <<input, readVars, link, nsqdVars>>

(* Connection::new has returned. *)
Connected ==
    /\ pc = "connected"
    /\ IF input.call = "connect"
       THEN pc' = "held" /\ result' = "ok"
       ELSE pc' = "send" /\ UNCHANGED result
    /\ UNCHANGED <<input, readVars, link, sayVars, nsqdVars>>

SendCommand ==
    /\ pc = "send"
    /\ Write(Query, "answer")
    /\ UNCHANGED <<input, readVars, link, nsqdVars>>

SendReady ==
    /\ pc = "ready"
    /\ Write(Command("RDY", <<>>), "subscribed")
    /\ UNCHANGED <<input, readVars, link, nsqdVars>>

Subscribed ==
    /\ pc = "subscribed"
    /\ pc' = "held" /\ result' = "ok"
    /\ UNCHANGED <<input, readVars, link, sayVars, nsqdVars>>

-----------------------------------------------------------------------------
(* Reading a frame: three reads of an exact number of bytes.  initialize    *)
(* refuses other frames than read_frame does, and reads without a timeout.  *)

Initializing == pc \in {"identified", "authed"}
Reading      == pc \in {"identified", "authed", "answer", "reading"}

Consume(n) == Size(down) >= n /\ down' = Drop(down, n)

(* An error ends the read with the bytes that were read gone. *)
ReadError(inside) ==
    /\ at' = "size" /\ need' = 0 /\ kind' = 0
    /\ broken' = (broken \/ inside)
    /\ Fails
    /\ UNCHANGED got

(* Mutation of ReadSize: a small size is not refused. *)
ReadSizeAny ==
    /\ Reading /\ at = "size"
    /\ Consume(4)
    /\ \E stray \in Strays : need' = ReadNum(Take(down, 4), stray) - 4
    /\ at' = "type"
    /\ UNCHANGED <<pc, result, kind, got, broken, input, link, sayVars, nsqdVars>>

ReadSize ==
    /\ Reading /\ at = "size"
    /\ Consume(4)
    /\ \E stray \in Strays :
       LET size == ReadNum(Take(down, 4), stray) IN
       IF IF Initializing THEN size = 0 ELSE size < 4
       THEN ReadError(TRUE)
       ELSE /\ need' = size - 4
            /\ at' = "type"
            /\ UNCHANGED <<pc, result, kind, got, broken>>
    /\ UNCHANGED <<input, link, sayVars, nsqdVars>>

(* Mutation of ReadType: the data is taken to be as long as the frame. *)
ReadTypeLong ==
    /\ Reading /\ at = "type"
    /\ Consume(4)
    /\ \E stray \in Strays :
       LET type == ReadNum(Take(down, 4), stray) IN
       IF IF Initializing THEN type # Response ELSE ~TryFrom(type)
       THEN ReadError(TRUE)
       ELSE /\ kind' = type
            /\ need' = need + 4
            /\ at' = "data"
            /\ UNCHANGED <<pc, result, got, broken>>
    /\ UNCHANGED <<input, link, sayVars, nsqdVars>>

ReadType ==
    /\ Reading /\ at = "type"
    /\ Consume(4)
    /\ \E stray \in Strays :
       LET type == ReadNum(Take(down, 4), stray) IN
       IF IF Initializing THEN type # Response ELSE ~TryFrom(type)
       THEN ReadError(TRUE)
       ELSE /\ kind' = type
            /\ at' = "data"
            /\ UNCHANGED <<pc, result, need, got, broken>>
    /\ UNCHANGED <<input, link, sayVars, nsqdVars>>

(* Mutation of Answered: an error frame is taken for the confirmation. *)
AnsweredAny(type) ==
    IF type = Message THEN Returns("error")
    ELSE IF input.call = "subscribe" THEN pc' = "ready" /\ UNCHANGED result
    ELSE Returns("ok")

(* What a call does with the frame that answers its command. *)
Answered(type) ==
    IF type # Response THEN Returns("error")
    ELSE IF input.call = "subscribe" THEN pc' = "ready" /\ UNCHANGED result
    ELSE Returns("ok")

(* Where a frame, of type kind, leads the call. *)
Proceeds ==
    CASE pc = "identified" -> /\ pc' = IF input.secret THEN "auth" ELSE "connected"
                              /\ UNCHANGED result
      [] pc = "authed"     -> pc' = "connected" /\ UNCHANGED result
      [] pc = "answer"     -> Answered(kind)
      [] pc = "reading"    -> pc' = "held" /\ UNCHANGED result

(* The type and the data are decoded.  When they are not those of a frame,  *)
(* they may be no message: an error, or a panic that ends the task.         *)
ReadData ==
    /\ Reading /\ at = "data"
    /\ Consume(need)
    /\ LET frame == DecodeFrame(<<Num(kind)>> \o Take(down, need), kind) IN
       \/ /\ frame.verdict = "ok"
          /\ got' = Append(got, frame)
          /\ at' = "size" /\ need' = 0 /\ kind' = 0
          /\ Proceeds
          /\ UNCHANGED broken
       \/ /\ frame.verdict = "error"
          /\ ReadError(FALSE)
       \/ /\ frame.verdict = "panic"
          /\ pc' = "done"
          /\ at' = "size" /\ need' = 0 /\ kind' = 0
          /\ UNCHANGED <<result, got, broken>>
    /\ UNCHANGED <<input, link, sayVars, nsqdVars>>

(* Mutation of ReadFails: no timeout. *)
ReadFailsLost ==
    /\ Reading
    /\ link \in {"shut", "lost"}
    /\ ReadError(at # "size")
    /\ UNCHANGED <<down, input, link, sayVars, nsqdVars>>

(* The stream ends, or a read of read_frame takes longer than read_timeout. *)
ReadFails ==
    /\ Reading
    /\ link \in {"shut", "lost"} \/ (~Initializing /\ "stall" \in Faults)
    /\ ReadError(at # "size")
    /\ UNCHANGED <<down, input, link, sayVars, nsqdVars>>

-----------------------------------------------------------------------------
(* The user of a connection that connect or subscribe returned *)

UserReads ==
    /\ pc = "held"
    /\ pc' = "reading"
    /\ UNCHANGED <<input, readVars, result, link, sayVars, nsqdVars>>

(* The future of read_frame is dropped, as the tick of handle_connection    *)
(* drops it: at any await, maybe with the first byte of a part read.        *)
UserDrops ==
    /\ "drop" \in Faults
    /\ pc = "reading"
    /\ \E n \in {0, 1} :
          /\ n = 0 \/ (IF at = "data" THEN need > 1 ELSE TRUE)
          /\ Consume(n)
          /\ ReadError(at # "size" \/ n > 0)
    /\ UNCHANGED <<input, link, sayVars, nsqdVars>>

UserSends ==
    /\ pc = "held"
    /\ Cardinality({i \in DOMAIN said : said[i].name = "DPUB"}) < MaxSends
    /\ Write(Command("DPUB", << <<Chunk("later")>> >>), "held")
    /\ UNCHANGED <<input, readVars, link, nsqdVars>>

(* close_connection says CLS, Connection::close shuts the write half. *)
UserCloses ==
    /\ pc = "held" /\ link = "up"
    /\ \/ /\ \A i \in DOMAIN said : said[i].name # "CLS"
          /\ Write(Command("CLS", <<>>), "held")
          /\ UNCHANGED link
       \/ /\ link' = "shut"
          /\ UNCHANGED <<pc, result, sayVars>>
    /\ UNCHANGED <<input, readVars, nsqdVars>>

-----------------------------------------------------------------------------
(* nsqd and the network *)

Send(f) ==
    /\ sent' = Append(sent, f)
    /\ down' = down \o FrameBytes(f)

Ok == Frame(Response, <<Chunk("OK")>>)

(* What a command makes of nsqd's state; a state a command is not for       *)
(* is no key.                                                               *)
After(name) ==
    CASE name = "MAGIC"    -> [magic |-> "identify"]
      [] name = "IDENTIFY" -> [identify |-> "known"]
      [] name = "SUB"      -> [known |-> "subscribed"]
      [] name = "RDY"      -> [subscribed |-> "ready", ready |-> "ready"]
      [] name = "CLS"      -> [subscribed |-> "closing", ready |-> "closing"]
      [] OTHER -> [s \in {"known", "subscribed", "ready", "closing"} |-> s]

(* nsqd reads a command and answers, all but MAGIC and RDY. *)
NsqdHears == \E stray \in Strays :
    LET next    == CommandAt(up, stray)
        command == Command(up[1][2], next.bodies)
    IN  /\ nsqd # "closed"
        /\ up # <<>> /\ next.verdict = "ok"
        /\ nsqd \in DOMAIN After(command.name)
        /\ nsqd' = After(command.name)[nsqd]
        /\ up' = next.rest
        /\ heard' = Append(heard, command)
        /\ stored' = IF command.name \in {"PUB", "MPUB", "DPUB"}
                     THEN stored \o command.bodies ELSE stored
        /\ IF command.name \in {"MAGIC", "RDY"}
           THEN UNCHANGED <<sent, down>>
           ELSE Send(Ok)
        /\ UNCHANGED <<input, pc, at, need, kind, result, link, said, got, torn, broken>>

(* A command is refused for a reason of nsqd's own and the client stays. *)
NsqdRejects == \E stray \in Strays :
    LET next == CommandAt(up, stray) IN
    /\ "reject" \in Faults
    /\ up # <<>> /\ next.verdict = "ok"
    /\ up[1][2] \in {"AUTH", "SUB", "PUB", "MPUB", "DPUB"} /\ nsqd \in DOMAIN After(up[1][2])
    /\ up' = next.rest
    /\ heard' = Append(heard, Command(up[1][2], next.bodies))
    /\ Send(Frame(Error, <<Chunk("E_FAILED")>>))
    /\ UNCHANGED <<input, pc, at, need, kind, result, link, nsqd, stored,
                   said, got, torn, broken>>

(* What is no command, or not in turn, ends the connection. *)
NsqdRefuses == \E stray \in Strays :
    LET next == CommandAt(up, stray) IN
    /\ nsqd # "closed"
    /\ up # <<>>
    /\ \/ next.verdict = "bad"
       \/ next.verdict = "ok" /\ nsqd \notin DOMAIN After(up[1][2])
    /\ Send(Frame(Error, <<Chunk("E_INVALID")>>))
    /\ nsqd' = "closed"
    /\ link' = "lost"
    /\ UNCHANGED <<input, pc, at, need, kind, result, up, stored,
                   said, heard, got, torn, broken>>

NsqdSends ==
    /\ pc # "done" /\ link \in {"up", "shut"}
    /\ \/ /\ nsqd \in {"known", "subscribed", "ready"}
          /\ Cardinality({i \in DOMAIN sent : sent[i].data = <<Chunk("heartbeat")>>}) < MaxBeats
          /\ Send(Frame(Response, <<Chunk("heartbeat")>>))
       \/ /\ nsqd = "ready"
          /\ \E m \in Deliveries :
                LET f == Frame(Message, <<Header(m.header)>> \o m.body) IN
                f \notin ToSet(sent) /\ Send(f)
    /\ UNCHANGED <<input, pc, at, need, kind, result, link, up, nsqd, stored,
                   said, heard, got, torn, broken>>

LinkLost ==
    /\ "lost" \in Faults
    /\ pc # "done" /\ link \in {"up", "shut"}
    /\ link' = "lost"
    /\ nsqd' = "closed"
    /\ UNCHANGED <<input, pc, result, readVars, sayVars, stored, heard, sent>>

-----------------------------------------------------------------------------
ReadFrame == ReadSize \/ ReadType \/ ReadData \/ ReadFails

Client ==
    \/ Start \/ Dial \/ SendIdentify \/ SendAuth \/ Connected
    \/ SendCommand \/ SendReady \/ Subscribed \/ ReadFrame

User == UserReads \/ UserDrops \/ UserSends \/ UserCloses

Nsqd == NsqdHears \/ NsqdRejects \/ NsqdRefuses \/ NsqdSends

Next == Client \/ User \/ Nsqd \/ LinkLost

Spec == Init /\ [][Next]_vars

(* The runtime runs the call and its timers.  Of nsqd only the answers to   *)
(* IDENTIFY and AUTH are assumed: initialize reads them without a timeout.  *)
Calling == pc \notin {"held", "reading", "done"}

FairSpec ==
    /\ Spec
    /\ WF_vars(Calling /\ Client)
    /\ WF_vars(Initializing /\ NsqdHears)

-----------------------------------------------------------------------------
(* Properties *)

TypeOK ==
    /\ pc \in {"start", "dial", "identify", "identified", "auth", "authed", "connected",
               "send", "answer", "ready", "subscribed", "held", "reading", "done"}
    /\ at \in {"size", "type", "data"}
    /\ need \in Nat
    /\ kind \in {Response, Error, Message}
    /\ result \in {"none", "ok", "error"}
    /\ link \in {"none", "up", "shut", "lost"}
    /\ nsqd \in {"magic", "identify", "known", "subscribed", "ready", "closing", "closed"}
    /\ torn \in {"no", "cut", "spliced"}
    /\ broken \in BOOLEAN

(* nsqd reads the commands that were written, with their bodies and in      *)
(* their order, and nothing that was not: a command of which a part was     *)
(* written is not heard, and no call but a user's goes on after it.         *)
HeardAsSaid ==
    \/ IsPrefix(heard, said)
    \/ torn = "spliced" /\ \E i \in DOMAIN said : said[i].name \in {"DPUB", "CLS"}

(* "Read the response to confirm that the publish succeeded": a call that   *)
(* returns Ok has all its bodies stored, and no other, unless the response  *)
(* it took for the confirmation was a heartbeat.                            *)
OkIsStored ==
    result = "ok" /\ input.call \in {"publish", "mpublish"} =>
        \/ stored = input.bodies
        \/ got[Len(got)].data = <<Chunk("heartbeat")>>

(* The frames read are the frames nsqd wrote, in order, until a read is cut *)
(* short inside a frame; what is read after that may be anything, and only  *)
(* a user who keeps the connection reads it: no call takes it for its       *)
(* answer.                                                                  *)
FramesIntact ==
    /\ broken \/ IsPrefix(got, sent)
    /\ broken => pc \in {"held", "reading", "done"}

(* decode_message tests for 4 bytes and slices 26, a panic that ends the    *)
(* task of a user: only bytes that are not a frame nsqd wrote come to that, *)
(* after a read that was cut short.                                         *)
PanicsAfterCut ==
    input.call \in {"subscribe", "connect"} /\ result = "ok" /\ pc = "done" => broken

(* The decoders for slices agree with each other and with the encoding, and *)
(* refuse every proper prefix of a frame: for each frame when nsqd sends it. *)
Agreed(f) ==
    LET bytes == FrameBytes(f) IN
    \A stray \in Strays :
        /\ ReadSlice(bytes, stray) = f
        /\ DecodeFrame(Drop(bytes, 4), stray) = f
        /\ f.type = Message => FromBytes(bytes, stray) = DecodeMessage(f.data)
        /\ \A n \in 0..(Size(bytes) - 1) : ReadSlice(Take(bytes, n), stray) = Err

DecodersAgree == [][sent' # sent => Agreed(Last(sent'))]_vars

(* Every call returns, whatever nsqd does after it has answered IDENTIFY.   *)
CallReturns == pc = "start" ~> pc \in {"held", "done"}
=============================================================================
