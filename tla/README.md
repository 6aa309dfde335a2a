# A TLA+ model of nsq-async-rs

nsq-async-rs is a Rust client library for the NSQ message queue, built on
tokio. This directory holds TLA+ modules for the parts of it in which several
tasks share state and for the wire format they speak, TLC configurations that
check them on small instances, and TLAPS proofs of the safety properties that
these runs check. Paths below are relative to `src/` of the repository's checkout, so
`src/consumer.rs` is the file of that name in the crate.

## 1. Inventory of the system

| Part | Source | State | Operations | Module |
|---|---|---|---|---|
| Consumer session | `src/consumer.rs` 209-332 | RDY counter, semaphore, statistics, spawned tasks | read a frame, spawn a task per message, answer, replenish RDY, tick | `ConnectionHandler` |
| Acknowledgement | `src/protocol.rs` 129-264 | `responded` (shared by clones), `auto_response_disabled` (per clone) | `finish`, `requeue`, `touch`, `disable_auto_response` | `ConnectionHandler` |
| Consumer lifecycle | `src/consumer.rs` 336-583 | `connections`, `connection_count`, `is_running`, a supervisor task per connection | `connect_to_nsqd`, `connect_to_nsqlookupd`, `disconnect_from_nsqd`, `start`, `stop` | `ConsumerLifecycle`; the supervisor in detail: `Supervisor` |
| Connection pool | `src/pool.rs` | `idle_conns`, `opening_conns`, `closed`, `conn_reqs`, each under a mutex of its own | `new`, `get`, `put`, `clean_idle_conns`, `release` | `Pool` |
| Producer | `src/producer.rs` | a map of connections under a lock | `publish`, `publish_delayed`, `publish_multi`, `ping` | `Producer` |
| Connection | `src/connection.rs` | two halves of a socket, each under a mutex | `new`, `initialize`, `reconnect`, `write_bytes`, `read_frame`, `close` | `OneShot` over bytes, `reconnect` in `Supervisor`; whole commands and frames elsewhere |
| Wire codec | `src/protocol.rs` 10-126, 266-312, 402-522 | none | encode commands, decode frames and messages | `WireCodec` |
| One-shot commands | `src/commands.rs` | none | `publish_message`, `mpublish_messages`, `subscribe`, `create_nsqd_connection` | `OneShot` |
| Lookup client, errors, crate root | `src/lookup.rs`, `src/error.rs`, `src/lib.rs` | none | an HTTP request, error kinds, re-exports | choices of the callers |

How they interact. A `Consumer` keeps a map from address to `Connection` and
spawns one supervisor task per connection. The supervisor runs
`handle_connection`, a session, and reconnects the same `Connection` when a
session fails in a way it retries; tasks that the session spawned keep the
`Connection` and write to whatever socket it has by then. A session reads frames, waits for a
semaphore permit and spawns a task for each message; the task calls the user's
handler with a clone of the message, which shares `responded` with the original,
answers nsqd unless it has been answered by hand, gives back one credit of the
RDY counter and announces RDY again when the counter has sunk to half. The user
may hand clones to other tasks. A `NsqProducer` pings a cached connection, dials
when the ping fails, writes and then reads one frame, all with `backoff` around
it; the functions of `commands.rs` do so once, on a connection of their own.
`Pool` is generic and independent of the others.

What is hard to test: the handler, its workers and the task race to answer;
several tasks update the RDY counter; the loop waits for permits and meanwhile
reads no heartbeat; a panic or a failed write ends a task half way; the map of
connections stays locked while one is dialed or closed; supervisors act on
flags they read before a sleep; the pool's four mutexes are taken in different
orders by different operations; waiters of the pool come and go; a producer's
write and its read are not atomic; a write or a read that times out, or a read
that `select` drops, may have moved a part of its bytes; a reconnect replaces the
two halves of the socket one after the other while tasks of the lost session
write. `PROJECT.json` lists each hazard at its line,
with the properties that would catch it or the reason why none does.

What makes each part correct:

- session: one answer per delivery; credit and statistics in step with what nsqd
  was told; the session never falls silent; a stop is noticed;
- lifecycle: the map owns each connection once and agrees with its counter; a
  running consumer reconnects; after stop everything ends;
- supervisor: its idea of how far the connection is (dialed, identified, subscribed,
  ready) is nsqd's, however outages and late tasks interleave;
- pool: a connection is in one place and open; the count covers the open
  connections and keeps them below `max_cap`; a waiting `get` is served;
- producer and one-shot commands: Ok means stored; responses are neither missed nor
  taken twice; calls return;
- codec and streams: nsqd reads what was written and the client reads what nsqd wrote,
  as long as no write or read is cut short, and no call goes on after one that was.

## 2. The modules

An action is the code between two `.await`s, which is what tokio tasks
interleave at. Commands and frames are whole except in `OneShot`, which has the
bytes: `write_bytes` writes one command under the write lock.

**Delivery** is the abstract promise of a consumer to nsqd: a delivery is pushed,
then answered at most once, by FIN or REQ, and the answer is final.

**ConnectionHandler** is one session. `pc` is where the loop is (`subscribe`,
`ready`, then `top`, `select` and `permit` in turn, `stopped` or `failed` at the
end). `phase[m]` is how far a delivery is: `queued`, `sent` (in `inbox`),
`waiting` for a permit, `handling` (the user's handler runs), `FIN` or `REQ` (the
task is about to write it), `credit` (about to `fetch_sub`), `replenish` (about to
write RDY), `store` (RDY written, about to store the counter), or an end: `done`,
`unready` (RDY not written), `aborted` (answer not written), `panicked`. A phase in
`Alive` holds a permit. `op[m][h]` is a command that a holder of a clone, the
handler or a worker, has decided on and not yet written: between the two lies an
await. `responded` is the shared atomic, `optOut` the plain bools of the clones.
`link` says what becomes of writes: it is `up`, `stalled` (writes time out),
`closed` by our side, or `down`. nsqd is modelled from how the code uses it: it
pushes while fewer messages are unanswered than the last RDY count, and has one
heartbeat out at a time.

**ConsumerLifecycle** has callers, which may be user code or the poll loop, and one
supervisor per connection. `lock` is the mutex of the map, kept while a caller dials
(`dial`), closes a connection (`close`) or drains the map (`drain`). A tick of the poll
loop (`Tick`) looks at `is_running` once and leaves the nodes of its answer in `todo[t]`,
which `ConnectLock` takes one by one, whatever `is_running` has become; a direct call, or
a node of the first pass, is a `todo[t]` of one address. A session is one step of the
supervisor here; it ends with an error that is retried (`io`) or not (`other`:
`Error::TimedOut`, a malformed frame, E_INVALID); `deadline` among the `Failures` lets
`shutdown_deadline` fire. `lent` are the connections that tasks of messages hold, or
clones of messages through their `MessageResponder` (`Lend`, `Return`). `sock[c]` is the
state of the socket; a connection that neither the map, a caller, its supervisor nor a
message refers to is closed, because its last `Arc` is gone (`Owned`, `Released`).

**Supervisor** opens the steps that `ConsumerLifecycle` takes at once. `at` is where
the supervisor is: before the session (`check`), in it (`sub`, `rdy`, `loop`,
`permit`), in its backoff (`sleep`), in `reconnect` (`dial`, then `swap` with only the
read half replaced, `init` and `reply` in `initialize`), or `ended`. `rh` and `wh` are
the sockets of the two halves, `wlock` says that `initialize` holds the write half.
`peer[s]` is how far nsqd takes the connection to be, `inq[s]` what it sent and nobody
has read. A task (`task[k]`, one per permit) answers and gives credit in the steps of
`ConnectionHandler`, on the write half of the moment; `of[k]` is the socket its message
came from, and `None` once that is replaced. nsqd refuses a command that is out of turn
and closes. Two sockets are enough: the one in use and the next one, whose name is free
again when the halves have moved on. The backoff is that of `backoff_strategy = true`;
its delay is kept, the jitter is not. `SupervisesAsDeclared` instantiates
`ConsumerLifecycle` with one address and one connection, lent while there are tasks, and
says that every step of `Supervisor` is a step `ConsumerLifecycle` has for its supervisor
or for the tasks of messages, a change of `is_running`, or invisible there.

**Pool** has `owner[l]` for a mutex that a task holds across an await; taking a
free one for the length of an action needs no record. Time is a choice (`stale`,
`expired`), and so is whether the closer or the factory fails. `fate[c]` follows
a connection, so that properties can speak of connections the pool has forgotten.
A get may be dropped by its caller while it waits on its channel; drops at other
awaits are not modelled.

**Producer** models tasks that publish or ping towards one nsqd. `cached` is the
entry of the map, `dialer` the task that dials with the map locked, `wire[c]` and
`inbox[c]` the two directions of a connection. `result[m]` tells an Ok for which
an OK was read from one for which a heartbeat was read; for the caller both are
Ok. `publish_delayed` and `publish_multi` retry the same operation with another command
(`Step`); `publish_multi` returns Ok at once for an empty list, `empty` in `result`.

**WireCodec** is pure: `ToBytes`, the decoders of frames and messages, and, as nsqd's
side, `CommandAt`, which reads a command at the head of a stream. A stream is a
sequence of units, each with a width in bytes: a number of 4, a line, a message's
header of 26, single bytes of bodies. `Take` and `Drop` count bytes, and what they cut
through becomes junk of the remaining width. Bodies are any bytes, so four bytes that
are not a number as it was written still have a value for `from_be_bytes`: the readers
take it as a parameter, `stray`, which `OneShot` chooses from `Strays` anew each time it
reads. `MaxBody` is the largest size nsqd accepts. `Panic` stands for a slice out of
range. One thing is left out: bytes of a body are never read as the line of a command.

**OneShot** runs a call of `commands.rs` step by step over two such streams, `up` and
`down`. `pc` is the call's position; reading a frame takes three steps (`at`), since
each `read_exact` of `Connection::read_frame` and `initialize` waits on its own. A
write may leave all of its bytes, none, or a part (`SayPart`), and fail; a read may
fail or be dropped between its parts or inside one. A user who was given the connection
goes on with it after errors, as nothing in `Connection` keeps it from that; a panic of
`decode_message` ends its task. `said`,
`heard`, `sent`, `got`, `torn` and `broken` are histories for the properties.

The modules whose names start with `MC` give the constants of a run their values,
where it helps with symmetry sets. Those that end in `_proofs` hold the theorems about
the module they are named after: `ConnectionHandler_proofs`, `ConsumerLifecycle_proofs`,
`Supervisor_proofs`, `Pool_proofs`, `Producer_proofs`, `WireCodec_proofs`, and
`OneShot_proofs`, which builds on the one before. `FoldTheorems` has what several of
them need of induction, sums and recursive functions. Definitions
commented as a mutation stand before the definition they break; they are used
to test that each property can be violated by a plausible bug, and by nothing
else.

## 3. What the runs check

| Run | Specification | Properties | What it shows |
|---|---|---|---|
| `handler_auto` | `FairSpec`, 3 deliveries, 2 permits, automatic answers only | `TypeOK` `ReplenishDuty` `StatsLedger` `NoSilentDrop` `DeliveryAnswered` `HeartbeatAnswered` `StopObserved` | counter, statistics and answers stay in step through panics and failed writes; the loop comes back from the wait for a permit |
| `handler_manual` | `Spec`, 2 deliveries, 1 worker, answers by hand | `SingleAnswer` `DeliverySpec` | handler and worker race on clones, nsqd sees one final answer |
| `pool` | `Spec`, 3 tasks, `initial_cap` and `max_cap` 2, `max_idle` 1 | `TypeOK` `Exclusive` `UsableIsOpen` `CountCovers` `CapRespected` `LockCycles` | connections are neither shared nor handed out closed, the cap holds until release, locks are waited for in a circle only around `conn_reqs` |
| `lifecycle` | `FairSpec`, 2 callers, 2 addresses, 2 connections, all operations | `TypeOK` `CountMatches` `ListedOnce` `SessionsRetried` `SupervisorsEnd` `StopReturns` | the map and its counter agree and connections are listed once, also with polls, starts and connections that messages hold on to; supervisors retry and end, stop returns |
| `supervisor` | `FairSpec`, 2 sockets, 2 tasks, `max_in_flight` 2 | `TypeOK` `InStep` `QuickAgain` `SupervisesAsDeclared` `Resubscribed` `PermitReturns` | over any number of outages the supervisor and nsqd agree where they are; it refines that of `ConsumerLifecycle`, tasks included; it serves again when links hold |
| `producer` | `Spec`, 2 tasks, 2 messages or lists, 2 connections, 2 attempts | `TypeOK` `FrameForEachReader` `AcksCovered` | no response is awaited in vain or taken twice |
| `commands` | `FairSpec`, one call of each kind, stray bytes read as 2 or 12 | `TypeOK` `HeardAsSaid` `OkIsStored` `FramesIntact` `PanicsAfterCut` `DecodersAgree` `CallReturns` | nsqd hears what was said; frames are read in order until a read is cut short, panics occur only behind such a cut and no call reads on after it; Ok means stored, heartbeats apart; calls return |

Five runs show that the program does not do what its text says:

| Run | Property | The text | What happens |
|---|---|---|---|
| `handler_opt_out` | `OptOutHonoured` | protocol.rs:204, no automatic FIN or REQ after the call; protocol.rs:221, answered only once by CAS | the flag is set on the handler's clone, the task looks at its own; its automatic answer does not take part in the CAS, so the answer by hand follows |
| `pool_stranded` | `NoStranding` | pool.rs:218, wait for a connection to become available | a connection put between the look at `idle_conns` and the request becomes idle, the get waits for ever |
| `lifecycle_zombie` | `StopCloses` | consumer.rs:515, wait until all connections are closed | the session of a disconnected connection breaks, its supervisor reconnects and serves again, and stop, which does not find it in the map, returns though no deadline fired |
| `supervisor_late` | `KeepsServing` | README, automatic reconnection and error retry | a task of the lost session writes FIN to the new socket before SUB; E_INVALID is not among the errors that are retried |
| `producer_mixed` | `AckedIsStored` | README, reliable; commands.rs:63 of the same exchange, read the response to confirm | a task whose message was refused reads the OK of another task's; heartbeats are off in this run |

In `handler_auto` the handler leaves the answer to the task, so that the case in which
the task finds the message answered already (consumer.rs:284, 305) is reached in
`handler_opt_out`, and covered by the theorems `StatsLedgerHolds` and `NoSilentDropHolds`,
which hold for any calls of the handler, and not by the run.

More that the models contain and no run states as a fault of its own:

- The pool deadlocks when a `release` (idle_conns, then conn_reqs) meets a `put`
  (conn_reqs, then idle_conns), and when a get that discards a stale connection
  (idle_conns, opening_conns), a get at the cap (opening_conns, conn_reqs) and a put
  meet. `LockCycles` says that there are no other circles than those in which a get at
  the cap or a release asks for `conn_reqs`.
- `put` serves the youngest request; a get that is dropped after its connection was
  sent loses it and leaves it in the count; after `release` the count is 0 whatever
  callers still hold.
- `stop` waits behind a dial whose IDENTIFY is never answered.
- A heartbeat that is read after a publish counts as its confirmation, although
  commands.rs:63 and 97 say that the response is read to confirm that the publish
  succeeded: nsqd may refuse the message after it sent the heartbeat, and the call returns
  Ok. `OkIsStored` and `AcksCovered` except heartbeats, and only them, so that they say
  something about all other responses.
- After a write that was cut short, the next command on the same connection completes
  it: nsqd may store a body made of both (`HeardAsSaid` holds for the one-shot calls,
  which drop the connection, and excepts a user who goes on). The producer keeps such a
  connection in its map, and retries on it.
- A `read_frame` that the tick drops inside a frame leaves the next one to start in its
  middle: bytes of a body may then pose as a size and a type, and a frame that nobody
  sent is read, or bytes are awaited that do not come, or `decode_message` panics.
  `FramesIntact` and `PanicsAfterCut` say that nothing of this happens before the cut.
- Every timeout of `read_frame` and `write_bytes` is an `Error::TimedOut`, which the
  supervisor does not retry (`stall` in `Supervisor`, `other` in `ConsumerLifecycle`).
- `decode_message` panics on a message frame of 4 to 25 bytes of data, `initialize` on
  an answer of size 1 to 3; a protocol-keeping nsqd sends neither. Behind a dropped read
  stray bytes can look like the first.

### Bounds

Three deliveries and two permits let two tasks overlap while a third message waits for a
permit, with a threshold (3 div 2) that the counter crosses while another task is
replenishing, and the loop blocks on the permit. One worker besides the handler is enough
for a race on `responded`, which only ever compares two of them. In the pool three tasks
give two that hold connections at the cap and one that waits; `new` creates its
`initial_cap` connections whatever `max_idle` is, so that the pool starts with two idle
ones, of which a sweep may take any or both; `MaxCancelled` bounds how many requests of
dropped gets lie in `conn_reqs`, and four names for connections are more than can be open
before release. In `supervisor` two permits let tasks of a lost session hold one or both
while the new session reads; `MaxDelay` 4 lets the delay double twice and meet the cap, in
place of 60. Each kind of call is made once with bodies of one and two bytes, which tells
sizes, counts and totals apart; `Cuts` leaves the first byte of a command, or all before
one of its units; `MaxBeats` and `MaxSends` bound what nsqd and the user add. `Strays` are
the values that stray bytes may have: 2 is the type of a message and, as a size, refused;
12 is no type and, as a size, that of a frame with 8 bytes of data, which as a message
makes `decode_message` panic. `MaxBody` 20 lets the bodies of the run through. Two
addresses make the deadline of a stop drop one connection unclosed while it closes the
other one; a connection name serves again when nobody refers to it, so two names cover a
supervisor that outlives its entry in the map and its successor. `MaxTries` of the
producer stands for the elapsed time that ends a backoff; with two attempts a late
response meets a second try. All state spaces are finite and searched to the end, no state
constraint is used. `Pool` may come to a stop (gets that wait, the deadlocks above), a
supervisor and a one-shot call end, so their runs do not check for deadlock; the others
do.

### Fairness

`ConnectionHandler!FairSpec`: tokio polls a task that is ready, so the steps of the
loop and of tasks are weakly fair. Reading a frame is strongly fair: the tick of
30 s competes with it and is rarely ready. The handler is assumed to return in the
end (strongly fair, since its own pending write must finish first); workers, nsqd,
the link and user calls are not assumed to do anything, and neither is that a panic
does not happen. `ConsumerLifecycle!FairSpec`: a tokio mutex queues its waiters, so
callers are strongly fair; a close ends or the deadline fires; a session sees
`is_running` at least every tick. That dials end is an assumption about nsqds, since
`initialize` has no timeout. Nobody is assumed to call anything.

`Supervisor!FairSpec`: the steps of the supervisor are weakly fair; a dial is strongly
fair, since `DialFails` competes with it: an nsqd that is dialed again and again accepts
in the end. Tasks are strongly fair, because `initialize` takes the write lock from
them time and again and a tokio mutex queues. nsqd answers IDENTIFY or closes. Nothing
is assumed about links, stops and messages; `Resubscribed` names its own premise.
`OneShot!FairSpec`: the call goes on while it is a call, and nsqd answers IDENTIFY and
AUTH, because `initialize` has no timeout; the answer to the command itself is not
assumed, the read timeout stands in. `Pool` and `Producer` are for safety only.

## 4. What is proved

`ConnectionHandler_proofs` holds theorems for every set of messages, every set of
workers, every `max_in_flight` and every number of permits, from the assumption
`ConfigAssumption` on the constants alone unless one is named:

- `TypeCorrect`: `Spec => []TypeOK`. `TypeOK` is inductive.
- `InboxFreshHolds`: a delivery in `inbox` has phase `sent` and is there once. This
  is what makes `ReadMessage` act on a fresh delivery, and later proofs need it: the
  step that reads a message writes `phase` at the head of `inbox`.
- `ReplenishDutyHolds`: inductive with the types and `InboxFresh`. A task enters
  `replenish` exactly when it takes the counter to the threshold; it leaves `store`
  having put it above; it never leaves the three phases otherwise, except to stay in
  `unready` when the write of RDY failed.
- `SingleAnswerHolds`, under `OneSideAnswers` (automatic answers are disabled, or no
  worker keeps a clone). The invariant is `AnswerInv`: the exchange on `responded`
  elects one holder (`Elected`). While `responded` is false there is no claim; a
  claim is the only one and nothing has been answered; a task that is about to
  answer by itself has found `responded` false, and in such a session nobody can set
  it any more. `SingleAnswer` alone is not inductive: two pending claims would break
  it. The run `handler_opt_out` shows that the assumption is needed.
- `DeliveryImplemented`: under the same assumption `Spec => DeliverySpec`. Pushes map
  to `Push`, the first answer to `Answer`, all other steps to stutters.
- `NoSilentDropHolds`, when automatic answers are on: the invariant adds that the
  task's copy of a message never opts out.
- `StatsLedgerHolds`, when automatic answers are on and there are finitely many
  messages: `UncountedMoves` says that the number of messages read and not yet counted
  changes by one when one delivery enters or leaves those phases, and by nothing
  otherwise; each step then moves a statistic and that number together.

`ConsumerLifecycle_proofs`, for any callers and connections and finitely many
addresses: `LifecycleTypeCorrect`, `CountMatchesHolds` and `ListedOnceHolds`. None of
the three is inductive alone. `Inv` joins them with `Locking`: a caller is inside
`dial`, `close` or `drain` exactly while the map is locked by it, and the address it
dials has no entry, because nobody could add one meanwhile. Lemmas on the set `Listed`
say that an entry added or removed moves its cardinality by one, as the code's
`fetch_add` and `fetch_sub` move the counter.

`Pool_proofs`, for any tasks, connections, configuration, calls and faults:

- `PoolTypeCorrect`; a task that puts has a connection to put (`PutHolds`).
- `ExclusiveHolds` and `UsableIsOpenHolds`, from `Located`: `Places` says pairwise what
  `Exclusive` counts, and `Openness` that everything idle or in a channel is open, and
  that what a task holds is open except at the three steps in which it has closed it
  and is about to lower the count. Without the last part `UsableIsOpen` does not
  survive the step in which a put goes on to the idle list.
- `CountCoversHolds`, if connections are finite: `Ledger` adds that the steps of a
  release come after `closed` is set. `CountMoves` compares the set `Covered` before and
  after a step; a sweep takes as many connections off the list as it takes off the count.
- `CapRespectedHolds`, if also `InitialCap <= MaxCap`, which `Pool::new` does not check:
  the count itself keeps to the cap, because the look at it and its increment happen
  under one lock.
- `LockCyclesHolds`: `Owners` says at which steps which lock is held; in any circle a
  task asks for `conn_reqs` inside another lock of its own.

`Producer_proofs`, for any tasks, messages, connections, attempts and faults:
`ProducerTypeCorrect`, and `FrameForEachReaderHolds` if tasks are finite. A write adds
a reader and a frame, a read takes one of each, a reader that times out leaves its frame
behind, and a connection's name is given out again only when nobody reads on it.

- `AcksCoveredHolds`, if messages are finite. The run's `AcksCovered` compares a number
  of messages with a sum over messages, a fold. `SumCounts` of `FoldTheorems` turns the
  sum into the size of a set of pairs (message, number of a copy), so that a step of
  nsqd adds one pair; the invariant (`Ledger`) counts, besides the acknowledgements,
  the OKs that still wait to be read, each of which was a copy stored. Acknowledgements
  alone are not inductive: a read turns a waiting OK into one.

`Supervisor_proofs`, for any sockets, tasks, `max_in_flight` and faults:

- `SupervisorTypeCorrect`, with the delay between 1 and `MaxDelay`.
- `InStepHolds` and `QuickAgainHolds`, from `Course`: how far nsqd is at each step of the
  supervisor while the socket is up; that the halves differ only within `swap` and the
  write lock is kept exactly while the answer to IDENTIFY is awaited; and that from the
  end of a session until the write half is replaced its socket is lost. The last is what
  keeps a task of the lost session from moving nsqd on between two sessions.
- `SupervisesHolds`: `Spec => SupervisesAsDeclared`, step by step, with the same
  invariant. The beginning and the end of a session, the backoff and the reconnect are
  steps of `ConsumerLifecycle`; so are the first task that takes a permit and the last one
  that gives its permit back, which lend and return the connection (`TaskSteps`).
  Commands and frames are not seen there.

`WireCodec_proofs` is about streams of any length. Its foundation is `EndStep`, which
turns the recursive `End` into an equation, and the lemmas on where `Take` and `Drop`
cut (`CutBetween`, `CutInside`, `CutFurther`, `EveryCut`). On them rest the theorems:
`SliceRead` (the slice reader gives back what `FrameBytes` encodes), `PartRefused` (and
nothing for a proper part of it), `CommandHeard` (a command nsqd reads at the head of a
stream is the command written, with its bodies, and what follows it is untouched) and
`CommandUnheard` (a proper part of a command is none). The bodies of MPUB are taken by
induction on their number. `CommandHeard` says what is heard when something is heard:
nsqd may refuse a command (MPUB without a message, or a size it does not take for one),
and that it does hear those of the run is what TLC shows.

`OneShot_proofs`, for any calls, messages, heartbeats and commands of a user, from
`OneShotAssumption`: bodies are sequences of bytes, a publish has one, only a connect has
a secret, and stray bytes are read as natural numbers, any set of them.

- `DecodersAgreeHolds`, from the codec and `SentFrames` (nsqd sends frames).
- `PositionHolds`: the inductive invariant of the reading side. As long as no read was
  cut short (`Intact`), `down` is exactly the rest of the frame the client is in
  (`TypeNext`, `DataNext`) and the frames behind it, and `sent` is `got`, that frame and
  those. After a cut nothing is claimed about the bytes, since bodies are arbitrary: what
  is left is that the call is over or a user has the connection. `FramesIntact` says
  nothing about bytes and is far from inductive. The proof goes over every cut a read can
  make and shows that the cut is noticed, an error or a dropped future each time, and
  that without one the next four bytes are always a number that nsqd wrote.
- `FramesIntactHolds` and `PanicsAfterCutHolds` follow from it: in a stream that is intact
  the data are those of a frame that was sent, which the decoder accepts (`DataRead`).
- `OneShotTypeCorrect`: the type of `need` follows from the sizes that the reads refuse;
  those of `initialize`, which refuses only 0, need that its bytes are those of a frame.
- `HeardAsSaidHolds`, from `Speech`: `up` is the bytes of the commands said and not yet
  heard, the last of them cut where a write was. It also needs that a call which is not
  a user's ends with the write that fails.
- `OkIsStoredHolds`, from `Confirming`: what a publishing call has said at each step, that
  nsqd has sent nothing before it hears IDENTIFY and stored nothing before the third
  command, and that the frame the call takes for the confirmation is the second one
  sent, which is a plain response only once the bodies are stored.

Each of these invariants was an invariant of a TLC run on the instances of `MC` modules
before it was proved. Induction is had from the well-foundedness of the naturals, applied
to a set (`SetInduction`: a set of naturals with 0 and successors is all of them), since
the provers cannot instantiate the library's theorems, which take an operator.

Only model-checked are the liveness properties (`DeliveryAnswered`, `HeartbeatAnswered`,
`StopObserved`, `SessionsRetried`, `SupervisorsEnd`, `StopReturns`, `Resubscribed`,
`PermitReturns`, `CallReturns`), which are out of the prover's reach, and the five
violations. Every invariant and action property of the passing runs, and both
refinements, are proved.

## 5. What is not modelled

- Bytes outside `OneShot`: in `ConnectionHandler`, `Supervisor` and `Producer` a command
  or a frame is written and read as a whole or fails. What a cut write or a dropped read
  does to a connection is checked in `OneShot` and described above.
- The text of commands (names of topics and channels, delays, ids) and the JSON of
  IDENTIFY; bytes of a body that spell a command; the 32-bit cut of sizes and of the
  delay in `publish_delayed`. `Protocol::write_command` and `encode_command` have no caller.
- The length of delays: jitter and timeouts are choices.
- The lookup request (`src/lookup.rs`): a stateless HTTP GET whose outcome is a choice of
  `ConsumerLifecycle`; `lookup_nsqd_nodes` returns its argument. Errors, re-exports and
  examples have no state.
- Drops of futures other than that of a waiting get, a manual answer, and a read.
- Fields of statistics other than those the session counts.

## 6. Plan

1. An abstract pool (who owns which connection) that `Pool` implements, by proof too.
2. What a user may rely on after errors: that a connection on which nothing was cut short
   still gets an answer for every command (`OneShot`).
3. Liveness of the producer: every publish returns; the cut of delays.
