# tokio_kcp: TLA+ models, model checking and proofs

This directory is the verification development of `tokio_kcp`, a Rust library that
runs the KCP protocol over UDP on tokio. It contains TLA+ modules translated from the
source, TLC configurations that check them on small instances, and proofs checked by
TLAPS for every value of the constants. Paths below are relative to the crate
(`src/` is the crate's source directory, `src/src/` in PROJECT.json).

    tlc -workers 2 -config Listener.cfg MCKcpListener     # a run
    tlapm KcpListenerProofs.tla                           # a proof

## 1. The system

| component | state | operations | talks to |
|---|---|---|---|
| `KcpListener` (`src/listener.rs`) | accept channel (1024), close channel, the manager, one task in a `select!` loop | datagram, close notice, accept, drop | manager, session input channels |
| `KcpSessionManager` (`src/session.rs`) | map peer address -> `KcpSessionUniq` | `get_or_create`, `get`, `close_peer`, `alloc_conv` | owned by the listener task; dropping an entry closes its session |
| `KcpSession` (`src/session.rs`) | `closed` flag, input channel (64), io task, close notifier, socket behind a spin lock | io task's turns, `poll_scheduler_tick` (`drive_update`, `finalize`), `close`, `input` | shared by io task, scheduler thread, stream and manager |
| `KcpSocket` (`src/skcp.rs`) | the KCP machine, two waker slots, `closed`, `sent_first`, `last_update_ms` | `poll_send`, `poll_recv`, `input`, `update_at`, `flush`, `close` | called under the session's lock |
| `UdpOutput` (`src/skcp.rs`) | backlog of 2048 datagrams, FEC encoder, one task | `write` | the UDP socket |
| `FixedTickScheduler` (`src/scheduler.rs`) | per shard: command channel, vector of tasks with deadlines, one thread | `register`, drain, one pass per tick | `poll_scheduler_tick` |
| `FecEncoder`, `FecDecoder` (`src/fec.rs`) | sequence number, shards of the open group; map of groups, newest group | `encode`, `decode` | output task, `KcpSocket::input` |
| `KcpStream` (`src/stream.rs`) | reference to the session, read buffer | connect, read, write, flush, drop | socket and session |
| `KcpConfig` (`src/config.rs`) | constants | `validate`, `apply_config` | read at creation |

The kcp crate (ARQ, windows, fragmentation) and the Reed-Solomon crate are external.

What is hard here:

- A session is shared by three threads of control (io task, scheduler thread,
  application) and evicted by a fourth (listener). `closed`, `KcpSocket.closed`, the
  abort of the io task and the close notice are four separate signals sent at
  different moments (`session.rs:289-305`).
- A close notice and the replacement of an entry cross each other (`session.rs:300`,
  `:378`); the listener may be blocked on a session that ends (`listener.rs:154`).
- Wakers are kept in single slots (`skcp.rs:233`, `:309`), so one lost is a task that
  sleeps for ever; several paths return before they wake anybody.
- The scheduler removes tasks from the vector it iterates (`scheduler.rs:122`).
- FEC numbers wrap, groups are forgotten by distance, packets come late or twice.
- A client may let the server choose its conversation: then both ends go over to a
  number while datagrams with others are still under way (`session.rs:157`,
  `listener.rs:108`), and every copy of the first packet gets a number of its own.
- `send` cuts a buffer into chunks and waits between them, reads go through a buffer
  that keeps the rest of a message (`stream.rs:124`, `:141`): both are interrupted by
  errors, closed sockets and callers that give up.
- The FEC header is taken off the MTU twice (`config.rs:154`, `:174`) and its size field
  limits what the encoder takes (`fec.rs:52`), which `validate` does not look at.
- One task reads for every peer (`listener.rs:64`): what ends it ends every session.

What makes each component correct: a session that left the manager ends, and only
after what it accepted is acknowledged (or session_expire forced it); nobody waits for
a socket that can serve him; every session is driven by one thread, for ever or until
it says so; a packet's number always tells its place in its group, and D packets of a
group give all its payloads; client and server speak the same conversation; the bytes
of a stream are read in their order, each once; a configuration that `validate` accepts
works. PROJECT.json lists the hazards line by line with the
property that watches each.

## 2. The modules

| module | models | composed of |
|---|---|---|
| `KcpSession` | the sessions of a server: io task, tick, finalize, application | - |
| `KcpListener` | listener task, manager, channels | EXTENDS `KcpSession` |
| `MCKcpListener` | TLC instance (symmetry) | EXTENDS `KcpListener` |
| `MCListenerLive` | TLC instance, small enough for liveness with two sessions | EXTENDS `KcpListener` |
| `KcpListenerProofs` | proofs | EXTENDS `KcpListener` |
| `KcpSocket` | waker slots, windows, read queue | - |
| `KcpSocketProofs` | proofs | EXTENDS `KcpSocket` |
| `Ticker` | abstract: what a session relies on the scheduler for | - |
| `Scheduler` | shard threads and their passes | INSTANCE `Ticker`, refinement |
| `SchedulerProofs` | proofs, the safety part of the refinement included | EXTENDS `Scheduler` |
| `Fec` | encoder, lossy network, decoder | - |
| `FecProofs` | proofs: the encoder's numbers | EXTENDS `Fec` |
| `FecDecoderProofs` | proofs: what the decoder recovers and remembers | EXTENDS `FecProofs` |
| `KcpConfig` | pure operators: what `validate` accepts, what `apply_config`, the kcp crate and the FEC encoder need, sizes of segments and chunks | - |
| `ByteFifo` | abstract: what a stream promises | - |
| `KcpStream` | `send`, `write`, `recv` with `recv_buffer`, from the making of the sockets to the end | EXTENDS `KcpConfig`; INSTANCE `ByteFifo`, refinement |
| `KcpStreamProofs` | proofs, the refinement included | EXTENDS `KcpStream` |
| `MCKcpStream` | TLC instance (configurations on each side of every limit) | EXTENDS `KcpStream` |
| `Handshake` | a client with conversation 0, the listener and the sessions it makes for it, the network | - |
| `MCHandshake` | TLC instance | EXTENDS `Handshake` |
| `HandshakeProofs` | proofs | EXTENDS `Handshake` |

A definition whose comment begins with "mutant" is a wrong version of the definition
that follows it; PROJECT.json names, for every property, the mutant that breaks it.

### KcpSession and KcpListener

`phase[s]` is where the scheduler is with a session: `ticking`, then the positions
inside `finalize` before each of its four effects, which other threads can observe.
`closed[s]` and `sock[s]` are the two closed flags. `io[s]` separates the call of
`abort()` from the moment the runtime drops the task (and with it `input_rx`): between
them the task may still take datagrams. The KCP machine is `unacked[s]` (`wait_snd()`)
and `idle[s]`, the time since `last_update_ms` in units of `session_expire`.
`forced` and `late` are history variables: why a session was given up, and whether a
write was accepted afterwards.

The listener's `lpc` is one value per point where the task can be interrupted: at the
`select!`, before `try_send` (another thread may run, the task is not awaiting), in
`session.input().await`, ended. `hand` is what it holds across those points.
`get_or_create` does its lookup and its insertion in one step: nothing else touches the
map, and its `.await`s never suspend. A datagram is the conversation it is for, or
`None` for a parity packet; a conversation of 0 is renamed at random before it is
looked up, so it is an arbitrary member of `Convs`. Sequence number 0 is a Boolean
(`sn0`). Data of a foreign conversation and KCP segments that are too short change
nothing and are not actions. A FEC data packet cut inside its 2-byte size field is not
passed over like them: `is_data_packet` accepts it, `data_payload_mut` does not, and the
`unwrap` of `listener.rs:95` panics. This is `ListenerPanics`, enabled when the constant
`Fec` says that the listener is configured with FEC: the task ends as it does when it is
aborted (`TaskEnds`), with its manager, its ends of the channels and what it has in hand,
but the application still has its handle. Every property of the passing runs holds on
that path too: no session leaks. Section 6 says what the path is.

### KcpSocket

Every call is one action, since all run under the lock. A message ready to be read is
`"empty"` or `"data"`; the window of the peer is any value of `RmtWnds` at each input.
`Malformed` allows an input that fails after its first segments took effect: it
returns before the wakers are tried. `Cancel` is a task that stops waiting, for which
the slot keeps a stale waker. `overlooked` is a history variable: a datagram was
rejected, or an empty message skipped, since an input last looked at the readers; until
the next input a reader may then be parked though there is something to read.
`last_update_ms` is in KcpSession.

### Scheduler and Ticker

`DrainOne` and the steps of a pass are separate actions because a registration can
arrive between any two of them. A deadline is kept as the number of ticks left at the
start of the pass. `ClockSetBack` is the system clock going back between two passes of
a shard: every deadline is then as much further away, and what was due is not. The
refinement mapping is `status <- Status`: a session is live
when it is in a channel or in a vector, over when `poll_scheduler_tick` returned None.

### Fec

A payload is the number of its `encode` call; a parity packet is the tuple of payloads
it was computed from, so that a set mixed from two groups is seen as such.
The network keeps the last `Reach` packets; each may arrive in any order, never, or
again and again. A 500 ms pause is the free choice between `EncodeParity` and
`EncodeSkipParity`. `Word` is 2^32 in the code.

### KcpConfig and KcpStream

A configuration is a record of the fields a limit depends on. `NewSocket` is
`KcpSocket::new` with its three ways to end: open, an error, or the panic of one of the
`expect`s of `apply_config`. The state machine joins the writing half of one stream to
the reading half of its peer. A byte is its position in what the application writes, so
a chunk, a message and the content of `recv_buffer` are each a position and a length,
and "the right bytes in the right order" is arithmetic on positions. The application
writes the bytes from `told` on; after a call that failed or was given up it goes on
where a reasonable caller does (`GivenUp`): a `write` is tried again with the same
bytes. KCP is the sequence `queue`; in stream mode `kcp.send` may merge into its last
element and a message is delivered segment by segment. `Leaves` is the output task's
call of the encoder: a segment it refuses is dropped each time, so no message behind it
is delivered. What the model takes for granted of a caller is that it goes on exactly
where the call stopped: after a `send` that failed or was given up the code does not
tell it where that is, and that ambiguity is no part of the model. A poll that is pending is no
step here: waiting is KcpSocket's. The mapping to ByteFifo is `written <- accepted`.

### Handshake

One client and its entry in the manager, with the client's recv arm, `poll_send`'s wait
for the conversation, the listener's renumbering, replacement and stale notices. A
session is its conversation, the segments it received, and the state of the one segment
it sends. What a datagram waits for at either end is counted as its way through the
network. The network is a set: it loses, delays and reorders, and KCP's retransmission
makes the copies. `copies` and `readable` are history variables: how often the listener
took an unnamed packet, and how far an accepted stream could read.

## 3. The runs

| run (cfg) | question | bounds, states |
|---|---|---|
| `listener` (Listener) | type, and the five safety properties, with expiry | 2 sessions of one peer, 2 conversations, channels of 1; FEC; 3.5 million, with symmetry |
| `listener_live` (ListenerLive) | entries of finished sessions leave; the listener does not stay blocked; a session that left the manager and was dropped is finalized, though its client never acknowledges | 2 sessions of one peer, 2 conversations, channels and window of 1, expiry, FEC; the restrictions of MCListenerLive; 325,000 |
| `stale_notice`, `late_write` | violated, see 6 | |
| `socket` (Socket) | wakers, window, first segment, readers; a parked writer resumes | 2 writers, 2 readers, windows of 0, 1 and 3, rejected datagrams, empty messages; 18,000 |
| `empty_message` | violated, see 6 | |
| `scheduler` (Scheduler) | one holder per session, complete passes, one poll per pass, refinement of Ticker | 3 sessions, 2 shards, delays of 0 and 1, the clock goes back by 2 once per shard; 327,000 |
| `fec` (Fec) | numbering, recovery, memory, up to the wrap (exactly one lap) | D = 2, P = 1, 5 groups of numbers, 10 payloads, reach 4; 73,000 |
| `fec_wrap` | violated, see 6 | 12 payloads |
| `stream` (Stream) | valid configurations work; kcp refuses no size; `Ok(n)` tells the truth; refinement of ByteFifo | 10 configurations, 3 calls of 0, 26 or 79 bytes, read buffers of 25, 40 and 78; 1.8 million |
| `handshake` (Handshake) | unnamed is first, one conversation, the client learns one | 2 conversations, 2 segments, one datagram to the server and two to the client, one replaced session or notice; the restriction of MCHandshake; 477,000 |
| `stuck_client` | violated, see 6 | two datagrams each way |

Why the bounds are enough. Two sessions of one peer are the least that can replace one
another, and an entry is replaced by one other at a time. `listener` takes them through
every order. In `listener_live` too, sessions are replaced and removed by the notice of
another while the listener goes on, and all are removed at once when it panics.
MCListenerLive takes away only choices of the environment that no fairness rests on: the
drop of the handle (after which the abort of the task, which is fair, removes every entry
and ends every wait), a write accepted after the end was decided (`late_write` has it),
parity packets (they take the way of data), and other orders and names of sessions and
conversations (a liveness run cannot use symmetry). That sessions of different
peers do not disturb one another is what the proofs show for any number of them. A
channel of capacity 1 is full after one element, the only state a capacity matters in.
Two tasks per slot are the least that compete for it. Three tasks in one vector let
swap_remove move a task that is neither the first nor the one removed. In Fec the
window is 3 groups and 5 are filled, so groups are forgotten, and the ten payloads
bring `next` back to 0. In the stream a segment has 26 bytes and a chunk up to 3
segments (127 in the code, and kcp rejects 4 instead of 128): 79 bytes are one more
than a chunk, 26 a full segment, and the three read buffers are smaller than a segment,
between a segment and a chunk, and as long as a chunk. The configurations are the two
smallest valid MTUs, both modes, and one on the wrong side of each check. In the
handshake the two segments are the one that is sent unnamed and one that is not; two
datagrams to the client are the least of which one overtakes the other, so answers of
two sessions reach it in either order. Towards the server the run has one, the violated
`stuck_client` two, and the theorems of HandshakeProofs any number. MCHandshake lets the
client's recv fail only when all it sends is acknowledged: its liveness property says
nothing of a client that failed, and the theorems cover failures at any time.
`Sessions`, `MaxEncodes`, `RcvCap`, `MaxDelay`, `MaxSetBacks`, `MaxCalls`, `QueueCap`,
`Segments`, `ToServerCap`, `ToClientCap` and `MaxEnding` are bounds of the models only.
CHECK_DEADLOCK is FALSE where the instance really ends: every session used and
finalized and the listener gone or idle, every payload encoded and nothing able to arrive, a
stream read to its end, or a client finalized.

### Fairness

- The runtime polls every task that can go on: WF of `Offer`, `DeliverInput`,
  `ListenerAborted`, and of every session's io task.
- `tokio::select!` picks a ready branch at random, so a close notice is taken though
  datagrams never stop: SF of `ListenerClose` (it is disabled while a datagram is being
  handled, hence strong).
- A shard thread visits every session once per tick: WF of `Tick` or `Finalize` (one at
  most is possible), of `UpdateAt`, and of `Thread` in Scheduler, from which Ticker's fairness follows, so
  the assumption the sessions make is itself checked.
- Time passes: WF of `Elapse`. A task that runs polls again: WF of `PollSend`, `PollRecv`.
- In Handshake, KCP retransmits until it is answered, and the network does not lose for
  ever what is sent again and again: SF of `ClientTransmit`, `ListenerRecv` and
  `ClientRecv`. A replaced session ends at the latest when it expires (90 s by default):
  SF of `ReplacedFinalize`. The client need not send, nor the server's stream write.
- Otherwise nothing is assumed of peers, the network, or the application.

## 4. The proofs

All are for every set of sessions, peers, conversations, tasks, configurations and
lengths, and every capacity, under the named ASSUMEs of the modules (None is no session
and no peer; capacities are positive; writers and readers are disjoint; D, P > 0 and
D + P < Word; a write is cut into fewer segments than a message may have fragments).
Every safety invariant and every action property that a passing run checks is a theorem.
Each proof has the same shape: an invariant that every step keeps, checked by TLC before
it was proved, one lemma per action or per conjunct, and the property from it.

- `KcpListenerProofs`: `TypeCorrect`, `NoEscapedSession`, `NoLeakedStream`,
  `NoOrphanedEntry`, `NoMisroutedData`, `NoEarlyEnd`. The invariant `IInv` of
  KcpListener strengthens the five safety properties with the structure they need:
  the listener has a session in hand exactly while it handles a datagram; a session
  being offered still has its entry (a failed offer removes the right one);
  an entry is of a session created for that peer (a replacement closes what it evicts,
  a notice is for the entry's peer); nothing is queued for a session not yet created
  (its conversation is chosen later); a listener task that has ended, by the abort or by
  the panic, has no entry (a notice sent to nobody orphans none). There is one lemma per conjunct, each with one step per
  action that can disturb it.
- `KcpSocketProofs`: `TypeCorrect`; `NoLostWaker`, `CloseWakesAll`, from `TypeOK`, the slot
  property and the closed property together (a task parks only on an open socket, and
  takes the slot of whom it wakes); `WindowRespected`, `FirstSegmentAlone`, from
  "nothing outstanding before the first send"; `ReaderNotForgotten`: a reader parks only
  when nothing at the front can be returned, and every input that is not rejected wakes
  it.
- `SchedulerProofs`: `TypeCorrect`, `OneHolder`, `PassLeavesNobodyOut`,
  `PolledOncePerPass`, and `ThreadsAreTicker`: the threads implement Ticker but for its
  fairness, every step being a step of Ticker or none. The invariant: a session is in
  one place of one channel or one vector (`HeldInv`), and during a pass the vector is
  split at `idx` (`PassInv`): what is before it was polled in this pass or is not due,
  what is at it or behind was not polled. swap_remove is why it takes a proof: it moves the last
  task, not yet looked at, to the place being looked at, so `idx` must stay.
- `FecProofs`: `NumbersAligned`, `NoNumberOverflow`. The invariant says that `next` is
  `g * (D + P) + Len(shards)` for a whole group `g` below `paws`; it rests on
  `paws` being a multiple of the group size and on lemmas about division and
  remainder stated once.
- `FecDecoderProofs`: `TypeCorrect`, `BoundedMemory`, `RecoveredInLap`,
  `GroupsRecovered`. `ContentInv` says what every packet, under way or stored, holds: in
  the first lap the packet with a number is determined by it, so all shards of one set
  are of one group and reconstruct_data gives back that group's payloads. `BoundedMemory`
  counts the identifiers discard_old_shards leaves: an injection into their distances.
  `GroupsRecovered` needs `OrderInv` besides: the packets under way are sorted and the
  encoder is not further than a few groups (`Close`), so a group of which packets may
  still arrive has not been discarded, and its set holds exactly what arrived (`Track`).
  Two hypotheses are needed. `OneLap`: not more payloads were encoded than numbers
  last. After the wrap both properties are false (see `fec_wrap`); the instance of `fec`
  is exactly one lap long. `NotTooLate`: a packet is overtaken by fewer payloads than
  the groups discard_old_shards keeps have (`Reach < D * (MaxShardSets * (D + P) + 1)`;
  400 for 10 + 3 shards); it bounds the network, is sufficient, and is not shown to be
  the least such bound. `TypeCorrect` and `BoundedMemory` need neither.
- `KcpStreamProofs`: `TypeCorrect`, `ValidNeverRefused`, `SizesAccepted`,
  `SaysWhatItTook`, and the whole refinement, `StreamIsByteFifo`
  (ByteFifo states no fairness). The sizes rest on `ValidFacts` (what
  `validate` and `apply_config` each work out for KCP is the same, and at least 50 bytes,
  so every later check passes) and on
  `RoundedUp` (a chunk of at most k segments has at most k fragments). The refinement
  needs to know where every byte is: the invariant `Chained` says that recv_buffer
  goes on where the last read ended, `rcv_queue` where recv_buffer ends, and `queue`
  where that ends, up to the first message that did not leave; and, until the output
  task is gone, on to the last byte accepted, which is as far as the call in
  progress is. There is one lemma for each way these change: a chunk joins `queue`
  (three ways), a delivery takes a message or a segment off its front, a read takes a
  message or bytes of recv_buffer.
- `HandshakeProofs`: `TypeCorrect`, `UnnamedFirst`, `Agreement`. The invariant follows
  the unnamed first segment. That it is the only unnamed one rests on poll_send's wait
  (while the conversation is waited for, at most one segment was sent) and on the
  server naming all it sends. Until the listener took a copy nothing exists but such
  copies (`NoneTaken`); while it took one, everything under way is of the one
  conversation or unnamed, and acknowledges only what the session has (`OneTaken`), so
  get_or_create can replace nothing. The second copy ends it, as `stuck_client` shows.
  What a stream can read is a CHOOSE of the first gap: that there is one is the
  least-number principle, taken from WellFoundedInduction.

Two properties were corrected by this work. OneConversation said that all that was
acknowledged can be read, which held only for two segments: of three the last may be
acknowledged while the one before is missing. It now says that the session has what was
acknowledged and the stream reads up to the first gap (and AckedIsReadable speaks of
what was acknowledged with all before it). TypeOK of Scheduler did not say that `idx`
has a place for every shard.

Only model-checked: the liveness properties (`FinishedEntryLeaves`, `ListenerGoesOn`,
`EvictedDroppedFinalized`, `SenderResumes`, `LearnsConversation`)
and Ticker's fairness in `ImplementsTicker`: fairness speaks of ENABLED, which is out of
the prover's reach. That the violated properties are violated is TLC's finding too.

## 5. Not modelled

- The examples and the interoperability tests: programs that call the public interface.
  What they do is the application's part of KcpSession and KcpStream.
- The kcp and Reed-Solomon crates beyond what the callers observe: windows,
  acknowledgement, order, fragment counts, `waiting_conv`.
- Malformed packets beyond the rejected datagram of KcpSocket and the truncated FEC
  packet of KcpListener; logging and Debug.
- Errors of the UDP output inside `update`: the output task ends with the runtime only.
  (KcpStream has them for `send` and `write`, where the caller sees them.)
- Two encoders that feed one decoder after a session was replaced (`listener.rs:84`).
- The full output backlog (`skcp.rs:66`) as a cause of its own: it is a datagram the
  network lost.
- The one-second pause after a failed `recv_from`; `poll_shutdown`, which does nothing.

## 6. Disagreements found

- `stale_notice`: the close notice of a replaced session evicts its successor
  (`session.rs:300`, `:347`).
- `late_write`: a write accepted while a session is given up is lost
  (`session.rs:230-238`), though `send` says it sends all data (`stream.rs:120`).
- `empty_message`: empty messages, said to be skipped (`config.rs:123`), stop the
  reader (`skcp.rs:347`, `:296`).
- `fec_wrap`: after 2^32 packets FEC recovers nothing until the numbers approach the
  wrap again (`fec.rs:181`). Then sets that were incomplete before the wrap are still
  there and are filled with packets of the new lap, so what is recovered from them was
  never encoded: RecoveredWasSealed does not outlast the wrap either.
- `stuck_client`: a client with conversation 0 whose first packet is taken twice gets
  two sessions, the first one's notice removes the second, and the client's next packet
  opens a third that acknowledges data nobody can read (`listener.rs:108`,
  `session.rs:367`, `:300`).

Three more are steps or operators of the models, without a run of their own:

- With FEC, a data packet of 6 or 7 bytes panics in the listener task (`listener.rs:95`,
  `ListenerPanics`), and every session is closed while the application has the listener.
  Packets that are too short are meant to be logged and passed over (`listener.rs:101`),
  and the client's io task tests the same None with `if let` (`session.rs:114`).
- A client whose recv fails while its first segment is unanswered gets no conversation,
  and its session does not end either (`session.rs:108`, `ClientRecvFails`): it is
  closed, but what it sent stays unacknowledged (`session.rs:244`), and a client has no
  expiry. Whoever waits to send is not told.
- `validate` has no upper limit for the MTU (`config.rs:162`). With FEC and more than
  65541 the encoder refuses every full segment (`fec.rs:52`, `EncoderRefuses`), and the
  output task drops it at each retransmission (`skcp.rs:48`, `Leaves`), though `send` has
  reported its bytes as taken. UDP over IPv4 carries no more than 65507 bytes.

## 7. Plan

Done: the modules above, and the proofs of every safety property the passing runs
check. Next, in order:

1. A weaker `NotTooLate`, or a counterexample at the bound: TLC finds none somewhat past
   it.
2. What Handshake keeps when the first segment was taken more than once.
3. `FecSessions`: two encoders (before and after a replacement) into one decoder.
4. `Expiry`: `last_update_ms` and the wall clock, refined by the `idle` of KcpSession.
