------------------------------ MODULE KcpStream ------------------------------
(***************************************************************************)
(* KcpStream (src/src/stream.rs): the writing half of one stream and the   *)
(* reading half of its peer, over the two KcpSockets.  A send is a loop of *)
(* poll_sends that cut the buffer into chunks; a read takes bytes from     *)
(* recv_buffer, or a message from KCP directly or through recv_buffer.     *)
(*                                                                         *)
(* A byte is its position in what the application writes, so a chunk, a    *)
(* message and what a read returns are each a position and a length.  KCP  *)
(* itself is external: it delivers its messages in order.  The windows and *)
(* the wakers are KcpSocket's: here a poll that is pending does nothing.   *)
(***************************************************************************)
EXTENDS KcpConfig, Sequences

CONSTANTS
  Configs,    \* the configurations a stream is made with, valid or not
  Sizes,      \* the lengths of what the application sends
  Buffers,    \* the lengths of the buffers it reads into
  MaxCalls,   \* bound on its sends and writes
  QueueCap,   \* bound on the messages KCP has to deliver
  RcvCap      \* bound on the messages ready to be read

ASSUME StreamAssumption ==
  /\ Configs \subseteq Config
  /\ Sizes \subseteq Nat /\ Buffers \subseteq Nat \ {0}
  /\ MaxCalls \in Nat /\ QueueCap \in Nat /\ RcvCap \in Nat

VARIABLES
  cfg,          \* the configuration of both sockets
  state,        \* what KcpSocket::new made of it
  call,         \* the send or write in progress
  calls,        \* how many there were
  outcome,      \* the last one that returned Ok: what it asked, said and did
  told,         \* the caller knows that the bytes before this were taken
  accepted,     \* kcp.send took the bytes before this
  sent_first, waiting_conv,
  output,       \* "up" until the UDP output task is gone
  wclosed,      \* the writer's socket is closed
  queue,        \* the messages that are not delivered yet
  rcv_queue,    \* those ready to be read
  recv_buffer,  \* its size; the position of its content, how much was read
                \* of it (recv_buffer_pos) and its end (recv_buffer_cap)
  rclosed,      \* the reader's socket is closed
  last,         \* what the last read returned
  ended,        \* has the reader seen the end?
  errors        \* the errors of size a call returned

setup == <<cfg, state>>
writer == <<call, calls, outcome, told, accepted, sent_first, waiting_conv>>
net == <<output, wclosed, rclosed, queue>>
reader == <<recv_buffer, last, ended>>
vars == <<setup, writer, net, rcv_queue, reader, errors>>

Idle == [op |-> "none", len |-> 0, from |-> 0, sent |-> 0]
AtMost(m, n) == IF m < n THEN m ELSE n
AtLeast(m, n) == IF m < n THEN n ELSE m

Init ==
  /\ cfg \in Configs
  /\ state = "new"
  /\ call = Idle /\ calls = 0
  /\ outcome = [op |-> "none", asked |-> 0, said |-> 0, took |-> 0]
  /\ told = 0 /\ accepted = 0
  /\ sent_first = FALSE
  /\ waiting_conv \in BOOLEAN
  /\ output = "up"
  /\ wclosed = FALSE /\ rclosed = FALSE
  /\ queue = <<>> /\ rcv_queue = <<>>
  /\ recv_buffer = [size |-> 0, at |-> 0, pos |-> 0, cap |-> 0]
  /\ last = [at |-> 0, len |-> 0]
  /\ ended = FALSE
  /\ errors = {}

\* connect_with_socket_conv; the listener makes the other end alike.
Connect ==
  /\ state = "new"
  /\ state' = NewSocket(cfg)
  /\ UNCHANGED <<cfg, writer, net, rcv_queue, reader, errors>>

-----------------------------------------------------------------------------
\* The application calls send or (AsyncWrite) write with n bytes.
Call(op, n) ==
  /\ state = "open"
  /\ call.op = "none" /\ calls < MaxCalls
  /\ call' = [op |-> op, len |-> n, from |-> told, sent |-> 0]
  /\ calls' = calls + 1
  /\ UNCHANGED <<setup, outcome, told, accepted, sent_first, waiting_conv, net,
                 rcv_queue, reader, errors>>

\* The length poll_send cuts the rest of the buffer to.
Chunk ==
  AtMost(call.len - call.sent,
         IF ~ sent_first /\ waiting_conv THEN FirstChunk(cfg) ELSE MaxChunk(cfg))

\* poll_send goes past its checks: the socket is open and not pending.
SendPolled ==
  /\ call.op # "none"
  /\ ~ wclosed
  /\ ~ (sent_first /\ waiting_conv)
  /\ Len(queue) < QueueCap

(***************************************************************************)
(* kcp.send: a message in message mode, in which an empty one counts too;  *)
(* in stream mode the bytes may join those that are queued last.  Without  *)
(* the output task it never leaves.                                        *)
(***************************************************************************)
Queued(m) ==
  \/ queue' = Append(queue, m)
  \/ cfg.stream /\ m.len = 0 /\ queue' = queue
  \/ /\ cfg.stream /\ queue # <<>>
     /\ queue[Len(queue)].out = m.out
     /\ queue[Len(queue)].at + queue[Len(queue)].len = m.at
     /\ queue' = [queue EXCEPT ![Len(queue)].len = @ + m.len]

KcpSend ==
  /\ Queued([at |-> call.from + call.sent, len |-> Chunk,
             out |-> (output = "up")])
  /\ sent_first' = TRUE
  /\ accepted' = AtLeast(accepted, call.from + call.sent + Chunk)

\* Mutant of Finished: send is done after its first chunk.
FinishedAtOnce(sent) == TRUE

\* Is the call done when so much of its buffer was taken?
Finished(sent) == call.op = "write" \/ sent = call.len

\* What the caller takes as written after a call that did not return Ok: a
\* write took nothing; after a send it cannot tell, and goes on from there.
GivenUp(upto) == IF call.op = "write" THEN told ELSE upto

\* The chunk was taken and flushed if need be: send goes on with the rest.
ChunkTaken ==
  /\ KcpSend
  /\ LET sent == call.sent + Chunk IN
       IF Finished(sent)
       THEN /\ call' = Idle
            /\ told' = call.from + sent
            /\ outcome' = [op |-> call.op, asked |-> call.len, said |-> sent,
                           took |-> accepted' - call.from]
       ELSE /\ call' = [call EXCEPT !.sent = sent]
            /\ UNCHANGED <<told, outcome>>
  /\ UNCHANGED errors

\* kcp.send rejects the chunk, and the call returns the error.
ChunkRejected ==
  /\ errors' = errors \cup {"fragments"}
  /\ told' = GivenUp(accepted)
  /\ call' = Idle
  /\ UNCHANGED <<outcome, accepted, sent_first, queue>>

SendChunk ==
  /\ SendPolled
  /\ IF TooManyFragments(Fragments(cfg, Chunk)) THEN ChunkRejected ELSE ChunkTaken
  /\ UNCHANGED <<setup, calls, waiting_conv, output, wclosed, rclosed, rcv_queue,
                 reader>>

\* The chunk was taken, but flush cannot write: the call returns the error.
SendChunkUnflushed ==
  /\ SendPolled
  /\ output = "down"
  /\ ~ TooManyFragments(Fragments(cfg, Chunk))
  /\ KcpSend
  /\ told' = GivenUp(accepted')
  /\ call' = Idle
  /\ UNCHANGED <<setup, calls, outcome, waiting_conv, output, wclosed, rclosed,
                 rcv_queue, reader, errors>>

\* The socket is closed, or the caller drops the future.
SendAborted ==
  /\ call.op # "none"
  /\ told' = GivenUp(accepted)
  /\ call' = Idle
  /\ UNCHANGED <<setup, calls, outcome, accepted, sent_first, waiting_conv, net,
                 rcv_queue, reader, errors>>

-----------------------------------------------------------------------------
\* The server names the conversation once it has the first packet.
NameConv ==
  /\ sent_first /\ waiting_conv
  /\ waiting_conv' = FALSE
  /\ UNCHANGED <<setup, call, calls, outcome, told, accepted, sent_first, net,
                 rcv_queue, reader, errors>>

OutputDown ==
  /\ output = "up"
  /\ output' = "down"
  /\ UNCHANGED <<setup, writer, wclosed, rclosed, queue, rcv_queue, reader, errors>>

\* finalize closes the socket of a session.
CloseWriter ==
  /\ state = "open" /\ ~ wclosed
  /\ wclosed' = TRUE
  /\ UNCHANGED <<setup, writer, output, rclosed, queue, rcv_queue, reader, errors>>

CloseReader ==
  /\ state = "open" /\ ~ rclosed
  /\ rclosed' = TRUE
  /\ UNCHANGED <<setup, writer, output, wclosed, queue, rcv_queue, reader, errors>>

\* The output task sends the largest segment of m unless the encoder refuses
\* it: then it is logged and dropped, however often KCP sends it again.
Leaves(m) == ~ EncoderRefuses(cfg, KCP_OVERHEAD + AtMost(m.len, Mss(cfg)))

\* KCP delivers: a whole message, or in stream mode a segment.
Deliver ==
  /\ queue # <<>> /\ Head(queue).out /\ Leaves(Head(queue))
  /\ Len(rcv_queue) < RcvCap
  /\ LET m == Head(queue)
         n == IF cfg.stream THEN AtMost(m.len, Mss(cfg)) ELSE m.len
     IN /\ rcv_queue' = Append(rcv_queue, [at |-> m.at, len |-> n])
        /\ queue' = IF n = m.len THEN Tail(queue)
                    ELSE [queue EXCEPT ![1] =
                            [m EXCEPT !.at = m.at + n, !.len = m.len - n]]
  /\ UNCHANGED <<setup, writer, output, wclosed, rclosed, reader, errors>>

-----------------------------------------------------------------------------
\* poll_recv with a buffer of b bytes.
Buffered == recv_buffer.pos < recv_buffer.cap

\* peek_size().unwrap_or(0)
Peek == IF rcv_queue = <<>> THEN 0 ELSE Head(rcv_queue).len
Direct(b) == Peek > 0 /\ Peek <= b

\* Mutant of Resized: the buffer keeps its size.
ResizedNever(size) == size

\* recv_buffer.resize: it grows to the next message.
Resized(size) == AtLeast(size, Peek)

\* Mutants of RecvBuffered: the position is not advanced; it is advanced by
\* the length of the caller's buffer.
RecvBufferedStill(b) ==
  /\ Buffered
  /\ last' = [at |-> recv_buffer.at + recv_buffer.pos,
              len |-> AtMost(recv_buffer.cap - recv_buffer.pos, b)]
  /\ UNCHANGED <<setup, writer, net, rcv_queue, recv_buffer, ended, errors>>

RecvBufferedPast(b) ==
  /\ Buffered
  /\ LET n == AtMost(recv_buffer.cap - recv_buffer.pos, b) IN
       /\ last' = [at |-> recv_buffer.at + recv_buffer.pos, len |-> n]
       /\ recv_buffer' = [recv_buffer EXCEPT !.pos = @ + b]
  /\ UNCHANGED <<setup, writer, net, rcv_queue, ended, errors>>

RecvBuffered(b) ==
  /\ Buffered
  /\ LET n == AtMost(recv_buffer.cap - recv_buffer.pos, b) IN
       /\ last' = [at |-> recv_buffer.at + recv_buffer.pos, len |-> n]
       /\ recv_buffer' = [recv_buffer EXCEPT !.pos = @ + n]
  /\ UNCHANGED <<setup, writer, net, rcv_queue, ended, errors>>

RecvDirect(b) ==
  /\ ~ Buffered /\ ~ rclosed
  /\ Direct(b)
  /\ last' = Head(rcv_queue)
  /\ rcv_queue' = Tail(rcv_queue)
  /\ UNCHANGED <<setup, writer, net, recv_buffer, ended, errors>>

\* The message goes to recv_buffer, of which the loop then copies what fits;
\* if it is too small, the second kcp.recv fails.
RecvFill(b) ==
  /\ ~ Buffered /\ ~ rclosed
  /\ Peek > b
  /\ LET size == Resized(recv_buffer.size) IN
       IF Peek <= size
       THEN /\ recv_buffer' = [size |-> size, at |-> Head(rcv_queue).at,
                               pos |-> b, cap |-> Peek]
            /\ last' = [at |-> Head(rcv_queue).at, len |-> b]
            /\ rcv_queue' = Tail(rcv_queue)
            /\ UNCHANGED errors
       ELSE /\ errors' = errors \cup {"buffer"}
            /\ UNCHANGED <<recv_buffer, last, rcv_queue>>
  /\ UNCHANGED <<setup, writer, net, ended>>

\* An empty message: poll_recv returns 0, or skips it and is pending.
RecvEmpty ==
  /\ ~ Buffered /\ ~ rclosed
  /\ rcv_queue # <<>> /\ Peek = 0
  /\ last' = IF cfg.allow_recv_empty_packet THEN Head(rcv_queue) ELSE last
  /\ rcv_queue' = Tail(rcv_queue)
  /\ UNCHANGED <<setup, writer, net, recv_buffer, ended, errors>>

\* The socket is closed: 0 is returned, whatever is ready to be read.
RecvEnd(b) ==
  /\ ~ Buffered /\ rclosed
  /\ ended' = TRUE
  /\ recv_buffer' = IF Direct(b) THEN recv_buffer
                    ELSE [recv_buffer EXCEPT !.size = Resized(@)]
  /\ UNCHANGED <<setup, writer, net, rcv_queue, last, errors>>

PollRecv(b) ==
  /\ state = "open"
  /\ \/ RecvBuffered(b) \/ RecvDirect(b) \/ RecvFill(b)
     \/ RecvEmpty \/ RecvEnd(b)

-----------------------------------------------------------------------------
Next ==
  \/ Connect
  \/ \E op \in {"send", "write"}, n \in Sizes : Call(op, n)
  \/ SendChunk \/ SendChunkUnflushed \/ SendAborted
  \/ NameConv \/ OutputDown \/ CloseWriter \/ CloseReader \/ Deliver
  \/ \E b \in Buffers : PollRecv(b)

Spec == Init /\ [][Next]_vars

-----------------------------------------------------------------------------
Extent == [at : Nat, len : Nat]
Message == [at : Nat, len : Nat, out : BOOLEAN]

TypeOK ==
  /\ cfg \in Configs
  /\ state \in {"new", "open", "refused", "panicked"}
  /\ call \in [op : {"none", "send", "write"}, len : Nat, from : Nat, sent : Nat]
  /\ call.sent <= call.len
  /\ calls \in 0 .. MaxCalls
  /\ outcome \in [op : {"none", "send", "write"}, asked : Nat, said : Nat,
                  took : Nat]
  /\ told \in Nat /\ accepted \in Nat /\ told <= accepted
  /\ sent_first \in BOOLEAN /\ waiting_conv \in BOOLEAN
  /\ output \in {"up", "down"}
  /\ wclosed \in BOOLEAN /\ rclosed \in BOOLEAN /\ ended \in BOOLEAN
  /\ queue \in Seq(Message) /\ Len(queue) <= QueueCap
  /\ rcv_queue \in Seq(Extent) /\ Len(rcv_queue) <= RcvCap
  /\ recv_buffer \in [size : Nat, at : Nat, pos : Nat, cap : Nat]
  /\ recv_buffer.pos <= recv_buffer.cap /\ recv_buffer.cap <= recv_buffer.size
  /\ last \in Extent
  /\ errors \subseteq {"fragments", "buffer"}

(***************************************************************************)
(* A configuration that validate accepts is never refused by a later check *)
(* and makes no expect() of apply_config panic.                            *)
(***************************************************************************)
ValidIsUsable == state \in {"refused", "panicked"} => ~ Valid(cfg)

\* No size the library chooses itself is rejected: a chunk never has too many
\* fragments, recv_buffer never is too small for the message.
NoSizeError == errors = {}

(***************************************************************************)
(* Ok(n) of send or write says how many bytes were queued, and send says   *)
(* it of all of them, whatever chunks the buffer was cut into.  (Once the  *)
(* output task is gone a write may also queue bytes and fail.)             *)
(***************************************************************************)
SaidIsTaken ==
  /\ output = "up" => outcome.said = outcome.took
  /\ outcome.op = "send" => outcome.said = outcome.asked

(***************************************************************************)
(* The two halves are a FIFO of bytes: no chunk, message or rest of        *)
(* recv_buffer is repeated, skipped or swapped, not even after a write     *)
(* that failed although its chunk was queued is tried again, and nothing   *)
(* is read after the end.                                                  *)
(***************************************************************************)
Fifo == INSTANCE ByteFifo WITH written <- accepted
ImplementsByteFifo == Fifo!Spec

=============================================================================
