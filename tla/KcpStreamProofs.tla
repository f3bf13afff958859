---------------------------- MODULE KcpStreamProofs ----------------------------
(***************************************************************************)
(* Proofs about KcpStream and KcpConfig, for all configurations, lengths   *)
(* and bounds: what validate accepts is usable, no size is rejected, and   *)
(* the stream implements ByteFifo.                                         *)
(***************************************************************************)
EXTENDS KcpStream, SequenceTheorems, TLAPS

-----------------------------------------------------------------------------
\* The first check of NewSocket decides: validate and apply_config leave KCP
\* the same MTU, of at least MIN_KCP_MTU bytes, and nothing after it fails.
LEMMA ValidFacts ==
  ASSUME NEW c \in Config
  PROVE  /\ KcpMtu(c) \in Int
         /\ Valid(c) => /\ KcpMtu(c) >= 50
                        /\ FecEnabled(c) => ShardsValid(c)
                        /\ ~ ApplyPanics(c)
                        /\ NewSocket(c) = "open"
         /\ ~ Valid(c) => NewSocket(c) = "refused"
<1>1. c.mtu \in Nat /\ c.data_shards \in Nat /\ c.parity_shards \in Nat
  BY DEF Config
<1>2. KcpMtu(c) \in Int
  BY <1>1 DEF KcpMtu, FEC_HEADER_SIZE_PLUS_SIZE
<1>3. KcpMtu(c) = ValidateMtu(c)
  BY DEF KcpMtu, ValidateMtu
<1>4. Valid(c) => KcpMtu(c) >= 50
  BY <1>3 DEF Valid, MIN_KCP_MTU
<1>5. Valid(c) /\ FecEnabled(c) => ShardsValid(c)
  BY <1>1 DEF Valid, FecValid, FecEnabled
<1>6. Valid(c) => ~ ApplyPanics(c)
  BY <1>2, <1>4 DEF ApplyPanics, SetMtuFails
<1>. QED  BY <1>2, <1>4, <1>5, <1>6 DEF NewSocket

\* A segment of an open stream carries data.
LEMMA MssPositive ==
  ASSUME NEW c \in Config, NewSocket(c) = "open"
  PROVE  Mss(c) \in Nat \ {0}
<1>1. Valid(c)
  BY ValidFacts
<1>. QED  BY <1>1, ValidFacts DEF Mss, KCP_OVERHEAD

\* The product of two naturals is one.
LEMMA Times ==
  ASSUME NEW m \in Nat \ {0}, NEW k \in Nat
  PROVE  m * k \in Nat
OBVIOUS

\* A message of at most k segments of m bytes has at most k fragments.
LEMMA RoundedUp ==
  ASSUME NEW m \in Nat \ {0}, NEW k \in Nat, NEW n \in Nat, n <= m * k
  PROVE  (n + m - 1) \div m <= k
<1> DEFINE q == (n + m - 1) \div m
<1>1. q \in Nat /\ m * q <= n + m - 1
  BY SMT
<1>. SUFFICES ASSUME q >= k + 1 PROVE FALSE
  BY <1>1
<1>. HIDE DEF q
<1>2. m * q >= m * (k + 1)
  BY <1>1, SMT
<1>3. m * (k + 1) = m * k + m
  BY SMT
<1>4. m * k \in Nat /\ m * q \in Nat
  BY <1>1, SMT
<1>. QED  BY <1>1, <1>2, <1>3, <1>4

\* No chunk has too many fragments.
LEMMA ChunkFits ==
  ASSUME NEW c \in Config, NewSocket(c) = "open",
         NEW n \in Nat, n <= FirstChunk(c) \/ n <= MaxChunk(c)
  PROVE  ~ TooManyFragments(Fragments(c, n))
<1>1. Mss(c) \in Nat \ {0}
  BY MssPositive
<1>2. /\ MAX_SEND_SEGMENTS \in Nat \ {0} /\ MAX_FRAGMENTS \in Nat
      /\ MAX_SEND_SEGMENTS < MAX_FRAGMENTS
  BY SegmentsAssumption
<1>3. CASE n <= Mss(c)
  BY <1>2, <1>3 DEF Fragments, TooManyFragments
<1>4. CASE ~ (n <= Mss(c))
  <2>1. n <= Mss(c) * MAX_SEND_SEGMENTS
    BY <1>4 DEF FirstChunk, MaxChunk
  <2>2. (n + Mss(c) - 1) \div Mss(c) <= MAX_SEND_SEGMENTS
    BY <1>1, <1>2, <2>1, RoundedUp
  <2>3. (n + Mss(c) - 1) \div Mss(c) \in Int
    BY <1>1, SMT
  <2>. QED
    BY <1>2, <1>4, <2>2, <2>3 DEF Fragments, TooManyFragments
<1>. QED  BY <1>3, <1>4

-----------------------------------------------------------------------------
\* The end of a sequence of extents that begins where start is.
End(seq, start) == IF seq = <<>> THEN start ELSE seq[Len(seq)].at + seq[Len(seq)].len

\* Where the part of the bytes ends that left KCP, and the part ready to be
\* read.
Got == IF Buffered THEN recv_buffer.at + recv_buffer.cap ELSE last.at + last.len
Ready == End(rcv_queue, Got)

\* What NewSocket decided, and that nothing happens unless it is "open".
Usable ==
  /\ state # "new" => state = NewSocket(cfg)
  /\ state # "open" => call = Idle /\ queue = <<>>

\* How far the call in progress is.
CallInv ==
  /\ call.op = "none" => call = Idle
  /\ call.op = "write" => call.sent = 0
  /\ call.op # "none" => call.from = told /\ told + call.sent <= accepted
  /\ output = "up" => accepted = told + call.sent

\* Extents that follow one another from start on; messages, up to the first
\* that did not leave.
Consecutive(seq, start) ==
  \A i \in DOMAIN seq :
    seq[i].at = IF i = 1 THEN start ELSE seq[i - 1].at + seq[i - 1].len

LeftInOrder(seq, start) ==
  \A i \in DOMAIN seq :
    seq[i].out =>
      /\ i = 1 => seq[i].at = start
      /\ i > 1 => /\ seq[i - 1].out
                  /\ seq[i].at = seq[i - 1].at + seq[i - 1].len

\* From last through recv_buffer and rcv_queue to queue no byte is missing,
\* repeated or out of place.
Chained ==
  /\ Buffered => recv_buffer.at + recv_buffer.pos = last.at + last.len
  /\ Consecutive(rcv_queue, Got)
  /\ LeftInOrder(queue, Ready)
  /\ output = "up" =>
       /\ \A i \in DOMAIN queue : queue[i].out
       /\ End(queue, Ready) = accepted

\* Nothing is there that was not accepted.
Bounded ==
  /\ Got <= accepted
  /\ \A i \in DOMAIN rcv_queue : rcv_queue[i].at + rcv_queue[i].len <= accepted
  /\ \A i \in DOMAIN queue : queue[i].at + queue[i].len <= accepted

\* Nothing is left to be read after the end.
EndIsEnd == ended => rclosed /\ ~ Buffered

\* The inductive invariant.
IInv ==
  /\ TypeOK /\ Usable /\ NoSizeError
  /\ CallInv /\ SaidIsTaken
  /\ Chained /\ Bounded /\ EndIsEnd

-----------------------------------------------------------------------------
\* A call in progress is one on an open stream, and its next chunk is a part of
\* what is left that kcp does not reject.
LEMMA ChunkFacts ==
  ASSUME TypeOK, Usable, call.op # "none"
  PROVE  /\ state = "open" /\ cfg \in Config
         /\ Mss(cfg) \in Nat \ {0}
         /\ Chunk \in Nat /\ call.sent + Chunk <= call.len
         /\ ~ TooManyFragments(Fragments(cfg, Chunk))
<1>1. state = "open" /\ cfg \in Config /\ NewSocket(cfg) = "open"
  BY StreamAssumption DEF TypeOK, Usable, Idle
<1>2. Mss(cfg) \in Nat \ {0}
  BY <1>1, MssPositive
<1>3. call.len \in Nat /\ call.sent \in Nat /\ call.sent <= call.len
  BY DEF TypeOK
<1>4. FirstChunk(cfg) \in Nat /\ MaxChunk(cfg) \in Nat
  BY <1>2, SegmentsAssumption, Times DEF FirstChunk, MaxChunk
<1>5. /\ Chunk \in Nat /\ Chunk <= call.len - call.sent
      /\ Chunk <= FirstChunk(cfg) \/ Chunk <= MaxChunk(cfg)
  BY <1>3, <1>4 DEF Chunk, AtMost
<1>6. ~ TooManyFragments(Fragments(cfg, Chunk))
  BY <1>1, <1>5, ChunkFits
<1>. QED  BY <1>1, <1>2, <1>3, <1>5, <1>6

\* kcp.send never rejects a chunk.
LEMMA NeverRejected ==
  ASSUME TypeOK, Usable, SendChunk
  PROVE  ChunkTaken
BY ChunkFacts DEF SendChunk, SendPolled

\* What kcp.send does to the types.
LEMMA SendTypes ==
  ASSUME TypeOK, Usable, SendPolled, KcpSend
  PROVE  /\ queue' \in Seq(Message) /\ Len(queue') <= QueueCap
         /\ sent_first' \in BOOLEAN
         /\ accepted' \in Nat /\ accepted' >= accepted
         /\ accepted' >= call.from + call.sent + Chunk
         /\ accepted' = accepted \/ accepted' = call.from + call.sent + Chunk
<1>1. call.op # "none" /\ Len(queue) < QueueCap
  BY DEF SendPolled
<1>2. Chunk \in Nat
  BY <1>1, ChunkFacts
<1>3. /\ call.from \in Nat /\ call.sent \in Nat /\ accepted \in Nat
      /\ queue \in Seq(Message) /\ QueueCap \in Nat
  BY StreamAssumption DEF TypeOK
<1>4. /\ accepted' \in Nat /\ accepted' >= accepted
      /\ accepted' >= call.from + call.sent + Chunk
      /\ accepted' = accepted \/ accepted' = call.from + call.sent + Chunk
  BY <1>2, <1>3 DEF KcpSend, AtLeast
<1>5. sent_first' \in BOOLEAN
  BY DEF KcpSend
<1> DEFINE m == [at |-> call.from + call.sent, len |-> Chunk,
                 out |-> (output = "up")]
<1>6. m \in Message
  BY <1>2, <1>3 DEF Message
<1>7. Queued(m)
  BY DEF KcpSend
<1>8. CASE queue' = Append(queue, m)
  BY <1>1, <1>3, <1>4, <1>5, <1>6, <1>8
<1>9. CASE queue' = queue
  BY <1>1, <1>3, <1>4, <1>5, <1>9
<1>10. CASE /\ queue # <<>>
            /\ queue' = [queue EXCEPT ![Len(queue)].len = @ + m.len]
  <2>1. Len(queue) \in 1 .. Len(queue) /\ queue[Len(queue)] \in Message
    BY <1>3, <1>10
  <2>2. [queue[Len(queue)] EXCEPT !.len = @ + m.len] \in Message
    BY <2>1, <1>2 DEF Message
  <2>3. queue' \in Seq(Message) /\ Len(queue') = Len(queue)
    BY <1>3, <1>10, <2>1, <2>2
  <2>. QED  BY <1>1, <1>3, <1>4, <1>5, <2>3
<1>. QED  BY <1>7, <1>8, <1>9, <1>10 DEF Queued

-----------------------------------------------------------------------------
\* At first nothing was made, written or read.
LEMMA InitInv == Init => IInv
<1>. SUFFICES ASSUME Init PROVE IInv
  OBVIOUS
<1>. USE StreamAssumption DEF Init
<1>1. queue \in Seq(Message) /\ rcv_queue \in Seq(Extent)
  OBVIOUS
<1>2. TypeOK
  <2>1. /\ call \in [op : {"none", "send", "write"}, len : Nat, from : Nat,
                    sent : Nat]
        /\ call.sent <= call.len
        /\ outcome \in [op : {"none", "send", "write"}, asked : Nat, said : Nat,
                       took : Nat]
    BY DEF Idle
  <2>2. /\ recv_buffer \in [size : Nat, at : Nat, pos : Nat, cap : Nat]
        /\ recv_buffer.pos <= recv_buffer.cap /\ recv_buffer.cap <= recv_buffer.size
        /\ last \in Extent
    BY DEF Extent
  <2>3. /\ calls \in 0 .. MaxCalls
        /\ told \in Nat /\ accepted \in Nat /\ told <= accepted
        /\ Len(queue) <= QueueCap /\ Len(rcv_queue) <= RcvCap
        /\ errors \subseteq {"fragments", "buffer"}
    OBVIOUS
  <2>4. /\ sent_first \in BOOLEAN /\ waiting_conv \in BOOLEAN
        /\ wclosed \in BOOLEAN /\ rclosed \in BOOLEAN /\ ended \in BOOLEAN
    OBVIOUS
  <2>. QED  BY <1>1, <2>1, <2>2, <2>3, <2>4 DEF TypeOK
<1>3. Usable /\ NoSizeError /\ SaidIsTaken
  BY DEF Usable, NoSizeError, SaidIsTaken
<1>4. CallInv
  BY DEF CallInv, Idle
<1>5. ~ Buffered /\ Got = 0 /\ Ready = 0
  BY DEF Buffered, Got, Ready, End
<1>6. Chained /\ Bounded /\ EndIsEnd
  BY <1>5 DEF Chained, Bounded, EndIsEnd, End, Consecutive, LeftInOrder
<1>. QED  BY <1>2, <1>3, <1>4, <1>6 DEF IInv

\* A stream is used only when NewSocket made it.
LEMMA NextUsable == IInv /\ [Next]_vars => Usable'
<1>. SUFFICES ASSUME IInv, [Next]_vars PROVE Usable'
  OBVIOUS
<1>. USE DEF IInv
<1>1. CASE Connect
  BY <1>1 DEF Connect, Usable, writer, net
<1>2. ASSUME NEW op \in {"send", "write"}, NEW n \in Sizes, Call(op, n)
      PROVE  Usable'
  BY <1>2 DEF Call, Usable, setup, net
<1>3. CASE SendChunk \/ SendChunkUnflushed \/ SendAborted
  <2>1. state = "open" /\ UNCHANGED <<cfg, state>>
    BY <1>3, ChunkFacts
    DEF SendChunk, SendPolled, SendChunkUnflushed, SendAborted, setup
  <2>. QED  BY <2>1 DEF Usable
<1>4. CASE NameConv \/ OutputDown \/ CloseWriter \/ CloseReader
  BY <1>4
  DEF NameConv, OutputDown, CloseWriter, CloseReader, Usable, setup, writer, net
<1>5. CASE Deliver
  BY <1>5 DEF Deliver, Usable, setup, writer
<1>6. ASSUME NEW b \in Buffers, PollRecv(b)
      PROVE  Usable'
  BY <1>6 DEF PollRecv, RecvBuffered, RecvDirect, RecvFill, RecvEmpty, RecvEnd,
             Usable, setup, writer, net
<1>7. CASE UNCHANGED vars
  BY <1>7 DEF vars, setup, writer, net, Usable
<1>. QED  BY <1>1, <1>2, <1>3, <1>4, <1>5, <1>6, <1>7 DEF Next

\* The next message always fits recv_buffer.
LEMMA PeekFacts ==
  ASSUME TypeOK
  PROVE  /\ Peek \in Nat
         /\ rcv_queue # <<>> => Head(rcv_queue) \in Extent /\ Peek = Head(rcv_queue).len
         /\ Resized(recv_buffer.size) \in Nat
         /\ Peek <= Resized(recv_buffer.size)
         /\ recv_buffer.size <= Resized(recv_buffer.size)
<1>1. rcv_queue \in Seq(Extent) /\ recv_buffer.size \in Nat
  BY DEF TypeOK
<1>2. rcv_queue # <<>> => Head(rcv_queue) \in Extent
  BY <1>1
<1>3. Peek \in Nat /\ (rcv_queue # <<>> => Peek = Head(rcv_queue).len)
  BY <1>2 DEF Peek, Extent
<1>. QED  BY <1>1, <1>2, <1>3 DEF Resized, AtLeast

\* No size is rejected.
LEMMA NextSize == IInv /\ [Next]_vars => NoSizeError'
<1>. SUFFICES ASSUME IInv, [Next]_vars PROVE errors' = errors
  BY DEF IInv, NoSizeError
<1>. USE DEF IInv
<1>1. CASE SendChunk
  BY <1>1, NeverRejected DEF ChunkTaken
<1>2. CASE \/ Connect \/ SendChunkUnflushed \/ SendAborted \/ NameConv \/ OutputDown
           \/ CloseWriter \/ CloseReader \/ Deliver
           \/ \E op \in {"send", "write"}, n \in Sizes : Call(op, n)
  BY <1>2 DEF Connect, Call, SendChunkUnflushed, SendAborted, NameConv, OutputDown,
             CloseWriter, CloseReader, Deliver
<1>3. ASSUME NEW b \in Buffers, PollRecv(b)
      PROVE  errors' = errors
  BY <1>3, PeekFacts
  DEF PollRecv, RecvBuffered, RecvDirect, RecvFill, RecvEmpty, RecvEnd
<1>4. CASE UNCHANGED vars
  BY <1>4 DEF vars
<1>. QED  BY <1>1, <1>2, <1>3, <1>4 DEF Next

\* A read from recv_buffer takes n bytes of it.
LEMMA BufferedRead ==
  ASSUME TypeOK, NEW b \in Buffers, RecvBuffered(b)
  PROVE  \E n \in Nat :
           /\ recv_buffer.pos + n <= recv_buffer.cap
           /\ last' = [at |-> recv_buffer.at + recv_buffer.pos, len |-> n]
           /\ recv_buffer' = [recv_buffer EXCEPT !.pos = recv_buffer.pos + n]
<1> DEFINE n == AtMost(recv_buffer.cap - recv_buffer.pos, b)
<1>1. b \in Nat
  BY StreamAssumption
<1>2. recv_buffer.pos \in Nat /\ recv_buffer.cap \in Nat
      /\ recv_buffer.pos <= recv_buffer.cap
  BY DEF TypeOK
<1>3. n \in Nat /\ recv_buffer.pos + n <= recv_buffer.cap
  BY <1>1, <1>2 DEF AtMost
<1>4. /\ last' = [at |-> recv_buffer.at + recv_buffer.pos, len |-> n]
      /\ recv_buffer' = [recv_buffer EXCEPT !.pos = recv_buffer.pos + n]
  BY DEF RecvBuffered
<1>. HIDE DEF n
<1>. QED  BY <1>3, <1>4

\* What a read does to the types.
LEMMA RecvTypes ==
  ASSUME TypeOK, NEW b \in Buffers, PollRecv(b)
  PROVE  /\ rcv_queue' \in Seq(Extent) /\ Len(rcv_queue') <= RcvCap
         /\ recv_buffer' \in [size : Nat, at : Nat, pos : Nat, cap : Nat]
         /\ recv_buffer'.pos <= recv_buffer'.cap
         /\ recv_buffer'.cap <= recv_buffer'.size
         /\ last' \in Extent
         /\ ended' \in BOOLEAN
<1>1. b \in Nat \ {0} /\ RcvCap \in Nat
  BY StreamAssumption
<1>2. /\ rcv_queue \in Seq(Extent) /\ Len(rcv_queue) <= RcvCap
      /\ recv_buffer \in [size : Nat, at : Nat, pos : Nat, cap : Nat]
      /\ recv_buffer.pos <= recv_buffer.cap /\ recv_buffer.cap <= recv_buffer.size
      /\ last \in Extent /\ ended \in BOOLEAN
  BY DEF TypeOK
<1>3. rcv_queue # <<>> =>
        /\ Tail(rcv_queue) \in Seq(Extent) /\ Len(Tail(rcv_queue)) <= RcvCap
        /\ Head(rcv_queue) \in Extent /\ Peek = Head(rcv_queue).len
  BY <1>1, <1>2, PeekFacts
<1>4. Peek > 0 => rcv_queue # <<>>
  BY DEF Peek
<1>5. CASE RecvBuffered(b)
  <2>1. PICK n \in Nat :
           /\ recv_buffer.pos + n <= recv_buffer.cap
           /\ last' = [at |-> recv_buffer.at + recv_buffer.pos, len |-> n]
           /\ recv_buffer' = [recv_buffer EXCEPT !.pos = recv_buffer.pos + n]
    BY <1>5, BufferedRead
  <2>2. rcv_queue' = rcv_queue /\ ended' = ended
    BY <1>5 DEF RecvBuffered
  <2>3. last' \in Extent
    BY <1>2, <2>1 DEF Extent
  <2>4. recv_buffer.pos + n \in Nat
    BY <1>2
  <2>5. /\ recv_buffer' \in [size : Nat, at : Nat, pos : Nat, cap : Nat]
        /\ recv_buffer'.pos = recv_buffer.pos + n
        /\ recv_buffer'.cap = recv_buffer.cap /\ recv_buffer'.size = recv_buffer.size
    BY <1>2, <2>1, <2>4
  <2>. QED  BY <1>2, <2>1, <2>2, <2>3, <2>5
<1>6. CASE RecvDirect(b)
  BY <1>2, <1>3, <1>4, <1>6 DEF RecvDirect, Direct
<1>7. CASE RecvFill(b)
  <2>1. rcv_queue # <<>> /\ Peek > b
    BY <1>1, <1>4, <1>7, PeekFacts DEF RecvFill
  <2>2. /\ recv_buffer' = [size |-> Resized(recv_buffer.size),
                           at |-> Head(rcv_queue).at, pos |-> b, cap |-> Peek]
        /\ last' = [at |-> Head(rcv_queue).at, len |-> b]
        /\ rcv_queue' = Tail(rcv_queue)
        /\ ended' = ended
    BY <1>7, PeekFacts DEF RecvFill
  <2>3. Head(rcv_queue).at \in Nat /\ Peek \in Nat /\ Resized(recv_buffer.size) \in Nat
    BY <1>3, <2>1, PeekFacts DEF Extent
  <2>4. last' \in Extent
    BY <1>1, <2>2, <2>3 DEF Extent
  <2>5. /\ recv_buffer' \in [size : Nat, at : Nat, pos : Nat, cap : Nat]
        /\ recv_buffer'.size = Resized(recv_buffer.size)
        /\ recv_buffer'.pos = b /\ recv_buffer'.cap = Peek
    BY <1>1, <2>2, <2>3
  <2>6. recv_buffer'.pos <= recv_buffer'.cap /\ recv_buffer'.cap <= recv_buffer'.size
    BY <1>1, <2>1, <2>3, <2>5, PeekFacts
  <2>7. rcv_queue' \in Seq(Extent) /\ Len(rcv_queue') <= RcvCap /\ ended' \in BOOLEAN
    BY <1>2, <1>3, <2>1, <2>2
  <2>. QED  BY <2>4, <2>5, <2>6, <2>7
<1>8. CASE RecvEmpty
  BY <1>2, <1>3, <1>8 DEF RecvEmpty
<1>9. CASE RecvEnd(b)
  <2>1. \/ recv_buffer' = recv_buffer
        \/ recv_buffer' = [recv_buffer EXCEPT !.size = Resized(@)]
    BY <1>9 DEF RecvEnd
  <2>2. last' = last /\ rcv_queue' = rcv_queue /\ ended' \in BOOLEAN
    BY <1>9 DEF RecvEnd
  <2>. QED  BY <1>2, <2>1, <2>2, PeekFacts
<1>. QED  BY <1>5, <1>6, <1>7, <1>8, <1>9 DEF PollRecv

\* What a chunk does to the call and to what its caller knows.
LEMMA CallTypes ==
  ASSUME TypeOK, Usable, CallInv, SendChunk \/ SendChunkUnflushed \/ SendAborted
  PROVE  /\ call' \in [op : {"none", "send", "write"}, len : Nat, from : Nat,
                       sent : Nat]
         /\ call'.sent <= call'.len
         /\ outcome' \in [op : {"none", "send", "write"}, asked : Nat, said : Nat,
                          took : Nat]
         /\ queue' \in Seq(Message) /\ Len(queue') <= QueueCap
         /\ sent_first' \in BOOLEAN
         /\ told' \in Nat /\ accepted' \in Nat /\ told' <= accepted'
         /\ errors' = errors
<1>1. call.op # "none"
  BY DEF SendChunk, SendChunkUnflushed, SendAborted, SendPolled
<1>2. /\ call \in [op : {"none", "send", "write"}, len : Nat, from : Nat, sent : Nat]
      /\ call.sent <= call.len
      /\ outcome \in [op : {"none", "send", "write"}, asked : Nat, said : Nat,
                      took : Nat]
      /\ queue \in Seq(Message) /\ Len(queue) <= QueueCap
      /\ sent_first \in BOOLEAN
      /\ told \in Nat /\ accepted \in Nat /\ told <= accepted
  BY DEF TypeOK
<1>3. Idle \in [op : {"none", "send", "write"}, len : Nat, from : Nat, sent : Nat]
      /\ Idle.sent <= Idle.len
  BY DEF Idle
<1>4. /\ call.op \in {"none", "send", "write"} /\ call.len \in Nat
      /\ call.from \in Nat /\ call.sent \in Nat
  BY <1>2
<1>5. call.from = told /\ Chunk \in Nat /\ call.sent + Chunk <= call.len
  BY <1>1, ChunkFacts DEF CallInv
<1>6. CASE SendChunk
  <2>1. SendPolled /\ ChunkTaken
    BY <1>6, NeverRejected DEF SendChunk
  <2>2. KcpSend
    BY <2>1 DEF ChunkTaken
  <2>3. /\ queue' \in Seq(Message) /\ Len(queue') <= QueueCap
        /\ sent_first' \in BOOLEAN
        /\ accepted' \in Nat /\ accepted' >= accepted
        /\ accepted' >= call.from + call.sent + Chunk
    BY <2>1, <2>2, SendTypes
  <2>4. CASE Finished(call.sent + Chunk)
    <3>1. /\ call' = Idle /\ told' = call.from + (call.sent + Chunk)
          /\ outcome' = [op |-> call.op, asked |-> call.len,
                         said |-> call.sent + Chunk, took |-> accepted' - call.from]
      BY <2>1, <2>4 DEF ChunkTaken
    <3>2. accepted' - call.from \in Nat /\ call.sent + Chunk \in Nat
      BY <1>4, <1>5, <2>3
    <3>3. told' \in Nat /\ told' <= accepted'
      BY <1>4, <1>5, <2>3, <3>1
    <3>4. outcome' \in [op : {"none", "send", "write"}, asked : Nat, said : Nat,
                        took : Nat]
      BY <1>4, <3>1, <3>2
    <3>5. errors' = errors
      BY <2>1 DEF ChunkTaken
    <3>6. /\ call' \in [op : {"none", "send", "write"}, len : Nat, from : Nat,
                        sent : Nat]
          /\ call'.sent <= call'.len
      BY <1>3, <3>1
    <3>. QED  BY <2>3, <3>3, <3>4, <3>5, <3>6
  <2>5. CASE ~ Finished(call.sent + Chunk)
    <3>1. /\ call' = [call EXCEPT !.sent = call.sent + Chunk]
          /\ told' = told /\ outcome' = outcome
      BY <2>1, <2>5 DEF ChunkTaken
    <3>2. /\ call' \in [op : {"none", "send", "write"}, len : Nat, from : Nat,
                        sent : Nat]
          /\ call'.sent <= call'.len
      <4> DEFINE n == call.sent + Chunk
      <4>1. n \in Nat /\ n <= call.len
        BY <1>4, <1>5
      <4>2. call' = [call EXCEPT !.sent = n]
        BY <3>1
      <4>. HIDE DEF n
      <4>3. call' \in [op : {"none", "send", "write"}, len : Nat, from : Nat,
                       sent : Nat]
        BY <1>2, <4>1, <4>2
      <4>4. call'.sent = n /\ call'.len = call.len
        BY <1>2, <4>2
      <4>. QED  BY <4>1, <4>3, <4>4
    <3>3. told' \in Nat /\ told' <= accepted'
      BY <1>2, <2>3, <3>1
    <3>4. errors' = errors
      BY <2>1 DEF ChunkTaken
    <3>5. outcome' \in [op : {"none", "send", "write"}, asked : Nat, said : Nat,
                        took : Nat]
      BY <1>2, <3>1
    <3>. QED  BY <2>3, <3>2, <3>3, <3>4, <3>5
  <2>. QED  BY <2>4, <2>5
<1>7. CASE SendChunkUnflushed
  <2>1. SendPolled /\ KcpSend
    BY <1>7 DEF SendChunkUnflushed
  <2>2. /\ queue' \in Seq(Message) /\ Len(queue') <= QueueCap
        /\ sent_first' \in BOOLEAN
        /\ accepted' \in Nat /\ accepted' >= accepted
    BY <2>1, SendTypes
  <2>3. /\ call' = Idle /\ told' = GivenUp(accepted')
        /\ outcome' = outcome /\ errors' = errors
    BY <1>7 DEF SendChunkUnflushed
  <2>4. told' \in Nat /\ told' <= accepted'
    BY <1>2, <2>2, <2>3 DEF GivenUp
  <2>. QED  BY <1>2, <1>3, <2>2, <2>3, <2>4
<1>8. CASE SendAborted
  <2>1. told' \in Nat /\ told' <= accepted'
    BY <1>2, <1>8 DEF SendAborted, GivenUp
  <2>. QED  BY <1>2, <1>3, <1>8, <2>1 DEF SendAborted, net
<1>. QED  BY <1>6, <1>7, <1>8

\* What is left of a message without its first n bytes.
Rest(m, n) == [m EXCEPT !.at = m.at + n, !.len = m.len - n]

\* It is a message that ends where the whole one does.
LEMMA RestFacts ==
  ASSUME NEW m \in Message, NEW n \in Nat, n <= m.len
  PROVE  /\ Rest(m, n) \in Message
         /\ Rest(m, n).out = m.out
         /\ Rest(m, n).at = m.at + n
         /\ Rest(m, n).at + Rest(m, n).len = m.at + m.len
<1>1. m.at \in Nat /\ m.len \in Nat /\ m.out \in BOOLEAN
  BY DEF Message
<1>2. m.at + n \in Nat /\ m.len - n \in Nat
  BY <1>1
<1>3. /\ Rest(m, n).at = m.at + n /\ Rest(m, n).len = m.len - n
      /\ Rest(m, n).out = m.out
  BY DEF Rest, Message
<1>4. Rest(m, n) \in Message
  BY <1>1, <1>2 DEF Message, Rest
<1>. QED  BY <1>1, <1>3, <1>4

\* A delivery takes n bytes off the front of queue.
LEMMA Delivery ==
  ASSUME TypeOK, Usable, Deliver
  PROVE  /\ Head(queue) \in Message /\ Head(queue).out
         /\ \E n \in Nat :
              /\ n <= Head(queue).len
              /\ rcv_queue' = Append(rcv_queue, [at |-> Head(queue).at, len |-> n])
              /\ queue' = IF n = Head(queue).len THEN Tail(queue)
                          ELSE [queue EXCEPT ![1] = Rest(Head(queue), n)]
<1>1. queue # <<>> /\ Head(queue).out
  BY DEF Deliver
<1>2. Head(queue) \in Message
  BY <1>1 DEF TypeOK
<1>3. state = "open" /\ cfg \in Config
  BY <1>1, StreamAssumption DEF Usable, TypeOK
<1>4. Mss(cfg) \in Nat
  BY <1>3, MssPositive DEF Usable
<1> DEFINE n == IF cfg.stream THEN AtMost(Head(queue).len, Mss(cfg))
                ELSE Head(queue).len
<1>5. n \in Nat /\ n <= Head(queue).len
  BY <1>2, <1>4 DEF AtMost, Message
<1>6. /\ rcv_queue' = Append(rcv_queue, [at |-> Head(queue).at, len |-> n])
      /\ queue' = IF n = Head(queue).len THEN Tail(queue)
                  ELSE [queue EXCEPT ![1] = Rest(Head(queue), n)]
  BY DEF Deliver, Rest
<1>. HIDE DEF n
<1>. QED  BY <1>1, <1>2, <1>5, <1>6

\* What a delivery does to the types.
LEMMA DeliverTypes ==
  ASSUME TypeOK, Usable, Deliver
  PROVE  /\ rcv_queue' \in Seq(Extent) /\ Len(rcv_queue') <= RcvCap
         /\ queue' \in Seq(Message) /\ Len(queue') <= QueueCap
<1>1. /\ queue \in Seq(Message) /\ Len(queue) <= QueueCap /\ queue # <<>>
      /\ rcv_queue \in Seq(Extent) /\ Len(rcv_queue) < RcvCap
      /\ RcvCap \in Nat /\ QueueCap \in Nat
  BY StreamAssumption DEF Deliver, TypeOK
<1>2. Head(queue) \in Message /\ queue[1] = Head(queue)
  BY <1>1
<1>3. PICK n \in Nat :
        /\ n <= Head(queue).len
        /\ rcv_queue' = Append(rcv_queue, [at |-> Head(queue).at, len |-> n])
        /\ queue' = IF n = Head(queue).len THEN Tail(queue)
                    ELSE [queue EXCEPT ![1] = Rest(Head(queue), n)]
  BY Delivery
<1>4. [at |-> Head(queue).at, len |-> n] \in Extent
  BY <1>2 DEF Extent, Message
<1>5. rcv_queue' \in Seq(Extent) /\ Len(rcv_queue') <= RcvCap
  BY <1>1, <1>3, <1>4
<1>6. CASE n = Head(queue).len
  BY <1>1, <1>3, <1>5, <1>6
<1>7. CASE n # Head(queue).len
  <2>1. Rest(Head(queue), n) \in Message
    BY <1>2, <1>3, RestFacts
  <2>2. queue' = [queue EXCEPT ![1] = Rest(Head(queue), n)]
    BY <1>3, <1>7
  <2>. QED  BY <1>1, <1>2, <1>5, <2>1, <2>2
<1>. QED  BY <1>6, <1>7

\* Every step keeps the types.
LEMMA NextType == IInv /\ [Next]_vars => TypeOK'
<1>. SUFFICES ASSUME IInv, [Next]_vars PROVE TypeOK'
  OBVIOUS
<1>. USE DEF IInv
<1>1. CASE Connect
  <2>1. state' \in {"new", "open", "refused", "panicked"}
    BY <1>1 DEF Connect, NewSocket
  <2>. QED  BY <1>1, <2>1 DEF Connect, TypeOK, writer, net, reader
<1>2. ASSUME NEW op \in {"send", "write"}, NEW n \in Sizes, Call(op, n)
      PROVE  TypeOK'
  <2>1. n \in Nat /\ MaxCalls \in Nat /\ told \in Nat /\ calls \in 0 .. MaxCalls
    BY StreamAssumption DEF TypeOK
  <2>2. /\ call' \in [op : {"none", "send", "write"}, len : Nat, from : Nat,
                      sent : Nat]
        /\ call'.sent <= call'.len
        /\ calls' \in 0 .. MaxCalls
    BY <1>2, <2>1 DEF Call
  <2>. QED  BY <1>2, <2>2 DEF Call, TypeOK, setup, net, reader
<1>3. CASE SendChunk \/ SendChunkUnflushed \/ SendAborted
  <2>1. /\ UNCHANGED <<cfg, state, calls, waiting_conv, output, wclosed, rclosed>>
        /\ UNCHANGED <<rcv_queue, recv_buffer, last, ended>>
    BY <1>3 DEF SendChunk, SendChunkUnflushed, SendAborted, setup, net, reader
  <2>. QED  BY <1>3, <2>1, CallTypes DEF TypeOK
<1>4. CASE NameConv
  BY <1>4 DEF NameConv, TypeOK, setup, net, reader
<1>5. CASE OutputDown
  BY <1>5 DEF OutputDown, TypeOK, setup, writer, reader
<1>6. CASE CloseWriter
  BY <1>6 DEF CloseWriter, TypeOK, setup, writer, reader
<1>7. CASE CloseReader
  BY <1>7 DEF CloseReader, TypeOK, setup, writer, reader
<1>8. CASE Deliver
  <2>1. UNCHANGED <<setup, writer, output, wclosed, rclosed, reader, errors>>
    BY <1>8 DEF Deliver
  <2>. QED  BY <1>8, <2>1, DeliverTypes DEF TypeOK, setup, writer, reader
<1>9. ASSUME NEW b \in Buffers, PollRecv(b)
      PROVE  TypeOK'
  <2>1. UNCHANGED <<setup, writer, net>>
    BY <1>9
    DEF PollRecv, RecvBuffered, RecvDirect, RecvFill, RecvEmpty, RecvEnd
  <2>2. errors' \subseteq {"fragments", "buffer"}
    BY <1>9, NextSize DEF NoSizeError, Next
  <2>. QED  BY <1>9, <2>1, <2>2, RecvTypes DEF TypeOK, setup, writer, net
<1>10. CASE UNCHANGED vars
  BY <1>10 DEF vars, setup, writer, net, reader, TypeOK
<1>. QED
  BY <1>1, <1>2, <1>3, <1>4, <1>5, <1>6, <1>7, <1>8, <1>9, <1>10 DEF Next

\* Every step keeps the call, what its caller knows and what was accepted
\* together, and reports the truth.
LEMMA NextCall == IInv /\ [Next]_vars => CallInv' /\ SaidIsTaken'
<1>. SUFFICES ASSUME IInv, [Next]_vars PROVE CallInv' /\ SaidIsTaken'
  OBVIOUS
<1>. USE DEF IInv
<1>0. /\ Idle.op = "none" /\ Idle.sent = 0
      /\ call.op \in {"none", "send", "write"} /\ call.sent \in Nat
      /\ told \in Nat /\ accepted \in Nat
  BY DEF Idle, TypeOK
<1>1. ASSUME UNCHANGED <<call, told, accepted, outcome>>,
             output' = output \/ output' = "down"
      PROVE  CallInv' /\ SaidIsTaken'
  BY <1>1 DEF CallInv, SaidIsTaken
<1>2. CASE Connect \/ NameConv \/ OutputDown \/ CloseWriter \/ CloseReader \/ Deliver
           \/ UNCHANGED vars
  <2>1. UNCHANGED <<call, told, accepted, outcome>>
    BY <1>2 DEF Connect, NameConv, OutputDown, CloseWriter, CloseReader, Deliver,
               vars, writer
  <2>2. output' = output \/ output' = "down"
    BY <1>2 DEF Connect, NameConv, OutputDown, CloseWriter, CloseReader, Deliver,
               vars, net
  <2>. QED  BY <1>1, <2>1, <2>2
<1>3. ASSUME NEW b \in Buffers, PollRecv(b)
      PROVE  CallInv' /\ SaidIsTaken'
  <2>1. UNCHANGED <<writer, net>>
    BY <1>3
    DEF PollRecv, RecvBuffered, RecvDirect, RecvFill, RecvEmpty, RecvEnd
  <2>. QED  BY <1>1, <2>1 DEF writer, net
<1>4. ASSUME NEW op \in {"send", "write"}, NEW n \in Sizes, Call(op, n)
      PROVE  CallInv' /\ SaidIsTaken'
  <2>1. /\ call.op = "none" /\ call = Idle
        /\ call' = [op |-> op, len |-> n, from |-> told, sent |-> 0]
        /\ UNCHANGED <<told, accepted, outcome, output>>
    BY <1>4 DEF Call, CallInv, net
  <2>2. call'.op = op /\ call'.sent = 0 /\ call'.from = told
    BY <2>1
  <2>3. told <= accepted
    BY DEF TypeOK
  <2>. QED  BY <1>0, <2>1, <2>2, <2>3 DEF CallInv, SaidIsTaken
<1>5. CASE SendChunk
  <2>1. SendPolled /\ ChunkTaken /\ KcpSend /\ output' = output /\ call.op # "none"
    BY <1>5, NeverRejected DEF SendChunk, SendPolled, ChunkTaken, net
  <2>2. /\ Chunk \in Nat /\ call.from = told
        /\ accepted' \in Nat /\ accepted' >= told + call.sent + Chunk
    BY <1>0, <2>1, ChunkFacts, SendTypes DEF CallInv
  <2>3. output = "up" => accepted' = told + call.sent + Chunk
    BY <1>0, <2>1, <2>2 DEF KcpSend, AtLeast, CallInv
  <2>4. CASE Finished(call.sent + Chunk)
    <3>1. /\ call' = Idle /\ told' = told + (call.sent + Chunk)
          /\ outcome' = [op |-> call.op, asked |-> call.len,
                         said |-> call.sent + Chunk, took |-> accepted' - told]
      BY <2>1, <2>2, <2>4 DEF ChunkTaken
    <3>2. CallInv'
      BY <1>0, <2>1, <2>2, <2>3, <3>1 DEF CallInv
    <3>3. /\ outcome'.op = call.op /\ outcome'.asked = call.len
          /\ outcome'.said = call.sent + Chunk /\ outcome'.took = accepted' - told
      BY <3>1
    <3>4. output = "up" => outcome'.said = outcome'.took
      BY <1>0, <2>2, <2>3, <3>3
    <3>5. call.op = "send" => call.len = call.sent + Chunk
      BY <2>4 DEF Finished
    <3>. QED  BY <2>1, <3>2, <3>3, <3>4, <3>5 DEF SaidIsTaken
  <2>5. CASE ~ Finished(call.sent + Chunk)
    <3>1. /\ call' = [call EXCEPT !.sent = call.sent + Chunk]
          /\ UNCHANGED <<told, outcome>>
      BY <2>1, <2>5 DEF ChunkTaken
    <3>2. call'.op = call.op /\ call'.from = call.from
          /\ call'.sent = call.sent + Chunk
      BY <3>1 DEF TypeOK
    <3>3. call.op # "write"
      BY <2>5 DEF Finished
    <3>. QED
      BY <1>0, <2>1, <2>2, <2>3, <3>1, <3>2, <3>3 DEF CallInv, SaidIsTaken
  <2>. QED  BY <2>4, <2>5
<1>6. CASE SendChunkUnflushed
  <2>1. call' = Idle /\ output = "down" /\ UNCHANGED <<outcome, output>>
    BY <1>6 DEF SendChunkUnflushed, KcpSend
  <2>. QED  BY <1>0, <2>1 DEF CallInv, SaidIsTaken
<1>7. CASE SendAborted
  <2>1. /\ call' = Idle /\ told' = GivenUp(accepted)
        /\ UNCHANGED <<outcome, output, accepted>>
    BY <1>7 DEF SendAborted, net
  <2>2. output = "up" => told' = accepted
    BY <1>0, <2>1 DEF GivenUp, CallInv
  <2>. QED  BY <1>0, <2>1, <2>2 DEF CallInv, SaidIsTaken
<1>. QED
  BY <1>2, <1>3, <1>4, <1>5, <1>6, <1>7 DEF Next

-----------------------------------------------------------------------------
\* Taking the first of consecutive extents leaves the others where they are.
LEMMA ConsecutiveTail ==
  ASSUME NEW seq \in Seq(Extent), NEW start \in Nat, seq # <<>>,
         Consecutive(seq, start)
  PROVE  LET next == Head(seq).at + Head(seq).len IN
           /\ Head(seq).at = start
           /\ Consecutive(Tail(seq), next)
           /\ End(Tail(seq), next) = End(seq, start)
<1>0. Len(seq) \in Nat \ {0} /\ DOMAIN Tail(seq) = 1 .. Len(seq) - 1
  OBVIOUS
<1>1. 1 \in DOMAIN seq /\ Head(seq) = seq[1]
  OBVIOUS
<1>2. Head(seq).at = start
  BY <1>1 DEF Consecutive
<1>3. \A i \in DOMAIN Tail(seq) : i + 1 \in DOMAIN seq /\ Tail(seq)[i] = seq[i + 1]
  OBVIOUS
<1>4. \A i \in DOMAIN Tail(seq) : i \in Nat \ {0} /\ (i # 1 => i - 1 \in DOMAIN Tail(seq))
  OBVIOUS
<1>5. ASSUME NEW i \in DOMAIN Tail(seq)
      PROVE  Tail(seq)[i].at = IF i = 1 THEN Head(seq).at + Head(seq).len
                               ELSE Tail(seq)[i - 1].at + Tail(seq)[i - 1].len
  <2>1. i + 1 # 1 /\ (i + 1) - 1 = i
    BY <1>4
  <2>2. Tail(seq)[i].at = seq[i].at + seq[i].len
    BY <1>3, <2>1 DEF Consecutive
  <2>3. i # 1 => Tail(seq)[i - 1] = seq[i]
    BY <1>3, <1>4
  <2>. QED  BY <1>1, <2>2, <2>3
<1>6. End(Tail(seq), Head(seq).at + Head(seq).len) = End(seq, start)
  <2>1. CASE Tail(seq) = <<>>
    <3>1. ASSUME Len(seq) # 1 PROVE FALSE
      <4>1. PICK k \in Nat \ {0} : k = Len(seq)
        BY <1>0
      <4>2. k # 1
        BY <3>1, <4>1
      <4>3. 1 \in 1 .. k - 1
        BY <4>2
      <4>4. 1 \in 1 .. Len(seq) - 1
        BY <4>1, <4>3
      <4>5. DOMAIN Tail(seq) = {}
        BY <2>1
      <4>. QED  BY <1>0, <4>4, <4>5
    <3>2. Len(seq) = 1
      BY <3>1
    <3>. QED  BY <1>1, <2>1, <3>2 DEF End
  <2>2. CASE Tail(seq) # <<>>
    <3>1. /\ Len(Tail(seq)) \in DOMAIN Tail(seq)
          /\ Len(Tail(seq)) + 1 = Len(seq)
      BY <2>2
    <3>. QED  BY <1>3, <2>2, <3>1 DEF End
  <2>. QED  BY <2>1, <2>2
<1>. QED  BY <1>2, <1>5, <1>6 DEF Consecutive

\* An extent that begins where they end goes behind them.
LEMMA ConsecutiveAppend ==
  ASSUME NEW seq \in Seq(Extent), NEW start \in Nat, NEW e \in Extent,
         Consecutive(seq, start), e.at = End(seq, start)
  PROVE  /\ Consecutive(Append(seq, e), start)
         /\ End(Append(seq, e), start) = e.at + e.len
<1>0. /\ Len(Append(seq, e)) = Len(seq) + 1 /\ Append(seq, e)[Len(seq) + 1] = e
      /\ \A i \in DOMAIN seq : Append(seq, e)[i] = seq[i]
  OBVIOUS
<1>1. /\ Len(Append(seq, e)) = Len(seq) + 1 /\ Append(seq, e) # <<>>
      /\ Append(seq, e)[Len(seq) + 1] = e
      /\ \A i \in DOMAIN seq : Append(seq, e)[i] = seq[i]
      /\ DOMAIN Append(seq, e) = 1 .. Len(seq) + 1
      /\ DOMAIN seq = 1 .. Len(seq) /\ Len(seq) \in Nat
  <2>1. Append(seq, e) \in Seq(Extent)
    OBVIOUS
  <2>2. DOMAIN Append(seq, e) = 1 .. Len(seq) + 1
    BY <1>0, <2>1
  <2>3. Append(seq, e) # <<>>
    BY AppendProperties
  <2>. QED  BY <1>0, <2>2, <2>3
<1>2. ASSUME NEW i \in DOMAIN seq
      PROVE  Append(seq, e)[i].at =
               IF i = 1 THEN start
               ELSE Append(seq, e)[i - 1].at + Append(seq, e)[i - 1].len
  <2>1. i # 1 => i - 1 \in DOMAIN seq
    BY <1>1
  <2>. QED  BY <1>1, <2>1 DEF Consecutive
<1>3. e.at = IF Len(seq) + 1 = 1 THEN start
             ELSE Append(seq, e)[Len(seq)].at + Append(seq, e)[Len(seq)].len
  <2>1. CASE seq = <<>>
    BY <2>1 DEF End
  <2>2. CASE seq # <<>>
    <3>1. Len(seq) \in DOMAIN seq /\ Len(seq) + 1 # 1
      BY <2>2
    <3>. QED  BY <1>1, <2>2, <3>1 DEF End
  <2>. QED  BY <2>1, <2>2
<1>4. ASSUME NEW i \in 1 .. Len(seq) + 1, i \notin DOMAIN seq
      PROVE  i = Len(seq) + 1 /\ i - 1 = Len(seq)
  BY <1>1, <1>4
<1>5. Consecutive(Append(seq, e), start)
  BY <1>1, <1>2, <1>3, <1>4 DEF Consecutive
<1>6. End(Append(seq, e), start) = e.at + e.len
  BY <1>1 DEF End
<1>. QED  BY <1>5, <1>6

\* Taking the first of the messages, one that left.
LEMMA LeftTail ==
  ASSUME NEW seq \in Seq(Message), NEW start \in Nat, seq # <<>>,
         LeftInOrder(seq, start), Head(seq).out
  PROVE  LET next == Head(seq).at + Head(seq).len IN
           /\ Head(seq).at = start
           /\ LeftInOrder(Tail(seq), next)
           /\ End(Tail(seq), next) = End(seq, start)
<1>0. Len(seq) \in Nat \ {0} /\ DOMAIN Tail(seq) = 1 .. Len(seq) - 1
  OBVIOUS
<1>1. 1 \in DOMAIN seq /\ Head(seq) = seq[1]
  OBVIOUS
<1>2. Head(seq).at = start
  BY <1>1 DEF LeftInOrder
<1>3. \A i \in DOMAIN Tail(seq) : i + 1 \in DOMAIN seq /\ Tail(seq)[i] = seq[i + 1]
  OBVIOUS
<1>4. \A i \in DOMAIN Tail(seq) : i \in Nat \ {0} /\ (i # 1 => i - 1 \in DOMAIN Tail(seq))
  OBVIOUS
<1>5. ASSUME NEW i \in DOMAIN Tail(seq), Tail(seq)[i].out
      PROVE  /\ i = 1 => Tail(seq)[i].at = Head(seq).at + Head(seq).len
             /\ i > 1 => /\ Tail(seq)[i - 1].out
                         /\ Tail(seq)[i].at
                              = Tail(seq)[i - 1].at + Tail(seq)[i - 1].len
  <2>1. i + 1 > 1 /\ (i + 1) - 1 = i
    BY <1>4
  <2>2. seq[i].out /\ Tail(seq)[i].at = seq[i].at + seq[i].len
    BY <1>3, <1>5, <2>1 DEF LeftInOrder
  <2>3. i > 1 => Tail(seq)[i - 1] = seq[i]
    BY <1>3, <1>4
  <2>. QED  BY <1>1, <2>2, <2>3
<1>6. End(Tail(seq), Head(seq).at + Head(seq).len) = End(seq, start)
  <2>1. CASE Tail(seq) = <<>>
    <3>1. ASSUME Len(seq) # 1 PROVE FALSE
      <4>1. PICK k \in Nat \ {0} : k = Len(seq)
        BY <1>0
      <4>2. k # 1
        BY <3>1, <4>1
      <4>3. 1 \in 1 .. k - 1
        BY <4>2
      <4>4. 1 \in 1 .. Len(seq) - 1
        BY <4>1, <4>3
      <4>5. DOMAIN Tail(seq) = {}
        BY <2>1
      <4>. QED  BY <1>0, <4>4, <4>5
    <3>2. Len(seq) = 1
      BY <3>1
    <3>. QED  BY <1>1, <2>1, <3>2 DEF End
  <2>2. CASE Tail(seq) # <<>>
    <3>1. /\ Len(Tail(seq)) \in DOMAIN Tail(seq)
          /\ Len(Tail(seq)) + 1 = Len(seq)
      BY <2>2
    <3>. QED  BY <1>3, <2>2, <3>1 DEF End
  <2>. QED  BY <2>1, <2>2
<1>. QED  BY <1>2, <1>5, <1>6 DEF LeftInOrder

\* Taking only its first n bytes.
LEMMA LeftRest ==
  ASSUME NEW seq \in Seq(Message), NEW start \in Nat, seq # <<>>,
         LeftInOrder(seq, start), Head(seq).out,
         NEW n \in Nat, n <= Head(seq).len
  PROVE  LET rest == [seq EXCEPT ![1] = Rest(Head(seq), n)] IN
           /\ Head(seq).at = start
           /\ LeftInOrder(rest, start + n)
           /\ End(rest, start + n) = End(seq, start)
           /\ \A i \in DOMAIN seq : /\ rest[i].out = seq[i].out
                                    /\ rest[i].at + rest[i].len = seq[i].at + seq[i].len
<1> DEFINE e == Rest(Head(seq), n)
           rest == [seq EXCEPT ![1] = e]
<1>1. 1 \in DOMAIN seq /\ Head(seq) = seq[1] /\ Head(seq) \in Message
  OBVIOUS
<1>2. Head(seq).at = start
  BY <1>1 DEF LeftInOrder
<1>3. /\ e.out = seq[1].out /\ e.at = start + n
      /\ e.at + e.len = seq[1].at + seq[1].len /\ e \in Message
  BY <1>1, <1>2, RestFacts
<1>. HIDE DEF e
<1>4. /\ DOMAIN rest = DOMAIN seq /\ Len(rest) = Len(seq) /\ rest # <<>>
      /\ rest[1] = e
      /\ \A i \in DOMAIN seq : i # 1 => rest[i] = seq[i]
  <2>1. rest \in Seq(Message) /\ DOMAIN rest = DOMAIN seq /\ Len(rest) = Len(seq)
    BY <1>1, <1>3
  <2>2. rest[1] = e /\ \A i \in DOMAIN seq : i # 1 => rest[i] = seq[i]
    BY <1>1
  <2>3. rest # <<>>
    BY <1>1, <2>1
  <2>. QED  BY <2>1, <2>2, <2>3
<1>. HIDE DEF rest
<1>5. \A i \in DOMAIN seq : /\ rest[i].out = seq[i].out
                            /\ rest[i].at + rest[i].len = seq[i].at + seq[i].len
                            /\ i # 1 => rest[i].at = seq[i].at
  BY <1>1, <1>3, <1>4
<1>6. \A i \in DOMAIN seq : i \in Nat \ {0} /\ (i > 1 => i - 1 \in DOMAIN seq /\ i # 1)
  OBVIOUS
<1>7. LeftInOrder(rest, start + n)
  <2>. SUFFICES ASSUME NEW i \in DOMAIN seq, rest[i].out
                PROVE  /\ i = 1 => rest[i].at = start + n
                       /\ i > 1 => /\ rest[i - 1].out
                                   /\ rest[i].at = rest[i - 1].at + rest[i - 1].len
    BY <1>4 DEF LeftInOrder
  <2>1. CASE i = 1
    BY <1>3, <1>4, <2>1
  <2>2. CASE i > 1
    <3>1. seq[i].out /\ i - 1 \in DOMAIN seq /\ i # 1
      BY <1>5, <1>6, <2>2
    <3>2. seq[i - 1].out /\ seq[i].at = seq[i - 1].at + seq[i - 1].len
      BY <2>2, <3>1 DEF LeftInOrder
    <3>. QED  BY <1>5, <2>2, <3>1, <3>2
  <2>. QED  BY <1>6, <2>1, <2>2
<1>8. Len(seq) \in DOMAIN seq
  BY <1>1
<1>9. End(rest, start + n) = End(seq, start)
  BY <1>4, <1>5, <1>8 DEF End
<1>. QED  BY <1>2, <1>5, <1>7, <1>9 DEF rest, e

\* Adding a message behind those that left, or one that does not leave.
LEMMA LeftAppend ==
  ASSUME NEW seq \in Seq(Message), NEW start \in Nat, NEW m \in Message,
         LeftInOrder(seq, start),
         m.out => /\ \A i \in DOMAIN seq : seq[i].out
                  /\ m.at = End(seq, start)
  PROVE  /\ LeftInOrder(Append(seq, m), start)
         /\ End(Append(seq, m), start) = m.at + m.len
<1>1. /\ Len(Append(seq, m)) = Len(seq) + 1
      /\ Append(seq, m)[Len(seq) + 1] = m
      /\ \A i \in DOMAIN seq : Append(seq, m)[i] = seq[i]
  OBVIOUS
<1>2. /\ DOMAIN Append(seq, m) = 1 .. Len(seq) + 1 /\ Append(seq, m) # <<>>
      /\ DOMAIN seq = 1 .. Len(seq) /\ Len(seq) \in Nat
  <2>1. Append(seq, m) \in Seq(Message)
    OBVIOUS
  <2>2. DOMAIN Append(seq, m) = 1 .. Len(seq) + 1
    BY <1>1, <2>1
  <2>3. Append(seq, m) # <<>>
    BY AppendProperties
  <2>. QED  BY <2>2, <2>3
<1>3. ASSUME NEW i \in DOMAIN seq, Append(seq, m)[i].out
      PROVE  /\ i = 1 => Append(seq, m)[i].at = start
             /\ i > 1 => /\ Append(seq, m)[i - 1].out
                         /\ Append(seq, m)[i].at
                              = Append(seq, m)[i - 1].at + Append(seq, m)[i - 1].len
  <2>1. i > 1 => i - 1 \in DOMAIN seq
    BY <1>2
  <2>. QED  BY <1>1, <1>3, <2>1 DEF LeftInOrder
<1>4. ASSUME m.out
      PROVE  /\ Len(seq) + 1 = 1 => m.at = start
             /\ Len(seq) + 1 > 1 => /\ Append(seq, m)[Len(seq)].out
                                    /\ m.at = Append(seq, m)[Len(seq)].at
                                                + Append(seq, m)[Len(seq)].len
  <2>1. CASE seq = <<>>
    BY <1>4, <2>1 DEF End
  <2>2. CASE seq # <<>>
    <3>1. Len(seq) \in DOMAIN seq /\ Len(seq) + 1 # 1
      BY <2>2
    <3>. QED  BY <1>1, <1>4, <2>2, <3>1 DEF End
  <2>. QED  BY <2>1, <2>2
<1>5. ASSUME NEW i \in 1 .. Len(seq) + 1, i \notin DOMAIN seq
      PROVE  i = Len(seq) + 1 /\ i - 1 = Len(seq)
  BY <1>2, <1>5
<1>6. LeftInOrder(Append(seq, m), start)
  BY <1>1, <1>2, <1>3, <1>4, <1>5 DEF LeftInOrder
<1>7. End(Append(seq, m), start) = m.at + m.len
  BY <1>1, <1>2 DEF End
<1>. QED  BY <1>6, <1>7

\* Adding k bytes to the last message.
LEMMA LeftMerge ==
  ASSUME NEW seq \in Seq(Message), NEW start \in Nat, seq # <<>>,
         LeftInOrder(seq, start), NEW k \in Nat
  PROVE  LET more == [seq EXCEPT ![Len(seq)].len = @ + k] IN
           /\ LeftInOrder(more, start)
           /\ End(more, start) = End(seq, start) + k
           /\ DOMAIN more = DOMAIN seq
           /\ \A i \in DOMAIN seq :
                /\ more[i].out = seq[i].out
                /\ \/ more[i].at + more[i].len = seq[i].at + seq[i].len
                   \/ more[i].at + more[i].len = seq[Len(seq)].at + seq[Len(seq)].len + k
<1> DEFINE l == Len(seq)
           e == [seq[l] EXCEPT !.len = seq[l].len + k]
           more == [seq EXCEPT ![l].len = @ + k]
<1>1. /\ l \in DOMAIN seq /\ seq[l] \in Message /\ l \in Nat
      /\ \A i \in DOMAIN seq : i \in Nat \ {0} /\ i <= l
      /\ \A i \in DOMAIN seq : i > 1 => i - 1 \in DOMAIN seq /\ i - 1 # l
  OBVIOUS
<1>2. seq[l].at \in Nat /\ seq[l].len \in Nat /\ seq[l].out \in BOOLEAN
  BY <1>1 DEF Message
<1>3. /\ e \in Message /\ e.out = seq[l].out /\ e.at = seq[l].at
      /\ e.len = seq[l].len + k
  <2>1. seq[l].len + k \in Nat
    BY <1>2
  <2>2. e \in Message
    BY <1>1, <2>1 DEF Message
  <2>3. e.out = seq[l].out /\ e.at = seq[l].at /\ e.len = seq[l].len + k
    BY <1>1 DEF Message
  <2>. QED  BY <2>2, <2>3
<1>4. /\ DOMAIN more = DOMAIN seq /\ Len(more) = l /\ more # <<>>
      /\ more[l] = e
      /\ \A i \in DOMAIN seq : i # l => more[i] = seq[i]
  <2>1. more = [seq EXCEPT ![l] = e]
    OBVIOUS
  <2>. HIDE DEF more, e
  <2>2. more \in Seq(Message) /\ DOMAIN more = DOMAIN seq /\ Len(more) = Len(seq)
    BY <1>1, <1>3, <2>1
  <2>3. more[l] = e /\ \A i \in DOMAIN seq : i # l => more[i] = seq[i]
    BY <1>1, <2>1
  <2>4. more # <<>>
    BY <1>1, <2>2
  <2>. QED  BY <2>2, <2>3, <2>4
<1>. HIDE DEF more, e
<1>5. \A i \in DOMAIN seq : more[i].out = seq[i].out /\ more[i].at = seq[i].at
  BY <1>1, <1>3, <1>4
<1>6. LeftInOrder(more, start)
  BY <1>1, <1>4, <1>5 DEF LeftInOrder
<1>7. End(more, start) = End(seq, start) + k
  BY <1>2, <1>3, <1>4 DEF End
<1>8. \A i \in DOMAIN seq : \/ more[i].at + more[i].len = seq[i].at + seq[i].len
                            \/ more[i].at + more[i].len = seq[l].at + seq[l].len + k
  <2>1. e.at + e.len = seq[l].at + seq[l].len + k
    BY <1>2, <1>3
  <2>. QED  BY <1>4, <2>1
<1>. QED  BY <1>4, <1>5, <1>6, <1>7, <1>8 DEF more

-----------------------------------------------------------------------------
\* The positions are numbers.
LEMMA Positions ==
  ASSUME TypeOK
  PROVE  /\ recv_buffer.at \in Nat /\ recv_buffer.pos \in Nat /\ recv_buffer.cap \in Nat
         /\ last.at \in Nat /\ last.len \in Nat
         /\ Got \in Nat /\ Ready \in Nat
         /\ accepted \in Nat
<1>1. /\ recv_buffer.at \in Nat /\ recv_buffer.pos \in Nat /\ recv_buffer.cap \in Nat
      /\ last.at \in Nat /\ last.len \in Nat /\ accepted \in Nat
  BY DEF TypeOK, Extent
<1>2. Got \in Nat
  BY <1>1 DEF Got
<1>3. CASE rcv_queue = <<>>
  BY <1>1, <1>2, <1>3 DEF Ready, End
<1>4. CASE rcv_queue # <<>>
  <2>1. Len(rcv_queue) \in DOMAIN rcv_queue /\ rcv_queue \in Seq(Extent)
    BY <1>4 DEF TypeOK
  <2>2. rcv_queue[Len(rcv_queue)] \in Extent
    BY <2>1
  <2>. QED  BY <1>1, <1>2, <1>4, <2>2 DEF Ready, End, Extent
<1>. QED  BY <1>3, <1>4

\* Chained and Bounded do not depend on anything else.
LEMMA Untouched ==
  ASSUME TypeOK, Chained, Bounded,
         UNCHANGED <<queue, rcv_queue, last, accepted>>,
         UNCHANGED <<recv_buffer.at, recv_buffer.pos, recv_buffer.cap>>,
         output' = output \/ output' = "down"
  PROVE  Chained' /\ Bounded'
<1>1. (Buffered' <=> Buffered) /\ Got' = Got
  BY DEF Buffered, Got
<1>2. Ready' = Ready
  BY <1>1 DEF Ready
<1>. QED  BY <1>1, <1>2 DEF Chained, Bounded

\* A chunk joins the end of queue.
LEMMA SendOrder ==
  ASSUME TypeOK, Usable, CallInv, Chained, Bounded, SendPolled, KcpSend,
         UNCHANGED <<rcv_queue, recv_buffer, last, output>>
  PROVE  Chained' /\ Bounded'
<1> DEFINE m == [at |-> call.from + call.sent, len |-> Chunk,
                 out |-> (output = "up")]
<1>1. call.op # "none" /\ Queued(m)
  BY DEF SendPolled, KcpSend
<1>2. /\ Chunk \in Nat /\ call.from \in Nat /\ call.sent \in Nat
      /\ queue \in Seq(Message) /\ accepted \in Nat /\ Ready \in Nat
  BY <1>1, ChunkFacts, Positions DEF TypeOK
<1>3. /\ accepted' \in Nat /\ accepted' >= accepted
      /\ accepted' >= call.from + call.sent + Chunk
      /\ accepted' = accepted \/ accepted' = call.from + call.sent + Chunk
  BY SendTypes
<1>4. m \in Message /\ m.at = call.from + call.sent /\ m.len = Chunk
      /\ m.out = (output = "up")
  BY <1>2 DEF Message
<1>5. output = "up" => accepted = m.at
  BY <1>1, <1>2, <1>4 DEF CallInv
<1>6. output = "up" => accepted' = accepted + m.len
  BY <1>2, <1>3, <1>4, <1>5
<1>7. m.at + m.len <= accepted' /\ m.at \in Nat /\ m.len \in Nat
  BY <1>2, <1>3, <1>4
<1>. HIDE DEF m
<1>8. (Buffered' <=> Buffered) /\ Got' = Got /\ Got \in Nat
  BY Positions DEF Buffered, Got
<1>9. Ready' = Ready
  BY <1>8 DEF Ready
<1>10. ASSUME NEW i \in DOMAIN rcv_queue
       PROVE  rcv_queue[i].at \in Nat /\ rcv_queue[i].len \in Nat
  <2>1. rcv_queue[i] \in Extent
    BY DEF TypeOK
  <2>. QED  BY <2>1 DEF Extent
<1>11. ASSUME NEW i \in DOMAIN queue
       PROVE  queue[i].at \in Nat /\ queue[i].len \in Nat
  <2>1. queue[i] \in Message
    BY <1>2
  <2>. QED  BY <2>1 DEF Message
<1>12. /\ Got' <= accepted'
       /\ \A i \in DOMAIN rcv_queue : rcv_queue[i].at + rcv_queue[i].len <= accepted'
       /\ \A i \in DOMAIN queue : queue[i].at + queue[i].len <= accepted'
  BY <1>2, <1>3, <1>8, <1>10, <1>11 DEF Bounded
<1>13. ASSUME LeftInOrder(queue', Ready),
              output = "up" => /\ \A i \in DOMAIN queue' : queue'[i].out
                               /\ End(queue', Ready) = accepted',
              \A i \in DOMAIN queue' : queue'[i].at + queue'[i].len <= accepted'
       PROVE  Chained' /\ Bounded'
  <2>1. Chained'
    BY <1>8, <1>9, <1>13 DEF Chained
  <2>2. Bounded'
    BY <1>12, <1>13 DEF Bounded
  <2>. QED  BY <2>1, <2>2
<1>14. CASE queue' = Append(queue, m)
  <2>1. m.out => /\ \A i \in DOMAIN queue : queue[i].out
                 /\ m.at = End(queue, Ready)
    BY <1>4, <1>5 DEF Chained
  <2>2. /\ LeftInOrder(queue', Ready) /\ End(queue', Ready) = m.at + m.len
    BY <1>2, <1>4, <1>14, <2>1, LeftAppend DEF Chained
  <2>3. /\ DOMAIN queue' = 1 .. Len(queue) + 1 /\ DOMAIN queue = 1 .. Len(queue)
        /\ Len(queue) \in Nat
        /\ queue'[Len(queue) + 1] = m
        /\ \A i \in DOMAIN queue : queue'[i] = queue[i]
    <3>1. queue' \in Seq(Message) /\ Len(queue') = Len(queue) + 1
      BY <1>2, <1>4, <1>14
    <3>2. queue'[Len(queue) + 1] = m /\ \A i \in DOMAIN queue : queue'[i] = queue[i]
      BY <1>2, <1>14
    <3>. QED  BY <1>2, <3>1, <3>2
  <2>4. \A i \in DOMAIN queue' : i \in DOMAIN queue \/ i = Len(queue) + 1
    BY <2>3
  <2>5. \A i \in DOMAIN queue' : queue'[i].at + queue'[i].len <= accepted'
    BY <1>7, <1>12, <2>3, <2>4
  <2>6. output = "up" => \A i \in DOMAIN queue' : queue'[i].out
    BY <1>4, <2>1, <2>3, <2>4
  <2>7. output = "up" => End(queue', Ready) = accepted'
    BY <1>5, <1>6, <2>2
  <2>. QED  BY <1>13, <2>2, <2>5, <2>6, <2>7
<1>15. CASE m.len = 0 /\ queue' = queue
  <2>1. output = "up" => accepted' = accepted
    BY <1>2, <1>6, <1>15
  <2>2. \A i \in DOMAIN queue' : queue'[i].at + queue'[i].len <= accepted'
    BY <1>12, <1>15
  <2>3. /\ LeftInOrder(queue', Ready)
        /\ output = "up" => /\ \A i \in DOMAIN queue' : queue'[i].out
                            /\ End(queue', Ready) = accepted'
    BY <1>15, <2>1 DEF Chained
  <2>. QED  BY <1>13, <2>2, <2>3
<1>16. CASE /\ queue # <<>>
            /\ queue[Len(queue)].at + queue[Len(queue)].len = m.at
            /\ queue' = [queue EXCEPT ![Len(queue)].len = @ + m.len]
  <2> DEFINE more == [queue EXCEPT ![Len(queue)].len = @ + m.len]
  <2>1. LeftInOrder(queue, Ready) /\ m.len \in Nat /\ queue # <<>>
    BY <1>7, <1>16 DEF Chained
  <2>2. /\ LeftInOrder(more, Ready)
        /\ End(more, Ready) = End(queue, Ready) + m.len
        /\ DOMAIN more = DOMAIN queue
        /\ \A i \in DOMAIN queue :
             /\ more[i].out = queue[i].out
             /\ \/ more[i].at + more[i].len = queue[i].at + queue[i].len
                \/ more[i].at + more[i].len
                     = queue[Len(queue)].at + queue[Len(queue)].len + m.len
    BY <1>2, <2>1, LeftMerge
  <2>. HIDE DEF more
  <2>3. queue' = more
    BY <1>16 DEF more
  <2>4. /\ LeftInOrder(queue', Ready)
        /\ End(queue', Ready) = End(queue, Ready) + m.len
        /\ DOMAIN queue' = DOMAIN queue
        /\ \A i \in DOMAIN queue :
             /\ queue'[i].out = queue[i].out
             /\ \/ queue'[i].at + queue'[i].len = queue[i].at + queue[i].len
                \/ queue'[i].at + queue'[i].len
                     = queue[Len(queue)].at + queue[Len(queue)].len + m.len
    BY <2>2, <2>3
  <2>5. \A i \in DOMAIN queue' : queue'[i].at + queue'[i].len <= accepted'
    BY <1>7, <1>12, <1>16, <2>4
  <2>6. output = "up" => \A i \in DOMAIN queue' : queue'[i].out
    BY <2>4 DEF Chained
  <2>7. output = "up" => End(queue', Ready) = accepted'
    BY <1>6, <2>4 DEF Chained
  <2>. QED  BY <1>13, <2>4, <2>5, <2>6, <2>7
<1>. QED  BY <1>1, <1>14, <1>15, <1>16 DEF Queued

\* A delivery moves bytes from the front of queue to the end of rcv_queue.
LEMMA DeliverOrder ==
  ASSUME TypeOK, Usable, Chained, Bounded, Deliver
  PROVE  Chained' /\ Bounded'
<1> DEFINE m == Head(queue)
<1>1. m \in Message /\ m.out /\ queue # <<>> /\ queue \in Seq(Message)
      /\ m = queue[1] /\ 1 \in DOMAIN queue
  BY Delivery DEF Deliver, TypeOK
<1>2. PICK n \in Nat :
        /\ n <= m.len
        /\ rcv_queue' = Append(rcv_queue, [at |-> m.at, len |-> n])
        /\ queue' = IF n = m.len THEN Tail(queue)
                    ELSE [queue EXCEPT ![1] = Rest(m, n)]
  BY Delivery
<1> DEFINE e == [at |-> m.at, len |-> n]
<1>3. e \in Extent /\ e.at = m.at /\ e.len = n /\ m.at \in Nat /\ m.len \in Nat
  BY <1>1 DEF Extent, Message
<1>4. /\ Got' = Got /\ (Buffered' <=> Buffered)
      /\ UNCHANGED <<recv_buffer, last, output, accepted>>
  BY DEF Deliver, Buffered, Got, reader, writer
<1>5. /\ Got \in Nat /\ Ready \in Nat /\ accepted \in Nat
      /\ rcv_queue \in Seq(Extent)
  BY Positions DEF TypeOK
<1>6. m.at = Ready
  BY <1>1 DEF Chained, LeftInOrder
<1>7. /\ Consecutive(rcv_queue', Got)
      /\ End(rcv_queue', Got) = Ready + n
  <2>1. e.at = End(rcv_queue, Got) /\ Consecutive(rcv_queue, Got)
    BY <1>3, <1>6 DEF Ready, Chained
  <2>. QED  BY <1>2, <1>3, <1>5, <1>6, <2>1, ConsecutiveAppend
<1>8. Ready' = Ready + n
  BY <1>4, <1>7 DEF Ready
<1>9. m.at + m.len <= accepted
  BY <1>1 DEF Bounded
<1>10. \A i \in DOMAIN rcv_queue' : rcv_queue'[i].at + rcv_queue'[i].len <= accepted
  <2>1. e.at + e.len <= accepted
    BY <1>2, <1>3, <1>5, <1>9
  <2>. HIDE DEF e
  <2>2. rcv_queue' = Append(rcv_queue, e)
    BY <1>2 DEF e
  <2>3. /\ rcv_queue' \in Seq(Extent) /\ Len(rcv_queue') = Len(rcv_queue) + 1
        /\ rcv_queue'[Len(rcv_queue) + 1] = e
        /\ \A i \in DOMAIN rcv_queue : rcv_queue'[i] = rcv_queue[i]
    BY <1>3, <1>5, <2>2
  <2>4. \A i \in DOMAIN rcv_queue' : i \in DOMAIN rcv_queue \/ i = Len(rcv_queue) + 1
    BY <1>5, <2>3
  <2>. QED  BY <2>1, <2>3, <2>4 DEF Bounded
<1>11. /\ LeftInOrder(queue', Ready + n)
       /\ End(queue', Ready + n) = End(queue, Ready)
       /\ output = "up" => \A i \in DOMAIN queue' : queue'[i].out
       /\ \A i \in DOMAIN queue' : queue'[i].at + queue'[i].len <= accepted
  <2>1. CASE n = m.len
    <3>1. queue' = Tail(queue)
      BY <1>2, <2>1
    <3>2. /\ LeftInOrder(queue', Ready + n)
          /\ End(queue', Ready + n) = End(queue, Ready)
      BY <1>1, <1>5, <1>6, <2>1, <3>1, LeftTail DEF Chained
    <3>3. \A i \in DOMAIN queue' : i + 1 \in DOMAIN queue /\ queue'[i] = queue[i + 1]
      BY <1>1, <3>1
    <3>. QED  BY <3>2, <3>3 DEF Chained, Bounded
  <2>2. CASE n # m.len
    <3>1. queue' = [queue EXCEPT ![1] = Rest(m, n)]
      BY <1>2, <2>2
    <3>2. DOMAIN queue' = DOMAIN queue
      BY <1>1, <3>1
    <3>3. LeftInOrder(queue, Ready) /\ Head(queue).out /\ n <= Head(queue).len
      BY <1>1, <1>2 DEF Chained
    <3>4. LET rest == [queue EXCEPT ![1] = Rest(Head(queue), n)] IN
            /\ LeftInOrder(rest, Ready + n)
            /\ End(rest, Ready + n) = End(queue, Ready)
            /\ \A i \in DOMAIN queue :
                 /\ rest[i].out = queue[i].out
                 /\ rest[i].at + rest[i].len = queue[i].at + queue[i].len
      BY <1>1, <1>5, <3>3, LeftRest
    <3>5. /\ LeftInOrder(queue', Ready + n)
          /\ End(queue', Ready + n) = End(queue, Ready)
          /\ \A i \in DOMAIN queue :
               /\ queue'[i].out = queue[i].out
               /\ queue'[i].at + queue'[i].len = queue[i].at + queue[i].len
      BY <3>1, <3>4
    <3>. QED  BY <3>2, <3>5 DEF Chained, Bounded
  <2>. QED  BY <2>1, <2>2
<1>12. Chained'
  BY <1>4, <1>7, <1>8, <1>11 DEF Chained
<1>13. Bounded'
  BY <1>4, <1>10, <1>11 DEF Bounded
<1>. QED  BY <1>12, <1>13

\* What a read does to last: it returns the bytes that come next.
Returned ==
  /\ last'.at = last.at + last.len
  /\ last'.len \in Nat
  /\ last'.at + last'.len <= accepted

\* A read that leaves the end of what is ready where it is.
LEMMA ReadKeeps ==
  ASSUME Chained, Bounded, UNCHANGED <<queue, output, accepted>>,
         Got' <= accepted,
         Buffered' => recv_buffer'.at + recv_buffer'.pos = last'.at + last'.len,
         Consecutive(rcv_queue', Got'), Ready' = Ready,
         \A i \in DOMAIN rcv_queue' :
           \E j \in DOMAIN rcv_queue : rcv_queue'[i] = rcv_queue[j]
  PROVE  Chained' /\ Bounded'
<1>1. Chained'
  BY DEF Chained
<1>2. \A i \in DOMAIN rcv_queue' : rcv_queue'[i].at + rcv_queue'[i].len <= accepted
  BY DEF Bounded
<1>3. Bounded'
  BY <1>2 DEF Bounded
<1>. QED  BY <1>1, <1>3

\* Taking the first message when recv_buffer is empty.
LEMMA TakeFirst ==
  ASSUME TypeOK, Chained, Bounded, ~ Buffered, rcv_queue # <<>>
  PROVE  LET m == Head(rcv_queue) IN
           /\ m \in Extent /\ m.at = Got /\ Got = last.at + last.len
           /\ m.at + m.len <= accepted
           /\ Consecutive(Tail(rcv_queue), m.at + m.len)
           /\ End(Tail(rcv_queue), m.at + m.len) = Ready
           /\ \A i \in DOMAIN Tail(rcv_queue) :
                \E j \in DOMAIN rcv_queue : Tail(rcv_queue)[i] = rcv_queue[j]
<1>1. rcv_queue \in Seq(Extent) /\ Got \in Nat /\ Consecutive(rcv_queue, Got)
  BY Positions DEF TypeOK, Chained
<1>2. /\ Head(rcv_queue) \in Extent
      /\ 1 \in DOMAIN rcv_queue /\ Head(rcv_queue) = rcv_queue[1]
  BY <1>1
<1>3. \A i \in DOMAIN Tail(rcv_queue) :
        i + 1 \in DOMAIN rcv_queue /\ Tail(rcv_queue)[i] = rcv_queue[i + 1]
  BY <1>1
<1>4. /\ Head(rcv_queue).at = Got
      /\ Consecutive(Tail(rcv_queue), Head(rcv_queue).at + Head(rcv_queue).len)
      /\ End(Tail(rcv_queue), Head(rcv_queue).at + Head(rcv_queue).len) = Ready
  BY <1>1, ConsecutiveTail DEF Ready
<1>5. Got = last.at + last.len
  BY DEF Got
<1>6. Head(rcv_queue).at + Head(rcv_queue).len <= accepted
  BY <1>2 DEF Bounded
<1>. QED  BY <1>2, <1>3, <1>4, <1>5, <1>6

\* A read returns the bytes that come next, or nothing.
LEMMA ReadOrder ==
  ASSUME TypeOK, Chained, Bounded, NEW b \in Buffers,
         RecvBuffered(b) \/ RecvDirect(b) \/ RecvFill(b) \/ RecvEmpty
  PROVE  Chained' /\ Bounded' /\ (last' = last \/ Returned)
<1>1. UNCHANGED <<queue, output, accepted>> /\ b \in Nat
  BY StreamAssumption
  DEF RecvBuffered, RecvDirect, RecvFill, RecvEmpty, net, writer
<1>2. /\ recv_buffer.at \in Nat /\ recv_buffer.pos \in Nat /\ recv_buffer.cap \in Nat
      /\ last.at \in Nat /\ last.len \in Nat /\ Got \in Nat /\ accepted \in Nat
  BY Positions
<1>3. Peek > 0 => rcv_queue # <<>>
  BY DEF Peek
<1>4. CASE RecvBuffered(b)
  <2>1. Buffered /\ rcv_queue' = rcv_queue
    BY <1>4 DEF RecvBuffered
  <2>2. PICK n \in Nat :
           /\ recv_buffer.pos + n <= recv_buffer.cap
           /\ last' = [at |-> recv_buffer.at + recv_buffer.pos, len |-> n]
           /\ recv_buffer' = [recv_buffer EXCEPT !.pos = recv_buffer.pos + n]
    BY <1>4, BufferedRead
  <2>3. recv_buffer \in [size : Nat, at : Nat, pos : Nat, cap : Nat]
    BY DEF TypeOK
  <2>4. /\ recv_buffer'.at = recv_buffer.at /\ recv_buffer'.cap = recv_buffer.cap
        /\ recv_buffer'.pos = recv_buffer.pos + n
        /\ last'.at = recv_buffer.at + recv_buffer.pos /\ last'.len = n
    BY <2>2, <2>3
  <2>5. /\ Got = recv_buffer.at + recv_buffer.cap
        /\ recv_buffer.at + recv_buffer.pos = last.at + last.len
    BY <2>1 DEF Got, Chained
  <2>6. recv_buffer'.at + recv_buffer'.pos = last'.at + last'.len
    BY <1>2, <2>4
  <2>7. Buffered' <=> recv_buffer.pos + n < recv_buffer.cap
    BY <2>4 DEF Buffered
  <2>8. Got' = IF Buffered' THEN recv_buffer'.at + recv_buffer'.cap
               ELSE last'.at + last'.len
    BY DEF Got, Buffered
  <2>9. Got' = Got
    BY <1>2, <2>2, <2>4, <2>5, <2>7, <2>8
  <2>10. Ready' = Ready /\ Consecutive(rcv_queue', Got')
    BY <2>1, <2>9 DEF Ready, Chained
  <2>11. Got' <= accepted
    BY <2>9 DEF Bounded
  <2>12. Returned
    BY <1>2, <2>2, <2>4, <2>5, <2>9, <2>11 DEF Returned
  <2>. QED  BY <1>1, <2>1, <2>6, <2>10, <2>11, <2>12, ReadKeeps
<1>5. ASSUME ~ Buffered, rcv_queue # <<>>, rcv_queue' = Tail(rcv_queue),
             Got' = Head(rcv_queue).at + Head(rcv_queue).len,
             Buffered' => recv_buffer'.at + recv_buffer'.pos = last'.at + last'.len
      PROVE  Chained' /\ Bounded'
  <2>1. Got' <= accepted /\ Consecutive(rcv_queue', Got')
    BY <1>5, TakeFirst
  <2>2. Ready' = Ready
    BY <1>5, TakeFirst DEF Ready
  <2>3. \A i \in DOMAIN rcv_queue' :
           \E j \in DOMAIN rcv_queue : rcv_queue'[i] = rcv_queue[j]
    BY <1>5, TakeFirst
  <2>. QED  BY <1>1, <1>5, <2>1, <2>2, <2>3, ReadKeeps
<1>6. ASSUME ~ Buffered, rcv_queue # <<>>
      PROVE  LET m == Head(rcv_queue) IN
               /\ m.at = last.at + last.len /\ m.at \in Nat /\ m.len \in Nat
               /\ m.at + m.len <= accepted
  BY <1>6, TakeFirst DEF Extent
<1>7. CASE RecvDirect(b) \/ (RecvEmpty /\ cfg.allow_recv_empty_packet)
  <2>1. /\ ~ Buffered /\ rcv_queue # <<>> /\ rcv_queue' = Tail(rcv_queue)
        /\ last' = Head(rcv_queue) /\ recv_buffer' = recv_buffer
    BY <1>3, <1>7 DEF RecvDirect, Direct, RecvEmpty
  <2>2. ~ Buffered' /\ Got' = Head(rcv_queue).at + Head(rcv_queue).len
    BY <2>1 DEF Got, Buffered
  <2>3. Returned
    BY <1>6, <2>1 DEF Returned
  <2>. QED  BY <1>5, <2>1, <2>2, <2>3
<1>8. CASE RecvEmpty /\ ~ cfg.allow_recv_empty_packet
  <2>1. /\ ~ Buffered /\ rcv_queue # <<>> /\ rcv_queue' = Tail(rcv_queue)
        /\ last' = last /\ recv_buffer' = recv_buffer
        /\ Head(rcv_queue).len = 0
    BY <1>8 DEF RecvEmpty, Peek
  <2>2. ~ Buffered' /\ Got' = last.at + last.len
    BY <2>1 DEF Got, Buffered
  <2>3. Got' = Head(rcv_queue).at + Head(rcv_queue).len
    BY <1>6, <2>1, <2>2
  <2>. QED  BY <1>5, <2>1, <2>2, <2>3
<1>9. CASE RecvFill(b)
  <2>1. ~ Buffered /\ Peek > b /\ rcv_queue # <<>> /\ Peek = Head(rcv_queue).len
    BY <1>1, <1>3, <1>9, PeekFacts DEF RecvFill
  <2>2. /\ rcv_queue' = Tail(rcv_queue)
        /\ recv_buffer' = [size |-> Resized(recv_buffer.size),
                           at |-> Head(rcv_queue).at, pos |-> b, cap |-> Peek]
        /\ last' = [at |-> Head(rcv_queue).at, len |-> b]
    BY <1>9, PeekFacts DEF RecvFill
  <2>3. /\ recv_buffer'.at = Head(rcv_queue).at /\ recv_buffer'.pos = b
        /\ recv_buffer'.cap = Head(rcv_queue).len
        /\ last'.at = Head(rcv_queue).at /\ last'.len = b
    BY <2>1, <2>2
  <2>4. Buffered' /\ b < Head(rcv_queue).len
    BY <1>1, <1>6, <2>1, <2>3 DEF Buffered
  <2>5. Got' = Head(rcv_queue).at + Head(rcv_queue).len
    BY <2>3, <2>4 DEF Got
  <2>6. Returned
    BY <1>1, <1>2, <1>6, <2>1, <2>3, <2>4 DEF Returned
  <2>. QED  BY <1>5, <2>1, <2>2, <2>3, <2>5, <2>6
<1>10. CASE RecvEmpty
  <2>1. CASE cfg.allow_recv_empty_packet
    BY <1>7, <1>10, <2>1
  <2>2. CASE ~ cfg.allow_recv_empty_packet
    BY <1>8, <1>10, <2>2
  <2>. QED  BY <2>1, <2>2
<1>. QED  BY <1>4, <1>7, <1>9, <1>10

-----------------------------------------------------------------------------
\* Every step keeps the bytes in order.
LEMMA NextOrder == IInv /\ [Next]_vars => Chained' /\ Bounded'
<1>. SUFFICES ASSUME IInv, [Next]_vars PROVE Chained' /\ Bounded'
  OBVIOUS
<1>. USE DEF IInv
<1>1. CASE \/ Connect \/ SendAborted \/ NameConv \/ OutputDown
           \/ CloseWriter \/ CloseReader \/ UNCHANGED vars
           \/ \E op \in {"send", "write"}, n \in Sizes : Call(op, n)
  <2>1. /\ UNCHANGED <<queue, rcv_queue, last, accepted, recv_buffer>>
        /\ output' = output \/ output' = "down"
    BY <1>1
    DEF Connect, Call, SendAborted, NameConv, OutputDown, CloseWriter, CloseReader,
        vars, writer, net, reader
  <2>. QED  BY <2>1, Untouched
<1>2. CASE SendChunk \/ SendChunkUnflushed
  <2>1. SendPolled /\ KcpSend
    BY <1>2, NeverRejected DEF SendChunk, SendChunkUnflushed, ChunkTaken
  <2>2. UNCHANGED <<rcv_queue, recv_buffer, last, output>>
    BY <1>2 DEF SendChunk, SendChunkUnflushed, reader
  <2>. QED  BY <2>1, <2>2, SendOrder
<1>3. CASE Deliver
  BY <1>3, DeliverOrder
<1>4. ASSUME NEW b \in Buffers, PollRecv(b)
      PROVE  Chained' /\ Bounded'
  <2>1. CASE RecvEnd(b)
    <3>1. /\ UNCHANGED <<queue, rcv_queue, last, accepted, output>>
          /\ \/ recv_buffer' = recv_buffer
             \/ recv_buffer' = [recv_buffer EXCEPT !.size = Resized(@)]
      BY <2>1 DEF RecvEnd, writer, net
    <3>2. UNCHANGED <<recv_buffer.at, recv_buffer.pos, recv_buffer.cap>>
      BY <3>1 DEF TypeOK
    <3>. QED  BY <3>1, <3>2, Untouched
  <2>. QED  BY <1>4, <2>1, ReadOrder DEF PollRecv
<1>. QED  BY <1>1, <1>2, <1>3, <1>4 DEF Next

\* Every step keeps the end the end.
LEMMA NextEnd == IInv /\ [Next]_vars => EndIsEnd'
<1>. SUFFICES ASSUME IInv, [Next]_vars PROVE EndIsEnd'
  OBVIOUS
<1>. USE DEF IInv
<1>1. CASE \/ Connect \/ SendChunk \/ SendChunkUnflushed \/ SendAborted \/ NameConv
           \/ OutputDown \/ CloseWriter \/ CloseReader \/ Deliver \/ UNCHANGED vars
           \/ \E op \in {"send", "write"}, n \in Sizes : Call(op, n)
  <2>1. UNCHANGED <<recv_buffer, ended>> /\ (rclosed => rclosed')
    BY <1>1
    DEF Connect, Call, SendChunk, SendChunkUnflushed, SendAborted, NameConv,
        OutputDown, CloseWriter, CloseReader, Deliver, vars, net, reader
  <2>. QED  BY <2>1 DEF EndIsEnd, Buffered
<1>2. ASSUME NEW b \in Buffers, PollRecv(b)
      PROVE  EndIsEnd'
  <2>1. CASE RecvEnd(b)
    <3>1. /\ rclosed' /\ ~ Buffered
          /\ \/ recv_buffer' = recv_buffer
             \/ recv_buffer' = [recv_buffer EXCEPT !.size = Resized(@)]
      BY <2>1 DEF RecvEnd, net
    <3>2. UNCHANGED <<recv_buffer.pos, recv_buffer.cap>>
      BY <3>1 DEF TypeOK
    <3>. QED  BY <3>1, <3>2 DEF EndIsEnd, Buffered
  <2>2. CASE RecvBuffered(b) \/ RecvDirect(b) \/ RecvFill(b) \/ RecvEmpty
    <3>1. ended' = ended /\ (Buffered \/ ~ rclosed)
      BY <2>2 DEF RecvBuffered, RecvDirect, RecvFill, RecvEmpty
    <3>. QED  BY <3>1 DEF EndIsEnd
  <2>. QED  BY <1>2, <2>1, <2>2 DEF PollRecv
<1>. QED  BY <1>1, <1>2 DEF Next

\* Together: the invariant is inductive.
LEMMA NextInv == IInv /\ [Next]_vars => IInv'
<1>. SUFFICES ASSUME IInv, [Next]_vars PROVE IInv'
  OBVIOUS
<1>1. TypeOK' /\ Usable' /\ NoSizeError'
  BY NextType, NextUsable, NextSize
<1>2. CallInv' /\ SaidIsTaken'
  BY NextCall
<1>3. Chained' /\ Bounded' /\ EndIsEnd'
  BY NextOrder, NextEnd
<1>. QED  BY <1>1, <1>2, <1>3 DEF IInv

\* It holds in every reachable state.
LEMMA Inductive == Spec => []IInv
<1>. QED  BY InitInv, NextInv, PTL DEF Spec

\* The types hold in every reachable state.
THEOREM TypeCorrect == Spec => []TypeOK
<1>1. IInv => TypeOK
  BY DEF IInv
<1>. QED  BY <1>1, Inductive, PTL

\* A configuration that validate accepts makes a socket: nothing after the
\* check refuses it, and no expect() panics.
THEOREM ValidNeverRefused == Spec => []ValidIsUsable
<1>1. IInv => ValidIsUsable
  <2>. SUFFICES ASSUME IInv, state \in {"refused", "panicked"} PROVE ~ Valid(cfg)
    BY DEF ValidIsUsable
  <2>1. cfg \in Config /\ state = NewSocket(cfg)
    BY StreamAssumption DEF IInv, TypeOK, Usable
  <2>. QED  BY <2>1, ValidFacts
<1>. QED  BY <1>1, Inductive, PTL

\* kcp.send and kcp.recv never fail for a size the library chose.
THEOREM SizesAccepted == Spec => []NoSizeError
<1>1. IInv => NoSizeError
  BY DEF IInv
<1>. QED  BY <1>1, Inductive, PTL

\* Ok(n) tells the truth.
THEOREM SaysWhatItTook == Spec => []SaidIsTaken
<1>1. IInv => SaidIsTaken
  BY DEF IInv
<1>. QED  BY <1>1, Inductive, PTL

-----------------------------------------------------------------------------
\* Every step is a step of the FIFO of bytes, or none.
LEMMA StepOfFifo == IInv /\ [Next]_vars => [Fifo!Next]_(Fifo!vars)
<1>. SUFFICES ASSUME IInv, [Next]_vars PROVE [Fifo!Next]_(Fifo!vars)
  OBVIOUS
<1>. USE DEF IInv
<1>1. CASE UNCHANGED <<accepted, last, ended>>
  BY <1>1 DEF Fifo!vars
<1>2. CASE \/ Connect \/ SendAborted \/ NameConv \/ OutputDown \/ Deliver
           \/ CloseWriter \/ CloseReader \/ UNCHANGED vars
           \/ \E op \in {"send", "write"}, n \in Sizes : Call(op, n)
  <2>1. UNCHANGED <<accepted, last, ended>>
    BY <1>2
    DEF Connect, Call, SendAborted, NameConv, OutputDown, CloseWriter, CloseReader,
        Deliver, vars, writer, reader
  <2>. QED  BY <1>1, <2>1
<1>3. CASE SendChunk \/ SendChunkUnflushed
  <2>1. SendPolled /\ KcpSend
    BY <1>3, NeverRejected DEF SendChunk, SendChunkUnflushed, ChunkTaken
  <2>2. UNCHANGED <<last, ended>>
    BY <1>3 DEF SendChunk, SendChunkUnflushed, reader
  <2>3. accepted \in Nat /\ accepted' \in Nat /\ accepted' >= accepted
    BY <2>1, SendTypes DEF TypeOK
  <2>4. CASE accepted' = accepted
    BY <1>1, <2>2, <2>4
  <2>5. CASE accepted' # accepted
    BY <2>2, <2>3, <2>5 DEF Fifo!Next, Fifo!Accept
  <2>. QED  BY <2>4, <2>5
<1>4. ASSUME NEW b \in Buffers, PollRecv(b)
      PROVE  [Fifo!Next]_(Fifo!vars)
  <2>1. accepted' = accepted
    BY <1>4
    DEF PollRecv, RecvBuffered, RecvDirect, RecvFill, RecvEmpty, RecvEnd, writer
  <2>2. CASE RecvEnd(b)
    BY <2>1, <2>2 DEF RecvEnd, Fifo!Next, Fifo!End
  <2>3. CASE RecvBuffered(b) \/ RecvDirect(b) \/ RecvFill(b) \/ RecvEmpty
    <3>1. ended' = ended /\ (Buffered \/ ~ rclosed)
      BY <2>3 DEF RecvBuffered, RecvDirect, RecvFill, RecvEmpty
    <3>2. ~ ended
      BY <3>1 DEF EndIsEnd
    <3>3. last' = last \/ Returned
      BY <2>3, ReadOrder
    <3>4. CASE last' = last
      BY <1>1, <2>1, <3>1, <3>4
    <3>5. CASE Returned
      BY <2>1, <3>1, <3>2, <3>5 DEF Returned, Fifo!Next, Fifo!Return, Fifo!Read
    <3>. QED  BY <3>3, <3>4, <3>5
  <2>. QED  BY <1>4, <2>2, <2>3 DEF PollRecv
<1>. QED  BY <1>2, <1>3, <1>4 DEF Next

(***************************************************************************)
(* The two halves of a stream, with chunks, messages, segments and         *)
(* recv_buffer between them, are a FIFO of bytes: poll_recv returns what   *)
(* poll_send accepted, in its order, each byte once.                       *)
(***************************************************************************)
THEOREM StreamIsByteFifo == Spec => ImplementsByteFifo
<1>1. Init => Fifo!Init
  BY DEF Init, Fifo!Init
<1>. QED
  BY <1>1, Inductive, StepOfFifo, PTL DEF Spec, ImplementsByteFifo, Fifo!Spec

=============================================================================
