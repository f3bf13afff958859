--------------------------- MODULE KcpSocketProofs ---------------------------
(***************************************************************************)
(* Proofs about KcpSocket, for any tasks, windows and message queue.       *)
(***************************************************************************)
EXTENDS KcpSocket, TLAPS

\* No wakeup is lost: whoever is parked can be found, and nobody is parked on
\* a closed socket.
WakeInv == TypeOK /\ ParkedIsRegistered /\ ClosedNobodyParked

\* Nobody is parked at first.
LEMMA InitWake == Init => WakeInv
<1>. SUFFICES ASSUME Init PROVE WakeInv
  OBVIOUS
<1>1. rcv_queue \in Seq(Messages) /\ Len(rcv_queue) <= RcvCap
  BY WindowAssumption DEF Init
<1>2. TypeOK
  BY <1>1 DEF Init, TypeOK
<1>. QED
  BY <1>2 DEF Init, WakeInv, ParkedIsRegistered, ClosedNobodyParked, Tasks

\* What the two ways of changing task do to its type and to who is parked.
LEMMA WokenFacts ==
  ASSUME TypeOK, NEW tasks
  PROVE  /\ Woken(tasks) \in [Tasks -> {"running", "parked", "done"}]
         /\ \A t \in Tasks : Woken(tasks)[t] = "parked"
              <=> (task[t] = "parked" /\ t \notin tasks)
BY DEF TypeOK, Woken

\* What parking does to the type of task and to who is parked.
LEMMA ParkedFacts ==
  ASSUME TypeOK, NEW t \in Tasks, NEW slot
  PROVE  /\ Parked(t, slot) \in [Tasks -> {"running", "parked", "done"}]
         /\ \A u \in Tasks : Parked(t, slot)[u] = "parked"
              <=> (u = t \/ (task[u] = "parked" /\ u # slot))
BY WokenFacts DEF Parked

\* Every call keeps whoever is parked findable.
LEMMA NextWake == WakeInv /\ [Next]_vars => WakeInv'
<1>. SUFFICES ASSUME WakeInv, Next PROVE WakeInv'
  BY DEF WakeInv, TypeOK, ParkedIsRegistered, ClosedNobodyParked, vars
<1>. USE TasksAssumption, WindowAssumption
         DEF WakeInv, ParkedIsRegistered, ClosedNobodyParked
<1>1. ASSUME NEW t \in Writers, SendClosed(t)
      PROVE  WakeInv'
  BY <1>1 DEF SendClosed, TypeOK, Tasks
<1>2. ASSUME NEW t \in Writers, SendBlocks(t)
      PROVE  WakeInv'
  <2>1. /\ task' \in [Tasks -> {"running", "parked", "done"}]
        /\ \A u \in Tasks : task'[u] = "parked"
             <=> (u = t \/ (task[u] = "parked" /\ u # pending_sender))
    <3>1. t \in Tasks /\ task' = Parked(t, pending_sender)
      BY <1>2 DEF SendBlocks, Tasks
    <3>. QED  BY <3>1, ParkedFacts
  <2>2. TypeOK'
    BY <1>2, <2>1 DEF SendBlocks, TypeOK
  <2>. QED  BY <1>2, <2>1, <2>2 DEF SendBlocks, Tasks
<1>3. ASSUME NEW t \in Writers, SendAccepts(t)
      PROVE  WakeInv'
  BY <1>3 DEF SendAccepts, MaxChunk, TypeOK, Tasks
<1>4. ASSUME NEW t \in Readers, RecvClosed(t)
      PROVE  WakeInv'
  BY <1>4 DEF RecvClosed, TypeOK, Tasks
<1>5. ASSUME NEW t \in Readers, RecvReturns(t)
      PROVE  WakeInv'
  BY <1>5 DEF RecvReturns, Readable, TypeOK, Tasks
<1>6. ASSUME NEW t \in Readers, RecvBlocks(t)
      PROVE  WakeInv'
  <2>1. rcv_queue' \in Seq(Messages) /\ Len(rcv_queue') <= RcvCap
    BY <1>6 DEF RecvBlocks, TypeOK
  <2>2. /\ task' \in [Tasks -> {"running", "parked", "done"}]
        /\ \A u \in Tasks : task'[u] = "parked"
             <=> (u = t \/ (task[u] = "parked" /\ u # pending_receiver))
    <3>1. t \in Tasks /\ task' = Parked(t, pending_receiver)
      BY <1>6 DEF RecvBlocks, Tasks
    <3>. QED  BY <3>1, ParkedFacts
  <2>3. TypeOK'
    BY <1>6, <2>1, <2>2 DEF RecvBlocks, TypeOK
  <2>. QED  BY <1>6, <2>2, <2>3 DEF RecvBlocks, Tasks
<1>7. ASSUME NEW t \in Tasks, Cancel(t)
      PROVE  WakeInv'
  BY <1>7 DEF Cancel, TypeOK, Tasks
<1>8. ASSUME NEW rejected \in BOOLEAN, Input(rejected)
      PROVE  WakeInv'
  <2>1. PICK left \in 0 .. wait_snd, window \in RmtWnds,
             new \in {<<>>} \cup {<<m>> : m \in Messages} :
          /\ Len(rcv_queue \o new) <= RcvCap
          /\ wait_snd' = left /\ rmt_wnd' = window /\ waiting_conv' = FALSE
          /\ rcv_queue' = rcv_queue \o new
          /\ overlooked' = rejected
          /\ UNCHANGED <<closed, sent_first>>
          /\ \E woken : /\ task' = Woken(woken)
                        /\ pending_sender' = Emptied(pending_sender, woken)
                        /\ pending_receiver' = Emptied(pending_receiver, woken)
    BY <1>8 DEF Input
  <2>0. PICK woken :
          /\ task' = Woken(woken)
          /\ pending_sender' = Emptied(pending_sender, woken)
          /\ pending_receiver' = Emptied(pending_receiver, woken)
    BY <2>1
  <2>2. rcv_queue' \in Seq(Messages)
    <3>1. CASE new = <<>>
      BY <2>1, <3>1 DEF TypeOK
    <3>2. ASSUME NEW m \in Messages, new = <<m>>
          PROVE  rcv_queue \o new \in Seq(Messages)
      BY <3>2 DEF TypeOK
    <3>. QED  BY <2>1, <3>1, <3>2
  <2>3. wait_snd' \in Nat
    BY <2>1 DEF TypeOK
  <2>4. /\ task' \in [Tasks -> {"running", "parked", "done"}]
        /\ \A u \in Tasks :
             task'[u] = "parked" <=> (task[u] = "parked" /\ u \notin woken)
    BY <2>0, WokenFacts
  <2>5. TypeOK'
    BY <2>0, <2>1, <2>2, <2>3, <2>4 DEF TypeOK, Emptied
  <2>. QED  BY <2>0, <2>1, <2>4, <2>5 DEF Emptied, Tasks
<1>9. CASE UpdateAt
  <2>1. PICK woken : task' = Woken(woken)
                     /\ pending_sender' = Emptied(pending_sender, woken)
                     /\ woken \subseteq {pending_sender}
    BY <1>9 DEF UpdateAt, SenderToWake
  <2>2. /\ task' \in [Tasks -> {"running", "parked", "done"}]
        /\ \A u \in Tasks :
             task'[u] = "parked" <=> (task[u] = "parked" /\ u \notin woken)
    BY <2>1, WokenFacts
  <2>3. TypeOK'
    BY <1>9, <2>1, <2>2 DEF UpdateAt, TypeOK, Emptied
  <2>. QED  BY <1>9, <2>1, <2>2, <2>3 DEF UpdateAt, Emptied, Tasks
<1>10. CASE Close
  <2>1. /\ task' \in [Tasks -> {"running", "parked", "done"}]
        /\ \A u \in Tasks : task'[u] = "parked" <=>
             (task[u] = "parked" /\ u \notin {pending_sender, pending_receiver})
    BY <1>10, WokenFacts DEF Close
  <2>2. TypeOK'
    BY <1>10, <2>1 DEF Close, TypeOK
  <2>. QED  BY <1>10, <2>1, <2>2 DEF Close, Tasks
<1>. QED
  BY <1>1, <1>2, <1>3, <1>4, <1>5, <1>6, <1>7, <1>8, <1>9, <1>10
  DEF Next, PollSend, PollRecv, InputOk, InputRejected

\* Every call leaves the socket's state well typed: the read queue within the
\* window, a slot empty or naming a task of its own kind.
THEOREM TypeCorrect == Spec => []TypeOK
<1>1. WakeInv => TypeOK
  BY DEF WakeInv
<1>. QED  BY <1>1, InitWake, NextWake, PTL DEF Spec

\* A parked task can be woken, whatever was cancelled or replaced before.
THEOREM NoLostWaker == Spec => []ParkedIsRegistered
<1>1. WakeInv => ParkedIsRegistered
  BY DEF WakeInv
<1>. QED  BY <1>1, InitWake, NextWake, PTL DEF Spec

\* finalize leaves nobody waiting.
THEOREM CloseWakesAll == Spec => []ClosedNobodyParked
<1>1. WakeInv => ClosedNobodyParked
  BY DEF WakeInv
<1>. QED  BY <1>1, InitWake, NextWake, PTL DEF Spec

\* No wakeup is ever lost.
LEMMA Wake == Spec => []WakeInv
BY InitWake, NextWake, PTL DEF Spec

-----------------------------------------------------------------------------
(***************************************************************************)
(* The send window.  Nothing is outstanding before the first send.         *)
(***************************************************************************)
SendInv ==
  /\ ~ sent_first => wait_snd = 0
  /\ OvershootBounded /\ OneSegmentUnnamed

\* Every call keeps what is outstanding within its bounds.
LEMMA NextSend == TypeOK /\ SendInv /\ [Next]_vars => SendInv'
<1>. SUFFICES ASSUME TypeOK, SendInv, Next PROVE SendInv'
  BY DEF SendInv, OvershootBounded, OneSegmentUnnamed, vars
<1>. USE WindowAssumption
         DEF TypeOK, SendInv, OvershootBounded, OneSegmentUnnamed
<1>1. ASSUME NEW t \in Writers, SendAccepts(t)
      PROVE  SendInv'
  <2>1. PICK n \in 0 .. MaxChunk : wait_snd' = wait_snd + n
    BY <1>1 DEF SendAccepts
  <2>2. CASE ~ sent_first
    BY <1>1, <2>1, <2>2 DEF SendAccepts, MaxChunk
  <2>3. CASE sent_first
    <3>1. wait_snd < SndWnd /\ ~ waiting_conv /\ n <= MaxSegments
      BY <1>1, <2>3 DEF SendAccepts, MaxChunk, WindowFull
    <3>. QED  BY <1>1, <2>1, <3>1 DEF SendAccepts
  <2>. QED  BY <2>2, <2>3
<1>2. ASSUME NEW rejected \in BOOLEAN, Input(rejected)
      PROVE  SendInv'
  BY <1>2 DEF Input
<1>3. ASSUME NEW t \in Writers, SendClosed(t) \/ SendBlocks(t)
      PROVE  SendInv'
  BY <1>3 DEF SendClosed, SendBlocks
<1>4. ASSUME NEW t \in Readers, PollRecv(t)
      PROVE  SendInv'
  BY <1>4 DEF PollRecv, RecvClosed, RecvReturns, RecvBlocks
<1>5. ASSUME NEW t \in Tasks, Cancel(t)
      PROVE  SendInv'
  BY <1>5 DEF Cancel
<1>6. CASE UpdateAt \/ Close
  BY <1>6 DEF UpdateAt, Close
<1>. QED
  BY <1>1, <1>2, <1>3, <1>4, <1>5, <1>6
  DEF Next, PollSend, InputOk, InputRejected

\* The bounds on what is outstanding hold for ever.
LEMMA Sending == Spec => []SendInv
<1>1. Init => SendInv
  BY WindowAssumption DEF Init, SendInv, OvershootBounded, OneSegmentUnnamed
<1>2. WakeInv => TypeOK
  BY DEF WakeInv
<1>. QED  BY <1>1, <1>2, Wake, NextSend, PTL DEF Spec

\* The window is overshot by less than one chunk, however large the buffer.
THEOREM WindowRespected == Spec => []OvershootBounded
<1>1. SendInv => OvershootBounded
  BY DEF SendInv
<1>. QED  BY <1>1, Sending, PTL

\* One segment at most is outstanding until the conversation is named.
THEOREM FirstSegmentAlone == Spec => []OneSegmentUnnamed
<1>1. SendInv => OneSegmentUnnamed
  BY DEF SendInv
<1>. QED  BY <1>1, Sending, PTL

-----------------------------------------------------------------------------
\* No call leaves a reader parked with a message it could return.
LEMMA NextRead ==
  WakeInv /\ ParkedReaderHasNothing /\ [Next]_vars => ParkedReaderHasNothing'
<1>. SUFFICES ASSUME WakeInv, ParkedReaderHasNothing, Next
              PROVE  ParkedReaderHasNothing'
  BY DEF ParkedReaderHasNothing, Readable, vars
<1>. USE TasksAssumption DEF ParkedReaderHasNothing
<1>0. TypeOK /\ ParkedIsRegistered
  BY DEF WakeInv
<1>1. ASSUME NEW t \in Writers, PollSend(t)
      PROVE  ParkedReaderHasNothing'
  <2>1. rcv_queue' = rcv_queue /\ overlooked' = overlooked
    BY <1>1 DEF PollSend, SendClosed, SendBlocks, SendAccepts
  <2>2. \A u \in Readers : task'[u] = "parked" => task[u] = "parked"
    <3>1. CASE SendBlocks(t)
      <4>1. t \in Tasks /\ task' = Parked(t, pending_sender)
        BY <3>1 DEF SendBlocks, Tasks
      <4>. QED  BY <1>0, <4>1, ParkedFacts DEF Tasks
    <3>2. CASE SendClosed(t) \/ SendAccepts(t)
      BY <1>0, <3>2 DEF SendClosed, SendAccepts, TypeOK, Tasks
    <3>. QED  BY <1>1, <3>1, <3>2 DEF PollSend
  <2>. QED  BY <2>1, <2>2 DEF Readable
<1>2. ASSUME NEW t \in Readers, RecvClosed(t)
      PROVE  ParkedReaderHasNothing'
  BY <1>0, <1>2 DEF RecvClosed, TypeOK, Tasks, Readable
<1>3. ASSUME NEW t \in Readers, RecvReturns(t)
      PROVE  ParkedReaderHasNothing'
  BY <1>3 DEF RecvReturns
<1>4. ASSUME NEW t \in Readers, RecvBlocks(t)
      PROVE  ParkedReaderHasNothing'
  BY <1>4 DEF RecvBlocks, Readable
<1>5. ASSUME NEW t \in Tasks, Cancel(t)
      PROVE  ParkedReaderHasNothing'
  BY <1>0, <1>5 DEF Cancel, TypeOK, Tasks, Readable
<1>6. ASSUME Input(FALSE)
      PROVE  ParkedReaderHasNothing'
  <2>1. PICK woken :
          /\ task' = Woken(woken)
          /\ ReceiverToWake(rcv_queue') \subseteq woken
    BY <1>6 DEF Input
  <2>2. ASSUME NEW u \in Readers, task'[u] = "parked", Readable(rcv_queue')
        PROVE  FALSE
    <3>1. u \in Tasks
      BY DEF Tasks
    <3>2. task[u] = "parked" /\ u \notin woken
      BY <1>0, <2>1, <2>2, <3>1, WokenFacts
    <3>3. pending_receiver = u /\ u # None
      BY <1>0, <3>2 DEF ParkedIsRegistered
    <3>. QED  BY <2>1, <2>2, <3>2, <3>3 DEF ReceiverToWake
  <2>. QED  BY <2>2 DEF Readable
<1>7. CASE Input(TRUE)
  BY <1>7 DEF Input
<1>8. CASE UpdateAt \/ Close
  <2>1. rcv_queue' = rcv_queue /\ overlooked' = overlooked
    BY <1>8 DEF UpdateAt, Close
  <2>2. PICK woken : task' = Woken(woken)
    BY <1>8 DEF UpdateAt, Close
  <2>3. \A u \in Readers : task'[u] = "parked" => task[u] = "parked"
    BY <1>0, <2>2, WokenFacts DEF Tasks
  <2>. QED  BY <2>1, <2>3 DEF Readable
<1>. QED
  BY <1>1, <1>2, <1>3, <1>4, <1>5, <1>6, <1>7, <1>8
  DEF Next, PollRecv, InputOk, InputRejected

\* No reader sleeps over a message it could return, whatever the configuration
\* and the peer, unless a datagram was rejected or an empty message skipped.
THEOREM ReaderNotForgotten == Spec => []ParkedReaderHasNothing
<1>1. Init => ParkedReaderHasNothing
  BY DEF Init, ParkedReaderHasNothing, Tasks
<1>. QED  BY <1>1, Wake, NextRead, PTL DEF Spec

=============================================================================
