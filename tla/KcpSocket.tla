------------------------------ MODULE KcpSocket ------------------------------
(***************************************************************************)
(* KcpSocket (src/src/skcp.rs): one KCP machine and the tasks that wait    *)
(* for it.  A task that cannot write or read leaves its waker in a slot,   *)
(* of which there is one for writers and one for readers, and is parked    *)
(* until somebody takes the waker out and wakes it.  Every action runs     *)
(* under the session's spin lock and is atomic.                            *)
(*                                                                         *)
(* The KCP machine is reduced to what the tasks wait for: wait_snd() and   *)
(* the two windows, waiting_conv(), and the messages ready to be read, of  *)
(* which only "empty" or "not empty" matters.                              *)
(***************************************************************************)
EXTENDS Naturals, Sequences

CONSTANTS
  Writers,      \* tasks that call poll_send
  Readers,      \* tasks that call poll_recv
  None,         \* an empty waker slot
  SndWnd,       \* snd_wnd()
  RmtWnds,      \* the values the peer's window takes
  MaxSegments,  \* MAX_SEND_SEGMENTS (127 in the code)
  RcvCap,       \* bound on the messages ready to be read
  AllowEmpty,   \* allow_recv_empty_packet
  EmptySent,    \* does the peer send empty messages?
  Malformed     \* may a datagram be rejected after its first segments?

ASSUME TasksAssumption ==
  /\ Writers \cap Readers = {}
  /\ None \notin Writers \cup Readers
ASSUME WindowAssumption ==
  /\ SndWnd \in Nat \ {0} /\ MaxSegments \in Nat \ {0} /\ RcvCap \in Nat
  /\ RmtWnds \subseteq Nat
  /\ AllowEmpty \in BOOLEAN /\ EmptySent \in BOOLEAN /\ Malformed \in BOOLEAN

VARIABLES
  task,             \* task[t]: "running", "parked" or "done"
  pending_sender,   \* whose waker is in the slot of the writers
  pending_receiver, \* whose waker is in the slot of the readers
  closed,
  sent_first,
  waiting_conv,     \* Kcp::waiting_conv(): the server has not named one yet
  wait_snd,         \* Kcp::wait_snd()
  rmt_wnd,          \* Kcp::rmt_wnd()
  rcv_queue,        \* for each message ready to be read, "is it empty?"
  overlooked        \* history: since the readers were last looked at, was a
                    \* datagram rejected or an empty message skipped?

vars == <<task, pending_sender, pending_receiver, closed, sent_first,
          waiting_conv, wait_snd, rmt_wnd, rcv_queue, overlooked>>

Tasks == Writers \cup Readers
Messages == IF EmptySent THEN {"empty", "data"} ELSE {"data"}

Init ==
  /\ task = [t \in Tasks |-> "running"]
  /\ pending_sender = None
  /\ pending_receiver = None
  /\ closed = FALSE
  /\ sent_first = FALSE
  /\ waiting_conv \in BOOLEAN
  /\ wait_snd = 0
  /\ rmt_wnd \in RmtWnds
  /\ rcv_queue = <<>>
  /\ overlooked = FALSE

-----------------------------------------------------------------------------
\* Waking a task that is not parked does nothing.
Woken(tasks) ==
  [t \in Tasks |-> IF t \in tasks /\ task[t] = "parked"
                   THEN "running" ELSE task[t]]

\* Mutant of Parked: the waker that is replaced is dropped.
ParkedSilently(t, slot) == [task EXCEPT ![t] = "parked"]

\* A task parks: the waker it finds in the slot, if it is another's, is woken.
Parked(t, slot) == [Woken({slot} \ {t}) EXCEPT ![t] = "parked"]

WindowFullLate == wait_snd > SndWnd \/ wait_snd > rmt_wnd  \* mutant

WindowFull == wait_snd >= SndWnd \/ wait_snd >= rmt_wnd

\* The writer to wake (a set of at most one) for given values of the machine.
SenderToWake(outstanding, window, unnamed) ==
  IF outstanding < SndWnd /\ outstanding < window /\ ~ unnamed
  THEN {pending_sender} \ {None} ELSE {}

\* Does poll_recv return the message at the front?
Readable(queue) == queue # <<>> /\ (~ AllowEmpty => Head(queue) = "data")

ReceiverToWakeNever(queue) == {}    \* mutant of ReceiverToWake

\* The reader to wake: an empty message at the front is worth it if allowed.
ReceiverToWake(queue) ==
  IF Readable(queue) THEN {pending_receiver} \ {None} ELSE {}

Emptied(slot, woken) == IF slot \in woken THEN None ELSE slot

-----------------------------------------------------------------------------
\* poll_send.
SendClosed(t) ==
  /\ task[t] = "running"
  /\ closed
  /\ task' = [task EXCEPT ![t] = "done"]
  /\ UNCHANGED <<pending_sender, pending_receiver, closed, sent_first,
                 waiting_conv, wait_snd, rmt_wnd, rcv_queue, overlooked>>

SendBlocks(t) ==
  /\ task[t] = "running"
  /\ ~ closed
  /\ sent_first /\ (WindowFull \/ waiting_conv)
  /\ task' = Parked(t, pending_sender)
  /\ pending_sender' = t
  /\ UNCHANGED <<pending_receiver, closed, sent_first, waiting_conv, wait_snd,
                 rmt_wnd, rcv_queue, overlooked>>

(***************************************************************************)
(* The buffer is cut to MaxSegments segments, to one for the packet that   *)
(* asks the server for a conversation.  In stream mode kcp.send may merge  *)
(* what it is given into the last segment of the queue.                    *)
(***************************************************************************)
MaxChunkAlways == MaxSegments       \* mutant of MaxChunk

MaxChunk == IF ~ sent_first /\ waiting_conv THEN 1 ELSE MaxSegments

SendAccepts(t) ==
  /\ task[t] = "running"
  /\ ~ closed
  /\ ~ (sent_first /\ (WindowFull \/ waiting_conv))
  /\ \E n \in 0 .. MaxChunk :
       /\ n = 0 => wait_snd > 0
       /\ wait_snd' = wait_snd + n
  /\ sent_first' = TRUE
  /\ UNCHANGED <<task, pending_sender, pending_receiver, closed, waiting_conv,
                 rmt_wnd, rcv_queue, overlooked>>

\* poll_recv.
RecvClosed(t) ==
  /\ task[t] = "running"
  /\ closed
  /\ task' = [task EXCEPT ![t] = "done"]
  /\ UNCHANGED <<pending_sender, pending_receiver, closed, sent_first,
                 waiting_conv, wait_snd, rmt_wnd, rcv_queue, overlooked>>

RecvReturns(t) ==
  /\ task[t] = "running"
  /\ ~ closed
  /\ Readable(rcv_queue)
  /\ rcv_queue' = Tail(rcv_queue)
  /\ UNCHANGED <<task, pending_sender, pending_receiver, closed, sent_first,
                 waiting_conv, wait_snd, rmt_wnd, overlooked>>

\* Mutant of RecvBlocks: the reader's waker goes into the writers' slot.
RecvBlocksWrongSlot(t) ==
  /\ task[t] = "running"
  /\ ~ closed
  /\ rcv_queue = <<>>
  /\ task' = Parked(t, pending_sender)
  /\ pending_sender' = t
  /\ UNCHANGED <<pending_receiver, closed, sent_first, waiting_conv, wait_snd,
                 rmt_wnd, rcv_queue, overlooked>>

\* There is nothing to read, or an empty message that is taken and skipped.
RecvBlocks(t) ==
  /\ task[t] = "running"
  /\ ~ closed
  /\ \/ rcv_queue = <<>> /\ UNCHANGED <<rcv_queue, overlooked>>
     \/ /\ rcv_queue # <<>> /\ ~ AllowEmpty /\ Head(rcv_queue) = "empty"
        /\ rcv_queue' = Tail(rcv_queue)
        /\ overlooked' = TRUE
  /\ task' = Parked(t, pending_receiver)
  /\ pending_receiver' = t
  /\ UNCHANGED <<pending_sender, closed, sent_first, waiting_conv, wait_snd,
                 rmt_wnd>>

\* A parked task gives up waiting (a timeout, a select); its waker stays.
Cancel(t) ==
  /\ task[t] = "parked"
  /\ task' = [task EXCEPT ![t] = "running"]
  /\ UNCHANGED <<pending_sender, pending_receiver, closed, sent_first,
                 waiting_conv, wait_snd, rmt_wnd, rcv_queue, overlooked>>

-----------------------------------------------------------------------------
(***************************************************************************)
(* input: kcp.input acknowledges segments, reads the peer's window, names  *)
(* the conversation and completes messages; then the tasks that can go on  *)
(* are woken, unless a later segment made input return before that.        *)
(***************************************************************************)
Input(rejected) ==
  \E left \in 0 .. wait_snd, window \in RmtWnds,
     new \in {<<>>} \cup {<<m>> : m \in Messages} :
    LET queue == rcv_queue \o new
        woken == IF rejected THEN {}
                 ELSE SenderToWake(left, window, FALSE) \cup ReceiverToWake(queue)
    IN /\ Len(queue) <= RcvCap
       /\ wait_snd' = left
       /\ rmt_wnd' = window
       /\ waiting_conv' = FALSE
       /\ rcv_queue' = queue
       /\ task' = Woken(woken)
       /\ pending_sender' = Emptied(pending_sender, woken)
       /\ pending_receiver' = Emptied(pending_receiver, woken)
       /\ overlooked' = rejected
       /\ UNCHANGED <<closed, sent_first>>

InputOk == Input(FALSE)
InputRejected == Malformed /\ Input(TRUE)

\* Mutant of UpdateAt: it does not look at the writers.
UpdateAtBlind == ~ closed /\ UNCHANGED vars

\* update_at, called by the scheduler until it closes the socket.
UpdateAt ==
  LET woken == SenderToWake(wait_snd, rmt_wnd, waiting_conv) IN
  /\ ~ closed
  /\ task' = Woken(woken)
  /\ pending_sender' = Emptied(pending_sender, woken)
  /\ UNCHANGED <<pending_receiver, closed, sent_first, waiting_conv, wait_snd,
                 rmt_wnd, rcv_queue, overlooked>>

\* Mutant of Close: the reader is not woken.
CloseWriterOnly ==
  /\ ~ closed
  /\ closed' = TRUE
  /\ task' = Woken({pending_sender})
  /\ pending_sender' = None
  /\ UNCHANGED <<pending_receiver, sent_first, waiting_conv, wait_snd, rmt_wnd,
                 rcv_queue, overlooked>>

\* close, called by finalize.
Close ==
  /\ ~ closed
  /\ closed' = TRUE
  /\ task' = Woken({pending_sender, pending_receiver})
  /\ pending_sender' = None
  /\ pending_receiver' = None
  /\ UNCHANGED <<sent_first, waiting_conv, wait_snd, rmt_wnd, rcv_queue, overlooked>>

-----------------------------------------------------------------------------
PollSend(t) == SendClosed(t) \/ SendBlocks(t) \/ SendAccepts(t)
PollRecv(t) == RecvClosed(t) \/ RecvReturns(t) \/ RecvBlocks(t)

Next ==
  \/ \E t \in Writers : PollSend(t)
  \/ \E t \in Readers : PollRecv(t)
  \/ \E t \in Tasks : Cancel(t)
  \/ InputOk \/ InputRejected \/ UpdateAt \/ Close

Spec == Init /\ [][Next]_vars

\* The scheduler goes on calling update_at; a task that runs polls again.
Fairness ==
  /\ WF_vars(UpdateAt)
  /\ \A t \in Writers : WF_vars(PollSend(t))
  /\ \A t \in Readers : WF_vars(PollRecv(t))

FairSpec == Spec /\ Fairness

-----------------------------------------------------------------------------
TypeOK ==
  /\ task \in [Tasks -> {"running", "parked", "done"}]
  /\ pending_sender \in Writers \cup {None}
  /\ pending_receiver \in Readers \cup {None}
  /\ closed \in BOOLEAN /\ sent_first \in BOOLEAN /\ waiting_conv \in BOOLEAN
  /\ wait_snd \in Nat
  /\ rmt_wnd \in RmtWnds
  /\ rcv_queue \in Seq(Messages) /\ Len(rcv_queue) <= RcvCap
  /\ overlooked \in BOOLEAN

(***************************************************************************)
(* A parked task has its waker in the slot: one that found the slot taken  *)
(* woke the other, so no task is parked with nobody left to wake it.       *)
(***************************************************************************)
ParkedIsRegistered ==
  /\ \A t \in Writers : task[t] = "parked" => pending_sender = t
  /\ \A t \in Readers : task[t] = "parked" => pending_receiver = t

\* After finalize has closed the socket no task waits for it.
ClosedNobodyParked == closed => \A t \in Tasks : task[t] # "parked"

(***************************************************************************)
(* poll_send looks at the window before it takes a chunk, so a chunk may   *)
(* overshoot it, by less than MAX_SEND_SEGMENTS.                           *)
(***************************************************************************)
OvershootBounded == wait_snd < SndWnd + MaxSegments

(***************************************************************************)
(* Until the server names a conversation one segment is outstanding: more  *)
(* would leave with conversation 0 in one datagram, of which the listener  *)
(* renumbers the first segment only.                                       *)
(***************************************************************************)
OneSegmentUnnamed == waiting_conv => wait_snd <= 1

(***************************************************************************)
(* No reader is left parked while the front message could be returned,     *)
(* unless a datagram was rejected half-way or an empty message skipped     *)
(* since the last input that looked at the readers.                        *)
(***************************************************************************)
ParkedReaderHasNothing ==
  ~ overlooked =>
    \A t \in Readers : task[t] = "parked" => ~ Readable(rcv_queue)

(***************************************************************************)
(* A writer parked while the window is open goes on, whichever call opened *)
(* the window: the next tick of the scheduler looks again.                 *)
(***************************************************************************)
SenderResumes ==
  \A t \in Writers :
    (task[t] = "parked" /\ ~ WindowFull /\ ~ waiting_conv)
      ~> (task[t] # "parked" \/ WindowFull)

(***************************************************************************)
(* A reader for which there is data is woken: empty messages are skipped,  *)
(* they do not hide the data behind them.                                  *)
(***************************************************************************)
ReaderServed ==
  \A t \in Readers :
    (task[t] = "parked" /\ \E i \in DOMAIN rcv_queue : rcv_queue[i] = "data")
      ~> task[t] # "parked"

=============================================================================
