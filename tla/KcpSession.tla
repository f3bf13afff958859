------------------------------ MODULE KcpSession ------------------------------
(***************************************************************************)
(* The KcpSession objects of a server (src/src/session.rs), each driven by *)
(* three threads of control that share it behind an Arc:                   *)
(*   - its io task, which feeds datagrams from input_rx to the socket;     *)
(*   - a scheduler thread, which calls poll_scheduler_tick and, when that  *)
(*     decides the session is over, finalize;                              *)
(*   - the application, through the KcpStream that owns a reference.       *)
(* The listener, which creates and evicts sessions, is in KcpListener.     *)
(*                                                                         *)
(* The KCP state is reduced to what the life of a session depends on: how  *)
(* many segments the socket still waits to be acknowledged (wait_snd), and *)
(* how long ago last_update_ms was refreshed, in units of session_expire.  *)
(***************************************************************************)
EXTENDS Naturals, Sequences

CONSTANTS
  Sessions,    \* the sessions one behaviour may create (bounds creations)
  Peers,       \* remote socket addresses
  Convs,       \* non-zero conversation numbers
  None,        \* absence of a session, a peer or a conversation
  InputCap,    \* capacity of a session's input channel (64 in the code)
  SndWnd,      \* segments poll_send accepts before it blocks
  Expires      \* is session_expire configured?

ASSUME NoneAssumption ==
  None \notin Sessions /\ None \notin Peers /\ None \notin Convs
ASSUME BoundsAssumption ==
  /\ InputCap \in Nat \ {0}
  /\ SndWnd \in Nat \ {0}
  /\ Expires \in BOOLEAN

VARIABLES
  phase,    \* phase[s]: where the scheduler is with s
  peer,     \* peer[s], conv[s]: fixed when s is created
  conv,
  closed,   \* closed[s]: the AtomicBool KcpSession.closed
  sock,     \* sock[s]: KcpSocket.closed
  io,       \* io[s]: the io task; input_rx is dropped when it is "gone"
  inq,      \* inq[s]: content of the input channel
  unacked,  \* unacked[s]: Kcp::wait_snd()
  idle,     \* idle[s]: 0, 1 or 2: elapsed_ms <= expire, <= 2*expire, more
  stream,   \* stream[s]: where the KcpStream of s is
  forced,   \* history: forced[s], s was given up because it was idle
  late      \* history: late[s], a segment was accepted after s was given up

sessionVars == <<phase, peer, conv, closed, sock, io, inq, unacked, idle,
                 stream, forced, late>>

(***************************************************************************)
(* "ticking": in a shard of the scheduler.  The others are the positions   *)
(* inside finalize: before socket.close(), before abort(), before the      *)
(* close notice is sent, before the final store, and after the return.     *)
(***************************************************************************)
Phases == {"free", "ticking", "close", "abort", "notify", "mark", "final"}
IoStates == {"off", "running", "aborting", "gone"}
StreamStates == {"none", "queued", "held", "dropped"}
\* A datagram: the conversation its data is of; None for a parity packet.
Packets == Convs \cup {None}

\* The sessions whose close notice has been sent.
Notified(s) == phase[s] \in {"mark", "final"}
\* The sessions drive_update has returned None for.
GivenUp(s) == phase[s] \in {"close", "abort", "notify", "mark", "final"}

SessionTypeOK ==
  /\ phase \in [Sessions -> Phases]
  /\ peer \in [Sessions -> Peers \cup {None}]
  /\ conv \in [Sessions -> Convs \cup {None}]
  /\ closed \in [Sessions -> BOOLEAN]
  /\ sock \in [Sessions -> BOOLEAN]
  /\ io \in [Sessions -> IoStates]
  /\ inq \in [Sessions -> Seq(Packets)]
  /\ \A s \in Sessions : Len(inq[s]) <= InputCap
  /\ unacked \in [Sessions -> Nat]
  /\ idle \in [Sessions -> 0..2]
  /\ stream \in [Sessions -> StreamStates]
  /\ forced \in [Sessions -> BOOLEAN]
  /\ late \in [Sessions -> BOOLEAN]

SessionInit ==
  /\ phase = [s \in Sessions |-> "free"]
  /\ peer = [s \in Sessions |-> None]
  /\ conv = [s \in Sessions |-> None]
  /\ closed = [s \in Sessions |-> FALSE]
  /\ sock = [s \in Sessions |-> FALSE]
  /\ io = [s \in Sessions |-> "off"]
  /\ inq = [s \in Sessions |-> <<>>]
  /\ unacked = [s \in Sessions |-> 0]
  /\ idle = [s \in Sessions |-> 0]
  /\ stream = [s \in Sessions |-> "none"]
  /\ forced = [s \in Sessions |-> FALSE]
  /\ late = [s \in Sessions |-> FALSE]

-----------------------------------------------------------------------------
(***************************************************************************)
(* KcpSession::new_shared: the io task is spawned and the session is       *)
(* registered with the scheduler.  The listener drops the entry of old (if *)
(* there is one) in the same step, which closes it.                        *)
(***************************************************************************)
NewShared(s, p, c, old) ==
  /\ phase[s] = "free"
  /\ phase' = [phase EXCEPT ![s] = "ticking"]
  /\ peer' = [peer EXCEPT ![s] = p]
  /\ conv' = [conv EXCEPT ![s] = c]
  /\ io' = [io EXCEPT ![s] = "running"]
  /\ closed' = [x \in Sessions |-> closed[x] \/ x = old]
  /\ UNCHANGED <<sock, inq, unacked, idle, stream, forced, late>>

(***************************************************************************)
(* One turn of the io task: take a datagram and call KcpSocket::input.     *)
(* Data of another conversation is ignored.  Data of this one, or what a   *)
(* parity packet recovers, may acknowledge any number of segments, and     *)
(* refreshes last_update_ms unless a malformed segment follows the acks.   *)
(***************************************************************************)
IoInput(s) ==
  /\ io[s] \in {"running", "aborting"}
  /\ inq[s] # <<>>
  /\ inq' = [inq EXCEPT ![s] = Tail(@)]
  /\ \E left \in 0 .. unacked[s], age \in {0, idle[s]} :
       /\ Head(inq[s]) \in Convs \ {conv[s]} =>
            left = unacked[s] /\ age = idle[s]
       /\ unacked' = [unacked EXCEPT ![s] = left]
       /\ idle' = [idle EXCEPT ![s] = age]
  /\ UNCHANGED <<phase, peer, conv, closed, sock, io, stream, forced, late>>

\* The runtime carries out the abort: the task and its input_rx are dropped.
IoAborted(s) ==
  /\ io[s] = "aborting"
  /\ io' = [io EXCEPT ![s] = "gone"]
  /\ inq' = [inq EXCEPT ![s] = <<>>]
  /\ UNCHANGED <<phase, peer, conv, closed, sock, unacked, idle, stream,
                 forced, late>>

-----------------------------------------------------------------------------
(***************************************************************************)
(* poll_scheduler_tick, first half: drive_update, under the socket lock.   *)
(* The session is given up when it is closed and everything it sent is     *)
(* acknowledged (can_close), or when it was idle for twice session_expire. *)
(***************************************************************************)
CanCloseAlways(s) == TRUE   \* mutant of CanClose: wait_snd is not asked
CanClose(s) == unacked[s] = 0
\* Mutant of IdleTooLong: a client that does not acknowledge is waited for.
IdleAndAcknowledged(s) == Expires /\ idle[s] = 2 /\ CanClose(s)

\* Twice session_expire have passed with nothing received.
IdleTooLong(s) == Expires /\ idle[s] = 2

GiveUp(s) ==
  /\ phase[s] = "ticking"
  /\ \/ closed[s] /\ CanClose(s)
     \/ IdleTooLong(s)
  /\ phase' = [phase EXCEPT ![s] = "close"]
  /\ forced' = [forced EXCEPT ![s] = ~(closed[s] /\ CanClose(s))]
  /\ UNCHANGED <<peer, conv, closed, sock, io, inq, unacked, idle, stream,
                 late>>

\* drive_update closes an idle session and goes on updating it.
CloseIdle(s) ==
  /\ phase[s] = "ticking"
  /\ ~ closed[s]
  /\ Expires /\ idle[s] = 1
  /\ closed' = [closed EXCEPT ![s] = TRUE]
  /\ UNCHANGED <<phase, peer, conv, sock, io, inq, unacked, idle, stream,
                 forced, late>>

(***************************************************************************)
(* finalize, in its order: close the socket, abort the io task, notify the *)
(* listener (FinalizeNotify is completed in KcpListener), store closed.    *)
(***************************************************************************)
FinalizeClose(s) ==
  /\ phase[s] = "close"
  /\ phase' = [phase EXCEPT ![s] = "abort"]
  /\ sock' = [sock EXCEPT ![s] = TRUE]
  /\ UNCHANGED <<peer, conv, closed, io, inq, unacked, idle, stream, forced,
                 late>>

FinalizeAbort(s) ==
  /\ phase[s] = "abort"
  /\ phase' = [phase EXCEPT ![s] = "notify"]
  /\ io' = [io EXCEPT ![s] = "aborting"]
  /\ UNCHANGED <<peer, conv, closed, sock, inq, unacked, idle, stream,
                 forced, late>>

FinalizeNotify(s) ==
  /\ phase[s] = "notify"
  /\ phase' = [phase EXCEPT ![s] = "mark"]
  /\ UNCHANGED <<peer, conv, closed, sock, io, inq, unacked, idle, stream,
                 forced, late>>

FinalizeMark(s) ==
  /\ phase[s] = "mark"
  /\ phase' = [phase EXCEPT ![s] = "final"]
  /\ closed' = [closed EXCEPT ![s] = TRUE]
  /\ UNCHANGED <<peer, conv, sock, io, inq, unacked, idle, stream, forced,
                 late>>

-----------------------------------------------------------------------------
(***************************************************************************)
(* The application.  poll_send looks at KcpSocket.closed, not at           *)
(* KcpSession.closed: a stream whose session is closed can still be        *)
(* written until the scheduler has closed the socket.                      *)
(***************************************************************************)
Send(s) ==
  /\ stream[s] = "held"
  /\ ~ sock[s]
  /\ unacked[s] < SndWnd
  /\ unacked' = [unacked EXCEPT ![s] = @ + 1]
  /\ idle' = [idle EXCEPT ![s] = 0]
  /\ late' = [late EXCEPT ![s] = @ \/ GivenUp(s)]
  /\ UNCHANGED <<phase, peer, conv, closed, sock, io, inq, stream, forced>>

\* poll_flush and a successful poll_recv refresh last_update_ms.
Touch(s) ==
  /\ stream[s] = "held"
  /\ idle' = [idle EXCEPT ![s] = 0]
  /\ UNCHANGED <<phase, peer, conv, closed, sock, io, inq, unacked, stream,
                 forced, late>>

\* Mutant of DropStream: the session is not closed.
DropStreamOpen(s) ==
  /\ stream[s] = "held"
  /\ stream' = [stream EXCEPT ![s] = "dropped"]
  /\ UNCHANGED <<phase, peer, conv, closed, sock, io, inq, unacked, idle,
                 forced, late>>

\* Drop for KcpStream.
DropStream(s) ==
  /\ stream[s] = "held"
  /\ stream' = [stream EXCEPT ![s] = "dropped"]
  /\ closed' = [closed EXCEPT ![s] = TRUE]
  /\ UNCHANGED <<phase, peer, conv, sock, io, inq, unacked, idle, forced,
                 late>>

\* Another session_expire elapses without a refresh.
Age(s) ==
  /\ Expires
  /\ phase[s] = "ticking"
  /\ idle[s] < 2
  /\ idle' = [idle EXCEPT ![s] = @ + 1]
  /\ UNCHANGED <<phase, peer, conv, closed, sock, io, inq, unacked, stream,
                 forced, late>>

=============================================================================
