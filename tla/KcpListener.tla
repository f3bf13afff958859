----------------------------- MODULE KcpListener -----------------------------
(***************************************************************************)
(* The server: the listener task (src/src/listener.rs) and the session     *)
(* manager it owns (src/src/session.rs), composed with the sessions of     *)
(* KcpSession.  The task is a loop around select!: it takes either a close *)
(* notice or a datagram, and while it handles a datagram it may block on   *)
(* the input channel of one session.                                       *)
(*                                                                         *)
(* A datagram with conversation 0 is given a random non-zero number before *)
(* anything else looks at it, so it is a datagram of an arbitrary element  *)
(* of Convs.  A datagram of another conversation that is not first, one    *)
(* whose KCP segment is too short, and a recv_from error change no state   *)
(* and are left out; a FEC data packet without room for its size field     *)
(* does not pass for too short, and ends the task (ListenerPanics).        *)
(***************************************************************************)
EXTENDS KcpSession, Functions

CONSTANTS
  AcceptCap,     \* capacity of the accept channel (1024 in the code)
  Fec            \* config.fec.enabled()

ASSUME AcceptAssumption == AcceptCap \in Nat \ {0} /\ Fec \in BOOLEAN

VARIABLES
  table,     \* KcpSessionManager.sessions
  acceptq,   \* the accept channel: sessions whose stream waits for accept()
  closeq,    \* close_rx: the peers of the close notices not yet taken
  lpc,       \* where the listener task is
  hand,      \* the session and the datagram it is handling
  handle     \* "open" until the application drops the KcpListener

listenerVars == <<table, acceptq, closeq, lpc, hand, handle>>
vars == <<sessionVars, listenerVars>>

(***************************************************************************)
(* "select": at the select!.  "offer": before accept_tx.try_send.          *)
(* "input": waiting in session.input().  "stopped": the task has ended, by *)
(* the abort or by a panic.                                                *)
(***************************************************************************)
ListenerStates == {"select", "offer", "input", "stopped"}
NoHand == [sess |-> None, pkt |-> None]

TypeOK ==
  /\ SessionTypeOK
  /\ table \in [Peers -> Sessions \cup {None}]
  /\ acceptq \in Seq(Sessions) /\ Len(acceptq) <= AcceptCap
  /\ closeq \in Seq(Peers)
  /\ lpc \in ListenerStates
  /\ hand \in [sess : Sessions, pkt : Packets] \cup {NoHand}
  /\ handle \in {"open", "dropped"}

Init ==
  /\ SessionInit
  /\ table = [p \in Peers |-> None]
  /\ acceptq = <<>>
  /\ closeq = <<>>
  /\ lpc = "select"
  /\ hand = NoHand
  /\ handle = "open"

-----------------------------------------------------------------------------
(***************************************************************************)
(* get_or_create for the first datagram of a conversation: a peer without  *)
(* an entry gets a session whatever the datagram's sequence number is, one *)
(* whose entry is of another conversation only if the number is 0.         *)
(***************************************************************************)
ListenerCreate(p, c, s, sn0) ==
  /\ lpc = "select"
  /\ table[p] # None => sn0 /\ conv[table[p]] # c
  /\ NewShared(s, p, c, table[p])
  /\ table' = [table EXCEPT ![p] = s]
  /\ hand' = [sess |-> s, pkt |-> c]
  /\ lpc' = "offer"
  /\ UNCHANGED <<acceptq, closeq, handle>>

\* Mutant of ListenerRoute: the conversation is not compared.
ListenerRouteAny(p, c) ==
  /\ lpc = "select"
  /\ table[p] # None
  /\ hand' = [sess |-> table[p], pkt |-> c]
  /\ lpc' = "input"
  /\ UNCHANGED <<sessionVars, table, acceptq, closeq, handle>>

\* A datagram of the conversation its peer already has.
ListenerRoute(p, c) ==
  /\ lpc = "select"
  /\ table[p] # None
  /\ conv[table[p]] = c
  /\ hand' = [sess |-> table[p], pkt |-> c]
  /\ lpc' = "input"
  /\ UNCHANGED <<sessionVars, table, acceptq, closeq, handle>>

\* A parity packet goes to the session its peer has now, whichever it is.
ListenerRouteParity(p) ==
  /\ Fec
  /\ lpc = "select"
  /\ table[p] # None
  /\ hand' = [sess |-> table[p], pkt |-> None]
  /\ lpc' = "input"
  /\ UNCHANGED <<sessionVars, table, acceptq, closeq, handle>>

(***************************************************************************)
(* accept_tx.try_send: the stream is queued, or it is dropped and the      *)
(* manager forgets the peer; dropping either one closes the session.       *)
(***************************************************************************)
OfferAccepted ==
  /\ lpc = "offer"
  /\ handle = "open"
  /\ Len(acceptq) < AcceptCap
  /\ acceptq' = Append(acceptq, hand.sess)
  /\ stream' = [stream EXCEPT ![hand.sess] = "queued"]
  /\ lpc' = "input"
  /\ UNCHANGED <<phase, peer, conv, closed, sock, io, inq, unacked, idle,
                 forced, late, table, closeq, hand, handle>>

OfferRejected ==
  /\ lpc = "offer"
  /\ handle = "dropped" \/ Len(acceptq) >= AcceptCap
  /\ stream' = [stream EXCEPT ![hand.sess] = "dropped"]
  /\ table' = [table EXCEPT ![peer[hand.sess]] = None]
  /\ closed' = [closed EXCEPT ![hand.sess] = TRUE]
  /\ hand' = NoHand
  /\ lpc' = "select"
  /\ UNCHANGED <<phase, peer, conv, sock, io, inq, unacked, idle, forced,
                 late, acceptq, closeq, handle>>

\* Mutant of DeliverInput: the channel has no capacity.
DeliverInputUnbounded ==
  /\ lpc = "input"
  /\ inq' = [inq EXCEPT ![hand.sess] = Append(@, hand.pkt)]
  /\ hand' = NoHand
  /\ lpc' = "select"
  /\ UNCHANGED <<phase, peer, conv, closed, sock, io, unacked, idle, stream,
                 forced, late, table, acceptq, closeq, handle>>

\* Mutant of DeliverInput: a failed send is waited for like a full channel.
DeliverInputStuck ==
  /\ lpc = "input"
  /\ io[hand.sess] # "gone"
  /\ Len(inq[hand.sess]) < InputCap
  /\ inq' = [inq EXCEPT ![hand.sess] = Append(@, hand.pkt)]
  /\ hand' = NoHand
  /\ lpc' = "select"
  /\ UNCHANGED <<phase, peer, conv, closed, sock, io, unacked, idle, stream,
                 forced, late, table, acceptq, closeq, handle>>

(***************************************************************************)
(* session.input().await: the datagram enters the input channel when there *)
(* is room; once the io task is gone, send fails and the datagram is lost. *)
(***************************************************************************)
DeliverInput ==
  /\ lpc = "input"
  /\ \/ /\ io[hand.sess] # "gone"
        /\ Len(inq[hand.sess]) < InputCap
        /\ inq' = [inq EXCEPT ![hand.sess] = Append(@, hand.pkt)]
     \/ /\ io[hand.sess] = "gone"
        /\ UNCHANGED inq
  /\ hand' = NoHand
  /\ lpc' = "select"
  /\ UNCHANGED <<phase, peer, conv, closed, sock, io, unacked, idle, stream,
                 forced, late, table, acceptq, closeq, handle>>

(***************************************************************************)
(* close_rx.recv: close_peer removes whatever entry the peer has, and the  *)
(* drop of the KcpSessionUniq closes that session.                         *)
(***************************************************************************)
CloseNone(sessions) == closed    \* mutant of CloseIf: the drop does not close
CloseIf(sessions) == [s \in Sessions |-> closed[s] \/ s \in sessions]

ListenerClose ==
  /\ lpc = "select"
  /\ closeq # <<>>
  /\ closeq' = Tail(closeq)
  /\ table' = [table EXCEPT ![Head(closeq)] = None]
  /\ closed' = CloseIf({table[Head(closeq)]})
  /\ UNCHANGED <<phase, peer, conv, sock, io, inq, unacked, idle, stream,
                 forced, late, acceptq, lpc, hand, handle>>

(***************************************************************************)
(* The task ends: its manager, and with it every entry, is dropped, and    *)
(* close_rx too.  accept_tx goes with it: what it queued can still be      *)
(* accepted, after that accept fails at once.                              *)
(***************************************************************************)
TaskEnds ==
  /\ lpc' = "stopped"
  /\ closed' = CloseIf(Range(table))
  /\ table' = [p \in Peers |-> None]
  /\ closeq' = <<>>
  /\ hand' = NoHand
  /\ UNCHANGED <<phase, peer, conv, sock, io, inq, unacked, idle, stream,
                 forced, late, acceptq, handle>>

\* The abort takes effect where the task waits.
ListenerAborted == handle = "dropped" /\ lpc \in {"select", "input"} /\ TaskEnds

(***************************************************************************)
(* A FEC data packet cut after its header: is_data_packet looks at the 6   *)
(* bytes of the header only, data_payload_mut wants the 2 of the size too, *)
(* and its None is unwrapped.                                              *)
(***************************************************************************)
ListenerPanics == Fec /\ lpc = "select" /\ TaskEnds

-----------------------------------------------------------------------------
\* KcpListener::accept.
Accept ==
  /\ handle = "open"
  /\ acceptq # <<>>
  /\ acceptq' = Tail(acceptq)
  /\ stream' = [stream EXCEPT ![Head(acceptq)] = "held"]
  /\ UNCHANGED <<phase, peer, conv, closed, sock, io, inq, unacked, idle,
                 forced, late, table, closeq, lpc, hand, handle>>

\* Drop for KcpListener: abort the task, drop the streams nobody accepted.
DropListener ==
  /\ handle = "open"
  /\ handle' = "dropped"
  /\ acceptq' = <<>>
  /\ stream' = [s \in Sessions |->
                  IF s \in Range(acceptq) THEN "dropped" ELSE stream[s]]
  /\ closed' = CloseIf(Range(acceptq))
  /\ UNCHANGED <<phase, peer, conv, sock, io, inq, unacked, idle, forced,
                 late, table, closeq, lpc, hand>>

\* Mutant of SendNotice: the listener is not notified.
SendNoNotice(s) ==
  /\ FinalizeNotify(s)
  /\ UNCHANGED listenerVars

\* finalize sends the close notice; nobody takes it when the task is gone.
SendNotice(s) ==
  /\ FinalizeNotify(s)
  /\ closeq' = IF lpc = "stopped" THEN closeq ELSE Append(closeq, peer[s])
  /\ UNCHANGED <<table, acceptq, lpc, hand, handle>>

-----------------------------------------------------------------------------
IoTask(s) == (IoInput(s) \/ IoAborted(s)) /\ UNCHANGED listenerVars

Tick(s) == (GiveUp(s) \/ CloseIdle(s)) /\ UNCHANGED listenerVars

Finalize(s) ==
  \/ (FinalizeClose(s) \/ FinalizeAbort(s) \/ FinalizeMark(s))
       /\ UNCHANGED listenerVars
  \/ SendNotice(s)

Application(s) ==
  (Send(s) \/ Touch(s) \/ DropStream(s)) /\ UNCHANGED listenerVars

Elapse(s) == Age(s) /\ UNCHANGED listenerVars

ListenerRecv ==
  \/ \E p \in Peers :
       \/ \E c \in Convs, s \in Sessions, sn0 \in BOOLEAN :
            ListenerCreate(p, c, s, sn0)
       \/ \E c \in Convs : ListenerRoute(p, c)
       \/ ListenerRouteParity(p)
  \/ ListenerPanics

Offer == OfferAccepted \/ OfferRejected

Next ==
  \/ ListenerRecv \/ Offer \/ DeliverInput \/ ListenerClose
  \/ ListenerAborted \/ Accept \/ DropListener
  \/ \E s \in Sessions :
       IoTask(s) \/ Tick(s) \/ Finalize(s) \/ Application(s) \/ Elapse(s)

Spec == Init /\ [][Next]_vars

(***************************************************************************)
(* The runtime polls every task that can go on, the scheduler polls every  *)
(* session, and time passes.  select! tries its branches in random order,  *)
(* so a close notice is taken even if datagrams never stop coming.         *)
(* Nothing is assumed of the peers and of the application.                 *)
(***************************************************************************)
Fairness ==
  /\ WF_vars(Offer) /\ WF_vars(DeliverInput) /\ WF_vars(ListenerAborted)
  /\ SF_vars(ListenerClose)
  /\ \A s \in Sessions : /\ WF_vars(IoTask(s)) /\ WF_vars(Tick(s) \/ Finalize(s))
                         /\ WF_vars(Elapse(s))

FairSpec == Spec /\ Fairness

-----------------------------------------------------------------------------
(***************************************************************************)
(* A session the manager does not hold is closed: whoever removes or       *)
(* replaces an entry (close_peer, get_or_create, the drop of the manager)  *)
(* drops a KcpSessionUniq.  A session that escaped would run for ever.     *)
(***************************************************************************)
EvictedIsClosed ==
  \A s \in Sessions :
    (phase[s] # "free" /\ table[peer[s]] # s) => closed[s]

(***************************************************************************)
(* A session nobody has closed has exactly the KcpStream that will close   *)
(* it: with the application, in the accept channel, or about to be offered *)
(* to it.  A stream lost on a failed accept would leak its session.        *)
(***************************************************************************)
OpenHasOwner ==
  \A s \in Sessions :
    (phase[s] # "free" /\ ~ closed[s]) =>
      \/ stream[s] = "held"
      \/ s \in Range(acceptq)
      \/ lpc = "offer" /\ hand.sess = s

(***************************************************************************)
(* While a finished session still has its entry, its close notice is still *)
(* in the channel: the entry cannot outlive the session.                   *)
(***************************************************************************)
FinishedEntryHasNotice ==
  \A p \in Peers :
    (table[p] # None /\ Notified(table[p])) => p \in Range(closeq)

(***************************************************************************)
(* Data waits only in the input channel of the session of its own          *)
(* conversation, though the entry of its peer may have been replaced since *)
(* it was routed.                                                          *)
(***************************************************************************)
RoutedToItsConv ==
  \A s \in Sessions :
    /\ \A i \in DOMAIN inq[s] : inq[s][i] \in {None, conv[s]}
    /\ hand.sess = s => hand.pkt \in {None, conv[s]}

(***************************************************************************)
(* A session that was given up for another reason than session_expire had  *)
(* everything it accepted acknowledged, but for what a write slipped in    *)
(* after the decision.                                                     *)
(***************************************************************************)
GracefulClose ==
  \A s \in Sessions :
    (GivenUp(s) /\ ~ forced[s] /\ ~ late[s]) => unacked[s] = 0

(***************************************************************************)
(* A session that left the manager, and whose application dropped its      *)
(* stream, is finalized (session_expire is set): otherwise its task, its   *)
(* socket and its place in the scheduler would stay for ever.  An          *)
(* abandoned session remains one until it is finalized, and a behaviour    *)
(* has finitely many, so it is enough that at some time there is none.     *)
(***************************************************************************)
Abandoned(s) ==
  /\ phase[s] \notin {"free", "final"}
  /\ table[peer[s]] # s /\ stream[s] = "dropped"

EvictedDroppedFinalized ==
  (\E s \in Sessions : Abandoned(s)) ~> (\A s \in Sessions : ~ Abandoned(s))

\* The entry of a finished session is removed: the peer can start again.
FinishedEntry(p) == table[p] # None /\ Notified(table[p])
FinishedEntryLeaves == \A p \in Peers : FinishedEntry(p) ~> ~ FinishedEntry(p)

(***************************************************************************)
(* The listener never stays blocked on a session's full input channel,     *)
(* even when that session is finalized and its io task aborted meanwhile:  *)
(* it comes back to its select!, unless the abort stops it.                *)
(***************************************************************************)
ListenerGoesOn ==
  lpc \in {"offer", "input"} ~>
    lpc = "select" \/ (lpc = "stopped" /\ handle = "dropped")

-----------------------------------------------------------------------------
(***************************************************************************)
(* The inductive invariant.  What the properties above rest on: the        *)
(* listener has a session in hand while it handles a datagram; an entry is *)
(* of a session created for that peer; a session offered to the            *)
(* application still has its entry, since only the listener, which is at   *)
(* the offer, removes entries; nothing is queued for a session that does   *)
(* not exist yet; a listener task that has ended left no entry behind.     *)
(***************************************************************************)
HandHeld ==
  lpc \in {"offer", "input"} =>
    /\ hand # NoHand
    /\ phase[hand.sess] # "free"
    /\ lpc = "offer" => table[peer[hand.sess]] = hand.sess

HandEmpty == lpc \in {"select", "stopped"} => hand = NoHand

CreatedHasPeer == \A s \in Sessions : phase[s] # "free" => peer[s] \in Peers

EntryIsOfPeer ==
  \A p \in Peers :
    table[p] # None => phase[table[p]] # "free" /\ peer[table[p]] = p

FreeIsFresh == \A s \in Sessions : phase[s] = "free" => inq[s] = <<>>

StoppedHasNoEntry == lpc = "stopped" => \A p \in Peers : table[p] = None

IInv ==
  /\ TypeOK
  /\ HandHeld /\ HandEmpty
  /\ CreatedHasPeer /\ EntryIsOfPeer /\ FreeIsFresh /\ StoppedHasNoEntry
  /\ EvictedIsClosed /\ OpenHasOwner /\ FinishedEntryHasNotice
  /\ RoutedToItsConv /\ GracefulClose

-----------------------------------------------------------------------------
(***************************************************************************)
(* A close notice removes the entry of the session that sent it, one that  *)
(* is finished.  The notice carries the peer's address only.               *)
(***************************************************************************)
NoticeEvictsFinished ==
  [][\A p \in Peers :
       (Len(closeq') < Len(closeq) /\ lpc' # "stopped"
          /\ table[p] # None /\ table'[p] = None)
       => Notified(table[p])]_vars

(***************************************************************************)
(* What a write accepted is acknowledged before the session is over,       *)
(* unless session_expire forced its end.                                   *)
(***************************************************************************)
AcceptedDataIsSent ==
  \A s \in Sessions :
    (phase[s] = "final" /\ ~ forced[s]) => unacked[s] = 0

=============================================================================
