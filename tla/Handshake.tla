----------------------------- MODULE Handshake -------------------------------
(***************************************************************************)
(* How a client that asks for a conversation (conv 0) and the server come  *)
(* to agree on one: the client's io task and poll_send (session.rs,        *)
(* skcp.rs), the listener that names the conversation (listener.rs) and    *)
(* the manager's entry for the client, over a network that loses and       *)
(* reorders datagrams, while KCP retransmits what is not acknowledged.     *)
(*                                                                         *)
(* A datagram is one segment.  What it waits for on its way, the input     *)
(* channel of a session and KCP's list of acknowledgements, is part of the *)
(* network: it is taken and acknowledged at once (flush_acks_input), and   *)
(* what is lost with a session that ends is lost by the network.  The      *)
(* steps of finalize are KcpListener's: here it is one.                    *)
(***************************************************************************)
EXTENDS Integers, FiniteSets

CONSTANTS
  Convs,       \* the numbers alloc_conv may draw
  None,        \* no entry
  Segments,    \* bound on what the client sends
  ToServerCap, \* bounds on the datagrams under way in each direction
  ToClientCap,
  MaxEnding    \* bound on the sessions that lost their entry, until the
               \* listener took their notice

ASSUME HandshakeAssumption ==
  /\ Convs \subseteq Nat \ {0} /\ Convs # {}
  /\ {Segments, ToServerCap, ToClientCap, MaxEnding} \subseteq Nat \ {0}

VARIABLES
  conv,      \* the client's conversation, 0 until it has one
  waiting,   \* waiting_conv: does KCP take the number of the next input?
  next_sn,   \* how many segments it has sent
  unacked,   \* those not acknowledged, with the number each was sent under
  cclosed,   \* its session is closed
  io,        \* its io task: "running", "failed", "aborted"
  entry,     \* the session the manager holds for the client, or None
  replaced,  \* sessions without entry that are not finalized
  notices,   \* how many close notices are queued
  to_server, to_client,
  copies,    \* history: did the listener take 0, 1 or more unnamed datagrams?
  readable   \* history: an accepted stream can read the segments before this

client == <<conv, waiting, next_sn, unacked, cclosed, io>>
server == <<entry, replaced, notices, copies, readable>>
vars == <<client, server, to_server, to_client>>

Sns == 0 .. Segments - 1
Push(c, sn) == [kind |-> "push", conv |-> c, sn |-> sn]
Ack(c, sn) == [kind |-> "ack", conv |-> c, sn |-> sn]
Datagrams == [kind : {"push", "ack"}, conv : Convs \cup {0}, sn : Sns]

\* The network takes a datagram, or loses it for want of room.
Sent(net, cap, d) == IF Cardinality(net) < cap THEN net \cup {d} ELSE net

\* A session of the server: what it received and its own first segment.
Session(c) == [conv |-> c, got |-> {}, out |-> "none"]
Sessions ==
  [conv : Convs, got : SUBSET Sns, out : {"none", "sent", "acked"}]

ASSUME NoneAssumption == None \notin Sessions

\* connect_with_conv with conv 0.
Init ==
  /\ conv = 0 /\ waiting = TRUE
  /\ next_sn = 0 /\ unacked = {}
  /\ cclosed = FALSE /\ io = "running"
  /\ entry = None /\ replaced = {} /\ notices = 0
  /\ to_server = {} /\ to_client = {}
  /\ copies = 0 /\ readable = 0

-----------------------------------------------------------------------------
\* The client.

\* Mutant of MaySend: the client does not wait for its conversation.
MaySendUnnamed == TRUE

\* poll_send: after the first segment it waits for the conversation.
MaySend == ~ (next_sn > 0 /\ waiting)

ClientSend ==
  /\ io # "aborted"
  /\ next_sn < Segments
  /\ MaySend
  /\ unacked' = unacked \cup {[sn |-> next_sn, conv |-> conv]}
  /\ next_sn' = next_sn + 1
  /\ UNCHANGED <<conv, waiting, cclosed, io, server, to_server, to_client>>

\* KCP sends a segment, again if need be, under the number it was first sent
\* under or under the present one.  What is acknowledged leaves with it.
ClientTransmit(u) ==
  /\ io # "aborted"
  /\ Cardinality(to_server) < ToServerCap
  /\ \E c \in {u.conv, conv} : to_server' = to_server \cup {Push(c, u.sn)}
  /\ UNCHANGED <<client, server, to_client>>

\* Mutant of Spoken: the number is taken over while KCP waits for it, too.
SpokenAlways(d) == d.conv

\* The conversation when d goes to KCP: the io task follows the server to
\* another one, unless KCP still waits for its first.
Spoken(d) == IF ~ waiting /\ conv # d.conv THEN d.conv ELSE conv

\* The io task's arm of recv.  KCP takes the number it waits for from an
\* input that has another one than itself.
ClientRecv(d) ==
  /\ io = "running"
  /\ to_client' = to_client \ {d}
  /\ conv' = d.conv
  /\ waiting' = (waiting /\ Spoken(d) = d.conv)
  /\ unacked' = IF d.kind = "ack" THEN {u \in unacked : u.sn # d.sn} ELSE unacked
  /\ to_server' = IF d.kind = "push"
                  THEN Sent(to_server, ToServerCap, Ack(d.conv, d.sn))
                  ELSE to_server
  /\ UNCHANGED <<next_sn, cclosed, io, server>>

\* The io task ends with the first error of recv.
ClientRecvFails ==
  /\ io = "running"
  /\ io' = "failed"
  /\ cclosed' = TRUE
  /\ UNCHANGED <<conv, waiting, next_sn, unacked, server, to_server,
                 to_client>>

\* drive_update and finalize.  A client has no notifier: it does not expire.
ClientFinalize ==
  /\ io # "aborted"
  /\ cclosed /\ unacked = {}
  /\ io' = "aborted"
  /\ UNCHANGED <<conv, waiting, next_sn, unacked, cclosed, server,
                 to_server, to_client>>

-----------------------------------------------------------------------------
\* The server.

\* Mutant of AllocConv: the loop that draws again after a 0 is left out.
AllocConvAny == Convs \cup {0}

AllocConv == Convs

\* The listener names an unnamed datagram.
Named(p) == IF p.conv = 0 THEN {[p EXCEPT !.conv = c] : c \in AllocConv} ELSE {p}

\* Mutant of Recreates: the conversations are not compared.
RecreatesAny(p) == p.sn = 0

\* get_or_create: the first segment of another conversation.
Recreates(p) == p.sn = 0 /\ entry.conv # p.conv

\* session.input
Input(s, p) ==
  IF p.kind = "ack" THEN [s EXCEPT !.out = IF @ = "sent" THEN "acked" ELSE @]
  ELSE [s EXCEPT !.got = @ \cup {p.sn}]

\* How many segments a stream can read: KCP gives them in order.
Prefix(got) == CHOOSE n \in 0 .. Segments : (0 .. n - 1) \subseteq got /\ n \notin got

\* The session s of the entry takes p and answers.
Take(s, p) ==
  /\ entry' = Input(s, p)
  /\ readable' = IF Prefix(entry'.got) > readable THEN Prefix(entry'.got) ELSE readable
  /\ to_client' = IF p.kind = "push"
                  THEN Sent(to_client, ToClientCap, Ack(p.conv, p.sn))
                  ELSE to_client

\* A session without its entry, which is closed and gets no more input.
Closed == {[s EXCEPT !.got = {}] : s \in {entry} \ {None}}

\* get_or_create and what follows: the session is new, or takes the place of
\* another, or the datagram is of its conversation; any other is dropped.
Create(p) ==
  /\ entry = None
  /\ Take(Session(p.conv), p)
  /\ UNCHANGED replaced

Recreate(p) ==
  /\ entry # None /\ Recreates(p)
  /\ Cardinality(replaced) + notices < MaxEnding
  /\ replaced' = replaced \cup Closed
  /\ Take(Session(p.conv), p)

Deliver(p) ==
  /\ entry # None /\ ~ Recreates(p)
  /\ entry.conv = p.conv
  /\ Take(entry, p)
  /\ UNCHANGED replaced

Mismatch(p) ==
  /\ entry # None /\ ~ Recreates(p)
  /\ entry.conv # p.conv
  /\ UNCHANGED <<entry, readable, to_client, replaced>>

Route(p) == Create(p) \/ Recreate(p) \/ Deliver(p) \/ Mismatch(p)

ListenerRecv(came) ==
  /\ \E p \in Named(came) : Route(p)
  /\ to_server' = to_server \ {came}
  /\ copies' = IF came.conv = 0 /\ copies < 2 THEN copies + 1 ELSE copies
  /\ UNCHANGED <<client, notices>>

\* The stream of the session writes its first segment.
ServerSend ==
  /\ entry # None /\ entry.out = "none"
  /\ entry' = [entry EXCEPT !.out = "sent"]
  /\ UNCHANGED <<client, replaced, notices, copies, readable, to_server,
                 to_client>>

\* KCP sends, again if need be, what is not acknowledged.
ServerTransmit ==
  /\ Cardinality(to_client) < ToClientCap
  /\ \E s \in replaced \cup Closed :
       /\ s.out = "sent"
       /\ to_client' = to_client \cup {Push(s.conv, 0)}
  /\ UNCHANGED <<client, server, to_server>>

\* A replaced session is finalized when all it sent is acknowledged or when it
\* expires, and its notice is queued.
ReplacedFinalize ==
  /\ \E s \in replaced : replaced' = replaced \ {s}
  /\ notices' = notices + 1
  /\ UNCHANGED <<client, entry, copies, readable, to_server, to_client>>

\* The listener takes a notice: close_peer removes whatever session the client
\* has.
ListenerClose ==
  /\ notices > 0
  /\ notices' = notices - 1
  /\ entry' = None
  /\ replaced' = replaced \cup Closed
  /\ UNCHANGED <<client, copies, readable, to_server, to_client>>

-----------------------------------------------------------------------------
Lose ==
  \/ /\ \E p \in to_server : to_server' = to_server \ {p}
     /\ UNCHANGED <<client, server, to_client>>
  \/ /\ \E d \in to_client : to_client' = to_client \ {d}
     /\ UNCHANGED <<client, server, to_server>>

Next ==
  \/ ClientSend \/ ClientRecvFails \/ ClientFinalize
  \/ \E u \in unacked : ClientTransmit(u)
  \/ \E d \in to_client : ClientRecv(d)
  \/ \E p \in to_server : ListenerRecv(p)
  \/ ServerSend \/ ServerTransmit
  \/ ReplacedFinalize \/ ListenerClose
  \/ Lose

Spec == Init /\ [][Next]_vars

(***************************************************************************)
(* The io tasks and the scheduler go on, KCP retransmits until it is      *)
(* answered, and the network lets through what is sent again and again:    *)
(* the answer to the first segment too, so copies of it do not for ever    *)
(* replace a session before it answers (its interval is bounded, while     *)
(* KCP's retransmission timeout grows).                                    *)
(***************************************************************************)
Fairness ==
  /\ SF_vars(\E u \in unacked : ClientTransmit(u))
  /\ SF_vars(\E p \in to_server : ListenerRecv(p))
  /\ SF_vars(\E d \in to_client : ClientRecv(d))
  /\ SF_vars(ReplacedFinalize)
  /\ WF_vars(ListenerClose)

FairSpec == Spec /\ Fairness

-----------------------------------------------------------------------------
TypeOK ==
  /\ conv \in Convs \cup {0} /\ waiting \in BOOLEAN
  /\ (waiting <=> conv = 0)
  /\ next_sn \in 0 .. Segments
  /\ unacked \subseteq [sn : 0 .. next_sn - 1, conv : Convs \cup {0}]
  /\ cclosed \in BOOLEAN
  /\ io \in {"running", "failed", "aborted"}
  /\ entry \in Sessions \cup {None}
  /\ replaced \subseteq Sessions /\ Cardinality(replaced) + notices <= MaxEnding
  /\ notices \in 0 .. MaxEnding
  /\ to_server \subseteq Datagrams /\ to_client \subseteq Datagrams
  /\ copies \in 0 .. 2 /\ readable \in 0 .. Segments

Acked == (0 .. next_sn - 1) \ {u.sn : u \in unacked}

(***************************************************************************)
(* An unnamed datagram is the client's first segment: the listener draws a *)
(* number for each, and would drop or misroute any other one.              *)
(***************************************************************************)
UnnamedIsFirst == \A p \in to_server : p.conv = 0 => p = Push(0, 0)

(***************************************************************************)
(* When the listener took the first segment unnamed only once, client and  *)
(* server agree: there is but that session, the client speaks its          *)
(* conversation or none yet, the session has what was acknowledged, and    *)
(* its stream can read it up to the first segment that is missing.         *)
(***************************************************************************)
OneConversation ==
  copies = 1 =>
    /\ entry # None /\ replaced = {} /\ notices = 0
    /\ conv \in {0, entry.conv}
    /\ Acked \subseteq entry.got /\ readable = Prefix(entry.got)

(***************************************************************************)
(* A client that has sent learns a conversation, however often the first   *)
(* segment or the answer to it is lost and a session replaced (unless its  *)
(* own recv fails: then its io task is gone).                              *)
(***************************************************************************)
LearnsConversation == next_sn > 0 ~> ~ waiting \/ io # "running"

(***************************************************************************)
(* What the server acknowledged, with all before it, can be read from an   *)
(* accepted stream: the test                                               *)
(* send_with_server_allocated_conv_handles_large_buffers (stream.rs) says  *)
(* so of a client that asks for a conversation.  It does not hold once the *)
(* first segment is retransmitted.                                         *)
(***************************************************************************)
AckedIsReadable == \A sn \in Acked : (0 .. sn) \subseteq Acked => sn < readable

=============================================================================
