---------------------------- MODULE HandshakeProofs ----------------------------
(***************************************************************************)
(* Proofs about how a client and the server agree on a conversation, for   *)
(* any number of segments and conversations, and any room in the network.  *)
(***************************************************************************)
EXTENDS Handshake, FiniteSetTheorems, WellFoundedInduction, TLAPS

\* What the client sends unnamed is its first segment.
FirstInv ==
  /\ waiting => next_sn <= 1
  /\ \A u \in unacked : u.conv = 0 => u.sn = 0
  /\ UnnamedIsFirst

\* The listener names every conversation.
NamedInv == \A d \in to_client : d.conv # 0

Typed == TypeOK /\ IsFiniteSet(replaced) /\ NamedInv /\ FirstInv

(***************************************************************************)
(* Before the listener has taken the first segment, there is nothing but   *)
(* unnamed copies of it.                                                   *)
(***************************************************************************)
NoneTaken ==
  copies = 0 =>
    /\ entry = None /\ replaced = {} /\ notices = 0 /\ to_client = {}
    /\ conv = 0 /\ Acked = {} /\ readable = 0
    /\ \A p \in to_server : p.conv = 0
    /\ \A u \in unacked : u.conv = 0

(***************************************************************************)
(* While it has taken it once, everything under way is of the one          *)
(* conversation or unnamed, and acknowledges what the session has.         *)
(***************************************************************************)
OneSession ==
  /\ entry # None /\ replaced = {} /\ notices = 0
  /\ conv \in {0, entry.conv}
  /\ Acked \subseteq entry.got /\ readable = Prefix(entry.got)
  /\ \A d \in to_client : d.conv = entry.conv /\ (d.kind = "ack" => d.sn \in entry.got)
  /\ \A p \in to_server : p.conv \in {0, entry.conv}
  /\ \A u \in unacked : u.conv \in {0, entry.conv}

OneTaken == copies = 1 => OneSession

IInv == Typed /\ NoneTaken /\ OneTaken

-----------------------------------------------------------------------------
\* A set of numbers that is not empty has a least one.
LEMMA Least ==
  ASSUME NEW T, T \subseteq Nat, T # {}
  PROVE  \E x \in T : \A y \in T : x <= y
<1> DEFINE R == {ss \in Nat \X Nat : ss[1] < ss[2]}
<1>1. IsWellFoundedOn(R, Nat)
  <2>1. IsWellFoundedOn({ss \in Nat \X Nat : ss[1] < ss[2]}, Nat)
    BY NatLessThanWellFounded DEF OpToRel
  <2>. QED  BY <2>1
<1>. HIDE DEF R
<1>2. PICK x \in T : \A y \in T : ~ (<<y, x>> \in R)
  BY <1>1, WFMin
<1>3. \A y \in T : x <= y
  <2>. SUFFICES ASSUME NEW y \in T PROVE x <= y
    OBVIOUS
  <2>1. x \in Nat /\ y \in Nat
    OBVIOUS
  <2>2. ~ (y < x)
    BY <1>2, <2>1 DEF R
  <2>. QED  BY <2>1, <2>2
<1>. QED  BY <1>3

\* What can be read ends at the first segment that is missing.
LEMMA PrefixFacts ==
  ASSUME NEW got \in SUBSET Sns
  PROVE  /\ Prefix(got) \in 0 .. Segments
         /\ (0 .. Prefix(got) - 1) \subseteq got /\ Prefix(got) \notin got
<1>1. Segments \in Nat
  BY HandshakeAssumption
<1> DEFINE T == {n \in 0 .. Segments : n \notin got}
<1>2. T \subseteq Nat /\ T # {}
  <2>1. Segments \notin got
    BY <1>1 DEF Sns
  <2>. QED  BY <1>1, <2>1
<1>3. PICK x \in T : \A y \in T : x <= y
  <2>. HIDE DEF T
  <2>. QED  BY <1>2, Least
<1>4. (0 .. x - 1) \subseteq got
  <2>. SUFFICES ASSUME NEW y \in 0 .. x - 1, y \notin got PROVE FALSE
    OBVIOUS
  <2>1. x \in Nat /\ x <= Segments
    BY <1>1, <1>3
  <2>2. y \in T /\ y < x /\ y \in Nat
    BY <1>1, <2>1
  <2>. QED  BY <1>3, <2>1, <2>2
<1>5. \E n \in 0 .. Segments : (0 .. n - 1) \subseteq got /\ n \notin got
  BY <1>3, <1>4
<1>. QED  BY <1>5 DEF Prefix

\* More segments are read no less far.
LEMMA PrefixGrows ==
  ASSUME NEW got \in SUBSET Sns, NEW more \in SUBSET Sns, got \subseteq more
  PROVE  Prefix(got) <= Prefix(more)
<1> DEFINE m == Prefix(got)
           n == Prefix(more)
<1>1. /\ m \in 0 .. Segments /\ (0 .. m - 1) \subseteq got
      /\ n \in 0 .. Segments /\ n \notin more
  BY PrefixFacts
<1>2. Segments \in Nat
  BY HandshakeAssumption
<1>. HIDE DEF m, n
<1>3. ~ (n < m)
  <2>. SUFFICES ASSUME n < m PROVE FALSE
    OBVIOUS
  <2>1. n \in 0 .. m - 1
    BY <1>1, <1>2
  <2>. QED  BY <1>1, <2>1
<1>. QED  BY <1>1, <1>2, <1>3 DEF m, n

-----------------------------------------------------------------------------
(***************************************************************************)
(* The types, by who keeps what.                                           *)
(***************************************************************************)
ClientTypes ==
  /\ conv \in Convs \cup {0} /\ waiting \in BOOLEAN
  /\ (waiting <=> conv = 0)
  /\ next_sn \in 0 .. Segments
  /\ unacked \subseteq [sn : 0 .. next_sn - 1, conv : Convs \cup {0}]
  /\ cclosed \in BOOLEAN
  /\ io \in {"running", "failed", "aborted"}

EndingTypes ==
  /\ replaced \subseteq Sessions /\ IsFiniteSet(replaced)
  /\ notices \in 0 .. MaxEnding
  /\ Cardinality(replaced) + notices <= MaxEnding

ServerTypes ==
  /\ entry \in Sessions \cup {None}
  /\ copies \in 0 .. 2 /\ readable \in 0 .. Segments

NetTypes ==
  /\ to_server \subseteq Datagrams /\ to_client \subseteq Datagrams
  /\ NamedInv

\* Nothing else is in Typed.
LEMMA TypedParts ==
  Typed <=> ClientTypes /\ EndingTypes /\ ServerTypes /\ NetTypes /\ FirstInv
BY DEF Typed, TypeOK, ClientTypes, EndingTypes, ServerTypes, NetTypes

\* The constants.
LEMMA Bounds ==
  /\ Convs \subseteq Nat /\ 0 \notin Convs
  /\ Segments \in Nat \ {0} /\ ToServerCap \in Nat \ {0}
  /\ ToClientCap \in Nat \ {0} /\ MaxEnding \in Nat \ {0}
  /\ 0 \in Sns /\ Sns \subseteq Nat
BY HandshakeAssumption DEF Sns

\* A segment and an acknowledgement are datagrams.
LEMMA DatagramFacts ==
  /\ \A c \in Convs \cup {0}, sn \in Sns :
       /\ Push(c, sn) \in Datagrams /\ Ack(c, sn) \in Datagrams
       /\ Push(c, sn).conv = c /\ Ack(c, sn).conv = c
       /\ Push(c, sn).kind = "push" /\ Ack(c, sn).kind = "ack"
       /\ Push(c, sn).sn = sn /\ Ack(c, sn).sn = sn
  /\ \A d \in Datagrams :
       d.conv \in Convs \cup {0} /\ d.sn \in Sns /\ d.kind \in {"push", "ack"}
BY DEF Push, Ack, Datagrams

\* What the network takes is all that is new in it.
LEMMA SentFacts ==
  ASSUME NEW net, NEW cap, NEW d
  PROVE  Sent(net, cap, d) \subseteq net \cup {d}
BY DEF Sent

\* The client sends nothing more while it waits for its conversation.
LEMMA ClientSendTyped == Typed /\ ClientSend => Typed'
<1>. SUFFICES ASSUME Typed, ClientSend PROVE Typed'
  OBVIOUS
<1>1. ClientTypes /\ EndingTypes /\ ServerTypes /\ NetTypes /\ FirstInv
  BY TypedParts
<1> DEFINE u == [sn |-> next_sn, conv |-> conv]
<1>2. /\ unacked' = unacked \cup {u} /\ next_sn' = next_sn + 1
      /\ next_sn < Segments /\ (waiting => ~ (next_sn > 0))
      /\ u.sn = next_sn /\ u.conv = conv
      /\ UNCHANGED <<conv, waiting, cclosed, io, server, to_server, to_client>>
  BY DEF ClientSend, MaySend
<1>3. next_sn \in Nat /\ next_sn + 1 \in 0 .. Segments
  BY <1>1, <1>2, Bounds DEF ClientTypes
<1>4. unacked' \subseteq [sn : 0 .. next_sn' - 1, conv : Convs \cup {0}]
  <2>1. unacked \subseteq [sn : 0 .. next_sn, conv : Convs \cup {0}]
    BY <1>1, <1>3 DEF ClientTypes
  <2>2. u \in [sn : 0 .. next_sn, conv : Convs \cup {0}]
    BY <1>1, <1>3 DEF ClientTypes
  <2>3. next_sn' - 1 = next_sn
    BY <1>2, <1>3
  <2>. QED  BY <1>2, <2>1, <2>2, <2>3
<1>. HIDE DEF u
<1>5. ClientTypes'
  BY <1>1, <1>2, <1>3, <1>4 DEF ClientTypes
<1>6. FirstInv'
  <2>1. waiting' => next_sn' <= 1
    BY <1>2, <1>3
  <2>2. \A v \in unacked' : v.conv = 0 => v.sn = 0
    <3>1. u.conv = 0 => u.sn = 0
      BY <1>1, <1>2, <1>3 DEF ClientTypes
    <3>. QED  BY <1>1, <1>2, <3>1 DEF FirstInv
  <2>3. UnnamedIsFirst'
    BY <1>1, <1>2 DEF FirstInv, UnnamedIsFirst
  <2>. QED  BY <2>1, <2>2, <2>3 DEF FirstInv
<1>7. (EndingTypes /\ ServerTypes /\ NetTypes)'
  BY <1>1, <1>2 DEF EndingTypes, ServerTypes, NetTypes, NamedInv, server
<1>. QED  BY <1>5, <1>6, <1>7 DEF Typed, TypeOK, ClientTypes, EndingTypes,
                                  ServerTypes, NetTypes

\* A segment goes out unnamed only if it is the first.
LEMMA ClientTransmitTyped ==
  ASSUME Typed, NEW u \in unacked, ClientTransmit(u)
  PROVE  Typed'
<1>1. ClientTypes /\ EndingTypes /\ ServerTypes /\ NetTypes /\ FirstInv
  BY TypedParts
<1>2. PICK c \in {u.conv, conv} : to_server' = to_server \cup {Push(c, u.sn)}
  BY DEF ClientTransmit
<1>3. UNCHANGED <<client, server, to_client>>
  BY DEF ClientTransmit
<1>4. c \in Convs \cup {0} /\ u.sn \in Sns /\ u.sn \in 0 .. next_sn - 1
      /\ next_sn \in Nat
  <2>1. u.conv \in Convs \cup {0} /\ u.sn \in 0 .. next_sn - 1 /\ next_sn \in 0 .. Segments
    BY <1>1 DEF ClientTypes
  <2>. QED  BY <1>1, <2>1, Bounds DEF ClientTypes, Sns
<1>5. NetTypes'
  BY <1>1, <1>2, <1>3, <1>4, DatagramFacts DEF NetTypes, NamedInv
<1>6. FirstInv'
  <2>1. c = 0 => u.sn = 0
    <3>1. CASE c = u.conv
      BY <1>1, <3>1 DEF FirstInv
    <3>2. CASE c = conv
      BY <1>1, <1>4, <3>2 DEF FirstInv, ClientTypes
    <3>. QED  BY <3>1, <3>2
  <2>2. UnnamedIsFirst'
    <3>1. Push(c, u.sn).conv = c
      BY <1>4, DatagramFacts
    <3>. QED  BY <1>1, <1>2, <2>1, <3>1 DEF FirstInv, UnnamedIsFirst
  <2>. QED  BY <1>1, <1>3, <2>2 DEF FirstInv, client
<1>7. (ClientTypes /\ EndingTypes /\ ServerTypes)'
  BY <1>1, <1>3 DEF ClientTypes, EndingTypes, ServerTypes, client, server
<1>. QED  BY <1>5, <1>6, <1>7 DEF Typed, TypeOK, ClientTypes, EndingTypes,
                                  ServerTypes, NetTypes

\* An input names the conversation, and its acknowledgement is named.
LEMMA ClientRecvTyped ==
  ASSUME Typed, NEW d \in to_client, ClientRecv(d)
  PROVE  Typed'
<1>1. ClientTypes /\ EndingTypes /\ ServerTypes /\ NetTypes /\ FirstInv
  BY TypedParts
<1>2. d \in Datagrams /\ d.conv \in Convs /\ d.sn \in Sns /\ d.conv # 0
  BY <1>1, DatagramFacts, Bounds DEF NetTypes, NamedInv
<1>3. /\ to_client' = to_client \ {d} /\ conv' = d.conv
      /\ unacked' \subseteq unacked
      /\ to_server' \subseteq to_server \cup {Ack(d.conv, d.sn)}
      /\ UNCHANGED <<next_sn, cclosed, io, server>>
  BY SentFacts DEF ClientRecv
<1>4. waiting' = FALSE
  BY <1>1, <1>2 DEF ClientRecv, ClientTypes, Spoken
<1>5. ClientTypes'
  BY <1>1, <1>2, <1>3, <1>4 DEF ClientTypes
<1>6. NetTypes'
  <2>1. Ack(d.conv, d.sn) \in Datagrams
    BY <1>2, DatagramFacts
  <2>. QED  BY <1>1, <1>3, <2>1 DEF NetTypes, NamedInv
<1>7. FirstInv'
  <2>1. Ack(d.conv, d.sn).conv # 0
    BY <1>2, DatagramFacts
  <2>2. UnnamedIsFirst'
    BY <1>1, <1>3, <2>1 DEF FirstInv, UnnamedIsFirst
  <2>. QED  BY <1>1, <1>3, <1>4, <2>2 DEF FirstInv
<1>8. (EndingTypes /\ ServerTypes)'
  BY <1>1, <1>3 DEF EndingTypes, ServerTypes, server
<1>. QED  BY <1>5, <1>6, <1>7, <1>8 DEF Typed, TypeOK, ClientTypes, EndingTypes,
                                        ServerTypes, NetTypes

\* The end of the client's io task changes nothing else.
LEMMA ClientEndTyped ==
  ASSUME Typed, ClientRecvFails \/ ClientFinalize
  PROVE  Typed'
<1>1. /\ io' \in {"failed", "aborted"} /\ cclosed' \in BOOLEAN
      /\ UNCHANGED <<conv, waiting, next_sn, unacked, server, to_server, to_client>>
  BY DEF ClientRecvFails, ClientFinalize, Typed, TypeOK
<1>. QED
  BY <1>1 DEF Typed, TypeOK, NamedInv, FirstInv, UnnamedIsFirst, server

\* The listener names an unnamed datagram and leaves any other as it is.
LEMMA NamedFacts ==
  ASSUME NEW came \in Datagrams, NEW p \in Named(came)
  PROVE  /\ p \in Datagrams /\ p.conv \in Convs /\ p.sn = came.sn /\ p.kind = came.kind
         /\ came.conv # 0 => p = came
<1>1. CASE came.conv = 0
  <2>1. PICK c \in Convs : p = [came EXCEPT !.conv = c]
    BY <1>1 DEF Named, AllocConv
  <2>. QED  BY <1>1, <2>1 DEF Datagrams
<1>2. CASE came.conv # 0
  <2>1. p = came
    BY <1>2 DEF Named
  <2>. QED  BY <1>2, <2>1, DatagramFacts
<1>. QED  BY <1>1, <1>2

\* What a session makes of an input.
LEMMA InputFacts ==
  ASSUME NEW s \in Sessions, NEW p \in Datagrams
  PROVE  /\ Input(s, p) \in Sessions /\ Input(s, p).conv = s.conv
         /\ s.got \subseteq Input(s, p).got
         /\ p.kind = "push" => p.sn \in Input(s, p).got
<1>1. CASE p.kind = "ack"
  BY <1>1 DEF Input, Sessions
<1>2. CASE p.kind # "ack"
  <2>1. Input(s, p) = [s EXCEPT !.got = s.got \cup {p.sn}]
    BY <1>2 DEF Input
  <2>. QED  BY <2>1, DatagramFacts DEF Sessions
<1>. QED  BY <1>1, <1>2

\* A new session has nothing.
LEMMA NewSession ==
  ASSUME NEW c \in Convs
  PROVE  Session(c) \in Sessions /\ Session(c).conv = c /\ Session(c).got = {}
BY DEF Session, Sessions

\* A session that takes a datagram.
LEMMA TakeFacts ==
  ASSUME NEW s \in Sessions, NEW p \in Datagrams, Take(s, p),
         readable \in 0 .. Segments
  PROVE  /\ entry' = Input(s, p) /\ entry' \in Sessions
         /\ readable' \in 0 .. Segments
         /\ to_client' \subseteq to_client \cup {Ack(p.conv, p.sn)}
         /\ p.kind # "push" => to_client' = to_client
<1>1. entry' = Input(s, p) /\ entry' \in Sessions
  BY InputFacts DEF Take
<1>2. readable' \in 0 .. Segments
  <2>1. entry'.got \in SUBSET Sns
    BY <1>1 DEF Sessions
  <2>2. Prefix(entry'.got) \in 0 .. Segments
    BY <2>1, PrefixFacts
  <2>. QED  BY <2>2 DEF Take
<1>3. /\ to_client' \subseteq to_client \cup {Ack(p.conv, p.sn)}
      /\ p.kind # "push" => to_client' = to_client
  BY SentFacts DEF Take
<1>. QED  BY <1>1, <1>2, <1>3

\* A session that loses its entry is one more that is to end.
LEMMA ClosedFacts ==
  ASSUME ServerTypes
  PROVE  /\ Closed \subseteq Sessions
         /\ entry = None => Closed = {}
         /\ entry # None => Closed = {[entry EXCEPT !.got = {}]}
         /\ \A s \in Closed : entry # None /\ s.conv = entry.conv /\ s.out = entry.out
<1>1. entry = None => Closed = {}
  BY DEF Closed
<1>2. entry # None => Closed = {[entry EXCEPT !.got = {}]} /\ entry \in Sessions
  BY DEF Closed, ServerTypes
<1>3. /\ Closed \subseteq Sessions
      /\ \A s \in Closed : entry # None /\ s.conv = entry.conv /\ s.out = entry.out
  <2>1. entry # None =>
          LET s == [entry EXCEPT !.got = {}]
          IN  s \in Sessions /\ s.conv = entry.conv /\ s.out = entry.out
    BY <1>2 DEF Sessions
  <2>. QED  BY <1>1, <1>2, <2>1
<1>. QED  BY <1>1, <1>2, <1>3

\* There is at most one such session at a time.
LEMMA ClosedAdds ==
  ASSUME ServerTypes, NEW S, IsFiniteSet(S)
  PROVE  /\ IsFiniteSet(S \cup Closed)
         /\ Cardinality(S \cup Closed) <= Cardinality(S) + 1
         /\ Cardinality(S \cup Closed) \in Nat /\ Cardinality(S) \in Nat
<1>1. Cardinality(S) \in Nat
  BY FS_CardinalityType
<1>2. CASE entry = None
  <2>1. S \cup Closed = S
    BY <1>2, ClosedFacts
  <2>. QED  BY <1>1, <2>1
<1>3. CASE entry # None
  <2> DEFINE s == [entry EXCEPT !.got = {}]
  <2>1. S \cup Closed = S \cup {s}
    BY <1>3, ClosedFacts
  <2>. HIDE DEF s
  <2>2. /\ IsFiniteSet(S \cup {s})
        /\ Cardinality(S \cup {s}) = IF s \in S THEN Cardinality(S)
                                     ELSE Cardinality(S) + 1
    BY FS_AddElement
  <2>. QED  BY <1>1, <2>1, <2>2
<1>. QED  BY <1>2, <1>3

\* Wherever a datagram is routed, one session at most is replaced.
LEMMA RouteFacts ==
  ASSUME Typed, NEW p \in Datagrams, p.conv \in Convs, Route(p)
  PROVE  /\ entry' \in Sessions \cup {None} /\ readable' \in 0 .. Segments
         /\ to_client' \subseteq to_client \cup {Ack(p.conv, p.sn)}
         /\ \/ replaced' = replaced
            \/ /\ Cardinality(replaced) + notices < MaxEnding
               /\ replaced' = replaced \cup Closed
<1>1. ServerTypes
  BY TypedParts
<1>2. CASE Create(p) \/ Recreate(p)
  <2>1. Take(Session(p.conv), p) /\ Session(p.conv) \in Sessions
    BY <1>2, NewSession DEF Create, Recreate
  <2>2. /\ entry' \in Sessions /\ readable' \in 0 .. Segments
        /\ to_client' \subseteq to_client \cup {Ack(p.conv, p.sn)}
    BY <1>1, <2>1, TakeFacts DEF ServerTypes
  <2>. QED  BY <1>2, <2>2 DEF Create, Recreate
<1>3. CASE Deliver(p)
  <2>1. Take(entry, p) /\ entry \in Sessions
    BY <1>1, <1>3 DEF Deliver, ServerTypes
  <2>2. /\ entry' \in Sessions /\ readable' \in 0 .. Segments
        /\ to_client' \subseteq to_client \cup {Ack(p.conv, p.sn)}
    BY <1>1, <2>1, TakeFacts DEF ServerTypes
  <2>. QED  BY <1>3, <2>2 DEF Deliver
<1>4. CASE Mismatch(p)
  BY <1>1, <1>4 DEF Mismatch, ServerTypes
<1>. QED  BY <1>2, <1>3, <1>4 DEF Route

\* The listener names what it takes, and replaces within the bound.
LEMMA ListenerRecvTyped ==
  ASSUME Typed, NEW came \in to_server, ListenerRecv(came)
  PROVE  Typed'
<1>1. ClientTypes /\ EndingTypes /\ ServerTypes /\ NetTypes /\ FirstInv
  BY TypedParts
<1>2. PICK p \in Named(came) : Route(p)
  BY DEF ListenerRecv
<1>3. p \in Datagrams /\ p.conv \in Convs /\ p.sn \in Sns /\ p.conv # 0
  BY <1>1, NamedFacts, DatagramFacts, Bounds DEF NetTypes
<1>4. /\ to_server' = to_server \ {came} /\ copies' \in 0 .. 2
      /\ UNCHANGED <<client, notices>>
  BY <1>1 DEF ListenerRecv, ServerTypes
<1>5. /\ entry' \in Sessions \cup {None} /\ readable' \in 0 .. Segments
      /\ to_client' \subseteq to_client \cup {Ack(p.conv, p.sn)}
      /\ \/ replaced' = replaced
         \/ /\ Cardinality(replaced) + notices < MaxEnding
            /\ replaced' = replaced \cup Closed
  BY <1>2, <1>3, RouteFacts
<1>6. EndingTypes'
  <2>1. CASE replaced' = replaced
    BY <1>1, <1>4, <2>1 DEF EndingTypes
  <2>2. CASE /\ Cardinality(replaced) + notices < MaxEnding
             /\ replaced' = replaced \cup Closed
    <3>1. /\ IsFiniteSet(replaced')
          /\ Cardinality(replaced') <= Cardinality(replaced) + 1
          /\ Cardinality(replaced') \in Nat /\ Cardinality(replaced) \in Nat
      BY <1>1, <2>2, ClosedAdds DEF EndingTypes
    <3>2. replaced' \subseteq Sessions
      BY <1>1, <2>2, ClosedFacts DEF EndingTypes
    <3>3. notices \in Nat /\ notices' = notices /\ MaxEnding \in Nat
      BY <1>1, <1>4, Bounds DEF EndingTypes
    <3>4. Cardinality(replaced') + notices' <= MaxEnding
      BY <2>2, <3>1, <3>3
    <3>. QED  BY <1>1, <3>1, <3>2, <3>3, <3>4 DEF EndingTypes
  <2>. QED  BY <1>5, <2>1, <2>2
<1>7. NetTypes'
  <2>1. Ack(p.conv, p.sn) \in Datagrams /\ Ack(p.conv, p.sn).conv # 0
    BY <1>3, DatagramFacts
  <2>. QED  BY <1>1, <1>4, <1>5, <2>1 DEF NetTypes, NamedInv
<1>8. (ClientTypes /\ ServerTypes /\ FirstInv)'
  BY <1>1, <1>4, <1>5 DEF ClientTypes, ServerTypes, FirstInv, UnnamedIsFirst, client
<1>. QED  BY <1>6, <1>7, <1>8 DEF Typed, TypeOK, ClientTypes, EndingTypes,
                                  ServerTypes, NetTypes

\* What the sessions send has their conversation.
LEMMA ServerSendTyped ==
  ASSUME Typed, ServerSend \/ ServerTransmit
  PROVE  Typed'
<1>1. ClientTypes /\ EndingTypes /\ ServerTypes /\ NetTypes /\ FirstInv
  BY TypedParts
<1>2. CASE ServerSend
  <2>1. entry \in Sessions /\ entry' = [entry EXCEPT !.out = "sent"]
    BY <1>1, <1>2 DEF ServerSend, ServerTypes
  <2>2. entry' \in Sessions
    BY <2>1 DEF Sessions
  <2>3. UNCHANGED <<client, replaced, notices, copies, readable, to_server, to_client>>
    BY <1>2 DEF ServerSend
  <2>. QED  BY <1>1, <2>2, <2>3 DEF Typed, TypeOK, ServerTypes, NamedInv, FirstInv,
                                    UnnamedIsFirst, EndingTypes, ClientTypes, NetTypes,
                                    client
<1>3. CASE ServerTransmit
  <2>1. PICK s \in replaced \cup Closed : to_client' = to_client \cup {Push(s.conv, 0)}
    BY <1>3 DEF ServerTransmit
  <2>2. s.conv \in Convs /\ s.conv # 0
    <3>1. s \in Sessions
      BY <1>1, ClosedFacts DEF EndingTypes
    <3>. QED  BY <3>1, Bounds DEF Sessions
  <2>3. UNCHANGED <<client, server, to_server>>
    BY <1>3 DEF ServerTransmit
  <2>4. NetTypes'
    <3>1. Push(s.conv, 0) \in Datagrams /\ Push(s.conv, 0).conv # 0
      <4> DEFINE c == s.conv
      <4>1. c \in Convs \cup {0} /\ c # 0
        BY <2>2
      <4>2. 0 \in Sns
        BY Bounds
      <4>. HIDE DEF c
      <4>3. Push(c, 0) \in Datagrams /\ Push(c, 0).conv # 0
        BY <4>1, <4>2, DatagramFacts
      <4>. QED  BY <4>3 DEF c
    <3>. QED  BY <1>1, <2>1, <2>3, <3>1 DEF NetTypes, NamedInv
  <2>5. (ClientTypes /\ EndingTypes /\ ServerTypes /\ FirstInv)'
    BY <1>1, <2>3 DEF ClientTypes, EndingTypes, ServerTypes, FirstInv,
                      UnnamedIsFirst, client, server
  <2>. QED  BY <2>4, <2>5 DEF Typed, TypeOK, ClientTypes, EndingTypes,
                              ServerTypes, NetTypes
<1>. QED  BY <1>2, <1>3

\* A replaced session becomes a notice, and a notice at most one of those.
LEMMA EndingTyped ==
  ASSUME Typed, ReplacedFinalize \/ ListenerClose
  PROVE  Typed'
<1>1. ClientTypes /\ EndingTypes /\ ServerTypes /\ NetTypes /\ FirstInv
  BY TypedParts
<1>2. /\ notices \in Nat /\ MaxEnding \in Nat /\ Cardinality(replaced) \in Nat
      /\ Cardinality(replaced) + notices <= MaxEnding /\ IsFiniteSet(replaced)
  BY <1>1, Bounds, FS_CardinalityType DEF EndingTypes
<1>3. CASE ReplacedFinalize
  <2>1. PICK s \in replaced : replaced' = replaced \ {s}
    BY <1>3 DEF ReplacedFinalize
  <2>2. /\ IsFiniteSet(replaced') /\ Cardinality(replaced') = Cardinality(replaced) - 1
    BY <1>2, <2>1, FS_RemoveElement
  <2>3. Cardinality(replaced') \in Nat
    BY <2>2, FS_CardinalityType
  <2>4. /\ notices' = notices + 1
        /\ UNCHANGED <<client, entry, copies, readable, to_server, to_client>>
    BY <1>3 DEF ReplacedFinalize
  <2>5. EndingTypes'
    BY <1>1, <1>2, <2>1, <2>2, <2>3, <2>4 DEF EndingTypes
  <2>6. (ClientTypes /\ ServerTypes /\ NetTypes /\ FirstInv)'
    BY <1>1, <2>4 DEF ClientTypes, ServerTypes, NetTypes, NamedInv, FirstInv,
                      UnnamedIsFirst, client
  <2>. QED  BY <2>5, <2>6 DEF Typed, TypeOK, ClientTypes, EndingTypes,
                              ServerTypes, NetTypes
<1>4. CASE ListenerClose
  <2>1. /\ notices > 0 /\ notices' = notices - 1 /\ entry' = None
        /\ replaced' = replaced \cup Closed
        /\ UNCHANGED <<client, copies, readable, to_server, to_client>>
    BY <1>4 DEF ListenerClose
  <2>2. /\ IsFiniteSet(replaced') /\ Cardinality(replaced') \in Nat
        /\ Cardinality(replaced') <= Cardinality(replaced) + 1
    BY <1>1, <1>2, <2>1, ClosedAdds
  <2>3. replaced' \subseteq Sessions
    BY <1>1, <2>1, ClosedFacts DEF EndingTypes
  <2>4. EndingTypes'
    <3>1. notices' \in 0 .. MaxEnding /\ Cardinality(replaced') + notices' <= MaxEnding
      BY <1>2, <2>1, <2>2
    <3>. QED  BY <2>2, <2>3, <3>1 DEF EndingTypes
  <2>5. (ClientTypes /\ ServerTypes /\ NetTypes /\ FirstInv)'
    BY <1>1, <2>1 DEF ClientTypes, ServerTypes, NetTypes, NamedInv, FirstInv,
                      UnnamedIsFirst, client
  <2>. QED  BY <2>4, <2>5 DEF Typed, TypeOK, ClientTypes, EndingTypes,
                              ServerTypes, NetTypes
<1>. QED  BY <1>3, <1>4

\* What is lost leaves no trace.
LEMMA LoseTyped == Typed /\ Lose => Typed'
<1>. SUFFICES ASSUME Typed, Lose PROVE Typed'
  OBVIOUS
<1>1. ClientTypes /\ EndingTypes /\ ServerTypes /\ NetTypes /\ FirstInv
  BY TypedParts
<1>2. /\ to_server' \subseteq to_server /\ to_client' \subseteq to_client
      /\ UNCHANGED <<client, server>>
  BY DEF Lose
<1>3. (NetTypes /\ FirstInv)'
  BY <1>1, <1>2 DEF NetTypes, NamedInv, FirstInv, UnnamedIsFirst, client
<1>4. (ClientTypes /\ EndingTypes /\ ServerTypes)'
  BY <1>1, <1>2 DEF ClientTypes, EndingTypes, ServerTypes, client, server
<1>. QED  BY <1>3, <1>4 DEF Typed, TypeOK, ClientTypes, EndingTypes,
                            ServerTypes, NetTypes

\* The types hold at first and every step keeps them.
LEMMA InitTyped == Init => Typed
<1>. SUFFICES ASSUME Init PROVE Typed
  OBVIOUS
<1>1. Cardinality({}) = 0 /\ IsFiniteSet({})
  BY FS_EmptySet
<1>2. ClientTypes
  <2>1. next_sn \in 0 .. Segments
    BY Bounds DEF Init
  <2>2. unacked \subseteq [sn : 0 .. next_sn - 1, conv : Convs \cup {0}]
    <3>. HIDE DEF Init
    <3>1. unacked = {}
      BY DEF Init
    <3>. QED  BY <3>1
  <2>3. waiting = TRUE /\ conv = 0 /\ cclosed = FALSE /\ io = "running"
    BY DEF Init
  <2>. QED  BY <2>1, <2>2, <2>3 DEF ClientTypes
<1>3. EndingTypes
  BY <1>1, Bounds DEF Init, EndingTypes
<1>4. ServerTypes /\ NetTypes /\ FirstInv
  BY Bounds DEF Init, ServerTypes, NetTypes, NamedInv, FirstInv, UnnamedIsFirst
<1>. QED  BY <1>2, <1>3, <1>4, TypedParts

LEMMA TypedStep == Typed /\ [Next]_vars => Typed'
<1>. SUFFICES ASSUME Typed, [Next]_vars PROVE Typed'
  OBVIOUS
<1>1. CASE ClientSend
  BY <1>1, ClientSendTyped
<1>2. CASE ClientRecvFails \/ ClientFinalize
  BY <1>2, ClientEndTyped
<1>3. CASE \E u \in unacked : ClientTransmit(u)
  BY <1>3, ClientTransmitTyped
<1>4. CASE \E d \in to_client : ClientRecv(d)
  BY <1>4, ClientRecvTyped
<1>5. CASE \E p \in to_server : ListenerRecv(p)
  BY <1>5, ListenerRecvTyped
<1>6. CASE ServerSend \/ ServerTransmit
  BY <1>6, ServerSendTyped
<1>7. CASE ReplacedFinalize \/ ListenerClose
  BY <1>7, EndingTyped
<1>8. CASE Lose
  BY <1>8, LoseTyped
<1>9. CASE UNCHANGED vars
  BY <1>9 DEF vars, client, server, Typed, TypeOK, NamedInv, FirstInv, UnnamedIsFirst
<1>. QED  BY <1>1, <1>2, <1>3, <1>4, <1>5, <1>6, <1>7, <1>8, <1>9 DEF Next

(***************************************************************************)
(* Every value is of its type: the conversation is known as soon as it is  *)
(* no longer waited for, and what lost its entry stays within the bound.   *)
(***************************************************************************)
THEOREM TypeCorrect == Spec => []TypeOK
<1>1. Spec => []Typed
  BY InitTyped, TypedStep, PTL DEF Spec
<1>2. Typed => TypeOK
  BY DEF Typed
<1>. QED  BY <1>1, <1>2, PTL

(***************************************************************************)
(* What reaches the listener unnamed is the client's first segment: not    *)
(* one that follows, nor an acknowledgement (poll_send waits for the       *)
(* conversation, and what the client receives is named).                   *)
(***************************************************************************)
THEOREM UnnamedFirst == Spec => []UnnamedIsFirst
<1>1. Spec => []Typed
  BY InitTyped, TypedStep, PTL DEF Spec
<1>2. Typed => UnnamedIsFirst
  BY DEF Typed, FirstInv
<1>. QED  BY <1>1, <1>2, PTL

-----------------------------------------------------------------------------

\* How many unnamed datagrams were taken does not fall, and only grows by one.
LEMMA CopiesFacts ==
  ASSUME Typed, [Next]_vars
  PROVE  \/ copies' = copies
         \/ /\ copies' = copies + 1
            /\ \E came \in to_server : ListenerRecv(came) /\ came.conv = 0
<1>1. CASE \E came \in to_server : ListenerRecv(came)
  BY <1>1 DEF ListenerRecv
<1>2. CASE ClientSend \/ ClientRecvFails \/ ClientFinalize
  BY <1>2 DEF ClientSend, ClientRecvFails, ClientFinalize, server
<1>3. CASE \/ \E u \in unacked : ClientTransmit(u)
           \/ \E d \in to_client : ClientRecv(d)
  BY <1>3 DEF ClientTransmit, ClientRecv, server
<1>4. CASE ServerSend \/ ServerTransmit \/ ReplacedFinalize \/ ListenerClose
  BY <1>4 DEF ServerSend, ServerTransmit, ReplacedFinalize, ListenerClose, server
<1>5. CASE Lose \/ UNCHANGED vars
  BY <1>5 DEF Lose, vars, server
<1>. QED  BY <1>1, <1>2, <1>3, <1>4, <1>5 DEF Next

\* What the client sends is not acknowledged yet.
LEMMA SendAcks ==
  ASSUME ClientTypes, ClientSend
  PROVE  Acked' \subseteq Acked
<1> DEFINE u == [sn |-> next_sn, conv |-> conv]
<1>1. unacked' = unacked \cup {u} /\ next_sn' = next_sn + 1 /\ u.sn = next_sn
  BY DEF ClientSend
<1>. HIDE DEF u
<1>2. next_sn \in Nat
  BY Bounds DEF ClientTypes
<1>. SUFFICES ASSUME NEW n \in Acked' PROVE n \in Acked
  OBVIOUS
<1>3. n \in 0 .. next_sn /\ \A v \in unacked' : v.sn # n
  BY <1>1, <1>2 DEF Acked
<1>4. n # next_sn
  BY <1>1, <1>3
<1>5. n \in 0 .. next_sn - 1 /\ \A v \in unacked : v.sn # n
  BY <1>1, <1>2, <1>3, <1>4
<1>. QED  BY <1>5 DEF Acked

\* Only the segment an acknowledgement names is acknowledged by it.
LEMMA RecvAcks ==
  ASSUME NEW d, ClientRecv(d)
  PROVE  /\ d.kind = "ack" => Acked' \subseteq Acked \cup {d.sn}
         /\ d.kind # "ack" => Acked' = Acked
<1>1. next_sn' = next_sn
  BY DEF ClientRecv
<1>2. CASE d.kind = "ack"
  <2>1. unacked' = {u \in unacked : u.sn # d.sn}
    BY <1>2 DEF ClientRecv
  <2>. SUFFICES ASSUME NEW n \in Acked', n # d.sn PROVE n \in Acked
    BY <1>2
  <2>2. n \in 0 .. next_sn - 1 /\ \A v \in unacked' : v.sn # n
    BY <1>1 DEF Acked
  <2>3. \A v \in unacked : v.sn # n
    BY <2>1, <2>2
  <2>. QED  BY <2>2, <2>3 DEF Acked
<1>3. CASE d.kind # "ack"
  BY <1>1, <1>3 DEF ClientRecv, Acked
<1>. QED  BY <1>2, <1>3

\* Nothing but the client's sending and the listener happens before the first
\* segment is taken.
LEMMA NoneTakenStep ==
  ASSUME Typed, NoneTaken, [Next]_vars
  PROVE  NoneTaken'
<1>. SUFFICES ASSUME copies' = 0 PROVE NoneTaken'
  BY DEF NoneTaken
<1>1. ClientTypes /\ EndingTypes /\ ServerTypes /\ NetTypes /\ FirstInv
  BY TypedParts
<1>2. copies = 0
  BY <1>1, CopiesFacts DEF ServerTypes
<1>3. /\ entry = None /\ replaced = {} /\ notices = 0 /\ to_client = {}
      /\ conv = 0 /\ Acked = {} /\ readable = 0
      /\ \A p \in to_server : p.conv = 0
      /\ \A u \in unacked : u.conv = 0
  BY <1>2 DEF NoneTaken
<1>4. Closed = {}
  BY <1>1, <1>3, ClosedFacts
<1>5. CASE ClientSend
  <2>1. /\ unacked' = unacked \cup {[sn |-> next_sn, conv |-> conv]}
        /\ UNCHANGED <<conv, server, to_server, to_client>>
    BY <1>5 DEF ClientSend
  <2>2. Acked' = {}
    BY <1>1, <1>3, <1>5, SendAcks
  <2>. QED  BY <1>3, <2>1, <2>2 DEF NoneTaken, server
<1>6. CASE ClientRecvFails \/ ClientFinalize
  <2>1. UNCHANGED <<conv, next_sn, unacked, server, to_server, to_client>>
    BY <1>6 DEF ClientRecvFails, ClientFinalize
  <2>2. Acked' = Acked
    BY <2>1 DEF Acked
  <2>. QED  BY <1>3, <2>1, <2>2 DEF NoneTaken, server
<1>7. ASSUME NEW u \in unacked, ClientTransmit(u) PROVE NoneTaken'
  <2>1. PICK c \in {u.conv, conv} : to_server' = to_server \cup {Push(c, u.sn)}
    BY <1>7 DEF ClientTransmit
  <2>2. c = 0 /\ Push(c, u.sn).conv = c
    BY <1>3, <2>1 DEF Push
  <2>3. UNCHANGED <<client, server, to_client>>
    BY <1>7 DEF ClientTransmit
  <2>4. Acked' = Acked
    BY <2>3 DEF Acked, client
  <2>5. \A p \in to_server' : p.conv = 0
    BY <1>3, <2>1, <2>2
  <2>. QED  BY <1>3, <2>3, <2>4, <2>5 DEF NoneTaken, client, server
<1>8. ASSUME NEW came \in to_server, ListenerRecv(came) PROVE FALSE
  <2>1. copies' = copies + 1
    BY <1>2, <1>3, <1>8 DEF ListenerRecv
  <2>. QED  BY <1>2, <2>1
<1>9. ~ ServerSend /\ ~ ServerTransmit /\ ~ ReplacedFinalize /\ ~ ListenerClose
  BY <1>3, <1>4 DEF ServerSend, ServerTransmit, ReplacedFinalize, ListenerClose
<1>10. CASE Lose
  <2>1. /\ to_server' \subseteq to_server /\ to_client' \subseteq to_client
        /\ UNCHANGED <<client, server>>
    BY <1>10 DEF Lose
  <2>2. Acked' = Acked
    BY <2>1 DEF Acked, client
  <2>. QED  BY <1>3, <2>1, <2>2 DEF NoneTaken, client, server
<1>11. CASE UNCHANGED vars
  <2>1. UNCHANGED <<client, server, to_server, to_client>>
    BY <1>11 DEF vars
  <2>2. Acked' = Acked
    BY <2>1 DEF Acked, client
  <2>. QED  BY <1>3, <2>1, <2>2 DEF NoneTaken, client, server
<1>. QED  BY <1>3, <1>5, <1>6, <1>7, <1>8, <1>9, <1>10, <1>11 DEF Next

\* The first copy opens the session, which has it and acknowledges it.
LEMMA FirstCopy ==
  ASSUME Typed, NoneTaken, copies = 0,
         NEW came \in to_server, ListenerRecv(came)
  PROVE  OneSession'
<1>1. ClientTypes /\ EndingTypes /\ ServerTypes /\ NetTypes /\ FirstInv
  BY TypedParts
<1>2. /\ entry = None /\ replaced = {} /\ notices = 0 /\ to_client = {}
      /\ conv = 0 /\ Acked = {} /\ readable = 0
      /\ \A p \in to_server : p.conv = 0
      /\ \A u \in unacked : u.conv = 0
  BY DEF NoneTaken
<1>3. came \in Datagrams /\ came.kind = "push"
  BY <1>1, <1>2 DEF NetTypes, FirstInv, UnnamedIsFirst, Push
<1>4. PICK p \in Named(came) : Route(p)
  BY DEF ListenerRecv
<1>5. p \in Datagrams /\ p.conv \in Convs /\ p.kind = "push" /\ p.sn \in Sns
  BY <1>3, <1>4, NamedFacts, DatagramFacts
<1>6. Take(Session(p.conv), p) /\ replaced' = replaced
  BY <1>2, <1>4 DEF Route, Create, Recreate, Deliver, Mismatch
<1>7. /\ Session(p.conv) \in Sessions /\ Session(p.conv).conv = p.conv
  BY <1>5, NewSession
<1> DEFINE s == Session(p.conv)
<1>. HIDE DEF s
<1>8. /\ entry' = Input(s, p) /\ entry' \in Sessions /\ entry'.conv = p.conv
      /\ p.sn \in entry'.got
  <2>1. s \in Sessions /\ Take(s, p) /\ s.conv = p.conv
    BY <1>6, <1>7 DEF s
  <2>2. entry' = Input(s, p)
    BY <2>1 DEF Take
  <2>. QED  BY <1>5, <2>1, <2>2, InputFacts
<1>9. readable' = Prefix(entry'.got)
  <2>1. readable' = IF Prefix(entry'.got) > readable THEN Prefix(entry'.got) ELSE readable
    BY <1>6 DEF Take
  <2>2. Prefix(entry'.got) \in 0 .. Segments
    <3>1. entry'.got \in SUBSET Sns
      BY <1>8 DEF Sessions
    <3>. QED  BY <3>1, PrefixFacts
  <2>. QED  BY <1>2, <2>1, <2>2, Bounds
<1>10. to_client' \subseteq {Ack(p.conv, p.sn)}
  <2>1. to_client' = Sent(to_client, ToClientCap, Ack(p.conv, p.sn))
    BY <1>5, <1>6 DEF Take
  <2>. QED  BY <1>2, <2>1, SentFacts
<1>11. \A d \in to_client' : d.conv = entry'.conv /\ d.sn \in entry'.got
  BY <1>8, <1>10 DEF Ack
<1>12. /\ to_server' \subseteq to_server /\ UNCHANGED <<client, notices>>
  BY DEF ListenerRecv
<1>13. Acked' = {}
  BY <1>2, <1>12 DEF Acked, client
<1>14. entry' # None
  BY <1>8, NoneAssumption
<1>. QED  BY <1>2, <1>6, <1>8, <1>9, <1>11, <1>12, <1>13, <1>14 DEF OneSession, client

\* The one session takes what is of its conversation, and nothing replaces it.
LEMMA SessionReceives ==
  ASSUME Typed, OneSession, NEW came \in to_server, ListenerRecv(came),
         came.conv # 0
  PROVE  OneSession'
<1>1. ClientTypes /\ EndingTypes /\ ServerTypes /\ NetTypes /\ FirstInv
  BY TypedParts
<1>2. /\ entry # None /\ replaced = {} /\ notices = 0
      /\ conv \in {0, entry.conv}
      /\ Acked \subseteq entry.got /\ readable = Prefix(entry.got)
      /\ \A d \in to_client : d.conv = entry.conv /\ (d.kind = "ack" => d.sn \in entry.got)
      /\ \A p \in to_server : p.conv \in {0, entry.conv}
      /\ \A u \in unacked : u.conv \in {0, entry.conv}
  BY DEF OneSession
<1>3. came \in Datagrams /\ came.conv = entry.conv /\ came.sn \in Sns
      /\ came.kind \in {"push", "ack"}
  BY <1>1, <1>2, DatagramFacts DEF NetTypes
<1>4. Route(came)
  <2>1. PICK p \in Named(came) : Route(p)
    BY DEF ListenerRecv
  <2>2. p = came
    BY <1>3, <2>1, NamedFacts
  <2>. QED  BY <2>1, <2>2
<1>5. Take(entry, came) /\ replaced' = replaced
  BY <1>2, <1>3, <1>4 DEF Route, Create, Recreate, Deliver, Mismatch, Recreates
<1>6. entry \in Sessions
  BY <1>1, <1>2 DEF ServerTypes
<1>7. /\ entry' = Input(entry, came) /\ entry' \in Sessions
      /\ entry'.conv = entry.conv /\ entry.got \subseteq entry'.got
      /\ came.kind = "push" => came.sn \in entry'.got
  <2>1. entry' = Input(entry, came)
    BY <1>5 DEF Take
  <2>. QED  BY <1>3, <1>6, <2>1, InputFacts
<1>8. readable' = Prefix(entry'.got)
  <2> DEFINE m == Prefix(entry.got)
             n == Prefix(entry'.got)
  <2>1. readable' = IF n > readable THEN n ELSE readable
    BY <1>5 DEF Take
  <2>2. entry.got \in SUBSET Sns /\ entry'.got \in SUBSET Sns
    BY <1>6, <1>7 DEF Sessions
  <2>3. m \in 0 .. Segments /\ n \in 0 .. Segments
    BY <2>2, PrefixFacts
  <2>4. m <= n
    BY <1>7, <2>2, PrefixGrows
  <2>5. readable = m
    BY <1>2
  <2>. HIDE DEF m, n
  <2>6. readable' = n
    BY <2>1, <2>3, <2>4, <2>5, Bounds
  <2>. QED  BY <2>6 DEF n
<1>9. \A d \in to_client' : d.conv = entry'.conv /\ (d.kind = "ack" => d.sn \in entry'.got)
  <2>1. CASE came.kind = "push"
    <3> DEFINE a == Ack(came.conv, came.sn)
    <3>1. a.conv = came.conv /\ a.sn = came.sn
      BY DEF Ack
    <3>2. to_client' = Sent(to_client, ToClientCap, a)
      BY <1>5, <2>1 DEF Take
    <3>. HIDE DEF a
    <3>3. to_client' \subseteq to_client \cup {a}
      BY <3>2, SentFacts
    <3>. QED  BY <1>2, <1>3, <1>7, <2>1, <3>1, <3>3
  <2>2. CASE came.kind # "push"
    <3>1. to_client' = to_client
      BY <1>5, <2>2 DEF Take
    <3>. QED  BY <1>2, <1>7, <3>1
  <2>. QED  BY <2>1, <2>2
<1>10. to_server' \subseteq to_server /\ UNCHANGED <<client, notices>>
  BY DEF ListenerRecv
<1>11. Acked' = Acked
  BY <1>10 DEF Acked, client
<1>12. entry' # None
  BY <1>7, NoneAssumption
<1>13. /\ conv' \in {0, entry'.conv}
       /\ \A p \in to_server' : p.conv \in {0, entry'.conv}
       /\ \A u \in unacked' : u.conv \in {0, entry'.conv}
  BY <1>2, <1>7, <1>10 DEF client
<1>14. replaced' = {} /\ notices' = 0 /\ Acked' \subseteq entry'.got
  BY <1>2, <1>5, <1>7, <1>10, <1>11
<1>. QED  BY <1>8, <1>9, <1>12, <1>13, <1>14 DEF OneSession

\* What the client does concerns the one session, or none.
LEMMA ClientKeepsSession ==
  ASSUME Typed, OneSession,
         \/ ClientSend \/ ClientRecvFails \/ ClientFinalize
         \/ \E u \in unacked : ClientTransmit(u)
         \/ \E d \in to_client : ClientRecv(d)
  PROVE  OneSession'
<1>1. ClientTypes /\ EndingTypes /\ ServerTypes /\ NetTypes /\ FirstInv
  BY TypedParts
<1>2. /\ entry # None /\ replaced = {} /\ notices = 0
      /\ conv \in {0, entry.conv}
      /\ Acked \subseteq entry.got /\ readable = Prefix(entry.got)
      /\ \A d \in to_client : d.conv = entry.conv /\ (d.kind = "ack" => d.sn \in entry.got)
      /\ \A p \in to_server : p.conv \in {0, entry.conv}
      /\ \A u \in unacked : u.conv \in {0, entry.conv}
  BY DEF OneSession
<1>3. UNCHANGED server
  BY DEF ClientSend, ClientRecvFails, ClientFinalize, ClientTransmit, ClientRecv
<1>4. readable' = Prefix(entry'.got)
  BY <1>2, <1>3 DEF server
<1>5. entry' = entry /\ replaced' = {} /\ notices' = 0
  BY <1>2, <1>3 DEF server
<1>6. CASE ClientSend
  <2> DEFINE u == [sn |-> next_sn, conv |-> conv]
  <2>1. /\ unacked' = unacked \cup {u} /\ u.conv = conv
        /\ UNCHANGED <<conv, to_server, to_client>>
    BY <1>6 DEF ClientSend
  <2>. HIDE DEF u
  <2>2. Acked' \subseteq entry'.got
    BY <1>1, <1>2, <1>5, <1>6, SendAcks
  <2>3. \A v \in unacked' : v.conv \in {0, entry'.conv}
    BY <1>2, <1>5, <2>1
  <2>. QED  BY <1>2, <1>4, <1>5, <2>1, <2>2, <2>3 DEF OneSession
<1>7. CASE ClientRecvFails \/ ClientFinalize
  <2>1. UNCHANGED <<conv, next_sn, unacked, to_server, to_client>>
    BY <1>7 DEF ClientRecvFails, ClientFinalize
  <2>2. Acked' = Acked
    BY <2>1 DEF Acked
  <2>. QED  BY <1>2, <1>4, <1>5, <2>1, <2>2 DEF OneSession
<1>8. ASSUME NEW u \in unacked, ClientTransmit(u) PROVE OneSession'
  <2>1. PICK c \in {u.conv, conv} : to_server' = to_server \cup {Push(c, u.sn)}
    BY <1>8 DEF ClientTransmit
  <2>2. c \in {0, entry.conv} /\ Push(c, u.sn).conv = c
    BY <1>2, <2>1 DEF Push
  <2>3. UNCHANGED <<client, to_client>>
    BY <1>8 DEF ClientTransmit
  <2>4. Acked' = Acked
    BY <2>3 DEF Acked, client
  <2>5. \A p \in to_server' : p.conv \in {0, entry'.conv}
    BY <1>2, <1>5, <2>1, <2>2
  <2>. QED  BY <1>2, <1>4, <1>5, <2>3, <2>4, <2>5 DEF OneSession, client
<1>9. ASSUME NEW d \in to_client, ClientRecv(d) PROVE OneSession'
  <2>1. d.conv = entry.conv /\ (d.kind = "ack" => d.sn \in entry.got)
    BY <1>2
  <2>2. /\ to_client' \subseteq to_client /\ conv' = d.conv
        /\ unacked' \subseteq unacked
        /\ to_server' \subseteq to_server \cup {Ack(d.conv, d.sn)}
    BY <1>9, SentFacts DEF ClientRecv
  <2>3. Acked' \subseteq entry'.got
    BY <1>2, <1>5, <1>9, <2>1, RecvAcks
  <2>4. Ack(d.conv, d.sn).conv = d.conv
    BY DEF Ack
  <2>5. \A p \in to_server' : p.conv \in {0, entry'.conv}
    BY <1>2, <1>5, <2>1, <2>2, <2>4
  <2>6. \A e \in to_client' : e.conv = entry'.conv /\ (e.kind = "ack" => e.sn \in entry'.got)
    BY <1>2, <1>5, <2>2
  <2>7. conv' \in {0, entry'.conv} /\ \A u \in unacked' : u.conv \in {0, entry'.conv}
    BY <1>2, <1>5, <2>1, <2>2
  <2>. QED  BY <1>2, <1>4, <1>5, <2>3, <2>5, <2>6, <2>7 DEF OneSession
<1>. QED  BY <1>6, <1>7, <1>8, <1>9

\* The one session sends in its conversation, and the network adds nothing.
LEMMA ServerKeepsSession ==
  ASSUME Typed, OneSession,
         \/ ServerSend \/ ServerTransmit \/ Lose \/ UNCHANGED vars
  PROVE  OneSession'
<1>1. ClientTypes /\ EndingTypes /\ ServerTypes /\ NetTypes /\ FirstInv
  BY TypedParts
<1>2. /\ entry # None /\ replaced = {} /\ notices = 0
      /\ conv \in {0, entry.conv}
      /\ Acked \subseteq entry.got /\ readable = Prefix(entry.got)
      /\ \A d \in to_client : d.conv = entry.conv /\ (d.kind = "ack" => d.sn \in entry.got)
      /\ \A p \in to_server : p.conv \in {0, entry.conv}
      /\ \A u \in unacked : u.conv \in {0, entry.conv}
  BY DEF OneSession
<1>3. UNCHANGED client /\ Acked' = Acked
  BY DEF ServerSend, ServerTransmit, Lose, vars, Acked, client
<1>4. CASE ServerSend
  <2>1. entry \in Sessions /\ entry' = [entry EXCEPT !.out = "sent"]
    BY <1>1, <1>2, <1>4 DEF ServerSend, ServerTypes
  <2>2. entry' \in Sessions /\ entry'.conv = entry.conv /\ entry'.got = entry.got
    BY <2>1 DEF Sessions
  <2>3. UNCHANGED <<replaced, notices, readable, to_server, to_client>>
    BY <1>4 DEF ServerSend
  <2>4. entry' # None
    BY <2>2, NoneAssumption
  <2>5. readable' = Prefix(entry'.got)
    BY <1>2, <2>2, <2>3
  <2>. QED  BY <1>2, <1>3, <2>2, <2>3, <2>4, <2>5 DEF OneSession, client
<1>5. CASE ServerTransmit
  <2>1. PICK s \in Closed : to_client' = to_client \cup {Push(s.conv, 0)}
    BY <1>2, <1>5 DEF ServerTransmit
  <2>2. Push(s.conv, 0).conv = entry.conv /\ Push(s.conv, 0).kind # "ack"
    BY <1>1, <2>1, ClosedFacts DEF Push
  <2>3. UNCHANGED <<server, to_server>>
    BY <1>5 DEF ServerTransmit
  <2>4. \A d \in to_client' : d.conv = entry.conv /\ (d.kind = "ack" => d.sn \in entry.got)
    BY <1>2, <2>1, <2>2
  <2>5. readable' = Prefix(entry'.got) /\ entry' = entry
    BY <1>2, <2>3 DEF server
  <2>. QED  BY <1>2, <1>3, <2>3, <2>4, <2>5 DEF OneSession, client, server
<1>6. CASE Lose \/ UNCHANGED vars
  <2>1. /\ to_server' \subseteq to_server /\ to_client' \subseteq to_client
        /\ UNCHANGED server
    BY <1>6 DEF Lose, vars
  <2>2. readable' = Prefix(entry'.got) /\ entry' = entry
    BY <1>2, <2>1 DEF server
  <2>. QED  BY <1>2, <1>3, <2>1, <2>2 DEF OneSession, client, server
<1>. QED  BY <1>4, <1>5, <1>6

\* The first copy opens the session, a second one would end the agreement.
LEMMA OneTakenStep ==
  ASSUME Typed, NoneTaken, OneTaken, [Next]_vars
  PROVE  OneTaken'
<1>. SUFFICES ASSUME copies' = 1 PROVE OneSession'
  BY DEF OneTaken
<1>1. copies \in 0 .. 2
  BY DEF Typed, TypeOK
<1>2. CASE copies' # copies
  <2>1. PICK came \in to_server : ListenerRecv(came) /\ copies' = copies + 1
    BY <1>2, CopiesFacts
  <2>2. copies = 0
    BY <1>1, <2>1
  <2>. QED  BY <2>1, <2>2, FirstCopy
<1>3. CASE copies' = copies
  <2>1. OneSession /\ copies = 1
    BY <1>3 DEF OneTaken
  <2>2. CASE \E came \in to_server : ListenerRecv(came)
    <3>1. PICK came \in to_server : ListenerRecv(came)
      BY <2>2
    <3>2. came.conv # 0
      <4>1. copies' = IF came.conv = 0 /\ copies < 2 THEN copies + 1 ELSE copies
        BY <3>1 DEF ListenerRecv
      <4>. QED  BY <2>1, <4>1
    <3>. QED  BY <2>1, <3>1, <3>2, SessionReceives
  <2>3. ~ ReplacedFinalize /\ ~ ListenerClose
    BY <2>1 DEF OneSession, ReplacedFinalize, ListenerClose
  <2>. QED  BY <2>1, <2>2, <2>3, ClientKeepsSession, ServerKeepsSession DEF Next
<1>. QED  BY <1>2, <1>3

(***************************************************************************)
(* While the listener took the first segment unnamed only once, the client *)
(* and the server are of one conversation: get_or_create replaces nothing, *)
(* what the client takes for acknowledged is in the session it speaks to,  *)
(* and its stream reads it up to the first gap.                            *)
(***************************************************************************)
THEOREM Agreement == Spec => []OneConversation
<1>1. Init => IInv
  <2>. SUFFICES ASSUME Init PROVE IInv
    OBVIOUS
  <2>1. Typed
    BY InitTyped
  <2>2. Acked = {}
    BY DEF Init, Acked
  <2>3. NoneTaken /\ OneTaken
    BY <2>2 DEF Init, NoneTaken, OneTaken
  <2>. QED  BY <2>1, <2>3 DEF IInv
<1>2. IInv /\ [Next]_vars => IInv'
  <2>. SUFFICES ASSUME Typed, NoneTaken, OneTaken, [Next]_vars PROVE IInv'
    BY DEF IInv
  <2>. QED  BY TypedStep, NoneTakenStep, OneTakenStep DEF IInv
<1>3. IInv => OneConversation
  BY DEF IInv, OneTaken, OneSession, OneConversation
<1>. QED  BY <1>1, <1>2, <1>3, PTL DEF Spec

=============================================================================
