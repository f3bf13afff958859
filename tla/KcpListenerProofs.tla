-------------------------- MODULE KcpListenerProofs --------------------------
(***************************************************************************)
(* Proofs about KcpListener, for every set of sessions, peers and          *)
(* conversations and every capacity.                                       *)
(***************************************************************************)
EXTENDS KcpListener, TLAPS

\* The actions of one session that leave the listener alone.
SessionStep(s) ==
  \/ IoInput(s) \/ IoAborted(s) \/ GiveUp(s) \/ CloseIdle(s)
  \/ FinalizeClose(s) \/ FinalizeAbort(s) \/ FinalizeMark(s)
  \/ Send(s) \/ Touch(s) \/ DropStream(s) \/ Age(s)

\* Every step is a step of the listener, of its handle, or of one session.
LEMMA StepCases ==
  ASSUME Next
  PROVE  \/ \E p \in Peers, c \in Convs, s \in Sessions, b \in BOOLEAN :
              ListenerCreate(p, c, s, b)
         \/ \E p \in Peers, c \in Convs : ListenerRoute(p, c)
         \/ \E p \in Peers : ListenerRouteParity(p)
         \/ OfferAccepted \/ OfferRejected \/ DeliverInput
         \/ ListenerClose \/ (TaskEnds /\ lpc # "offer") \/ Accept
         \/ DropListener
         \/ \E s \in Sessions : SessionStep(s) /\ UNCHANGED listenerVars
         \/ \E s \in Sessions : SendNotice(s)
BY DEF Next, ListenerRecv, ListenerPanics, ListenerAborted, Offer, IoTask,
       Tick, Finalize, Application, Elapse, SessionStep

-----------------------------------------------------------------------------
(***************************************************************************)
(* What the two ends of a channel do to the set of what is in it.          *)
(***************************************************************************)
LEMMA RangeAppend ==
  ASSUME NEW S, NEW q \in Seq(S), NEW e \in S
  PROVE  Range(Append(q, e)) = Range(q) \cup {e}
<1>1. /\ DOMAIN Append(q, e) = DOMAIN q \cup {Len(q) + 1}
      /\ Append(q, e)[Len(q) + 1] = e
      /\ \A i \in DOMAIN q : Append(q, e)[i] = q[i]
  OBVIOUS
<1>. QED  BY <1>1 DEF Range

\* Taking the head out leaves the rest.
LEMMA RangeTail ==
  ASSUME NEW S, NEW q \in Seq(S), q # <<>>
  PROVE  Range(q) = {Head(q)} \cup Range(Tail(q))
<1>1. /\ Len(Tail(q)) = Len(q) - 1
      /\ \A i \in 1 .. Len(Tail(q)) : Tail(q)[i] = q[i + 1]
      /\ Head(q) = q[1]
      /\ DOMAIN q = 1 .. Len(q) /\ DOMAIN Tail(q) = 1 .. Len(Tail(q))
      /\ Len(q) \in Nat \ {0}
  OBVIOUS
<1>2. ASSUME NEW e \in Range(q), e # Head(q)
      PROVE  e \in Range(Tail(q))
  <2>1. PICK i \in DOMAIN q : e = q[i]
    BY DEF Range
  <2>2. i - 1 \in DOMAIN Tail(q) /\ Tail(q)[i - 1] = q[i]
    BY <1>1, <1>2, <2>1
  <2>. QED  BY <2>1, <2>2 DEF Range
<1>3. ASSUME NEW e \in Range(Tail(q))
      PROVE  e \in Range(q)
  <2>1. PICK i \in DOMAIN Tail(q) : e = Tail(q)[i]
    BY DEF Range
  <2>2. i + 1 \in DOMAIN q /\ Tail(q)[i] = q[i + 1]
    BY <1>1
  <2>. QED  BY <2>1, <2>2 DEF Range
<1>4. Head(q) \in Range(q)
  BY <1>1 DEF Range
<1>. QED  BY <1>2, <1>3, <1>4

-----------------------------------------------------------------------------
(***************************************************************************)
(* Type correctness.                                                       *)
(***************************************************************************)
LEMMA InitType == Init => TypeOK
BY NoneAssumption, BoundsAssumption, AcceptAssumption
   DEF Init, SessionInit, TypeOK, SessionTypeOK, Phases, IoStates,
       StreamStates, ListenerStates, NoHand

\* The parts of TypeOK about the session variables.
LEMMA SessionStepType ==
  ASSUME SessionTypeOK, NEW s \in Sessions, SessionStep(s)
  PROVE  SessionTypeOK'
<1>. USE DEF SessionTypeOK, Phases, IoStates, StreamStates
<1>1. CASE IoInput(s)
  <2>1. /\ inq' \in [Sessions -> Seq(Packets)]
        /\ \A x \in Sessions : Len(inq'[x]) <= InputCap
    BY <1>1, BoundsAssumption DEF IoInput
  <2>2. PICK left \in 0 .. unacked[s], age \in {0, idle[s]} :
          /\ unacked' = [unacked EXCEPT ![s] = left]
          /\ idle' = [idle EXCEPT ![s] = age]
    BY <1>1 DEF IoInput
  <2>3. unacked[s] \in Nat /\ idle[s] \in 0..2
    OBVIOUS
  <2>4. left \in Nat /\ age \in 0..2
    BY <2>3
  <2>. QED  BY <1>1, <2>1, <2>2, <2>4 DEF IoInput
<1>2. CASE IoAborted(s)
  BY <1>2, BoundsAssumption DEF IoAborted
<1>3. CASE GiveUp(s)
  BY <1>3 DEF GiveUp
<1>4. CASE CloseIdle(s)
  BY <1>4 DEF CloseIdle
<1>5. CASE FinalizeClose(s) \/ FinalizeAbort(s) \/ FinalizeMark(s)
  BY <1>5 DEF FinalizeClose, FinalizeAbort, FinalizeMark
<1>6. CASE Send(s)
  BY <1>6 DEF Send
<1>7. CASE Touch(s)
  BY <1>7 DEF Touch
<1>8. CASE DropStream(s)
  BY <1>8 DEF DropStream
<1>9. CASE Age(s)
  <2> DEFINE older == idle[s] + 1
  <2>1. older \in 0..2
    <3>1. idle[s] \in 0..2 /\ idle[s] < 2
      BY <1>9 DEF Age
    <3>. QED  BY <3>1
  <2>2. idle' = [idle EXCEPT ![s] = older]
    BY <1>9 DEF Age
  <2>. HIDE DEF older
  <2>3. idle' \in [Sessions -> 0..2]
    BY <2>1, <2>2
  <2>. QED  BY <1>9, <2>3 DEF Age
<1>. QED
  BY <1>1, <1>2, <1>3, <1>4, <1>5, <1>6, <1>7, <1>8, <1>9 DEF SessionStep

\* NewShared registers a session; what it writes keeps the types.
LEMMA NewSharedType ==
  ASSUME SessionTypeOK, NEW s \in Sessions, NEW p \in Peers, NEW c \in Convs,
         NEW old, NewShared(s, p, c, old)
  PROVE  SessionTypeOK'
BY DEF SessionTypeOK, NewShared, Phases, IoStates, StreamStates

\* The types are kept while the hand is full when it should be and every
\* session there is has a peer.
LEMMA NextType ==
  TypeOK /\ HandHeld /\ CreatedHasPeer /\ [Next]_vars => TypeOK'
<1>. SUFFICES ASSUME TypeOK, HandHeld, CreatedHasPeer, Next PROVE TypeOK'
  BY DEF TypeOK, SessionTypeOK, vars, sessionVars, listenerVars
<1>. USE NoneAssumption, BoundsAssumption, AcceptAssumption
<1>0. SessionTypeOK
  BY DEF TypeOK
<1>1. ASSUME NEW p \in Peers, NEW c \in Convs, NEW s \in Sessions,
             NEW b \in BOOLEAN, ListenerCreate(p, c, s, b)
      PROVE  TypeOK'
  <2>1. SessionTypeOK'
    BY <1>0, <1>1, NewSharedType DEF ListenerCreate
  <2>. QED  BY <1>1, <2>1 DEF ListenerCreate, TypeOK, ListenerStates, Packets
<1>2. ASSUME NEW p \in Peers, NEW c \in Convs, ListenerRoute(p, c)
      PROVE  TypeOK'
  BY <1>2 DEF ListenerRoute, TypeOK, SessionTypeOK, sessionVars,
              ListenerStates, Packets
<1>3. ASSUME NEW p \in Peers, ListenerRouteParity(p)
      PROVE  TypeOK'
  BY <1>3 DEF ListenerRouteParity, TypeOK, SessionTypeOK, sessionVars,
              ListenerStates, Packets
<1>4. CASE OfferAccepted
  BY <1>4 DEF OfferAccepted, HandHeld, TypeOK, SessionTypeOK, ListenerStates,
              StreamStates, NoHand
<1>5. CASE OfferRejected
  BY <1>5 DEF OfferRejected, TypeOK, SessionTypeOK, ListenerStates,
              StreamStates
<1>6. CASE DeliverInput
  <2>1. hand.sess \in Sessions /\ hand.pkt \in Packets
    BY <1>6 DEF DeliverInput, HandHeld, TypeOK
  <2>2. /\ inq' \in [Sessions -> Seq(Packets)]
        /\ \A s \in Sessions : Len(inq'[s]) <= InputCap
    <3>1. CASE io[hand.sess] = "gone"
      BY <1>6, <3>1 DEF DeliverInput, TypeOK, SessionTypeOK
    <3>2. CASE io[hand.sess] # "gone"
      <4>. DEFINE q == Append(inq[hand.sess], hand.pkt)
      <4>1. /\ inq' = [inq EXCEPT ![hand.sess] = q]
            /\ Len(inq[hand.sess]) < InputCap
        BY <1>6, <3>2 DEF DeliverInput
      <4>2. inq[hand.sess] \in Seq(Packets)
        BY <2>1 DEF TypeOK, SessionTypeOK
      <4>3. q \in Seq(Packets) /\ Len(q) <= InputCap
        BY <2>1, <4>1, <4>2
      <4>. HIDE DEF q
      <4>. QED  BY <2>1, <4>1, <4>3 DEF TypeOK, SessionTypeOK
    <3>. QED  BY <3>1, <3>2
  <2>. QED
    BY <1>6, <2>2 DEF DeliverInput, TypeOK, SessionTypeOK, ListenerStates
<1>7. CASE ListenerClose
  BY <1>7 DEF ListenerClose, CloseIf, TypeOK, SessionTypeOK
<1>8. CASE TaskEnds /\ lpc # "offer"
  BY <1>8 DEF TaskEnds, CloseIf, TypeOK, SessionTypeOK, ListenerStates
<1>9. CASE Accept
  BY <1>9 DEF Accept, TypeOK, SessionTypeOK, StreamStates
<1>10. CASE DropListener
  BY <1>10 DEF DropListener, CloseIf, TypeOK, SessionTypeOK, StreamStates
<1>11. ASSUME NEW s \in Sessions, SessionStep(s), UNCHANGED listenerVars
       PROVE  TypeOK'
  BY <1>0, <1>11, SessionStepType DEF TypeOK, listenerVars
<1>12. ASSUME NEW s \in Sessions, SendNotice(s)
       PROVE  TypeOK'
  BY <1>12 DEF SendNotice, FinalizeNotify, CreatedHasPeer, TypeOK,
               SessionTypeOK, Phases
<1>. QED
  BY StepCases, <1>1, <1>2, <1>3, <1>4, <1>5, <1>6, <1>7, <1>8, <1>9, <1>10,
     <1>11, <1>12

-----------------------------------------------------------------------------
(***************************************************************************)
(* What a step of a session leaves alone, as far as the listener can see.  *)
(***************************************************************************)
LEMMA SessionStepFrame ==
  ASSUME TypeOK, NEW s \in Sessions, SessionStep(s), NEW x \in Sessions
  PROVE  /\ peer' = peer /\ conv' = conv
         /\ closed[x] => closed'[x]
         /\ (phase'[x] = "free") <=> (phase[x] = "free")
         /\ Notified(x)' <=> Notified(x)
         /\ stream[x] = "held" /\ ~ closed'[x] => stream'[x] = "held"
         /\ inq'[x] \in {inq[x], Tail(inq[x]), <<>>}
         /\ inq[x] = <<>> => inq'[x] = <<>>
<1>. USE DEF TypeOK, SessionTypeOK, Notified
<1>1. CASE IoInput(s)
  BY <1>1 DEF IoInput
<1>2. CASE IoAborted(s)
  BY <1>2 DEF IoAborted
<1>3. CASE GiveUp(s)
  BY <1>3 DEF GiveUp
<1>4. CASE CloseIdle(s)
  BY <1>4 DEF CloseIdle
<1>5. CASE FinalizeClose(s) \/ FinalizeAbort(s) \/ FinalizeMark(s)
  BY <1>5 DEF FinalizeClose, FinalizeAbort, FinalizeMark
<1>6. CASE Send(s)
  BY <1>6 DEF Send
<1>7. CASE Touch(s)
  BY <1>7 DEF Touch
<1>8. CASE DropStream(s)
  BY <1>8 DEF DropStream
<1>9. CASE Age(s)
  BY <1>9 DEF Age
<1>. QED
  BY <1>1, <1>2, <1>3, <1>4, <1>5, <1>6, <1>7, <1>8, <1>9 DEF SessionStep

-----------------------------------------------------------------------------
\* The part of the inductive invariant about the table and the hand.
Structure ==
  /\ HandHeld /\ HandEmpty
  /\ CreatedHasPeer /\ EntryIsOfPeer /\ StoppedHasNoEntry

\* The structure of hand, entries and creation is kept by every step.
LEMMA NextStructure ==
  TypeOK /\ Structure /\ [Next]_vars => Structure'
<1>. SUFFICES ASSUME TypeOK, Structure, Next PROVE Structure'
  BY DEF Structure, HandHeld, HandEmpty, CreatedHasPeer, EntryIsOfPeer,
         StoppedHasNoEntry, vars, sessionVars, listenerVars
<1>. USE NoneAssumption
<1>1. ASSUME NEW p \in Peers, NEW c \in Convs, NEW s \in Sessions,
             NEW b \in BOOLEAN, ListenerCreate(p, c, s, b)
      PROVE  Structure'
  BY <1>1 DEF ListenerCreate, NewShared, CloseIf, FinalizeNotify, TypeOK,
       SessionTypeOK, sessionVars, NoHand, Structure, HandHeld, HandEmpty,
       CreatedHasPeer, EntryIsOfPeer, StoppedHasNoEntry
<1>2. ASSUME NEW p \in Peers, NEW c \in Convs, ListenerRoute(p, c)
      PROVE  Structure'
  BY <1>2 DEF ListenerRoute, NewShared, CloseIf, FinalizeNotify, TypeOK,
       SessionTypeOK, sessionVars, NoHand, Structure, HandHeld, HandEmpty,
       CreatedHasPeer, EntryIsOfPeer, StoppedHasNoEntry
<1>3. ASSUME NEW p \in Peers, ListenerRouteParity(p)
      PROVE  Structure'
  BY <1>3 DEF ListenerRouteParity, NewShared, CloseIf, FinalizeNotify,
       TypeOK, SessionTypeOK, sessionVars, NoHand, Structure, HandHeld,
       HandEmpty, CreatedHasPeer, EntryIsOfPeer, StoppedHasNoEntry
<1>4. CASE OfferAccepted
  BY <1>4 DEF OfferAccepted, NewShared, CloseIf, FinalizeNotify, TypeOK,
       SessionTypeOK, sessionVars, NoHand, Structure, HandHeld, HandEmpty,
       CreatedHasPeer, EntryIsOfPeer, StoppedHasNoEntry
<1>5. CASE OfferRejected
  BY <1>5 DEF OfferRejected, NewShared, CloseIf, FinalizeNotify, TypeOK,
       SessionTypeOK, sessionVars, NoHand, Structure, HandHeld, HandEmpty,
       CreatedHasPeer, EntryIsOfPeer, StoppedHasNoEntry
<1>6. CASE DeliverInput
  BY <1>6 DEF DeliverInput, NewShared, CloseIf, FinalizeNotify, TypeOK,
       SessionTypeOK, sessionVars, NoHand, Structure, HandHeld, HandEmpty,
       CreatedHasPeer, EntryIsOfPeer, StoppedHasNoEntry
<1>7. CASE ListenerClose
  BY <1>7 DEF ListenerClose, NewShared, CloseIf, FinalizeNotify, TypeOK,
       SessionTypeOK, sessionVars, NoHand, Structure, HandHeld, HandEmpty,
       CreatedHasPeer, EntryIsOfPeer, StoppedHasNoEntry
<1>8. CASE TaskEnds /\ lpc # "offer"
  BY <1>8 DEF TaskEnds, NewShared, CloseIf, FinalizeNotify, TypeOK,
       SessionTypeOK, sessionVars, NoHand, Structure, HandHeld, HandEmpty,
       CreatedHasPeer, EntryIsOfPeer, StoppedHasNoEntry
<1>9. CASE Accept
  BY <1>9 DEF Accept, NewShared, CloseIf, FinalizeNotify, TypeOK,
       SessionTypeOK, sessionVars, NoHand, Structure, HandHeld, HandEmpty,
       CreatedHasPeer, EntryIsOfPeer, StoppedHasNoEntry
<1>10. CASE DropListener
  BY <1>10 DEF DropListener, NewShared, CloseIf, FinalizeNotify, TypeOK,
       SessionTypeOK, sessionVars, NoHand, Structure, HandHeld, HandEmpty,
       CreatedHasPeer, EntryIsOfPeer, StoppedHasNoEntry
<1>11. ASSUME NEW s \in Sessions, SessionStep(s), UNCHANGED listenerVars
      PROVE  Structure'
  BY <1>11, SessionStepFrame DEF TypeOK, Structure, HandHeld, HandEmpty,
         CreatedHasPeer, EntryIsOfPeer, StoppedHasNoEntry, listenerVars
<1>12. ASSUME NEW s \in Sessions, SendNotice(s)
      PROVE  Structure'
  BY <1>12 DEF SendNotice, NewShared, CloseIf, FinalizeNotify, TypeOK,
       SessionTypeOK, sessionVars, NoHand, Structure, HandHeld, HandEmpty,
       CreatedHasPeer, EntryIsOfPeer, StoppedHasNoEntry
<1>. QED
  BY StepCases, <1>1, <1>2, <1>3, <1>4, <1>5, <1>6, <1>7, <1>8, <1>9, <1>10,
     <1>11, <1>12

\* An entry is given up only together with the drop that closes its session.
LEMMA NextEvicted ==
  TypeOK /\ Structure /\ EvictedIsClosed /\ [Next]_vars => EvictedIsClosed'
<1>. SUFFICES ASSUME TypeOK, Structure, EvictedIsClosed, Next
              PROVE  EvictedIsClosed'
  BY DEF EvictedIsClosed,
         vars, sessionVars, listenerVars
<1>. USE NoneAssumption
<1>1. ASSUME NEW p \in Peers, NEW c \in Convs, NEW s \in Sessions,
             NEW b \in BOOLEAN, ListenerCreate(p, c, s, b)
      PROVE  EvictedIsClosed'
  BY <1>1 DEF ListenerCreate, NewShared, TypeOK, SessionTypeOK, Structure,
       EvictedIsClosed, CreatedHasPeer, EntryIsOfPeer, HandHeld
<1>2. ASSUME NEW p \in Peers, NEW c \in Convs, ListenerRoute(p, c)
      PROVE  EvictedIsClosed'
  BY <1>2 DEF ListenerRoute, sessionVars, TypeOK, SessionTypeOK, Structure,
       EvictedIsClosed, CreatedHasPeer, EntryIsOfPeer, HandHeld
<1>3. ASSUME NEW p \in Peers, ListenerRouteParity(p)
      PROVE  EvictedIsClosed'
  BY <1>3 DEF ListenerRouteParity, sessionVars, TypeOK, SessionTypeOK,
       Structure, EvictedIsClosed, CreatedHasPeer, EntryIsOfPeer, HandHeld
<1>4. CASE OfferAccepted
  BY <1>4 DEF OfferAccepted, TypeOK, SessionTypeOK, Structure,
       EvictedIsClosed, CreatedHasPeer, EntryIsOfPeer, HandHeld
<1>5. CASE OfferRejected
  BY <1>5 DEF OfferRejected, TypeOK, SessionTypeOK, Structure,
       EvictedIsClosed, CreatedHasPeer, EntryIsOfPeer, HandHeld
<1>6. CASE DeliverInput
  BY <1>6 DEF DeliverInput, TypeOK, SessionTypeOK, Structure, EvictedIsClosed,
       CreatedHasPeer, EntryIsOfPeer, HandHeld
<1>7. CASE ListenerClose
  <2>1. ASSUME NEW x \in Sessions, phase'[x] # "free", table'[peer'[x]] # x
        PROVE  closed'[x]
    <3>1. phase[x] # "free" /\ peer'[x] = peer[x] /\ peer[x] \in Peers
      BY <1>7, <2>1 DEF ListenerClose, Structure, CreatedHasPeer
    <3>2. table[peer[x]] # x \/ Head(closeq) = peer[x]
      BY <1>7, <2>1, <3>1 DEF ListenerClose, TypeOK
    <3>3. table[peer[x]] # x => closed[x]
      BY <3>1 DEF EvictedIsClosed
    <3>. QED  BY <1>7, <3>2, <3>3 DEF ListenerClose, CloseIf
  <2>. QED  BY <2>1 DEF EvictedIsClosed
<1>8. CASE TaskEnds /\ lpc # "offer"
  <2>1. ASSUME NEW x \in Sessions, phase[x] # "free"
        PROVE  closed'[x]
    <3>1. peer[x] \in Peers
      BY <2>1 DEF Structure, CreatedHasPeer
    <3>2. table[peer[x]] = x => x \in Range(table)
      BY <3>1 DEF TypeOK, Range
    <3>. QED  BY <1>8, <2>1, <3>2 DEF TaskEnds, CloseIf, EvictedIsClosed
  <2>. QED  BY <1>8, <2>1 DEF TaskEnds, EvictedIsClosed
<1>9. CASE Accept
  BY <1>9 DEF Accept, TypeOK, SessionTypeOK, Structure, EvictedIsClosed,
       CreatedHasPeer, EntryIsOfPeer, HandHeld
<1>10. CASE DropListener
  BY <1>10 DEF DropListener, CloseIf, TypeOK, SessionTypeOK, Structure,
       EvictedIsClosed, CreatedHasPeer, EntryIsOfPeer, HandHeld
<1>11. ASSUME NEW s \in Sessions, SessionStep(s), UNCHANGED listenerVars
      PROVE  EvictedIsClosed'
  BY <1>11, SessionStepFrame DEF listenerVars, TypeOK, SessionTypeOK,
       Structure, EvictedIsClosed, CreatedHasPeer, EntryIsOfPeer, HandHeld
<1>12. ASSUME NEW s \in Sessions, SendNotice(s)
      PROVE  EvictedIsClosed'
  BY <1>12 DEF SendNotice, FinalizeNotify, TypeOK, SessionTypeOK, Structure,
       EvictedIsClosed, CreatedHasPeer, EntryIsOfPeer, HandHeld
<1>. QED
  BY StepCases, <1>1, <1>2, <1>3, <1>4, <1>5, <1>6, <1>7, <1>8, <1>9, <1>10,
     <1>11, <1>12

\* The notice stays in the channel until close_peer has removed the entry.
LEMMA NextNotice ==
  TypeOK /\ Structure /\ FinishedEntryHasNotice /\ [Next]_vars
    => FinishedEntryHasNotice'
<1>. SUFFICES ASSUME TypeOK, Structure, FinishedEntryHasNotice, Next
              PROVE  FinishedEntryHasNotice'
  BY DEF FinishedEntryHasNotice, Notified,
         vars, sessionVars, listenerVars
<1>. USE NoneAssumption
<1>1. ASSUME NEW p \in Peers, NEW c \in Convs, NEW s \in Sessions,
             NEW b \in BOOLEAN, ListenerCreate(p, c, s, b)
      PROVE  FinishedEntryHasNotice'
  BY <1>1 DEF ListenerCreate, NewShared, TypeOK, SessionTypeOK, Structure,
       FinishedEntryHasNotice, Notified, Range, EntryIsOfPeer, CreatedHasPeer,
       StoppedHasNoEntry
<1>2. ASSUME NEW p \in Peers, NEW c \in Convs, ListenerRoute(p, c)
      PROVE  FinishedEntryHasNotice'
  BY <1>2 DEF ListenerRoute, sessionVars, TypeOK, SessionTypeOK, Structure,
       FinishedEntryHasNotice, Notified, Range, EntryIsOfPeer, CreatedHasPeer,
       StoppedHasNoEntry
<1>3. ASSUME NEW p \in Peers, ListenerRouteParity(p)
      PROVE  FinishedEntryHasNotice'
  BY <1>3 DEF ListenerRouteParity, sessionVars, TypeOK, SessionTypeOK,
       Structure, FinishedEntryHasNotice, Notified, Range, EntryIsOfPeer,
       CreatedHasPeer, StoppedHasNoEntry
<1>4. CASE OfferAccepted
  BY <1>4 DEF OfferAccepted, TypeOK, SessionTypeOK, Structure,
       FinishedEntryHasNotice, Notified, Range, EntryIsOfPeer, CreatedHasPeer,
       StoppedHasNoEntry
<1>5. CASE OfferRejected
  BY <1>5 DEF OfferRejected, TypeOK, SessionTypeOK, Structure,
       FinishedEntryHasNotice, Notified, Range, EntryIsOfPeer, CreatedHasPeer,
       StoppedHasNoEntry
<1>6. CASE DeliverInput
  BY <1>6 DEF DeliverInput, TypeOK, SessionTypeOK, Structure,
       FinishedEntryHasNotice, Notified, Range, EntryIsOfPeer, CreatedHasPeer,
       StoppedHasNoEntry
<1>7. CASE ListenerClose
  <2>1. Range(closeq) = {Head(closeq)} \cup Range(Tail(closeq))
    BY <1>7, RangeTail DEF ListenerClose, TypeOK
  <2>. QED
    BY <1>7, <2>1 DEF ListenerClose, TypeOK, FinishedEntryHasNotice, Notified
<1>8. CASE TaskEnds /\ lpc # "offer"
  BY <1>8 DEF TaskEnds, CloseIf, TypeOK, SessionTypeOK, Structure,
       FinishedEntryHasNotice, Notified, Range, EntryIsOfPeer, CreatedHasPeer,
       StoppedHasNoEntry
<1>9. CASE Accept
  BY <1>9 DEF Accept, TypeOK, SessionTypeOK, Structure,
       FinishedEntryHasNotice, Notified, Range, EntryIsOfPeer, CreatedHasPeer,
       StoppedHasNoEntry
<1>10. CASE DropListener
  BY <1>10 DEF DropListener, CloseIf, TypeOK, SessionTypeOK, Structure,
       FinishedEntryHasNotice, Notified, Range, EntryIsOfPeer, CreatedHasPeer,
       StoppedHasNoEntry
<1>11. ASSUME NEW s \in Sessions, SessionStep(s), UNCHANGED listenerVars
      PROVE  FinishedEntryHasNotice'
  BY <1>11, SessionStepFrame DEF listenerVars, TypeOK, SessionTypeOK,
       Structure, FinishedEntryHasNotice, Notified, Range, EntryIsOfPeer,
       CreatedHasPeer, StoppedHasNoEntry
<1>12. ASSUME NEW s \in Sessions, SendNotice(s)
      PROVE  FinishedEntryHasNotice'
  <2>1. lpc = "stopped" => \A p \in Peers : table[p] = None
    BY DEF Structure, StoppedHasNoEntry
  <2>2. lpc # "stopped" => Range(closeq') = Range(closeq) \cup {peer[s]}
    <3>1. peer[s] \in Peers
      BY <1>12 DEF SendNotice, FinalizeNotify, Structure, CreatedHasPeer
    <3>. QED  BY <1>12, <3>1, RangeAppend DEF SendNotice, TypeOK
  <2>3. ASSUME NEW p \in Peers, table'[p] # None, Notified(table[p])'
        PROVE  p \in Range(closeq')
    <3>1. table'[p] = table[p] /\ table[p] \in Sessions
      BY <1>12, <2>3 DEF SendNotice, TypeOK
    <3>2. lpc # "stopped"
      BY <2>1, <2>3, <3>1
    <3>3. table[p] = s => peer[s] = p
      BY <2>3, <3>1 DEF Structure, EntryIsOfPeer
    <3>4. table[p] # s => Notified(table[p])
      BY <1>12, <2>3, <3>1 DEF SendNotice, FinalizeNotify, Notified, TypeOK,
                             SessionTypeOK
    <3>. QED  BY <2>2, <2>3, <3>1, <3>2, <3>3, <3>4 DEF FinishedEntryHasNotice
  <2>. QED  BY <1>12, <2>3 DEF SendNotice, FinishedEntryHasNotice, Notified
<1>. QED
  BY StepCases, <1>1, <1>2, <1>3, <1>4, <1>5, <1>6, <1>7, <1>8, <1>9, <1>10,
     <1>11, <1>12

\* A stream goes from the hand to the channel to the application, or is dropped.
LEMMA NextOwner ==
  TypeOK /\ Structure /\ OpenHasOwner /\ [Next]_vars => OpenHasOwner'
<1>. SUFFICES ASSUME TypeOK, Structure, OpenHasOwner, Next PROVE OpenHasOwner'
  BY DEF OpenHasOwner,
         vars, sessionVars, listenerVars
<1>. USE NoneAssumption
<1>1. ASSUME NEW p \in Peers, NEW c \in Convs, NEW s \in Sessions,
             NEW b \in BOOLEAN, ListenerCreate(p, c, s, b)
      PROVE  OpenHasOwner'
  BY <1>1 DEF ListenerCreate, NewShared, TypeOK, SessionTypeOK, Structure,
       OpenHasOwner, Range, HandHeld
<1>2. ASSUME NEW p \in Peers, NEW c \in Convs, ListenerRoute(p, c)
      PROVE  OpenHasOwner'
  BY <1>2 DEF ListenerRoute, sessionVars, TypeOK, SessionTypeOK, Structure,
       OpenHasOwner, Range, HandHeld
<1>3. ASSUME NEW p \in Peers, ListenerRouteParity(p)
      PROVE  OpenHasOwner'
  BY <1>3 DEF ListenerRouteParity, sessionVars, TypeOK, SessionTypeOK,
       Structure, OpenHasOwner, Range, HandHeld
<1>4. CASE OfferAccepted
  <2>1. Range(acceptq') = Range(acceptq) \cup {hand.sess}
    BY <1>4, RangeAppend DEF OfferAccepted, TypeOK, Structure, HandHeld
  <2>. QED
    BY <1>4, <2>1 DEF OfferAccepted, TypeOK, SessionTypeOK, OpenHasOwner
<1>5. CASE OfferRejected
  BY <1>5 DEF OfferRejected, TypeOK, SessionTypeOK, Structure, OpenHasOwner,
       Range, HandHeld
<1>6. CASE DeliverInput
  BY <1>6 DEF DeliverInput, TypeOK, SessionTypeOK, Structure, OpenHasOwner,
       Range, HandHeld
<1>7. CASE ListenerClose
  BY <1>7 DEF ListenerClose, CloseIf, TypeOK, SessionTypeOK, Structure,
       OpenHasOwner, Range, HandHeld
<1>8. CASE TaskEnds /\ lpc # "offer"
  BY <1>8 DEF TaskEnds, CloseIf, TypeOK, SessionTypeOK, Structure,
       OpenHasOwner, Range, HandHeld
<1>9. CASE Accept
  <2>1. Range(acceptq) = {Head(acceptq)} \cup Range(Tail(acceptq))
    BY <1>9, RangeTail DEF Accept, TypeOK
  <2>. QED  BY <1>9, <2>1 DEF Accept, TypeOK, SessionTypeOK, OpenHasOwner
<1>10. CASE DropListener
  BY <1>10 DEF DropListener, CloseIf, TypeOK, SessionTypeOK, Structure,
       OpenHasOwner, Range, HandHeld
<1>11. ASSUME NEW s \in Sessions, SessionStep(s), UNCHANGED listenerVars
      PROVE  OpenHasOwner'
  <2>1. ASSUME NEW x \in Sessions, phase'[x] # "free", ~ closed'[x]
        PROVE  \/ stream'[x] = "held" \/ x \in Range(acceptq')
               \/ lpc' = "offer" /\ hand'.sess = x
    <3>1. phase[x] # "free" /\ ~ closed[x]
      BY <1>11, <2>1, SessionStepFrame
    <3>2. stream[x] = "held" => stream'[x] = "held"
      BY <1>11, <2>1, SessionStepFrame
    <3>. QED  BY <1>11, <3>1, <3>2 DEF OpenHasOwner, listenerVars
  <2>. QED  BY <2>1 DEF OpenHasOwner
<1>12. ASSUME NEW s \in Sessions, SendNotice(s)
      PROVE  OpenHasOwner'
  BY <1>12 DEF SendNotice, FinalizeNotify, TypeOK, SessionTypeOK, Structure,
       OpenHasOwner, Range, HandHeld
<1>. QED
  BY StepCases, <1>1, <1>2, <1>3, <1>4, <1>5, <1>6, <1>7, <1>8, <1>9, <1>10,
     <1>11, <1>12

\* Datagrams are where their conversation is, none where there is no session.
Routing == FreeIsFresh /\ RoutedToItsConv

\* The conversation is compared before a datagram is put in hand, and fixed.
LEMMA NextRouting ==
  TypeOK /\ Structure /\ Routing /\ [Next]_vars => Routing'
<1>. SUFFICES ASSUME TypeOK, Structure, Routing, Next PROVE Routing'
  BY DEF Routing, FreeIsFresh, RoutedToItsConv,
         vars, sessionVars, listenerVars
<1>. USE NoneAssumption
<1>1. ASSUME NEW p \in Peers, NEW c \in Convs, NEW s \in Sessions,
             NEW b \in BOOLEAN, ListenerCreate(p, c, s, b)
      PROVE  Routing'
  BY <1>1 DEF ListenerCreate, NewShared, TypeOK, SessionTypeOK, Structure,
       RoutedToItsConv, FreeIsFresh, Routing, HandHeld, HandEmpty,
       EntryIsOfPeer, NoHand
<1>2. ASSUME NEW p \in Peers, NEW c \in Convs, ListenerRoute(p, c)
      PROVE  Routing'
  BY <1>2 DEF ListenerRoute, sessionVars, TypeOK, SessionTypeOK, Structure,
       RoutedToItsConv, FreeIsFresh, Routing, HandHeld, HandEmpty,
       EntryIsOfPeer, NoHand
<1>3. ASSUME NEW p \in Peers, ListenerRouteParity(p)
      PROVE  Routing'
  BY <1>3 DEF ListenerRouteParity, sessionVars, TypeOK, SessionTypeOK,
       Structure, RoutedToItsConv, FreeIsFresh, Routing, HandHeld, HandEmpty,
       EntryIsOfPeer, NoHand
<1>4. CASE OfferAccepted
  BY <1>4 DEF OfferAccepted, TypeOK, SessionTypeOK, Structure,
       RoutedToItsConv, FreeIsFresh, Routing, HandHeld, HandEmpty,
       EntryIsOfPeer, NoHand
<1>5. CASE OfferRejected
  BY <1>5 DEF OfferRejected, TypeOK, SessionTypeOK, Structure,
       RoutedToItsConv, FreeIsFresh, Routing, HandHeld, HandEmpty,
       EntryIsOfPeer, NoHand
<1>6. CASE DeliverInput
  <2>1. hand.sess \in Sessions /\ phase[hand.sess] # "free"
    BY <1>6 DEF DeliverInput, TypeOK, Structure, HandHeld
  <2>2. CASE io[hand.sess] = "gone"
    BY <1>6, <2>2 DEF DeliverInput, NoHand, Routing, FreeIsFresh,
         RoutedToItsConv
  <2>3. CASE io[hand.sess] # "gone"
    <3>1. inq' = [inq EXCEPT ![hand.sess] = Append(@, hand.pkt)]
      BY <1>6, <2>3 DEF DeliverInput
    <3>2. \A i \in DOMAIN Append(inq[hand.sess], hand.pkt) :
            Append(inq[hand.sess], hand.pkt)[i] \in {None, conv[hand.sess]}
      <4>1. inq[hand.sess] \in Seq(Packets)
        BY <2>1 DEF TypeOK, SessionTypeOK
      <4>2. hand.pkt \in {None, conv[hand.sess]}
        BY <2>1 DEF Routing, RoutedToItsConv
      <4>3. \A i \in DOMAIN inq[hand.sess] :
              inq[hand.sess][i] \in {None, conv[hand.sess]}
        BY <2>1 DEF Routing, RoutedToItsConv
      <4>. QED  BY <4>1, <4>2, <4>3
    <3>. QED  BY <1>6, <2>1, <3>1, <3>2 DEF DeliverInput, TypeOK, SessionTypeOK,
                NoHand, Routing, FreeIsFresh, RoutedToItsConv
  <2>. QED  BY <2>2, <2>3
<1>7. CASE ListenerClose
  BY <1>7 DEF ListenerClose, CloseIf, TypeOK, SessionTypeOK, Structure,
       RoutedToItsConv, FreeIsFresh, Routing, HandHeld, HandEmpty,
       EntryIsOfPeer, NoHand
<1>8. CASE TaskEnds /\ lpc # "offer"
  BY <1>8 DEF TaskEnds, CloseIf, TypeOK, SessionTypeOK, Structure,
       RoutedToItsConv, FreeIsFresh, Routing, HandHeld, HandEmpty,
       EntryIsOfPeer, NoHand
<1>9. CASE Accept
  BY <1>9 DEF Accept, TypeOK, SessionTypeOK, Structure, RoutedToItsConv,
       FreeIsFresh, Routing, HandHeld, HandEmpty, EntryIsOfPeer, NoHand
<1>10. CASE DropListener
  BY <1>10 DEF DropListener, CloseIf, TypeOK, SessionTypeOK, Structure,
       RoutedToItsConv, FreeIsFresh, Routing, HandHeld, HandEmpty,
       EntryIsOfPeer, NoHand
<1>11. ASSUME NEW s \in Sessions, SessionStep(s), UNCHANGED listenerVars
      PROVE  Routing'
  <2>1. ASSUME NEW x \in Sessions
        PROVE  /\ phase'[x] = "free" => inq'[x] = <<>>
               /\ \A i \in DOMAIN inq'[x] : inq'[x][i] \in {None, conv'[x]}
               /\ hand'.sess = x => hand'.pkt \in {None, conv'[x]}
    <3>1. /\ conv' = conv /\ (phase'[x] = "free" => phase[x] = "free")
          /\ inq'[x] \in {inq[x], Tail(inq[x]), <<>>}
          /\ inq[x] = <<>> => inq'[x] = <<>>
      BY <1>11, SessionStepFrame
    <3>2. \A i \in DOMAIN Tail(inq[x]) :
            inq[x] # <<>> => Tail(inq[x])[i] \in {None, conv[x]}
      BY DEF TypeOK, SessionTypeOK, Routing, RoutedToItsConv
    <3>. QED
      BY <1>11, <3>1, <3>2 DEF Routing, FreeIsFresh, RoutedToItsConv,
           listenerVars
  <2>. QED  BY <2>1 DEF Routing, FreeIsFresh, RoutedToItsConv
<1>12. ASSUME NEW s \in Sessions, SendNotice(s)
      PROVE  Routing'
  BY <1>12 DEF SendNotice, FinalizeNotify, TypeOK, SessionTypeOK, Structure,
       RoutedToItsConv, FreeIsFresh, Routing, HandHeld, HandEmpty,
       EntryIsOfPeer, NoHand
<1>. QED
  BY StepCases, <1>1, <1>2, <1>3, <1>4, <1>5, <1>6, <1>7, <1>8, <1>9, <1>10,
     <1>11, <1>12

\* Only an acknowledgement or a write changes wait_snd once the fate is sealed.
LEMMA NextGraceful ==
  TypeOK /\ Structure /\ GracefulClose /\ [Next]_vars => GracefulClose'
<1>. SUFFICES ASSUME TypeOK, Structure, GracefulClose, Next PROVE GracefulClose'
  BY DEF GracefulClose, GivenUp,
         vars, sessionVars, listenerVars
<1>. USE NoneAssumption
<1>1. ASSUME NEW p \in Peers, NEW c \in Convs, NEW s \in Sessions,
             NEW b \in BOOLEAN, ListenerCreate(p, c, s, b)
      PROVE  GracefulClose'
  BY <1>1 DEF ListenerCreate, NewShared, TypeOK, SessionTypeOK, Structure,
       GracefulClose, GivenUp
<1>2. ASSUME NEW p \in Peers, NEW c \in Convs, ListenerRoute(p, c)
      PROVE  GracefulClose'
  BY <1>2 DEF ListenerRoute, sessionVars, TypeOK, SessionTypeOK, Structure,
       GracefulClose, GivenUp
<1>3. ASSUME NEW p \in Peers, ListenerRouteParity(p)
      PROVE  GracefulClose'
  BY <1>3 DEF ListenerRouteParity, sessionVars, TypeOK, SessionTypeOK,
       Structure, GracefulClose, GivenUp
<1>4. CASE OfferAccepted
  BY <1>4 DEF OfferAccepted, TypeOK, SessionTypeOK, Structure, GracefulClose,
       GivenUp
<1>5. CASE OfferRejected
  BY <1>5 DEF OfferRejected, TypeOK, SessionTypeOK, Structure, GracefulClose,
       GivenUp
<1>6. CASE DeliverInput
  BY <1>6 DEF DeliverInput, TypeOK, SessionTypeOK, Structure, GracefulClose,
       GivenUp
<1>7. CASE ListenerClose
  BY <1>7 DEF ListenerClose, CloseIf, TypeOK, SessionTypeOK, Structure,
       GracefulClose, GivenUp
<1>8. CASE TaskEnds /\ lpc # "offer"
  BY <1>8 DEF TaskEnds, CloseIf, TypeOK, SessionTypeOK, Structure,
       GracefulClose, GivenUp
<1>9. CASE Accept
  BY <1>9 DEF Accept, TypeOK, SessionTypeOK, Structure, GracefulClose, GivenUp
<1>10. CASE DropListener
  BY <1>10 DEF DropListener, CloseIf, TypeOK, SessionTypeOK, Structure,
       GracefulClose, GivenUp
<1>11. ASSUME NEW s \in Sessions, SessionStep(s), UNCHANGED listenerVars
      PROVE  GracefulClose'
  <2>. USE DEF GracefulClose, GivenUp, TypeOK, SessionTypeOK
  <2>1. CASE IoInput(s)
    BY <1>11, <2>1 DEF IoInput
  <2>2. CASE IoAborted(s)
    BY <1>11, <2>2 DEF IoAborted
  <2>3. CASE GiveUp(s)
    BY <1>11, <2>3 DEF GiveUp, CanClose
  <2>4. CASE CloseIdle(s)
    BY <1>11, <2>4 DEF CloseIdle
  <2>5. CASE FinalizeClose(s)
    BY <1>11, <2>5 DEF FinalizeClose
  <2>6. CASE FinalizeAbort(s)
    BY <1>11, <2>6 DEF FinalizeAbort
  <2>7. CASE FinalizeMark(s)
    BY <1>11, <2>7 DEF FinalizeMark
  <2>8. CASE Send(s)
    BY <1>11, <2>8 DEF Send
  <2>9. CASE Touch(s)
    BY <1>11, <2>9 DEF Touch
  <2>10. CASE DropStream(s)
    BY <1>11, <2>10 DEF DropStream
  <2>11. CASE Age(s)
    BY <1>11, <2>11 DEF Age
  <2>. QED
    BY <1>11, <2>1, <2>2, <2>3, <2>4, <2>5, <2>6, <2>7, <2>8, <2>9, <2>10, <2>11
    DEF SessionStep
<1>12. ASSUME NEW s \in Sessions, SendNotice(s)
      PROVE  GracefulClose'
  BY <1>12 DEF SendNotice, FinalizeNotify, TypeOK, SessionTypeOK, Structure,
       GracefulClose, GivenUp
<1>. QED
  BY StepCases, <1>1, <1>2, <1>3, <1>4, <1>5, <1>6, <1>7, <1>8, <1>9, <1>10,
     <1>11, <1>12

-----------------------------------------------------------------------------
(***************************************************************************)
(* The theorems.                                                           *)
(***************************************************************************)
LEMMA InitIInv == Init => IInv
<1>. SUFFICES ASSUME Init PROVE IInv
  OBVIOUS
<1>1. TypeOK
  BY InitType
<1>. QED
  BY <1>1 DEF Init, SessionInit, IInv, HandHeld, HandEmpty, CreatedHasPeer,
       EntryIsOfPeer, FreeIsFresh, StoppedHasNoEntry, EvictedIsClosed,
       OpenHasOwner, FinishedEntryHasNotice, RoutedToItsConv, GracefulClose,
       GivenUp, Notified, NoHand

\* Every step preserves the inductive invariant.
LEMMA NextIInv == IInv /\ [Next]_vars => IInv'
BY NextType, NextStructure, NextEvicted, NextOwner, NextNotice, NextRouting,
   NextGraceful
   DEF IInv, Structure, Routing

\* The inductive invariant holds for ever.
LEMMA Invariance == Spec => []IInv
BY InitIInv, NextIInv, PTL DEF Spec

\* Every variable keeps its type and every bounded channel its capacity.
THEOREM TypeCorrect == Spec => []TypeOK
<1>1. IInv => TypeOK
  BY DEF IInv
<1>. QED  BY <1>1, Invariance, PTL

\* No session outside the manager is open: none can run unnoticed for ever.
THEOREM NoEscapedSession == Spec => []EvictedIsClosed
<1>1. IInv => EvictedIsClosed
  BY DEF IInv
<1>. QED  BY <1>1, Invariance, PTL

\* Every open session has the stream that will close it.
THEOREM NoLeakedStream == Spec => []OpenHasOwner
<1>1. IInv => OpenHasOwner
  BY DEF IInv
<1>. QED  BY <1>1, Invariance, PTL

\* No entry of a finished session without a close notice under way.
THEOREM NoOrphanedEntry == Spec => []FinishedEntryHasNotice
<1>1. IInv => FinishedEntryHasNotice
  BY DEF IInv
<1>. QED  BY <1>1, Invariance, PTL

\* Replacing a peer's session never lets data of one conversation reach the
\* socket of another.
THEOREM NoMisroutedData == Spec => []RoutedToItsConv
<1>1. IInv => RoutedToItsConv
  BY DEF IInv
<1>. QED  BY <1>1, Invariance, PTL

\* can_close is what ends a session that did not expire.
THEOREM NoEarlyEnd == Spec => []GracefulClose
<1>1. IInv => GracefulClose
  BY DEF IInv
<1>. QED  BY <1>1, Invariance, PTL

=============================================================================
