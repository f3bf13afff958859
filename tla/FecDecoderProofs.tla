--------------------------- MODULE FecDecoderProofs ---------------------------
(***************************************************************************)
(* Proofs about the FecDecoder, for every number of data and parity        *)
(* shards and every word size: what it recovers, what it remembers, and    *)
(* that D packets of a group give all its payloads.  The last holds until  *)
(* the numbers wrap, OneLap, and no longer: see FecWrap.                   *)
(***************************************************************************)
EXTENDS FecProofs, FunctionTheorems, FiniteSetTheorems, SequenceTheorems

\* The number of groups between two wraps.
Groups == Paws \div ShardSize

\* e payloads fit in one lap: no number has been given twice.
InLap(e) == e <= D * Groups
OneLap == InLap(encodes)

-----------------------------------------------------------------------------
\* The quotient of q * S + k is q.
LEMMA Quotient ==
  ASSUME NEW S \in Nat \ {0}, NEW q \in Nat, NEW k \in Nat, k < S
  PROVE  (q * S + k) \div S = q
  BY SMT

\* Of two products by the same positive number the greater has the greater factor.
LEMMA CompareFactors ==
  ASSUME NEW S \in Nat \ {0}, NEW a \in Nat, NEW b \in Nat
  PROVE  /\ a * S \in Nat /\ b * S \in Nat
         /\ (a + 1) * S = a * S + S
         /\ a < b => (a + 1) * S <= b * S
         /\ a <= b => a * S <= b * S
         /\ a * S < b * S => a < b
         /\ a * S <= b * S => a <= b
<1>1. /\ a * S \in Nat /\ b * S \in Nat /\ (a + 1) * S = a * S + S
      /\ (b + 1) * S = b * S + S
  BY Products
<1>2. ASSUME NEW c \in Nat, NEW d \in Nat, c <= d
      PROVE  c * S <= d * S
  <2>1. PICK e \in Nat : d = c + e
    BY <1>2, c + (d - c) = d, d - c \in Nat
  <2>2. (c + e) * S = c * S + e * S /\ c * S \in Nat /\ e * S \in Nat
    BY Products
  <2>. QED  BY <2>1, <2>2
<1>3. a < b => (a + 1) * S <= b * S
  BY <1>2
<1>4. a <= b => a * S <= b * S
  BY <1>2
<1>5. b <= a => b * S <= a * S
  BY <1>2
<1>6. b < a => (b + 1) * S <= a * S
  BY <1>2
<1>. QED  BY <1>1, <1>3, <1>4, <1>5, <1>6

\* A lap is a whole number of groups, and an identifier is less than half a word.
LEMMA GroupsFacts ==
  /\ Groups \in Nat \ {0} /\ Paws = Groups * ShardSize
  /\ Groups < Word /\ \A g \in 0 .. Groups - 1 : g < Word \div 2
<1>1. PICK q \in Nat \ {0} : Paws = q * ShardSize /\ q * ShardSize < Word
  BY PawsIsWhole
<1>2. q * ShardSize + 0 = q * ShardSize /\ q * ShardSize \in Nat
  BY ShardSizeType, Products
<1>3. Groups = q
  BY <1>1, <1>2, ShardSizeType, Quotient DEF Groups
<1>4. q * ShardSize >= q * 2
  <2>1. PICK e \in Nat : ShardSize = 2 + e
    BY ShardSizeType, 2 + (ShardSize - 2) = ShardSize, ShardSize - 2 \in Nat
  <2>2. q * (2 + e) = q * 2 + q * e /\ q * e \in Nat
    BY Products
  <2>. QED  BY <2>1, <2>2
<1>5. q * 2 < Word
  BY <1>1, <1>2, <1>4, FecAssumption
<1>6. q <= Word \div 2 /\ q < Word
  BY <1>5, FecAssumption
<1>. QED  BY <1>1, <1>3, <1>6, FecAssumption

\* Where a number is: its group and its place there.
LEMMA PlaceOf ==
  ASSUME NEW g \in Nat, NEW i \in 0 .. ShardSize - 1
  PROVE  Group(g * ShardSize + i) = g /\ Index(g * ShardSize + i) = i
BY ShardSizeType, Quotient, Remainder DEF Group, Index

\* The other way round.
LEMMA NumberAt ==
  ASSUME NEW seq \in Nat
  PROVE  /\ Group(seq) \in Nat /\ Index(seq) \in 0 .. ShardSize - 1
         /\ seq = Group(seq) * ShardSize + Index(seq)
         /\ seq < Paws => Group(seq) \in 0 .. Groups - 1
<1>1. /\ Group(seq) \in Nat /\ Index(seq) \in Nat /\ Index(seq) < ShardSize
      /\ seq = Group(seq) * ShardSize + Index(seq)
  BY ShardSizeType, Division DEF Group, Index
<1>2. ASSUME seq < Paws
      PROVE  Group(seq) < Groups
  <2>1. Group(seq) * ShardSize < Groups * ShardSize
    <3>1. Group(seq) * ShardSize \in Nat /\ Groups * ShardSize \in Nat
      BY <1>1, GroupsFacts, ShardSizeType, Products
    <3>. QED  BY <1>1, <1>2, <3>1, GroupsFacts
  <2>. QED  BY <1>1, <2>1, GroupsFacts, ShardSizeType, CompareFactors
<1>. QED  BY <1>1, <1>2, ShardSizeType, GroupsFacts

\* Two numbers of one group and one place are the same.
LEMMA SamePlace ==
  ASSUME NEW a \in Nat, NEW b \in Nat, Group(a) = Group(b), Index(a) = Index(b)
  PROVE  a = b
BY NumberAt

-----------------------------------------------------------------------------
(***************************************************************************)
(* What a packet holds after e calls of encode.  Always a payload, or a    *)
(* tuple of payloads, that was encoded; in the first lap those of its      *)
(* group and place.                                                        *)
(***************************************************************************)
PayloadsOf(g) == [j \in 1 .. D |-> g * D + j]

Fits(e, g, i, body) ==
  /\ IF i < D THEN body \in 1 .. e ELSE body \in [1 .. D -> 1 .. e]
  /\ InLap(e) => body = IF i < D THEN g * D + i + 1 ELSE PayloadsOf(g)

\* Where the encoder is: in group g, of which it holds the first payloads.
LapInv ==
  \E g \in Nat :
    /\ encodes = g * D + Len(shards)
    /\ shards = [j \in 1 .. Len(shards) |-> g * D + j]
    /\ g < Groups => next = g * ShardSize + Len(shards)

NetFits ==
  \A n \in DOMAIN net :
    /\ net[n].seq < Paws
    /\ Fits(encodes, Group(net[n].seq), Index(net[n].seq), net[n].body)

FitSet(e, g, set) ==
  /\ DOMAIN set = 0 .. ShardSize - 1
  /\ \A i \in 0 .. ShardSize - 1 :
       set[i] = <<>> \/ \E body : set[i] = <<body>> /\ Fits(e, g, i, body)

\* discard_old_shards leaves what is near the newest group.
Near(latest, h) == (latest + Word - h) % Word <= MaxShardSets * ShardSize

SetsFit ==
  \A g \in DOMAIN shard_set :
    /\ g \in 0 .. Groups - 1 /\ Near(newest, g)
    /\ FitSet(encodes, g, shard_set[g])

RecoveredFit ==
  /\ recovered \subseteq 0 .. encodes
  /\ OneLap => 0 \notin recovered

ContentInv ==
  /\ encodes \in Nat /\ encodes <= MaxEncodes
  /\ Len(net) <= Reach
  /\ newest \in 0 .. Groups - 1
  /\ warm \in BOOLEAN
  /\ LapInv /\ NetFits /\ SetsFit /\ RecoveredFit

\* What fits goes on to fit when more is encoded.
LEMMA FitsLater ==
  ASSUME NEW e \in Nat, NEW f \in Nat, e <= f,
         NEW g, NEW i, NEW body, Fits(e, g, i, body)
  PROVE  Fits(f, g, i, body)
<1>1. InLap(f) => InLap(e)
  <2>1. Groups \in Nat /\ D \in Nat
    BY GroupsFacts, ShardSizeType
  <2>2. D * Groups \in Nat
    BY <2>1, Products
  <2>. QED  BY <2>2 DEF InLap
<1>2. 1 .. e \subseteq 1 .. f
  OBVIOUS
<1>3. IF i < D THEN body \in 1 .. f ELSE body \in [1 .. D -> 1 .. f]
  BY <1>2 DEF Fits
<1>. QED  BY <1>1, <1>3 DEF Fits

\* The same for the set of a group.
LEMMA FitSetLater ==
  ASSUME NEW e \in Nat, NEW f \in Nat, e <= f, NEW g, NEW set, FitSet(e, g, set)
  PROVE  FitSet(f, g, set)
BY FitsLater DEF FitSet

-----------------------------------------------------------------------------
(***************************************************************************)
(* What a call of encode emits.                                            *)
(***************************************************************************)
Sent(c) ==
  [k \in 1 .. c |-> IF k = 1 THEN DataPacket
                    ELSE Packet(k - 1, "parity", Append(shards, encodes + 1))]

Grown(c) ==
  \/ Len(shards) + 1 < D /\ c = 1
     /\ shards' = Append(shards, encodes + 1) /\ next' = SealAt(1)
  \/ Len(shards) + 1 = D /\ c \in {1, 1 + P}
     /\ shards' = <<>> /\ next' = SealAt(1 + P)

\* The three ways to encode, as one.
LEMMA EncodeShape ==
  ASSUME NumberInv, Encode
  PROVE  /\ Called /\ warm' \in {warm, TRUE}
         /\ \E c \in {1, 1 + P} :
              /\ Emit(Sent(c)) /\ Sent(c) \in Seq(Sealed) /\ Len(Sent(c)) = c
              /\ Grown(c)
<1>1. <<DataPacket>> \in Seq(Sealed) /\ Sent(1) = <<DataPacket>>
  <2>1. Sent(1) = [k \in 1 .. 1 |-> DataPacket]
    BY DEF Sent
  <2>. QED  BY <2>1, DataPacketSealed
<1>2. CASE EncodeData
  BY <1>1, <1>2 DEF EncodeData, Called, Grown
<1>3. CASE EncodeSkipParity
  BY <1>1, <1>3 DEF EncodeSkipParity, Called, Grown
<1>4. CASE EncodeParity
  <2>1. ParityPackets \in Seq(Sealed) /\ Len(ParityPackets) = P /\ P \in Nat
    <3>1. ParityPackets \in Seq(Sealed)
      BY <1>4, ParityPacketsSealed DEF EncodeParity
    <3>2. DOMAIN ParityPackets = 1 .. P
      BY DEF ParityPackets
    <3>3. Len(ParityPackets) \in Nat /\ DOMAIN ParityPackets = 1 .. Len(ParityPackets)
      BY <3>1, LenProperties
    <3>. QED  BY <3>1, <3>2, <3>3, FecAssumption
  <2> DEFINE all == <<DataPacket>> \o ParityPackets
  <2>2. /\ all \in Seq(Sealed) /\ Len(all) = 1 + P
        /\ \A k \in 1 .. 1 + P :
             all[k] = IF k <= 1 THEN <<DataPacket>>[k] ELSE ParityPackets[k - 1]
    <3>1. Len(<<DataPacket>>) = 1
      OBVIOUS
    <3>. QED  BY <1>1, <2>1, <3>1, ConcatProperties
  <2>. HIDE DEF all
  <2>3. ASSUME NEW k \in 1 .. 1 + P
        PROVE  all[k] = Sent(1 + P)[k]
    <3>1. CASE k = 1
      BY <2>2, <3>1 DEF Sent
    <3>2. CASE k # 1
      <4>1. k - 1 \in 1 .. P /\ ~ (k <= 1)
        BY <2>1, <3>2
      <4>. QED  BY <2>2, <3>2, <4>1 DEF Sent, ParityPackets
    <3>. QED  BY <3>1, <3>2
  <2>4. all = Sent(1 + P)
    <3>1. DOMAIN all = 1 .. 1 + P /\ all \in [1 .. 1 + P -> Sealed]
      BY <2>2, LenProperties
    <3>2. DOMAIN Sent(1 + P) = 1 .. 1 + P
      BY DEF Sent
    <3>3. Sent(1 + P) = [k \in 1 .. 1 + P |-> Sent(1 + P)[k]]
      BY DEF Sent
    <3>. QED  BY <2>3, <3>1, <3>2, <3>3
  <2>5. Called /\ warm' = warm /\ Emit(all) /\ Len(shards) + 1 = D
        /\ shards' = <<>> /\ next' = SealAt(1 + P)
    BY <1>4 DEF EncodeParity, all
  <2>. QED  BY <2>2, <2>4, <2>5 DEF Grown
<1>. QED  BY <1>2, <1>3, <1>4 DEF Encode

\* What is in the network after packets were emitted: d packets were dropped.
LEMMA EmitFacts ==
  ASSUME net \in Seq(Sealed), NEW packets \in Seq(Sealed), Emit(packets)
  PROVE  \E d \in Nat :
           /\ d <= Len(net) + Len(packets)
           /\ Len(net') = Len(net) + Len(packets) - d /\ Len(net') <= Reach
           /\ DOMAIN net' = 1 .. Len(net) + Len(packets) - d
           /\ \A n \in DOMAIN net' :
                \E m \in 1 .. Len(net) + Len(packets) :
                  /\ m = n + d
                  /\ net'[n] = IF m <= Len(net) THEN net[m]
                               ELSE packets[m - Len(net)]
<1> DEFINE all == net \o packets
           t == Len(net) + Len(packets)
<1>1. /\ all \in Seq(Sealed) /\ Len(all) = t
      /\ \A n \in 1 .. t : all[n] = IF n <= Len(net) THEN net[n]
                                    ELSE packets[n - Len(net)]
  BY ConcatProperties
<1>2. t \in Nat /\ Reach \in Nat /\ Len(net) \in Nat /\ Len(packets) \in Nat
  BY FecAssumption, LenProperties
<1>3. net' = IF Len(all) <= Reach THEN all
             ELSE SubSeq(all, Len(all) - Reach + 1, Len(all))
  BY DEF Emit
<1>. HIDE DEF all, t
<1>4. CASE t <= Reach
  <2>1. net' = all /\ DOMAIN all = 1 .. t
    BY <1>1, <1>3, <1>4, LenProperties
  <2>2. 0 \in Nat /\ 0 <= t /\ Len(net') = t - 0 /\ Len(net') <= Reach
        /\ DOMAIN net' = 1 .. t - 0
    BY <1>1, <1>2, <1>4, <2>1
  <2>3. ASSUME NEW n \in DOMAIN net'
        PROVE  \E m \in 1 .. t :
                 /\ m = n + 0
                 /\ net'[n] = IF m <= Len(net) THEN net[m]
                              ELSE packets[m - Len(net)]
    <3>1. n \in 1 .. t /\ n + 0 = n
      BY <1>2, <2>2
    <3>2. all[n] = IF n <= Len(net) THEN net[n] ELSE packets[n - Len(net)]
      BY <1>1, <3>1
    <3>. QED  BY <2>1, <3>1, <3>2
  <2>. QED  BY <2>2, <2>3 DEF t
<1>5. CASE ~ (t <= Reach)
  <2> DEFINE d == t - Reach
  <2>1. d \in Nat /\ d <= t /\ d + 1 \in 1 .. t + 1 /\ d >= 1 /\ t - d = Reach
        /\ t - (d + 1) + 1 = Reach
    BY <1>2, <1>5
  <2>2. net' = SubSeq(all, d + 1, t)
    BY <1>1, <1>3, <1>5
  <2>3. \A n \in d + 1 .. t : all[n] \in Sealed
    BY <1>1, <1>2, <2>1, ElementOfSeq
  <2>. HIDE DEF d
  <2>4. /\ net' \in Seq(Sealed)
        /\ Len(net') = IF d + 1 <= t THEN Reach ELSE 0
        /\ \A i \in 1 .. Reach : net'[i] = all[d + 1 + i - 1]
    BY <1>2, <2>1, <2>2, <2>3, SubSeqProperties
  <2>5. Len(net') = Reach
    BY <1>2, <2>1, <2>4
  <2>6. DOMAIN net' = 1 .. t - d /\ Len(net') = t - d /\ Len(net') <= Reach
    BY <1>2, <2>1, <2>4, <2>5, LenProperties
  <2>7. ASSUME NEW n \in DOMAIN net'
        PROVE  \E m \in 1 .. t :
                 /\ m = n + d
                 /\ net'[n] = IF m <= Len(net) THEN net[m]
                              ELSE packets[m - Len(net)]
    <3>1. n \in 1 .. Reach /\ n + d \in 1 .. t /\ d + 1 + n - 1 = n + d
      BY <1>2, <2>1, <2>6
    <3>2. net'[n] = all[n + d]
      BY <2>4, <3>1
    <3> DEFINE m == n + d
    <3>3. m \in 1 .. t /\ net'[n] = all[m] /\ m = n + d
      BY <3>1, <3>2
    <3>. HIDE DEF m
    <3>4. all[m] = IF m <= Len(net) THEN net[m] ELSE packets[m - Len(net)]
      BY <1>1, <3>3
    <3>. QED  BY <3>3, <3>4
  <2>. QED  BY <2>1, <2>6, <2>7 DEF t
<1>. QED  BY <1>4, <1>5

-----------------------------------------------------------------------------
\* In the first lap the encoder's numbers are those of the group it is in.
LEMMA SealInLap ==
  ASSUME NEW g \in Nat, g < Groups, next = g * ShardSize + Len(shards),
         Len(shards) \in Nat, NEW k \in Nat, Len(shards) + k < ShardSize
  PROVE  SealAt(k) = g * ShardSize + (Len(shards) + k)
<1> DEFINE m == g * ShardSize
<1>1. m \in Nat /\ m + ShardSize <= Paws /\ Paws \in Nat
  BY GroupsFacts, ShardSizeType, CompareFactors, Products
<1>. HIDE DEF m
<1>2. /\ next = m + Len(shards) /\ next + k \in Nat /\ next + k < Paws
      /\ next + k = m + (Len(shards) + k)
  BY <1>1, ShardSizeType DEF m
<1>3. (next + k) % Paws = next + k
  <2>1. Paws \in Nat \ {0}
    BY PawsType
  <2>2. \A x \in Nat, y \in Nat \ {0} : x < y => x % y = x
    OBVIOUS
  <2>. QED  BY <1>2, <2>1, <2>2
<1>4. SealAt(k) = m + (Len(shards) + k)
  BY <1>2, <1>3 DEF SealAt
<1>. QED  BY <1>4 DEF m

\* A packet that encode emits has a number of its group, and fits there.
LEMMA SentFits ==
  ASSUME NumberInv, LapInv,
         NEW c \in {1, 1 + P}, c = 1 \/ Len(shards) + 1 = D, NEW k \in 1 .. c
  PROVE  LET pkt == Sent(c)[k]
         IN  /\ pkt.seq < Paws /\ pkt.seq = SealAt(k - 1)
             /\ Fits(encodes + 1, Group(pkt.seq), Index(pkt.seq), pkt.body)
<1> DEFINE pkt == Sent(c)[k]
           l == Len(shards)
<1>1. PICK g \in Nat :
        /\ encodes = g * D + l
        /\ shards = [j \in 1 .. l |-> g * D + j]
        /\ g < Groups => next = g * ShardSize + l
  BY DEF LapInv
<1>2. /\ l \in Nat /\ l < D /\ encodes \in Nat /\ D \in Nat \ {0} /\ P \in Nat
      /\ ShardSize = D + P /\ ShardSize \in Nat \ {0} /\ g * D \in Nat
      /\ k - 1 \in Nat /\ l + (k - 1) < ShardSize
  BY ShardSizeType, Products, LenProperties DEF NumberInv
<1>3. PICK h \in Nat : /\ SealAt(k - 1) = h * ShardSize + (l + (k - 1))
                       /\ (h + 1) * ShardSize <= Paws
  BY <1>2, AdvanceInside DEF NumberInv
<1> DEFINE i == l + (k - 1)
           seq == SealAt(k - 1)
<1>4. i \in 0 .. ShardSize - 1 /\ i \in Nat
  BY <1>2
<1>. HIDE DEF i, seq
<1>5. Group(seq) = h /\ Index(seq) = i
  BY <1>3, <1>4, PlaceOf DEF i, seq
<1>6. seq < Paws
  <2>1. h * ShardSize \in Nat /\ (h + 1) * ShardSize = h * ShardSize + ShardSize
    BY <1>2, CompareFactors
  <2> DEFINE m == h * ShardSize
  <2>. HIDE DEF m
  <2>2. m \in Nat /\ m + ShardSize <= Paws /\ seq = m + i /\ Paws \in Nat
    BY <1>3, <2>1, PawsType DEF m, i, seq
  <2>. QED  BY <1>2, <1>4, <2>2
<1>7. ASSUME InLap(encodes + 1)
      PROVE  h = g
  <2>1. g * D < Groups * D
    <3>1. D * Groups = Groups * D /\ Groups * D \in Nat
      BY <1>2, GroupsFacts, Products
    <3>2. encodes + 1 <= Groups * D
      BY <1>7, <3>1 DEF InLap
    <3>3. g * D <= encodes
      BY <1>1, <1>2
    <3>. QED  BY <1>2, <3>1, <3>2, <3>3
  <2>2. g < Groups
    BY <1>2, <2>1, GroupsFacts, CompareFactors
  <2>3. seq = g * ShardSize + i
    BY <1>1, <1>2, <2>2, SealInLap DEF i, seq
  <2>. QED  BY <1>4, <1>5, <2>3, PlaceOf
<1>8. CASE k = 1
  <2>1. pkt.seq = seq /\ pkt.body = encodes + 1
    BY <1>8 DEF Sent, DataPacket, Packet, seq
  <2>2. i = l
    BY <1>2, <1>8 DEF i
  <2>3. encodes + 1 = g * D + l + 1
    BY <1>1, <1>2
  <2>4. encodes + 1 \in 1 .. encodes + 1 /\ i < D
    BY <1>2, <2>2
  <2>5. Fits(encodes + 1, h, i, encodes + 1)
    BY <1>7, <2>2, <2>3, <2>4 DEF Fits
  <2>. QED  BY <1>5, <1>6, <2>1, <2>5 DEF seq
<1>9. CASE k # 1
  <2>1. pkt.seq = seq /\ pkt.body = Append(shards, encodes + 1) /\ l + 1 = D
    BY <1>9 DEF Sent, Packet, seq
  <2>2. k > 1 /\ ~ (i < D)
    BY <1>2, <1>9, <2>1 DEF i
  <2>3. encodes + 1 = g * D + D
    <3> DEFINE m == g * D
    <3>. HIDE DEF m
    <3>1. m \in Nat /\ encodes = m + l
      BY <1>1, <1>2 DEF m
    <3>2. encodes + 1 = m + D
      BY <1>2, <2>1, <3>1
    <3>. QED  BY <3>2 DEF m
  <2>4. Append(shards, encodes + 1) = PayloadsOf(g)
    <3>1. shards \in Seq(Nat) /\ encodes + 1 \in Nat
      BY <1>2 DEF NumberInv
    <3>2. /\ Append(shards, encodes + 1) \in Seq(Nat)
          /\ Len(Append(shards, encodes + 1)) = D
          /\ \A j \in 1 .. l : Append(shards, encodes + 1)[j] = shards[j]
          /\ Append(shards, encodes + 1)[D] = encodes + 1
      BY <2>1, <3>1, AppendProperties
    <3>3. ASSUME NEW j \in 1 .. D
          PROVE  Append(shards, encodes + 1)[j] = g * D + j
      <4>1. CASE j = D
        BY <2>3, <3>2, <4>1
      <4>2. CASE j # D
        <5>1. j \in 1 .. l
          BY <1>2, <2>1, <4>2
        <5>. QED  BY <1>1, <3>2, <5>1
      <4>. QED  BY <4>1, <4>2
    <3>4. Append(shards, encodes + 1) \in [1 .. D -> Nat]
      BY <3>2, LenProperties
    <3>. QED  BY <3>3, <3>4 DEF PayloadsOf
  <2>5. PayloadsOf(g) \in [1 .. D -> 1 .. encodes + 1]
    <3>1. \A j \in 1 .. D : g * D + j \in 1 .. g * D + D
      BY <1>2
    <3>. QED  BY <2>3, <3>1 DEF PayloadsOf
  <2>6. Fits(encodes + 1, h, i, PayloadsOf(g))
    BY <1>7, <2>2, <2>5 DEF Fits
  <2>. QED  BY <1>5, <1>6, <2>1, <2>4, <2>6 DEF seq
<1>. QED  BY <1>8, <1>9

\* encode goes on in its group, or to the next one.
LEMMA EncodeLap ==
  ASSUME NumberInv, LapInv, encodes' = encodes + 1, NEW c, Grown(c)
  PROVE  LapInv'
<1> DEFINE l == Len(shards)
<1>1. PICK g \in Nat :
        /\ encodes = g * D + l
        /\ shards = [j \in 1 .. l |-> g * D + j]
        /\ g < Groups => next = g * ShardSize + l
  BY DEF LapInv
<1> DEFINE m == g * D
<1>2. /\ l \in Nat /\ l < D /\ encodes \in Nat /\ D \in Nat \ {0} /\ P \in Nat
      /\ ShardSize = D + P /\ ShardSize \in Nat \ {0} /\ m \in Nat
      /\ shards \in Seq(Nat)
      /\ encodes = m + l /\ (g + 1) * D = m + D
  BY <1>1, ShardSizeType, CompareFactors, LenProperties DEF NumberInv
<1>3. \A j \in 1 .. l : shards[j] = m + j
  BY <1>1
<1>. HIDE DEF m, l
<1>4. CASE l + 1 < D
  <2>1. shards' = Append(shards, encodes + 1) /\ next' = SealAt(1)
    BY <1>2, <1>4 DEF Grown, l
  <2>2. /\ shards' \in Seq(Nat) /\ Len(shards') = l + 1
        /\ \A j \in 1 .. l : shards'[j] = shards[j]
        /\ shards'[l + 1] = m + (l + 1)
    <3>1. encodes + 1 \in Nat /\ encodes + 1 = m + (l + 1)
      BY <1>2
    <3>. QED  BY <1>2, <2>1, <3>1, AppendProperties DEF l
  <2>3. shards' = [j \in 1 .. l + 1 |-> m + j]
    <3>1. shards' \in [1 .. l + 1 -> Nat]
      BY <2>2, LenProperties
    <3>2. ASSUME NEW j \in 1 .. l + 1
          PROVE  shards'[j] = m + j
      <4>1. CASE j = l + 1
        BY <2>2, <4>1
      <4>2. CASE j # l + 1
        <5>1. j \in 1 .. l
          BY <1>2, <4>2
        <5>. QED  BY <1>3, <2>2, <5>1
      <4>. QED  BY <4>1, <4>2
    <3>. QED  BY <3>1, <3>2
  <2>4. g < Groups => next' = g * ShardSize + (l + 1)
    <3>1. 1 \in Nat /\ l + 1 < ShardSize
      BY <1>2, <1>4
    <3>. QED  BY <1>1, <1>2, <2>1, <3>1, SealInLap DEF l
  <2>5. encodes' = m + (l + 1)
    BY <1>2
  <2>. QED  BY <2>2, <2>3, <2>4, <2>5 DEF LapInv, Groups, Paws, ShardSize, m
<1>5. CASE l + 1 = D
  <2>1. shards' = <<>> /\ next' = SealAt(1 + P)
    BY <1>2, <1>5 DEF Grown, l
  <2>2. encodes' = (g + 1) * D + 0 /\ g + 1 \in Nat /\ Len(shards') = 0
    BY <1>2, <1>5, <2>1
  <2>3. shards' = [j \in 1 .. 0 |-> (g + 1) * D + j]
    BY <2>1
  <2>4. ASSUME g + 1 < Groups
        PROVE  next' = (g + 1) * ShardSize + 0
    <3> DEFINE x == (g + 1) * ShardSize
    <3>1. x \in Nat /\ x < Paws /\ x = g * ShardSize + ShardSize /\ g * ShardSize \in Nat
      <4>1. Groups \in Nat /\ Paws = Groups * ShardSize
        BY GroupsFacts
      <4>2. (g + 1 + 1) * ShardSize <= Groups * ShardSize
            /\ (g + 1 + 1) * ShardSize = x + ShardSize
            /\ x \in Nat /\ x = g * ShardSize + ShardSize /\ g * ShardSize \in Nat
        BY <1>2, <2>2, <2>4, <4>1, CompareFactors
      <4>. QED  BY <1>2, <4>1, <4>2
    <3>2. next = g * ShardSize + l
      BY <1>1, <2>4, GroupsFacts DEF l
    <3>. HIDE DEF x
    <3>3. next + (1 + P) = x
      BY <1>2, <1>5, <3>1, <3>2
    <3>4. x % Paws = x
      <4>1. Paws \in Nat \ {0}
        BY PawsType
      <4>2. \A y \in Nat, z \in Nat \ {0} : y < z => y % z = y
        OBVIOUS
      <4>. QED  BY <3>1, <4>1, <4>2
    <3>5. next' = x + 0
      BY <2>1, <3>1, <3>3, <3>4 DEF SealAt
    <3>. QED  BY <3>5 DEF x
  <2>. QED  BY <2>1, <2>2, <2>3, <2>4 DEF LapInv, Groups, Paws, ShardSize
<1>6. l + 1 < D \/ l + 1 = D
  BY <1>2
<1>. QED  BY <1>4, <1>5, <1>6

\* encode leaves everything fit that is under way or that the decoder holds.
LEMMA EncodeContent == NumberInv /\ ContentInv /\ Encode => ContentInv'
<1>. SUFFICES ASSUME NumberInv, ContentInv, Encode PROVE ContentInv'
  OBVIOUS
<1>1. /\ encodes \in Nat /\ encodes' = encodes + 1 /\ encodes < MaxEncodes
      /\ recovered' \subseteq recovered
      /\ UNCHANGED <<shard_set, newest>>
      /\ warm' \in BOOLEAN
  BY EncodeShape DEF Called, ContentInv
<1>2. PICK c \in {1, 1 + P} :
        /\ Emit(Sent(c)) /\ Sent(c) \in Seq(Sealed) /\ Len(Sent(c)) = c
        /\ Grown(c)
  BY EncodeShape
<1>3. net \in Seq(Sealed) /\ Len(net) \in Nat /\ DOMAIN net = 1 .. Len(net)
      /\ c \in Nat /\ (c = 1 \/ Len(shards) + 1 = D) /\ LapInv
  BY <1>2, LenProperties, FecAssumption DEF NumberInv, ContentInv, Grown
<1>4. /\ Len(net') <= Reach
      /\ \A n \in DOMAIN net' :
           \E m \in 1 .. Len(net) + c :
             net'[n] = IF m <= Len(net) THEN net[m] ELSE Sent(c)[m - Len(net)]
  <2> DEFINE packets == Sent(c)
  <2>1. Emit(packets) /\ packets \in Seq(Sealed) /\ Len(packets) = c
    BY <1>2
  <2>. HIDE DEF packets
  <2>2. PICK d \in Nat :
          /\ Len(net') <= Reach
          /\ \A n \in DOMAIN net' :
               \E m \in 1 .. Len(net) + Len(packets) :
                 /\ m = n + d
                 /\ net'[n] = IF m <= Len(net) THEN net[m]
                              ELSE packets[m - Len(net)]
    BY <1>3, <2>1, EmitFacts
  <2>3. \A n \in DOMAIN net' :
          \E m \in 1 .. Len(net) + c :
            net'[n] = IF m <= Len(net) THEN net[m] ELSE packets[m - Len(net)]
    BY <2>1, <2>2
  <2>. QED  BY <2>2, <2>3 DEF packets
<1>5. encodes \in Nat /\ encodes' \in Nat /\ encodes <= encodes' /\ encodes' <= MaxEncodes
  BY <1>1, FecAssumption
<1>6. NetFits'
  <2>1. ASSUME NEW n \in DOMAIN net'
        PROVE  /\ net'[n].seq < Paws
               /\ Fits(encodes', Group(net'[n].seq), Index(net'[n].seq), net'[n].body)
    <3>1. PICK m \in 1 .. Len(net) + c :
            net'[n] = IF m <= Len(net) THEN net[m] ELSE Sent(c)[m - Len(net)]
      BY <1>4, <2>1
    <3>2. CASE m <= Len(net)
      <4>1. m \in DOMAIN net /\ net'[n] = net[m]
        BY <1>3, <3>1, <3>2
      <4>2. /\ net[m].seq < Paws
            /\ Fits(encodes, Group(net[m].seq), Index(net[m].seq), net[m].body)
        BY <4>1 DEF ContentInv, NetFits
      <4>3. Fits(encodes', Group(net[m].seq), Index(net[m].seq), net[m].body)
        BY <1>5, <4>2, FitsLater
      <4>. QED  BY <4>1, <4>2, <4>3
    <3>3. CASE ~ (m <= Len(net))
      <4> DEFINE k == m - Len(net)
      <4>1. k \in 1 .. c /\ net'[n] = Sent(c)[k]
        BY <1>3, <3>1, <3>3
      <4>. HIDE DEF k
      <4>. QED  BY <1>1, <1>3, <4>1, SentFits
    <3>. QED  BY <3>2, <3>3
  <2>. QED  BY <2>1 DEF NetFits, Paws, ShardSize, Group, Index
<1>7. SetsFit'
  <2>1. ASSUME NEW g \in DOMAIN shard_set
        PROVE  /\ g \in 0 .. Groups - 1 /\ Near(newest, g)
               /\ FitSet(encodes', g, shard_set[g])
    <3>1. /\ g \in 0 .. Groups - 1 /\ Near(newest, g)
          /\ FitSet(encodes, g, shard_set[g])
      BY DEF ContentInv, SetsFit
    <3>. QED  BY <1>1, <1>5, <3>1, FitSetLater
  <2>. QED  BY <1>1, <2>1 DEF SetsFit, Groups, Paws, ShardSize
<1>8. RecoveredFit'
  <2>1. InLap(encodes') => InLap(encodes)
    <3>1. D * Groups \in Nat
      BY GroupsFacts, ShardSizeType, Products
    <3>. QED  BY <1>1, <1>5, <3>1 DEF InLap
  <2>2. recovered \subseteq 0 .. encodes /\ (InLap(encodes) => 0 \notin recovered)
    BY DEF ContentInv, RecoveredFit, OneLap
  <2>3. 0 .. encodes \subseteq 0 .. encodes'
    BY <1>1
  <2>4. recovered' \subseteq 0 .. encodes' /\ (InLap(encodes') => 0 \notin recovered')
    BY <1>1, <2>1, <2>2, <2>3
  <2>. QED  BY <2>4 DEF RecoveredFit, OneLap, InLap, Groups, Paws, ShardSize
<1>9. LapInv'
  BY <1>1, <1>2, <1>3, EncodeLap
<1>10. newest' \in 0 .. Groups - 1
  BY <1>1 DEF ContentInv
<1>. QED
  BY <1>1, <1>4, <1>5, <1>6, <1>7, <1>8, <1>9, <1>10
  DEF ContentInv, Groups, Paws, ShardSize

-----------------------------------------------------------------------------
(***************************************************************************)
(* What decode does with a packet.                                         *)
(***************************************************************************)
\* The present shards of a set.
LEMMA PresentFacts ==
  ASSUME NEW e, NEW g, NEW set, FitSet(e, g, set)
  PROVE  /\ Present(set) \subseteq 0 .. ShardSize - 1
         /\ IsFiniteSet(Present(set))
         /\ \A i \in Present(set) : \E body : set[i] = <<body>> /\ Fits(e, g, i, body)
<1>1. Present(set) \subseteq 0 .. ShardSize - 1
  BY DEF Present, FitSet
<1>2. IsFiniteSet(0 .. ShardSize - 1)
  BY ShardSizeType, FS_Interval
<1>3. IsFiniteSet(Present(set))
  BY <1>1, <1>2, FS_Subset
<1>. QED  BY <1>1, <1>3 DEF Present, FitSet

\* D shards of a set with a payload missing include a parity shard.
LEMMA ParityPresent ==
  ASSUME NEW e, NEW g, NEW set, FitSet(e, g, set), Cardinality(Present(set)) >= D,
         NEW i \in 0 .. D - 1, i \notin Present(set)
  PROVE  Present(set) \cap (D .. ShardSize - 1) # {}
<1>. SUFFICES ASSUME Present(set) \cap (D .. ShardSize - 1) = {} PROVE FALSE
  OBVIOUS
<1>1. Present(set) \subseteq (0 .. D - 1) \ {i}
  <2>1. Present(set) \subseteq 0 .. ShardSize - 1
    BY PresentFacts
  <2>2. 0 .. ShardSize - 1 \subseteq (0 .. D - 1) \cup (D .. ShardSize - 1)
    BY ShardSizeType
  <2>. QED  BY <2>1, <2>2
<1>2. /\ IsFiniteSet((0 .. D - 1) \ {i})
      /\ Cardinality((0 .. D - 1) \ {i}) = D - 1
  <2>1. IsFiniteSet(0 .. D - 1) /\ Cardinality(0 .. D - 1) = D
    <3>1. 0 \in Int /\ D - 1 \in Int /\ ~ (0 > D - 1) /\ D - 1 - 0 + 1 = D
      BY ShardSizeType
    <3>. QED  BY <3>1, FS_Interval
  <2>. QED  BY <2>1, FS_RemoveElement
<1>3. Cardinality(Present(set)) <= D - 1
  BY <1>1, <1>2, FS_Subset
<1>4. Cardinality(Present(set)) \in Nat
  BY PresentFacts, FS_CardinalityType
<1>. QED  BY <1>3, <1>4, ShardSizeType

(***************************************************************************)
(* What reconstruct_data says of a set that holds enough: payloads that    *)
(* were encoded or, of a mix, rubbish; in the first lap there is no mix,   *)
(* and every payload that is missing is given back.                        *)
(***************************************************************************)
LEMMA ReconstructFacts ==
  ASSUME NEW e \in Nat, NEW g \in Nat, NEW set, FitSet(e, g, set),
         Cardinality(Present(set)) >= D
  PROVE  /\ Reconstruct(set) \subseteq 0 .. e
         /\ InLap(e) => /\ 0 \notin Reconstruct(set)
                        /\ \A i \in (0 .. D - 1) \ Present(set) :
                             g * D + i + 1 \in Reconstruct(set)
<1> DEFINE parity == {set[i][1] : i \in Present(set) \cap (D .. ShardSize - 1)}
           missing == (0 .. D - 1) \ Present(set)
           agrees(tuple) == \A i \in Present(set) \cap (0 .. D - 1) :
                              set[i][1] = tuple[i + 1]
           all == {tuple[i + 1] : tuple \in parity, i \in missing}
<1>1. Reconstruct(set)
        = IF missing = {} THEN {}
          ELSE IF Cardinality(parity) = 1 /\ \A tuple \in parity : agrees(tuple)
          THEN all ELSE {0}
  BY DEF Reconstruct
<1>2. ASSUME NEW i \in Present(set)
      PROVE  Fits(e, g, i, set[i][1])
  <2>1. PICK body : set[i] = <<body>> /\ Fits(e, g, i, body)
    BY PresentFacts
  <2>. QED  BY <2>1
<1>3. ASSUME NEW tuple \in parity
      PROVE  /\ tuple \in [1 .. D -> 1 .. e]
             /\ InLap(e) => tuple = PayloadsOf(g)
  <2>1. PICK i \in Present(set) \cap (D .. ShardSize - 1) : tuple = set[i][1]
    BY <1>3
  <2>2. ~ (i < D)
    BY ShardSizeType
  <2>. QED  BY <1>2, <2>1, <2>2 DEF Fits
<1>4. ASSUME NEW i \in missing
      PROVE  i + 1 \in 1 .. D
  BY ShardSizeType
<1>5. all \subseteq 1 .. e
  <2>1. ASSUME NEW tuple \in parity, NEW i \in missing
        PROVE  tuple[i + 1] \in 1 .. e
    <3>1. tuple \in [1 .. D -> 1 .. e] /\ i + 1 \in 1 .. D
      BY <1>3, <1>4
    <3>. QED  BY <3>1
  <2>. HIDE DEF parity, missing
  <2>. QED  BY <2>1
<1>6. ASSUME InLap(e), missing # {}
      PROVE  /\ Cardinality(parity) = 1 /\ \A tuple \in parity : agrees(tuple)
             /\ parity = {PayloadsOf(g)}
  <2>1. parity # {}
    BY <1>6, ParityPresent
  <2>2. parity = {PayloadsOf(g)}
    BY <1>3, <1>6, <2>1
  <2>3. Cardinality(parity) = 1
    BY <2>2, FS_Singleton
  <2>4. ASSUME NEW i \in Present(set) \cap (0 .. D - 1)
        PROVE  set[i][1] = PayloadsOf(g)[i + 1]
    <3>1. i < D /\ i + 1 \in 1 .. D
      BY ShardSizeType
    <3>2. set[i][1] = g * D + i + 1
      BY <1>2, <1>6, <3>1 DEF Fits
    <3>3. PayloadsOf(g)[i + 1] = g * D + (i + 1)
      BY <3>1 DEF PayloadsOf
    <3>4. g * D \in Nat /\ i \in Nat
      BY ShardSizeType, Products
    <3>5. g * D + i + 1 = g * D + (i + 1)
      BY <3>4
    <3>. QED  BY <3>2, <3>3, <3>5
  <2>. QED  BY <2>2, <2>3, <2>4
<1>7. ASSUME InLap(e), NEW i \in missing
      PROVE  g * D + i + 1 \in all
  <2>1. PayloadsOf(g)[i + 1] \in all
    BY <1>6, <1>7
  <2>2. PayloadsOf(g)[i + 1] = g * D + (i + 1)
    BY <1>4 DEF PayloadsOf
  <2>3. g * D \in Nat /\ i \in Nat
    BY ShardSizeType, Products
  <2>4. g * D + i + 1 = g * D + (i + 1)
    BY <2>3
  <2>. HIDE DEF all
  <2>. QED  BY <2>1, <2>2, <2>4
<1>. HIDE DEF parity, missing, agrees, all
<1>8. Reconstruct(set) \subseteq 0 .. e
  <2>1. 1 .. e \subseteq 0 .. e /\ 0 \in 0 .. e
    OBVIOUS
  <2>. QED  BY <1>1, <1>5, <2>1
<1>9. ASSUME InLap(e)
      PROVE  /\ 0 \notin Reconstruct(set)
             /\ \A i \in missing : g * D + i + 1 \in Reconstruct(set)
  <2>1. CASE missing = {}
    BY <1>1, <2>1
  <2>2. CASE missing # {}
    <3>1. Reconstruct(set) = all
      BY <1>1, <1>6, <1>9, <2>2
    <3>. QED  BY <1>5, <1>7, <1>9, <3>1
  <2>. QED  BY <2>1, <2>2
<1>. QED  BY <1>8, <1>9 DEF missing

\* The packets of the network and what an arrival changes of them.
LEMMA NetSeq ==
  ASSUME NumberInv, NEW n \in DOMAIN net
  PROVE  /\ net[n] \in Sealed /\ net[n].seq \in Nat /\ net[n].arrived \in BOOLEAN
         /\ n \in 1 .. Len(net) /\ Len(net) \in Nat
         /\ net[n].kind = "data" <=> Index(net[n].seq) < D
<1>1. net \in Seq(Sealed) /\ DOMAIN net = 1 .. Len(net) /\ Len(net) \in Nat
  BY LenProperties DEF NumberInv
<1>2. net[n] \in Sealed
  BY <1>1, ElementOfSeq
<1>. QED  BY <1>1, <1>2 DEF Sealed

LEMMA ArriveFacts ==
  ASSUME NumberInv, NEW n \in DOMAIN net, Arrive(n)
  PROVE  /\ DOMAIN net' = DOMAIN net /\ Len(net') = Len(net)
         /\ \A m \in DOMAIN net :
              /\ net'[m].seq = net[m].seq /\ net'[m].kind = net[m].kind
              /\ net'[m].body = net[m].body
              /\ net'[m].arrived = (m = n \/ net[m].arrived)
<1>1. net \in Seq(Sealed) /\ DOMAIN net = 1 .. Len(net) /\ Len(net) \in Nat
  BY LenProperties DEF NumberInv
<1> DEFINE new == [net[n] EXCEPT !.arrived = TRUE]
<1>2. /\ new.seq = net[n].seq /\ new.kind = net[n].kind /\ new.body = net[n].body
      /\ new.arrived = TRUE /\ new \in Sealed
  BY NetSeq DEF Sealed
<1>3. net' = [net EXCEPT ![n] = new]
  BY DEF Arrive
<1>. HIDE DEF new
<1>4. DOMAIN net' = DOMAIN net /\ net' \in Seq(Sealed)
  BY <1>1, <1>2, <1>3, ExceptSeq
<1>5. Len(net') = Len(net)
  BY <1>1, <1>4, LenProperties
<1>6. \A m \in DOMAIN net : net'[m] = IF m = n THEN new ELSE net[m]
  BY <1>3
<1>7. \A m \in DOMAIN net : net[m].arrived \in BOOLEAN
  BY NetSeq
<1>. QED  BY <1>2, <1>4, <1>5, <1>6, <1>7

\* What the decoder has of a group fits the group, as does an empty set.
LEMMA ShardsFit ==
  ASSUME ContentInv, NEW g \in Nat
  PROVE  FitSet(encodes, g, ShardsOf(g))
<1>1. CASE g \in DOMAIN shard_set
  BY <1>1 DEF ContentInv, SetsFit, ShardsOf
<1>2. CASE g \notin DOMAIN shard_set
  BY <1>2 DEF ShardsOf, EmptySet, FitSet
<1>. QED  BY <1>1, <1>2

\* So does the set with an arriving packet in its place.
LEMMA WithFits ==
  ASSUME NumberInv, ContentInv, NEW n \in DOMAIN net
  PROVE  LET pkt == net[n]
             g == Group(pkt.seq)
         IN  /\ g \in 0 .. Groups - 1 /\ g \in Nat
             /\ Index(pkt.seq) \in 0 .. ShardSize - 1
             /\ FitSet(encodes, g, With(pkt))
             /\ Present(With(pkt)) = Present(ShardsOf(g)) \cup {Index(pkt.seq)}
<1> DEFINE pkt == net[n]
           g == Group(pkt.seq)
           i == Index(pkt.seq)
           set == ShardsOf(g)
<1>1. pkt.seq \in Nat /\ pkt.seq < Paws /\ Fits(encodes, g, i, pkt.body)
  BY NetSeq DEF ContentInv, NetFits
<1>2. g \in 0 .. Groups - 1 /\ g \in Nat /\ i \in 0 .. ShardSize - 1
  BY <1>1, NumberAt
<1>3. FitSet(encodes, g, set)
  BY <1>2, ShardsFit
<1>4. With(pkt) = [set EXCEPT ![i] = <<pkt.body>>]
  BY DEF With
<1>. HIDE DEF pkt, g, i, set
<1>5. /\ DOMAIN With(pkt) = 0 .. ShardSize - 1
      /\ \A j \in 0 .. ShardSize - 1 :
           With(pkt)[j] = IF j = i THEN <<pkt.body>> ELSE set[j]
  BY <1>2, <1>3, <1>4 DEF FitSet
<1>6. FitSet(encodes, g, With(pkt))
  BY <1>1, <1>3, <1>5 DEF FitSet
<1>7. Present(With(pkt)) = Present(set) \cup {i}
  <2>1. DOMAIN set = 0 .. ShardSize - 1
    BY <1>3 DEF FitSet
  <2>2. <<pkt.body>> # <<>>
    OBVIOUS
  <2>. QED  BY <1>2, <1>5, <2>1, <2>2 DEF Present
<1>. QED  BY <1>2, <1>6, <1>7 DEF pkt, g, i, set

\* What discard_old_shards leaves.
LEMMA KeptFacts ==
  ASSUME NEW latest, NEW sets
  PROVE  /\ DOMAIN Kept(latest, sets) = {h \in DOMAIN sets : Near(latest, h)}
         /\ \A h \in DOMAIN Kept(latest, sets) : Kept(latest, sets)[h] = sets[h]
BY DEF Kept, Near

\* newest_shard_id is always that of a group.
LEMMA NewerFacts ==
  ASSUME newest \in 0 .. Groups - 1, NEW g \in 0 .. Groups - 1
  PROVE  /\ Newer(g) \in 0 .. Groups - 1
         /\ Newer(g) = IF g > newest THEN g ELSE newest
<1>1. g \in Nat /\ newest \in Nat /\ g - newest <= g
  BY GroupsFacts
<1>2. g < Word \div 2 /\ Word \div 2 \in Nat
  BY GroupsFacts, FecAssumption
<1>3. g > newest => g - newest < Word \div 2
  BY <1>1, <1>2
<1>. QED  BY <1>3 DEF Newer

\* The groups that the decoder holds after a packet, whatever it did with it.
LEMMA SetsLater ==
  ASSUME NumberInv, ContentInv, NEW n \in DOMAIN net,
         NEW latest \in 0 .. Groups - 1, NEW sets,
         sets \in {WithSet(Group(net[n].seq), With(net[n])),
                   Without(Group(net[n].seq))}
  PROVE  \A h \in DOMAIN Kept(latest, sets) :
           /\ h \in 0 .. Groups - 1 /\ Near(latest, h)
           /\ FitSet(encodes, h, Kept(latest, sets)[h])
<1> DEFINE g == Group(net[n].seq)
           set == With(net[n])
<1>1. g \in 0 .. Groups - 1 /\ FitSet(encodes, g, set)
  BY WithFits
<1>2. \A h \in DOMAIN shard_set : h \in 0 .. Groups - 1 /\ FitSet(encodes, h, shard_set[h])
  BY DEF ContentInv, SetsFit
<1>3. sets = WithSet(g, set) \/ sets = Without(g)
  OBVIOUS
<1>. HIDE DEF g, set
<1>4. \A h \in DOMAIN sets : h \in 0 .. Groups - 1 /\ FitSet(encodes, h, sets[h])
  <2>1. CASE sets = WithSet(g, set)
    <3>1. /\ DOMAIN sets = DOMAIN shard_set \cup {g}
          /\ \A h \in DOMAIN sets : sets[h] = IF h = g THEN set ELSE shard_set[h]
      BY <2>1 DEF WithSet
    <3>. QED  BY <1>1, <1>2, <3>1
  <2>2. CASE sets = Without(g)
    <3>1. /\ DOMAIN sets = DOMAIN shard_set \ {g}
          /\ \A h \in DOMAIN sets : sets[h] = shard_set[h]
      BY <2>2 DEF Without
    <3>. QED  BY <1>2, <3>1
  <2>. QED  BY <1>3, <2>1, <2>2
<1> DEFINE kept == Kept(latest, sets)
<1>5. /\ DOMAIN kept = {h \in DOMAIN sets : Near(latest, h)}
      /\ \A h \in DOMAIN kept : kept[h] = sets[h]
  BY KeptFacts
<1>. HIDE DEF kept
<1>6. \A h \in DOMAIN kept :
        h \in 0 .. Groups - 1 /\ Near(latest, h) /\ FitSet(encodes, h, kept[h])
  BY <1>4, <1>5
<1>. QED  BY <1>6 DEF kept

\* decode keeps everything fit.
LEMMA DecodeContent ==
  ASSUME NumberInv, ContentInv, NEW n \in DOMAIN net, Decode(n)
  PROVE  ContentInv'
<1> DEFINE pkt == net[n]
           g == Group(pkt.seq)
<1>1. Arrive(n) /\ UNCHANGED <<next, shards, warm, encodes>>
  BY DEF Decode, DecodeDuplicate, DecodeStore, DecodeComplete, Arrive, encoderVars
<1>2. g \in 0 .. Groups - 1 /\ newest \in 0 .. Groups - 1 /\ g \in Nat
  BY WithFits DEF ContentInv
<1>3. \/ UNCHANGED decoderVars
      \/ /\ newest' = Newer(g)
         /\ \E sets \in {WithSet(g, With(pkt)), Without(g)} :
              shard_set' = Kept(newest', sets)
         /\ \/ recovered' = recovered
            \/ /\ Cardinality(Present(With(pkt))) >= D
               /\ recovered' = recovered \cup Reconstruct(With(pkt))
  BY DEF Decode, DecodeDuplicate, DecodeStore, DecodeComplete
<1>4. NetFits' /\ Len(net') <= Reach
  <2>1. ASSUME NEW m \in DOMAIN net
        PROVE  /\ net'[m].seq < Paws
               /\ Fits(encodes, Group(net'[m].seq), Index(net'[m].seq), net'[m].body)
    <3>1. net'[m].seq = net[m].seq /\ net'[m].body = net[m].body
      BY <1>1, ArriveFacts
    <3>2. /\ net[m].seq < Paws
          /\ Fits(encodes, Group(net[m].seq), Index(net[m].seq), net[m].body)
      BY DEF ContentInv, NetFits
    <3>. QED  BY <3>1, <3>2
  <2>2. DOMAIN net' = DOMAIN net /\ Len(net') = Len(net) /\ Len(net) <= Reach
    BY <1>1, ArriveFacts DEF ContentInv
  <2>. QED  BY <1>1, <2>1, <2>2 DEF NetFits, Paws, ShardSize, Group, Index
<1>5. newest' \in 0 .. Groups - 1
  <2>1. Newer(g) \in 0 .. Groups - 1
    BY <1>2, NewerFacts
  <2>. QED  BY <1>2, <1>3, <2>1 DEF decoderVars
<1>6. SetsFit'
  <2>1. ASSUME NEW h \in DOMAIN shard_set'
        PROVE  /\ h \in 0 .. Groups - 1 /\ Near(newest', h)
               /\ FitSet(encodes, h, shard_set'[h])
    <3>1. CASE UNCHANGED decoderVars
      BY <2>1, <3>1 DEF ContentInv, SetsFit, decoderVars
    <3>2. ASSUME NEW sets \in {WithSet(g, With(pkt)), Without(g)},
                 shard_set' = Kept(newest', sets)
          PROVE  /\ h \in 0 .. Groups - 1 /\ Near(newest', h)
                 /\ FitSet(encodes, h, shard_set'[h])
      BY <1>5, <2>1, <3>2, SetsLater
    <3>. QED  BY <1>3, <3>1, <3>2
  <2>. QED  BY <1>1, <2>1 DEF SetsFit, Groups, Paws, ShardSize
<1>7. RecoveredFit'
  <2>1. recovered \subseteq 0 .. encodes /\ (InLap(encodes) => 0 \notin recovered)
    BY DEF ContentInv, RecoveredFit, OneLap
  <2>2. ASSUME Cardinality(Present(With(pkt))) >= D
        PROVE  /\ Reconstruct(With(pkt)) \subseteq 0 .. encodes
               /\ InLap(encodes) => 0 \notin Reconstruct(With(pkt))
    <3>1. FitSet(encodes, g, With(pkt)) /\ encodes \in Nat
      BY WithFits DEF ContentInv
    <3>. QED  BY <1>2, <2>2, <3>1, ReconstructFacts
  <2>3. recovered' \subseteq 0 .. encodes /\ (InLap(encodes) => 0 \notin recovered')
    BY <1>3, <2>1, <2>2 DEF decoderVars
  <2>4. recovered' \subseteq 0 .. encodes' /\ (InLap(encodes') => 0 \notin recovered')
    BY <1>1, <2>3
  <2>. QED  BY <2>4 DEF RecoveredFit, OneLap, InLap, Groups, Paws, ShardSize
<1>8. LapInv'
  BY <1>1 DEF ContentInv, LapInv, Groups, Paws, ShardSize
<1>. QED
  BY <1>1, <1>4, <1>5, <1>6, <1>7, <1>8 DEF ContentInv, Groups, Paws, ShardSize

\* At the start there is nothing that could not fit.
LEMMA InitContent == Init => ContentInv
<1>. SUFFICES ASSUME Init PROVE ContentInv
  OBVIOUS
<1>1. LapInv
  <2>1. encodes = 0 * D + Len(shards) /\ Len(shards) = 0 /\ next = 0 * ShardSize + Len(shards)
    BY ShardSizeType DEF Init
  <2>2. shards = [j \in 1 .. Len(shards) |-> 0 * D + j]
    BY <2>1 DEF Init
  <2>. QED  BY <2>1, <2>2 DEF LapInv
<1>2. NetFits /\ SetsFit /\ RecoveredFit /\ Len(net) <= Reach
  BY FecAssumption DEF Init, NetFits, SetsFit, RecoveredFit
<1>3. encodes = 0 /\ 0 <= MaxEncodes /\ newest = 0 /\ warm = FALSE
  BY FecAssumption DEF Init
<1>4. 0 \in 0 .. Groups - 1
  BY GroupsFacts
<1>. QED  BY <1>1, <1>2, <1>3, <1>4 DEF ContentInv

\* What is held and under way always fits.
LEMMA ContentInvariant == Spec => [](NumberInv /\ ContentInv)
<1>1. Init => NumberInv /\ ContentInv
  BY InitNumber, InitContent
<1>2. NumberInv /\ ContentInv /\ [Next]_vars => (NumberInv /\ ContentInv)'
  <2> SUFFICES ASSUME NumberInv, ContentInv, [Next]_vars
               PROVE  NumberInv' /\ ContentInv'
    OBVIOUS
  <2>1. CASE Encode
    BY <2>1, EncodeNumber, EncodeContent
  <2>2. CASE \E n \in DOMAIN net : Decode(n)
    BY <2>2, DecodeNumber, DecodeContent
  <2>3. CASE UNCHANGED vars
    <3>1. NumberInv'
      BY <2>3 DEF vars, encoderVars, NumberInv, NextFollowsShards, Paws,
                  ShardSize, Sealed, Index
    <3>2. ContentInv'
      BY <2>3 DEF vars, encoderVars, decoderVars, ContentInv, LapInv, NetFits,
                  SetsFit, RecoveredFit, OneLap, InLap, Groups, Paws, ShardSize,
                  Group, Index
    <3>. QED  BY <3>1, <3>2
  <2>. QED  BY <2>1, <2>2, <2>3 DEF Next
<1>. QED  BY <1>1, <1>2, PTL DEF Spec

-----------------------------------------------------------------------------
\* The encoder's part of the types.
LEMMA EncoderTypes ==
  ASSUME NumberInv, ContentInv
  PROVE  /\ next \in 0 .. Paws - 1
         /\ shards \in Seq(1 .. MaxEncodes) /\ Len(shards) < D
         /\ warm \in BOOLEAN /\ encodes \in 0 .. MaxEncodes
<1>1. next \in 0 .. Paws - 1
  <2>1. PICK g \in Nat : /\ next = g * ShardSize + Len(shards)
                         /\ (g + 1) * ShardSize <= Paws
    BY DEF NumberInv, NextFollowsShards
  <2> DEFINE m == g * ShardSize
  <2>2. m \in Nat /\ (g + 1) * ShardSize = m + ShardSize
    BY ShardSizeType, CompareFactors
  <2>3. Len(shards) \in Nat /\ Len(shards) < ShardSize
    BY ShardSizeType, LenProperties DEF NumberInv
  <2>. HIDE DEF m
  <2>4. next = m + Len(shards) /\ m + ShardSize <= Paws
    BY <2>1, <2>2 DEF m
  <2>. QED  BY <2>2, <2>3, <2>4, PawsType, ShardSizeType
<1>2. encodes \in 0 .. MaxEncodes /\ warm \in BOOLEAN
  BY FecAssumption DEF ContentInv
<1>3. shards \in Seq(1 .. MaxEncodes)
  <2> DEFINE l == Len(shards)
  <2>1. PICK g \in Nat : encodes = g * D + l /\ shards = [j \in 1 .. l |-> g * D + j]
    BY DEF ContentInv, LapInv
  <2> DEFINE m == g * D
  <2>2. m \in Nat /\ l \in Nat /\ encodes = m + l
    BY <2>1, ShardSizeType, Products, LenProperties DEF NumberInv
  <2>3. shards = [j \in 1 .. l |-> m + j]
    BY <2>1
  <2>. HIDE DEF m, l
  <2>4. \A j \in 1 .. l : m + j \in 1 .. MaxEncodes
    BY <1>2, <2>2, FecAssumption
  <2>5. shards \in [1 .. l -> 1 .. MaxEncodes]
    BY <2>3, <2>4
  <2>. QED  BY <2>2, <2>5, SeqDef
<1>. QED  BY <1>1, <1>2, <1>3 DEF NumberInv

(***************************************************************************)
(* encode, seal and decode keep every field of the encoder, the decoder    *)
(* and the packets under way in range, across every wrap.                  *)
(***************************************************************************)
THEOREM TypeCorrect == Spec => []TypeOK
<1>1. NumberInv /\ ContentInv => TypeOK
  <2>. SUFFICES ASSUME NumberInv, ContentInv PROVE TypeOK
    OBVIOUS
  <2>1. \A n \in DOMAIN net : net[n].seq < Paws /\ net[n].kind \in {"data", "parity"}
    BY NetSeq DEF ContentInv, NetFits, Sealed
  <2>2. /\ DOMAIN shard_set \subseteq 0 .. (Paws \div ShardSize) - 1
        /\ newest \in 0 .. (Paws \div ShardSize) - 1
    BY DEF ContentInv, SetsFit, Groups
  <2>3. recovered \subseteq 0 .. MaxEncodes
    <3>1. 0 .. encodes \subseteq 0 .. MaxEncodes
      BY FecAssumption DEF ContentInv
    <3>. QED  BY <3>1 DEF ContentInv, RecoveredFit
  <2>4. Len(net) <= Reach
    BY DEF ContentInv
  <2>. QED  BY <2>1, <2>2, <2>3, <2>4, EncoderTypes DEF TypeOK
<1>. QED  BY <1>1, ContentInvariant, PTL

(***************************************************************************)
(* What reconstruct_data gives the session is a payload that encode was    *)
(* given, as long as no number has been used twice.                        *)
(***************************************************************************)
THEOREM RecoveredInLap == Spec => [](OneLap => RecoveredWasSealed)
<1>1. ContentInv => (OneLap => RecoveredWasSealed)
  <2>. SUFFICES ASSUME ContentInv, OneLap PROVE RecoveredWasSealed
    OBVIOUS
  <2>1. recovered \subseteq 0 .. encodes /\ 0 \notin recovered /\ encodes \in Nat
    BY DEF ContentInv, RecoveredFit
  <2>2. \A p \in 0 .. encodes : p # 0 => p \in 1 .. encodes
    BY <2>1
  <2>. QED  BY <2>1, <2>2 DEF RecoveredWasSealed
<1>. QED  BY <1>1, ContentInvariant, PTL

\* How far behind the newest group another is, as wrapping_sub counts it.
LEMMA Distance ==
  ASSUME NEW latest \in 0 .. Groups - 1, NEW h \in 0 .. Groups - 1
  PROVE  (latest + Word - h) % Word
           = IF h <= latest THEN latest - h ELSE latest + Word - h
<1>1. Groups \in Nat /\ Groups < Word /\ Word \in Nat
  BY GroupsFacts, FecAssumption
<1>2. \A x \in Nat, y \in Nat \ {0} : x < y => x % y = x
  OBVIOUS
<1>3. CASE h <= latest
  <2> DEFINE x == latest - h
  <2>1. x \in Nat /\ x < Word /\ latest + Word - h = 1 * Word + x /\ Word \in Nat \ {0}
    BY <1>1, <1>3
  <2>. HIDE DEF x
  <2>2. (1 * Word + x) % Word = x
    BY <2>1, Remainder
  <2>. QED  BY <1>3, <2>1, <2>2 DEF x
<1>4. CASE ~ (h <= latest)
  <2> DEFINE x == latest + Word - h
  <2>1. x \in Nat /\ x < Word /\ Word \in Nat \ {0}
    BY <1>1, <1>4
  <2>. HIDE DEF x
  <2>2. x % Word = x
    BY <1>2, <2>1
  <2>. QED  BY <1>4, <2>2 DEF x
<1>. QED  BY <1>3, <1>4

(***************************************************************************)
(* discard_old_shards leaves at most MAX_SHARD_SETS * shard_size groups    *)
(* besides the newest: their distances from it are all different.          *)
(***************************************************************************)
THEOREM BoundedMemory == Spec => []MemoryBounded
<1>1. ContentInv => MemoryBounded
  <2>. SUFFICES ASSUME ContentInv PROVE MemoryBounded
    OBVIOUS
  <2> DEFINE f == [h \in DOMAIN shard_set |-> (newest + Word - h) % Word]
             B == MaxShardSets * ShardSize
  <2>1. B \in Nat
    BY FecAssumption, ShardSizeType, Products
  <2>2. /\ newest \in 0 .. Groups - 1
        /\ \A h \in DOMAIN shard_set : h \in 0 .. Groups - 1 /\ f[h] <= B
    BY DEF ContentInv, SetsFit, Near
  <2>3. \A h \in DOMAIN shard_set :
          f[h] = IF h <= newest THEN newest - h ELSE newest + Word - h
    BY <2>2, Distance
  <2>4. \A h \in DOMAIN shard_set : f[h] \in 0 .. B
    <3>. HIDE DEF f, B
    <3>. QED  BY <2>1, <2>2, <2>3, GroupsFacts, FecAssumption
  <2>5. \A h, k \in DOMAIN shard_set : f[h] = f[k] => h = k
    <3>. HIDE DEF f, B
    <3>. QED  BY <2>2, <2>3, GroupsFacts, FecAssumption
  <2>6. f \in Injection(DOMAIN shard_set, 0 .. B)
    BY <2>4, <2>5, Fun_IsInj
  <2>. HIDE DEF f, B
  <2>7. IsFiniteSet(0 .. B) /\ Cardinality(0 .. B) = B + 1
    BY <2>1, FS_Interval
  <2>8. Cardinality(DOMAIN shard_set) <= B + 1
    BY <2>6, <2>7, FS_Injection
  <2>. QED  BY <2>8 DEF MemoryBounded, B
<1>. QED  BY <1>1, ContentInvariant, PTL

-----------------------------------------------------------------------------
(***************************************************************************)
(* The order of what is under way, and the groups of which all that was    *)
(* sent still is.  HeadOf is the number that the next packet would have    *)
(* if numbers did not wrap.                                                *)
(***************************************************************************)
HeadOf(e, l) == (e \div D) * ShardSize + l

\* Numbers grow with the places in the network, and are below the next one.
Sorted(packets, head) ==
  /\ \A n \in DOMAIN packets : packets[n].seq < head
  /\ \A m, n \in DOMAIN packets : m < n => packets[m].seq < packets[n].seq

\* A payload that is still under way is not older than its place says.
Behind(packets, e) ==
  \A n \in DOMAIN packets :
    packets[n].kind = "data" => packets[n].body + (Len(packets) - n) >= e

\* The decoder knows no group before the encoder has begun it.
Close(e, latest, groups) ==
  /\ latest * D <= e
  /\ \A g \in groups : g <= latest /\ g * D < e

\* The first packet of group g is under way, and so is all that followed.
Whole(packets, g) == \E n \in DOMAIN packets : packets[n].seq = g * ShardSize

\* The places of group g of which the packet has arrived.
ArrivedOf(packets, g) ==
  {i \in 0 .. ShardSize - 1 :
     \E n \in DOMAIN packets : packets[n].arrived /\ packets[n].seq = g * ShardSize + i}

\* The group is complete, and no payload of it is missing.
Done(packets, e, given, g) ==
  /\ (g + 1) * D <= e
  /\ \A n \in DOMAIN packets :
       packets[n].kind = "data" /\ Group(packets[n].seq) = g
         => packets[n].arrived \/ packets[n].body \in given

\* The decoder has what has arrived of the group, which is too little.
SetIn(sets, g) == IF g \in DOMAIN sets THEN sets[g] ELSE EmptySet
Open(packets, sets, g) ==
  /\ Present(SetIn(sets, g)) = ArrivedOf(packets, g)
  /\ Cardinality(ArrivedOf(packets, g)) < D

Track(packets, e, sets, given) ==
  \A g \in 0 .. Groups - 1 :
    Whole(packets, g) => Done(packets, e, given, g) \/ Open(packets, sets, g)

OrderInv ==
  /\ Behind(net, encodes)
  /\ OneLap => /\ Sorted(net, HeadOf(encodes, Len(shards)))
               /\ Close(encodes, newest, DOMAIN shard_set)
               /\ Track(net, encodes, shard_set, recovered)

\* The group that encode is filling.
LEMMA LapFacts ==
  ASSUME NumberInv, ContentInv
  PROVE  \E g \in Nat :
           /\ g = encodes \div D /\ encodes = g * D + Len(shards)
           /\ Len(shards) \in Nat /\ Len(shards) < D /\ encodes \in Nat
           /\ g * D \in Nat /\ g * ShardSize \in Nat
           /\ HeadOf(encodes, Len(shards)) = g * ShardSize + Len(shards)
           /\ g < Groups => next = g * ShardSize + Len(shards)
           /\ InLap(encodes) => g <= Groups
           /\ InLap(encodes + 1) => g < Groups
<1> DEFINE l == Len(shards)
<1>1. PICK g \in Nat : /\ encodes = g * D + l
                       /\ g < Groups => next = g * ShardSize + l
  BY DEF ContentInv, LapInv
<1>2. /\ l \in Nat /\ l < D /\ D \in Nat \ {0} /\ encodes \in Nat
      /\ ShardSize \in Nat \ {0} /\ g * D \in Nat /\ g * ShardSize \in Nat
  BY ShardSizeType, Products, LenProperties DEF NumberInv
<1>3. (g * D + l) \div D = g
  BY <1>2, Quotient
<1>4. HeadOf(encodes, l) = g * ShardSize + l
  BY <1>1, <1>3 DEF HeadOf
<1>5. Groups \in Nat /\ Groups * D \in Nat /\ Groups * D = D * Groups
  BY <1>2, GroupsFacts, Products
<1>6. ASSUME InLap(encodes) PROVE g <= Groups
  <2>1. g * D <= Groups * D
    <3> DEFINE m == g * D
               k == Groups * D
    <3>1. m + l <= k /\ m \in Nat /\ k \in Nat
      BY <1>1, <1>2, <1>5, <1>6 DEF InLap
    <3>. HIDE DEF m, k
    <3>2. m <= k
      BY <1>2, <3>1
    <3>. QED  BY <3>2 DEF m, k
  <2>. QED  BY <1>2, <1>5, <2>1, CompareFactors
<1>7. ASSUME InLap(encodes + 1) PROVE g < Groups
  <2>1. g * D < Groups * D
    <3> DEFINE m == g * D
               k == Groups * D
    <3>1. m + l + 1 <= k /\ m \in Nat /\ k \in Nat
      BY <1>1, <1>2, <1>5, <1>7 DEF InLap
    <3>. HIDE DEF m, k
    <3>2. m < k
      BY <1>2, <3>1
    <3>. QED  BY <3>2 DEF m, k
  <2>. QED  BY <1>2, <1>5, <2>1, CompareFactors
<1>. QED  BY <1>1, <1>2, <1>3, <1>4, <1>6, <1>7

\* A call of encode moves the head past what it emits.
LEMMA HeadLater ==
  ASSUME NumberInv, ContentInv, encodes' = encodes + 1,
         NEW c \in {1, 1 + P}, Grown(c)
  PROVE  /\ HeadOf(encodes', Len(shards')) >= HeadOf(encodes, Len(shards)) + c
         /\ Len(shards) + (c - 1) < ShardSize
<1> DEFINE l == Len(shards)
<1>1. PICK g \in Nat :
        /\ encodes = g * D + l /\ l \in Nat /\ l < D /\ encodes \in Nat
        /\ g * D \in Nat /\ g * ShardSize \in Nat
        /\ HeadOf(encodes, l) = g * ShardSize + l
  BY LapFacts
<1>2. D \in Nat \ {0} /\ P \in Nat /\ ShardSize = D + P /\ ShardSize \in Nat \ {0}
  BY ShardSizeType
<1> DEFINE m == g * D
           s == g * ShardSize
<1>3. /\ m \in Nat /\ s \in Nat /\ encodes = m + l /\ HeadOf(encodes, l) = s + l
      /\ (g + 1) * D = m + D /\ (g + 1) * ShardSize = s + ShardSize
  BY <1>1, <1>2, CompareFactors
<1>. HIDE DEF l, m, s
<1>4. CASE l + 1 < D
  <2>1. shards \in Seq(Nat) /\ encodes + 1 \in Nat
    BY <1>1 DEF NumberInv
  <2>2. c = 1 /\ shards' = Append(shards, encodes + 1)
    BY <1>1, <1>2, <1>4 DEF Grown, l
  <2>3. Len(shards') = l + 1
    BY <2>1, <2>2, AppendProperties DEF l
  <2>4. l + 1 \in Nat /\ (g * D + (l + 1)) \div D = g
    BY <1>1, <1>2, <1>4, Quotient
  <2>5. encodes' = g * D + (l + 1)
    BY <1>1, <1>3 DEF m
  <2>6. HeadOf(encodes', Len(shards')) = g * ShardSize + (l + 1)
    BY <2>3, <2>4, <2>5 DEF HeadOf
  <2>7. g * ShardSize + (l + 1) = s + l + 1
    BY <1>1, <1>3 DEF s
  <2>. QED  BY <1>1, <1>2, <1>3, <1>4, <2>2, <2>6, <2>7 DEF l
<1>5. CASE l + 1 = D
  <2>1. shards' = <<>>
    BY <1>1, <1>2, <1>5 DEF Grown, l
  <2>2. Len(shards') = 0
    BY <2>1
  <2>3. g + 1 \in Nat /\ 0 \in Nat /\ 0 < D /\ ((g + 1) * D + 0) \div D = g + 1
    BY <1>2, Quotient
  <2>4. encodes' = (g + 1) * D + 0
    BY <1>1, <1>2, <1>3, <1>5
  <2>5. HeadOf(encodes', Len(shards')) = (g + 1) * ShardSize + 0
    BY <2>2, <2>3, <2>4 DEF HeadOf
  <2>6. (g + 1) * ShardSize + 0 = s + l + (1 + P)
    BY <1>1, <1>2, <1>3, <1>5
  <2>7. c <= 1 + P /\ c \in Nat
    BY <1>2
  <2>. QED  BY <1>1, <1>2, <1>3, <1>5, <2>5, <2>6, <2>7 DEF l
<1>. QED  BY <1>1, <1>2, <1>4, <1>5

(***************************************************************************)
(* What a call of encode makes of the network: d packets are dropped in    *)
(* front and c are added, which have the numbers from the head on.         *)
(***************************************************************************)
New(pkt, k) ==
  /\ pkt.arrived = FALSE /\ (pkt.kind = "data" => k = 1 /\ pkt.body = encodes + 1)
  /\ InLap(encodes + 1) =>
       /\ pkt.seq = HeadOf(encodes, Len(shards)) + (k - 1)
       /\ Group(pkt.seq) = encodes \div D
       /\ Index(pkt.seq) = Len(shards) + (k - 1)

LEMMA SentNew ==
  ASSUME NumberInv, ContentInv,
         NEW c \in {1, 1 + P}, c = 1 \/ Len(shards) + 1 = D, NEW k \in 1 .. c
  PROVE  New(Sent(c)[k], k)
<1> DEFINE pkt == Sent(c)[k]
           l == Len(shards)
<1>1. pkt.seq = SealAt(k - 1)
  BY SentFits DEF ContentInv
<1>2. pkt.arrived = FALSE /\ (pkt.kind = "data" => k = 1 /\ pkt.body = encodes + 1)
  BY DEF Sent, DataPacket, Packet
<1>3. PICK g \in Nat :
        /\ g = encodes \div D /\ l \in Nat /\ l < D /\ g * ShardSize \in Nat
        /\ HeadOf(encodes, l) = g * ShardSize + l
        /\ g < Groups => next = g * ShardSize + l
        /\ InLap(encodes + 1) => g < Groups
  BY LapFacts
<1>4. k - 1 \in Nat /\ l + (k - 1) < ShardSize /\ l + (k - 1) \in 0 .. ShardSize - 1
  BY <1>3, ShardSizeType
<1>5. ASSUME InLap(encodes + 1)
      PROVE  /\ pkt.seq = HeadOf(encodes, l) + (k - 1)
             /\ Group(pkt.seq) = g /\ Index(pkt.seq) = l + (k - 1)
  <2>1. SealAt(k - 1) = g * ShardSize + (l + (k - 1))
    BY <1>3, <1>4, <1>5, SealInLap
  <2>2. g * ShardSize + (l + (k - 1)) = g * ShardSize + l + (k - 1)
    BY <1>3, <1>4
  <2>3. Group(SealAt(k - 1)) = g /\ Index(SealAt(k - 1)) = l + (k - 1)
    BY <1>4, <2>1, PlaceOf
  <2>. QED  BY <1>1, <1>3, <2>1, <2>2, <2>3
<1>. QED  BY <1>2, <1>3, <1>5 DEF New

LEMMA NetGrows ==
  ASSUME NumberInv, ContentInv, Encode
  PROVE  \E c \in {1, 1 + P}, d \in Nat :
           /\ Grown(c)
           /\ Len(net') = Len(net) + c - d /\ Len(net') <= Reach
           /\ DOMAIN net' = 1 .. Len(net')
           /\ \A n \in DOMAIN net' : \E m \in 1 .. Len(net) + c :
                /\ m = n + d
                /\ \/ m <= Len(net) /\ net'[n] = net[m]
                   \/ m > Len(net) /\ New(net'[n], m - Len(net))
<1>1. PICK c \in {1, 1 + P} :
        /\ Emit(Sent(c)) /\ Sent(c) \in Seq(Sealed) /\ Len(Sent(c)) = c
        /\ Grown(c)
  BY EncodeShape
<1> DEFINE packets == Sent(c)
<1>2. Emit(packets) /\ packets \in Seq(Sealed) /\ Len(packets) = c
  BY <1>1
<1>3. net \in Seq(Sealed) /\ Len(net) \in Nat /\ c \in Nat
      /\ (c = 1 \/ Len(shards) + 1 = D)
  BY <1>1, LenProperties, FecAssumption DEF NumberInv, Grown
<1>4. ASSUME NEW k \in 1 .. c
      PROVE  New(packets[k], k)
  BY <1>3, SentNew
<1>. HIDE DEF packets
<1>5. PICK d \in Nat :
        /\ Len(net') = Len(net) + Len(packets) - d /\ Len(net') <= Reach
        /\ DOMAIN net' = 1 .. Len(net) + Len(packets) - d
        /\ \A n \in DOMAIN net' :
             \E m \in 1 .. Len(net) + Len(packets) :
               /\ m = n + d
               /\ net'[n] = IF m <= Len(net) THEN net[m]
                            ELSE packets[m - Len(net)]
  BY <1>2, <1>3, EmitFacts
<1>6. ASSUME NEW n \in DOMAIN net'
      PROVE  \E m \in 1 .. Len(net) + c :
               /\ m = n + d
               /\ \/ m <= Len(net) /\ net'[n] = net[m]
                  \/ m > Len(net) /\ New(net'[n], m - Len(net))
  <2>1. PICK m \in 1 .. Len(net) + Len(packets) :
          /\ m = n + d
          /\ net'[n] = IF m <= Len(net) THEN net[m] ELSE packets[m - Len(net)]
    BY <1>5, <1>6
  <2>2. CASE m <= Len(net)
    BY <1>2, <2>1, <2>2
  <2>3. CASE ~ (m <= Len(net))
    <3> DEFINE k == m - Len(net)
    <3>1. k \in 1 .. c /\ net'[n] = packets[k] /\ m > Len(net)
      BY <1>2, <1>3, <2>1, <2>3
    <3>. HIDE DEF k
    <3>2. New(net'[n], k)
      BY <1>4, <3>1
    <3>. QED  BY <1>2, <2>1, <3>1, <3>2 DEF k
  <2>. QED  BY <2>2, <2>3
<1>7. /\ Len(net') = Len(net) + c - d /\ Len(net') <= Reach
      /\ DOMAIN net' = 1 .. Len(net')
  BY <1>2, <1>5
<1>. QED  BY <1>1, <1>6, <1>7, Zenon

\* The body of a data packet is the number of its payload.
LEMMA DataBody ==
  ASSUME NumberInv, ContentInv, NEW n \in DOMAIN net, net[n].kind = "data"
  PROVE  net[n].body \in 1 .. encodes
BY NetSeq DEF ContentInv, NetFits, Fits

\* encode keeps the payloads as old as their places say.
LEMMA EncodeBehind ==
  ASSUME NumberInv, ContentInv, Behind(net, encodes), Encode
  PROVE  Behind(net', encodes')
<1>1. encodes \in Nat /\ encodes' = encodes + 1 /\ P \in Nat
  BY EncodeShape, FecAssumption DEF Called, ContentInv
<1>2. Len(net) \in Nat
  BY LenProperties DEF NumberInv
<1>3. PICK c \in {1, 1 + P}, d \in Nat :
        /\ Len(net') = Len(net) + c - d /\ DOMAIN net' = 1 .. Len(net')
        /\ \A n \in DOMAIN net' : \E m \in 1 .. Len(net) + c :
             /\ m = n + d
             /\ \/ m <= Len(net) /\ net'[n] = net[m]
                \/ m > Len(net) /\ New(net'[n], m - Len(net))
  BY NetGrows
<1>4. ASSUME NEW n \in DOMAIN net', net'[n].kind = "data"
      PROVE  net'[n].body + (Len(net') - n) >= encodes'
  <2>1. PICK m \in 1 .. Len(net) + c :
          /\ m = n + d
          /\ \/ m <= Len(net) /\ net'[n] = net[m]
             \/ m > Len(net) /\ New(net'[n], m - Len(net))
    BY <1>3, <1>4
  <2>2. c \in Nat /\ c >= 1
    BY <1>1
  <2>3. Len(net') - n = Len(net) - m + c /\ m \in Nat /\ m <= Len(net) + c
    <3>1. n \in Nat /\ m = n + d /\ Len(net') = Len(net) + c - d
      BY <1>1, <1>2, <1>3, <2>1, <2>2
    <3>2. m \in Nat /\ m <= Len(net) + c
      BY <1>2, <2>2
    <3>. QED  BY <1>2, <2>2, <3>1, <3>2
  <2> DEFINE x == Len(net') - n
  <2>4. x = Len(net) - m + c /\ x \in Nat
    BY <1>2, <2>2, <2>3
  <2>. HIDE DEF x
  <2>5. CASE m <= Len(net) /\ net'[n] = net[m]
    <3>1. m \in DOMAIN net
      BY <1>2, <2>3, <2>5, LenProperties DEF NumberInv
    <3>2. net[m].body \in 1 .. encodes /\ net[m].body + (Len(net) - m) >= encodes
      BY <1>4, <2>5, <3>1, DataBody DEF Behind
    <3>3. net[m].body + x >= encodes + 1
      <4> DEFINE b == net[m].body
                 r == Len(net) - m
      <4>1. x = r + c /\ r \in Int /\ c \in Nat /\ c >= 1
        BY <1>2, <2>2, <2>3, <2>4
      <4>2. b \in Int /\ b + r >= encodes
        BY <1>1, <3>2
      <4>. HIDE DEF b, r
      <4>3. b + x >= encodes + 1
        BY <1>1, <4>1, <4>2
      <4>. QED  BY <4>3 DEF b
    <3>. QED  BY <1>1, <2>5, <3>3 DEF x
  <2>6. CASE m > Len(net) /\ New(net'[n], m - Len(net))
    <3>1. net'[n].body = encodes + 1
      BY <1>4, <2>6 DEF New
    <3>2. net'[n].body + x >= encodes + 1
      BY <1>1, <2>4, <3>1
    <3>. QED  BY <1>1, <3>2 DEF x
  <2>. QED  BY <2>1, <2>5, <2>6
<1>. QED  BY <1>4 DEF Behind

\* encode emits in the order of the numbers.
LEMMA EncodeSorted ==
  ASSUME NumberInv, ContentInv, Encode, InLap(encodes + 1),
         Sorted(net, HeadOf(encodes, Len(shards)))
  PROVE  Sorted(net', HeadOf(encodes', Len(shards')))
<1> DEFINE head == HeadOf(encodes, Len(shards))
           later == HeadOf(encodes', Len(shards'))
<1>1. encodes' = encodes + 1 /\ Len(net) \in Nat /\ DOMAIN net = 1 .. Len(net)
  BY EncodeShape, LenProperties DEF Called, NumberInv
<1>2. PICK c \in {1, 1 + P}, d \in Nat :
        /\ Grown(c)
        /\ Len(net') = Len(net) + c - d /\ DOMAIN net' = 1 .. Len(net')
        /\ \A n \in DOMAIN net' : \E m \in 1 .. Len(net) + c :
             /\ m = n + d
             /\ \/ m <= Len(net) /\ net'[n] = net[m]
                \/ m > Len(net) /\ New(net'[n], m - Len(net))
  BY NetGrows
<1>3. head \in Nat
  <2>1. PICK g \in Nat : /\ head = g * ShardSize + Len(shards)
                         /\ g * ShardSize \in Nat /\ Len(shards) \in Nat
    BY LapFacts
  <2>. QED  BY <2>1
<1>4. later >= head + c
  BY <1>1, <1>2, HeadLater
<1>5. c \in Nat
  BY FecAssumption
<1>6. later \in Int
  <2>1. encodes' \in Nat /\ D \in Nat \ {0} /\ ShardSize \in Nat
    BY <1>1, ShardSizeType DEF ContentInv
  <2>2. Len(shards') \in Nat
    <3>1. NumberInv'
      BY EncodeNumber
    <3>2. shards' \in Seq(Nat)
      BY <3>1 DEF NumberInv
    <3>. QED  BY <3>2, LenProperties
  <2>3. encodes' \div D \in Nat
    BY <2>1, Division
  <2>4. (encodes' \div D) * ShardSize \in Nat
    BY <2>1, <2>3, Products
  <2>. QED  BY <2>2, <2>4 DEF HeadOf
<1>7. \A m \in 1 .. Len(net) : net[m].seq \in Nat /\ net[m].seq < head
  BY <1>1, NetSeq DEF Sorted
<1>8. \A m, n \in 1 .. Len(net) : m < n => net[m].seq < net[n].seq
  BY <1>1 DEF Sorted
<1>9. ASSUME NEW n \in DOMAIN net'
      PROVE  \E m \in 1 .. Len(net) + c :
               /\ m = n + d
               /\ \/ m <= Len(net) /\ net'[n].seq = net[m].seq
                  \/ m > Len(net) /\ net'[n].seq = head + (m - Len(net) - 1)
  <2>1. PICK m \in 1 .. Len(net) + c :
             /\ m = n + d
             /\ \/ m <= Len(net) /\ net'[n] = net[m]
                \/ m > Len(net) /\ New(net'[n], m - Len(net))
    BY <1>2, <1>9
  <2>. QED  BY <2>1 DEF New
<1>. HIDE DEF head, later
<1>10. ASSUME NEW n \in DOMAIN net'
       PROVE  net'[n].seq < later
  <2>1. PICK m \in 1 .. Len(net) + c :
               /\ m = n + d
               /\ \/ m <= Len(net) /\ net'[n].seq = net[m].seq
                  \/ m > Len(net) /\ net'[n].seq = head + (m - Len(net) - 1)
    BY <1>9, <1>10
  <2>2. CASE m <= Len(net) /\ net'[n].seq = net[m].seq
    <3>1. net[m].seq \in Nat /\ net[m].seq < head
      BY <1>1, <1>7, <2>2
    <3>. QED  BY <1>3, <1>4, <1>5, <1>6, <2>2, <3>1
  <2>3. CASE m > Len(net) /\ net'[n].seq = head + (m - Len(net) - 1)
    BY <1>1, <1>3, <1>4, <1>5, <1>6, <2>1, <2>3
  <2>. QED  BY <2>1, <2>2, <2>3
<1>11. ASSUME NEW a \in DOMAIN net', NEW b \in DOMAIN net', a < b
       PROVE  net'[a].seq < net'[b].seq
  <2>1. PICK m \in 1 .. Len(net) + c :
               /\ m = a + d
               /\ \/ m <= Len(net) /\ net'[a].seq = net[m].seq
                  \/ m > Len(net) /\ net'[a].seq = head + (m - Len(net) - 1)
    BY <1>9, <1>11
  <2>2. PICK n \in 1 .. Len(net) + c :
               /\ n = b + d
               /\ \/ n <= Len(net) /\ net'[b].seq = net[n].seq
                  \/ n > Len(net) /\ net'[b].seq = head + (n - Len(net) - 1)
    BY <1>9, <1>11
  <2>3. m < n /\ m \in Nat /\ n \in Nat
    <3>1. a \in Nat /\ b \in Nat
      BY <1>1, <1>2, <1>5, <1>11
    <3>2. m = a + d /\ n = b + d /\ a < b
      BY <1>11, <2>1, <2>2
    <3>. QED  BY <3>1, <3>2
  <2>4. CASE n <= Len(net)
    BY <1>1, <1>8, <2>1, <2>2, <2>3, <2>4
  <2>5. CASE m <= Len(net) /\ n > Len(net)
    <3>1. net[m].seq \in Nat /\ net[m].seq < head
      BY <1>1, <1>7, <2>1, <2>5
    <3>2. net'[b].seq = head + (n - Len(net) - 1) /\ n - Len(net) - 1 \in Nat
      BY <1>1, <2>2, <2>3, <2>5
    <3>. QED  BY <1>1, <1>3, <2>1, <2>5, <3>1, <3>2
  <2>6. CASE m > Len(net) /\ n > Len(net)
    BY <1>1, <1>3, <2>1, <2>2, <2>3, <2>6
  <2>. QED  BY <1>1, <2>3, <2>4, <2>5, <2>6
<1>. QED  BY <1>10, <1>11 DEF Sorted, later

\* An empty set has no shard present.
LEMMA EmptyPresent ==
  /\ Present(EmptySet) = {} /\ Cardinality({}) = 0
BY FS_EmptySet DEF Present, EmptySet

\* A packet of the network with its number: the group and the place.
LEMMA FirstOfGroup ==
  ASSUME NEW h \in Nat
  PROVE  /\ h * ShardSize \in Nat
         /\ Group(h * ShardSize) = h /\ Index(h * ShardSize) = 0
<1>1. h * ShardSize \in Nat /\ h * ShardSize + 0 = h * ShardSize
      /\ 0 \in 0 .. ShardSize - 1
  BY ShardSizeType, Products
<1>2. Group(h * ShardSize + 0) = h /\ Index(h * ShardSize + 0) = 0
  BY <1>1, PlaceOf
<1>. QED  BY <1>1, <1>2

\* encode drops nothing of a group whose first packet stays.
LEMMA EncodeKeepsOpen ==
  ASSUME NumberInv, ContentInv, Encode,
         Sorted(net, HeadOf(encodes, Len(shards))),
         NEW c \in Nat, NEW d \in Nat,
         Len(net') = Len(net) + c - d, DOMAIN net' = 1 .. Len(net'),
         \A n \in DOMAIN net' : \E m \in 1 .. Len(net) + c :
             /\ m = n + d
             /\ \/ m <= Len(net) /\ net'[n] = net[m]
                \/ m > Len(net) /\ New(net'[n], m - Len(net)),
         NEW h \in Nat, NEW f \in 1 .. Len(net),
         net[f].seq = h * ShardSize, f > d
  PROVE  ArrivedOf(net', h) = ArrivedOf(net, h)
<1>1. Len(net) \in Nat /\ DOMAIN net = 1 .. Len(net) /\ h * ShardSize \in Nat
  BY LenProperties, FirstOfGroup DEF NumberInv
<1>2. ASSUME NEW i \in 0 .. ShardSize - 1, NEW n \in DOMAIN net',
             net'[n].arrived, net'[n].seq = h * ShardSize + i
      PROVE  \E m \in DOMAIN net : net[m].arrived /\ net[m].seq = h * ShardSize + i
  <2>1. PICK m \in 1 .. Len(net) + c :
             /\ m = n + d
             /\ \/ m <= Len(net) /\ net'[n] = net[m]
                \/ m > Len(net) /\ New(net'[n], m - Len(net))
    BY <1>2
  <2>2. ~ New(net'[n], m - Len(net))
    BY <1>2 DEF New
  <2>3. m \in DOMAIN net /\ net'[n] = net[m]
    BY <1>1, <2>1, <2>2
  <2>. QED  BY <1>2, <2>3
<1>3. ASSUME NEW i \in 0 .. ShardSize - 1, NEW m \in DOMAIN net,
             net[m].arrived, net[m].seq = h * ShardSize + i
      PROVE  \E n \in DOMAIN net' : net'[n].arrived /\ net'[n].seq = h * ShardSize + i
  <2>1. net[m].seq >= net[f].seq
    BY <1>1, <1>3
  <2>2. m >= f
    <3>. SUFFICES ASSUME m < f PROVE FALSE
      BY <1>1
    <3>1. net[m].seq < net[f].seq
      BY <1>1 DEF Sorted
    <3>2. net[m].seq \in Nat /\ net[f].seq \in Nat
      BY <1>1, NetSeq
    <3>. QED  BY <2>1, <3>1, <3>2
  <2> DEFINE b == m - d
  <2>3. b \in DOMAIN net' /\ b + d = m
    BY <1>1, <2>2
  <2>. HIDE DEF b
  <2>4. PICK k \in 1 .. Len(net) + c :
             /\ k = b + d
             /\ \/ k <= Len(net) /\ net'[b] = net[k]
                \/ k > Len(net) /\ New(net'[b], k - Len(net))
    BY <2>3
  <2>5. net'[b] = net[m]
    BY <1>1, <2>3, <2>4
  <2>. QED  BY <1>3, <2>3, <2>5
<1>. QED  BY <1>2, <1>3 DEF ArrivedOf

\* encode loses track of no group.
LEMMA EncodeTrack ==
  ASSUME NumberInv, ContentInv, OrderInv, Encode, InLap(encodes + 1), InLap(encodes)
  PROVE  Track(net', encodes', shard_set', recovered')
<1> DEFINE l == Len(shards)
           head == HeadOf(encodes, l)
<1>1. /\ encodes \in Nat /\ encodes' = encodes + 1
      /\ recovered' = {p \in recovered : p = 0 \/ p > encodes - Reach}
      /\ UNCHANGED shard_set
  BY EncodeShape DEF Called, ContentInv
<1>2. /\ Len(net) \in Nat /\ DOMAIN net = 1 .. Len(net) /\ net \in Seq(Sealed)
      /\ Reach \in Nat /\ D \in Nat \ {0} /\ P \in Nat
  BY LenProperties, FecAssumption DEF NumberInv
<1>3. /\ Behind(net, encodes) /\ Sorted(net, head)
      /\ Close(encodes, newest, DOMAIN shard_set)
      /\ Track(net, encodes, shard_set, recovered)
  BY DEF OrderInv, OneLap
<1>4. PICK c \in {1, 1 + P}, d \in Nat :
        /\ Len(net') = Len(net) + c - d /\ Len(net') <= Reach
        /\ DOMAIN net' = 1 .. Len(net')
        /\ \A n \in DOMAIN net' : \E m \in 1 .. Len(net) + c :
             /\ m = n + d
             /\ \/ m <= Len(net) /\ net'[n] = net[m]
                \/ m > Len(net) /\ New(net'[n], m - Len(net))
  BY NetGrows
<1>5. c \in Nat /\ c >= 1
  BY <1>2
<1>6. PICK g \in Nat :
           /\ g = encodes \div D /\ encodes = g * D + l
           /\ l \in Nat /\ l < D /\ g * D \in Nat /\ g * ShardSize \in Nat
           /\ head = g * ShardSize + l
  BY LapFacts
<1>. HIDE DEF l, head
<1>. SUFFICES ASSUME NEW h \in 0 .. Groups - 1, Whole(net', h)
              PROVE  Done(net', encodes', recovered', h) \/ Open(net', shard_set, h)
  BY <1>1 DEF Track
<1>7. h \in Nat /\ h * ShardSize \in Nat /\ h * D \in Nat /\ (h + 1) * D = h * D + D
      /\ Group(h * ShardSize) = h /\ Index(h * ShardSize) = 0
  BY <1>2, GroupsFacts, FirstOfGroup, CompareFactors
<1>8. PICK a \in DOMAIN net' : net'[a].seq = h * ShardSize
  BY DEF Whole
<1>9. PICK f \in 1 .. Len(net) + c :
             /\ f = a + d
             /\ \/ f <= Len(net) /\ net'[a] = net[f]
                \/ f > Len(net) /\ New(net'[a], f - Len(net))
  BY <1>4
<1>10. a \in Nat /\ a >= 1 /\ f \in Nat
  BY <1>2, <1>4, <1>5
<1>11. CASE f > Len(net) /\ New(net'[a], f - Len(net))
  <2> DEFINE k == f - Len(net)
  <2>1. k \in Nat /\ k >= 1
    BY <1>2, <1>10, <1>11
  <2>2. /\ Group(net'[a].seq) = g
        /\ Index(net'[a].seq) = l + (k - 1)
    BY <1>6, <1>11 DEF New, l
  <2>. HIDE DEF k
  <2>3. h = g /\ l = 0
    BY <1>6, <1>7, <1>8, <2>1, <2>2
  <2>4. SetIn(shard_set, h) = EmptySet
    <3>1. ASSUME h \in DOMAIN shard_set PROVE FALSE
      <4>1. h * D < encodes
        BY <1>3, <3>1 DEF Close
      <4> DEFINE x == g * D
      <4>2. encodes = x + l /\ h * D = x /\ x \in Nat
        BY <1>6, <2>3
      <4>. HIDE DEF x
      <4>. QED  BY <2>3, <4>1, <4>2
    <3>. QED  BY <3>1 DEF SetIn
  <2>5. ArrivedOf(net', h) = {}
    <3>1. ASSUME NEW i \in 0 .. ShardSize - 1, NEW n \in DOMAIN net',
                 net'[n].arrived, net'[n].seq = h * ShardSize + i
          PROVE  FALSE
      <4>1. PICK m \in 1 .. Len(net) + c :
             /\ m = n + d
             /\ \/ m <= Len(net) /\ net'[n] = net[m]
                \/ m > Len(net) /\ New(net'[n], m - Len(net))
        BY <1>4, <3>1
      <4>2. m \in DOMAIN net /\ net'[n] = net[m]
        BY <1>2, <3>1, <4>1 DEF New
      <4>3. net[m].seq < head /\ net[m].seq \in Nat
        BY <1>3, <4>2, NetSeq DEF Sorted
      <4>4. head = h * ShardSize
        BY <1>6, <1>7, <2>3
      <4>. QED  BY <1>7, <3>1, <4>2, <4>3, <4>4
    <3>. QED  BY <3>1 DEF ArrivedOf
  <2>. QED  BY <1>2, <2>4, <2>5, EmptyPresent DEF Open
<1>12. CASE f <= Len(net) /\ net'[a] = net[f]
  <2>1. f \in 1 .. Len(net) /\ f > d /\ net[f].seq = h * ShardSize
    BY <1>2, <1>8, <1>9, <1>10, <1>12
  <2>2. Done(net, encodes, recovered, h) \/ Open(net, shard_set, h)
    BY <1>2, <1>3, <2>1 DEF Track, Whole
  <2>3. CASE Open(net, shard_set, h)
    <3>1. ArrivedOf(net', h) = ArrivedOf(net, h)
      BY <1>3, <1>4, <1>5, <1>7, <2>1, EncodeKeepsOpen DEF head, l
    <3>. QED  BY <2>3, <3>1 DEF Open
  <2>4. CASE Done(net, encodes, recovered, h)
    <3>1. (h + 1) * D <= encodes'
      <4>1. (h + 1) * D <= encodes /\ (h + 1) * D \in Nat
        BY <1>2, <1>7, <2>4 DEF Done
      <4>. QED  BY <1>1, <4>1
    <3>2. ASSUME NEW n \in DOMAIN net', net'[n].kind = "data",
                 Group(net'[n].seq) = h
          PROVE  net'[n].arrived \/ net'[n].body \in recovered'
      <4>1. PICK m \in 1 .. Len(net) + c :
             /\ m = n + d
             /\ \/ m <= Len(net) /\ net'[n] = net[m]
                \/ m > Len(net) /\ New(net'[n], m - Len(net))
        BY <1>4, <3>2
      <4>2. CASE m <= Len(net) /\ net'[n] = net[m]
        <5>1. m \in DOMAIN net
          BY <1>2, <4>2
        <5>2. net[m].arrived \/ net[m].body \in recovered
          BY <2>4, <3>2, <4>2, <5>1 DEF Done
        <5>3. net[m].body \in 1 .. encodes /\ net[m].body + (Len(net) - m) >= encodes
          BY <1>3, <3>2, <4>2, <5>1, DataBody DEF Behind
        <5>4. Len(net) - m < Reach
          <6>1. n \in Nat /\ n >= 1 /\ m = n + d /\ m \in Nat
            BY <1>2, <1>4, <1>5, <3>2, <4>1, <5>1
          <6>2. Len(net) + c - d <= Reach
            BY <1>4
          <6>. QED  BY <1>2, <1>5, <6>1, <6>2
        <5>5. net[m].body > encodes - Reach
          BY <1>1, <1>2, <5>1, <5>3, <5>4
        <5>. QED  BY <1>1, <4>2, <5>2, <5>5
      <4>3. CASE New(net'[n], m - Len(net))
        <5>1. h = g
          BY <1>6, <3>2, <4>3 DEF New
        <5> DEFINE x == h * D
                   y == (h + 1) * D
        <5>2. y <= encodes
          BY <2>4 DEF Done
        <5>3. encodes = x + l /\ y = x + D /\ x \in Nat
          BY <1>6, <1>7, <5>1
        <5>. HIDE DEF x, y
        <5>4. l \in Nat /\ l < D /\ D \in Nat
          BY <1>2, <1>6
        <5>. QED  BY <5>2, <5>3, <5>4
      <4>. QED  BY <4>1, <4>2, <4>3
    <3>. QED  BY <3>1, <3>2 DEF Done
  <2>. QED  BY <2>2, <2>3, <2>4
<1>. QED  BY <1>9, <1>11, <1>12

\* encode keeps the order.
LEMMA EncodeOrder == NumberInv /\ ContentInv /\ OrderInv /\ Encode => OrderInv'
<1>. SUFFICES ASSUME NumberInv, ContentInv, OrderInv, Encode PROVE OrderInv'
  OBVIOUS
<1>1. /\ encodes \in Nat /\ encodes' = encodes + 1 /\ UNCHANGED <<shard_set, newest>>
  BY EncodeShape DEF Called, ContentInv
<1>2. Behind(net', encodes')
  BY EncodeBehind DEF OrderInv
<1>3. ASSUME InLap(encodes')
      PROVE  /\ Sorted(net', HeadOf(encodes', Len(shards')))
             /\ Close(encodes', newest', DOMAIN shard_set')
             /\ Track(net', encodes', shard_set', recovered')
  <2>1. InLap(encodes + 1) /\ InLap(encodes)
    <3>1. D * Groups \in Nat
      BY GroupsFacts, ShardSizeType, Products
    <3>. QED  BY <1>1, <1>3, <3>1 DEF InLap
  <2>2. Sorted(net', HeadOf(encodes', Len(shards')))
    BY <2>1, EncodeSorted DEF OrderInv, OneLap
  <2>3. Close(encodes', newest', DOMAIN shard_set')
    <3>1. Close(encodes, newest, DOMAIN shard_set)
      BY <2>1 DEF OrderInv, OneLap
    <3>2. newest \in Nat /\ (\A g \in DOMAIN shard_set : g \in Nat) /\ D \in Nat
      BY GroupsFacts, ShardSizeType DEF ContentInv, SetsFit
    <3>3. newest * D \in Nat /\ \A g \in DOMAIN shard_set : g * D \in Nat
      BY <3>2, Products
    <3>4. newest * D <= encodes + 1
      BY <1>1, <3>1, <3>3 DEF Close
    <3>5. \A g \in DOMAIN shard_set : g <= newest /\ g * D < encodes + 1
      BY <1>1, <3>1, <3>3 DEF Close
    <3>. QED  BY <1>1, <3>4, <3>5 DEF Close
  <2>. QED  BY <2>1, <2>2, <2>3, EncodeTrack
<1>. QED
  BY <1>2, <1>3 DEF OrderInv, OneLap

-----------------------------------------------------------------------------
\* In the first lap every packet is of a group that encode has begun.
LEMMA PacketInLap ==
  ASSUME NumberInv, ContentInv, Sorted(net, HeadOf(encodes, Len(shards))),
         NEW n \in DOMAIN net
  PROVE  /\ Group(net[n].seq) * D < encodes
         /\ \/ (Group(net[n].seq) + 1) * D <= encodes
            \/ /\ Group(net[n].seq) * ShardSize + Len(shards)
                    = HeadOf(encodes, Len(shards))
               /\ Len(shards) < D
<1> DEFINE l == Len(shards)
           h == Group(net[n].seq)
           i == Index(net[n].seq)
<1>1. PICK g \in Nat :
           /\ encodes = g * D + l /\ encodes \in Nat
           /\ l \in Nat /\ l < D /\ g * D \in Nat /\ g * ShardSize \in Nat
           /\ HeadOf(encodes, l) = g * ShardSize + l
  BY LapFacts
<1>2. /\ net[n].seq < g * ShardSize + l
      /\ h \in Nat /\ i \in Nat /\ net[n].seq = h * ShardSize + i
  <2>1. net[n].seq < HeadOf(encodes, l)
    BY DEF Sorted
  <2>2. net[n].seq \in Nat
    BY NetSeq
  <2>3. h \in Nat /\ i \in 0 .. ShardSize - 1 /\ net[n].seq = h * ShardSize + i
    BY <2>2, NumberAt
  <2>4. i \in Nat
    BY <2>3
  <2>. QED  BY <1>1, <2>1, <2>3, <2>4
<1>3. /\ ShardSize \in Nat \ {0} /\ D \in Nat \ {0} /\ D < ShardSize
      /\ h * ShardSize \in Nat /\ h * D \in Nat /\ (h + 1) * D = h * D + D
      /\ (g + 1) * ShardSize = g * ShardSize + ShardSize
  BY <1>2, ShardSizeType, CompareFactors
<1>. HIDE DEF l, h, i
<1>4. h <= g
  <2>1. h * ShardSize < (g + 1) * ShardSize
    <3> DEFINE s == g * ShardSize
               t == h * ShardSize
    <3>1. s \in Nat /\ t \in Nat /\ t + i < s + l /\ (g + 1) * ShardSize = s + ShardSize
      BY <1>1, <1>2, <1>3
    <3>. HIDE DEF s, t
    <3>2. t < s + ShardSize
      BY <1>1, <1>2, <1>3, <3>1
    <3>. QED  BY <3>1, <3>2 DEF t
  <2>2. h < g + 1
    BY <1>2, <1>3, <2>1, CompareFactors
  <2>. QED  BY <1>2, <2>2
<1>5. CASE h < g
  <2>1. (h + 1) * D <= g * D
    BY <1>2, <1>3, <1>5, CompareFactors
  <2> DEFINE x == h * D
             y == g * D
  <2>2. x + D <= y /\ x \in Nat /\ y \in Nat /\ encodes = y + l /\ (h + 1) * D = x + D
    BY <1>1, <1>3, <2>1
  <2>3. l \in Nat /\ D \in Nat \ {0}
    BY <1>1, <1>3
  <2>. HIDE DEF x, y
  <2>4. x < encodes /\ x + D <= encodes
    BY <2>2, <2>3
  <2>5. h * D < encodes /\ (h + 1) * D <= encodes
    BY <2>2, <2>4 DEF x
  <2>. QED  BY <2>5 DEF h
<1>6. CASE h = g
  <2> DEFINE s == g * ShardSize
             y == g * D
  <2>1. s \in Nat /\ y \in Nat /\ s + i < s + l /\ encodes = y + l /\ h * D = y
    BY <1>1, <1>2, <1>6
  <2>. HIDE DEF s, y
  <2>2. i < l /\ y < encodes
    BY <1>1, <1>2, <2>1
  <2>3. h * D < encodes
    BY <2>1, <2>2
  <2>4. h * ShardSize + l = HeadOf(encodes, l) /\ l < D
    BY <1>1, <1>6
  <2>. QED  BY <2>3, <2>4 DEF h, l
<1>. QED  BY <1>1, <1>2, <1>4, <1>5, <1>6

(***************************************************************************)
(* A group whose first packet is under way is not so old that the decoder  *)
(* discards it, if no packet is later than the payloads of the groups that *)
(* the decoder holds: MAX_SHARD_SETS * shard_size and the newest.          *)
(***************************************************************************)
NotTooLate == Reach < D * (MaxShardSets * ShardSize + 1)

LEMMA WholeIsNear ==
  ASSUME NumberInv, ContentInv, Behind(net, encodes), OneLap, NotTooLate,
         NEW h \in 0 .. Groups - 1, Whole(net, h),
         NEW latest \in 0 .. Groups - 1, h <= latest, latest * D <= encodes
  PROVE  Near(latest, h)
<1> DEFINE B == MaxShardSets * ShardSize
<1>1. PICK f \in DOMAIN net : net[f].seq = h * ShardSize
  BY DEF Whole
<1>2. h \in Nat /\ latest \in Nat /\ D \in Nat \ {0} /\ B \in Nat /\ Reach \in Nat
  BY GroupsFacts, FecAssumption, ShardSizeType, Products
<1>3. Group(net[f].seq) = h /\ Index(net[f].seq) = 0
  BY <1>1, <1>2, FirstOfGroup
<1>4. net[f].kind = "data"
  BY <1>2, <1>3, NetSeq
<1>5. net[f].body = h * D + 0 + 1
  BY <1>2, <1>3 DEF ContentInv, NetFits, Fits, OneLap
<1>6. f \in Nat /\ f >= 1 /\ Len(net) \in Nat /\ Len(net) <= Reach /\ encodes \in Nat
  BY NetSeq DEF ContentInv
<1>7. net[f].body + (Len(net) - f) >= encodes
  BY <1>4 DEF Behind
<1> DEFINE x == h * D
           y == (B + 1) * D
           z == latest * D
<1>8. /\ x \in Nat /\ y \in Nat /\ z \in Nat /\ (h + (B + 1)) * D = x + y
      /\ Reach < y /\ z <= encodes /\ net[f].body = x + 1
  BY <1>2, <1>5, Products DEF NotTooLate
<1>. HIDE DEF B, x, y, z
<1>9. z < x + y
  <2>1. x \in Nat /\ y \in Nat /\ z \in Nat /\ Reach < y /\ z <= encodes
    BY <1>8
  <2>2. x + 1 + (Len(net) - f) >= encodes
    BY <1>7, <1>8
  <2>3. Len(net) - f <= Reach - 1
    BY <1>2, <1>6
  <2>. QED  BY <1>2, <1>6, <2>1, <2>2, <2>3
<1>10. latest * D < (h + (B + 1)) * D /\ h + (B + 1) \in Nat
  BY <1>2, <1>8, <1>9 DEF z
<1>11. latest < h + (B + 1)
  BY <1>2, <1>10, CompareFactors
<1>12. (latest + Word - h) % Word = latest - h
  BY Distance
<1>13. latest - h <= B
  BY <1>2, <1>11
<1>. QED  BY <1>12, <1>13 DEF Near, B

\* What has arrived of a group after one more packet arrived.
LEMMA ArrivedLater ==
  ASSUME NumberInv, NEW n \in DOMAIN net, Arrive(n), NEW h \in Nat
  PROVE  ArrivedOf(net', h)
           = IF h = Group(net[n].seq) THEN ArrivedOf(net, h) \cup {Index(net[n].seq)}
             ELSE ArrivedOf(net, h)
<1> DEFINE g == Group(net[n].seq)
           j == Index(net[n].seq)
<1>1. /\ j \in 0 .. ShardSize - 1 /\ net[n].seq = g * ShardSize + j
      /\ \A i \in 0 .. ShardSize - 1 :
           net[n].seq = h * ShardSize + i => h = g /\ i = j
  BY NetSeq, NumberAt, PlaceOf
<1>2. /\ DOMAIN net' = DOMAIN net
      /\ \A m \in DOMAIN net :
           /\ net'[m].seq = net[m].seq
           /\ net'[m].arrived = (m = n \/ net[m].arrived)
  BY ArriveFacts
<1>3. ArrivedOf(net', h)
        = {i \in 0 .. ShardSize - 1 :
             \E m \in DOMAIN net : (m = n \/ net[m].arrived)
                                     /\ net[m].seq = h * ShardSize + i}
  BY <1>2 DEF ArrivedOf
<1>4. ArrivedOf(net', h)
        = ArrivedOf(net, h)
            \cup {i \in 0 .. ShardSize - 1 : net[n].seq = h * ShardSize + i}
  BY <1>3 DEF ArrivedOf
<1>5. {i \in 0 .. ShardSize - 1 : net[n].seq = h * ShardSize + i}
        = IF h = g THEN {j} ELSE {}
  BY <1>1
<1>. QED  BY <1>4, <1>5

\* A group that is done stays so.
LEMMA DoneLater ==
  ASSUME NumberInv, NEW n \in DOMAIN net, Arrive(n), NEW e, NEW h,
         NEW given, NEW more, given \subseteq more, Done(net, e, given, h)
  PROVE  Done(net', e, more, h)
<1>1. \A m \in DOMAIN net' :
        /\ net'[m].seq = net[m].seq /\ net'[m].kind = net[m].kind
        /\ net'[m].body = net[m].body /\ m \in DOMAIN net
        /\ net[m].arrived => net'[m].arrived
  BY ArriveFacts
<1>2. ASSUME NEW m \in DOMAIN net', net'[m].kind = "data", Group(net'[m].seq) = h
      PROVE  net'[m].arrived \/ net'[m].body \in more
  <2>1. net[m].kind = "data" /\ Group(net[m].seq) = h /\ m \in DOMAIN net
    BY <1>1, <1>2
  <2>2. net[m].arrived \/ net[m].body \in given
    BY <2>1 DEF Done
  <2>. QED  BY <1>1, <2>2
<1>. QED  BY <1>2 DEF Done

\* decode comes to know no group before the encoder has begun it.
LEMMA DecodeClose ==
  ASSUME NumberInv, ContentInv, Sorted(net, HeadOf(encodes, Len(shards))),
         Close(encodes, newest, DOMAIN shard_set),
         NEW n \in DOMAIN net, Decode(n)
  PROVE  Close(encodes, newest', DOMAIN shard_set')
<1> DEFINE g == Group(net[n].seq)
<1>1. g * D < encodes /\ g * D \in Nat /\ g \in Nat /\ encodes \in Nat
  BY PacketInLap, WithFits, ShardSizeType, Products DEF ContentInv
<1>2. g \in 0 .. Groups - 1 /\ newest \in 0 .. Groups - 1 /\ newest \in Nat
  BY WithFits, GroupsFacts DEF ContentInv
<1>3. /\ newest * D <= encodes
      /\ \A h \in DOMAIN shard_set : h <= newest /\ h * D < encodes /\ h \in Nat
  BY GroupsFacts DEF Close, ContentInv, SetsFit
<1>4. Newer(g) = IF g > newest THEN g ELSE newest
  BY <1>2, NewerFacts
<1>5. CASE UNCHANGED decoderVars
  BY <1>5 DEF decoderVars
<1>6. ASSUME newest' = Newer(g),
             NEW sets \in {WithSet(g, With(net[n])), Without(g)},
             shard_set' = Kept(newest', sets)
      PROVE  Close(encodes, newest', DOMAIN shard_set')
  <2>1. DOMAIN sets \subseteq DOMAIN shard_set \cup {g}
    BY DEF WithSet, Without
  <2>2. DOMAIN shard_set' \subseteq DOMAIN shard_set \cup {g}
    BY <1>6, <2>1, KeptFacts
  <2>. HIDE DEF g
  <2>3. newest' * D <= encodes
    BY <1>1, <1>3, <1>4, <1>6
  <2>4. ASSUME NEW h \in DOMAIN shard_set'
        PROVE  h <= newest' /\ h * D < encodes
    <3>1. CASE h = g
      BY <1>1, <1>2, <1>4, <1>6, <3>1
    <3>2. CASE h \in DOMAIN shard_set
      BY <1>1, <1>2, <1>3, <1>4, <1>6, <3>2
    <3>. QED  BY <2>2, <3>1, <3>2
  <2>. QED  BY <2>3, <2>4 DEF Close
<1>. QED
  BY <1>5, <1>6 DEF Decode, DecodeDuplicate, DecodeStore, DecodeComplete

\* What the decoder has of another group than the packet's stays if it is near.
LEMMA KeepsOthers ==
  ASSUME NEW g, NEW h, h # g, NEW set, NEW latest,
         h \in DOMAIN shard_set => Near(latest, h),
         NEW sets \in {WithSet(g, set), Without(g)}
  PROVE  SetIn(Kept(latest, sets), h) = SetIn(shard_set, h)
<1>1. /\ h \in DOMAIN sets <=> h \in DOMAIN shard_set
      /\ h \in DOMAIN sets => sets[h] = shard_set[h]
  BY DEF WithSet, Without
<1> DEFINE kept == Kept(latest, sets)
<1>2. /\ DOMAIN kept = {k \in DOMAIN sets : Near(latest, k)}
      /\ \A k \in DOMAIN kept : kept[k] = sets[k]
  BY KeptFacts
<1>. HIDE DEF kept
<1>3. h \in DOMAIN kept <=> h \in DOMAIN shard_set
  BY <1>1, <1>2
<1>4. SetIn(kept, h) = SetIn(shard_set, h)
  BY <1>1, <1>2, <1>3 DEF SetIn
<1>. QED  BY <1>4 DEF kept

(***************************************************************************)
(* When decode has enough of a group of the first lap, the group has ended *)
(* and every payload of it that did not arrive is given back.              *)
(***************************************************************************)
LEMMA CompleteDone ==
  ASSUME NumberInv, ContentInv, OneLap, Sorted(net, HeadOf(encodes, Len(shards))),
         NEW n \in DOMAIN net, Arrive(n),
         NEW g \in Nat, g = Group(net[n].seq),
         Present(With(net[n])) = ArrivedOf(net', g),
         Cardinality(Present(With(net[n]))) >= D,
         NEW given, Reconstruct(With(net[n])) \subseteq given
  PROVE  Done(net', encodes, given, g)
<1> DEFINE l == Len(shards)
           set == With(net[n])
<1>1. \A m \in DOMAIN net' :
        /\ net'[m].seq = net[m].seq /\ net'[m].kind = net[m].kind
        /\ net'[m].body = net[m].body /\ m \in DOMAIN net
  BY ArriveFacts
<1>2. g * ShardSize \in Nat /\ l \in Nat /\ D \in Nat
  BY ShardSizeType, Products, LenProperties DEF NumberInv
<1>3. FitSet(encodes, g, set) /\ encodes \in Nat
  BY WithFits DEF ContentInv
<1>4. (g + 1) * D <= encodes
  <2>. SUFFICES ASSUME g * ShardSize + l = HeadOf(encodes, l), l < D
                PROVE  FALSE
    BY PacketInLap
  <2>1. ArrivedOf(net', g) \subseteq 0 .. l - 1
    <3>1. ASSUME NEW i \in 0 .. ShardSize - 1, NEW m \in DOMAIN net',
                 net'[m].seq = g * ShardSize + i
          PROVE  i \in 0 .. l - 1
      <4>1. g * ShardSize + i < g * ShardSize + l
        BY <1>1, <3>1 DEF Sorted
      <4>. QED  BY <1>2, <4>1
    <3>. QED  BY <3>1 DEF ArrivedOf
  <2>2. IsFiniteSet(0 .. l - 1) /\ Cardinality(0 .. l - 1) = l
    <3>1. CASE l = 0
      <4>1. 0 .. l - 1 = {}
        BY <3>1
      <4>. QED  BY <3>1, <4>1, FS_EmptySet
    <3>2. CASE l # 0
      <4>1. 0 \in Int /\ l - 1 \in Int /\ ~ (0 > l - 1) /\ l - 1 - 0 + 1 = l
        BY <1>2, <3>2
      <4>. QED  BY <4>1, FS_Interval
    <3>. QED  BY <3>1, <3>2
  <2>3. Cardinality(ArrivedOf(net', g)) <= l
    BY <2>1, <2>2, FS_Subset
  <2>4. Cardinality(ArrivedOf(net', g)) \in Nat
    BY <2>1, <2>2, FS_Subset, FS_CardinalityType
  <2>. QED  BY <1>2, <2>3, <2>4
<1>5. ASSUME NEW m \in DOMAIN net', net'[m].kind = "data", Group(net'[m].seq) = g
      PROVE  net'[m].arrived \/ net'[m].body \in given
  <2> DEFINE i == Index(net[m].seq)
  <2>1. m \in DOMAIN net /\ net[m].seq \in Nat /\ i < D /\ Group(net[m].seq) = g
    BY <1>1, <1>5, NetSeq
  <2>2. i \in 0 .. ShardSize - 1 /\ i \in 0 .. D - 1 /\ net[m].seq = g * ShardSize + i
    <3>1. i \in 0 .. ShardSize - 1 /\ net[m].seq = g * ShardSize + i
      BY <2>1, NumberAt
    <3>. QED  BY <1>2, <2>1, <3>1
  <2>3. CASE i \in Present(set)
    <3>1. PICK k \in DOMAIN net' : net'[k].arrived /\ net'[k].seq = g * ShardSize + i
      BY <2>3 DEF ArrivedOf
    <3>2. net[k].seq = net[m].seq /\ k \in DOMAIN net
      BY <1>1, <2>2, <3>1
    <3>3. k = m
      <4>1. k \in Nat /\ m \in Nat /\ net[k].seq \in Nat
        BY <2>1, <3>2, NetSeq
      <4>2. ~ (k < m) /\ ~ (m < k)
        BY <2>1, <3>2, <4>1 DEF Sorted
      <4>. QED  BY <4>1, <4>2
    <3>. QED  BY <3>1, <3>3
  <2>4. CASE i \notin Present(set)
    <3>1. g * D + i + 1 \in Reconstruct(set)
      BY <1>3, <2>2, <2>4, ReconstructFacts DEF OneLap
    <3>2. Fits(encodes, g, i, net[m].body)
      BY <2>1 DEF ContentInv, NetFits
    <3>3. net[m].body = g * D + i + 1
      BY <2>1, <3>2 DEF Fits, OneLap
    <3>. QED  BY <1>1, <1>5, <3>1, <3>3
  <2>. QED  BY <2>3, <2>4
<1>. QED  BY <1>4, <1>5 DEF Done

\* decode loses track of no group.
LEMMA DecodeTrack ==
  ASSUME NumberInv, ContentInv, OrderInv, OneLap, NotTooLate,
         NEW n \in DOMAIN net, Decode(n)
  PROVE  Track(net', encodes, shard_set', recovered')
<1>1. Arrive(n) /\ recovered \subseteq recovered'
  BY DEF Decode, DecodeDuplicate, DecodeStore, DecodeComplete, decoderVars
<1>2. /\ Behind(net, encodes) /\ Sorted(net, HeadOf(encodes, Len(shards)))
      /\ Close(encodes, newest, DOMAIN shard_set)
      /\ Track(net, encodes, shard_set, recovered)
  BY DEF OrderInv
<1>. SUFFICES ASSUME NEW h \in 0 .. Groups - 1, Whole(net', h)
              PROVE  Done(net', encodes, recovered', h) \/ Open(net', shard_set', h)
  BY DEF Track
<1>3. Whole(net, h) /\ h \in Nat
  BY <1>1, ArriveFacts, GroupsFacts DEF Whole
<1>4. Done(net, encodes, recovered, h) \/ Open(net, shard_set, h)
  BY <1>2, <1>3 DEF Track
<1>5. CASE Done(net, encodes, recovered, h)
  BY <1>1, <1>5, DoneLater
<1>6. CASE Open(net, shard_set, h)
  <2> DEFINE pkt == net[n]
             j == Index(pkt.seq)
  <2>1. PICK g \in 0 .. Groups - 1 : g = Group(pkt.seq)
    BY WithFits
  <2>2. newest \in 0 .. Groups - 1 /\ newest \in Nat /\ g \in Nat
    BY GroupsFacts DEF ContentInv
  <2>3. /\ Newer(g) = IF g > newest THEN g ELSE newest
        /\ Newer(g) \in 0 .. Groups - 1
    BY <2>2, NewerFacts
  <2>4. Present(With(pkt)) = Present(SetIn(shard_set, g)) \cup {j}
    BY <2>1, WithFits DEF SetIn, ShardsOf
  <2>5. ArrivedOf(net', h) = IF h = g THEN ArrivedOf(net, h) \cup {j}
                             ELSE ArrivedOf(net, h)
    BY <1>1, <1>3, <2>1, ArrivedLater
  <2>6. Close(encodes, newest', DOMAIN shard_set')
    BY <1>2, DecodeClose
  <2>7. ASSUME newest' = Newer(g), h <= newest'
        PROVE  Near(newest', h)
    <3>1. newest' * D <= encodes /\ newest' \in 0 .. Groups - 1
      BY <2>3, <2>6, <2>7 DEF Close
    <3>. QED  BY <1>2, <1>3, <2>7, <3>1, WholeIsNear
  <2>. HIDE DEF pkt, j
  <2>8. CASE DecodeDuplicate(n)
    <3>1. UNCHANGED shard_set /\ j \in Present(SetIn(shard_set, g))
      BY <2>1, <2>8 DEF DecodeDuplicate, decoderVars, SetIn, ShardsOf, pkt, j
    <3>2. ArrivedOf(net', h) = ArrivedOf(net, h)
      BY <1>6, <2>5, <3>1 DEF Open
    <3>. QED  BY <1>6, <3>1, <3>2 DEF Open
  <2>9. CASE h # g
    <3>1. ASSUME newest' = Newer(g),
                 NEW sets \in {WithSet(g, With(pkt)), Without(g)},
                 shard_set' = Kept(newest', sets)
          PROVE  SetIn(shard_set', h) = SetIn(shard_set, h)
      <4>1. ASSUME h \in DOMAIN shard_set PROVE Near(newest', h)
        <5>1. h <= newest
          BY <1>2, <4>1 DEF Close
        <5>2. h <= newest'
          BY <1>3, <2>2, <2>3, <3>1, <5>1
        <5>. QED  BY <2>7, <3>1, <5>2
      <4>. QED  BY <2>9, <3>1, <4>1, KeepsOthers
    <3>2. \/ UNCHANGED shard_set
          \/ /\ newest' = Newer(g)
             /\ \E sets \in {WithSet(g, With(pkt)), Without(g)} :
                  shard_set' = Kept(newest', sets)
      BY <2>1 DEF Decode, DecodeDuplicate, DecodeStore, DecodeComplete,
                  decoderVars, pkt
    <3>3. SetIn(shard_set', h) = SetIn(shard_set, h)
      BY <3>1, <3>2
    <3>. QED  BY <1>6, <2>5, <2>9, <3>3 DEF Open
  <2>10. CASE h = g /\ DecodeStore(n)
    <3>1. /\ newest' = Newer(g)
          /\ shard_set' = Kept(newest', WithSet(g, With(pkt)))
          /\ Cardinality(Present(With(pkt))) < D
      BY <2>1, <2>10 DEF DecodeStore, pkt
    <3>2. Near(newest', g)
      <4>1. h <= newest'
        BY <1>3, <2>2, <2>3, <2>10, <3>1
      <4>. QED  BY <2>7, <2>10, <3>1, <4>1
    <3>3. SetIn(shard_set', g) = With(pkt)
      <4> DEFINE sets == WithSet(g, With(pkt))
      <4>1. g \in DOMAIN sets /\ sets[g] = With(pkt)
        BY DEF WithSet
      <4>2. shard_set' = Kept(newest', sets)
        BY <3>1
      <4>. HIDE DEF sets
      <4>3. g \in DOMAIN shard_set' /\ shard_set'[g] = sets[g]
        <5>1. /\ DOMAIN Kept(newest', sets) = {k \in DOMAIN sets : Near(newest', k)}
              /\ \A k \in DOMAIN Kept(newest', sets) : Kept(newest', sets)[k] = sets[k]
          BY KeptFacts
        <5>. QED  BY <3>2, <4>1, <4>2, <5>1
      <4>. QED  BY <4>1, <4>3 DEF SetIn
    <3>4. Present(With(pkt)) = ArrivedOf(net', h)
      BY <1>6, <2>4, <2>5, <2>10 DEF Open
    <3>. QED  BY <2>10, <3>1, <3>3, <3>4 DEF Open
  <2>11. CASE h = g /\ DecodeComplete(n)
    <3>1. /\ Cardinality(Present(With(pkt))) >= D
          /\ Reconstruct(With(pkt)) \subseteq recovered'
      BY <2>11 DEF DecodeComplete, pkt
    <3>2. Present(With(pkt)) = ArrivedOf(net', g)
      BY <1>6, <2>4, <2>5, <2>11 DEF Open
    <3>3. Done(net', encodes, recovered', g)
      BY <1>1, <1>2, <2>1, <2>2, <3>1, <3>2, CompleteDone DEF pkt
    <3>. QED  BY <2>11, <3>3
  <2>. QED  BY <2>8, <2>9, <2>10, <2>11 DEF Decode
<1>. QED  BY <1>4, <1>5, <1>6

\* decode keeps the order.
LEMMA DecodeOrder ==
  ASSUME NumberInv, ContentInv, OrderInv, NotTooLate, NEW n \in DOMAIN net, Decode(n)
  PROVE  OrderInv'
<1>1. Arrive(n) /\ UNCHANGED <<shards, encodes>>
  BY DEF Decode, DecodeDuplicate, DecodeStore, DecodeComplete, Arrive, encoderVars
<1>2. /\ DOMAIN net' = DOMAIN net /\ Len(net') = Len(net)
      /\ \A m \in DOMAIN net :
           /\ net'[m].seq = net[m].seq /\ net'[m].kind = net[m].kind
           /\ net'[m].body = net[m].body
  BY <1>1, ArriveFacts
<1>3. Behind(net', encodes)
  BY <1>2 DEF OrderInv, Behind
<1>4. ASSUME OneLap
      PROVE  /\ Sorted(net', HeadOf(encodes, Len(shards)))
             /\ Close(encodes, newest', DOMAIN shard_set')
             /\ Track(net', encodes, shard_set', recovered')
  <2>1. Sorted(net', HeadOf(encodes, Len(shards)))
    BY <1>2, <1>4 DEF OrderInv, Sorted
  <2>2. Close(encodes, newest', DOMAIN shard_set')
    BY <1>4, DecodeClose DEF OrderInv
  <2>. QED  BY <1>4, <2>1, <2>2, DecodeTrack
<1>. QED
  BY <1>1, <1>3, <1>4 DEF OrderInv, OneLap

\* The order holds for ever, if no packet is too late.
LEMMA OrderInvariant ==
  ASSUME NotTooLate
  PROVE  Spec => [](NumberInv /\ ContentInv /\ OrderInv)
<1>1. Init => NumberInv /\ ContentInv /\ OrderInv
  <2>. SUFFICES ASSUME Init PROVE OrderInv
    BY InitNumber, InitContent
  <2>1. net = <<>> /\ encodes = 0 /\ newest = 0 /\ shard_set = <<>>
    BY DEF Init
  <2>2. Close(encodes, newest, DOMAIN shard_set)
    BY <2>1, ShardSizeType DEF Close
  <2>3. /\ Behind(net, encodes) /\ Sorted(net, HeadOf(encodes, Len(shards)))
        /\ Track(net, encodes, shard_set, recovered)
    BY <2>1 DEF Behind, Sorted, Track, Whole
  <2>. QED  BY <2>2, <2>3 DEF OrderInv
<1>2. NumberInv /\ ContentInv /\ OrderInv /\ [Next]_vars
        => (NumberInv /\ ContentInv /\ OrderInv)'
  <2>. SUFFICES ASSUME NumberInv, ContentInv, OrderInv, [Next]_vars
                PROVE  NumberInv' /\ ContentInv' /\ OrderInv'
    OBVIOUS
  <2>1. CASE Encode
    BY <2>1, EncodeNumber, EncodeContent, EncodeOrder
  <2>2. CASE \E n \in DOMAIN net : Decode(n)
    BY <2>2, DecodeNumber, DecodeContent, DecodeOrder
  <2>3. CASE UNCHANGED vars
    <3>1. NumberInv'
      BY <2>3 DEF vars, encoderVars, NumberInv, NextFollowsShards, Paws,
                  ShardSize, Sealed, Index
    <3>2. ContentInv'
      BY <2>3 DEF vars, encoderVars, decoderVars, ContentInv, LapInv, NetFits,
                  SetsFit, RecoveredFit, OneLap, InLap, Groups, Paws, ShardSize,
                  Group, Index
    <3>3. OrderInv'
      BY <2>3 DEF vars, encoderVars, decoderVars, OrderInv, OneLap
    <3>. QED  BY <3>1, <3>2, <3>3
  <2>. QED  BY <2>1, <2>2, <2>3 DEF Next
<1>. QED  BY <1>1, <1>2, PTL DEF Spec

\* All the members of a group are there only if its first packet is.
LEMMA AllMembers ==
  ASSUME NumberInv, Sorted(net, HeadOf(encodes, Len(shards))),
         NEW n \in DOMAIN net, Cardinality(Members(n)) = ShardSize
  PROVE  /\ Whole(net, Group(net[n].seq))
         /\ Cardinality(Received(n)) <= Cardinality(ArrivedOf(net, Group(net[n].seq)))
         /\ Cardinality(ArrivedOf(net, Group(net[n].seq))) \in Nat
         /\ Cardinality(Received(n)) \in Nat
<1> DEFINE g == Group(net[n].seq)
           f == [m \in Members(n) |-> Index(net[m].seq)]
           r == [m \in Received(n) |-> Index(net[m].seq)]
<1>1. \A m \in Members(n) : m \in DOMAIN net /\ Group(net[m].seq) = g
  BY DEF Members
<1>2. \A m \in Members(n) :
        Index(net[m].seq) \in 0 .. ShardSize - 1
          /\ net[m].seq = g * ShardSize + Index(net[m].seq)
  BY <1>1, NetSeq, NumberAt
<1>3. \A m, k \in Members(n) : Index(net[m].seq) = Index(net[k].seq) => m = k
  <2>. SUFFICES ASSUME NEW m \in Members(n), NEW k \in Members(n),
                       Index(net[m].seq) = Index(net[k].seq)
                PROVE  m = k
    OBVIOUS
  <2>1. net[m].seq = net[k].seq
    BY <1>2
  <2>2. m \in Nat /\ k \in Nat /\ net[m].seq \in Nat /\ net[k].seq \in Nat
    BY <1>1, NetSeq
  <2>3. ~ (m < k) /\ ~ (k < m)
    BY <1>1, <2>1, <2>2 DEF Sorted
  <2>. QED  BY <2>2, <2>3
<1>4. /\ IsFiniteSet(0 .. ShardSize - 1)
      /\ Cardinality(0 .. ShardSize - 1) = ShardSize
  <2>1. /\ 0 \in Int /\ ShardSize - 1 \in Int /\ ~ (0 > ShardSize - 1)
        /\ ShardSize - 1 - 0 + 1 = ShardSize
    BY ShardSizeType
  <2>. QED  BY <2>1, FS_Interval
<1>5. f \in Injection(Members(n), 0 .. ShardSize - 1)
  <2>1. f \in [Members(n) -> 0 .. ShardSize - 1]
    BY <1>2
  <2>2. \A m, k \in Members(n) : f[m] = f[k] => m = k
    BY <1>3
  <2>. HIDE DEF f
  <2>. QED  BY <2>1, <2>2, Fun_IsInj
<1>6. Whole(net, g)
  <2>1. f \in Surjection(Members(n), 0 .. ShardSize - 1)
    <3>. HIDE DEF f
    <3>. QED  BY <1>4, <1>5, FS_Injection
  <2>2. 0 \in 0 .. ShardSize - 1
    BY ShardSizeType
  <2>3. PICK m \in Members(n) : f[m] = 0
    <3>. HIDE DEF f
    <3>1. \A i \in 0 .. ShardSize - 1 : \E m \in Members(n) : f[m] = i
      BY <2>1 DEF Surjection
    <3>. QED  BY <2>2, <3>1
  <2>4. net[m].seq = g * ShardSize + 0 /\ g * ShardSize \in Nat
    <3>1. Index(net[m].seq) = 0
      BY <2>3
    <3>2. net[n].seq \in Nat
      BY NetSeq
    <3>3. g \in Nat
      BY <3>2, NumberAt
    <3>. QED  BY <1>2, <3>1, <3>3, ShardSizeType, Products
  <2>5. net[m].seq = g * ShardSize
    BY <2>4
  <2>. HIDE DEF g
  <2>. QED  BY <1>1, <2>5 DEF Whole
<1>7. /\ IsFiniteSet(ArrivedOf(net, g)) /\ Cardinality(ArrivedOf(net, g)) \in Nat
  BY <1>4, FS_Subset, FS_CardinalityType DEF ArrivedOf
<1>8. r \in Injection(Received(n), ArrivedOf(net, g))
  <2>1. \A m \in Received(n) : m \in Members(n) /\ net[m].arrived
    BY DEF Received
  <2>2. \A m \in Received(n) : r[m] \in ArrivedOf(net, g)
    BY <1>1, <1>2, <2>1 DEF ArrivedOf
  <2>3. \A m, k \in Received(n) : r[m] = r[k] => m = k
    BY <1>3, <2>1
  <2>4. r \in [Received(n) -> ArrivedOf(net, g)]
    BY <2>2
  <2>. HIDE DEF r
  <2>. QED  BY <2>3, <2>4, Fun_IsInj
<1>. HIDE DEF r
<1>9. /\ Cardinality(Received(n)) <= Cardinality(ArrivedOf(net, g))
      /\ IsFiniteSet(Received(n))
  BY <1>7, <1>8, FS_Injection
<1>. QED  BY <1>6, <1>7, <1>9, FS_CardinalityType

(***************************************************************************)
(* When a group was sent with its parity and D packets of it have arrived, *)
(* in whatever order and among whatever others, each of its payloads has   *)
(* arrived or decode has given it back.                                    *)
(***************************************************************************)
THEOREM GroupsRecovered ==
  ASSUME NotTooLate
  PROVE  Spec => [](OneLap => GroupRecovered)
<1>1. NumberInv /\ ContentInv /\ OrderInv => (OneLap => GroupRecovered)
  <2>. SUFFICES ASSUME NumberInv, ContentInv, OrderInv, OneLap,
                       NEW n \in DOMAIN net,
                       Cardinality(Members(n)) = ShardSize,
                       Cardinality(Received(n)) >= D,
                       NEW m \in Members(n), net[m].kind = "data"
                PROVE  net[m].arrived \/ net[m].body \in recovered
    BY DEF GroupRecovered
  <2>1. /\ Sorted(net, HeadOf(encodes, Len(shards)))
        /\ Track(net, encodes, shard_set, recovered)
    BY DEF OrderInv
  <2>2. PICK g \in 0 .. Groups - 1 : g = Group(net[n].seq)
    BY WithFits
  <2>3. Whole(net, g) /\ ~ (Cardinality(ArrivedOf(net, g)) < D)
    BY <2>1, <2>2, AllMembers, ShardSizeType
  <2>4. Done(net, encodes, recovered, g)
    BY <2>1, <2>3 DEF Track, Open
  <2>5. m \in DOMAIN net /\ Group(net[m].seq) = g
    BY <2>2 DEF Members
  <2>. QED  BY <2>4, <2>5 DEF Done
<1>. QED  BY <1>1, OrderInvariant, PTL

=============================================================================
