------------------------------- MODULE FecProofs -------------------------------
(***************************************************************************)
(* Proofs about the numbering of the FecEncoder, for every number of data  *)
(* and parity shards and every word size: next follows the position in the *)
(* group, across skipped parity and across the wrap at Paws.               *)
(***************************************************************************)
EXTENDS Fec, TLAPS

\* What the assumption on the constants says of the size of a group.
LEMMA ShardSizeType ==
  /\ ShardSize \in Nat \ {0} /\ ShardSize > D /\ ShardSize = D + P
  /\ D \in Nat \ {0} /\ P \in Nat \ {0}
  BY FecAssumption DEF ShardSize

\* The remainder of q * S + k is k.
LEMMA Remainder ==
  ASSUME NEW S \in Nat \ {0}, NEW q \in Nat, NEW k \in Nat, k < S
  PROVE  (q * S + k) % S = k
  BY SMT

\* Division by S, in terms of multiplication.
LEMMA Division ==
  ASSUME NEW S \in Nat \ {0}, NEW n \in Nat
  PROVE  /\ n \div S \in Nat
         /\ n % S \in Nat /\ n % S < S
         /\ n = (n \div S) * S + (n % S)
  BY SMT

\* Products of natural numbers.
LEMMA Products ==
  \A m, n \in Nat : m * n \in Nat /\ (m > 0 /\ n > 0 => m * n > 0)
  OBVIOUS

\* Paws is a multiple of the group size, within the word.
LEMMA PawsIsWhole ==
  \E q \in Nat \ {0} : Paws = q * ShardSize /\ q * ShardSize < Word
<1> DEFINE q == (Word - 1) \div ShardSize
<1>1. Word - 1 \in Nat /\ Word - 1 >= ShardSize /\ ShardSize \in Nat \ {0}
  BY ShardSizeType, FecAssumption DEF ShardSize
<1>2. /\ q \in Nat
      /\ (Word - 1) % ShardSize \in Nat /\ (Word - 1) % ShardSize < ShardSize
      /\ Word - 1 = q * ShardSize + ((Word - 1) % ShardSize)
  BY <1>1, Division
<1>3. q # 0
  <2> SUFFICES ASSUME q = 0 PROVE FALSE
    OBVIOUS
  <2>1. q * ShardSize = 0
    BY <1>1
  <2> HIDE DEF q
  <2> QED BY <2>1, <1>1, <1>2
<1>4. Paws = q * ShardSize
  BY DEF Paws
<1> HIDE DEF q
<1>5. q * ShardSize \in Nat
  BY <1>1, <1>2, Products
<1>6. q * ShardSize < Word
  BY <1>1, <1>2, <1>5, FecAssumption
<1> QED BY <1>2, <1>3, <1>4, <1>6

\* The first number that seal does not use.
LEMMA PawsType == Paws \in Nat \ {0} /\ Paws < Word /\ Paws >= ShardSize
<1>1. PICK q \in Nat \ {0} : Paws = q * ShardSize /\ q * ShardSize < Word
  BY PawsIsWhole
<1>2. q * ShardSize \in Nat /\ q * ShardSize > 0
  BY ShardSizeType, Products
<1>3. q * ShardSize >= ShardSize
  BY ShardSizeType
<1> QED BY <1>1, <1>2, <1>3

-----------------------------------------------------------------------------
(***************************************************************************)
(* The inductive invariant.  next is a whole number of groups and as many  *)
(* packets of the group being filled as encode holds shards of it; every   *)
(* packet of the network has the number its kind says.                     *)
(***************************************************************************)
NextFollowsShards ==
  \E g \in Nat : next = g * ShardSize + Len(shards) /\ (g + 1) * ShardSize <= Paws

Sealed ==
  {pkt \in [seq : Nat, kind : {"data", "parity"}, body : Nat \cup Seq(Nat),
            arrived : BOOLEAN] : pkt.kind = "data" <=> Index(pkt.seq) < D}

NumberInv ==
  /\ encodes \in Nat
  /\ shards \in Seq(Nat)
  /\ Len(shards) < D
  /\ NextFollowsShards
  /\ net \in Seq(Sealed)

\* A step inside the group: k more packets, and the group does not end.
LEMMA AdvanceInside ==
  ASSUME NextFollowsShards, NEW k \in Nat,
         Len(shards) \in Nat, Len(shards) + k < ShardSize
  PROVE  \E g \in Nat : /\ SealAt(k) = g * ShardSize + (Len(shards) + k)
                        /\ (g + 1) * ShardSize <= Paws
<1>1. PICK g \in Nat : /\ next = g * ShardSize + Len(shards)
                       /\ (g + 1) * ShardSize <= Paws
  BY DEF NextFollowsShards
<1>2. PICK q \in Nat \ {0} : Paws = q * ShardSize
  BY PawsIsWhole
<1> DEFINE m == g * ShardSize
<1>3. m \in Nat /\ (g + 1) * ShardSize = m + ShardSize /\ Paws \in Nat
  BY <1>2, ShardSizeType
<1> HIDE DEF m
<1>4. next + k = m + (Len(shards) + k) /\ next + k < Paws /\ next + k \in Nat
  BY <1>1, <1>3, ShardSizeType DEF m
<1>5. (next + k) % Paws = next + k
  BY <1>3, <1>4
<1>6. SealAt(k) = m + (Len(shards) + k)
  BY <1>4, <1>5 DEF SealAt
<1> QED BY <1>1, <1>6 DEF m

\* The end of the group: the first number of the next one, or of group 0.
LEMMA AdvanceToNextGroup ==
  ASSUME NextFollowsShards, NEW k \in Nat,
         Len(shards) \in Nat, Len(shards) + k = ShardSize
  PROVE  \E g \in Nat : /\ SealAt(k) = g * ShardSize
                        /\ (g + 1) * ShardSize <= Paws
<1>1. PICK g \in Nat : /\ next = g * ShardSize + Len(shards)
                       /\ (g + 1) * ShardSize <= Paws
  BY DEF NextFollowsShards
<1>2. PICK q \in Nat \ {0} : Paws = q * ShardSize
  BY PawsIsWhole
<1> DEFINE h == g + 1
<1>3. h \in Nat /\ h * ShardSize \in Nat /\ Paws \in Nat /\ h * ShardSize <= Paws
  BY <1>1, <1>2, ShardSizeType
<1>4. next + k = h * ShardSize
  <2>1. h * ShardSize = g * ShardSize + ShardSize /\ g * ShardSize \in Nat
    BY ShardSizeType
  <2> HIDE DEF h
  <2> QED BY <1>1, <2>1, ShardSizeType
<1> HIDE DEF h
<1>5. CASE h * ShardSize = Paws
  <2>1. SealAt(k) = 0
    <3>1. Paws \in Nat \ {0} /\ 1 * Paws + 0 = Paws
      BY PawsType
    <3>2. (1 * Paws + 0) % Paws = 0
      BY <3>1, Remainder
    <3> QED BY <3>1, <3>2, <1>4, <1>5 DEF SealAt
  <2>2. 0 * ShardSize = 0 /\ (0 + 1) * ShardSize = ShardSize
    BY ShardSizeType
  <2>3. ShardSize <= Paws
    BY <1>2, ShardSizeType
  <2> QED BY <2>1, <2>2, <2>3
<1>6. CASE h * ShardSize # Paws
  <2>1. h * ShardSize < Paws
    BY <1>3, <1>6
  <2>2. SealAt(k) = h * ShardSize
    BY <1>3, <1>4, <2>1 DEF SealAt
  <2>3. h < q
    BY <2>1, <1>2, <1>3, ShardSizeType
  <2>4. (h + 1) * ShardSize <= Paws
    BY <2>3, <1>2, <1>3, ShardSizeType
  <2> QED BY <1>3, <2>2, <2>4
<1> QED BY <1>5, <1>6

-----------------------------------------------------------------------------
\* What seal writes k packets after the next is k places further in the group.
LEMMA SealedAsKind ==
  ASSUME NumberInv, NEW k \in Nat, Len(shards) + k < ShardSize,
         NEW kind \in {"data", "parity"}, kind = "data" <=> Len(shards) + k < D,
         NEW body \in Nat \cup Seq(Nat)
  PROVE  Packet(k, kind, body) \in Sealed
<1>1. Len(shards) \in Nat
  BY DEF NumberInv
<1>2. PICK g \in Nat : SealAt(k) = g * ShardSize + (Len(shards) + k)
  BY <1>1, AdvanceInside DEF NumberInv
<1>3. SealAt(k) % ShardSize = Len(shards) + k
  <2>1. Len(shards) + k \in Nat /\ Len(shards) + k < ShardSize
    BY <1>1
  <2>2. ShardSize \in Nat \ {0}
    BY ShardSizeType
  <2> QED BY <1>2, <2>1, <2>2, Remainder
<1>4. SealAt(k) \in Nat
  BY <1>1, <1>2, ShardSizeType
<1>5. Packet(k, kind, body).seq = SealAt(k) /\ Packet(k, kind, body).kind = kind
  BY DEF Packet
<1>6. Packet(k, kind, body) \in [seq : Nat, kind : {"data", "parity"},
                                 body : Nat \cup Seq(Nat), arrived : BOOLEAN]
  BY <1>4 DEF Packet
<1> QED BY <1>3, <1>5, <1>6 DEF Sealed, Index

\* What Emit leaves in the network was in it or is new.
LEMMA EmitKeepsSealed ==
  ASSUME net \in Seq(Sealed), NEW packets \in Seq(Sealed), Emit(packets)
  PROVE  net' \in Seq(Sealed)
<1> DEFINE all == net \o packets
<1>1. all \in Seq(Sealed)
  OBVIOUS
<1>2. CASE Len(all) <= Reach
  BY <1>1, <1>2 DEF Emit
<1>3. CASE ~ (Len(all) <= Reach)
  <2>1. net' = SubSeq(all, Len(all) - Reach + 1, Len(all))
    BY <1>3 DEF Emit
  <2>2. Len(all) \in Nat /\ Reach \in Nat
    BY <1>1, FecAssumption
  <2> HIDE DEF all
  <2>3. SubSeq(all, Len(all) - Reach + 1, Len(all)) \in Seq(Sealed)
    BY <1>1, <1>3, <2>2
  <2> QED BY <2>1, <2>3
<1> QED BY <1>2, <1>3

-----------------------------------------------------------------------------
\* A new encoder begins at group 0.
LEMMA InitNumber == Init => NumberInv
<1> SUFFICES ASSUME Init PROVE NumberInv
  OBVIOUS
<1>1. encodes \in Nat /\ shards \in Seq(Nat) /\ net \in Seq(Sealed) /\ Len(shards) = 0
  BY DEF Init
<1>2. NextFollowsShards
  <2>1. PICK q \in Nat \ {0} : Paws = q * ShardSize
    BY PawsIsWhole
  <2>2. q * ShardSize >= ShardSize
    BY ShardSizeType
  <2>3. 0 * ShardSize + Len(shards) = 0 /\ (0 + 1) * ShardSize = ShardSize
    BY <1>1, ShardSizeType
  <2>4. next = 0
    BY DEF Init
  <2> QED BY <2>1, <2>2, <2>3, <2>4 DEF NextFollowsShards
<1> QED BY <1>1, <1>2, ShardSizeType DEF NumberInv

\* The data packet of encode, and the parity packets that may follow it.
LEMMA DataPacketSealed == NumberInv => <<DataPacket>> \in Seq(Sealed)
<1> SUFFICES ASSUME NumberInv PROVE DataPacket \in Sealed
  OBVIOUS
<1>1. /\ Len(shards) \in Nat /\ encodes + 1 \in Nat
      /\ Len(shards) + 0 < D /\ Len(shards) + 0 < ShardSize
  BY ShardSizeType DEF NumberInv
<1> QED BY <1>1, SealedAsKind DEF DataPacket

\* The parity packets take the last places of the group.
LEMMA ParityPacketsSealed ==
  NumberInv /\ Len(shards) + 1 = D => ParityPackets \in Seq(Sealed)
<1> SUFFICES ASSUME NumberInv, Len(shards) + 1 = D PROVE ParityPackets \in Seq(Sealed)
  OBVIOUS
<1>1. /\ Len(shards) \in Nat /\ P \in Nat
      /\ Append(shards, encodes + 1) \in Nat \cup Seq(Nat)
  BY FecAssumption DEF NumberInv
<1>2. ASSUME NEW i \in 1 .. P
      PROVE  Packet(i, "parity", Append(shards, encodes + 1)) \in Sealed
  <2>1. i \in Nat /\ ~ (Len(shards) + i < D) /\ Len(shards) + i < ShardSize
    BY <1>1, FecAssumption DEF ShardSize
  <2> QED BY <1>1, <2>1, SealedAsKind
<1>3. ParityPackets \in [1 .. P -> Sealed]
  BY <1>2 DEF ParityPackets
<1> QED BY <1>1, <1>3

\* encode keeps next in step with the shards it holds.
LEMMA EncodeNumber == NumberInv /\ Encode => NumberInv'
<1> SUFFICES ASSUME NumberInv, Encode PROVE NumberInv'
  OBVIOUS
<1>1. /\ Len(shards) \in Nat /\ encodes + 1 \in Nat /\ encodes \in Nat
      /\ shards \in Seq(Nat) /\ net \in Seq(Sealed) /\ NextFollowsShards
      /\ <<DataPacket>> \in Seq(Sealed)
  BY DataPacketSealed DEF NumberInv
<1>2. CASE EncodeData
  <2>1. shards' = Append(shards, encodes + 1) /\ next' = SealAt(1)
        /\ Len(shards) + 1 < D /\ encodes' = encodes + 1
    BY <1>2 DEF EncodeData, Called
  <2>2. shards' \in Seq(Nat) /\ Len(shards') = Len(shards) + 1
    BY <1>1, <2>1
  <2>3. NextFollowsShards'
    <3>1. PICK g \in Nat : /\ SealAt(1) = g * ShardSize + (Len(shards) + 1)
                           /\ (g + 1) * ShardSize <= Paws
      <4>1. /\ NextFollowsShards /\ Len(shards) \in Nat
            /\ Len(shards) + 1 < ShardSize
        <5>1. Len(shards) \in Nat /\ Len(shards) + 1 < D
          BY <1>1, <2>1
        <5> QED BY <1>1, <5>1, ShardSizeType
      <4> QED BY <4>1, AdvanceInside
    <3> QED BY <2>1, <2>2, <3>1 DEF NextFollowsShards, Paws, ShardSize
  <2>4. net' \in Seq(Sealed)
    BY <1>1, <1>2, EmitKeepsSealed DEF EncodeData
  <2> QED BY <1>1, <2>1, <2>2, <2>3, <2>4 DEF NumberInv, Sealed, Index, ShardSize
<1>3. ASSUME Len(shards) + 1 = D, Called, shards' = <<>>, next' = SealAt(1 + P),
             net' \in Seq(Sealed)
      PROVE  NumberInv'
  <2>1. shards' \in Seq(Nat) /\ Len(shards') = 0 /\ encodes' \in Nat
    BY <1>1, <1>3 DEF Called
  <2>2. 1 + P \in Nat /\ Len(shards) + (1 + P) = ShardSize
    <3>1. Len(shards) \in Nat /\ Len(shards) + 1 = D
      BY <1>1, <1>3
    <3> QED BY <3>1, ShardSizeType
  <2>3. PICK g \in Nat : /\ SealAt(1 + P) = g * ShardSize
                         /\ (g + 1) * ShardSize <= Paws
    BY <1>1, <2>2, AdvanceToNextGroup
  <2>4. g * ShardSize + Len(shards') = next'
    BY <1>3, <2>1, <2>3, ShardSizeType
  <2>5. NextFollowsShards'
    BY <2>3, <2>4 DEF NextFollowsShards, Paws, ShardSize
  <2> QED BY <1>3, <2>1, <2>5, FecAssumption DEF NumberInv, Sealed, Index, ShardSize
<1>4. CASE EncodeSkipParity
  <2>1. net' \in Seq(Sealed)
    BY <1>1, <1>4, EmitKeepsSealed DEF EncodeSkipParity
  <2> QED BY <1>3, <1>4, <2>1 DEF EncodeSkipParity
<1>5. CASE EncodeParity
  <2>1. <<DataPacket>> \o ParityPackets \in Seq(Sealed)
    BY <1>1, <1>5, ParityPacketsSealed DEF EncodeParity
  <2>2. net' \in Seq(Sealed)
    BY <1>1, <1>5, <2>1, EmitKeepsSealed DEF EncodeParity
  <2> QED BY <1>3, <1>5, <2>2 DEF EncodeParity
<1> QED BY <1>2, <1>4, <1>5 DEF Encode

\* decode changes nothing in the encoder, and no packet.
LEMMA DecodeNumber ==
  ASSUME NumberInv, NEW n \in DOMAIN net, Decode(n)
  PROVE  NumberInv'
<1>1. net' = [net EXCEPT ![n].arrived = TRUE] /\ UNCHANGED encoderVars
  BY DEF Decode, DecodeDuplicate, DecodeStore, DecodeComplete, Arrive
<1>2. net \in Seq(Sealed)
  BY DEF NumberInv
<1>3. [net[n] EXCEPT !.arrived = TRUE] \in Sealed
  <2>1. net[n] \in Sealed
    BY <1>2
  <2> QED BY <2>1 DEF Sealed, Index
<1>4. net' = [net EXCEPT ![n] = [net[n] EXCEPT !.arrived = TRUE]]
  BY <1>1
<1>5. net' \in Seq(Sealed)
  BY <1>2, <1>3, <1>4
<1> QED BY <1>1, <1>5 DEF NumberInv, NextFollowsShards, encoderVars,
                         Paws, ShardSize, Sealed, Index

\* The numbering invariant holds for ever.
LEMMA NumberInvariant == Spec => []NumberInv
<1>1. Init => NumberInv
  BY InitNumber
<1>2. NumberInv /\ [Next]_vars => NumberInv'
  <2> SUFFICES ASSUME NumberInv, [Next]_vars PROVE NumberInv'
    OBVIOUS
  <2>1. CASE Encode
    BY <2>1, EncodeNumber
  <2>2. CASE \E n \in DOMAIN net : Decode(n)
    BY <2>2, DecodeNumber
  <2>3. CASE UNCHANGED vars
    BY <2>3 DEF vars, encoderVars, NumberInv, NextFollowsShards, Paws,
                ShardSize, Sealed, Index
  <2> QED BY <2>1, <2>2, <2>3 DEF Next
<1> QED BY <1>1, <1>2, PTL DEF Spec

-----------------------------------------------------------------------------
(***************************************************************************)
(* For every D, P and word size: a packet has the number its kind says,    *)
(* across the parity that encode skips and across the wrap at paws.        *)
(***************************************************************************)
THEOREM NumbersAligned == Spec => []Aligned
<1>1. NumberInv => Aligned
  <2> SUFFICES ASSUME NumberInv PROVE Aligned
    OBVIOUS
  <2>1. PICK g \in Nat : next = g * ShardSize + Len(shards)
    BY DEF NumberInv, NextFollowsShards
  <2>0. Len(shards) \in Nat /\ Len(shards) < ShardSize
    BY ShardSizeType DEF NumberInv
  <2>2. next % ShardSize = Len(shards)
    BY <2>0, <2>1, Remainder, ShardSizeType
  <2>3. \A n \in DOMAIN net : net[n] \in Sealed
    BY DEF NumberInv
  <2> QED BY <2>2, <2>3 DEF Aligned, Sealed
<1> QED BY <1>1, NumberInvariant, PTL

(***************************************************************************)
(* The group being filled, parity included, fits under paws, so neither    *)
(* seal nor skip_parity computes a number outside the 32-bit word.         *)
(***************************************************************************)
THEOREM NoNumberOverflow == Spec => []GroupFitsBeforeWrap
<1>1. NumberInv => GroupFitsBeforeWrap
  <2> SUFFICES ASSUME NumberInv PROVE GroupFitsBeforeWrap
    OBVIOUS
  <2>1. PICK g \in Nat : /\ next = g * ShardSize + Len(shards)
                         /\ (g + 1) * ShardSize <= Paws
    BY DEF NumberInv, NextFollowsShards
  <2>2. (g + 1) * ShardSize = g * ShardSize + ShardSize /\ g * ShardSize \in Nat
    BY ShardSizeType
  <2>3. Paws \in Nat /\ Paws < Word
    BY PawsType
  <2>4. Len(shards) \in Nat
    BY DEF NumberInv
  <2>5. ShardSize = D + P /\ D \in Nat /\ P \in Nat /\ Word \in Nat
    BY FecAssumption DEF ShardSize
  <2> DEFINE m == g * ShardSize
  <2> HIDE DEF m
  <2>6. m \in Nat /\ next = m + Len(shards) /\ m + (D + P) <= Paws
    BY <2>1, <2>2, <2>5 DEF m
  <2> QED BY <2>3, <2>4, <2>5, <2>6 DEF GroupFitsBeforeWrap
<1> QED BY <1>1, NumberInvariant, PTL

=============================================================================
