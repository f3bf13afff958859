---------------------------------- MODULE Fec ----------------------------------
(***************************************************************************)
(* Forward error correction (src/src/fec.rs): the FecEncoder of a sender,  *)
(* a network that loses, duplicates and reorders its packets, and the      *)
(* FecDecoder of the receiver.                                             *)
(*                                                                         *)
(* A payload is the number of the encode call that was given it, and the   *)
(* content of a parity packet is the tuple of the payloads it was computed *)
(* from: reconstruct_data gives the missing ones back when all the shards  *)
(* of the set come from one tuple, and rubbish (0) when they do not.       *)
(***************************************************************************)
EXTENDS Naturals, SequencesExt, FiniteSets

CONSTANTS
  D,             \* data_shards
  P,             \* parity_shards
  Word,          \* 2^32 in the code: the range of a sequence number
  MaxShardSets,  \* MAX_SHARD_SETS (3 in the code)
  Reach,         \* how many packets later a packet may still arrive
  MaxEncodes     \* bound on the calls of encode

ASSUME FecAssumption ==
  /\ D \in Nat \ {0} /\ P \in Nat \ {0}
  /\ Word \in Nat /\ Word > D + P
  /\ MaxShardSets \in Nat /\ Reach \in Nat /\ MaxEncodes \in Nat

ShardSize == D + P
Paws == ((Word - 1) \div ShardSize) * ShardSize

VARIABLES
  next,      \* FecEncoder.next
  shards,    \* FecEncoder.shards: the payloads of the unfinished group
  warm,      \* FecEncoder.ts_latest_packet is set
  encodes,   \* the number of calls of encode so far
  net,       \* the last Reach packets sealed, and whether each has arrived
  shard_set, \* FecDecoder.shard_set: group -> index -> content
  newest,    \* FecDecoder.newest_shard_id
  recovered  \* history: the recent payloads decode has recovered

encoderVars == <<next, shards, warm, encodes>>
decoderVars == <<shard_set, newest, recovered>>
vars == <<encoderVars, net, decoderVars>>

Init ==
  /\ next = 0 /\ shards = <<>> /\ warm = FALSE /\ encodes = 0
  /\ net = <<>>
  /\ shard_set = <<>> /\ newest = 0 /\ recovered = {}

-----------------------------------------------------------------------------
\* Mutant of SealAt: the number does not wrap.
SealNoWrap(n) == next + n

\* seal, n packets after the next one.
SealAt(n) == (next + n) % Paws

Packet(n, kind, body) ==
  [seq |-> SealAt(n), kind |-> kind, body |-> body, arrived |-> FALSE]

DataPacket == Packet(0, "data", encodes + 1)
ParityPackets ==
  [i \in 1 .. P |-> Packet(i, "parity", Append(shards, encodes + 1))]

\* The network keeps what is still able to arrive.
Emit(packets) ==
  LET all == net \o packets IN
  net' = IF Len(all) <= Reach THEN all
         ELSE SubSeq(all, Len(all) - Reach + 1, Len(all))

Called ==
  /\ encodes < MaxEncodes
  /\ encodes' = encodes + 1
  /\ recovered' = {p \in recovered : p = 0 \/ p > encodes - Reach}
  /\ UNCHANGED <<shard_set, newest>>

\* encode: a packet that does not complete its group.
EncodeData ==
  /\ Called
  /\ Len(shards) + 1 < D
  /\ Emit(<<DataPacket>>)
  /\ shards' = Append(shards, encodes + 1)
  /\ next' = SealAt(1)
  /\ warm' = TRUE

\* Mutant of EncodeSkipParity: the numbers of the parity are not skipped.
EncodeNoSkip ==
  /\ Called
  /\ Len(shards) + 1 = D
  /\ Emit(<<DataPacket>>)
  /\ shards' = <<>>
  /\ next' = SealAt(1)
  /\ warm' = TRUE

(***************************************************************************)
(* The group is complete, but 500 ms have passed since the last packet (or *)
(* there is none): no parity is sent, and its numbers are skipped.         *)
(***************************************************************************)
EncodeSkipParity ==
  /\ Called
  /\ Len(shards) + 1 = D
  /\ Emit(<<DataPacket>>)
  /\ shards' = <<>>
  /\ next' = SealAt(1 + P)
  /\ warm' = TRUE

\* The group is complete in time: its parity is sealed after it.
EncodeParity ==
  /\ Called
  /\ Len(shards) + 1 = D
  /\ warm
  /\ Emit(<<DataPacket>> \o ParityPackets)
  /\ shards' = <<>>
  /\ next' = SealAt(1 + P)
  /\ UNCHANGED warm

-----------------------------------------------------------------------------
\* Mutant of Group: a group is one number too long.
GroupTooLong(seq) == seq \div (ShardSize + 1)

\* shard_id and shard_index.
Group(seq) == seq \div ShardSize
Index(seq) == seq % ShardSize
EmptySet == [i \in 0 .. ShardSize - 1 |-> <<>>]    \* vec![None; shard_size]
ShardsOf(g) == IF g \in DOMAIN shard_set THEN shard_set[g] ELSE EmptySet
Present(set) == {i \in DOMAIN set : set[i] # <<>>}

\* The group of pkt with pkt in it.
With(pkt) == [ShardsOf(Group(pkt.seq)) EXCEPT ![Index(pkt.seq)] = <<pkt.body>>]

\* newest_shard_id, which a smaller identifier never replaces.
Newer(g) == IF g > newest /\ g - newest < Word \div 2 THEN g ELSE newest

\* Mutant of Kept: nothing is discarded.
KeptAll(latest, sets) == sets

\* discard_old_shards: the distance is counted as wrapping_sub counts it.
Kept(latest, sets) ==
  [g \in {h \in DOMAIN sets :
            (latest + Word - h) % Word <= MaxShardSets * ShardSize}
     |-> sets[g]]

Without(g) == [h \in DOMAIN shard_set \ {g} |-> shard_set[h]]
WithSet(g, set) ==
  [h \in DOMAIN shard_set \cup {g} |-> IF h = g THEN set ELSE shard_set[h]]

\* reconstruct_data: what a set with at least D shards says of the missing.
Reconstruct(set) ==
  LET parity == {set[i][1] : i \in Present(set) \cap (D .. ShardSize - 1)}
      missing == (0 .. D - 1) \ Present(set)
      agrees(tuple) == \A i \in Present(set) \cap (0 .. D - 1) :
                         set[i][1] = tuple[i + 1]
  IN IF missing = {} THEN {}
     ELSE IF Cardinality(parity) = 1 /\ \A tuple \in parity : agrees(tuple)
     THEN {tuple[i + 1] : tuple \in parity, i \in missing}
     ELSE {0}

-----------------------------------------------------------------------------
Arrive(n) ==
  /\ net' = [net EXCEPT ![n].arrived = TRUE]
  /\ UNCHANGED encoderVars

\* decode: the place of the packet is taken, by a copy of it.
DecodeDuplicate(n) ==
  /\ Arrive(n)
  /\ Index(net[n].seq) \in Present(ShardsOf(Group(net[n].seq)))
  /\ UNCHANGED decoderVars

\* Mutant of DecodeStore: newest_shard_id is not updated.
DecodeStoreStill(n) ==
  LET pkt == net[n] IN
  /\ Arrive(n)
  /\ Index(pkt.seq) \notin Present(ShardsOf(Group(pkt.seq)))
  /\ Cardinality(Present(With(pkt))) < D
  /\ shard_set' = Kept(newest, WithSet(Group(pkt.seq), With(pkt)))
  /\ UNCHANGED <<newest, recovered>>

\* The group has too few shards still.
DecodeStore(n) ==
  LET pkt == net[n] IN
  /\ Arrive(n)
  /\ Index(pkt.seq) \notin Present(ShardsOf(Group(pkt.seq)))
  /\ Cardinality(Present(With(pkt))) < D
  /\ newest' = Newer(Group(pkt.seq))
  /\ shard_set' = Kept(newest', WithSet(Group(pkt.seq), With(pkt)))
  /\ UNCHANGED recovered

\* The group has enough: it is removed, and what is missing is recovered.
DecodeComplete(n) ==
  LET pkt == net[n] IN
  /\ Arrive(n)
  /\ Index(pkt.seq) \notin Present(ShardsOf(Group(pkt.seq)))
  /\ Cardinality(Present(With(pkt))) >= D
  /\ newest' = Newer(Group(pkt.seq))
  /\ shard_set' = Kept(newest', Without(Group(pkt.seq)))
  /\ recovered' = recovered \cup Reconstruct(With(pkt))

Encode == EncodeData \/ EncodeSkipParity \/ EncodeParity
Decode(n) == DecodeDuplicate(n) \/ DecodeStore(n) \/ DecodeComplete(n)

Next == Encode \/ \E n \in DOMAIN net : Decode(n)

Spec == Init /\ [][Next]_vars

-----------------------------------------------------------------------------
TypeOK ==
  /\ next \in 0 .. Paws - 1
  /\ shards \in Seq(1 .. MaxEncodes) /\ Len(shards) < D
  /\ warm \in BOOLEAN /\ encodes \in 0 .. MaxEncodes
  /\ Len(net) <= Reach
  /\ \A n \in DOMAIN net : net[n].seq < Paws /\ net[n].kind \in {"data", "parity"}
  /\ DOMAIN shard_set \subseteq 0 .. (Paws \div ShardSize) - 1
  /\ newest \in 0 .. (Paws \div ShardSize) - 1
  /\ recovered \subseteq 0 .. MaxEncodes

(***************************************************************************)
(* The number of a packet tells the decoder its place in its group: data   *)
(* packets have the first D places and parity packets the others, across   *)
(* skipped parity and across the wrap at Paws.                             *)
(***************************************************************************)
Aligned ==
  /\ next % ShardSize = Len(shards)
  /\ \A n \in DOMAIN net : net[n].kind = "data" <=> Index(net[n].seq) < D

(***************************************************************************)
(* The group being filled ends before the wrap: no addition of seal and    *)
(* skip_parity leaves the 32-bit range.                                    *)
(***************************************************************************)
GroupFitsBeforeWrap == next + (D - Len(shards)) + P < Word

\* What is recovered is a payload that was encoded, not a mix of two groups.
RecoveredWasSealed == recovered \subseteq 1 .. encodes

(***************************************************************************)
(* The decoder remembers a bounded number of groups, whatever arrives:     *)
(* late packets of finished groups make new entries.                       *)
(***************************************************************************)
MemoryBounded ==
  Cardinality(DOMAIN shard_set) <= MaxShardSets * ShardSize + 1

(***************************************************************************)
(* Enough shards of a group have arrived: every payload of the group has   *)
(* arrived or was recovered, in whatever order they came.                  *)
(***************************************************************************)
Members(n) == {m \in DOMAIN net : Group(net[m].seq) = Group(net[n].seq)}
Received(n) == {m \in Members(n) : net[m].arrived}

GroupRecovered ==
  \A n \in DOMAIN net :
    (net[n].kind = "parity" /\ Cardinality(Members(n)) = ShardSize
       /\ Cardinality(Received(n)) >= D) =>
      \A m \in Members(n) :
        net[m].kind = "data" => net[m].arrived \/ net[m].body \in recovered

=============================================================================
