------------------------------ MODULE KcpConfig ------------------------------
(***************************************************************************)
(* The limits a configuration sets (src/src/config.rs) and where they are  *)
(* used: the checks of validate and of the code that relies on them, and   *)
(* the sizes of a segment, of a chunk of poll_send and of what the FEC     *)
(* encoder takes.                                                          *)
(* A configuration is a record; the fields no limit depends on are left    *)
(* out.                                                                    *)
(***************************************************************************)
EXTENDS Integers

CONSTANTS
  MAX_SEND_SEGMENTS,  \* 127 in the code
  MAX_FRAGMENTS       \* kcp rejects a message of so many fragments: 128

ASSUME SegmentsAssumption ==
  /\ MAX_SEND_SEGMENTS \in Nat \ {0} /\ MAX_FRAGMENTS \in Nat
  /\ MAX_SEND_SEGMENTS < MAX_FRAGMENTS

Config == [mtu : Nat, data_shards : Nat, parity_shards : Nat,
           stream : BOOLEAN, allow_recv_empty_packet : BOOLEAN]

FEC_HEADER_SIZE_PLUS_SIZE == 8
MIN_KCP_MTU == 50
MAX_U16 == 65535

\* KcpConfig::default, and with_fec on a configuration.
DefaultConfig ==
  [mtu |-> 1400, data_shards |-> 0, parity_shards |-> 0,
   stream |-> FALSE, allow_recv_empty_packet |-> FALSE]

WithFec(c, data, parity) ==
  [c EXCEPT !.data_shards = data, !.parity_shards = parity]

FecEnabled(c) == c.data_shards > 0 /\ c.parity_shards > 0

\* fec.rs, validate_shards: what FecEncoder::new and FecDecoder::new accept.
ShardsValid(c) ==
  /\ c.data_shards # 0 /\ c.parity_shards # 0
  /\ c.data_shards + c.parity_shards <= 256

\* KcpFecConfig::validate: both counts 0 disable FEC.
FecValid(c) ==
  \/ c.data_shards = 0 /\ c.parity_shards = 0
  \/ ShardsValid(c)

\* Mutant of ValidateMtu: the FEC header is not taken off.
ValidateMtuWhole(c) == c.mtu

\* What validate leaves of the MTU for KCP: checked_sub fails where it is
\* negative.
ValidateMtu(c) ==
  IF FecEnabled(c) THEN c.mtu - FEC_HEADER_SIZE_PLUS_SIZE ELSE c.mtu

\* KcpConfig::validate.
Valid(c) ==
  FecValid(c) /\ ValidateMtu(c) >= 0 /\ ValidateMtu(c) >= MIN_KCP_MTU

-----------------------------------------------------------------------------
\* The kcp crate: set_mtu rejects less than 50, a segment has 24 bytes of
\* header, and a message of MAX_FRAGMENTS fragments is rejected.
SetMtuFails(mtu) == mtu < 50
KCP_OVERHEAD == 24
TooManyFragments(count) == count >= MAX_FRAGMENTS

\* apply_config works out the MTU once more, and hands it to KCP.
KcpMtu(c) ==
  IF FecEnabled(c) THEN c.mtu - FEC_HEADER_SIZE_PLUS_SIZE ELSE c.mtu

\* Does one of the three expect() of apply_config panic?
ApplyPanics(c) == ~ Valid(c) \/ KcpMtu(c) < 0 \/ SetMtuFails(KcpMtu(c))

Mss(c) == KcpMtu(c) - KCP_OVERHEAD

Fragments(c, n) ==
  IF n <= Mss(c) THEN 1 ELSE (n + Mss(c) - 1) \div Mss(c)

\* KcpSocket::new: the chunk that asks for a conversation, and any other.
FirstChunk(c) == Mss(c)

MaxChunk(c) == Mss(c) * MAX_SEND_SEGMENTS

\* FecEncoder::encode: its size field counts itself and has 16 bits.
EncoderRefuses(c, n) == FecEnabled(c) /\ n + 2 > MAX_U16

\* KcpSocket::new up to the first update: "refused" is an error it returns.
NewSocket(c) ==
  IF ~ Valid(c) THEN "refused"
  ELSE IF FecEnabled(c) /\ ~ ShardsValid(c) THEN "refused"
  ELSE IF ApplyPanics(c) THEN "panicked"
  ELSE "open"

=============================================================================
