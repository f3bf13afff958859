----------------------------- MODULE MCKcpStream -----------------------------
(***************************************************************************)
(* Instances of KcpStream for TLC.  The two smallest valid MTUs, without   *)
(* and with FEC, leave segments of 26 bytes; the other configurations are  *)
(* each on the wrong side of one limit.  A chunk has up to 3 segments.      *)
(***************************************************************************)
EXTENDS KcpStream

WithMtu(c, mtu) == [c EXCEPT !.mtu = mtu]
Smallest == WithMtu(DefaultConfig, 50)
SmallestFec == WithFec(WithMtu(DefaultConfig, 58), 255, 1)

MCConfigs ==
  {Smallest, SmallestFec,
   [Smallest EXCEPT !.stream = TRUE],
   [Smallest EXCEPT !.allow_recv_empty_packet = TRUE],
   WithMtu(Smallest, 49), WithMtu(SmallestFec, 57), WithMtu(SmallestFec, 7),
   WithFec(DefaultConfig, 255, 2), WithFec(DefaultConfig, 0, 1),
   WithFec(DefaultConfig, 1, 0)}

\* 26 bytes are one segment, 78 = 3 * 26 a whole chunk.
MCSizes == {0, 26, 79}
MCBuffers == {25, 40, 78}

=============================================================================
