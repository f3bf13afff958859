---------------------------- MODULE MCKcpListener ----------------------------
(***************************************************************************)
(* Instances of KcpListener for TLC: the sessions, peers and conversations *)
(* are model values of the configurations.                                 *)
(***************************************************************************)
EXTENDS KcpListener, TLC

\* Sound for the safety runs: no definition tells these values apart.
Symmetry == Permutations(Sessions) \cup Permutations(Peers)
              \cup Permutations(Convs)

=============================================================================
