---------------------------- MODULE MCListenerLive ----------------------------
(***************************************************************************)
(* KcpListener with two sessions of one peer, small enough for the         *)
(* liveness properties.  The instance takes away choices of the            *)
(* environment, on which no fairness rests, and no step of the program.    *)
(***************************************************************************)
EXTENDS KcpListener

CONSTANTS s1, s2, c1, c2

ASSUME SessionsAssumption == Sessions = {s1, s2} /\ s1 # s2
ASSUME ConvsAssumption == Convs = {c1, c2}

(***************************************************************************)
(* The application keeps the listener, and writes nothing between the end  *)
(* of a session and the close of its socket.  No parity packet comes.  The *)
(* sessions are made in the order s1, s2, with the conversations c1 and c2 *)
(* (a liveness run cannot declare the names symmetric).                    *)
(***************************************************************************)
LiveNext ==
  /\ Next
  /\ handle' = handle
  /\ late' = late
  /\ hand' = NoHand \/ hand'.pkt # None
  /\ phase'[s2] # "free" => phase'[s1] # "free"
  /\ conv'[s1] \in {None, c1} /\ conv'[s2] \in {None, c2}

LiveSpec == Init /\ [][LiveNext]_vars /\ Fairness

=============================================================================
