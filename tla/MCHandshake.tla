----------------------------- MODULE MCHandshake ------------------------------
(***************************************************************************)
(* Handshake with two datagrams under way to the client, of which one      *)
(* overtakes the other.  The instance takes away a choice of the           *)
(* environment: recv fails only when all the client sends is acknowledged. *)
(* LearnsConversation says nothing of a client whose recv failed.          *)
(***************************************************************************)
EXTENDS Handshake

LateFailure == io' = "failed" => next_sn = Segments /\ unacked = {}

LiveSpec == Init /\ [][Next /\ LateFailure]_vars /\ Fairness

=============================================================================
