-------------------------------- MODULE Ticker --------------------------------
(***************************************************************************)
(* What sessions rely on the scheduler for (src/src/scheduler.rs): a       *)
(* session is registered once, is then polled again and again by one       *)
(* caller at a time, and is never polled after it returned None.           *)
(***************************************************************************)
CONSTANT Sessions

VARIABLES
  status,   \* status[s]: "new", "live" or "over"
  turn      \* turn[s] changes whenever s is polled

vars == <<status, turn>>

Init ==
  /\ status = [s \in Sessions |-> "new"]
  /\ turn = [s \in Sessions |-> FALSE]

Register(s) ==
  /\ status[s] = "new"
  /\ status' = [status EXCEPT ![s] = "live"]
  /\ UNCHANGED turn

Poll(s) ==
  /\ status[s] = "live"
  /\ turn' = [turn EXCEPT ![s] = ~ @]
  /\ \E result \in {"live", "over"} :
       status' = [status EXCEPT ![s] = result]

Next == \E s \in Sessions : Register(s) \/ Poll(s)

Spec == Init /\ [][Next]_vars /\ \A s \in Sessions : WF_vars(Poll(s))

=============================================================================
