------------------------------ MODULE Scheduler ------------------------------
(***************************************************************************)
(* FixedTickScheduler (src/src/scheduler.rs).  Every shard is a thread     *)
(* that sleeps until its next tick, drains its command channel into its    *)
(* vector of tasks, and makes one pass over the vector, in which it polls  *)
(* the sessions that are due and removes those that return None.           *)
(*                                                                         *)
(* A pass samples the clock once, and every deadline a poll returns is     *)
(* that sample plus a delay.  A task therefore keeps, instead of its       *)
(* deadline, how many ticks are left until then: 0 when it is due.  The    *)
(* clock is the system's, and may be set back.                             *)
(***************************************************************************)
EXTENDS Naturals, SequencesExt

CONSTANTS
  Sessions,
  NumShards,     \* default_scheduler_parallel(): 2 to 4 in the code
  MaxDelay,      \* bound on the delay a poll returns, in ticks
  Steps,         \* how many ticks may lie between two passes of a shard
  SetBack,       \* by how many ticks the clock is set back
  MaxSetBacks    \* bound on how often a shard meets that

ASSUME SchedulerAssumption ==
  /\ NumShards \in Nat \ {0}
  /\ MaxDelay \in Nat
  /\ Steps \subseteq Nat \ {0}
  /\ SetBack \in Nat /\ MaxSetBacks \in Nat

Shards == 0 .. NumShards - 1
ScheduledTask ==
  [session : Sessions, left : 0 .. MaxDelay + SetBack * MaxSetBacks]

VARIABLES
  commands,     \* commands[k]: the channel of shard k
  tasks,        \* tasks[k]: its vector
  pc,           \* pc[k]: "sleep", "drain" or "scan"
  idx,          \* idx[k]: the position of the pass, from 1
  set_backs,    \* how often shard k met a clock that was set back
  next_shard,   \* the shard the next registration goes to
  polled,       \* history: the sessions polled in the current pass
  over,         \* history: the sessions that returned None
  turn          \* history: flips whenever a session is polled

vars == <<commands, tasks, pc, idx, set_backs, next_shard, polled, over, turn>>

\* Where a session is: the sessions in a channel, and in a vector.
Waiting(k) == {commands[k][i] : i \in DOMAIN commands[k]}
Held(k) == {tasks[k][i].session : i \in DOMAIN tasks[k]}
Live == UNION {Waiting(k) \cup Held(k) : k \in Shards}

Init ==
  /\ commands = [k \in Shards |-> <<>>]
  /\ tasks = [k \in Shards |-> <<>>]
  /\ pc = [k \in Shards |-> "sleep"]
  /\ idx = [k \in Shards |-> 1]
  /\ set_backs = [k \in Shards |-> 0]
  /\ next_shard = 0
  /\ polled = [k \in Shards |-> {}]
  /\ over = {}
  /\ turn = [s \in Sessions |-> FALSE]

-----------------------------------------------------------------------------
\* register, which new_shared calls once for every session.
Register(s) ==
  /\ s \notin Live \cup over
  /\ commands' = [commands EXCEPT ![next_shard] = Append(@, s)]
  /\ next_shard' = (next_shard + 1) % NumShards
  /\ UNCHANGED <<set_backs, tasks, pc, idx, polled, over, turn>>

\* thread::sleep is over.
Wake(k) ==
  /\ pc[k] = "sleep"
  /\ pc' = [pc EXCEPT ![k] = "drain"]
  /\ UNCHANGED <<set_backs, commands, tasks, idx, next_shard, polled, over, turn>>

\* drain_commands: a session is due at once, its deadline is when it came.
DrainOne(k) ==
  /\ pc[k] = "drain"
  /\ commands[k] # <<>>
  /\ commands' = [commands EXCEPT ![k] = Tail(@)]
  /\ tasks' = [tasks EXCEPT
                 ![k] = Append(@, [session |-> Head(commands[k]), left |-> 0])]
  /\ UNCHANGED <<set_backs, pc, idx, next_shard, polled, over, turn>>

Later(task, ticks) ==
  [task EXCEPT !.left = IF @ > ticks THEN @ - ticks ELSE 0]

Further(task) == [task EXCEPT !.left = @ + SetBack]

\* The system's clock is set back before the shard samples it again: what it
\* waits for is as much further away, and what was due is not.
ClockSetBack(k) ==
  /\ pc[k] = "drain"
  /\ commands[k] = <<>> /\ tasks[k] # <<>>
  /\ set_backs[k] < MaxSetBacks
  /\ set_backs' = [set_backs EXCEPT ![k] = @ + 1]
  /\ tasks' = [tasks EXCEPT
                 ![k] = [i \in DOMAIN @ |-> Further(@[i])]]
  /\ UNCHANGED <<commands, pc, idx, next_shard, polled, over, turn>>

\* The channel is empty: the clock is sampled and the pass begins.
BeginPass(k) ==
  /\ pc[k] = "drain"
  /\ commands[k] = <<>>
  /\ pc' = [pc EXCEPT ![k] = "scan"]
  /\ idx' = [idx EXCEPT ![k] = 1]
  /\ polled' = [polled EXCEPT ![k] = {}]
  /\ \E ticks \in Steps :
       tasks' = [tasks EXCEPT
                   ![k] = [i \in DOMAIN @ |-> Later(@[i], ticks)]]
  /\ UNCHANGED <<set_backs, commands, next_shard, over, turn>>

-----------------------------------------------------------------------------
Scanning(k) == pc[k] = "scan" /\ idx[k] <= Len(tasks[k])
Current(k) == tasks[k][idx[k]]

SkipNotDue(k) ==
  /\ Scanning(k)
  /\ Current(k).left > 0
  /\ idx' = [idx EXCEPT ![k] = @ + 1]
  /\ UNCHANGED <<set_backs, commands, tasks, pc, next_shard, polled, over, turn>>

\* poll_scheduler_tick is called on the current task.
Polling(k) ==
  /\ Scanning(k)
  /\ Current(k).left = 0
  /\ polled' = [polled EXCEPT ![k] = @ \cup {Current(k).session}]
  /\ turn' = [turn EXCEPT ![Current(k).session] = ~ @]

\* Mutant of PollSome: the position is not advanced.
PollSomeAgain(k) ==
  /\ Polling(k)
  /\ \E delay \in 0 .. MaxDelay :
       tasks' = [tasks EXCEPT ![k][idx[k]].left = delay]
  /\ UNCHANGED <<set_backs, commands, pc, idx, next_shard, over>>

\* It returned the next deadline; a delay of 0 is due in the next pass only.
PollSome(k) ==
  /\ Polling(k)
  /\ \E delay \in 0 .. MaxDelay :
       tasks' = [tasks EXCEPT ![k][idx[k]].left = delay]
  /\ idx' = [idx EXCEPT ![k] = @ + 1]
  /\ UNCHANGED <<set_backs, commands, pc, next_shard, over>>

\* Mutant of SwapRemove: the last element is dropped, not moved.
Truncate(vector, i) == Front(vector)

\* Mutant of SwapRemove: the last element is copied and not taken away.
SwapRemoveKeep(vector, i) == [vector EXCEPT ![i] = Last(vector)]

\* Vec::swap_remove: the last element takes the place of the removed one.
SwapRemove(vector, i) ==
  [j \in 1 .. Len(vector) - 1 |-> IF j = i THEN Last(vector) ELSE vector[j]]

\* Mutant of PollNone: the position is advanced past the moved element.
PollNoneAdvance(k) ==
  /\ Polling(k)
  /\ tasks' = [tasks EXCEPT ![k] = SwapRemove(@, idx[k])]
  /\ idx' = [idx EXCEPT ![k] = @ + 1]
  /\ over' = over \cup {Current(k).session}
  /\ UNCHANGED <<set_backs, commands, pc, next_shard>>

\* It returned None: the position stays, another task is there now.
PollNone(k) ==
  /\ Polling(k)
  /\ tasks' = [tasks EXCEPT ![k] = SwapRemove(@, idx[k])]
  /\ over' = over \cup {Current(k).session}
  /\ UNCHANGED <<set_backs, commands, pc, idx, next_shard>>

EndPass(k) ==
  /\ pc[k] = "scan"
  /\ idx[k] > Len(tasks[k])
  /\ pc' = [pc EXCEPT ![k] = "sleep"]
  /\ UNCHANGED <<set_backs, commands, tasks, idx, next_shard, polled, over, turn>>

-----------------------------------------------------------------------------
Thread(k) ==
  \/ Wake(k) \/ DrainOne(k) \/ BeginPass(k)
  \/ SkipNotDue(k) \/ PollSome(k) \/ PollNone(k) \/ EndPass(k)

Next ==
  \/ \E s \in Sessions : Register(s)
  \/ \E k \in Shards : Thread(k) \/ ClockSetBack(k)

Spec == Init /\ [][Next]_vars

\* The threads run.
FairSpec == Spec /\ \A k \in Shards : WF_vars(Thread(k))

-----------------------------------------------------------------------------
TypeOK ==
  /\ commands \in [Shards -> Seq(Sessions)]
  /\ tasks \in [Shards -> Seq(ScheduledTask)]
  /\ pc \in [Shards -> {"sleep", "drain", "scan"}]
  /\ idx \in [Shards -> Nat]
  /\ \A k \in Shards : idx[k] \in 1 .. Len(tasks[k]) + 1
  /\ set_backs \in [Shards -> 0 .. MaxSetBacks]
  /\ next_shard \in Shards
  /\ polled \in [Shards -> SUBSET Sessions]
  /\ over \subseteq Sessions
  /\ turn \in [Sessions -> BOOLEAN]

(***************************************************************************)
(* A session is held once, by one shard: otherwise two threads would drive *)
(* it, or one of them after the other has finalized it.                    *)
(***************************************************************************)
HeldOnce ==
  /\ \A k \in Shards :
       /\ IsInjective(commands[k])
       /\ IsInjective([i \in DOMAIN tasks[k] |-> tasks[k][i].session])
       /\ Waiting(k) \cap Held(k) = {}
       /\ (Waiting(k) \cup Held(k)) \cap over = {}
  /\ \A j, k \in Shards :
       j # k => (Waiting(j) \cup Held(j)) \cap (Waiting(k) \cup Held(k)) = {}

(***************************************************************************)
(* What the pass has gone over is done with: whatever stands before the    *)
(* position was polled in this pass or was not due, although swap_remove   *)
(* moves tasks across it.                                                  *)
(***************************************************************************)
PassComplete ==
  \A k \in Shards :
    pc[k] = "scan" =>
      \A i \in DOMAIN tasks[k] :
        i < idx[k] =>
          tasks[k][i].session \in polled[k] \/ tasks[k][i].left > 0

(***************************************************************************)
(* A pass polls a session at most once, even one that is due again at once *)
(* (kcp.check may return 0): a pass ends, and lets the thread drain.       *)
(***************************************************************************)
OncePerPass ==
  [][\A s \in Sessions, k \in Shards :
       (turn'[s] # turn[s] /\ s \in Held(k)) => s \notin polled[k]]_vars

\* The abstract specification: no session is lost, starved or polled too long.
Status ==
  [s \in Sessions |-> IF s \in Live THEN "live"
                      ELSE IF s \in over THEN "over" ELSE "new"]

Abstract == INSTANCE Ticker WITH status <- Status
ImplementsTicker == Abstract!Spec

=============================================================================
