--------------------------- MODULE SchedulerProofs ---------------------------
(***************************************************************************)
(* Proofs about the Scheduler, for any sessions, shards, delays and steps  *)
(* of the clock: who holds a session, what a pass has gone over, and that  *)
(* the shard threads do what Ticker says of them.                          *)
(***************************************************************************)
EXTENDS Scheduler, SequenceTheorems, TLAPS

\* A task of a shard whose clock was set back n times.
TaskAfter(n) == [session : Sessions, left : 0 .. MaxDelay + SetBack * n]

\* What stands in a channel, and the sessions that stand in a vector.
Elements(channel) == {channel[i] : i \in DOMAIN channel}
Names(vector) == {vector[i].session : i \in DOMAIN vector}
Distinct(vector) ==
  \A i, j \in DOMAIN vector : vector[i].session = vector[j].session => i = j

-----------------------------------------------------------------------------
\* Products that the bound on a task's delay is made of.
LEMMA SetBackProducts ==
  ASSUME NEW n \in Nat
  PROVE  /\ SetBack * n \in Nat
         /\ SetBack * (n + 1) = SetBack * n + SetBack
         /\ \A m \in 0 .. n : SetBack * m \in Nat /\ SetBack * m <= SetBack * n
<1>1. SetBack \in Nat
  BY SchedulerAssumption
<1>2. SetBack * n \in Nat /\ SetBack * (n + 1) = SetBack * n + SetBack
  BY <1>1
<1>3. ASSUME NEW m \in 0 .. n
      PROVE  SetBack * m \in Nat /\ SetBack * m <= SetBack * n
  <2>1. PICK d \in Nat : n = m + d
    BY m + (n - m) = n, n - m \in Nat
  <2>2. SetBack * m \in Nat /\ SetBack * d \in Nat
    BY <1>1
  <2>3. SetBack * (m + d) = SetBack * m + SetBack * d
    BY <1>1
  <2>. QED  BY <2>1, <2>2, <2>3
<1>. QED  BY <1>2, <1>3

\* A task's fields.
LEMMA TaskFields ==
  ASSUME NEW n \in Nat, NEW task \in TaskAfter(n)
  PROVE  /\ task.session \in Sessions
         /\ task.left \in Nat /\ task.left <= MaxDelay + SetBack * n
         /\ MaxDelay + SetBack * n \in Nat
BY SetBackProducts, SchedulerAssumption DEF TaskAfter

\* A task keeps its session when its delay changes.
LEMMA TaskWithLeft ==
  ASSUME NEW n \in Nat, NEW m \in Nat, NEW task \in TaskAfter(n),
         NEW l \in Nat, l <= MaxDelay + SetBack * m
  PROVE  /\ [task EXCEPT !.left = l] \in TaskAfter(m)
         /\ [task EXCEPT !.left = l].session = task.session
         /\ [task EXCEPT !.left = l].left = l
<1>1. MaxDelay + SetBack * m \in Nat
  BY SetBackProducts, SchedulerAssumption
<1>2. l \in 0 .. MaxDelay + SetBack * m
  BY <1>1
<1>. QED  BY <1>2 DEF TaskAfter

\* A task that a bound on the set backs allows, any greater bound allows.
LEMMA MoreSetBacks ==
  ASSUME NEW n \in Nat, NEW m \in 0 .. n
  PROVE  TaskAfter(m) \subseteq TaskAfter(n)
<1>1. /\ SetBack * m \in Nat /\ SetBack * n \in Nat
      /\ SetBack * m <= SetBack * n /\ MaxDelay \in Nat
  BY SetBackProducts, SchedulerAssumption
<1>2. 0 .. MaxDelay + SetBack * m \subseteq 0 .. MaxDelay + SetBack * n
  BY <1>1
<1>. QED  BY <1>2 DEF TaskAfter

\* A function on the positions of a vector is a vector.
LEMMA VectorOf ==
  ASSUME NEW T, NEW n \in Nat, NEW v \in [1 .. n -> T]
  PROVE  v \in Seq(T) /\ Len(v) = n /\ DOMAIN v = 1 .. n
BY SeqDef

\* A new sample of the clock brings every deadline nearer, of the same tasks.
LEMMA LaterVector ==
  ASSUME NEW n \in Nat, NEW v \in Seq(TaskAfter(n)), NEW ticks \in Nat
  PROVE  LET w == [i \in DOMAIN v |-> Later(v[i], ticks)]
         IN  /\ w \in Seq(TaskAfter(n)) /\ Len(w) = Len(v)
             /\ DOMAIN w = DOMAIN v
             /\ \A i \in DOMAIN v : w[i].session = v[i].session
<1> DEFINE w == [i \in DOMAIN v |-> Later(v[i], ticks)]
<1>1. Len(v) \in Nat /\ DOMAIN v = 1 .. Len(v) /\ v \in [1 .. Len(v) -> TaskAfter(n)]
  BY LenProperties
<1>2. ASSUME NEW i \in DOMAIN v
      PROVE  w[i] \in TaskAfter(n) /\ w[i].session = v[i].session
  <2>1. v[i] \in TaskAfter(n)
    BY <1>1, <1>2
  <2> DEFINE l == IF v[i].left > ticks THEN v[i].left - ticks ELSE 0
  <2>2. w[i] = [v[i] EXCEPT !.left = l]
    BY <1>2 DEF Later
  <2>3. l \in Nat /\ l <= MaxDelay + SetBack * n
    BY <2>1, TaskFields
  <2>. HIDE DEF l, w
  <2>. QED  BY <2>1, <2>2, <2>3, TaskWithLeft
<1>3. w \in [1 .. Len(v) -> TaskAfter(n)]
  BY <1>1, <1>2
<1>. HIDE DEF w
<1>4. w \in Seq(TaskAfter(n)) /\ Len(w) = Len(v) /\ DOMAIN w = DOMAIN v
  BY <1>1, <1>3, VectorOf
<1>5. QED  BY <1>2, <1>4 DEF w

\* A clock that was set back moves every deadline away, of the same tasks.
LEMMA SetBackVector ==
  ASSUME NEW n \in Nat, NEW v \in Seq(TaskAfter(n))
  PROVE  LET w == [i \in DOMAIN v |-> Further(v[i])]
         IN  /\ w \in Seq(TaskAfter(n + 1)) /\ Len(w) = Len(v)
             /\ DOMAIN w = DOMAIN v
             /\ \A i \in DOMAIN v : w[i].session = v[i].session
<1> DEFINE w == [i \in DOMAIN v |-> Further(v[i])]
<1>1. Len(v) \in Nat /\ DOMAIN v = 1 .. Len(v) /\ v \in [1 .. Len(v) -> TaskAfter(n)]
  BY LenProperties
<1>2. ASSUME NEW i \in DOMAIN v
      PROVE  w[i] \in TaskAfter(n + 1) /\ w[i].session = v[i].session
  <2>1. v[i] \in TaskAfter(n)
    BY <1>1, <1>2
  <2> DEFINE l == v[i].left + SetBack
  <2>2. w[i] = [v[i] EXCEPT !.left = l]
    BY <1>2 DEF Further
  <2>3. l \in Nat /\ l <= MaxDelay + SetBack * (n + 1) /\ n + 1 \in Nat
    <3>1. v[i].left \in Nat /\ v[i].left <= MaxDelay + SetBack * n
      BY <2>1, TaskFields
    <3>2. /\ SetBack * n \in Nat /\ MaxDelay \in Nat /\ SetBack \in Nat
          /\ SetBack * (n + 1) = SetBack * n + SetBack
      BY SetBackProducts, SchedulerAssumption
    <3>. QED  BY <3>1, <3>2
  <2>. HIDE DEF l, w
  <2>. QED  BY <2>1, <2>2, <2>3, TaskWithLeft
<1>3. w \in [1 .. Len(v) -> TaskAfter(n + 1)]
  BY <1>1, <1>2
<1>. HIDE DEF w
<1>4. w \in Seq(TaskAfter(n + 1)) /\ Len(w) = Len(v) /\ DOMAIN w = DOMAIN v
  BY <1>1, <1>3, VectorOf
<1>5. QED  BY <1>2, <1>4 DEF w

\* swap_remove keeps every task but the removed one, and no other moves than
\* the last one, which takes its place.
LEMMA SwapRemoveFacts ==
  ASSUME NEW T, NEW v \in Seq(T), NEW i \in DOMAIN v
  PROVE  LET w == SwapRemove(v, i)
         IN  /\ w \in Seq(T) /\ Len(w) = Len(v) - 1 /\ Len(v) \in Nat \ {0}
             /\ DOMAIN v = 1 .. Len(v)
             /\ DOMAIN w = 1 .. Len(v) - 1
             /\ \A j \in DOMAIN w : j \in DOMAIN v
                                    /\ w[j] = IF j = i THEN v[Len(v)] ELSE v[j]
<1> DEFINE w == SwapRemove(v, i)
<1>1. Len(v) \in Nat /\ DOMAIN v = 1 .. Len(v) /\ v \in [1 .. Len(v) -> T]
  BY LenProperties
<1>2. Len(v) \in Nat \ {0} /\ Len(v) - 1 \in Nat
  BY <1>1
<1>3. \A j \in 1 .. Len(v) - 1 :
        j \in DOMAIN v /\ w[j] = IF j = i THEN v[Len(v)] ELSE v[j]
  BY <1>1, <1>2 DEF SwapRemove, Last
<1>4. w \in [1 .. Len(v) - 1 -> T]
  BY <1>1, <1>2, <1>3 DEF SwapRemove
<1>. HIDE DEF w
<1>5. w \in Seq(T) /\ Len(w) = Len(v) - 1 /\ DOMAIN w = 1 .. Len(v) - 1
  BY <1>2, <1>4, VectorOf
<1>6. QED  BY <1>1, <1>2, <1>3, <1>5 DEF w

\* swap_remove takes one session out of the vector, and copies none.
LEMMA SwapRemoveNames ==
  ASSUME NEW T, NEW v \in Seq(T), NEW i \in DOMAIN v, Distinct(v)
  PROVE  /\ Names(SwapRemove(v, i)) = Names(v) \ {v[i].session}
         /\ Distinct(SwapRemove(v, i))
<1> DEFINE w == SwapRemove(v, i)
<1>1. /\ Len(v) \in Nat \ {0} /\ DOMAIN v = 1 .. Len(v)
      /\ DOMAIN w = 1 .. Len(v) - 1
      /\ \A j \in DOMAIN w : j \in DOMAIN v
                             /\ w[j] = IF j = i THEN v[Len(v)] ELSE v[j]
  BY SwapRemoveFacts
<1>. HIDE DEF w
<1>2. Distinct(w)
  BY <1>1 DEF Distinct
<1>3. ASSUME NEW s \in Names(w)
      PROVE  s \in Names(v) \ {v[i].session}
  <2>1. PICK j \in DOMAIN w : s = w[j].session
    BY <1>3 DEF Names
  <2>2. CASE j = i
    BY <1>1, <2>1, <2>2 DEF Names, Distinct
  <2>3. CASE j # i
    BY <1>1, <2>1, <2>3 DEF Names, Distinct
  <2>. QED  BY <2>2, <2>3
<1>4. ASSUME NEW s \in Names(v) \ {v[i].session}
      PROVE  s \in Names(w)
  <2>1. PICK j \in DOMAIN v : s = v[j].session /\ j # i
    BY <1>4 DEF Names
  <2>2. CASE j = Len(v)
    <3>1. i \in DOMAIN w /\ w[i] = v[j]
      BY <1>1, <2>1, <2>2
    <3>. QED  BY <2>1, <3>1 DEF Names
  <2>3. CASE j # Len(v)
    <3>1. j \in DOMAIN w /\ w[j] = v[j]
      BY <1>1, <2>1, <2>3
    <3>. QED  BY <2>1, <3>1 DEF Names
  <2>. QED  BY <2>2, <2>3
<1>5. Names(w) = Names(v) \ {v[i].session}
  BY <1>3, <1>4
<1>. QED  BY <1>2, <1>5 DEF w

\* A channel that a session is sent on.
LEMMA SendOnChannel ==
  ASSUME NEW T, NEW q \in Seq(T), NEW s \in T
  PROVE  /\ Append(q, s) \in Seq(T)
         /\ Elements(Append(q, s)) = Elements(q) \cup {s}
         /\ s \notin Elements(q) /\ IsInjective(q) => IsInjective(Append(q, s))
<1> DEFINE r == Append(q, s)
<1>1. /\ r \in Seq(T) /\ Len(r) = Len(q) + 1
      /\ \A i \in 1 .. Len(q) : r[i] = q[i]
      /\ r[Len(q) + 1] = s
  BY AppendProperties
<1>. HIDE DEF r
<1>2. Len(q) \in Nat /\ DOMAIN q = 1 .. Len(q) /\ DOMAIN r = 1 .. Len(q) + 1
  BY <1>1, LenProperties
<1>3. Elements(r) = Elements(q) \cup {s}
  BY <1>1, <1>2 DEF Elements
<1>4. s \notin Elements(q) /\ IsInjective(q) => IsInjective(r)
  BY <1>1, <1>2 DEF Elements, IsInjective
<1>. QED  BY <1>1, <1>3, <1>4 DEF r

\* A channel that a session is taken from.
LEMMA TakeFromChannel ==
  ASSUME NEW T, NEW q \in Seq(T), q # <<>>
  PROVE  /\ Tail(q) \in Seq(T) /\ Head(q) \in T
         /\ Elements(q) = Elements(Tail(q)) \cup {Head(q)}
         /\ IsInjective(q) =>
              IsInjective(Tail(q)) /\ Head(q) \notin Elements(Tail(q))
<1> DEFINE r == Tail(q)
           h == Head(q)
<1>1. /\ r \in Seq(T) /\ h \in T /\ Len(r) = Len(q) - 1
      /\ \A i \in 1 .. Len(r) : r[i] = q[i + 1]
  BY HeadTailProperties
<1>2. Len(q) \in Nat \ {0} /\ DOMAIN q = 1 .. Len(q) /\ h = q[1]
  BY LenProperties, EmptySeq
<1>. HIDE DEF r, h
<1>3. DOMAIN r = 1 .. Len(q) - 1
  BY <1>1, LenProperties
<1>4. \A i \in DOMAIN r : i + 1 \in DOMAIN q /\ i + 1 # 1 /\ r[i] = q[i + 1]
  BY <1>1, <1>2, <1>3
<1>5. Elements(q) = Elements(r) \cup {h}
  <2>1. ASSUME NEW i \in DOMAIN q, i # 1
        PROVE  q[i] \in Elements(r)
    <3>1. i - 1 \in DOMAIN r /\ r[i - 1] = q[i]
      BY <1>1, <1>2, <1>3, <2>1
    <3>. QED  BY <3>1 DEF Elements
  <2>. QED  BY <1>2, <1>4, <2>1 DEF Elements
<1>6. IsInjective(q) => IsInjective(r) /\ h \notin Elements(r)
  <2>1. SUFFICES ASSUME IsInjective(q)
                 PROVE  IsInjective(r) /\ h \notin Elements(r)
    OBVIOUS
  <2>2. h \notin Elements(r)
    BY <1>2, <1>4, <2>1 DEF Elements, IsInjective
  <2>3. ASSUME NEW a \in DOMAIN r, NEW b \in DOMAIN r, r[a] = r[b]
        PROVE  a = b
    <3>1. a + 1 = b + 1
      BY <1>4, <2>1, <2>3 DEF IsInjective
    <3>2. a \in Nat /\ b \in Nat
      BY <1>2, <1>3
    <3>. QED  BY <3>1, <3>2
  <2>. QED  BY <2>2, <2>3 DEF IsInjective
<1>. QED  BY <1>1, <1>5, <1>6 DEF r, h

-----------------------------------------------------------------------------
(***************************************************************************)
(* Types.  A task is as far in the future as a poll may ask for, and as    *)
(* the set backs its shard has met may have added.                         *)
(***************************************************************************)
LeftBounded == \A k \in Shards : tasks[k] \in Seq(TaskAfter(set_backs[k]))

Typed == TypeOK /\ LeftBounded

\* A shard's vector, its tasks and its length.
LEMMA ShardTypes ==
  ASSUME Typed, NEW k \in Shards
  PROVE  /\ set_backs[k] \in 0 .. MaxSetBacks /\ set_backs[k] \in Nat
         /\ tasks[k] \in Seq(TaskAfter(set_backs[k]))
         /\ Len(tasks[k]) \in Nat /\ DOMAIN tasks[k] = 1 .. Len(tasks[k])
         /\ \A i \in DOMAIN tasks[k] :
              /\ tasks[k][i] \in TaskAfter(set_backs[k])
              /\ tasks[k][i].session \in Sessions
              /\ tasks[k][i].left \in Nat
         /\ commands[k] \in Seq(Sessions)
         /\ idx[k] \in Nat /\ idx[k] >= 1 /\ idx[k] <= Len(tasks[k]) + 1
<1>1. /\ set_backs[k] \in 0 .. MaxSetBacks /\ set_backs[k] \in Nat
      /\ tasks[k] \in Seq(TaskAfter(set_backs[k]))
  BY SchedulerAssumption DEF Typed, TypeOK, LeftBounded
<1>2. /\ Len(tasks[k]) \in Nat /\ DOMAIN tasks[k] = 1 .. Len(tasks[k])
      /\ \A i \in DOMAIN tasks[k] : tasks[k][i] \in TaskAfter(set_backs[k])
  BY <1>1, LenProperties
<1>3. \A i \in DOMAIN tasks[k] :
        tasks[k][i].session \in Sessions /\ tasks[k][i].left \in Nat
  BY <1>1, <1>2, TaskFields
<1>4. commands[k] \in Seq(Sessions) /\ idx[k] \in 1 .. Len(tasks[k]) + 1
  BY DEF Typed, TypeOK
<1>. QED  BY <1>1, <1>2, <1>3, <1>4

\* A thread that puts another vector in the place of its own.
LEMMA NewVector ==
  ASSUME Typed, NEW k \in Shards, NEW n \in 0 .. MaxSetBacks,
         NEW v \in Seq(TaskAfter(n)),
         tasks' = [tasks EXCEPT ![k] = v],
         set_backs' = [set_backs EXCEPT ![k] = n]
  PROVE  /\ tasks' \in [Shards -> Seq(ScheduledTask)]
         /\ set_backs' \in [Shards -> 0 .. MaxSetBacks]
         /\ LeftBounded'
         /\ tasks'[k] = v /\ \A j \in Shards \ {k} : tasks'[j] = tasks[j]
<1>1. tasks \in [Shards -> Seq(ScheduledTask)]
      /\ set_backs \in [Shards -> 0 .. MaxSetBacks]
  BY DEF Typed, TypeOK
<1>2. TaskAfter(n) \subseteq ScheduledTask
  <2>1. MaxSetBacks \in Nat
    BY SchedulerAssumption
  <2>. QED  BY <2>1, MoreSetBacks DEF ScheduledTask, TaskAfter
<1>3. v \in Seq(ScheduledTask)
  BY <1>2, SeqMonotonic
<1>. QED  BY <1>1, <1>3 DEF LeftBounded, Typed

\* The same, by a thread that did not see the clock go back.
LEMMA NewVectorSameClock ==
  ASSUME Typed, NEW k \in Shards, NEW v \in Seq(TaskAfter(set_backs[k])),
         tasks' = [tasks EXCEPT ![k] = v],
         UNCHANGED set_backs
  PROVE  /\ tasks' \in [Shards -> Seq(ScheduledTask)]
         /\ set_backs' \in [Shards -> 0 .. MaxSetBacks]
         /\ LeftBounded'
         /\ tasks'[k] = v /\ \A j \in Shards \ {k} : tasks'[j] = tasks[j]
<1>1. set_backs' = [set_backs EXCEPT ![k] = set_backs[k]]
      /\ set_backs[k] \in 0 .. MaxSetBacks
  BY DEF Typed, TypeOK
<1>. QED  BY <1>1, NewVector

\* The deadline that a poll returned, and nothing else, is new in the vector.
LEMMA PollSomeVector ==
  ASSUME Typed, NEW k \in Shards, Scanning(k), NEW delay \in 0 .. MaxDelay
  PROVE  LET v == [tasks EXCEPT ![k][idx[k]].left = delay][k]
         IN  /\ [tasks EXCEPT ![k][idx[k]].left = delay]
                  = [tasks EXCEPT ![k] = v]
             /\ v \in Seq(TaskAfter(set_backs[k])) /\ Len(v) = Len(tasks[k])
             /\ DOMAIN v = DOMAIN tasks[k]
             /\ \A i \in DOMAIN v : v[i].session = tasks[k][i].session
             /\ \A i \in DOMAIN v \ {idx[k]} : v[i] = tasks[k][i]
<1> DEFINE t == [tasks[k][idx[k]] EXCEPT !.left = delay]
           v == [tasks[k] EXCEPT ![idx[k]] = t]
<1>1. idx[k] \in DOMAIN tasks[k] /\ idx[k] \in 1 .. Len(tasks[k])
  BY ShardTypes DEF Scanning
<1>2. t \in TaskAfter(set_backs[k])
      /\ t.session = tasks[k][idx[k]].session
  <2>1. tasks[k][idx[k]] \in TaskAfter(set_backs[k]) /\ set_backs[k] \in Nat
    BY <1>1, ShardTypes
  <2>2. delay \in Nat /\ delay <= MaxDelay + SetBack * set_backs[k]
    <3>1. SetBack * set_backs[k] \in Nat
      BY <2>1, SetBackProducts
    <3>. QED  BY <3>1, SchedulerAssumption
  <2>. QED  BY <2>1, <2>2, TaskWithLeft
<1>3. [tasks EXCEPT ![k][idx[k]].left = delay] = [tasks EXCEPT ![k] = v]
  OBVIOUS
<1>. HIDE DEF t
<1>4. /\ v \in Seq(TaskAfter(set_backs[k])) /\ Len(v) = Len(tasks[k])
      /\ \A i \in 1 .. Len(tasks[k]) : v[i] = IF i = idx[k] THEN t ELSE tasks[k][i]
  BY <1>1, <1>2, ShardTypes, ExceptSeq
<1>5. DOMAIN v = DOMAIN tasks[k]
  OBVIOUS
<1>. HIDE DEF v
<1>6. [tasks EXCEPT ![k] = v][k] = v
  BY DEF Typed, TypeOK
<1>7. \A i \in DOMAIN v : v[i].session = tasks[k][i].session
  BY <1>2, <1>4, <1>5, ShardTypes
<1>8. \A i \in DOMAIN v \ {idx[k]} : v[i] = tasks[k][i]
  BY <1>4, <1>5, ShardTypes
<1>. QED  BY <1>3, <1>4, <1>5, <1>6, <1>7, <1>8

\* The vector of a shard after each of the ways in which its thread changes it.
LEMMA DrainVector ==
  ASSUME Typed, NEW k \in Shards, DrainOne(k)
  PROVE  LET t == [session |-> Head(commands[k]), left |-> 0]
             v == Append(tasks[k], t)
         IN  /\ v \in Seq(TaskAfter(set_backs[k]))
             /\ Len(v) = Len(tasks[k]) + 1 /\ DOMAIN v = 1 .. Len(tasks[k]) + 1
             /\ v[Len(tasks[k]) + 1].session = Head(commands[k])
             /\ \A i \in DOMAIN tasks[k] : v[i] = tasks[k][i]
<1> DEFINE t == [session |-> Head(commands[k]), left |-> 0]
           v == Append(tasks[k], t)
<1>1. Head(commands[k]) \in Sessions
  BY ShardTypes, HeadTailProperties DEF DrainOne
<1>2. t \in TaskAfter(set_backs[k]) /\ t.session = Head(commands[k])
  <2>1. set_backs[k] \in Nat /\ SetBack * set_backs[k] \in Nat
    BY ShardTypes, SetBackProducts
  <2>2. 0 \in 0 .. MaxDelay + SetBack * set_backs[k]
    BY <2>1, SchedulerAssumption
  <2>. QED  BY <1>1, <2>2 DEF TaskAfter
<1>. HIDE DEF t
<1>3. /\ v \in Seq(TaskAfter(set_backs[k])) /\ Len(v) = Len(tasks[k]) + 1
      /\ \A i \in 1 .. Len(tasks[k]) : v[i] = tasks[k][i]
      /\ v[Len(tasks[k]) + 1] = t
  BY <1>2, ShardTypes, AppendProperties
<1>. HIDE DEF v
<1>4. DOMAIN v = 1 .. Len(tasks[k]) + 1
  BY <1>3, LenProperties
<1>5. v[Len(tasks[k]) + 1].session = Head(commands[k])
  BY <1>2, <1>3
<1>6. \A i \in DOMAIN tasks[k] : v[i] = tasks[k][i]
  BY <1>3, ShardTypes
<1>. QED  BY <1>3, <1>4, <1>5, <1>6 DEF v, t

\* The shard of a registration is one of the shards.
LEMMA NextShard ==
  ASSUME Typed
  PROVE  next_shard \in Shards /\ (next_shard + 1) % NumShards \in Shards
<1>1. next_shard \in 0 .. NumShards - 1 /\ NumShards \in Nat \ {0}
  BY SchedulerAssumption DEF Typed, TypeOK, Shards
<1>2. next_shard + 1 \in Nat
  BY <1>1
<1>3. (next_shard + 1) % NumShards \in 0 .. NumShards - 1
  BY <1>1, <1>2
<1>. QED  BY <1>1, <1>3 DEF Shards

\* A poll notes the session, which has another turn.
LEMMA PollTypes ==
  ASSUME Typed, NEW k \in Shards, Polling(k), Current(k).session \in Sessions
  PROVE  polled' \in [Shards -> SUBSET Sessions] /\ turn' \in [Sessions -> BOOLEAN]
<1> DEFINE s == Current(k).session
           new == polled[k] \cup {s}
           other == ~ turn[s]
<1>1. polled \in [Shards -> SUBSET Sessions] /\ turn \in [Sessions -> BOOLEAN]
  BY DEF Typed, TypeOK
<1>2. polled' = [polled EXCEPT ![k] = new] /\ turn' = [turn EXCEPT ![s] = other]
  BY DEF Polling
<1>3. new \in SUBSET Sessions /\ other \in BOOLEAN
  BY <1>1
<1>. HIDE DEF s, new, other
<1>. QED  BY <1>1, <1>2, <1>3

\* Every step of a thread, and every registration, keeps the types.
LEMMA NextTyped == Typed /\ [Next]_vars => Typed'
<1>. SUFFICES ASSUME Typed, [Next]_vars PROVE Typed'
  OBVIOUS
<1>1. CASE UNCHANGED vars
  BY <1>1 DEF vars, Typed, TypeOK, LeftBounded, TaskAfter
<1>2. ASSUME NEW s \in Sessions, Register(s)
      PROVE  Typed'
  <2>1. /\ next_shard \in Shards /\ (next_shard + 1) % NumShards \in Shards
        /\ Append(commands[next_shard], s) \in Seq(Sessions)
    BY NextShard, ShardTypes, SendOnChannel
  <2>2. commands' \in [Shards -> Seq(Sessions)]
    BY <1>2, <2>1 DEF Register, Typed, TypeOK
  <2>. QED  BY <1>2, <2>1, <2>2 DEF Register, Typed, TypeOK, LeftBounded
<1>3. ASSUME NEW k \in Shards, Wake(k)
      PROVE  Typed'
  BY <1>3 DEF Wake, Typed, TypeOK, LeftBounded
<1>4. ASSUME NEW k \in Shards, DrainOne(k)
      PROVE  Typed'
  <2> DEFINE v == Append(tasks[k], [session |-> Head(commands[k]), left |-> 0])
  <2>1. v \in Seq(TaskAfter(set_backs[k])) /\ Len(v) = Len(tasks[k]) + 1
    BY <1>4, DrainVector
  <2>2. tasks' = [tasks EXCEPT ![k] = v] /\ UNCHANGED set_backs
    BY <1>4 DEF DrainOne
  <2>. HIDE DEF v
  <2>3. /\ tasks' \in [Shards -> Seq(ScheduledTask)]
        /\ set_backs' \in [Shards -> 0 .. MaxSetBacks]
        /\ LeftBounded'
        /\ tasks'[k] = v /\ \A j \in Shards \ {k} : tasks'[j] = tasks[j]
    BY <2>1, <2>2, NewVectorSameClock
  <2>4. Tail(commands[k]) \in Seq(Sessions)
    BY <1>4, ShardTypes, TakeFromChannel DEF DrainOne
  <2>5. commands' \in [Shards -> Seq(Sessions)]
    BY <1>4, <2>4 DEF DrainOne, Typed, TypeOK
  <2>6. \A j \in Shards : idx'[j] \in 1 .. Len(tasks'[j]) + 1
    BY <1>4, <2>1, <2>3, ShardTypes DEF DrainOne
  <2>. QED  BY <1>4, <2>3, <2>5, <2>6 DEF DrainOne, Typed, TypeOK
<1>5. ASSUME NEW k \in Shards, BeginPass(k)
      PROVE  Typed'
  <2>1. PICK ticks \in Steps :
          tasks' = [tasks EXCEPT ![k] = [i \in DOMAIN tasks[k] |-> Later(tasks[k][i], ticks)]]
    BY <1>5, SchedulerAssumption DEF BeginPass, Typed, TypeOK
  <2> DEFINE v == [i \in DOMAIN tasks[k] |-> Later(tasks[k][i], ticks)]
  <2>2. v \in Seq(TaskAfter(set_backs[k])) /\ Len(v) = Len(tasks[k])
    BY ShardTypes, SchedulerAssumption, LaterVector
  <2>3. tasks' = [tasks EXCEPT ![k] = v] /\ UNCHANGED set_backs
    BY <1>5, <2>1 DEF BeginPass
  <2>. HIDE DEF v
  <2>4. /\ tasks' \in [Shards -> Seq(ScheduledTask)]
        /\ set_backs' \in [Shards -> 0 .. MaxSetBacks]
        /\ LeftBounded'
        /\ tasks'[k] = v /\ \A j \in Shards \ {k} : tasks'[j] = tasks[j]
    BY <2>2, <2>3, NewVectorSameClock
  <2>5. idx' = [idx EXCEPT ![k] = 1] /\ idx \in [Shards -> Nat]
    BY <1>5 DEF BeginPass, Typed, TypeOK
  <2>6. ASSUME NEW j \in Shards
        PROVE  idx'[j] \in 1 .. Len(tasks'[j]) + 1
    <3>1. Len(tasks[j]) \in Nat /\ idx[j] \in 1 .. Len(tasks[j]) + 1
      BY ShardTypes
    <3>2. CASE j = k
      BY <2>2, <2>4, <2>5, <3>1, <3>2
    <3>3. CASE j # k
      BY <2>4, <2>5, <3>1, <3>3
    <3>. QED  BY <3>2, <3>3
  <2>. QED  BY <1>5, <2>4, <2>5, <2>6 DEF BeginPass, Typed, TypeOK
<1>6. ASSUME NEW k \in Shards, SkipNotDue(k)
      PROVE  Typed'
  <2>1. idx' = [idx EXCEPT ![k] = idx[k] + 1] /\ idx \in [Shards -> Nat]
    BY <1>6 DEF SkipNotDue, Typed, TypeOK
  <2>2. \A j \in Shards : idx'[j] \in 1 .. Len(tasks'[j]) + 1
    BY <1>6, <2>1, ShardTypes DEF SkipNotDue, Scanning
  <2>. QED  BY <1>6, <2>1, <2>2 DEF SkipNotDue, Typed, TypeOK, LeftBounded
<1>7. ASSUME NEW k \in Shards, PollSome(k)
      PROVE  Typed'
  <2>1. PICK delay \in 0 .. MaxDelay : tasks' = [tasks EXCEPT ![k][idx[k]].left = delay]
    BY <1>7 DEF PollSome
  <2> DEFINE v == [tasks EXCEPT ![k][idx[k]].left = delay][k]
  <2>2. /\ v \in Seq(TaskAfter(set_backs[k])) /\ Len(v) = Len(tasks[k])
        /\ tasks' = [tasks EXCEPT ![k] = v] /\ UNCHANGED set_backs
    BY <1>7, <2>1, PollSomeVector DEF PollSome, Polling
  <2>. HIDE DEF v
  <2>3. /\ tasks' \in [Shards -> Seq(ScheduledTask)]
        /\ set_backs' \in [Shards -> 0 .. MaxSetBacks]
        /\ LeftBounded'
        /\ tasks'[k] = v /\ \A j \in Shards \ {k} : tasks'[j] = tasks[j]
    BY <2>2, NewVectorSameClock
  <2>4. idx' = [idx EXCEPT ![k] = idx[k] + 1] /\ idx \in [Shards -> Nat]
    BY <1>7 DEF PollSome, Typed, TypeOK
  <2>5. \A j \in Shards : idx'[j] \in 1 .. Len(tasks'[j]) + 1
    BY <1>7, <2>2, <2>3, <2>4, ShardTypes DEF PollSome, Polling, Scanning
  <2>6. Current(k).session \in Sessions
    BY <1>7, ShardTypes DEF PollSome, Polling, Scanning, Current
  <2>7. idx' \in [Shards -> Nat]
    <3>1. idx[k] + 1 \in Nat
      BY <2>4
    <3>. QED  BY <2>4, <3>1
  <2>8. polled' \in [Shards -> SUBSET Sessions] /\ turn' \in [Sessions -> BOOLEAN]
    BY <1>7, <2>6, PollTypes DEF PollSome
  <2>9. UNCHANGED <<commands, pc, next_shard, over>>
    BY <1>7 DEF PollSome
  <2>. QED
    BY <2>3, <2>5, <2>7, <2>8, <2>9 DEF Typed, TypeOK
<1>8. ASSUME NEW k \in Shards, PollNone(k)
      PROVE  Typed'
  <2> DEFINE v == SwapRemove(tasks[k], idx[k])
  <2>1. idx[k] \in DOMAIN tasks[k]
    BY <1>8, ShardTypes DEF PollNone, Polling, Scanning
  <2>2. /\ v \in Seq(TaskAfter(set_backs[k])) /\ Len(v) = Len(tasks[k]) - 1
        /\ tasks' = [tasks EXCEPT ![k] = v] /\ UNCHANGED set_backs
    <3>1. tasks' = [tasks EXCEPT ![k] = v] /\ UNCHANGED set_backs
      BY <1>8 DEF PollNone
    <3>2. tasks[k] \in Seq(TaskAfter(set_backs[k]))
      BY ShardTypes
    <3>3. v \in Seq(TaskAfter(set_backs[k])) /\ Len(v) = Len(tasks[k]) - 1
      BY <2>1, <3>2, SwapRemoveFacts
    <3>. QED  BY <3>1, <3>3
  <2>. HIDE DEF v
  <2>3. /\ tasks' \in [Shards -> Seq(ScheduledTask)]
        /\ set_backs' \in [Shards -> 0 .. MaxSetBacks]
        /\ LeftBounded'
        /\ tasks'[k] = v /\ \A j \in Shards \ {k} : tasks'[j] = tasks[j]
    BY <2>2, NewVectorSameClock
  <2>4. \A j \in Shards : idx'[j] \in 1 .. Len(tasks'[j]) + 1
    BY <1>8, <2>2, <2>3, ShardTypes DEF PollNone, Polling, Scanning
  <2>5. Current(k).session \in Sessions
    BY <2>1, ShardTypes DEF Current
  <2>6. polled' \in [Shards -> SUBSET Sessions] /\ turn' \in [Sessions -> BOOLEAN]
    BY <1>8, <2>5, PollTypes DEF PollNone
  <2>7. /\ over' \subseteq Sessions
        /\ UNCHANGED <<commands, pc, idx, next_shard>>
    BY <1>8, <2>5 DEF PollNone, Typed, TypeOK
  <2>. QED
    BY <2>3, <2>4, <2>6, <2>7 DEF Typed, TypeOK
<1>9. ASSUME NEW k \in Shards, EndPass(k)
      PROVE  Typed'
  BY <1>9 DEF EndPass, Typed, TypeOK, LeftBounded
<1>10. ASSUME NEW k \in Shards, ClockSetBack(k)
       PROVE  Typed'
  <2> DEFINE v == [i \in DOMAIN tasks[k] |-> Further(tasks[k][i])]
             n == set_backs[k] + 1
  <2>1. /\ v \in Seq(TaskAfter(n)) /\ Len(v) = Len(tasks[k])
        /\ n \in 0 .. MaxSetBacks
    BY <1>10, ShardTypes, SetBackVector, SchedulerAssumption DEF ClockSetBack
  <2>2. tasks' = [tasks EXCEPT ![k] = v] /\ set_backs' = [set_backs EXCEPT ![k] = n]
    BY <1>10 DEF ClockSetBack
  <2>. HIDE DEF v, n
  <2>3. /\ tasks' \in [Shards -> Seq(ScheduledTask)]
        /\ set_backs' \in [Shards -> 0 .. MaxSetBacks]
        /\ LeftBounded'
        /\ tasks'[k] = v /\ \A j \in Shards \ {k} : tasks'[j] = tasks[j]
    BY <2>1, <2>2, NewVector
  <2>4. \A j \in Shards : idx'[j] \in 1 .. Len(tasks'[j]) + 1
    BY <1>10, <2>1, <2>3, ShardTypes DEF ClockSetBack
  <2>. QED  BY <1>10, <2>3, <2>4 DEF ClockSetBack, Typed, TypeOK
<1>. QED
  BY <1>1, <1>2, <1>3, <1>4, <1>5, <1>6, <1>7, <1>8, <1>9, <1>10 DEF Next, Thread

-----------------------------------------------------------------------------
(***************************************************************************)
(* Who holds a session.  HeldInv is HeldOnce, in terms of what one shard   *)
(* holds in its channel and in its vector.                                 *)
(***************************************************************************)
Holds(channel, vector) == Elements(channel) \cup Names(vector)

Once(channel, vector, gone) ==
  /\ IsInjective(channel)
  /\ Distinct(vector)
  /\ Elements(channel) \cap Names(vector) = {}
  /\ Holds(channel, vector) \cap gone = {}

HeldInv ==
  /\ \A k \in Shards : Once(commands[k], tasks[k], over)
  /\ \A j, k \in Shards :
       j # k => Holds(commands[j], tasks[j]) \cap Holds(commands[k], tasks[k]) = {}

\* HeldInv says what HeldOnce says.
LEMMA HeldInvIsHeldOnce == HeldInv => HeldOnce
<1>. SUFFICES ASSUME HeldInv PROVE HeldOnce
  OBVIOUS
<1>1. ASSUME NEW k \in Shards
      PROVE  Waiting(k) = Elements(commands[k]) /\ Held(k) = Names(tasks[k])
  BY DEF Waiting, Held, Elements, Names
<1>2. ASSUME NEW k \in Shards
      PROVE  IsInjective([i \in DOMAIN tasks[k] |-> tasks[k][i].session])
  BY DEF HeldInv, Once, Distinct, IsInjective
<1>. QED  BY <1>1, <1>2 DEF HeldOnce, HeldInv, Once, Holds

\* A vector whose tasks keep their sessions.
LEMMA SameNames ==
  ASSUME NEW v, NEW w, DOMAIN w = DOMAIN v,
         \A i \in DOMAIN v : w[i].session = v[i].session
  PROVE  Names(w) = Names(v) /\ (Distinct(v) => Distinct(w))
BY DEF Names, Distinct

\* A vector that a session is put at the end of.
LEMMA NamesAfterPush ==
  ASSUME NEW v, NEW w, NEW n \in Nat, DOMAIN v = 1 .. n, DOMAIN w = 1 .. n + 1,
         \A i \in DOMAIN v : w[i] = v[i]
  PROVE  /\ Names(w) = Names(v) \cup {w[n + 1].session}
         /\ Distinct(v) /\ w[n + 1].session \notin Names(v) => Distinct(w)
<1>1. /\ \A i \in DOMAIN w : i \in DOMAIN v \/ i = n + 1
      /\ \A i \in DOMAIN v : i \in DOMAIN w /\ i # n + 1
      /\ n + 1 \in DOMAIN w
  OBVIOUS
<1>2. Names(w) = Names(v) \cup {w[n + 1].session}
  BY <1>1 DEF Names
<1>3. ASSUME Distinct(v), w[n + 1].session \notin Names(v)
      PROVE  Distinct(w)
  BY <1>1, <1>3 DEF Names, Distinct
<1>. QED  BY <1>2, <1>3

\* A step of one shard that adds no session to what it holds, and after which
\* only sessions that it held are over, disturbs no other shard.
LEMMA OneShardChanges ==
  ASSUME HeldInv, NEW k \in Shards,
         \A j \in Shards \ {k} : commands'[j] = commands[j] /\ tasks'[j] = tasks[j],
         Once(commands'[k], tasks'[k], over'),
         Holds(commands'[k], tasks'[k]) \subseteq Holds(commands[k], tasks[k]),
         over' \subseteq over \cup Holds(commands[k], tasks[k])
  PROVE  HeldInv'
<1>1. ASSUME NEW j \in Shards
      PROVE  Once(commands'[j], tasks'[j], over')
  <2>1. CASE j # k
    <3>1. Once(commands[j], tasks[j], over)
          /\ Holds(commands[j], tasks[j]) \cap Holds(commands[k], tasks[k]) = {}
      BY <2>1 DEF HeldInv
    <3>2. Holds(commands[j], tasks[j]) \cap over' = {}
      BY <3>1 DEF Once
    <3>. QED  BY <2>1, <3>1, <3>2 DEF Once
  <2>. QED  BY <2>1
<1>2. ASSUME NEW i \in Shards, NEW j \in Shards, i # j
      PROVE  Holds(commands'[i], tasks'[i]) \cap Holds(commands'[j], tasks'[j]) = {}
  <2>1. /\ Holds(commands'[i], tasks'[i]) \subseteq Holds(commands[i], tasks[i])
        /\ Holds(commands'[j], tasks'[j]) \subseteq Holds(commands[j], tasks[j])
    OBVIOUS
  <2>. QED  BY <1>2, <2>1 DEF HeldInv
<1>. QED  BY <1>1, <1>2 DEF HeldInv

\* A step that moves no session.
LEMMA NobodyMoves ==
  ASSUME HeldInv, UNCHANGED <<commands, tasks, over>>
  PROVE  HeldInv'
BY DEF HeldInv

\* A thread takes a session from its channel into its vector.
LEMMA DrainHeld ==
  ASSUME Typed, HeldInv, NEW k \in Shards, DrainOne(k)
  PROVE  /\ HeldInv'
         /\ Holds(commands'[k], tasks'[k]) = Holds(commands[k], tasks[k])
<1> DEFINE v == tasks[k]
           w == Append(tasks[k], [session |-> Head(commands[k]), left |-> 0])
           s == Head(commands[k])
           n == Len(tasks[k])
<1>1. /\ commands' = [commands EXCEPT ![k] = Tail(commands[k])]
      /\ tasks' = [tasks EXCEPT ![k] = w]
      /\ over' = over /\ commands[k] # <<>>
  BY DEF DrainOne
<1>2. /\ commands'[k] = Tail(commands[k]) /\ tasks'[k] = w
      /\ \A j \in Shards \ {k} : commands'[j] = commands[j] /\ tasks'[j] = tasks[j]
  BY <1>1 DEF Typed, TypeOK
<1>3. /\ DOMAIN w = 1 .. n + 1 /\ w[n + 1].session = s
      /\ \A i \in DOMAIN v : w[i] = v[i]
      /\ n \in Nat /\ DOMAIN v = 1 .. n
  BY DrainVector, ShardTypes
<1>. HIDE DEF w
<1>4. /\ Elements(commands[k]) = Elements(Tail(commands[k])) \cup {s}
      /\ IsInjective(commands[k]) =>
           IsInjective(Tail(commands[k])) /\ s \notin Elements(Tail(commands[k]))
  BY <1>1, ShardTypes, TakeFromChannel
<1>. HIDE DEF v, n, s
<1>5. /\ Names(w) = Names(v) \cup {s}
      /\ Distinct(v) /\ s \notin Names(v) => Distinct(w)
  BY <1>3, NamesAfterPush
<1>6. Once(commands[k], v, over)
  BY DEF HeldInv, v
<1>7. /\ Holds(Tail(commands[k]), w) = Holds(commands[k], v)
      /\ Once(Tail(commands[k]), w, over)
  BY <1>4, <1>5, <1>6 DEF Once, Holds
<1>8. Holds(commands'[k], tasks'[k]) = Holds(commands[k], tasks[k])
  BY <1>2, <1>7 DEF v
<1>9. Once(commands'[k], tasks'[k], over')
  BY <1>1, <1>2, <1>7
<1>. QED  BY <1>1, <1>2, <1>8, <1>9, OneShardChanges

\* A session that returned None is held by nobody any more.
LEMMA NoneHeld ==
  ASSUME Typed, HeldInv, NEW k \in Shards, PollNone(k)
  PROVE  /\ HeldInv'
         /\ Holds(commands'[k], tasks'[k])
              = Holds(commands[k], tasks[k]) \ {Current(k).session}
         /\ Current(k).session \in Names(tasks[k])
<1> DEFINE v == tasks[k]
           w == SwapRemove(tasks[k], idx[k])
           s == Current(k).session
<1>1. /\ tasks' = [tasks EXCEPT ![k] = w] /\ commands' = commands
      /\ over' = over \cup {s}
  BY DEF PollNone
<1>2. /\ commands'[k] = commands[k] /\ tasks'[k] = w
      /\ \A j \in Shards \ {k} : commands'[j] = commands[j] /\ tasks'[j] = tasks[j]
  BY <1>1 DEF Typed, TypeOK
<1>3. idx[k] \in DOMAIN v /\ s = v[idx[k]].session
  BY ShardTypes DEF PollNone, Polling, Scanning, Current
<1>4. Once(commands[k], v, over)
  BY DEF HeldInv
<1>5. Names(w) = Names(v) \ {s} /\ Distinct(w)
  <2>1. v \in Seq(TaskAfter(set_backs[k])) /\ Distinct(v)
    BY <1>4, ShardTypes DEF Once
  <2>. QED  BY <1>3, <2>1, SwapRemoveNames
<1>6. s \in Names(v)
  BY <1>3 DEF Names
<1>. HIDE DEF w, s
<1>7. /\ Holds(commands[k], w) = Holds(commands[k], v) \ {s}
      /\ Once(commands[k], w, over \cup {s})
      /\ s \in Holds(commands[k], v)
  BY <1>4, <1>5, <1>6 DEF Once, Holds
<1>8. Holds(commands'[k], tasks'[k]) = Holds(commands[k], tasks[k]) \ {s}
  BY <1>2, <1>7
<1>9. Once(commands'[k], tasks'[k], over')
  BY <1>1, <1>2, <1>7
<1>10. over' \subseteq over \cup Holds(commands[k], tasks[k])
  BY <1>1, <1>7
<1>11. HeldInv'
  BY <1>2, <1>8, <1>9, <1>10, OneShardChanges
<1>. QED  BY <1>6, <1>8, <1>11 DEF s

\* What a thread does to its own tasks' deadlines moves no session.
LEMMA DeadlinesHeld ==
  ASSUME Typed, HeldInv, NEW k \in Shards,
         BeginPass(k) \/ PollSome(k) \/ ClockSetBack(k)
  PROVE  /\ HeldInv'
         /\ \A j \in Shards :
              Holds(commands'[j], tasks'[j]) = Holds(commands[j], tasks[j])
<1>1. /\ DOMAIN tasks'[k] = DOMAIN tasks[k]
      /\ \A i \in DOMAIN tasks[k] : tasks'[k][i].session = tasks[k][i].session
      /\ \A j \in Shards \ {k} : tasks'[j] = tasks[j]
      /\ UNCHANGED <<commands, over>>
  <2>1. CASE BeginPass(k)
    <3>1. PICK ticks \in Steps :
            tasks' = [tasks EXCEPT ![k] = [i \in DOMAIN tasks[k] |-> Later(tasks[k][i], ticks)]]
      BY <2>1 DEF BeginPass
    <3>2. ticks \in Nat
      BY SchedulerAssumption
    <3> DEFINE w == [i \in DOMAIN tasks[k] |-> Later(tasks[k][i], ticks)]
    <3>3. DOMAIN w = DOMAIN tasks[k]
          /\ \A i \in DOMAIN tasks[k] : w[i].session = tasks[k][i].session
      BY <3>2, ShardTypes, LaterVector
    <3>4. tasks' = [tasks EXCEPT ![k] = w]
      BY <3>1
    <3>. HIDE DEF w
    <3>5. tasks'[k] = w /\ \A j \in Shards \ {k} : tasks'[j] = tasks[j]
      BY <3>4 DEF Typed, TypeOK
    <3>. QED  BY <2>1, <3>3, <3>5 DEF BeginPass
  <2>2. CASE PollSome(k)
    <3>1. PICK delay \in 0 .. MaxDelay : tasks' = [tasks EXCEPT ![k][idx[k]].left = delay]
      BY <2>2 DEF PollSome
    <3> DEFINE w == [tasks EXCEPT ![k][idx[k]].left = delay][k]
    <3>2. /\ tasks' = [tasks EXCEPT ![k] = w] /\ DOMAIN w = DOMAIN tasks[k]
          /\ \A i \in DOMAIN w : w[i].session = tasks[k][i].session
      BY <2>2, <3>1, PollSomeVector DEF PollSome, Polling
    <3>. HIDE DEF w
    <3>3. tasks'[k] = w /\ \A j \in Shards \ {k} : tasks'[j] = tasks[j]
      BY <3>2 DEF Typed, TypeOK
    <3>. QED  BY <2>2, <3>2, <3>3 DEF PollSome, Polling
  <2>3. CASE ClockSetBack(k)
    <3> DEFINE w == [i \in DOMAIN tasks[k] |-> Further(tasks[k][i])]
    <3>1. DOMAIN w = DOMAIN tasks[k]
          /\ \A i \in DOMAIN tasks[k] : w[i].session = tasks[k][i].session
      BY ShardTypes, SetBackVector
    <3>2. tasks' = [tasks EXCEPT ![k] = w]
      BY <2>3 DEF ClockSetBack
    <3>. HIDE DEF w
    <3>3. tasks'[k] = w /\ \A j \in Shards \ {k} : tasks'[j] = tasks[j]
      BY <3>2 DEF Typed, TypeOK
    <3>. QED  BY <2>3, <3>1, <3>3 DEF ClockSetBack
  <2>. QED  BY <2>1, <2>2, <2>3
<1>2. /\ Names(tasks'[k]) = Names(tasks[k])
      /\ Distinct(tasks[k]) => Distinct(tasks'[k])
  BY <1>1, SameNames
<1>3. Holds(commands'[k], tasks'[k]) = Holds(commands[k], tasks[k])
  BY <1>1, <1>2 DEF Holds
<1>4. Once(commands'[k], tasks'[k], over')
  BY <1>1, <1>2, <1>3 DEF HeldInv, Once
<1>5. HeldInv'
  BY <1>1, <1>3, <1>4, OneShardChanges
<1>. QED  BY <1>1, <1>3, <1>5

\* A registration: the session is nowhere yet.
LEMMA RegisterHeld ==
  ASSUME Typed, HeldInv, NEW s \in Sessions, Register(s)
  PROVE  /\ HeldInv'
         /\ \A k \in Shards : s \notin Holds(commands[k], tasks[k])
         /\ Holds(commands'[next_shard], tasks'[next_shard])
              = Holds(commands[next_shard], tasks[next_shard]) \cup {s}
<1> DEFINE k == next_shard
           q == Append(commands[k], s)
<1>1. k \in Shards
  BY NextShard
<1>2. /\ Elements(q) = Elements(commands[k]) \cup {s}
      /\ s \notin Elements(commands[k]) /\ IsInjective(commands[k]) => IsInjective(q)
  BY <1>1, ShardTypes, SendOnChannel
<1>3. /\ commands' = [commands EXCEPT ![k] = q] /\ UNCHANGED <<tasks, over>>
      /\ s \notin Live /\ s \notin over
  BY DEF Register
<1>. HIDE DEF k, q
<1>4. /\ commands'[k] = q
      /\ \A j \in Shards \ {k} : commands'[j] = commands[j]
  BY <1>1, <1>3 DEF Typed, TypeOK
<1>5. ASSUME NEW j \in Shards
      PROVE  s \notin Holds(commands[j], tasks[j])
  BY <1>3 DEF Live, Waiting, Held, Holds, Elements, Names
<1>6. Holds(q, tasks[k]) = Holds(commands[k], tasks[k]) \cup {s}
  BY <1>2 DEF Holds
<1>7. Once(q, tasks[k], over)
  BY <1>1, <1>2, <1>3, <1>5, <1>6 DEF HeldInv, Once, Holds
<1>8. ASSUME NEW i \in Shards, NEW j \in Shards, i # j
      PROVE  Holds(commands'[i], tasks'[i]) \cap Holds(commands'[j], tasks'[j]) = {}
  <2>1. Holds(commands[i], tasks[i]) \cap Holds(commands[j], tasks[j]) = {}
    BY <1>8 DEF HeldInv
  <2>2. s \notin Holds(commands[i], tasks[i]) /\ s \notin Holds(commands[j], tasks[j])
    BY <1>5
  <2>3. CASE i = k
    BY <1>3, <1>4, <1>6, <1>8, <2>1, <2>2, <2>3
  <2>4. CASE j = k
    BY <1>3, <1>4, <1>6, <1>8, <2>1, <2>2, <2>4
  <2>5. CASE i # k /\ j # k
    BY <1>3, <1>4, <2>1, <2>5
  <2>. QED  BY <2>3, <2>4, <2>5
<1>9. HeldInv'
  BY <1>3, <1>4, <1>7, <1>8 DEF HeldInv
<1>10. Holds(commands'[k], tasks'[k]) = Holds(commands[k], tasks[k]) \cup {s}
  BY <1>3, <1>4, <1>6
<1>. QED  BY <1>5, <1>9, <1>10 DEF k

\* Every step leaves a session with one holder.
LEMMA NextHeld == Typed /\ HeldInv /\ [Next]_vars => HeldInv'
<1>. SUFFICES ASSUME Typed, HeldInv, [Next]_vars PROVE HeldInv'
  OBVIOUS
<1>1. CASE UNCHANGED vars
  BY <1>1, NobodyMoves DEF vars
<1>2. ASSUME NEW k \in Shards, Wake(k) \/ SkipNotDue(k) \/ EndPass(k)
      PROVE  HeldInv'
  BY <1>2, NobodyMoves DEF Wake, SkipNotDue, EndPass
<1>. QED
  BY <1>1, <1>2, RegisterHeld, DrainHeld, NoneHeld, DeadlinesHeld DEF Next, Thread

-----------------------------------------------------------------------------
(***************************************************************************)
(* A pass.  The position splits the vector: what stands before it is done  *)
(* with, what stands from it on was not polled in this pass.               *)
(***************************************************************************)
Split(vector, position, done) ==
  \A i \in DOMAIN vector :
    IF i < position THEN vector[i].session \in done \/ vector[i].left > 0
                    ELSE vector[i].session \notin done

PassInv ==
  \A k \in Shards : pc[k] = "scan" => Split(tasks[k], idx[k], polled[k])

\* A step of one shard leaves the passes of the others alone.
LEMMA OnePassChanges ==
  ASSUME PassInv, NEW k \in Shards,
         \A j \in Shards \ {k} :
           /\ pc'[j] = pc[j] /\ tasks'[j] = tasks[j]
           /\ idx'[j] = idx[j] /\ polled'[j] = polled[j],
         pc'[k] = "scan" => Split(tasks'[k], idx'[k], polled'[k])
  PROVE  PassInv'
<1>1. ASSUME NEW j \in Shards, pc'[j] = "scan"
      PROVE  Split(tasks'[j], idx'[j], polled'[j])
  <2>1. CASE j = k
    BY <1>1, <2>1
  <2>2. CASE j # k
    BY <1>1, <2>2 DEF PassInv
  <2>. QED  BY <2>1, <2>2
<1>. QED  BY <1>1 DEF PassInv

\* The session at the position stands nowhere else in the vector.
LEMMA CurrentFacts ==
  ASSUME Typed, HeldInv, PassInv, NEW k \in Shards, Scanning(k)
  PROVE  /\ idx[k] \in DOMAIN tasks[k] /\ Current(k) = tasks[k][idx[k]]
         /\ \A i \in DOMAIN tasks[k] :
              tasks[k][i].session = Current(k).session => i = idx[k]
         /\ Split(tasks[k], idx[k], polled[k])
         /\ Current(k).session \notin polled[k]
<1>1. idx[k] \in DOMAIN tasks[k] /\ Current(k) = tasks[k][idx[k]]
  BY ShardTypes DEF Scanning, Current
<1>2. Distinct(tasks[k])
  BY DEF HeldInv, Once
<1>3. Split(tasks[k], idx[k], polled[k])
  BY DEF PassInv, Scanning
<1>4. ~ (idx[k] < idx[k])
  BY ShardTypes
<1>5. tasks[k][idx[k]].session \notin polled[k]
  BY <1>1, <1>3, <1>4 DEF Split
<1>. QED  BY <1>1, <1>2, <1>3, <1>5 DEF Distinct

\* Every step of a pass moves the split with the position.
LEMMA NextPass == Typed /\ HeldInv /\ PassInv /\ [Next]_vars => PassInv'
<1>. SUFFICES ASSUME Typed, HeldInv, PassInv, [Next]_vars PROVE PassInv'
  OBVIOUS
<1>0. /\ tasks \in [Shards -> Seq(ScheduledTask)]
      /\ pc \in [Shards -> {"sleep", "drain", "scan"}]
      /\ idx \in [Shards -> Nat] /\ polled \in [Shards -> SUBSET Sessions]
  BY DEF Typed, TypeOK
<1>1. CASE UNCHANGED <<tasks, pc, idx, polled>>
  BY <1>1 DEF PassInv
<1>2. ASSUME NEW k \in Shards, Wake(k) \/ EndPass(k)
      PROVE  PassInv'
  BY <1>0, <1>2, OnePassChanges DEF Wake, EndPass
<1>3. ASSUME NEW k \in Shards, DrainOne(k)
      PROVE  PassInv'
  BY <1>0, <1>3, OnePassChanges DEF DrainOne
<1>4. ASSUME NEW k \in Shards, ClockSetBack(k)
      PROVE  PassInv'
  BY <1>0, <1>4, OnePassChanges DEF ClockSetBack
<1>5. ASSUME NEW k \in Shards, BeginPass(k)
      PROVE  PassInv'
  <2>1. /\ idx'[k] = 1 /\ polled'[k] = {}
        /\ \A j \in Shards \ {k} :
             /\ pc'[j] = pc[j] /\ tasks'[j] = tasks[j]
             /\ idx'[j] = idx[j] /\ polled'[j] = polled[j]
    BY <1>0, <1>5 DEF BeginPass
  <2>2. \A i \in DOMAIN tasks'[k] : ~ (i < 1)
    <3>1. PICK ticks \in Steps :
            tasks' = [tasks EXCEPT ![k] = [i \in DOMAIN tasks[k] |-> Later(tasks[k][i], ticks)]]
      BY <1>5 DEF BeginPass
    <3>2. DOMAIN tasks'[k] = DOMAIN tasks[k]
      BY <1>0, <3>1
    <3>. QED  BY <3>2, ShardTypes
  <2>3. Split(tasks'[k], idx'[k], polled'[k])
    BY <2>1, <2>2 DEF Split
  <2>. QED  BY <2>1, <2>3, OnePassChanges
<1>6. ASSUME NEW k \in Shards, SkipNotDue(k)
      PROVE  PassInv'
  <2>1. /\ idx'[k] = idx[k] + 1 /\ polled'[k] = polled[k] /\ tasks'[k] = tasks[k]
        /\ \A j \in Shards \ {k} :
             /\ pc'[j] = pc[j] /\ tasks'[j] = tasks[j]
             /\ idx'[j] = idx[j] /\ polled'[j] = polled[j]
    BY <1>0, <1>6 DEF SkipNotDue
  <2>2. /\ Current(k) = tasks[k][idx[k]] /\ Current(k).left > 0
        /\ Split(tasks[k], idx[k], polled[k])
    BY <1>6, CurrentFacts DEF SkipNotDue
  <2>3. ASSUME NEW i \in DOMAIN tasks[k]
        PROVE  IF i < idx[k] + 1
               THEN tasks[k][i].session \in polled[k] \/ tasks[k][i].left > 0
               ELSE tasks[k][i].session \notin polled[k]
    <3>1. i \in Nat /\ idx[k] \in Nat
      BY ShardTypes
    <3>2. CASE i = idx[k]
      BY <2>2, <3>1, <3>2
    <3>3. CASE i # idx[k]
      <4>1. i < idx[k] + 1 <=> i < idx[k]
        BY <3>1, <3>3
      <4>. QED  BY <2>2, <2>3, <4>1 DEF Split
    <3>. QED  BY <3>2, <3>3
  <2>4. Split(tasks'[k], idx'[k], polled'[k])
    BY <2>1, <2>3 DEF Split
  <2>. QED  BY <2>1, <2>4, OnePassChanges
<1>7. ASSUME NEW k \in Shards, PollSome(k)
      PROVE  PassInv'
  <2> DEFINE s == Current(k).session
  <2>1. PICK delay \in 0 .. MaxDelay : tasks' = [tasks EXCEPT ![k][idx[k]].left = delay]
    BY <1>7 DEF PollSome
  <2> DEFINE w == [tasks EXCEPT ![k][idx[k]].left = delay][k]
  <2>2. /\ tasks' = [tasks EXCEPT ![k] = w] /\ DOMAIN w = DOMAIN tasks[k]
        /\ \A i \in DOMAIN w : w[i].session = tasks[k][i].session
        /\ \A i \in DOMAIN w \ {idx[k]} : w[i] = tasks[k][i]
    <3>1. Scanning(k)
      BY <1>7 DEF PollSome, Polling
    <3>. QED  BY <2>1, <3>1, PollSomeVector
  <2>. HIDE DEF w
  <2>3. /\ idx[k] \in DOMAIN tasks[k] /\ s = tasks[k][idx[k]].session
        /\ \A i \in DOMAIN tasks[k] : tasks[k][i].session = s => i = idx[k]
        /\ Split(tasks[k], idx[k], polled[k])
    BY <1>7, CurrentFacts DEF PollSome, Polling
  <2>. HIDE DEF s
  <2>4. /\ idx' = [idx EXCEPT ![k] = idx[k] + 1]
        /\ polled' = [polled EXCEPT ![k] = polled[k] \cup {s}]
        /\ UNCHANGED pc
    BY <1>7 DEF PollSome, Polling, s
  <2>5. /\ idx'[k] = idx[k] + 1 /\ polled'[k] = polled[k] \cup {s} /\ tasks'[k] = w
        /\ \A j \in Shards \ {k} :
             /\ pc'[j] = pc[j] /\ tasks'[j] = tasks[j]
             /\ idx'[j] = idx[j] /\ polled'[j] = polled[j]
    BY <1>0, <2>2, <2>4
  <2>6. ASSUME NEW i \in DOMAIN w
        PROVE  IF i < idx[k] + 1
               THEN w[i].session \in polled[k] \cup {s} \/ w[i].left > 0
               ELSE w[i].session \notin polled[k] \cup {s}
    <3>1. i \in Nat /\ idx[k] \in Nat /\ i \in DOMAIN tasks[k]
      BY <2>2, ShardTypes
    <3>2. CASE i = idx[k]
      BY <2>2, <2>3, <3>1, <3>2
    <3>3. CASE i # idx[k]
      <4>1. i < idx[k] + 1 <=> i < idx[k]
        BY <3>1, <3>3
      <4>2. w[i] = tasks[k][i] /\ tasks[k][i].session # s
        BY <2>2, <2>3, <3>1, <3>3
      <4>. QED  BY <2>3, <3>1, <4>1, <4>2 DEF Split
    <3>. QED  BY <3>2, <3>3
  <2>7. Split(tasks'[k], idx'[k], polled'[k])
    BY <2>5, <2>6 DEF Split
  <2>. QED  BY <2>5, <2>7, OnePassChanges
<1>8. ASSUME NEW k \in Shards, PollNone(k)
      PROVE  PassInv'
  <2> DEFINE s == Current(k).session
             v == tasks[k]
             w == SwapRemove(tasks[k], idx[k])
  <2>1. /\ idx[k] \in DOMAIN v /\ s = v[idx[k]].session
        /\ \A i \in DOMAIN v : v[i].session = s => i = idx[k]
        /\ Split(v, idx[k], polled[k])
    BY <1>8, CurrentFacts DEF PollNone, Polling
  <2>2. /\ Len(v) \in Nat \ {0} /\ DOMAIN v = 1 .. Len(v)
        /\ DOMAIN w = 1 .. Len(v) - 1
        /\ \A j \in DOMAIN w : j \in DOMAIN v
                               /\ w[j] = IF j = idx[k] THEN v[Len(v)] ELSE v[j]
    <3>1. v \in Seq(TaskAfter(set_backs[k]))
      BY ShardTypes
    <3>. QED  BY <2>1, <3>1, SwapRemoveFacts
  <2>3. /\ tasks' = [tasks EXCEPT ![k] = w] /\ UNCHANGED <<pc, idx>>
        /\ polled' = [polled EXCEPT ![k] = polled[k] \cup {s}]
    BY <1>8 DEF PollNone, Polling
  <2>. HIDE DEF s, w
  <2>4. /\ idx'[k] = idx[k] /\ polled'[k] = polled[k] \cup {s} /\ tasks'[k] = w
        /\ \A j \in Shards \ {k} :
             /\ pc'[j] = pc[j] /\ tasks'[j] = tasks[j]
             /\ idx'[j] = idx[j] /\ polled'[j] = polled[j]
    BY <1>0, <2>3
  <2>. HIDE DEF v
  <2>5. ASSUME NEW i \in DOMAIN w
        PROVE  IF i < idx[k]
               THEN w[i].session \in polled[k] \cup {s} \/ w[i].left > 0
               ELSE w[i].session \notin polled[k] \cup {s}
    <3>1. /\ i \in DOMAIN v /\ Len(v) \in DOMAIN v
          /\ i \in Nat /\ idx[k] \in Nat /\ i < Len(v) /\ idx[k] <= Len(v)
      BY <2>1, <2>2
    <3>2. CASE i = idx[k]
      <4>1. w[i] = v[Len(v)] /\ Len(v) # idx[k] /\ ~ (Len(v) < idx[k])
        BY <2>2, <3>1, <3>2
      <4>2. v[Len(v)].session \notin polled[k] /\ v[Len(v)].session # s
        BY <2>1, <3>1, <4>1 DEF Split
      <4>. QED  BY <3>1, <3>2, <4>1, <4>2
    <3>3. CASE i # idx[k]
      <4>1. w[i] = v[i] /\ v[i].session # s
        BY <2>1, <2>2, <3>1, <3>3
      <4>. QED  BY <2>1, <3>1, <4>1 DEF Split
    <3>. QED  BY <3>2, <3>3
  <2>6. Split(tasks'[k], idx'[k], polled'[k])
    BY <2>4, <2>5 DEF Split
  <2>. QED  BY <2>4, <2>6, OnePassChanges
<1>. QED
  BY <1>1, <1>2, <1>3, <1>4, <1>5, <1>6, <1>7, <1>8 DEF Next, Thread, Register, vars

-----------------------------------------------------------------------------
(***************************************************************************)
(* The inductive invariant, and what follows from it.                      *)
(***************************************************************************)
IInv == Typed /\ HeldInv /\ PassInv

\* No session is registered at first, and no thread makes a pass.
LEMMA InitInv == Init => IInv
<1>. SUFFICES ASSUME Init PROVE IInv
  OBVIOUS
<1>1. NumShards \in Nat \ {0} /\ 0 \in Shards /\ MaxSetBacks \in Nat
  BY SchedulerAssumption DEF Shards
<1>2. /\ <<>> \in Seq(Sessions) /\ <<>> \in Seq(ScheduledTask)
      /\ \A k \in Shards : <<>> \in Seq(TaskAfter(set_backs[k]))
      /\ Len(<<>>) = 0 /\ DOMAIN <<>> = {}
  OBVIOUS
<1>3. Typed
  BY <1>1, <1>2 DEF Init, Typed, TypeOK, LeftBounded
<1>4. HeldInv
  BY <1>2 DEF Init, HeldInv, Once, Holds, Elements, Names, Distinct, IsInjective
<1>5. PassInv
  BY DEF Init, PassInv
<1>. QED  BY <1>3, <1>4, <1>5 DEF IInv

\* No step breaks the invariant.
LEMMA Inductive == IInv /\ [Next]_vars => IInv'
BY NextTyped, NextHeld, NextPass DEF IInv

\* Every reachable state satisfies it.
LEMMA Invariant == Spec => []IInv
BY InitInv, Inductive, PTL DEF Spec

\* The threads' state stays well typed: no deadline is further away than a
\* poll and the set backs of the clock can put it, and no position is past the
\* end of its vector.
THEOREM TypeCorrect == Spec => []TypeOK
<1>1. IInv => TypeOK
  BY DEF IInv, Typed
<1>. QED  BY <1>1, Invariant, PTL

\* A session is driven by one thread, and by none after it has said None.
THEOREM OneHolder == Spec => []HeldOnce
<1>1. IInv => HeldOnce
  BY HeldInvIsHeldOnce DEF IInv
<1>. QED  BY <1>1, Invariant, PTL

\* A pass leaves nobody out, whatever swap_remove moves where.
THEOREM PassLeavesNobodyOut == Spec => []PassComplete
<1>1. IInv => PassComplete
  BY DEF IInv, PassInv, PassComplete, Split
<1>. QED  BY <1>1, Invariant, PTL

\* Who polls: a session is polled by the thread that holds it.
LEMMA PolledByHolder ==
  ASSUME IInv, Next, NEW s \in Sessions, turn'[s] # turn[s]
  PROVE  \E k \in Shards : Polling(k) /\ s = Current(k).session
<1>1. turn \in [Sessions -> BOOLEAN]
  BY DEF IInv, Typed, TypeOK
<1>2. PICK k \in Shards : Thread(k) \/ ClockSetBack(k)
  BY DEF Next, Register
<1>3. PollSome(k) \/ PollNone(k)
  BY <1>2 DEF Thread, Wake, DrainOne, BeginPass, SkipNotDue, EndPass, ClockSetBack
<1>4. Polling(k)
  BY <1>3 DEF PollSome, PollNone
<1>. QED  BY <1>1, <1>4 DEF Polling

\* A pass polls a session once, even one that is due again at once.
THEOREM PolledOncePerPass == Spec => OncePerPass
<1>1. ASSUME IInv, Next, NEW s \in Sessions, NEW k \in Shards,
             turn'[s] # turn[s], s \in Held(k)
      PROVE  s \notin polled[k]
  <2>1. PICK j \in Shards : Polling(j) /\ s = Current(j).session
    BY <1>1, PolledByHolder
  <2>2. /\ idx[j] \in DOMAIN tasks[j] /\ Current(j) = tasks[j][idx[j]]
        /\ s \notin polled[j]
    BY <1>1, <2>1, CurrentFacts DEF IInv, Polling
  <2>3. s \in Names(tasks[j]) /\ s \in Names(tasks[k])
    BY <1>1, <2>1, <2>2 DEF Names, Held
  <2>4. j = k
    BY <1>1, <2>3 DEF IInv, HeldInv, Holds
  <2>. QED  BY <2>2, <2>4
<1>2. IInv /\ [Next]_vars =>
        [\A s \in Sessions, k \in Shards :
           (turn'[s] # turn[s] /\ s \in Held(k)) => s \notin polled[k]]_vars
  BY <1>1
<1>. QED  BY <1>2, Invariant, PTL DEF Spec, OncePerPass

-----------------------------------------------------------------------------
(***************************************************************************)
(* The refinement of Ticker, without its fairness.                         *)
(***************************************************************************)
\* A session is live when a shard holds it, before a step and after it.
LEMMA LiveFacts ==
  /\ \A s : s \in Live <=> \E k \in Shards : s \in Holds(commands[k], tasks[k])
  /\ \A s : s \in Live' <=> \E k \in Shards : s \in Holds(commands'[k], tasks'[k])
<1>1. \A s : s \in Live <=> \E k \in Shards : s \in Holds(commands[k], tasks[k])
  BY DEF Live, Waiting, Held, Holds, Elements, Names
<1>2. \A s : s \in Live' <=> \E k \in Shards : s \in Holds(commands'[k], tasks'[k])
  BY DEF Live, Waiting, Held, Holds, Elements, Names
<1>. QED  BY <1>1, <1>2

\* A step after which the same sessions are live, and the same are over, and
\* that polls nobody, is none of Ticker's.
LEMMA StutterOfTicker ==
  ASSUME Live' = Live, over' = over, turn' = turn
  PROVE  UNCHANGED Abstract!vars
<1>1. Status' = Status
  BY DEF Status
<1>. QED  BY <1>1 DEF Abstract!vars

\* Every step is one of Ticker's, or none that it can tell.
LEMMA StepOfTicker ==
  IInv /\ [Next]_vars => [Abstract!Next]_(Abstract!vars)
<1>. SUFFICES ASSUME IInv, [Next]_vars
              PROVE  [Abstract!Next]_(Abstract!vars)
  OBVIOUS
<1>0. Typed /\ HeldInv /\ PassInv /\ turn \in [Sessions -> BOOLEAN]
  BY DEF IInv, Typed, TypeOK
<1>1. CASE UNCHANGED <<commands, tasks, over, turn>>
  <2>1. Live' = Live
    BY <1>1, LiveFacts
  <2>. QED  BY <1>1, <2>1, StutterOfTicker
<1>2. ASSUME NEW s \in Sessions, Register(s)
      PROVE  Abstract!Register(s)
  <2>1. /\ \A j \in Shards : s \notin Holds(commands[j], tasks[j])
        /\ s \notin over /\ over' = over /\ turn' = turn
        /\ next_shard \in Shards
    BY <1>0, <1>2, RegisterHeld, NextShard DEF Register
  <2>2. /\ Holds(commands'[next_shard], tasks'[next_shard])
             = Holds(commands[next_shard], tasks[next_shard]) \cup {s}
        /\ \A j \in Shards \ {next_shard} :
             Holds(commands'[j], tasks'[j]) = Holds(commands[j], tasks[j])
    BY <1>0, <1>2, RegisterHeld DEF Register, Typed, TypeOK
  <2>3. s \notin Live /\ s \in Live' /\ \A u : u # s => (u \in Live' <=> u \in Live)
    BY <2>1, <2>2, LiveFacts
  <2>4. Status[s] = "new"
    BY <2>1, <2>3 DEF Status
  <2>5. Status' = [Status EXCEPT ![s] = "live"]
    BY <2>1, <2>3 DEF Status
  <2>. QED  BY <2>1, <2>4, <2>5 DEF Abstract!Register
<1>3. ASSUME NEW k \in Shards, DrainOne(k)
      PROVE  UNCHANGED Abstract!vars
  <2>1. /\ Holds(commands'[k], tasks'[k]) = Holds(commands[k], tasks[k])
        /\ \A j \in Shards \ {k} :
             Holds(commands'[j], tasks'[j]) = Holds(commands[j], tasks[j])
    BY <1>0, <1>3, DrainHeld DEF DrainOne, Typed, TypeOK
  <2>2. Live' = Live
    BY <2>1, LiveFacts
  <2>. QED  BY <1>3, <2>2, StutterOfTicker DEF DrainOne
<1>4. ASSUME NEW k \in Shards, BeginPass(k) \/ ClockSetBack(k)
      PROVE  UNCHANGED Abstract!vars
  <2>1. Live' = Live
    BY <1>0, <1>4, DeadlinesHeld, LiveFacts
  <2>. QED  BY <1>4, <2>1, StutterOfTicker DEF BeginPass, ClockSetBack
<1>5. ASSUME NEW k \in Shards, PollSome(k)
      PROVE  \E s \in Sessions : Abstract!Poll(s)
  <2> DEFINE s == Current(k).session
  <2>1. /\ Live' = Live /\ over' = over
        /\ turn' = [turn EXCEPT ![s] = ~ turn[s]]
    BY <1>0, <1>5, DeadlinesHeld, LiveFacts DEF PollSome, Polling
  <2>2. s \in Sessions /\ s \in Live
    <3>1. s \in Sessions /\ s \in Names(tasks[k])
      BY <1>0, <1>5, CurrentFacts, ShardTypes DEF PollSome, Polling, Names
    <3>. QED  BY <3>1, LiveFacts DEF Holds
  <2>. HIDE DEF s
  <2>3. Status[s] = "live" /\ Status' = [Status EXCEPT ![s] = "live"]
    BY <2>1, <2>2 DEF Status
  <2>. QED  BY <2>1, <2>2, <2>3 DEF Abstract!Poll
<1>6. ASSUME NEW k \in Shards, PollNone(k)
      PROVE  \E s \in Sessions : Abstract!Poll(s)
  <2> DEFINE s == Current(k).session
  <2>1. /\ Holds(commands'[k], tasks'[k]) = Holds(commands[k], tasks[k]) \ {s}
        /\ s \in Names(tasks[k])
        /\ \A j \in Shards \ {k} :
             Holds(commands'[j], tasks'[j]) = Holds(commands[j], tasks[j])
    BY <1>0, <1>6, NoneHeld DEF PollNone, Typed, TypeOK
  <2>2. /\ over' = over \cup {s} /\ turn' = [turn EXCEPT ![s] = ~ turn[s]]
        /\ s \in Sessions
    BY <1>0, <1>6, CurrentFacts, ShardTypes DEF PollNone, Polling
  <2>. HIDE DEF s
  <2>3. \A j \in Shards \ {k} : s \notin Holds(commands[j], tasks[j])
    BY <1>0, <2>1 DEF HeldInv, Holds
  <2>4. s \in Live /\ s \notin Live' /\ \A u : u # s => (u \in Live' <=> u \in Live)
    BY <2>1, <2>3, LiveFacts DEF Holds
  <2>5. Status[s] = "live" /\ Status' = [Status EXCEPT ![s] = "over"]
    BY <2>2, <2>4 DEF Status
  <2>. QED  BY <2>2, <2>5 DEF Abstract!Poll
<1>. QED
  BY <1>1, <1>2, <1>3, <1>4, <1>5, <1>6
  DEF Next, Thread, Wake, SkipNotDue, EndPass, Abstract!Next, vars

(***************************************************************************)
(* Whatever the threads do in whatever order, a session sees what Ticker   *)
(* says: it is registered once, polled only while it is live, and never    *)
(* after it returned None.                                                 *)
(***************************************************************************)
THEOREM ThreadsAreTicker == Spec => Abstract!Init /\ [][Abstract!Next]_(Abstract!vars)
<1>1. Init => Abstract!Init
  <2>. SUFFICES ASSUME Init PROVE Abstract!Init
    OBVIOUS
  <2>1. \A k \in Shards : Holds(commands[k], tasks[k]) = {}
    BY DEF Init, Holds, Elements, Names
  <2>2. Live = {}
    BY <2>1, LiveFacts
  <2>. QED  BY <2>2 DEF Init, Abstract!Init, Status
<1>. QED  BY <1>1, Invariant, StepOfTicker, PTL DEF Spec

=============================================================================
