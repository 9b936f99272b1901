--------------------------- MODULE MetalQueuesProofs ---------------------------
(***************************************************************************)
(* Theorems about MetalQueues for any number of queues, any room in them   *)
(* and any finite set of jobs.                                             *)
(***************************************************************************)
EXTENDS MetalQueues, FiniteSetTheorems, TLAPS

(* The jobs that were given a queue since the process started. *)
Queued == {j \in Jobs : queue[j] # NoQueue}

(* Each of them has moved the round robin by one. *)
IndexCounts == queueIndex = Cardinality(Queued)

(* A task that has not begun has no queue; the health loop keeps its own.  *)
NewHasNone == \A j \in Jobs : at[j] = "new" => queue[j] = NoQueue

(* A buffer that is not committed belongs to a metal-compute job that is   *)
(* compiling.                                                              *)
MadeCompiles == \A t \in Tasks : buffer[t] = "made" <=> at[t] = "compiling"

OnlyComputeCompiles == \A t \in Tasks : at[t] = "compiling" => t \in Compute

(* A task without a buffer takes up no room. *)
Bufferless ==
  \A t \in Tasks : at[t] \in {"new", "blocked"} => buffer[t] = "none"

(* The types without the bound on queueIndex, which is a consequence. *)
Typed ==
  /\ queueIndex \in Nat
  /\ at \in [Tasks -> Stages]
  /\ queue \in [Tasks -> Queues \cup {NoQueue}]
  /\ buffer \in [Tasks -> {"none", "made", "running", "completed"}]
  /\ holder \in Tasks \cup {Nobody}
  /\ budget \in [BudgetKinds -> Nat]
  /\ \A t \in Tasks : at[t] = "blocked" <=> holder = t

(* What every step preserves.                                              *)
QueueInv ==
  /\ Typed
  /\ IndexCounts
  /\ NewHasNone
  /\ MadeCompiles
  /\ OnlyComputeCompiles
  /\ Bufferless

-----------------------------------------------------------------------------
LEMMA TasksFinite == IsFiniteSet(Tasks)
<1>1. IsFiniteSet(Jobs)
  BY JobsAssumption
<1>2. IsFiniteSet(Jobs \cup {Health})
  BY <1>1, FS_AddElement
<1> QED BY <1>2 DEF Tasks

(* pickQueue answers with a queue. *)
LEMMA PickType ==
  ASSUME queueIndex \in Nat
  PROVE  PickQueue \in Queues
BY MaxQueuesAssumption DEF PickQueue, Queues

LEMMA SpendType ==
  ASSUME budget \in [BudgetKinds -> Nat], NEW k \in BudgetKinds, Spend(k)
  PROVE  budget' \in [BudgetKinds -> Nat]
BY DEF Spend

(* Handing a queue to a job that had none counts it, once. *)
LEMMA PickCounts ==
  ASSUME Typed, IndexCounts, NEW j \in Jobs, queue[j] = NoQueue,
         queueIndex' = queueIndex + 1,
         queue' = [queue EXCEPT ![j] = PickQueue]
  PROVE  IndexCounts' /\ queueIndex' \in Nat
         /\ queue' \in [Tasks -> Queues \cup {NoQueue}]
<1>1. PickQueue \in Queues /\ PickQueue # NoQueue /\ j \in Tasks
  BY PickType, MaxQueuesAssumption DEF Typed, Queues, NoQueue, Tasks
<1>2. Queued' = Queued \cup {j} /\ j \notin Queued
  BY <1>1 DEF Queued, Typed, Tasks
<1>3. IsFiniteSet(Queued)
  BY JobsAssumption, FS_Subset DEF Queued
<1>4. Cardinality(Queued') = Cardinality(Queued) + 1
  BY <1>2, <1>3, FS_AddElement
<1> QED BY <1>1, <1>4 DEF IndexCounts, Typed

(* Making a buffer, or failing to, on entering a queue or after waiting    *)
(* for room in it.                                                         *)
LEMMA MakeKeeps ==
  ASSUME Typed, MadeCompiles, OnlyComputeCompiles, Bufferless,
         NEW t \in Tasks, MakeBuffer(t), at[t] \in {"new", "blocked"},
         holder \in {t, Nobody}, holder' = Nobody
  PROVE  /\ at' \in [Tasks -> Stages]
         /\ buffer' \in [Tasks -> {"none", "made", "running", "completed"}]
         /\ budget' \in [BudgetKinds -> Nat]
         /\ \A u \in Tasks : at'[u] = "blocked" <=> holder' = u
         /\ MadeCompiles' /\ OnlyComputeCompiles' /\ Bufferless'
         /\ t \in Jobs => at'[t] # "new"
         /\ \A u \in Tasks : u # t => at'[u] = at[u]
<1>1. Nobody \notin Tasks /\ Health \notin Jobs
  BY JobsAssumption
<1>2. CASE NoBuffer(t)
  <2>1. budget' \in [BudgetKinds -> Nat]
    BY <1>2, SpendType DEF NoBuffer, Typed, BudgetKinds
  <2>2. PICK s \in {"new", "failed"} :
          at' = [at EXCEPT ![t] = s] /\ (t \in Jobs => s = "failed")
    BY <1>1, <1>2 DEF NoBuffer
  <2>3. buffer' = buffer /\ buffer[t] = "none"
    BY <1>2 DEF NoBuffer, Bufferless
  <2>4. /\ at' \in [Tasks -> Stages]
        /\ \A u \in Tasks : at'[u] = "blocked" <=> holder' = u
    BY <1>1, <2>2 DEF Typed, Stages
  <2>5. MadeCompiles' /\ OnlyComputeCompiles' /\ Bufferless'
    BY <2>2, <2>3 DEF Typed, MadeCompiles, OnlyComputeCompiles, Bufferless
  <2> QED BY <2>1, <2>2, <2>3, <2>4, <2>5 DEF Typed
<1>3. CASE ~ NoBuffer(t)
  <2>1. /\ buffer' = [buffer EXCEPT ![t] = IF t \in Compute THEN "made" ELSE "running"]
        /\ at' = [at EXCEPT ![t] = IF t \in Compute THEN "compiling" ELSE "committed"]
        /\ budget' = budget
    BY <1>3 DEF MakeBuffer
  <2>2. /\ at' \in [Tasks -> Stages]
        /\ buffer' \in [Tasks -> {"none", "made", "running", "completed"}]
    BY <2>1 DEF Typed, Stages
  <2>3. \A u \in Tasks : at'[u] = "blocked" <=> holder' = u
    BY <1>1, <2>1 DEF Typed
  <2>4. MadeCompiles' /\ OnlyComputeCompiles' /\ Bufferless'
    BY <2>1 DEF Typed, MadeCompiles, OnlyComputeCompiles, Bufferless
  <2> QED BY <2>1, <2>2, <2>3, <2>4 DEF Typed
<1> QED BY <1>2, <1>3

(* Blocking in makeCommandBuffer. *)
LEMMA BlockKeeps ==
  ASSUME Typed, MadeCompiles, OnlyComputeCompiles, Bufferless,
         NEW t \in Tasks, at[t] = "new", holder = Nobody,
         at' = [at EXCEPT ![t] = "blocked"], holder' = t,
         buffer' = buffer
  PROVE  /\ at' \in [Tasks -> Stages]
         /\ \A u \in Tasks : at'[u] = "blocked" <=> holder' = u
         /\ MadeCompiles' /\ OnlyComputeCompiles' /\ Bufferless'
         /\ \A u \in Tasks : u # t => at'[u] = at[u]
<1>1. Nobody \notin Tasks
  BY JobsAssumption
<1>2. at' \in [Tasks -> Stages]
  BY DEF Typed, Stages
<1>3. \A u \in Tasks : at'[u] = "blocked" <=> holder' = u
  BY <1>1 DEF Typed
<1>4. MadeCompiles' /\ OnlyComputeCompiles' /\ Bufferless'
  BY DEF Typed, MadeCompiles, OnlyComputeCompiles, Bufferless
<1> QED BY <1>2, <1>3, <1>4 DEF Typed

(* The end of the process forgets everything that was counted. *)
LEMMA DieKeeps ==
  ASSUME Typed, NEW S, Die(S), budget' \in [BudgetKinds -> Nat]
  PROVE  QueueInv'
<1>1. Nobody \notin Tasks /\ Health \notin Jobs /\ Jobs \subseteq Tasks
  BY JobsAssumption DEF Tasks
<1>2. Queued' = {}
  BY <1>1 DEF Die, Queued
<1>3. IndexCounts'
  BY <1>2, FS_EmptySet DEF Die, IndexCounts
<1>4. \A t \in Tasks : at'[t] \in {"new", "done", "failed"} /\ buffer'[t] = "none"
  BY DEF Die, Typed
<1>5. Typed'
  BY <1>1 DEF Die, Typed, Stages
<1>6. NewHasNone' /\ MadeCompiles' /\ OnlyComputeCompiles' /\ Bufferless'
  BY <1>1, <1>4 DEF Die, NewHasNone, MadeCompiles, OnlyComputeCompiles, Bufferless
<1> QED BY <1>3, <1>5, <1>6 DEF QueueInv

-----------------------------------------------------------------------------
LEMMA InitQueues == Init => QueueInv
<1> SUFFICES ASSUME Init PROVE QueueInv
  OBVIOUS
<1>1. Queued = {}
  BY DEF Init, Queued, Tasks
<1>2. IndexCounts
  BY <1>1, FS_EmptySet DEF Init, IndexCounts
<1>3. Typed
  BY JobsAssumption, MetalBudgetAssumption DEF Init, Typed, Stages
<1>4. NewHasNone /\ MadeCompiles /\ OnlyComputeCompiles /\ Bufferless
  BY DEF Init, NewHasNone, MadeCompiles, OnlyComputeCompiles, Bufferless, Tasks
<1> QED BY <1>2, <1>3, <1>4 DEF QueueInv

(* One step per action. *)
LEMMA NextQueues == QueueInv /\ [Next]_vars => QueueInv'
<1> SUFFICES ASSUME QueueInv, [Next]_vars PROVE QueueInv'
  OBVIOUS
<1>a. /\ Typed /\ IndexCounts /\ NewHasNone /\ MadeCompiles
      /\ OnlyComputeCompiles /\ Bufferless
  BY DEF QueueInv
<1>b. Nobody \notin Tasks /\ Health \notin Jobs /\ Jobs \subseteq Tasks /\ Health \in Tasks
  BY JobsAssumption DEF Tasks
<1>1. ASSUME NEW j \in Jobs, SubmitJob(j)
      PROVE  QueueInv'
  <2>1. /\ holder = Nobody /\ at[j] = "new" /\ queue[j] = NoQueue /\ j \in Tasks
        /\ queueIndex' = queueIndex + 1
        /\ queue' = [queue EXCEPT ![j] = PickQueue]
    BY <1>1, <1>a, <1>b DEF SubmitJob, UseQueue, NewHasNone
  <2>2. IndexCounts' /\ queueIndex' \in Nat /\ queue' \in [Tasks -> Queues \cup {NoQueue}]
    BY <1>a, <2>1, PickCounts
  <2>3. CASE j \in Bad
    <3>1. /\ at' = [at EXCEPT ![j] = "failed"]
          /\ buffer' = buffer /\ holder' = holder /\ budget' = budget
      BY <1>1, <2>3 DEF SubmitJob
    <3>2. Typed'
      BY <1>a, <1>b, <2>1, <2>2, <3>1 DEF Typed, Stages
    <3>3. NewHasNone'
      BY <1>a, <1>b, <2>1, <3>1 DEF Typed, NewHasNone
    <3>4. MadeCompiles' /\ OnlyComputeCompiles' /\ Bufferless'
      BY <1>a, <2>1, <3>1 DEF Typed, MadeCompiles, OnlyComputeCompiles, Bufferless
    <3> QED BY <2>2, <3>2, <3>3, <3>4 DEF QueueInv
  <2>4. CASE j \notin Bad /\ HasRoom(PickQueue)
    <3>1. MakeBuffer(j) /\ holder' = holder
      BY <1>1, <2>4 DEF SubmitJob, UseQueue
    <3>2. /\ at' \in [Tasks -> Stages]
          /\ buffer' \in [Tasks -> {"none", "made", "running", "completed"}]
          /\ budget' \in [BudgetKinds -> Nat]
          /\ \A u \in Tasks : at'[u] = "blocked" <=> holder' = u
          /\ MadeCompiles' /\ OnlyComputeCompiles' /\ Bufferless'
          /\ at'[j] # "new"
          /\ \A u \in Tasks : u # j => at'[u] = at[u]
      BY <1>a, <2>1, <3>1, MakeKeeps
    <3>3. Typed'
      BY <1>a, <2>1, <2>2, <3>1, <3>2 DEF Typed
    <3>4. NewHasNone'
      BY <1>a, <1>b, <2>1, <3>2 DEF Typed, NewHasNone
    <3> QED BY <2>2, <3>2, <3>3, <3>4 DEF QueueInv
  <2>5. CASE j \notin Bad /\ ~ HasRoom(PickQueue)
    <3>1. /\ at' = [at EXCEPT ![j] = "blocked"]
          /\ holder' = j /\ buffer' = buffer /\ budget' = budget
      BY <1>1, <2>5 DEF SubmitJob, UseQueue
    <3>2. /\ at' \in [Tasks -> Stages]
          /\ \A u \in Tasks : at'[u] = "blocked" <=> holder' = u
          /\ MadeCompiles' /\ OnlyComputeCompiles' /\ Bufferless'
          /\ \A u \in Tasks : u # j => at'[u] = at[u]
      BY <1>a, <2>1, <3>1, BlockKeeps
    <3>3. Typed'
      BY <1>a, <2>1, <2>2, <3>1, <3>2 DEF Typed
    <3>4. NewHasNone'
      BY <1>a, <1>b, <2>1, <3>1, <3>2 DEF Typed, NewHasNone
    <3> QED BY <2>2, <3>2, <3>3, <3>4 DEF QueueInv
  <2> QED BY <2>3, <2>4, <2>5
<1>2. ASSUME NEW j \in Jobs, RejectPayload(j)
      PROVE  QueueInv'
  <2>1. /\ holder = Nobody /\ at[j] = "new" /\ queue[j] = NoQueue /\ j \in Tasks
        /\ queueIndex' = queueIndex + 1
        /\ queue' = [queue EXCEPT ![j] = PickQueue]
        /\ at' = [at EXCEPT ![j] = "failed"]
        /\ budget' = budget /\ buffer' = buffer /\ holder' = holder
    BY <1>2, <1>a, <1>b DEF RejectPayload, NewHasNone
  <2>2. IndexCounts' /\ queueIndex' \in Nat /\ queue' \in [Tasks -> Queues \cup {NoQueue}]
    BY <1>a, <2>1, PickCounts
  <2>3. Typed'
    BY <1>a, <1>b, <2>1, <2>2 DEF Typed, Stages
  <2>4. NewHasNone' /\ MadeCompiles' /\ OnlyComputeCompiles' /\ Bufferless'
    BY <1>a, <1>b, <2>1 DEF Typed, NewHasNone, MadeCompiles, OnlyComputeCompiles, Bufferless
  <2> QED BY <2>2, <2>3, <2>4 DEF QueueInv
<1>3. CASE CheckHealth
  <2>1. /\ holder = Nobody /\ at[Health] = "new"
        /\ queue' = [queue EXCEPT ![Health] = 0]
        /\ queueIndex' = queueIndex
    BY <1>3 DEF CheckHealth, UseQueue
  <2>2. Queued' = Queued
    BY <1>a, <1>b, <2>1 DEF Queued, Typed
  <2>3. IndexCounts' /\ queue' \in [Tasks -> Queues \cup {NoQueue}]
    <3>1. 0 \in Queues
      BY MaxQueuesAssumption DEF Queues
    <3>2. queue' \in [Tasks -> Queues \cup {NoQueue}]
      BY <1>a, <2>1, <3>1 DEF Typed
    <3> QED BY <1>a, <2>1, <2>2, <3>2 DEF IndexCounts
  <2>4. CASE HasRoom(0)
    <3>1. MakeBuffer(Health) /\ holder' = holder
      BY <1>3, <2>4 DEF CheckHealth, UseQueue
    <3>2. /\ at' \in [Tasks -> Stages]
          /\ buffer' \in [Tasks -> {"none", "made", "running", "completed"}]
          /\ budget' \in [BudgetKinds -> Nat]
          /\ \A u \in Tasks : at'[u] = "blocked" <=> holder' = u
          /\ MadeCompiles' /\ OnlyComputeCompiles' /\ Bufferless'
          /\ \A u \in Tasks : u # Health => at'[u] = at[u]
      BY <1>a, <1>b, <2>1, <3>1, MakeKeeps
    <3>3. Typed'
      BY <1>a, <2>1, <2>3, <3>1, <3>2 DEF Typed
    <3>4. NewHasNone'
      BY <1>a, <1>b, <2>1, <3>2 DEF Typed, NewHasNone
    <3> QED BY <2>3, <3>2, <3>3, <3>4 DEF QueueInv
  <2>5. CASE ~ HasRoom(0)
    <3>1. /\ at' = [at EXCEPT ![Health] = "blocked"]
          /\ holder' = Health /\ buffer' = buffer /\ budget' = budget
      BY <1>3, <2>5 DEF CheckHealth, UseQueue
    <3>2. /\ at' \in [Tasks -> Stages]
          /\ \A u \in Tasks : at'[u] = "blocked" <=> holder' = u
          /\ MadeCompiles' /\ OnlyComputeCompiles' /\ Bufferless'
          /\ \A u \in Tasks : u # Health => at'[u] = at[u]
      BY <1>a, <1>b, <2>1, <3>1, BlockKeeps
    <3>3. Typed'
      BY <1>a, <1>b, <2>1, <2>3, <3>1, <3>2 DEF Typed
    <3>4. NewHasNone'
      BY <1>a, <1>b, <2>1, <3>1, <3>2 DEF Typed, NewHasNone
    <3> QED BY <2>3, <3>2, <3>3, <3>4 DEF QueueInv
  <2> QED BY <2>4, <2>5
<1>4. ASSUME NEW t \in Tasks, Unblock(t)
      PROVE  QueueInv'
  <2>1. /\ holder = t /\ holder' = Nobody /\ MakeBuffer(t) /\ at[t] = "blocked"
        /\ queueIndex' = queueIndex /\ queue' = queue
    BY <1>4, <1>a DEF Unblock, Typed
  <2>2. /\ at' \in [Tasks -> Stages]
        /\ buffer' \in [Tasks -> {"none", "made", "running", "completed"}]
        /\ budget' \in [BudgetKinds -> Nat]
        /\ \A u \in Tasks : at'[u] = "blocked" <=> holder' = u
        /\ MadeCompiles' /\ OnlyComputeCompiles' /\ Bufferless'
        /\ t \in Jobs => at'[t] # "new"
        /\ \A u \in Tasks : u # t => at'[u] = at[u]
    BY <1>a, <2>1, MakeKeeps
  <2>3. Typed'
    BY <1>a, <2>1, <2>2 DEF Typed
  <2>4. NewHasNone' /\ IndexCounts'
    BY <1>a, <1>b, <2>1, <2>2 DEF Typed, NewHasNone, IndexCounts, Queued
  <2> QED BY <2>2, <2>3, <2>4 DEF QueueInv
<1>5. ASSUME NEW t \in Tasks,
             \/ CommitCompiled(t) \/ CompileFails(t)
             \/ AddHandler(t) \/ AddHandlerTooLate(t)
             \/ Return(t) \/ CompleteBuffer(t)
      PROVE  QueueInv'
  <2>1. queueIndex' = queueIndex /\ queue' = queue /\ holder' = holder
    BY <1>5 DEF CommitCompiled, CompileFails, AddHandler, AddHandlerTooLate, Return, CompleteBuffer
  <2>2. budget' \in [BudgetKinds -> Nat]
    BY <1>5, <1>a, SpendType
       DEF CommitCompiled, CompileFails, AddHandler, AddHandlerTooLate, Return,
           CompleteBuffer, Typed, BudgetKinds
  <2>3. IndexCounts'
    BY <1>a, <2>1 DEF IndexCounts, Queued
  <2>4. CASE CommitCompiled(t)
    <3>1. Typed'
      BY <1>a, <2>1, <2>2, <2>4 DEF CommitCompiled, Typed, Stages
    <3>2. NewHasNone' /\ MadeCompiles' /\ OnlyComputeCompiles' /\ Bufferless'
      BY <1>a, <1>b, <2>1, <2>4
         DEF CommitCompiled, Typed, NewHasNone, MadeCompiles, OnlyComputeCompiles, Bufferless
    <3> QED BY <2>3, <3>1, <3>2 DEF QueueInv
  <2>5. CASE CompileFails(t)
    <3>1. Typed'
      BY <1>a, <2>1, <2>2, <2>5 DEF CompileFails, Typed, Stages
    <3>2. NewHasNone' /\ MadeCompiles' /\ OnlyComputeCompiles' /\ Bufferless'
      BY <1>a, <1>b, <2>1, <2>5
         DEF CompileFails, Typed, NewHasNone, MadeCompiles, OnlyComputeCompiles, Bufferless
    <3> QED BY <2>3, <3>1, <3>2 DEF QueueInv
  <2>6. CASE AddHandler(t) \/ AddHandlerTooLate(t)
    <3>1. Typed'
      BY <1>a, <2>1, <2>2, <2>6 DEF AddHandler, AddHandlerTooLate, Typed, Stages
    <3>2. NewHasNone' /\ MadeCompiles' /\ OnlyComputeCompiles' /\ Bufferless'
      BY <1>a, <1>b, <2>1, <2>6
         DEF AddHandler, AddHandlerTooLate, Typed, NewHasNone, MadeCompiles,
             OnlyComputeCompiles, Bufferless
    <3> QED BY <2>3, <3>1, <3>2 DEF QueueInv
  <2>7. CASE Return(t)
    <3>1. Typed'
      BY <1>a, <2>1, <2>2, <2>7 DEF Return, Typed, Stages
    <3>2. NewHasNone' /\ MadeCompiles' /\ OnlyComputeCompiles' /\ Bufferless'
      BY <1>a, <1>b, <2>1, <2>7
         DEF Return, Typed, NewHasNone, MadeCompiles, OnlyComputeCompiles, Bufferless
    <3> QED BY <2>3, <3>1, <3>2 DEF QueueInv
  <2>8. CASE CompleteBuffer(t)
    <3>1. Typed'
      BY <1>a, <2>1, <2>2, <2>8 DEF CompleteBuffer, Typed
    <3>2. NewHasNone' /\ MadeCompiles' /\ OnlyComputeCompiles' /\ Bufferless'
      BY <1>a, <1>b, <2>1, <2>8
         DEF CompleteBuffer, Typed, NewHasNone, MadeCompiles, OnlyComputeCompiles, Bufferless
    <3> QED BY <2>3, <3>1, <3>2 DEF QueueInv
  <2> QED BY <1>5, <2>4, <2>5, <2>6, <2>7, <2>8
<1>6. CASE Crash
  <2>1. budget' \in [BudgetKinds -> Nat]
    BY <1>6, <1>a, SpendType DEF Crash, Typed, BudgetKinds
  <2> QED BY <1>6, <1>a, <2>1, DieKeeps DEF Crash
<1>7. ASSUME NEW j \in Jobs, TrapPayload(j)
      PROVE  QueueInv'
  BY <1>7, <1>a, DieKeeps DEF TrapPayload, Typed
<1>8. ASSUME NEW t \in Tasks, CompileAborts(t)
      PROVE  QueueInv'
  BY <1>8, <1>a, DieKeeps DEF CompileAborts, Typed
<1>9. CASE UNCHANGED vars
  BY <1>9, <1>a DEF vars, QueueInv, Typed, IndexCounts, Queued, NewHasNone,
                    MadeCompiles, OnlyComputeCompiles, Bufferless
<1> QED BY <1>1, <1>2, <1>3, <1>4, <1>5, <1>6, <1>7, <1>8, <1>9 DEF Next, Continue

(***************************************************************************)
(* The inductive invariant: the round robin counts the jobs it has placed, *)
(* and what holds a buffer without committing it is compiling.             *)
(***************************************************************************)
THEOREM QueueInvariant == Spec => []QueueInv
BY InitQueues, NextQueues, PTL DEF Spec

(***************************************************************************)
(* Type correctness.  The bound of queueIndex takes the whole invariant:   *)
(* pickQueue never counts a job twice, however submissions, failures,      *)
(* health checks and crashes interleave.                                   *)
(***************************************************************************)
THEOREM TypeCorrect == Spec => []TypeOK
<1>1. QueueInv => TypeOK
  <2> SUFFICES ASSUME QueueInv PROVE TypeOK
    OBVIOUS
  <2>1. Queued \in SUBSET Jobs /\ IsFiniteSet(Jobs)
    BY JobsAssumption DEF Queued
  <2>2. Cardinality(Queued) <= Cardinality(Jobs)
    BY <2>1, FS_Subset
  <2>3. Cardinality(Jobs) \in Nat
    BY <2>1, FS_CardinalityType
  <2>4. queueIndex \in 0 .. Cardinality(Jobs)
    BY <2>2, <2>3 DEF QueueInv, Typed, IndexCounts
  <2> QED BY <2>4 DEF QueueInv, Typed, TypeOK
<1> QED BY <1>1, QueueInvariant, PTL

-----------------------------------------------------------------------------
LEMMA UncompletedFinite ==
  ASSUME NEW q
  PROVE  IsFiniteSet(Uncompleted(q)) /\ Cardinality(Uncompleted(q)) \in Nat
<1>1. Uncompleted(q) \in SUBSET Tasks
  BY DEF Uncompleted
<1>2. IsFiniteSet(Uncompleted(q))
  BY <1>1, TasksFinite, FS_Subset
<1> QED BY <1>2, FS_CardinalityType

-----------------------------------------------------------------------------
(***************************************************************************)
(* A task that blocks the actor never waits for another one, as long as    *)
(* there are fewer metal-compute jobs than a queue has room for: a full    *)
(* queue then holds a buffer that is committed.                            *)
(***************************************************************************)
THEOREM NeverStuckAlways ==
  ASSUME Cardinality(Compute) < Capacity
  PROVE  Spec => []NeverStuck
<1>1. QueueInv => NeverStuck
  <2> SUFFICES ASSUME QueueInv, NEW t \in Tasks, ~ HasRoom(queue[t]),
                      \A u \in Uncompleted(queue[t]) : buffer[u] # "running"
               PROVE  FALSE
    BY DEF NeverStuck
  <2> DEFINE full == Uncompleted(queue[t])
  <2>1. \A u \in full : u \in Tasks /\ buffer[u] = "made"
    BY DEF Uncompleted
  <2>2. full \in SUBSET Compute
    BY <2>1 DEF QueueInv, MadeCompiles, OnlyComputeCompiles
  <2>3. IsFiniteSet(Compute)
    <3>1. Compute \in SUBSET Jobs
      BY DEF Jobs
    <3> QED BY <3>1, JobsAssumption, FS_Subset
  <2>4. Cardinality(full) <= Cardinality(Compute)
    BY <2>2, <2>3, FS_Subset
  <2>5. Cardinality(full) \in Nat /\ Cardinality(Compute) \in Nat
    BY <2>3, UncompletedFinite, FS_CardinalityType
  <2>6. Cardinality(full) >= Capacity
    BY <2>5, CapacityAssumption DEF HasRoom
  <2> QED BY <2>4, <2>5, <2>6, CapacityAssumption
<1> QED BY <1>1, QueueInvariant, PTL

-----------------------------------------------------------------------------
(* A task that has no buffer stops before it gets one. *)
LEMMA StopStrandsNothing ==
  ASSUME Typed, NothingStranded, NEW t \in Tasks, buffer[t] = "none",
         buffer' = buffer, NEW s \in {"new", "blocked", "failed"},
         at' = [at EXCEPT ![t] = s]
  PROVE  NothingStranded'
BY DEF Typed, NothingStranded

(* A task that begins, or is given room, either has a buffer it will       *)
(* commit or one it has committed, or fails for want of one.               *)
LEMMA MakeStrandsNothing ==
  ASSUME Typed, NothingStranded, NEW t \in Tasks, buffer[t] = "none", MakeBuffer(t)
  PROVE  NothingStranded'
<1>1. CASE NoBuffer(t)
  <2>1. \/ at' = [at EXCEPT ![t] = "new"]
        \/ at' = [at EXCEPT ![t] = "failed"]
    BY <1>1 DEF NoBuffer
  <2> QED BY <1>1, <2>1, StopStrandsNothing DEF NoBuffer
<1>2. CASE ~ NoBuffer(t)
  BY <1>2 DEF MakeBuffer, Typed, NothingStranded
<1> QED BY <1>1, <1>2

(* The end of the process takes the buffers with it. *)
LEMMA DeathStrandsNothing ==
  ASSUME Typed, NEW S, Die(S)
  PROVE  NothingStranded'
BY DEF Die, Typed, NothingStranded

(***************************************************************************)
(* Nobody waits for a buffer that is not there, and no room is lost to a   *)
(* buffer nobody will come back for: the part of Answered that holds in    *)
(* every state, for any number of jobs, queues, failures and crashes.      *)
(***************************************************************************)
THEOREM NothingStrandedAlways == Spec => []NothingStranded
<1>1. Init => NothingStranded
  BY DEF Init, NothingStranded
<1>2. QueueInv /\ NothingStranded /\ [Next]_vars => NothingStranded'
  <2> SUFFICES ASSUME QueueInv, NothingStranded, [Next]_vars PROVE NothingStranded'
    OBVIOUS
  <2>a. Typed /\ Bufferless
    BY DEF QueueInv
  <2>b. Jobs \subseteq Tasks /\ Health \in Tasks
    BY DEF Tasks
  <2>1. ASSUME NEW t \in Tasks, NEW q, at[t] = "new", UseQueue(t, q)
        PROVE  NothingStranded'
    <3>1. buffer[t] = "none"
      BY <2>a, <2>1 DEF Bufferless
    <3>2. CASE HasRoom(q)
      BY <2>a, <2>1, <3>1, <3>2, MakeStrandsNothing DEF UseQueue
    <3>3. CASE ~ HasRoom(q)
      BY <2>a, <2>1, <3>1, <3>3, StopStrandsNothing DEF UseQueue
    <3> QED BY <3>2, <3>3
  <2>2. ASSUME NEW j \in Jobs, SubmitJob(j)
        PROVE  NothingStranded'
    <3>1. j \in Tasks /\ at[j] = "new" /\ buffer[j] = "none"
      BY <2>a, <2>b, <2>2 DEF SubmitJob, Bufferless
    <3>2. CASE j \in Bad
      BY <2>a, <2>2, <3>1, <3>2, StopStrandsNothing DEF SubmitJob
    <3>3. CASE j \notin Bad
      BY <2>1, <2>2, <3>1, <3>3 DEF SubmitJob
    <3> QED BY <3>2, <3>3
  <2>3. ASSUME NEW j \in Jobs, RejectPayload(j)
        PROVE  NothingStranded'
    <3>1. j \in Tasks /\ buffer[j] = "none"
      BY <2>a, <2>b, <2>3 DEF RejectPayload, Bufferless
    <3> QED BY <2>a, <2>3, <3>1, StopStrandsNothing DEF RejectPayload
  <2>4. CASE CheckHealth
    BY <2>1, <2>b, <2>4 DEF CheckHealth
  <2>5. ASSUME NEW t \in Tasks, Unblock(t)
        PROVE  NothingStranded'
    <3>1. buffer[t] = "none"
      BY <2>a, <2>5 DEF Unblock, Typed, Bufferless
    <3> QED BY <2>a, <2>5, <3>1, MakeStrandsNothing DEF Unblock
  <2>6. ASSUME NEW t \in Tasks, CommitCompiled(t) \/ CompileFails(t)
        PROVE  NothingStranded'
    BY <2>a, <2>6 DEF CommitCompiled, CompileFails, Typed, NothingStranded
  <2>7. ASSUME NEW t \in Tasks, AddHandler(t) \/ AddHandlerTooLate(t)
        PROVE  NothingStranded'
    BY <2>a, <2>7 DEF AddHandler, AddHandlerTooLate, Typed, NothingStranded
  <2>8. ASSUME NEW t \in Tasks, Return(t) \/ CompleteBuffer(t)
        PROVE  NothingStranded'
    BY <2>a, <2>8 DEF Return, CompleteBuffer, Typed, NothingStranded
  <2>9. CASE \/ Crash \/ (\E j \in Jobs : TrapPayload(j))
             \/ (\E t \in Tasks : CompileAborts(t))
    BY <2>a, <2>9, DeathStrandsNothing DEF Crash, TrapPayload, CompileAborts
  <2>10. CASE UNCHANGED vars
    BY <2>10 DEF vars, NothingStranded
  <2> QED BY <2>2, <2>3, <2>4, <2>5, <2>6, <2>7, <2>8, <2>9, <2>10 DEF Next, Continue
<1> QED BY <1>1, <1>2, QueueInvariant, PTL DEF Spec

(* A task has begun and is neither answered nor lost. *)
Unfinished == \E t \in Tasks : at[t] \in {"blocked", "compiling", "committed", "waiting"}

(* Some task, or the GPU, can take the next step (the guards of Continue   *)
(* and CompleteBuffer).                                                    *)
SomebodyMoves ==
  \E t \in Tasks :
    \/ holder = t /\ HasRoom(queue[t])
    \/ holder = Nobody /\ at[t] = "compiling"
    \/ at[t] = "committed"
    \/ holder = Nobody /\ at[t] = "waiting" /\ buffer[t] = "completed"
    \/ buffer[t] = "running"

(***************************************************************************)
(* The server never deadlocks: with fewer metal-compute jobs than a queue  *)
(* has room for, whatever is unfinished leaves somebody a step to take.    *)
(***************************************************************************)
THEOREM NoDeadlock ==
  ASSUME Cardinality(Compute) < Capacity
  PROVE  Spec => [](Unfinished => SomebodyMoves)
<1>1. Typed /\ NeverStuck /\ NothingStranded => (Unfinished => SomebodyMoves)
  <2> SUFFICES ASSUME Typed, NeverStuck, NothingStranded, NEW t \in Tasks,
                      at[t] \in {"blocked", "compiling", "committed", "waiting"}
               PROVE  SomebodyMoves
    BY DEF Unfinished
  <2>1. CASE holder # Nobody
    <3>1. PICK u \in Tasks : holder = u
      BY <2>1 DEF Typed
    <3>2. CASE HasRoom(queue[u])
      BY <3>1, <3>2 DEF SomebodyMoves
    <3>3. CASE \E w \in Uncompleted(queue[u]) : buffer[w] = "running"
      BY <3>3 DEF Uncompleted, SomebodyMoves
    <3> QED BY <3>1, <3>2, <3>3 DEF NeverStuck
  <2>2. CASE holder = Nobody
    <3>1. at[t] # "blocked"
      BY <2>2, JobsAssumption DEF Typed
    <3>2. CASE at[t] = "waiting"
      BY <2>2, <3>2 DEF NothingStranded, SomebodyMoves
    <3> QED BY <2>2, <3>1, <3>2 DEF SomebodyMoves
  <2> QED BY <2>1, <2>2
<1>2. QueueInv => Typed
  BY DEF QueueInv
<1>3. Spec => []NeverStuck
  BY NeverStuckAlways
<1> QED BY <1>1, <1>2, <1>3, NothingStrandedAlways, QueueInvariant, PTL

-----------------------------------------------------------------------------
(* The queues before the next one have been picked once more than the rest.*)
Spread ==
  \E k \in Nat : \A q \in Queues :
    Cardinality(Picked(q)) = k + (IF q < queueIndex % MaxQueues THEN 1 ELSE 0)

(* The next queue. *)
LEMMA ModStep ==
  ASSUME NEW n \in Nat, NEW m \in Nat \ {0}
  PROVE  /\ n % m \in 0 .. m - 1
         /\ (n + 1) % m = IF n % m = m - 1 THEN 0 ELSE (n % m) + 1
<1> DEFINE d == n \div m
           r == n % m
           e == (n + 1) \div m
           u == (n + 1) % m
<1>1. /\ n = m * d + r /\ r \in 0 .. m - 1 /\ d \in Int
      /\ n + 1 = m * e + u /\ u \in 0 .. m - 1 /\ e \in Int
  BY SMT
<1> HIDE DEF d, r, e, u
<1>2. m * (e - d) = (r + 1) - u
  BY <1>1, SMT
<1>3. e - d <= 0 => m * (e - d) <= 0
  BY <1>1, SMT
<1>4. e - d >= 1 => m * (e - d) >= m
  BY <1>1, SMT
<1>5. e - d <= -1 => m * (e - d) <= 0 - m
  BY <1>1, SMT
<1>6. e - d = 0 => m * (e - d) = 0
  BY <1>1, SMT
<1>7. u = IF r = m - 1 THEN 0 ELSE r + 1
  <2>1. m * (e - d) \in Int
    BY <1>1
  <2>2. CASE e - d = 0
    BY <1>1, <1>2, <1>6, <2>2
  <2>3. CASE e - d >= 1
    BY <1>1, <1>2, <1>4, <2>1, <2>3
  <2>4. CASE e - d <= -1
    BY <1>1, <1>2, <1>5, <2>1, <2>4
  <2> QED BY <1>1, <2>2, <2>3, <2>4
<1> QED BY <1>1, <1>7 DEF r, u

LEMMA ZeroMod == 0 % MaxQueues = 0
<1> DEFINE d == 0 \div MaxQueues
           u == 0 % MaxQueues
           m == MaxQueues
<1>0. m \in Nat \ {0}
  BY MaxQueuesAssumption
<1>1. 0 = m * d + u /\ u \in 0 .. m - 1 /\ d \in Int
  BY <1>0, SMT
<1> HIDE DEF d, u, m
<1>2. d >= 1 => m * d >= m
  BY <1>0, <1>1, SMT
<1>3. d <= -1 => m * d <= 0 - m
  BY <1>0, <1>1, SMT
<1>4. d = 0
  <2>1. m * d \in Int
    BY <1>0, <1>1
  <2> QED BY <1>0, <1>1, <1>2, <1>3, <2>1
<1>5. u = 0
  BY <1>0, <1>1, <1>4, SMT
<1> QED BY <1>5 DEF u, m

LEMMA PickedFinite ==
  ASSUME NEW q
  PROVE  IsFiniteSet(Picked(q)) /\ Cardinality(Picked(q)) \in Nat
<1>1. IsFiniteSet(Picked(q))
  BY JobsAssumption, FS_Subset DEF Picked
<1> QED BY <1>1, FS_CardinalityType

(* One job more on the next queue. *)
LEMMA PickSpreads ==
  ASSUME Typed, Spread, NEW j \in Jobs, queue[j] = NoQueue,
         queueIndex' = queueIndex + 1,
         queue' = [queue EXCEPT ![j] = PickQueue]
  PROVE  Spread'
<1> DEFINE C(q) == Cardinality(Picked(q))
<1>0. /\ MaxQueues \in Nat \ {0} /\ queueIndex \in Nat /\ j \in Tasks
      /\ queue \in [Tasks -> Queues \cup {NoQueue}]
  BY MaxQueuesAssumption DEF Typed, Tasks
<1>1. PICK r \in Queues : r = queueIndex % MaxQueues
  BY <1>0, ModStep DEF Queues
<1>2. /\ r \in 0 .. MaxQueues - 1 /\ PickQueue = r
      /\ queueIndex' % MaxQueues = IF r = MaxQueues - 1 THEN 0 ELSE r + 1
  BY <1>0, <1>1, ModStep DEF Queues, PickQueue
<1>3. \A i \in Jobs : queue'[i] = IF i = j THEN r ELSE queue[i]
  BY <1>0, <1>2 DEF Tasks
<1>4. \A q \in Queues : q # NoQueue
  BY <1>0 DEF Queues, NoQueue
<1>5. Cardinality(Picked(r)') = C(r) + 1
  <2>1. Picked(r)' = Picked(r) \cup {j} /\ j \notin Picked(r)
    BY <1>3, <1>4 DEF Picked
  <2> QED BY <2>1, PickedFinite, FS_AddElement
<1>6. \A q \in Queues : q # r => Cardinality(Picked(q)') = C(q)
  <2>1. \A q \in Queues : q # r => Picked(q)' = Picked(q)
    BY <1>3, <1>4 DEF Picked
  <2> QED BY <2>1
<1>7. PICK k \in Nat : \A q \in Queues : C(q) = k + (IF q < r THEN 1 ELSE 0)
  BY <1>1 DEF Spread
<1>8. PICK l \in Nat : l = IF r = MaxQueues - 1 THEN k + 1 ELSE k
  OBVIOUS
<1>9. ASSUME NEW q \in Queues
      PROVE  Cardinality(Picked(q)') = l + (IF q < queueIndex' % MaxQueues THEN 1 ELSE 0)
  <2>1. q \in 0 .. MaxQueues - 1
    BY DEF Queues
  <2>2. C(q) = k + (IF q < r THEN 1 ELSE 0)
    BY <1>7
  <2>3. CASE q = r
    <3>1. Cardinality(Picked(q)') = k + 1
      BY <1>2, <1>5, <2>2, <2>3
    <3> QED BY <1>0, <1>2, <1>8, <2>3, <3>1
  <2>4. CASE q # r
    <3>1. Cardinality(Picked(q)') = C(q)
      BY <1>6, <2>4
    <3> QED BY <1>0, <1>2, <1>8, <2>1, <2>2, <2>4, <3>1
  <2> QED BY <2>3, <2>4
<1> QED BY <1>9, <1>0 DEF Spread, Queues

LEMMA InitSpread == Init => Spread
<1> SUFFICES ASSUME Init PROVE Spread
  OBVIOUS
<1>1. \A q \in Queues : Cardinality(Picked(q)) = 0
  <2>1. \A q \in Queues : Picked(q) = {}
    BY DEF Init, Picked, Queues, NoQueue, Tasks
  <2> QED BY <2>1, FS_EmptySet
<1>2. queueIndex % MaxQueues = 0
  BY ZeroMod DEF Init
<1>3. \A q \in Queues : Cardinality(Picked(q)) = 0 + (IF q < queueIndex % MaxQueues THEN 1 ELSE 0)
  BY <1>1, <1>2 DEF Queues
<1> QED BY <1>3 DEF Spread

(***************************************************************************)
(* The round robin is even for every number of queues, whatever fails,     *)
(* blocks or crashes in between.                                           *)
(***************************************************************************)
THEOREM SpreadAlways == Spec => []SpreadEvenly
<1>1. QueueInv /\ Spread /\ [Next]_vars => Spread'
  <2> SUFFICES ASSUME QueueInv, Spread, [Next]_vars PROVE Spread'
    OBVIOUS
  <2>a. Typed /\ NewHasNone
    BY DEF QueueInv
  <2>b. ASSUME queueIndex' = queueIndex, \A j \in Jobs : queue'[j] = queue[j]
        PROVE  Spread'
    <3>1. \A q : Picked(q)' = Picked(q)
      BY <2>b DEF Picked
    <3> QED BY <2>b, <3>1 DEF Spread
  <2>1. ASSUME NEW j \in Jobs, SubmitJob(j) \/ RejectPayload(j)
        PROVE  Spread'
    <3>1. /\ queue[j] = NoQueue /\ queueIndex' = queueIndex + 1
          /\ queue' = [queue EXCEPT ![j] = PickQueue]
      BY <2>a, <2>1 DEF SubmitJob, RejectPayload, UseQueue, NewHasNone
    <3> QED BY <2>a, <3>1, PickSpreads
  <2>2. CASE CheckHealth
    <3>1. queueIndex' = queueIndex /\ queue' = [queue EXCEPT ![Health] = 0]
      BY <2>2 DEF CheckHealth, UseQueue
    <3>2. \A j \in Jobs : queue'[j] = queue[j]
      BY <2>a, <3>1, JobsAssumption DEF Typed, Tasks
    <3> QED BY <2>b, <3>1, <3>2
  <2>3. ASSUME NEW t \in Tasks, Continue(t) \/ CompleteBuffer(t), ~ CompileAborts(t)
        PROVE  Spread'
    <3>1. queueIndex' = queueIndex /\ queue' = queue
      BY <2>3 DEF Continue, Unblock, CommitCompiled, CompileFails, AddHandler,
                  AddHandlerTooLate, Return, CompleteBuffer
    <3> QED BY <2>b, <3>1
  <2>4. CASE \/ Crash \/ (\E j \in Jobs : TrapPayload(j))
             \/ (\E t \in Tasks : CompileAborts(t))
    <3>1. queueIndex' = 0 /\ queue' = [t \in Tasks |-> NoQueue]
      BY <2>4 DEF Crash, TrapPayload, CompileAborts, Die
    <3>2. \A q \in Queues : Picked(q)' = {}
      BY <3>1 DEF Picked, Queues, NoQueue, Tasks
    <3>3. queueIndex' % MaxQueues = 0
      BY <3>1, ZeroMod
    <3>4. \A q \in Queues : Cardinality(Picked(q)') =
                              0 + (IF q < queueIndex' % MaxQueues THEN 1 ELSE 0)
      BY <3>2, <3>3, FS_EmptySet DEF Queues
    <3> QED BY <3>4 DEF Spread, Queues
  <2>5. CASE UNCHANGED vars
    BY <2>b, <2>5 DEF vars
  <2> QED BY <2>1, <2>2, <2>3, <2>4, <2>5 DEF Next
<1>2. Spread => SpreadEvenly
  <2> SUFFICES ASSUME Spread, NEW p \in Queues, NEW q \in Queues
               PROVE  Cardinality(Picked(p)) <= Cardinality(Picked(q)) + 1
    BY DEF SpreadEvenly
  <2>1. PICK k \in Nat : \A x \in Queues :
          Cardinality(Picked(x)) = k + (IF x < queueIndex % MaxQueues THEN 1 ELSE 0)
    BY DEF Spread
  <2> QED BY <2>1
<1> QED BY <1>1, <1>2, InitSpread, QueueInvariant, PTL DEF Spec
=============================================================================
