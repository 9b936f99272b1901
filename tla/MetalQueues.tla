----------------------------- MODULE MetalQueues -----------------------------
(***************************************************************************)
(* The actor of metal-proxy (MetalProxyServer.swift): jobs and the health  *)
(* loop share it and a fixed pool of Metal command queues.                 *)
(*                                                                         *)
(* A task runs on the actor until it awaits; what it does up to there is   *)
(* one action.  Three awaits matter: the compilation of a metal-compute    *)
(* pipeline, for which the command buffer already exists, the way to       *)
(* waitUntilCompletedAsync, which runs off the actor, and the completion   *)
(* itself.                                                                 *)
(*                                                                         *)
(* Metal (external) gives a queue room for Capacity buffers that have been *)
(* made and have not completed.  When there is no room, makeCommandBuffer  *)
(* blocks the calling thread, and with it the actor.                       *)
(***************************************************************************)
EXTENDS Integers, FiniteSets

CONSTANTS
  MaxQueues,
  Capacity,
  Compute,     \* jobs of the backend metal-compute
  Plain,       \* jobs of the backends mlx and pytorch-mps
  Bad,         \* jobs of a backend that does not exist
  Health,      \* the health loop
  Nobody,
  Budget       \* how often each kind of outside event happens

BudgetKinds == {"crash", "late", "nil"}

ASSUME MaxQueuesAssumption == MaxQueues \in Nat \ {0}

ASSUME CapacityAssumption == Capacity \in Nat \ {0}

ASSUME MetalBudgetAssumption == Budget \in [BudgetKinds -> Nat]

Jobs == Compute \cup Plain \cup Bad

Tasks == Jobs \cup {Health}

ASSUME JobsAssumption ==
  /\ IsFiniteSet(Jobs)
  /\ Compute \cap (Plain \cup Bad) = {}
  /\ Plain \cap Bad = {}
  /\ Health \notin Jobs
  /\ Nobody \notin Tasks

VARIABLES
  queueIndex,
  at,         \* where each task is
  queue,      \* the command queue it got, or none
  buffer,     \* its command buffer
  holder,     \* the task blocked on the actor's thread
  budget      \* outside events left

vars == <<queueIndex, at, queue, buffer, holder, budget>>

-----------------------------------------------------------------------------
Queues == 0 .. MaxQueues - 1

NoQueue == -1

Stages ==
  {"new",         \* not submitted; for the health loop: asleep
   "blocked",     \* in makeCommandBuffer
   "compiling",   \* in makeComputePipelineState
   "committed",   \* on the way to addCompletedHandler
   "waiting",     \* for the handler
   "lost",        \* waiting for a handler that Metal will not call
   "done", "failed"}

TypeOK ==
  /\ queueIndex \in 0 .. Cardinality(Jobs)
  /\ at \in [Tasks -> Stages]
  /\ queue \in [Tasks -> Queues \cup {NoQueue}]
  /\ buffer \in [Tasks -> {"none", "made", "running", "completed"}]
  /\ holder \in Tasks \cup {Nobody}
  /\ budget \in [BudgetKinds -> Nat]
  /\ \A t \in Tasks : at[t] = "blocked" <=> holder = t

Init ==
  /\ queueIndex = 0
  /\ at = [t \in Tasks |-> "new"]
  /\ queue = [t \in Tasks |-> NoQueue]
  /\ buffer = [t \in Tasks |-> "none"]
  /\ holder = Nobody
  /\ budget = Budget

Spend(kind) ==
  /\ budget[kind] > 0
  /\ budget' = [budget EXCEPT ![kind] = @ - 1]

(* The tasks whose buffers take up room in queue q. *)
Uncompleted(q) ==
  {t \in Tasks : queue[t] = q /\ buffer[t] \in {"made", "running"}}

HasRoom(q) == Cardinality(Uncompleted(q)) < Capacity

-----------------------------------------------------------------------------
(* makeCommandBuffer, or the encoder after it, answers nil: a job throws,  *)
(* the health check is over.                                               *)
NoBuffer(t) ==
  /\ Spend("nil")
  /\ at' = [at EXCEPT ![t] = IF t = Health THEN "new" ELSE "failed"]
  /\ UNCHANGED buffer

(* makeCommandBuffer and what follows it on the actor: metal-compute goes  *)
(* on to compile, everything else commits.                                 *)
MakeBufferMutant(t) ==                      \* every job prepares something first
  \/ /\ buffer' = [buffer EXCEPT ![t] = IF t \in Jobs THEN "made" ELSE "running"]
     /\ at' = [at EXCEPT ![t] = IF t \in Jobs THEN "compiling" ELSE "committed"]
     /\ UNCHANGED budget
  \/ NoBuffer(t)

MakeBuffer(t) ==
  \/ /\ buffer' = [buffer EXCEPT ![t] = IF t \in Compute THEN "made" ELSE "running"]
     /\ at' = [at EXCEPT ![t] = IF t \in Compute THEN "compiling" ELSE "committed"]
     /\ UNCHANGED budget
  \/ NoBuffer(t)

UseQueue(t, q) ==
  /\ queue' = [queue EXCEPT ![t] = q]
  /\ IF HasRoom(q)
       THEN MakeBuffer(t) /\ UNCHANGED holder
       ELSE /\ at' = [at EXCEPT ![t] = "blocked"]
            /\ holder' = t
            /\ UNCHANGED <<buffer, budget>>

PickQueueMutant == IF queueIndex < MaxQueues THEN queueIndex ELSE 0

PickQueue == queueIndex % MaxQueues

(* submitJob.  The queue is picked before the backend is looked at. *)
SubmitJob(j) ==
  /\ holder = Nobody
  /\ at[j] = "new"
  /\ queueIndex' = queueIndex + 1
  /\ IF j \in Bad
       THEN /\ at' = [at EXCEPT ![j] = "failed"]
            /\ queue' = [queue EXCEPT ![j] = PickQueue]
            /\ UNCHANGED <<buffer, holder, budget>>
       ELSE UseQueue(j, PickQueue)

(* A payload that is too short or holds no library fails before there is a *)
(* buffer.                                                                 *)
RejectPayload(j) ==
  /\ holder = Nobody
  /\ at[j] = "new"
  /\ j \in Compute
  /\ queueIndex' = queueIndex + 1
  /\ queue' = [queue EXCEPT ![j] = PickQueue]
  /\ at' = [at EXCEPT ![j] = "failed"]
  /\ UNCHANGED <<buffer, holder, budget>>

(* checkHealth, on the first queue. *)
CheckHealth ==
  /\ holder = Nobody
  /\ at[Health] = "new"
  /\ UseQueue(Health, 0)
  /\ UNCHANGED queueIndex

UnblockMutant(t) ==                         \* the actor is not given back
  /\ holder = t
  /\ HasRoom(queue[t])
  /\ MakeBuffer(t)
  /\ UNCHANGED <<queueIndex, queue, holder>>

(* Room in the queue: makeCommandBuffer returns. *)
Unblock(t) ==
  /\ holder = t
  /\ HasRoom(queue[t])
  /\ MakeBuffer(t)
  /\ holder' = Nobody
  /\ UNCHANGED <<queueIndex, queue>>

CommitCompiledMutant(j) ==                  \* buffer.commit() is left out
  /\ holder = Nobody
  /\ at[j] = "compiling"
  /\ at' = [at EXCEPT ![j] = "committed"]
  /\ UNCHANGED <<queueIndex, queue, buffer, holder, budget>>

(* makeComputePipelineState answers; the job needs the actor to go on. *)
CommitCompiled(j) ==
  /\ holder = Nobody
  /\ at[j] = "compiling"
  /\ buffer' = [buffer EXCEPT ![j] = "running"]
  /\ at' = [at EXCEPT ![j] = "committed"]
  /\ UNCHANGED <<queueIndex, queue, holder, budget>>

(* It throws; the buffer is released with the frame that held it.  The     *)
(* encoder goes with them, although nobody ended it: see CompileAborts.    *)
CompileFails(j) ==
  /\ holder = Nobody
  /\ at[j] = "compiling"
  /\ buffer' = [buffer EXCEPT ![j] = "none"]
  /\ at' = [at EXCEPT ![j] = "failed"]
  /\ UNCHANGED <<queueIndex, queue, holder, budget>>

(* addCompletedHandler, off the actor and after the commit, though Metal   *)
(* wants handlers before it.  A buffer that has completed by then may      *)
(* never call this one.                                                    *)
AddHandler(t) ==
  /\ at[t] = "committed"
  /\ at' = [at EXCEPT ![t] = "waiting"]
  /\ UNCHANGED <<queueIndex, queue, buffer, holder, budget>>

AddHandlerTooLate(t) ==
  /\ at[t] = "committed"
  /\ buffer[t] = "completed"
  /\ Spend("late")
  /\ at' = [at EXCEPT ![t] = "lost"]
  /\ UNCHANGED <<queueIndex, queue, buffer, holder>>

(* The continuation resumes on the actor: a job returns its result, the    *)
(* health loop logs and goes to sleep.                                     *)
Return(t) ==
  /\ holder = Nobody
  /\ at[t] = "waiting"
  /\ buffer[t] = "completed"
  /\ at' = [at EXCEPT ![t] = IF t = Health THEN "new" ELSE "done"]
  /\ buffer' = [buffer EXCEPT ![t] = "none"]
  /\ UNCHANGED <<queueIndex, queue, holder, budget>>

-----------------------------------------------------------------------------
(* The GPU (external). *)
CompleteBuffer(t) ==
  /\ buffer[t] = "running"
  /\ buffer' = [buffer EXCEPT ![t] = "completed"]
  /\ UNCHANGED <<queueIndex, at, queue, holder, budget>>

(* The process ends and its container starts again: whatever was under     *)
(* way has failed, and so has what the jobs S were about to begin.         *)
Die(S) ==
  /\ queueIndex' = 0
  /\ at' = [t \in Tasks |->
              IF t = Health THEN "new"
              ELSE IF at[t] = "done" \/ (at[t] = "new" /\ t \notin S) THEN at[t]
              ELSE "failed"]
  /\ queue' = [t \in Tasks |-> NoQueue]
  /\ buffer' = [t \in Tasks |-> "none"]
  /\ holder' = Nobody

Crash == Spend("crash") /\ Die({})

(* The kernel's name is longer than its payload: the slice traps.          *)
TrapPayload(j) ==
  /\ holder = Nobody
  /\ at[j] = "new"
  /\ j \in Compute
  /\ Die({j})
  /\ UNCHANGED budget

(* makeComputePipelineState throws, and Metal asserts that an encoder was  *)
(* ended before it is released.                                            *)
CompileAborts(j) ==
  /\ holder = Nobody
  /\ at[j] = "compiling"
  /\ Die({})
  /\ UNCHANGED budget

-----------------------------------------------------------------------------
(* What a task that was started does next. *)
Continue(t) ==
  \/ Unblock(t)
  \/ CommitCompiled(t) \/ CompileFails(t) \/ CompileAborts(t)
  \/ AddHandler(t) \/ AddHandlerTooLate(t)
  \/ Return(t)

Next ==
  \/ \E j \in Jobs : SubmitJob(j) \/ RejectPayload(j) \/ TrapPayload(j)
  \/ CheckHealth
  \/ \E t \in Tasks : Continue(t) \/ CompleteBuffer(t)
  \/ Crash

Spec == Init /\ [][Next]_vars

(* Tasks that can go on do, compilations answer, the health loop wakes up, *)
(* and the GPU finishes what is committed.  Nobody has to submit jobs.     *)
Fairness ==
  /\ WF_vars(CheckHealth)
  /\ \A t \in Tasks : WF_vars(Continue(t)) /\ WF_vars(CompleteBuffer(t))

FairSpec == Spec /\ Fairness

-----------------------------------------------------------------------------
(***************************************************************************)
(* A blocked actor has room or waits for the GPU to make it, never for a   *)
(* task that needs the actor itself.  This takes fewer metal-compute jobs  *)
(* at a time than a queue has room for: their buffers exist before they    *)
(* are committed (lines 256-265), and nothing in the code limits them.     *)
(***************************************************************************)
NeverStuck ==
  \A t \in Tasks :
    holder = t =>
      \/ HasRoom(queue[t])
      \/ \E u \in Uncompleted(queue[t]) : buffer[u] = "running"

(***************************************************************************)
(* Whoever waits, waits for something that is under way, and room that is  *)
(* taken comes back: a task that has committed has a buffer the GPU has or *)
(* is done with, and a buffer that takes up room has a task that will      *)
(* commit it, wait for it or release it.  Failures, crashes and lost       *)
(* completions leave neither a task without a buffer nor a buffer without  *)
(* a task (lines 117-126, 187-270, 319-329).                               *)
(***************************************************************************)
NothingStranded ==
  \A t \in Tasks :
    /\ at[t] \in {"committed", "waiting"} => buffer[t] \in {"running", "completed"}
    /\ buffer[t] \in {"made", "running"} => at[t] \in {"compiling", "committed", "waiting"}

(***************************************************************************)
(* Round robin spreads jobs evenly: since the process started, no queue    *)
(* was picked more than once more than another (pickQueue, lines 178-185), *)
(* with failures, blocked submissions and health checks in between.        *)
(***************************************************************************)
Picked(q) == {j \in Jobs : queue[j] = q}

SpreadEvenly ==
  \A p, q \in Queues : Cardinality(Picked(p)) <= Cardinality(Picked(q)) + 1

(***************************************************************************)
(* A submitted job is answered, whatever crashes and lost completions do   *)
(* to others; only a job whose own completion is lost is not.              *)
(***************************************************************************)
Answered ==
  \A j \in Jobs : at[j] # "new" ~> at[j] \in {"done", "failed", "lost"}

(***************************************************************************)
(* The health loop keeps checking; a lost completion ends it for good, and *)
(* nothing else does (lines 108-126).                                      *)
(***************************************************************************)
HealthGoesOn ==
  []<>(at[Health] = "new") \/ <>[](at[Health] = "lost")

(***************************************************************************)
(* The comment of submitJob: it "dispatches a compute job to an available  *)
(* MTLCommandQueue" and "returns the result asynchronously".  A job that   *)
(* was submitted is answered.                                              *)
(***************************************************************************)
JobsReturn ==
  \A j \in Jobs : at[j] # "new" ~> at[j] \in {"done", "failed"}
=============================================================================
