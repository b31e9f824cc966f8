------------------------------ MODULE Pipeline ------------------------------
(***************************************************************************)
(* The generation pipeline of the MusicGPT backend: the prompts and audio  *)
(* tables (PostgreSQL through Prisma), the cron scheduler that moves       *)
(* PENDING prompts to the BullMQ queue, the queue itself, and the worker   *)
(* that generates the audio, completes the prompt and announces it.        *)
(*                                                                         *)
(* An instance is one API process: it hosts a scheduler and a worker of    *)
(* concurrency 1.  Every await of the source is a boundary between two     *)
(* actions, so the handlers of all instances interleave between their      *)
(* database and Redis calls.  Time is abstracted: a timer that can fire    *)
(* may fire at any moment.                                                 *)
(***************************************************************************)
EXTENDS Naturals, FiniteSets

CONSTANTS
    Prompts,      \* identifiers of the prompts users may submit
    Instances,    \* the API processes
    Ticks,        \* activations of the cron handler one process may hold
    JobIds,       \* slots for the live jobs of the queue
    BatchSize,    \* BATCH_SIZE: prompts taken by one poll
    MaxAttempts,  \* attempts given to a job
    MaxStalls,    \* BullMQ's maxStalledCount (its default, 1)
    Tiers,        \* Tiers[p]: subscriptions the owner of p may hold at a poll
    FaultKinds,   \* the kinds of failure that may happen
    MaxFaults,    \* bound on the number of failures
    None          \* "no prompt", "no job", "no owner"

AllFaults == {"poll", "enqueue", "job", "generate", "cache", "publish",
              "rollback", "lock", "crash"}

ASSUME SetsAssumption ==
    /\ IsFiniteSet(Prompts)
    /\ None \notin Prompts \union Instances \union JobIds
    /\ Tiers \in [Prompts -> (SUBSET {"FREE", "PAID"}) \ {{}}]
    /\ FaultKinds \subseteq AllFaults

ASSUME BoundsAssumption ==
    /\ BatchSize \in Nat \ {0}
    /\ MaxAttempts \in Nat \ {0}
    /\ MaxStalls \in Nat
    /\ MaxFaults \in Nat

VARIABLES
    status,     \* status[p]: the status column, "ABSENT" before the row exists
    createdAt,  \* createdAt[p]: rank of the created_at column, 0 before
    audio,      \* audio[p]: number of audio rows whose prompt_id is p
    jobs,       \* jobs[j]: the job in slot j, or NoJob
    isRunning,  \* isRunning[i]: the scheduler's re-entrancy flag
    poll,       \* poll[i][t]: one activation of pollPendingPrompts
    worker,     \* worker[i]: the activation of process(job), if any
    published,  \* published[p]: prompt:completed messages published for p
    faults      \* failures so far

tables == <<status, createdAt, audio>>
scheduler == <<isRunning, poll>>
vars == <<tables, jobs, scheduler, worker, published, faults>>

Statuses == {"ABSENT", "PENDING", "PROCESSING", "COMPLETED"}

\* Where a job lives in BullMQ: the prioritized set, the wait list (jobs taken
\* back from a stalled worker), the delayed set (retries), or a worker.
Queued == {"prioritized", "wait", "delayed"}

Job == [prompt : Prompts \union {None}, tier : {"FREE", "PAID"},
        state : Queued \union {"none", "active"}, attempts : Nat, stalls : Nat,
        owner : Instances \union {None}]

NoJob == [prompt |-> None, tier |-> "FREE", state |-> "none",
          attempts |-> 0, stalls |-> 0, owner |-> None]

PollPC == {"idle", "find", "update", "enqueue"}
Loop == [pc : PollPC, batch : SUBSET Prompts, prompt : Prompts \union {None}]
Asleep == [pc |-> "idle", batch |-> {}, prompt |-> None]

\* pc names the next await of process(job): "mark" is the PROCESSING update,
\* "generate" the delay and the read in the transaction, "commit" the rest of
\* the transaction.  "completed" and "failed" end the job in BullMQ.
WorkerPC == {"idle", "find", "mark", "generate", "commit", "invalidate",
             "publish", "rollback", "completed", "failed"}
Processing == [pc : WorkerPC, job : JobIds \union {None},
               prompt : Prompts \union {None}, existing : BOOLEAN]
Free == [pc |-> "idle", job |-> None, prompt |-> None, existing |-> FALSE]

TypeOK ==
    /\ status \in [Prompts -> Statuses]
    /\ createdAt \in [Prompts -> Nat]
    /\ audio \in [Prompts -> Nat]
    /\ jobs \in [JobIds -> Job]
    /\ isRunning \in [Instances -> BOOLEAN]
    /\ poll \in [Instances -> [Ticks -> Loop]]
    /\ worker \in [Instances -> Processing]
    /\ published \in [Prompts -> Nat]
    /\ faults \in Nat

Init ==
    /\ status = [p \in Prompts |-> "ABSENT"]
    /\ createdAt = [p \in Prompts |-> 0]
    /\ audio = [p \in Prompts |-> 0]
    /\ jobs = [j \in JobIds |-> NoJob]
    /\ isRunning = [i \in Instances |-> FALSE]
    /\ poll = [i \in Instances |-> [t \in Ticks |-> Asleep]]
    /\ worker = [i \in Instances |-> Free]
    /\ published = [p \in Prompts |-> 0]
    /\ faults = 0

-----------------------------------------------------------------------------
(***************************************************************************)
(* Failures.  A failed call either had its effect (the reply was lost) or  *)
(* did not: the failing actions below choose.                              *)
(***************************************************************************)
Fault(kind) ==
    /\ kind \in FaultKinds
    /\ faults < MaxFaults
    /\ faults' = faults + 1

-----------------------------------------------------------------------------
(***************************************************************************)
(* POST /prompts                                                           *)
(***************************************************************************)
Existing == {p \in Prompts : status[p] # "ABSENT"}

\* The row gets its created_at and is visible to polls in one step: rows that
\* commit in another order than they were stamped in are left out.
Create(p) ==
    /\ status[p] = "ABSENT"
    /\ status' = [status EXCEPT ![p] = "PENDING"]
    /\ createdAt' = [createdAt EXCEPT ![p] = Cardinality(Existing) + 1]
    /\ UNCHANGED <<audio, jobs, scheduler, worker, published, faults>>

-----------------------------------------------------------------------------
(***************************************************************************)
(* The scheduler: pollPendingPrompts                                       *)
(***************************************************************************)
Oldest(S) == {p \in S : \A q \in S : createdAt[p] <= createdAt[q]}

Pending == {p \in Prompts : status[p] = "PENDING"}

\* Mutant: the newest first (orderBy desc).
FindPendingNewest ==
    {p \in Pending :
        Cardinality({q \in Pending : createdAt[q] > createdAt[p]}) < BatchSize}

\* The BatchSize oldest PENDING prompts.
FindPending ==
    {p \in Pending :
        Cardinality({q \in Pending : createdAt[q] < createdAt[p]}) < BatchSize}

\* Mutant: no isRunning guard.
PollStartUnguarded(i, t) ==
    /\ poll[i][t].pc = "idle"
    /\ isRunning' = [isRunning EXCEPT ![i] = TRUE]
    /\ poll' = [poll EXCEPT ![i][t] = [Asleep EXCEPT !.pc = "find"]]
    /\ UNCHANGED <<tables, jobs, worker, published, faults>>

\* The cron timer fires; the handler returns at once if another activation of
\* this process is under way.
PollStart(i, t) ==
    /\ ~isRunning[i]
    /\ poll[i][t].pc = "idle"
    /\ isRunning' = [isRunning EXCEPT ![i] = TRUE]
    /\ poll' = [poll EXCEPT ![i][t] = [Asleep EXCEPT !.pc = "find"]]
    /\ UNCHANGED <<tables, jobs, worker, published, faults>>

\* Mutant: the flag is not reset.
PollEndStuck(i, t) ==
    /\ poll' = [poll EXCEPT ![i][t] = Asleep]
    /\ UNCHANGED isRunning

\* The end of pollPendingPrompts: the finally block.
PollEnd(i, t) ==
    /\ isRunning' = [isRunning EXCEPT ![i] = FALSE]
    /\ poll' = [poll EXCEPT ![i][t] = Asleep]

PollFind(i, t) ==
    /\ poll[i][t].pc = "find"
    /\ \/ /\ FindPending = {}
          /\ PollEnd(i, t)
       \/ /\ FindPending # {}
          /\ poll' = [poll EXCEPT ![i][t] = [pc |-> "update", batch |-> FindPending,
                                           prompt |-> None]]
          /\ UNCHANGED isRunning
    /\ UNCHANGED <<tables, jobs, worker, published, faults>>

\* The body of the loop: the oldest prompt left in the batch is the next one.
PollUpdate(i, t) ==
    /\ poll[i][t].pc = "update"
    /\ \E p \in Oldest(poll[i][t].batch) :
          /\ status' = [status EXCEPT ![p] = "PROCESSING"]
          /\ poll' = [poll EXCEPT ![i][t] = [pc |-> "enqueue", prompt |-> p,
                                           batch |-> @.batch \ {p}]]
    /\ UNCHANGED <<createdAt, audio, jobs, isRunning, worker, published, faults>>

FreeSlots == {j \in JobIds : jobs[j].state = "none"}

\* PromptProducer.enqueue: a new job, whatever jobs the prompt already has.
AddJob(p, tier) ==
    /\ FreeSlots # {}
    /\ LET j == CHOOSE s \in FreeSlots : TRUE
       IN  jobs' = [jobs EXCEPT ![j] = [NoJob EXCEPT !.prompt = p, !.tier = tier,
                                                     !.state = "prioritized"]]

Enqueue(i, t) == \E tier \in Tiers[poll[i][t].prompt] : AddJob(poll[i][t].prompt, tier)

\* After an enqueue the loop goes on with the rest of the batch.
PollEnqueue(i, t) ==
    /\ poll[i][t].pc = "enqueue"
    /\ Enqueue(i, t)
    /\ \/ /\ poll[i][t].batch = {}
          /\ PollEnd(i, t)
       \/ /\ poll[i][t].batch # {}
          /\ poll' = [poll EXCEPT ![i][t] = [@ EXCEPT !.pc = "update", !.prompt = None]]
          /\ UNCHANGED isRunning
    /\ UNCHANGED <<tables, worker, published, faults>>

\* A rejected call ends the loop: the catch block only logs.  What is left of
\* the batch stays PENDING.
PollFindFails(i, t) ==
    /\ Fault("poll")
    /\ poll[i][t].pc = "find"
    /\ PollEnd(i, t)
    /\ UNCHANGED <<tables, jobs, worker, published>>

PollUpdateFails(i, t) ==
    /\ Fault("poll")
    /\ poll[i][t].pc = "update"
    /\ \/ UNCHANGED status
       \/ \E p \in Oldest(poll[i][t].batch) :
             status' = [status EXCEPT ![p] = "PROCESSING"]
    /\ PollEnd(i, t)
    /\ UNCHANGED <<createdAt, audio, jobs, worker, published>>

PollEnqueueFails(i, t) ==
    /\ Fault("enqueue")
    /\ poll[i][t].pc = "enqueue"
    /\ UNCHANGED jobs \/ Enqueue(i, t)
    /\ PollEnd(i, t)
    /\ UNCHANGED <<tables, worker, published>>

-----------------------------------------------------------------------------
(***************************************************************************)
(* The queue: BullMQ as the producer and the processor configure it        *)
(***************************************************************************)
\* Mutant: the higher number is taken for the higher priority.
PrioritySwapped(tier) == IF tier = "PAID" THEN 10 ELSE 1

\* A lower number is served first.
Priority(tier) == IF tier = "PAID" THEN 1 ELSE 10

InState(S) == {j \in JobIds : jobs[j].state \in S}

\* The wait list is served before the prioritized set.
Servable ==
    IF InState({"wait"}) # {} THEN InState({"wait"})
    ELSE {j \in InState({"prioritized"}) :
            \A k \in InState({"prioritized"}) :
                Priority(jobs[j].tier) <= Priority(jobs[k].tier)}

Fetch(i, j) ==
    /\ worker[i].pc = "idle"
    /\ j \in Servable
    /\ jobs' = [jobs EXCEPT ![j] = [@ EXCEPT !.state = "active", !.owner = i]]
    /\ worker' = [worker EXCEPT ![i] = [Free EXCEPT !.pc = "find", !.job = j,
                                                  !.prompt = jobs[j].prompt]]
    /\ UNCHANGED <<tables, scheduler, published, faults>>

\* The backoff of a retried job elapses.
Promote(j) ==
    /\ jobs[j].state = "delayed"
    /\ jobs' = [jobs EXCEPT ![j] = [@ EXCEPT !.state = "prioritized"]]
    /\ UNCHANGED <<tables, scheduler, worker, published, faults>>

\* A worker fails to renew its lock in time, and does not notice.
LoseLock(j) ==
    /\ Fault("lock")
    /\ jobs[j].owner # None
    /\ jobs' = [jobs EXCEPT ![j] = [@ EXCEPT !.owner = None]]
    /\ UNCHANGED <<tables, scheduler, worker, published>>

\* The stalled-jobs checker finds an active job without a lock.
Stall(j) ==
    /\ jobs[j].state = "active"
    /\ jobs[j].owner = None
    /\ \/ /\ jobs[j].stalls < MaxStalls
          /\ jobs' = [jobs EXCEPT ![j] = [@ EXCEPT !.state = "wait", !.stalls = jobs[j].stalls + 1]]
       \/ /\ jobs[j].stalls >= MaxStalls
          /\ jobs' = [jobs EXCEPT ![j] = NoJob]
    /\ UNCHANGED <<tables, scheduler, worker, published, faults>>

-----------------------------------------------------------------------------
(***************************************************************************)
(* The worker: process(job)                                                *)
(***************************************************************************)
At(i, pc) == worker[i].pc = pc
Goto(i, pc) == 
    worker' = [worker EXCEPT ![i] = [@ EXCEPT !.pc = pc, !.existing = FALSE]]
Mine(i) == worker[i].prompt

\* Mutant: a completed prompt is not skipped.
FindPromptAlways(i) ==
    /\ At(i, "find")
    /\ Goto(i, "mark")
    /\ UNCHANGED <<tables, jobs, scheduler, published, faults>>

\* Mutant: only PENDING prompts are taken for eligible.
FindPromptPending(i) ==
    /\ At(i, "find")
    /\ Goto(i, IF status[Mine(i)] = "PENDING" THEN "mark" ELSE "completed")
    /\ UNCHANGED <<tables, jobs, scheduler, published, faults>>

FindPrompt(i) ==
    /\ At(i, "find")
    /\ \/ /\ status[Mine(i)] \in {"ABSENT", "COMPLETED"}
          /\ Goto(i, "completed")
       \/ /\ status[Mine(i)] \notin {"ABSENT", "COMPLETED"}
          /\ Goto(i, "mark")
    /\ UNCHANGED <<tables, jobs, scheduler, published, faults>>

MarkProcessing(i) ==
    /\ At(i, "mark")
    /\ status' = [status EXCEPT ![Mine(i)] = "PROCESSING"]
    /\ Goto(i, "generate")
    /\ UNCHANGED <<createdAt, audio, jobs, scheduler, published, faults>>

\* These two calls come before the try block: their failure fails the job and
\* leaves the status alone.
BeforeTryFails(i) ==
    /\ Fault("job")
    /\ \/ /\ worker[i].pc \in {"find", "mark"}
          /\ UNCHANGED status
       \/ /\ At(i, "mark")
          /\ status' = [status EXCEPT ![Mine(i)] = "PROCESSING"]
    /\ Goto(i, "failed")
    /\ UNCHANGED <<createdAt, audio, jobs, scheduler, published>>

\* The delay, then the transaction's read of the audio row.
FindAudio(i) ==
    /\ At(i, "generate")
    /\ worker' = [worker EXCEPT ![i] = [@ EXCEPT !.pc = "commit",
                                                !.existing = audio[Mine(i)] # 0]]
    /\ UNCHANGED <<tables, jobs, scheduler, published, faults>>

\* Mutant: no unique index on prompt_id.
CompleteUnchecked(i) ==
    /\ audio' = [audio EXCEPT ![Mine(i)] = IF worker[i].existing THEN @ ELSE @ + 1]
    /\ status' = [status EXCEPT ![Mine(i)] = "COMPLETED"]

\* Writes of the transaction, committed together: the audio row if the read
\* found none, and the COMPLETED status.
Complete(i) ==
    /\ worker[i].existing \/ audio[Mine(i)] = 0
    /\ audio' = [audio EXCEPT ![Mine(i)] = IF worker[i].existing THEN @ ELSE @ + 1]
    /\ status' = [status EXCEPT ![Mine(i)] = "COMPLETED"]

\* Mutant: the status is committed without the audio row.
CommitStatusOnly(i) ==
    /\ At(i, "commit")
    /\ status' = [status EXCEPT ![Mine(i)] = "COMPLETED"]
    /\ Goto(i, "invalidate")
    /\ UNCHANGED <<createdAt, audio, jobs, scheduler, published, faults>>

CommitAudio(i) ==
    /\ At(i, "commit")
    /\ Complete(i)
    /\ Goto(i, "invalidate")
    /\ UNCHANGED <<createdAt, jobs, scheduler, published, faults>>

\* Another transaction inserted the row since the read: the unique index on
\* prompt_id rejects the insert and the transaction is rolled back.
CommitConflicts(i) ==
    /\ At(i, "commit")
    /\ ~worker[i].existing /\ audio[Mine(i)] # 0
    /\ Goto(i, "rollback")
    /\ UNCHANGED <<tables, jobs, scheduler, published, faults>>

TransactionFails(i) ==
    /\ Fault("generate")
    /\ \/ /\ worker[i].pc \in {"generate", "commit"}
          /\ UNCHANGED <<audio, status>>
       \/ /\ At(i, "commit")
          /\ Complete(i)
    /\ Goto(i, "rollback")
    /\ UNCHANGED <<createdAt, jobs, scheduler, published>>

\* invalidateCaches; the cached lists themselves are not modelled here.
InvalidateCaches(i) ==
    /\ At(i, "invalidate")
    /\ Goto(i, "publish")
    /\ UNCHANGED <<tables, jobs, scheduler, published, faults>>

InvalidateFails(i) ==
    /\ Fault("cache")
    /\ At(i, "invalidate")
    /\ Goto(i, "rollback")
    /\ UNCHANGED <<tables, jobs, scheduler, published>>

Announce(i) == published' = [published EXCEPT ![Mine(i)] = @ + 1]

Publish(i) ==
    /\ At(i, "publish")
    /\ Announce(i)
    /\ Goto(i, "completed")
    /\ UNCHANGED <<tables, jobs, scheduler, faults>>

\* Mutant: the failure of the publication is swallowed.
PublishForgotten(i) ==
    /\ Fault("publish")
    /\ At(i, "publish")
    /\ Goto(i, "completed")
    /\ UNCHANGED <<tables, jobs, scheduler, published>>

PublishFails(i) ==
    /\ Fault("publish")
    /\ At(i, "publish")
    /\ Announce(i) \/ UNCHANGED published
    /\ Goto(i, "rollback")
    /\ UNCHANGED <<tables, jobs, scheduler>>

\* Mutant: the catch block only rethrows.
RollbackMissing(i) ==
    /\ At(i, "rollback")
    /\ Goto(i, "failed")
    /\ UNCHANGED <<tables, jobs, scheduler, published, faults>>

\* The catch block of process: back to PENDING, then rethrow.
Rollback(i) ==
    /\ At(i, "rollback")
    /\ status' = [status EXCEPT ![Mine(i)] = "PENDING"]
    /\ Goto(i, "failed")
    /\ UNCHANGED <<createdAt, audio, jobs, scheduler, published, faults>>

\* The failure of the rollback itself is logged and swallowed.
RollbackFails(i) ==
    /\ Fault("rollback")
    /\ At(i, "rollback")
    /\ Goto(i, "failed")
    /\ UNCHANGED <<tables, jobs, scheduler, published>>

\* process returned: BullMQ removes the job, if this worker still owns it.
FinishCompleted(i) ==
    /\ At(i, "completed")
    /\ jobs' = IF jobs[worker[i].job].owner = i
               THEN [jobs EXCEPT ![worker[i].job] = NoJob] ELSE jobs
    /\ worker' = [worker EXCEPT ![i] = Free]
    /\ UNCHANGED <<tables, scheduler, published, faults>>

\* Mutants: one attempt less than configured; attempts counted down.
FailedEarly(job) ==
    IF job.attempts + 2 < MaxAttempts
    THEN [job EXCEPT !.state = "delayed", !.owner = None, !.attempts = job.attempts + 1]
    ELSE NoJob
FailedCountsDown(job) ==
    IF job.attempts + 1 < MaxAttempts
    THEN [job EXCEPT !.state = "delayed", !.owner = None, !.attempts = job.attempts - 1]
    ELSE NoJob

Failed(job) ==
    IF job.attempts + 1 < MaxAttempts
    THEN [job EXCEPT !.state = "delayed", !.owner = None, !.attempts = job.attempts + 1]
    ELSE NoJob

\* process threw: BullMQ retries the job after a backoff, or gives it up after
\* its last attempt.
FinishFailed(i) ==
    /\ At(i, "failed")
    /\ jobs' = IF jobs[worker[i].job].owner = i
               THEN [jobs EXCEPT ![worker[i].job] = Failed(@)] ELSE jobs
    /\ worker' = [worker EXCEPT ![i] = Free]
    /\ UNCHANGED <<tables, scheduler, published, faults>>

-----------------------------------------------------------------------------
\* The process dies and is started again: its handlers, its flag and its locks
\* are lost, the tables and the queue are not.
Crash(i) ==
    /\ Fault("crash")
    /\ isRunning' = [isRunning EXCEPT ![i] = FALSE]
    /\ poll' = [poll EXCEPT ![i] = [t \in Ticks |-> Asleep]]
    /\ worker' = [worker EXCEPT ![i] = Free]
    /\ jobs' = [j \in JobIds |-> IF jobs[j].owner = i
                                 THEN [jobs[j] EXCEPT !.owner = None] ELSE jobs[j]]
    /\ UNCHANGED <<tables, published>>

-----------------------------------------------------------------------------
PollStep(i, t) ==
    PollStart(i, t) \/ PollFind(i, t) \/ PollUpdate(i, t) \/ PollEnqueue(i, t)

PollFault(i, t) ==
    PollFindFails(i, t) \/ PollUpdateFails(i, t) \/ PollEnqueueFails(i, t)

WorkerStep(i) ==
    \/ \E j \in JobIds : Fetch(i, j)
    \/ FindPrompt(i) \/ MarkProcessing(i) \/ FindAudio(i) \/ CommitAudio(i)
    \/ CommitConflicts(i) \/ InvalidateCaches(i) \/ Publish(i) \/ Rollback(i)
    \/ FinishCompleted(i) \/ FinishFailed(i)

WorkerFault(i) ==
    \/ BeforeTryFails(i) \/ TransactionFails(i) \/ InvalidateFails(i)
    \/ PublishFails(i) \/ RollbackFails(i)

QueueStep(j) == Promote(j) \/ Stall(j)

Next ==
    \/ \E p \in Prompts : Create(p)
    \/ \E i \in Instances, t \in Ticks : PollStep(i, t) \/ PollFault(i, t)
    \/ \E i \in Instances : WorkerStep(i) \/ WorkerFault(i) \/ Crash(i)
    \/ \E j \in JobIds : QueueStep(j) \/ LoseLock(j)

Spec == Init /\ [][Next]_vars

\* The cron timer keeps firing, the event loop of every process goes on, and
\* BullMQ's timers (backoff, stalled check) fire.  Users need not submit, and
\* nothing obliges a failure.
Fairness ==
    /\ \A i \in Instances : WF_vars(\E t \in Ticks : PollStep(i, t))
    /\ \A i \in Instances : WF_vars(WorkerStep(i))
    /\ \A j \in JobIds : WF_vars(QueueStep(j))

FairSpec == Spec /\ Fairness

-----------------------------------------------------------------------------
(***************************************************************************)
(* Safety                                                                  *)
(***************************************************************************)
\* A prompt reads COMPLETED only if its audio row exists, and there is never a
\* second row: what the transaction and the unique index of prompt_id are for.
CompletedHasAudio ==
    \A p \in Prompts : /\ audio[p] <= 1
                       /\ status[p] = "COMPLETED" => audio[p] = 1

\* Somebody still has p in hand: a scheduler about to enqueue it, a job that
\* will be run, a worker that will move it out of PROCESSING, or a failed job
\* with an attempt left.
Scheduled(p) ==
    \E i \in Instances, t \in Ticks :
        poll[i][t].pc = "enqueue" /\ poll[i][t].prompt = p
InQueue(p) == \E j \in JobIds : jobs[j].state \in Queued /\ jobs[j].prompt = p
InWork(p) ==
    \E i \in Instances :
        /\ worker[i].pc \in {"find", "mark", "generate", "commit", "rollback"}
        /\ worker[i].prompt = p
WillRetry(p) ==
    \E i \in Instances :
        /\ worker[i].pc = "failed" /\ worker[i].prompt = p
        /\ jobs[worker[i].job].owner = i
        /\ jobs[worker[i].job].attempts + 1 < MaxAttempts

\* A prompt that reads PROCESSING is never orphaned: findPending looks only for
\* PENDING prompts, so an orphan would stay PROCESSING for ever.
NoOrphan ==
    \A p \in Prompts :
        status[p] = "PROCESSING" =>
            Scheduled(p) \/ InQueue(p) \/ InWork(p) \/ WillRetry(p)

\* A prompt has at most one live job: the PROCESSING mark keeps the next poll
\* from enqueueing it again.
OneJobPerPrompt ==
    \A j, k \in JobIds :
        jobs[j].prompt = jobs[k].prompt /\ jobs[j].prompt # None => j = k

\* The owner of a prompt is told once that it is completed.
AnnouncedOnce == \A p \in Prompts : published[p] <= 1

-----------------------------------------------------------------------------
(***************************************************************************)
(* What a step may never do                                                *)
(***************************************************************************)
\* A prompt that reads COMPLETED reads so for ever.
CompletedIsFinal ==
    [][\A p \in Prompts : status[p] = "COMPLETED" => status'[p] = "COMPLETED"]_vars

\* Prompts are taken in the order they were submitted: none leaves PENDING
\* while an older one is PENDING, over batches, restarts and failed polls.
OldestFirst ==
    [][\A p, q \in Prompts :
          /\ status[p] = "PENDING" /\ status'[p] = "PENDING"
          /\ status[q] = "PENDING" /\ status'[q] # "PENDING"
          => createdAt[q] < createdAt[p]]_vars

\* No worker starts a queued FREE job while a PAID one is queued (a job taken
\* back from a stalled worker goes first whatever its tier).
PaidFirst ==
    [][\A j, k \in JobIds :
          /\ jobs[j].state = "prioritized" /\ jobs'[j].state = "active"
          /\ jobs[k].state = "prioritized" /\ jobs[k].tier = "PAID"
          => jobs[j].tier = "PAID"]_vars

\* Every behaviour of the pipeline is one of the abstract specification: what
\* the retries, the duplicate jobs and the crashes do stays within Generation.
Phase == [p \in Prompts |-> IF status[p] = "ABSENT" THEN "absent"
                            ELSE IF audio[p] = 0 THEN "submitted" ELSE "generated"]
Completed == {p \in Prompts : status[p] = "COMPLETED"}

G == INSTANCE Generation WITH phase <- Phase, shown <- Completed, announced <- published
Generates == G!Spec

-----------------------------------------------------------------------------
(***************************************************************************)
(* Liveness                                                                *)
(***************************************************************************)
\* Every submitted prompt is in the end COMPLETED, and stays so.
EventuallyCompleted ==
    \A p \in Prompts : status[p] # "ABSENT" ~> [](status[p] = "COMPLETED")

\* A submitted prompt is in the end picked up: enqueued, being worked on, or
\* done.
PickedUp ==
    \A p \in Prompts :
        status[p] = "PENDING" ~>
            InQueue(p) \/ InWork(p) \/ status[p] = "COMPLETED"

\* Every submitted prompt is in the end announced to its owner.
EventuallyAnnounced ==
    \A p \in Prompts : status[p] # "ABSENT" ~> published[p] > 0
=============================================================================
