--------------------------- MODULE PipelineProofs ---------------------------
(***************************************************************************)
(* Theorems about Pipeline, for every set of prompts, processes and job    *)
(* slots, every batch size and retry limit, and every number of failures.  *)
(***************************************************************************)
EXTENDS Pipeline, FiniteSetTheorems, TLAPS

-----------------------------------------------------------------------------
(***************************************************************************)
(* Type correctness                                                        *)
(***************************************************************************)
\* What the types alone do not say: a scheduler about to enqueue holds a
\* prompt, a busy worker holds a job and a prompt, a live job names a prompt
\* and is locked only while it is active.
JobOK(job) ==
    /\ job.state # "none" => job.prompt \in Prompts
    /\ job.owner # None => job.state = "active"

WellFormed ==
    /\ \A i \in Instances, t \in Ticks :
          poll[i][t].pc = "enqueue" => poll[i][t].prompt \in Prompts
    /\ \A i \in Instances :
          worker[i].pc # "idle" => /\ worker[i].prompt \in Prompts
                                   /\ worker[i].job \in JobIds
    /\ \A j \in JobIds : JobOK(jobs[j])

TypeInv == TypeOK /\ WellFormed

LEMMA InitTypeInv == Init => TypeInv
BY DEF Init, TypeInv, TypeOK, WellFormed, Statuses, Job, NoJob, PollPC, Asleep,
       JobOK, Loop, WorkerPC, Processing, Free, Queued

USE DEF tables, scheduler

LEMMA CreateType == ASSUME TypeInv, NEW p \in Prompts, Create(p) PROVE TypeInv'
<1>1. Cardinality(Existing) \in Nat
  BY SetsAssumption, FS_Subset, FS_CardinalityType DEF Existing
<1>2. QED
  BY <1>1 DEF Create, TypeInv, TypeOK, WellFormed, Statuses

\* One entry of jobs, poll or worker is replaced by a well-formed one.
LEMMA SetJob ==
    ASSUME TypeInv, NEW j \in JobIds, NEW r \in Job,
           JobOK(r), jobs' = [jobs EXCEPT ![j] = r]
    PROVE  /\ jobs' \in [JobIds -> Job]
           /\ \A k \in JobIds : JobOK(jobs'[k])
BY DEF TypeInv, TypeOK, WellFormed

LEMMA SetLoop ==
    ASSUME TypeInv, NEW i \in Instances, NEW t \in Ticks, NEW r \in Loop,
           r.pc = "enqueue" => r.prompt \in Prompts,
           poll' = [poll EXCEPT ![i][t] = r]
    PROVE  /\ poll' \in [Instances -> [Ticks -> Loop]]
           /\ \A k \in Instances, u \in Ticks :
                 poll'[k][u].pc = "enqueue" => poll'[k][u].prompt \in Prompts
<1>1. /\ poll'[i][t] = r
      /\ \A k \in Instances, u \in Ticks :
            <<k, u>> # <<i, t>> => poll'[k][u] = poll[k][u]
      /\ poll' \in [Instances -> [Ticks -> Loop]]
  BY DEF TypeInv, TypeOK
<1>2. QED
  BY <1>1 DEF TypeInv, WellFormed

LEMMA AddJobType ==
    ASSUME TypeInv, NEW p \in Prompts, NEW tier \in Tiers[p], AddJob(p, tier)
    PROVE  /\ jobs' \in [JobIds -> Job]
           /\ \A j \in JobIds : JobOK(jobs'[j])
<1> DEFINE r == [NoJob EXCEPT !.prompt = p, !.tier = tier, !.state = "prioritized"]
<1>1. PICK j \in JobIds : jobs' = [jobs EXCEPT ![j] = r]
  BY DEF AddJob, FreeSlots
<1>2. r \in Job /\ JobOK(r)
  BY SetsAssumption DEF NoJob, Job, Queued, JobOK
<1>3. QED
  BY <1>1, <1>2, SetJob

LEMMA PollType ==
    ASSUME TypeInv, NEW i \in Instances, NEW t \in Ticks,
           PollStep(i, t) \/ PollFault(i, t)
    PROVE  TypeInv'
<1> DEFINE PollOK == /\ poll' \in [Instances -> [Ticks -> Loop]]
                     /\ \A k \in Instances, u \in Ticks :
                          poll'[k][u].pc = "enqueue" => poll'[k][u].prompt \in Prompts
           JobsOK == /\ jobs' \in [JobIds -> Job]
                     /\ \A j \in JobIds : JobOK(jobs'[j])
           Rest == /\ status' \in [Prompts -> Statuses]
                   /\ isRunning' \in [Instances -> BOOLEAN]
                   /\ faults' \in Nat
                   /\ UNCHANGED <<createdAt, audio, worker, published>>
<1>0. ASSUME PollOK, JobsOK, Rest PROVE TypeInv'
  BY <1>0 DEF TypeInv, TypeOK, WellFormed
<1>e. PollEnd(i, t) => PollOK /\ isRunning' \in [Instances -> BOOLEAN]
  <2>1. Asleep \in Loop /\ Asleep.pc # "enqueue"
    BY DEF Asleep, Loop, PollPC
  <2>2. QED
    BY <2>1, SetLoop DEF PollEnd, TypeInv, TypeOK
<1>l. poll[i][t] \in Loop
  BY DEF TypeInv, TypeOK
<1>j. UNCHANGED jobs => JobsOK
  BY DEF TypeInv, TypeOK, WellFormed
<1> HIDE DEF PollOK, JobsOK
<1>1. CASE PollStart(i, t)
  <2>1. [Asleep EXCEPT !.pc = "find"] \in Loop
    BY DEF Asleep, Loop, PollPC
  <2>2. PollOK
    BY <1>1, <2>1, SetLoop DEF PollStart, PollOK, Asleep
  <2>3. JobsOK /\ Rest
    BY <1>1, <1>j DEF PollStart, TypeInv, TypeOK
  <2>4. QED
    BY <1>0, <2>2, <2>3
<1>2. CASE PollFind(i, t)
  <2>1. [pc |-> "update", batch |-> FindPending, prompt |-> None] \in Loop
    BY DEF Loop, PollPC, FindPending, Pending
  <2>2. PollOK /\ isRunning' \in [Instances -> BOOLEAN]
    BY <1>2, <1>e, <2>1, SetLoop DEF PollFind, PollOK, TypeInv, TypeOK
  <2>3. JobsOK /\ Rest
    BY <1>2, <1>j, <2>2 DEF PollFind, TypeInv, TypeOK
  <2>4. QED
    BY <1>0, <2>2, <2>3
<1>3. CASE PollUpdate(i, t)
  <2>1. PICK p \in Prompts :
          /\ status' = [status EXCEPT ![p] = "PROCESSING"]
          /\ poll' = [poll EXCEPT ![i][t] = [pc |-> "enqueue", prompt |-> p,
                                           batch |-> poll[i][t].batch \ {p}]]
    BY <1>3, <1>l DEF PollUpdate, Oldest, Loop, TypeInv, TypeOK
  <2>2. [pc |-> "enqueue", prompt |-> p, batch |-> poll[i][t].batch \ {p}] \in Loop
    BY <1>l DEF Loop, PollPC
  <2>3. PollOK
    BY <2>1, <2>2, SetLoop DEF PollOK
  <2>4. JobsOK /\ Rest
    BY <1>3, <1>j, <2>1 DEF PollUpdate, TypeInv, TypeOK, Statuses
  <2>5. QED
    BY <1>0, <2>3, <2>4
<1>n. Enqueue(i, t) /\ poll[i][t].pc = "enqueue" => JobsOK
  BY AddJobType DEF Enqueue, JobsOK, TypeInv, WellFormed
<1>4. CASE PollEnqueue(i, t)
  <2>1. [poll[i][t] EXCEPT !.pc = "update", !.prompt = None] \in Loop
    BY <1>l DEF Loop, PollPC
  <2>2. [poll[i][t] EXCEPT !.pc = "update", !.prompt = None].pc # "enqueue"
    BY <1>l DEF Loop
  <2>3. ASSUME poll' = [poll EXCEPT ![i][t] = [@ EXCEPT !.pc = "update", !.prompt = None]]
        PROVE  PollOK
    BY <2>1, <2>2, <2>3, SetLoop DEF PollOK
  <2>4. PollOK /\ isRunning' \in [Instances -> BOOLEAN]
    BY <1>4, <1>e, <2>3 DEF PollEnqueue, TypeInv, TypeOK
  <2>5. JobsOK /\ Rest
    BY <1>4, <1>n, <2>4 DEF PollEnqueue, TypeInv, TypeOK
  <2>6. QED
    BY <1>0, <2>4, <2>5
<1>5. CASE PollFindFails(i, t)
  BY <1>0, <1>5, <1>e, <1>j DEF PollFindFails, Fault, TypeInv, TypeOK
<1>6. CASE PollUpdateFails(i, t)
  <2>1. Rest
    BY <1>6, <1>e DEF PollUpdateFails, Fault, TypeInv, TypeOK, Oldest, Statuses
  <2>2. QED
    BY <1>0, <1>6, <1>e, <1>j, <2>1 DEF PollUpdateFails
<1>7. CASE PollEnqueueFails(i, t)
  BY <1>0, <1>7, <1>e, <1>j, <1>n DEF PollEnqueueFails, Fault, TypeInv, TypeOK
<1>8. QED
  BY <1>1, <1>2, <1>3, <1>4, <1>5, <1>6, <1>7 DEF PollStep, PollFault

LEMMA CountUp ==
    ASSUME NEW S, NEW f \in [S -> Nat], NEW x
    PROVE  [f EXCEPT ![x] = @ + 1] \in [S -> Nat]
<1>1. \A y \in S : f[y] \in Nat /\ f[y] + 1 \in Nat
  OBVIOUS
<1>2. [f EXCEPT ![x] = @ + 1] = [y \in S |-> IF y = x THEN f[y] + 1 ELSE f[y]]
  OBVIOUS
<1>3. QED
  BY <1>1, <1>2

LEMMA SetWorker ==
    ASSUME TypeInv, NEW i \in Instances, NEW r \in Processing,
           r.pc # "idle" => r.prompt \in Prompts /\ r.job \in JobIds,
           worker' = [worker EXCEPT ![i] = r]
    PROVE  /\ worker' \in [Instances -> Processing]
           /\ \A k \in Instances : worker'[k].pc # "idle" =>
                 worker'[k].prompt \in Prompts /\ worker'[k].job \in JobIds
BY DEF TypeInv, TypeOK, WellFormed

\* A step of a busy worker: its record stays well formed.
LEMMA GotoType ==
    ASSUME TypeInv, NEW i \in Instances, worker[i].pc # "idle",
           NEW pc \in WorkerPC, NEW b \in BOOLEAN,
           worker' = [worker EXCEPT ![i] = [@ EXCEPT !.pc = pc, !.existing = b]]
    PROVE  /\ worker' \in [Instances -> Processing]
           /\ \A k \in Instances : worker'[k].pc # "idle" =>
                 worker'[k].prompt \in Prompts /\ worker'[k].job \in JobIds
<1> DEFINE r == [worker[i] EXCEPT !.pc = pc, !.existing = b]
<1>1. worker[i] \in Processing /\ worker[i].prompt \in Prompts /\ worker[i].job \in JobIds
  BY DEF TypeInv, TypeOK, WellFormed
<1>2. r \in Processing /\ r.prompt \in Prompts /\ r.job \in JobIds
  BY <1>1 DEF Processing
<1>3. worker' = [worker EXCEPT ![i] = r]
  OBVIOUS
<1>4. QED
  BY <1>2, <1>3, SetWorker

LEMMA FreeType ==
    ASSUME TypeInv, NEW i \in Instances, worker' = [worker EXCEPT ![i] = Free]
    PROVE  /\ worker' \in [Instances -> Processing]
           /\ \A k \in Instances : worker'[k].pc # "idle" =>
                 worker'[k].prompt \in Prompts /\ worker'[k].job \in JobIds
<1>1. Free \in Processing /\ Free.pc = "idle"
  BY DEF Free, Processing, WorkerPC
<1>2. QED
  BY <1>1, SetWorker

LEMMA QueueType ==
    ASSUME TypeInv, NEW j \in JobIds, QueueStep(j) \/ LoseLock(j)
    PROVE  TypeInv'
<1> DEFINE JobsOK == /\ jobs' \in [JobIds -> Job]
                     /\ \A k \in JobIds : JobOK(jobs'[k])
<1>0. ASSUME JobsOK, UNCHANGED <<tables, scheduler, worker, published>>, faults' \in Nat
      PROVE  TypeInv'
  BY <1>0 DEF TypeInv, TypeOK, WellFormed
<1> HIDE DEF JobsOK
<1>1. jobs[j] \in Job
  BY DEF TypeInv, TypeOK
<1>2. CASE Promote(j)
  <2>1. [jobs[j] EXCEPT !.state = "prioritized"] \in Job
    BY <1>1 DEF Job, Queued
  <2>2. JobOK([jobs[j] EXCEPT !.state = "prioritized"])
    BY <1>1, <1>2 DEF Promote, Job, JobOK, TypeInv, WellFormed
  <2>3. JobsOK
    BY <1>2, <2>1, <2>2, SetJob DEF Promote, JobsOK
  <2>4. QED
    BY <1>0, <1>2, <2>3 DEF Promote, TypeInv, TypeOK
<1>3. CASE LoseLock(j)
  <2>1. [jobs[j] EXCEPT !.owner = None] \in Job
    BY <1>1 DEF Job
  <2>2. JobOK([jobs[j] EXCEPT !.owner = None])
    BY <1>1 DEF Job, JobOK, TypeInv, WellFormed
  <2>3. JobsOK
    BY <1>3, <2>1, <2>2, SetJob DEF LoseLock, JobsOK
  <2>4. QED
    BY <1>0, <1>3, <2>3 DEF LoseLock, Fault, TypeInv, TypeOK
<1>4. CASE Stall(j)
  <2>0. jobs[j].stalls + 1 \in Nat /\ jobs[j].prompt \in Prompts
    BY <1>1, <1>4 DEF Stall, Job, JobOK, TypeInv, WellFormed
  <2>1. /\ [jobs[j] EXCEPT !.state = "wait", !.stalls = jobs[j].stalls + 1] \in Job
        /\ JobOK([jobs[j] EXCEPT !.state = "wait", !.stalls = jobs[j].stalls + 1])
    BY <1>1, <1>4, <2>0 DEF Job, Queued, JobOK, Stall
  <2>2. NoJob \in Job /\ JobOK(NoJob)
    BY DEF NoJob, Job, JobOK
  <2>3. JobsOK
    BY <1>4, <2>1, <2>2, SetJob DEF Stall, JobsOK
  <2>4. QED
    BY <1>0, <1>4, <2>3 DEF Stall, TypeInv, TypeOK
<1>5. QED
  BY <1>2, <1>3, <1>4 DEF QueueStep

LEMMA WorkerType ==
    ASSUME TypeInv, NEW i \in Instances, WorkerStep(i) \/ WorkerFault(i)
    PROVE  TypeInv'
<1> DEFINE WorkerOK == /\ worker' \in [Instances -> Processing]
                       /\ \A k \in Instances : worker'[k].pc # "idle" =>
                            worker'[k].prompt \in Prompts /\ worker'[k].job \in JobIds
           JobsOK == /\ jobs' \in [JobIds -> Job]
                     /\ \A k \in JobIds : JobOK(jobs'[k])
           Rest == /\ status' \in [Prompts -> Statuses]
                   /\ audio' \in [Prompts -> Nat]
                   /\ published' \in [Prompts -> Nat]
                   /\ faults' \in Nat
                   /\ UNCHANGED <<createdAt, isRunning, poll>>
<1>0. ASSUME WorkerOK, JobsOK, Rest PROVE TypeInv'
  BY <1>0 DEF TypeInv, TypeOK, WellFormed
<1>j. UNCHANGED jobs => JobsOK
  BY DEF TypeInv, TypeOK, WellFormed
<1>r. UNCHANGED <<tables, scheduler, published>> /\ faults' \in Nat => Rest
  BY DEF TypeInv, TypeOK
<1>g. ASSUME NEW pc \in WorkerPC, worker[i].pc # "idle", Goto(i, pc) PROVE WorkerOK
  BY <1>g, GotoType DEF Goto
<1>s. \A p : /\ status' = [status EXCEPT ![p] = "PROCESSING"] => status' \in [Prompts -> Statuses]
             /\ status' = [status EXCEPT ![p] = "PENDING"] => status' \in [Prompts -> Statuses]
  BY DEF TypeInv, TypeOK, Statuses
<1>f. faults \in Nat /\ audio \in [Prompts -> Nat] /\ status \in [Prompts -> Statuses]
        /\ published \in [Prompts -> Nat]
  BY DEF TypeInv, TypeOK
<1>c. Complete(i) => audio' \in [Prompts -> Nat] /\ status' \in [Prompts -> Statuses]
  <2>1. Complete(i) => audio' = audio \/ audio' = [audio EXCEPT ![Mine(i)] = @ + 1]
    BY DEF Complete, TypeInv, TypeOK
  <2>2. Complete(i) => audio' \in [Prompts -> Nat]
    BY <1>f, <2>1, CountUp
  <2>3. QED
    BY <2>2 DEF Complete, TypeInv, TypeOK, Statuses
<1>a. Announce(i) => published' \in [Prompts -> Nat]
  BY <1>f, CountUp DEF Announce
<1> HIDE DEF WorkerOK, JobsOK
<1>1. CASE \E j \in JobIds : Fetch(i, j)
  <2>1. PICK j \in JobIds : Fetch(i, j)
    BY <1>1
  <2> DEFINE job == [jobs[j] EXCEPT !.state = "active", !.owner = i]
             w == [Free EXCEPT !.pc = "find", !.job = j, !.prompt = jobs[j].prompt]
  <2>2. jobs[j] \in Job /\ jobs[j].prompt \in Prompts
    BY <2>1 DEF Fetch, Servable, InState, JobOK, TypeInv, TypeOK, WellFormed
  <2>3. job \in Job /\ JobOK(job)
    BY <2>2 DEF Job, JobOK
  <2>4. JobsOK
    BY <2>1, <2>3, SetJob DEF Fetch, JobsOK
  <2>5. w \in Processing /\ w.prompt \in Prompts /\ w.job \in JobIds
    BY <2>2 DEF Free, Processing, WorkerPC
  <2>6. WorkerOK
    BY <2>1, <2>5, SetWorker DEF Fetch, WorkerOK
  <2>7. QED
    BY <1>0, <1>r, <1>f, <2>1, <2>4, <2>6 DEF Fetch
<1>2. CASE FindPrompt(i)
  BY <1>0, <1>2, <1>g, <1>j, <1>r, <1>f DEF FindPrompt, At, WorkerPC
<1>3. CASE MarkProcessing(i)
  BY <1>0, <1>3, <1>g, <1>j, <1>s, <1>f DEF MarkProcessing, At, WorkerPC
<1>4. CASE FindAudio(i)
  <2>1. WorkerOK
    BY <1>4, GotoType DEF FindAudio, At, WorkerPC, WorkerOK
  <2>2. QED
    BY <1>0, <1>4, <1>j, <1>r, <1>f, <2>1 DEF FindAudio
<1>5. CASE CommitAudio(i)
  BY <1>0, <1>5, <1>g, <1>j, <1>c, <1>f DEF CommitAudio, At, WorkerPC
<1>6. CASE CommitConflicts(i)
  BY <1>0, <1>6, <1>g, <1>j, <1>r, <1>f DEF CommitConflicts, At, WorkerPC
<1>7. CASE InvalidateCaches(i)
  BY <1>0, <1>7, <1>g, <1>j, <1>r, <1>f DEF InvalidateCaches, At, WorkerPC
<1>8. CASE Publish(i)
  BY <1>0, <1>8, <1>g, <1>j, <1>a, <1>f DEF Publish, At, WorkerPC
<1>9. CASE Rollback(i)
  BY <1>0, <1>9, <1>g, <1>j, <1>s, <1>f DEF Rollback, At, WorkerPC
<1>d. CASE FinishCompleted(i) \/ FinishFailed(i)
  <2>1. WorkerOK
    BY <1>d, FreeType DEF FinishCompleted, FinishFailed, WorkerOK
  <2> DEFINE j == worker[i].job
  <2>2. j \in JobIds /\ jobs[j] \in Job
    BY <1>d DEF FinishCompleted, FinishFailed, At, TypeInv, TypeOK, WellFormed
  <2>3. NoJob \in Job /\ JobOK(NoJob)
    BY DEF NoJob, Job, JobOK
  <2>4. jobs[j].owner = i => Failed(jobs[j]) \in Job /\ JobOK(Failed(jobs[j]))
    <3>1. jobs[j].attempts + 1 \in Nat
      BY <2>2 DEF Job
    <3>2. QED
      <4>1. ASSUME jobs[j].owner = i PROVE jobs[j].prompt \in Prompts
        BY <2>2, <4>1, SetsAssumption DEF JobOK, TypeInv, WellFormed
      <4>2. QED
        BY <2>2, <2>3, <3>1, <4>1 DEF Failed, Job, Queued, JobOK
  <2>5. JobsOK
    <3>1. CASE jobs[j].owner = i
      BY <1>d, <2>2, <2>3, <2>4, <3>1, SetJob DEF FinishCompleted, FinishFailed, JobsOK
    <3>2. QED
      BY <1>d, <1>j, <3>1 DEF FinishCompleted, FinishFailed
  <2>6. QED
    BY <1>0, <1>d, <1>r, <1>f, <2>1, <2>5 DEF FinishCompleted, FinishFailed
<1>e. CASE BeforeTryFails(i)
  BY <1>0, <1>e, <1>g, <1>j, <1>s, <1>f DEF BeforeTryFails, Fault, At, WorkerPC
<1>h. CASE TransactionFails(i)
  BY <1>0, <1>h, <1>g, <1>j, <1>c, <1>f DEF TransactionFails, Fault, At, WorkerPC
<1>i. CASE InvalidateFails(i)
  BY <1>0, <1>i, <1>g, <1>j, <1>r, <1>f DEF InvalidateFails, Fault, At, WorkerPC
<1>k. CASE PublishFails(i)
  BY <1>0, <1>k, <1>g, <1>j, <1>a, <1>f DEF PublishFails, Fault, At, WorkerPC
<1>l. CASE RollbackFails(i)
  BY <1>0, <1>l, <1>g, <1>j, <1>r, <1>f DEF RollbackFails, Fault, At, WorkerPC
<1>q. QED
  BY <1>1, <1>2, <1>3, <1>4, <1>5, <1>6, <1>7, <1>8, <1>9, <1>d, <1>e, <1>h, <1>i, <1>k, <1>l
     DEF WorkerStep, WorkerFault

LEMMA CrashType == ASSUME TypeInv, NEW i \in Instances, Crash(i) PROVE TypeInv'
<1>1. Asleep \in Loop /\ Asleep.pc = "idle"
  BY DEF Asleep, Loop, PollPC
<1>2. /\ poll' \in [Instances -> [Ticks -> Loop]]
      /\ \A k \in Instances, u \in Ticks :
            poll'[k][u].pc = "enqueue" => poll'[k][u].prompt \in Prompts
  BY <1>1 DEF Crash, TypeInv, TypeOK, WellFormed
<1>3. /\ worker' \in [Instances -> Processing]
      /\ \A k \in Instances : worker'[k].pc # "idle" =>
            worker'[k].prompt \in Prompts /\ worker'[k].job \in JobIds
  BY FreeType DEF Crash
<1>4. \A j \in JobIds :
        /\ [jobs[j] EXCEPT !.owner = None] \in Job
        /\ JobOK([jobs[j] EXCEPT !.owner = None])
  BY DEF TypeInv, TypeOK, WellFormed, Job, JobOK
<1>5. /\ jobs' \in [JobIds -> Job]
      /\ \A k \in JobIds : JobOK(jobs'[k])
  BY <1>4 DEF Crash, TypeInv, TypeOK, WellFormed
<1>6. QED
  BY <1>2, <1>3, <1>5 DEF Crash, Fault, TypeInv, TypeOK, WellFormed

LEMMA NextTypeInv == TypeInv /\ [Next]_vars => TypeInv'
<1> SUFFICES ASSUME TypeInv, [Next]_vars PROVE TypeInv'
  OBVIOUS
<1>1. CASE Next
  BY <1>1, CreateType, PollType, WorkerType, CrashType, QueueType DEF Next
<1>2. CASE UNCHANGED vars
  BY <1>2 DEF vars, TypeInv, TypeOK, WellFormed
<1>3. QED
  BY <1>1, <1>2

LEMMA TypeInvariant == Spec => []TypeInv
BY InitTypeInv, NextTypeInv, PTL DEF Spec

\* Type correctness of the whole pipeline, whatever fails.
THEOREM TypeCorrect == Spec => []TypeOK
<1>1. TypeInv => TypeOK
  BY DEF TypeInv
<1>2. QED
  BY <1>1, TypeInvariant, PTL

-----------------------------------------------------------------------------
(***************************************************************************)
(* Only submitted prompts travel through the pipeline                      *)
(***************************************************************************)
Known ==
    /\ \A i \in Instances, t \in Ticks :
          /\ poll[i][t].batch \subseteq Existing
          /\ poll[i][t].prompt \in Existing \union {None}
    /\ \A j \in JobIds : jobs[j].prompt \in Existing \union {None}
    /\ \A i \in Instances : worker[i].prompt \in Existing \union {None}

LEMMA GotoEffect ==
    ASSUME TypeInv, NEW i \in Instances, NEW pc, Goto(i, pc)
    PROVE  /\ worker'[i].pc = pc /\ worker'[i].existing = FALSE
           /\ worker'[i].prompt = worker[i].prompt /\ worker'[i].job = worker[i].job
           /\ \A k \in Instances \ {i} : worker'[k] = worker[k]
<1>1. worker[i] \in Processing
  BY DEF TypeInv, TypeOK
<1>2. QED
  BY <1>1 DEF Goto, Processing, TypeInv, TypeOK

\* A step of the worker of i leaves the other workers alone, keeps its own
\* prompt and job unless it fetches or finishes one, and changes the tables at
\* its own prompt only.
LEMMA WorkerFrame ==
    ASSUME TypeInv, NEW i \in Instances, WorkerStep(i) \/ WorkerFault(i)
    PROVE  /\ \A k \in Instances \ {i} : worker'[k] = worker[k]
           /\ \/ worker'[i].prompt = worker[i].prompt /\ worker'[i].job = worker[i].job
              \/ worker' = [worker EXCEPT ![i] = Free]
              \/ \E j \in JobIds : Fetch(i, j)
           /\ UNCHANGED <<scheduler, createdAt>>
<1>1. worker[i] \in Processing
  BY DEF TypeInv, TypeOK
<1>2. CASE \E j \in JobIds : Fetch(i, j)
  BY <1>2 DEF Fetch, TypeInv, TypeOK
<1>3. CASE FindAudio(i)
  BY <1>1, <1>3 DEF FindAudio, Processing, TypeInv, TypeOK
<1>4. CASE FinishCompleted(i) \/ FinishFailed(i)
  BY <1>4 DEF FinishCompleted, FinishFailed, TypeInv, TypeOK
<1>5. CASE \E pc \in WorkerPC : Goto(i, pc) /\ UNCHANGED <<scheduler, createdAt>>
  BY <1>5, GotoEffect
<1>6. QED
  BY <1>2, <1>3, <1>4, <1>5 DEF WorkerStep, WorkerFault, FindPrompt, MarkProcessing,
     CommitAudio, CommitConflicts, InvalidateCaches, Publish, Rollback, BeforeTryFails,
     TransactionFails, InvalidateFails, PublishFails, RollbackFails, WorkerPC

\* What a step does to the status column.
LEMMA StatusStep ==
    ASSUME TypeInv, [Next]_vars
    PROVE  \/ UNCHANGED status
           \/ \E p \in Prompts, s \in {"PENDING", "PROCESSING", "COMPLETED"} :
                 status' = [status EXCEPT ![p] = s]
<1>1. CASE UNCHANGED vars
  BY <1>1 DEF vars
<1>2. ASSUME NEW p \in Prompts, Create(p) PROVE status' = [status EXCEPT ![p] = "PENDING"]
  BY <1>2 DEF Create
<1>3. ASSUME NEW i \in Instances, NEW t \in Ticks, PollStep(i, t) \/ PollFault(i, t)
      PROVE  \/ UNCHANGED status
             \/ \E p \in Prompts : status' = [status EXCEPT ![p] = "PROCESSING"]
  <2>1. poll[i][t].batch \subseteq Prompts
    BY DEF TypeInv, TypeOK, Loop
  <2>2. QED
    BY <1>3, <2>1 DEF PollStep, PollFault, PollStart, PollFind, PollUpdate, PollEnqueue,
       PollFindFails, PollUpdateFails, PollEnqueueFails, Oldest
<1>4. ASSUME NEW i \in Instances, WorkerStep(i) \/ WorkerFault(i)
      PROVE  \/ UNCHANGED status
             \/ /\ Mine(i) \in Prompts
                /\ \E s \in {"PENDING", "PROCESSING", "COMPLETED"} :
                      status' = [status EXCEPT ![Mine(i)] = s]
  <2>1. worker[i].pc # "idle" => Mine(i) \in Prompts
    BY DEF TypeInv, WellFormed, Mine
  <2>2. QED
    BY <1>4, <2>1 DEF WorkerStep, WorkerFault, Fetch, FindPrompt, MarkProcessing, FindAudio,
       CommitAudio, CommitConflicts, InvalidateCaches, Publish, Rollback, BeforeTryFails,
       TransactionFails, InvalidateFails, PublishFails, RollbackFails, FinishCompleted,
       FinishFailed, Complete, At
<1>5. ASSUME NEW i \in Instances, Crash(i) PROVE UNCHANGED status
  BY <1>5 DEF Crash
<1>6. ASSUME NEW j \in JobIds, QueueStep(j) \/ LoseLock(j) PROVE UNCHANGED status
  BY <1>6 DEF QueueStep, Promote, Stall, LoseLock
<1>7. QED
  BY <1>1, <1>2, <1>3, <1>4, <1>5, <1>6 DEF Next

LEMMA ExistingGrows == ASSUME TypeInv, [Next]_vars PROVE Existing \subseteq Existing'
BY StatusStep DEF Existing, TypeInv, TypeOK

LEMMA JobUpdate ==
    ASSUME TypeInv, NEW j \in JobIds, NEW r, jobs' = [jobs EXCEPT ![j] = r]
    PROVE  jobs'[j] = r /\ \A k \in JobIds \ {j} : jobs'[k] = jobs[k]
BY DEF TypeInv, TypeOK

\* What a step of the scheduler of i does to its loops and to the queue.
LEMMA PollFrame ==
    ASSUME TypeInv, NEW i \in Instances, NEW t \in Ticks, PollStep(i, t) \/ PollFault(i, t)
    PROVE  /\ \E r : /\ poll' = [poll EXCEPT ![i][t] = r]
                     /\ \/ r.batch \subseteq poll[i][t].batch
                        \/ r.batch \subseteq Pending
                     /\ r.prompt \in poll[i][t].batch \union {None}
                     /\ r.pc = "enqueue" => r.prompt \in poll[i][t].batch
           /\ \/ UNCHANGED jobs
              \/ poll[i][t].pc = "enqueue" /\ Enqueue(i, t)
           /\ UNCHANGED <<createdAt, audio, worker, published>>
<1>1. poll[i][t] \in Loop
  BY DEF TypeInv, TypeOK
<1>2. /\ Asleep.batch = {} /\ Asleep.prompt = None /\ Asleep.pc = "idle"
      /\ [Asleep EXCEPT !.pc = "find"] = [pc |-> "find", batch |-> {}, prompt |-> None]
  BY DEF Asleep
<1> DEFINE Shape(r) == /\ \/ r.batch \subseteq poll[i][t].batch
                          \/ r.batch \subseteq Pending
                       /\ r.prompt \in poll[i][t].batch \union {None}
                       /\ r.pc = "enqueue" => r.prompt \in poll[i][t].batch
           Set(r) == poll' = [poll EXCEPT ![i][t] = r]
<1>3. Shape(Asleep) /\ Shape([Asleep EXCEPT !.pc = "find"])
  BY <1>2
<1>4. Shape([poll[i][t] EXCEPT !.pc = "update", !.prompt = None])
  BY <1>1 DEF Loop
<1>f. Shape([pc |-> "update", batch |-> FindPending, prompt |-> None])
  BY DEF FindPending
<1>u. \A p \in poll[i][t].batch :
        Shape([pc |-> "enqueue", prompt |-> p, batch |-> poll[i][t].batch \ {p}])
  OBVIOUS
<1> HIDE DEF Shape
<1>5. CASE PollStart(i, t)
  <2>1. Set([Asleep EXCEPT !.pc = "find"])
    BY <1>5 DEF PollStart
  <2>2. QED
    BY <1>3, <1>5, <2>1 DEF PollStart, Shape
<1>6. CASE PollFind(i, t)
  <2>1. \/ Set(Asleep)
        \/ Set([pc |-> "update", batch |-> FindPending, prompt |-> None])
    BY <1>6 DEF PollFind, PollEnd
  <2>2. \E r : Set(r) /\ Shape(r)
    BY <1>3, <1>f, <2>1
  <2>3. QED
    BY <1>6, <2>2 DEF PollFind, Shape
<1>7. CASE PollUpdate(i, t)
  <2>1. \E p \in poll[i][t].batch :
          Set([pc |-> "enqueue", prompt |-> p, batch |-> poll[i][t].batch \ {p}])
    BY <1>7 DEF PollUpdate, Oldest
  <2>2. \E r : Set(r) /\ Shape(r)
    BY <1>u, <2>1
  <2>3. QED
    BY <1>7, <2>2 DEF PollUpdate, Shape
<1>8. CASE PollEnqueue(i, t)
  <2>1. \/ Set(Asleep)
        \/ Set([poll[i][t] EXCEPT !.pc = "update", !.prompt = None])
    BY <1>8 DEF PollEnqueue, PollEnd
  <2>2. \E r : Set(r) /\ Shape(r)
    BY <1>3, <1>4, <2>1
  <2>3. QED
    BY <1>8, <2>2 DEF PollEnqueue, Shape
<1>9. CASE PollFault(i, t)
  <2>1. Set(Asleep)
    BY <1>9 DEF PollFault, PollFindFails, PollUpdateFails, PollEnqueueFails, PollEnd
  <2>2. QED
    BY <1>3, <1>9, <2>1
       DEF PollFault, PollFindFails, PollUpdateFails, PollEnqueueFails, Shape
<1>10. QED
  BY <1>5, <1>6, <1>7, <1>8, <1>9 DEF PollStep

\* AddJob fills a free slot.
LEMMA AddJobEffect ==
    ASSUME TypeInv, NEW p, NEW tier, AddJob(p, tier)
    PROVE  \E j \in JobIds :
              /\ jobs[j].state = "none"
              /\ jobs'[j].prompt = p /\ jobs'[j].state = "prioritized"
              /\ \A k \in JobIds \ {j} : jobs'[k] = jobs[k]
<1> DEFINE r == [NoJob EXCEPT !.prompt = p, !.tier = tier, !.state = "prioritized"]
<1>1. PICK j \in JobIds : jobs[j].state = "none" /\ jobs' = [jobs EXCEPT ![j] = r]
  BY DEF AddJob, FreeSlots
<1>2. r.prompt = p /\ r.state = "prioritized"
  BY DEF NoJob
<1>3. QED
  BY <1>1, <1>2, JobUpdate

LEMMA KnownInductive == ASSUME TypeInv, Known, [Next]_vars PROVE Known'
<1>1. Existing \subseteq Existing'
  BY ExistingGrows
<1> DEFINE LoopsKnown == \A i \in Instances, t \in Ticks :
                 /\ poll'[i][t].batch \subseteq Existing
                 /\ poll'[i][t].prompt \in Existing \union {None}
           JobsKnown == \A j \in JobIds : jobs'[j].prompt \in Existing \union {None}
           WorkersKnown == \A i \in Instances : worker'[i].prompt \in Existing \union {None}
<1>2. ASSUME LoopsKnown, JobsKnown, WorkersKnown PROVE Known'
  BY <1>1, <1>2 DEF Known
<1>3. /\ UNCHANGED poll => LoopsKnown
      /\ UNCHANGED jobs => JobsKnown
      /\ UNCHANGED worker => WorkersKnown
  BY DEF Known
<1>4. Pending \subseteq Existing
  BY DEF Pending, Existing
<1>5. /\ Asleep.batch = {} /\ Asleep.prompt = None /\ Free.prompt = None /\ NoJob.prompt = None
  BY DEF Asleep, Free, NoJob
<1> HIDE DEF LoopsKnown, JobsKnown, WorkersKnown
<1>6. CASE UNCHANGED vars
  BY <1>2, <1>3, <1>6 DEF vars
<1>7. ASSUME NEW p \in Prompts, Create(p) PROVE Known'
  BY <1>2, <1>3, <1>7 DEF Create
<1>8. ASSUME NEW i \in Instances, NEW t \in Ticks, PollStep(i, t) \/ PollFault(i, t)
      PROVE  Known'
  <2>1. LoopsKnown
    <3>1. PICK r : /\ poll' = [poll EXCEPT ![i][t] = r]
                   /\ \/ r.batch \subseteq poll[i][t].batch
                      \/ r.batch \subseteq Pending
                   /\ r.prompt \in poll[i][t].batch \union {None}
      BY <1>8, PollFrame
    <3>2. r.batch \subseteq Existing /\ r.prompt \in Existing \union {None}
      BY <1>4, <3>1 DEF Known
    <3>3. poll'[i][t] = r /\ \A k \in Instances, u \in Ticks :
                 k # i \/ u # t => poll'[k][u] = poll[k][u]
      BY <3>1 DEF TypeInv, TypeOK
    <3>4. QED
      BY <3>2, <3>3 DEF Known, LoopsKnown
  <2>2. JobsKnown
    <3>1. CASE UNCHANGED jobs
      BY <1>3, <3>1
    <3>2. CASE poll[i][t].pc = "enqueue" /\ Enqueue(i, t)
      <4>1. poll[i][t].prompt \in Existing
        BY <3>2, SetsAssumption DEF Known, TypeInv, WellFormed
      <4>2. QED
        BY <3>2, <4>1, AddJobEffect DEF Enqueue, Known, JobsKnown
    <3>3. QED
      BY <1>8, <3>1, <3>2, PollFrame
  <2>3. QED
    BY <1>2, <1>3, <1>8, <2>1, <2>2, PollFrame
<1>9. ASSUME NEW i \in Instances, WorkerStep(i) \/ WorkerFault(i) PROVE Known'
  <2>1. CASE \E j \in JobIds : Fetch(i, j)
    <3>1. PICK j \in JobIds : Fetch(i, j)
      BY <2>1
    <3>2. JobsKnown
      <4>1. [jobs[j] EXCEPT !.state = "active", !.owner = i].prompt = jobs[j].prompt
        BY DEF TypeInv, TypeOK, Job
      <4>2. QED
        BY <3>1, <4>1, JobUpdate DEF Fetch, Known, JobsKnown
    <3>3. WorkersKnown
      <4>1. [Free EXCEPT !.pc = "find", !.job = j, !.prompt = jobs[j].prompt].prompt
              = jobs[j].prompt
        BY DEF Free
      <4>2. QED
        BY <3>1, <4>1 DEF Fetch, Known, WorkersKnown, TypeInv, TypeOK
    <3>4. QED
      BY <1>2, <1>3, <3>1, <3>2, <3>3 DEF Fetch
  <2>2. CASE ~ \E j \in JobIds : Fetch(i, j)
    <3>1. WorkersKnown
      BY <1>5, <1>9, <2>2, WorkerFrame DEF Known, WorkersKnown, TypeInv, TypeOK
    <3>2. JobsKnown
      <4>1. CASE FinishCompleted(i) \/ FinishFailed(i)
        <5>1. worker[i].job \in JobIds
          BY <4>1 DEF FinishCompleted, FinishFailed, At, TypeInv, WellFormed
        <5>2. Failed(jobs[worker[i].job]).prompt \in {jobs[worker[i].job].prompt, None}
          BY <1>5, <5>1 DEF Failed, TypeInv, TypeOK, Job
        <5>3. QED
          BY <1>3, <1>5, <4>1, <5>1, <5>2, JobUpdate
             DEF FinishCompleted, FinishFailed, Known, JobsKnown
      <4>2. CASE UNCHANGED jobs
        BY <1>3, <4>2
      <4>3. QED
        BY <1>9, <2>2, <4>1, <4>2 DEF WorkerStep, WorkerFault, FindPrompt, MarkProcessing,
           FindAudio, CommitAudio, CommitConflicts, InvalidateCaches, Publish, Rollback,
           BeforeTryFails, TransactionFails, InvalidateFails, PublishFails, RollbackFails
    <3>3. QED
      BY <1>2, <1>3, <1>9, <3>1, <3>2, WorkerFrame
  <2>3. QED
    BY <2>1, <2>2
<1>10. ASSUME NEW i \in Instances, Crash(i) PROVE Known'
  <2>1. LoopsKnown
    BY <1>5, <1>10 DEF Crash, Known, LoopsKnown, TypeInv, TypeOK
  <2>2. WorkersKnown
    BY <1>5, <1>10 DEF Crash, Known, WorkersKnown, TypeInv, TypeOK
  <2>3. \A j \in JobIds : [jobs[j] EXCEPT !.owner = None].prompt = jobs[j].prompt
    BY DEF TypeInv, TypeOK, Job
  <2>4. JobsKnown
    BY <1>10, <2>3 DEF Crash, Known, JobsKnown, TypeInv, TypeOK
  <2>5. QED
    BY <1>2, <2>1, <2>2, <2>4
<1>11. ASSUME NEW j \in JobIds, QueueStep(j) \/ LoseLock(j) PROVE Known'
  <2>1. /\ [jobs[j] EXCEPT !.state = "prioritized"].prompt = jobs[j].prompt
        /\ [jobs[j] EXCEPT !.owner = None].prompt = jobs[j].prompt
        /\ [jobs[j] EXCEPT !.state = "wait", !.stalls = jobs[j].stalls + 1].prompt
              = jobs[j].prompt
    BY DEF TypeInv, TypeOK, Job
  <2>2. JobsKnown
    <3>1. PICK r : jobs' = [jobs EXCEPT ![j] = r] /\ r.prompt \in {jobs[j].prompt, None}
      BY <1>5, <1>11, <2>1 DEF QueueStep, Promote, Stall, LoseLock
    <3>2. QED
      BY <3>1, JobUpdate DEF Known, JobsKnown
  <2>3. QED
    BY <1>2, <1>3, <1>11, <2>2 DEF QueueStep, Promote, Stall, LoseLock
<1>12. QED
  BY <1>6, <1>7, <1>8, <1>9, <1>10, <1>11 DEF Next

-----------------------------------------------------------------------------
(***************************************************************************)
(* One audio row per prompt, and the abstract specification                *)
(***************************************************************************)
AudioInv ==
    /\ \A p \in Prompts : /\ audio[p] \in {0, 1}
                          /\ status[p] = "COMPLETED" => audio[p] = 1
                          /\ status[p] = "ABSENT" => audio[p] = 0
    /\ \A i \in Instances :
          /\ worker[i].existing => worker[i].pc = "commit"
          /\ worker[i].existing \/ worker[i].pc \in {"invalidate", "publish"}
                => audio[worker[i].prompt] = 1

\* What a step does to the three columns a user sees: nothing, or one of
\* these to one prompt.
Submits(p) == /\ status[p] = "ABSENT" /\ status' = [status EXCEPT ![p] = "PENDING"]
              /\ UNCHANGED <<audio, published>>
Reopens(p) == /\ p \in Existing
              /\ \E s \in {"PENDING", "PROCESSING"} : status' = [status EXCEPT ![p] = s]
              /\ UNCHANGED <<audio, published>>
Completes(p) == /\ p \in Existing /\ status' = [status EXCEPT ![p] = "COMPLETED"]
                /\ \/ audio[p] = 1 /\ audio' = audio
                   \/ audio[p] = 0 /\ audio' = [audio EXCEPT ![p] = 1]
                /\ UNCHANGED published
Announces(p) == /\ p \in Existing /\ audio[p] = 1
                /\ published' = [published EXCEPT ![p] = @ + 1]
                /\ UNCHANGED <<status, audio>>

WorkerEffect(i) ==
    \/ UNCHANGED <<status, audio, published>>
    \/ Reopens(Mine(i)) \/ Completes(Mine(i)) \/ Announces(Mine(i))

LEMMA WorkerEffects ==
    ASSUME TypeInv, Known, AudioInv, NEW i \in Instances, WorkerStep(i) \/ WorkerFault(i)
    PROVE  WorkerEffect(i)
<1>1. worker[i].pc # "idle" => Mine(i) \in Existing /\ Mine(i) \in Prompts
  BY SetsAssumption DEF Known, TypeInv, WellFormed, Mine
<1>2. Complete(i) /\ At(i, "commit") /\ UNCHANGED published => Completes(Mine(i))
  <2> SUFFICES ASSUME Complete(i), At(i, "commit"), UNCHANGED published
               PROVE  Completes(Mine(i))
    OBVIOUS
  <2>1. Mine(i) \in Existing /\ Mine(i) \in Prompts
    BY <1>1 DEF At
  <2>2. CASE worker[i].existing
    <3>1. audio[Mine(i)] = 1
      BY <2>2 DEF AudioInv, Mine
    <3>2. audio' = audio
      BY <2>1, <2>2 DEF Complete, TypeInv, TypeOK
    <3>3. QED
      BY <2>1, <3>1, <3>2 DEF Complete, Completes
  <2>3. CASE ~worker[i].existing
    <3>1. audio[Mine(i)] = 0
      BY <2>3 DEF Complete
    <3>2. audio' = [audio EXCEPT ![Mine(i)] = 1]
      BY <2>1, <2>3, <3>1 DEF Complete, TypeInv, TypeOK
    <3>3. QED
      BY <2>1, <3>1, <3>2 DEF Complete, Completes
  <2>4. QED
    BY <2>2, <2>3
<1>3. Announce(i) /\ At(i, "publish") /\ UNCHANGED tables => Announces(Mine(i))
  BY <1>1 DEF Announce, Announces, At, AudioInv, Mine
<1>4. CASE CommitAudio(i) \/ TransactionFails(i)
  BY <1>2, <1>4 DEF CommitAudio, TransactionFails, WorkerEffect
<1>5. CASE Publish(i) \/ PublishFails(i)
  BY <1>3, <1>5 DEF Publish, PublishFails, WorkerEffect
<1>6. CASE MarkProcessing(i) \/ Rollback(i) \/ BeforeTryFails(i)
  BY <1>1, <1>6 DEF MarkProcessing, Rollback, BeforeTryFails, At, WorkerEffect, Reopens
<1>7. QED
  BY <1>4, <1>5, <1>6 DEF WorkerStep, WorkerFault, WorkerEffect, Fetch, FindPrompt,
     FindAudio, CommitConflicts, InvalidateCaches, InvalidateFails, RollbackFails,
     FinishCompleted, FinishFailed

LEMMA PollEffects ==
    ASSUME TypeInv, Known, NEW i \in Instances, NEW t \in Ticks,
           PollStep(i, t) \/ PollFault(i, t)
    PROVE  UNCHANGED <<status, audio, published>> \/ \E p \in Prompts : Reopens(p)
<1>1. poll[i][t].batch \subseteq Existing /\ Existing \subseteq Prompts
  BY DEF Known, Existing
<1>2. QED
  BY <1>1 DEF PollStep, PollFault, PollStart, PollFind, PollUpdate, PollEnqueue,
     PollFindFails, PollUpdateFails, PollEnqueueFails, Oldest, Reopens

LEMMA Effects ==
    ASSUME TypeInv, Known, AudioInv, [Next]_vars
    PROVE  \/ UNCHANGED <<status, audio, published>>
           \/ \E p \in Prompts : Submits(p) \/ Reopens(p) \/ Completes(p) \/ Announces(p)
<1>1. CASE UNCHANGED vars
  BY <1>1 DEF vars
<1>2. ASSUME NEW p \in Prompts, Create(p) PROVE Submits(p)
  BY <1>2 DEF Create, Submits
<1>3. ASSUME NEW i \in Instances, WorkerEffect(i)
      PROVE  \/ UNCHANGED <<status, audio, published>>
             \/ \E p \in Prompts : Reopens(p) \/ Completes(p) \/ Announces(p)
  BY <1>3 DEF WorkerEffect, Reopens, Completes, Announces, Existing
<1>4. ASSUME NEW i \in Instances, Crash(i) PROVE UNCHANGED <<status, audio, published>>
  BY <1>4 DEF Crash
<1>5. ASSUME NEW j \in JobIds, QueueStep(j) \/ LoseLock(j)
      PROVE  UNCHANGED <<status, audio, published>>
  BY <1>5 DEF QueueStep, Promote, Stall, LoseLock
<1>6. QED
  BY <1>1, <1>2, <1>3, <1>4, <1>5, PollEffects, WorkerEffects DEF Next

\* An audio row is never removed.
LEMMA AudioGrows ==
    ASSUME TypeInv, Known, AudioInv, [Next]_vars, NEW p \in Prompts, audio[p] = 1
    PROVE  audio'[p] = 1
BY Effects DEF Submits, Reopens, Completes, Announces, TypeInv, TypeOK

\* Only a prompt with its audio row is announced.
LEMMA AnnouncedHasAudio ==
    ASSUME TypeInv, Known, AudioInv, [Next]_vars, NEW p \in Prompts,
           published'[p] # published[p]
    PROVE  audio'[p] = 1
BY Effects, AudioGrows DEF Submits, Reopens, Completes, Announces, TypeInv, TypeOK

\* An announcement is never taken back.
LEMMA PublishedGrows ==
    ASSUME TypeInv, Known, AudioInv, [Next]_vars, NEW p \in Prompts
    PROVE  published[p] \in Nat /\ published'[p] \in {published[p], published[p] + 1}
BY Effects DEF Submits, Reopens, Completes, Announces, TypeInv, TypeOK

LEMMA AudioInductive == ASSUME TypeInv, Known, AudioInv, [Next]_vars PROVE AudioInv'
<1>1. \A p \in Prompts : /\ audio'[p] \in {0, 1}
                         /\ status'[p] = "COMPLETED" => audio'[p] = 1
                         /\ status'[p] = "ABSENT" => audio'[p] = 0
  BY Effects DEF Submits, Reopens, Completes, Announces, Existing, AudioInv, TypeInv, TypeOK
<1> DEFINE Ok(w) == /\ w.existing => w.pc = "commit"
                    /\ w.existing \/ w.pc \in {"invalidate", "publish"}
                          => audio'[w.prompt] = 1
<1>2. \A i \in Instances : Ok(worker[i])
  <2> SUFFICES ASSUME NEW i \in Instances PROVE Ok(worker[i])
    OBVIOUS
  <2>1. worker[i].pc # "idle" => worker[i].prompt \in Prompts
    BY DEF TypeInv, WellFormed
  <2>2. QED
    BY <2>1, AudioGrows DEF AudioInv
<1>3. ASSUME NEW i \in Instances, WorkerStep(i) \/ WorkerFault(i) PROVE Ok(worker'[i])
  <2>1. worker[i].pc # "idle" => Mine(i) \in Prompts
    BY DEF TypeInv, WellFormed, Mine
  <2>2. CASE CommitAudio(i)
    <3>1. audio'[Mine(i)] = 1
      BY <2>1, <2>2 DEF CommitAudio, At, Complete, AudioInv, Mine, TypeInv, TypeOK
    <3>2. QED
      BY <2>2, <3>1, GotoEffect DEF CommitAudio, Mine
  <2>3. CASE InvalidateCaches(i)
    BY <1>2, <2>3, GotoEffect DEF InvalidateCaches, At
  <2>4. CASE FindAudio(i)
    <3>1. worker'[i].pc = "commit" /\ worker'[i].prompt = Mine(i)
            /\ worker'[i].existing = (audio[Mine(i)] # 0)
      BY <2>4 DEF FindAudio, Mine, TypeInv, TypeOK, Processing
    <3>2. QED
      BY <2>1, <2>4, <3>1 DEF FindAudio, At, AudioInv
  <2>5. CASE \E j \in JobIds : Fetch(i, j)
    <3>1. worker'[i].pc = "find" /\ worker'[i].existing = FALSE
      BY <2>5 DEF Fetch, Free, TypeInv, TypeOK
    <3>2. QED
      BY <3>1
  <2>6. CASE FinishCompleted(i) \/ FinishFailed(i)
    <3>1. worker'[i].pc = "idle" /\ worker'[i].existing = FALSE
      BY <2>6 DEF FinishCompleted, FinishFailed, Free, TypeInv, TypeOK
    <3>2. QED
      BY <3>1
  <2>7. CASE \E pc \in WorkerPC \ {"invalidate", "publish"} : Goto(i, pc)
    <3>1. worker'[i].pc \notin {"invalidate", "publish"} /\ worker'[i].existing = FALSE
      BY <2>7, GotoEffect
    <3>2. QED
      BY <3>1
  <2>8. QED
    BY <1>3, <2>2, <2>3, <2>4, <2>5, <2>6, <2>7 DEF WorkerStep, WorkerFault, FindPrompt,
       MarkProcessing, CommitConflicts, Publish, Rollback, BeforeTryFails,
       TransactionFails, InvalidateFails, PublishFails, RollbackFails, WorkerPC
<1>4. \A i \in Instances : Ok(worker'[i])
  <2>1. CASE \E i \in Instances : WorkerStep(i) \/ WorkerFault(i)
    BY <1>2, <1>3, <2>1, WorkerFrame
  <2>2. CASE \E i \in Instances : Crash(i)
    <3>1. Ok(Free)
      BY DEF Free
    <3>2. QED
      BY <1>2, <2>2, <3>1 DEF Crash, TypeInv, TypeOK
  <2>3. CASE UNCHANGED worker
    BY <1>2, <2>3
  <2>4. ASSUME NEW i \in Instances, NEW t \in Ticks, PollStep(i, t) \/ PollFault(i, t)
        PROVE  UNCHANGED worker
    BY <2>4, PollFrame
  <2>5. QED
    BY <2>1, <2>2, <2>3, <2>4
       DEF Next, vars, Create, QueueStep, Promote, Stall, LoseLock
<1>5. QED
  BY <1>1, <1>4 DEF AudioInv

SafeInv == TypeInv /\ Known /\ AudioInv

LEMMA SafeInvariant == Spec => []SafeInv
<1>1. Init => SafeInv
  BY InitTypeInv DEF Init, SafeInv, Known, AudioInv, Asleep, Free, NoJob
<1>2. SafeInv /\ [Next]_vars => SafeInv'
  BY NextTypeInv, KnownInductive, AudioInductive DEF SafeInv
<1>3. QED
  BY <1>1, <1>2, PTL DEF Spec

\* Whatever fails and however many processes run, a prompt never gets a second
\* audio row and never reads COMPLETED without one.
THEOREM OneAudio == Spec => []CompletedHasAudio
<1>1. SafeInv => CompletedHasAudio
  BY DEF SafeInv, AudioInv, CompletedHasAudio
<1>2. QED
  BY <1>1, SafeInvariant, PTL

-----------------------------------------------------------------------------
LEMMA RefinementStep == SafeInv /\ [Next]_vars => [G!Next]_(G!gvars)
<1> SUFFICES ASSUME SafeInv, [Next]_vars PROVE [G!Next]_(G!gvars)
  OBVIOUS
<1> USE DEF SafeInv
<1>t. /\ status \in [Prompts -> Statuses] /\ audio \in [Prompts -> Nat]
      /\ published \in [Prompts -> Nat]
  BY DEF TypeInv, TypeOK
<1>1. CASE UNCHANGED <<status, audio, published>>
  BY <1>1 DEF G!gvars, Phase, Completed
<1>2. ASSUME NEW p \in Prompts, Submits(p) PROVE G!Submit(p)
  <2>1. Phase[p] = "absent" /\ audio[p] = 0
    BY <1>2 DEF Submits, Phase, AudioInv
  <2>2. Phase' = [Phase EXCEPT ![p] = "submitted"]
    BY <1>2, <1>t, <2>1 DEF Submits, Phase
  <2>3. Completed' = Completed
    BY <1>2, <1>t DEF Submits, Completed
  <2>4. QED
    BY <1>2, <2>1, <2>2, <2>3 DEF G!Submit, Submits
<1>3. ASSUME NEW p \in Prompts, Reopens(p) PROVE G!Show(p) \/ UNCHANGED G!gvars
  <2>1. status[p] # "ABSENT" /\ status'[p] \in {"PENDING", "PROCESSING"}
          /\ \A q \in Prompts \ {p} : status'[q] = status[q]
    BY <1>3, <1>t DEF Reopens, Existing
  <2>2. Phase' = Phase
    BY <1>3, <2>1 DEF Phase, Reopens
  <2>3. Completed' = Completed \ {p}
    BY <2>1 DEF Completed
  <2>4. CASE p \in Completed
    <3>1. Phase[p] = "generated"
      BY <2>4 DEF Completed, Phase, AudioInv
    <3>2. QED
      BY <1>3, <2>2, <2>3, <3>1 DEF G!Show, Reopens
  <2>5. CASE p \notin Completed
    BY <1>3, <2>2, <2>3, <2>5 DEF G!gvars, Reopens
  <2>6. QED
    BY <2>4, <2>5
<1>4. ASSUME NEW p \in Prompts, Completes(p) PROVE G!Generate(p) \/ G!Show(p)
  <2>1. status[p] # "ABSENT" /\ status'[p] = "COMPLETED"
          /\ \A q \in Prompts \ {p} : status'[q] = status[q]
    BY <1>4, <1>t DEF Completes, Existing
  <2>2. Completed' = Completed \union {p}
    BY <2>1 DEF Completed
  <2>3. CASE audio[p] = 1 /\ audio' = audio
    <3>1. Phase[p] = "generated" /\ Phase' = Phase
      BY <2>1, <2>3 DEF Phase
    <3>2. QED
      BY <1>4, <2>2, <3>1 DEF G!Show, Completes
  <2>4. CASE audio[p] = 0 /\ audio' = [audio EXCEPT ![p] = 1]
    <3>1. Phase[p] = "submitted"
      BY <2>1, <2>4 DEF Phase
    <3>2. audio'[p] = 1 /\ \A q \in Prompts \ {p} : audio'[q] = audio[q]
      BY <1>t, <2>4
    <3>3. Phase'[p] = "generated" /\ \A q \in Prompts \ {p} : Phase'[q] = Phase[q]
      BY <2>1, <3>2 DEF Phase
    <3>4. Phase' = [Phase EXCEPT ![p] = "generated"]
      BY <3>3 DEF Phase
    <3>5. QED
      BY <1>4, <2>2, <3>1, <3>4 DEF G!Generate, Completes
  <2>5. QED
    BY <1>4, <2>3, <2>4 DEF Completes
<1>5. ASSUME NEW p \in Prompts, Announces(p) PROVE G!Announce(p)
  <2>1. Phase[p] = "generated" /\ Phase' = Phase /\ Completed' = Completed
    BY <1>5 DEF Announces, Existing, Phase, Completed
  <2>2. QED
    BY <1>5, <2>1 DEF G!Announce, Announces
<1>6. QED
  BY <1>1, <1>2, <1>3, <1>4, <1>5, Effects DEF G!Next

\* The pipeline implements the abstract specification: crashes, duplicate jobs
\* and retries never lose an audio track, never make two, and never show or
\* announce a prompt before its track exists.
THEOREM Refinement == Spec => Generates
<1>1. Init => G!Init
  BY DEF Init, G!Init, Phase, Completed
<1>2. QED
  BY <1>1, SafeInvariant, RefinementStep, PTL DEF Spec, Generates, G!Spec

-----------------------------------------------------------------------------
(***************************************************************************)
(* No orphan, when the calls that may fail are those of the try block      *)
(***************************************************************************)
TryBlockFaults == FaultKinds \subseteq {"generate", "cache", "publish", "lock"}

\* A scheduler that has marked a prompt hands it to the queue, and no process dies.
NoPollFaults == FaultKinds \intersect {"poll", "enqueue", "crash"} = {}

Carried(p) == Scheduled(p) \/ InQueue(p) \/ InWork(p)
OrphanInv == \A p \in Prompts : status[p] = "PROCESSING" => Carried(p)

\* A worker gives a job up without having put its prompt back to PENDING.
Skips == \E i \in Instances : BeforeTryFails(i) \/ RollbackFails(i)
LosesLock == \E j \in JobIds : LoseLock(j)

LEMMA NoCrash == ASSUME NoPollFaults PROVE \A i \in Instances : ~Crash(i)
BY DEF NoPollFaults, Crash, Fault

LEMMA SchedulerCarries ==
    ASSUME TypeInv, NoPollFaults, NEW i \in Instances, NEW t \in Ticks,
           PollStep(i, t) \/ PollFault(i, t)
    PROVE  /\ UNCHANGED worker
           /\ \A p : Carried(p) => Carried(p)'
           /\ \A p \in Prompts : status'[p] = status[p]
                                \/ (status'[p] = "PROCESSING" /\ Carried(p)')
<1>1. PollStep(i, t)
  BY DEF PollFault, PollFindFails, PollUpdateFails, PollEnqueueFails, Fault, NoPollFaults
<1>2. UNCHANGED worker /\ \A p : InWork(p)' <=> InWork(p)
  BY PollFrame DEF InWork
<1>3. \A k \in Instances, u \in Ticks :
        k # i \/ u # t => poll'[k][u] = poll[k][u]
  BY <1>1 DEF PollStep, PollStart, PollFind, PollUpdate, PollEnqueue, PollEnd, TypeInv, TypeOK
<1>4. CASE PollStart(i, t) \/ PollFind(i, t)
  <2>1. poll[i][t].pc # "enqueue" /\ UNCHANGED <<status, jobs>>
    BY <1>4 DEF PollStart, PollFind
  <2>2. \A p : Scheduled(p) => Scheduled(p)'
    BY <1>3, <2>1 DEF Scheduled
  <2>3. \A p : InQueue(p)' <=> InQueue(p)
    BY <2>1 DEF InQueue
  <2>4. QED
    BY <1>2, <2>1, <2>2, <2>3 DEF Carried
<1>5. CASE PollUpdate(i, t)
  <2>1. PICK p \in Prompts :
          /\ status' = [status EXCEPT ![p] = "PROCESSING"]
          /\ poll'[i][t].pc = "enqueue" /\ poll'[i][t].prompt = p
    <3>1. poll[i][t].batch \subseteq Prompts
      BY DEF TypeInv, TypeOK, Loop
    <3>2. PICK q \in Prompts :
            /\ status' = [status EXCEPT ![q] = "PROCESSING"]
            /\ poll' = [poll EXCEPT ![i][t] = [pc |-> "enqueue", prompt |-> q,
                                             batch |-> poll[i][t].batch \ {q}]]
      BY <1>5, <3>1 DEF PollUpdate, Oldest
    <3>3. poll'[i][t] = [pc |-> "enqueue", prompt |-> q, batch |-> poll[i][t].batch \ {q}]
      BY <3>2 DEF TypeInv, TypeOK
    <3>4. poll'[i][t].pc = "enqueue" /\ poll'[i][t].prompt = q
      BY <3>3
    <3>5. QED
      BY <3>2, <3>4
  <2>2. poll[i][t].pc # "enqueue" /\ UNCHANGED jobs
    BY <1>5 DEF PollUpdate
  <2>3. \A q : Scheduled(q) => Scheduled(q)'
    BY <1>3, <2>2 DEF Scheduled
  <2>4. Scheduled(p)'
    BY <2>1 DEF Scheduled
  <2>5. \A q : InQueue(q)' <=> InQueue(q)
    BY <2>2 DEF InQueue
  <2>6. status'[p] = "PROCESSING" /\ \A q \in Prompts \ {p} : status'[q] = status[q]
    BY <2>1 DEF TypeInv, TypeOK
  <2>7. QED
    BY <1>2, <2>3, <2>4, <2>5, <2>6 DEF Carried
<1>6. CASE PollEnqueue(i, t)
  <2>1. PICK j \in JobIds :
          /\ jobs[j].state = "none"
          /\ jobs'[j].prompt = poll[i][t].prompt /\ jobs'[j].state = "prioritized"
          /\ \A k \in JobIds \ {j} : jobs'[k] = jobs[k]
    BY <1>6, AddJobEffect DEF PollEnqueue, Enqueue
  <2>2. \A q : InQueue(q) => InQueue(q)'
    BY <2>1 DEF InQueue, Queued
  <2>3. \A q : q = poll[i][t].prompt => InQueue(q)'
    BY <2>1 DEF InQueue, Queued
  <2>4. \A q : Scheduled(q) => Scheduled(q)' \/ q = poll[i][t].prompt
    BY <1>3 DEF Scheduled
  <2>5. UNCHANGED status
    BY <1>6 DEF PollEnqueue
  <2>6. QED
    BY <1>2, <2>2, <2>3, <2>4, <2>5 DEF Carried
<1>7. QED
  BY <1>1, <1>4, <1>5, <1>6 DEF PollStep

LEMMA WorkerCarries ==
    ASSUME TypeInv, ~Skips, OrphanInv, NEW i \in Instances,
           WorkerStep(i) \/ WorkerFault(i)
    PROVE  OrphanInv'
<1>1. UNCHANGED poll /\ \A p : Scheduled(p)' <=> Scheduled(p)
  BY WorkerFrame DEF Scheduled
<1>2. \A k \in Instances \ {i} : worker'[k] = worker[k]
  BY WorkerFrame
<1> DEFINE Held == {"find", "mark", "generate", "commit", "rollback"}
<1>3. worker[i].pc # "idle" => Mine(i) \in Prompts
  BY DEF TypeInv, WellFormed, Mine
<1>4. ASSUME UNCHANGED jobs, Mine(i) \in Prompts,
             \A q \in Prompts \ {Mine(i)} : status'[q] = status[q],
             \/ worker'[i].pc \in Held /\ worker'[i].prompt = Mine(i)
             \/ status'[Mine(i)] # "PROCESSING"
             \/ UNCHANGED status /\ worker[i].pc \notin Held
      PROVE  OrphanInv'
  <2>1. \A p : InQueue(p)' <=> InQueue(p)
    BY <1>4 DEF InQueue
  <2>2. \A p : InWork(p) => InWork(p)' \/ (p = Mine(i) /\ worker[i].pc \in Held)
    BY <1>2 DEF InWork, Mine
  <2>3. \A p : worker'[i].pc \in Held /\ worker'[i].prompt = p => InWork(p)'
    BY DEF InWork
  <2>4. QED
    BY <1>1, <1>4, <2>1, <2>2, <2>3 DEF OrphanInv, Carried
<1>5. CASE \E j \in JobIds : Fetch(i, j)
  <2>1. PICK j \in JobIds : Fetch(i, j)
    BY <1>5
  <2>2. /\ worker'[i].pc = "find" /\ worker'[i].prompt = jobs[j].prompt
        /\ worker[i].pc = "idle" /\ UNCHANGED status
    BY <2>1 DEF Fetch, Free, TypeInv, TypeOK
  <2>3. \A k \in JobIds \ {j} : jobs'[k] = jobs[k]
    BY <2>1 DEF Fetch, TypeInv, TypeOK
  <2>4. \A p : InWork(p) => InWork(p)'
    BY <1>2, <2>2 DEF InWork
  <2>5. \A p : InQueue(p) => InQueue(p)' \/ p = jobs[j].prompt
    BY <2>3 DEF InQueue
  <2>6. \A p : p = jobs[j].prompt => InWork(p)'
    BY <2>2 DEF InWork
  <2>7. QED
    BY <1>1, <2>2, <2>4, <2>5, <2>6 DEF OrphanInv, Carried
<1>6. CASE FinishCompleted(i) \/ FinishFailed(i)
  <2>1. worker[i].pc \notin Held /\ worker[i].job \in JobIds /\ UNCHANGED status
    BY <1>6 DEF FinishCompleted, FinishFailed, At, TypeInv, WellFormed
  <2>2. \A p : InWork(p) => InWork(p)'
    BY <1>2, <2>1 DEF InWork
  <2>3. jobs[worker[i].job].owner = i => jobs[worker[i].job].state = "active"
    BY <2>1, SetsAssumption DEF TypeInv, WellFormed, JobOK
  <2>4. \A k \in JobIds : jobs[k].state \in Queued => jobs'[k] = jobs[k]
    BY <1>6, <2>1, <2>3 DEF FinishCompleted, FinishFailed, Queued, TypeInv, TypeOK
  <2>5. \A p : InQueue(p) => InQueue(p)'
    BY <2>4 DEF InQueue
  <2>6. QED
    BY <1>1, <2>1, <2>2, <2>5 DEF OrphanInv, Carried
<1>7. CASE FindPrompt(i)
  BY <1>3, <1>4, <1>7, GotoEffect DEF FindPrompt, At, Mine
<1>8. CASE MarkProcessing(i)
  BY <1>3, <1>4, <1>8, GotoEffect DEF MarkProcessing, At, Mine, TypeInv, TypeOK
<1>9. CASE FindAudio(i)
  <2>1. worker'[i].pc = "commit" /\ worker'[i].prompt = Mine(i)
    BY <1>9 DEF FindAudio, Mine, TypeInv, TypeOK, Processing
  <2>2. QED
    BY <1>3, <1>4, <1>9, <2>1 DEF FindAudio, At
<1>10. CASE CommitAudio(i)
  BY <1>3, <1>4, <1>10 DEF CommitAudio, At, Complete, TypeInv, TypeOK
<1>11. CASE CommitConflicts(i)
  BY <1>3, <1>4, <1>11, GotoEffect DEF CommitConflicts, At, Mine
<1>12. CASE InvalidateCaches(i)
  BY <1>3, <1>4, <1>12 DEF InvalidateCaches, At
<1>13. CASE Publish(i)
  BY <1>3, <1>4, <1>13 DEF Publish, At
<1>14. CASE Rollback(i)
  BY <1>3, <1>4, <1>14 DEF Rollback, At, TypeInv, TypeOK
<1>15. CASE TransactionFails(i)
  <2>1. worker'[i].pc = "rollback" /\ worker'[i].prompt = Mine(i)
    BY <1>15, GotoEffect DEF TransactionFails, Mine
  <2>2. \A q \in Prompts \ {Mine(i)} : status'[q] = status[q]
    BY <1>15 DEF TransactionFails, Complete, TypeInv, TypeOK
  <2>3. QED
    BY <1>3, <1>4, <1>15, <2>1, <2>2 DEF TransactionFails, At
<1>16. CASE InvalidateFails(i)
  BY <1>3, <1>4, <1>16, GotoEffect DEF InvalidateFails, At, Mine
<1>17. CASE PublishFails(i)
  BY <1>3, <1>4, <1>17, GotoEffect DEF PublishFails, At, Mine
<1>18. QED
  BY <1>5, <1>6, <1>7, <1>8, <1>9, <1>10, <1>11, <1>12, <1>13, <1>14, <1>15, <1>16, <1>17
     DEF WorkerStep, WorkerFault, Skips

LEMMA QueueCarries ==
    ASSUME TypeInv, OrphanInv, NEW j \in JobIds, QueueStep(j) \/ LoseLock(j)
    PROVE  OrphanInv'
<1>1. UNCHANGED <<status, poll, worker>>
  BY DEF QueueStep, Promote, Stall, LoseLock
<1>2. \A p : (Scheduled(p)' <=> Scheduled(p)) /\ (InWork(p)' <=> InWork(p))
  BY <1>1 DEF Scheduled, InWork
<1>3. \A k \in JobIds :
        jobs[k].state \in Queued => jobs'[k].state \in Queued /\ jobs'[k].prompt = jobs[k].prompt
  <2>1. jobs[j] \in Job
    BY DEF TypeInv, TypeOK
  <2>2. CASE Promote(j)
    BY <2>1, <2>2 DEF Promote, Queued, Job, TypeInv, TypeOK
  <2>3. CASE Stall(j)
    BY <2>3 DEF Stall, Queued, TypeInv, TypeOK
  <2>4. CASE LoseLock(j)
    BY <2>1, <2>4 DEF LoseLock, Queued, Job, TypeInv, TypeOK
  <2>5. QED
    BY <2>2, <2>3, <2>4 DEF QueueStep
<1>4. \A p : InQueue(p) => InQueue(p)'
  BY <1>3 DEF InQueue
<1>5. QED
  BY <1>1, <1>2, <1>4 DEF OrphanInv, Carried

LEMMA OrphanInductive ==
    ASSUME TypeInv, NoPollFaults, OrphanInv, [Next]_vars, ~Skips PROVE OrphanInv'
<1>1. CASE UNCHANGED vars
  BY <1>1 DEF vars, OrphanInv, Carried, Scheduled, InQueue, InWork
<1>2. ASSUME NEW p \in Prompts, Create(p) PROVE OrphanInv'
  <2>1. \A q \in Prompts : status'[q] = "PROCESSING" => status[q] = "PROCESSING"
    BY <1>2 DEF Create, TypeInv, TypeOK
  <2>2. \A q : Carried(q)' <=> Carried(q)
    BY <1>2 DEF Create, Carried, Scheduled, InQueue, InWork
  <2>3. QED
    BY <2>1, <2>2 DEF OrphanInv
<1>3. ASSUME NEW i \in Instances, NEW t \in Ticks, PollStep(i, t) \/ PollFault(i, t)
      PROVE  OrphanInv'
  BY <1>3, SchedulerCarries DEF OrphanInv
<1>4. QED
  BY <1>1, <1>2, <1>3, NoCrash, WorkerCarries, QueueCarries DEF Next

\* While only calls of the try block of process fail and locks are lost, on
\* however many processes, no prompt is left PROCESSING with nobody to run it.
THEOREM NoPromptOrphaned == ASSUME TryBlockFaults PROVE Spec => []NoOrphan
<1>1. Init => OrphanInv
  BY DEF Init, OrphanInv
<1>2. TypeInv /\ OrphanInv /\ [Next]_vars => OrphanInv'
  <2>1. NoPollFaults /\ ~Skips
    BY DEF NoPollFaults, Skips, BeforeTryFails, RollbackFails, Fault, TryBlockFaults
  <2>2. QED
    BY <2>1, OrphanInductive
<1>3. OrphanInv => NoOrphan
  BY DEF OrphanInv, Carried, NoOrphan
<1>4. QED
  BY <1>1, <1>2, <1>3, TypeInvariant, PTL DEF Spec

-----------------------------------------------------------------------------
(***************************************************************************)
(* No orphan, when the calls of process fail and jobs have attempts left   *)
(***************************************************************************)
OneProcess == \A i, k \in Instances : i = k
AttemptFaults == FaultKinds \subseteq {"job", "generate", "cache", "publish", "rollback"}

\* A transaction conflicts with another process's once per prompt at most: an
\* attempt that is lost and that no failure accounts for.
Allowance == IF OneProcess THEN 0 ELSE 1
RetryBudget == MaxFaults + Allowance < MaxAttempts
Conflicts(p) == IF OneProcess \/ audio[p] = 0 THEN 0 ELSE 1

\* A worker holds the lock of its job, and nobody else does.
Holds(i) == worker[i].pc # "idle" => /\ jobs[worker[i].job].owner = i
                                     /\ jobs[worker[i].job].prompt = worker[i].prompt
Locked(j) == /\ jobs[j].state = "active" <=> jobs[j].owner # None
             /\ \A i \in Instances :
                   jobs[j].owner = i => worker[i].pc # "idle" /\ worker[i].job = j
LockInv == (\A i \in Instances : Holds(i)) /\ (\A j \in JobIds : Locked(j))

\* Attempts are lost to failures, and to the conflict.
JobSpent(j) == jobs[j].state \in Queued =>
                  jobs[j].attempts <= faults + Conflicts(jobs[j].prompt)
WorkSpent(i) ==
    LET spent == jobs[worker[i].job].attempts
        budget == faults + Conflicts(worker[i].prompt)
    IN  /\ worker[i].pc # "idle" => spent <= budget
        /\ worker[i].pc \in {"rollback", "failed"} => spent + 1 <= budget
        /\ worker[i].pc = "commit" /\ ~worker[i].existing =>
              spent <= faults /\ (OneProcess => audio[worker[i].prompt] = 0)
SpentInv ==
    /\ faults <= MaxFaults
    /\ \A j \in JobIds : JobSpent(j)
    /\ \A i \in Instances : WorkSpent(i)

\* A failed job has an attempt left, so it carries its prompt.
Failing(p) == \E i \in Instances : worker[i].pc = "failed" /\ worker[i].prompt = p
RetryInv == \A p \in Prompts : status[p] = "PROCESSING" => Carried(p) \/ Failing(p)

LEMMA FreshJob ==
    ASSUME TypeInv, NEW p, NEW tier, AddJob(p, tier)
    PROVE  \E j \in JobIds :
              /\ jobs[j].state = "none" /\ jobs[j].owner = None
              /\ jobs'[j].state = "prioritized" /\ jobs'[j].prompt = p
              /\ jobs'[j].owner = None /\ jobs'[j].attempts = 0
              /\ \A k \in JobIds \ {j} : jobs'[k] = jobs[k]
<1> DEFINE r == [NoJob EXCEPT !.prompt = p, !.tier = tier, !.state = "prioritized"]
<1>1. PICK j \in JobIds : jobs[j].state = "none" /\ jobs' = [jobs EXCEPT ![j] = r]
  BY DEF AddJob, FreeSlots
<1>2. r.prompt = p /\ r.state = "prioritized" /\ r.owner = None /\ r.attempts = 0
  BY DEF NoJob
<1>3. jobs[j].owner = None
  BY <1>1 DEF TypeInv, WellFormed, JobOK
<1>4. QED
  BY <1>1, <1>2, <1>3, JobUpdate

\* The end of a job of which the worker has the lock.
LEMMA FinishEffect ==
    ASSUME TypeInv, LockInv, NEW i \in Instances, FinishCompleted(i) \/ FinishFailed(i)
    PROVE  LET j == worker[i].job IN
           /\ worker[i].pc \in {"completed", "failed"} /\ j \in JobIds
           /\ worker'[i].pc = "idle" /\ UNCHANGED status
           /\ \A k \in JobIds \ {j} : jobs'[k] = jobs[k]
           /\ jobs'[j].owner = None
           /\ jobs'[j].state = "none"
              \/ /\ jobs'[j].state = "delayed" /\ jobs'[j].prompt = worker[i].prompt
                 /\ jobs'[j].attempts = jobs[j].attempts + 1 /\ worker[i].pc = "failed"
           /\ worker[i].pc = "failed" /\ jobs[j].attempts + 1 < MaxAttempts
                 => jobs'[j].state = "delayed" /\ jobs'[j].prompt = worker[i].prompt
<1> DEFINE j == worker[i].job
<1>1. worker[i].pc \in {"completed", "failed"} /\ worker'[i].pc = "idle" /\ UNCHANGED status
  BY DEF FinishCompleted, FinishFailed, At, Free, tables, TypeInv, TypeOK
<1>2. j \in JobIds /\ jobs[j].owner = i /\ jobs[j].prompt = worker[i].prompt
  BY <1>1 DEF LockInv, Holds, TypeInv, WellFormed
<1> HIDE DEF j
<1>3. jobs[j] \in Job
  BY <1>2 DEF TypeInv, TypeOK
<1> DEFINE r == [jobs[j] EXCEPT !.state = "delayed", !.owner = None, !.attempts = jobs[j].attempts + 1]
<1>4. /\ r.state = "delayed" /\ r.owner = None /\ r.prompt = jobs[j].prompt
      /\ r.attempts = jobs[j].attempts + 1
      /\ NoJob.state = "none" /\ NoJob.owner = None
  BY <1>3 DEF Job, NoJob
<1> HIDE DEF r
<1>5. CASE FinishCompleted(i)
  <2>1. jobs' = [jobs EXCEPT ![j] = NoJob] /\ worker[i].pc = "completed"
    BY <1>2, <1>5 DEF FinishCompleted, At, j
  <2>2. QED
    BY <1>1, <1>2, <1>4, <2>1, JobUpdate DEF j
<1>6. CASE FinishFailed(i)
  <2>1. jobs' = [jobs EXCEPT ![j] = Failed(jobs[j])] /\ worker[i].pc = "failed"
    BY <1>2, <1>6 DEF FinishFailed, At, j
  <2>2. Failed(jobs[j]) = IF jobs[j].attempts + 1 < MaxAttempts THEN r ELSE NoJob
    BY DEF Failed, r
  <2>3. QED
    BY <1>1, <1>2, <1>4, <2>1, <2>2, JobUpdate DEF j
<1>7. QED
  BY <1>5, <1>6

LEMMA FetchEffect ==
    ASSUME TypeInv, NEW i \in Instances, NEW j \in JobIds, Fetch(i, j)
    PROVE  /\ worker[i].pc = "idle" /\ worker'[i].pc = "find"
           /\ worker'[i].job = j /\ worker'[i].prompt = jobs[j].prompt
           /\ jobs[j].state \in Queued /\ jobs[j].owner = None /\ jobs[j].prompt \in Prompts
           /\ jobs'[j].state = "active" /\ jobs'[j].owner = i
           /\ jobs'[j].prompt = jobs[j].prompt /\ jobs'[j].attempts = jobs[j].attempts
           /\ \A k \in JobIds \ {j} : jobs'[k] = jobs[k]
           /\ UNCHANGED <<status, audio>>
<1> DEFINE r == [jobs[j] EXCEPT !.state = "active", !.owner = i]
<1>1. jobs[j] \in Job /\ jobs' = [jobs EXCEPT ![j] = r] /\ UNCHANGED <<status, audio>>
  BY DEF Fetch, tables, TypeInv, TypeOK
<1>2. r.state = "active" /\ r.owner = i /\ r.prompt = jobs[j].prompt /\ r.attempts = jobs[j].attempts
  BY <1>1 DEF Job
<1>3. /\ worker[i].pc = "idle" /\ worker'[i].pc = "find"
      /\ worker'[i].job = j /\ worker'[i].prompt = jobs[j].prompt
  BY DEF Fetch, Free, TypeInv, TypeOK
<1>4. jobs[j].state \in {"wait", "prioritized"}
  BY DEF Fetch, Servable, InState
<1>5. jobs[j].state \in Queued /\ jobs[j].owner = None /\ jobs[j].prompt \in Prompts
  BY <1>4 DEF Queued, TypeInv, WellFormed, JobOK
<1>6. QED
  BY <1>1, <1>2, <1>3, <1>5, JobUpdate

LEMMA PromoteEffect ==
    ASSUME TypeInv, NEW j \in JobIds, Promote(j)
    PROVE  /\ jobs[j].state \in Queued /\ jobs'[j].state = "prioritized"
           /\ jobs'[j].owner = jobs[j].owner /\ jobs[j].owner = None
           /\ jobs'[j].prompt = jobs[j].prompt /\ jobs'[j].attempts = jobs[j].attempts
           /\ \A k \in JobIds \ {j} : jobs'[k] = jobs[k]
<1> DEFINE r == [jobs[j] EXCEPT !.state = "prioritized"]
<1>1. jobs[j] \in Job /\ jobs' = [jobs EXCEPT ![j] = r] /\ jobs[j].state = "delayed"
  BY DEF Promote, TypeInv, TypeOK
<1>2. r.state = "prioritized" /\ r.owner = jobs[j].owner /\ r.prompt = jobs[j].prompt
        /\ r.attempts = jobs[j].attempts
  BY <1>1 DEF Job
<1>3. jobs[j].owner = None
  BY <1>1 DEF TypeInv, WellFormed, JobOK
<1>4. QED
  BY <1>1, <1>2, <1>3, JobUpdate DEF Queued

\* All other steps of a worker keep its job and its prompt.
LEMMA KeepsJob ==
    ASSUME TypeInv, NEW i \in Instances, WorkerStep(i) \/ WorkerFault(i),
           ~(\E j \in JobIds : Fetch(i, j)), ~FinishCompleted(i), ~FinishFailed(i)
    PROVE  /\ UNCHANGED jobs
           /\ worker[i].pc # "idle" /\ worker'[i].pc # "idle"
           /\ worker'[i].job = worker[i].job /\ worker'[i].prompt = worker[i].prompt
<1>1. CASE FindAudio(i)
  <2>1. worker[i] \in Processing
    BY DEF TypeInv, TypeOK
  <2>2. QED
    BY <1>1, <2>1 DEF FindAudio, At, Processing, TypeInv, TypeOK
<1>2. CASE ~FindAudio(i)
  <2>1. PICK pc \in WorkerPC \ {"idle"} : Goto(i, pc) /\ UNCHANGED jobs /\ worker[i].pc # "idle"
    BY <1>2 DEF WorkerStep, WorkerFault, FindPrompt, MarkProcessing, CommitAudio,
       CommitConflicts, InvalidateCaches, Publish, Rollback, BeforeTryFails, TransactionFails,
       InvalidateFails, PublishFails, RollbackFails, At, WorkerPC
  <2>2. QED
    BY <2>1, GotoEffect
<1>3. QED
  BY <1>1, <1>2

LEMMA LockInductive ==
    ASSUME TypeInv, LockInv, NoPollFaults, [Next]_vars, ~LosesLock PROVE LockInv'
<1>1. CASE UNCHANGED <<jobs, worker>>
  BY <1>1 DEF LockInv, Holds, Locked
<1>2. \A k \in Instances : k # None /\ (worker[k].pc # "idle" => worker[k].job \in JobIds)
  BY SetsAssumption DEF TypeInv, WellFormed
<1>3. ASSUME NEW p \in Prompts, Create(p) PROVE UNCHANGED <<jobs, worker>>
  BY <1>3 DEF Create
<1>4. ASSUME NEW i \in Instances, NEW t \in Ticks, PollStep(i, t) \/ PollFault(i, t)
      PROVE  LockInv'
  <2>1. UNCHANGED worker
    BY <1>4, PollFrame
  <2>2. CASE UNCHANGED jobs
    BY <1>1, <2>1, <2>2
  <2>3. CASE ~UNCHANGED jobs
    <3>1. PICK tier : AddJob(poll[i][t].prompt, tier)
      BY <1>4, <2>3, PollFrame DEF Enqueue
    <3>2. PICK j \in JobIds :
              /\ jobs[j].state = "none" /\ jobs[j].owner = None
              /\ jobs'[j].state = "prioritized" /\ jobs'[j].owner = None
              /\ \A k \in JobIds \ {j} : jobs'[k] = jobs[k]
      BY <3>1, FreshJob
    <3>3. ASSUME NEW k \in Instances PROVE Holds(k)'
      BY <1>2, <2>1, <3>2 DEF LockInv, Holds
    <3>4. ASSUME NEW l \in JobIds PROVE Locked(l)'
      <4>1. CASE l = j
        BY <1>2, <3>2, <4>1 DEF Locked
      <4>2. CASE l # j
        BY <2>1, <3>2, <4>2 DEF LockInv, Locked
      <4>3. QED
        BY <4>1, <4>2
    <3>5. QED
      BY <3>3, <3>4 DEF LockInv
  <2>4. QED
    BY <2>2, <2>3
<1>5. ASSUME NEW i \in Instances, WorkerStep(i) \/ WorkerFault(i) PROVE LockInv'
  <2>1. \A k \in Instances \ {i} : worker'[k] = worker[k]
    BY <1>5, WorkerFrame
  <2>2. CASE \E j \in JobIds : Fetch(i, j)
    <3>1. PICK j \in JobIds : Fetch(i, j)
      BY <2>2
    <3>2. \A l \in JobIds : jobs[l].owner # i
      BY <3>1, FetchEffect DEF LockInv, Locked
    <3>3. Holds(i)'
      BY <3>1, FetchEffect DEF Holds
    <3>4. ASSUME NEW k \in Instances \ {i} PROVE Holds(k)'
      BY <1>2, <2>1, <3>1, FetchEffect DEF LockInv, Holds
    <3>5. ASSUME NEW l \in JobIds \ {j} PROVE Locked(l)'
      BY <2>1, <3>1, <3>2, FetchEffect DEF LockInv, Locked
    <3>6. Locked(j)'
      BY <1>2, <3>1, FetchEffect DEF Locked
    <3>7. QED
      BY <3>3, <3>4, <3>5, <3>6 DEF LockInv
  <2>3. CASE FinishCompleted(i) \/ FinishFailed(i)
    <3>1. PICK j \in JobIds :
          /\ j = worker[i].job /\ worker[i].pc # "idle" /\ worker'[i].pc = "idle"
          /\ jobs'[j].owner = None /\ jobs'[j].state # "active"
          /\ \A l \in JobIds \ {j} : jobs'[l] = jobs[l]
      BY <2>3, FinishEffect
    <3>2. jobs[j].owner = i
      BY <3>1 DEF LockInv, Holds
    <3>3. Holds(i)'
      BY <3>1 DEF Holds
    <3>4. ASSUME NEW k \in Instances \ {i} PROVE Holds(k)'
      BY <1>2, <2>1, <3>1, <3>2 DEF LockInv, Holds
    <3>5. ASSUME NEW l \in JobIds \ {j} PROVE Locked(l)'
      BY <2>1, <3>1 DEF LockInv, Locked
    <3>6. Locked(j)'
      BY <1>2, <3>1 DEF Locked
    <3>7. QED
      BY <3>3, <3>4, <3>5, <3>6 DEF LockInv
  <2>4. CASE ~(\E j \in JobIds : Fetch(i, j)) /\ ~FinishCompleted(i) /\ ~FinishFailed(i)
    <3>1. /\ UNCHANGED jobs
          /\ \A k \in Instances : /\ worker'[k].pc = "idle" <=> worker[k].pc = "idle"
                                  /\ worker'[k].job = worker[k].job
                                  /\ worker'[k].prompt = worker[k].prompt
      BY <1>5, <2>1, <2>4, KeepsJob
    <3>2. QED
      BY <3>1 DEF LockInv, Holds, Locked
  <2>5. QED
    BY <2>2, <2>3, <2>4
<1>6. ASSUME NEW j \in JobIds, QueueStep(j) PROVE LockInv'
  <2>1. ~Stall(j) /\ Promote(j)
    BY <1>6 DEF Stall, LockInv, Locked, QueueStep
  <2>2. UNCHANGED worker
    BY <2>1 DEF Promote
  <2>3. ASSUME NEW k \in Instances PROVE Holds(k)'
    BY <1>2, <2>1, <2>2, PromoteEffect DEF LockInv, Holds
  <2>4. ASSUME NEW l \in JobIds \ {j} PROVE Locked(l)'
    BY <2>1, <2>2, PromoteEffect DEF LockInv, Locked
  <2>5. Locked(j)'
    BY <1>2, <2>1, PromoteEffect DEF Locked
  <2>6. QED
    BY <2>3, <2>4, <2>5 DEF LockInv
<1>7. QED
  BY <1>1, <1>3, <1>4, <1>5, <1>6, NoCrash DEF Next, vars, LosesLock

\* The budget only grows.
LEMMA FaultsGrow ==
    ASSUME [Next]_vars PROVE UNCHANGED faults \/ (faults < MaxFaults /\ faults' = faults + 1)
<1>1. ASSUME NEW p \in Prompts, Create(p) PROVE UNCHANGED faults
  BY <1>1 DEF Create
<1>2. ASSUME NEW i \in Instances, NEW t \in Ticks, PollStep(i, t) \/ PollFault(i, t)
      PROVE  UNCHANGED faults \/ \E kind : Fault(kind)
  BY <1>2 DEF PollStep, PollStart, PollFind, PollUpdate, PollEnqueue, PollFault,
     PollFindFails, PollUpdateFails, PollEnqueueFails
<1>3. ASSUME NEW i \in Instances, WorkerStep(i) \/ WorkerFault(i) \/ Crash(i)
      PROVE  UNCHANGED faults \/ \E kind : Fault(kind)
  BY <1>3 DEF WorkerStep, WorkerFault, Fetch, FindPrompt, MarkProcessing, FindAudio,
     CommitAudio, CommitConflicts, InvalidateCaches, Publish, Rollback, FinishCompleted,
     FinishFailed, BeforeTryFails, TransactionFails, InvalidateFails, PublishFails,
     RollbackFails, Crash
<1>4. ASSUME NEW j \in JobIds, QueueStep(j) \/ LoseLock(j)
      PROVE  UNCHANGED faults \/ \E kind : Fault(kind)
  BY <1>4 DEF QueueStep, Promote, Stall, LoseLock
<1>5. QED
  BY <1>1, <1>2, <1>3, <1>4 DEF Next, vars, Fault

LEMMA BudgetGrows ==
    ASSUME SafeInv, [Next]_vars, faults <= MaxFaults
    PROVE  /\ faults \in Nat /\ faults' \in Nat /\ faults <= faults' /\ faults' <= MaxFaults
           /\ \A p \in Prompts : /\ Conflicts(p) \in {0, 1} /\ Conflicts(p)' \in {0, 1}
                                 /\ Conflicts(p) <= Conflicts(p)'
<1>1. TypeInv /\ Known /\ AudioInv
  BY DEF SafeInv
<1>2. faults \in Nat
  BY <1>1 DEF TypeInv, TypeOK
<1>3. faults' \in Nat /\ faults <= faults' /\ faults' <= MaxFaults
  BY <1>2, FaultsGrow, BoundsAssumption
<1>4. \A p \in Prompts : audio[p] # 0 => audio'[p] # 0
  BY <1>1, AudioGrows DEF AudioInv
<1>5. \A p \in Prompts : /\ Conflicts(p) \in {0, 1} /\ Conflicts(p)' \in {0, 1}
                         /\ Conflicts(p) <= Conflicts(p)'
  BY <1>4 DEF Conflicts
<1>6. QED
  BY <1>2, <1>3, <1>5

LEMMA StillPaid ==
    ASSUME SafeInv, [Next]_vars, faults <= MaxFaults,
           NEW p \in Prompts, NEW n \in Nat, n <= faults + Conflicts(p)
    PROVE  n <= faults' + Conflicts(p)'
<1>1. /\ faults \in Nat /\ faults' \in Nat /\ faults <= faults'
      /\ Conflicts(p) \in {0, 1} /\ Conflicts(p)' \in {0, 1} /\ Conflicts(p) <= Conflicts(p)'
  BY BudgetGrows
<1>2. QED
  BY <1>1

LEMMA WorkKept ==
    ASSUME SafeInv, LockInv, SpentInv, [Next]_vars, NEW k \in Instances,
           worker'[k] = worker[k],
           worker[k].pc # "idle" =>
               jobs'[worker[k].job].attempts = jobs[worker[k].job].attempts,
           OneProcess /\ worker[k].pc # "idle" => UNCHANGED audio
    PROVE  WorkSpent(k)'
<1>1. CASE worker[k].pc = "idle"
  BY <1>1 DEF WorkSpent
<1>2. CASE worker[k].pc # "idle"
  <2>1. worker[k].prompt \in Prompts /\ jobs[worker[k].job].attempts \in Nat
    BY <1>2 DEF SafeInv, TypeInv, WellFormed, TypeOK, Job
  <2> DEFINE spent == jobs[worker[k].job].attempts
             budget == faults + Conflicts(worker[k].prompt)
  <2>2. /\ faults \in Nat /\ faults' \in Nat /\ faults <= faults'
        /\ budget \in Nat /\ budget' \in Nat /\ budget <= budget'
        /\ spent \in Nat /\ spent' = spent
    BY <1>2, <2>1, BudgetGrows DEF SpentInv
  <2>3. /\ spent <= budget
        /\ worker[k].pc \in {"rollback", "failed"} => spent + 1 <= budget
        /\ worker[k].pc = "commit" /\ ~worker[k].existing =>
              spent <= faults /\ (OneProcess => audio[worker[k].prompt] = 0)
    BY <1>2 DEF SpentInv, WorkSpent
  <2>4. OneProcess => UNCHANGED audio
    BY <1>2
  <2> HIDE DEF spent, budget
  <2>5. /\ spent' <= budget'
        /\ worker[k].pc \in {"rollback", "failed"} => spent' + 1 <= budget'
        /\ worker[k].pc = "commit" /\ ~worker[k].existing =>
              spent' <= faults' /\ (OneProcess => audio'[worker[k].prompt] = 0)
    BY <2>2, <2>3, <2>4
  <2>6. QED
    BY <2>5 DEF WorkSpent, spent, budget, OneProcess
<1>3. QED
  BY <1>1, <1>2

\* A step of a worker on the job it has.
LEMMA OwnWork ==
    ASSUME SafeInv, LockInv, SpentInv, [Next]_vars, NEW i \in Instances,
           WorkerStep(i) \/ WorkerFault(i),
           ~(\E j \in JobIds : Fetch(i, j)), ~FinishCompleted(i), ~FinishFailed(i)
    PROVE  WorkSpent(i)'
<1> DEFINE spent == jobs[worker[i].job].attempts
           budget == faults + Conflicts(worker[i].prompt)
<1>1. /\ UNCHANGED jobs /\ worker[i].pc # "idle" /\ worker'[i].pc # "idle"
      /\ worker'[i].job = worker[i].job /\ worker'[i].prompt = worker[i].prompt
  BY KeepsJob DEF SafeInv
<1>2. worker[i].prompt \in Prompts /\ spent \in Nat /\ spent' = spent
  BY <1>1 DEF SafeInv, TypeInv, WellFormed, TypeOK, Job
<1>3. /\ faults \in Nat /\ faults' \in Nat /\ faults <= faults'
      /\ Conflicts(worker[i].prompt) \in {0, 1} /\ Conflicts(worker[i].prompt)' \in {0, 1}
      /\ budget \in Nat /\ budget' \in Nat /\ budget <= budget'
      /\ faults' = faults + 1 => budget + 1 <= budget'
  BY <1>1, <1>2, BudgetGrows DEF SpentInv
<1>4. /\ spent <= budget
      /\ worker[i].pc \in {"rollback", "failed"} => spent + 1 <= budget
      /\ worker[i].pc = "commit" /\ ~worker[i].existing =>
            spent <= faults /\ (OneProcess => audio[worker[i].prompt] = 0)
  BY <1>1 DEF SpentInv, WorkSpent
<1> HIDE DEF spent, budget
<1>5. ASSUME worker'[i].pc \in {"rollback", "failed"} => spent + 1 <= budget',
             worker'[i].pc = "commit" /\ ~worker'[i].existing =>
                 spent <= faults' /\ (OneProcess => audio'[worker[i].prompt] = 0)
      PROVE  WorkSpent(i)'
  <2>1. spent' <= budget' /\ worker'[i].pc # "idle"
    BY <1>1, <1>2, <1>3, <1>4
  <2>2. QED
    BY <1>1, <1>2, <1>5, <2>1 DEF WorkSpent, spent, budget, OneProcess
\* A failure pays for the attempt.
<1>6. ASSUME faults' = faults + 1, worker'[i].pc # "commit" PROVE WorkSpent(i)'
  BY <1>2, <1>3, <1>4, <1>5, <1>6
<1>7. CASE WorkerFault(i)
  <2>1. PICK pc \in {"rollback", "failed"} : Goto(i, pc) /\ faults' = faults + 1
    BY <1>7 DEF WorkerFault, BeforeTryFails, TransactionFails, InvalidateFails, PublishFails,
       RollbackFails, Fault
  <2>2. worker'[i].pc # "commit"
    BY <2>1, GotoEffect DEF SafeInv
  <2>3. QED
    BY <1>6, <2>1, <2>2
<1>8. CASE Rollback(i)
  <2>1. worker'[i].pc = "failed" /\ worker[i].pc = "rollback"
    BY <1>8, GotoEffect DEF Rollback, At, SafeInv
  <2>2. QED
    BY <1>2, <1>3, <1>4, <1>5, <2>1
<1>9. CASE CommitConflicts(i)
  <2>1. /\ worker'[i].pc = "rollback" /\ worker[i].pc = "commit" /\ ~worker[i].existing
        /\ audio[worker[i].prompt] # 0
    BY <1>9, GotoEffect DEF CommitConflicts, At, Mine, SafeInv
  <2>2. spent <= faults /\ ~OneProcess
    BY <1>4, <2>1
  <2>3. Conflicts(worker[i].prompt) = 1
    BY <2>1, <2>2 DEF Conflicts
  <2>4. spent + 1 <= budget
    BY <1>2, <1>3, <2>2, <2>3 DEF budget
  <2>5. QED
    BY <1>2, <1>3, <1>5, <2>1, <2>4
<1>10. CASE FindAudio(i)
  <2>1. /\ worker'[i].pc = "commit" /\ worker'[i].existing = (audio[worker[i].prompt] # 0)
        /\ UNCHANGED <<audio, faults>>
    BY <1>10 DEF FindAudio, Mine, tables, SafeInv, TypeInv, TypeOK, Processing
  <2>2. CASE audio[worker[i].prompt] # 0
    BY <1>5, <2>1, <2>2
  <2>3. CASE audio[worker[i].prompt] = 0
    <3>1. Conflicts(worker[i].prompt) = 0
      BY <2>3 DEF Conflicts
    <3>2. spent <= faults
      BY <1>2, <1>3, <1>4, <3>1 DEF budget
    <3>3. QED
      BY <1>5, <2>1, <2>3, <3>2
  <2>4. QED
    BY <2>2, <2>3
<1>11. ASSUME NEW pc \in {"mark", "generate", "invalidate", "publish", "completed"}, Goto(i, pc)
       PROVE  WorkSpent(i)'
  BY <1>5, <1>11, GotoEffect DEF SafeInv
<1>12. QED
  BY <1>7, <1>8, <1>9, <1>10, <1>11 DEF WorkerStep, FindPrompt, MarkProcessing, CommitAudio,
     InvalidateCaches, Publish

LEMMA SpentInductive ==
    ASSUME SafeInv, LockInv, SpentInv, NoPollFaults, [Next]_vars, ~LosesLock PROVE SpentInv'
<1>1. /\ TypeInv
      /\ faults' <= MaxFaults /\ faults \in Nat /\ faults' \in Nat /\ faults <= faults'
      /\ \A p \in Prompts : /\ Conflicts(p) \in {0, 1} /\ Conflicts(p)' \in {0, 1}
                            /\ Conflicts(p) <= Conflicts(p)'
  BY BudgetGrows DEF SafeInv, SpentInv
<1>2. \A j \in JobIds : /\ jobs[j].attempts \in Nat
                        /\ jobs[j].state \in Queued => jobs[j].prompt \in Prompts
  BY <1>1 DEF TypeInv, TypeOK, WellFormed, JobOK, Job, Queued
\* A job that stays as it is, or is still queued after as many attempts.
<1>3. ASSUME NEW j \in JobIds,
             jobs[j].state \in Queued, jobs'[j].attempts = jobs[j].attempts,
             jobs'[j].prompt = jobs[j].prompt
      PROVE  JobSpent(j)'
  <2>1. jobs[j].attempts <= faults + Conflicts(jobs[j].prompt)
    BY <1>3 DEF SpentInv, JobSpent
  <2>2. jobs[j].prompt \in Prompts /\ jobs[j].attempts \in Nat
    BY <1>2, <1>3
  <2>3. PICK p \in Prompts, n \in Nat : p = jobs[j].prompt /\ n = jobs[j].attempts
    BY <2>2
  <2>4. n <= faults' + Conflicts(p)'
    BY <2>1, <2>3, StillPaid DEF SpentInv
  <2>5. p = jobs'[j].prompt /\ jobs'[j].attempts <= faults' + Conflicts(p)'
    BY <1>3, <2>3, <2>4
  <2>6. QED
    BY <2>5 DEF JobSpent, Conflicts
<1>4. ASSUME NEW j \in JobIds, jobs'[j] = jobs[j] PROVE JobSpent(j)'
  <2>1. CASE jobs[j].state \in Queued
    BY <1>3, <1>4, <2>1
  <2>2. CASE jobs[j].state \notin Queued
    BY <1>4, <2>2 DEF JobSpent
  <2>3. QED
    BY <2>1, <2>2
<1>5. \A k \in Instances : worker[k].pc # "idle" =>
          /\ worker[k].job \in JobIds /\ jobs[worker[k].job].owner = k /\ k # None
          /\ jobs[worker[k].job].prompt = worker[k].prompt /\ worker[k].prompt \in Prompts
  BY <1>1, SetsAssumption DEF LockInv, Holds, TypeInv, WellFormed
<1>6. CASE UNCHANGED <<jobs, worker, audio>>
  BY <1>1, <1>4, <1>6, WorkKept DEF SpentInv
<1>7. ASSUME NEW p \in Prompts, Create(p) PROVE UNCHANGED <<jobs, worker, audio>>
  BY <1>7 DEF Create
<1>8. ASSUME NEW i \in Instances, NEW t \in Ticks, PollStep(i, t) \/ PollFault(i, t)
      PROVE  SpentInv'
  <2>1. UNCHANGED <<worker, audio>>
    BY <1>1, <1>8, PollFrame
  <2>2. CASE UNCHANGED jobs
    BY <1>6, <2>1, <2>2
  <2>3. CASE ~UNCHANGED jobs
    <3>1. PICK tier : AddJob(poll[i][t].prompt, tier) /\ poll[i][t].pc = "enqueue"
      BY <1>1, <1>8, <2>3, PollFrame DEF Enqueue
    <3>2. poll[i][t].prompt \in Prompts
      BY <1>1, <3>1 DEF TypeInv, WellFormed
    <3>3. PICK j \in JobIds :
              /\ jobs[j].owner = None
              /\ jobs'[j].prompt = poll[i][t].prompt /\ jobs'[j].attempts = 0
              /\ \A k \in JobIds \ {j} : jobs'[k] = jobs[k]
      BY <1>1, <3>1, FreshJob
    <3>4. ASSUME NEW k \in Instances PROVE WorkSpent(k)'
      BY <1>5, <2>1, <3>3, WorkKept
    <3>5. JobSpent(j)'
      <4>1. PICK p \in Prompts : p = jobs'[j].prompt
        BY <3>2, <3>3
      <4>2. jobs'[j].attempts <= faults' + Conflicts(p)'
        BY <1>1, <3>3
      <4>3. QED
        BY <4>1, <4>2 DEF JobSpent, Conflicts
    <3>6. QED
      BY <1>1, <1>4, <3>3, <3>4, <3>5 DEF SpentInv
  <2>4. QED
    BY <2>2, <2>3
<1>9. ASSUME NEW i \in Instances, WorkerStep(i) \/ WorkerFault(i) PROVE SpentInv'
  <2>1. \A k \in Instances \ {i} : worker'[k] = worker[k] /\ ~OneProcess
    BY <1>1, <1>9, WorkerFrame DEF OneProcess
  <2>2. CASE \E j \in JobIds : Fetch(i, j)
    <3>1. PICK j \in JobIds : Fetch(i, j)
      BY <2>2
    <3>2. JobSpent(j)'
      BY <1>1, <3>1, FetchEffect DEF JobSpent, Queued
    <3>3. ASSUME NEW l \in JobIds \ {j} PROVE JobSpent(l)'
      BY <1>1, <1>4, <3>1, FetchEffect
    <3>4. ASSUME NEW k \in Instances \ {i} PROVE WorkSpent(k)'
      BY <1>1, <1>5, <2>1, <3>1, FetchEffect, WorkKept
    <3>5. WorkSpent(i)'
      <4>1. /\ jobs[j].attempts <= faults + Conflicts(jobs[j].prompt)
            /\ worker'[i].pc = "find" /\ worker'[i].job = j
            /\ worker'[i].prompt = jobs[j].prompt /\ jobs'[j].attempts = jobs[j].attempts
            /\ jobs[j].prompt \in Prompts
        BY <1>1, <3>1, FetchEffect DEF SpentInv, JobSpent
      <4>2. PICK p \in Prompts, n \in Nat : p = jobs[j].prompt /\ n = jobs[j].attempts
        BY <1>2, <4>1
      <4>3. n <= faults' + Conflicts(p)'
        BY <4>1, <4>2, StillPaid DEF SpentInv
      <4>4. jobs'[j].attempts <= faults' + Conflicts(p)' /\ p = worker'[i].prompt
        BY <4>1, <4>2, <4>3
      <4>5. QED
        BY <4>1, <4>4 DEF WorkSpent, Conflicts
    <3>6. QED
      BY <1>1, <3>2, <3>3, <3>4, <3>5 DEF SpentInv
  <2>3. CASE FinishCompleted(i) \/ FinishFailed(i)
    <3>1. PICK j \in JobIds :
            /\ j = worker[i].job /\ worker[i].pc \in {"completed", "failed"}
            /\ worker'[i].pc = "idle"
            /\ \A k \in JobIds \ {j} : jobs'[k] = jobs[k]
            /\ jobs'[j].state = "none"
               \/ /\ jobs'[j].state = "delayed" /\ jobs'[j].prompt = worker[i].prompt
                  /\ jobs'[j].attempts = jobs[j].attempts + 1 /\ worker[i].pc = "failed"
      BY <1>1, <2>3, FinishEffect
    <3>2. WorkSpent(i)'
      BY <3>1 DEF WorkSpent
    <3>3. ASSUME NEW k \in Instances \ {i} PROVE WorkSpent(k)'
      BY <1>5, <2>1, <3>1, WorkKept
    <3>4. JobSpent(j)'
      <4>1. CASE jobs'[j].state = "none"
        BY <4>1 DEF JobSpent, Queued
      <4>2. CASE jobs'[j].state # "none"
        <5>1. jobs[j].attempts + 1 <= faults + Conflicts(worker[i].prompt)
          BY <3>1, <4>2 DEF SpentInv, WorkSpent
        <5>2. worker[i].prompt \in Prompts /\ jobs[j].attempts + 1 \in Nat
          BY <1>2, <1>5, <3>1
        <5>3. PICK p \in Prompts, n \in Nat : p = worker[i].prompt /\ n = jobs[j].attempts + 1
          BY <5>2
        <5>4. n <= faults' + Conflicts(p)'
          BY <5>1, <5>3, StillPaid DEF SpentInv
        <5>5. jobs'[j].attempts <= faults' + Conflicts(p)' /\ p = jobs'[j].prompt
          BY <3>1, <4>2, <5>3, <5>4
        <5>6. QED
          BY <5>5 DEF JobSpent, Conflicts
      <4>3. QED
        BY <4>1, <4>2
    <3>5. QED
      BY <1>1, <1>4, <3>1, <3>2, <3>3, <3>4 DEF SpentInv
  <2>4. CASE ~(\E j \in JobIds : Fetch(i, j)) /\ ~FinishCompleted(i) /\ ~FinishFailed(i)
    <3>1. UNCHANGED jobs
      BY <1>1, <1>9, <2>4, KeepsJob
    <3>2. WorkSpent(i)'
      BY <1>9, <2>4, OwnWork
    <3>3. ASSUME NEW k \in Instances \ {i} PROVE WorkSpent(k)'
      BY <2>1, <3>1, WorkKept
    <3>4. QED
      BY <1>1, <1>4, <3>1, <3>2, <3>3 DEF SpentInv
  <2>5. QED
    BY <2>2, <2>3, <2>4
<1>10. ASSUME NEW j \in JobIds, QueueStep(j) PROVE SpentInv'
  <2>1. Promote(j)
    BY <1>10 DEF Stall, LockInv, Locked, QueueStep
  <2>2. UNCHANGED <<worker, audio>>
    BY <2>1 DEF Promote, tables
  <2>3. ASSUME NEW k \in Instances PROVE WorkSpent(k)'
    BY <1>1, <1>5, <2>1, <2>2, PromoteEffect, WorkKept
  <2>4. JobSpent(j)'
    BY <1>1, <1>3, <2>1, PromoteEffect
  <2>5. ASSUME NEW l \in JobIds \ {j} PROVE JobSpent(l)'
    BY <1>1, <1>4, <2>1, PromoteEffect
  <2>6. QED
    BY <1>1, <2>3, <2>4, <2>5 DEF SpentInv
<1>11. QED
  BY <1>6, <1>7, <1>8, <1>9, <1>10, NoCrash DEF Next, vars, tables, LosesLock

LEMMA RetryCarries ==
    ASSUME TypeInv, LockInv, SpentInv, RetryInv, RetryBudget, NEW i \in Instances,
           WorkerStep(i) \/ WorkerFault(i)
    PROVE  RetryInv'
<1> DEFINE Held == {"find", "mark", "generate", "commit", "rollback", "failed"}
           InHand(p) == \E k \in Instances : worker[k].pc \in Held /\ worker[k].prompt = p
<1>1. UNCHANGED poll /\ \A p : Scheduled(p)' <=> Scheduled(p)
  BY WorkerFrame DEF Scheduled
<1>2. \A k \in Instances \ {i} : worker'[k] = worker[k]
  BY WorkerFrame
<1>3. worker[i].pc # "idle" => Mine(i) \in Prompts
  BY DEF TypeInv, WellFormed, Mine
\* With a job in any of these places a prompt is carried, or failing.
<1>4. /\ \A p : Carried(p) \/ Failing(p) <=> Scheduled(p) \/ InQueue(p) \/ InHand(p)
      /\ \A p : (Carried(p) \/ Failing(p))' <=> Scheduled(p)' \/ InQueue(p)' \/ InHand(p)'
  BY DEF Carried, Failing, InWork
<1>5. \A p : InHand(p) => InHand(p)' \/ (p = Mine(i) /\ worker[i].pc \in Held)
  BY <1>2 DEF Mine
<1>6. \A p : worker'[i].pc \in Held /\ worker'[i].prompt = p => InHand(p)'
  OBVIOUS
<1> HIDE DEF InHand
<1>7. ASSUME \A q \in Prompts : status'[q] # "PROCESSING" \/ status'[q] = status[q]
                                \/ Scheduled(q)' \/ InQueue(q)' \/ InHand(q)',
             \A q \in Prompts : Scheduled(q) \/ InQueue(q) \/ InHand(q) =>
                    Scheduled(q)' \/ InQueue(q)' \/ InHand(q)' \/ status'[q] # "PROCESSING"
      PROVE  RetryInv'
  BY <1>4, <1>7 DEF RetryInv
<1>8. ASSUME UNCHANGED jobs, Mine(i) \in Prompts,
             \A q \in Prompts \ {Mine(i)} : status'[q] = status[q],
             \/ worker'[i].pc \in Held /\ worker'[i].prompt = Mine(i)
             \/ status'[Mine(i)] # "PROCESSING"
             \/ UNCHANGED status /\ worker[i].pc \notin Held
      PROVE  RetryInv'
  <2>1. \A p : InQueue(p)' <=> InQueue(p)
    BY <1>8 DEF InQueue
  <2>2. QED
    BY <1>1, <1>5, <1>6, <1>7, <1>8, <2>1
<1>9. CASE \E j \in JobIds : Fetch(i, j)
  <2>1. PICK j \in JobIds : Fetch(i, j)
    BY <1>9
  <2>2. /\ worker'[i].pc = "find" /\ worker'[i].prompt = jobs[j].prompt
        /\ worker[i].pc = "idle" /\ UNCHANGED status
        /\ \A k \in JobIds \ {j} : jobs'[k] = jobs[k]
    BY <2>1, FetchEffect
  <2>3. \A p : InQueue(p) => InQueue(p)' \/ p = jobs[j].prompt
    BY <2>2 DEF InQueue
  <2>4. QED
    BY <1>1, <1>5, <1>6, <1>7, <2>2, <2>3
<1>10. CASE FinishCompleted(i) \/ FinishFailed(i)
  <2>1. PICK j \in JobIds :
          /\ j = worker[i].job /\ worker[i].pc \in {"completed", "failed"} /\ UNCHANGED status
          /\ \A k \in JobIds \ {j} : jobs'[k] = jobs[k]
          /\ worker[i].pc = "failed" /\ jobs[j].attempts + 1 < MaxAttempts
                => jobs'[j].state = "delayed" /\ jobs'[j].prompt = worker[i].prompt
    BY <1>10, FinishEffect
  <2>2. jobs[j].owner = i /\ jobs[j].state = "active"
    BY <2>1, SetsAssumption DEF LockInv, Holds, Locked
  <2>3. \A p : InQueue(p) => InQueue(p)'
    BY <2>1, <2>2 DEF InQueue, Queued
  \* The job has an attempt left.
  <2>4. ASSUME NEW p, worker[i].pc = "failed", p = Mine(i) PROVE InQueue(p)'
    <3>1. jobs[j].attempts + 1 < MaxAttempts
      <4>1. jobs[j].attempts + 1 <= faults + Conflicts(Mine(i)) /\ faults <= MaxFaults
        BY <2>1, <2>4 DEF SpentInv, WorkSpent, Mine
      <4>2. Conflicts(Mine(i)) \in {0, 1} /\ Conflicts(Mine(i)) <= Allowance
        BY DEF Conflicts, Allowance
      <4>3. jobs[j].attempts \in Nat /\ faults \in Nat /\ Allowance \in {0, 1}
        BY DEF TypeInv, TypeOK, Job, Allowance
      <4>4. QED
        BY <4>1, <4>2, <4>3, BoundsAssumption DEF RetryBudget
    <3>2. QED
      BY <2>1, <2>4, <3>1 DEF InQueue, Queued, Mine
  <2>5. QED
    BY <1>1, <1>5, <1>7, <2>1, <2>3, <2>4
<1>11. CASE MarkProcessing(i)
  BY <1>3, <1>8, <1>11, GotoEffect DEF MarkProcessing, At, Mine, TypeInv, TypeOK
<1>12. CASE FindAudio(i)
  <2>1. worker'[i].pc = "commit" /\ worker'[i].prompt = Mine(i)
    BY <1>12 DEF FindAudio, Mine, TypeInv, TypeOK, Processing
  <2>2. QED
    BY <1>3, <1>8, <1>12, <2>1 DEF FindAudio, At, tables
<1>13. CASE CommitAudio(i)
  BY <1>3, <1>8, <1>13 DEF CommitAudio, At, Complete, TypeInv, TypeOK
<1>14. CASE InvalidateCaches(i) \/ Publish(i)
  BY <1>3, <1>8, <1>14 DEF InvalidateCaches, Publish, At, tables
\* All other steps leave the worker with its prompt, or the prompt completed.
<1>15. ASSUME NEW pc \in Held, Goto(i, pc), UNCHANGED jobs, worker[i].pc # "idle",
              \A q \in Prompts \ {Mine(i)} : status'[q] = status[q]
       PROVE  RetryInv'
  BY <1>3, <1>8, <1>15, GotoEffect DEF Mine
<1>16. CASE FindPrompt(i)
  <2>1. CASE Goto(i, "completed") /\ status[Mine(i)] # "PROCESSING"
    BY <1>3, <1>8, <1>16, <2>1 DEF FindPrompt, At, tables
  <2>2. CASE Goto(i, "mark")
    BY <1>15, <1>16, <2>2 DEF FindPrompt, At, tables
  <2>3. QED
    BY <1>16, <2>1, <2>2 DEF FindPrompt
<1>17. CASE BeforeTryFails(i)
  BY <1>15, <1>17 DEF BeforeTryFails, At, TypeInv, TypeOK
<1>18. CASE TransactionFails(i)
  BY <1>15, <1>18 DEF TransactionFails, Complete, At, TypeInv, TypeOK
<1>19. CASE CommitConflicts(i) \/ InvalidateFails(i) \/ PublishFails(i) \/ RollbackFails(i)
  BY <1>15, <1>19 DEF CommitConflicts, InvalidateFails, PublishFails, RollbackFails, At, tables
<1>20. CASE Rollback(i)
  BY <1>15, <1>20 DEF Rollback, At, TypeInv, TypeOK
<1>21. QED
  BY <1>9, <1>10, <1>11, <1>12, <1>13, <1>14, <1>16, <1>17, <1>18, <1>19, <1>20
     DEF WorkerStep, WorkerFault

LEMMA RetryInductive ==
    ASSUME TypeInv, LockInv, SpentInv, RetryInv, RetryBudget, NoPollFaults, [Next]_vars,
           ~LosesLock
    PROVE  RetryInv'
<1>1. CASE UNCHANGED vars
  BY <1>1 DEF vars, tables, scheduler, RetryInv, Failing, Carried, Scheduled, InQueue, InWork
<1>2. ASSUME NEW p \in Prompts, Create(p) PROVE RetryInv'
  <2>1. \A q \in Prompts : status'[q] = "PROCESSING" => status[q] = "PROCESSING"
    BY <1>2 DEF Create, TypeInv, TypeOK
  <2>2. \A q : (Carried(q)' <=> Carried(q)) /\ (Failing(q)' <=> Failing(q))
    BY <1>2 DEF Create, scheduler, Carried, Scheduled, InQueue, InWork, Failing
  <2>3. QED
    BY <2>1, <2>2 DEF RetryInv
<1>3. ASSUME NEW i \in Instances, NEW t \in Ticks, PollStep(i, t) \/ PollFault(i, t)
      PROVE  RetryInv'
  <2>1. /\ UNCHANGED worker
        /\ \A p : Carried(p) => Carried(p)'
        /\ \A p \in Prompts : status'[p] = status[p]
                              \/ (status'[p] = "PROCESSING" /\ Carried(p)')
    BY <1>3, SchedulerCarries
  <2>2. \A p : Failing(p) => Failing(p)'
    BY <2>1 DEF Failing
  <2>3. QED
    BY <2>1, <2>2 DEF RetryInv
<1>4. ASSUME NEW j \in JobIds, QueueStep(j) PROVE RetryInv'
  <2>1. Promote(j)
    BY <1>4 DEF Stall, LockInv, Locked, QueueStep
  <2>2. UNCHANGED <<status, poll, worker>>
    BY <2>1 DEF Promote, tables, scheduler
  <2>3. \A p : /\ Scheduled(p)' <=> Scheduled(p)
               /\ InWork(p)' <=> InWork(p)
               /\ Failing(p)' <=> Failing(p)
    BY <2>2 DEF Scheduled, InWork, Failing
  <2>4. \A p : InQueue(p) => InQueue(p)'
    BY <2>1, PromoteEffect DEF InQueue, Queued
  <2>5. QED
    BY <2>2, <2>3, <2>4 DEF RetryInv, Carried
<1>5. QED
  BY <1>1, <1>2, <1>3, <1>4, NoCrash, RetryCarries DEF Next, LosesLock

\* An attempt holds its lock, is paid for by a failure, and carries its prompt.
AttemptInv == LockInv /\ SpentInv /\ RetryInv

LEMMA InitAttempt == Init => SafeInv /\ AttemptInv
<1> SUFFICES ASSUME Init PROVE SafeInv /\ AttemptInv
  OBVIOUS
<1>1. NoJob.state = "none" /\ NoJob.owner = None /\ Free.pc = "idle"
  BY DEF NoJob, Free
<1>2. LockInv
  BY <1>1, SetsAssumption DEF Init, LockInv, Holds, Locked
<1>3. SpentInv
  BY <1>1, BoundsAssumption DEF Init, SpentInv, JobSpent, WorkSpent, Queued
<1>4. RetryInv
  BY DEF Init, RetryInv
<1>5. SafeInv
  BY InitTypeInv DEF Init, SafeInv, Known, AudioInv, Asleep, Free, NoJob
<1>6. QED
  BY <1>2, <1>3, <1>4, <1>5 DEF AttemptInv

LEMMA AttemptInductive ==
    ASSUME SafeInv, AttemptInv, RetryBudget, NoPollFaults, [Next]_vars, ~LosesLock
    PROVE  AttemptInv'
BY LockInductive, SpentInductive, RetryInductive DEF AttemptInv, SafeInv

LEMMA SafeInductive == SafeInv /\ [Next]_vars => SafeInv'
BY NextTypeInv, KnownInductive, AudioInductive DEF SafeInv

LEMMA AttemptNoOrphan == ASSUME SafeInv, AttemptInv, RetryBudget PROVE NoOrphan
<1>1. SUFFICES ASSUME NEW p \in Prompts, Failing(p) PROVE WillRetry(p)
  BY DEF AttemptInv, RetryInv, Carried, NoOrphan
<1>2. PICK i \in Instances : worker[i].pc = "failed" /\ worker[i].prompt = p
  BY <1>1 DEF Failing
<1> DEFINE n == jobs[worker[i].job].attempts
<1>3. /\ n + 1 <= faults + Conflicts(p) /\ faults <= MaxFaults
      /\ jobs[worker[i].job].owner = i /\ worker[i].job \in JobIds
  BY <1>2 DEF AttemptInv, SpentInv, WorkSpent, LockInv, Holds, SafeInv, TypeInv, WellFormed
<1>4. /\ n \in Nat /\ faults \in Nat /\ Conflicts(p) \in {0, 1} /\ Conflicts(p) <= Allowance
      /\ Allowance \in {0, 1}
  BY <1>3 DEF SafeInv, TypeInv, TypeOK, Job, Conflicts, Allowance
<1>5. n + 1 < MaxAttempts
  BY <1>3, <1>4, BoundsAssumption DEF RetryBudget
<1>6. QED
  BY <1>2, <1>3, <1>5 DEF WillRetry

\* While only calls of process fail, before the try block, in it or in the
\* catch block, and a job has more attempts than there are failures (and one
\* more for the transaction that conflicts with another process's), no prompt
\* is left PROCESSING with nobody to run it.
THEOREM RetriesSuffice == ASSUME AttemptFaults, RetryBudget PROVE Spec => []NoOrphan
<1>1. NoPollFaults /\ ~LosesLock
  BY DEF AttemptFaults, NoPollFaults, LosesLock, LoseLock, Fault
<1>2. SafeInv /\ AttemptInv /\ [Next]_vars => (SafeInv /\ AttemptInv)'
  BY <1>1, AttemptInductive, SafeInductive
<1>3. QED
  BY <1>2, InitAttempt, AttemptNoOrphan, PTL DEF Spec

-----------------------------------------------------------------------------
(***************************************************************************)
(* No orphan, when one thing fails, or a lock is lost                      *)
(***************************************************************************)
ProcessFaults ==
    FaultKinds \subseteq {"job", "generate", "cache", "publish", "rollback", "lock"}

\* Until something fails both arguments apply; then the one for what failed.
EitherInv == /\ OrphanInv \/ AttemptInv
             /\ faults = 0 => OrphanInv /\ AttemptInv

LEMMA FaultsCount ==
    ASSUME TypeInv, Skips \/ LosesLock
    PROVE  faults' = faults + 1 /\ faults < MaxFaults /\ ~(Skips /\ LosesLock)
<1>1. faults' = faults + 1 /\ faults < MaxFaults
  BY DEF Skips, LosesLock, BeforeTryFails, RollbackFails, LoseLock, Fault
<1>2. ASSUME NEW i \in Instances, BeforeTryFails(i) \/ RollbackFails(i) PROVE worker' # worker
  <2>1. worker[i].pc # "failed" /\ Goto(i, "failed")
    BY <1>2 DEF BeforeTryFails, RollbackFails, At
  <2>2. QED
    BY <2>1, GotoEffect
<1>3. QED
  BY <1>1, <1>2 DEF Skips, LosesLock, LoseLock

LEMMA EitherInductive ==
    ASSUME SafeInv, EitherInv, ProcessFaults, MaxFaults <= 1, RetryBudget, [Next]_vars
    PROVE  EitherInv'
<1>1. TypeInv /\ TypeInv' /\ NoPollFaults
  BY NextTypeInv DEF SafeInv, ProcessFaults, NoPollFaults
<1>2. OrphanInv /\ ~Skips => OrphanInv'
  BY <1>1, OrphanInductive
<1>3. AttemptInv /\ ~LosesLock => AttemptInv'
  BY <1>1, AttemptInductive
<1>4. faults \in Nat /\ faults' \in Nat
  BY <1>1 DEF TypeInv, TypeOK
<1>5. CASE Skips \/ LosesLock
  <2>1. faults = 0 /\ faults' # 0 /\ ~(Skips /\ LosesLock)
    BY <1>1, <1>4, <1>5, FaultsCount, BoundsAssumption
  <2>2. QED
    BY <1>2, <1>3, <2>1 DEF EitherInv
<1>6. CASE ~Skips /\ ~LosesLock
  <2>1. faults' = 0 => faults = 0
    BY <1>4, FaultsGrow
  <2>2. QED
    BY <1>2, <1>3, <1>6, <2>1 DEF EitherInv
<1>7. QED
  BY <1>5, <1>6

\* Whatever call of process fails once, or if one lock is lost, on however many
\* processes, no prompt is left PROCESSING with nobody to run it.
THEOREM OneFailure ==
    ASSUME ProcessFaults, MaxFaults <= 1, RetryBudget PROVE Spec => []NoOrphan
<1>1. Init => SafeInv /\ EitherInv
  BY InitAttempt DEF Init, OrphanInv, EitherInv
<1>2. SafeInv /\ EitherInv /\ [Next]_vars => (SafeInv /\ EitherInv)'
  BY EitherInductive, SafeInductive
<1>3. OrphanInv => NoOrphan
  BY DEF OrphanInv, Carried, NoOrphan
<1>4. SafeInv /\ EitherInv => NoOrphan
  BY <1>3, AttemptNoOrphan DEF EitherInv
<1>5. QED
  BY <1>1, <1>2, <1>4, PTL DEF Spec

-----------------------------------------------------------------------------
(***************************************************************************)
(* One process, and no failure inside the try block                        *)
(***************************************************************************)
OutsideFaults == FaultKinds \subseteq {"poll", "enqueue", "job", "lock", "crash"}

\* One activation at a time does something, and only that one holds a batch.
ExclusiveInv ==
    \A i \in Instances, t \in Ticks :
        /\ poll[i][t].pc # "idle" => isRunning[i]
        /\ poll[i][t].pc \in {"idle", "find"} => poll[i][t].batch = {}
        /\ poll[i][t].batch \subseteq Pending
        /\ \A u \in Ticks : poll[i][t].pc # "idle" /\ poll[i][u].pc # "idle" => t = u

\* No job and no worker has p.
Alone(p) == /\ \A j \in JobIds : jobs[j].prompt # p
            /\ \A i \in Instances : worker[i].prompt # p

\* A prompt is handed to the queue once: until then nobody has it.
HandedInv ==
    \A p \in Prompts :
        /\ status[p] \in {"ABSENT", "PENDING"} => Alone(p) /\ ~Scheduled(p)
        /\ Scheduled(p) => Alone(p)

\* The worker marks, generates and announces only what it found not completed.
ActiveInv ==
    \A i \in Instances :
        /\ worker[i].pc # "rollback"
        /\ worker[i].pc \in {"mark", "generate", "commit"} => status[worker[i].prompt] # "COMPLETED"
        /\ worker[i].pc \in {"mark", "generate", "commit", "invalidate", "publish"}
              => published[worker[i].prompt] = 0
        /\ worker[i].pc = "commit" /\ ~worker[i].existing => audio[worker[i].prompt] = 0
        /\ worker[i].pc \in {"invalidate", "publish"} => status[worker[i].prompt] = "COMPLETED"

AnnouncedInv ==
    \A p \in Prompts : published[p] = 0 \/ (published[p] = 1 /\ status[p] = "COMPLETED")

SingleInv == ExclusiveInv /\ HandedInv /\ OneJobPerPrompt /\ ActiveInv /\ AnnouncedInv

\* The prompts of jobs: a step of a worker or of the queue drops some at most.
LEMMA WorkerJobs ==
    ASSUME TypeInv, NEW i \in Instances, WorkerStep(i) \/ WorkerFault(i)
    PROVE  \A j \in JobIds : jobs'[j].prompt \in {jobs[j].prompt, None}
<1>1. CASE \E j \in JobIds : Fetch(i, j)
  <2>1. PICK j \in JobIds : jobs' = [jobs EXCEPT ![j] = [@ EXCEPT !.state = "active", !.owner = i]]
    BY <1>1 DEF Fetch
  <2>2. [jobs[j] EXCEPT !.state = "active", !.owner = i].prompt = jobs[j].prompt
    BY DEF TypeInv, TypeOK, Job
  <2>3. QED
    BY <2>1, <2>2, JobUpdate
<1>2. CASE FinishCompleted(i) \/ FinishFailed(i)
  <2>1. worker[i].job \in JobIds
    BY <1>2 DEF FinishCompleted, FinishFailed, At, TypeInv, WellFormed
  <2>2. Failed(jobs[worker[i].job]).prompt \in {jobs[worker[i].job].prompt, None} /\ NoJob.prompt = None
    BY <2>1 DEF Failed, NoJob, TypeInv, TypeOK, Job
  <2>3. QED
    BY <1>2, <2>1, <2>2, JobUpdate DEF FinishCompleted, FinishFailed
<1>3. CASE UNCHANGED jobs
  BY <1>3
<1>4. QED
  BY <1>1, <1>2, <1>3 DEF WorkerStep, WorkerFault, FindPrompt, MarkProcessing,
     FindAudio, CommitAudio, CommitConflicts, InvalidateCaches, Publish, Rollback,
     BeforeTryFails, TransactionFails, InvalidateFails, PublishFails, RollbackFails

LEMMA QueueJobs ==
    ASSUME TypeInv, NEW j \in JobIds, QueueStep(j) \/ LoseLock(j)
    PROVE  \A k \in JobIds : jobs'[k].prompt \in {jobs[k].prompt, None}
<1>1. /\ [jobs[j] EXCEPT !.state = "prioritized"].prompt = jobs[j].prompt
      /\ [jobs[j] EXCEPT !.owner = None].prompt = jobs[j].prompt
      /\ [jobs[j] EXCEPT !.state = "wait", !.stalls = jobs[j].stalls + 1].prompt = jobs[j].prompt
      /\ NoJob.prompt = None
  BY DEF TypeInv, TypeOK, Job, NoJob
<1>2. PICK r : jobs' = [jobs EXCEPT ![j] = r] /\ r.prompt \in {jobs[j].prompt, None}
  BY <1>1 DEF QueueStep, Promote, Stall, LoseLock
<1>3. QED
  BY <1>2, JobUpdate

\* Steps that hand no prompt to the queue and take none from PENDING.
LEMMA Drains ==
    ASSUME TypeInv, SingleInv,
           \A j \in JobIds : jobs'[j].prompt \in {jobs[j].prompt, None},
           \A i \in Instances : \/ worker'[i].prompt \in {worker[i].prompt, None}
                                \/ \E j \in JobIds : worker'[i].prompt = jobs[j].prompt,
           \A p \in Prompts : status'[p] \in {"ABSENT", "PENDING"} =>
                                 status[p] \in {"ABSENT", "PENDING"},
           \A i \in Instances, t \in Ticks : poll'[i][t] \in {poll[i][t], Asleep}
    PROVE  HandedInv' /\ OneJobPerPrompt'
<1>1. \A p \in Prompts : Alone(p) => Alone(p)'
  BY SetsAssumption DEF Alone
<1>2. \A p \in Prompts : Scheduled(p)' => Scheduled(p)
  BY DEF Scheduled, Asleep
<1>3. HandedInv'
  BY <1>1, <1>2 DEF SingleInv, HandedInv
<1>4. OneJobPerPrompt'
  BY DEF SingleInv, OneJobPerPrompt
<1>5. QED
  BY <1>3, <1>4

LEMMA CreateSingle == ASSUME TypeInv, SingleInv, NEW p \in Prompts, Create(p) PROVE SingleInv'
<1>1. /\ UNCHANGED <<audio, jobs, isRunning, poll, worker, published>>
      /\ status[p] = "ABSENT" /\ status' = [status EXCEPT ![p] = "PENDING"]
  BY DEF Create
<1>2. HandedInv' /\ OneJobPerPrompt'
  BY <1>1, Drains DEF TypeInv, TypeOK
<1>3. Pending \subseteq Pending'
  BY <1>1 DEF Pending, TypeInv, TypeOK
<1>4. ExclusiveInv'
  BY <1>1, <1>3 DEF SingleInv, ExclusiveInv
<1>5. \A q \in Prompts : status[q] = "COMPLETED" <=> status'[q] = "COMPLETED"
  BY <1>1 DEF TypeInv, TypeOK
<1>6. ActiveInv'
  BY <1>1, <1>5 DEF SingleInv, ActiveInv, TypeInv, WellFormed
<1>7. AnnouncedInv'
  BY <1>1, <1>5 DEF SingleInv, AnnouncedInv
<1>8. QED
  BY <1>2, <1>4, <1>6, <1>7 DEF SingleInv

\* While an activation does something, the others are idle.
LEMMA PollSingle ==
    ASSUME TypeInv, SingleInv, OneProcess, NEW i \in Instances, NEW t \in Ticks,
           PollStep(i, t) \/ PollFault(i, t)
    PROVE  SingleInv'
<1> DEFINE mine == poll[i][t]
           next == poll'[i][t]
           Others == \A k \in Instances, u \in Ticks : ~(k = i /\ u = t) => poll'[k][u] = poll[k][u]
<1>1. mine \in Loop /\ mine.batch \subseteq Pending /\ Pending \subseteq Prompts
  BY DEF TypeInv, TypeOK, SingleInv, ExclusiveInv, Pending
<1>2. UNCHANGED <<audio, worker, published>>
  BY PollFrame
<1>3. \A k \in Instances : k = i
  BY DEF OneProcess
\* The step itself.
<1>4. Others
  BY DEF PollStep, PollFault, PollStart, PollFind, PollUpdate, PollEnqueue, PollFindFails,
         PollUpdateFails, PollEnqueueFails, PollEnd, TypeInv, TypeOK
<1>5. ASSUME NEW r, poll' = [poll EXCEPT ![i][t] = r] PROVE next = r
  BY <1>5 DEF TypeInv, TypeOK
<1>6. Asleep.pc = "idle" /\ Asleep.batch = {} /\ Asleep.prompt = None
  BY DEF Asleep
<1>7. ASSUME PollEnd(i, t) PROVE next = Asleep /\ isRunning' = [isRunning EXCEPT ![i] = FALSE]
  BY <1>5, <1>7 DEF PollEnd
\* Nobody else is busy while this one is.
<1>8. ASSUME mine.pc # "idle", NEW u \in Ticks, u # t
      PROVE  poll[i][u].pc = "idle" /\ poll[i][u].batch = {}
  BY <1>8 DEF SingleInv, ExclusiveInv
<1>9. mine.pc # "idle" => isRunning[i]
  BY DEF SingleInv, ExclusiveInv
<1> HIDE DEF mine, next, Others
\* Its own new state, and those of the others, are exclusive.
<1>10. ASSUME mine.pc # "idle" \/ ~isRunning[i], next.batch \subseteq Pending',
              next.pc \in {"idle", "find"} => next.batch = {},
              next.pc # "idle" => isRunning'[i]
       PROVE  ExclusiveInv'
  <2>1. ASSUME NEW u \in Ticks, u # t
        PROVE  poll'[i][u].pc = "idle" /\ poll'[i][u].batch = {}
    <3>1. poll'[i][u] = poll[i][u]
      BY <1>4, <2>1 DEF Others
    <3>2. CASE mine.pc # "idle"
      BY <1>8, <2>1, <3>1, <3>2
    <3>3. CASE ~isRunning[i]
      BY <2>1, <3>1, <3>3 DEF SingleInv, ExclusiveInv
    <3>4. QED
      BY <1>10, <3>2, <3>3
  <2>2. QED
    BY <1>3, <1>10, <2>1 DEF ExclusiveInv, next
<1>11. ASSUME UNCHANGED status
       PROVE  ActiveInv' /\ AnnouncedInv' /\ Pending' = Pending
  BY <1>2, <1>11 DEF SingleInv, ActiveInv, AnnouncedInv, Pending
<1>12. ASSUME UNCHANGED <<status, jobs>>, \A p : Scheduled(p)' => Scheduled(p)
       PROVE  HandedInv' /\ OneJobPerPrompt'
  BY <1>2, <1>12 DEF SingleInv, HandedInv, Alone, OneJobPerPrompt
<1>13. ASSUME next.pc # "enqueue" PROVE \A p : Scheduled(p)' => Scheduled(p)
  BY <1>4, <1>13 DEF Scheduled, Others, next
<1>14. CASE PollStart(i, t)
  <2>1. next = [Asleep EXCEPT !.pc = "find"] /\ isRunning' = [isRunning EXCEPT ![i] = TRUE]
          /\ ~isRunning[i] /\ UNCHANGED <<status, jobs>>
    BY <1>5, <1>14 DEF PollStart
  <2>2. next.pc = "find" /\ next.batch = {} /\ isRunning'[i]
    BY <2>1 DEF Asleep, TypeInv, TypeOK
  <2>3. QED
    BY <1>10, <1>11, <1>12, <1>13, <2>1, <2>2 DEF SingleInv
<1>15. CASE PollFind(i, t)
  <2>1. mine.pc = "find" /\ UNCHANGED <<status, jobs>>
    BY <1>15 DEF PollFind, mine
  <2>2. \/ next = Asleep
        \/ next = [pc |-> "update", batch |-> FindPending, prompt |-> None] /\ isRunning' = isRunning
    BY <1>5, <1>7, <1>15 DEF PollFind
  <2>3. FindPending \subseteq Pending
    BY DEF FindPending
  <2>4. /\ next.batch \subseteq Pending /\ next.pc \in {"idle", "update"}
        /\ next.pc = "idle" => next.batch = {}
        /\ next.pc # "idle" => isRunning'[i]
    BY <1>6, <1>9, <2>1, <2>2, <2>3
  <2>5. QED
    BY <1>10, <1>11, <1>12, <1>13, <2>1, <2>4 DEF SingleInv
\* A prompt of the batch is marked PROCESSING, with or without going on to enqueue it.
<1>16. ASSUME mine.pc = "update", UNCHANGED jobs, NEW p \in mine.batch,
              status' = [status EXCEPT ![p] = "PROCESSING"],
              next.batch \subseteq mine.batch \ {p},
              next.pc \in {"idle", "find"} => next.batch = {},
              next.pc # "idle" => isRunning'[i],
              next.pc = "enqueue" => next.prompt = p
       PROVE  SingleInv'
  <2>1. p \in Prompts /\ status[p] = "PENDING" /\ status'[p] = "PROCESSING"
          /\ \A q \in Prompts \ {p} : status'[q] = status[q]
    BY <1>1, <1>16 DEF Pending, TypeInv, TypeOK
  <2>2. Pending' = Pending \ {p}
    BY <2>1 DEF Pending
  <2>3. ExclusiveInv'
    BY <1>1, <1>10, <1>16, <2>2
  <2>4. Alone(p) /\ \A q : Alone(q)' <=> Alone(q)
    BY <1>2, <1>16, <2>1 DEF SingleInv, HandedInv, Alone
  <2>5. \A q : Scheduled(q)' => Scheduled(q) \/ q = p
    BY <1>4, <1>16 DEF Scheduled, Others, next
  <2>6. HandedInv'
    BY <2>1, <2>4, <2>5 DEF SingleInv, HandedInv
  <2>7. OneJobPerPrompt'
    BY <1>16 DEF SingleInv, OneJobPerPrompt
  <2>8. published[p] = 0
    BY <2>1 DEF SingleInv, AnnouncedInv
  <2>9. AnnouncedInv'
    BY <1>2, <2>1, <2>8 DEF SingleInv, AnnouncedInv
  <2>10. \A k \in Instances : worker[k].prompt # p
    BY <2>4 DEF Alone
  <2>11. \A k \in Instances : worker[k].pc # "idle" => worker[k].prompt \in Prompts
    BY DEF TypeInv, WellFormed
  <2>12. ActiveInv'
    BY <1>2, <2>1, <2>10, <2>11 DEF SingleInv, ActiveInv
  <2>13. QED
    BY <2>3, <2>6, <2>7, <2>9, <2>12 DEF SingleInv
<1>17. CASE PollUpdate(i, t)
  <2>1. PICK p \in mine.batch :
          /\ status' = [status EXCEPT ![p] = "PROCESSING"]
          /\ poll' = [poll EXCEPT ![i][t] = [pc |-> "enqueue", prompt |-> p,
                                             batch |-> mine.batch \ {p}]]
    BY <1>17 DEF PollUpdate, Oldest, mine
  <2>2. mine.pc = "update" /\ UNCHANGED <<jobs, isRunning>>
    BY <1>17 DEF PollUpdate, mine
  <2>3. next = [pc |-> "enqueue", prompt |-> p, batch |-> mine.batch \ {p}]
    BY <1>5, <2>1
  <2>4. next.pc = "enqueue" /\ next.prompt = p /\ next.batch = mine.batch \ {p}
    BY <2>3
  <2>5. QED
    BY <1>9, <1>16, <2>1, <2>2, <2>4
<1>18. CASE PollUpdateFails(i, t)
  <2>1. mine.pc = "update" /\ UNCHANGED jobs /\ next = Asleep
    BY <1>7, <1>18 DEF PollUpdateFails, mine
  <2>2. CASE UNCHANGED status
    BY <1>6, <1>10, <1>11, <1>12, <1>13, <2>1, <2>2 DEF SingleInv
  <2>3. CASE ~UNCHANGED status
    <3>1. PICK p \in mine.batch : status' = [status EXCEPT ![p] = "PROCESSING"]
      BY <1>18, <2>3 DEF PollUpdateFails, Oldest, mine
    <3>2. QED
      BY <1>6, <1>16, <2>1, <3>1
  <2>4. QED
    BY <2>2, <2>3
<1>19. CASE PollFindFails(i, t)
  <2>1. mine.pc = "find" /\ UNCHANGED <<status, jobs>> /\ next = Asleep
    BY <1>7, <1>19 DEF PollFindFails, mine
  <2>2. QED
    BY <1>6, <1>10, <1>11, <1>12, <1>13, <2>1 DEF SingleInv
\* The prompt in hand gets its job.
<1>20. ASSUME mine.pc = "enqueue", UNCHANGED status, Enqueue(i, t), next.pc \in {"idle", "update"}
       PROVE  HandedInv' /\ OneJobPerPrompt'
  <2> DEFINE p == mine.prompt
  <2>1. p \in Prompts /\ Scheduled(p)
    BY <1>20 DEF TypeInv, WellFormed, Scheduled, mine
  <2>2. Alone(p) /\ status[p] \notin {"ABSENT", "PENDING"}
    BY <2>1 DEF SingleInv, HandedInv
  <2>3. PICK j \in JobIds : /\ jobs'[j].prompt = p
                            /\ \A k \in JobIds \ {j} : jobs'[k] = jobs[k]
    BY <1>20, AddJobEffect DEF Enqueue, mine
  <2> HIDE DEF p
  <2>4. \A q \in Prompts \ {p} : Alone(q) => Alone(q)'
    BY <1>2, <2>3 DEF Alone
  <2>5. \A q \in Prompts : Scheduled(q)' => FALSE
    <3>1. ASSUME NEW u \in Ticks PROVE poll'[i][u].pc # "enqueue"
      <4>1. CASE u = t
        BY <1>20, <4>1 DEF next
      <4>2. CASE u # t
        BY <1>4, <1>8, <1>20, <4>2 DEF Others
      <4>3. QED
        BY <4>1, <4>2
    <3>2. QED
      BY <1>3, <3>1 DEF Scheduled
  <2>6. HandedInv'
    BY <1>20, <2>1, <2>2, <2>4, <2>5 DEF SingleInv, HandedInv
  <2>7. OneJobPerPrompt'
    BY <2>2, <2>3 DEF SingleInv, OneJobPerPrompt, Alone
  <2>8. QED
    BY <2>6, <2>7
<1>21. CASE PollEnqueue(i, t)
  <2>1. mine.pc = "enqueue" /\ UNCHANGED status /\ Enqueue(i, t)
    BY <1>21 DEF PollEnqueue, mine
  <2>2. \/ next = Asleep
        \/ next = [mine EXCEPT !.pc = "update", !.prompt = None] /\ isRunning' = isRunning
    BY <1>5, <1>7, <1>21 DEF PollEnqueue, mine
  <2>3. [mine EXCEPT !.pc = "update", !.prompt = None].pc = "update"
          /\ [mine EXCEPT !.pc = "update", !.prompt = None].batch = mine.batch
    BY <1>1 DEF Loop
  <2>4. /\ next.batch \subseteq Pending /\ next.pc \in {"idle", "update"}
        /\ next.pc = "idle" => next.batch = {}
        /\ next.pc # "idle" => isRunning'[i]
    BY <1>1, <1>6, <1>9, <2>1, <2>2, <2>3
  <2>5. QED
    BY <1>10, <1>11, <1>20, <2>1, <2>4 DEF SingleInv
<1>22. CASE PollEnqueueFails(i, t)
  <2>1. mine.pc = "enqueue" /\ UNCHANGED status /\ next = Asleep /\ (UNCHANGED jobs \/ Enqueue(i, t))
    BY <1>7, <1>22 DEF PollEnqueueFails, mine
  <2>2. ExclusiveInv' /\ ActiveInv' /\ AnnouncedInv'
    BY <1>6, <1>10, <1>11, <2>1
  <2>3. HandedInv' /\ OneJobPerPrompt'
    BY <1>6, <1>12, <1>13, <1>20, <2>1
  <2>4. QED
    BY <2>2, <2>3 DEF SingleInv
<1>23. QED
  BY <1>14, <1>15, <1>17, <1>18, <1>19, <1>21, <1>22 DEF PollStep, PollFault

\* A worker takes no prompt from PENDING or to it.
LEMMA WorkerKeeps ==
    ASSUME TypeInv, SingleInv, OutsideFaults, NEW i \in Instances, WorkerStep(i) \/ WorkerFault(i)
    PROVE  LET p == worker[i].prompt IN
           /\ worker[i].pc # "idle" => p \in Prompts /\ status[p] \notin {"ABSENT", "PENDING"}
           /\ ~(TransactionFails(i) \/ InvalidateFails(i) \/ PublishFails(i) \/ RollbackFails(i))
           /\ ~(CommitConflicts(i) \/ Rollback(i))
           /\ \/ UNCHANGED status
              \/ /\ worker[i].pc # "idle"
                 /\ \E s \in {"PROCESSING", "COMPLETED"} : status' = [status EXCEPT ![p] = s]
<1> DEFINE p == worker[i].prompt
<1>1. worker[i].pc # "idle" => p \in Prompts /\ status[p] \notin {"ABSENT", "PENDING"}
  BY DEF TypeInv, WellFormed, SingleInv, HandedInv, Alone
<1>2. ~(TransactionFails(i) \/ InvalidateFails(i) \/ PublishFails(i) \/ RollbackFails(i))
  BY DEF TransactionFails, InvalidateFails, PublishFails, RollbackFails, Fault, OutsideFaults
<1>3. ~(CommitConflicts(i) \/ Rollback(i))
  BY DEF CommitConflicts, Rollback, At, Mine, SingleInv, ActiveInv
<1>4. \/ UNCHANGED status
      \/ /\ worker[i].pc # "idle"
         /\ \E s \in {"PROCESSING", "COMPLETED"} : status' = [status EXCEPT ![p] = s]
  BY <1>2, <1>3 DEF WorkerStep, WorkerFault, Fetch, FindPrompt, MarkProcessing, FindAudio,
     CommitAudio, Complete, InvalidateCaches, Publish, FinishCompleted, FinishFailed,
     BeforeTryFails, At, Mine
<1>5. QED
  BY <1>1, <1>2, <1>3, <1>4

LEMMA WorkerSingle ==
    ASSUME TypeInv, SingleInv, OneProcess, OutsideFaults, NEW i \in Instances,
           WorkerStep(i) \/ WorkerFault(i)
    PROVE  SingleInv'
<1> DEFINE p == worker[i].prompt
<1>1. worker[i].pc # "idle" => p \in Prompts /\ status[p] \notin {"ABSENT", "PENDING"}
  BY WorkerKeeps
\* What these failures would do does not happen.
<1>2. ~(TransactionFails(i) \/ InvalidateFails(i) \/ PublishFails(i) \/ RollbackFails(i))
  BY WorkerKeeps
<1>3. ~(CommitConflicts(i) \/ Rollback(i))
  BY WorkerKeeps
<1>4. UNCHANGED <<isRunning, poll>>
  BY WorkerFrame DEF scheduler
<1>5. \A k \in Instances : k = i
  BY DEF OneProcess
\* What is handed to the queue.
<1>6. \/ UNCHANGED status
      \/ /\ worker[i].pc # "idle"
         /\ \E s \in {"PROCESSING", "COMPLETED"} : status' = [status EXCEPT ![p] = s]
  BY WorkerKeeps
<1>7. \A r \in Prompts : /\ r # p => status'[r] = status[r]
                         /\ status'[r] \in {"ABSENT", "PENDING"} => status[r] \in {"ABSENT", "PENDING"}
  BY <1>6 DEF TypeInv, TypeOK
<1>8. Pending \subseteq Pending'
  <2>1. CASE worker[i].pc = "idle"
    BY <1>6, <2>1 DEF Pending
  <2>2. CASE worker[i].pc # "idle"
    BY <1>1, <1>7, <2>2 DEF Pending
  <2>3. QED
    BY <2>1, <2>2
<1>9. ExclusiveInv'
  BY <1>4, <1>8 DEF SingleInv, ExclusiveInv
<1>10. \A k \in Instances : \/ worker'[k].prompt \in {worker[k].prompt, None}
                            \/ \E j \in JobIds : worker'[k].prompt = jobs[j].prompt
  <2>1. CASE \E j \in JobIds : Fetch(i, j)
    BY <1>5, <2>1 DEF Fetch, Free, TypeInv, TypeOK
  <2>2. CASE worker' = [worker EXCEPT ![i] = Free]
    BY <1>5, <2>2 DEF Free, TypeInv, TypeOK
  <2>3. QED
    BY <1>5, <2>1, <2>2, WorkerFrame
<1>11. HandedInv' /\ OneJobPerPrompt'
  BY <1>4, <1>7, <1>10, WorkerJobs, Drains
\* What the worker has found and done.
<1>12. ASSUME worker'[i].pc \in {"idle", "find", "completed", "failed"} PROVE ActiveInv'
  BY <1>5, <1>12 DEF ActiveInv
<1>13. ASSUME UNCHANGED <<status, published>> PROVE AnnouncedInv'
  BY <1>13 DEF SingleInv, AnnouncedInv
<1>14. CASE \E j \in JobIds : Fetch(i, j)
  <2>1. worker'[i].pc = "find" /\ UNCHANGED <<status, published>>
    BY <1>14 DEF Fetch, Free, TypeInv, TypeOK
  <2>2. QED
    BY <1>9, <1>11, <1>12, <1>13, <2>1 DEF SingleInv
<1>15. CASE FinishCompleted(i) \/ FinishFailed(i)
  <2>1. worker'[i].pc = "idle" /\ UNCHANGED <<status, published>>
    BY <1>15 DEF FinishCompleted, FinishFailed, Free, TypeInv, TypeOK
  <2>2. QED
    BY <1>9, <1>11, <1>12, <1>13, <2>1 DEF SingleInv
<1>16. CASE FindPrompt(i)
  <2>1. UNCHANGED <<status, published>> /\ worker[i].pc = "find" /\ worker'[i].prompt = p
    BY <1>16, GotoEffect DEF FindPrompt, At
  <2>2. \/ worker'[i].pc = "completed"
        \/ worker'[i].pc = "mark" /\ status[p] # "COMPLETED"
    BY <1>16, GotoEffect DEF FindPrompt, Mine
  <2>3. status[p] # "COMPLETED" => published[p] = 0
    BY <1>1, <2>1 DEF SingleInv, AnnouncedInv
  <2>4. ActiveInv'
    BY <1>5, <2>1, <2>2, <2>3 DEF ActiveInv
  <2>5. QED
    BY <1>9, <1>11, <1>13, <2>1, <2>4 DEF SingleInv
<1>17. ASSUME worker[i].pc \in {"find", "mark"}, worker'[i].pc \in {"generate", "failed"},
              worker'[i].prompt = p, UNCHANGED <<audio, published>>,
              \/ UNCHANGED status /\ worker'[i].pc = "failed"
              \/ worker[i].pc = "mark" /\ status' = [status EXCEPT ![p] = "PROCESSING"]
       PROVE  SingleInv'
  <2>1. CASE UNCHANGED status /\ worker'[i].pc = "failed"
    BY <1>9, <1>11, <1>12, <1>13, <1>17, <2>1 DEF SingleInv
  <2>2. CASE worker[i].pc = "mark" /\ status' = [status EXCEPT ![p] = "PROCESSING"]
    <3>1. published[p] = 0 /\ status'[p] = "PROCESSING"
      BY <1>1, <2>2 DEF SingleInv, ActiveInv, TypeInv, TypeOK
    <3>2. AnnouncedInv'
      BY <1>7, <1>17, <3>1 DEF SingleInv, AnnouncedInv
    <3>3. ActiveInv'
      BY <1>5, <1>17, <3>1 DEF ActiveInv
    <3>4. QED
      BY <1>9, <1>11, <3>2, <3>3 DEF SingleInv
  <2>3. QED
    BY <1>17, <2>1, <2>2
<1>18. CASE MarkProcessing(i)
  BY <1>17, <1>18, GotoEffect DEF MarkProcessing, At, Mine
<1>19. CASE BeforeTryFails(i)
  BY <1>17, <1>19, GotoEffect DEF BeforeTryFails, At, Mine
<1>20. CASE FindAudio(i)
  <2>1. /\ worker[i].pc = "generate" /\ UNCHANGED <<audio, status, published>>
        /\ worker'[i].pc = "commit" /\ worker'[i].prompt = p
        /\ worker'[i].existing = (audio[p] # 0)
    BY <1>20 DEF FindAudio, At, Mine, tables, TypeInv, TypeOK, Processing
  <2>2. ActiveInv'
    BY <1>5, <2>1 DEF SingleInv, ActiveInv
  <2>3. QED
    BY <1>9, <1>11, <1>13, <2>1, <2>2 DEF SingleInv
<1>21. CASE CommitAudio(i)
  <2>1. /\ worker[i].pc = "commit" /\ UNCHANGED published
        /\ worker'[i].pc = "invalidate" /\ worker'[i].prompt = p
        /\ status' = [status EXCEPT ![p] = "COMPLETED"]
    BY <1>21, GotoEffect DEF CommitAudio, Complete, At, Mine
  <2>2. published[p] = 0 /\ status'[p] = "COMPLETED"
    BY <1>1, <2>1 DEF SingleInv, ActiveInv, TypeInv, TypeOK
  <2>3. ActiveInv'
    BY <1>5, <2>1, <2>2 DEF ActiveInv
  <2>4. AnnouncedInv'
    BY <1>7, <2>1, <2>2 DEF SingleInv, AnnouncedInv
  <2>5. QED
    BY <1>9, <1>11, <2>3, <2>4 DEF SingleInv
<1>22. CASE InvalidateCaches(i)
  <2>1. /\ worker[i].pc = "invalidate" /\ UNCHANGED <<status, published>>
        /\ worker'[i].pc = "publish" /\ worker'[i].prompt = p
    BY <1>22, GotoEffect DEF InvalidateCaches, At, tables
  <2>2. ActiveInv'
    BY <1>5, <2>1 DEF SingleInv, ActiveInv
  <2>3. QED
    BY <1>9, <1>11, <1>13, <2>1, <2>2 DEF SingleInv
<1>23. CASE Publish(i)
  <2>1. /\ worker[i].pc = "publish" /\ UNCHANGED status
        /\ worker'[i].pc = "completed"
        /\ published' = [published EXCEPT ![p] = published[p] + 1]
    BY <1>23, GotoEffect DEF Publish, Announce, At, Mine, tables
  <2>2. published[p] = 0 /\ status[p] = "COMPLETED"
    BY <2>1 DEF SingleInv, ActiveInv
  <2>3. AnnouncedInv'
    BY <2>1, <2>2 DEF SingleInv, AnnouncedInv, TypeInv, TypeOK
  <2>4. QED
    BY <1>9, <1>11, <1>12, <2>1, <2>3 DEF SingleInv
<1>24. QED
  BY <1>2, <1>3, <1>14, <1>15, <1>16, <1>18, <1>19, <1>20, <1>21, <1>22, <1>23
     DEF WorkerStep, WorkerFault

LEMMA QueueSingle ==
    ASSUME TypeInv, SingleInv, NEW j \in JobIds, QueueStep(j) \/ LoseLock(j)
    PROVE  SingleInv'
<1>1. UNCHANGED <<status, audio, isRunning, poll, worker, published>>
  BY DEF QueueStep, Promote, Stall, LoseLock, tables, scheduler
<1>2. HandedInv' /\ OneJobPerPrompt'
  BY <1>1, QueueJobs, Drains
<1>3. ExclusiveInv' /\ ActiveInv' /\ AnnouncedInv'
  BY <1>1 DEF SingleInv, ExclusiveInv, ActiveInv, AnnouncedInv, Pending
<1>4. QED
  BY <1>2, <1>3 DEF SingleInv

LEMMA CrashSingle ==
    ASSUME TypeInv, SingleInv, OneProcess, NEW i \in Instances, Crash(i)
    PROVE  SingleInv'
<1>1. UNCHANGED <<status, audio, published>>
  BY DEF Crash, tables
<1>2. \A k \in Instances : worker'[k] = Free /\ \A t \in Ticks : poll'[k][t] = Asleep
  BY DEF Crash, OneProcess, TypeInv, TypeOK
<1>3. \A j \in JobIds : jobs'[j].prompt = jobs[j].prompt
  BY DEF Crash, TypeInv, TypeOK, Job
<1>4. Free.pc = "idle" /\ Free.prompt = None /\ Asleep.pc = "idle" /\ Asleep.batch = {}
  BY DEF Free, Asleep
<1>5. HandedInv' /\ OneJobPerPrompt'
  BY <1>1, <1>2, <1>3, <1>4, Drains
<1>6. ExclusiveInv'
  BY <1>2, <1>4 DEF ExclusiveInv
<1>7. ActiveInv' /\ AnnouncedInv'
  BY <1>1, <1>2, <1>4 DEF SingleInv, ActiveInv, AnnouncedInv
<1>8. QED
  BY <1>5, <1>6, <1>7 DEF SingleInv

LEMMA InitSingle == Init => SingleInv
<1> SUFFICES ASSUME Init PROVE SingleInv
  OBVIOUS
<1>1. ExclusiveInv
  BY DEF Init, ExclusiveInv, Asleep
<1>2. HandedInv /\ OneJobPerPrompt
  BY SetsAssumption DEF Init, HandedInv, Alone, Scheduled, OneJobPerPrompt, Asleep, Free, NoJob
<1>3. ActiveInv /\ AnnouncedInv
  BY DEF Init, ActiveInv, AnnouncedInv, Free
<1>4. QED
  BY <1>1, <1>2, <1>3 DEF SingleInv

LEMMA SingleInductive ==
    ASSUME TypeInv, SingleInv, OneProcess, OutsideFaults, [Next]_vars PROVE SingleInv'
<1>1. CASE UNCHANGED vars
  BY <1>1 DEF vars, tables, scheduler, SingleInv, ExclusiveInv, HandedInv, Alone, Scheduled,
     OneJobPerPrompt, ActiveInv, AnnouncedInv, Pending
<1>2. CASE Next
  BY <1>2, CreateSingle, PollSingle, WorkerSingle, CrashSingle, QueueSingle DEF Next
<1>3. QED
  BY <1>1, <1>2

LEMMA SingleInvariant == ASSUME OneProcess, OutsideFaults PROVE Spec => [](TypeInv /\ SingleInv)
<1>1. Init => TypeInv /\ SingleInv
  BY InitTypeInv, InitSingle
<1>2. TypeInv /\ SingleInv /\ [Next]_vars => TypeInv' /\ SingleInv'
  BY NextTypeInv, SingleInductive
<1>3. QED
  BY <1>1, <1>2, PTL DEF Spec

\* One process whose try block does not fail never gives a prompt two live
\* jobs, whatever polls, enqueues and reads before the try block fail, locks
\* are lost and crashes happen.
THEOREM OneJob == ASSUME OneProcess, OutsideFaults PROVE Spec => []OneJobPerPrompt
<1>1. SingleInv => OneJobPerPrompt
  BY DEF SingleInv
<1>2. QED
  BY <1>1, SingleInvariant, PTL

\* Nor does it announce a prompt twice, although a stalled job is run again.
THEOREM Announced == ASSUME OneProcess, OutsideFaults PROVE Spec => []AnnouncedOnce
<1>1. SingleInv => AnnouncedOnce
  BY DEF SingleInv, AnnouncedInv, AnnouncedOnce
<1>2. QED
  BY <1>1, SingleInvariant, PTL

LEMMA FinalStep ==
    ASSUME TypeInv, SingleInv, OneProcess, OutsideFaults, [Next]_vars,
           NEW p \in Prompts, status[p] = "COMPLETED"
    PROVE  status'[p] = "COMPLETED"
<1>1. CASE UNCHANGED vars
  BY <1>1 DEF vars, tables
<1>2. ASSUME NEW q \in Prompts, Create(q) PROVE status'[p] = "COMPLETED"
  BY <1>2 DEF Create, TypeInv, TypeOK
<1>3. ASSUME NEW i \in Instances, NEW t \in Ticks, PollStep(i, t) \/ PollFault(i, t)
      PROVE  status'[p] = "COMPLETED"
  <2>1. p \notin poll[i][t].batch
    BY DEF SingleInv, ExclusiveInv, Pending
  <2>2. QED
    BY <1>3, <2>1 DEF PollStep, PollFault, PollStart, PollFind, PollUpdate, PollEnqueue,
       PollFindFails, PollUpdateFails, PollEnqueueFails, Oldest, tables, TypeInv, TypeOK
<1>4. ASSUME NEW i \in Instances, WorkerStep(i) \/ WorkerFault(i)
      PROVE  status'[p] = "COMPLETED"
  <2>1. ~(TransactionFails(i) \/ InvalidateFails(i) \/ PublishFails(i) \/ RollbackFails(i))
    BY <1>4, WorkerKeeps
  <2>2. ~Rollback(i) /\ (worker[i].pc = "mark" => worker[i].prompt # p)
    BY DEF Rollback, At, SingleInv, ActiveInv
  <2>3. QED
    BY <1>4, <2>1, <2>2 DEF WorkerStep, WorkerFault, Fetch, FindPrompt, MarkProcessing,
       FindAudio, CommitAudio, Complete, CommitConflicts, InvalidateCaches, Publish,
       FinishCompleted, FinishFailed, BeforeTryFails, At, Mine, tables, TypeInv, TypeOK
<1>5. ASSUME NEW i \in Instances, Crash(i) PROVE status'[p] = "COMPLETED"
  BY <1>5 DEF Crash, tables
<1>6. ASSUME NEW j \in JobIds, QueueStep(j) \/ LoseLock(j) PROVE status'[p] = "COMPLETED"
  BY <1>6 DEF QueueStep, Promote, Stall, LoseLock, tables
<1>7. QED
  BY <1>1, <1>2, <1>3, <1>4, <1>5, <1>6 DEF Next

\* Nor does it take a prompt back that a user has seen COMPLETED: the retried
\* jobs and the polls find it completed or work on another one.
THEOREM FinalCompleted == ASSUME OneProcess, OutsideFaults PROVE Spec => CompletedIsFinal
<1>1. TypeInv /\ SingleInv /\ [Next]_vars
         => [\A p \in Prompts : status[p] = "COMPLETED" => status'[p] = "COMPLETED"]_vars
  BY FinalStep
<1>2. QED
  BY <1>1, SingleInvariant, PTL DEF Spec, CompletedIsFinal

-----------------------------------------------------------------------------
(***************************************************************************)
(* One process, and any failure: how often a prompt is announced           *)
(***************************************************************************)
\* One activation of a process at a time does something, and only that one holds a batch.
RunInv ==
    \A i \in Instances, t \in Ticks :
        /\ poll[i][t].pc # "idle" => isRunning[i]
        /\ poll[i][t].pc \in {"idle", "find"} => poll[i][t].batch = {}
        /\ \A u \in Ticks : poll[i][t].pc # "idle" /\ poll[i][u].pc # "idle" => t = u

\* The worker does not work on what is completed, and nobody inserts its audio row first.
AliveInv ==
    \A i \in Instances :
        /\ worker[i].pc \in {"mark", "generate", "commit"} => status[worker[i].prompt] # "COMPLETED"
        /\ worker[i].pc = "commit" /\ ~worker[i].existing => audio[worker[i].prompt] = 0

Fresh(p) == Alone(p) /\ ~Scheduled(p)
Batched(p) == \E i \in Instances, t \in Ticks : p \in poll[i][t].batch
Rolling(p) == \E i \in Instances : worker[i].pc = "rollback" /\ worker[i].prompt = p
Telling(p) == \E i \in Instances : worker[i].pc \in {"invalidate", "publish"} /\ worker[i].prompt = p

\* The announcements of p that may still come unless something fails: one for each time
\* that p will be completed, by a job of now or of the poll to come, and one that the
\* worker is about to send.
Runs(p) == IF status[p] = "PENDING"
           THEN IF Fresh(p) THEN 1 ELSE 2
           ELSE (IF status[p] = "COMPLETED" THEN 0 ELSE 1) + (IF Batched(p) THEN 1 ELSE 0)
Due(p) == IF Rolling(p) THEN 2 ELSE Runs(p) + (IF Telling(p) THEN 1 ELSE 0)

\* A failure is worth two more: it leaves a retried job and a prompt to be polled again.
BoundInv == \A p \in Prompts : published[p] + Due(p) <= 1 + 2 * faults

\* A step that announces nothing adds nothing to what is due, a failure at most two.
Settles(p) == \/ published'[p] = published[p] /\ Due(p)' <= Due(p)
              \/ published'[p] = published[p] + 1 /\ Due(p)' + 1 <= Due(p)
Extends(p) == \/ published'[p] = published[p] /\ Due(p)' <= Due(p) + 2
              \/ published'[p] = published[p] + 1 /\ Due(p)' + 1 <= Due(p) + 2
Counted(p) == \/ UNCHANGED faults /\ Settles(p)
              \/ faults' = faults + 1 /\ Extends(p)

LEMMA DueRange ==
    ASSUME NEW p
    PROVE  /\ Runs(p) \in 0 .. 2 /\ Due(p) \in 0 .. 3
           /\ Runs(p)' \in 0 .. 2 /\ Due(p)' \in 0 .. 3
           /\ ~Telling(p) => Due(p) <= 2
           /\ (~Telling(p))' => Due(p)' <= 2
           /\ Rolling(p)' => Due(p)' = 2
BY DEF Runs, Due

\* A prompt that nobody has stays so while jobs only leave and the scheduler enqueues nothing.
LEMMA FreshKept ==
    ASSUME TypeInv, NEW p \in Prompts, Fresh(p),
           \A j \in JobIds : jobs'[j].prompt \in {jobs[j].prompt, None},
           \A i \in Instances : \/ worker'[i].prompt \in {worker[i].prompt, None}
                                \/ \E j \in JobIds : worker'[i].prompt = jobs[j].prompt,
           Scheduled(p)' => Scheduled(p)
    PROVE  Fresh(p)'
BY SetsAssumption DEF Fresh, Alone

\* The parts that Due is made of, when no worker moves.
LEMMA DueOfPoll ==
    ASSUME UNCHANGED <<worker, published>>, NEW p, Runs(p)' <= Runs(p)
    PROVE  Settles(p)
<1>1. Rolling(p)' = Rolling(p) /\ Telling(p)' = Telling(p)
  BY DEF Rolling, Telling
<1>2. Due(p)' <= Due(p)
  BY <1>1, DueRange DEF Due
<1>3. QED
  BY <1>2 DEF Settles

LEMMA DueOfPollFault ==
    ASSUME UNCHANGED <<worker, published>>, NEW p
    PROVE  Extends(p)
<1>1. Rolling(p)' = Rolling(p) /\ Telling(p)' = Telling(p)
  BY DEF Rolling, Telling
<1>2. Due(p)' <= Due(p) + 2
  BY <1>1, DueRange DEF Due
<1>3. QED
  BY <1>2 DEF Extends

LEMMA CreateCounted ==
    ASSUME TypeInv, Known, NEW q \in Prompts, Create(q), NEW p \in Prompts
    PROVE  UNCHANGED faults /\ Settles(p)
<1>1. /\ UNCHANGED <<audio, jobs, isRunning, poll, worker, published, faults>>
      /\ status[q] = "ABSENT" /\ status' = [status EXCEPT ![q] = "PENDING"]
  BY DEF Create
<1>2. Batched(p)' = Batched(p) /\ Fresh(p)' = Fresh(p)
  BY <1>1 DEF Batched, Fresh, Alone, Scheduled
<1>3. Fresh(q)
  BY <1>1, SetsAssumption DEF Known, Existing, Fresh, Alone, Scheduled, TypeInv, WellFormed
<1>4. CASE p = q
  <2>1. status[p] = "ABSENT" /\ status'[p] = "PENDING" /\ Fresh(p)'
    BY <1>1, <1>2, <1>3, <1>4 DEF TypeInv, TypeOK
  <2>2. Runs(p)' = 1 /\ Runs(p) >= 1
    BY <2>1 DEF Runs
  <2>3. QED
    BY <1>1, <2>2, DueOfPoll
<1>5. CASE p # q
  <2>1. status'[p] = status[p]
    BY <1>1, <1>5 DEF TypeInv, TypeOK
  <2>2. QED
    BY <1>1, <1>2, <2>1, DueOfPoll, DueRange DEF Runs
<1>6. QED
  BY <1>1, <1>4, <1>5

\* A step of one activation: the flag is up while it is busy, the others are idle.
LEMMA PollTurn ==
    ASSUME TypeInv, RunInv, NEW i \in Instances, NEW t \in Ticks, PollStep(i, t) \/ PollFault(i, t)
    PROVE  /\ poll[i][t].pc # "idle" \/ ~isRunning[i]
           /\ poll'[i][t].pc # "idle" => isRunning'[i]
           /\ poll'[i][t].pc \in {"idle", "find"} => poll'[i][t].batch = {}
           /\ \A k \in Instances, u \in Ticks : ~(k = i /\ u = t) => poll'[k][u] = poll[k][u]
           /\ \A k \in Instances \ {i} : isRunning'[k] = isRunning[k]
<1> DEFINE mine == poll[i][t]
           next == poll'[i][t]
<1>1. mine.pc # "idle" => isRunning[i]
  BY DEF RunInv
<1>2. \A k \in Instances, u \in Ticks : ~(k = i /\ u = t) => poll'[k][u] = poll[k][u]
  BY DEF PollStep, PollFault, PollStart, PollFind, PollUpdate, PollEnqueue, PollFindFails,
         PollUpdateFails, PollEnqueueFails, PollEnd, TypeInv, TypeOK
<1>3. \A k \in Instances \ {i} : isRunning'[k] = isRunning[k]
  BY DEF PollStep, PollFault, PollStart, PollFind, PollUpdate, PollEnqueue, PollFindFails,
         PollUpdateFails, PollEnqueueFails, PollEnd, TypeInv, TypeOK
<1>4. ASSUME NEW r, poll' = [poll EXCEPT ![i][t] = r] PROVE next = r
  BY <1>4 DEF TypeInv, TypeOK
<1>5. mine \in Loop
  BY DEF TypeInv, TypeOK
<1> DEFINE Ready == /\ mine.pc # "idle" \/ ~isRunning[i]
                    /\ next.pc # "idle" => isRunning'[i]
                    /\ next.pc \in {"idle", "find"} => next.batch = {}
<1> HIDE DEF next
<1>6. ASSUME PollEnd(i, t), mine.pc # "idle" PROVE Ready
  <2>1. next = Asleep
    BY <1>4, <1>6 DEF PollEnd
  <2>2. QED
    BY <1>6, <2>1 DEF Asleep
<1>7. ASSUME NEW r, poll' = [poll EXCEPT ![i][t] = r], UNCHANGED isRunning, mine.pc # "idle",
             r.pc \in {"update", "enqueue"}
      PROVE  Ready
  BY <1>1, <1>4, <1>7
<1>8. CASE PollStart(i, t)
  <2>1. next = [Asleep EXCEPT !.pc = "find"] /\ isRunning'[i] /\ ~isRunning[i]
    BY <1>4, <1>8 DEF PollStart, TypeInv, TypeOK
  <2>2. next.pc = "find" /\ next.batch = {}
    BY <2>1 DEF Asleep
  <2>3. QED
    BY <1>2, <1>3, <2>1, <2>2 DEF next
<1>9. CASE PollFind(i, t)
  <2>1. mine.pc # "idle"
    BY <1>9 DEF PollFind
  <2>2. \/ PollEnd(i, t)
        \/ /\ poll' = [poll EXCEPT ![i][t] = [pc |-> "update", batch |-> FindPending, prompt |-> None]]
           /\ UNCHANGED isRunning
    BY <1>9 DEF PollFind
  <2> HIDE DEF mine, Ready
  <2>3. Ready
    BY <1>6, <1>7, <2>1, <2>2
  <2>4. QED
    BY <1>2, <1>3, <2>3 DEF next, mine, Ready
<1>10. CASE PollEnqueue(i, t)
  <2>1. mine.pc # "idle"
    BY <1>10 DEF PollEnqueue
  <2>2. \/ PollEnd(i, t)
        \/ /\ poll' = [poll EXCEPT ![i][t] = [mine EXCEPT !.pc = "update", !.prompt = None]]
           /\ UNCHANGED isRunning
    BY <1>10 DEF PollEnqueue
  <2>3. [mine EXCEPT !.pc = "update", !.prompt = None].pc = "update"
    BY <1>5 DEF Loop
  <2>4. Ready
    BY <1>6, <1>7, <2>1, <2>2, <2>3
  <2>5. QED
    BY <1>2, <1>3, <2>4 DEF next
<1>11. CASE PollUpdate(i, t)
  <2>1. PICK p : poll' = [poll EXCEPT ![i][t] = [pc |-> "enqueue", prompt |-> p,
                                               batch |-> mine.batch \ {p}]]
    BY <1>11 DEF PollUpdate
  <2>2. UNCHANGED isRunning /\ mine.pc # "idle"
    BY <1>11 DEF PollUpdate
  <2>3. next = [pc |-> "enqueue", prompt |-> p, batch |-> mine.batch \ {p}]
    BY <1>4, <2>1
  <2>4. QED
    BY <1>1, <1>2, <1>3, <2>2, <2>3 DEF next
<1>12. CASE PollFault(i, t)
  <2>1. PollEnd(i, t) /\ mine.pc # "idle"
    BY <1>12 DEF PollFault, PollFindFails, PollUpdateFails, PollEnqueueFails
  <2>2. QED
    BY <1>2, <1>3, <1>6, <2>1 DEF next
<1>13. QED
  BY <1>8, <1>9, <1>10, <1>11, <1>12 DEF PollStep

LEMMA RunInductive == ASSUME TypeInv, RunInv, [Next]_vars PROVE RunInv'
<1>1. CASE UNCHANGED scheduler
  BY <1>1 DEF RunInv
<1>2. ASSUME NEW i \in Instances, NEW t \in Ticks, PollStep(i, t) \/ PollFault(i, t)
      PROVE  RunInv'
  <2>1. ASSUME NEW u \in Ticks, u # t PROVE poll'[i][u].pc = "idle" /\ poll'[i][u].batch = {}
    BY <1>2, <2>1, PollTurn DEF RunInv
  <2>2. QED
    BY <1>2, <2>1, PollTurn DEF RunInv
<1>3. ASSUME NEW i \in Instances, Crash(i) PROVE RunInv'
  <2>1. \A t \in Ticks : poll'[i][t].pc = "idle" /\ poll'[i][t].batch = {}
    BY <1>3 DEF Crash, Asleep, TypeInv, TypeOK
  <2>2. \A k \in Instances \ {i} : poll'[k] = poll[k] /\ isRunning'[k] = isRunning[k]
    BY <1>3 DEF Crash, TypeInv, TypeOK
  <2>3. QED
    BY <2>1, <2>2 DEF RunInv
<1>4. QED
  BY <1>1, <1>2, <1>3, WorkerFrame DEF Next, vars, Create, QueueStep, Promote, Stall, LoseLock

\* A step of the scheduler.
LEMMA PollCounted ==
    ASSUME TypeInv, Known, RunInv, OneProcess, NEW i \in Instances, NEW t \in Ticks,
           PollStep(i, t), NEW p \in Prompts
    PROVE  UNCHANGED faults /\ Settles(p)
<1> DEFINE mine == poll[i][t]
           next == poll'[i][t]
<1>1. UNCHANGED <<audio, worker, published>>
  BY PollFrame
<1>2. UNCHANGED faults
  BY DEF PollStep, PollStart, PollFind, PollUpdate, PollEnqueue
<1>3. \A k \in Instances, u \in Ticks : ~(k = i /\ u = t) =>
          poll[k][u].pc \in {"idle", "find", "update", "enqueue"} /\ poll'[k][u] = poll[k][u]
  BY PollTurn DEF TypeInv, TypeOK, Loop, PollPC
<1>4. ASSUME mine.pc # "idle" \/ ~isRunning[i]
      PROVE  \A k \in Instances, u \in Ticks : ~(k = i /\ u = t) =>
                poll[k][u].pc = "idle" /\ poll[k][u].batch = {} /\ poll'[k][u] = poll[k][u]
  BY <1>3, <1>4 DEF RunInv, OneProcess
<1>5. mine \in Loop
  BY DEF TypeInv, TypeOK
<1>6. ASSUME NEW r, poll' = [poll EXCEPT ![i][t] = r] PROVE next = r
  BY <1>6 DEF TypeInv, TypeOK
<1> HIDE DEF next
<1>7. PollEnd(i, t) => next = Asleep /\ Asleep.pc = "idle" /\ Asleep.batch = {}
  BY <1>6 DEF PollEnd, Asleep
<1>8. mine.pc # "idle" \/ ~isRunning[i]
  BY PollTurn
\* Only this activation has a batch or a prompt to enqueue.
<1>9. /\ Batched(p) <=> p \in mine.batch
      /\ Batched(p)' <=> p \in next.batch
      /\ Scheduled(p) <=> mine.pc = "enqueue" /\ mine.prompt = p
      /\ Scheduled(p)' <=> next.pc = "enqueue" /\ next.prompt = p
  BY <1>4, <1>8 DEF Batched, Scheduled, next
<1>10. UNCHANGED jobs => Alone(p)' = Alone(p)
  BY <1>1 DEF Alone
<1>11. CASE PollStart(i, t)
  <2>1. next.pc = "find" /\ next.batch = {} /\ mine.pc = "idle" /\ mine.batch = {}
    BY <1>6, <1>11 DEF PollStart, Asleep, RunInv
  <2>2. UNCHANGED <<status, jobs>>
    BY <1>11 DEF PollStart
  <2>3. Runs(p)' = Runs(p)
    BY <1>9, <1>10, <2>1, <2>2 DEF Runs, Fresh
  <2>4. QED
    BY <1>1, <1>2, <2>3, DueOfPoll, DueRange
<1>12. CASE PollFind(i, t)
  <2>1. mine.pc = "find" /\ mine.batch = {} /\ UNCHANGED <<status, jobs>>
    BY <1>12 DEF PollFind, RunInv
  <2>2. \/ next = Asleep
        \/ next = [pc |-> "update", batch |-> FindPending, prompt |-> None]
    BY <1>6, <1>7, <1>12 DEF PollFind
  <2>3. next.pc # "enqueue" /\ next.batch \subseteq Pending
    <3>1. FindPending \subseteq Pending
      BY DEF FindPending
    <3>2. QED
      BY <2>2, <3>1 DEF Asleep
  <2>4. Runs(p)' = Runs(p)
    BY <1>9, <1>10, <2>1, <2>3 DEF Runs, Fresh, Pending
  <2>5. QED
    BY <1>1, <1>2, <2>4, DueOfPoll, DueRange
<1>13. CASE PollUpdate(i, t)
  <2>1. PICK q \in mine.batch :
          /\ status' = [status EXCEPT ![q] = "PROCESSING"]
          /\ poll' = [poll EXCEPT ![i][t] = [pc |-> "enqueue", prompt |-> q,
                                           batch |-> mine.batch \ {q}]]
    BY <1>13 DEF PollUpdate, Oldest
  <2>2. mine.pc = "update" /\ UNCHANGED jobs
    BY <1>13 DEF PollUpdate
  <2>3. next = [pc |-> "enqueue", prompt |-> q, batch |-> mine.batch \ {q}] /\ q \in Prompts
    BY <1>5, <1>6, <2>1 DEF Loop
  <2>4. CASE p = q
    <3>1. status'[p] = "PROCESSING" /\ ~Batched(p)' /\ Batched(p)
      BY <1>9, <2>1, <2>3, <2>4 DEF TypeInv, TypeOK
    <3>2. Runs(p)' = 1 /\ Runs(p) >= 1
      BY <3>1 DEF Runs
    <3>3. QED
      BY <1>1, <1>2, <3>2, DueOfPoll
  <2>5. CASE p # q
    <3>1. status'[p] = status[p]
      BY <2>1, <2>3, <2>5 DEF TypeInv, TypeOK
    <3>2. (Batched(p)' <=> Batched(p)) /\ (Scheduled(p)' <=> Scheduled(p))
      BY <1>9, <2>2, <2>3, <2>5
    <3>3. Runs(p)' = Runs(p)
      BY <1>10, <2>2, <3>1, <3>2 DEF Runs, Fresh
    <3>4. QED
      BY <1>1, <1>2, <3>3, DueOfPoll, DueRange
  <2>6. QED
    BY <2>4, <2>5
<1>14. CASE PollEnqueue(i, t)
  <2>1. mine.pc = "enqueue" /\ UNCHANGED status /\ Enqueue(i, t)
    BY <1>14 DEF PollEnqueue
  <2>2. next.pc # "enqueue" /\ next.batch \subseteq mine.batch
    BY <1>5, <1>6, <1>7, <1>14 DEF PollEnqueue, Loop
  <2>3. PICK j \in JobIds : /\ jobs'[j].prompt = mine.prompt
                            /\ \A k \in JobIds \ {j} : jobs'[k] = jobs[k]
    BY <2>1, AddJobEffect DEF Enqueue
  <2>4. Fresh(p) => Fresh(p)'
    BY <1>1, <1>9, <2>1, <2>2, <2>3 DEF Fresh, Alone
  <2>5. Batched(p)' => Batched(p)
    BY <1>9, <2>2
  <2>6. Runs(p)' <= Runs(p)
    BY <2>1, <2>4, <2>5 DEF Runs
  <2>7. QED
    BY <1>1, <1>2, <2>6, DueOfPoll
<1>15. QED
  BY <1>11, <1>12, <1>13, <1>14 DEF PollStep

LEMMA PollFaultCounted ==
    ASSUME TypeInv, NEW i \in Instances, NEW t \in Ticks, PollFault(i, t), NEW p \in Prompts
    PROVE  faults' = faults + 1 /\ Extends(p)
<1>1. UNCHANGED <<worker, published>>
  BY PollFrame
<1>2. faults' = faults + 1
  BY DEF PollFault, PollFindFails, PollUpdateFails, PollEnqueueFails, Fault
<1>3. QED
  BY <1>1, <1>2, DueOfPollFault

LEMMA QueueCounted ==
    ASSUME TypeInv, NEW j \in JobIds, QueueStep(j) \/ LoseLock(j), NEW p \in Prompts
    PROVE  Counted(p)
<1>1. /\ UNCHANGED <<status, isRunning, poll, worker, published>>
      /\ faults' = faults \/ faults' = faults + 1
  BY DEF QueueStep, Promote, Stall, LoseLock, Fault
<1>2. \A k \in JobIds : jobs'[k].prompt \in {jobs[k].prompt, None}
  BY QueueJobs
<1>3. Batched(p)' = Batched(p) /\ Scheduled(p)' = Scheduled(p)
  BY <1>1 DEF Batched, Scheduled
<1>4. Fresh(p) => Fresh(p)'
  BY <1>1, <1>2, <1>3, FreshKept
<1>5. Runs(p)' <= Runs(p)
  BY <1>1, <1>3, <1>4 DEF Runs
<1>6. Settles(p) /\ Extends(p)
  BY <1>1, <1>5, DueOfPoll, DueOfPollFault
<1>7. QED
  BY <1>1, <1>6 DEF Counted

LEMMA CrashCounted ==
    ASSUME TypeInv, OneProcess, NEW i \in Instances, Crash(i), NEW p \in Prompts
    PROVE  faults' = faults + 1 /\ Extends(p)
<1>1. UNCHANGED published /\ faults' = faults + 1
  BY DEF Crash, Fault
<1>2. \A k \in Instances : worker'[k].pc = "idle"
  BY DEF Crash, Free, OneProcess, TypeInv, TypeOK
<1>3. (~Telling(p))'
  BY <1>2 DEF Telling
<1>4. QED
  BY <1>1, <1>3, DueRange DEF Extends

\* A step of a busy worker other than the end of its job: the prompt is not fresh, and
\* only the status of that prompt and where the worker is can change.
LEMMA WorkerDue ==
    ASSUME TypeInv, OneProcess, NEW i \in Instances, WorkerStep(i) \/ WorkerFault(i), NEW p \in Prompts
    PROVE  /\ Fresh(p) => Fresh(p)'
           /\ Batched(p)' = Batched(p)
           /\ worker[i].prompt = p => ~Fresh(p)
           /\ Rolling(p) <=> worker[i].pc = "rollback" /\ worker[i].prompt = p
           /\ Telling(p) <=> worker[i].pc \in {"invalidate", "publish"} /\ worker[i].prompt = p
           /\ Rolling(p)' <=> worker'[i].pc = "rollback" /\ worker'[i].prompt = p
           /\ Telling(p)' <=> worker'[i].pc \in {"invalidate", "publish"} /\ worker'[i].prompt = p
<1>1. \A k \in Instances : k = i
  BY DEF OneProcess
<1>2. UNCHANGED scheduler
  BY WorkerFrame
<1>3. Batched(p)' = Batched(p) /\ Scheduled(p)' = Scheduled(p)
  BY <1>2 DEF Batched, Scheduled
<1>4. \/ worker'[i].prompt \in {worker[i].prompt, None}
      \/ \E j \in JobIds : worker'[i].prompt = jobs[j].prompt
  <2>1. CASE worker' = [worker EXCEPT ![i] = Free]
    BY <2>1 DEF Free, TypeInv, TypeOK
  <2>2. CASE \E j \in JobIds : Fetch(i, j)
    BY <2>2, FetchEffect
  <2>3. QED
    BY <2>1, <2>2, WorkerFrame
<1>5. Fresh(p) => Fresh(p)'
  BY <1>1, <1>3, <1>4, WorkerJobs, FreshKept
<1>6. QED
  BY <1>1, <1>3, <1>5 DEF Rolling, Telling, Fresh, Alone

\* The other prompts: nothing more is due of them.
LEMMA OthersCounted ==
    ASSUME SafeInv, OneProcess, NEW i \in Instances, WorkerStep(i) \/ WorkerFault(i),
           NEW p \in Prompts, worker[i].prompt # p
    PROVE  Settles(p) /\ Extends(p)
<1>1. TypeInv /\ Known /\ AudioInv
  BY DEF SafeInv
<1>2. status'[p] = status[p] /\ published'[p] = published[p]
  BY <1>1, WorkerEffects DEF WorkerEffect, Reopens, Completes, Announces, Mine, TypeInv, TypeOK
<1>3. worker'[i].prompt = p => worker'[i].pc \in {"idle", "find"}
  BY <1>1, WorkerFrame, FetchEffect DEF Free, TypeInv, TypeOK
<1>4. ~Rolling(p) /\ ~Telling(p) /\ ~Rolling(p)' /\ ~Telling(p)'
  BY <1>1, <1>3, WorkerDue
<1>5. Runs(p)' <= Runs(p)
  BY <1>1, <1>2, WorkerDue DEF Runs
<1>6. Due(p)' = Runs(p)' /\ Due(p) = Runs(p)
  BY <1>4, DueRange DEF Due
<1>7. QED
  BY <1>2, <1>5, <1>6, DueRange DEF Settles, Extends

\* Its own prompt.
LEMMA OwnCounted ==
    ASSUME SafeInv, AliveInv, OneProcess, NEW i \in Instances, NEW p \in Prompts,
           worker[i].prompt = p, WorkerStep(i) \/ WorkerFault(i)
    PROVE  Counted(p)
<1>1. TypeInv /\ Known /\ AudioInv /\ status[p] # "ABSENT"
  BY SetsAssumption DEF SafeInv, Known, Existing
<1>2. published[p] \in Nat /\ faults \in Nat /\ worker[i] \in Processing
  BY <1>1 DEF TypeInv, TypeOK
<1>3. /\ ~Fresh(p) /\ (Fresh(p) => Fresh(p)')
      /\ Batched(p)' = Batched(p)
      /\ Rolling(p) <=> worker[i].pc = "rollback"
      /\ Telling(p) <=> worker[i].pc \in {"invalidate", "publish"}
      /\ Rolling(p)' <=> worker'[i].pc = "rollback" /\ worker'[i].prompt = p
      /\ Telling(p)' <=> worker'[i].pc \in {"invalidate", "publish"} /\ worker'[i].prompt = p
  BY <1>1, WorkerDue
<1>4. ASSUME NEW pc, Goto(i, pc) PROVE worker'[i].pc = pc /\ worker'[i].prompt = p
  BY <1>1, <1>4, GotoEffect
<1>5. ASSUME NEW s, status' = [status EXCEPT ![Mine(i)] = s] PROVE status'[p] = s
  BY <1>1, <1>5 DEF Mine, TypeInv, TypeOK
<1>6. Announce(i) => published'[p] = published[p] + 1
  BY <1>1 DEF Announce, Mine, TypeInv, TypeOK
\* While the worker neither tells nor rolls back, only the runs are due.
<1>7. /\ ~Rolling(p) /\ ~Telling(p) => Due(p) = Runs(p)
      /\ (~Rolling(p) /\ ~Telling(p))' => Due(p)' = Runs(p)'
      /\ Rolling(p) => Due(p) = 2
      /\ Rolling(p)' => Due(p)' = 2
      /\ ~Rolling(p) /\ Telling(p) => Due(p) = Runs(p) + 1
      /\ (~Rolling(p) /\ Telling(p))' => Due(p)' = Runs(p)' + 1
  BY DueRange DEF Due
<1>8. UNCHANGED status => Runs(p)' <= Runs(p)
  BY <1>3 DEF Runs
<1>9. CASE (\E j \in JobIds : Fetch(i, j)) \/ FinishCompleted(i) \/ FinishFailed(i)
  <2>1. /\ worker[i].pc \in {"idle", "completed", "failed"} /\ worker'[i].pc \in {"idle", "find"}
        /\ UNCHANGED <<status, published, faults>>
    <3>1. UNCHANGED <<status, published, faults>>
      BY <1>9 DEF Fetch, FinishCompleted, FinishFailed
    <3>2. CASE \E j \in JobIds : Fetch(i, j)
      BY <1>1, <3>1, <3>2, FetchEffect
    <3>3. CASE FinishCompleted(i) \/ FinishFailed(i)
      <4>1. worker[i].pc \in {"completed", "failed"} /\ worker'[i] = Free
        BY <1>1, <3>3 DEF FinishCompleted, FinishFailed, At, TypeInv, TypeOK
      <4>2. QED
        BY <3>1, <4>1 DEF Free
    <3>4. QED
      BY <1>9, <3>2, <3>3
  <2>2. Due(p)' <= Due(p)
    BY <1>3, <1>7, <1>8, <2>1
  <2>3. QED
    BY <2>1, <2>2 DEF Counted, Settles
<1>10. CASE FindPrompt(i) \/ FindAudio(i)
  <2>1. worker[i].pc \in {"find", "generate"} /\ UNCHANGED <<status, published, faults>>
    BY <1>10 DEF FindPrompt, FindAudio, At
  <2>2. worker'[i].pc \in {"completed", "mark", "commit"}
    <3>1. CASE FindPrompt(i)
      BY <1>4, <3>1 DEF FindPrompt
    <3>2. CASE FindAudio(i)
      BY <1>1, <1>2, <3>2 DEF FindAudio, Processing, TypeInv, TypeOK
    <3>3. QED
      BY <1>10, <3>1, <3>2
  <2>3. Due(p)' <= Due(p)
    BY <1>3, <1>7, <1>8, <2>1, <2>2
  <2>4. QED
    BY <2>1, <2>3 DEF Counted, Settles
<1>11. CASE MarkProcessing(i)
  <2>1. /\ worker[i].pc = "mark" /\ worker'[i].pc = "generate" /\ status'[p] = "PROCESSING"
        /\ UNCHANGED <<published, faults>>
    BY <1>4, <1>5, <1>11 DEF MarkProcessing, At
  <2>2. status[p] # "COMPLETED"
    BY <2>1 DEF AliveInv
  <2>3. Runs(p)' <= Runs(p)
    BY <1>3, <2>1, <2>2 DEF Runs
  <2>4. Due(p)' <= Due(p)
    BY <1>3, <1>7, <2>1, <2>3
  <2>5. QED
    BY <2>1, <2>4 DEF Counted, Settles
<1>12. CASE CommitAudio(i)
  <2>1. /\ worker[i].pc = "commit" /\ worker'[i].pc = "invalidate" /\ worker'[i].prompt = p
        /\ status'[p] = "COMPLETED" /\ UNCHANGED <<published, faults>>
    BY <1>4, <1>5, <1>12 DEF CommitAudio, Complete, At
  <2>2. status[p] # "COMPLETED"
    BY <2>1 DEF AliveInv
  <2>3. Runs(p)' + 1 <= Runs(p)
    BY <1>3, <2>1, <2>2 DEF Runs
  <2>4. Due(p)' <= Due(p)
    BY <1>3, <1>7, <2>1, <2>3, DueRange
  <2>5. QED
    BY <2>1, <2>4 DEF Counted, Settles
<1>13. ~CommitConflicts(i)
  BY DEF CommitConflicts, At, Mine, AliveInv
<1>14. CASE InvalidateCaches(i)
  <2>1. /\ worker[i].pc = "invalidate" /\ worker'[i].pc = "publish" /\ worker'[i].prompt = p
        /\ UNCHANGED <<status, published, faults>>
    BY <1>4, <1>14 DEF InvalidateCaches, At
  <2>2. Due(p)' <= Due(p)
    BY <1>3, <1>7, <1>8, <2>1, DueRange
  <2>3. QED
    BY <2>1, <2>2 DEF Counted, Settles
<1>15. CASE Publish(i)
  <2>1. /\ worker[i].pc = "publish" /\ worker'[i].pc = "completed"
        /\ published'[p] = published[p] + 1 /\ UNCHANGED <<status, faults>>
    BY <1>4, <1>6, <1>15 DEF Publish, At
  <2>2. Due(p)' + 1 <= Due(p)
    BY <1>3, <1>7, <1>8, <2>1, DueRange
  <2>3. QED
    BY <2>1, <2>2 DEF Counted, Settles
<1>16. CASE Rollback(i)
  <2>1. /\ worker[i].pc = "rollback" /\ worker'[i].pc = "failed"
        /\ UNCHANGED <<published, faults>>
    BY <1>4, <1>16 DEF Rollback, At
  <2>2. Due(p)' <= Due(p)
    BY <1>3, <1>7, <2>1, DueRange
  <2>3. QED
    BY <2>1, <2>2 DEF Counted, Settles
<1>17. CASE PublishFails(i)
  <2>1. /\ worker[i].pc = "publish" /\ worker'[i].pc = "rollback" /\ worker'[i].prompt = p
        /\ published'[p] \in {published[p], published[p] + 1} /\ faults' = faults + 1
    BY <1>4, <1>6, <1>17 DEF PublishFails, At, Fault
  <2>2. Due(p)' = 2 /\ Due(p) >= 1
    BY <1>3, <1>7, <2>1, DueRange
  <2>3. QED
    BY <2>1, <2>2, DueRange DEF Counted, Extends
<1>18. CASE BeforeTryFails(i) \/ TransactionFails(i) \/ InvalidateFails(i) \/ RollbackFails(i)
  <2>1. /\ worker'[i].pc \in {"failed", "rollback"}
        /\ published'[p] = published[p] /\ faults' = faults + 1
    BY <1>4, <1>18 DEF BeforeTryFails, TransactionFails, InvalidateFails, RollbackFails, Fault
  <2>2. Due(p)' <= 2
    BY <1>3, <2>1, DueRange
  <2>3. QED
    BY <2>1, <2>2, DueRange DEF Counted, Extends
<1>19. QED
  BY <1>9, <1>10, <1>11, <1>12, <1>13, <1>14, <1>15, <1>16, <1>17, <1>18 DEF WorkerStep, WorkerFault

LEMMA BoundInductive ==
    ASSUME SafeInv, RunInv, AliveInv, BoundInv, OneProcess, [Next]_vars PROVE BoundInv'
<1> SUFFICES ASSUME NEW p \in Prompts PROVE (published[p] + Due(p) <= 1 + 2 * faults)'
  BY DEF BoundInv
<1>1. /\ TypeInv /\ Known /\ AudioInv
      /\ published[p] \in Nat /\ faults \in Nat /\ published[p] + Due(p) <= 1 + 2 * faults
  BY DEF SafeInv, BoundInv, TypeInv, TypeOK
<1>2. CASE UNCHANGED vars
  <2>1. Due(p)' = Due(p)
    BY <1>2 DEF vars, Due, Runs, Rolling, Telling, Fresh, Alone, Scheduled, Batched
  <2>2. QED
    BY <1>1, <1>2, <2>1 DEF vars
<1>3. ASSUME NEW i \in Instances, WorkerStep(i) \/ WorkerFault(i) PROVE Counted(p)
  <2>1. CASE worker[i].prompt = p
    BY <1>3, <2>1, OwnCounted
  <2>2. CASE worker[i].prompt # p
    <3>1. Settles(p) /\ Extends(p)
      BY <1>3, <2>2, OthersCounted
    <3>2. faults' = faults \/ faults' = faults + 1
      BY FaultsGrow
    <3>3. QED
      BY <3>1, <3>2 DEF Counted
  <2>3. QED
    BY <2>1, <2>2
<1>4. CASE Next
  <2>1. Counted(p)
    BY <1>1, <1>3, <1>4, CreateCounted, PollCounted, PollFaultCounted, QueueCounted, CrashCounted
       DEF Next, Counted
  <2>2. QED
    BY <1>1, <2>1, DueRange DEF Counted, Settles, Extends
<1>5. QED
  BY <1>2, <1>4

LEMMA AliveInductive ==
    ASSUME SafeInv, AliveInv, OneProcess, [Next]_vars PROVE AliveInv'
<1>1. /\ TypeInv /\ Known
      /\ \A i \in Instances : worker[i].pc # "idle" => worker[i].prompt \in Prompts
                                                       /\ status[worker[i].prompt] # "ABSENT"
  BY SetsAssumption DEF SafeInv, TypeInv, WellFormed, Known, Existing
\* A step that leaves the workers and the audio alone completes nothing.
<1>2. ASSUME UNCHANGED <<worker, audio>>,
             \A p \in Prompts : status'[p] = "COMPLETED" => status[p] = "COMPLETED"
      PROVE  AliveInv'
  BY <1>1, <1>2 DEF AliveInv
<1>3. CASE UNCHANGED vars
  BY <1>2, <1>3 DEF vars
<1>4. ASSUME NEW p \in Prompts, Create(p) PROVE AliveInv'
  BY <1>1, <1>2, <1>4 DEF Create, TypeInv, TypeOK
<1>5. ASSUME NEW i \in Instances, NEW t \in Ticks, PollStep(i, t) \/ PollFault(i, t)
      PROVE  AliveInv'
  <2>1. UNCHANGED <<worker, audio>>
    BY <1>1, <1>5, PollFrame
  <2>2. \/ UNCHANGED status
        \/ \E p \in Prompts : status' = [status EXCEPT ![p] = "PROCESSING"]
    <3>1. poll[i][t].batch \subseteq Prompts
      BY <1>1 DEF TypeInv, TypeOK, Loop
    <3>2. QED
      BY <1>5, <3>1 DEF PollStep, PollFault, PollStart, PollFind, PollUpdate, PollEnqueue,
         PollFindFails, PollUpdateFails, PollEnqueueFails, Oldest
  <2>3. QED
    BY <1>1, <1>2, <2>1, <2>2 DEF TypeInv, TypeOK
<1>6. ASSUME NEW j \in JobIds, QueueStep(j) \/ LoseLock(j) PROVE AliveInv'
  BY <1>2, <1>6 DEF QueueStep, Promote, Stall, LoseLock
<1>7. ASSUME NEW i \in Instances, Crash(i) PROVE AliveInv'
  BY <1>1, <1>7 DEF Crash, Free, OneProcess, AliveInv, TypeInv, TypeOK
<1>8. ASSUME NEW i \in Instances, WorkerStep(i) \/ WorkerFault(i) PROVE AliveInv'
  <2> DEFINE p == worker[i].prompt
             Lives == /\ worker'[i].pc \in {"mark", "generate", "commit"}
                           => status'[worker'[i].prompt] # "COMPLETED"
                      /\ worker'[i].pc = "commit" /\ ~worker'[i].existing
                           => audio'[worker'[i].prompt] = 0
  <2>1. Lives => AliveInv'
    BY DEF OneProcess, AliveInv
  <2> HIDE DEF Lives
  <2>2. ASSUME worker'[i].pc \notin {"mark", "generate", "commit"} PROVE AliveInv'
    BY <2>1, <2>2 DEF Lives
  <2>3. ASSUME NEW pc, Goto(i, pc) PROVE worker'[i].pc = pc /\ worker'[i].prompt = p
    BY <1>1, <2>3, GotoEffect
  <2>4. CASE (\E j \in JobIds : Fetch(i, j)) \/ FinishCompleted(i) \/ FinishFailed(i)
    <3>1. CASE \E j \in JobIds : Fetch(i, j)
      BY <1>1, <2>2, <3>1, FetchEffect
    <3>2. CASE FinishCompleted(i) \/ FinishFailed(i)
      BY <1>1, <2>2, <3>2 DEF FinishCompleted, FinishFailed, Free, TypeInv, TypeOK
    <3>3. QED
      BY <2>4, <3>1, <3>2
  <2>5. CASE FindPrompt(i)
    <3>1. UNCHANGED <<status, audio>>
      BY <2>5 DEF FindPrompt
    <3>2. CASE Goto(i, "completed")
      BY <2>2, <2>3, <3>2
    <3>3. CASE status[p] # "COMPLETED" /\ Goto(i, "mark")
      <4>1. worker'[i].pc = "mark" /\ worker'[i].prompt = p
        BY <2>3, <3>3
      <4>2. QED
        BY <2>1, <3>1, <3>3, <4>1 DEF Lives
    <3>4. QED
      BY <2>5, <3>2, <3>3 DEF FindPrompt, Mine
  <2>6. CASE MarkProcessing(i)
    <3>1. worker'[i].pc = "generate" /\ worker'[i].prompt = p /\ status'[p] = "PROCESSING"
      BY <1>1, <2>3, <2>6 DEF MarkProcessing, At, Mine, TypeInv, TypeOK
    <3>2. QED
      BY <2>1, <3>1 DEF Lives
  <2>7. CASE FindAudio(i)
    <3>1. /\ worker[i].pc = "generate" /\ UNCHANGED <<status, audio>>
          /\ worker'[i].prompt = p /\ worker'[i].existing = (audio[p] # 0)
      BY <1>1, <2>7 DEF FindAudio, At, Mine, Processing, TypeInv, TypeOK
    <3>2. status[p] # "COMPLETED"
      BY <3>1 DEF AliveInv
    <3>3. QED
      BY <2>1, <3>1, <3>2 DEF Lives
  <2>8. CASE \E pc \in WorkerPC \ {"mark", "generate", "commit"} : Goto(i, pc)
    BY <2>2, <2>3, <2>8
  <2>9. QED
    BY <1>8, <2>4, <2>5, <2>6, <2>7, <2>8 DEF WorkerStep, WorkerFault, CommitAudio,
       CommitConflicts, InvalidateCaches, Publish, Rollback, BeforeTryFails, TransactionFails,
       InvalidateFails, PublishFails, RollbackFails, WorkerPC
<1>9. QED
  BY <1>3, <1>4, <1>5, <1>6, <1>7, <1>8 DEF Next

LEMMA FewInitially == Init => RunInv /\ AliveInv /\ BoundInv
<1> SUFFICES ASSUME Init PROVE RunInv /\ AliveInv /\ BoundInv
  OBVIOUS
<1>1. RunInv
  BY DEF Init, RunInv, Asleep
<1>2. AliveInv
  BY DEF Init, AliveInv, Free
<1>3. ASSUME NEW p \in Prompts PROVE published[p] + Due(p) <= 1 + 2 * faults
  <2>1. ~Rolling(p) /\ ~Telling(p) /\ ~Batched(p)
    BY DEF Init, Rolling, Telling, Batched, Free, Asleep
  <2>2. status[p] = "ABSENT" /\ published[p] = 0 /\ faults = 0
    BY DEF Init
  <2>3. Due(p) = 1
    BY <2>1, <2>2 DEF Due, Runs
  <2>4. QED
    BY <2>2, <2>3
<1>4. QED
  BY <1>1, <1>2, <1>3 DEF BoundInv

FewAnnouncements == \A p \in Prompts : published[p] <= 1 + 2 * faults

\* However often polls, enqueues, calls of the worker and the process itself fail and locks
\* are lost, one process announces a prompt at most twice more per failure.
THEOREM AnnouncedBound == ASSUME OneProcess PROVE Spec => []FewAnnouncements
<1>1. Init => RunInv /\ AliveInv /\ BoundInv
  BY FewInitially
<1>2. SafeInv /\ RunInv /\ AliveInv /\ BoundInv /\ [Next]_vars => (RunInv /\ AliveInv /\ BoundInv)'
  BY RunInductive, AliveInductive, BoundInductive DEF SafeInv
<1>3. SafeInv /\ BoundInv => FewAnnouncements
  <2> SUFFICES ASSUME SafeInv, BoundInv, NEW p \in Prompts PROVE published[p] <= 1 + 2 * faults
    BY DEF FewAnnouncements
  <2>1. published[p] \in Nat /\ faults \in Nat /\ published[p] + Due(p) <= 1 + 2 * faults
    BY DEF SafeInv, BoundInv, TypeInv, TypeOK
  <2>2. QED
    BY <2>1, DueRange
<1>4. QED
  BY <1>1, <1>2, <1>3, SafeInvariant, PTL DEF Spec

-----------------------------------------------------------------------------
(***************************************************************************)
(* The order of the prompts and of the jobs                                *)
(***************************************************************************)
\* Ranks are distinct, and what is left of a batch is older than the PENDING
\* prompts outside of it.
OldInv ==
    /\ \A p \in Existing : createdAt[p] <= Cardinality(Existing)
    /\ \A p, q \in Existing : createdAt[p] = createdAt[q] => p = q
    /\ \A i \in Instances, t \in Ticks :
          \A p \in poll[i][t].batch, q \in Pending \ poll[i][t].batch :
              createdAt[p] < createdAt[q]

LEMMA FindPendingOldest ==
    ASSUME TypeInv, NEW p \in FindPending, NEW q \in Pending \ FindPending
    PROVE  createdAt[p] < createdAt[q]
<1> DEFINE Before(r) == {s \in Pending : createdAt[s] < createdAt[r]}
<1>1. p \in Pending /\ q \in Pending /\ Pending \subseteq Prompts
  BY DEF FindPending, Pending
<1>2. createdAt[p] \in Nat /\ \A s \in Pending : createdAt[s] \in Nat
  BY <1>1 DEF TypeInv, TypeOK
<1>3. \A r \in Pending : IsFiniteSet(Before(r))
  BY <1>1, SetsAssumption, FS_Subset
<1>4. \A r \in Pending : Cardinality(Before(r)) \in Nat
  BY <1>3, FS_CardinalityType
<1>5. Cardinality(Before(p)) < BatchSize /\ ~(Cardinality(Before(q)) < BatchSize)
  BY <1>1 DEF FindPending
<1>6. SUFFICES ASSUME createdAt[q] <= createdAt[p] PROVE FALSE
  BY <1>1, <1>2
<1>7. Before(q) \subseteq Before(p)
  BY <1>1, <1>2, <1>6
<1>8. Cardinality(Before(q)) <= Cardinality(Before(p))
  BY <1>1, <1>3, <1>7, FS_Subset
<1> HIDE DEF Before
<1>9. QED
  BY <1>1, <1>4, <1>5, <1>8, BoundsAssumption

\* Rows keep their rank, and a step that submits no prompt adds none.
LEMMA OldKept ==
    ASSUME TypeInv, OldInv, Existing' = Existing, createdAt' = createdAt, Pending' \subseteq Pending,
           \A i \in Instances, t \in Ticks :
               \A p \in poll'[i][t].batch, q \in Pending' \ poll'[i][t].batch :
                   createdAt[p] < createdAt[q]
    PROVE  OldInv'
BY DEF OldInv

LEMMA CreateOld == ASSUME TypeInv, SingleInv, OldInv, NEW p \in Prompts, Create(p) PROVE OldInv'
<1> DEFINE n == Cardinality(Existing)
<1>1. /\ p \notin Existing /\ p \notin Pending
      /\ Existing' = Existing \union {p} /\ Pending' = Pending \union {p}
      /\ UNCHANGED poll /\ createdAt'[p] = n + 1
      /\ \A q \in Prompts \ {p} : createdAt'[q] = createdAt[q]
  BY DEF Create, scheduler, Existing, Pending, TypeInv, TypeOK
<1>2. IsFiniteSet(Existing) /\ n \in Nat
  BY SetsAssumption, FS_Subset, FS_CardinalityType DEF Existing
<1>3. Cardinality(Existing') = n + 1
  BY <1>1, <1>2, FS_AddElement
<1>4. \A q \in Existing : q \in Prompts \ {p} /\ createdAt[q] \in Nat /\ createdAt[q] <= n
  BY <1>1 DEF OldInv, Existing, TypeInv, TypeOK
<1> HIDE DEF n
<1>5. \A q \in Existing' : createdAt'[q] <= Cardinality(Existing')
  BY <1>1, <1>2, <1>3, <1>4
<1>6. \A q, r \in Existing' : createdAt'[q] = createdAt'[r] => q = r
  BY <1>1, <1>2, <1>4 DEF OldInv
<1>7. ASSUME NEW i \in Instances, NEW t \in Ticks, NEW q \in poll'[i][t].batch,
             NEW r \in Pending' \ poll'[i][t].batch
      PROVE  createdAt'[q] < createdAt'[r]
  <2>1. q \in poll[i][t].batch /\ q \in Pending /\ Pending \subseteq Existing
    BY <1>1, <1>7 DEF SingleInv, ExclusiveInv, Pending, Existing
  <2>2. CASE r = p
    BY <1>1, <1>2, <1>4, <2>1, <2>2
  <2>3. CASE r # p
    BY <1>1, <1>4, <1>7, <2>1, <2>3 DEF OldInv
  <2>4. QED
    BY <2>2, <2>3
<1>8. QED
  BY <1>5, <1>6, <1>7 DEF OldInv

LEMMA PollOld ==
    ASSUME TypeInv, SingleInv, OldInv, OneProcess, NEW i \in Instances, NEW t \in Ticks,
           PollStep(i, t) \/ PollFault(i, t)
    PROVE  OldInv'
<1> DEFINE mine == poll[i][t]
           next == poll'[i][t]
<1>1. mine \in Loop /\ mine.batch \subseteq Pending /\ Pending \subseteq Prompts
  BY DEF TypeInv, TypeOK, SingleInv, ExclusiveInv, Pending
<1>2. createdAt' = createdAt
  BY PollFrame
<1>3. PICK r : poll' = [poll EXCEPT ![i][t] = r]
  BY PollFrame
<1>4. \A k \in Instances, u \in Ticks : k # i \/ u # t => poll'[k][u] = poll[k][u]
  BY <1>3 DEF TypeInv, TypeOK
<1>5. ASSUME NEW s, poll' = [poll EXCEPT ![i][t] = s] PROVE next = s
  BY <1>5 DEF TypeInv, TypeOK
<1>6. Asleep.batch = {} /\ [Asleep EXCEPT !.pc = "find"].batch = {}
  BY DEF Asleep
<1>7. [mine EXCEPT !.pc = "update", !.prompt = None].batch = mine.batch
  BY <1>1 DEF Loop
<1>8. Existing' = Existing /\ Pending' \subseteq Pending
  <2>1. \/ UNCHANGED status
        \/ \E p \in mine.batch : status' = [status EXCEPT ![p] = "PROCESSING"]
    BY DEF PollStep, PollFault, PollStart, PollFind, PollUpdate, PollEnqueue, PollFindFails,
       PollUpdateFails, PollEnqueueFails, Oldest, tables
  <2>2. QED
    BY <1>1, <2>1 DEF Existing, Pending, TypeInv, TypeOK
\* The new batch: empty, the old one, what is left of it, or the oldest.
<1>9. \/ next.batch = {}
      \/ next.batch = mine.batch
      \/ \E p \in mine.batch : /\ next.batch = mine.batch \ {p}
                              /\ status' = [status EXCEPT ![p] = "PROCESSING"]
      \/ next.batch = FindPending /\ UNCHANGED status
  <2>1. CASE PollStart(i, t)
    BY <1>5, <1>6, <2>1 DEF PollStart
  <2>2. CASE PollFind(i, t)
    <3>1. next = Asleep \/ next = [pc |-> "update", batch |-> FindPending, prompt |-> None]
      BY <1>5, <2>2 DEF PollFind, PollEnd
    <3>2. QED
      BY <1>6, <2>2, <3>1 DEF PollFind, tables
  <2>3. CASE PollUpdate(i, t)
    <3>1. PICK p \in mine.batch :
            /\ status' = [status EXCEPT ![p] = "PROCESSING"]
            /\ poll' = [poll EXCEPT ![i][t] = [pc |-> "enqueue", prompt |-> p,
                                               batch |-> mine.batch \ {p}]]
      BY <2>3 DEF PollUpdate, Oldest
    <3>2. next = [pc |-> "enqueue", prompt |-> p, batch |-> mine.batch \ {p}]
      BY <1>5, <3>1
    <3>3. next.batch = mine.batch \ {p}
      BY <3>2
    <3>4. QED
      BY <3>1, <3>3
  <2>4. CASE PollEnqueue(i, t)
    <3>1. next = Asleep \/ next = [mine EXCEPT !.pc = "update", !.prompt = None]
      BY <1>5, <2>4 DEF PollEnqueue, PollEnd
    <3>2. QED
      BY <1>6, <1>7, <3>1
  <2>5. CASE PollFault(i, t)
    <3>1. next = Asleep
      BY <1>5, <2>5 DEF PollFault, PollFindFails, PollUpdateFails, PollEnqueueFails, PollEnd
    <3>2. QED
      BY <1>6, <3>1
  <2>6. QED
    BY <2>1, <2>2, <2>3, <2>4, <2>5 DEF PollStep
<1> HIDE DEF mine, next
<1>10. ASSUME NEW p \in next.batch, NEW q \in Pending' \ next.batch
       PROVE  createdAt[p] < createdAt[q]
  <2>1. CASE next.batch = mine.batch
    BY <1>8, <1>10, <2>1 DEF OldInv, mine
  <2>2. CASE \E s \in mine.batch : /\ next.batch = mine.batch \ {s}
                                  /\ status' = [status EXCEPT ![s] = "PROCESSING"]
    <3>1. PICK s \in mine.batch : /\ next.batch = mine.batch \ {s}
                                  /\ status' = [status EXCEPT ![s] = "PROCESSING"]
      BY <2>2
    <3>2. s \notin Pending'
      BY <1>1, <3>1 DEF Pending, TypeInv, TypeOK
    <3>3. QED
      BY <1>8, <1>10, <3>1, <3>2 DEF OldInv, mine
  <2>3. CASE next.batch = FindPending
    BY <1>8, <1>10, <2>3, FindPendingOldest
  <2>4. QED
    BY <1>9, <1>10, <2>1, <2>2, <2>3
<1>11. ASSUME NEW k \in Instances, NEW u \in Ticks, NEW p \in poll'[k][u].batch,
              NEW q \in Pending' \ poll'[k][u].batch
       PROVE  createdAt[p] < createdAt[q]
  <2>1. CASE k = i /\ u = t
    BY <1>10, <1>11, <2>1 DEF next
  <2>2. CASE k # i \/ u # t
    BY <1>4, <1>8, <1>11, <2>2 DEF OldInv
  <2>3. QED
    BY <2>1, <2>2
<1>12. QED
  BY <1>2, <1>8, <1>11, OldKept

LEMMA OldInductive ==
    ASSUME TypeInv, SingleInv, OldInv, OneProcess, OutsideFaults, [Next]_vars PROVE OldInv'
<1>1. CASE UNCHANGED vars
  BY <1>1 DEF vars, tables, scheduler, OldInv, Existing, Pending
<1>2. ASSUME NEW i \in Instances, WorkerStep(i) \/ WorkerFault(i) PROVE OldInv'
  <2>1. UNCHANGED <<poll, createdAt>>
    BY <1>2, WorkerFrame DEF scheduler
  <2>2. Existing' = Existing /\ Pending' = Pending
    BY <1>2, WorkerKeeps DEF Existing, Pending, TypeInv, TypeOK
  <2>3. QED
    BY <2>1, <2>2 DEF OldInv
<1>3. ASSUME NEW i \in Instances, Crash(i) PROVE OldInv'
  <2>1. \A k \in Instances, t \in Ticks : poll'[k][t].batch \in {poll[k][t].batch, {}}
    BY <1>3 DEF Crash, Asleep, TypeInv, TypeOK
  <2>2. UNCHANGED <<status, createdAt>>
    BY <1>3 DEF Crash, tables
  <2>3. QED
    BY <2>1, <2>2 DEF OldInv, Existing, Pending
<1>4. ASSUME NEW j \in JobIds, QueueStep(j) \/ LoseLock(j) PROVE OldInv'
  BY <1>4 DEF QueueStep, Promote, Stall, LoseLock, tables, scheduler, OldInv, Existing, Pending
<1>5. QED
  BY <1>1, <1>2, <1>3, <1>4, CreateOld, PollOld DEF Next

LEMMA OldStep ==
    ASSUME TypeInv, SingleInv, OldInv, OneProcess, OutsideFaults, [Next]_vars,
           NEW p \in Prompts, NEW q \in Prompts,
           status[p] = "PENDING", status'[p] = "PENDING",
           status[q] = "PENDING", status'[q] # "PENDING"
    PROVE  createdAt[q] < createdAt[p]
<1>1. ~UNCHANGED status
  OBVIOUS
<1>2. ASSUME NEW r \in Prompts, Create(r) PROVE FALSE
  BY <1>2 DEF Create, TypeInv, TypeOK
<1>3. ASSUME NEW i \in Instances, WorkerStep(i) \/ WorkerFault(i) PROVE FALSE
  BY <1>3, WorkerKeeps DEF TypeInv, TypeOK
<1>4. ASSUME NEW i \in Instances, NEW t \in Ticks, PollStep(i, t) \/ PollFault(i, t)
      PROVE  createdAt[q] < createdAt[p]
  <2>1. PICK r \in Oldest(poll[i][t].batch) : status' = [status EXCEPT ![r] = "PROCESSING"]
    BY <1>1, <1>4 DEF PollStep, PollFault, PollStart, PollFind, PollUpdate, PollEnqueue,
       PollFindFails, PollUpdateFails, PollEnqueueFails, tables
  <2>2. r = q /\ q \in poll[i][t].batch /\ p # q
    BY <2>1 DEF Oldest, TypeInv, TypeOK
  <2>3. CASE p \in poll[i][t].batch
    <3>1. createdAt[q] <= createdAt[p] /\ createdAt[q] # createdAt[p]
      BY <2>1, <2>2, <2>3 DEF Oldest, OldInv, Existing
    <3>2. createdAt[p] \in Nat /\ createdAt[q] \in Nat
      BY DEF TypeInv, TypeOK
    <3>3. QED
      BY <3>1, <3>2
  <2>4. CASE p \notin poll[i][t].batch
    BY <2>2, <2>4 DEF OldInv, Pending
  <2>5. QED
    BY <2>3, <2>4
<1>5. ASSUME NEW i \in Instances, Crash(i) PROVE FALSE
  BY <1>1, <1>5 DEF Crash, tables
<1>6. ASSUME NEW j \in JobIds, QueueStep(j) \/ LoseLock(j) PROVE FALSE
  BY <1>1, <1>6 DEF QueueStep, Promote, Stall, LoseLock, tables
<1>7. QED
  BY <1>1, <1>2, <1>3, <1>4, <1>5, <1>6 DEF Next, vars, tables

\* On one process whose try block does not fail, prompts are taken in the order
\* they were submitted, over batches of any size, failed polls and restarts.
THEOREM InOrderTaken == ASSUME OneProcess, OutsideFaults PROVE Spec => OldestFirst
<1>1. Init => OldInv
  BY DEF Init, OldInv, Existing, Pending, Asleep
<1>2. TypeInv /\ SingleInv /\ OldInv /\ [Next]_vars => OldInv'
  BY OldInductive
<1>3. TypeInv /\ SingleInv /\ OldInv /\ [Next]_vars
         => [\A p, q \in Prompts :
                /\ status[p] = "PENDING" /\ status'[p] = "PENDING"
                /\ status[q] = "PENDING" /\ status'[q] # "PENDING"
                => createdAt[q] < createdAt[p]]_vars
  BY OldStep
<1>4. QED
  BY <1>1, <1>2, <1>3, SingleInvariant, PTL DEF Spec, OldestFirst

LEMMA PaidStep ==
    ASSUME TypeInv, [Next]_vars, NEW j \in JobIds, NEW k \in JobIds,
           jobs[j].state = "prioritized", jobs'[j].state = "active",
           jobs[k].state = "prioritized", jobs[k].tier = "PAID"
    PROVE  jobs[j].tier = "PAID"
<1>1. jobs[j].tier \in {"FREE", "PAID"}
  BY DEF TypeInv, TypeOK, Job
<1>2. ASSUME NEW i \in Instances, NEW l \in JobIds, Fetch(i, l) PROVE jobs[j].tier = "PAID"
  <2>1. l = j
    BY <1>2 DEF Fetch, TypeInv, TypeOK
  <2>2. j \in InState({"prioritized"}) /\ k \in InState({"prioritized"})
    BY DEF InState
  <2>3. Priority(jobs[j].tier) <= Priority(jobs[k].tier)
    BY <1>2, <2>1, <2>2 DEF Fetch, Servable, InState
  <2>4. QED
    BY <1>1, <2>3 DEF Priority
<1>3. ASSUME NEW i \in Instances, WorkerStep(i) \/ WorkerFault(i), ~\E l \in JobIds : Fetch(i, l)
      PROVE  FALSE
  <2>1. CASE UNCHANGED jobs
    BY <2>1
  <2>2. CASE FinishCompleted(i) \/ FinishFailed(i)
    <3>1. worker[i].job \in JobIds
      BY <2>2 DEF FinishCompleted, FinishFailed, At, TypeInv, WellFormed
    <3>2. Failed(jobs[worker[i].job]).state # "active" /\ NoJob.state # "active"
      BY <3>1 DEF Failed, NoJob, TypeInv, TypeOK, Job
    <3>3. QED
      BY <2>2, <3>1, <3>2, JobUpdate DEF FinishCompleted, FinishFailed
  <2>3. QED
    BY <1>3, <2>1, <2>2 DEF WorkerStep, WorkerFault, FindPrompt, MarkProcessing,
     FindAudio, CommitAudio, CommitConflicts, InvalidateCaches, Publish, Rollback,
     BeforeTryFails, TransactionFails, InvalidateFails, PublishFails, RollbackFails
<1>4. ASSUME NEW i \in Instances, Crash(i) PROVE FALSE
  <2>1. jobs'[j].state = jobs[j].state
    BY <1>4 DEF Crash, TypeInv, TypeOK, Job
  <2>2. QED
    BY <2>1
<1>5. ASSUME NEW l \in JobIds, QueueStep(l) \/ LoseLock(l) PROVE FALSE
  <2>1. /\ [jobs[l] EXCEPT !.state = "prioritized"].state = "prioritized"
        /\ [jobs[l] EXCEPT !.owner = None].state = jobs[l].state
        /\ [jobs[l] EXCEPT !.state = "wait", !.stalls = jobs[l].stalls + 1].state = "wait"
        /\ NoJob.state = "none"
    BY DEF TypeInv, TypeOK, Job, NoJob
  <2>2. PICK r : jobs' = [jobs EXCEPT ![l] = r] /\ r.state \in {"prioritized", "wait", "none", jobs[l].state}
    BY <1>5, <2>1 DEF QueueStep, Promote, Stall, LoseLock
  <2>3. QED
    BY <2>2, JobUpdate
<1>6. ASSUME NEW i \in Instances, NEW t \in Ticks, PollStep(i, t) \/ PollFault(i, t) PROVE FALSE
  <2>1. CASE UNCHANGED jobs
    BY <2>1
  <2>2. CASE \E p, tier : AddJob(p, tier)
    BY <2>2, AddJobEffect
  <2>3. QED
    BY <1>6, <2>1, <2>2, PollFrame DEF Enqueue
<1>7. QED
  BY <1>2, <1>3, <1>4, <1>5, <1>6 DEF Next, Create, vars

\* Whatever fails and however many processes share the queue, no FREE job is
\* started while a PAID one is queued.
THEOREM PaidServedFirst == Spec => PaidFirst
<1>1. TypeInv /\ [Next]_vars
         => [\A j, k \in JobIds :
                /\ jobs[j].state = "prioritized" /\ jobs'[j].state = "active"
                /\ jobs[k].state = "prioritized" /\ jobs[k].tier = "PAID"
                => jobs[j].tier = "PAID"]_vars
  BY PaidStep
<1>2. QED
  BY <1>1, TypeInvariant, PTL DEF Spec, PaidFirst

=============================================================================
