--------------------------- MODULE DeliveryProofs ---------------------------
(***************************************************************************)
(* Proofs about Delivery: the pipeline and the gateways beside it keep     *)
(* each other's promises, and one that neither of them makes alone.        *)
(***************************************************************************)
EXTENDS Delivery, NotificationsProofs

\* The pipeline again, with what is proved of it.
PP == INSTANCE PipelineProofs

-----------------------------------------------------------------------------
(***************************************************************************)
(* The composition implements the channel                                  *)
(***************************************************************************)
\* A step of the system is a publication, a step of the gateways, or no step of theirs.
LEMMA SystemStep == [SystemNext]_SystemVars => [Next]_vars
<1> SUFFICES ASSUME [SystemNext]_SystemVars PROVE [Next]_vars
  OBVIOUS
<1>1. CASE Generate
  <2>1. UNCHANGED vars \/ \E p \in Prompts : Publish(p)
    BY <1>1 DEF Generate
  <2>2. QED
    BY <2>1 DEF Next
<1>2. CASE Deliver
  BY <1>2 DEF Next
<1>3. CASE UNCHANGED SystemVars
  BY <1>3 DEF SystemVars
<1>4. QED
  BY <1>1, <1>2, <1>3 DEF SystemNext

\* The composition implements the channel: whatever the worker of prompt.processor.ts
\* publishes, and whenever, reaches the gateways as Notifications describes.
THEOREM Relays == System => Spec
<1>1. SystemInit => Init
  BY DEF SystemInit
<1>2. QED
  BY <1>1, SystemStep, PTL DEF System, Spec

\* With any number of workers, gateways and clients, a client is told in the order of
\* publication over one socket.
THEOREM SystemOrder == System => []InOrder
<1>1. QED
  BY Relays, Order, PTL

\* A client of the whole system is told of its user's prompts only, and of all of them
\* that were announced since it connected and that its gateway received.
THEOREM SystemEachOwn == System => []EachOwn
<1>1. QED
  BY Relays, EachOwnTold, PTL

-----------------------------------------------------------------------------
(***************************************************************************)
(* The composition implements the pipeline                                 *)
(***************************************************************************)
LEMMA PipelineStep1 == PipelineStep => P!Next
BY DEF PipelineStep, P!Next

\* Beside the gateways the pipeline behaves as it does alone, in processes that
\* do not crash: no step of theirs is one of its steps.
THEOREM Works == System => P!Spec
<1>1. SystemInit => P!Init
  BY DEF SystemInit
<1>2. [SystemNext]_SystemVars => [P!Next]_(P!vars)
  BY PipelineStep1 DEF SystemNext, Generate, SystemVars, pipeline, P!vars, P!tables, P!scheduler
<1>3. QED
  BY <1>1, <1>2, PTL DEF System, P!Spec

\* The same module, instantiated twice, is the same.
LEMMA SameAssumptions == PP!SetsAssumption /\ PP!BoundsAssumption
BY PipelineAssumption DEF P!SetsAssumption, PP!SetsAssumption, P!AllFaults, PP!AllFaults,
   P!BoundsAssumption, PP!BoundsAssumption, P!IsFiniteSet, PP!IsFiniteSet

LEMMA SameInit == P!Init => PP!Init
BY DEF P!Init, PP!Init, P!Asleep, PP!Asleep, P!Free, PP!Free, P!NoJob, PP!NoJob

LEMMA SameFault == \A kind : P!Fault(kind) => PP!Fault(kind)
BY DEF P!Fault, PP!Fault

LEMMA SameCardinality == \A S : P!Cardinality(S) = PP!Cardinality(S)
BY DEF P!Cardinality, PP!Cardinality

LEMMA SameCreate == \A p \in Prompts : P!Create(p) => PP!Create(p)
BY SameCardinality DEF P!Create, PP!Create, P!Existing, PP!Existing, P!scheduler, PP!scheduler

LEMMA SameFind == P!FindPending = PP!FindPending
BY SameCardinality DEF P!FindPending, PP!FindPending, P!Pending, PP!Pending

LEMMA SamePoll ==
    \A i \in Instances, t \in Ticks :
        P!PollStep(i, t) \/ P!PollFault(i, t) => PP!PollStep(i, t) \/ PP!PollFault(i, t)
<1> SUFFICES ASSUME NEW i \in Instances, NEW t \in Ticks
             PROVE  P!PollStep(i, t) \/ P!PollFault(i, t) => PP!PollStep(i, t) \/ PP!PollFault(i, t)
  OBVIOUS
<1>1. P!PollEnd(i, t) => PP!PollEnd(i, t)
  BY DEF P!PollEnd, PP!PollEnd, P!Asleep, PP!Asleep
<1>2. P!Enqueue(i, t) => PP!Enqueue(i, t)
  BY DEF P!Enqueue, PP!Enqueue, P!AddJob, PP!AddJob, P!FreeSlots, PP!FreeSlots, P!NoJob, PP!NoJob
<1>3. P!PollStart(i, t) => PP!PollStart(i, t)
  BY DEF P!PollStart, PP!PollStart, P!Asleep, PP!Asleep, P!tables, PP!tables
<1>4. P!PollFind(i, t) \/ P!PollFindFails(i, t) => PP!PollFind(i, t) \/ PP!PollFindFails(i, t)
  BY <1>1, SameFind, SameFault DEF P!PollFind, PP!PollFind, P!PollFindFails, PP!PollFindFails,
     P!tables, PP!tables
<1>5. P!PollUpdate(i, t) \/ P!PollUpdateFails(i, t)
        => PP!PollUpdate(i, t) \/ PP!PollUpdateFails(i, t)
  BY <1>1, SameFault DEF P!PollUpdate, PP!PollUpdate, P!PollUpdateFails, PP!PollUpdateFails,
     P!Oldest, PP!Oldest
<1>6. P!PollEnqueue(i, t) \/ P!PollEnqueueFails(i, t)
        => PP!PollEnqueue(i, t) \/ PP!PollEnqueueFails(i, t)
  BY <1>1, <1>2, SameFault DEF P!PollEnqueue, PP!PollEnqueue, P!PollEnqueueFails,
     PP!PollEnqueueFails, P!tables, PP!tables
<1>7. QED
  BY <1>3, <1>4, <1>5, <1>6 DEF P!PollStep, PP!PollStep, P!PollFault, PP!PollFault

LEMMA SameWorker ==
    \A i \in Instances :
        P!WorkerStep(i) \/ P!WorkerFault(i) => PP!WorkerStep(i) \/ PP!WorkerFault(i)
BY DEF P!WorkerStep, P!Fetch, P!FindPrompt, P!MarkProcessing, P!FindAudio, P!CommitAudio,
   P!CommitConflicts, P!InvalidateCaches, P!Publish, P!Rollback, P!FinishCompleted,
   P!FinishFailed, P!WorkerFault, P!BeforeTryFails, P!TransactionFails, P!InvalidateFails,
   P!PublishFails, P!RollbackFails, P!Goto, P!At, P!Mine, P!Complete, P!Announce, P!Servable,
   P!InState, P!Priority, P!Failed, P!Free, P!NoJob, P!Fault, P!tables, P!scheduler,
   PP!WorkerStep, PP!Fetch, PP!FindPrompt, PP!MarkProcessing, PP!FindAudio, PP!CommitAudio,
   PP!CommitConflicts, PP!InvalidateCaches, PP!Publish, PP!Rollback, PP!FinishCompleted,
   PP!FinishFailed, PP!WorkerFault, PP!BeforeTryFails, PP!TransactionFails, PP!InvalidateFails,
   PP!PublishFails, PP!RollbackFails, PP!Goto, PP!At, PP!Mine, PP!Complete, PP!Announce,
   PP!Servable, PP!InState, PP!Priority, PP!Failed, PP!Free, PP!NoJob, PP!Fault, PP!tables,
   PP!scheduler

LEMMA SameQueue ==
    \A j \in JobIds : P!QueueStep(j) \/ P!LoseLock(j) => PP!QueueStep(j) \/ PP!LoseLock(j)
BY DEF P!QueueStep, P!Promote, P!Stall, P!LoseLock, P!NoJob, P!Fault, P!tables, P!scheduler,
   PP!QueueStep, PP!Promote, PP!Stall, PP!LoseLock, PP!NoJob, PP!Fault, PP!tables, PP!scheduler

LEMMA SameStep == [SystemNext]_SystemVars => [PP!Next]_(PP!vars)
<1>1. PipelineStep => PP!Next
  BY SameCreate, SamePoll, SameWorker, SameQueue DEF PipelineStep, PP!Next
<1>2. QED
  BY <1>1 DEF SystemNext, Generate, SystemVars, pipeline, PP!vars, PP!tables, PP!scheduler

LEMMA SameSpec == System => PP!Spec
<1>1. SystemInit => PP!Init
  BY SameInit DEF SystemInit
<1>2. QED
  BY <1>1, SameStep, PTL DEF System, PP!Spec

-----------------------------------------------------------------------------
(***************************************************************************)
(* What a client is told, and of what                                      *)
(***************************************************************************)
\* Every announcement is of a prompt with its audio row.
LogInv == \A n \in 1..Len(log) : log[n] \in Prompts /\ audio[log[n]] = 1

LEMMA LogStep ==
    ASSUME PP!SafeInv, TypeOK, LogInv, [SystemNext]_SystemVars PROVE LogInv'
<1>1. PP!TypeInv /\ PP!Known /\ PP!AudioInv /\ [PP!Next]_(PP!vars)
  BY SameStep DEF PP!SafeInv
<1>2. \A p \in Prompts : audio[p] = 1 => audio'[p] = 1
  BY <1>1, SameAssumptions, PP!AudioGrows
<1>3. CASE UNCHANGED log
  BY <1>2, <1>3 DEF LogInv
<1>4. ASSUME NEW p \in Prompts, published'[p] # published[p], Publish(p) PROVE LogInv'
  <2>1. audio'[p] = 1
    BY <1>1, <1>4, SameAssumptions, PP!AnnouncedHasAudio
  <2>2. log' = Append(log, p) /\ log \in Seq(Prompts)
    BY <1>4 DEF Publish, TypeOK
  <2>3. ASSUME NEW n \in 1..Len(log') PROVE log'[n] \in Prompts /\ audio'[log'[n]] = 1
    <3>1. CASE n \in 1..Len(log)
      <4>1. log'[n] = log[n]
        BY <2>2, <3>1
      <4>2. QED
        BY <1>2, <3>1, <4>1 DEF LogInv
    <3>2. CASE n = Len(log) + 1
      <4>1. log'[n] = p
        BY <2>2, <3>2
      <4>2. QED
        BY <2>1, <4>1
    <3>3. QED
      BY <2>2, <3>1, <3>2
  <2>4. QED
    BY <2>3 DEF LogInv
<1>5. CASE Deliver
  BY <1>3, <1>5 DEF Deliver, GatewayStep, GatewayFault, ClientStep, Subscribe, Relay,
     SubscribeFails, SubscriberLost, Restart, Receive, Disconnect, Connect, history
<1>6. CASE UNCHANGED vars
  BY <1>3, <1>6 DEF vars, history
<1>7. QED
  BY <1>4, <1>5, <1>6 DEF SystemNext, Generate, SystemVars

\* Whatever fails, in the workers, on the connections or in the gateways, a client
\* told that a prompt is completed finds its audio: the publication comes after the
\* commit, and no row is removed (process of prompt.processor.ts).
THEOREM SystemTold == System => []ToldHasAudio
<1>1. SystemInit => LogInv
  BY DEF SystemInit, Init, LogInv
<1>2. System => []TypeOK
  BY Relays, TypeCorrect, PTL
<1>3. System => []PP!SafeInv
  BY SameSpec, SameAssumptions, PP!SafeInvariant, PTL
<1>4. TypeOK /\ LogInv => ToldHasAudio
  <2>1. SUFFICES ASSUME TypeOK, LogInv, NEW c \in Clients, NEW n \in ToSet(told[c])
                 PROVE  audio[log[n]] = 1
    BY DEF ToldHasAudio
  <2>2. told[c] \in Seq(Announcements)
    BY <2>1 DEF TypeOK
  <2>3. n \in 1..Len(log)
    BY <2>2, SetOf DEF Announcements
  <2>4. QED
    BY <2>1, <2>3 DEF LogInv
<1>5. QED
  BY <1>1, <1>2, <1>3, <1>4, LogStep, PTL DEF System

\* No prompt is announced twice.
LogOnce == \A m, n \in 1..Len(log) : log[m] = log[n] => m = n

\* The channel knows of no announcement that the pipeline did not make.
CountInv == \A n \in 1..Len(log) : published[log[n]] >= 1

LEMMA OnceStep ==
    ASSUME PP!SafeInv, TypeOK, LogInv, CountInv, LogOnce, PP!AnnouncedOnce',
           [SystemNext]_SystemVars
    PROVE  CountInv' /\ LogOnce'
<1>1. PP!TypeInv /\ PP!Known /\ PP!AudioInv /\ [PP!Next]_(PP!vars)
  BY SameStep DEF PP!SafeInv
<1>2. \A p \in Prompts : /\ published[p] \in Nat
                        /\ published'[p] \in {published[p], published[p] + 1}
                        /\ published'[p] <= 1
  BY <1>1, SameAssumptions, PP!PublishedGrows DEF PP!AnnouncedOnce
<1>3. log \in Seq(Prompts) /\ Len(log) \in Nat /\ \A n \in 1..Len(log) : log[n] \in Prompts
  BY DEF TypeOK
<1>4. CASE UNCHANGED log
  BY <1>2, <1>3, <1>4 DEF CountInv, LogOnce
<1>5. ASSUME NEW p \in Prompts, published'[p] # published[p], Publish(p)
      PROVE  CountInv' /\ LogOnce'
  \* p was not announced before, so it is not in the log.
  <2>1. published[p] = 0 /\ published'[p] = 1
    BY <1>2, <1>5
  <2>2. \A n \in 1..Len(log) : log[n] # p
    BY <2>1 DEF CountInv
  <2>3. log' = Append(log, p)
    BY <1>5 DEF Publish
  <2>4. /\ Len(log') = Len(log) + 1 /\ log'[Len(log) + 1] = p
        /\ \A n \in 1..Len(log) : log'[n] = log[n]
    BY <1>3, <2>3
  <2>5. \A n \in 1..Len(log') : n \in 1..Len(log) \/ n = Len(log) + 1
    BY <1>3, <2>4
  <2>6. CountInv'
    BY <1>2, <1>3, <2>1, <2>4, <2>5 DEF CountInv
  <2>7. LogOnce'
    BY <2>2, <2>4, <2>5 DEF LogOnce
  <2>8. QED
    BY <2>6, <2>7
<1>6. CASE Deliver
  BY <1>4, <1>6 DEF Deliver, GatewayStep, GatewayFault, ClientStep, Subscribe, Relay,
     SubscribeFails, SubscriberLost, Restart, Receive, Disconnect, Connect, history
<1>7. CASE UNCHANGED vars
  BY <1>4, <1>7 DEF vars, history
<1>8. QED
  BY <1>5, <1>6, <1>7 DEF SystemNext, Generate, SystemVars

LEMMA ConcatPrefix ==
    ASSUME NEW S, NEW s \in Seq(S), NEW t \in Seq(S), NEW i \in 1..Len(s)
    PROVE  i \in 1..Len(s \o t) /\ (s \o t)[i] = s[i]
  OBVIOUS

\* Nobody is told of a prompt twice over one socket.
ToldOnce ==
    \A c \in Clients : \A a, b \in 1..Len(told[c]) :
        log[told[c][a]] = log[told[c][b]] => a = b

\* One process that generates, and no failure inside the try block of process: over one
\* socket a client is told of a prompt once, whatever happens to the connections and
\* the gateways.  It takes the worker's skip of COMPLETED prompts and the order of the
\* channel together.
THEOREM SystemToldOnce ==
    ASSUME PP!OneProcess, PP!OutsideFaults PROVE System => []ToldOnce
<1>1. SystemInit => LogInv /\ CountInv /\ LogOnce
  BY DEF SystemInit, Init, LogInv, CountInv, LogOnce
<1>2. System => []RelayInv
  BY Relays, Invariant, PTL
<1>3. System => []PP!SafeInv
  BY SameSpec, SameAssumptions, PP!SafeInvariant, PTL
<1>4. System => []PP!AnnouncedOnce
  BY SameSpec, SameAssumptions, PP!Announced, PTL
<1>5. RelayInv => TypeOK
  BY DEF RelayInv
<1>6. RelayInv /\ LogOnce => ToldOnce
  <2>1. SUFFICES ASSUME RelayInv, LogOnce, NEW c \in Clients,
                        NEW a \in 1..Len(told[c]), NEW b \in 1..Len(told[c]),
                        log[told[c][a]] = log[told[c][b]]
                 PROVE  a = b
    BY DEF ToldOnce
  <2>2. told[c] \in Seq(Announcements) /\ wire[c] \in Seq(Announcements) /\ Len(log) \in Nat
    BY <2>1 DEF RelayInv, TypeOK
  <2>3. told[c][a] \in 1..Len(log) /\ told[c][b] \in 1..Len(log)
    BY <2>2 DEF Announcements
  <2>4. told[c][a] = told[c][b]
    BY <2>1, <2>3 DEF LogOnce
  <2>5. Rising(Sent(c))
    BY <2>1 DEF RelayInv, OrderInv
  <2>6. /\ a \in 1..Len(Sent(c)) /\ b \in 1..Len(Sent(c))
        /\ Sent(c)[a] = told[c][a] /\ Sent(c)[b] = told[c][b]
    BY <2>2, ConcatPrefix DEF Sent
  <2>7. Sent(c)[a] \in Nat /\ Sent(c)[b] \in Nat
    BY <2>2, <2>3, <2>6
  <2>8. ~(a < b) /\ ~(b < a)
    BY <2>4, <2>5, <2>6, <2>7 DEF Rising
  <2>9. QED
    BY <2>2, <2>8
<1>7. QED
  BY <1>1, <1>2, <1>3, <1>4, <1>5, <1>6, LogStep, OnceStep, PTL DEF System

-----------------------------------------------------------------------------
(***************************************************************************)
(* No orphan                                                               *)
(***************************************************************************)
\* While only calls of the try block of process fail and locks are lost, or calls of
\* process that its retries make up for, or one of all these, no prompt is left
\* PROCESSING with nobody to run it, gateways and clients failing as they may.
THEOREM SystemNoOrphan ==
    ASSUME \/ PP!TryBlockFaults
           \/ PP!RetryBudget /\ PP!AttemptFaults
           \/ PP!RetryBudget /\ PP!ProcessFaults /\ MaxFaults <= 1
    PROVE  System => []NoOrphan
<1>1. PP!NoOrphan => NoOrphan
  BY DEF NoOrphan, P!NoOrphan, P!Scheduled, P!InQueue, P!InWork, P!WillRetry, P!Queued,
     PP!NoOrphan, PP!Scheduled, PP!InQueue, PP!InWork, PP!WillRetry, PP!Queued
<1>2. CASE PP!TryBlockFaults
  BY <1>1, <1>2, SameSpec, SameAssumptions, PP!NoPromptOrphaned, PTL
<1>3. CASE PP!RetryBudget /\ PP!AttemptFaults
  BY <1>1, <1>3, SameSpec, SameAssumptions, PP!RetriesSuffice, PTL
<1>4. CASE PP!RetryBudget /\ PP!ProcessFaults /\ MaxFaults <= 1
  BY <1>1, <1>4, SameSpec, SameAssumptions, PP!OneFailure, PTL
<1>5. QED
  BY <1>2, <1>3, <1>4
=============================================================================
