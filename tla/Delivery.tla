------------------------------ MODULE Delivery ------------------------------
(***************************************************************************)
(* The generation pipeline composed with the gateways: from the submission *)
(* of a prompt to the message its owner receives.  The worker's            *)
(* publication is one step of both.                                        *)
(*                                                                         *)
(* Instances generate and Gateways host sockets; an API process is both.   *)
(* The crash of a generating process between its commit and its            *)
(* publication loses the announcement for good (see Pipeline), so what is  *)
(* promised here is promised by processes that do not crash; the gateways  *)
(* may stop.                                                               *)
(***************************************************************************)
EXTENDS Notifications

CONSTANTS
    Instances, Ticks, JobIds, BatchSize, MaxAttempts, MaxStalls, Tiers,
    FaultKinds, MaxFaults,
    MaxTroubles   \* bound on the failures and broken connections together

VARIABLES
    status, createdAt, audio, jobs, isRunning, poll, worker, published, faults

P == INSTANCE Pipeline

ASSUME PipelineAssumption == P!SetsAssumption /\ P!BoundsAssumption

pipeline == <<status, createdAt, audio, jobs, isRunning, poll, worker, published, faults>>
SystemVars == <<pipeline, vars>>

SystemInit == P!Init /\ Init

PipelineStep ==
    \/ \E p \in Prompts : P!Create(p)
    \/ \E i \in Instances, t \in Ticks : P!PollStep(i, t) \/ P!PollFault(i, t)
    \/ \E i \in Instances : P!WorkerStep(i) \/ P!WorkerFault(i)
    \/ \E j \in JobIds : P!QueueStep(j) \/ P!LoseLock(j)

\* A step of the pipeline that publishes is a publication on the channel.
Generate ==
    /\ PipelineStep
    /\ \/ published' = published /\ UNCHANGED vars
       \/ \E p \in Prompts : published'[p] # published[p] /\ Publish(p)

SystemNext ==
    /\ Generate \/ (Deliver /\ UNCHANGED pipeline)
    /\ faults' + breaks' <= MaxTroubles

System == SystemInit /\ [][SystemNext]_SystemVars

FairSystem == System /\ P!Fairness /\ Fairness

-----------------------------------------------------------------------------
\* Who is told of a prompt finds its audio, whatever became of its status since.
ToldHasAudio ==
    \A c \in Clients : \A n \in ToSet(told[c]) : audio[log[n]] = 1

Online(c) == socket[c] # None /\ subscription[socket[c]] = "open"
ToldOf(c, p) == \E n \in ToSet(told[c]) : log[n] = p

\* From the submission to the message: an owner who is online, and stays so, is
\* told of each of its prompts that was not announced before.
EventuallyTold ==
    \A c \in Clients, p \in Prompts :
        UserOf[c] = Owner[p] =>
            (Online(c) /\ status[p] = "PENDING" /\ published[p] = 0
                ~> ToldOf(c, p) \/ ~Online(c))

\* What Pipeline promises of its retries, with the gateways running beside it.
NoOrphan == P!NoOrphan
EventuallyCompleted == P!EventuallyCompleted
=============================================================================
