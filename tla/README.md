# Verification of the MusicGPT backend

TLA+ models of the parts of the backend whose correctness depends on the order
in which requests, timers, workers and failures interleave, with TLC runs on
small instances and TLAPS proofs for every instance. Paths below are relative
to `src/` of the repository (`src/modules/...` is `src/src/modules/...` in
`PROJECT.json`).

    tlc -workers 2 -config PipelineSingle.cfg MCPipeline.tla    # any run of PROJECT.json
    tlapm PipelineProofs.tla                                    # any *Proofs module

## 1. Inventory

A NestJS API over PostgreSQL (Prisma) and Redis (ioredis). Every process hosts
the HTTP handlers, a cron scheduler, a BullMQ worker of concurrency 1 and a
WebSocket gateway. Nothing runs in parallel inside a process, but every `await`
lets other handlers run, several processes can be deployed, and any call may
fail or have its effect and lose its answer.

| Component | State | Operations | What makes it correct |
|---|---|---|---|
| Prompt scheduler (`scheduler/prompt.scheduler.ts`) | `isRunning`; the batch it iterates over | every 10 s: find the oldest PENDING prompts, mark each PROCESSING, enqueue it | prompts are picked up in order, once each, and none is lost between the mark and the enqueue |
| Prompt queue (`queue/prompt.producer.ts`, BullMQ) | jobs with priority, attempts, stalls, lock | add, fetch, retry with backoff, take back stalled jobs, give up | PAID first; a job ends, is retried or is taken back |
| Prompt processor (`queue/prompt.processor.ts`) | `prompts.status`, `audio` | skip or mark, generate, transaction, invalidate caches, publish, roll back | one audio per prompt, COMPLETED only with it and for good, every submitted prompt completed and announced |
| Users, audio and prompts services with their caches (`user`, `audio`, `prompt`) | rows; `cache:*` keys with a 60 s expiry | read-through of lists and single rows, update or create with invalidation | a stale answer has a reason and an end |
| Rate limit guard (`common/guards/rate-limit.guard.ts`) | a sorted set per user with expiry | four pipelined commands, verdict, Retry-After | a window admits no more than the limit and those whose own pipeline failed, refusals are justified, the header is sane |
| Authentication (`auth/auth.service.ts`, `refresh-token.repository.ts`) | users, refresh token rows | register, login, refresh, logout | a token is traded in once, ended logins stay ended |
| Subscription (`subscription`) | `users.subscription_status`; the tier copied into access tokens | subscribe, cancel: check, then write; login and refresh read the row and sign later | only requests under way when the status changed repeat the change; tokens come to carry the tier of the row |
| Notification gateway (`websocket`) | the subscriber connection; rooms of its sockets | subscribe, relay `ws:notifications` to `user:<id>`, connect, disconnect | a client is told of its own prompts only, in order, once per socket; an owner who stays online is told |
| Search (`search`) | none; the client holds a cursor between two pages | read a batch, score, sort, continue after the cursor, page | pages go down the ranking, skip nothing that stays, and end |
| Session service (`auth/session.service.ts`) | Redis keys | not provided by any module, so never runs | – |
| JWT guard (`common/guards/jwt-auth.guard.ts`, `auth/jwt.strategy.ts`) | none | lets an unexpired token through and believes its tier | see Subscription |
| Filters, interceptor, DTOs, Swagger, configuration, Prisma and Redis clients | none of their own | – | – |

How they interact:

* `POST /prompts` inserts a PENDING row; the **scheduler** reads it from the
  table, writes PROCESSING, and calls the **producer**; the **queue** hands the
  job to a **processor**, which writes the tables, drops cache keys and
  publishes; the **gateway** of every process relays the message to the sockets
  it hosts. socket.io runs with its in-memory adapter, so a room is local to a
  process and reaches all owners only because every gateway subscribes.
* The scheduler, the processor's rollback and BullMQ's retry all restart the
  same prompt and know nothing of each other: the `status` column is their only
  shared state. That is the hardest part of the program.
* The processor drops the list caches the **services** fill. `register`,
  `subscribe`, `cancel`, the scheduler and the processor's status updates write
  rows that are cached and drop nothing.
* The tier in a token is copied at login or refresh and read by the **guard**
  until the token expires; the tier of a job is read with the batch. The answer
  of `subscribe` speaks of 100 requests a minute, but the guard counts by the
  token: a client has them once it refreshes.

What is hard: check-then-act over an `await` (every service), three retry
mechanisms over one prompt, a failure after a commit, process death between two
calls, stalled jobs whose worker is still running, cache filling against
invalidation, pipelines that interleave, at-most-once messages over connections
that break, cursors into a ranking that changes. `PROJECT.json` lists each hazard at its
line with the properties that cover it.

## 2. Modules

| Module | Models | Proofs |
|---|---|---|
| `Generation` | abstract specification: what the pipeline promises | |
| `Pipeline`, `MCPipeline` | scheduler, queue, processor and the two tables; implements `Generation` | `PipelineProofs` |
| `ReadThroughCache`, `MCReadThroughCache` | the caches of the three services and the writes around them | `ReadThroughCacheProofs` |
| `RateLimit`, `MCRateLimit` | the guard, the sorted set and its expiry, with time | `RateLimitProofs` |
| `RefreshTokens`, `MCRefreshTokens` | register, login, refresh, logout | `RefreshTokensProofs` |
| `Notifications` | the channel, the gateways, sockets and clients: what is promised of an announcement | `NotificationsProofs` |
| `Delivery`, `MCDelivery` | `Pipeline` composed with `Notifications`; implements both | `DeliveryProofs` |
| `Search`, `MCSearch` | a client that walks the pages of a search while rows change | `SearchProofs` |
| `Subscription`, `MCSubscription` | subscribe and cancel, and the tokens that copy the status | `SubscriptionProofs` |

**Pipeline.** An action is the code between two awaits. `poll[i][t]` is an
activation of `pollPendingPrompts` (`pc` is its next await), `isRunning[i]` its
flag, `worker[i]` the activation of `process(job)`, `jobs[j]` a BullMQ job.
`PollStart … PollEnqueue` are the scheduler, `FindPrompt … FinishFailed` the
processor, `Fetch`, `Promote`, `LoseLock`, `Stall` the behaviour of BullMQ the
code relies on (external: `wait` before the prioritized set, lower number first,
three attempts, `maxStalledCount` 1, a lock that may be lost unnoticed). The
transaction is its read (`FindAudio`) and its commit (`CommitAudio`,
`CommitConflicts`): two transactions may both read no audio row, and the unique
index decides. Each call that may fail has its own failing action, with and
without the call's effect where it has one. `Crash` loses a process's handlers,
flag and locks. The refinement to `Generation` maps a prompt to "generated" when
it has an audio row, "shown" when it reads COMPLETED.

**ReadThroughCache.** One module for three services, which are the same program
over different keys; `Paths` names the kinds of write. A row is its version, a
response the versions it was made from, so "stale" is a comparison.
`overtaken` is a history variable: the keys whose entry a write passed by.

**RateLimit.** The four commands are separate actions because a pipeline is not
a transaction. Time is explicit: a request is stamped on arrival, its pipeline
reaches Redis at most `MaxDelay` later and is executed within a tick; all clocks
agree. The key's expiry is modelled, and is part of why old members go away.
Each command has a failing action, with and without its effect: `exec()` of ioredis
never rejects but gives each failed command an error for its result (`failed`). A
failed `zcard` leaves `count` undefined, `undefined > limit` is false, and the
request passes: **the guard fails open**, and an outage of Redis suspends the limit.
`zrange` is a call of its own that rejects (500). `Resend` is ioredis sending a
pipeline again of which no reply arrived before the connection broke; its stamp
and member are the same, so what was done is done again without harm. The delay
of a pipeline that is sent again is that of its last execution.

**RefreshTokens.** One action per call of `AuthService`. `parent` and `login` of
a token, `ended` and `overlapped` are history: the code stores none of them.

**Notifications.** Four queues lie between a publication and the client's
handler: `inbox[g]`, what the subscriber connection of gateway `g` has received,
and `wire[c]` and `told[c]`, what is in flight to and has arrived at the socket of
client `c`. `Publish` reaches the gateways subscribed at that moment (Redis keeps
nothing), `Relay` is the message handler, `Connect` is `handleConnection` up to
`client.join`: it awaits nothing, so the socket is in its room when the handler
returns. `SubscriberLost` and `Subscribe` are the connection lost and ioredis
subscribing again, `SubscribeFails` the error that the callback only logs, `Restart`
a process that stops. Announcements are numbers; `log`, `since` and `missed` are
history: which prompts they were, those made before a client connected, those a
gateway will never relay.

**Delivery.** `Pipeline`, instantiated, and the gateways run side by side; a step
of the worker that publishes is at the same time `Publish` of `Notifications`.
Instances generate and `Gateways` host sockets; an API process does both. The
specification implements `Notifications` (`DeliveryProofs!Relays`) and `Pipeline`
(`DeliveryProofs!Works`), so what is proved of either holds of the whole.

**Search.** `searchUsers` and `searchAudio` are one program over different
columns. `First` and `Following` are a request without and with a cursor: any
`Batch` of the matches is read (`findMany` has `take` and no order), scored, ordered
by `Before`, cut after the cursor – by the item's place (`AfterCursor`) or, when it
is gone, by comparison (`PastCursor`) – and paged. `Change` is any update or insert
between two pages. A column is reduced to its relation to the query; `"pattern"`
is what only ILIKE takes for a match (`%` and `_` in the query are not escaped),
which then scores 0. `earlier`, `moved` and `truncated` are history.

**Subscription.** `Lookup` and `Update` are the two calls of subscribe and cancel,
`Read` and `Sign` the start and end of login or refresh, `Expire` the fifteen
minutes of a token. `overtaken` and `repeats` are history: the status changed since
the row was read to be signed; the updates since the last change that wrote what
was there.

## 3. Runs

Passing runs:

| Run | Instance | Shows |
|---|---|---|
| `single_process` | 3 prompts, 1 process with 2 cron activations, batches of 2; failing polls, enqueues, reads before `try`, lost locks, crashes | `TypeOK`; `OneJobPerPrompt`; `AnnouncedOnce`; `CompletedIsFinal`; `OldestFirst`; `PaidFirst` |
| `fleet_with_faults` | 1 prompt, 2 processes, every kind of failure | `CompletedHasAudio`; `Generates` (refinement) |
| `fleet_converges` | 1 prompt, 2 processes that poll and work on it, a failure of any call of the worker or a lost lock | `NoOrphan`; `EventuallyCompleted`; `EventuallyAnnounced` |
| `cache_races` | 2 rows, 2 list keys, 1 own key, 2 clients, a failing call | `TypeOK`; `StaleIsExplained`; `EventuallyCoherent` |
| `rate_limit` | 4 requests of one user, tokens of both tiers (limits 2 and 3), a window of 2 s in half-seconds, delay 1, 8 instants; every command of one request may fail or be sent again | `TypeOK`; `WindowBound`; `RefusedOverLimit`; `RetryAfterInRange` |
| `tokens_overlap` | 2 users, 5 tokens, 2 overlapping requests and logouts at any moment, 2 failures | `TypeOK`; `TradedInIsRevoked`; `EndedStaysEnded`; `BoundedForks` |
| `delivery` | 1 prompt, a process that generates and hosts sockets, the owner's browser and another user's; two failures of the worker, or connections that break, or one of each | `TypeOK`; `InOrder`; `EachOwn`; `ToldHasAudio`; `NoOrphan`; `EventuallyTold`; `EventuallyCompleted` |
| `search` | 4 rows of two columns, a batch of 3, pages of 1 or 2, a row changed or inserted between pages | `TypeOK`; `Forward`; `NoneMissing`; `EventuallyDone` |
| `subscription` | 3 requests of one user, 2 live tokens | `TypeOK`; `FewRepeats`; `TierIsExplained`; `EventuallyAgree` |

Runs that TLC refutes, each of one statement of the documentation:

* `cache_fault_reopens` – `prompt.processor.ts:88` calls the invalidation
  non-critical and outside the transaction, but it is inside the `try` block: if
  it fails, the completed prompt goes back to PENDING (`CompletedIsFinal`).
* `enqueue_fault_strands` – `prompt.controller.ts:20` says a cron job will pick
  a prompt up; if `queue.add` rejects, the prompt is already PROCESSING, and no
  poll reads it again (`PickedUp`).
* `retry_after` – `README.md:260` promises a Retry-After header; a user who
  waits that long, sending nothing, can be refused again, because refused
  requests are members of the set and the header looks at the oldest only
  (`RetryAfterSuffices`).

Several properties hold only under a stated environment, and that is their
content. `OneJobPerPrompt`, `AnnouncedOnce` and `CompletedIsFinal` need one
process and no failure inside the `try` block (otherwise the rollback and
BullMQ's retry both restart the prompt). `NoOrphan` needs the failures to be in
the `try` block, or fewer than a job has attempts. With several processes and
any failure what is left is `CompletedHasAudio` and `Generates`, and
`EventuallyCompleted` while the failures are those of the `try` block or one
outside it. `EachOwn` names the two ways in which a connected client is not told
(announced before it connected, or missed by its gateway's own connection), and
`EventuallyTold` is for owners who stay online; neither could be stronger, because
Redis delivers at most once. `NoneMissing` is for walks whose reads fitted the
batch: over more than 200 matches the code shows part of them and says there is
nothing more. `FewRepeats` bounds what the code does not prevent: of overlapping
subscriptions every one may succeed, all but the first without effect.

The limit of `WindowBound` is exceeded by as many requests as had a pipeline that
failed, each letting in itself and no other: one whose `zcard` failed is not counted
against the limit, one whose `zadd` failed is not seen by later ones, one whose
`expire` failed may be forgotten with the key. A failed `zremrangebyscore` excuses
nothing there, but with it a request can be refused on account of old members
(`RefusedOverLimit` excepts it), and an error in a refused request's own pipeline
can put its header outside of 1..60 (`RetryAfterInRange` excepts it). TLC refutes
each of the three without its exceptions.

### Bounds

* Pipeline: two or three prompts show order and overtaking; two processes and
  two activations show every pairwise interleaving; `JobIds` (the job slots) is
  large enough for a retried job and a newly enqueued one per prompt, and an
  enqueue waits for a free slot; `MaxFaults` 2 is what it takes to fail and then
  fail the recovery; `MaxAttempts` 3 and `MaxStalls` 1 are the code's and
  BullMQ's own values. `createdAt` is a rank that a row gets as it becomes visible:
  equal timestamps do not occur, nor do submissions that commit in another order
  than the database stamped them, which a poll between the two commits would take
  in that order.
  Timers may fire at any moment, which includes their real periods.
* ReadThroughCache: `MaxVersion` bounds the writes to a row (two make a row
  stale twice), two clients are a reader and a writer or two of either; the safety
  property is proved for any number. The lookup before an update is merged with
  it: no row is ever deleted.
* RateLimit: limits and window are scaled down (20, 100 and 60 s in the code);
  four requests exceed each limit. `MaxTime` spans more than a window, so
  members leave the set and the key expires. `MaxDelay` is below half a window. The
  calls of `MayFail` may fail or be sent again, in any combination; in the run that is
  one request with the lower limit, which is enough for four accepted requests
  where three are allowed; in `retry_after` nothing fails. In the proofs any
  requests may fail.
* RefreshTokens: five tokens are a login and four successors of it, twice as
  many as there are requests, or two logins that are each refreshed; two requests
  race for one token while a logout, which is a single call, comes in between. A request that may issue a token starts only while one is
  left (`Room`). `Fail` also stands for a process that dies, one request at a time.
* Delivery: `MaxTroubles` 2 bounds failures and broken connections together, which
  gives a prompt announced twice (a publication that fails after its effect, then
  the retry), a gateway that loses its subscription while a client reconnects,
  and a rollback after the announcement. One prompt announced several times is
  enough for order and repetition, two clients for "its own only". What the
  run leaves out, it leaves out because `EventuallyTold` or `NoOrphan` is false
  there: a crash between commit and publication and a failed publication whose
  rollback fails too leave a COMPLETED prompt that nobody announces, and after a
  lost lock a job that failed outside the `try` block is nobody's until the stalled
  check takes it back. `InOrder` and `EachOwn`
  are proved for all of these and for any number of processes, prompts and clients.
* Search: four rows exceed the batch of three by one, so every read may leave out a
  different row; pages of one and two give walks of up to four pages, and one change
  moves a row up, down, in or out of the matches, that of the cursor included.
  Contents cover no match, a match only for the database, and two higher scores; the
  proofs cover any contents. `r.id` stands for the place of a row's uuid in the
  order; `localeCompare` and `>` order lower-case uuids alike.
* Subscription: of three requests two race while the third signs a token; two
  tokens are one that was overtaken and one that was not. A token is issued only
  while a slot is free.

### Fairness

`Pipeline`: weak fairness of the poll handler, the worker and BullMQ's timers –
a cron that keeps ticking, an event loop that resumes settled promises, delayed
and stalled sets that are served. `ReadThroughCache`: weak fairness of a request
under way and of the expiry of each key. Users are never obliged to submit or to
write, failures never obliged to happen, and failures are finite. `Delivery`: the
fairness of `Pipeline`, and of each gateway's event loop, ioredis subscribing again
and messages arriving at an open socket; nobody is obliged to connect. `Search`: a
client that has a cursor asks for the next page. `Subscription`: requests under way
are finished and tokens expire. `RateLimit` and `RefreshTokens` state safety only. Both stop when their time or tokens are
used up, hence no deadlock check there; the other runs check it.

## 4. Proofs

Proved by TLAPS, for every value of the constants that satisfies the modules'
assumptions (finite sets of prompts, tokens and requests; positive limits and
attempts; distinct `None`; a delay below half a window):

| Theorem | Statement | Inductive invariant |
|---|---|---|
| `PipelineProofs!TypeCorrect` | `Spec => []TypeOK` | `TypeInv`: types, and a job, poll or worker that is busy has a prompt |
| `PipelineProofs!OneAudio` | `Spec => []CompletedHasAudio` | `SafeInv`: also, every prompt that is referred to exists (`Known`), and `AudioInv`: a worker past its commit, or that read an audio row, has one; the unique index keeps it single |
| `PipelineProofs!Refinement` | `Spec => Generates` | `SafeInv`; each step maps to a step of `Generation` or a stutter |
| `PipelineProofs!NoPromptOrphaned` | `Spec => []NoOrphan`, if only calls of the `try` block fail and locks are lost | `OrphanInv`: a PROCESSING prompt is carried by a poll about to enqueue it, a queued job, or a worker that will complete it or roll it back; a job that failed never is what carries it, because the rollback came first |
| `PipelineProofs!RetriesSuffice` | `NoOrphan`, if only calls of `process` fail, inside or before the `try` block (`AttemptFaults`), and a job has more attempts than that costs (`RetryBudget`) | `AttemptInv`: a worker holds the lock of its job (`LockInv`); an attempt lost is paid for by a failure, or by the one conflict that an insertion can cause (`SpentInv`); a PROCESSING prompt is carried as above or by a failed job (`RetryInv`), which the payment shows to have an attempt left |
| `PipelineProofs!OneFailure` | `NoOrphan`, if one call of `process` fails or one lock is lost, for any number of processes (`ProcessFaults`, `MaxFaults <= 1`, `RetryBudget`) | `EitherInv`: until something fails `OrphanInv` and `AttemptInv` both hold, afterwards the one for what failed |
| `PipelineProofs!OneJob`, `Announced`, `FinalCompleted` | `OneJobPerPrompt`, `AnnouncedOnce`, `CompletedIsFinal`, for one process (`OneProcess`) of which only polls, enqueues, reads before `try`, locks and the process itself fail (`OutsideFaults`) | `SingleInv`: one activation holds a batch, of PENDING prompts; until a prompt is handed to the queue no job and no worker has it; a worker past its lookup has a prompt that was not completed nor announced, until it commits |
| `PipelineProofs!AnnouncedBound` | `FewAnnouncements`: `published[p] <= 1 + 2 * faults`, for one process and every kind of failure | `BoundInv`: what was published and what is still `Due` without a further failure are within the bound; a failure adds at most two, a retried job and a prompt that is polled again. `AliveInv`: a worker past its lookup has a prompt that is not COMPLETED. `RunInv`: one activation holds a batch |
| `PipelineProofs!InOrderTaken` | `OldestFirst`, under the same two assumptions | `OldInv`: ranks are distinct, and what is left of a batch is older than every PENDING prompt outside of it |
| `PipelineProofs!PaidServedFirst` | `PaidFirst`, without assumptions | `TypeInv` |
| `ReadThroughCacheProofs!TypeCorrect`, `StaleExplained` | `TypeOK`, `StaleIsExplained` | `CacheInv`: a writer about to drop an own key has one |
| `ReadThroughCacheProofs!SequentialCoherent` | `Coherent`: nothing is stale while no write is under way, if there is one client, no call fails and every path invalidates (`OneByOne`) | `FreshInv`: a reader about to fill has the rows of now |
| `RateLimitProofs!TypeCorrect`, `AtMostLimit`, `RefusedJustly`, `HeaderInRange` | `TypeOK`, `WindowBound`, `RefusedOverLimit`, `RetryAfterInRange` | `SetInv`: a pipeline is not late, the key does not expire before the members whose `expire` succeeded leave the window, so the set holds every request of the window that was recorded. `BurstBound`: of any requests of a window that passed without an error, the last that was counted saw all the others. `Fresh`: what a request finds from its purge to its answer is of its window. `Justified`: what is counted is recent. `Waits`: `zrange` comes in time to find the request itself |
| `RefreshTokensProofs!TypeCorrect`, `TradedIn`, `Ended`, `Forks` | `TypeOK`, `TradedInIsRevoked`, `EndedStaysEnded`, `BoundedForks` | `TypeInv`: rows have a user and a login of that user. `TradedInv`: who is about to issue has revoked. `EndedInv`: the same as the property for requests past their lookup. `ForkInv`: successors of a revoked token and requests still trading it in are together at most the requests |
| `NotificationsProofs!TypeCorrect`, `Order`, `EachOwnTold` | `TypeOK`, `InOrder`, `EachOwn` | `RelayInv`: what was sent to a client (`told` then `wire`) rises, each inbox rises, and the former lies below the latter; who is not connected was sent nothing; an own announcement since the connection is sent, in the inbox or missed |
| `DeliveryProofs!Relays`, `SystemOrder`, `SystemEachOwn` | `System => Spec` of `Notifications`; `InOrder`, `EachOwn` of the system | none: each step of the system is a publication, a step of the gateways or a stutter of `Notifications` |
| `DeliveryProofs!Works`, `SystemTold`, `SystemNoOrphan` | `System => Spec` of `Pipeline`; `ToldHasAudio`, without assumptions; `NoOrphan`, under those of `NoPromptOrphaned`, `RetriesSuffice` or `OneFailure` | `LogInv`: every announcement in the log is of a prompt with its audio row. The rest comes from `PipelineProofs`, instantiated |
| `DeliveryProofs!SystemToldOnce` | `ToldOnce`: a socket gets one announcement of a prompt at most, for one process and `OutsideFaults` | `CountInv`: a prompt in the log was published. `LogOnce`: it is there once |
| `SearchProofs!TypeCorrect`, `PagesGoDown`, `NothingSkipped`, `BranchesAgree` | `TypeOK`, `Forward`, `NoneMissing`; the slice and the fallback leave the same items of any set | `WalkInv`: the cursor is the last item of the page and comes after all the earlier ones; if nothing was truncated, a match that did not move is shown or ranks after the cursor |
| `SubscriptionProofs!TypeCorrect`, `Repeats`, `TokenTier` | `TypeOK`, `FewRepeats`, `TierIsExplained` | `TierInv`: a token about to be signed carries the tier of the row unless overtaken. `RepeatInv`: the updates that repeated a change and those that still will are together fewer than the requests, for the one that made the change is neither |

The properties are not inductive by themselves: `WindowBound` says nothing of
requests between the count and the verdict, `BoundedForks` nothing of those
between the lookup and the insertion, `NoOrphan` admits a failed job as the
carrier of its prompt, and that job may lose its lock, `InOrder` nothing of a
gateway that a client is about to connect to, `NoneMissing` nothing of a walk that
is not done, `OneJobPerPrompt` nothing of a prompt that an activation is about to
enqueue. The strengthenings say what these carry.

The three theorems about `NoOrphan` cover the constants of every run that checks
it, and their assumptions are what the code needs. `RetryBudget` is tight: with two
processes, two failures and three attempts (the code's own number) the conflict of
the two transactions uses up the third, and the prompt stays PROCESSING. So it does
with two processes if a lock is lost and a call before `try` fails: the worker that
lost its lock marks PROCESSING what the next one has just completed, its call fails
after that effect, and the job ends with the other worker. `AnnouncedBound` is tight as
well: one failure can lead to three announcements, two to five. Likewise the
assumptions of `SystemToldOnce` and `SequentialCoherent`: with a publication that
may fail after its effect a socket is told twice, with a second client a response
stays stale.

`Delivery` states the assumptions of `Pipeline` about its constants
(`PipelineAssumption`), so that the theorems of `PipelineProofs` can be used for
the instance in it.

Model-checked only: all liveness (`EventuallyCompleted`, `EventuallyAnnounced`,
`EventuallyCoherent`, `EventuallyTold`, `EventuallyDone`, `EventuallyAgree`), which
is out of the prover's reach. Every safety property of the passing runs is proved.

## 5. Not modelled

* The session service: no module provides or injects it, so none of its operations
  can run. `deleteExpired` and `AudioRepository.create` have no caller either.
* Stateless code: signatures and hashing, validation, response shapes, the exception
  filter, Swagger texts, wiring and configuration, connecting and closing the
  clients. Of the JWT guard only what it lets through is part of a model.
* Cursors that this server never issued.
* The caches and the pipeline are separate models: the processor appears in
  `ReadThroughCache` as a writer that drops list keys, and in `Pipeline` its
  invalidation only succeeds or fails.
* That an announcement survives a crash between the commit and the publication: it
  does not. The program keeps no record of what it published (`published` of
  `Pipeline` is the model's own count), so nothing publishes it later. `Pipeline` has
  the crash; the runs that ask for the announcement leave it out.

## 6. What could be added

1. `Pipeline` with the cached prompt lists: when an owner who polls sees COMPLETED.
2. The bound on announcements (`AnnouncedBound`) for several processes, where a
   conflict of two transactions reopens a prompt without any failure.
3. Several gateways and prompts in `delivery`: safety is proved for any number, the
   liveness property is checked for one.
