# Verification of Dominus

TLA+ specifications of [Dominus](../src/README.md), the TLC configurations that
check them on small instances, and TLAPS proofs for every size. Paths below are
relative to the repository; the program itself is in its directory `src/`.

Dominus generates candidate domains, sends them through a pipeline of vetting
stages (DNS, RDAP, scoring, trademarks), stores and recommends what is left, and
looks after a portfolio of domains: watching, buying, listing, renewing, dropping.
It is a Node.js program of some 69 000 lines of TypeScript (725 files without the
tests) over SQLite or Postgres, with Redis as an option. It runs as an API server,
as any number of job workers, and as a scheduler, all of which share the database.

| module | models | checked by | proved in |
|---|---|---|---|
| `JobQueue` | the durable queue, its workers, its dead letters | `fleet`, `unreliable` | `JobQueueProofs` |
| `JobLedger` | what the queue promises, abstractly | `fleet` (`ImplementsLedger`) | `JobQueueProofs` |
| `StageLock` | the per-stage locks, their TTL, fence tokens and heartbeats | `lock_database`, `lock_fence` | `StageLockProofs` |
| `PipelineRun` | a run from `enqueueRun` to its result | `pipeline_run`, `run_persist` | `PipelineRunProofs` |
| `Lookup`, `MCLookup` | an availability lookup: cache, retries, race of servers, breakers, limiter, second opinion | `lookup` | `LookupProofs` |
| `Dns` | the Unbound resolver, its hosts' DNSSEC proof, caches, fallback, strict gate | `dns` | `DnsProofs` |
| `Account`, `MCAccount` | Stripe's webhooks, the subscription row, the meter of tracked names | `account` | `AccountProofs` |
| `Acquisition` | bids, purchases, the portfolio entry and its outcomes | `acquisition` | `AcquisitionProofs` |
| `PostAcquisition` | the journaled steps after a purchase | `post_acquisition` | `PostAcquisitionProofs` |
| `Watchlist` | the cron tick, the poll of a watched domain, the alert | `watchlist` | `LookupProofs` |

## 1. Inventory

### Job queue (`src/jobs`, `src/db/repositories/job-queue-repository.ts`)

State: the tables `job_queue` and `dead_letter_jobs`; in each worker a map
`#activeJobs`, an abort controller per job, timers for polling, heartbeats and
recovery, and the flags of the shutdown. Operations: enqueue with and without a
depth check, dequeue, complete, fail (retry with backoff, or bury), heartbeat,
`requeueStuck`, `retryDeadLetter`, prune, start and stop of a worker. It is called by
the API, the CLI and the scheduler, and calls the handlers in `src/jobs/handlers`.
Hard: claims of several workers; a worker that stops answering and is declared
stuck; `fail` as several statements with crashes between them; statements whose
answer is lost; shutdown with jobs in flight. Correct when: a job is executed by
one worker at a time, its writers still own its row, nothing accepted is lost or
buried twice, and everything accepted ends.

### Stage locks (`pipeline_locks`; `src/providers/redis/*lock*`, both adapters, `orchestrator.ts`)

State: lock rows with a worker, a fence token and an expiry; lock files for SQLite;
keys in Redis; the orchestrator's maps of locks, timers and failure counts; the
composite provider's memory of which provider gave which lock. Hard: the same run
executed by two processes after a false recovery, expiry under a working holder,
late unlocks, lost answers, Redis going up and down. Correct when: one process works
in a stage, a worker without its lock is told to abort, nobody takes away another's
live lock, and all locks come back.

### Pipeline runs (`src/pipeline`, `src/app/pipeline-run-service.ts`)

State: `pipeline_runs`, `pipeline_checkpoints`, `candidates`, `scoring_runs`,
`pipeline_run_metrics`; in the orchestrator the abort controller and the pending
checkpoint writes. Hard: a crash anywhere, aborts, budgets that end during a stage,
failures of single statements, checkpoints written without being awaited, batches
whose size adapts. Correct when: an incomplete result is flagged, nothing is
recommended that was not vetted, locks come back, row and job agree, a run ends.

### Lookups (`src/providers`: limiter, breakers, cache, failover, retry; `rdap-confirmation-stage.ts`)

State: tokens and the queue of the limiter, breaker states per server and one over
all, the in-flight map and the memory of `CachedProvider`, the rows of
`provider_cache`, the failover provider's memory of a run. Hard: concurrent callers
of one name, an abort signal shared by those who are coalesced, late answers, a
second opinion from the same origin as the first. Correct when: a name that is taken
does not survive the second opinion, a name has one fetch, nothing stale is served as
available, every lookup ends.

### DNS (`src/providers/dns/unbound-resolver.ts`, fallback, `dns-prefilter-stage.ts`)

State: per host health, failures, cooldown and the DNSSEC proof; the memory cache, the
rows and the saved host states in `provider_cache`; coalesced lookups. Hard: rounds of
probes that run beside lookups, a restart from saved proofs, purges that meet late
writes. Correct when: the strict gate lets no unproven "free" through, a host that has
stopped validating is noticed, a host that is up is used again.

### Account (`billing-service.ts`, `usage-meter-service.ts`, `pipeline-usage-enforcer.ts`)

State: `webhook_events` with a copy in each replica's memory, `tenant_subscriptions`,
`usage_records` per month, the names that are tracked. Hard: events late, twice and out
of order, claims whose handler fails or dies, races at the limit, a refund in another
month, a plan that changes under an addition. Correct when: an event counts once, an
unpaid plan is never granted, the limit holds, nothing tracked goes uncounted, no
claim swallows a redelivery.

### Acquisition and what follows it (`acquisition-service.ts`, `purchase-service.ts`, `post-acquisition-service.ts`)

State: `bids`, `portfolio_entries`, `outcomes`; `post_acquisition_steps` and the map
`#running`. Hard: calls for one domain that meet between the reads and the inserts of
each other, the registrar's sale outside any transaction, transactions that do not
contain their statements on Postgres, crashes between a step and its mark, runs chained
by promises. Correct when: outcomes go with entries, won bids are booked, sold domains
are tracked, done steps are neither repeated nor undone, every run gets its turn.

### Scheduler and watchlist (`scheduler-service.ts`, `watchlist-service.ts` and repository)

State: cron entries, slot locks; `watchlist_entries` with the mark of an alert. Hard:
replicas that fire the same tick, lost answers and deaths around the slot's lock, polls
that decide by rows read long before, edits and other polls under them. Correct when: a
tick is fired if nobody dies, a watched domain that drops is announced.

### Not modelled

| part | state | why not |
|---|---|---|
| SQLite transactions, pool, migrator (`src/db`) | one connection, transaction depth, lock file | the depth is shared by everything that awaits on the connection, so chains of two callers nest into savepoints of each other and either may roll the other back: no property worth stating passes. Migrations run once, before the program serves |
| Redis limiter, distributed breaker | keys | Lua scripts over a clock; `Lookup` has the local ones that stand in their place |
| team seats | seats, invitations | on Postgres two concurrent removals may leave no admin and concurrent invitations exceed the limit: nothing passes that is not a single statement |
| anonymous budget (`anon-budget-gate.ts`) | a limiter | an acquire that timed out stays in the limiter's queue; described below |
| listings and offers (`src/listing`) | listings, offers | the interesting properties fail (see section 5); the rest is one row at a time |
| drops, DNS writes, verdicts (`src/portfolio`, `src/trademark`) | outcomes, DNS records | read, decide, act by one operator; pure decisions over the answers of several sources, reached by unit tests |
| WHOIS, wire formats (the larger part of `unbound-resolver.ts`) | sockets | parsing |
| scoring (`src/scoring`), analytics, candidates, utilities | none | arithmetic without state; `PipelineRun` takes its outcome as a choice |
| API, CLI, config, generated API document | sessions | validation and translation into calls of the services above |
| composition root, metrics, health, notifiers | wiring | read-only reporting, fire-and-forget calls |

The frontend, deployment, scripts and acceptance tools stay out as well. `PROJECT.json`
lists under "hazards" what in this code is hard to test, at its line, with the
properties that watch it.

## 2. How the modelled parts interact

`enqueueRun` puts a `PIPELINE_RUN` job into the queue and a row into `pipeline_runs`. A
worker claims the job and calls the handler, which calls `runSync`, which calls the
orchestrator. The orchestrator takes a lock per stage; three failed renewals abort the
run's signal, as does the shutdown of the worker. When `runSync` throws, the worker
fails the job, and the queue retries or buries it. The DNS stage asks the Unbound
resolver and its strict gate; the RDAP stage asks the cached, retrying, racing
provider and then a second opinion. What survives may be bid on or bought: that adds
the name to the portfolio, books an outcome, and enqueues the job of the
post-acquisition steps. Adding a name to the portfolio or the watchlist goes through
the tenant's meter. The scheduler enqueues the watchlist's poll, whose lookups go to
DNS and RDAP again.

The modules are cut at these calls. `JobQueue` treats a handler as a step that ends;
`StageLock` treats a stage so and lets *any* processes execute the same run, whether or
not the queue would; `PipelineRun` has the executions of a run one after the other
(what `OneExecutionPerJob` proves of the queue while heartbeats land) with locks of one
holder each (`MutualExclusion`), and takes what a stage passes as a choice. `Lookup` and
`Dns` say what that choice is worth (`SurvivorsAreFree`, `PassedIsProven`).
`PostAcquisition` takes a job that is triggered, lost or retried by the queue, and
`Watchlist` one that the queue hands out (`EveryPayloadEnds`). `Account` has the insert
of a name as one statement; `Acquisition` leaves the meter out, which a failing call
covers.

## 3. The modules and the code

"map" in `PROJECT.json` gives the lines of every definition. The conventions are: every
`await` in code that shares state ends a step; a statement that fails is a step with
the code's error path; time is kept only as far as the code branches on it; a name,
payload or domain is a model value. Definitions called a *variant* are plausible
mistakes in the code of the definition below them; nothing uses them except the
mutation of that definition, after which its property must fail.

### JobQueue

`row` is `job_queue` by id, `dead` is `dead_letter_jobs`; `mode`, `phase`, `slots` and
`active` are a worker's life, its poll loop, the dequeues it may still issue and its
map; `execs` are the handler invocations with a step left. `accepted` and `settled` are
history. A row's `beat` (fresh or stale) stands for the comparison of the heartbeat with
`maxRunningAgeMs`, `due` for that of `scheduled_at` with now.

`fail()` is what it is in the code: read the row; requeue, or insert the dead letter and
delete the row. On SQLite the burial is one transaction; on Postgres its two statements
commit alone, since the repository does not use the transaction it is called with, and a
crash is possible between. `complete` and `fail` write by id, not by owner, so their
correctness is the invariant `ExecutionHoldsRow` and not a guard. `requeueStuck` is one
statement over all stale rows. `stop()` waits for the active jobs, or times out and
aborts them.

Switches: `SingleWriter` chooses SQLite or Postgres, `HeartbeatsLand` says that a
heartbeat sent in time keeps a row fresh, `AnswersArrive` that a statement that rejects
had no effect, `OperatorRetries` that somebody retries dead letters.

### JobLedger

A job is new, open, taken, done, buried or gone, with at most one holder; only the
holder settles it, and it is recovered only once its holder is lost.
`Ledger == INSTANCE JobLedger WITH ...` in `JobQueue` is the refinement mapping: the
row's status, with an absent row read as new, buried or gone, and as holders the
workers with an execution that can still write.

### StageLock

`backend` is the lock provider that is configured: the table on Postgres, the table and
a lock file on SQLite, or the composite of Redis and a database. `store` is
`pipeline_locks` and the keys in Redis, `files` the lock files; `stageLocks` and
`timers` are the orchestrator's maps and `owners` the composite's. The clock ticks once
per heartbeat interval and an entry has `left` ticks to live. Taking a free lock, meeting
one's own again, being refused and losing the answer are separate actions, for each of
which `Asked` says which provider is in turn. `LuaFinds` is Lua's `string.find` as the
scripts of `redis-lock.ts` call it: the token is a pattern there, in which the hyphens of
a UUID are operators, so it matches no UUID. `EndRun` is `#cleanupAllStageLocks`, which
drops the timers of every run of the orchestrator. `SamePid` gives all processes one pid,
as in containers, on Postgres, where the worker id is the pid.

### PipelineRun

Stage 1 generates, the others split what comes in. `exec[e]` is the e-th execution of
the job and its local state, `saves` the checkpoint writes sent and not awaited. `Ends` is
the end of a stage in `#runStageWithCheckpoint`, with the check of abort and deadline
after every stage but the last. `NewSizes` and `Onwards` are the persistence loop whose
step is changed by its own body. `vetted` is history.

Abstracted: which candidates a stage passes is a choice; generated random names are left
out, so that every execution has the same candidates; a second late save of the same
stage is not told apart from the first; tenants, usage metering and progress events are
left out. The TTL of a dead execution's lock ends some time.

### Lookup

A caller is a candidate in `RdapConfirmationStage`; `call` is where it is between the
memory and rows of `CachedProvider` (`memory`, `row`, `inflight`), the attempts of
`RetryingRdapProvider` under its breaker (`global`) and the race of
`FailoverRdapProvider` (`recent`, `breaker`, and `req`, its request to each server).
All requests draw from one limiter (`tokens`, `queue`), in which the lookups of other
TLDs stand as well. `Told`, `TellOwner` and `TellAll` are the answers to the callers that
were coalesced. `InOrder` puts servers into the order in which `withDefaults` lists them: a
race asks those whose breakers allow it in that order, and the first definite answer in
it wins. `Decide` is the second opinion: a server of another origin, or WHOIS,
must say "free" too, and `Overlap` decides what another origin is. `truth` is who has
each name and `liar` the one source that may be wrong about it: without an assumption
of that kind no consensus means anything.

### Dns

A host validates, does not (`lax`), or is down. `health` is `#hostHealth`, `round` the
round of probes at boot or by the timer, and `Probe` and `ProbeFails` its step for one
host; `Purge` follows when the proof of a host was refuted. A lookup reads the row, asks
the first usable host, and tells all that were joined to it; `Wrapped` is
`FallbackResolver`, `Passes` the strict gate. `drifted` names the hosts that have stopped
validating while a proof of theirs stands, which nobody can know before the next round:
an answer is `wrong` if it says "free" of a taken name and comes from a host that is not
among them.

### Account

`handler` is what a replica does with a delivery, `claims` the rows of `webhook_events`;
the copy of a claim in the memory of the replica is held as long as the handler works.
`fate` says of each event whether Stripe still redelivers it. Writing the subscription
is a read of the price and then a write (`Resolve`, `Write`). An addition reads the
limit, increments if within it, inserts, and refunds if the insert failed, to the month
it is then. `blind` counts the faults after which a statement has taken effect though it
was reported failed.

### Acquisition

`call` is a call of `place`, `resolve` or `execute`; `bids` are the rows in the order of
`bid_placed_at`. On SQLite a resolution is one transaction (`ResolveAtOnce`); on Postgres it
is `LookAgain`, `Mark`, `AddEntry`, `CheckEntry` and `Book`, each committing alone. A
purchase is `Gate`, `Sale` and the latter three. Adding and removing by hand meet them.
`adds`, `added` and `booked` are history.

### PostAcquisition

`journal` is `post_acquisition_steps`, `tail` what `#running` names, and `run[r].after`
the promise that a run waits for. An executor is one step between `StartStep` and
`Mark`, since what it does to DNS or a marketplace is idempotent only as far as the
journal makes it. A crash loses all runs in flight and the queue puts their jobs back; a
run by hand is gone. `Settle` is the end of a run: who waits goes on, and `#running` is
cleared only by the run it names.

### Watchlist

`fire` is how far each replica is with the current tick, `keys` the providers that hold
the slot's lock. `AskRedis` and `AskDatabase` are the composite's `tryLock`: a refusal by
Redis falls through to the database, as does an error; without Redis no lock is
configured at all, and every replica fires. The poll reads the rows, then for each one
looks up DNS and RDAP (one step here: `Lookup` and `Dns` have the inside), updates the
row, which takes away the mark of an alert, and announces a free domain and marks it. One
entry stands for all. `entry.recent` is the comparison of `last_checked_at` with the
cutoff.

## 4. Runs

All passing runs finish with no error; the sizes are distinct states, the times those of
TLC with two workers.

| run | states | time | question |
|---|---|---|---|
| `fleet` | 169 000 | 95 s | a worker and its replacement on SQLite, two jobs, crashes, shutdowns, requeues: single execution, ownership, books, burials, refinement, and that payloads and shutdowns end |
| `unreliable` | 627 000 | 14 s | one worker with two slots on Postgres, heartbeats that do not land, lost answers, operator retries: nothing is lost, slots are respected |
| `lock_database` | 80 600 | 42 s | three processes, one run, two stages on Postgres or SQLite: exclusion, renewal or abort, locks come back |
| `lock_fence` | 2 140 000 | 82 s | two processes, two runs, Redis and database or SQLite, late timers, lost answers: only the holder releases |
| `pipeline_run` | 1 070 000 | 113 s | one candidate, three stages, two executions, all failures: completeness, vetting, locks, agreement, end |
| `run_persist` | | | the finding below |
| `lookup` | 472 000 | 100 s | two lookups of one name, two servers, one of which may lie: consensus, coalescing, staleness, end |
| `dns` | 491 000 | 92 s | two lookups of a taken name, two hosts, three events: the gate, the proofs, revival |
| `account` | 1 490 000 | 30 s | two replicas, two events, two additions, two months, two faults: events once, plans paid, the limit, the meter, the claims |
| `acquisition` | 128 000 | 2 s | three calls for a domain on both backends: outcomes, won bids, sales |
| `post_acquisition` | 192 000 | 20 s | three runs of two steps, a reset, a fault: no repetition, no undoing, everybody's turn |
| `watchlist` | 291 000 | 74 s | two replicas, two polls, a fault: ticks are fired, drops announced |

**Bounds.** *JobQueue*: `MaxJobs` 2 and two payloads give two priorities and a full
queue; `MaxAttempts` 2 gives a retry and a burial, `MaxClaims` 3 one recovery on top; two
workers are enough for any interference of pairs, which is what the invariants speak of.
`fleet` has one slot per worker, which its liveness needs to stay small (with two slots
a third of the time is spent on orders of two equal jobs); two slots are in
`unreliable`, and the theorems have any number. *StageLock*: `Ttl` 4 is 120 s over 30 s,
the configured ratio; it leaves one tick beyond the three failures after which a run
aborts. `MaxTokens` bounds how often a lock is taken: once by every process in both
stages but one. In `lock_fence` the TTL is 2, which makes expiry under a working holder
common. *PipelineRun*: `LastStage` 3 has a generating, a middle and a last stage, which
are the three kinds the code treats differently; `MaxExecs` 2 a first attempt and a
retry. One candidate is enough for the safety of `pipeline_run`, as a property that fails
for a set fails for one of its members and the stages treat each by itself; the batch
loop needs two, and `run_persist` has two. *Lookup*: a bucket and a queue of one make
every wait happen, thresholds of one every breaker; one stale window is what a row
survives at most. *Dns*: three events are a start, a change of a host and a restart or a
lost probe, in any order; with four the runs only repeat one of them. *Account*: limits of
1 and 2 put a downgrade below the usage. *Acquisition*: two rows of bids, so that the
latest changes under a call; two entries, so that one is removed and comes back; three
calls, as the invariants relate two to one that has ended. *PostAcquisition*: three runs
are the head of the chain, one in it and its tail. *Watchlist*: users, drops and
catches are not bounded; one fault at a time, `MaxJobs` 2 for both replicas.

`CHECK_DEADLOCK FALSE` stands in the runs of `PipelineRun`, `Acquisition` and
`PostAcquisition`, in which the work ends.

The type invariants of all these modules are proved; the runs check them where a
mutation of the code can break them.

**Fairness.** *JobQueue*: timers fire, a claim that is enabled again and again is made
(`SF`: `SKIP LOCKED` and the single writer hand rows out among competitors, each of which
polls on), handlers end because they have timeouts, processes are restarted by their
supervisor, backoffs and ages pass. Crashes, shutdowns and enqueues are not fair.
*StageLock*: the clock ticks, timers fire, stages end (they have budgets).
*PipelineRun*: an execution goes on (statements answer or are rejected, stages have
budgets), and the job is handed out again, which is `JobQueue`'s own `EveryPayloadEnds`.
*Lookup*: the limiter refills and grants, and a lookup goes on, since every request has
a timeout. *Dns*: only the interval of the rounds and the cooldown of a host; lookups
may stay away. *PostAcquisition*: a run goes on, since the executors' requests time out;
jobs need not be run. *Watchlist*: cron ticks, awaits end, jobs are handed out (`SF`), a
check grows old, and lookups of a free domain do not fail for ever (`SF`), without which
nothing could be announced.

## 5. What the code does otherwise

**Finding** (`run_persist`, `PersistsAll`): a fast batch doubles the step of the `for`
loop before it is added (pipeline-run-service.ts:389-399), and 500 candidates are stepped
over in a run that counts as complete, though the comment at 283 says that all results
are persisted.

**Seen while modelling**, without a run of their own. Each bounds what the properties
can say, and the comments of the properties name the exceptions.

*Queue.* `requeueStuck` ignores `max_attempts`, so a job that kills its worker is claimed
for ever (docs/diagrams/job-execution.md:109 has it dead-lettered). `stop()` returns
while a dequeue is in flight (:43), and aborted jobs do not become "cancelled" (:44). On
Postgres the depth check counts on each session's snapshot
(job-queue-repository.ts:93), so two sessions may both pass it, and a burial may leave
two letters. A rejection of `requeueStuck` in the poll loop (worker.ts:162) is not
caught.

*Locks.* A process that Redis *refuses* gets the same lock from the database
(composite-lock-provider.ts, `tryLock`), with Redis up all the time. Fenced renew and
unlock on Redis never match (src/types/lock.ts:34 describes them as working), so Redis
locks end with their TTL and their runs abort. "Always release file lock" releases a file
lock that holds nothing (sqlite-adapter.ts:464). Equal pids in containers share locks on
Postgres (postgres-adapter.ts:130); meeting one's own lock there does not refresh it.
`#cleanupAllStageLocks` clears the heartbeats of other runs (orchestrator.ts:429).

*Runs.* An abort in the last stage truncates its result, unflagged
(orchestrator.ts:688). Checkpoints of stages 2 to 5 are saved under names that
`getResumeIndex` does not know, so a retry starts over. `reapOrphanedRuns`, documented as
called at worker startup, is called by nothing.

*Transactions.* Callers that open a transaction on Postgres do not use it
(job-queue-repository.ts:220, acquisition-service.ts:135, pipeline-run-service.ts:376 and
427, metrics-repository.ts:51) and hold one client of the pool while they ask for another.

*DNS.* A lookup that times out counts as a success of its host; only a full limiter marks
a host unhealthy; proactive revival stands behind the quorum check that it would have to
satisfy; `checkBulk([])` never resolves; a proof that a round has refuted comes back with
a restart before the round ends; the fallback's own "available" is returned unchecked.

*Lookups and meter.* When RDAP gives no answer, `#checkAvailability` takes the word of
WHOIS (rdap-confirmation-stage.ts:588), and when the second RDAP server gives none
either, the rescue asks WHOIS again (:419); so a name may pass on the word of one source,
where src/config.ts:812 has a second RDAP provider confirm it independently. With
`Liars = {"whois"}` TLC finds `SurvivorsAreFree` violated, and `ConsensusIsSound` excludes
that case by name. An acquire of the anonymous budget that timed out stays queued and
takes a token for nobody. A refund is booked to the month it is made in, so the month
charged stays overcounted and the next is undercounted.

*Acquisition.* On Postgres a won bid may stay won without an entry or an outcome. A loss
that races a win leaves a lost bid with an entry; two concurrent calls leave two pending
bids. A sale followed by a failing insert leaves a domain tracked by nobody. A
post-acquisition run that is aborted returns normally, so that its job is completed and
not retried; runs are serialised within one process only. Listings: `syncAll` and
`recordOffer` may revive a sold listing, and an offer may list a draft that the trademark
gate has not seen.

*Scheduler and watchlist.* scheduler-service.ts:23 says that two replicas never fire the
same tick. Without Redis they have no lock (composition-root.ts:1097 says they have the
database's), and with it the second one gets the database's lock after Redis has refused.
`updateStatus` takes the mark of an alert away at every check, so a domain that stays
free is announced on every second poll. The scheduled poll runs outside of any tenant
and so polls the default one's rows only. `last_checked_at` in ISO form is compared with
a cutoff in another form (watchlist-repository.ts:61), so a check of the same day is
never old. An entry removed under a poll makes it report an error.

## 6. Proofs

`JobQueueProofs` proves for every set of workers and payloads and all bounds:

| theorem | says | assumes |
|---|---|---|
| `TypeCorrect` | `[]TypeOK` | |
| `SlotsAreRespected` | `[]WithinConcurrency` | |
| `NothingIsLost` | `[]NothingLost` | |
| `OneExecutionPerJob` | `[]SingleExecution` | `Reliable` |
| `WritersHoldTheRow` | `[]ExecutionHoldsRow` | `Reliable` |
| `MapIsExact` | `[]MapMatchesExecutions` | `Reliable` |
| `CompletedStays` | `CompletedIsFinal` | `Reliable` |
| `BuriedOnce` | `[]OneLetterPerJob` | `Reliable`, `SingleWriter` |
| `QueueImplementsLedger` | `ImplementsLedger` | `Reliable`, `SingleWriter` |

`Reliable == HeartbeatsLand /\ AnswersArrive` is no convenience: without it the
statements are false, as the queue recovers a job whose worker only seems dead. Nor is
`SingleWriter`: on Postgres a death between the two statements of a burial leaves a letter
and a row. What does not need them, above all `NothingLost`, is proved without.

*The argument.* `SingleExecution` is not inductive: nothing in it keeps a queued or stale
row from having an execution. `Tracked` is the strengthening: besides `SingleExecution`
and `ExecutionHoldsRow`, the process of every execution is alive with its database open,
it lists the job among its active ones once it is started, and the row's heartbeat is
fresh. Then `requeueStuck`, which takes stale rows, takes none with an execution, and a
claim, which takes queued rows, makes no second one. Each action either moves one
execution and keeps its row (`MovedTracked`), removes one and may then change the row
(`LeftTracked`), or touches rows without an execution (`FramedTracked`, `InsertTracked`).
`StepShape` says what a step can do to a row, which gives `CompletedIsFinal`.
`MapMatchesExecutions` has two directions. That a running execution is in its worker's map
is a part of `Tracked`; that an entry has an execution which started it is `Listed`, which
holds without `Reliable`: an entry comes with the start of an execution and goes when one
of that job leaves. Only together are they exact, as the map has one entry per job, which
a second execution of the job on the same worker would overwrite and take away when it
ends. `Lettered` adds that the job of a letter has no row left to be buried once more.
`NothingLost` must hold although jobs run twice and letters are written twice, so it rests
on names instead: `Named` says that attempts identify executions and letters, so that an
operator's retry, which deletes one letter, never deletes the only trace of another
burial, and `Kept` that each payload accepted is held by something else once its letter is
about to be deleted. The refinement takes each action to one of the ledger's or to a
stutter (lemmas `Ledger...`).

`PipelineRunProofs` proves for every finite set of candidates, number of stages,
executions and attempts, and all batch sizes that satisfy `PipelineRunAssumption`:
`RunTypeCorrect` (`[]TypeOK`, of which the bounds of the batch size are a part),
`RecommendedVetted` (`[]RecommendedIsVetted`), `CleanRunComplete`
(`[]CleanRunIsComplete`), `LocksReleased` (`[]LocksAreReleased`) and `JobAndRow`
(`[]JobAndRowAgree`).

*The argument.* `Moved` says what an action does to the execution that takes it, to the
locks, the job and the row; `ActionTyped` shows it of every action, and the locks and the
agreement of job and row then need no case per action. `JobAndRowAgree` rests on
`OneByOne`: all executions before the one that lives are over or dead, and one that is
done has completed the row; so nothing takes the row back before the job is completed.
`RecommendedIsVetted` and `CleanRunIsComplete` speak of finished results only; `Sound`
extends them to every position: before stage *s* what has passed was passed by all stages
below *s*, and passed and filtered are all candidates unless a flag shows why not. A
resume skips stage 1, which is sound because its checkpoint exists only once stage 1 has
passed everything (`Stage1Saved`), however late the write lands. `EndsSteady` is the step
that matters, the end of a stage, in all the ways a stage can end; `KeepsSteady` and
`QuitsSteady` cover the rest.

`AcquisitionProofs` proves for every finite set of calls, both backends and all bounds:
`AcquisitionTypeCorrect` (`[]TypeOK`), `OutcomesHaveEntries` (`[]BookedOnce`),
`WonBidsAreBooked` (`[]WonIsBooked`) and `SalesAreTracked` (`[]PaidIsTracked`).

*The argument.* `BookedOnce` counts over calls, so its strengthening `Counted` adds the
calls that have added an entry and still owe its outcome: outcomes booked and owed are no
more than entries added. `OwingMoves` says how that number changes when one call moves,
and no more is needed of cardinalities. `Aimed` says that a call that settles a bid has
one to settle, which keeps a resolution from counting a row twice; an entry there means
one was added, which is what a purchase that meets a duplicate relies on.

`PostAcquisitionProofs` proves for any number of runs and steps: `PostTypeCorrect`
(`[]TypeOK`), `DoneNotRepeated` (`DoneIsNotRepeated`) and `DoneStaysDone` (`DoneStays`).

*The argument.* Both are about steps, and neither follows from the types: a run marks
what it believes, so no two may work at once. `Chain` says that the runs in flight stand
in a line, given by a sequence without repetition, in which each waits for the one before
it and `#running` names the last; so only its head works. It is kept by a run that joins
at the end (`EnterKeepsChain`), by the head that leaves, whether it ends or is rejected,
and by a crash, which empties it. `Sound` adds that the head works on a step that is not
done.

`AccountProofs` proves for every set of replicas, plans and additions, any limits and all
bounds: `AccountTypeCorrect` (`[]TypeOK`), `EventsAreAppliedOnce` (`[]AppliedOnce`),
`GrantsArePaid` (`[]GrantWasPaid`), `UsageIsCapped` (`[]WithinALimit`),
`ClaimsAreNotOrphaned` (`[]NoOrphanClaim`) and `MeterCovers` (`[]MeterCoversTracked`),
from `AccountAssumption` and `NoRowAssumption`, which only say that the limits are numbers
and that `None` is nothing else.

*The argument.* `AppliedOnce` says nothing of an event that is about to be carried out
again. `Counted` does: an event that may still be carried out, because it is unclaimed
or a handler holds its claim, has only been so by statements that took effect though
they failed. It is kept because a claim has one holder at most (`OneHolder`), so the
handler that carries an event out leaves nobody who could do it again, and because only
the holder gives a claim back. `Working` says that a handler has the claim of its event,
a plan that was paid for, and a row if it leaves the plan to the row. `GrantWasPaid`
follows from it with `Granting`: the events that carry a plan come from active
subscriptions. For `WithinALimit`, `Capped` adds that a limit an addition has read
belongs to a plan that was paid for, even if it is not the plan of today. `HandlerKeeps`
is the lemma about a handler's step, `MeteringKeeps` that about an addition's.

`MeterCoversTracked` compares a sum over all months with what is tracked, and a refund is
booked to the month in which it is made. `Covered` makes that inductive: the sum and
`blind` are no less than the tracked names and the additions that have counted and not yet
ended (`Busy`), whatever month they counted in; a refund takes one from both sides. The
sum is a fold of the community modules, of which the prover knows nothing. `SumExists`
and `SumOverAdds` show that the recursive function it stands for exists and is a sum of
naturals, `SumIs` that it is the fold, and `SumChanges` that changing one month changes
the sum by as much. These are inductions on the size of a set, and the library's
induction theorems take an operator the prover cannot instantiate; they are done by the
least counterexample instead (`NatMin`, `NatSteps`, from the well-foundedness of `<`),
where what is proved of every number is a set and not an operator.

`LookupProofs` proves for every set of callers and names, any sequence of servers, all
thresholds, bucket and queue sizes, and all bounds: `LookupTypeCorrect` (`[]LookupTypeOK`),
`FetchesAreShared` (`[]OneFetchPerName`), `FreeIsRecent` (`[]AvailableIsRecent`) and
`ConsensusIsSound` (`[]SurvivorsAreFree`), the last from `WhoisIsRight`: if WHOIS may stand
in for the second server, WHOIS is not the source that wrongly says "free". Without it the
statement is false (section 5); without the rescue, WHOIS may be that source.

*The argument.* What the second opinion judges was said long before, perhaps to another
caller: `LookupInv` follows an answer from where it is given to where it is used. `Says`
is what is true of an answer anywhere: if it is not old and calls a taken name free, the
liar gave it, and it carries the liar's name, which is what `Overlap` reads. `CachesSay` has
it of the rows, the memory and the failover provider's memory, `CallsSay` of what a caller
was told, `RacesSay` of the replies of a race. `Serves` adds that the answer is not stale; the
rows may hold stale answers, and the memory and the callers hold none, since the one step
that reads a row refuses them and the window goes by only when no lookup is in flight.
Then a taken name that passes would need the liar twice: its first answer is the liar's,
the second server is the liar, and the guard against a shared origin has told them apart.
`Owned` is the coalescing in both directions: `#inflight` names a caller if and only if that
caller is fetching that name, so the end of a fetch (`AllAreTold`) finds everybody who
joined it. `Queued` says that what waits in the limiter is a request of a race that is
still on, each once; a race therefore cannot end under a request that is later granted.
`AttemptAnswersKeeps`, `AttemptFailsKeeps` and `RaceStarts` are the lemmas about the three
things an attempt can do.

A poll of the watchlist is a series of lookups, and the proofs about the watchlist are in
the same module: for every set of replicas and all bounds `WatchlistTypeCorrect`
(`[]TypeOK`) and `TicksAreFired` (`[]TickIsFired`).

*The argument.* The strengthening is `Answered`: while a tick is open somebody is at it,
and if the slot's row is in the database, somebody is about to enqueue. A replica
steps back only when the database refuses it, which it does only if the row is there, so
it leaves behind one that has yet to enqueue. A refusal or a lost answer of Redis does
not matter, since both send the replica on to the database.

`StageLockProofs` proves for every set of processes, runs and stages and all bounds
`StageLockTypeCorrect` (`[]TypeOK`) and `FenceHolds` (`OnlyHolderReleases`), whatever the
backend, the pids and the timers. `Exclusion` (`[]MutualExclusion`) and `WorkersHold`
(`[]HoldsWhileWorking`) assume `Steady`, and each part of it is needed: the table and not
Redis, whose fenced renewals match nothing and whose refusals the database overrules;
no shared pid, which is one worker to the table; statements that have no effect when they
fail; timers in time and a `Ttl` above the three failures after which a run is aborted;
and one run, since the end of another run in the same orchestrator takes its timers away
(`EndRun`), after which its lock expires while it works.

*The argument.* The fence is a matter of single steps (`Fenced`): a live entry is
overwritten by none but its worker, and freed only by a delete that names its token. Mutual
exclusion is not inductive: two processes could be one step from working under an
entry that has run out. `Excluding` adds, of a process at work, that it has exactly one
entry and one timer, for the lock it works under, that the row is its own with the
entry's token, and that the time left, the failures counted and a timer that is due make
up the TTL (`Holds`), so the row cannot run out before the third failure has aborted the
run; and of a live row, that its worker is at that stage or dead (`Accounted`). A row has
one worker, hence the exclusion. `Untouched` and `AccountKept` deal with those that take
no part in a step; meeting one's own lock or a forgotten entry does not happen at all
(`TakeOwnNever`, `EndStageForgottenNever`).

`DnsProofs` proves for every set of hosts, names and lookups `DnsTypeCorrect` (`[]TypeOK`)
and `GateIsProven` (`[]PassedIsProven`), from `DnsAssumption` and `NoAnswerAssumption`,
which says that `None` is no answer.

*The argument.* What the gate passes depends on answers that are told long after the host
gave them: from the memory, from the row, to a caller that joined. `Answers` says of all of
these that none is both marked valid and wrong. A new one is marked valid only with the
proof of its host, and `Proofs` says that a host that does not validate has none, in the
process or saved, unless it has only stopped (`drifted`), in which case its answers are
not counted as wrong. A restart takes the saved proofs, a round replaces them, and the
fallback marks nothing valid.

*Only model-checked:* the liveness properties `EveryPayloadEnds`, `ShutdownEnds`,
`LocksComeBack`, `EveryRunEnds`, `LookupsEnd`, `LaxIsNoticed`, `UpIsUsed`, `CalledRuns` and
`DropIsAnnounced`, which need fairness and `ENABLED` and so are out of the prover's reach.
Every invariant, action property and refinement that a passing run checks is proved.

## 7. Plan

1. All modules of section 3 with their runs, and the proofs of section 6: done.
2. Every safety property of the runs as a theorem, the last of which were
   `MapMatchesExecutions`, `MeterCoversTracked` and those of `Lookup`: done.
3. More of what lies around the modelled parts: manual runs of the scheduler, listings
   once their rules hold.

Runs are few by intent: one per question.
