------------------------------- MODULE JobQueue -------------------------------
(***************************************************************************)
(* The durable job queue (tables job_queue and dead_letter_jobs), the      *)
(* JobWorker processes that drain it and the service calls that fill it.   *)
(*                                                                         *)
(* Every await of the code is a step boundary: a claim, the resumption of  *)
(* the poll loop after it, the handler, and each round trip of complete()  *)
(* and fail() are steps of their own, so other workers act in between.     *)
(*                                                                         *)
(* Time is kept only as far as the code branches on it: a row's backoff is *)
(* over or not (due), and its heartbeat is younger than maxRunningAgeMs or *)
(* not (beat).                                                             *)
(***************************************************************************)
EXTENDS Naturals, FiniteSets

CONSTANTS
    Workers,         \* worker processes: one id per incarnation (hostname:pid:uuid)
    FirstWorkers,    \* the ones running at the start; the others boot later
    NoWorker,        \* locked_by IS NULL
    Payloads,        \* units of work submitted by callers
    NoPayload,       \* payload of an id not yet handed out
    High,            \* the payloads submitted with the higher priority
    MaxJobs,         \* bound: job ids ever handed out
    MaxClaims,       \* bound: claims of one row
    MaxAttempts,     \* max_attempts of a row
    MaxDrops,        \* bound: first attempts that may leave their row running
    Concurrency,     \* WORKER_CONCURRENCY
    MaxDepth,        \* JobQueueServiceOptions.maxQueueDepth
    SingleWriter,    \* TRUE: SQLite, one writer; FALSE: Postgres, READ COMMITTED
    HeartbeatsLand,  \* TRUE: a heartbeat sent every heartbeatIntervalMs keeps beat fresh
    AnswersArrive,   \* TRUE: a statement that rejects has had no effect
    OperatorRetries  \* TRUE: somebody calls retryDeadLetter

ASSUME JobQueueAssumption ==
    /\ FirstWorkers \subseteq Workers
    /\ NoWorker \notin Workers
    /\ NoPayload \notin Payloads
    /\ High \subseteq Payloads
    /\ MaxJobs \in Nat \ {0}
    /\ MaxClaims \in Nat \ {0}
    /\ MaxAttempts \in 1 .. MaxClaims
    /\ MaxDrops \in Nat
    /\ Concurrency \in Nat \ {0}
    /\ MaxDepth \in Nat \ {0}
    /\ SingleWriter \in BOOLEAN
    /\ HeartbeatsLand \in BOOLEAN
    /\ AnswersArrive \in BOOLEAN
    /\ OperatorRetries \in BOOLEAN

VARIABLES
    row,        \* job id -> the row of job_queue
    dead,       \* dead_letter_jobs
    nextId,     \* AUTOINCREMENT: the last id handed out
    admitted,   \* Postgres: payloads whose INSERT has counted but not yet committed
    retry,      \* an operator's retryDeadLetter in progress: its step and letter
    mode,       \* life of each worker process
    phase,      \* where each worker's poll loop is
    slots,      \* dequeues that loop may still issue
    active,     \* #activeJobs: a Map keyed by job id
    execs,      \* executions with a step left to run: worker, job, attempt, step
    accepted,   \* history: payloads whose enqueue returned an id
    settled     \* history: payloads completed, or whose dead letter expired

queueVars == <<row, dead, nextId, admitted, retry, accepted, settled>>
procVars  == <<mode, phase, slots, active>>
vars      == <<queueVars, procVars, execs>>

JobIds == 1 .. MaxJobs

\* "absent": not inserted yet, or deleted (the other columns then are history)
Row == [status: {"absent", "queued", "running", "completed"},
        payload: Payloads \cup {NoPayload},
        high: BOOLEAN,
        attempts: 0 .. MaxClaims,
        owner: Workers \cup {NoWorker},
        beat: {"null", "fresh", "stale"},
        due: BOOLEAN]

\* by: the attempt that buried the job; one row of the table per burial
DeadLetter == [job: JobIds, payload: Payloads, by: 1 .. MaxClaims]

Modes  == {"new", "up", "stopping", "stopped", "forced", "down"}
Phases == {"idle", "claiming", "reaping"}
Steps  == {"claimed", "handling", "completing", "failing", "requeuing",
           "burying", "inserting", "deleting"}
Exec   == [w: Workers, j: JobIds, n: 1 .. MaxClaims, at: Steps]

NoRow == [status |-> "absent", payload |-> NoPayload, high |-> FALSE,
          attempts |-> 0, owner |-> NoWorker, beat |-> "null", due |-> FALSE]

QueuedRow(p, isHigh) ==
    [status |-> "queued", payload |-> p, high |-> isHigh, attempts |-> 0,
     owner |-> NoWorker, beat |-> "null", due |-> TRUE]

\* Every variable keeps its type.
TypeOK ==
    /\ row \in [JobIds -> Row]
    /\ dead \subseteq DeadLetter
    /\ nextId \in 0 .. MaxJobs
    /\ admitted \subseteq Payloads
    /\ retry \subseteq [at: {"read", "inserted"}, letter: DeadLetter]
    /\ mode \in [Workers -> Modes]
    /\ phase \in [Workers -> Phases]
    /\ slots \in [Workers -> 0 .. Concurrency]
    /\ active \in [Workers -> SUBSET JobIds]
    /\ execs \subseteq Exec
    /\ accepted \subseteq Payloads
    /\ settled \subseteq Payloads

-----------------------------------------------------------------------------
(* Views of the state *)

Pending == {j \in JobIds : row[j].status \in {"queued", "running"}}

\* the process is alive and its database handle open
DbOpen(w) == mode[w] \in {"up", "stopping", "stopped", "forced"}

\* rows dequeue() may pick: due, and of the highest priority among those
DueRows  == {j \in JobIds : row[j].status = "queued" /\ row[j].due}
Eligible == {j \in DueRows : row[j].high \/ \A i \in DueRows : ~row[i].high}

\* a dequeue of w has claimed a row and its answer is on the way
Awaiting(w) == \E e \in execs : e.w = w /\ e.at = "claimed"

\* the row's owner vouches for it: its heartbeat timer lists the job, or its
\* shutdown has begun, and that is shorter than maxRunningAgeMs
Refreshed(j) ==
    \E w \in Workers :
        /\ row[j].owner = w
        /\ DbOpen(w)
        /\ \/ j \in active[w]
           \/ \E e \in execs : e.w = w /\ e.j = j /\ e.at = "claimed"

Init ==
    /\ row = [j \in JobIds |-> NoRow]
    /\ dead = {}
    /\ nextId = 0
    /\ admitted = {}
    /\ retry = {}
    /\ mode = [w \in Workers |-> IF w \in FirstWorkers THEN "up" ELSE "new"]
    /\ phase = [w \in Workers |-> "idle"]
    /\ slots = [w \in Workers |-> 0]
    /\ active = [w \in Workers |-> {}]
    /\ execs = {}
    /\ accepted = {}
    /\ settled = {}

-----------------------------------------------------------------------------
(* Filling the queue *)

Insert(p, isHigh) ==
    /\ nextId < MaxJobs
    /\ nextId' = nextId + 1
    /\ row' = [row EXCEPT ![nextId + 1] = QueuedRow(p, isHigh)]

\* enqueueWithDepthCheck on SQLite: count and insert are one statement of the
\* only writer
EnqueueSqlite(p) ==
    /\ SingleWriter
    /\ p \notin accepted
    /\ Cardinality(Pending) < MaxDepth
    /\ Insert(p, p \in High)
    /\ accepted' = accepted \cup {p}
    /\ UNCHANGED <<dead, admitted, retry, settled, procVars, execs>>

\* the same statement on Postgres counts on the snapshot it takes when it
\* starts; rows other sessions have not committed are not in it
AdmitPostgres(p) ==
    /\ ~SingleWriter
    /\ p \notin accepted \cup admitted
    /\ Cardinality(Pending) < MaxDepth
    /\ admitted' = admitted \cup {p}
    /\ UNCHANGED <<row, dead, nextId, retry, accepted, settled, procVars, execs>>

CommitPostgres(p) ==
    /\ p \in admitted
    /\ Insert(p, p \in High)
    /\ admitted' = admitted \ {p}
    /\ accepted' = accepted \cup {p}
    /\ UNCHANGED <<dead, retry, settled, procVars, execs>>

\* mutant of RetryRead: the letter is deleted before the job is enqueued
RetryReadDeletes(d) ==
    /\ OperatorRetries
    /\ retry = {}
    /\ d \in dead
    /\ retry' = {[at |-> "read", letter |-> d]}
    /\ dead' = dead \ {d}
    /\ UNCHANGED <<row, nextId, admitted, accepted, settled, procVars, execs>>

\* retryDeadLetter: read the letter, enqueue() without the depth check, delete
\* the letter; three statements, no transaction
RetryRead(d) ==
    /\ OperatorRetries
    /\ retry = {}
    /\ d \in dead
    /\ retry' = {[at |-> "read", letter |-> d]}
    /\ UNCHANGED <<row, dead, nextId, admitted, accepted, settled, procVars, execs>>

RetryInsert(r) ==
    /\ r.at = "read"
    /\ Insert(r.letter.payload, TRUE)
    /\ retry' = {[r EXCEPT !.at = "inserted"]}
    /\ UNCHANGED <<dead, admitted, accepted, settled, procVars, execs>>

RetryDelete(r) ==
    /\ r.at = "inserted"
    /\ dead' = dead \ {r.letter}
    /\ retry' = {}
    /\ UNCHANGED <<row, nextId, admitted, accepted, settled, procVars, execs>>

\* the process that retries dies between two of its statements
RetryAbandon(r) ==
    /\ retry' = {}
    /\ UNCHANGED <<row, dead, nextId, admitted, accepted, settled, procVars, execs>>

\* deleteCompleted: rows finished long enough ago
PruneCompleted(j) ==
    /\ row[j].status = "completed"
    /\ row' = [row EXCEPT ![j].status = "absent"]
    /\ UNCHANGED <<dead, nextId, admitted, retry, accepted, settled, procVars, execs>>

\* deleteDeadLetter: letters kept for long enough
PruneDead(d) ==
    /\ d \in dead
    /\ dead' = dead \ {d}
    /\ settled' = settled \cup {d.payload}
    /\ UNCHANGED <<row, nextId, admitted, retry, accepted, procVars, execs>>

\* the clock reaches the scheduled_at of a row that backs off
BecomeDue(j) ==
    /\ row[j].status = "queued"
    /\ ~row[j].due
    /\ row' = [row EXCEPT ![j].due = TRUE]
    /\ UNCHANGED <<dead, nextId, admitted, retry, accepted, settled, procVars, execs>>

\* maxRunningAgeMs pass since the row's last heartbeat
AgeBeat(j) ==
    /\ row[j].status = "running"
    /\ row[j].beat = "fresh"
    /\ HeartbeatsLand => ~Refreshed(j)
    /\ row' = [row EXCEPT ![j].beat = "stale"]
    /\ UNCHANGED <<dead, nextId, admitted, retry, accepted, settled, procVars, execs>>

-----------------------------------------------------------------------------
(* The poll loop of a worker *)

\* mutant of StartPoll: i <= availableSlots
StartPollOneMore(w) ==
    /\ mode[w] = "up"
    /\ phase[w] = "idle"
    /\ Cardinality(active[w]) < Concurrency
    /\ phase' = [phase EXCEPT ![w] = "claiming"]
    /\ slots' = [slots EXCEPT ![w] = Concurrency - Cardinality(active[w]) + 1]
    /\ UNCHANGED <<queueVars, mode, active, execs>>

\* with every slot taken the poll only reschedules itself and reaps nothing
StartPoll(w) ==
    /\ mode[w] = "up"
    /\ phase[w] = "idle"
    /\ Cardinality(active[w]) < Concurrency
    /\ phase' = [phase EXCEPT ![w] = "claiming"]
    /\ slots' = [slots EXCEPT ![w] = Concurrency - Cardinality(active[w])]
    /\ UNCHANGED <<queueVars, mode, active, execs>>

\* dequeue: one UPDATE claims the row. The loop does not look at #running
\* between two dequeues
Claim(w, j) ==
    /\ phase[w] = "claiming"
    /\ slots[w] > 0
    /\ DbOpen(w)
    /\ ~Awaiting(w)
    /\ j \in Eligible
    /\ row[j].attempts < MaxClaims
    /\ row' = [row EXCEPT ![j].status = "running",
                          ![j].attempts = @ + 1,
                          ![j].owner = w,
                          ![j].beat = "fresh"]
    /\ execs' = execs \cup
          {[w |-> w, j |-> j, n |-> row[j].attempts + 1, at |-> "claimed"]}
    /\ UNCHANGED <<dead, nextId, admitted, retry, accepted, settled, procVars>>

\* no row to claim or no slot left: the loop ends
EndClaims(w) ==
    /\ phase[w] = "claiming"
    /\ DbOpen(w)
    /\ ~Awaiting(w)
    /\ slots[w] = 0 \/ Eligible = {}
    /\ phase' = [phase EXCEPT ![w] = "reaping"]
    /\ slots' = [slots EXCEPT ![w] = 0]
    /\ UNCHANGED <<queueVars, mode, active, execs>>

\* the dequeue rejects (SQLITE_BUSY, connection refused): the loop ends
ClaimFails(w) ==
    /\ phase[w] = "claiming"
    /\ slots[w] > 0
    /\ ~Awaiting(w)
    /\ phase' = [phase EXCEPT ![w] = "reaping"]
    /\ slots' = [slots EXCEPT ![w] = 0]
    /\ UNCHANGED <<queueVars, mode, active, execs>>

\* the same, but the UPDATE has committed: a running row nobody works on
ClaimAnswerLost(e) ==
    /\ ~AnswersArrive
    /\ e.at = "claimed"
    /\ execs' = execs \ {e}
    /\ phase' = [phase EXCEPT ![e.w] = "reaping"]
    /\ slots' = [slots EXCEPT ![e.w] = 0]
    /\ UNCHANGED <<queueVars, mode, active>>

\* the rows of S go back to the queue
PutBack(S) ==
    row' = [j \in JobIds |->
               IF j \in S
               THEN [row[j] EXCEPT !.status = "queued", !.owner = NoWorker,
                                   !.beat = "null"]
               ELSE row[j]]

\* mutant of Stuck: rows are reaped however young their heartbeat is
StuckOrNot == {j \in JobIds : row[j].status = "running"}

Stuck == {j \in JobIds : row[j].status = "running" /\ row[j].beat = "stale"}

\* mutant of Reap: a worker takes back its own rows only
ReapOwn(w) ==
    /\ phase[w] = "reaping"
    /\ DbOpen(w)
    /\ PutBack({j \in Stuck : row[j].owner = w})
    /\ phase' = [phase EXCEPT ![w] = "idle"]
    /\ UNCHANGED <<dead, nextId, admitted, retry, accepted, settled, mode, slots,
                   active, execs>>

\* requeueStuck, and #schedulePoll; max_attempts is not looked at
Reap(w) ==
    /\ phase[w] = "reaping"
    /\ DbOpen(w)
    /\ PutBack(Stuck)
    /\ phase' = [phase EXCEPT ![w] = "idle"]
    /\ UNCHANGED <<dead, nextId, admitted, retry, accepted, settled, mode, slots,
                   active, execs>>

Heartbeat(w) ==
    /\ mode[w] = "up"
    /\ row' = [j \in JobIds |->
                  IF j \in active[w] /\ row[j].owner = w /\ row[j].status = "running"
                  THEN [row[j] EXCEPT !.beat = "fresh"]
                  ELSE row[j]]
    /\ UNCHANGED <<dead, nextId, admitted, retry, accepted, settled, procVars, execs>>

-----------------------------------------------------------------------------
(* One execution of a job: #processJob *)

Moves(e, from, to) ==
    /\ e.at = from
    /\ execs' = (execs \ {e}) \cup {[e EXCEPT !.at = to]}

\* mutant of Leaves: the finally block forgets the Map
LeavesEntry(e, from) ==
    /\ e.at = from
    /\ execs' = execs \ {e}
    /\ UNCHANGED <<active, mode>>

\* the finally block: the Map's entry goes, whoever set it, and the last one to
\* go ends a shutdown that waits (#checkShutdown)
Leaves(e, from) ==
    /\ e.at = from
    /\ execs' = execs \ {e}
    /\ active' = [active EXCEPT ![e.w] = @ \ {e.j}]
    /\ mode' = IF mode[e.w] = "stopping" /\ active[e.w] \subseteq {e.j}
               THEN [mode EXCEPT ![e.w] = "stopped"]
               ELSE mode

StartJob(e) ==
    /\ Moves(e, "claimed", "handling")
    /\ active' = [active EXCEPT ![e.w] = @ \cup {e.j}]
    /\ slots' = [slots EXCEPT ![e.w] = @ - 1]
    /\ UNCHANGED <<queueVars, mode, phase>>

HandlerReturns(e) ==
    /\ Moves(e, "handling", "completing")
    /\ UNCHANGED <<queueVars, procVars>>

\* also a job type nobody registered a handler for
HandlerThrows(e) ==
    /\ Moves(e, "handling", "failing")
    /\ UNCHANGED <<queueVars, procVars>>

\* the handler heeds the signal, or an AbortError of its own gets out of it: the
\* row is left running
HandlerAborts(e) ==
    /\ mode[e.w] = "forced" \/ e.n <= MaxDrops
    /\ Leaves(e, "handling")
    /\ UNCHANGED <<queueVars, phase, slots>>

\* mutant of Complete: something after complete() throws into the same catch
CompleteThenFails(e) ==
    /\ Moves(e, "completing", "failing")
    /\ row[e.j].status # "absent"
    /\ row' = [row EXCEPT ![e.j].status = "completed"]
    /\ settled' = settled \cup {row[e.j].payload}
    /\ UNCHANGED <<dead, nextId, admitted, retry, accepted, procVars>>

\* complete(): by id alone
Complete(e) ==
    /\ Leaves(e, "completing")
    /\ IF row[e.j].status = "absent"
       THEN UNCHANGED <<row, settled>>
       ELSE /\ row' = [row EXCEPT ![e.j].status = "completed"]
            /\ settled' = settled \cup {row[e.j].payload}
    /\ UNCHANGED <<dead, nextId, admitted, retry, accepted, phase, slots>>

\* complete() rejects: the catch block takes the job for a failed one
CompleteRejects(e) ==
    /\ Moves(e, "completing", "failing")
    /\ UNCHANGED <<queueVars, procVars>>

CompleteAnswerLost(e) ==
    /\ ~AnswersArrive
    /\ Moves(e, "completing", "failing")
    /\ row[e.j].status # "absent"
    /\ row' = [row EXCEPT ![e.j].status = "completed"]
    /\ settled' = settled \cup {row[e.j].payload}
    /\ UNCHANGED <<dead, nextId, admitted, retry, accepted, procVars>>

\* fail(): read the row and decide on what was read
FailRead(e) ==
    /\ row[e.j].status # "absent"
    /\ Moves(e, "failing",
             IF row[e.j].attempts >= MaxAttempts THEN "burying" ELSE "requeuing")
    /\ UNCHANGED <<queueVars, procVars>>

\* fail() rejects: the finally block runs, and nobody handles the rejection. The
\* process may die of it (Crash)
FailRejects(e) ==
    /\ e.n <= MaxDrops
    /\ \E from \in {"failing", "requeuing", "burying", "inserting", "deleting"} : Leaves(e, from)
    /\ UNCHANGED <<queueVars, phase, slots>>

\* fail() or moveToDeadLetter finds no row
RowGone(e) ==
    /\ row[e.j].status = "absent"
    /\ \E from \in {"failing", "burying"} : Leaves(e, from)
    /\ UNCHANGED <<queueVars, phase, slots>>

\* fail(): back to the queue after a backoff; locked_by and heartbeat_at stay
Requeue(e) ==
    /\ Leaves(e, "requeuing")
    /\ row' = IF row[e.j].status = "absent"
              THEN row
              ELSE [row EXCEPT ![e.j].status = "queued", ![e.j].due = FALSE]
    /\ UNCHANGED <<dead, nextId, admitted, retry, accepted, settled, phase, slots>>

\* moveToDeadLetter reads the row once more
BuryRead(e) ==
    /\ row[e.j].status # "absent"
    /\ Moves(e, "burying", "inserting")
    /\ UNCHANGED <<queueVars, procVars>>

\* mutant of Bury: the row is not deleted
BuryKeepsRow(e) ==
    /\ SingleWriter
    /\ Leaves(e, "inserting")
    /\ dead' = dead \cup {[job |-> e.j, payload |-> row[e.j].payload, by |-> e.n]}
    /\ UNCHANGED <<row, nextId, admitted, retry, accepted, settled, phase, slots>>

\* its transaction on SQLite: insert the letter made of what was read, delete the
\* row
Bury(e) ==
    /\ SingleWriter
    /\ Leaves(e, "inserting")
    /\ dead' = dead \cup {[job |-> e.j, payload |-> row[e.j].payload, by |-> e.n]}
    /\ row' = [row EXCEPT ![e.j].status = "absent"]
    /\ UNCHANGED <<nextId, admitted, retry, accepted, settled, phase, slots>>

\* on Postgres the callback leaves the transaction's connection aside: both
\* statements take one of the pool and commit by themselves
BuryInsert(e) ==
    /\ ~SingleWriter
    /\ Moves(e, "inserting", "deleting")
    /\ dead' = dead \cup {[job |-> e.j, payload |-> row[e.j].payload, by |-> e.n]}
    /\ UNCHANGED <<row, nextId, admitted, retry, accepted, settled, procVars>>

BuryDelete(e) ==
    /\ ~SingleWriter
    /\ Leaves(e, "deleting")
    /\ row' = [row EXCEPT ![e.j].status = "absent"]
    /\ UNCHANGED <<dead, nextId, admitted, retry, accepted, settled, phase, slots>>

-----------------------------------------------------------------------------
(* Life of a worker process *)

\* a replacement runs, now or soon
Replaced(w) == \E v \in Workers \ {w} : mode[v] \in {"new", "up"}

Boot(w) ==
    /\ mode[w] = "new"
    /\ mode' = [mode EXCEPT ![w] = "up"]
    /\ UNCHANGED <<queueVars, phase, slots, active, execs>>

\* stop(): the timers go; without an active job it returns at once, even if a
\* dequeue is on its way
Stop(w) ==
    /\ mode[w] = "up"
    /\ Replaced(w)
    /\ mode' = [mode EXCEPT ![w] = IF active[w] = {} THEN "stopped" ELSE "stopping"]
    /\ UNCHANGED <<queueVars, phase, slots, active, execs>>

\* mutant of ShutdownTimeout: the worker gives its rows back while handlers run on
ShutdownTimeoutPutsBack(w) ==
    /\ mode[w] = "stopping"
    /\ mode' = [mode EXCEPT ![w] = "forced"]
    /\ PutBack({j \in JobIds : row[j].status = "running" /\ row[j].owner = w})
    /\ UNCHANGED <<dead, nextId, admitted, retry, accepted, settled, phase, slots,
                   active, execs>>

\* gracefulShutdownTimeoutMs: every controller is aborted and stop() returns
ShutdownTimeout(w) ==
    /\ mode[w] = "stopping"
    /\ mode' = [mode EXCEPT ![w] = "forced"]
    /\ UNCHANGED <<queueVars, phase, slots, active, execs>>

\* nothing this process does reaches the database any more
Halts(w) ==
    /\ mode' = [mode EXCEPT ![w] = "down"]
    /\ phase' = [phase EXCEPT ![w] = "idle"]
    /\ slots' = [slots EXCEPT ![w] = 0]
    /\ active' = [active EXCEPT ![w] = {}]
    /\ execs' = {e \in execs : e.w # w}
    /\ UNCHANGED queueVars

\* mutant of Exit: only a clean stop() closes the providers
ExitClean(w) ==
    /\ mode[w] = "stopped"
    /\ Halts(w)

\* the entrypoint closes the providers once stop() has returned
Exit(w) ==
    /\ mode[w] \in {"stopped", "forced"}
    /\ Halts(w)

\* killed, or a rejection nobody handles in #poll or #processJob
Crash(w) ==
    /\ mode[w] \in {"up", "stopping"}
    /\ Replaced(w)
    /\ Halts(w)

-----------------------------------------------------------------------------
ExecStep(e) ==
    \/ StartJob(e) \/ HandlerReturns(e) \/ HandlerThrows(e) \/ HandlerAborts(e)
    \/ Complete(e) \/ CompleteRejects(e) \/ FailRead(e) \/ FailRejects(e) \/ RowGone(e)
    \/ Requeue(e) \/ BuryRead(e) \/ Bury(e) \/ BuryInsert(e) \/ BuryDelete(e)

Next ==
    \/ \E p \in Payloads : EnqueueSqlite(p) \/ AdmitPostgres(p) \/ CommitPostgres(p)
    \/ \E d \in dead : RetryRead(d) \/ PruneDead(d)
    \/ \E r \in retry : RetryInsert(r) \/ RetryDelete(r) \/ RetryAbandon(r)
    \/ \E j \in JobIds : PruneCompleted(j) \/ BecomeDue(j) \/ AgeBeat(j)
    \/ \E w \in Workers, j \in JobIds : Claim(w, j)
    \/ \E w \in Workers :
          \/ StartPoll(w) \/ EndClaims(w) \/ ClaimFails(w) \/ Reap(w) \/ Heartbeat(w)
          \/ Boot(w) \/ Stop(w) \/ ShutdownTimeout(w) \/ Exit(w) \/ Crash(w)
    \/ \E e \in execs : ExecStep(e) \/ ClaimAnswerLost(e) \/ CompleteAnswerLost(e)

Spec == Init /\ [][Next]_vars

\* Timers fire, awaited statements answer, handlers end (each stage of a run has
\* a budget), a deploy boots its replacements, a shutdown ends. A dequeue or a
\* complete() that rejects (SQLITE_BUSY) does not do so every time.
Fairness ==
    /\ \A w \in Workers :
          /\ WF_vars(StartPoll(w))
          /\ SF_vars(\E j \in JobIds : Claim(w, j))
          /\ WF_vars(EndClaims(w))
          /\ WF_vars(Reap(w))
          /\ WF_vars(Boot(w))
          /\ WF_vars(ShutdownTimeout(w))
          /\ WF_vars(Exit(w))
          /\ WF_vars(\E e \in execs : e.w = w /\ ExecStep(e))
    /\ \A j \in JobIds : WF_vars(BecomeDue(j)) /\ WF_vars(AgeBeat(j))
    /\ \A p \in Payloads : WF_vars(CommitPostgres(p))

FairSpec == Spec /\ Fairness

-----------------------------------------------------------------------------
(* Safety *)

\* No job runs twice at once: of the executions whose process can still write
\* to the database, no two are of the same job (requeueStuck reaps silent
\* workers only).
SingleExecution ==
    \A e, f \in execs : e.j = f.j => e = f

\* complete() and fail() write by id alone, so each is right only while its
\* execution still holds the row: status running, locked by its worker, at the
\* attempt it was started for.
ExecutionHoldsRow ==
    \A e \in execs :
        /\ row[e.j].status = "running"
        /\ row[e.j].owner = e.w
        /\ row[e.j].attempts = e.n

\* #activeJobs, on which heartbeats, free slots and shutdown are computed, lists
\* exactly the executions that have started.
MapMatchesExecutions ==
    \A w \in Workers :
        active[w] = {e.j : e \in {f \in execs : f.w = w /\ f.at # "claimed"}}

\* A worker never runs more jobs than its concurrency, counting those its poll
\* loop has yet to claim.
WithinConcurrency ==
    \A w \in Workers : Cardinality(active[w]) + slots[w] <= Concurrency

\* A job leaves one dead letter at most (where the burial is one transaction).
OneLetterPerJob == \A d, e \in dead : d.job = e.job => d = e

\* Every accepted payload is in the queue, in a dead letter, or settled: neither
\* crashes between two statements, lost answers, duplicate executions nor an
\* abandoned retry lose it.
NothingLost ==
    \A p \in accepted :
        \/ p \in settled
        \/ \E j \in Pending : row[j].payload = p
        \/ \E d \in dead : d.payload = p

\* A completed job is never put back in the queue or buried.
CompletedIsFinal ==
    [][\A j \in JobIds : row[j].status = "completed" =>
          /\ row'[j].status \in {"completed", "absent"}
          /\ \A d \in dead' \ dead : d.job # j]_vars

(* Liveness *)

\* Whatever crashes, stops or is put back, every accepted payload is completed or
\* dead-lettered in the end.
EveryPayloadEnds ==
    \A p \in Payloads :
        p \in accepted ~> p \in settled \/ \E d \in dead : d.payload = p

\* A shutdown ends.
ShutdownEnds == \A w \in Workers : mode[w] = "stopping" ~> mode[w] = "down"

(* On SQLite the queue implements JobLedger while heartbeats land and answers arrive *)

LedgerState(j) ==
    CASE row[j].status = "queued"    -> "open"
      [] row[j].status = "running"   -> "taken"
      [] row[j].status = "completed" -> "done"
      [] row[j].status = "absent" ->
            IF j > nextId THEN "new"
            ELSE IF \E d \in dead : d.job = j THEN "buried" ELSE "gone"

Ledger == INSTANCE JobLedger WITH
    Jobs   <- JobIds,
    state  <- [j \in JobIds |-> LedgerState(j)],
    holder <- [j \in JobIds |-> {e.w : e \in {f \in execs : f.j = j}}]

\* Only an execution that has its job to itself finishes it, puts it back or
\* buries it, and requeueStuck takes a job from nobody who works on it.
ImplementsLedger == Ledger!Spec
=============================================================================
