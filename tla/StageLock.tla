------------------------------- MODULE StageLock -------------------------------
(***************************************************************************)
(* The per-stage locks of the pipeline orchestrator: one lock per run and  *)
(* stage, taken with a TTL and a fence token, renewed by a timer, in the   *)
(* table pipeline_locks or, with Redis, through CompositeLockProvider.     *)
(*                                                                         *)
(* The same run may be executed by several processes at once (the job      *)
(* queue hands a job out again when it thinks its worker is gone), and a   *)
(* process executes several runs with one orchestrator. A process that     *)
(* dies does not come back; its replacement is another process.            *)
(*                                                                         *)
(* The clock ticks once every lockHeartbeatMs, so every timer is due once  *)
(* between two ticks and a lock lasts Ttl = lockTtlMs / lockHeartbeatMs    *)
(* ticks.                                                                  *)
(***************************************************************************)
EXTENDS Naturals, FiniteSets

CONSTANTS
    Procs,      \* processes, each with one orchestrator and one lock provider
    Nobody,     \* the worker of a lock that is free
    Runs,       \* run ids
    Stages,     \* 1 .. the number of stages
    Backends,   \* of "postgres", "sqlite", and "redis" (with the database behind it)
    SamePid,    \* TRUE: every process has the same pid, as in containers
    Ttl,        \* ticks a lock lasts unless it is renewed
    MaxTokens,  \* bound: fence tokens ever generated
    AnswersArrive, \* TRUE: a statement that fails has had no effect, and no unlock does
    Timely      \* TRUE: a timer fires within its interval, and a stage ends
                \* within the interval it was aborted in

ASSUME StageLockAssumption ==
    /\ Nobody \notin Procs
    /\ Stages = 1 .. Cardinality(Stages) /\ 1 \in Stages
    /\ Backends \subseteq {"postgres", "sqlite", "redis"}
    /\ SamePid \in BOOLEAN
    /\ Ttl \in Nat \ {0}
    /\ MaxTokens \in Nat
    /\ AnswersArrive \in BOOLEAN
    /\ Timely \in BOOLEAN

VARIABLES
    backend,    \* the lock provider that is configured
    store,      \* provider -> lock -> who holds it, with what token, for how long
    files,      \* locks that have a lock file on disk (SQLite)
    issued,     \* fence tokens generated
    redisUp,    \* RedisClient.isConnected
    alive,      \* processes that run
    exec,       \* execution of a run by a process: where it is
    stageLocks, \* #stageLocks of each orchestrator
    timers,     \* #heartbeatTimers and #heartbeatFailures of each orchestrator
    owners      \* #lockOwners of each CompositeLockProvider

procVars == <<exec, stageLocks, timers, owners>>
vars     == <<backend, store, files, issued, redisUp, alive, procVars>>

Execs     == Procs \X Runs
Locks     == Runs \X Stages
Providers == {"redis", "db"}

\* a re-entrant lock on Redis answers with the pid in place of the token
PidToken == MaxTokens + 1
Tokens   == 0 .. PidToken

Entry == [worker: Procs \cup {Nobody}, token: 0 .. MaxTokens, left: 0 .. Ttl]
Free  == [worker |-> Nobody, token |-> 0, left |-> 0]

Idle == [at |-> "idle", stage |-> 1, aborted |-> FALSE]

TypeOK ==
    /\ backend \in Backends
    /\ store \in [Providers -> [Locks -> Entry]]
    /\ files \subseteq Locks
    /\ issued \in 0 .. MaxTokens
    /\ redisUp \in BOOLEAN
    /\ alive \subseteq Procs
    /\ exec \in [Execs -> [at: {"idle", "locking", "falling", "working", "ending"},
                           stage: Stages, aborted: BOOLEAN]]
    /\ stageLocks \in [Procs -> SUBSET [lock: Locks, token: Tokens]]
    /\ timers \in [Procs -> SUBSET
                     [lock: Locks, token: Tokens, failures: 0 .. 3, due: BOOLEAN]]
    /\ owners \in [Procs -> [Locks -> Providers \cup {"none"}]]

-----------------------------------------------------------------------------
(* The providers *)

\* worker_id of a process: host and pid on SQLite, pid alone on Postgres, a random
\* id on Redis
Id(v, p) == IF v = "db" /\ backend = "postgres" /\ SamePid
            THEN CHOOSE q \in Procs : TRUE
            ELSE p

Lock(p, r) == <<r, exec[<<p, r>>].stage>>

Held(v, p, k) == store[v][k].left > 0 /\ store[v][k].worker = Id(v, p)

\* Lua's string.find takes the text it looks for as a pattern, in which the
\* hyphens of a UUID are repetitions: such a token is found nowhere, not even in
\* a value that holds it
LuaFinds(k, p, token) ==
    /\ Held("redis", p, k)
    /\ store["redis"][k].token = token
    /\ token \notin 1 .. MaxTokens

\* does renewLockWithFence or unlockWithFence find its lock?
Matches(v, k, p, token) ==
    CASE v = "redis" -> redisUp /\ LuaFinds(k, p, token)
      [] v = "db"    -> Held("db", p, k) /\ store["db"][k].token = token
      [] v = "none"  -> FALSE

\* the provider that renew and unlock go to
ProviderOf(p, k) == IF backend = "redis" THEN owners[p][k] ELSE "db"

\* the provider tryLockWithFence asks next
Asked(e) == IF backend = "redis" /\ redisUp /\ exec[e].at = "locking"
            THEN "redis" ELSE "db"

Init ==
    /\ backend \in Backends
    /\ store = [v \in Providers |-> [k \in Locks |-> Free]]
    /\ files = {}
    /\ issued = 0
    /\ redisUp = (backend = "redis")
    /\ alive = Procs
    /\ exec = [e \in Execs |-> Idle]
    /\ stageLocks = [p \in Procs |-> {}]
    /\ timers = [p \in Procs |-> {}]
    /\ owners = [p \in Procs |-> [k \in Locks |-> "none"]]

-----------------------------------------------------------------------------
(* Taking the lock of the stage: #acquireStageLock *)

Begin(p, r) ==
    /\ p \in alive
    /\ exec[<<p, r>>].at = "idle"
    /\ exec' = [exec EXCEPT ![<<p, r>>] = [Idle EXCEPT !.at = "locking"]]
    /\ UNCHANGED <<backend, store, files, issued, redisUp, alive, stageLocks, timers, owners>>

Asking(p, r) == exec[<<p, r>>].at \in {"locking", "falling"}

\* the lock file of SQLite comes before the table: it is created exclusively
FileAllows(v, k) == v = "db" /\ backend = "sqlite" => k \notin files
Takeable(v, k) == store[v][k].left = 0 /\ FileAllows(v, k)

\* acquired: #stageLocks, the heartbeat unless one runs already, and the stage
Acquired(p, r, v, token) ==
    LET k == Lock(p, r) IN
    /\ stageLocks' = [stageLocks EXCEPT ![p] =
          {i \in @ : i.lock # k} \cup {[lock |-> k, token |-> token]}]
    /\ timers' = [timers EXCEPT ![p] =
          IF \E t \in @ : t.lock = k THEN @
          ELSE @ \cup {[lock |-> k, token |-> token, failures |-> 0, due |-> FALSE]}]
    /\ owners' = [owners EXCEPT ![p][k] = IF backend = "redis" THEN v ELSE "none"]
    /\ files' = IF v = "db" /\ backend = "sqlite" THEN files \cup {k} ELSE files
    /\ exec' = [exec EXCEPT ![<<p, r>>].at = "working"]
    /\ UNCHANGED <<backend, redisUp, alive>>

TakeFree(p, r) ==
    LET v == Asked(<<p, r>>)
        k == Lock(p, r)
    IN
    /\ Asking(p, r)
    /\ Takeable(v, k)
    /\ issued < MaxTokens
    /\ issued' = issued + 1
    /\ store' = [store EXCEPT ![v][k] =
          [worker |-> Id(v, p), token |-> issued + 1, left |-> Ttl]]
    /\ Acquired(p, r, v, issued + 1)

\* the same worker holds it already: the table gives back the token, Redis
\* refreshes the TTL and gives back what stands where it looks for the token
TakeOwn(p, r) ==
    LET v == Asked(<<p, r>>)
        k == Lock(p, r)
    IN
    /\ Asking(p, r)
    /\ FileAllows(v, k)
    /\ Held(v, p, k)
    /\ store' = IF v = "redis" THEN [store EXCEPT ![v][k].left = Ttl] ELSE store
    /\ Acquired(p, r, v, IF v = "redis" THEN PidToken ELSE store[v][k].token)
    /\ UNCHANGED issued

\* held by another, or the statement failed: the composite asks the next
\* provider, and after the last one the run throws
GoesOn(p, r) ==
    exec' = [exec EXCEPT ![<<p, r>>].at =
       IF Asked(<<p, r>>) = "redis" THEN "falling" ELSE "ending"]

Refused(p, r) ==
    /\ Asking(p, r)
    /\ GoesOn(p, r)
    /\ UNCHANGED <<backend, store, files, issued, redisUp, alive, stageLocks, timers, owners>>

\* the lock is taken but the answer is lost; SQLite answers in the process
AnswerLost(p, r) ==
    LET v == Asked(<<p, r>>)
        k == Lock(p, r)
    IN
    /\ ~AnswersArrive
    /\ Asking(p, r)
    /\ v = "redis" \/ backend # "sqlite"
    /\ store[v][k].left = 0
    /\ issued < MaxTokens
    /\ issued' = issued + 1
    /\ store' = [store EXCEPT ![v][k] =
          [worker |-> Id(v, p), token |-> issued + 1, left |-> Ttl]]
    /\ GoesOn(p, r)
    /\ UNCHANGED <<backend, files, redisUp, alive, stageLocks, timers, owners>>

-----------------------------------------------------------------------------
(* Keeping it: the heartbeat *)

Renewed(p, t) ==
    LET v == ProviderOf(p, t.lock) IN
    /\ t.due
    /\ Matches(v, t.lock, p, t.token)
    /\ store' = [store EXCEPT ![v][t.lock].left = Ttl]
    /\ timers' = [timers EXCEPT ![p] =
          (@ \ {t}) \cup {[t EXCEPT !.due = FALSE, !.failures = 0]}]
    /\ UNCHANGED <<backend, files, issued, redisUp, alive, exec, stageLocks, owners>>

\* mutant of NotRenewed: the run is never told
NotRenewedSilent(p, t) ==
    LET n == IF t.failures < 3 THEN t.failures + 1 ELSE 3 IN
    /\ t.due
    /\ timers' = [timers EXCEPT ![p] =
          (@ \ {t}) \cup {[t EXCEPT !.due = FALSE, !.failures = n]}]
    /\ UNCHANGED <<backend, store, files, issued, redisUp, alive, exec, stageLocks, owners>>

\* no row matched, or the statement failed; the third failure in a row aborts the
\* run whose entry #stageLocks still has
NotRenewed(p, t) ==
    LET n == IF t.failures < 3 THEN t.failures + 1 ELSE 3 IN
    /\ t.due
    /\ timers' = [timers EXCEPT ![p] =
          (@ \ {t}) \cup {[t EXCEPT !.due = FALSE, !.failures = n]}]
    /\ exec' = [e \in Execs |->
          IF /\ n = 3
             /\ e = <<p, t.lock[1]>>
             /\ \E i \in stageLocks[p] : i.lock = t.lock
          THEN [exec[e] EXCEPT !.aborted = TRUE]
          ELSE exec[e]]
    /\ UNCHANGED <<backend, store, files, issued, redisUp, alive, stageLocks, owners>>

-----------------------------------------------------------------------------
(* Giving it back *)

\* mutant of Unlocked: the lock is deleted by name alone
UnlockedByName(p, k, token, arrives) ==
    LET v == ProviderOf(p, k) IN
    store' = IF arrives /\ v # "none" THEN [store EXCEPT ![v][k] = Free] ELSE store

Unlocked(p, k, token, arrives) ==
    LET v == ProviderOf(p, k) IN
    store' = IF arrives /\ Matches(v, k, p, token)
             THEN [store EXCEPT ![v][k] = Free]
             ELSE store

\* where the execution goes when its stage has ended
Onward(p, r) ==
    LET e == <<p, r>>
        x == exec[e]
    IN
    exec' = [exec EXCEPT ![e] =
       IF ~x.aborted /\ x.stage + 1 \in Stages
       THEN [x EXCEPT !.at = "locking", !.stage = x.stage + 1]
       ELSE [x EXCEPT !.at = "ending"]]

\* the stage returns and #releaseStageLock runs. SQLite's unlock releases a file
\* lock it has just constructed, which holds no descriptor: the file stays
EndStage(p, r) ==
    LET k == Lock(p, r) IN
    /\ exec[<<p, r>>].at = "working"
    /\ \E i \in stageLocks[p], arrives \in {TRUE, AnswersArrive} :
          /\ i.lock = k
          /\ Unlocked(p, k, i.token, arrives)
          /\ stageLocks' = [stageLocks EXCEPT ![p] = @ \ {i}]
    /\ timers' = [timers EXCEPT ![p] = {t \in @ : t.lock # k}]
    /\ owners' = [owners EXCEPT ![p][k] = "none"]
    /\ Onward(p, r)
    /\ UNCHANGED <<backend, files, issued, redisUp, alive>>

\* the same without an entry in #stageLocks: it returns at once
EndStageForgotten(p, r) ==
    /\ exec[<<p, r>>].at = "working"
    /\ \A i \in stageLocks[p] : i.lock # Lock(p, r)
    /\ Onward(p, r)
    /\ UNCHANGED <<backend, store, files, issued, redisUp, alive, stageLocks, timers, owners>>

\* #cleanupAllStageLocks, for whatever run: every timer and every entry of the
\* orchestrator goes. Of the unlocks it sends, those of other runs' entries name
\* this run's locks and match nothing
EndRun(p, r) ==
    /\ exec[<<p, r>>].at = "ending"
    /\ timers' = [timers EXCEPT ![p] = {}]
    /\ stageLocks' = [stageLocks EXCEPT ![p] = {}]
    /\ owners' = [owners EXCEPT ![p] = [k \in Locks |->
          IF \E i \in stageLocks[p] : k = <<r, i.lock[2]>> THEN "none" ELSE @[k]]]
    /\ exec' = [exec EXCEPT ![<<p, r>>] = Idle]
    /\ UNCHANGED <<backend, store, files, issued, redisUp, alive>>

-----------------------------------------------------------------------------
(* The environment *)

Crash(p) ==
    /\ p \in alive
    /\ alive' = alive \ {p}
    /\ exec' = [e \in Execs |-> IF e[1] = p THEN Idle ELSE exec[e]]
    /\ stageLocks' = [stageLocks EXCEPT ![p] = {}]
    /\ timers' = [timers EXCEPT ![p] = {}]
    /\ owners' = [owners EXCEPT ![p] = [k \in Locks |-> "none"]]
    /\ UNCHANGED <<backend, store, files, issued, redisUp>>

RedisChanges ==
    /\ backend = "redis"
    /\ redisUp' = ~redisUp
    /\ UNCHANGED <<backend, store, files, issued, alive, procVars>>

\* mutant of Aged: no TTL
AgedNever(x) == x

Aged(x) == IF x.left <= 1 THEN Free ELSE [x EXCEPT !.left = @ - 1]

Tick ==
    /\ Timely => /\ \A p \in Procs : \A t \in timers[p] : ~t.due
                 /\ \A e \in Execs : exec[e].at = "working" => ~exec[e].aborted
    /\ store' = [v \in Providers |-> [k \in Locks |-> Aged(store[v][k])]]
    /\ timers' = [p \in Procs |-> {[t EXCEPT !.due = TRUE] : t \in timers[p]}]
    /\ UNCHANGED <<backend, files, issued, redisUp, alive, exec, stageLocks, owners>>

-----------------------------------------------------------------------------
Heartbeat(p) == \E t \in timers[p] : Renewed(p, t) \/ NotRenewed(p, t)

Next ==
    \/ \E p \in Procs, r \in Runs :
          \/ Begin(p, r) \/ TakeFree(p, r) \/ TakeOwn(p, r) \/ Refused(p, r)
          \/ AnswerLost(p, r)
          \/ EndStage(p, r) \/ EndStageForgotten(p, r) \/ EndRun(p, r)
    \/ \E p \in Procs : Heartbeat(p) \/ Crash(p)
    \/ RedisChanges
    \/ Tick

Spec == Init /\ [][Next]_vars

\* Timers fire, statements answer, stages end (each has a budget).
Fairness ==
    /\ WF_vars(Tick)
    /\ \A p \in Procs : WF_vars(Heartbeat(p))
    /\ \A p \in Procs, r \in Runs :
          WF_vars(Refused(p, r) \/ EndStage(p, r) \/ EndStageForgotten(p, r) \/ EndRun(p, r))

FairSpec == Spec /\ Fairness

-----------------------------------------------------------------------------
(* Properties *)

Works(e, k) == exec[e].at = "working" /\ <<e[2], exec[e].stage>> = k

\* No two processes work in the same stage of the same run.
MutualExclusion ==
    \A k \in Locks : \A d, e \in Execs : Works(d, k) /\ Works(e, k) => d = e

\* An execution that works in a stage and was not told to abort holds the lock.
HoldsWhileWorking ==
    \A p \in Procs, r \in Runs :
        LET k == Lock(p, r)
            v == ProviderOf(p, k)
        IN exec[<<p, r>>].at = "working" /\ ~exec[<<p, r>>].aborted =>
              v # "none" /\ Held(v, p, k)

\* The fence: a live lock changes hands through nobody else, and goes early only
\* when its worker drops the entry that has its token, however late stale
\* executions send their unlocks.
OnlyHolderReleases ==
    [][\A v \in Providers, k \in Locks :
          LET x == store[v][k] IN
          x.left > 1 =>
             \/ store'[v][k].worker = x.worker
             \/ /\ store'[v][k] = Free
                /\ \E p \in Procs : \E i \in stageLocks[p] \ stageLocks'[p] :
                      Id(v, p) = x.worker /\ i.lock = k /\ i.token = x.token]_vars

\* A lock that is taken can be taken again by anybody at last, even when its holder dies
\* with it: the stage ends, or the TTL does. SQLite is left out, where a lock is taken
\* once: its lock file outlives the unlock (EndStage), the TTL and the process, and
\* refuses the next taker whatever the table says.
LocksComeBack ==
    \A v \in Providers, k \in Locks :
        ~Takeable(v, k) /\ backend # "sqlite" ~> Takeable(v, k)

=============================================================================
