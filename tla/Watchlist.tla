------------------------------- MODULE Watchlist -------------------------------
(***************************************************************************)
(* A domain under watch, from the cron tick to the alert: the scheduler's  *)
(* replicas (SchedulerService) agree on who fires a tick, the job they put *)
(* into the queue polls the watchlist (WatchlistService), and a domain     *)
(* that has become free is announced.                                      *)
(*                                                                         *)
(* One entry stands for all: a poll takes a snapshot of the rows and works *)
(* through them one by one, so what it knows of a row may be old.  The     *)
(* queue hands out every job (JobQueue), before the next tick.  One kind   *)
(* of job stands for all: each tick of a cron expression is a slot of its  *)
(* own, whose locks outlast it.                                            *)
(***************************************************************************)
EXTENDS Integers, FiniteSets

CONSTANTS
    Replicas,    \* processes that run a scheduler
    Pollers,     \* executions of poll(): by a worker, an API call, the command line
    MaxJobs,     \* bound: poll jobs in the queue
    MaxFaults    \* bound: failures, lost answers, crashes

ASSUME WatchlistAssumption == Replicas # {} /\ {MaxJobs, MaxFaults} \subseteq Nat

VARIABLES
    locking,   \* a lock provider is configured (Redis before the database)
    fire,      \* how far each replica is with the tick
    keys,      \* providers that hold the lock of the tick's slot
    tick,      \* what has become of the tick: open, fired, or hurt by the death of a
               \* replica or the failure of a database statement (history)
    jobs,      \* poll jobs in the queue
    poll,      \* where each poll is, with what it knows
    entry,     \* the row of watchlist_entries, or NoEntry
    free,      \* the domain can be registered
    alerted,   \* an alert has been sent since the domain became free (history)
    faults

cron   == <<locking, fire, keys, tick>>
domain == <<free, alerted>>
vars   == <<cron, jobs, poll, entry, domain, faults>>

NoEntry == [kept |-> FALSE, notified |-> FALSE, recent |-> FALSE]
Idle    == [at |-> "idle", seen |-> FALSE, found |-> FALSE, dry |-> FALSE]

TypeOK ==
    /\ {locking, free, alerted} \subseteq BOOLEAN
    /\ fire \in [Replicas -> {"idle", "due", "database", "enqueue"}]
    /\ keys \subseteq {"redis", "database"} /\ tick \in {"open", "fired", "hurt"}
    /\ jobs \in 0 .. MaxJobs
    /\ poll \in [Pollers -> [at: {"idle", "look", "update", "alert", "mark"},
                             seen: BOOLEAN, found: BOOLEAN, dry: BOOLEAN]]
    /\ entry \in [kept: BOOLEAN, notified: BOOLEAN, recent: BOOLEAN]
    /\ faults \in 0 .. MaxFaults

Init ==
    /\ locking \in BOOLEAN
    /\ fire = [r \in Replicas |-> "idle"] /\ keys = {} /\ tick = "hurt"
    /\ jobs = 0 /\ poll = [p \in Pollers |-> Idle]
    /\ entry = NoEntry /\ free = FALSE /\ alerted = FALSE
    /\ faults = 0

-----------------------------------------------------------------------------
(* The scheduler.                                                           *)

Settled == \A r \in Replicas : fire[r] = "idle"

At(r, step) == fire' = [fire EXCEPT ![r] = step]

Fault == faults < MaxFaults /\ faults' = faults + 1

Hurt == Fault /\ tick' = IF tick = "fired" THEN tick ELSE "hurt"

\* A minute that the cron expression matches, a slot of its own.
Tick ==
    /\ Settled /\ jobs = 0
    /\ fire' = [r \in Replicas |-> "due"] /\ keys' = {} /\ tick' = "open"
    /\ UNCHANGED <<locking, jobs, poll, entry, domain, faults>>

\* A composite lock that takes the silence of Redis for a refusal.
AskRedisOnly(r) ==
    /\ fire[r] = "due"
    /\ \/ ~locking /\ At(r, "enqueue") /\ UNCHANGED <<keys, faults>>
       \/ locking /\ "redis" \notin keys /\ At(r, "enqueue") /\ keys' = keys \cup {"redis"} /\ UNCHANGED faults
       \/ locking /\ "redis" \in keys /\ At(r, "idle") /\ UNCHANGED <<keys, faults>>
       \/ locking /\ Fault /\ At(r, "idle") /\ keys' \in {keys, keys \cup {"redis"}}
    /\ UNCHANGED <<locking, tick, jobs, poll, entry, domain>>

\* tryLock: Redis is asked first.  A refusal, or an answer that does not come, with
\* the key set or not, leads to the database.  Without Redis there is no lock.
AskRedis(r) ==
    /\ fire[r] = "due"
    /\ \/ ~locking /\ At(r, "enqueue") /\ UNCHANGED <<keys, faults>>
       \/ locking /\ "redis" \notin keys /\ At(r, "enqueue") /\ keys' = keys \cup {"redis"} /\ UNCHANGED faults
       \/ locking /\ "redis" \in keys /\ At(r, "database") /\ UNCHANGED <<keys, faults>>
       \/ locking /\ Fault /\ At(r, "database") /\ keys' \in {keys, keys \cup {"redis"}}
    /\ UNCHANGED <<locking, tick, jobs, poll, entry, domain>>

\* The row of the slot is inserted, or there already; an error counts as a refusal.
AskDatabase(r) ==
    /\ fire[r] = "database"
    /\ \/ "database" \notin keys /\ At(r, "enqueue") /\ keys' = keys \cup {"database"} /\ UNCHANGED <<tick, faults>>
       \/ "database" \in keys /\ At(r, "idle") /\ UNCHANGED <<keys, tick, faults>>
       \/ Hurt /\ At(r, "idle") /\ keys' \in {keys, keys \cup {"database"}}
    /\ UNCHANGED <<locking, jobs, poll, entry, domain>>

\* execute(): the poll job goes into the queue, or that fails and is noted.
Enqueue(r) ==
    /\ fire[r] = "enqueue" /\ At(r, "idle")
    /\ \/ jobs < MaxJobs /\ jobs' = jobs + 1 /\ tick' = "fired" /\ UNCHANGED faults
       \/ Hurt /\ UNCHANGED jobs
    /\ UNCHANGED <<locking, keys, poll, entry, domain>>

\* A replica dies and misses the tick; nobody gives its lock back.
Die(r) ==
    /\ fire[r] # "idle" /\ Hurt
    /\ At(r, "idle")
    /\ UNCHANGED <<locking, keys, jobs, poll, entry, domain>>

-----------------------------------------------------------------------------
(* A poll.                                                                  *)

Goes(p, step) == poll' = [poll EXCEPT ![p].at = step]
Ends(p)       == poll' = [poll EXCEPT ![p] = Idle]

\* listPendingPoll: not notified, or not checked for the configured hours.
Pending == entry.kept /\ (~entry.notified \/ ~entry.recent)

\* The rows are read once; what they say of the alert is kept for later.
Reads(p, dry) ==
    poll' = IF Pending THEN [poll EXCEPT ![p] = [at |-> "look", seen |-> entry.notified, found |-> FALSE, dry |-> dry]]
                       ELSE poll

\* A variant in which a worker polls without a job.
PollByNoJob(p) ==
    /\ poll[p].at = "idle"
    /\ jobs' = jobs - 1 /\ Reads(p, FALSE)
    /\ UNCHANGED <<cron, entry, domain, faults>>

\* A worker executes the job.
PollByJob(p) ==
    /\ poll[p].at = "idle" /\ jobs > 0
    /\ jobs' = jobs - 1 /\ Reads(p, FALSE)
    /\ UNCHANGED <<cron, entry, domain, faults>>

\* The API polls, or the command line, which may ask for a dry run.
PollByHand(p) ==
    /\ poll[p].at = "idle"
    /\ \E dry \in BOOLEAN : Reads(p, dry)
    /\ UNCHANGED <<cron, jobs, entry, domain, faults>>

\* DNS finds no such domain and RDAP confirms it.
LookFindsFree(p) ==
    /\ poll[p].at = "look" /\ free
    /\ poll' = [poll EXCEPT ![p].at = "update", ![p].found = TRUE]
    /\ UNCHANGED <<cron, jobs, entry, domain, faults>>

\* Registered, or unknown; an exception leaves the row alone.
LookFindsNot(p) ==
    /\ poll[p].at = "look"
    /\ \/ Goes(p, "update")
       \/ Ends(p)
    /\ UNCHANGED <<cron, jobs, entry, domain, faults>>

\* What the poll does after it has updated the row.
AfterUpdate(p) ==
    IF poll[p].found /\ ~poll[p].seen /\ ~poll[p].dry THEN Goes(p, "alert") ELSE Ends(p)

\* A variant of updateStatus that leaves the mark of an alert.
UpdateKeepsMark(p) ==
    /\ poll[p].at = "update"
    /\ IF entry.kept
          THEN entry' = [entry EXCEPT !.recent = TRUE] /\ AfterUpdate(p)
          ELSE UNCHANGED entry /\ Ends(p)
    /\ UNCHANGED <<cron, jobs, domain, faults>>

\* updateStatus: the mark is taken away, whatever was found; an entry that was
\* removed meanwhile is an error.
UpdateStatus(p) ==
    /\ poll[p].at = "update"
    /\ IF entry.kept
          THEN entry' = [entry EXCEPT !.notified = FALSE, !.recent = TRUE] /\ AfterUpdate(p)
          ELSE UNCHANGED entry /\ Ends(p)
    /\ UNCHANGED <<cron, jobs, domain, faults>>

\* sendAlert: a channel that fails is passed over.
Alert(p) ==
    /\ poll[p].at = "alert"
    /\ Goes(p, "mark")
    /\ \/ alerted' = free /\ UNCHANGED faults
       \/ Fault /\ UNCHANGED alerted
    /\ UNCHANGED <<cron, jobs, entry, free>>

\* markNotified finds the row by its domain, so it may be a new one.
Mark(p) ==
    /\ poll[p].at = "mark" /\ Ends(p)
    /\ entry' = IF entry.kept THEN [entry EXCEPT !.notified = TRUE] ELSE entry
    /\ UNCHANGED <<cron, jobs, domain, faults>>

\* The process dies in the middle of a poll.
PollDies(p) ==
    /\ poll[p].at # "idle" /\ Fault
    /\ Ends(p)
    /\ UNCHANGED <<cron, jobs, entry, domain>>

-----------------------------------------------------------------------------
(* Users, time and the world.                                               *)

Add ==
    /\ ~entry.kept
    /\ entry' = [NoEntry EXCEPT !.kept = TRUE]
    /\ UNCHANGED <<cron, jobs, poll, domain, faults>>

Remove ==
    /\ entry.kept
    /\ entry' = NoEntry
    /\ UNCHANGED <<cron, jobs, poll, domain, faults>>

\* The last check falls behind the cutoff.
Age ==
    /\ entry.recent
    /\ entry' = [entry EXCEPT !.recent = FALSE]
    /\ UNCHANGED <<cron, jobs, poll, domain, faults>>

Drops ==
    /\ ~free
    /\ free' = TRUE /\ alerted' = FALSE
    /\ UNCHANGED <<cron, jobs, poll, entry, faults>>

Caught ==
    /\ free
    /\ free' = FALSE /\ alerted' = FALSE
    /\ UNCHANGED <<cron, jobs, poll, entry, faults>>

Fires(r) == AskRedis(r) \/ AskDatabase(r) \/ Enqueue(r)

Checks(p) == LookFindsFree(p) \/ LookFindsNot(p) \/ UpdateStatus(p) \/ Alert(p) \/ Mark(p)

Next ==
    \/ Tick \/ Add \/ Remove \/ Age \/ Drops \/ Caught
    \/ \E r \in Replicas : Fires(r) \/ Die(r)
    \/ \E p \in Pollers : PollByJob(p) \/ PollByHand(p) \/ Checks(p) \/ PollDies(p)

Spec == Init /\ [][Next]_vars

\* Cron ticks, awaits end and the queue hands out its jobs.  Lookups of a free
\* domain do not fail for ever.
Fairness ==
    /\ WF_vars(Tick) /\ WF_vars(Age)
    /\ \A r \in Replicas : WF_vars(Fires(r))
    /\ \A p \in Pollers :
          /\ SF_vars(PollByJob(p)) /\ WF_vars(Checks(p))
          /\ SF_vars(~poll[p].dry /\ LookFindsFree(p))

FairSpec == Spec /\ Fairness

-----------------------------------------------------------------------------
(* Properties.                                                              *)

\* The replicas of a scheduler do not all step back from a tick: unless one of them
\* dies or the database refuses a statement it is fired, even when Redis takes a
\* lock and the answer is lost.
TickIsFired == Settled => tick # "open"

\* A watched domain that stays free is announced, however many fires, polls and
\* alerts were lost before, and whatever marks earlier drops have left.
DropIsAnnounced ==
    (entry.kept /\ free) ~> (alerted \/ ~free \/ ~entry.kept)

=============================================================================
