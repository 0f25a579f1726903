------------------------------ MODULE PipelineRun ------------------------------
(***************************************************************************)
(* One pipeline run from its submission to its result: enqueueRun, the job *)
(* that executes it and is retried, runSync, the stages of the orchestrator*)
(* with their locks and checkpoints, the persistence of the candidates in  *)
(* batches of adaptive size, and the row of pipeline_runs.                 *)
(*                                                                         *)
(* JobQueue shows that one execution of a job runs at a time; here the     *)
(* queue hands the run to one execution after another. StageLock shows what*)
(* the locks promise, with unlocks that are lost or find another's lock;   *)
(* to a run a lock is one it gets or is refused, for whatever reason, also *)
(* one left behind by itself. No release changes what the run does next:   *)
(* #releaseStageLock swallows its failure, and #cleanupAllStageLocks, in   *)
(* the finally, finds no lock of this run left to release.                 *)
(*                                                                         *)
(* Stage 1 generates the candidates (the same in every execution: random   *)
(* names are not modelled); the stages after it each split what comes in   *)
(* into passed and filtered.                                               *)
(***************************************************************************)
EXTENDS Naturals, Sequences, FiniteSets, FiniteSetsExt

CONSTANTS
    Candidates,   \* what CandidateGeneration makes of the run's input
    LastStage,    \* stages are 1 .. LastStage
    MaxExecs,     \* bound: executions of the run, one after the other
    MaxAttempts,  \* max_attempts of the job
    MinBatch,     \* PERSISTENCE_BATCH_SIZE_MIN
    InitialBatch, \* PERSISTENCE_BATCH_SIZE_INITIAL
    MaxBatch      \* PERSISTENCE_BATCH_SIZE_MAX

ASSUME PipelineRunAssumption ==
    /\ IsFiniteSet(Candidates)
    /\ LastStage \in Nat /\ LastStage > 1
    /\ MaxExecs \in Nat \ {0}
    /\ MaxAttempts \in 1 .. MaxExecs
    /\ MinBatch \in Nat \ {0} /\ MaxBatch \in Nat
    /\ InitialBatch \in MinBatch .. MaxBatch

VARIABLES
    submit,     \* enqueueRun of the caller: where it is
    job,        \* status and attempts of the job
    row,        \* status of the row of pipeline_runs
    ckpt,       \* pipeline_checkpoints: the stages saved, in the order of their ids
    saves,      \* saves sent and not awaited
    exec,       \* the executions
    scores,     \* the domains with a row of scoring_runs for this run
    vetted      \* history: what each stage has passed in some execution

vars == <<submit, job, row, ckpt, saves, exec, scores, vetted>>

Stages == 1 .. LastStage
Execs  == 1 .. MaxExecs

Exec == [at: {"new", "row", "load", "lock", "work", "clearing", "giving up",
              "upsert", "score", "metrics", "complete", "done",
              "fail row", "fail job", "over", "dead"},
         stage: Stages,
         passed: SUBSET Candidates, filtered: SUBSET Candidates,
         degraded: BOOLEAN, aborted: BOOLEAN,
         todo: SUBSET Candidates,   \* what the persistence loop still visits
         ids: SUBSET Candidates,    \* idByDomain: what is in the table candidates
         size: MinBatch .. MaxBatch]

NewExec == [at |-> "new", stage |-> 1, passed |-> {}, filtered |-> {},
            degraded |-> FALSE, aborted |-> FALSE, todo |-> {}, ids |-> {},
            size |-> InitialBatch]

TypeOK ==
    /\ submit \in {"none", "enqueued", "returned", "rejected"}
    /\ job \in [status: {"none", "queued", "running", "completed", "dead"},
                attempts: 0 .. MaxExecs]
    /\ row \in {"none", "started", "completed", "failed"}
    /\ ckpt \in Seq(Stages)
    /\ saves \subseteq Stages
    /\ exec \in [Execs -> Exec]
    /\ scores \subseteq Candidates
    /\ vetted \in [Stages -> SUBSET Candidates]

-----------------------------------------------------------------------------
Live(e) == exec[e].at \notin {"new", "over", "dead"}

Goes(e, at) == exec' = [exec EXCEPT ![e].at = at]

\* the same, when what the execution has found so far is no longer of use
Quits(e, at) == exec' = [exec EXCEPT ![e] = [NewExec EXCEPT !.at = at]]

Init ==
    /\ submit = "none"
    /\ job = [status |-> "none", attempts |-> 0]
    /\ row = "none"
    /\ ckpt = << >>
    /\ saves = {}
    /\ exec = [e \in Execs |-> NewExec]
    /\ scores = {}
    /\ vetted = [s \in Stages |-> {}]

-----------------------------------------------------------------------------
(* enqueueRun: first the job, then the row, unless the worker was faster and the
   second insert violates the primary key. A caller that dies in between never
   takes the second step *)

SubmitJob ==
    /\ submit = "none"
    /\ submit' = "enqueued"
    /\ job' = [job EXCEPT !.status = "queued"]
    /\ UNCHANGED <<row, ckpt, saves, exec, scores, vetted>>

SubmitRow ==
    /\ submit = "enqueued"
    /\ submit' = IF row = "none" THEN "returned" ELSE "rejected"
    /\ row' = IF row = "none" THEN "started" ELSE row
    /\ UNCHANGED <<job, ckpt, saves, exec, scores, vetted>>

-----------------------------------------------------------------------------
(* The job *)

\* the job is claimed, also from a worker that died with it
Start(e) ==
    /\ exec[e].at = "new"
    /\ \A d \in Execs : d < e => exec[d].at \in {"over", "dead"}
    /\ job.status \in {"queued", "running"}
    /\ job' = [status |-> "running", attempts |-> job.attempts + 1]
    /\ Goes(e, "row")
    /\ UNCHANGED <<submit, row, ckpt, saves, scores, vetted>>

JobDone(e) ==
    /\ exec[e].at = "done"
    /\ job' = [job EXCEPT !.status = "completed"]
    /\ Quits(e, "over")
    /\ UNCHANGED <<submit, row, ckpt, saves, scores, vetted>>

\* the statement that completes the job is rejected, which counts as its failure
JobDoneFails(e) ==
    /\ exec[e].at = "done"
    /\ Quits(e, "fail job")
    /\ UNCHANGED <<submit, job, row, ckpt, saves, scores, vetted>>

\* mutant of JobFails: at the end of its attempts the job counts as done
JobFailsDone(e) ==
    /\ exec[e].at = "fail job"
    /\ job' = [job EXCEPT !.status =
                  IF job.attempts < MaxAttempts THEN "queued" ELSE "completed"]
    /\ Quits(e, "over")
    /\ UNCHANGED <<submit, row, ckpt, saves, scores, vetted>>

\* mutant of JobFails: the failure is not recorded
JobFailsStuck(e) ==
    /\ exec[e].at = "fail job"
    /\ job' = job
    /\ Quits(e, "over")
    /\ UNCHANGED <<submit, row, ckpt, saves, scores, vetted>>

JobFails(e) ==
    /\ exec[e].at = "fail job"
    /\ job' = [job EXCEPT !.status =
                  IF job.attempts < MaxAttempts THEN "queued" ELSE "dead"]
    /\ Quits(e, "over")
    /\ UNCHANGED <<submit, row, ckpt, saves, scores, vetted>>

\* shutdown of the worker, or the third failed renewal of the stage's lock; after
\* the stages nobody looks at the signal
Abort(e) ==
    /\ exec[e].at \in {"row", "load", "lock", "work"}
    /\ ~exec[e].aborted
    /\ exec' = [exec EXCEPT ![e].aborted = TRUE]
    /\ UNCHANGED <<submit, job, row, ckpt, saves, scores, vetted>>

\* the last execution of the bound finishes, so that the bound is no crash
Crash(e) ==
    /\ Live(e)
    /\ e < MaxExecs
    /\ Quits(e, "dead")
    /\ UNCHANGED <<submit, job, row, ckpt, saves, scores, vetted>>

-----------------------------------------------------------------------------
(* Before the stages *)

\* runSync: a retry finds the row of the submission or of an earlier attempt
EnsureRow(e) ==
    /\ exec[e].at = "row"
    /\ row' = IF row = "none" THEN "started" ELSE row
    /\ Goes(e, "load")
    /\ UNCHANGED <<submit, job, ckpt, saves, scores, vetted>>

\* aborted already, or the checkpoints cannot be read
GivesUpEarly(e) ==
    /\ exec[e].at = "load"
    /\ Quits(e, "giving up")
    /\ UNCHANGED <<submit, job, row, ckpt, saves, scores, vetted>>

\* getResumeIndex of the stage saved last. It knows the stages by the names of
\* their classes, and all but the first are saved under another one
ResumeIndex(s) == IF s = 1 THEN 1 ELSE 0

\* checkpoints of another format or older than a day are ignored
Load(e, usable) ==
    LET resumes == usable /\ ckpt # << >> /\ ResumeIndex(ckpt[Len(ckpt)]) > 0 IN
    /\ exec[e].at = "load"
    /\ ~exec[e].aborted
    /\ exec' = [exec EXCEPT ![e].at = "lock",
                            ![e].stage = IF resumes THEN 2 ELSE 1,
                            ![e].passed = IF resumes THEN Candidates ELSE {}]
    /\ UNCHANGED <<submit, job, row, ckpt, saves, scores, vetted>>

-----------------------------------------------------------------------------
(* The stages *)

\* also of a stage whose lock this execution or an earlier one has left: it expired
Lock(e) ==
    /\ exec[e].at = "lock"
    /\ Goes(e, "work")
    /\ UNCHANGED <<submit, job, row, ckpt, saves, scores, vetted>>

\* refused, because it is held, by another or still by an execution that could not
\* release it, or the statement failed: the run throws
LockRefused(e) ==
    /\ exec[e].at = "lock"
    /\ Quits(e, "giving up")
    /\ UNCHANGED <<submit, job, row, ckpt, saves, scores, vetted>>

\* The stage's result: its lock is released, its checkpoint sent off, and the
\* run goes on unless it was aborted or its time is over. That is not looked at
\* after the last stage
Ends(e, keep, drop, degrades) ==
    LET s == exec[e].stage IN
    \E late \in BOOLEAN :
       /\ IF s < LastStage /\ (exec[e].aborted \/ late)
          THEN Quits(e, "giving up")
          ELSE exec' = [exec EXCEPT
                  ![e].at = IF s < LastStage THEN "lock" ELSE "clearing",
                  ![e].stage = IF s < LastStage THEN s + 1 ELSE s,
                  ![e].passed = keep,
                  ![e].filtered = @ \cup drop,
                  ![e].degraded = @ \/ degrades]
       /\ saves' = saves \cup {s}
       /\ UNCHANGED <<submit, job, row, ckpt, scores>>

Vets(e, keep) == vetted' = [vetted EXCEPT ![exec[e].stage] = @ \cup keep]

Generates(e) ==
    /\ exec[e].at = "work"
    /\ exec[e].stage = 1
    /\ Ends(e, Candidates, {}, FALSE)
    /\ Vets(e, Candidates)

\* it throws, or the run's time ends meanwhile: the result is empty
GenerationFails(e) ==
    /\ exec[e].at = "work"
    /\ exec[e].stage = 1
    /\ exec' = [exec EXCEPT ![e].at = "clearing", ![e].degraded = TRUE]
    /\ UNCHANGED <<submit, job, row, ckpt, saves, scores, vetted>>

Filters(e) ==
    /\ exec[e].at = "work"
    /\ exec[e].stage > 1
    /\ ~exec[e].aborted
    /\ \E keep \in SUBSET exec[e].passed :
          /\ Ends(e, keep, exec[e].passed \ keep, FALSE)
          /\ Vets(e, keep)

\* a split of a part of what came in, perhaps of nothing
Cut(e, degrades) ==
    \E keep, drop \in SUBSET exec[e].passed :
       /\ keep \cap drop = {}
       /\ Ends(e, keep, drop, degrades)
       /\ Vets(e, keep)

\* an aborted stage returns what it has, like any other result
StageIsAborted(e) ==
    /\ exec[e].at = "work"
    /\ exec[e].stage > 1
    /\ exec[e].aborted
    /\ Cut(e, FALSE)

\* mutant of OverBudget: the budget ends like an abort
OverBudgetUnflagged(e) ==
    /\ exec[e].at = "work"
    /\ exec[e].stage > 1
    /\ Cut(e, FALSE)

\* over its budget: what the stage returns within the grace time, or nothing
OverBudget(e) ==
    /\ exec[e].at = "work"
    /\ exec[e].stage > 1
    /\ Cut(e, TRUE)

\* mutant of StageFails: what came in is handed on
StageFailsOpen(e) ==
    /\ exec[e].at = "work"
    /\ exec[e].stage > 1
    /\ Ends(e, exec[e].passed, {}, TRUE)
    /\ UNCHANGED vetted

\* it throws, for the last time if the error was transient
StageFails(e) ==
    /\ exec[e].at = "work"
    /\ exec[e].stage > 1
    /\ Ends(e, {}, {}, TRUE)
    /\ UNCHANGED vetted

-----------------------------------------------------------------------------
(* The checkpoints *)

SaveLands(s) ==
    /\ s \in saves
    /\ saves' = saves \ {s}
    /\ ckpt' = IF \E i \in DOMAIN ckpt : ckpt[i] = s THEN ckpt ELSE Append(ckpt, s)
    /\ UNCHANGED <<submit, job, row, exec, scores, vetted>>

SaveFails(s) ==
    /\ s \in saves
    /\ saves' = saves \ {s}
    /\ UNCHANGED <<submit, job, row, ckpt, exec, scores, vetted>>

\* finally: whatever became of the run, its checkpoints are deleted, if the
\* statement does not fail
Clear(e) ==
    /\ exec[e].at \in {"clearing", "giving up"}
    /\ ckpt' \in {<< >>, ckpt}
    /\ exec' = IF exec[e].at = "giving up"
               THEN [exec EXCEPT ![e].at = "fail row"]
               ELSE [exec EXCEPT ![e].at = "upsert",
                                 ![e].todo = exec[e].passed \cup exec[e].filtered]
    /\ UNCHANGED <<submit, job, row, saves, scores, vetted>>

-----------------------------------------------------------------------------
(* Persistence *)

NewSizes(n) ==
    {n} \cup (IF n > MinBatch THEN {Max({MinBatch, n \div 2})} ELSE {})
        \cup (IF n < MaxBatch THEN {Min({MaxBatch, 2 * n})} ELSE {})

Batches(todo, n) == kSubset(Min({n, Cardinality(todo)}), todo)

\* i += batchSize, which the batch has changed: a larger size steps over
\* candidates, a smaller one comes back to some
Onwards(todo, batch, n, m) ==
    LET rest == todo \ batch IN
    IF m >= n
    THEN {rest \ skipped : skipped \in kSubset(Min({m - n, Cardinality(rest)}), rest)}
    ELSE {rest \cup again : again \in
             kSubset(Cardinality(batch) - Min({m, Cardinality(batch)}), batch)}

UpsertBatch(e) ==
    LET x == exec[e] IN
    /\ x.at = "upsert"
    /\ x.todo # {}
    /\ \E batch \in Batches(x.todo, x.size), m \in NewSizes(x.size) :
       \E todo \in Onwards(x.todo, batch, x.size, m) :
          exec' = [exec EXCEPT ![e].todo = todo, ![e].size = m,
                               ![e].ids = @ \cup batch]
    /\ UNCHANGED <<submit, job, row, ckpt, saves, scores, vetted>>

\* the scored ones that have an id: all that passed, and those of the filtered
\* that were filtered by or after the scoring
UpsertsDone(e) ==
    LET x == exec[e] IN
    /\ x.at = "upsert"
    /\ x.todo = {}
    /\ \E more \in SUBSET x.filtered :
          exec' = [exec EXCEPT ![e].at = "score", ![e].size = InitialBatch,
                               ![e].todo = (x.passed \cup more) \cap x.ids]
    /\ UNCHANGED <<submit, job, row, ckpt, saves, scores, vetted>>

ScoreBatch(e) ==
    LET x == exec[e] IN
    /\ x.at = "score"
    /\ x.todo # {}
    /\ \E batch \in Batches(x.todo, x.size), m \in NewSizes(x.size) :
       \E todo \in Onwards(x.todo, batch, x.size, m) :
          /\ scores' = scores \cup batch
          /\ exec' = [exec EXCEPT ![e].todo = todo, ![e].size = m]
    /\ UNCHANGED <<submit, job, row, ckpt, saves, vetted>>

ScoresDone(e) ==
    /\ exec[e].at = "score"
    /\ exec[e].todo = {}
    /\ exec' = [exec EXCEPT ![e].at = "metrics", ![e].size = InitialBatch]
    /\ UNCHANGED <<submit, job, row, ckpt, saves, scores, vetted>>

\* a batch that throws, or the deadline: the row gets the error. On Postgres the
\* statements of a batch are not in its transaction: those before the error stay
PersistFails(e) ==
    /\ exec[e].at \in {"upsert", "score"}
    /\ Quits(e, "fail row")
    /\ \E kept \in SUBSET exec[e].todo :
          scores' = IF exec[e].at = "score" THEN scores \cup kept ELSE scores
    /\ UNCHANGED <<submit, job, row, ckpt, saves, vetted>>

MetricsPersisted(e) ==
    /\ exec[e].at = "metrics"
    /\ Goes(e, "complete")
    /\ UNCHANGED <<submit, job, row, ckpt, saves, scores, vetted>>

\* outside of any try: only the job learns of it
MetricsFail(e) ==
    /\ exec[e].at = "metrics"
    /\ Quits(e, "fail job")
    /\ UNCHANGED <<submit, job, row, ckpt, saves, scores, vetted>>

Complete(e) ==
    /\ exec[e].at = "complete"
    /\ row' = "completed"
    /\ Goes(e, "done")
    /\ UNCHANGED <<submit, job, ckpt, saves, scores, vetted>>

FailRow(e) ==
    /\ exec[e].at = "fail row"
    /\ row' = "failed"
    /\ Quits(e, "fail job")
    /\ UNCHANGED <<submit, job, ckpt, saves, scores, vetted>>

\* a statement on the row is rejected
RowStatementFails(e) ==
    /\ exec[e].at \in {"row", "complete", "fail row"}
    /\ Quits(e, "fail job")
    /\ UNCHANGED <<submit, job, row, ckpt, saves, scores, vetted>>

-----------------------------------------------------------------------------
Progress(e) ==
    \/ Start(e) \/ EnsureRow(e) \/ GivesUpEarly(e)
    \/ \E usable \in BOOLEAN : Load(e, usable)
    \/ Lock(e) \/ LockRefused(e)
    \/ Generates(e) \/ GenerationFails(e)
    \/ Filters(e) \/ StageIsAborted(e) \/ OverBudget(e) \/ StageFails(e)
    \/ Clear(e)
    \/ UpsertBatch(e) \/ UpsertsDone(e) \/ ScoreBatch(e) \/ ScoresDone(e)
    \/ PersistFails(e) \/ MetricsPersisted(e) \/ MetricsFail(e)
    \/ Complete(e) \/ FailRow(e) \/ RowStatementFails(e)
    \/ JobDone(e) \/ JobDoneFails(e) \/ JobFails(e)

Next ==
    \/ SubmitJob \/ SubmitRow
    \/ \E e \in Execs : Progress(e) \/ Abort(e) \/ Crash(e)
    \/ \E s \in Stages : SaveLands(s) \/ SaveFails(s)

Spec == Init /\ [][Next]_vars

\* The queue hands the job out again and again (JobQueue); stages have budgets,
\* statements answer or are rejected.
FairSpec == Spec /\ \A e \in Execs : WF_vars(Progress(e))

-----------------------------------------------------------------------------
(* Properties *)

\* the stages are over and the result is on its way to the tables
HasResult(e) == exec[e].at \in {"upsert", "score", "metrics", "complete", "done"}

Accounted(e) == exec[e].passed \cup exec[e].filtered = Candidates

\* A result without the degraded flag accounts for every candidate, unless the
\* run was aborted.
CleanRunIsComplete ==
    \A e \in Execs :
        HasResult(e) /\ ~exec[e].degraded /\ ~exec[e].aborted => Accounted(e)

\* Fail closed: whatever failed, timed out or was resumed, a candidate is
\* recommended only after every stage has passed it.
RecommendedIsVetted ==
    \A e \in Execs : HasResult(e) =>
        \A s \in Stages : exec[e].passed \subseteq vetted[s]

\* A completed job has a completed row.
JobAndRowAgree == job.status = "completed" => row = "completed"

\* Whoever crashes, an accepted run comes to its end.
EveryRunEnds == submit = "enqueued" ~> job.status \in {"completed", "dead"}

(* What the repository's text says and the code does not do *)

\* src/app/pipeline-run-service.ts:283: runSync persists all results before it
\* returns.
PersistsAll ==
    \A e \in Execs : exec[e].at = "done" =>
        /\ exec[e].passed \cup exec[e].filtered \subseteq exec[e].ids
        /\ exec[e].passed \subseteq scores

=============================================================================
