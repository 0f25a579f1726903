--------------------------- MODULE PipelineRunProofs ---------------------------
(***************************************************************************)
(* What holds of a pipeline run for every set of candidates, number of     *)
(* stages, executions and attempts, and all sizes of the batches.          *)
(***************************************************************************)
EXTENDS PipelineRun, SequenceTheorems, TLAPS

Positions == {"new", "row", "load", "lock", "work", "clearing", "giving up",
              "upsert", "score", "metrics", "complete", "done",
              "fail row", "fail job", "over", "dead"}

\* what the assumption says of the sets the types are made of
LEMMA Constants ==
    /\ 1 \in Stages /\ LastStage \in Stages
    /\ \A s \in Stages : s < LastStage => s + 1 \in Stages
    /\ 2 \in Stages /\ LastStage # 1
    /\ InitialBatch \in MinBatch .. MaxBatch
    /\ 0 \notin Execs
BY PipelineRunAssumption DEF Stages, Execs

\* batches keep their size within its bounds
LEMMA SizesBounded ==
    ASSUME NEW n \in MinBatch .. MaxBatch
    PROVE  NewSizes(n) \subseteq MinBatch .. MaxBatch
<1>1. ASSUME n > MinBatch PROVE Max({MinBatch, n \div 2}) \in MinBatch .. MaxBatch
  <2>1. n \div 2 \in Nat /\ n \div 2 <= n
    BY PipelineRunAssumption
  <2>2. \E x \in {MinBatch, n \div 2} : \A y \in {MinBatch, n \div 2} : x >= y
    BY <2>1, PipelineRunAssumption
  <2>3. /\ Max({MinBatch, n \div 2}) \in {MinBatch, n \div 2}
        /\ Max({MinBatch, n \div 2}) >= MinBatch
    BY <2>2 DEF Max
  <2> QED
    BY <2>1, <2>3, PipelineRunAssumption
<1>2. ASSUME n < MaxBatch PROVE Min({MaxBatch, 2 * n}) \in MinBatch .. MaxBatch
  <2>1. n \in Nat /\ MinBatch \in Nat /\ MaxBatch \in Nat /\ 2 * n \in Nat /\ 2 * n >= n
    BY PipelineRunAssumption
  <2>2. CASE MaxBatch <= 2 * n
    <3>1. \E x \in {MaxBatch, 2 * n} : \A y \in {MaxBatch, 2 * n} : x =< y
      <4> WITNESS MaxBatch \in {MaxBatch, 2 * n}
      <4> QED
        BY <2>1, <2>2
    <3>2. /\ Min({MaxBatch, 2 * n}) \in {MaxBatch, 2 * n}
          /\ Min({MaxBatch, 2 * n}) <= MaxBatch
      BY <3>1 DEF Min
    <3> QED
      BY <2>1, <3>2, PipelineRunAssumption
  <2>3. CASE 2 * n <= MaxBatch
    <3>1. \E x \in {MaxBatch, 2 * n} : \A y \in {MaxBatch, 2 * n} : x =< y
      <4> WITNESS 2 * n \in {MaxBatch, 2 * n}
      <4> QED
        BY <2>1, <2>3
    <3>2. /\ Min({MaxBatch, 2 * n}) \in {MaxBatch, 2 * n}
          /\ Min({MaxBatch, 2 * n}) <= MaxBatch
      BY <3>1 DEF Min
    <3> QED
      BY <2>1, <3>2, PipelineRunAssumption
  <2> QED
    BY <2>1, <2>2, <2>3
<1> QED
  BY <1>1, <1>2 DEF NewSizes

\* a batch is taken from what is left, and the loop never visits anything else
LEMMA BatchesWithin ==
    ASSUME NEW todo \in SUBSET Candidates, NEW n, NEW m,
           NEW batch \in Batches(todo, n), NEW rest \in Onwards(todo, batch, n, m)
    PROVE  batch \subseteq todo /\ rest \subseteq todo
<1>1. batch \subseteq todo
  BY DEF Batches, kSubset
<1>2. CASE m >= n
  BY <1>1, <1>2 DEF Onwards, kSubset
<1>3. CASE ~(m >= n)
  BY <1>1, <1>3 DEF Onwards, kSubset
<1> QED
  BY <1>1, <1>2, <1>3

-----------------------------------------------------------------------------
(* Types *)

\* an execution that has quit is typed
LEMMA NewExecTyped ==
    ASSUME NEW at \in Positions PROVE [NewExec EXCEPT !.at = at] \in Exec
BY Constants DEF NewExec, Exec, Positions

\* what an action does to the one execution that takes it
LEMMA GoesShape ==
    ASSUME TypeOK, NEW e \in Execs, NEW at \in Positions, Goes(e, at)
    PROVE  /\ exec' \in [Execs -> Exec]
           /\ exec'[e] = [exec[e] EXCEPT !.at = at]
           /\ exec'[e].at = at
           /\ \A d \in Execs \ {e} : exec'[d] = exec[d]
<1>1. exec \in [Execs -> Exec] /\ exec[e] \in Exec
  BY DEF TypeOK
<1>2. [exec[e] EXCEPT !.at = at] \in Exec
  BY <1>1 DEF Exec, Positions
<1>3. exec' = [exec EXCEPT ![e] = [exec[e] EXCEPT !.at = at]]
  BY <1>1 DEF Goes, Exec
<1>4. [exec[e] EXCEPT !.at = at].at = at
  BY <1>1 DEF Exec
<1> QED
  BY <1>1, <1>2, <1>3, <1>4

\* the same of an execution that quits
LEMMA QuitsShape ==
    ASSUME TypeOK, NEW e \in Execs, NEW at \in Positions, Quits(e, at)
    PROVE  /\ exec' \in [Execs -> Exec]
           /\ exec'[e] = [NewExec EXCEPT !.at = at]
           /\ exec'[e].at = at
           /\ \A d \in Execs \ {e} : exec'[d] = exec[d]
<1>1. [NewExec EXCEPT !.at = at] \in Exec
  BY NewExecTyped
<1>2. exec \in [Execs -> Exec] /\ exec' = [exec EXCEPT ![e] = [NewExec EXCEPT !.at = at]]
  BY DEF TypeOK, Quits
<1>3. [NewExec EXCEPT !.at = at].at = at
  BY DEF NewExec
<1> QED
  BY <1>1, <1>2, <1>3

\* the record of an execution that goes on after its stage
GoneOn(x, keep, drop, degrades) ==
    [x EXCEPT !.at = IF x.stage < LastStage THEN "lock" ELSE "clearing",
              !.stage = IF x.stage < LastStage THEN x.stage + 1 ELSE x.stage,
              !.passed = keep,
              !.filtered = x.filtered \cup drop,
              !.degraded = x.degraded \/ degrades]

Ended(e, keep, drop, degrades) ==
    /\ exec' \in [Execs -> Exec]
    /\ exec'[e].at \in {"giving up", "lock", "clearing"}
    /\ \/ exec'[e] = [NewExec EXCEPT !.at = "giving up"]
       \/ /\ exec'[e] = GoneOn(exec[e], keep, drop, degrades)
          /\ exec[e].stage < LastStage => ~exec[e].aborted
    /\ \A d \in Execs \ {e} : exec'[d] = exec[d]
    /\ saves' = saves \cup {exec[e].stage}
    /\ UNCHANGED <<submit, job, row, ckpt, scores>>

\* the end of a stage either quits or goes on
LEMMA EndsShape ==
    ASSUME TypeOK, NEW e \in Execs, NEW keep \in SUBSET Candidates,
           NEW drop \in SUBSET Candidates, NEW degrades \in BOOLEAN,
           Ends(e, keep, drop, degrades)
    PROVE  Ended(e, keep, drop, degrades)
<1> DEFINE s == exec[e].stage
<1>1. exec \in [Execs -> Exec] /\ exec[e] \in Exec /\ s \in Stages
  BY DEF TypeOK, Exec
<1>2. s < LastStage => s + 1 \in Stages
  BY <1>1, Constants
<1>3. CASE Quits(e, "giving up")
  BY <1>3, QuitsShape DEF Positions, Ends, Ended
<1>4. CASE ~Quits(e, "giving up")
  <2> DEFINE x == GoneOn(exec[e], keep, drop, degrades)
  <2>1. /\ (IF s < LastStage THEN "lock" ELSE "clearing") \in Positions
        /\ (IF s < LastStage THEN s + 1 ELSE s) \in Stages
    BY <1>1, <1>2 DEF Positions
  <2>2. exec[e].filtered \cup drop \in SUBSET Candidates
    BY <1>1 DEF Exec
  <2>3. (exec[e].degraded \/ degrades) \in BOOLEAN
    OBVIOUS
  <2>4. x \in Exec
    BY <1>1, <2>1, <2>2, <2>3 DEF Exec, Positions, GoneOn
  <2>5. exec' = [exec EXCEPT ![e] = x]
    BY <1>4, <1>1 DEF Ends, Exec, GoneOn
  <2>6. s < LastStage => ~exec[e].aborted
    BY <1>4 DEF Ends
  <2>8. x.at \in {"lock", "clearing"}
    BY <1>1 DEF GoneOn, Exec
  <2> HIDE DEF x
  <2>7. /\ exec' \in [Execs -> Exec]
        /\ exec'[e] = x
        /\ \A d \in Execs \ {e} : exec'[d] = exec[d]
    BY <1>1, <2>4, <2>5
  <2> QED
    BY <2>6, <2>7, <2>8 DEF x, Ends, Ended
<1> QED
  BY <1>3, <1>4

-----------------------------------------------------------------------------
(* Types *)

\* The executions are those of the first attempts of the job.
InOrder == \A e \in Execs : exec[e].at # "new" <=> e <= job.attempts

Typed == TypeOK /\ InOrder

\* What an action does to the execution that takes it, to the job and the row.
Moved(e) ==
    /\ exec[e].at \notin {"new", "over", "dead"}
    /\ exec'[e].at # "new"
    /\ \A d \in Execs \ {e} : exec'[d] = exec[d]
    /\ \/ job'.status = job.status
       \/ job'.status \in {"queued", "dead"}
       \/ exec[e].at = "done" /\ exec'[e].at = "over" /\ row' = row
    /\ exec'[e].at = "done" => row' = "completed"
    /\ submit' = submit

\* an execution that has begun never becomes new again
LEMMA InOrderKept ==
    ASSUME Typed, NEW e \in Execs, exec[e].at # "new", exec'[e].at # "new",
           \A d \in Execs \ {e} : exec'[d] = exec[d], job'.attempts = job.attempts
    PROVE  InOrder'
BY DEF Typed, InOrder

\* the end of a stage, whatever it kept and dropped, is typed
LEMMA EndsTyped ==
    ASSUME Typed, NEW e \in Execs, exec[e].at = "work",
           NEW keep \in SUBSET Candidates,
           NEW drop \in SUBSET Candidates, NEW degrades \in BOOLEAN,
           Ends(e, keep, drop, degrades),
           Vets(e, keep) \/ UNCHANGED vetted
    PROVE  Typed' /\ Moved(e)
<1>1. exec[e] \in Exec /\ exec[e].stage \in Stages /\ TypeOK
  BY DEF Typed, TypeOK, Exec
<1>2. Ended(e, keep, drop, degrades)
  BY <1>1, EndsShape
<1>3. vetted' \in [Stages -> SUBSET Candidates]
  BY <1>1 DEF TypeOK, Vets
<1>4. TypeOK'
  BY <1>1, <1>2, <1>3 DEF TypeOK, Ended
<1>5. Moved(e)
  BY <1>2 DEF Moved, Ended
<1> QED
  BY <1>2, <1>4, <1>5, InOrderKept DEF Typed, Ended

\* so is that of a stage that is cut short
LEMMA CutTyped ==
    ASSUME Typed, NEW e \in Execs, exec[e].at = "work", NEW degrades \in BOOLEAN,
           Cut(e, degrades)
    PROVE  Typed' /\ Moved(e)
<1>1. PICK keep \in SUBSET exec[e].passed, drop \in SUBSET exec[e].passed :
         Ends(e, keep, drop, degrades) /\ Vets(e, keep)
  BY DEF Cut
<1>2. keep \in SUBSET Candidates /\ drop \in SUBSET Candidates
  BY DEF Typed, TypeOK, Exec
<1> QED
  BY <1>1, <1>2, EndsTyped

\* one case per action: the types are kept, and the action starts the execution or
\* moves it
LEMMA ActionTyped ==
    ASSUME Typed, NEW e \in Execs, Progress(e) \/ Abort(e) \/ Crash(e)
    PROVE  Typed' /\ (Start(e) \/ Moved(e))
<1>1. ASSUME Start(e) PROVE Typed'
  <2>1. /\ exec' \in [Execs -> Exec]
        /\ exec'[e].at = "row"
        /\ \A d \in Execs \ {e} : exec'[d] = exec[d]
    BY <1>1, GoesShape DEF Start, Positions, Typed
  <2>3. e = job.attempts + 1 /\ job'.attempts = e
    <3>1. job.attempts \in Nat /\ e \in Nat /\ e > job.attempts /\ e > 0
      BY <1>1 DEF Start, Typed, TypeOK, InOrder, Execs
    <3>2. job.attempts + 1 < e => FALSE
      <4> SUFFICES ASSUME job.attempts + 1 < e PROVE FALSE
        OBVIOUS
      <4>1. job.attempts + 1 \in Execs
        BY <3>1, PipelineRunAssumption DEF Execs
      <4>2. exec[job.attempts + 1].at # "new"
        BY <1>1, <4>1 DEF Start
      <4> QED
        BY <3>1, <4>1, <4>2 DEF Typed, InOrder
    <3>3. job'.attempts = job.attempts + 1
      BY <1>1 DEF Start
    <3> QED
      BY <3>1, <3>2, <3>3
  <2>4. TypeOK'
    <3>1. job' \in [status: {"none", "queued", "running", "completed", "dead"},
                    attempts: 0 .. MaxExecs]
      BY <1>1, <2>3, PipelineRunAssumption DEF Start, Execs
    <3> QED
      BY <1>1, <2>1, <3>1 DEF Start, Typed, TypeOK
  <2>5. InOrder'
    <3> SUFFICES ASSUME NEW d \in Execs PROVE exec'[d].at # "new" <=> d <= job'.attempts
      BY DEF InOrder
    <3>1. CASE d = e
      BY <2>1, <2>3, <3>1 DEF Execs
    <3>2. CASE d # e
      <4>1. exec'[d] = exec[d] /\ (exec[d].at # "new" <=> d <= job.attempts)
        BY <2>1, <3>2 DEF Typed, InOrder
      <4>2. job.attempts \in Nat /\ d \in Nat /\ e \in Nat
        BY DEF Typed, TypeOK, Execs
      <4> QED
        BY <2>3, <3>2, <4>1, <4>2
    <3> QED
      BY <3>1, <3>2
  <2> QED
    BY <2>4, <2>5 DEF Typed
<1>2. ASSUME EnsureRow(e) PROVE Typed' /\ Moved(e)
  <2>1. exec[e].at \notin {"new", "over", "dead"} /\ TypeOK /\ exec[e] \in Exec
    BY <1>2 DEF EnsureRow, Typed, TypeOK
  <2>2. /\ exec' \in [Execs -> Exec]
        /\ exec'[e].at = "load"
        /\ \A d \in Execs \ {e} : exec'[d] = exec[d]
    BY <1>2, <2>1, GoesShape DEF EnsureRow, Positions
  <2>3. TypeOK'
    BY <1>2, <2>1, <2>2 DEF EnsureRow, TypeOK
  <2>4. Moved(e)
    BY <1>2, <2>1, <2>2 DEF EnsureRow, Moved, TypeOK
  <2> QED
    BY <1>2, <2>1, <2>2, <2>3, <2>4, InOrderKept DEF EnsureRow, Typed, TypeOK
<1>3. ASSUME MetricsPersisted(e) PROVE Typed' /\ Moved(e)
  <2>1. exec[e].at \notin {"new", "over", "dead"} /\ TypeOK /\ exec[e] \in Exec
    BY <1>3 DEF MetricsPersisted, Typed, TypeOK
  <2>2. /\ exec' \in [Execs -> Exec]
        /\ exec'[e].at = "complete"
        /\ \A d \in Execs \ {e} : exec'[d] = exec[d]
    BY <1>3, <2>1, GoesShape DEF MetricsPersisted, Positions
  <2>3. TypeOK'
    BY <1>3, <2>1, <2>2 DEF MetricsPersisted, TypeOK
  <2>4. Moved(e)
    BY <1>3, <2>1, <2>2 DEF MetricsPersisted, Moved, TypeOK
  <2> QED
    BY <1>3, <2>1, <2>2, <2>3, <2>4, InOrderKept DEF MetricsPersisted, Typed, TypeOK
<1>4. ASSUME Complete(e) PROVE Typed' /\ Moved(e)
  <2>1. exec[e].at \notin {"new", "over", "dead"} /\ TypeOK /\ exec[e] \in Exec
    BY <1>4 DEF Complete, Typed, TypeOK
  <2>2. /\ exec' \in [Execs -> Exec]
        /\ exec'[e].at = "done"
        /\ \A d \in Execs \ {e} : exec'[d] = exec[d]
    BY <1>4, <2>1, GoesShape DEF Complete, Positions
  <2>3. TypeOK'
    BY <1>4, <2>1, <2>2 DEF Complete, TypeOK
  <2>4. Moved(e)
    BY <1>4, <2>1, <2>2 DEF Complete, Moved, TypeOK
  <2> QED
    BY <1>4, <2>1, <2>2, <2>3, <2>4, InOrderKept DEF Complete, Typed, TypeOK
<1>5. ASSUME Lock(e) PROVE Typed' /\ Moved(e)
  <2>1. exec[e].at = "lock" /\ TypeOK /\ exec[e] \in Exec
    BY <1>5 DEF Lock, Typed, TypeOK
  <2>2. /\ exec' \in [Execs -> Exec]
        /\ exec'[e] = [exec[e] EXCEPT !.at = "work"]
        /\ \A d \in Execs \ {e} : exec'[d] = exec[d]
    BY <1>5, <2>1, GoesShape DEF Lock, Positions
  <2>3. exec'[e].at = "work" /\ exec'[e].stage = exec[e].stage
    BY <2>1, <2>2 DEF Exec
  <2>4. TypeOK'
    BY <1>5, <2>1, <2>2 DEF Lock, TypeOK
  <2>5. Moved(e)
    BY <1>5, <2>1, <2>2, <2>3 DEF Lock, Moved, TypeOK
  <2> QED
    BY <1>5, <2>1, <2>2, <2>3, <2>4, <2>5, InOrderKept DEF Lock, Typed, TypeOK
<1>6. ASSUME GivesUpEarly(e) PROVE Typed' /\ Moved(e)
  <2>1. exec[e].at \notin {"new", "over", "dead"} /\ TypeOK /\ exec[e] \in Exec
    BY <1>6 DEF GivesUpEarly, Typed, TypeOK
  <2>2. /\ exec' \in [Execs -> Exec]
        /\ exec'[e].at = "giving up"
        /\ \A d \in Execs \ {e} : exec'[d] = exec[d]
    BY <1>6, <2>1, QuitsShape DEF GivesUpEarly, Positions
  <2>3. TypeOK'
    BY <1>6, <2>1, <2>2 DEF GivesUpEarly, TypeOK
  <2>4. Moved(e)
    BY <1>6, <2>1, <2>2 DEF GivesUpEarly, Moved, TypeOK
  <2> QED
    BY <1>6, <2>1, <2>2, <2>3, <2>4, InOrderKept DEF GivesUpEarly, Typed, TypeOK
<1>7. ASSUME LockRefused(e) PROVE Typed' /\ Moved(e)
  <2>1. exec[e].at \notin {"new", "over", "dead"} /\ TypeOK /\ exec[e] \in Exec
    BY <1>7 DEF LockRefused, Typed, TypeOK
  <2>2. /\ exec' \in [Execs -> Exec]
        /\ exec'[e].at = "giving up"
        /\ \A d \in Execs \ {e} : exec'[d] = exec[d]
    BY <1>7, <2>1, QuitsShape DEF LockRefused, Positions
  <2>3. TypeOK'
    BY <1>7, <2>1, <2>2 DEF LockRefused, TypeOK
  <2>4. Moved(e)
    BY <1>7, <2>1, <2>2 DEF LockRefused, Moved, TypeOK
  <2> QED
    BY <1>7, <2>1, <2>2, <2>3, <2>4, InOrderKept DEF LockRefused, Typed, TypeOK
<1>8. ASSUME PersistFails(e) PROVE Typed' /\ Moved(e)
  <2>1. exec[e].at \notin {"new", "over", "dead"} /\ TypeOK /\ exec[e] \in Exec
    BY <1>8 DEF PersistFails, Typed, TypeOK
  <2>2. /\ exec' \in [Execs -> Exec]
        /\ exec'[e].at = "fail row"
        /\ \A d \in Execs \ {e} : exec'[d] = exec[d]
    BY <1>8, <2>1, QuitsShape DEF PersistFails, Positions
  <2>3. TypeOK'
    <3>1. exec[e].todo \subseteq Candidates
      BY <2>1 DEF Exec
    <3>2. scores' \subseteq Candidates
      BY <1>8, <2>1, <3>1 DEF PersistFails, TypeOK
    <3> QED
      BY <1>8, <2>1, <2>2, <3>2 DEF PersistFails, TypeOK
  <2>4. Moved(e)
    BY <1>8, <2>1, <2>2 DEF PersistFails, Moved, TypeOK
  <2> QED
    BY <1>8, <2>1, <2>2, <2>3, <2>4, InOrderKept DEF PersistFails, Typed, TypeOK
<1>9. ASSUME MetricsFail(e) PROVE Typed' /\ Moved(e)
  <2>1. exec[e].at \notin {"new", "over", "dead"} /\ TypeOK /\ exec[e] \in Exec
    BY <1>9 DEF MetricsFail, Typed, TypeOK
  <2>2. /\ exec' \in [Execs -> Exec]
        /\ exec'[e].at = "fail job"
        /\ \A d \in Execs \ {e} : exec'[d] = exec[d]
    BY <1>9, <2>1, QuitsShape DEF MetricsFail, Positions
  <2>3. TypeOK'
    BY <1>9, <2>1, <2>2 DEF MetricsFail, TypeOK
  <2>4. Moved(e)
    BY <1>9, <2>1, <2>2 DEF MetricsFail, Moved, TypeOK
  <2> QED
    BY <1>9, <2>1, <2>2, <2>3, <2>4, InOrderKept DEF MetricsFail, Typed, TypeOK
<1>10. ASSUME FailRow(e) PROVE Typed' /\ Moved(e)
  <2>1. exec[e].at \notin {"new", "over", "dead"} /\ TypeOK /\ exec[e] \in Exec
    BY <1>10 DEF FailRow, Typed, TypeOK
  <2>2. /\ exec' \in [Execs -> Exec]
        /\ exec'[e].at = "fail job"
        /\ \A d \in Execs \ {e} : exec'[d] = exec[d]
    BY <1>10, <2>1, QuitsShape DEF FailRow, Positions
  <2>3. TypeOK'
    BY <1>10, <2>1, <2>2 DEF FailRow, TypeOK
  <2>4. Moved(e)
    BY <1>10, <2>1, <2>2 DEF FailRow, Moved, TypeOK
  <2> QED
    BY <1>10, <2>1, <2>2, <2>3, <2>4, InOrderKept DEF FailRow, Typed, TypeOK
<1>11. ASSUME RowStatementFails(e) PROVE Typed' /\ Moved(e)
  <2>1. exec[e].at \notin {"new", "over", "dead"} /\ TypeOK /\ exec[e] \in Exec
    BY <1>11 DEF RowStatementFails, Typed, TypeOK
  <2>2. /\ exec' \in [Execs -> Exec]
        /\ exec'[e].at = "fail job"
        /\ \A d \in Execs \ {e} : exec'[d] = exec[d]
    BY <1>11, <2>1, QuitsShape DEF RowStatementFails, Positions
  <2>3. TypeOK'
    BY <1>11, <2>1, <2>2 DEF RowStatementFails, TypeOK
  <2>4. Moved(e)
    BY <1>11, <2>1, <2>2 DEF RowStatementFails, Moved, TypeOK
  <2> QED
    BY <1>11, <2>1, <2>2, <2>3, <2>4, InOrderKept DEF RowStatementFails, Typed, TypeOK
<1>12. ASSUME JobDone(e) PROVE Typed' /\ Moved(e)
  <2>1. exec[e].at \notin {"new", "over", "dead"} /\ TypeOK /\ exec[e] \in Exec
    BY <1>12 DEF JobDone, Typed, TypeOK
  <2>2. /\ exec' \in [Execs -> Exec]
        /\ exec'[e].at = "over"
        /\ \A d \in Execs \ {e} : exec'[d] = exec[d]
    BY <1>12, <2>1, QuitsShape DEF JobDone, Positions
  <2>3. TypeOK'
    BY <1>12, <2>1, <2>2 DEF JobDone, TypeOK
  <2>4. Moved(e)
    BY <1>12, <2>1, <2>2 DEF JobDone, Moved, TypeOK
  <2> QED
    BY <1>12, <2>1, <2>2, <2>3, <2>4, InOrderKept DEF JobDone, Typed, TypeOK
<1>13. ASSUME JobDoneFails(e) PROVE Typed' /\ Moved(e)
  <2>1. exec[e].at \notin {"new", "over", "dead"} /\ TypeOK /\ exec[e] \in Exec
    BY <1>13 DEF JobDoneFails, Typed, TypeOK
  <2>2. /\ exec' \in [Execs -> Exec]
        /\ exec'[e].at = "fail job"
        /\ \A d \in Execs \ {e} : exec'[d] = exec[d]
    BY <1>13, <2>1, QuitsShape DEF JobDoneFails, Positions
  <2>3. TypeOK'
    BY <1>13, <2>1, <2>2 DEF JobDoneFails, TypeOK
  <2>4. Moved(e)
    BY <1>13, <2>1, <2>2 DEF JobDoneFails, Moved, TypeOK
  <2> QED
    BY <1>13, <2>1, <2>2, <2>3, <2>4, InOrderKept DEF JobDoneFails, Typed, TypeOK
<1>14. ASSUME JobFails(e) PROVE Typed' /\ Moved(e)
  <2>1. exec[e].at \notin {"new", "over", "dead"} /\ TypeOK /\ exec[e] \in Exec
    BY <1>14 DEF JobFails, Typed, TypeOK
  <2>2. /\ exec' \in [Execs -> Exec]
        /\ exec'[e].at = "over"
        /\ \A d \in Execs \ {e} : exec'[d] = exec[d]
    BY <1>14, <2>1, QuitsShape DEF JobFails, Positions
  <2>3. TypeOK'
    BY <1>14, <2>1, <2>2 DEF JobFails, TypeOK
  <2>4. Moved(e)
    BY <1>14, <2>1, <2>2 DEF JobFails, Moved, TypeOK
  <2> QED
    BY <1>14, <2>1, <2>2, <2>3, <2>4, InOrderKept DEF JobFails, Typed, TypeOK
<1>15. ASSUME Crash(e) PROVE Typed' /\ Moved(e)
  <2>1. exec[e].at \notin {"new", "over", "dead"} /\ TypeOK /\ exec[e] \in Exec
    BY <1>15 DEF Crash, Typed, TypeOK, Live
  <2>2. /\ exec' \in [Execs -> Exec]
        /\ exec'[e].at = "dead"
        /\ \A d \in Execs \ {e} : exec'[d] = exec[d]
    BY <1>15, <2>1, QuitsShape DEF Crash, Positions
  <2>3. TypeOK'
    BY <1>15, <2>1, <2>2 DEF Crash, TypeOK
  <2>4. Moved(e)
    BY <1>15, <2>1, <2>2 DEF Crash, Moved, TypeOK
  <2> QED
    BY <1>15, <2>1, <2>2, <2>3, <2>4, InOrderKept DEF Crash, Typed, TypeOK
<1>16. ASSUME Abort(e) PROVE Typed' /\ Moved(e)
  <2>1. /\ exec[e].at \notin {"new", "over", "dead"} /\ TypeOK
        /\ exec \in [Execs -> Exec] /\ exec[e] \in Exec
    BY <1>16 DEF Abort, Typed, TypeOK
  <2> DEFINE x == [exec[e] EXCEPT !.aborted = TRUE]
  <2>3. x \in Exec /\ x.at \notin {"new", "done"}
    BY <1>16, <2>1 DEF Abort, Exec
  <2>4. exec' = [exec EXCEPT ![e] = x]
    BY <1>16, <2>1 DEF Abort, Exec
  <2>5. x.at = exec[e].at /\ (x.at = "work" => x.stage = exec[e].stage)
    BY <2>1 DEF Exec
  <2> HIDE DEF x
  <2>6. /\ exec' \in [Execs -> Exec]
        /\ exec'[e] = x
        /\ \A d \in Execs \ {e} : exec'[d] = exec[d]
    BY <2>1, <2>3, <2>4
  <2>7. TypeOK'
    BY <1>16, <2>1, <2>6 DEF Abort, TypeOK
  <2>8. Moved(e)
    BY <1>16, <2>1, <2>3, <2>5, <2>6 DEF Abort, Moved
  <2> QED
    BY <1>16, <2>1, <2>3, <2>6, <2>7, <2>8, InOrderKept DEF Abort, Typed
<1>17. ASSUME NEW usable \in BOOLEAN, Load(e, usable) PROVE Typed' /\ Moved(e)
  <2>1. /\ exec[e].at \notin {"new", "over", "dead"} /\ TypeOK
        /\ exec \in [Execs -> Exec] /\ exec[e] \in Exec
    BY <1>17 DEF Load, Typed, TypeOK
  <2>2. PICK s \in {1, 2}, p \in {{}, Candidates} :
           exec' = [exec EXCEPT ![e].at = "lock", ![e].stage = s, ![e].passed = p]
    BY <1>17 DEF Load
  <2> DEFINE x == [exec[e] EXCEPT !.at = "lock", !.stage = s, !.passed = p]
  <2>3. x \in Exec /\ x.at \notin {"new", "done"}
    BY <1>17, <2>1, <2>2, Constants DEF Load, Exec
  <2>4. exec' = [exec EXCEPT ![e] = x]
    BY <1>17, <2>1, <2>2 DEF Load, Exec
  <2>5. x.at = "lock" /\ (x.at = "work" => x.stage = exec[e].stage)
    BY <2>1 DEF Exec
  <2> HIDE DEF x
  <2>6. /\ exec' \in [Execs -> Exec]
        /\ exec'[e] = x
        /\ \A d \in Execs \ {e} : exec'[d] = exec[d]
    BY <2>1, <2>3, <2>4
  <2>7. TypeOK'
    BY <1>17, <2>1, <2>6 DEF Load, TypeOK
  <2>8. Moved(e)
    BY <1>17, <2>1, <2>3, <2>5, <2>6 DEF Load, Moved
  <2> QED
    BY <1>17, <2>1, <2>3, <2>6, <2>7, <2>8, InOrderKept DEF Load, Typed
<1>18. ASSUME Clear(e) PROVE Typed' /\ Moved(e)
  <2>1. /\ exec[e].at \notin {"new", "over", "dead"} /\ TypeOK
        /\ exec \in [Execs -> Exec] /\ exec[e] \in Exec
    BY <1>18 DEF Clear, Typed, TypeOK
  <2>2. PICK at \in {"fail row", "upsert"}, todo \in SUBSET Candidates :
           exec' = [exec EXCEPT ![e].at = at, ![e].todo = todo]
    BY <1>18, <2>1 DEF Clear, Exec
  <2>9. << >> \in Seq(Stages)
    BY EmptySeq
  <2> DEFINE x == [exec[e] EXCEPT !.at = at, !.todo = todo]
  <2>3. x \in Exec /\ x.at \notin {"new", "done"}
    BY <1>18, <2>1, <2>2 DEF Clear, Exec
  <2>4. exec' = [exec EXCEPT ![e] = x]
    BY <1>18, <2>1, <2>2 DEF Clear, Exec
  <2>5. x.at = at /\ (x.at = "work" => x.stage = exec[e].stage)
    BY <2>1 DEF Exec
  <2> HIDE DEF x
  <2>6. /\ exec' \in [Execs -> Exec]
        /\ exec'[e] = x
        /\ \A d \in Execs \ {e} : exec'[d] = exec[d]
    BY <2>1, <2>3, <2>4
  <2>7. TypeOK'
    BY <1>18, <2>1, <2>6, <2>9 DEF Clear, TypeOK
  <2>8. Moved(e)
    BY <1>18, <2>1, <2>3, <2>5, <2>6 DEF Clear, Moved
  <2> QED
    BY <1>18, <2>1, <2>3, <2>6, <2>7, <2>8, InOrderKept DEF Clear, Typed
<1>19. ASSUME Generates(e) PROVE Typed' /\ Moved(e)
  BY <1>19, EndsTyped DEF Generates
<1>20. ASSUME Filters(e) PROVE Typed' /\ Moved(e)
  <2>1. PICK keep \in SUBSET exec[e].passed :
           Ends(e, keep, exec[e].passed \ keep, FALSE) /\ Vets(e, keep)
    BY <1>20 DEF Filters
  <2>2. keep \in SUBSET Candidates /\ exec[e].passed \ keep \in SUBSET Candidates
    BY DEF Typed, TypeOK, Exec
  <2> QED
    BY <1>20, <2>1, <2>2, EndsTyped DEF Filters
<1>21. ASSUME StageIsAborted(e) PROVE Typed' /\ Moved(e)
  BY <1>21, CutTyped DEF StageIsAborted
<1>22. ASSUME OverBudget(e) PROVE Typed' /\ Moved(e)
  BY <1>22, CutTyped DEF OverBudget
<1>23. ASSUME StageFails(e) PROVE Typed' /\ Moved(e)
  BY <1>23, EndsTyped DEF StageFails
<1>24. ASSUME GenerationFails(e) PROVE Typed' /\ Moved(e)
  <2>1. /\ exec[e].at \notin {"new", "over", "dead"} /\ TypeOK
        /\ exec \in [Execs -> Exec] /\ exec[e] \in Exec
    BY <1>24 DEF GenerationFails, Typed, TypeOK
  <2> DEFINE x == [exec[e] EXCEPT !.at = "clearing", !.degraded = TRUE]
  <2>3. x \in Exec /\ x.at \notin {"new", "done"}
    BY <1>24, <2>1 DEF GenerationFails, Exec
  <2>4. exec' = [exec EXCEPT ![e] = x]
    BY <1>24, <2>1 DEF GenerationFails, Exec
  <2>5. x.at = "clearing" /\ (x.at = "work" => x.stage = exec[e].stage)
    BY <2>1 DEF Exec
  <2> HIDE DEF x
  <2>6. /\ exec' \in [Execs -> Exec]
        /\ exec'[e] = x
        /\ \A d \in Execs \ {e} : exec'[d] = exec[d]
    BY <2>1, <2>3, <2>4
  <2>7. TypeOK'
    BY <1>24, <2>1, <2>6 DEF GenerationFails, TypeOK
  <2>8. Moved(e)
    BY <1>24, <2>1, <2>3, <2>5, <2>6 DEF GenerationFails, Moved
  <2> QED
    BY <1>24, <2>1, <2>3, <2>6, <2>7, <2>8, InOrderKept DEF GenerationFails, Typed
<1>25. ASSUME UpsertBatch(e) PROVE Typed' /\ Moved(e)
  <2>1. /\ exec[e].at \notin {"new", "over", "dead"} /\ TypeOK
        /\ exec \in [Execs -> Exec] /\ exec[e] \in Exec
    BY <1>25 DEF UpsertBatch, Typed, TypeOK
  <2>9. PICK batch \in Batches(exec[e].todo, exec[e].size), m \in NewSizes(exec[e].size) :
           \E todo \in Onwards(exec[e].todo, batch, exec[e].size, m) :
              exec' = [exec EXCEPT ![e].todo = todo, ![e].size = m,
                                   ![e].ids = @ \cup batch]
    BY <1>25 DEF UpsertBatch
  <2>2. PICK todo \in Onwards(exec[e].todo, batch, exec[e].size, m) :
              exec' = [exec EXCEPT ![e].todo = todo, ![e].size = m,
                                   ![e].ids = @ \cup batch]
    BY <2>9
  <2>10. /\ exec[e].todo \in SUBSET Candidates /\ exec[e].size \in MinBatch .. MaxBatch
         /\ exec[e].ids \in SUBSET Candidates
    BY <2>1 DEF Exec
  <2>11. m \in MinBatch .. MaxBatch /\ todo \subseteq Candidates /\ batch \subseteq Candidates
    BY <2>10, SizesBounded, BatchesWithin
  <2> DEFINE x == [exec[e] EXCEPT !.todo = todo, !.size = m, !.ids = exec[e].ids \cup batch]
  <2>3. x \in Exec /\ x.at \notin {"new", "done"}
    BY <1>25, <2>1, <2>2, <2>10, <2>11 DEF UpsertBatch, Exec
  <2>4. exec' = [exec EXCEPT ![e] = x]
    BY <1>25, <2>1, <2>2 DEF UpsertBatch, Exec
  <2>5. x.at = exec[e].at /\ (x.at = "work" => x.stage = exec[e].stage)
    BY <2>1 DEF Exec
  <2> HIDE DEF x
  <2>6. /\ exec' \in [Execs -> Exec]
        /\ exec'[e] = x
        /\ \A d \in Execs \ {e} : exec'[d] = exec[d]
    BY <2>1, <2>3, <2>4
  <2>7. TypeOK'
    BY <1>25, <2>1, <2>6 DEF UpsertBatch, TypeOK
  <2>8. Moved(e)
    BY <1>25, <2>1, <2>3, <2>5, <2>6 DEF UpsertBatch, Moved
  <2> QED
    BY <1>25, <2>1, <2>3, <2>6, <2>7, <2>8, InOrderKept DEF UpsertBatch, Typed
<1>26. ASSUME ScoreBatch(e) PROVE Typed' /\ Moved(e)
  <2>1. /\ exec[e].at \notin {"new", "over", "dead"} /\ TypeOK
        /\ exec \in [Execs -> Exec] /\ exec[e] \in Exec
    BY <1>26 DEF ScoreBatch, Typed, TypeOK
  <2>9. PICK batch \in Batches(exec[e].todo, exec[e].size), m \in NewSizes(exec[e].size) :
           \E todo \in Onwards(exec[e].todo, batch, exec[e].size, m) :
              /\ scores' = scores \cup batch
              /\ exec' = [exec EXCEPT ![e].todo = todo, ![e].size = m]
    BY <1>26 DEF ScoreBatch
  <2>2. PICK todo \in Onwards(exec[e].todo, batch, exec[e].size, m) :
              /\ scores' = scores \cup batch
              /\ exec' = [exec EXCEPT ![e].todo = todo, ![e].size = m]
    BY <2>9
  <2>10. /\ exec[e].todo \in SUBSET Candidates /\ exec[e].size \in MinBatch .. MaxBatch
         /\ exec[e].ids \in SUBSET Candidates
    BY <2>1 DEF Exec
  <2>11. m \in MinBatch .. MaxBatch /\ todo \subseteq Candidates /\ batch \subseteq Candidates
    BY <2>10, SizesBounded, BatchesWithin
  <2> DEFINE x == [exec[e] EXCEPT !.todo = todo, !.size = m]
  <2>3. x \in Exec /\ x.at \notin {"new", "done"}
    BY <1>26, <2>1, <2>2, <2>10, <2>11 DEF ScoreBatch, Exec
  <2>4. exec' = [exec EXCEPT ![e] = x]
    BY <1>26, <2>1, <2>2 DEF ScoreBatch, Exec
  <2>5. x.at = exec[e].at /\ (x.at = "work" => x.stage = exec[e].stage)
    BY <2>1 DEF Exec
  <2> HIDE DEF x
  <2>6. /\ exec' \in [Execs -> Exec]
        /\ exec'[e] = x
        /\ \A d \in Execs \ {e} : exec'[d] = exec[d]
    BY <2>1, <2>3, <2>4
  <2>7. TypeOK'
    BY <1>26, <2>1, <2>6, <2>2, <2>11 DEF ScoreBatch, TypeOK
  <2>8. Moved(e)
    BY <1>26, <2>1, <2>3, <2>5, <2>6 DEF ScoreBatch, Moved
  <2> QED
    BY <1>26, <2>1, <2>3, <2>6, <2>7, <2>8, InOrderKept DEF ScoreBatch, Typed
<1>27. ASSUME UpsertsDone(e) PROVE Typed' /\ Moved(e)
  <2>1. /\ exec[e].at \notin {"new", "over", "dead"} /\ TypeOK
        /\ exec \in [Execs -> Exec] /\ exec[e] \in Exec
    BY <1>27 DEF UpsertsDone, Typed, TypeOK
  <2>2. PICK todo \in SUBSET Candidates :
           exec' = [exec EXCEPT ![e].at = "score", ![e].size = InitialBatch, ![e].todo = todo]
    BY <1>27, <2>1 DEF UpsertsDone, Exec
  <2> DEFINE x == [exec[e] EXCEPT !.at = "score", !.size = InitialBatch, !.todo = todo]
  <2>3. x \in Exec /\ x.at \notin {"new", "done"}
    BY <1>27, <2>1, <2>2, Constants DEF UpsertsDone, Exec
  <2>4. exec' = [exec EXCEPT ![e] = x]
    BY <1>27, <2>1, <2>2 DEF UpsertsDone, Exec
  <2>5. x.at = "score" /\ (x.at = "work" => x.stage = exec[e].stage)
    BY <2>1 DEF Exec
  <2> HIDE DEF x
  <2>6. /\ exec' \in [Execs -> Exec]
        /\ exec'[e] = x
        /\ \A d \in Execs \ {e} : exec'[d] = exec[d]
    BY <2>1, <2>3, <2>4
  <2>7. TypeOK'
    BY <1>27, <2>1, <2>6 DEF UpsertsDone, TypeOK
  <2>8. Moved(e)
    BY <1>27, <2>1, <2>3, <2>5, <2>6 DEF UpsertsDone, Moved
  <2> QED
    BY <1>27, <2>1, <2>3, <2>6, <2>7, <2>8, InOrderKept DEF UpsertsDone, Typed
<1>28. ASSUME ScoresDone(e) PROVE Typed' /\ Moved(e)
  <2>1. /\ exec[e].at \notin {"new", "over", "dead"} /\ TypeOK
        /\ exec \in [Execs -> Exec] /\ exec[e] \in Exec
    BY <1>28 DEF ScoresDone, Typed, TypeOK
  <2> DEFINE x == [exec[e] EXCEPT !.at = "metrics", !.size = InitialBatch]
  <2>3. x \in Exec /\ x.at \notin {"new", "done"}
    BY <1>28, <2>1, Constants DEF ScoresDone, Exec
  <2>4. exec' = [exec EXCEPT ![e] = x]
    BY <1>28, <2>1 DEF ScoresDone, Exec
  <2>5. x.at = "metrics" /\ (x.at = "work" => x.stage = exec[e].stage)
    BY <2>1 DEF Exec
  <2> HIDE DEF x
  <2>6. /\ exec' \in [Execs -> Exec]
        /\ exec'[e] = x
        /\ \A d \in Execs \ {e} : exec'[d] = exec[d]
    BY <2>1, <2>3, <2>4
  <2>7. TypeOK'
    BY <1>28, <2>1, <2>6 DEF ScoresDone, TypeOK
  <2>8. Moved(e)
    BY <1>28, <2>1, <2>3, <2>5, <2>6 DEF ScoresDone, Moved
  <2> QED
    BY <1>28, <2>1, <2>3, <2>6, <2>7, <2>8, InOrderKept DEF ScoresDone, Typed
<1> QED
  BY <1>1, <1>2, <1>3, <1>4, <1>5, <1>6, <1>7, <1>8, <1>9, <1>10, <1>11, <1>12, 
     <1>13, <1>14, <1>15, <1>16, <1>17, <1>18, <1>19, <1>20, <1>21, <1>22, 
     <1>23, <1>24, <1>25, <1>26, <1>27, <1>28 DEF Progress

\* the actions of executions, and those of the caller and the saves
LEMMA TypedStep == ASSUME Typed, [Next]_vars PROVE Typed'
<1>1. ASSUME SubmitJob PROVE Typed'
  BY <1>1 DEF SubmitJob, Typed, TypeOK, InOrder
<1>2. ASSUME SubmitRow PROVE Typed'
  BY <1>2 DEF SubmitRow, Typed, TypeOK, InOrder
<1>4. ASSUME NEW s \in Stages, SaveLands(s) PROVE Typed'
  <2>1. ckpt' \in Seq(Stages)
    BY <1>4 DEF SaveLands, Typed, TypeOK
  <2> QED
    BY <1>4, <2>1 DEF SaveLands, Typed, TypeOK, InOrder
<1>5. ASSUME NEW s \in Stages, SaveFails(s) PROVE Typed'
  BY <1>5 DEF SaveFails, Typed, TypeOK, InOrder
<1>6. CASE UNCHANGED vars
  BY <1>6 DEF vars, Typed, TypeOK, InOrder
<1> QED
  BY <1>1, <1>2, <1>4, <1>5, <1>6, ActionTyped DEF Next

\* the types and the order of the executions hold throughout
LEMMA TypedInvariant == Spec => []Typed
<1>1. Init => Typed
  <2> SUFFICES ASSUME Init PROVE Typed
    OBVIOUS
  <2>1. NewExec \in Exec
    BY Constants DEF NewExec, Exec
  <2>2. << >> \in Seq(Stages)
    BY EmptySeq
  <2>3. TypeOK
    BY <2>1, <2>2, PipelineRunAssumption DEF Init, TypeOK
  <2>4. InOrder
    BY DEF Init, InOrder, NewExec, Execs
  <2> QED
    BY <2>3, <2>4 DEF Typed
<1>2. Typed /\ [Next]_vars => Typed'
  BY TypedStep
<1> QED
  BY <1>1, <1>2, PTL DEF Spec

\* The type invariant of PipelineRun; that batch sizes stay within their bounds is
\* a part of it.
THEOREM RunTypeCorrect == Spec => []TypeOK
<1>1. Typed => TypeOK
  BY DEF Typed
<1> QED
  BY <1>1, TypedInvariant, PTL

-----------------------------------------------------------------------------
(* The job and the row *)

Over(e) == exec[e].at \in {"over", "dead"}

\* One execution at a time, and what its progress says of the row.
OneByOne ==
    /\ \A e \in Execs : exec[e].at # "new" => \A d \in Execs : d < e => Over(d)
    /\ \A e \in Execs : exec[e].at = "done" => row = "completed"
    /\ job.status = "completed" => \A e \in Execs : exec[e].at = "new" \/ Over(e)

Agree == JobAndRowAgree /\ OneByOne

\* the only live execution writes the row before the job
LEMMA AgreeStep == ASSUME Typed, Agree, [Next]_vars PROVE Agree'
<1>1. ASSUME NEW e \in Execs, Progress(e) \/ Abort(e) \/ Crash(e) PROVE Agree'
  <2>1. CASE Start(e)
    <3>1. /\ exec'[e].at = "row"
          /\ \A d \in Execs \ {e} : exec'[d] = exec[d]
          /\ row' = row /\ job'.status = "running"
          /\ \A d \in Execs : d < e => Over(d)
      BY <2>1, GoesShape DEF Start, Positions, Typed, Over
    <3>2. e \in Nat /\ \A d \in Execs : d \in Nat
      BY DEF Execs
    <3>3. \A d \in Execs : d > e => exec[d].at = "new"
      BY <2>1 DEF Start, Agree, OneByOne, Over
    <3> QED
      BY <3>1, <3>2, <3>3 DEF Agree, OneByOne, Over, JobAndRowAgree
  <2>2. CASE Moved(e)
    <3>1. e \in Nat /\ \A d \in Execs : d \in Nat
      BY DEF Execs
    <3>2. \A d \in Execs \ {e} : exec'[d] = exec[d] /\ (exec[d].at = "new" \/ Over(d))
      BY <2>2, <3>1 DEF Moved, Agree, OneByOne, Over
    <3>3. \A d \in Execs : exec'[d].at # "new" => \A c \in Execs : c < d => Over(c)'
      BY <2>2, <3>1, <3>2 DEF Moved, Agree, OneByOne, Over
    <3>4. \A d \in Execs : exec'[d].at = "done" => row' = "completed"
      BY <2>2, <3>2 DEF Moved, Over
    <3>5. job.status # "completed"
      BY <2>2 DEF Moved, Agree, OneByOne, Over
    <3>6. ASSUME job'.status = "completed"
          PROVE  row' = "completed" /\ \A d \in Execs : exec'[d].at = "new" \/ Over(d)'
      <4>1. exec[e].at = "done" /\ exec'[e].at = "over" /\ row' = row
        BY <2>2, <3>5, <3>6 DEF Moved
      <4> QED
        BY <3>2, <4>1 DEF Agree, OneByOne, Over
    <3> QED
      BY <3>3, <3>4, <3>6 DEF Agree, OneByOne, JobAndRowAgree
  <2> QED
    BY <1>1, <2>1, <2>2, ActionTyped
<1>2. CASE SubmitJob
  BY <1>2 DEF SubmitJob, Typed, TypeOK, Agree, OneByOne, Over, JobAndRowAgree
<1>3. CASE SubmitRow
  BY <1>3 DEF SubmitRow, Agree, OneByOne, Over, JobAndRowAgree
<1>4. ASSUME NEW s \in Stages, SaveLands(s) \/ SaveFails(s)
      PROVE  Agree'
  BY <1>4 DEF SaveLands, SaveFails, Agree, OneByOne, Over, JobAndRowAgree
<1>5. CASE UNCHANGED vars
  BY <1>5 DEF vars, Agree, OneByOne, Over, JobAndRowAgree
<1> QED
  BY <1>1, <1>2, <1>3, <1>4, <1>5 DEF Next

\* A job that counts as completed has a run whose row is completed, whatever
\* executions of it died or failed before: the row is written before the job, and
\* no later execution takes it back.
THEOREM JobAndRow == Spec => []JobAndRowAgree
<1>1. Init => Agree
  BY DEF Init, Agree, OneByOne, Over, JobAndRowAgree, NewExec
<1>2. Typed /\ Agree /\ [Next]_vars => Agree'
  BY AgreeStep
<1>3. Agree => JobAndRowAgree
  BY DEF Agree
<1> QED
  BY <1>1, <1>2, <1>3, TypedInvariant, PTL DEF Spec

-----------------------------------------------------------------------------
(* What passed was vetted *)

\* No candidate got past a stage that did not pass it in some execution, and the
\* ones that are missing are missing for a reason the result shows. Before stage 1
\* nothing has passed.
Sound(x, v) ==
    /\ x.at \in {"lock", "work"} =>
          /\ x.stage = 1 => x.passed = {}
          /\ \A s \in Stages : s < x.stage => x.passed \subseteq v[s]
          /\ x.stage # 1 /\ ~x.degraded /\ ~x.aborted =>
                x.passed \cup x.filtered = Candidates
    /\ x.at \in {"clearing", "upsert", "score", "metrics", "complete", "done"} =>
          /\ \A s \in Stages : x.passed \subseteq v[s]
          /\ ~x.degraded /\ ~x.aborted => x.passed \cup x.filtered = Candidates

\* Stage 1 passes all it generates, so that a run may resume after it.
Stage1Saved == 1 \in saves \/ \E i \in DOMAIN ckpt : ckpt[i] = 1

Sane ==
    /\ \A e \in Execs : Sound(exec[e], vetted)
    /\ Stage1Saved => vetted[1] = Candidates

\* what was vetted stays vetted
LEMMA SoundKept ==
    ASSUME NEW x, NEW v, NEW w, Sound(x, v), \A s \in Stages : v[s] \subseteq w[s]
    PROVE  Sound(x, w)
BY DEF Sound

\* the execution that acts is sound afterwards, the others do not change
Steady(e) ==
    /\ Sound(exec'[e], vetted')
    /\ \A d \in Execs \ {e} : exec'[d] = exec[d]
    /\ \A s \in Stages : vetted[s] \subseteq vetted'[s]
    /\ Stage1Saved' => Stage1Saved \/ vetted'[1] = Candidates

\* soundness of the execution that acts is soundness of all
LEMMA SaneKept ==
    ASSUME Typed, Typed', Sane, NEW e \in Execs, Steady(e) PROVE Sane'
<1>1. \A d \in Execs : Sound(exec'[d], vetted')
  <2> SUFFICES ASSUME NEW d \in Execs PROVE Sound(exec'[d], vetted')
    OBVIOUS
  <2>1. CASE d = e
    BY <2>1 DEF Steady
  <2>2. CASE d # e
    BY <2>2, SoundKept DEF Steady, Sane
  <2> QED
    BY <2>1, <2>2
<1>2. ASSUME Stage1Saved' PROVE vetted'[1] = Candidates
  <2>1. vetted[1] \subseteq vetted'[1] /\ vetted'[1] \subseteq Candidates
    BY Constants DEF Steady, Typed, TypeOK
  <2> QED
    BY <1>2, <2>1 DEF Steady, Sane
<1> QED
  BY <1>1, <1>2 DEF Sane

\* an execution that gives up, ends or dies has nothing to show
LEMMA QuitsSteady ==
    ASSUME Typed, NEW e \in Execs,
           NEW at \in {"giving up", "fail row", "fail job", "over", "dead"},
           Quits(e, at), UNCHANGED <<ckpt, saves, vetted>>
    PROVE  Steady(e)
<1>1. /\ exec'[e].at = at
      /\ \A d \in Execs \ {e} : exec'[d] = exec[d]
  BY QuitsShape DEF Positions, Typed
<1>2. Sound(exec'[e], vetted')
  BY <1>1 DEF Sound
<1> QED
  BY <1>1, <1>2 DEF Steady, Stage1Saved

\* after its stage an execution is sound: the first stage passes all there is, a
\* later one part of what came in, and what it neither passes nor filters shows
LEMMA EndsSteady ==
    ASSUME Typed, Sane, NEW e \in Execs, exec[e].at = "work",
           NEW keep \in SUBSET Candidates,
           NEW drop \in SUBSET Candidates, NEW degrades \in BOOLEAN,
           Ends(e, keep, drop, degrades),
           Vets(e, keep) \/ (UNCHANGED vetted /\ keep = {}),
           exec[e].stage = 1 => keep = Candidates /\ Vets(e, keep),
           exec[e].stage # 1 => /\ keep \subseteq exec[e].passed
                                /\ \/ degrades \/ exec[e].aborted
                                   \/ keep \cup drop = exec[e].passed
    PROVE  Steady(e)
<1> DEFINE s == exec[e].stage
           y == GoneOn(exec[e], keep, drop, degrades)
<1>1. exec[e] \in Exec /\ s \in Stages /\ TypeOK /\ Sound(exec[e], vetted)
  BY DEF Typed, TypeOK, Exec, Sane
<1>2. Ended(e, keep, drop, degrades)
  BY <1>1, EndsShape
<1>3. /\ \A t \in Stages : vetted[t] \subseteq vetted'[t]
      /\ keep \subseteq vetted'[s]
      /\ s = 1 => vetted'[1] = Candidates
  <2>1. vetted \in [Stages -> SUBSET Candidates]
    BY <1>1 DEF TypeOK
  <2>2. CASE Vets(e, keep)
    <3>1. vetted' = [vetted EXCEPT ![s] = vetted[s] \cup keep]
      BY <2>2 DEF Vets
    <3>2. s = 1 => keep = Candidates
      OBVIOUS
    <3> HIDE DEF s
    <3>3. vetted'[s] = vetted[s] \cup keep /\ \A t \in Stages \ {s} : vetted'[t] = vetted[t]
      BY <1>1, <2>1, <3>1
    <3>4. vetted[s] \subseteq Candidates
      BY <1>1, <2>1
    <3> QED
      BY <3>2, <3>3, <3>4
  <2>3. CASE UNCHANGED vetted /\ keep = {} /\ s # 1
    BY <2>3
  <2> QED
    BY <2>2, <2>3
<1>4. /\ y.at = (IF s < LastStage THEN "lock" ELSE "clearing")
      /\ y.stage = (IF s < LastStage THEN s + 1 ELSE s)
      /\ y.passed = keep /\ y.filtered = exec[e].filtered \cup drop
      /\ y.degraded = (exec[e].degraded \/ degrades) /\ y.aborted = exec[e].aborted
  BY <1>1 DEF GoneOn, Exec
<1>5. ASSUME NEW t \in Stages, t <= s PROVE keep \subseteq vetted'[t]
  <2>1. s \in Nat /\ t \in Nat /\ s >= 1 /\ t >= 1
    BY <1>1 DEF Stages
  <2>2. CASE t = s
    BY <1>3, <2>2
  <2>3. CASE t # s
    <3>1. t < s /\ s # 1
      BY <1>5, <2>1, <2>3
    <3> QED
      BY <1>1, <1>3, <3>1 DEF Sound
  <2> QED
    BY <2>2, <2>3
<1>6. ASSUME ~y.degraded, ~y.aborted PROVE y.passed \cup y.filtered = Candidates
  <2>1. ~exec[e].degraded /\ ~degrades /\ ~exec[e].aborted
    BY <1>4, <1>6
  <2>2. exec[e].filtered \subseteq Candidates
    BY <1>1 DEF Exec
  <2>3. CASE s = 1
    BY <1>4, <2>2, <2>3
  <2>4. CASE s # 1
    <3>1. exec[e].passed \cup exec[e].filtered = Candidates
      BY <1>1, <2>1, <2>4 DEF Sound
    <3> QED
      BY <1>4, <2>1, <2>4, <3>1
  <2> QED
    BY <2>3, <2>4
<1>7. Sound(y, vetted')
  <2>1. s \in Nat /\ s >= 1 /\ LastStage \in Nat /\ \A t \in Stages : t \in Nat /\ t <= LastStage
    BY <1>1, PipelineRunAssumption DEF Stages
  <2>2. CASE s < LastStage
    <3>1. y.at = "lock" /\ y.stage = s + 1 /\ y.stage # 1
      BY <1>4, <2>1, <2>2
    <3>2. \A t \in Stages : t < y.stage => y.passed \subseteq vetted'[t]
      BY <1>4, <1>5, <2>1, <3>1
    <3> HIDE DEF y
    <3> QED
      BY <1>6, <3>1, <3>2 DEF Sound
  <2>3. CASE ~(s < LastStage)
    <3>1. y.at = "clearing"
      BY <1>4, <2>3
    <3>2. \A t \in Stages : y.passed \subseteq vetted'[t]
      BY <1>4, <1>5, <2>1, <2>3
    <3> HIDE DEF y
    <3> QED
      BY <1>6, <3>1, <3>2 DEF Sound
  <2> QED
    BY <2>2, <2>3
<1>8. Sound(exec'[e], vetted')
  <2>1. CASE exec'[e] = [NewExec EXCEPT !.at = "giving up"]
    BY <2>1 DEF NewExec, Sound
  <2>2. CASE exec'[e] = y
    BY <1>7, <2>2
  <2> QED
    BY <1>2, <2>1, <2>2 DEF Ended
<1>9. Stage1Saved' => Stage1Saved \/ vetted'[1] = Candidates
  BY <1>2, <1>3 DEF Ended, Stage1Saved
<1> QED
  BY <1>2, <1>3, <1>8, <1>9 DEF Steady, Ended

\* a stage that is cut short leaves a mark on its result
LEMMA CutSteady ==
    ASSUME Typed, Sane, NEW e \in Execs, exec[e].at = "work", exec[e].stage > 1,
           NEW degrades \in BOOLEAN, degrades \/ exec[e].aborted, Cut(e, degrades)
    PROVE  Steady(e)
<1>1. PICK keep \in SUBSET exec[e].passed, drop \in SUBSET exec[e].passed :
         Ends(e, keep, drop, degrades) /\ Vets(e, keep)
  BY DEF Cut
<1>2. keep \in SUBSET Candidates /\ drop \in SUBSET Candidates
  BY DEF Typed, TypeOK, Exec
<1>3. exec[e].stage \in Stages
  BY DEF Typed, TypeOK, Exec
<1>4. exec[e].stage # 1
  BY <1>3 DEF Stages
<1> QED
  BY <1>1, <1>2, <1>4, EndsSteady

\* after the checkpoints are cleared none is left
LEMMA NothingSaved == \A i : i \notin DOMAIN << >>
<1>1. << >> \in Seq(Stages) /\ Len(<< >>) = 0
  BY EmptySeq
<1>2. DOMAIN << >> = 1 .. 0
  BY <1>1, LenProperties, Zenon
<1>3. \A i : i \notin 1 .. 0
  BY SMT
<1> QED
  BY <1>2, <1>3, Zenon

\* an action that changes none of what the soundness of an execution speaks of,
\* but perhaps takes it from one position to a later one
LEMMA KeepsSteady ==
    ASSUME Typed, Sane, NEW e \in Execs, NEW x,
           exec' = [exec EXCEPT ![e] = x], vetted' = vetted, saves' = saves,
           ckpt' \in {<< >>, ckpt},
           \/ x.at \in {"row", "load", "fail row"}
           \/ x.at = exec[e].at
           \/ x.at \in {"lock", "work"} /\ exec[e].at \in {"lock", "work"}
           \/ /\ x.at \in {"clearing", "upsert", "score", "metrics", "complete", "done"}
              /\ exec[e].at \in {"clearing", "upsert", "score", "metrics", "complete", "done"},
           x.stage = exec[e].stage, x.passed = exec[e].passed,
           x.filtered = exec[e].filtered, x.degraded = exec[e].degraded,
           exec[e].aborted => x.aborted
    PROVE  Steady(e)
<1>1. /\ exec'[e] = x
      /\ \A d \in Execs \ {e} : exec'[d] = exec[d]
  BY DEF Typed, TypeOK
<1>2. Sound(exec[e], vetted)
  BY DEF Sane
<1>3. Sound(x, vetted)
  <2>1. CASE x.at \in {"row", "load", "fail row"}
    BY <2>1 DEF Sound
  <2>2. CASE x.at = exec[e].at \/ (x.at \in {"lock", "work"} /\ exec[e].at \in {"lock", "work"})
    BY <1>2, <2>2 DEF Sound
  <2>3. CASE /\ x.at \in {"clearing", "upsert", "score", "metrics", "complete", "done"}
             /\ exec[e].at \in {"clearing", "upsert", "score", "metrics", "complete", "done"}
    BY <1>2, <2>3 DEF Sound
  <2> QED
    BY <2>1, <2>2, <2>3
<1>4. Stage1Saved' => Stage1Saved
  <2>2. CASE ckpt' = << >>
    BY <2>2, NothingSaved DEF Stage1Saved
  <2>3. CASE ckpt' = ckpt
    BY <2>3 DEF Stage1Saved
  <2> QED
    BY <2>2, <2>3
<1> QED
  BY <1>1, <1>3, <1>4 DEF Steady

\* one case per action, most of which keep what soundness speaks of
LEMMA ActionSteady ==
    ASSUME Typed, Sane, NEW e \in Execs, Progress(e) \/ Abort(e) \/ Crash(e)
    PROVE  Steady(e)
<1> USE DEF Positions
<1>0. /\ TypeOK /\ exec \in [Execs -> Exec] /\ exec[e] \in Exec
      /\ exec[e].stage \in Stages /\ Sound(exec[e], vetted)
  BY DEF Typed, TypeOK, Exec, Sane
<1>a. exec[e].stage > 1 => exec[e].stage # 1
  BY <1>0 DEF Stages
<1>1. ASSUME \/ GivesUpEarly(e) \/ LockRefused(e) \/ PersistFails(e) \/ MetricsFail(e)
             \/ FailRow(e) \/ RowStatementFails(e) \/ JobDone(e) \/ JobDoneFails(e)
             \/ JobFails(e) \/ Crash(e)
      PROVE  Steady(e)
  BY <1>1, QuitsSteady DEF GivesUpEarly, LockRefused, PersistFails, MetricsFail, FailRow,
     RowStatementFails, JobDone, JobDoneFails, JobFails, Crash
<1>2. ASSUME NEW at \in {"row", "load", "work", "complete", "done"}, Goes(e, at),
             \/ at \in {"row", "load"}
             \/ at = "work" /\ exec[e].at = "lock"
             \/ at \in {"complete", "done"} /\ exec[e].at \in {"metrics", "complete"},
             UNCHANGED <<ckpt, saves, vetted>>
      PROVE  Steady(e)
  <2> DEFINE x == [exec[e] EXCEPT !.at = at]
  <2>1. /\ x \in Exec /\ x.at = at
        /\ x.stage = exec[e].stage /\ x.passed = exec[e].passed
        /\ x.filtered = exec[e].filtered /\ x.degraded = exec[e].degraded
        /\ x.aborted = exec[e].aborted
    BY <1>0 DEF Exec
  <2>2. exec' = [exec EXCEPT ![e] = x]
    BY <1>0, <1>2 DEF Goes, Exec
  <2> HIDE DEF x
  <2> QED
    BY <1>2, <2>1, <2>2, KeepsSteady
<1>3. ASSUME \/ Start(e) \/ EnsureRow(e) \/ Lock(e) \/ MetricsPersisted(e) \/ Complete(e)
      PROVE  Steady(e)
  BY <1>2, <1>3 DEF Start, EnsureRow, Lock, MetricsPersisted, Complete
<1>4. ASSUME Abort(e) PROVE Steady(e)
  <2> DEFINE x == [exec[e] EXCEPT !.aborted = TRUE]
  <2>1. /\ x \in Exec /\ x.at = exec[e].at
        /\ x.stage = exec[e].stage /\ x.passed = exec[e].passed
        /\ x.filtered = exec[e].filtered /\ x.degraded = exec[e].degraded
        /\ x.aborted
    BY <1>0 DEF Exec
  <2>2. exec' = [exec EXCEPT ![e] = x]
    BY <1>0, <1>4 DEF Abort, Exec
  <2> HIDE DEF x
  <2> QED
    BY <1>4, <2>1, <2>2, KeepsSteady DEF Abort
<1>5. ASSUME NEW usable \in BOOLEAN, Load(e, usable) PROVE Steady(e)
  <2> DEFINE resumes == usable /\ ckpt # << >> /\ ResumeIndex(ckpt[Len(ckpt)]) > 0
             x == [exec[e] EXCEPT !.at = "lock", !.stage = IF resumes THEN 2 ELSE 1,
                                  !.passed = IF resumes THEN Candidates ELSE {}]
  <2>1. exec' = [exec EXCEPT ![e] = x]
    BY <1>0, <1>5 DEF Load, Exec
  <2>2. /\ x.at = "lock" /\ x.stage = (IF resumes THEN 2 ELSE 1)
        /\ x.passed = (IF resumes THEN Candidates ELSE {})
        /\ x.filtered \subseteq Candidates
    BY <1>0 DEF Exec
  <2>3. ASSUME resumes PROVE vetted[1] = Candidates
    <3>1. Len(ckpt) \in DOMAIN ckpt /\ ckpt[Len(ckpt)] = 1
      BY <1>0, <2>3 DEF TypeOK, ResumeIndex
    <3> QED
      BY <3>1 DEF Sane, Stage1Saved
  <2>4. \A s \in Stages : s \in Nat /\ (s < 2 => s = 1) /\ ~(s < 1)
    BY DEF Stages
  <2> HIDE DEF x, resumes
  <2>5. Sound(x, vetted)
    BY <2>2, <2>3, <2>4 DEF Sound
  <2> QED
    BY <1>0, <1>5, <2>1, <2>5 DEF Load, Steady, Stage1Saved
<1>6. ASSUME GenerationFails(e) PROVE Steady(e)
  <2> DEFINE x == [exec[e] EXCEPT !.at = "clearing", !.degraded = TRUE]
  <2>1. exec' = [exec EXCEPT ![e] = x]
    BY <1>0, <1>6 DEF GenerationFails, Exec
  <2>2. x.at = "clearing" /\ x.degraded /\ x.passed = {}
    BY <1>0, <1>6 DEF GenerationFails, Exec, Sound
  <2> HIDE DEF x
  <2>3. Sound(x, vetted)
    BY <2>2 DEF Sound
  <2> QED
    BY <1>0, <1>6, <2>1, <2>3 DEF GenerationFails, Steady, Stage1Saved
<1>7. ASSUME Generates(e) PROVE Steady(e)
  BY <1>7, EndsSteady DEF Generates
<1>8. ASSUME Filters(e) PROVE Steady(e)
  <2>1. PICK keep \in SUBSET exec[e].passed :
           Ends(e, keep, exec[e].passed \ keep, FALSE) /\ Vets(e, keep)
    BY <1>8 DEF Filters
  <2>2. /\ keep \in SUBSET Candidates /\ exec[e].passed \ keep \in SUBSET Candidates
    BY <1>0 DEF Exec
  <2>3. exec[e].stage # 1 /\ keep \cup (exec[e].passed \ keep) = exec[e].passed
    BY <1>8, <1>a DEF Filters
  <2> QED
    BY <1>8, <2>1, <2>2, <2>3, EndsSteady DEF Filters
<1>9. ASSUME StageIsAborted(e) \/ OverBudget(e) PROVE Steady(e)
  BY <1>9, CutSteady DEF StageIsAborted, OverBudget
<1>10. ASSUME StageFails(e) PROVE Steady(e)
  <2>1. exec[e].stage # 1
    BY <1>10, <1>a DEF StageFails
  <2> QED
    BY <1>10, <2>1, EndsSteady DEF StageFails
<1>11. ASSUME Clear(e) PROVE Steady(e)
  <2>1. \E at \in {"fail row", "upsert"}, todo \in SUBSET Candidates :
           /\ exec' = [exec EXCEPT ![e].at = at, ![e].todo = todo]
           /\ at = "upsert" => exec[e].at = "clearing"
    <3>1. CASE exec[e].at = "giving up"
      <4>1. exec' = [exec EXCEPT ![e].at = "fail row", ![e].todo = exec[e].todo]
        BY <1>0, <1>11, <3>1 DEF Clear, Exec
      <4>2. exec[e].todo \in SUBSET Candidates
        BY <1>0 DEF Exec
      <4> QED
        BY <4>1, <4>2
    <3>2. CASE exec[e].at = "clearing"
      <4>1. exec[e].passed \cup exec[e].filtered \in SUBSET Candidates
        BY <1>0 DEF Exec
      <4> QED
        BY <1>11, <3>2, <4>1 DEF Clear
    <3> QED
      BY <1>11, <3>1, <3>2 DEF Clear
  <2>5. PICK at \in {"fail row", "upsert"}, todo \in SUBSET Candidates :
           /\ exec' = [exec EXCEPT ![e].at = at, ![e].todo = todo]
           /\ at = "upsert" => exec[e].at = "clearing"
    BY <2>1
  <2> DEFINE x == [exec[e] EXCEPT !.at = at, !.todo = todo]
  <2>2. /\ x \in Exec /\ x.at = at
        /\ x.stage = exec[e].stage /\ x.passed = exec[e].passed
        /\ x.filtered = exec[e].filtered /\ x.degraded = exec[e].degraded
        /\ x.aborted = exec[e].aborted
    BY <1>0 DEF Exec
  <2>3. exec' = [exec EXCEPT ![e] = x]
    BY <1>0, <2>5 DEF Exec
  <2> HIDE DEF x
  <2> QED
    BY <1>11, <2>5, <2>2, <2>3, KeepsSteady DEF Clear
<1>12. ASSUME UpsertBatch(e) PROVE Steady(e)
  <2>1. PICK batch \in Batches(exec[e].todo, exec[e].size), m \in NewSizes(exec[e].size) :
           \E todo \in Onwards(exec[e].todo, batch, exec[e].size, m) :
              exec' = [exec EXCEPT ![e].todo = todo, ![e].size = m,
                                   ![e].ids = @ \cup batch]
    BY <1>12 DEF UpsertBatch
  <2>2. PICK todo : exec' = [exec EXCEPT ![e].todo = todo, ![e].size = m,
                                         ![e].ids = @ \cup batch]
    BY <2>1
  <2> DEFINE x == [exec[e] EXCEPT !.todo = todo, !.size = m, !.ids = exec[e].ids \cup batch]
  <2>3. /\ x.at = exec[e].at
        /\ x.stage = exec[e].stage /\ x.passed = exec[e].passed
        /\ x.filtered = exec[e].filtered /\ x.degraded = exec[e].degraded
        /\ x.aborted = exec[e].aborted
    BY <1>0 DEF Exec
  <2>4. exec' = [exec EXCEPT ![e] = x]
    BY <1>0, <2>2 DEF Exec
  <2> HIDE DEF x
  <2> QED
    BY <1>12, <2>3, <2>4, KeepsSteady DEF UpsertBatch
<1>13. ASSUME ScoreBatch(e) PROVE Steady(e)
  <2>1. PICK batch \in Batches(exec[e].todo, exec[e].size), m \in NewSizes(exec[e].size) :
           \E todo \in Onwards(exec[e].todo, batch, exec[e].size, m) :
              exec' = [exec EXCEPT ![e].todo = todo, ![e].size = m]
    BY <1>13 DEF ScoreBatch
  <2>2. PICK todo : exec' = [exec EXCEPT ![e].todo = todo, ![e].size = m]
    BY <2>1
  <2> DEFINE x == [exec[e] EXCEPT !.todo = todo, !.size = m]
  <2>3. /\ x.at = exec[e].at
        /\ x.stage = exec[e].stage /\ x.passed = exec[e].passed
        /\ x.filtered = exec[e].filtered /\ x.degraded = exec[e].degraded
        /\ x.aborted = exec[e].aborted
    BY <1>0 DEF Exec
  <2>4. exec' = [exec EXCEPT ![e] = x]
    BY <1>0, <2>2 DEF Exec
  <2> HIDE DEF x
  <2> QED
    BY <1>13, <2>3, <2>4, KeepsSteady DEF ScoreBatch
<1>14. ASSUME UpsertsDone(e) PROVE Steady(e)
  <2>2. PICK todo : exec' = [exec EXCEPT ![e].at = "score", ![e].size = InitialBatch,
                                         ![e].todo = todo]
    BY <1>14 DEF UpsertsDone
  <2> DEFINE x == [exec[e] EXCEPT !.at = "score", !.size = InitialBatch, !.todo = todo]
  <2>3. /\ x.at = "score"
        /\ x.stage = exec[e].stage /\ x.passed = exec[e].passed
        /\ x.filtered = exec[e].filtered /\ x.degraded = exec[e].degraded
        /\ x.aborted = exec[e].aborted
    BY <1>0 DEF Exec
  <2>4. exec' = [exec EXCEPT ![e] = x]
    BY <1>0, <2>2 DEF Exec
  <2> HIDE DEF x
  <2> QED
    BY <1>14, <2>3, <2>4, KeepsSteady DEF UpsertsDone
<1>15. ASSUME ScoresDone(e) PROVE Steady(e)
  <2>2. exec' = [exec EXCEPT ![e].at = "metrics", ![e].size = InitialBatch]
    BY <1>15 DEF ScoresDone
  <2> DEFINE x == [exec[e] EXCEPT !.at = "metrics", !.size = InitialBatch]
  <2>3. /\ x.at = "metrics"
        /\ x.stage = exec[e].stage /\ x.passed = exec[e].passed
        /\ x.filtered = exec[e].filtered /\ x.degraded = exec[e].degraded
        /\ x.aborted = exec[e].aborted
    BY <1>0 DEF Exec
  <2>4. exec' = [exec EXCEPT ![e] = x]
    BY <1>0, <2>2 DEF Exec
  <2> HIDE DEF x
  <2> QED
    BY <1>15, <2>3, <2>4, KeepsSteady DEF ScoresDone
<1> QED
  BY <1>1, <1>3, <1>4, <1>5, <1>6, <1>7, <1>8, <1>9, <1>10, <1>11, <1>12, <1>13,
     <1>14, <1>15 DEF Progress

\* a late save adds a checkpoint of a stage that has ended
LEMMA SaneStep == ASSUME Typed, Sane, [Next]_vars PROVE Sane'
<1>0. Typed'
  BY TypedStep
<1>1. ASSUME NEW e \in Execs, Progress(e) \/ Abort(e) \/ Crash(e) PROVE Sane'
  BY <1>0, <1>1, ActionSteady, SaneKept
<1>2. ASSUME UNCHANGED <<exec, vetted>>, Stage1Saved' => Stage1Saved PROVE Sane'
  BY <1>2 DEF Sane
<1>3. ASSUME NEW s \in Stages, SaveLands(s) PROVE Sane'
  <2>1. Stage1Saved' => Stage1Saved
    <3>1. CASE ckpt' = ckpt
      BY <1>3, <3>1 DEF SaveLands, Stage1Saved
    <3>2. CASE ckpt' = Append(ckpt, s)
      BY <1>3, <3>2 DEF SaveLands, Stage1Saved, Typed, TypeOK
    <3> QED
      BY <1>3, <3>1, <3>2 DEF SaveLands
  <2> QED
    BY <1>2, <1>3, <2>1 DEF SaveLands
<1>4. ASSUME NEW s \in Stages, SaveFails(s) PROVE Sane'
  BY <1>2, <1>4 DEF SaveFails, Stage1Saved
<1>5. CASE SubmitJob \/ SubmitRow \/ UNCHANGED vars
  BY <1>2, <1>5 DEF SubmitJob, SubmitRow, vars, Stage1Saved
<1> QED
  BY <1>1, <1>3, <1>4, <1>5 DEF Next

\* soundness holds throughout
LEMMA SaneInvariant == Spec => []Sane
<1>1. Init => Sane
  BY DEF Init, Sane, Sound, NewExec, Stage1Saved
<1>2. Typed /\ Sane /\ [Next]_vars => Sane'
  BY SaneStep
<1> QED
  BY <1>1, <1>2, TypedInvariant, PTL DEF Spec

\* Fail closed: stages may fail, run out of budget, be aborted, and the run may be
\* resumed from the checkpoints of a dead execution; what it recommends every
\* stage has passed.
THEOREM RecommendedVetted == Spec => []RecommendedIsVetted
<1>1. Sane => RecommendedIsVetted
  BY DEF Sane, Sound, RecommendedIsVetted, HasResult
<1> QED
  BY <1>1, SaneInvariant, PTL

\* A result that is neither degraded nor of an aborted run accounts for every
\* candidate, also when the run was resumed after stage 1.
THEOREM CleanRunComplete == Spec => []CleanRunIsComplete
<1>1. Sane => CleanRunIsComplete
  BY DEF Sane, Sound, CleanRunIsComplete, HasResult, Accounted
<1> QED
  BY <1>1, SaneInvariant, PTL

=============================================================================
