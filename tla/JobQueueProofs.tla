---------------------------- MODULE JobQueueProofs ----------------------------
(***************************************************************************)
(* What holds of the job queue for every number of workers, jobs, attempts *)
(* and slots.                                                              *)
(***************************************************************************)
EXTENDS JobQueue, FiniteSetTheorems, TLAPS

\* Ids are handed out in order, a row has its payload from then on, and a worker
\* awaits one claim at a time, with a slot for it.
Numbered ==
    /\ \A j \in JobIds : row[j].status # "absent" => j <= nextId
    /\ \A j \in JobIds : j <= nextId => row[j].payload \in Payloads
    /\ \A e \in execs : e.j <= nextId
    /\ \A e \in execs : e.at = "claimed" => slots[e.w] > 0 /\ phase[e.w] = "claiming"
    /\ \A e, f \in execs : e.at = "claimed" /\ f.at = "claimed" /\ e.w = f.w => e = f

Typed == TypeOK /\ Numbered

\* a worker's active jobs can be counted
LEMMA CardinalityOfActive ==
    ASSUME TypeOK, NEW w \in Workers
    PROVE  /\ IsFiniteSet(active[w])
           /\ Cardinality(active[w]) \in Nat
<1>1. IsFiniteSet(JobIds)
  BY FS_Interval, JobQueueAssumption DEF JobIds
<1>2. active[w] \in SUBSET JobIds
  BY DEF TypeOK
<1>3. IsFiniteSet(active[w])
  BY <1>1, <1>2, FS_Subset
<1> QED
  BY <1>3, FS_CardinalityType

\* a set with one element more, or one less, counts one more or less at most
LEMMA NeighbouringCardinalities ==
    ASSUME NEW S, IsFiniteSet(S), NEW x
    PROVE  /\ Cardinality(S \cup {x}) \in Nat /\ Cardinality(S \cup {x}) <= Cardinality(S) + 1
           /\ Cardinality(S \ {x}) \in Nat /\ Cardinality(S \ {x}) <= Cardinality(S)
<1>1. /\ IsFiniteSet(S \cup {x})
      /\ Cardinality(S \cup {x}) = IF x \in S THEN Cardinality(S) ELSE Cardinality(S) + 1
  BY FS_AddElement
<1>2. /\ IsFiniteSet(S \ {x})
      /\ Cardinality(S \ {x}) = IF x \in S THEN Cardinality(S) - 1 ELSE Cardinality(S)
  BY FS_RemoveElement
<1>3. Cardinality(S) \in Nat /\ Cardinality(S \cup {x}) \in Nat /\ Cardinality(S \ {x}) \in Nat
  BY <1>1, <1>2, FS_CardinalityType
<1> QED
  BY <1>1, <1>2, <1>3

\* an inserted row is typed and has the next id
LEMMA InsertTyped ==
    ASSUME Typed, NEW p \in Payloads, NEW h \in BOOLEAN, Insert(p, h),
           UNCHANGED execs
    PROVE  /\ row' \in [JobIds -> Row]
           /\ nextId' \in 0 .. MaxJobs
           /\ \A j \in JobIds : row'[j].status # "absent" => j <= nextId'
           /\ \A j \in JobIds : j <= nextId' => row'[j].payload \in Payloads
           /\ \A e \in execs' : e.j <= nextId'
<1>1. nextId + 1 \in JobIds
  BY JobQueueAssumption DEF Typed, TypeOK, Insert, JobIds
<1>2. QueuedRow(p, h) \in Row
  BY JobQueueAssumption DEF QueuedRow, Row
<1>3. row' = [row EXCEPT ![nextId + 1] = QueuedRow(p, h)]
  BY DEF Insert
<1>4. row' \in [JobIds -> Row]
  BY <1>1, <1>2, <1>3 DEF Typed, TypeOK
<1>5. nextId' \in 0 .. MaxJobs
  BY JobQueueAssumption DEF Typed, TypeOK, Insert
<1>6. \A j \in JobIds : row'[j] = IF j = nextId + 1 THEN QueuedRow(p, h) ELSE row[j]
  BY <1>3 DEF Typed, TypeOK
<1>7. nextId \in Nat /\ nextId' = nextId + 1
  BY DEF Typed, TypeOK, Insert
<1>8. \A j \in JobIds : row'[j].status # "absent" => j <= nextId'
  BY <1>6, <1>7 DEF Typed, Numbered, JobIds
<1>9. \A j \in JobIds : j <= nextId' => row'[j].payload \in Payloads
  BY <1>6, <1>7 DEF Typed, Numbered, JobIds, QueuedRow
<1>10. \A e \in execs' : e.j <= nextId'
  BY <1>7 DEF Typed, TypeOK, Numbered, JobIds, Exec
<1> QED
  BY <1>4, <1>5, <1>8, <1>9, <1>10

\* a claim is typed: a row due has attempts left below the bound
LEMMA ClaimTyped ==
    ASSUME Typed, NEW w \in Workers, NEW j \in JobIds, Claim(w, j)
    PROVE  Typed'
<1>1. row[j] \in Row /\ row[j].status = "queued" /\ row[j].attempts + 1 \in 1 .. MaxClaims
  BY JobQueueAssumption DEF Typed, TypeOK, Claim, Eligible, DueRows, Row
<1>2. row' \in [JobIds -> Row]
  BY <1>1 DEF Typed, TypeOK, Claim, Row
<1>3. execs' \subseteq Exec
  BY <1>1 DEF Typed, TypeOK, Claim, Exec, Steps
<1>4. TypeOK'
  BY <1>2, <1>3 DEF Typed, TypeOK, Claim, procVars
<1>5. Numbered'
  BY <1>1 DEF Typed, TypeOK, Numbered, Claim, Awaiting, procVars, Exec
<1> QED
  BY <1>4, <1>5 DEF Typed

\* every step of an execution: what Moves and Leaves do to the types
LEMMA MovesTyped ==
    ASSUME Typed, NEW e \in execs, NEW from, NEW to \in Steps \ {"claimed"},
           Moves(e, from, to)
    PROVE  /\ execs' \subseteq Exec
           /\ \A f \in execs' : f.at = "claimed" => f \in execs
           /\ \A f \in execs' : \E g \in execs : f.j = g.j /\ f.w = g.w /\ f.n = g.n
<1>1. [e EXCEPT !.at = to] \in Exec
  BY DEF Typed, TypeOK, Exec
<1>2. /\ [e EXCEPT !.at = to].j = e.j
      /\ [e EXCEPT !.at = to].w = e.w
      /\ [e EXCEPT !.at = to].n = e.n
      /\ [e EXCEPT !.at = to].at = to
  BY DEF Typed, TypeOK, Exec
<1> QED
  BY <1>1, <1>2 DEF Typed, TypeOK, Moves

\* an execution that leaves takes its job off the worker's map
LEMMA LeavesTyped ==
    ASSUME Typed, NEW e \in execs, NEW from, Leaves(e, from)
    PROVE  /\ execs' \subseteq execs
           /\ mode' \in [Workers -> Modes]
           /\ active' \in [Workers -> SUBSET JobIds]
<1>1. e.w \in Workers /\ e.j \in JobIds
  BY DEF Typed, TypeOK, Exec
<1> QED
  BY <1>1 DEF Typed, TypeOK, Leaves, Modes

\* Every step keeps the types.
LEMMA TypedStep == ASSUME Typed, [Next]_vars PROVE Typed'
<1>1. ASSUME NEW q \in Payloads, EnqueueSqlite(q) PROVE Typed'
  <2>1. Insert(q, q \in High) /\ (q \in High) \in BOOLEAN /\ UNCHANGED execs
    BY <1>1 DEF EnqueueSqlite
  <2> QED
    BY <1>1, <2>1, InsertTyped DEF EnqueueSqlite, Typed, TypeOK, Numbered, procVars
<1>2. ASSUME NEW q \in Payloads, AdmitPostgres(q) PROVE Typed'
  BY <1>2 DEF AdmitPostgres, Typed, TypeOK, Numbered, procVars
<1>3. ASSUME NEW q \in Payloads, CommitPostgres(q) PROVE Typed'
  <2>1. Insert(q, q \in High) /\ (q \in High) \in BOOLEAN /\ UNCHANGED execs
    BY <1>3 DEF CommitPostgres
  <2> QED
    BY <1>3, <2>1, InsertTyped DEF CommitPostgres, Typed, TypeOK, Numbered, procVars
<1>4. ASSUME NEW d \in dead, RetryRead(d) PROVE Typed'
  BY <1>4 DEF RetryRead, Typed, TypeOK, Numbered, procVars
<1>5. ASSUME NEW d \in dead, PruneDead(d) PROVE Typed'
  BY <1>5 DEF PruneDead, Typed, TypeOK, Numbered, procVars, DeadLetter
<1>6. ASSUME NEW r \in retry, RetryInsert(r) PROVE Typed'
  <2>1. r.letter.payload \in Payloads /\ [r EXCEPT !.at = "inserted"] \in
           [at: {"read", "inserted"}, letter: DeadLetter]
    BY DEF Typed, TypeOK, DeadLetter
  <2>2. Insert(r.letter.payload, TRUE) /\ UNCHANGED execs
    BY <1>6 DEF RetryInsert
  <2> QED
    BY <1>6, <2>1, <2>2, InsertTyped DEF RetryInsert, Typed, TypeOK, Numbered, procVars
<1>7. ASSUME NEW r \in retry, RetryDelete(r) PROVE Typed'
  BY <1>7 DEF RetryDelete, Typed, TypeOK, Numbered, procVars
<1>8. ASSUME NEW r \in retry, RetryAbandon(r) PROVE Typed'
  BY <1>8 DEF RetryAbandon, Typed, TypeOK, Numbered, procVars
<1>9. ASSUME NEW j \in JobIds, PruneCompleted(j) PROVE Typed'
  BY <1>9 DEF PruneCompleted, Typed, TypeOK, Numbered, procVars, Row
<1>10. ASSUME NEW j \in JobIds, BecomeDue(j) PROVE Typed'
  <2>1. row' \in [JobIds -> Row]
    <3>1. row[j] \in Row /\ row' = [row EXCEPT ![j].due = TRUE]
      BY <1>10 DEF BecomeDue, Typed, TypeOK
    <3>2. [row[j] EXCEPT !.due = TRUE] \in Row
      BY <3>1 DEF Row
    <3> QED
      BY <3>1, <3>2 DEF Typed, TypeOK
  <2>2. \A i \in JobIds : /\ row'[i].status = row[i].status
                          /\ row'[i].payload = row[i].payload
    BY <1>10 DEF BecomeDue, Typed, TypeOK, Row
  <2> QED
    BY <1>10, <2>1, <2>2 DEF BecomeDue, Typed, TypeOK, Numbered, procVars
<1>11. ASSUME NEW j \in JobIds, AgeBeat(j) PROVE Typed'
  BY <1>11 DEF AgeBeat, Typed, TypeOK, Numbered, procVars, Row
<1>12. ASSUME NEW w \in Workers, NEW j \in JobIds, Claim(w, j) PROVE Typed'
  BY <1>12, ClaimTyped
<1>13. ASSUME NEW w \in Workers, StartPoll(w) PROVE Typed'
  <2>1. Concurrency - Cardinality(active[w]) \in 0 .. Concurrency
    BY <1>13, CardinalityOfActive, JobQueueAssumption DEF StartPoll, Typed
  <2> QED
    BY <1>13, <2>1 DEF StartPoll, Typed, TypeOK, Numbered, queueVars, Phases
<1>14. ASSUME NEW w \in Workers, EndClaims(w) PROVE Typed'
  BY <1>14, JobQueueAssumption
  DEF EndClaims, Awaiting, Typed, TypeOK, Numbered, queueVars, Phases, Exec
<1>15. ASSUME NEW w \in Workers, ClaimFails(w) PROVE Typed'
  BY <1>15, JobQueueAssumption
  DEF ClaimFails, Awaiting, Typed, TypeOK, Numbered, queueVars, Phases, Exec
<1>16. ASSUME NEW w \in Workers, Reap(w) PROVE Typed'
  <2>1. \A r \in Row : [r EXCEPT !.status = "queued", !.owner = NoWorker,
                                 !.beat = "null"] \in Row
    BY DEF Row
  <2>2. row' \in [JobIds -> Row]
    BY <1>16, <2>1 DEF Reap, PutBack, Stuck, Typed, TypeOK
  <2>3. \A j \in JobIds : /\ row'[j].status = "absent" <=> row[j].status = "absent"
                          /\ row'[j].payload = row[j].payload
    BY <1>16 DEF Reap, PutBack, Stuck, Typed, TypeOK, Row
  <2> QED
    BY <1>16, <2>2, <2>3 DEF Reap, PutBack, Stuck, Typed, TypeOK, Numbered, Phases, Exec
<1>17. ASSUME NEW w \in Workers, Heartbeat(w) PROVE Typed'
  <2>1. row' \in [JobIds -> Row]
    BY <1>17 DEF Heartbeat, Typed, TypeOK, Row
  <2>2. \A j \in JobIds : /\ row'[j].status = row[j].status
                          /\ row'[j].payload = row[j].payload
    BY <1>17 DEF Heartbeat, Typed, TypeOK, Row
  <2> QED
    BY <1>17, <2>1, <2>2 DEF Heartbeat, Typed, TypeOK, Numbered, procVars
<1>18. ASSUME NEW w \in Workers, Boot(w) PROVE Typed'
  BY <1>18 DEF Boot, Typed, TypeOK, Numbered, queueVars, Modes
<1>19. ASSUME NEW w \in Workers, Stop(w) PROVE Typed'
  BY <1>19 DEF Stop, Typed, TypeOK, Numbered, queueVars, Modes
<1>20. ASSUME NEW w \in Workers, ShutdownTimeout(w) PROVE Typed'
  BY <1>20 DEF ShutdownTimeout, Typed, TypeOK, Numbered, queueVars, Modes
<1>21. ASSUME NEW w \in Workers, Halts(w) PROVE Typed'
  BY <1>21, JobQueueAssumption
  DEF Halts, Typed, TypeOK, Numbered, queueVars, Modes, Phases, Exec
<1>22. ASSUME NEW e \in execs, ClaimAnswerLost(e) PROVE Typed'
  BY <1>22, JobQueueAssumption
  DEF ClaimAnswerLost, Typed, TypeOK, Numbered, queueVars, Phases, Exec
<1>23. ASSUME NEW e \in execs, StartJob(e) PROVE Typed'
  <2>1. slots[e.w] - 1 \in 0 .. Concurrency /\ e.w \in Workers /\ e.j \in JobIds
    BY <1>23, JobQueueAssumption DEF StartJob, Moves, Typed, TypeOK, Numbered, Exec
  <2>2. Moves(e, "claimed", "handling")
    BY <1>23 DEF StartJob
  <2>3. \A f \in execs' : f.at = "claimed" => f.w # e.w
    BY <2>2, <1>23 DEF Moves, Typed, TypeOK, Numbered, Exec
  <2> QED
    BY <1>23, <2>1, <2>2, <2>3, MovesTyped
    DEF StartJob, Typed, TypeOK, Numbered, queueVars, Steps, Exec
<1>24. ASSUME NEW e \in execs, NEW from, NEW to \in Steps \ {"claimed"},
              Moves(e, from, to), UNCHANGED <<queueVars, procVars>>
       PROVE  Typed'
  BY <1>24, MovesTyped DEF Typed, TypeOK, Numbered, queueVars, procVars
<1>25. ASSUME NEW e \in execs, NEW from, Leaves(e, from),
              UNCHANGED <<queueVars, phase, slots>>
       PROVE  Typed'
  BY <1>25, LeavesTyped DEF Typed, TypeOK, Numbered, queueVars
<1>26. ASSUME NEW e \in execs, Complete(e) PROVE Typed'
  <2>1. e.j \in JobIds /\ row[e.j] \in Row /\ row[e.j].payload \in Payloads
    BY DEF Typed, TypeOK, Numbered, Exec
  <2>2. row' \in [JobIds -> Row] /\ settled' \subseteq Payloads
    BY <1>26, <2>1 DEF Complete, Typed, TypeOK, Row
  <2>3. \A j \in JobIds : /\ row'[j].status = "absent" <=> row[j].status = "absent"
                          /\ row'[j].payload = row[j].payload
    BY <1>26, <2>1 DEF Complete, Typed, TypeOK, Row
  <2>4. Leaves(e, "completing")
    BY <1>26 DEF Complete
  <2> QED
    BY <1>26, <2>2, <2>3, <2>4, LeavesTyped DEF Complete, Typed, TypeOK, Numbered
<1>27. ASSUME NEW e \in execs, CompleteAnswerLost(e) PROVE Typed'
  <2>1. e.j \in JobIds /\ row[e.j] \in Row /\ row[e.j].payload \in Payloads
    BY DEF Typed, TypeOK, Numbered, Exec
  <2>2. row' \in [JobIds -> Row] /\ settled' \subseteq Payloads
    BY <1>27, <2>1 DEF CompleteAnswerLost, Typed, TypeOK, Row
  <2>3. \A j \in JobIds : /\ row'[j].status = "absent" <=> row[j].status = "absent"
                          /\ row'[j].payload = row[j].payload
    BY <1>27, <2>1 DEF CompleteAnswerLost, Typed, TypeOK, Row
  <2>4. Moves(e, "completing", "failing") /\ "failing" \in Steps \ {"claimed"}
    BY <1>27 DEF CompleteAnswerLost, Steps
  <2> QED
    BY <1>27, <2>2, <2>3, <2>4, MovesTyped
    DEF CompleteAnswerLost, Typed, TypeOK, Numbered, procVars
<1>28. ASSUME NEW e \in execs, Requeue(e) PROVE Typed'
  <2>1. e.j \in JobIds /\ row[e.j] \in Row
    BY DEF Typed, TypeOK, Exec
  <2>2. row' \in [JobIds -> Row]
    BY <1>28, <2>1 DEF Requeue, Typed, TypeOK, Row
  <2>3. \A j \in JobIds : /\ row'[j].status = "absent" <=> row[j].status = "absent"
                          /\ row'[j].payload = row[j].payload
    BY <1>28, <2>1 DEF Requeue, Typed, TypeOK, Row
  <2>4. Leaves(e, "requeuing")
    BY <1>28 DEF Requeue
  <2> QED
    BY <1>28, <2>2, <2>3, <2>4, LeavesTyped DEF Requeue, Typed, TypeOK, Numbered
<1>29. ASSUME NEW e \in execs, Bury(e) PROVE Typed'
  <2>1. e \in Exec /\ row[e.j] \in Row /\ row[e.j].payload \in Payloads
    BY DEF Typed, TypeOK, Numbered, Exec
  <2>2. dead' \subseteq DeadLetter
    BY <1>29, <2>1 DEF Bury, Typed, TypeOK, DeadLetter, Exec
  <2>3. row' \in [JobIds -> Row]
    BY <1>29, <2>1 DEF Bury, Typed, TypeOK, Row
  <2>4. \A j \in JobIds : /\ row'[j].status # "absent" => row[j].status # "absent"
                          /\ row'[j].payload = row[j].payload
    BY <1>29, <2>1 DEF Bury, Typed, TypeOK, Row
  <2>5. Leaves(e, "inserting")
    BY <1>29 DEF Bury
  <2> QED
    BY <1>29, <2>2, <2>3, <2>4, <2>5, LeavesTyped DEF Bury, Typed, TypeOK, Numbered
<1>30. ASSUME NEW e \in execs, BuryInsert(e) PROVE Typed'
  <2>1. e \in Exec /\ row[e.j].payload \in Payloads
    BY DEF Typed, TypeOK, Numbered, Exec
  <2>2. dead' \subseteq DeadLetter
    BY <1>30, <2>1 DEF BuryInsert, Typed, TypeOK, DeadLetter, Exec
  <2>3. Moves(e, "inserting", "deleting") /\ "deleting" \in Steps \ {"claimed"}
    BY <1>30 DEF BuryInsert, Steps
  <2> QED
    BY <1>30, <2>2, <2>3, MovesTyped DEF BuryInsert, Typed, TypeOK, Numbered, procVars
<1>31. ASSUME NEW e \in execs, BuryDelete(e) PROVE Typed'
  <2>1. e.j \in JobIds /\ row[e.j] \in Row
    BY DEF Typed, TypeOK, Exec
  <2>2. row' \in [JobIds -> Row]
    BY <1>31, <2>1 DEF BuryDelete, Typed, TypeOK, Row
  <2>3. \A j \in JobIds : /\ row'[j].status # "absent" => row[j].status # "absent"
                          /\ row'[j].payload = row[j].payload
    BY <1>31, <2>1 DEF BuryDelete, Typed, TypeOK, Row
  <2>4. Leaves(e, "deleting")
    BY <1>31 DEF BuryDelete
  <2> QED
    BY <1>31, <2>2, <2>3, <2>4, LeavesTyped DEF BuryDelete, Typed, TypeOK, Numbered
<1>32. CASE UNCHANGED vars
  BY <1>32 DEF vars, queueVars, procVars, Typed, TypeOK, Numbered
<1> QED
  BY <1>1, <1>2, <1>3, <1>4, <1>5, <1>6, <1>7, <1>8, <1>9, <1>10, <1>11, <1>12, <1>13,
     <1>14, <1>15, <1>16, <1>17, <1>18, <1>19, <1>20, <1>21, <1>22, <1>23, <1>24,
     <1>25, <1>26, <1>27, <1>28, <1>29, <1>30, <1>31, <1>32
  DEF Next, ExecStep, Exit, Crash, HandlerReturns, HandlerThrows, HandlerAborts,
      CompleteRejects, FailRead, FailRejects, RowGone, BuryRead, Steps

\* the types hold, and the rows are those of the ids given out
LEMMA TypedInvariant == Spec => []Typed
<1>1. Init => Typed
  <2> SUFFICES ASSUME Init PROVE Typed
    OBVIOUS
  <2>1. NoRow \in Row
    BY JobQueueAssumption DEF NoRow, Row
  <2>2. TypeOK
    BY <2>1, JobQueueAssumption DEF Init, TypeOK, Modes, Phases, Exec, DeadLetter
  <2>3. Numbered
    BY JobQueueAssumption DEF Init, Numbered, NoRow, JobIds
  <2> QED
    BY <2>2, <2>3 DEF Typed
<1>2. Typed /\ [Next]_vars => Typed'
  BY TypedStep
<1> QED
  BY <1>1, <1>2, PTL DEF Spec

\* The type invariant of JobQueue: every variable keeps its type, whatever is
\* lost, crashes or is put back.
THEOREM TypeCorrect == Spec => []TypeOK
<1>1. Typed => TypeOK
  BY DEF Typed
<1> QED
  BY <1>1, TypedInvariant, PTL

-----------------------------------------------------------------------------
(* Executions and rows, while heartbeats land and answers arrive *)

Reliable == HeartbeatsLand /\ AnswersArrive

\* An execution holds its row, alone; its process is alive, lists it among the
\* active jobs once started, and the row's heartbeat is fresh.
Tracked ==
    /\ ExecutionHoldsRow
    /\ SingleExecution
    /\ \A e \in execs : DbOpen(e.w)
    /\ \A e \in execs : e.at # "claimed" => e.j \in active[e.w]
    /\ \A e \in execs : row[e.j].beat = "fresh"

\* an action that changes neither the executions, nor their rows, nor takes
\* anything from a process that has some keeps Tracked
LEMMA FramedTracked ==
    ASSUME Typed, Tracked, UNCHANGED execs,
           \A e \in execs : row'[e.j] = row[e.j],
           \A e \in execs : mode'[e.w] \in {"up", "stopping", "stopped", "forced"},
           \A e \in execs : active'[e.w] = active[e.w]
    PROVE  Tracked'
  BY DEF Tracked, ExecutionHoldsRow, SingleExecution, DbOpen

\* a step of an execution that leaves rows and processes alone
LEMMA MovedTracked ==
    ASSUME Typed, Tracked, NEW e \in execs, NEW from, NEW to, Moves(e, from, to),
           from # "claimed" \/ active'[e.w] = active[e.w] \cup {e.j},
           \A w \in Workers : active[w] \subseteq active'[w],
           UNCHANGED <<row, mode>>
    PROVE  Tracked'
<1>1. /\ [e EXCEPT !.at = to].j = e.j
      /\ [e EXCEPT !.at = to].w = e.w
      /\ [e EXCEPT !.at = to].n = e.n
  BY DEF Typed, TypeOK, Exec
<1>2. \A f \in execs' : \E g \in execs : /\ f.j = g.j /\ f.w = g.w /\ f.n = g.n
                                         /\ f = g \/ (g = e /\ f = [e EXCEPT !.at = to])
  BY <1>1 DEF Moves
<1>3. \A f \in execs' : f.at # "claimed" => f.j \in active'[f.w]
  BY <1>1, <1>2 DEF Typed, TypeOK, Exec, Tracked, Moves
<1>4. SingleExecution'
  BY <1>1, <1>2 DEF Moves, Tracked, SingleExecution
<1> QED
  BY <1>2, <1>3, <1>4 DEF Tracked, ExecutionHoldsRow, DbOpen

\* the end of an execution, whatever becomes of its row
LEMMA LeftTracked ==
    ASSUME Typed, Tracked, NEW e \in execs, NEW from, Leaves(e, from),
           \A j \in JobIds \ {e.j} : row'[j] = row[j]
    PROVE  Tracked'
<1>1. \A f \in execs' : f \in execs /\ f.j # e.j /\ f.w \in Workers /\ f.j \in JobIds
  BY DEF Leaves, Tracked, SingleExecution, Typed, TypeOK, Exec
<1>2. \A f \in execs' : row'[f.j] = row[f.j]
  BY <1>1
<1>3. \A f \in execs' : mode'[f.w] \in {"up", "stopping", "stopped", "forced"}
  BY <1>1 DEF Leaves, Tracked, DbOpen, Typed, TypeOK
<1>4. \A f \in execs' : f.j \in active[f.w] => f.j \in active'[f.w]
  BY <1>1 DEF Leaves, Typed, TypeOK
<1> QED
  BY <1>1, <1>2, <1>3, <1>4 DEF Tracked, ExecutionHoldsRow, SingleExecution, DbOpen

\* an insert touches no row that has an execution
LEMMA InsertTracked ==
    ASSUME Typed, NEW p \in Payloads, NEW h \in BOOLEAN, Insert(p, h)
    PROVE  \A e \in execs : row'[e.j] = row[e.j]
<1>1. \A e \in execs : e.j \in JobIds /\ e.j # nextId + 1
  BY DEF Typed, TypeOK, Numbered, Exec, JobIds
<1> QED
  BY <1>1 DEF Insert, Typed, TypeOK

\* Executions hold their rows: the inductive invariant behind the theorems on
\* single execution, final results and single burial.
LEMMA TrackedInvariant == ASSUME Reliable PROVE Spec => []Tracked
<1>1. Init => Tracked
  BY DEF Init, Tracked, ExecutionHoldsRow, SingleExecution
<1>2. Typed /\ Tracked /\ [Next]_vars => Tracked'
  <2> SUFFICES ASSUME Typed, Tracked, [Next]_vars PROVE Tracked'
    OBVIOUS
  <2>0. \A e \in execs : /\ e.j \in JobIds /\ e.w \in Workers
                         /\ mode[e.w] \in {"up", "stopping", "stopped", "forced"}
                         /\ row[e.j].status = "running" /\ row[e.j].beat = "fresh"
    BY DEF Typed, TypeOK, Exec, Tracked, DbOpen, ExecutionHoldsRow
  <2>1. ASSUME NEW q \in Payloads, EnqueueSqlite(q) \/ CommitPostgres(q) PROVE Tracked'
    <3>1. Insert(q, q \in High) /\ (q \in High) \in BOOLEAN /\ UNCHANGED <<execs, mode, active>>
      BY <2>1 DEF EnqueueSqlite, CommitPostgres, procVars
    <3> QED
      BY <2>0, <3>1, InsertTracked, FramedTracked
  <2>2. ASSUME UNCHANGED <<row, execs, mode, active>> PROVE Tracked'
    BY <2>0, <2>2, FramedTracked
  <2>3. ASSUME NEW r \in retry, RetryInsert(r) PROVE Tracked'
    <3>1. r.letter.payload \in Payloads
      BY DEF Typed, TypeOK, DeadLetter
    <3>2. Insert(r.letter.payload, TRUE) /\ UNCHANGED <<execs, mode, active>>
      BY <2>3 DEF RetryInsert, procVars
    <3> QED
      BY <2>0, <3>1, <3>2, InsertTracked, FramedTracked
  <2>4. ASSUME NEW j \in JobIds, PruneCompleted(j) \/ BecomeDue(j) PROVE Tracked'
    <3>1. \A e \in execs : row'[e.j] = row[e.j]
      BY <2>0, <2>4 DEF PruneCompleted, BecomeDue, Typed, TypeOK
    <3> QED
      BY <2>0, <2>4, <3>1, FramedTracked DEF PruneCompleted, BecomeDue, procVars
  <2>5. ASSUME NEW j \in JobIds, AgeBeat(j) PROVE Tracked'
    <3>1. \A e \in execs : e.j # j
      <4> SUFFICES ASSUME NEW e \in execs, e.j = j PROVE FALSE
        OBVIOUS
      <4>1. row[j].owner = e.w /\ DbOpen(e.w) /\ (e.at # "claimed" => j \in active[e.w])
        BY DEF Tracked, ExecutionHoldsRow
      <4>2. Refreshed(j)
        BY <2>0, <4>1 DEF Refreshed
      <4> QED
        BY <2>5, <4>2, Reliable DEF AgeBeat, Reliable
    <3>2. \A e \in execs : row'[e.j] = row[e.j]
      BY <2>0, <2>5, <3>1 DEF AgeBeat, Typed, TypeOK
    <3> QED
      BY <2>0, <2>5, <3>2, FramedTracked DEF AgeBeat, procVars
  <2>6. ASSUME NEW w \in Workers, NEW j \in JobIds, Claim(w, j) PROVE Tracked'
    <3> DEFINE c == [w |-> w, j |-> j, n |-> row[j].attempts + 1, at |-> "claimed"]
    <3>1. /\ execs' = execs \cup {c}
          /\ row[j].status = "queued"
          /\ mode[w] \in {"up", "stopping", "stopped", "forced"}
          /\ UNCHANGED <<mode, active>>
      BY <2>6 DEF Claim, Eligible, DueRows, DbOpen, procVars
    <3>2. \A e \in execs : e.j # j
      BY <2>0, <3>1
    <3>3. \A e \in execs : row'[e.j] = row[e.j]
      BY <2>0, <2>6, <3>2 DEF Claim, Typed, TypeOK
    <3>4. /\ row'[j].status = "running" /\ row'[j].owner = w /\ row'[j].beat = "fresh"
          /\ row'[j].attempts = row[j].attempts + 1
      BY <2>6 DEF Claim, Typed, TypeOK, Row
    <3> QED
      BY <3>1, <3>2, <3>3, <3>4 DEF Tracked, ExecutionHoldsRow, SingleExecution, DbOpen
  <2>7. ASSUME NEW w \in Workers, Reap(w) PROVE Tracked'
    <3>1. \A e \in execs : row'[e.j] = row[e.j]
      BY <2>0, <2>7 DEF Reap, PutBack, Stuck
    <3> QED
      BY <2>0, <2>7, <3>1, FramedTracked DEF Reap, PutBack, Stuck
  <2>8. ASSUME NEW w \in Workers, Heartbeat(w) PROVE Tracked'
    <3>1. \A j \in JobIds : /\ row'[j].status = row[j].status /\ row'[j].owner = row[j].owner
                            /\ row'[j].attempts = row[j].attempts
                            /\ row[j].beat = "fresh" => row'[j].beat = "fresh"
      BY <2>8 DEF Heartbeat, Typed, TypeOK, Row
    <3> QED
      BY <2>0, <2>8, <3>1
      DEF Heartbeat, procVars, Tracked, ExecutionHoldsRow, SingleExecution, DbOpen
  <2>9. ASSUME NEW w \in Workers, Boot(w) \/ Stop(w) \/ ShutdownTimeout(w) PROVE Tracked'
    <3>1. \A e \in execs : mode'[e.w] \in {"up", "stopping", "stopped", "forced"}
      BY <2>0, <2>9 DEF Boot, Stop, ShutdownTimeout, Typed, TypeOK
    <3> QED
      BY <2>9, <3>1, FramedTracked DEF Boot, Stop, ShutdownTimeout, queueVars
  <2>10. ASSUME NEW w \in Workers, Halts(w) PROVE Tracked'
    <3>1. \A e \in execs' : e \in execs /\ mode'[e.w] = mode[e.w] /\ active'[e.w] = active[e.w]
      BY <2>0, <2>10 DEF Halts, Typed, TypeOK
    <3> QED
      BY <2>10, <3>1 DEF Halts, queueVars, Tracked, ExecutionHoldsRow, SingleExecution, DbOpen
  <2>11. ASSUME NEW e \in execs, StartJob(e) PROVE Tracked'
    <3>1. /\ Moves(e, "claimed", "handling") /\ UNCHANGED <<row, mode>>
          /\ active' = [active EXCEPT ![e.w] = @ \cup {e.j}]
      BY <2>11 DEF StartJob, queueVars
    <3>2. /\ active'[e.w] = active[e.w] \cup {e.j}
          /\ \A w \in Workers : active[w] \subseteq active'[w]
      BY <2>0, <3>1 DEF Typed, TypeOK
    <3> QED
      BY <3>1, <3>2, MovedTracked
  <2>12. ASSUME NEW e \in execs, NEW from, NEW to, Moves(e, from, to), from # "claimed",
                UNCHANGED <<row, procVars>>
         PROVE  Tracked'
    BY <2>12, MovedTracked DEF procVars
  <2>13. ASSUME NEW e \in execs, NEW from, Leaves(e, from), row' = row PROVE Tracked'
    BY <2>13, LeftTracked
  <2>14. ASSUME NEW e \in execs, Complete(e) \/ Requeue(e) \/ Bury(e) \/ BuryDelete(e)
         PROVE  Tracked'
    <3>1. \A j \in JobIds \ {e.j} : row'[j] = row[j]
      BY <2>0, <2>14 DEF Complete, Requeue, Bury, BuryDelete, Typed, TypeOK
    <3>2. \E from \in Steps : Leaves(e, from)
      BY <2>14 DEF Complete, Requeue, Bury, BuryDelete, Steps
    <3> QED
      BY <3>1, <3>2, LeftTracked
  <2>15. CASE UNCHANGED vars
    BY <2>2, <2>15 DEF vars, queueVars, procVars
  <2>16. ASSUME NEW e \in execs PROVE ~ClaimAnswerLost(e) /\ ~CompleteAnswerLost(e)
    BY Reliable DEF Reliable, ClaimAnswerLost, CompleteAnswerLost
  <2>17. ASSUME NEW w \in Workers, StartPoll(w) \/ EndClaims(w) \/ ClaimFails(w)
         PROVE  Tracked'
    BY <2>2, <2>17 DEF StartPoll, EndClaims, ClaimFails, queueVars
  <2>18. ASSUME NEW q \in Payloads, AdmitPostgres(q) PROVE Tracked'
    BY <2>2, <2>18 DEF AdmitPostgres, procVars
  <2>19. ASSUME NEW d \in dead, RetryRead(d) \/ PruneDead(d) PROVE Tracked'
    BY <2>2, <2>19 DEF RetryRead, PruneDead, procVars
  <2>20. ASSUME NEW r \in retry, RetryDelete(r) \/ RetryAbandon(r) PROVE Tracked'
    BY <2>2, <2>20 DEF RetryDelete, RetryAbandon, procVars
  <2>21. ASSUME NEW e \in execs, ExecStep(e) PROVE Tracked'
    BY <2>11, <2>12, <2>13, <2>14, <2>21
    DEF ExecStep, HandlerReturns, HandlerThrows, HandlerAborts, CompleteRejects, FailRead,
        FailRejects, RowGone, BuryRead, BuryInsert, queueVars
  <2> QED
    BY <2>1, <2>3, <2>4, <2>5, <2>6, <2>7, <2>8, <2>9, <2>10, <2>15, <2>16, <2>17, <2>18,
       <2>19, <2>20, <2>21
    DEF Next, Exit, Crash
<1> QED
  BY <1>1, <1>2, TypedInvariant, PTL DEF Spec

\* No job runs twice at once, while the heartbeats of live executions land: the
\* reaper takes a job from a silent worker only.
THEOREM OneExecutionPerJob == ASSUME Reliable PROVE Spec => []SingleExecution
<1>1. Tracked => SingleExecution
  BY DEF Tracked
<1> QED
  BY <1>1, TrackedInvariant, PTL

\* complete() and fail(), which name the row by id alone, only ever run for the
\* execution that holds the row.
THEOREM WritersHoldTheRow == ASSUME Reliable PROVE Spec => []ExecutionHoldsRow
<1>1. Tracked => ExecutionHoldsRow
  BY DEF Tracked
<1> QED
  BY <1>1, TrackedInvariant, PTL

-----------------------------------------------------------------------------
(* Results are final, burials happen once *)

\* What a step does to finished rows and to the dead letters.
LEMMA StepShape ==
    ASSUME Reliable, Typed, Tracked, [Next]_vars
    PROVE  /\ nextId <= nextId'
           /\ \A j \in JobIds : /\ row[j].status = "absent" /\ j <= nextId
                                   => row'[j].status = "absent"
                                /\ row[j].status = "completed"
                                   => row'[j].status \in {"completed", "absent"}
           /\ \/ dead' \subseteq dead
              \/ \E e \in execs : Bury(e) \/ BuryInsert(e)
<1>0. \A e \in execs : e.j \in JobIds /\ row[e.j].status = "running"
  BY DEF Typed, TypeOK, Exec, Tracked, ExecutionHoldsRow
<1>1. nextId \in Nat
  BY DEF Typed, TypeOK
<1>2. ASSUME NEW q \in Payloads, NEW h \in BOOLEAN, Insert(q, h)
      PROVE  /\ nextId <= nextId'
             /\ \A j \in JobIds : row[j].status # "absent" \/ j <= nextId
                                  => row'[j] = row[j]
  BY <1>1, <1>2 DEF Insert, Typed, TypeOK, Numbered
<1>3. ASSUME NEW q \in Payloads, EnqueueSqlite(q) \/ CommitPostgres(q)
      PROVE  UNCHANGED dead /\ Insert(q, q \in High) /\ (q \in High) \in BOOLEAN
  BY <1>3 DEF EnqueueSqlite, CommitPostgres
<1>4. ASSUME NEW r \in retry, RetryInsert(r)
      PROVE  UNCHANGED dead /\ Insert(r.letter.payload, TRUE) /\ r.letter.payload \in Payloads
  BY <1>4 DEF RetryInsert, Typed, TypeOK, DeadLetter
<1>5. ASSUME NEW j \in JobIds, PruneCompleted(j) \/ BecomeDue(j) \/ AgeBeat(j)
      PROVE  /\ UNCHANGED <<nextId, dead>>
             /\ \A i \in JobIds : /\ row[i].status = "absent" => row'[i].status = "absent"
                                  /\ row[i].status = "completed"
                                     => row'[i].status \in {"completed", "absent"}
  BY <1>5 DEF PruneCompleted, BecomeDue, AgeBeat, Typed, TypeOK, Row
<1>6. ASSUME NEW w \in Workers, NEW j \in JobIds, Claim(w, j)
      PROVE  /\ UNCHANGED <<nextId, dead>>
             /\ \A i \in JobIds : row[i].status # "queued" => row'[i] = row[i]
  BY <1>6 DEF Claim, Eligible, DueRows, Typed, TypeOK
<1>7. ASSUME NEW w \in Workers, Reap(w) \/ Heartbeat(w)
      PROVE  /\ UNCHANGED <<nextId, dead>>
             /\ \A i \in JobIds : row[i].status # "running" => row'[i] = row[i]
  BY <1>7 DEF Reap, PutBack, Stuck, Heartbeat
<1>8. ASSUME NEW e \in execs,
             Complete(e) \/ Requeue(e) \/ Bury(e) \/ BuryInsert(e) \/ BuryDelete(e)
      PROVE  /\ UNCHANGED nextId
             /\ \A i \in JobIds : row[i].status # "running" => row'[i] = row[i]
  BY <1>0, <1>8 DEF Complete, Requeue, Bury, BuryInsert, BuryDelete, Typed, TypeOK
<1>9. ASSUME NEW e \in execs, ExecStep(e)
      PROVE  \/ UNCHANGED <<row, nextId, dead>>
             \/ (Complete(e) \/ Requeue(e) \/ BuryDelete(e)) /\ UNCHANGED dead
             \/ Bury(e) \/ BuryInsert(e)
  BY <1>9 DEF ExecStep, StartJob, HandlerReturns, HandlerThrows, HandlerAborts, Complete,
      CompleteRejects, FailRead, FailRejects, RowGone, Requeue, BuryRead, BuryDelete, queueVars
<1>10. ASSUME NEW e \in execs PROVE ~ClaimAnswerLost(e) /\ ~CompleteAnswerLost(e)
  BY DEF Reliable, ClaimAnswerLost, CompleteAnswerLost
<1>11. ASSUME NEW w \in Workers,
              \/ StartPoll(w) \/ EndClaims(w) \/ ClaimFails(w) \/ Boot(w) \/ Stop(w)
              \/ ShutdownTimeout(w) \/ Exit(w) \/ Crash(w)
       PROVE  UNCHANGED <<row, nextId, dead>>
  BY <1>11 DEF StartPoll, EndClaims, ClaimFails, Boot, Stop, ShutdownTimeout, Exit, Crash,
      Halts, queueVars
<1>12. ASSUME \/ \E d \in dead : RetryRead(d) \/ PruneDead(d)
              \/ \E r \in retry : RetryDelete(r) \/ RetryAbandon(r)
              \/ \E q \in Payloads : AdmitPostgres(q)
              \/ UNCHANGED vars
       PROVE  UNCHANGED <<row, nextId>> /\ dead' \subseteq dead
  BY <1>12 DEF RetryRead, PruneDead, RetryDelete, RetryAbandon, AdmitPostgres, vars, queueVars
<1>13. CASE \/ \E q \in Payloads : EnqueueSqlite(q) \/ CommitPostgres(q)
            \/ \E r \in retry : RetryInsert(r)
  BY <1>2, <1>3, <1>4, <1>13
<1>14. CASE \E e \in execs : ExecStep(e)
  BY <1>1, <1>8, <1>9, <1>14
<1> QED
  BY <1>1, <1>5, <1>6, <1>7, <1>10, <1>11, <1>12, <1>13, <1>14 DEF Next

\* A completed job is never put back in the queue or buried.
THEOREM CompletedStays == ASSUME Reliable PROVE Spec => CompletedIsFinal
<1>1. Typed /\ Tracked /\ [Next]_vars =>
         [\A j \in JobIds : row[j].status = "completed" =>
             /\ row'[j].status \in {"completed", "absent"}
             /\ \A d \in dead' \ dead : d.job # j]_vars
  <2> SUFFICES ASSUME Typed, Tracked, [Next]_vars, NEW j \in JobIds,
                      row[j].status = "completed"
               PROVE  /\ row'[j].status \in {"completed", "absent"}
                      /\ \A d \in dead' \ dead : d.job # j
    OBVIOUS
  <2>1. ASSUME NEW e \in execs, Bury(e) \/ BuryInsert(e)
        PROVE  \A d \in dead' \ dead : d.job # j
    BY <2>1 DEF Bury, BuryInsert, Tracked, ExecutionHoldsRow
  <2> QED
    BY <2>1, StepShape
<1> QED
  BY <1>1, TypedInvariant, TrackedInvariant, PTL DEF Spec, CompletedIsFinal

\* On SQLite a buried job's row is gone for good, and it has left one letter.
Lettered ==
    /\ OneLetterPerJob
    /\ \A d \in dead : d.job <= nextId /\ row[d.job].status = "absent"

\* the job of a letter has no row, so that it is not buried again
LEMMA LetteredInvariant == ASSUME Reliable, SingleWriter PROVE Spec => []Lettered
<1>1. Init => Lettered
  BY DEF Init, Lettered, OneLetterPerJob
<1>2. Typed /\ Tracked /\ Lettered /\ [Next]_vars => Lettered'
  <2> SUFFICES ASSUME Typed, Tracked, Lettered, [Next]_vars PROVE Lettered'
    OBVIOUS
  <2>1. nextId \in Nat /\ nextId' \in Nat /\ \A d \in dead : d.job \in JobIds
    <3>1. Typed'
      BY TypedStep
    <3> QED
      BY <3>1 DEF Typed, TypeOK, DeadLetter
  <2>2. \A d \in dead : d.job <= nextId' /\ row'[d.job].status = "absent"
    <3>1. /\ nextId <= nextId'
          /\ \A j \in JobIds : row[j].status = "absent" /\ j <= nextId
                               => row'[j].status = "absent"
      BY StepShape
    <3> QED
      BY <2>1, <3>1 DEF Lettered, JobIds
  <2>3. CASE dead' \subseteq dead
    BY <2>2, <2>3 DEF Lettered, OneLetterPerJob
  <2>4. ASSUME NEW e \in execs, Bury(e) PROVE Lettered'
    <3>1. e.j \in JobIds /\ e.j <= nextId /\ row[e.j].status = "running"
      BY DEF Typed, TypeOK, Numbered, Exec, Tracked, ExecutionHoldsRow
    <3>2. \A d \in dead' : d \in dead \/
             d = [job |-> e.j, payload |-> row[e.j].payload, by |-> e.n]
      BY <2>4 DEF Bury
    <3>3. \A d \in dead : d.job # e.j
      BY <3>1 DEF Lettered
    <3>4. row'[e.j].status = "absent" /\ UNCHANGED nextId
      BY <2>4, <3>1 DEF Bury, Typed, TypeOK, Row
    <3> QED
      BY <2>2, <3>1, <3>2, <3>3, <3>4 DEF Lettered, OneLetterPerJob
  <2> QED
    BY <2>3, <2>4, StepShape, SingleWriter DEF BuryInsert
<1> QED
  BY <1>1, <1>2, TypedInvariant, TrackedInvariant, PTL DEF Spec

\* A job leaves one dead letter at most, where a burial is one transaction.
THEOREM BuriedOnce == ASSUME Reliable, SingleWriter PROVE Spec => []OneLetterPerJob
<1>1. Lettered => OneLetterPerJob
  BY DEF Lettered
<1> QED
  BY <1>1, LetteredInvariant, PTL

-----------------------------------------------------------------------------
(* No payload is lost, whatever is unreliable *)

\* the letters an operator's retry is about to delete
Doomed == {r.letter : r \in {s \in retry : s.at = "inserted"}}

\* p is settled, waits or runs in a row with an id above i, or is in a dead letter
\* that nobody is about to delete
Held(p, i) ==
    \/ p \in settled
    \/ \E j \in Pending : j > i /\ row[j].payload = p
    \/ \E d \in dead \ Doomed : d.payload = p

\* A letter is named by its job and the attempt that buried it: no execution is
\* left that could write it once more. An operator's retry that has inserted its
\* job may delete its letter.
Named ==
    /\ \A e \in execs : e.n <= row[e.j].attempts
    /\ \A e, f \in execs : e.j = f.j /\ e.n = f.n => e = f
    /\ \A d \in dead : d.by <= row[d.job].attempts /\ d.job <= nextId
    /\ \A r \in retry : r.letter.by <= row[r.letter.job].attempts /\ r.letter.job <= nextId
    /\ \A e \in execs, d \in dead :
          e.at # "deleting" => ~(d.job = e.j /\ d.by = e.n)
    /\ \A e \in execs, r \in retry :
          e.at # "deleting" => ~(r.letter.job = e.j /\ r.letter.by = e.n)
    /\ \A r, s \in retry : r = s

\* the rows and executions of a step: attempts of handed-out ids only grow, and
\* an execution that appears is the attempt its row is at
LEMMA NamedStep ==
    ASSUME Typed, Named, [Next]_vars
    PROVE  Named'
<1>0. /\ nextId \in Nat
      /\ \A e \in execs : e \in Exec /\ e.j \in JobIds /\ e.n \in Nat /\ e.j <= nextId
      /\ \A d \in dead : d \in DeadLetter /\ d.job \in JobIds /\ d.by \in Nat
      /\ \A r \in retry : r.letter \in DeadLetter /\ r.letter.job \in JobIds
                          /\ r.letter.by \in Nat
      /\ \A j \in JobIds : row[j].attempts \in Nat
  BY JobQueueAssumption DEF Typed, TypeOK, Numbered, Exec, DeadLetter, JobIds, Row
<1>1. ASSUME UNCHANGED <<nextId, execs>>, dead' \subseteq dead, retry' \subseteq retry,
             \A j \in JobIds : row'[j].attempts = row[j].attempts
      PROVE  Named'
  BY <1>0, <1>1 DEF Named
<1>2. ASSUME NEW q \in Payloads, NEW h \in BOOLEAN, Insert(q, h), UNCHANGED <<execs, dead>>,
             \A r \in retry' : \E s \in retry : r.letter = s.letter,
             \A r, s \in retry' : r = s
      PROVE  Named'
  <2>1. nextId' = nextId + 1 /\ \A j \in JobIds : j <= nextId => row'[j] = row[j]
    BY <1>0, <1>2 DEF Insert, Typed, TypeOK
  <2>2. \A j \in JobIds : j <= nextId => /\ j <= nextId'
                                         /\ row'[j].attempts = row[j].attempts
    BY <1>0, <2>1 DEF JobIds
  <2>3. \A e \in execs' : e.n <= row'[e.j].attempts
    BY <1>0, <1>2, <2>2 DEF Named
  <2>4. \A d \in dead' : d.by <= row'[d.job].attempts /\ d.job <= nextId'
    BY <1>0, <1>2, <2>2 DEF Named
  <2>5. \A r \in retry' : /\ r.letter.by <= row'[r.letter.job].attempts
                          /\ r.letter.job <= nextId'
    BY <1>0, <1>2, <2>2 DEF Named
  <2> QED
    BY <1>2, <2>3, <2>4, <2>5 DEF Named
<1>3. ASSUME NEW q \in Payloads, EnqueueSqlite(q) \/ CommitPostgres(q) PROVE Named'
  <2>1. Insert(q, q \in High) /\ (q \in High) \in BOOLEAN /\ UNCHANGED <<execs, dead, retry>>
    BY <1>3 DEF EnqueueSqlite, CommitPostgres
  <2> QED
    BY <1>2, <2>1 DEF Named
<1>4. ASSUME NEW d \in dead, RetryRead(d) PROVE Named'
  BY <1>0, <1>4 DEF RetryRead, Named
<1>5. ASSUME NEW r \in retry, RetryInsert(r) PROVE Named'
  <2>1. /\ Insert(r.letter.payload, TRUE) /\ UNCHANGED <<execs, dead>>
        /\ r.letter.payload \in Payloads
        /\ [r EXCEPT !.at = "inserted"].letter = r.letter
        /\ retry' = {[r EXCEPT !.at = "inserted"]}
    BY <1>5 DEF RetryInsert, Typed, TypeOK, DeadLetter
  <2> QED
    BY <1>2, <2>1
<1>6. ASSUME \/ \E d \in dead : PruneDead(d)
             \/ \E r \in retry : RetryDelete(r) \/ RetryAbandon(r)
             \/ \E q \in Payloads : AdmitPostgres(q)
             \/ UNCHANGED vars
      PROVE  Named'
  <2>1. UNCHANGED <<row, nextId, execs>> /\ dead' \subseteq dead /\ retry' \subseteq retry
    BY <1>6 DEF PruneDead, RetryDelete, RetryAbandon, AdmitPostgres, vars, queueVars
  <2> QED
    BY <1>1, <2>1
<1>7. ASSUME NEW j \in JobIds, PruneCompleted(j) \/ BecomeDue(j) \/ AgeBeat(j) PROVE Named'
  <2>1. \A i \in JobIds : row'[i].attempts = row[i].attempts
    BY <1>7 DEF PruneCompleted, BecomeDue, AgeBeat, Typed, TypeOK, Row
  <2> QED
    BY <1>1, <1>7, <2>1 DEF PruneCompleted, BecomeDue, AgeBeat
<1>8. ASSUME NEW w \in Workers, NEW j \in JobIds, Claim(w, j) PROVE Named'
  <2> DEFINE c == [w |-> w, j |-> j, n |-> row[j].attempts + 1, at |-> "claimed"]
  <2>1. execs' = execs \cup {c} /\ UNCHANGED <<nextId, dead, retry>>
    BY <1>8 DEF Claim
  <2>2. row'[j].attempts = row[j].attempts + 1 /\ \A i \in JobIds \ {j} : row'[i] = row[i]
    BY <1>8 DEF Claim, Typed, TypeOK, Row
  <2>3. j <= nextId
    BY <1>8 DEF Claim, Eligible, DueRows, Typed, Numbered
  <2>4. \A i \in JobIds : row'[i].attempts \in Nat /\ row[i].attempts <= row'[i].attempts
    BY <1>0, <2>2
  <2>5. /\ c.j = j /\ c.n = row[j].attempts + 1
        /\ \A e \in execs : e.j = j => e.n < c.n
        /\ \A d \in dead : d.job = j => d.by < c.n
        /\ \A r \in retry : r.letter.job = j => r.letter.by < c.n
    BY <1>0 DEF Named
  <2> HIDE DEF c
  <2>6. \A e \in execs' : e.n <= row'[e.j].attempts
    BY <1>0, <2>1, <2>2, <2>4, <2>5 DEF Named
  <2>7. \A e, f \in execs' : e.j = f.j /\ e.n = f.n => e = f
    BY <1>0, <2>1, <2>5 DEF Named
  <2>8. \A d \in dead' : d.by <= row'[d.job].attempts /\ d.job <= nextId'
    BY <1>0, <2>1, <2>4 DEF Named
  <2>9. \A r \in retry' : /\ r.letter.by <= row'[r.letter.job].attempts
                          /\ r.letter.job <= nextId'
    BY <1>0, <2>1, <2>4 DEF Named
  <2>10. \A e \in execs', d \in dead' :
            e.at # "deleting" => ~(d.job = e.j /\ d.by = e.n)
    BY <1>0, <2>1, <2>5 DEF Named
  <2>11. \A e \in execs', r \in retry' :
            e.at # "deleting" => ~(r.letter.job = e.j /\ r.letter.by = e.n)
    BY <1>0, <2>1, <2>5 DEF Named
  <2> QED
    BY <2>1, <2>6, <2>7, <2>8, <2>9, <2>10, <2>11 DEF Named
<1>9. ASSUME NEW w \in Workers, Reap(w) \/ Heartbeat(w) PROVE Named'
  <2>1. \A i \in JobIds : row'[i].attempts = row[i].attempts
    <3>1. CASE Reap(w)
      BY <3>1 DEF Reap, PutBack, Stuck, Typed, TypeOK, Row
    <3>2. CASE Heartbeat(w)
      BY <3>2 DEF Heartbeat, Typed, TypeOK, Row
    <3> QED
      BY <1>9, <3>1, <3>2
  <2> QED
    BY <1>1, <1>9, <2>1 DEF Reap, PutBack, Stuck, Heartbeat
<1>10. ASSUME NEW w \in Workers,
              \/ StartPoll(w) \/ EndClaims(w) \/ ClaimFails(w) \/ Boot(w) \/ Stop(w)
              \/ ShutdownTimeout(w)
       PROVE  Named'
  BY <1>1, <1>10 DEF StartPoll, EndClaims, ClaimFails, Boot, Stop, ShutdownTimeout, queueVars
<1>11. ASSUME NEW w \in Workers, Halts(w) PROVE Named'
  BY <1>0, <1>11 DEF Halts, queueVars, Named
<1>12. ASSUME NEW e \in execs, NEW from, NEW to, Moves(e, from, to), from # "deleting",
              UNCHANGED <<nextId, dead, retry>>,
              \A i \in JobIds : row'[i].attempts = row[i].attempts
       PROVE  Named'
  <2>1. /\ [e EXCEPT !.at = to].j = e.j
        /\ [e EXCEPT !.at = to].n = e.n
    BY <1>0 DEF Exec
  <2>2. \A f \in execs' : \E g \in execs : /\ f.j = g.j /\ f.n = g.n
                                           /\ \/ f = g /\ g # e
                                              \/ g = e /\ f = [e EXCEPT !.at = to]
    BY <1>12, <2>1 DEF Moves
  <2>3. e.at # "deleting"
    BY <1>12 DEF Moves
  <2> QED
    BY <1>0, <1>12, <2>1, <2>2, <2>3 DEF Named
<1>13. ASSUME NEW e \in execs, execs' \subseteq execs, UNCHANGED <<nextId, dead, retry>>,
              \A i \in JobIds : row'[i].attempts = row[i].attempts
       PROVE  Named'
  BY <1>0, <1>13 DEF Named
<1>14. ASSUME NEW e \in execs, \/ CompleteAnswerLost(e) \/ Complete(e) \/ Requeue(e)
                               \/ Bury(e) \/ BuryDelete(e)
       PROVE  \A i \in JobIds : row'[i].attempts = row[i].attempts
  BY <1>0, <1>14
  DEF CompleteAnswerLost, Complete, Requeue, Bury, BuryDelete, Typed, TypeOK, Row
<1>15. ASSUME NEW e \in execs, Bury(e) PROVE Named'
  <2>1. /\ execs' = execs \ {e} /\ UNCHANGED <<nextId, retry>>
        /\ dead' = dead \cup {[job |-> e.j, payload |-> row[e.j].payload, by |-> e.n]}
    BY <1>15 DEF Bury, Leaves
  <2> QED
    BY <1>0, <1>14, <1>15, <2>1 DEF Named
<1>16. ASSUME NEW e \in execs, BuryInsert(e) PROVE Named'
  <2> DEFINE f == [e EXCEPT !.at = "deleting"]
             l == [job |-> e.j, payload |-> row[e.j].payload, by |-> e.n]
  <2>1. f.j = e.j /\ f.n = e.n /\ f.at = "deleting" /\ l.job = e.j /\ l.by = e.n
    BY <1>0 DEF Exec
  <2>2. /\ execs' = (execs \ {e}) \cup {f} /\ UNCHANGED <<row, nextId, retry>>
        /\ dead' = dead \cup {l}
    BY <1>16 DEF BuryInsert, Moves
  <2> HIDE DEF f, l
  <2>3. \A g \in execs \ {e} : ~(g.j = e.j /\ g.n = e.n)
    BY DEF Named
  <2> QED
    BY <1>0, <2>1, <2>2, <2>3 DEF Named
<1>18. ASSUME NEW e \in execs, ExecStep(e) \/ ClaimAnswerLost(e) \/ CompleteAnswerLost(e)
       PROVE  Named'
  <2>1. CASE StartJob(e) \/ HandlerReturns(e) \/ HandlerThrows(e) \/ CompleteRejects(e)
             \/ FailRead(e) \/ BuryRead(e)
    BY <1>12, <2>1 DEF StartJob, HandlerReturns, HandlerThrows, CompleteRejects, FailRead,
       BuryRead, queueVars
  <2>2. CASE HandlerAborts(e) \/ FailRejects(e) \/ RowGone(e) \/ ClaimAnswerLost(e)
    BY <1>13, <2>2 DEF HandlerAborts, FailRejects, RowGone, ClaimAnswerLost, Leaves, queueVars
  <2>3. CASE Complete(e) \/ Requeue(e) \/ BuryDelete(e)
    BY <1>13, <1>14, <2>3 DEF Complete, Requeue, BuryDelete, Leaves
  <2>4. CASE CompleteAnswerLost(e)
    BY <1>12, <1>14, <2>4 DEF CompleteAnswerLost
  <2> QED
    BY <1>15, <1>16, <1>18, <2>1, <2>2, <2>3, <2>4 DEF ExecStep
<1> QED
  BY <1>3, <1>4, <1>5, <1>6, <1>7, <1>8, <1>9, <1>10, <1>11, <1>18
  DEF Next, Exit, Crash

\* Accepted payloads are held. An execution that has written its letter and is
\* about to delete its row leaves the payload held without that row: by its own
\* letter, or by a row with a higher id that a retry has made of it.
Kept ==
    /\ \A q \in accepted : Held(q, 0)
    /\ \A e \in execs : e.at = "deleting" => Held(row[e.j].payload, e.j)

\* what is held stays held
LEMMA HeldStep ==
    ASSUME Typed, Named, Kept, [Next]_vars, NEW q \in Payloads, NEW k \in 0 .. nextId,
           Held(q, k)
    PROVE  Held(q, k)'
<1>0. /\ \A e \in execs : e.j \in JobIds /\ e.j \in Nat
      /\ row' \in [JobIds -> Row] /\ Pending \subseteq JobIds
      /\ nextId \in Nat /\ k \in Nat /\ k <= nextId
      /\ \A j \in JobIds : j \in Nat
  BY TypedStep DEF Typed, TypeOK, Exec, Pending, JobIds
<1>1. ASSUME \A j \in JobIds : row[j].status \in {"queued", "running"} =>
                /\ row'[j].status \in {"queued", "running"}
                /\ row'[j].payload = row[j].payload,
             settled \subseteq settled', dead \ Doomed \subseteq dead' \ Doomed'
      PROVE  Held(q, k)'
  BY <1>1 DEF Held, Pending
<1>2. ASSUME NEW p \in Payloads, NEW h \in BOOLEAN, Insert(p, h),
             UNCHANGED <<dead, settled, retry>>
      PROVE  Held(q, k)'
  <2>1. \A j \in JobIds : row[j].status # "absent" => row'[j] = row[j]
    BY <1>2 DEF Insert, Typed, TypeOK, Numbered
  <2> QED
    BY <1>1, <1>2, <2>1 DEF Doomed
<1>3. ASSUME NEW p \in Payloads, EnqueueSqlite(p) \/ CommitPostgres(p) PROVE Held(q, k)'
  <2>1. Insert(p, p \in High) /\ (p \in High) \in BOOLEAN /\ UNCHANGED <<dead, settled, retry>>
    BY <1>3 DEF EnqueueSqlite, CommitPostgres
  <2> QED
    BY <1>2, <2>1
<1>4. ASSUME NEW r \in retry, RetryInsert(r) PROVE Held(q, k)'
  <2>1. /\ Insert(r.letter.payload, TRUE) /\ r.letter.payload \in Payloads
        /\ UNCHANGED <<dead, settled>>
    BY <1>4 DEF RetryInsert, Typed, TypeOK, DeadLetter
  <2>2. \A j \in JobIds : row[j].status # "absent" => row'[j] = row[j]
    <3>1. PICK p \in Payloads, h \in BOOLEAN : Insert(p, h)
      BY <2>1
    <3> QED
      BY <3>1 DEF Insert, Typed, TypeOK, Numbered
  <2>3. Doomed' \subseteq {r.letter}
    <3>1. [r EXCEPT !.at = "inserted"].letter = r.letter
      BY DEF Typed, TypeOK
    <3>2. retry' = {[r EXCEPT !.at = "inserted"]}
      BY <1>4 DEF RetryInsert
    <3> QED
      BY <3>1, <3>2 DEF Doomed
  <2>4. CASE q = r.letter.payload
    <3>1. nextId + 1 \in JobIds /\ nextId + 1 > k
      BY <1>0, <2>1, JobQueueAssumption DEF Insert, Typed, TypeOK, JobIds
    <3>2. row'[nextId + 1] = QueuedRow(q, TRUE)
      BY <2>1, <2>4, <3>1 DEF Insert, Typed, TypeOK
    <3> QED
      BY <3>1, <3>2 DEF Held, Pending, QueuedRow
  <2>5. CASE \E j \in Pending : j > k /\ row[j].payload = q
    BY <1>0, <2>2, <2>5 DEF Held, Pending
  <2>6. CASE q \in settled
    BY <2>1, <2>6 DEF Held
  <2>7. CASE q # r.letter.payload /\ \E d \in dead \ Doomed : d.payload = q
    BY <2>1, <2>3, <2>7 DEF Held
  <2> QED
    BY <2>4, <2>5, <2>6, <2>7 DEF Held
<1>5. ASSUME NEW d \in dead, PruneDead(d) PROVE Held(q, k)'
  BY <1>5 DEF PruneDead, Held, Pending, Doomed
<1>6. ASSUME NEW r \in retry, RetryDelete(r) PROVE Held(q, k)'
  <2>1. UNCHANGED <<row, settled>> /\ dead' = dead \ {r.letter} /\ r.letter \in Doomed
    BY <1>6 DEF RetryDelete, Doomed
  <2>2. Doomed' = {}
    BY <1>6 DEF RetryDelete, Doomed
  <2> QED
    BY <1>1, <2>1, <2>2
<1>7. ASSUME UNCHANGED <<row, dead, settled>>, Doomed' \subseteq Doomed PROVE Held(q, k)'
  BY <1>1, <1>7
<1>8. ASSUME NEW j \in JobIds, PruneCompleted(j) \/ BecomeDue(j) \/ AgeBeat(j)
      PROVE  Held(q, k)'
  <2>1. \A i \in JobIds : row[i].status \in {"queued", "running"} =>
           row'[i].status = row[i].status /\ row'[i].payload = row[i].payload
    BY <1>8 DEF PruneCompleted, BecomeDue, AgeBeat, Typed, TypeOK, Row
  <2> QED
    BY <1>1, <1>8, <2>1 DEF PruneCompleted, BecomeDue, AgeBeat, Doomed
<1>9. ASSUME NEW w \in Workers, NEW j \in JobIds, Claim(w, j) PROVE Held(q, k)'
  <2>1. \A i \in JobIds : row[i].status \in {"queued", "running"} =>
           row'[i].status \in {"queued", "running"} /\ row'[i].payload = row[i].payload
    BY <1>9 DEF Claim, Typed, TypeOK, Row
  <2> QED
    BY <1>1, <1>9, <2>1 DEF Claim, Doomed
<1>10. ASSUME NEW w \in Workers, Reap(w) \/ Heartbeat(w) PROVE Held(q, k)'
  <2>1. \A i \in JobIds : row[i].status \in {"queued", "running"} =>
           row'[i].status \in {"queued", "running"} /\ row'[i].payload = row[i].payload
    <3>1. CASE Reap(w)
      BY <3>1 DEF Reap, PutBack, Stuck, Typed, TypeOK, Row
    <3>2. CASE Heartbeat(w)
      BY <3>2 DEF Heartbeat, Typed, TypeOK, Row
    <3> QED
      BY <1>10, <3>1, <3>2
  <2> QED
    BY <1>1, <1>10, <2>1 DEF Reap, PutBack, Stuck, Heartbeat, Doomed
<1>11. ASSUME NEW e \in execs, Complete(e) \/ CompleteAnswerLost(e) PROVE Held(q, k)'
  <2>1. UNCHANGED <<dead, retry>> /\ settled \subseteq settled'
    BY <1>11 DEF Complete, CompleteAnswerLost
  <2>2. \A i \in JobIds : i # e.j => row'[i] = row[i]
    BY <1>0, <1>11 DEF Complete, CompleteAnswerLost, Typed, TypeOK
  <2>3. CASE \E i \in Pending : i # e.j /\ i > k /\ row[i].payload = q
    BY <1>0, <2>2, <2>3 DEF Held, Pending
  <2>4. CASE e.j \in Pending /\ row[e.j].payload = q
    <3>1. q \in settled'
      BY <1>11, <2>4 DEF Complete, CompleteAnswerLost, Pending
    <3> QED
      BY <3>1 DEF Held
  <2>5. CASE q \in settled \/ \E d \in dead \ Doomed : d.payload = q
    BY <2>1, <2>5 DEF Held, Doomed
  <2> QED
    BY <2>3, <2>4, <2>5 DEF Held
<1>12. ASSUME NEW e \in execs, Requeue(e) PROVE Held(q, k)'
  <2>1. \A i \in JobIds : row[i].status \in {"queued", "running"} =>
           row'[i].status \in {"queued", "running"} /\ row'[i].payload = row[i].payload
    BY <1>0, <1>12 DEF Requeue, Typed, TypeOK, Row
  <2> QED
    BY <1>1, <1>12, <2>1 DEF Requeue, Doomed
<1>13. ASSUME NEW e \in execs, Bury(e) PROVE Held(q, k)'
  <2> DEFINE l == [job |-> e.j, payload |-> row[e.j].payload, by |-> e.n]
  <2>1. dead' = dead \cup {l} /\ settled' = settled /\ retry' = retry /\ e.at # "deleting"
    BY <1>13 DEF Bury, Leaves
  <2>2. l \notin Doomed
    BY <2>1 DEF Named, Doomed
  <2>3. \A i \in JobIds : i # e.j => row'[i] = row[i]
    BY <1>0, <1>13 DEF Bury, Typed, TypeOK
  <2>4. CASE \E i \in Pending : i # e.j /\ i > k /\ row[i].payload = q
    BY <1>0, <2>3, <2>4 DEF Held, Pending
  <2>5. CASE row[e.j].payload = q
    BY <2>1, <2>2, <2>5 DEF Held, Doomed
  <2>6. CASE q \in settled \/ \E d \in dead \ Doomed : d.payload = q
    BY <2>1, <2>6 DEF Held, Doomed
  <2> QED
    BY <2>4, <2>5, <2>6 DEF Held
<1>14. ASSUME NEW e \in execs, BuryInsert(e) PROVE Held(q, k)'
  BY <1>1, <1>14 DEF BuryInsert, Doomed
<1>15. ASSUME NEW e \in execs, BuryDelete(e) PROVE Held(q, k)'
  <2>1. UNCHANGED <<dead, settled, retry>> /\ e.at = "deleting"
    BY <1>15 DEF BuryDelete, Leaves
  <2>2. \A i \in JobIds : i # e.j => row'[i] = row[i]
    BY <1>0, <1>15 DEF BuryDelete, Typed, TypeOK
  <2>3. CASE \E i \in Pending : i # e.j /\ i > k /\ row[i].payload = q
    BY <1>0, <2>2, <2>3 DEF Held, Pending
  <2>4. CASE q \in settled \/ \E d \in dead \ Doomed : d.payload = q
    BY <2>1, <2>4 DEF Held, Doomed
  <2>5. CASE e.j > k /\ row[e.j].payload = q
    <3>1. Held(q, e.j)
      BY <2>1, <2>5 DEF Kept
    <3>2. CASE \E i \in Pending : i > e.j /\ row[i].payload = q
      BY <1>0, <2>3, <2>5, <3>2
    <3> QED
      BY <2>4, <3>1, <3>2 DEF Held
  <2> QED
    BY <2>3, <2>4, <2>5 DEF Held
<1>16. ASSUME NEW e \in execs, ExecStep(e) \/ ClaimAnswerLost(e) PROVE Held(q, k)'
  BY <1>7, <1>11, <1>12, <1>13, <1>14, <1>15, <1>16
  DEF ExecStep, StartJob, HandlerReturns, HandlerThrows, HandlerAborts, CompleteRejects,
      FailRead, FailRejects, RowGone, BuryRead, ClaimAnswerLost, queueVars, Doomed
<1>17. ASSUME NEW w \in Workers,
              \/ StartPoll(w) \/ EndClaims(w) \/ ClaimFails(w) \/ Boot(w) \/ Stop(w)
              \/ ShutdownTimeout(w) \/ Exit(w) \/ Crash(w)
       PROVE  Held(q, k)'
  BY <1>7, <1>17 DEF StartPoll, EndClaims, ClaimFails, Boot, Stop, ShutdownTimeout, Exit,
     Crash, Halts, queueVars, Doomed
<1>18. ASSUME \/ \E d \in dead : RetryRead(d)
              \/ \E r \in retry : RetryAbandon(r)
              \/ \E p \in Payloads : AdmitPostgres(p)
              \/ UNCHANGED vars
       PROVE  Held(q, k)'
  BY <1>7, <1>18 DEF RetryRead, RetryAbandon, AdmitPostgres, vars, queueVars, Doomed
<1> QED
  BY <1>3, <1>4, <1>5, <1>6, <1>8, <1>9, <1>10, <1>11, <1>16, <1>17, <1>18 DEF Next

\* an accepted payload that was not accepted before is in the row just inserted
LEMMA NewlyAccepted ==
    ASSUME Typed, [Next]_vars, NEW q \in accepted' \ accepted
    PROVE  Held(q, 0)'
<1>1. PICK p \in Payloads : EnqueueSqlite(p) \/ CommitPostgres(p)
  BY DEF Next, vars, queueVars, AdmitPostgres, RetryRead, PruneDead, RetryInsert,
     RetryDelete, RetryAbandon, PruneCompleted, BecomeDue, AgeBeat, Claim, StartPoll,
     EndClaims, ClaimFails, Reap, Heartbeat, Boot, Stop, ShutdownTimeout, Exit, Crash,
     Halts, ExecStep, StartJob, HandlerReturns, HandlerThrows, HandlerAborts, Complete,
     CompleteRejects, FailRead, FailRejects, RowGone, Requeue, BuryRead, Bury, BuryInsert, BuryDelete,
     ClaimAnswerLost, CompleteAnswerLost
<1>2. q = p /\ Insert(p, p \in High)
  BY <1>1 DEF EnqueueSqlite, CommitPostgres
<1>3. nextId + 1 \in JobIds /\ row'[nextId + 1] = QueuedRow(p, p \in High)
  BY <1>2, JobQueueAssumption DEF Insert, Typed, TypeOK, JobIds
<1>4. nextId + 1 > 0
  BY DEF Typed, TypeOK
<1> QED
  BY <1>2, <1>3, <1>4 DEF Held, Pending, QueuedRow

\* an execution about to delete its row was so before, or has just written its
\* letter; the payload of its row is what it was
LEMMA AboutToDelete ==
    ASSUME Typed, Named, [Next]_vars, NEW e \in execs', e.at = "deleting"
    PROVE  \/ e \in execs /\ row'[e.j].payload = row[e.j].payload
           \/ Held(row[e.j].payload, e.j)'
<1>1. ASSUME NEW f \in execs, BuryInsert(f), e \notin execs PROVE Held(row[e.j].payload, e.j)'
  <2> DEFINE l == [job |-> f.j, payload |-> row[f.j].payload, by |-> f.n]
  <2>1. [f EXCEPT !.at = "deleting"].j = f.j /\ e.j = f.j
    BY <1>1 DEF BuryInsert, Moves, Typed, TypeOK, Exec
  <2>2. dead' = dead \cup {l} /\ UNCHANGED <<row, retry>> /\ f.at # "deleting"
    BY <1>1 DEF BuryInsert, Moves
  <2>3. l \notin Doomed'
    BY <2>2 DEF Named, Doomed
  <2> QED
    BY <2>1, <2>2, <2>3 DEF Held
<1>2. e \in execs \/ \E f \in execs : BuryInsert(f)
  <2>1. ASSUME NEW f \in execs, NEW from, NEW to \in Steps \ {"deleting"}, Moves(f, from, to)
        PROVE  e \in execs
    BY <2>1 DEF Moves, Typed, TypeOK, Exec
  <2>2. ASSUME NEW f \in execs, NEW from, Leaves(f, from) PROVE e \in execs
    BY <2>2 DEF Leaves
  <2>3. ASSUME NEW f \in execs, ExecStep(f) \/ ClaimAnswerLost(f) \/ CompleteAnswerLost(f)
        PROVE  e \in execs \/ BuryInsert(f)
    BY <2>1, <2>2, <2>3
    DEF ExecStep, StartJob, HandlerReturns, HandlerThrows, HandlerAborts, Complete,
        CompleteRejects, FailRead, FailRejects, RowGone, Requeue, BuryRead, Bury, BuryDelete,
        ClaimAnswerLost, CompleteAnswerLost, Steps
  <2>4. ASSUME NEW w \in Workers, NEW j \in JobIds, Claim(w, j) PROVE e \in execs
    BY <2>4 DEF Claim
  <2>5. ASSUME NEW w \in Workers, Halts(w) PROVE e \in execs
    BY <2>5 DEF Halts
  <2>6. \/ UNCHANGED execs
        \/ \E f \in execs : ExecStep(f) \/ ClaimAnswerLost(f) \/ CompleteAnswerLost(f)
        \/ \E w \in Workers, j \in JobIds : Claim(w, j)
        \/ \E w \in Workers : Halts(w)
    BY DEF Next, vars, EnqueueSqlite, CommitPostgres, AdmitPostgres, RetryRead, PruneDead,
       RetryInsert, RetryDelete, RetryAbandon, PruneCompleted, BecomeDue, AgeBeat, StartPoll,
       EndClaims, ClaimFails, Reap, Heartbeat, Boot, Stop, ShutdownTimeout, Exit, Crash
  <2> QED
    BY <2>3, <2>4, <2>5, <2>6
<1>3. ASSUME e \in execs PROVE row'[e.j].payload = row[e.j].payload
  <2>1. e.j \in JobIds /\ e.j <= nextId /\ nextId \in Nat
    BY <1>3 DEF Typed, TypeOK, Numbered, Exec
  <2>2. ASSUME NEW p \in Payloads, NEW h \in BOOLEAN, Insert(p, h)
        PROVE  row'[e.j] = row[e.j]
    BY <2>1, <2>2 DEF Insert, Typed, TypeOK
  <2>3. CASE \/ \E p \in Payloads : EnqueueSqlite(p) \/ CommitPostgres(p)
             \/ \E r \in retry : RetryInsert(r)
    <3>1. \A p \in Payloads : (p \in High) \in BOOLEAN
      OBVIOUS
    <3>2. \A r \in retry : r.letter.payload \in Payloads
      BY DEF Typed, TypeOK, DeadLetter
    <3>3. \E p \in Payloads, h \in BOOLEAN : Insert(p, h)
      BY <2>3, <3>1, <3>2 DEF EnqueueSqlite, CommitPostgres, RetryInsert
    <3> QED
      BY <2>2, <3>3
  <2>4. ASSUME NEW j \in JobIds, PruneCompleted(j) \/ BecomeDue(j) \/ AgeBeat(j)
        PROVE  \A i \in JobIds : row'[i].payload = row[i].payload
    BY <2>4 DEF PruneCompleted, BecomeDue, AgeBeat, Typed, TypeOK, Row
  <2>5. ASSUME NEW w \in Workers, NEW j \in JobIds, Claim(w, j)
        PROVE  \A i \in JobIds : row'[i].payload = row[i].payload
    BY <2>5 DEF Claim, Typed, TypeOK, Row
  <2>6. ASSUME NEW w \in Workers, Reap(w)
        PROVE  \A i \in JobIds : row'[i].payload = row[i].payload
    BY <2>6 DEF Reap, PutBack, Stuck, Typed, TypeOK, Row
  <2>7. ASSUME NEW w \in Workers, Heartbeat(w)
        PROVE  \A i \in JobIds : row'[i].payload = row[i].payload
    BY <2>7 DEF Heartbeat, Typed, TypeOK, Row
  <2>8. ASSUME NEW f \in execs, \/ Complete(f) \/ CompleteAnswerLost(f) \/ Requeue(f)
                                \/ Bury(f) \/ BuryDelete(f)
        PROVE  \A i \in JobIds : row'[i].payload = row[i].payload
    <3>1. f.j \in JobIds
      BY DEF Typed, TypeOK, Exec
    <3> QED
      BY <2>8, <3>1
      DEF Complete, CompleteAnswerLost, Requeue, Bury, BuryDelete, Typed, TypeOK, Row
  <2>9. \/ UNCHANGED row
        \/ \E p \in Payloads : EnqueueSqlite(p) \/ CommitPostgres(p)
        \/ \E r \in retry : RetryInsert(r)
        \/ \E j \in JobIds : PruneCompleted(j) \/ BecomeDue(j) \/ AgeBeat(j)
        \/ \E j \in JobIds, w \in Workers : Claim(w, j)
        \/ \E w \in Workers : Reap(w) \/ Heartbeat(w)
        \/ \E f \in execs : \/ Complete(f) \/ CompleteAnswerLost(f) \/ Requeue(f)
                            \/ Bury(f) \/ BuryDelete(f)
    BY DEF Next, vars, queueVars, AdmitPostgres, RetryRead, PruneDead, RetryDelete,
       RetryAbandon, StartPoll, EndClaims, ClaimFails, Boot, Stop, ShutdownTimeout, Exit,
       Crash, Halts, ExecStep, StartJob, HandlerReturns, HandlerThrows, HandlerAborts,
       CompleteRejects, FailRead, FailRejects, RowGone, BuryRead, BuryInsert, ClaimAnswerLost
  <2> QED
    BY <2>1, <2>3, <2>4, <2>5, <2>6, <2>7, <2>8, <2>9
<1> QED
  BY <1>1, <1>2, <1>3

\* No accepted payload is lost: it is settled, in the queue or in a dead letter,
\* through crashes, lost answers, double executions, abandoned retries and burials
\* in two statements.
THEOREM NothingIsLost == Spec => []NothingLost
<1>1. Init => Named /\ Kept
  BY DEF Init, Named, Kept
<1>2. Typed /\ Named /\ Kept /\ [Next]_vars => Kept'
  <2> SUFFICES ASSUME Typed, Named, Kept, [Next]_vars PROVE Kept'
    OBVIOUS
  <2>1. ASSUME NEW q \in accepted PROVE Held(q, 0)'
    <3>1. q \in Payloads /\ Held(q, 0) /\ 0 \in 0 .. nextId
      BY DEF Kept, Typed, TypeOK
    <3> QED
      BY <3>1, HeldStep
  <2>2. ASSUME NEW e \in execs', e.at = "deleting" PROVE Held(row[e.j].payload, e.j)'
    <3>1. CASE e \in execs /\ row'[e.j].payload = row[e.j].payload
      <4>1. row[e.j].payload \in Payloads /\ e.j \in 0 .. nextId
        BY <3>1 DEF Typed, TypeOK, Numbered, Exec, JobIds
      <4>2. PICK q \in Payloads : q = row[e.j].payload
        BY <4>1
      <4>3. Held(q, e.j)
        BY <2>2, <3>1, <4>2 DEF Kept, Held
      <4>4. Held(q, e.j)'
        BY <4>1, <4>3, HeldStep
      <4>5. q = row'[e.j].payload
        BY <3>1, <4>2
      <4> QED
        BY <4>4, <4>5 DEF Held
    <3> QED
      BY <2>2, <3>1, AboutToDelete
  <2> QED
    BY <2>1, <2>2, NewlyAccepted DEF Kept
<1>3. Typed /\ Named /\ [Next]_vars => Named'
  BY NamedStep
<1>4. Kept => NothingLost
  BY DEF Kept, Held, NothingLost
<1> QED
  BY <1>1, <1>2, <1>3, <1>4, TypedInvariant, PTL DEF Spec

-----------------------------------------------------------------------------
(* Slots *)

\* A worker never has more active jobs, and claims still to make, than slots.
THEOREM SlotsAreRespected == Spec => []WithinConcurrency
<1>1. Init => WithinConcurrency
  BY FS_EmptySet, JobQueueAssumption DEF Init, WithinConcurrency
<1>2. Typed /\ WithinConcurrency /\ [Next]_vars => WithinConcurrency'
  <2> SUFFICES ASSUME Typed, WithinConcurrency, [Next]_vars, NEW w \in Workers
               PROVE  (Cardinality(active[w]) + slots[w] <= Concurrency)'
    BY DEF WithinConcurrency
  <2>0. /\ IsFiniteSet(active[w]) /\ Cardinality(active[w]) \in Nat
        /\ slots[w] \in Nat /\ Concurrency \in Nat
        /\ Cardinality(active[w]) + slots[w] <= Concurrency
    BY CardinalityOfActive, JobQueueAssumption DEF Typed, TypeOK, WithinConcurrency
  <2>1. CASE active'[w] = active[w] /\ slots'[w] = slots[w]
    BY <2>0, <2>1
  <2>2. ASSUME NEW v \in Workers, StartPoll(v) \/ EndClaims(v) \/ ClaimFails(v)
        PROVE  (Cardinality(active[w]) + slots[w] <= Concurrency)'
    BY <2>0, <2>2 DEF StartPoll, EndClaims, ClaimFails, Typed, TypeOK
  <2>3. ASSUME NEW v \in Workers, Halts(v)
        PROVE  (Cardinality(active[w]) + slots[w] <= Concurrency)'
    BY <2>0, <2>3, FS_EmptySet DEF Halts, Typed, TypeOK
  <2>4. ASSUME NEW e \in execs, StartJob(e)
        PROVE  (Cardinality(active[w]) + slots[w] <= Concurrency)'
    <3>1. CASE e.w # w
      BY <2>1, <2>4, <3>1 DEF StartJob, Typed, TypeOK
    <3>2. CASE e.w = w
      <4>1. active'[w] = active[w] \cup {e.j} /\ slots'[w] = slots[w] - 1
        BY <2>4, <3>2 DEF StartJob, Typed, TypeOK
      <4>2. Cardinality(active[w] \cup {e.j}) <= Cardinality(active[w]) + 1
            /\ Cardinality(active[w] \cup {e.j}) \in Nat
        BY <2>0, NeighbouringCardinalities
      <4> QED
        BY <2>0, <4>1, <4>2
    <3> QED
      BY <3>1, <3>2
  <2>5. ASSUME NEW e \in execs, NEW from, Leaves(e, from), slots' = slots
        PROVE  (Cardinality(active[w]) + slots[w] <= Concurrency)'
    <3>1. active'[w] = active[w] \/ active'[w] = active[w] \ {e.j}
      BY <2>5 DEF Leaves, Typed, TypeOK
    <3>2. Cardinality(active[w] \ {e.j}) <= Cardinality(active[w])
          /\ Cardinality(active[w] \ {e.j}) \in Nat
      BY <2>0, NeighbouringCardinalities
    <3>3. CASE active'[w] = active[w]
      BY <2>0, <2>5, <3>3
    <3>4. CASE active'[w] = active[w] \ {e.j}
      BY <2>0, <2>5, <3>2, <3>4
    <3> QED
      BY <3>1, <3>3, <3>4
  <2>6. ASSUME NEW e \in execs, ClaimAnswerLost(e)
        PROVE  (Cardinality(active[w]) + slots[w] <= Concurrency)'
    BY <2>0, <2>6 DEF ClaimAnswerLost, Typed, TypeOK
  <2>7. ASSUME NEW e \in execs, ExecStep(e)
        PROVE  (Cardinality(active[w]) + slots[w] <= Concurrency)'
    BY <2>1, <2>4, <2>5, <2>7
    DEF ExecStep, HandlerReturns, HandlerThrows, HandlerAborts, Complete, CompleteRejects,
        FailRead, FailRejects, RowGone, Requeue, BuryRead, Bury, BuryInsert, BuryDelete, procVars
  <2>8. CASE UNCHANGED <<slots, active>>
    BY <2>1, <2>8
  <2>9. ASSUME NEW v \in Workers,
               \/ Reap(v) \/ Heartbeat(v) \/ Boot(v) \/ Stop(v) \/ ShutdownTimeout(v)
               \/ \E j \in JobIds : Claim(v, j)
        PROVE  UNCHANGED <<slots, active>>
    BY <2>9 DEF Reap, PutBack, Stuck, Heartbeat, Boot, Stop, ShutdownTimeout, Claim, procVars
  <2>10. ASSUME \/ \E q \in Payloads : EnqueueSqlite(q) \/ AdmitPostgres(q) \/ CommitPostgres(q)
                \/ \E d \in dead : RetryRead(d) \/ PruneDead(d)
                \/ \E r \in retry : RetryInsert(r) \/ RetryDelete(r) \/ RetryAbandon(r)
                \/ \E j \in JobIds : PruneCompleted(j) \/ BecomeDue(j) \/ AgeBeat(j)
                \/ \E e \in execs : CompleteAnswerLost(e)
                \/ UNCHANGED vars
         PROVE  UNCHANGED <<slots, active>>
    BY <2>10 DEF EnqueueSqlite, AdmitPostgres, CommitPostgres, RetryRead, PruneDead,
       RetryInsert, RetryDelete, RetryAbandon, PruneCompleted, BecomeDue, AgeBeat,
       CompleteAnswerLost, vars, procVars
  <2> QED
    BY <2>2, <2>3, <2>6, <2>7, <2>8, <2>9, <2>10 DEF Next, Exit, Crash
<1> QED
  BY <1>1, <1>2, TypedInvariant, PTL DEF Spec

-----------------------------------------------------------------------------
(* The Map of active jobs *)

\* Each job in a worker's Map is one that an execution of that worker has started.
\* With Tracked, which says the converse, this makes MapMatchesExecutions.
Started(w, j) == \E e \in execs : e.w = w /\ e.j = j /\ e.at # "claimed"
Listed == \A w \in Workers : \A j \in active[w] : Started(w, j)

\* whoever has started a job and does not leave with this step still has it
LEMMA ListedKept ==
    ASSUME Listed, UNCHANGED execs, \A w \in Workers : active'[w] \subseteq active[w]
    PROVE  Listed'
BY DEF Listed, Started

LEMMA ListedMoves ==
    ASSUME Typed, Listed, NEW e \in execs, NEW from, NEW to, to # "claimed", Moves(e, from, to),
           \A w \in Workers : active'[w] \subseteq active[w] \cup (IF w = e.w THEN {e.j} ELSE {})
    PROVE  Listed'
<1> DEFINE m == [e EXCEPT !.at = to]
<1>1. m \in execs' /\ m.w = e.w /\ m.j = e.j /\ m.at = to /\ \A f \in execs : f # e => f \in execs'
  BY DEF Typed, TypeOK, Exec, Moves
<1> SUFFICES ASSUME NEW w \in Workers, NEW j \in active'[w]
             PROVE  \E f \in execs' : f.w = w /\ f.j = j /\ f.at # "claimed"
  BY DEF Listed, Started
<1> HIDE DEF m
<1>2. CASE w = e.w /\ j = e.j
  BY <1>1, <1>2
<1>3. CASE ~(w = e.w /\ j = e.j)
  <2>1. PICK f \in execs : f.w = w /\ f.j = j /\ f.at # "claimed"
    BY <1>3 DEF Listed, Started
  <2> QED
    BY <1>1, <1>3, <2>1
<1> QED
  BY <1>2, <1>3

LEMMA ListedLeaves ==
    ASSUME Typed, Listed, NEW e \in execs, NEW from, Leaves(e, from)
    PROVE  Listed'
<1>1. execs' = execs \ {e} /\ active' = [active EXCEPT ![e.w] = @ \ {e.j}] /\ e.w \in Workers
  BY DEF Leaves, Typed, TypeOK, Exec
<1> SUFFICES ASSUME NEW w \in Workers, NEW j \in active'[w]
             PROVE  \E f \in execs' : f.w = w /\ f.j = j /\ f.at # "claimed"
  BY DEF Listed, Started
<1>2. j \in active[w] /\ ~(w = e.w /\ j = e.j)
  BY <1>1 DEF Typed, TypeOK
<1>3. PICK f \in execs : f.w = w /\ f.j = j /\ f.at # "claimed"
  BY <1>2 DEF Listed, Started
<1> QED
  BY <1>1, <1>2, <1>3

\* no execution that was started goes
LEMMA ListedFramed ==
    ASSUME Listed, UNCHANGED active, \A e \in execs : e.at # "claimed" => e \in execs'
    PROVE  Listed'
BY DEF Listed, Started

LEMMA ListedStep ==
    ASSUME Typed, Listed, [Next]_vars
    PROVE  Listed'
<1>1. ASSUME NEW w \in Workers, Halts(w)
      PROVE  Listed'
  <2> SUFFICES ASSUME NEW v \in Workers, NEW j \in active'[v]
               PROVE  \E f \in execs' : f.w = v /\ f.j = j /\ f.at # "claimed"
    BY DEF Listed, Started
  <2>1. v # w /\ j \in active[v]
    BY <1>1 DEF Halts, Typed, TypeOK
  <2>2. PICK f \in execs : f.w = v /\ f.j = j /\ f.at # "claimed"
    BY <2>1 DEF Listed, Started
  <2> QED
    BY <1>1, <2>1, <2>2 DEF Halts
<1>2. ASSUME NEW e \in execs, ExecStep(e)
      PROVE  Listed'
  <2>1. e.w \in Workers /\ active \in [Workers -> SUBSET JobIds]
    BY DEF Typed, TypeOK, Exec
  <2>2. CASE StartJob(e)
    <3>1. \A w \in Workers : active'[w] \subseteq active[w] \cup (IF w = e.w THEN {e.j} ELSE {})
      BY <2>1, <2>2 DEF StartJob
    <3> QED
      BY <2>2, <3>1, ListedMoves DEF StartJob
  <2>3. ASSUME NEW from, NEW to \in Steps \ {"claimed"}, Moves(e, from, to), UNCHANGED active
        PROVE  Listed'
    BY <2>3, ListedMoves
  <2>4. CASE HandlerReturns(e) \/ HandlerThrows(e) \/ CompleteRejects(e) \/ FailRead(e) \/ BuryRead(e) \/ BuryInsert(e)
    BY <2>3, <2>4 DEF HandlerReturns, HandlerThrows, CompleteRejects, FailRead, BuryRead, BuryInsert, procVars, Steps
  <2>5. CASE \/ HandlerAborts(e) \/ FailRejects(e) \/ Complete(e) \/ RowGone(e) \/ Requeue(e)
              \/ Bury(e) \/ BuryDelete(e)
    BY <2>5, ListedLeaves DEF HandlerAborts, FailRejects, Complete, RowGone, Requeue, Bury, BuryDelete
  <2> QED
    BY <1>2, <2>2, <2>4, <2>5 DEF ExecStep
<1>3. ASSUME NEW e \in execs, CompleteAnswerLost(e)
      PROVE  Listed'
  BY <1>3, ListedMoves DEF CompleteAnswerLost, procVars
<1>4. ASSUME NEW e \in execs, ClaimAnswerLost(e)
      PROVE  Listed'
  BY <1>4, ListedFramed DEF ClaimAnswerLost
<1>5. ASSUME NEW w \in Workers,
             \/ StartPoll(w) \/ EndClaims(w) \/ ClaimFails(w) \/ Reap(w) \/ Heartbeat(w)
             \/ Boot(w) \/ Stop(w) \/ ShutdownTimeout(w) \/ \E j \in JobIds : Claim(w, j)
      PROVE  Listed'
  BY <1>5, ListedFramed DEF StartPoll, EndClaims, ClaimFails, Reap, Heartbeat, Boot, Stop, ShutdownTimeout,
     Claim, procVars
<1>6. ASSUME \/ \E q \in Payloads : EnqueueSqlite(q) \/ AdmitPostgres(q) \/ CommitPostgres(q)
             \/ \E d \in dead : RetryRead(d) \/ PruneDead(d)
             \/ \E r \in retry : RetryInsert(r) \/ RetryDelete(r) \/ RetryAbandon(r)
             \/ \E j \in JobIds : PruneCompleted(j) \/ BecomeDue(j) \/ AgeBeat(j)
             \/ UNCHANGED vars
      PROVE  Listed'
  <2>1. UNCHANGED <<execs, active>>
    BY <1>6 DEF EnqueueSqlite, AdmitPostgres, CommitPostgres, RetryRead, PruneDead, RetryInsert, RetryDelete,
       RetryAbandon, PruneCompleted, BecomeDue, AgeBeat, vars, procVars
  <2> QED
    BY <2>1, ListedKept
<1> QED
  BY <1>1, <1>2, <1>3, <1>4, <1>5, <1>6 DEF Next, Exit, Crash

\* While heartbeats land and answers arrive, the Map from which a worker counts its free
\* slots, sends its heartbeats and ends its shutdown lists exactly what it runs
\* (#activeJobs, whose entries a second execution of a job would overwrite and delete).
THEOREM MapIsExact == ASSUME Reliable PROVE Spec => []MapMatchesExecutions
<1>1. Init => Listed
  BY DEF Init, Listed
<1>2. Typed /\ Listed /\ [Next]_vars => Listed'
  BY ListedStep
<1>3. Typed /\ Tracked /\ Listed => MapMatchesExecutions
  <2> SUFFICES ASSUME Typed, Tracked, Listed, NEW w \in Workers
               PROVE  active[w] = {e.j : e \in {f \in execs : f.w = w /\ f.at # "claimed"}}
    BY DEF MapMatchesExecutions
  <2>1. \A j \in active[w] : \E e \in execs : e.w = w /\ e.at # "claimed" /\ e.j = j
    BY DEF Listed, Started
  <2>2. \A e \in execs : e.w = w /\ e.at # "claimed" => e.j \in active[w]
    BY DEF Tracked
  <2> QED
    BY <2>1, <2>2
<1> QED
  BY <1>1, <1>2, <1>3, TypedInvariant, TrackedInvariant, PTL DEF Spec

-----------------------------------------------------------------------------
(* The queue implements JobLedger *)

Holders(j) == {e.w : e \in {f \in execs : f.j = j}}

\* a step seen through the mapping, job by job
LEMMA LedgerStutter ==
    ASSUME \A j \in JobIds : LedgerState(j)' = LedgerState(j),
           \A j \in JobIds : Holders(j)' = Holders(j)
    PROVE  UNCHANGED Ledger!ledger
  BY DEF Ledger!ledger, Holders

\* what the holder writes last is the ledger's Settle
LEMMA LedgerSettle ==
    ASSUME Typed, Tracked, NEW e \in execs, NEW outcome \in {"open", "done", "buried"},
           execs' = execs \ {e},
           LedgerState(e.j)' = outcome,
           \A j \in JobIds \ {e.j} : LedgerState(j)' = LedgerState(j)
    PROVE  Ledger!Next
<1>1. e.j \in JobIds /\ e.w \in Workers /\ row[e.j].status = "running"
  BY DEF Typed, TypeOK, Exec, Tracked, ExecutionHoldsRow
<1>2. LedgerState(e.j) = "taken"
  BY <1>1 DEF LedgerState
<1>3. Holders(e.j) # {} /\ Holders(e.j)' = {}
  BY <1>1 DEF Holders, Tracked, SingleExecution
<1>4. \A j \in JobIds \ {e.j} : Holders(j)' = Holders(j)
  BY DEF Holders
<1>5. [j \in JobIds |-> LedgerState(j)]'
         = [[j \in JobIds |-> LedgerState(j)] EXCEPT ![e.j] = outcome]
  BY <1>1
<1>6. [j \in JobIds |-> Holders(j)]' = [[j \in JobIds |-> Holders(j)] EXCEPT ![e.j] = {}]
  BY <1>1, <1>3, <1>4
<1>7. Ledger!Settle(e.j, outcome)
  BY <1>1, <1>2, <1>3, <1>5, <1>6 DEF Ledger!Settle, Holders
<1> QED
  BY <1>1, <1>7 DEF Ledger!Next, Ledger!States

\* a job pruned or retried from the dead letters is forgotten
LEMMA LedgerForget ==
    ASSUME NEW i \in JobIds, LedgerState(i) \in {"done", "buried"},
           LedgerState(i)' = "gone",
           \A j \in JobIds \ {i} : LedgerState(j)' = LedgerState(j),
           UNCHANGED execs
    PROVE  Ledger!Next
<1>1. [j \in JobIds |-> LedgerState(j)]'
         = [[j \in JobIds |-> LedgerState(j)] EXCEPT ![i] = "gone"]
  OBVIOUS
<1>2. Ledger!Forget(i)
  BY <1>1 DEF Ledger!Forget
<1> QED
  BY <1>2 DEF Ledger!Next

\* an insert is the ledger's Submit
LEMMA LedgerSubmit ==
    ASSUME Typed, Lettered, NEW p \in Payloads, NEW h \in BOOLEAN, Insert(p, h),
           UNCHANGED <<execs, dead>>
    PROVE  Ledger!Next
<1>1. PICK k \in JobIds : k = nextId + 1 /\ nextId \in Nat
  BY JobQueueAssumption DEF Insert, Typed, TypeOK, JobIds
<1>2. /\ row'[k] = QueuedRow(p, h) /\ nextId' = nextId + 1
      /\ \A j \in JobIds \ {k} : row'[j] = row[j]
  BY <1>1 DEF Insert, Typed, TypeOK
<1>3. LedgerState(k) = "new"
  <2>1. row[k].status = "absent" /\ k > nextId
    BY <1>1 DEF Typed, Numbered, JobIds
  <2> QED
    BY <2>1 DEF LedgerState
<1>4. LedgerState(k)' = "open"
  BY <1>2 DEF LedgerState, QueuedRow
<1>5. ASSUME NEW j \in JobIds \ {k} PROVE LedgerState(j)' = LedgerState(j)
  <2>1. j > nextId' <=> j > nextId
    BY <1>1, <1>2 DEF JobIds
  <2> QED
    BY <1>2, <2>1 DEF LedgerState
<1>6. [j \in JobIds |-> LedgerState(j)]'
         = [[j \in JobIds |-> LedgerState(j)] EXCEPT ![k] = "open"]
  BY <1>4, <1>5
<1>7. Ledger!Submit(k)
  BY <1>3, <1>6 DEF Ledger!Submit
<1> QED
  BY <1>7 DEF Ledger!Next

\* a claim is the ledger's Take
LEMMA LedgerTake ==
    ASSUME Typed, Tracked, NEW w \in Workers, NEW i \in JobIds, Claim(w, i)
    PROVE  Ledger!Next
<1>1. /\ row[i].status = "queued" /\ UNCHANGED <<nextId, dead>>
      /\ execs' = execs \cup {[w |-> w, j |-> i, n |-> row[i].attempts + 1, at |-> "claimed"]}
      /\ row'[i].status = "running"
      /\ \A j \in JobIds \ {i} : row'[j] = row[j]
  BY DEF Claim, Eligible, DueRows, Typed, TypeOK, Row
<1>2. LedgerState(i) = "open" /\ LedgerState(i)' = "taken"
  BY <1>1 DEF LedgerState
<1>3. \A j \in JobIds \ {i} : LedgerState(j)' = LedgerState(j)
  BY <1>1 DEF LedgerState
<1>4. \A f \in execs : f.j # i
  BY <1>1 DEF Tracked, ExecutionHoldsRow
<1>5. /\ Holders(i)' = {w}
      /\ \A j \in JobIds \ {i} : Holders(j)' = Holders(j)
  <2> DEFINE c == [w |-> w, j |-> i, n |-> row[i].attempts + 1, at |-> "claimed"]
  <2>1. execs' = execs \cup {c} /\ c.w = w /\ c.j = i
    BY <1>1
  <2> HIDE DEF c
  <2>2. {f \in execs' : f.j = i} = {c}
    BY <1>4, <2>1
  <2>3. \A j \in JobIds \ {i} : {f \in execs' : f.j = j} = {f \in execs : f.j = j}
    BY <2>1
  <2> QED
    BY <2>1, <2>2, <2>3 DEF Holders
<1>6. [j \in JobIds |-> LedgerState(j)]'
         = [[j \in JobIds |-> LedgerState(j)] EXCEPT ![i] = "taken"]
  BY <1>2, <1>3
<1>7. [j \in JobIds |-> Holders(j)]' = [[j \in JobIds |-> Holders(j)] EXCEPT ![i] = {w}]
  BY <1>5
<1>8. Ledger!Take(i, w)
  BY <1>2, <1>6, <1>7 DEF Ledger!Take, Holders
<1> QED
  BY <1>8 DEF Ledger!Next

\* requeueStuck recovers only jobs whose holder is lost
LEMMA LedgerRecover ==
    ASSUME Typed, Tracked, NEW w \in Workers, Reap(w)
    PROVE  Ledger!Next
<1> DEFINE S == {j \in JobIds : row[j].status = "running" /\ row[j].beat = "stale"}
<1>1. \A j \in S : LedgerState(j) = "taken"
  BY DEF LedgerState
<1>2. \A j \in S : Holders(j) = {}
  BY DEF Tracked, Holders
<1>3. /\ UNCHANGED <<nextId, dead, execs>>
      /\ \A j \in S : row'[j].status = "queued"
      /\ \A j \in JobIds \ S : row'[j] = row[j]
  BY DEF Reap, PutBack, Stuck, Typed, TypeOK, Row
<1>4. \A j \in S : LedgerState(j)' = "open"
  BY <1>3 DEF LedgerState
<1>5. \A j \in JobIds \ S : LedgerState(j)' = LedgerState(j)
  BY <1>3 DEF LedgerState
<1> HIDE DEF S
<1>6. [j \in JobIds |-> LedgerState(j)]'
         = [j \in JobIds |-> IF j \in S THEN "open" ELSE [i \in JobIds |-> LedgerState(i)][j]]
  BY <1>4, <1>5
<1>7. S \in SUBSET JobIds
  BY DEF S
<1>8. Ledger!Recover(S)
  BY <1>1, <1>2, <1>3, <1>6, <1>7 DEF Ledger!Recover, Holders
<1> QED
  BY <1>7, <1>8 DEF Ledger!Next

\* a crash or an exit loses the holders of the process's jobs
LEMMA LedgerLose ==
    ASSUME Typed, NEW S \in SUBSET JobIds, UNCHANGED <<row, nextId, dead>>,
           \A j \in JobIds : Holders(j)' = IF j \in S THEN {} ELSE Holders(j)
    PROVE  Ledger!Next
<1>1. \A j \in JobIds : LedgerState(j)' = LedgerState(j)
  BY DEF LedgerState
<1>2. [j \in JobIds |-> Holders(j)]'
         = [j \in JobIds |-> IF j \in S THEN {} ELSE [i \in JobIds |-> Holders(i)][j]]
  OBVIOUS
<1>3. Ledger!Lose(S)
  BY <1>1, <1>2 DEF Ledger!Lose, Holders
<1> QED
  BY <1>3 DEF Ledger!Next

\* On SQLite, while heartbeats land and answers arrive, the job queue implements
\* JobLedger: each of its steps is a step of the ledger or changes nothing there.
THEOREM QueueImplementsLedger == ASSUME Reliable, SingleWriter PROVE Spec => ImplementsLedger
<1>1. Init => Ledger!Init
  <2> SUFFICES ASSUME Init PROVE Ledger!Init
    OBVIOUS
  <2>1. \A j \in JobIds : LedgerState(j) = "new" /\ Holders(j) = {}
    BY DEF Init, LedgerState, Holders, NoRow, JobIds
  <2> QED
    BY <2>1 DEF Ledger!Init, Holders
<1>2. Typed /\ Tracked /\ Lettered /\ [Next]_vars => [Ledger!Next]_(Ledger!ledger)
  <2> SUFFICES ASSUME Typed, Tracked, Lettered, [Next]_vars
               PROVE  Ledger!Next \/ UNCHANGED Ledger!ledger
    OBVIOUS
  <2>0. \A e \in execs : /\ e.j \in JobIds /\ e.w \in Workers /\ e \in Exec
                         /\ row[e.j].status = "running" /\ e.j <= nextId
    BY DEF Typed, TypeOK, Numbered, Exec, Tracked, ExecutionHoldsRow
  <2>1. ASSUME \A j \in JobIds : row'[j].status = row[j].status,
               \A j \in JobIds : Holders(j)' = Holders(j),
               UNCHANGED <<nextId, dead>>
        PROVE  UNCHANGED Ledger!ledger
    <3>1. \A j \in JobIds : LedgerState(j)' = LedgerState(j)
      BY <2>1 DEF LedgerState
    <3> QED
      BY <2>1, <3>1, LedgerStutter
  <2>2. ASSUME UNCHANGED <<row, nextId, dead, execs>> PROVE UNCHANGED Ledger!ledger
    BY <2>1, <2>2 DEF Holders
  <2>3. ASSUME NEW q \in Payloads, EnqueueSqlite(q) \/ CommitPostgres(q) PROVE Ledger!Next
    <3>1. Insert(q, q \in High) /\ (q \in High) \in BOOLEAN /\ UNCHANGED <<execs, dead>>
      BY <2>3 DEF EnqueueSqlite, CommitPostgres
    <3> QED
      BY <3>1, LedgerSubmit
  <2>4. ASSUME NEW r \in retry, RetryInsert(r) PROVE Ledger!Next
    <3>1. /\ Insert(r.letter.payload, TRUE) /\ UNCHANGED <<execs, dead>>
          /\ r.letter.payload \in Payloads
      BY <2>4 DEF RetryInsert, Typed, TypeOK, DeadLetter
    <3> QED
      BY <3>1, LedgerSubmit
  <2>5. ASSUME NEW d \in dead, dead' = dead \ {d}, UNCHANGED <<row, nextId, execs>>
        PROVE  Ledger!Next
    <3>1. d.job \in JobIds /\ row[d.job].status = "absent" /\ ~(d.job > nextId)
      BY DEF Lettered, Typed, TypeOK, DeadLetter, JobIds
    <3>2. \A j \in JobIds : (\E c \in dead' : c.job = j) <=> j # d.job /\ \E c \in dead : c.job = j
      BY <2>5 DEF Lettered, OneLetterPerJob
    <3>3. LedgerState(d.job) = "buried" /\ LedgerState(d.job)' = "gone"
      BY <2>5, <3>1, <3>2 DEF LedgerState
    <3>4. \A j \in JobIds \ {d.job} : LedgerState(j)' = LedgerState(j)
      BY <2>5, <3>2 DEF LedgerState
    <3> QED
      BY <2>5, <3>1, <3>3, <3>4, LedgerForget
  <2>6. ASSUME NEW r \in retry, RetryDelete(r)
        PROVE  Ledger!Next \/ UNCHANGED Ledger!ledger
    <3>1. dead' = dead \ {r.letter} /\ UNCHANGED <<row, nextId, execs>>
      BY <2>6 DEF RetryDelete
    <3>2. CASE r.letter \in dead
      BY <2>5, <3>1, <3>2
    <3>3. CASE r.letter \notin dead
      BY <2>2, <3>1, <3>3
    <3> QED
      BY <3>2, <3>3
  <2>7. ASSUME NEW i \in JobIds, PruneCompleted(i) PROVE Ledger!Next
    <3>1. /\ row[i].status = "completed" /\ row'[i].status = "absent"
          /\ \A j \in JobIds \ {i} : row'[j] = row[j]
          /\ UNCHANGED <<nextId, dead, execs>>
      BY <2>7 DEF PruneCompleted, Typed, TypeOK, Row
    <3>2. ~(i > nextId) /\ ~\E d \in dead : d.job = i
      BY <3>1 DEF Typed, TypeOK, Numbered, Lettered, JobIds
    <3>3. LedgerState(i) = "done" /\ LedgerState(i)' = "gone"
      BY <3>1, <3>2 DEF LedgerState
    <3>4. \A j \in JobIds \ {i} : LedgerState(j)' = LedgerState(j)
      BY <3>1 DEF LedgerState
    <3> QED
      BY <3>1, <3>3, <3>4, LedgerForget
  <2>8. ASSUME NEW j \in JobIds, BecomeDue(j) \/ AgeBeat(j) PROVE UNCHANGED Ledger!ledger
    <3>1. \A i \in JobIds : row'[i].status = row[i].status
      BY <2>8 DEF BecomeDue, AgeBeat, Typed, TypeOK, Row
    <3> QED
      BY <2>1, <2>8, <3>1 DEF BecomeDue, AgeBeat, Holders
  <2>9. ASSUME NEW w \in Workers, Heartbeat(w) PROVE UNCHANGED Ledger!ledger
    <3>1. \A i \in JobIds : row'[i].status = row[i].status
      BY <2>9 DEF Heartbeat, Typed, TypeOK, Row
    <3> QED
      BY <2>1, <2>9, <3>1 DEF Heartbeat, Holders
  <2>10. ASSUME NEW w \in Workers, Halts(w) PROVE Ledger!Next
    <3> DEFINE S == {j \in JobIds : \E e \in execs : e.w = w /\ e.j = j}
    <3>1. \A j \in JobIds : Holders(j)' = IF j \in S THEN {} ELSE Holders(j)
      BY <2>10 DEF Halts, Holders, Tracked, SingleExecution
    <3>2. UNCHANGED <<row, nextId, dead>> /\ S \in SUBSET JobIds
      BY <2>10 DEF Halts, queueVars
    <3> HIDE DEF S
    <3> QED
      BY <3>1, <3>2, LedgerLose
  <2>11. ASSUME NEW e \in execs, HandlerAborts(e) \/ FailRejects(e) PROVE Ledger!Next
    <3>1. execs' = execs \ {e} /\ UNCHANGED <<row, nextId, dead>>
      BY <2>11 DEF HandlerAborts, FailRejects, Leaves, queueVars
    <3>2. \A j \in JobIds : Holders(j)' = IF j \in {e.j} THEN {} ELSE Holders(j)
      BY <3>1 DEF Holders, Tracked, SingleExecution
    <3>3. {e.j} \in SUBSET JobIds
      BY <2>0
    <3> QED
      BY <3>1, <3>2, <3>3, LedgerLose
  <2>12. ASSUME NEW e \in execs, NEW from, NEW to, Moves(e, from, to),
                UNCHANGED <<row, nextId, dead>>
         PROVE  UNCHANGED Ledger!ledger
    <3>1. [e EXCEPT !.at = to].j = e.j /\ [e EXCEPT !.at = to].w = e.w
      BY <2>0 DEF Exec
    <3>2. execs' = (execs \ {e}) \cup {[e EXCEPT !.at = to]}
      BY <2>12 DEF Moves
    <3>3. \A j \in JobIds : Holders(j)' = Holders(j)
      BY <3>1, <3>2 DEF Holders
    <3> QED
      BY <2>1, <2>12, <3>3
  <2>13. ASSUME NEW e \in execs, Complete(e) PROVE Ledger!Next
    <3>1. /\ execs' = execs \ {e} /\ row'[e.j].status = "completed"
          /\ \A j \in JobIds \ {e.j} : row'[j] = row[j]
          /\ UNCHANGED <<nextId, dead>>
      BY <2>0, <2>13 DEF Complete, Leaves, Typed, TypeOK, Row
    <3>2. /\ LedgerState(e.j)' = "done"
          /\ \A j \in JobIds \ {e.j} : LedgerState(j)' = LedgerState(j)
      BY <3>1 DEF LedgerState
    <3> QED
      BY <3>1, <3>2, LedgerSettle
  <2>14. ASSUME NEW e \in execs, Requeue(e) PROVE Ledger!Next
    <3>1. /\ execs' = execs \ {e} /\ row'[e.j].status = "queued"
          /\ \A j \in JobIds \ {e.j} : row'[j] = row[j]
          /\ UNCHANGED <<nextId, dead>>
      BY <2>0, <2>14 DEF Requeue, Leaves, Typed, TypeOK, Row
    <3>2. /\ LedgerState(e.j)' = "open"
          /\ \A j \in JobIds \ {e.j} : LedgerState(j)' = LedgerState(j)
      BY <3>1 DEF LedgerState
    <3> QED
      BY <3>1, <3>2, LedgerSettle
  <2>15. ASSUME NEW e \in execs, Bury(e) PROVE Ledger!Next
    <3> DEFINE l == [job |-> e.j, payload |-> row[e.j].payload, by |-> e.n]
    <3>1. /\ execs' = execs \ {e} /\ row'[e.j].status = "absent"
          /\ \A j \in JobIds \ {e.j} : row'[j] = row[j]
          /\ dead' = dead \cup {l} /\ l.job = e.j
          /\ UNCHANGED nextId
      BY <2>0, <2>15 DEF Bury, Leaves, Typed, TypeOK, Row
    <3> HIDE DEF l
    <3>2. ~(e.j > nextId)
      BY <2>0 DEF Typed, TypeOK, JobIds
    <3>3. /\ LedgerState(e.j)' = "buried"
          /\ \A j \in JobIds \ {e.j} : LedgerState(j)' = LedgerState(j)
      BY <3>1, <3>2 DEF LedgerState
    <3> QED
      BY <3>1, <3>3, LedgerSettle
  <2>16. ASSUME NEW e \in execs, ExecStep(e) PROVE Ledger!Next \/ UNCHANGED Ledger!ledger
    <3>1. CASE StartJob(e) \/ HandlerReturns(e) \/ HandlerThrows(e) \/ CompleteRejects(e)
               \/ FailRead(e) \/ BuryRead(e)
      BY <2>12, <3>1 DEF StartJob, HandlerReturns, HandlerThrows, CompleteRejects, FailRead,
         BuryRead, queueVars
    <3>2. ~RowGone(e)
      BY <2>0 DEF RowGone
    <3>3. ~BuryInsert(e) /\ ~BuryDelete(e)
      BY SingleWriter DEF BuryInsert, BuryDelete
    <3> QED
      BY <2>11, <2>13, <2>14, <2>15, <2>16, <3>1, <3>2, <3>3 DEF ExecStep
  <2>17. ASSUME NEW w \in Workers,
                \/ StartPoll(w) \/ EndClaims(w) \/ ClaimFails(w) \/ Boot(w) \/ Stop(w)
                \/ ShutdownTimeout(w)
         PROVE  UNCHANGED Ledger!ledger
    BY <2>2, <2>17 DEF StartPoll, EndClaims, ClaimFails, Boot, Stop, ShutdownTimeout, queueVars
  <2>18. ASSUME \/ \E q \in Payloads : AdmitPostgres(q)
                \/ \E d \in dead : RetryRead(d)
                \/ \E r \in retry : RetryAbandon(r)
                \/ UNCHANGED vars
         PROVE  UNCHANGED Ledger!ledger
    BY <2>2, <2>18 DEF AdmitPostgres, RetryRead, RetryAbandon, vars, queueVars
  <2>19. ASSUME NEW d \in dead, PruneDead(d) PROVE Ledger!Next
    BY <2>5, <2>19 DEF PruneDead
  <2>20. ASSUME NEW w \in Workers, Reap(w) \/ \E j \in JobIds : Claim(w, j) PROVE Ledger!Next
    BY <2>20, LedgerRecover, LedgerTake
  <2>21. ASSUME NEW e \in execs PROVE ~ClaimAnswerLost(e) /\ ~CompleteAnswerLost(e)
    BY DEF Reliable, ClaimAnswerLost, CompleteAnswerLost
  <2> QED
    BY <2>3, <2>4, <2>6, <2>7, <2>8, <2>9, <2>10, <2>16, <2>17, <2>18, <2>19, <2>20, <2>21
    DEF Next, Exit, Crash
<1> QED
  BY <1>1, <1>2, TypedInvariant, TrackedInvariant, LetteredInvariant, PTL
  DEF Spec, ImplementsLedger, Ledger!Spec
=============================================================================
