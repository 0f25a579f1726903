------------------------- MODULE PostAcquisitionProofs -------------------------
(***************************************************************************)
(* What holds of the post-acquisition pipeline for any number of runs and  *)
(* steps.  The runs in flight form a chain: the head has begun or may      *)
(* begin, each other waits for the one before it, and #running names the   *)
(* last.  So one run at a time works on the journal.                       *)
(***************************************************************************)
EXTENDS PostAcquisition, TLAPS

Places  == InFlight \cup {"idle", "queued", "rejected", "over", "dead"}
Answers == {"none", "done", "skipped", "failed"}
RunType == [at: Places, step: 1 .. NSteps + 1, job: BOOLEAN, after: Runs \cup {NoRun}, answer: Answers]

\* The n runs in flight, in the order they were called.
Chained(n, q) ==
    /\ \A i, j \in 1 .. n : q[i] = q[j] => i = j
    /\ \A i \in 1 .. n : run[q[i]].at \in InFlight
    /\ \A r \in Runs : run[r].at \in InFlight => \E i \in 1 .. n : q[i] = r
    /\ \A i \in 1 .. n : run[q[i]].after = IF i = 1 THEN NoRun ELSE q[i - 1]
    /\ \A i \in 2 .. n : run[q[i]].at = "waiting"
    /\ tail = IF n = 0 THEN NoRun ELSE q[n]

Chain == \E n \in Nat : \E q \in [1 .. n -> Runs] : Chained(n, q)

Working == {"start", "execute", "answer", "catch"}

\* A run works on a step that is not done, or that it has done without hearing so.
Good(at, step, answer, statuses) ==
    step \in Steps /\ (statuses[step] # "done" \/ (at = "catch" /\ answer = "done"))

Sound == \A r \in Runs : run[r].at \in Working => Good(run[r].at, run[r].step, run[r].answer, journal)

\* The inductive invariant.
Inv == TypeOK /\ Chain /\ Sound

\* The types, in a form that names the record.
LEMMA Types ==
    TypeOK <=> /\ journal \in [Steps -> Statuses]
               /\ run \in [Runs -> RunType]
               /\ tail \in Runs \cup {NoRun}
               /\ resets \in 0 .. MaxResets /\ faults \in 0 .. MaxFaults
BY DEF TypeOK, RunType, Places, Answers

\* A run that has not been called waits for nobody's turn: it joins the chain at its end.
LEMMA EnterKeepsChain ==
    ASSUME TypeOK, Chain, NEW r \in Runs, run[r].at \notin InFlight, Enter(r)
    PROVE  Chain'
<1>0. PICK n \in Nat : \E q \in [1 .. n -> Runs] : Chained(n, q)
  BY DEF Chain
<1>1. PICK q \in [1 .. n -> Runs] : Chained(n, q)
  BY <1>0
<1> DEFINE p == [i \in 1 .. n + 1 |-> IF i = n + 1 THEN r ELSE q[i]]
<1>2. p \in [1 .. n + 1 -> Runs]
  OBVIOUS
<1>3. \A i \in 1 .. n : p[i] = q[i] /\ q[i] \in Runs /\ q[i] # r
  BY <1>1 DEF Chained
<1>4. p[n + 1] = r /\ n + 1 \in 1 .. n + 1
  OBVIOUS
<1>5. run' = [run EXCEPT ![r].at = "waiting", ![r].after = tail] /\ tail' = r
  BY DEF Enter
<1>6. run \in [Runs -> RunType]
  BY Types
<1>7. \A x \in Runs : x # r => run'[x] = run[x]
  BY <1>5, <1>6
<1>8. run'[r].at = "waiting" /\ run'[r].after = tail
  BY <1>5, <1>6 DEF RunType
<1> HIDE DEF p
<1>9. \A i \in 1 .. n + 1 : i = n + 1 \/ i \in 1 .. n
  OBVIOUS
<1>10. \A i, j \in 1 .. n + 1 : p[i] = p[j] => i = j
  BY <1>1, <1>3, <1>4, <1>9 DEF Chained
<1>11. \A i \in 1 .. n + 1 : run'[p[i]].at \in InFlight
  BY <1>1, <1>3, <1>4, <1>7, <1>8, <1>9 DEF Chained, InFlight
<1>12. \A x \in Runs : run'[x].at \in InFlight => \E i \in 1 .. n + 1 : p[i] = x
  <2> SUFFICES ASSUME NEW x \in Runs, run'[x].at \in InFlight
               PROVE  \E i \in 1 .. n + 1 : p[i] = x
    OBVIOUS
  <2>1. CASE x = r
    BY <1>4, <2>1
  <2>2. CASE x # r
    <3>1. PICK i \in 1 .. n : q[i] = x
      BY <1>1, <1>7, <2>2 DEF Chained
    <3> QED
      BY <1>3, <3>1
  <2> QED
    BY <2>1, <2>2
<1>13. \A i \in 1 .. n + 1 : run'[p[i]].after = IF i = 1 THEN NoRun ELSE p[i - 1]
  <2>1. ASSUME NEW i \in 1 .. n PROVE run'[p[i]].after = IF i = 1 THEN NoRun ELSE p[i - 1]
    <3>1. i = 1 \/ i - 1 \in 1 .. n
      OBVIOUS
    <3> QED
      BY <1>1, <1>3, <1>7, <3>1 DEF Chained
  <2>2. run'[p[n + 1]].after = IF n + 1 = 1 THEN NoRun ELSE p[n]
    <3>1. n = 0 \/ n \in 1 .. n
      OBVIOUS
    <3> QED
      BY <1>1, <1>3, <1>4, <1>8, <3>1 DEF Chained
  <2> QED
    BY <1>9, <2>1, <2>2
<1>14. \A i \in 2 .. n + 1 : run'[p[i]].at = "waiting"
  <2>1. \A i \in 2 .. n + 1 : i = n + 1 \/ (i \in 2 .. n /\ i \in 1 .. n)
    OBVIOUS
  <2> QED
    BY <1>1, <1>3, <1>4, <1>7, <1>8, <2>1 DEF Chained
<1>15. n + 1 # 0 /\ tail' = p[n + 1]
  BY <1>4, <1>5
<1>16. n + 1 \in Nat
  OBVIOUS
<1>17. Chained(n + 1, p)'
  BY <1>10, <1>11, <1>12, <1>13, <1>14, <1>15 DEF Chained
<1> QED
  BY <1>2, <1>16, <1>17 DEF Chain

\* The one run that is not waiting, or waits for nobody, is the head of the chain.
LEMMA HeadOfChain ==
    ASSUME NEW n \in Nat, NEW q \in [1 .. n -> Runs], Chained(n, q),
           NoRun \notin Runs,
           NEW r \in Runs, run[r].at \in InFlight, run[r].at # "waiting" \/ run[r].after = NoRun
    PROVE  n >= 1 /\ q[1] = r
<1>1. PICK i \in 1 .. n : q[i] = r
  BY DEF Chained
<1>2. ASSUME i # 1 PROVE FALSE
  <2>1. i \in 2 .. n /\ i - 1 \in 1 .. n
    BY <1>2
  <2>2. run[r].at = "waiting" /\ run[r].after = q[i - 1]
    BY <1>1, <1>2, <2>1 DEF Chained
  <2>3. q[i - 1] \in Runs
    BY <2>1
  <2> QED
    BY <2>2, <2>3
<1> QED
  BY <1>1, <1>2

\* The head settles and leaves the chain; the run behind it is the new head.
LEMMA SettleKeepsChain ==
    ASSUME TypeOK, Chain, NEW r \in Runs, run[r].at \in InFlight \ {"waiting"},
           NEW at \in {"over", "rejected"}, Settle(r, at)
    PROVE  Chain'
<1>0. PICK n \in Nat : \E q \in [1 .. n -> Runs] : Chained(n, q)
  BY DEF Chain
<1>1. PICK q \in [1 .. n -> Runs] : Chained(n, q)
  BY <1>0
<1>2. NoRun \notin Runs
  BY PostAcquisitionAssumption
<1>3. n >= 1 /\ q[1] = r
  BY <1>1, <1>2, HeadOfChain
<1> DEFINE m == n - 1
<1> DEFINE p == [i \in 1 .. m |-> q[i + 1]]
<1>4. /\ m \in Nat /\ p \in [1 .. m -> Runs]
      /\ \A i \in 1 .. m : i + 1 \in 2 .. n /\ i + 1 \in 1 .. n /\ p[i] = q[i + 1]
      /\ 1 \in 1 .. n
  BY <1>3
<1>5. n = m + 1
  BY <1>3
<1>6. run \in [Runs -> RunType] /\ Fresh \in RunType
  BY Types, PostAcquisitionAssumption DEF Fresh, RunType, Places, Answers
<1>7. run'[r].at = at
  BY <1>6 DEF Settle, RunType, Fresh
<1>8. \A x \in Runs : x # r =>
        /\ run'[x].at = run[x].at
        /\ run'[x].after = IF run[x].after = r THEN NoRun ELSE run[x].after
  BY <1>6 DEF Settle, RunType
<1>9. \A i \in 1 .. m : p[i] \in Runs /\ p[i] # r
  BY <1>1, <1>3, <1>4 DEF Chained
<1> HIDE DEF p, m
<1>10. \A i, j \in 1 .. m : p[i] = p[j] => i = j
  <2> SUFFICES ASSUME NEW i \in 1 .. m, NEW j \in 1 .. m, p[i] = p[j] PROVE i = j
    OBVIOUS
  <2>1. q[i + 1] = q[j + 1] /\ i + 1 \in 1 .. n /\ j + 1 \in 1 .. n
    BY <1>4
  <2>2. i + 1 = j + 1
    BY <1>1, <2>1 DEF Chained
  <2> QED
    BY <2>2
<1>11. \A i \in 1 .. m : run'[p[i]].at \in InFlight
  BY <1>1, <1>4, <1>8, <1>9 DEF Chained
<1>12. \A x \in Runs : run'[x].at \in InFlight => \E i \in 1 .. m : p[i] = x
  <2> SUFFICES ASSUME NEW x \in Runs, run'[x].at \in InFlight
               PROVE  \E i \in 1 .. m : p[i] = x
    OBVIOUS
  <2>1. x # r
    BY <1>7 DEF InFlight
  <2>2. PICK j \in 1 .. n : q[j] = x
    BY <1>1, <1>8, <2>1 DEF Chained
  <2>3. j # 1 /\ j - 1 \in 1 .. m /\ (j - 1) + 1 = j
    BY <1>3, <1>4, <1>5, <2>1, <2>2
  <2> QED
    BY <1>4, <2>2, <2>3
<1>13. \A i \in 1 .. m : run'[p[i]].after = IF i = 1 THEN NoRun ELSE p[i - 1]
  <2> SUFFICES ASSUME NEW i \in 1 .. m
               PROVE  run'[p[i]].after = IF i = 1 THEN NoRun ELSE p[i - 1]
    OBVIOUS
  <2>1. run[p[i]].after = q[i]
    <3>1. i + 1 # 1 /\ (i + 1) - 1 = i
      OBVIOUS
    <3>2. run[q[i + 1]].after = q[(i + 1) - 1]
      BY <1>1, <1>4, <3>1 DEF Chained
    <3> QED
      BY <1>4, <3>1, <3>2
  <2>2. CASE i = 1
    BY <1>3, <1>8, <1>9, <2>1, <2>2
  <2>3. CASE i # 1
    <3>1. i - 1 \in 1 .. m /\ (i - 1) + 1 = i /\ p[i - 1] = q[i]
      BY <1>4, <2>3
    <3> QED
      BY <1>8, <1>9, <2>1, <2>3, <3>1
  <2> QED
    BY <2>2, <2>3
<1>14. \A i \in 2 .. m : run'[p[i]].at = "waiting"
  <2> SUFFICES ASSUME NEW i \in 2 .. m PROVE run'[p[i]].at = "waiting"
    OBVIOUS
  <2>1. i \in 1 .. m
    OBVIOUS
  <2>2. run[q[i + 1]].at = "waiting"
    BY <1>1, <1>4, <2>1 DEF Chained
  <2> QED
    BY <1>4, <1>8, <1>9, <2>1, <2>2
<1>15. tail' = IF m = 0 THEN NoRun ELSE p[m]
  <2>1. tail = q[n] /\ tail' = IF tail = r THEN NoRun ELSE tail
    BY <1>1, <1>3 DEF Chained, Settle
  <2>2. CASE m = 0
    BY <1>3, <1>5, <2>1, <2>2
  <2>3. CASE m # 0
    <3>1. m \in 1 .. m /\ p[m] = q[n]
      BY <1>4, <1>5, <2>3
    <3> QED
      BY <1>9, <2>1, <2>3, <3>1
  <2> QED
    BY <2>2, <2>3
<1>16. Chained(m, p)'
  BY <1>10, <1>11, <1>12, <1>13, <1>14, <1>15 DEF Chained
<1> QED
  BY <1>4, <1>16 DEF Chain

\* A step of the head that leaves it in flight leaves the chain as it is.
LEMMA HeadKeepsChain ==
    ASSUME TypeOK, Chain, NEW r \in Runs,
           run[r].at \in InFlight, run[r].at # "waiting" \/ run[r].after = NoRun,
           run'[r].at \in InFlight, run'[r].after = run[r].after,
           \A x \in Runs : x # r => run'[x] = run[x], tail' = tail
    PROVE  Chain'
<1>0. PICK n \in Nat : \E q \in [1 .. n -> Runs] : Chained(n, q)
  BY DEF Chain
<1>1. PICK q \in [1 .. n -> Runs] : Chained(n, q)
  BY <1>0
<1>2. n >= 1 /\ q[1] = r
  BY <1>1, PostAcquisitionAssumption, HeadOfChain
<1>3. \A i \in 1 .. n : q[i] \in Runs /\ (i # 1 => q[i] # r)
  BY <1>1, <1>2 DEF Chained
<1>4. \A i \in 2 .. n : i \in 1 .. n /\ i # 1
  OBVIOUS
<1>5. \A i \in 1 .. n : run'[q[i]].at \in InFlight /\ run'[q[i]].after = run[q[i]].after
  BY <1>1, <1>2, <1>3 DEF Chained
<1>6. \A i \in 2 .. n : run'[q[i]].at = "waiting"
  BY <1>1, <1>3, <1>4 DEF Chained
<1>7. \A x \in Runs : run'[x].at \in InFlight => \E i \in 1 .. n : q[i] = x
  BY <1>1 DEF Chained
<1>8. Chained(n, q)'
  BY <1>1, <1>5, <1>6, <1>7 DEF Chained
<1> QED
  BY <1>8 DEF Chain

\* A step of a run that is not in flight, before and after, leaves the chain as it is.
LEMMA OtherKeepsChain ==
    ASSUME TypeOK, Chain, NEW r \in Runs, run[r].at \notin InFlight, run'[r].at \notin InFlight,
           \A x \in Runs : x # r => run'[x] = run[x], tail' = tail
    PROVE  Chain'
<1>0. PICK n \in Nat : \E q \in [1 .. n -> Runs] : Chained(n, q)
  BY DEF Chain
<1>1. PICK q \in [1 .. n -> Runs] : Chained(n, q)
  BY <1>0
<1>2. \A i \in 1 .. n : q[i] \in Runs /\ q[i] # r
  BY <1>1 DEF Chained
<1>3. \A i \in 2 .. n : i \in 1 .. n
  OBVIOUS
<1>4. Chained(n, q)'
  BY <1>1, <1>2, <1>3 DEF Chained
<1> QED
  BY <1>4 DEF Chain

\* Without a run in flight there is no chain.
LEMMA EmptyChain ==
    /\ (\A r \in Runs : run[r].at \notin InFlight) /\ tail = NoRun => Chain
    /\ (\A r \in Runs : run'[r].at \notin InFlight) /\ tail' = NoRun => Chain'
<1> DEFINE q == [i \in 1 .. 0 |-> NoRun]
<1>1. q \in [1 .. 0 -> Runs] /\ 0 \in Nat
  OBVIOUS
<1>2. (\A r \in Runs : run[r].at \notin InFlight) /\ tail = NoRun => Chained(0, q)
  BY DEF Chained
<1>3. (\A r \in Runs : run'[r].at \notin InFlight) /\ tail' = NoRun => Chained(0, q)'
  BY DEF Chained
<1> QED
  BY <1>1, <1>2, <1>3 DEF Chain

\* One run at a time has begun or may begin.
LEMMA OneAtWork ==
    ASSUME Chain, NEW r \in Runs, run[r].at \in InFlight, run[r].at # "waiting" \/ run[r].after = NoRun,
           NEW x \in Runs, run[x].at \in InFlight \ {"waiting"}
    PROVE  r = x
<1>0. PICK n \in Nat : \E q \in [1 .. n -> Runs] : Chained(n, q)
  BY DEF Chain
<1>1. PICK q \in [1 .. n -> Runs] : Chained(n, q)
  BY <1>0
<1> QED
  BY <1>1, PostAcquisitionAssumption, HeadOfChain

\* What a settled run leaves behind.
LEMMA Settles ==
    ASSUME TypeOK, NEW r \in Runs, NEW at \in {"over", "rejected"}, Settle(r, at)
    PROVE  /\ run' \in [Runs -> RunType] /\ tail' \in Runs \cup {NoRun}
           /\ run'[r].at = at
           /\ \A x \in Runs : x # r => run'[x].at = run[x].at /\ run'[x].step = run[x].step
<1>1. run \in [Runs -> RunType] /\ Fresh \in RunType /\ tail \in Runs \cup {NoRun}
  BY Types, PostAcquisitionAssumption DEF Fresh, RunType, Places, Answers
<1>2. at \in Places
  BY DEF Places
<1>3. run'[r] = [Fresh EXCEPT !.at = at, !.job = run[r].job]
  BY DEF Settle
<1>4. run'[r] \in RunType /\ run'[r].at = at
  BY <1>1, <1>2, <1>3 DEF RunType
<1>5. ASSUME NEW x \in Runs, x # r
      PROVE  run'[x] \in RunType /\ run'[x].at = run[x].at /\ run'[x].step = run[x].step
  <2>1. run'[x] = [run[x] EXCEPT !.after = IF @ = r THEN NoRun ELSE @]
    BY <1>5 DEF Settle
  <2> QED
    BY <1>1, <2>1 DEF RunType
<1>6. run' = [x \in Runs |-> run'[x]]
  BY DEF Settle
<1> QED
  BY <1>1, <1>4, <1>5, <1>6 DEF Settle

Books == journal' \in [Steps -> Statuses] /\ resets' \in 0 .. MaxResets /\ faults' \in 0 .. MaxFaults

\* A step of the head, whose record becomes v.
LEMMA HeadStep ==
    ASSUME Inv, NEW r \in Runs, NEW v \in RunType, run' = [run EXCEPT ![r] = v], tail' = tail, Books,
           run[r].at \in InFlight, run[r].at # "waiting" \/ run[r].after = NoRun,
           v.at \in InFlight \ {"waiting"}, v.after = run[r].after,
           v.at \in Working => Good(v.at, v.step, v.answer, journal')
    PROVE  Inv'
<1>1. run \in [Runs -> RunType] /\ tail \in Runs \cup {NoRun}
  BY Types DEF Inv
<1>2. run'[r] = v /\ run' \in [Runs -> RunType] /\ \A x \in Runs : x # r => run'[x] = run[x]
  BY <1>1
<1>3. TypeOK'
  BY <1>1, <1>2 DEF Books, TypeOK, RunType, Places, Answers
<1>4. Chain'
  BY <1>2, HeadKeepsChain DEF Inv
<1>5. \A x \in Runs : x # r => run[x].at \notin Working
  BY OneAtWork DEF Inv, Working, InFlight
<1>6. Sound'
  BY <1>2, <1>5 DEF Sound
<1> QED
  BY <1>3, <1>4, <1>6 DEF Inv

\* The head settles.
LEMMA SettleStep ==
    ASSUME Inv, NEW r \in Runs, run[r].at \in InFlight \ {"waiting"}, NEW at \in {"over", "rejected"},
           Settle(r, at), Books
    PROVE  Inv'
<1>1. TypeOK'
  BY Settles DEF Inv, Books, TypeOK, RunType, Places, Answers
<1>2. Chain'
  BY SettleKeepsChain DEF Inv
<1>3. \A x \in Runs : x # r => run[x].at \notin Working
  BY OneAtWork DEF Inv, Working, InFlight
<1>4. \A x \in Runs : run'[x].at \notin Working
  BY <1>3, Settles DEF Inv, Working
<1> QED
  BY <1>1, <1>2, <1>4 DEF Inv, Sound

\* A run is called.
LEMMA EnterStep ==
    ASSUME Inv, NEW r \in Runs, run[r].at \in {"idle", "queued"}, Enter(r), UNCHANGED <<journal, resets, faults>>
    PROVE  Inv'
<1>1. run \in [Runs -> RunType] /\ tail \in Runs \cup {NoRun}
  BY Types DEF Inv
<1>2. /\ run' \in [Runs -> RunType] /\ tail' \in Runs \cup {NoRun}
      /\ run'[r].at = "waiting" /\ \A x \in Runs : x # r => run'[x] = run[x]
  BY <1>1 DEF Enter, RunType, Places, InFlight
<1>3. TypeOK'
  BY <1>2 DEF Inv, TypeOK, RunType, Places, Answers
<1>4. Chain'
  BY EnterKeepsChain DEF Inv, InFlight
<1>5. Sound'
  BY <1>2 DEF Inv, Sound, Working
<1> QED
  BY <1>3, <1>4, <1>5 DEF Inv

\* A run that is not in flight becomes a job.
LEMMA QueueStep ==
    ASSUME Inv, NEW r \in Runs, run[r].at \in {"idle", "rejected"},
           run' = [run EXCEPT ![r].at = "queued"] \/ run' = [run EXCEPT ![r].at = "queued", ![r].job = TRUE],
           UNCHANGED <<journal, tail, resets, faults>>
    PROVE  Inv'
<1>1. run \in [Runs -> RunType] /\ tail \in Runs \cup {NoRun}
  BY Types DEF Inv
<1>2. /\ run' \in [Runs -> RunType]
      /\ run'[r].at = "queued" /\ \A x \in Runs : x # r => run'[x] = run[x]
  BY <1>1 DEF RunType, Places, InFlight
<1>3. TypeOK'
  BY <1>1, <1>2 DEF Inv, TypeOK, RunType, Places, Answers
<1>4. Chain'
  BY <1>2, OtherKeepsChain DEF Inv, InFlight
<1>5. Sound'
  BY <1>2 DEF Inv, Sound, Working
<1> QED
  BY <1>3, <1>4, <1>5 DEF Inv

LEMMA ResetStep ==
    ASSUME Inv, NEW some, Reset(some)
    PROVE  Inv'
<1>1. TypeOK'
  BY PostAcquisitionAssumption DEF Inv, TypeOK, Reset, Statuses
<1>2. Chain'
  BY DEF Inv, Reset, Chain, Chained
<1>3. \A s \in Steps : journal[s] # "done" => journal'[s] # "done"
  BY DEF Reset
<1>4. Sound'
  BY <1>3 DEF Inv, Sound, Good, Reset
<1> QED
  BY <1>1, <1>2, <1>4 DEF Inv

LEMMA CrashStep ==
    ASSUME Inv, Crash
    PROVE  Inv'
<1>1. run \in [Runs -> RunType] /\ Fresh \in RunType
  BY Types, PostAcquisitionAssumption DEF Inv, Fresh, RunType, Places, Answers
<1>2. ASSUME NEW r \in Runs
      PROVE  run'[r] \in RunType /\ run'[r].at \notin InFlight
  <2>1. CASE run[r].at \notin InFlight
    BY <1>1, <2>1 DEF Crash
  <2>2. CASE run[r].at \in InFlight
    <3>1. run'[r] = [Fresh EXCEPT !.at = IF run[r].job THEN "queued" ELSE "dead", !.job = run[r].job]
      BY <2>2 DEF Crash
    <3> QED
      BY <1>1, <3>1 DEF RunType, Places, InFlight
  <2> QED
    BY <2>1, <2>2
<1>3. run' \in [Runs -> RunType]
  BY <1>2 DEF Crash
<1>4. TypeOK'
  <2>1. faults' \in 0 .. MaxFaults
    <3>1. MaxFaults \in Nat /\ faults \in 0 .. MaxFaults
      BY PostAcquisitionAssumption DEF Inv, TypeOK
    <3>2. faults < MaxFaults /\ faults' = faults + 1
      BY DEF Crash
    <3> QED
      BY <3>1, <3>2
  <2>2. journal' \in [Steps -> Statuses] /\ tail' \in Runs \cup {NoRun} /\ resets' \in 0 .. MaxResets
    BY DEF Inv, TypeOK, Crash
  <2> QED
    BY <1>3, <2>1, <2>2 DEF TypeOK, RunType, Places, Answers
<1>5. Chain'
  BY <1>2, EmptyChain DEF Crash
<1>6. Sound'
  BY <1>2 DEF Sound, Working, InFlight
<1> QED
  BY <1>4, <1>5, <1>6 DEF Inv

LEMMA InitInv == Init => Inv
<1> SUFFICES ASSUME Init PROVE Inv
  OBVIOUS
<1>1. TypeOK
  BY PostAcquisitionAssumption DEF Init, TypeOK, Fresh, Statuses
<1>2. Chain
  BY EmptyChain DEF Init, Fresh, InFlight
<1>3. Sound
  BY DEF Init, Fresh, Sound, Working
<1> QED
  BY <1>1, <1>2, <1>3 DEF Inv

\* Of a step that is executed, and of one that is taken back.
Starts(r) == run'[r].at = "execute" /\ run[r].at # "execute"
Undone(s) == journal[s] = "done" /\ journal'[s] # "done" /\ ~Unheard(s)

\* The invariant, and what the two action properties say, for each step of a run.
LEMMA RunStepKeeps ==
    ASSUME Inv, NEW r \in Runs, RunStep(r)
    PROVE  /\ Inv'
           /\ \A x \in Runs : Starts(x) => journal[run[x].step] # "done"
           /\ \A s \in Steps : ~Undone(s)
<1> DEFINE Calm == \A x \in Runs : ~Starts(x)
<1> DEFINE Firm == \A s \in Steps : ~Undone(s)
<1>1. /\ run \in [Runs -> RunType] /\ journal \in [Steps -> Statuses]
      /\ resets \in 0 .. MaxResets /\ faults \in 0 .. MaxFaults
  BY Types DEF Inv
<1>2. run[r] \in RunType
  BY <1>1
<1>3. run[r].at \in Working => Good(run[r].at, run[r].step, run[r].answer, journal)
  BY DEF Inv, Sound
<1>4. \A at \in {"over", "rejected"} : Settle(r, at) => Calm
  BY Settles DEF Inv, Starts
<1>5. journal' = journal => Firm
  BY DEF Undone
<1>6. \A v : run' = [run EXCEPT ![r] = v] /\ v.at # "execute" => Calm
  BY <1>1 DEF Starts
<1>7. MaxFaults \in Nat /\ (faults < MaxFaults => faults + 1 \in 0 .. MaxFaults)
  BY <1>1, PostAcquisitionAssumption
<1>10. CASE Trigger(r) \/ RetryJob(r)
  <2>1. Inv'
    BY <1>10, QueueStep DEF Trigger, RetryJob
  <2>2. Calm
    BY <1>1, <1>10 DEF Trigger, RetryJob, Starts, RunType
  <2> QED
    BY <1>5, <1>10, <2>1, <2>2 DEF Trigger, RetryJob
<1>11. CASE RunByHand(r) \/ RunJob(r)
  <2>1. Inv'
    BY <1>11, EnterStep DEF RunByHand, RunJob
  <2>2. Calm
    BY <1>1, <1>11 DEF RunByHand, RunJob, Enter, Starts, RunType
  <2> QED
    BY <1>5, <1>11, <2>1, <2>2 DEF RunByHand, RunJob
<1>12. CASE Begin(r)
  <2>1. PICK at \in {"refused", "read"} : run' = [run EXCEPT ![r].at = at]
    BY <1>12 DEF Begin
  <2> DEFINE v == [run[r] EXCEPT !.at = at]
  <2>2. v \in RunType /\ v.at = at /\ v.after = run[r].after
    BY <1>2 DEF RunType, Places, InFlight
  <2>3. run' = [run EXCEPT ![r] = v]
    BY <2>1
  <2>4. Books /\ tail' = tail
    BY <1>1, <1>12 DEF Books, Begin
  <2> HIDE DEF v
  <2>5. Inv'
    BY <1>12, <2>2, <2>3, <2>4, HeadStep DEF Begin, InFlight, Working
  <2> QED
    BY <1>5, <1>6, <1>12, <2>2, <2>3, <2>5 DEF Begin
<1>13. CASE Finish(r)
  <2>1. Settle(r, "over") /\ Books /\ run[r].at \in InFlight \ {"waiting"} /\ journal' = journal
    BY <1>1, <1>13 DEF Finish, Books, InFlight
  <2> QED
    BY <1>4, <1>5, <2>1, SettleStep
<1>14. CASE SkipDone(r)
  <2> DEFINE v == [run[r] EXCEPT !.step = @ + 1]
  <2>1. run[r].at = "read" /\ run[r].step \in Steps
    BY <1>14 DEF SkipDone, AtStep
  <2>2. v \in RunType /\ v.at = "read" /\ v.after = run[r].after
    BY <1>2, <2>1, PostAcquisitionAssumption DEF RunType, Steps
  <2>3. run' = [run EXCEPT ![r] = v]
    BY <1>14 DEF SkipDone
  <2>4. Books /\ tail' = tail
    BY <1>1, <1>14 DEF Books, SkipDone
  <2> HIDE DEF v
  <2>5. Inv'
    BY <2>1, <2>2, <2>3, <2>4, HeadStep DEF InFlight, Working
  <2> QED
    BY <1>5, <1>6, <1>14, <2>2, <2>3, <2>5 DEF SkipDone
<1>15. CASE FindStep(r)
  <2> DEFINE v == [run[r] EXCEPT !.at = "start"]
  <2>1. run[r].at = "read" /\ run[r].step \in Steps /\ journal[run[r].step] # "done" /\ journal' = journal
    BY <1>15 DEF FindStep, AtStep
  <2>2. v \in RunType /\ v.at = "start" /\ v.after = run[r].after /\ v.step = run[r].step
    BY <1>2 DEF RunType, Places, InFlight
  <2>3. run' = [run EXCEPT ![r] = v]
    BY <1>15 DEF FindStep
  <2>4. Books /\ tail' = tail
    BY <1>1, <1>15 DEF Books, FindStep
  <2> HIDE DEF v
  <2>5. Inv'
    BY <2>1, <2>2, <2>3, <2>4, HeadStep DEF InFlight, Good
  <2> QED
    BY <1>5, <1>6, <2>1, <2>2, <2>3, <2>5
<1>16. CASE StartStep(r)
  <2> DEFINE v == [run[r] EXCEPT !.at = "execute"]
  <2>1. /\ run[r].at = "start" /\ run[r].step \in Steps /\ journal[run[r].step] # "done"
    BY <1>3, <1>16 DEF StartStep, Working, Good
  <2>2. v \in RunType /\ v.at = "execute" /\ v.after = run[r].after /\ v.step = run[r].step
    BY <1>2 DEF RunType, Places, InFlight
  <2>3. run' = [run EXCEPT ![r] = v] /\ tail' = tail
    BY <1>16 DEF StartStep
  <2>4. /\ journal' \in [Steps -> Statuses] /\ journal'[run[r].step] # "done"
        /\ \A s \in Steps : journal[s] = "done" => journal'[s] = "done"
    BY <1>1, <1>16, <2>1 DEF StartStep, Started, Statuses
  <2>5. Books
    BY <1>1, <1>16, <2>4 DEF Books, StartStep
  <2>6. \A x \in Runs : Starts(x) => x = r
    BY <1>1, <2>3 DEF Starts
  <2> HIDE DEF v
  <2>7. Inv'
    BY <2>1, <2>2, <2>3, <2>4, <2>5, HeadStep DEF InFlight, Good
  <2> QED
    BY <2>1, <2>4, <2>6, <2>7 DEF Undone
<1>17. CASE Execute(r)
  <2>1. run[r].at = "execute" /\ journal' = journal /\ run[r].step \in Steps /\ journal[run[r].step] # "done"
    BY <1>3, <1>17 DEF Execute, Working, Good
  <2>2. PICK v \in RunType : /\ run' = [run EXCEPT ![r] = v] /\ v.at \in {"answer", "catch"}
                             /\ v.after = run[r].after /\ v.step = run[r].step
    <3>1. CASE run' = [run EXCEPT ![r].at = "catch"]
      <4> DEFINE w == [run[r] EXCEPT !.at = "catch"]
      <4>1. w \in RunType /\ w.at = "catch" /\ w.after = run[r].after /\ w.step = run[r].step
        BY <1>2 DEF RunType, Places, InFlight
      <4> QED
        BY <3>1, <4>1
    <3>2. ASSUME NEW answer \in {"done", "skipped", "failed"},
                 run' = [run EXCEPT ![r].at = "answer", ![r].answer = answer]
          PROVE  \E v \in RunType : /\ run' = [run EXCEPT ![r] = v] /\ v.at \in {"answer", "catch"}
                                     /\ v.after = run[r].after /\ v.step = run[r].step
      <4> DEFINE w == [run[r] EXCEPT !.at = "answer", !.answer = answer]
      <4>1. w \in RunType /\ w.at = "answer" /\ w.after = run[r].after /\ w.step = run[r].step
        BY <1>2 DEF RunType, Places, InFlight, Answers
      <4>2. run' = [run EXCEPT ![r] = w]
        BY <1>1, <3>2
      <4> QED
        BY <4>1, <4>2
    <3> QED
      BY <1>17, <3>1, <3>2 DEF Execute
  <2>3. Books /\ tail' = tail
    BY <1>1, <1>17 DEF Books, Execute
  <2>4. Inv'
    BY <2>1, <2>2, <2>3, HeadStep DEF InFlight, Good
  <2> QED
    BY <1>5, <1>6, <2>1, <2>2, <2>4
<1>18. CASE Mark(r)
  <2>1. run[r].at = "answer" /\ run[r].step \in Steps /\ journal[run[r].step] # "done"
    BY <1>3, <1>18 DEF Mark, Working, Good
  <2>2. journal' \in [Steps -> Statuses] /\ Firm
    BY <1>1, <1>2, <1>18, <2>1 DEF Mark, RunType, Answers, Statuses, Undone
  <2>3. Books
    BY <1>1, <1>18, <2>2 DEF Books, Mark
  <2>4. CASE run[r].answer = "failed"
    <3>1. Settle(r, "over") /\ run[r].at \in InFlight \ {"waiting"}
      BY <1>18, <2>1, <2>4 DEF Mark, InFlight
    <3> QED
      BY <1>4, <2>2, <2>3, <3>1, SettleStep
  <2>5. CASE run[r].answer # "failed"
    <3> DEFINE v == [run[r] EXCEPT !.at = "read", !.step = @ + 1, !.answer = "none"]
    <3> DEFINE next == run[r].step + 1
    <3>0. next \in 1 .. NSteps + 1 /\ "read" \in Places /\ "none" \in Answers
      BY <2>1, PostAcquisitionAssumption DEF Places, InFlight, Answers, Steps
    <3>4. v = [run[r] EXCEPT !.at = "read", !.step = next, !.answer = "none"]
      BY <1>2 DEF RunType
    <3> HIDE DEF next
    <3>1. v \in RunType /\ v.at = "read" /\ v.after = run[r].after
      BY <1>2, <3>0, <3>4 DEF RunType
    <3>2. run' = [run EXCEPT ![r] = v] /\ tail' = tail
      BY <1>1, <1>18, <2>5 DEF Mark
    <3> HIDE DEF v
    <3>3. Inv'
      BY <2>1, <2>3, <3>1, <3>2, HeadStep DEF InFlight, Working
    <3> QED
      BY <1>6, <2>2, <3>1, <3>2, <3>3
  <2> QED
    BY <2>4, <2>5
<1>19. CASE MarkCaught(r)
  <2>1. run[r].at = "catch" /\ run[r].step \in Steps /\ (journal[run[r].step] # "done" \/ Unheard(run[r].step))
    BY <1>3, <1>19 DEF MarkCaught, Working, Good, Unheard
  <2>2. journal' \in [Steps -> Statuses] /\ Firm
    BY <1>1, <1>19, <2>1 DEF MarkCaught, Statuses, Undone
  <2>3. Books /\ Settle(r, "over") /\ run[r].at \in InFlight \ {"waiting"}
    BY <1>1, <1>19, <2>1, <2>2 DEF Books, MarkCaught, InFlight
  <2> QED
    BY <1>4, <2>2, <2>3, SettleStep
<1>20. CASE StopAborted(r)
  <2>1. Settle(r, "over") /\ Books /\ run[r].at \in InFlight \ {"waiting"} /\ journal' = journal
    BY <1>1, <1>20 DEF StopAborted, Books, InFlight
  <2> QED
    BY <1>4, <1>5, <2>1, SettleStep
<1>21. CASE MarkFails(r)
  <2> DEFINE v == [run[r] EXCEPT !.at = "catch"]
  <2>1. run[r].at = "answer" /\ run[r].step \in Steps /\ journal[run[r].step] # "done" /\ run[r].answer \in Answers
    BY <1>2, <1>3, <1>21 DEF MarkFails, Working, Good, RunType
  <2>2. /\ v \in RunType /\ v.at = "catch" /\ v.after = run[r].after
        /\ v.step = run[r].step /\ v.answer = run[r].answer
    BY <1>2 DEF RunType, Places, InFlight
  <2>3. run' = [run EXCEPT ![r] = v] /\ tail' = tail
    BY <1>1, <1>21 DEF MarkFails
  <2>4. journal' \in {journal, [journal EXCEPT ![run[r].step] = run[r].answer]}
    BY <1>21 DEF MarkFails
  <2>5. journal' \in [Steps -> Statuses]
    BY <1>1, <2>1, <2>4 DEF Answers, Statuses
  <2>6. Books
    BY <1>1, <1>7, <1>21, <2>5 DEF Books, MarkFails
  <2>7. journal'[run[r].step] = "done" => run[r].answer = "done"
    BY <1>1, <2>1, <2>4
  <2>8. Firm
    BY <1>1, <2>1, <2>4 DEF Undone
  <2> HIDE DEF v
  <2>9. Good(v.at, v.step, v.answer, journal')
    BY <2>1, <2>2, <2>7 DEF Good
  <2>10. Inv'
    BY <2>1, <2>2, <2>3, <2>6, <2>9, HeadStep DEF InFlight
  <2> QED
    BY <1>6, <2>2, <2>3, <2>8, <2>10
<1>22. CASE RunFails(r)
  <2>1. Settle(r, "rejected") /\ run[r].at \in InFlight \ {"waiting"}
    BY <1>22 DEF RunFails, InFlight
  <2>2. journal' \in [Steps -> Statuses] /\ Firm
    <3>1. CASE UNCHANGED journal
      BY <1>1, <1>5, <3>1
    <3>2. CASE run[r].at = "start" /\ Started(run[r].step)
      BY <1>1, <1>3, <3>2 DEF Started, Statuses, Undone, Working, Good
    <3>3. CASE run[r].at = "catch" /\ journal' = [journal EXCEPT ![run[r].step] = "failed"]
      <4>1. run[r].step \in Steps /\ (journal[run[r].step] # "done" \/ Unheard(run[r].step))
        BY <1>3, <3>3 DEF Working, Good, Unheard
      <4> QED
        BY <1>1, <3>3, <4>1 DEF Statuses, Undone
    <3> QED
      BY <1>22, <3>1, <3>2, <3>3 DEF RunFails
  <2>3. Books
    BY <1>1, <1>7, <1>22, <2>2 DEF RunFails, Books
  <2> QED
    BY <1>4, <2>1, <2>2, <2>3, SettleStep
<1> QED
  BY <1>10, <1>11, <1>12, <1>13, <1>14, <1>15, <1>16, <1>17, <1>18, <1>19, <1>20, <1>21, <1>22
     DEF RunStep, RunGoesOn

\* The same for every step of the specification.
LEMMA NextKeeps ==
    Inv /\ [Next]_vars => /\ Inv'
                          /\ \A r \in Runs : Starts(r) => journal[run[r].step] # "done"
                          /\ (\E s \in Steps : Undone(s)) => resets' # resets
<1> SUFFICES ASSUME Inv, [Next]_vars
             PROVE  /\ Inv'
                    /\ \A r \in Runs : Starts(r) => journal[run[r].step] # "done"
                    /\ (\E s \in Steps : Undone(s)) => resets' # resets
  OBVIOUS
<1>1. ASSUME NEW r \in Runs, RunStep(r)
      PROVE  /\ Inv'
             /\ \A x \in Runs : Starts(x) => journal[run[x].step] # "done"
             /\ \A s \in Steps : ~Undone(s)
  BY <1>1, RunStepKeeps
<1>2. ASSUME NEW some \in {Steps} \cup {{s} : s \in Steps}, Reset(some)
      PROVE  Inv' /\ resets' # resets /\ \A r \in Runs : ~Starts(r)
  <2>1. Inv'
    BY <1>2, ResetStep
  <2>2. resets \in Nat
    BY PostAcquisitionAssumption DEF Inv, TypeOK
  <2> QED
    BY <1>2, <2>1, <2>2 DEF Reset, Starts
<1>3. CASE Crash
  <2>1. Inv'
    BY <1>3, CrashStep
  <2>2. \A r \in Runs : ~Starts(r)
    BY <1>3, Types DEF Inv, Crash, Starts, RunType, Fresh, InFlight
  <2> QED
    BY <1>3, <2>1, <2>2 DEF Crash, Undone
<1>4. CASE UNCHANGED vars
  <2>1. TypeOK' /\ Sound'
    BY <1>4 DEF vars, Inv, TypeOK, Sound
  <2>2. Chain'
    BY <1>4 DEF vars, Inv, Chain, Chained
  <2> QED
    BY <1>4, <2>1, <2>2 DEF vars, Inv, Starts, Undone
<1> QED
  BY <1>1, <1>2, <1>3, <1>4 DEF Next

\* Every variable has its type: what PostAcquisitionService keeps of a domain.
THEOREM PostTypeCorrect == Spec => []TypeOK
<1>1. Inv => TypeOK
  BY DEF Inv
<1>2. Inv /\ [Next]_vars => Inv'
  BY NextKeeps
<1> QED
  BY InitInv, <1>1, <1>2, PTL DEF Spec

\* However many runs of a domain one process is asked for, and whatever fails in
\* them, no run executes a step that is done (runAutomation's check of the status).
THEOREM DoneNotRepeated == Spec => DoneIsNotRepeated
<1>1. Inv /\ [Next]_vars =>
        \A r \in Runs : run'[r].at = "execute" /\ run[r].at # "execute" => journal[run[r].step] # "done"
  BY NextKeeps DEF Starts
<1>2. Inv /\ [Next]_vars => Inv'
  BY NextKeeps
<1> QED
  BY InitInv, <1>1, <1>2, PTL DEF Spec, DoneIsNotRepeated

\* A step that is done stays done unless it is reset, or the run that did it was told
\* that its markDone failed (the catch of #runInternal marks it failed then): no other
\* run, no other failed statement and no crash marks it otherwise.
THEOREM DoneStaysDone == Spec => DoneStays
<1>1. Inv /\ [Next]_vars =>
        \A s \in Steps : journal[s] = "done" /\ journal'[s] # "done" => resets' # resets \/ Unheard(s)
  BY NextKeeps DEF Undone
<1>2. Inv /\ [Next]_vars => Inv'
  BY NextKeeps
<1> QED
  BY InitInv, <1>1, <1>2, PTL DEF Spec, DoneStays

=============================================================================
