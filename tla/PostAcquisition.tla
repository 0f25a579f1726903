---------------------------- MODULE PostAcquisition ----------------------------
(***************************************************************************)
(* The automation that follows a purchase or a won bid, for one domain in  *)
(* one process: PostAcquisitionService runs the steps in their order, each *)
(* journaled in post_acquisition_steps, for the jobs that Acquisition      *)
(* triggers and for operators.                                             *)
(*                                                                         *)
(* Runs of one domain are chained by promises: run() waits for the run     *)
(* that #running names and then puts itself there.  A run stops at each    *)
(* statement and at its executor's requests.                               *)
(***************************************************************************)
EXTENDS Naturals

CONSTANTS
    Runs,       \* calls of run()
    NoRun,
    NSteps,     \* steps with an executor, in their order
    MaxResets,  \* bound: resets of the journal
    MaxFaults   \* bound: statements that fail and crashes

ASSUME PostAcquisitionAssumption ==
    NoRun \notin Runs /\ NSteps \in Nat \ {0} /\ {MaxResets, MaxFaults} \subseteq Nat

VARIABLES
    journal,   \* status of each step
    run,       \* where each run is
    tail,      \* #running: the run that the next one waits for
    resets, faults

vars == <<journal, run, tail, resets, faults>>

Steps    == 1 .. NSteps
Statuses == {"none", "pending", "done", "skipped", "failed"}
Fresh    == [at |-> "idle", step |-> 1, job |-> FALSE, after |-> NoRun, answer |-> "none"]
InFlight == {"waiting", "read", "start", "execute", "answer", "catch", "refused"}

TypeOK ==
    /\ journal \in [Steps -> Statuses]
    /\ run \in [Runs -> [at: InFlight \cup {"idle", "queued", "rejected", "over", "dead"},
                         step: 1 .. NSteps + 1, job: BOOLEAN, after: Runs \cup {NoRun},
                         answer: {"none", "done", "skipped", "failed"}]]
    /\ tail \in Runs \cup {NoRun}
    /\ resets \in 0 .. MaxResets /\ faults \in 0 .. MaxFaults

Init ==
    /\ journal = [s \in Steps |-> "none"]
    /\ run = [r \in Runs |-> Fresh] /\ tail = NoRun
    /\ resets = 0 /\ faults = 0

\* A purchase or a won bid enqueues a job; nobody notices when that fails.
Trigger(r) ==
    /\ run[r].at = "idle"
    /\ run' = [run EXCEPT ![r].at = "queued", ![r].job = TRUE]
    /\ UNCHANGED <<journal, tail, resets, faults>>


\* run() chains itself behind the run that #running names.
Enter(r) == run' = [run EXCEPT ![r].at = "waiting", ![r].after = tail] /\ tail' = r

\* By an operator, or by a trigger without workers.
RunByHand(r) == run[r].at = "idle" /\ Enter(r) /\ UNCHANGED <<journal, resets, faults>>

RunJob(r) == run[r].at = "queued" /\ Enter(r) /\ UNCHANGED <<journal, resets, faults>>

\* Variants: the entry goes whoever's it is; a rejection is passed on to the run behind.
SettleForgets(r, at) ==
    /\ run' = [x \in Runs |->
                 IF x = r THEN [Fresh EXCEPT !.at = at, !.job = run[r].job]
                 ELSE [run[x] EXCEPT !.after = IF @ = r THEN NoRun ELSE @]]
    /\ tail' = NoRun

SettlePoisons(r, at) ==
    /\ run' = [x \in Runs |->
                 IF x = r THEN [Fresh EXCEPT !.at = at, !.job = run[r].job]
                 ELSE IF run[x].after = r
                   THEN [run[x] EXCEPT !.after = NoRun, !.at = IF at = "rejected" THEN "rejected" ELSE @]
                 ELSE run[x]]
    /\ tail' = IF tail = r THEN NoRun ELSE tail

\* A run settles: the one behind it goes on, after a rejection too, and the entry
\* of #running goes only if it is still its own.
Settle(r, at) ==
    /\ run' = [x \in Runs |->
                 IF x = r THEN [Fresh EXCEPT !.at = at, !.job = run[r].job]
                 ELSE [run[x] EXCEPT !.after = IF @ = r THEN NoRun ELSE @]]
    /\ tail' = IF tail = r THEN NoRun ELSE tail

\* A variant that does not wait.
BeginAtOnce(r) ==
    /\ run[r].at = "waiting"
    /\ \E at \in {"refused", "read"} : run' = [run EXCEPT ![r].at = at]
    /\ UNCHANGED <<journal, tail, resets, faults>>

\* The kill switch or the tenant's switch refuses the run, or it starts.
Begin(r) ==
    /\ run[r].at = "waiting" /\ run[r].after = NoRun
    /\ \E at \in {"refused", "read"} : run' = [run EXCEPT ![r].at = at]
    /\ UNCHANGED <<journal, tail, resets, faults>>

Finish(r) ==
    /\ \/ run[r].at = "refused"
       \/ run[r].at = "read" /\ run[r].step > NSteps
    /\ Settle(r, "over")
    /\ UNCHANGED <<journal, resets, faults>>

AtStep(r) == run[r].at = "read" /\ run[r].step \in Steps

SkipDone(r) ==
    /\ AtStep(r) /\ journal[run[r].step] = "done"
    /\ run' = [run EXCEPT ![r].step = @ + 1]
    /\ UNCHANGED <<journal, tail, resets, faults>>

FindStep(r) ==
    /\ AtStep(r) /\ journal[run[r].step] # "done"
    /\ run' = [run EXCEPT ![r].at = "start"]
    /\ UNCHANGED <<journal, tail, resets, faults>>

\* Only the worker passes a signal: the run ends as if it had nothing left to do.
StopAborted(r) ==
    /\ run[r].at = "start" /\ run[r].job
    /\ Settle(r, "over")
    /\ UNCHANGED <<journal, resets, faults>>

Started(s) == journal' = [journal EXCEPT ![s] = IF @ = "none" THEN "pending" ELSE @]

StartStep(r) ==
    /\ run[r].at = "start"
    /\ Started(run[r].step)
    /\ run' = [run EXCEPT ![r].at = "execute"]
    /\ UNCHANGED <<tail, resets, faults>>

\* The executor answers or throws.
Execute(r) ==
    /\ run[r].at = "execute"
    /\ \/ \E answer \in {"done", "skipped", "failed"} :
             run' = [run EXCEPT ![r].at = "answer", ![r].answer = answer]
       \/ run' = [run EXCEPT ![r].at = "catch"]
    /\ UNCHANGED <<journal, tail, resets, faults>>

\* markDone, markSkipped or markFailed; a failed step ends the run.
Mark(r) ==
    /\ run[r].at = "answer"
    /\ journal' = [journal EXCEPT ![run[r].step] = run[r].answer]
    /\ IF run[r].answer = "failed"
          THEN Settle(r, "over")
          ELSE run' = [run EXCEPT ![r].at = "read", ![r].step = @ + 1, ![r].answer = "none"] /\ UNCHANGED tail
    /\ UNCHANGED <<resets, faults>>

\* A mark that rejects is caught, whether it took effect or not.
MarkFails(r) ==
    /\ run[r].at = "answer" /\ faults < MaxFaults
    /\ faults' = faults + 1
    /\ run' = [run EXCEPT ![r].at = "catch"]
    /\ journal' \in {journal, [journal EXCEPT ![run[r].step] = run[r].answer]}
    /\ UNCHANGED <<tail, resets>>

MarkCaught(r) ==
    /\ run[r].at = "catch"
    /\ journal' = [journal EXCEPT ![run[r].step] = "failed"]
    /\ Settle(r, "over")
    /\ UNCHANGED <<resets, faults>>

\* A statement outside of the try rejects the run, whether it took effect or not.
RunFails(r) ==
    /\ run[r].at \in {"read", "start", "catch"} /\ faults < MaxFaults
    /\ faults' = faults + 1
    /\ Settle(r, "rejected")
    /\ \/ UNCHANGED journal
       \/ run[r].at = "start" /\ Started(run[r].step)
       \/ run[r].at = "catch" /\ journal' = [journal EXCEPT ![run[r].step] = "failed"]
    /\ UNCHANGED resets

\* The queue tries the job of a rejected run again.
RetryJob(r) ==
    /\ run[r].at = "rejected" /\ run[r].job
    /\ run' = [run EXCEPT ![r].at = "queued"]
    /\ UNCHANGED <<journal, tail, resets, faults>>

\* resetStep, or resetDomain: only rows that exist.
Reset(some) ==
    /\ resets < MaxResets
    /\ resets' = resets + 1
    /\ journal' = [s \in Steps |-> IF s \in some /\ journal[s] # "none" THEN "pending" ELSE journal[s]]
    /\ UNCHANGED <<run, tail, faults>>

\* The process dies; the queue puts its jobs back.
Crash ==
    /\ faults < MaxFaults
    /\ faults' = faults + 1
    /\ run' = [r \in Runs |->
                 IF run[r].at \notin InFlight THEN run[r]
                 ELSE [Fresh EXCEPT !.at = IF run[r].job THEN "queued" ELSE "dead", !.job = run[r].job]]
    /\ tail' = NoRun
    /\ UNCHANGED <<journal, resets>>

\* What the event loop and the executors, whose requests time out, bring about.
RunGoesOn(r) ==
    Begin(r) \/ Finish(r) \/ SkipDone(r) \/ FindStep(r) \/ StartStep(r) \/ Execute(r) \/ Mark(r) \/ MarkCaught(r)

RunStep(r) ==
    \/ Trigger(r) \/ RunByHand(r) \/ RunJob(r) \/ RunGoesOn(r)
    \/ StopAborted(r) \/ MarkFails(r) \/ RunFails(r) \/ RetryJob(r)

Next ==
    \/ \E r \in Runs : RunStep(r)
    \/ \E some \in {Steps} \cup {{s} : s \in Steps} : Reset(some)
    \/ Crash

Spec == Init /\ [][Next]_vars /\ \A r \in Runs : WF_vars(RunGoesOn(r))

-----------------------------------------------------------------------------
(* Properties.                                                              *)

\* In one process no step that is done is executed again, however many runs of the
\* domain are called at once, fail or are tried again.
DoneIsNotRepeated ==
    [][\A r \in Runs : run'[r].at = "execute" /\ run[r].at # "execute" => journal[run[r].step] # "done"]_vars

\* The run that did step s was told that its markDone failed.
Unheard(s) == \E r \in Runs : run[r].at = "catch" /\ run[r].step = s /\ run[r].answer = "done"

\* Only a reset takes a step back from "done", or the run that did it, told that its own
\* markDone failed: it marks the step failed.  No other run, failure or crash undoes it.
DoneStays ==
    [][\A s \in Steps : journal[s] = "done" /\ journal'[s] # "done" => resets' # resets \/ Unheard(s)]_vars

\* Every run that is called gets its turn, whatever has become of the one before it,
\* unless the process dies.
CalledRuns ==
    \A r \in Runs : run[r].at = "waiting" ~> run[r].at \in {"read", "refused", "queued", "dead"}

=============================================================================
