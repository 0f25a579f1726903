------------------------------- MODULE JobLedger -------------------------------
(***************************************************************************)
(* What the job queue promises: a submitted job is taken by one worker at  *)
(* a time, only its holder finishes it, puts it back or gives it up, and   *)
(* it is taken away from nobody: a job is recovered only once its holder   *)
(* is lost. Done and buried are final.                                     *)
(***************************************************************************)
CONSTANTS Jobs, Workers

VARIABLES
    state,   \* life of each job
    holder   \* the workers that are working on it: one at most

ledger == <<state, holder>>

States == {"new", "open", "taken", "done", "buried", "gone"}

TypeOK ==
    /\ state \in [Jobs -> States]
    /\ holder \in [Jobs -> SUBSET Workers]

Init ==
    /\ state = [j \in Jobs |-> "new"]
    /\ holder = [j \in Jobs |-> {}]

Submit(j) ==
    /\ state[j] = "new"
    /\ state' = [state EXCEPT ![j] = "open"]
    /\ UNCHANGED holder

Take(j, w) ==
    /\ state[j] = "open"
    /\ state' = [state EXCEPT ![j] = "taken"]
    /\ holder' = [holder EXCEPT ![j] = {w}]

\* done, back to the queue, or given up: the holder's decision
Settle(j, outcome) ==
    /\ state[j] = "taken"
    /\ holder[j] # {}
    /\ outcome \in {"open", "done", "buried"}
    /\ state' = [state EXCEPT ![j] = outcome]
    /\ holder' = [holder EXCEPT ![j] = {}]

\* a process dies or drops its jobs; nobody is told
Lose(S) ==
    /\ holder' = [j \in Jobs |-> IF j \in S THEN {} ELSE holder[j]]
    /\ UNCHANGED state

Recover(S) ==
    /\ \A j \in S : state[j] = "taken" /\ holder[j] = {}
    /\ state' = [j \in Jobs |-> IF j \in S THEN "open" ELSE state[j]]
    /\ UNCHANGED holder

Forget(j) ==
    /\ state[j] \in {"done", "buried"}
    /\ state' = [state EXCEPT ![j] = "gone"]
    /\ UNCHANGED holder

Next ==
    \/ \E j \in Jobs : Submit(j) \/ Forget(j)
    \/ \E j \in Jobs, w \in Workers : Take(j, w)
    \/ \E j \in Jobs, outcome \in States : Settle(j, outcome)
    \/ \E S \in SUBSET Jobs : Lose(S) \/ Recover(S)

Spec == Init /\ [][Next]_ledger
=============================================================================
