---------------------------- MODULE StageLockProofs ----------------------------
(***************************************************************************)
(* The stage locks for any number of processes, runs, stages and tokens:   *)
(* the fence without any assumption, mutual exclusion where the locks are  *)
(* meant to give it (Steady).                                              *)
(***************************************************************************)
EXTENDS StageLock, TLAPS

ExecType  == [at: {"idle", "locking", "falling", "working", "ending"}, stage: Stages, aborted: BOOLEAN]
TokenType == [lock: Locks, token: Tokens]
TimerType == [lock: Locks, token: Tokens, failures: 0 .. 3, due: BOOLEAN]

\* The types, in parts that the actions touch together.
StoreTyped ==
    /\ backend \in Backends /\ redisUp \in BOOLEAN
    /\ store \in [Providers -> [Locks -> Entry]]
    /\ files \subseteq Locks /\ issued \in 0 .. MaxTokens
ProcsTyped ==
    /\ alive \subseteq Procs /\ exec \in [Execs -> ExecType]
    /\ stageLocks \in [Procs -> SUBSET TokenType]
    /\ timers \in [Procs -> SUBSET TimerType]
    /\ owners \in [Procs -> [Locks -> Providers \cup {"none"}]]

LEMMA Parts ==
    /\ TypeOK <=> StoreTyped /\ ProcsTyped
    /\ TypeOK' <=> StoreTyped' /\ ProcsTyped'
BY DEF TypeOK, StoreTyped, ProcsTyped, ExecType, TokenType, TimerType

LEMMA FreeTyped == Free \in Entry /\ Free.left = 0 /\ Free.worker = Nobody
BY StageLockAssumption DEF Free, Entry

LEMMA IdleTyped == Idle \in ExecType /\ Idle.at = "idle" /\ ~Idle.aborted
BY StageLockAssumption DEF Idle, ExecType

LEMMA LockTyped ==
    ASSUME ProcsTyped, NEW p \in Procs, NEW r \in Runs
    PROVE  /\ <<p, r>> \in Execs /\ exec[<<p, r>>] \in ExecType
           /\ Lock(p, r) \in Locks /\ Lock(p, r) = <<r, exec[<<p, r>>].stage>>
<1>1. <<p, r>> \in Execs
  BY DEF Execs
<1>2. exec[<<p, r>>] \in ExecType
  BY <1>1 DEF ProcsTyped
<1> QED
  BY <1>1, <1>2 DEF Lock, Locks, ExecType

LEMMA IdTyped ==
    ASSUME NEW v, NEW p \in Procs
    PROVE  Id(v, p) \in Procs
BY DEF Id

LEMMA AskedTyped ==
    ASSUME NEW e
    PROVE  Asked(e) \in Providers
BY DEF Asked, Providers

\* An entry that is written as a whole, or refreshed.
LEMMA PutTyped ==
    ASSUME StoreTyped, NEW v \in Providers, NEW k \in Locks, NEW x \in Entry,
           store' = [store EXCEPT ![v][k] = x]
    PROVE  /\ store' \in [Providers -> [Locks -> Entry]]
           /\ store'[v][k] = x
           /\ \A w \in Providers, l \in Locks : w # v \/ l # k => store'[w][l] = store[w][l]
BY DEF StoreTyped

LEMMA RefreshTyped ==
    ASSUME StoreTyped, NEW v \in Providers, NEW k \in Locks, store' = [store EXCEPT ![v][k].left = Ttl]
    PROVE  /\ store' \in [Providers -> [Locks -> Entry]]
           /\ store'[v][k] = [store[v][k] EXCEPT !.left = Ttl]
           /\ \A w \in Providers, l \in Locks : w # v \/ l # k => store'[w][l] = store[w][l]
<1> DEFINE x == [store[v][k] EXCEPT !.left = Ttl]
<1>1. x \in Entry
  <2>1. store[v][k] \in Entry
    BY DEF StoreTyped
  <2>2. Ttl \in 0 .. Ttl
    BY StageLockAssumption
  <2> QED
    BY <2>1, <2>2 DEF Entry
<1>2. store' = [store EXCEPT ![v][k] = x]
  OBVIOUS
<1>3. x = [store[v][k] EXCEPT !.left = Ttl]
  OBVIOUS
<1> HIDE DEF x
<1>4. /\ store' \in [Providers -> [Locks -> Entry]] /\ store'[v][k] = x
      /\ \A w \in Providers, l \in Locks : w # v \/ l # k => store'[w][l] = store[w][l]
  BY <1>1, <1>2 DEF StoreTyped
<1> QED
  BY <1>3, <1>4

\* What changes of an entry that is not about to expire: nothing but its time, or it is
\* freed by one who drops the token of it.
Released(v, k) ==
    LET x == store[v][k] IN
    x.left > 1 =>
       \/ store'[v][k].worker = x.worker
       \/ /\ store'[v][k] = Free
          /\ \E p \in Procs : \E i \in stageLocks[p] \ stageLocks'[p] :
                Id(v, p) = x.worker /\ i.lock = k /\ i.token = x.token

LEMMA InitTyped ==
    ASSUME Init
    PROVE  TypeOK
<1>1. StoreTyped
  BY FreeTyped, StageLockAssumption DEF Init, StoreTyped
<1>2. ProcsTyped
  BY IdleTyped DEF Init, ProcsTyped
<1> QED
  BY <1>1, <1>2, Parts

-----------------------------------------------------------------------------
(* Each step keeps the types and the fence.                                 *)

Fenced == TypeOK' /\ \A v \in Providers, k \in Locks : Released(v, k)

LEMMA StoreKept ==
    ASSUME TypeOK, UNCHANGED <<backend, store, files, issued>>, redisUp' \in BOOLEAN, ProcsTyped'
    PROVE  Fenced
<1>1. StoreTyped'
  BY Parts DEF StoreTyped
<1>2. \A v \in Providers, k \in Locks : Released(v, k)
  BY DEF Released
<1> QED
  BY <1>1, <1>2, Parts DEF Fenced

\* What a process does to its own execution alone.
LEMMA ExecTyped ==
    ASSUME ProcsTyped, NEW e \in Execs, NEW x \in ExecType, exec' = [exec EXCEPT ![e] = x]
    PROVE  exec' \in [Execs -> ExecType]
BY DEF ProcsTyped

LEMMA BeginFenced ==
    ASSUME TypeOK, NEW p \in Procs, NEW r \in Runs, Begin(p, r)
    PROVE  Fenced
<1>1. StoreTyped /\ ProcsTyped /\ <<p, r>> \in Execs
  BY Parts, LockTyped
<1>2. exec' \in [Execs -> ExecType]
  <2>1. [Idle EXCEPT !.at = "locking"] \in ExecType
    BY IdleTyped DEF ExecType
  <2> QED
    BY <1>1, <2>1, ExecTyped DEF Begin
<1>3. ProcsTyped' /\ redisUp' \in BOOLEAN
  BY <1>1, <1>2 DEF Begin, ProcsTyped, StoreTyped
<1> QED
  BY <1>3, StoreKept DEF Begin

\* What Acquired does besides the store.
LEMMA AcquiredTyped ==
    ASSUME TypeOK, NEW p \in Procs, NEW r \in Runs, NEW v \in Providers, NEW token \in Tokens,
           Acquired(p, r, v, token)
    PROVE  ProcsTyped' /\ files' \subseteq Locks /\ UNCHANGED <<backend, redisUp>>
<1> DEFINE k == Lock(p, r)
<1>1. StoreTyped /\ ProcsTyped /\ <<p, r>> \in Execs /\ exec[<<p, r>>] \in ExecType /\ k \in Locks
  BY Parts, LockTyped
<1>2. UNCHANGED <<backend, redisUp, alive>> /\ files' \in {files, files \cup {k}}
  BY DEF Acquired
<1>3. exec' \in [Execs -> ExecType]
  <2>1. [exec[<<p, r>>] EXCEPT !.at = "working"] \in ExecType
    BY <1>1 DEF ExecType
  <2> QED
    BY <1>1, <2>1, ExecTyped DEF Acquired
<1>4. stageLocks' \in [Procs -> SUBSET TokenType]
  <2>1. [lock |-> k, token |-> token] \in TokenType
    BY <1>1 DEF TokenType
  <2>2. stageLocks' = [stageLocks EXCEPT ![p] = {i \in @ : i.lock # k} \cup {[lock |-> k, token |-> token]}]
    BY DEF Acquired
  <2> QED
    BY <1>1, <2>1, <2>2 DEF ProcsTyped
<1>5. timers' \in [Procs -> SUBSET TimerType]
  <2> DEFINE t == [lock |-> k, token |-> token, failures |-> 0, due |-> FALSE]
  <2>1. t \in TimerType
    BY <1>1 DEF TimerType
  <2>2. timers' = [timers EXCEPT ![p] = IF \E u \in @ : u.lock = k THEN @ ELSE @ \cup {t}]
    BY DEF Acquired
  <2> HIDE DEF t
  <2> QED
    BY <1>1, <2>1, <2>2 DEF ProcsTyped
<1>6. owners' \in [Procs -> [Locks -> Providers \cup {"none"}]]
  <2>1. owners' = [owners EXCEPT ![p][k] = IF backend = "redis" THEN v ELSE "none"]
    BY DEF Acquired
  <2> QED
    BY <1>1, <2>1 DEF ProcsTyped
<1> QED
  BY <1>1, <1>2, <1>3, <1>4, <1>5, <1>6 DEF ProcsTyped, StoreTyped

LEMMA TakeFreeFenced ==
    ASSUME TypeOK, NEW p \in Procs, NEW r \in Runs, TakeFree(p, r)
    PROVE  Fenced
<1> DEFINE v == Asked(<<p, r>>)
           k == Lock(p, r)
           x == [worker |-> Id(v, p), token |-> issued + 1, left |-> Ttl]
<1>1. StoreTyped /\ ProcsTyped /\ k \in Locks /\ v \in Providers
  BY Parts, LockTyped, AskedTyped
<1>2. store[v][k].left = 0 /\ issued < MaxTokens /\ issued' = issued + 1 /\ Acquired(p, r, v, issued + 1)
  BY DEF TakeFree, Takeable
<1>3. issued + 1 \in Tokens /\ issued + 1 \in 0 .. MaxTokens
  BY <1>1, <1>2, StageLockAssumption DEF StoreTyped, Tokens, PidToken
<1>4. x \in Entry
  BY <1>3, IdTyped, StageLockAssumption DEF Entry
<1>5. store' = [store EXCEPT ![v][k] = x]
  BY DEF TakeFree, Takeable
<1> HIDE DEF x, v, k
<1>6. /\ store' \in [Providers -> [Locks -> Entry]]
      /\ \A w \in Providers, l \in Locks : w # v \/ l # k => store'[w][l] = store[w][l]
  BY <1>1, <1>4, <1>5, PutTyped
<1>7. ProcsTyped' /\ StoreTyped'
  BY <1>1, <1>2, <1>3, <1>6, AcquiredTyped DEF StoreTyped
<1>8. \A w \in Providers, l \in Locks : Released(w, l)
  BY <1>1, <1>2, <1>6 DEF Released
<1> QED
  BY <1>7, <1>8, Parts DEF Fenced

LEMMA TakeOwnFenced ==
    ASSUME TypeOK, NEW p \in Procs, NEW r \in Runs, TakeOwn(p, r)
    PROVE  Fenced
<1> DEFINE v     == Asked(<<p, r>>)
           k     == Lock(p, r)
           token == IF v = "redis" THEN PidToken ELSE store[v][k].token
<1>1. StoreTyped /\ ProcsTyped /\ k \in Locks /\ v \in Providers
  BY Parts, LockTyped, AskedTyped
<1>2. UNCHANGED issued /\ Acquired(p, r, v, token)
  BY DEF TakeOwn
<1>3. token \in Tokens
  <2>1. store[v][k] \in Entry
    BY <1>1 DEF StoreTyped
  <2> QED
    BY <2>1, StageLockAssumption DEF Entry, Tokens, PidToken
<1>4. store' = store \/ store' = [store EXCEPT ![v][k].left = Ttl]
  BY DEF TakeOwn
<1> HIDE DEF v, k, token
<1>5. /\ store' \in [Providers -> [Locks -> Entry]]
      /\ \A w \in Providers, l \in Locks : store'[w][l].worker = store[w][l].worker
  <2>1. CASE store' = store
    BY <1>1, <2>1 DEF StoreTyped
  <2>2. CASE store' = [store EXCEPT ![v][k].left = Ttl]
    <3>1. /\ store' \in [Providers -> [Locks -> Entry]]
          /\ store'[v][k] = [store[v][k] EXCEPT !.left = Ttl]
          /\ \A w \in Providers, l \in Locks : w # v \/ l # k => store'[w][l] = store[w][l]
      BY <1>1, <2>2, RefreshTyped
    <3>2. store[v][k] \in Entry
      BY <1>1 DEF StoreTyped
    <3>3. store'[v][k].worker = store[v][k].worker
      BY <3>1, <3>2 DEF Entry
    <3> QED
      BY <3>1, <3>3
  <2> QED
    BY <1>4, <2>1, <2>2
<1>6. ProcsTyped' /\ StoreTyped'
  BY <1>1, <1>2, <1>3, <1>5, AcquiredTyped DEF StoreTyped
<1>7. \A w \in Providers, l \in Locks : Released(w, l)
  BY <1>5 DEF Released
<1> QED
  BY <1>6, <1>7, Parts DEF Fenced

\* Where a refused or unanswered execution goes.
LEMMA GoesOnTyped ==
    ASSUME ProcsTyped, NEW p \in Procs, NEW r \in Runs, GoesOn(p, r)
    PROVE  exec' \in [Execs -> ExecType]
<1> DEFINE at == IF Asked(<<p, r>>) = "redis" THEN "falling" ELSE "ending"
<1>1. <<p, r>> \in Execs /\ exec[<<p, r>>] \in ExecType
  BY LockTyped
<1>2. at \in {"falling", "ending"} /\ exec' = [exec EXCEPT ![<<p, r>>].at = at]
  BY DEF GoesOn
<1> HIDE DEF at
<1>3. [exec[<<p, r>>] EXCEPT !.at = at] \in ExecType
  BY <1>1, <1>2 DEF ExecType
<1> QED
  BY <1>1, <1>2, <1>3, ExecTyped

LEMMA RefusedFenced ==
    ASSUME TypeOK, NEW p \in Procs, NEW r \in Runs, Refused(p, r)
    PROVE  Fenced
<1>1. StoreTyped /\ ProcsTyped
  BY Parts
<1>2. exec' \in [Execs -> ExecType]
  BY <1>1, GoesOnTyped DEF Refused
<1>3. ProcsTyped' /\ redisUp' \in BOOLEAN
  BY <1>1, <1>2 DEF Refused, ProcsTyped, StoreTyped
<1> QED
  BY <1>3, StoreKept DEF Refused

LEMMA AnswerLostFenced ==
    ASSUME TypeOK, NEW p \in Procs, NEW r \in Runs, AnswerLost(p, r)
    PROVE  Fenced
<1> DEFINE v == Asked(<<p, r>>)
           k == Lock(p, r)
           x == [worker |-> Id(v, p), token |-> issued + 1, left |-> Ttl]
<1>1. StoreTyped /\ ProcsTyped /\ k \in Locks /\ v \in Providers
  BY Parts, LockTyped, AskedTyped
<1>2. /\ store[v][k].left = 0 /\ issued < MaxTokens /\ issued' = issued + 1
      /\ GoesOn(p, r) /\ UNCHANGED <<backend, files, redisUp, alive, stageLocks, timers, owners>>
  BY DEF AnswerLost
<1>3. issued + 1 \in 0 .. MaxTokens
  BY <1>1, <1>2, StageLockAssumption DEF StoreTyped
<1>4. x \in Entry
  BY <1>3, IdTyped, StageLockAssumption DEF Entry
<1>5. store' = [store EXCEPT ![v][k] = x]
  BY DEF AnswerLost
<1> HIDE DEF x, v, k
<1>6. /\ store' \in [Providers -> [Locks -> Entry]]
      /\ \A w \in Providers, l \in Locks : w # v \/ l # k => store'[w][l] = store[w][l]
  BY <1>1, <1>4, <1>5, PutTyped
<1>7. exec' \in [Execs -> ExecType]
  BY <1>1, <1>2, GoesOnTyped
<1>8. ProcsTyped' /\ StoreTyped'
  BY <1>1, <1>2, <1>3, <1>6, <1>7 DEF StoreTyped, ProcsTyped
<1>9. \A w \in Providers, l \in Locks : Released(w, l)
  BY <1>1, <1>2, <1>6 DEF Released
<1> QED
  BY <1>8, <1>9, Parts DEF Fenced

\* A heartbeat changes one timer.
LEMMA TimerIs ==
    ASSUME NEW t \in TimerType, NEW due \in BOOLEAN, NEW n \in 0 .. 3
    PROVE  /\ [t EXCEPT !.due = due, !.failures = n] \in TimerType
           /\ [t EXCEPT !.due = due] \in TimerType
BY DEF TimerType

LEMMA TimerTyped ==
    ASSUME ProcsTyped, NEW p \in Procs, NEW t \in timers[p], NEW n \in 0 .. 3,
           timers' = [timers EXCEPT ![p] = (@ \ {t}) \cup {[t EXCEPT !.due = FALSE, !.failures = n]}]
    PROVE  timers' \in [Procs -> SUBSET TimerType]
<1>1. t \in TimerType /\ FALSE \in BOOLEAN
  BY DEF ProcsTyped
<1> DEFINE u == [t EXCEPT !.due = FALSE, !.failures = n]
<1>2. u \in TimerType
  BY <1>1, TimerIs
<1> HIDE DEF u
<1> QED
  BY <1>2 DEF ProcsTyped, u

LEMMA RenewedFenced ==
    ASSUME TypeOK, NEW p \in Procs, NEW t \in timers[p], Renewed(p, t)
    PROVE  Fenced
<1> DEFINE v == ProviderOf(p, t.lock)
           k == t.lock
<1>1. StoreTyped /\ ProcsTyped
  BY Parts
<1>2. k \in Locks
  BY <1>1 DEF ProcsTyped, TimerType
<1>3. v \in Providers
  <2>1. Matches(v, k, p, t.token)
    BY DEF Renewed
  <2>2. v \in Providers \cup {"none"}
    BY <1>1, <1>2 DEF ProviderOf, ProcsTyped, Providers
  <2> QED
    BY <2>1, <2>2 DEF Matches, Providers
<1>4. store' = [store EXCEPT ![v][k].left = Ttl]
  BY DEF Renewed
<1>5. /\ UNCHANGED <<backend, files, issued, redisUp, alive, exec, stageLocks, owners>>
      /\ timers' = [timers EXCEPT ![p] = (@ \ {t}) \cup {[t EXCEPT !.due = FALSE, !.failures = 0]}]
  BY DEF Renewed
<1> HIDE DEF v, k
<1>6. /\ store' \in [Providers -> [Locks -> Entry]]
      /\ store'[v][k] = [store[v][k] EXCEPT !.left = Ttl]
      /\ \A w \in Providers, l \in Locks : w # v \/ l # k => store'[w][l] = store[w][l]
  BY <1>1, <1>2, <1>3, <1>4, RefreshTyped
<1>7. store[v][k] \in Entry
  BY <1>1, <1>2, <1>3 DEF StoreTyped
<1>8. store'[v][k].worker = store[v][k].worker
  BY <1>6, <1>7 DEF Entry
<1>9. timers' \in [Procs -> SUBSET TimerType]
  <2>1. 0 \in 0 .. 3
    OBVIOUS
  <2> QED
    BY <1>1, <1>5, <2>1, TimerTyped
<1>10. StoreTyped' /\ ProcsTyped'
  BY <1>1, <1>5, <1>6, <1>9 DEF StoreTyped, ProcsTyped
<1>11. \A w \in Providers, l \in Locks : Released(w, l)
  BY <1>6, <1>8 DEF Released
<1> QED
  BY <1>10, <1>11, Parts DEF Fenced

LEMMA NotRenewedFenced ==
    ASSUME TypeOK, NEW p \in Procs, NEW t \in timers[p], NotRenewed(p, t)
    PROVE  Fenced
<1> DEFINE n == IF t.failures < 3 THEN t.failures + 1 ELSE 3
<1>1. ProcsTyped /\ StoreTyped
  BY Parts
<1>2. n \in 0 .. 3
  BY <1>1 DEF ProcsTyped, TimerType
<1>3. timers' = [timers EXCEPT ![p] = (@ \ {t}) \cup {[t EXCEPT !.due = FALSE, !.failures = n]}]
  BY DEF NotRenewed
<1>4. exec' \in [Execs -> ExecType]
  <2>1. \A e \in Execs : exec[e] \in ExecType /\ [exec[e] EXCEPT !.aborted = TRUE] \in ExecType
    BY <1>1 DEF ProcsTyped, ExecType
  <2> QED
    BY <2>1 DEF NotRenewed
<1> HIDE DEF n
<1>5. timers' \in [Procs -> SUBSET TimerType]
  BY <1>1, <1>2, <1>3, TimerTyped
<1>6. ProcsTyped' /\ redisUp' \in BOOLEAN
  BY <1>1, <1>4, <1>5 DEF NotRenewed, ProcsTyped, StoreTyped
<1> QED
  BY <1>6, StoreKept DEF NotRenewed

\* An unlock frees the entry that has its token, or nothing.
LEMMA UnlockedIs ==
    ASSUME TypeOK, NEW p \in Procs, NEW k \in Locks, NEW token, NEW arrives \in BOOLEAN,
           Unlocked(p, k, token, arrives)
    PROVE  /\ store' \in [Providers -> [Locks -> Entry]]
           /\ \A w \in Providers, l \in Locks :
                 \/ store'[w][l] = store[w][l]
                 \/ /\ w = ProviderOf(p, k) /\ l = k /\ store'[w][l] = Free
                    /\ Held(w, p, k) /\ store[w][k].token = token
<1> DEFINE v == ProviderOf(p, k)
<1>1. StoreTyped /\ ProcsTyped
  BY Parts
<1>2. v \in Providers \cup {"none"}
  BY <1>1 DEF ProviderOf, ProcsTyped, Providers
<1>3. CASE arrives /\ Matches(v, k, p, token)
  <2>1. v \in Providers /\ Held(v, p, k) /\ store[v][k].token = token
    BY <1>2, <1>3 DEF Matches, LuaFinds, Providers
  <2>2. store' = [store EXCEPT ![v][k] = Free]
    BY <1>3 DEF Unlocked
  <2> HIDE DEF v
  <2>3. /\ store' \in [Providers -> [Locks -> Entry]] /\ store'[v][k] = Free
        /\ \A w \in Providers, l \in Locks : w # v \/ l # k => store'[w][l] = store[w][l]
    BY <1>1, <2>1, <2>2, PutTyped, FreeTyped
  <2>4. v = ProviderOf(p, k)
    BY DEF v
  <2> QED
    BY <2>1, <2>3, <2>4
<1>4. CASE ~(arrives /\ Matches(v, k, p, token))
  <2>1. store' = store
    BY <1>4 DEF Unlocked
  <2> QED
    BY <1>1, <2>1 DEF StoreTyped
<1> QED
  BY <1>3, <1>4

LEMMA OnwardTyped ==
    ASSUME ProcsTyped, NEW p \in Procs, NEW r \in Runs, Onward(p, r)
    PROVE  exec' \in [Execs -> ExecType]
<1> DEFINE e == <<p, r>>
           x == exec[e]
           next == IF ~x.aborted /\ x.stage + 1 \in Stages
                   THEN [x EXCEPT !.at = "locking", !.stage = x.stage + 1] ELSE [x EXCEPT !.at = "ending"]
<1>1. e \in Execs /\ x \in ExecType
  BY LockTyped
<1>2. next \in ExecType
  BY <1>1 DEF ExecType
<1>3. exec' = [exec EXCEPT ![e] = next]
  BY DEF Onward
<1> HIDE DEF next, e
<1> QED
  BY <1>1, <1>2, <1>3, ExecTyped

LEMMA EndStageFenced ==
    ASSUME TypeOK, NEW p \in Procs, NEW r \in Runs, EndStage(p, r)
    PROVE  Fenced
<1> DEFINE k == Lock(p, r)
<1>1. StoreTyped /\ ProcsTyped /\ k \in Locks
  BY Parts, LockTyped
<1>2. PICK i \in stageLocks[p], arrives \in {TRUE, AnswersArrive} :
         i.lock = k /\ Unlocked(p, k, i.token, arrives) /\ stageLocks' = [stageLocks EXCEPT ![p] = @ \ {i}]
  BY DEF EndStage
<1>3. arrives \in BOOLEAN
  BY StageLockAssumption
<1>4. UNCHANGED <<backend, files, issued, redisUp, alive>> /\ owners' = [owners EXCEPT ![p][k] = "none"]
      /\ timers' = [timers EXCEPT ![p] = {t \in @ : t.lock # k}]
  BY DEF EndStage
<1>5. exec' \in [Execs -> ExecType]
  BY <1>1, OnwardTyped DEF EndStage
<1> HIDE DEF k
<1>6. /\ store' \in [Providers -> [Locks -> Entry]]
      /\ \A w \in Providers, l \in Locks :
            \/ store'[w][l] = store[w][l]
            \/ /\ w = ProviderOf(p, k) /\ l = k /\ store'[w][l] = Free
               /\ Held(w, p, k) /\ store[w][k].token = i.token
  BY <1>1, <1>2, <1>3, UnlockedIs
<1>7. StoreTyped'
  BY <1>1, <1>4, <1>6 DEF StoreTyped
<1>8. ProcsTyped'
  BY <1>1, <1>2, <1>4, <1>5 DEF ProcsTyped
<1>9. ASSUME NEW w \in Providers, NEW l \in Locks
      PROVE  Released(w, l)
  <2>1. CASE store'[w][l] = store[w][l]
    BY <2>1 DEF Released
  <2>2. CASE l = k /\ store'[w][l] = Free /\ Held(w, p, k) /\ store[w][k].token = i.token
    <3>1. i \in stageLocks[p] \ stageLocks'[p]
      BY <1>1, <1>2 DEF ProcsTyped
    <3>2. Id(w, p) = store[w][l].worker /\ i.lock = l /\ i.token = store[w][l].token
      BY <1>2, <2>2 DEF Held
    <3> QED
      BY <2>2, <3>1, <3>2 DEF Released
  <2> QED
    BY <1>6, <2>1, <2>2
<1> QED
  BY <1>7, <1>8, <1>9, Parts DEF Fenced

LEMMA EndStageForgottenFenced ==
    ASSUME TypeOK, NEW p \in Procs, NEW r \in Runs, EndStageForgotten(p, r)
    PROVE  Fenced
<1>1. StoreTyped /\ ProcsTyped
  BY Parts
<1>2. exec' \in [Execs -> ExecType]
  BY <1>1, OnwardTyped DEF EndStageForgotten
<1>3. ProcsTyped' /\ redisUp' \in BOOLEAN
  BY <1>1, <1>2 DEF EndStageForgotten, ProcsTyped, StoreTyped
<1> QED
  BY <1>3, StoreKept DEF EndStageForgotten

LEMMA EndRunFenced ==
    ASSUME TypeOK, NEW p \in Procs, NEW r \in Runs, EndRun(p, r)
    PROVE  Fenced
<1>1. StoreTyped /\ ProcsTyped /\ <<p, r>> \in Execs
  BY Parts, LockTyped
<1>2. exec' \in [Execs -> ExecType]
  BY <1>1, IdleTyped, ExecTyped DEF EndRun
<1>3. stageLocks' \in [Procs -> SUBSET TokenType] /\ timers' \in [Procs -> SUBSET TimerType]
  BY <1>1 DEF EndRun, ProcsTyped
<1>4. owners' \in [Procs -> [Locks -> Providers \cup {"none"}]]
  <2> DEFINE o == [k \in Locks |-> IF \E i \in stageLocks[p] : k = <<r, i.lock[2]>> THEN "none" ELSE owners[p][k]]
  <2>1. o \in [Locks -> Providers \cup {"none"}]
    BY <1>1 DEF ProcsTyped
  <2>2. owners' = [owners EXCEPT ![p] = o]
    BY DEF EndRun
  <2> HIDE DEF o
  <2> QED
    BY <1>1, <2>1, <2>2 DEF ProcsTyped
<1>5. ProcsTyped' /\ redisUp' \in BOOLEAN
  BY <1>1, <1>2, <1>3, <1>4 DEF EndRun, ProcsTyped, StoreTyped
<1> QED
  BY <1>5, StoreKept DEF EndRun

LEMMA CrashFenced ==
    ASSUME TypeOK, NEW p \in Procs, Crash(p)
    PROVE  Fenced
<1>1. StoreTyped /\ ProcsTyped
  BY Parts
<1>2. exec' \in [Execs -> ExecType]
  BY <1>1, IdleTyped DEF Crash, ProcsTyped
<1>3. stageLocks' \in [Procs -> SUBSET TokenType] /\ timers' \in [Procs -> SUBSET TimerType]
  BY <1>1 DEF Crash, ProcsTyped
<1>4. owners' \in [Procs -> [Locks -> Providers \cup {"none"}]]
  BY <1>1 DEF Crash, ProcsTyped
<1>5. ProcsTyped' /\ redisUp' \in BOOLEAN
  BY <1>1, <1>2, <1>3, <1>4 DEF Crash, ProcsTyped, StoreTyped
<1> QED
  BY <1>5, StoreKept DEF Crash

LEMMA RedisChangesFenced ==
    ASSUME TypeOK, RedisChanges
    PROVE  Fenced
<1>1. ProcsTyped' /\ redisUp' \in BOOLEAN
  BY Parts DEF RedisChanges, ProcsTyped, procVars, StoreTyped
<1> QED
  BY <1>1, StoreKept DEF RedisChanges

LEMMA AgedIs ==
    ASSUME NEW x \in Entry
    PROVE  /\ Aged(x) \in Entry
           /\ x.left > 1 => Aged(x) = [x EXCEPT !.left = x.left - 1]
<1>1. x.left \in Nat /\ x.left \in 0 .. Ttl /\ Ttl \in Nat
  BY StageLockAssumption DEF Entry
<1>2. CASE x.left <= 1
  BY <1>1, <1>2, FreeTyped DEF Aged
<1>3. CASE ~(x.left <= 1)
  <2>1. Aged(x) = [x EXCEPT !.left = x.left - 1]
    BY <1>3 DEF Aged
  <2>2. x.left - 1 \in 0 .. Ttl
    BY <1>1, <1>3
  <2> QED
    BY <2>1, <2>2 DEF Entry
<1> QED
  BY <1>2, <1>3

LEMMA TickFenced ==
    ASSUME TypeOK, Tick
    PROVE  Fenced
<1>1. StoreTyped /\ ProcsTyped
  BY Parts
<1>2. store' = [v \in Providers |-> [k \in Locks |-> Aged(store[v][k])]]
      /\ timers' = [p \in Procs |-> {[t EXCEPT !.due = TRUE] : t \in timers[p]}]
      /\ UNCHANGED <<backend, files, issued, redisUp, alive, exec, stageLocks, owners>>
  BY DEF Tick
<1>3. \A v \in Providers, k \in Locks : store[v][k] \in Entry /\ store'[v][k] = Aged(store[v][k])
  BY <1>1, <1>2 DEF StoreTyped
<1>4. store' \in [Providers -> [Locks -> Entry]]
  BY <1>2, <1>3, AgedIs
<1>5. timers' \in [Procs -> SUBSET TimerType]
  <2>1. \A p \in Procs : \A t \in timers[p] : [t EXCEPT !.due = TRUE] \in TimerType
    <3>1. TRUE \in BOOLEAN /\ 0 \in 0 .. 3 /\ \A p \in Procs : timers[p] \subseteq TimerType
      BY <1>1 DEF ProcsTyped
    <3> QED
      BY <3>1, TimerIs
  <2> QED
    BY <1>2, <2>1
<1>6. StoreTyped' /\ ProcsTyped'
  BY <1>1, <1>2, <1>4, <1>5 DEF StoreTyped, ProcsTyped
<1>7. ASSUME NEW v \in Providers, NEW k \in Locks, store[v][k].left > 1
      PROVE  store'[v][k].worker = store[v][k].worker
  <2>1. store[v][k] \in Entry /\ store'[v][k] = [store[v][k] EXCEPT !.left = store[v][k].left - 1]
    BY <1>3, <1>7, AgedIs
  <2> QED
    BY <2>1 DEF Entry
<1>8. \A v \in Providers, k \in Locks : Released(v, k)
  BY <1>7 DEF Released
<1> QED
  BY <1>6, <1>8, Parts DEF Fenced

LEMMA NextFenced ==
    ASSUME TypeOK, [Next]_vars
    PROVE  Fenced
<1>1. ASSUME NEW p \in Procs, NEW r \in Runs,
             \/ Begin(p, r) \/ TakeFree(p, r) \/ TakeOwn(p, r) \/ Refused(p, r) \/ AnswerLost(p, r)
             \/ EndStage(p, r) \/ EndStageForgotten(p, r) \/ EndRun(p, r)
      PROVE  Fenced
  BY <1>1, BeginFenced, TakeFreeFenced, TakeOwnFenced, RefusedFenced, AnswerLostFenced,
     EndStageFenced, EndStageForgottenFenced, EndRunFenced
<1>2. ASSUME NEW p \in Procs, Heartbeat(p) \/ Crash(p)
      PROVE  Fenced
  BY <1>2, RenewedFenced, NotRenewedFenced, CrashFenced DEF Heartbeat
<1>3. CASE UNCHANGED vars
  <2>1. ProcsTyped' /\ redisUp' \in BOOLEAN
    BY <1>3, Parts DEF vars, procVars, ProcsTyped, StoreTyped
  <2> QED
    BY <1>3, <2>1, StoreKept DEF vars
<1> QED
  BY <1>1, <1>2, <1>3, RedisChangesFenced, TickFenced DEF Next

\* The locks, the orchestrators and the lock providers are what their variables say.
THEOREM StageLockTypeCorrect == Spec => []TypeOK
<1>1. TypeOK /\ [Next]_vars => TypeOK'
  BY NextFenced DEF Fenced
<1> QED
  BY <1>1, InitTyped, PTL DEF Spec

\* Whatever the backend, however late timers and unlocks are, and whichever answers are
\* lost: a live lock is taken from its worker by nobody else (unlockWithFence,
\* renewLockWithFence).
THEOREM FenceHolds == Spec => OnlyHolderReleases
<1>1. TypeOK /\ [Next]_vars =>
        \A v \in Providers, k \in Locks :
           store[v][k].left > 1 =>
              \/ store'[v][k].worker = store[v][k].worker
              \/ /\ store'[v][k] = Free
                 /\ \E p \in Procs : \E i \in stageLocks[p] \ stageLocks'[p] :
                       Id(v, p) = store[v][k].worker /\ i.lock = k /\ i.token = store[v][k].token
  BY NextFenced DEF Fenced, Released
<1> QED
  BY <1>1, StageLockTypeCorrect, PTL DEF Spec, OnlyHolderReleases

-----------------------------------------------------------------------------
(* Mutual exclusion.                                                        *)

\* Where the locks exclude: one run per process, so that the end of another does not
\* take its timers away; the table, which no pid shares; statements that have no
\* effect when they fail; timers in time, and a TTL that outlasts the failures after
\* which a run is aborted.
Steady ==
    /\ Backends \subseteq {"postgres", "sqlite"} /\ ~SamePid
    /\ AnswersArrive /\ Timely /\ Ttl > 3
    /\ \A q, r \in Runs : q = r

\* A process at work has one entry and one timer, for the lock it works under; the time
\* left and the failures counted make up the TTL, and the third failure has told it.
Holds(p, r, i, t) ==
    LET k == Lock(p, r)
        x == store["db"][k]
    IN  /\ stageLocks[p] = {i} /\ timers[p] = {t}
        /\ i.lock = k /\ t.lock = k /\ i.token = x.token
        /\ x.worker = p /\ x.left + t.failures + (IF t.due THEN 1 ELSE 0) >= Ttl
        /\ t.failures = 3 => exec[<<p, r>>].aborted /\ ~t.due

HasWhatItNeeds(p) ==
    \A r \in Runs :
        IF exec[<<p, r>>].at = "working"
        THEN \E i \in stageLocks[p], t \in timers[p] : Holds(p, r, i, t)
        ELSE stageLocks[p] = {} /\ timers[p] = {}

\* A live entry is that of a process at work, or of a dead one, which does nothing.
Accounted ==
    /\ \A p \in Procs, k \in Locks :
          store["db"][k].left > 0 /\ store["db"][k].worker = p =>
             p \notin alive \/ \E r \in Runs : Works(<<p, r>>, k)
    /\ \A p \in Procs \ alive, r \in Runs : exec[<<p, r>>].at = "idle"

\* The inductive invariant.
Excluding == TypeOK /\ Accounted /\ \A p \in Procs : HasWhatItNeeds(p)


LEMMA DatabaseOnly ==
    ASSUME Steady, TypeOK
    PROVE  /\ backend # "redis" /\ "db" \in Providers
           /\ \A p \in Procs : Id("db", p) = p
           /\ \A p \in Procs, k \in Locks : ProviderOf(p, k) = "db"
           /\ \A e \in Execs : Asked(e) = "db"
BY DEF Steady, TypeOK, Id, ProviderOf, Asked, Providers

LEMMA HoldsLive ==
    ASSUME Steady, TypeOK, NEW p \in Procs, NEW r \in Runs, NEW i \in stageLocks[p], NEW t \in timers[p],
           Holds(p, r, i, t)
    PROVE  /\ Lock(p, r) \in Locks /\ t \in TimerType
           /\ store["db"][Lock(p, r)] \in Entry
           /\ store["db"][Lock(p, r)].left > 0 /\ store["db"][Lock(p, r)].worker = p
<1>1. Lock(p, r) \in Locks /\ t \in TimerType
  BY Parts, LockTyped DEF ProcsTyped
<1>2. store["db"][Lock(p, r)] \in Entry
  BY <1>1, Parts DEF StoreTyped, Providers
<1>3. store["db"][Lock(p, r)].left \in Nat /\ Ttl \in Nat /\ t.failures \in 0 .. 3
  BY <1>1, <1>2, StageLockAssumption DEF Entry, TimerType
<1> QED
  BY <1>1, <1>2, <1>3 DEF Holds, Steady

\* What a step leaves a process that takes no part in it.
LEMMA Untouched ==
    ASSUME Steady, TypeOK, NEW q \in Procs, HasWhatItNeeds(q),
           stageLocks'[q] = stageLocks[q], timers'[q] = timers[q],
           \A r \in Runs : exec'[<<q, r>>] = exec[<<q, r>>],
           \A k \in Locks : store["db"][k].left > 0 /\ store["db"][k].worker = q
                               => store'["db"][k] = store["db"][k]
    PROVE  HasWhatItNeeds(q)'
<1> SUFFICES ASSUME NEW r \in Runs
             PROVE  IF exec'[<<q, r>>].at = "working"
                    THEN \E i \in stageLocks'[q], t \in timers'[q] : Holds(q, r, i, t)'
                    ELSE stageLocks'[q] = {} /\ timers'[q] = {}
  BY DEF HasWhatItNeeds
<1>1. CASE exec[<<q, r>>].at = "working"
  <2>1. PICK i \in stageLocks[q], t \in timers[q] : Holds(q, r, i, t)
    BY <1>1 DEF HasWhatItNeeds
  <2>2. store'["db"][Lock(q, r)] = store["db"][Lock(q, r)]
    BY <2>1, HoldsLive
  <2>3. Lock(q, r)' = Lock(q, r)
    BY DEF Lock
  <2>4. Holds(q, r, i, t)'
    BY <2>1, <2>2, <2>3 DEF Holds
  <2> QED
    BY <1>1, <2>4
<1>2. CASE exec[<<q, r>>].at # "working"
  BY <1>2 DEF HasWhatItNeeds
<1> QED
  BY <1>1, <1>2

\* What is left to show of a step, its types being known.
Excludes == Accounted' /\ \A p \in Procs : HasWhatItNeeds(p)'

\* An execution that does not work moves to where it does not work either.
LEMMA QuietExcludes ==
    ASSUME Steady, Excluding, NEW p \in alive, NEW r \in Runs, exec[<<p, r>>].at # "working",
           NEW x, x.at # "working", exec' = [exec EXCEPT ![<<p, r>>] = x],
           UNCHANGED <<store, alive, stageLocks, timers>>
    PROVE  Excludes
<1>1. TypeOK /\ p \in Procs /\ <<p, r>> \in Execs /\ exec \in [Execs -> ExecType]
  BY Parts, LockTyped DEF Excluding, ProcsTyped
<1>2. \A q \in Procs, s \in Runs : <<q, s>> \in Execs /\ (q # p => exec'[<<q, s>>] = exec[<<q, s>>])
  BY <1>1 DEF Execs
<1>3. exec'[<<p, r>>] = x /\ \A s \in Runs : s = r
  BY <1>1 DEF Steady
<1>4. \A q \in Procs : q # p => HasWhatItNeeds(q)'
  BY <1>1, <1>2, Untouched DEF Excluding
<1>5. HasWhatItNeeds(p)'
  BY <1>1, <1>3 DEF HasWhatItNeeds, Excluding
<1>6. Accounted'
  <2>1. ASSUME NEW q \in Procs, NEW k \in Locks, store["db"][k].left > 0, store["db"][k].worker = q,
               q \in alive
        PROVE  \E s \in Runs : Works(<<q, s>>, k)'
    <3>1. PICK s \in Runs : Works(<<q, s>>, k)
      BY <2>1 DEF Excluding, Accounted
    <3>2. q # p
      BY <1>3, <3>1 DEF Works
    <3>3. Works(<<q, s>>, k)'
      BY <1>2, <3>1, <3>2 DEF Works
    <3> QED
      BY <3>3
  <2>2. \A q \in Procs \ alive, s \in Runs : exec'[<<q, s>>].at = "idle"
    BY <1>2 DEF Excluding, Accounted
  <2> QED
    BY <2>1, <2>2 DEF Accounted
<1> QED
  BY <1>4, <1>5, <1>6 DEF Excludes

\* Who is not idle is alive.
LEMMA Active ==
    ASSUME Excluding, NEW p \in Procs, NEW r \in Runs, exec[<<p, r>>].at # "idle"
    PROVE  p \in alive
BY DEF Excluding, Accounted

LEMMA BeginExcludes ==
    ASSUME Steady, Excluding, NEW p \in Procs, NEW r \in Runs, Begin(p, r)
    PROVE  Excludes
<1> DEFINE x == [Idle EXCEPT !.at = "locking"]
<1>1. x.at = "locking"
  BY DEF Idle
<1>2. /\ p \in alive /\ exec[<<p, r>>].at = "idle" /\ exec' = [exec EXCEPT ![<<p, r>>] = x]
      /\ UNCHANGED <<store, alive, stageLocks, timers>>
  BY DEF Begin
<1> HIDE DEF x
<1> QED
  BY <1>1, <1>2, QuietExcludes

LEMMA RefusedExcludes ==
    ASSUME Steady, Excluding, NEW p \in Procs, NEW r \in Runs, Refused(p, r)
    PROVE  Excludes
<1> DEFINE x == [exec[<<p, r>>] EXCEPT !.at = "ending"]
<1>1. <<p, r>> \in Execs /\ exec[<<p, r>>] \in ExecType /\ Asked(<<p, r>>) = "db"
  BY Parts, LockTyped, DatabaseOnly DEF Excluding
<1>2. x.at = "ending"
  BY <1>1 DEF ExecType
<1>3. exec[<<p, r>>].at \in {"locking", "falling"} /\ UNCHANGED <<store, alive, stageLocks, timers>>
  BY DEF Refused, Asking
<1>4. exec' = [exec EXCEPT ![<<p, r>>] = x]
  BY <1>1 DEF Refused, GoesOn
<1> HIDE DEF x
<1> QED
  BY <1>2, <1>3, <1>4, Active, QuietExcludes

LEMMA EndRunExcludes ==
    ASSUME Steady, Excluding, NEW p \in Procs, NEW r \in Runs, EndRun(p, r)
    PROVE  Excludes
<1>1. exec[<<p, r>>].at = "ending" /\ exec' = [exec EXCEPT ![<<p, r>>] = Idle] /\ UNCHANGED <<store, alive>>
  BY DEF EndRun
<1>2. stageLocks[p] = {} /\ timers[p] = {}
  BY <1>1 DEF Excluding, HasWhatItNeeds
<1>3. UNCHANGED <<stageLocks, timers>>
  <2>1. stageLocks' = [stageLocks EXCEPT ![p] = {}] /\ timers' = [timers EXCEPT ![p] = {}]
    BY DEF EndRun
  <2> QED
    BY <1>2, <2>1, Parts DEF Excluding, ProcsTyped
<1> QED
  BY <1>1, <1>3, IdleTyped, Active, QuietExcludes

LEMMA TakeFreeExcludes ==
    ASSUME Steady, Excluding, NEW p \in Procs, NEW r \in Runs, TakeFree(p, r)
    PROVE  Excludes
<1>a. PICK k : k = Lock(p, r)
  OBVIOUS
<1>b. PICK token : token = issued + 1
  OBVIOUS
<1> DEFINE x == [worker |-> p, token |-> token, left |-> Ttl]
           i == [lock |-> k, token |-> token]
           t == [lock |-> k, token |-> token, failures |-> 0, due |-> FALSE]
<1>1. /\ TypeOK /\ StoreTyped /\ ProcsTyped /\ k \in Locks /\ <<p, r>> \in Execs
      /\ exec[<<p, r>>] \in ExecType /\ k = <<r, exec[<<p, r>>].stage>>
  BY <1>a, Parts, LockTyped DEF Excluding
<1>2. Asked(<<p, r>>) = "db" /\ Id("db", p) = p /\ "db" \in Providers
  BY <1>1, DatabaseOnly
<1>3. /\ exec[<<p, r>>].at \in {"locking", "falling"} /\ store["db"][k].left = 0
      /\ store' = [store EXCEPT !["db"][k] = x] /\ Acquired(p, r, "db", token)
  BY <1>a, <1>b, <1>2 DEF TakeFree, Takeable, Asking
<1>4. stageLocks[p] = {} /\ timers[p] = {} /\ p \in alive
  BY <1>3, Active DEF Excluding, HasWhatItNeeds
<1>5. /\ stageLocks'[p] = {i} /\ \A q \in Procs : q # p => stageLocks'[q] = stageLocks[q]
      /\ timers'[p] = {t} /\ \A q \in Procs : q # p => timers'[q] = timers[q]
  <2>1. stageLocks' = [stageLocks EXCEPT ![p] = {j \in @ : j.lock # k} \cup {i}]
    BY <1>a, <1>3 DEF Acquired
  <2>2. timers' = [timers EXCEPT ![p] = IF \E u \in @ : u.lock = k THEN @ ELSE @ \cup {t}]
    BY <1>a, <1>3 DEF Acquired
  <2> HIDE DEF i, t
  <2> QED
    BY <1>1, <1>4, <2>1, <2>2 DEF ProcsTyped
<1>6. /\ exec'[<<p, r>>] = [exec[<<p, r>>] EXCEPT !.at = "working"] /\ alive' = alive
      /\ \A q \in Procs, s \in Runs : q # p => exec'[<<q, s>>] = exec[<<q, s>>]
  BY <1>1, <1>3 DEF Acquired, ProcsTyped, Execs
<1>7. exec'[<<p, r>>].at = "working" /\ exec'[<<p, r>>].stage = exec[<<p, r>>].stage
  BY <1>1, <1>6 DEF ExecType
<1>8. store'["db"][k] = x /\ \A l \in Locks : l # k => store'["db"][l] = store["db"][l]
  <2> HIDE DEF x
  <2> QED
    BY <1>1, <1>2, <1>3 DEF StoreTyped
<1>9. \A s \in Runs : s = r
  BY DEF Steady
<1>10. HasWhatItNeeds(p)'
  <2>1. Lock(p, r)' = k
    BY <1>1, <1>7 DEF Lock
  <2>2. t.lock = k /\ t.failures = 0 /\ ~t.due /\ i.lock = k /\ i.token = token
        /\ x.worker = p /\ x.token = token /\ x.left = Ttl /\ Ttl \in Nat
    BY StageLockAssumption
  <2> HIDE DEF i, t, x
  <2>3. Holds(p, r, i, t)'
    BY <1>5, <1>8, <2>1, <2>2 DEF Holds
  <2> QED
    BY <1>5, <1>7, <1>9, <2>3 DEF HasWhatItNeeds
<1>11. \A q \in Procs : q # p => HasWhatItNeeds(q)'
  <2>1. \A l \in Locks : store["db"][l].left > 0 => store'["db"][l] = store["db"][l]
    BY <1>1, <1>3, <1>8
  <2> QED
    BY <1>1, <1>5, <1>6, <2>1, Untouched DEF Excluding
<1>12. Accounted'
  <2>1. ASSUME NEW q \in Procs, NEW l \in Locks, store'["db"][l].left > 0, store'["db"][l].worker = q,
               q \in alive
        PROVE  \E s \in Runs : Works(<<q, s>>, l)'
    <3>1. CASE l = k
      <4>1. q = p
        BY <1>8, <2>1, <3>1
      <4>2. Works(<<p, r>>, k)'
        BY <1>1, <1>7 DEF Works
      <4> QED
        BY <3>1, <4>1, <4>2
    <3>2. CASE l # k
      <4>1. PICK s \in Runs : Works(<<q, s>>, l)
        BY <1>8, <2>1, <3>2 DEF Excluding, Accounted
      <4>2. q # p
        BY <1>3, <1>9, <4>1 DEF Works
      <4>3. Works(<<q, s>>, l)'
        BY <1>6, <4>1, <4>2 DEF Works
      <4> QED
        BY <4>3
    <3> QED
      BY <3>1, <3>2
  <2>2. \A q \in Procs \ alive, s \in Runs : exec'[<<q, s>>].at = "idle"
    BY <1>4, <1>6 DEF Excluding, Accounted
  <2> QED
    BY <1>6, <2>1, <2>2 DEF Accounted
<1> QED
  BY <1>10, <1>11, <1>12 DEF Excludes

\* Who asks for a lock holds none.
LEMMA TakeOwnNever ==
    ASSUME Steady, Excluding, NEW p \in Procs, NEW r \in Runs, TakeOwn(p, r)
    PROVE  FALSE
<1>1. TypeOK /\ Lock(p, r) \in Locks /\ <<p, r>> \in Execs
  BY Parts, LockTyped DEF Excluding
<1>2. Asked(<<p, r>>) = "db" /\ Id("db", p) = p
  BY <1>1, DatabaseOnly
<1>3. /\ exec[<<p, r>>].at \in {"locking", "falling"}
      /\ store["db"][Lock(p, r)].left > 0 /\ store["db"][Lock(p, r)].worker = p
  BY <1>2 DEF TakeOwn, Asking, Held
<1>4. PICK s \in Runs : Works(<<p, s>>, Lock(p, r))
  BY <1>1, <1>3, Active DEF Excluding, Accounted
<1> QED
  BY <1>3, <1>4 DEF Works, Steady

\* A timer is that of the one stage its process works in.
LEMMA TimerOfWork ==
    ASSUME Steady, Excluding, NEW p \in Procs, NEW t \in timers[p]
    PROVE  /\ t \in TimerType /\ t.lock \in Locks
           /\ \E r \in Runs : /\ exec[<<p, r>>].at = "working" /\ Lock(p, r) = t.lock
                              /\ \E i \in stageLocks[p] : Holds(p, r, i, t)
<1>1. t \in TimerType /\ t.lock \in Locks
  BY Parts DEF Excluding, ProcsTyped, TimerType
<1>2. PICK r \in Runs : r = t.lock[1]
  BY <1>1 DEF Locks
<1>3. exec[<<p, r>>].at = "working"
  BY DEF Excluding, HasWhatItNeeds
<1>4. PICK i \in stageLocks[p], u \in timers[p] : Holds(p, r, i, u)
  BY <1>3 DEF Excluding, HasWhatItNeeds
<1>5. u = t /\ t.lock = Lock(p, r)
  BY <1>4 DEF Holds
<1> QED
  BY <1>1, <1>3, <1>4, <1>5

\* A step that leaves everybody in place: nobody starts, stops or moves on, and no entry
\* comes to life or changes its worker.
LEMMA AccountKept ==
    ASSUME Excluding, alive' = alive,
           \A q \in Procs, s \in Runs :
              exec'[<<q, s>>].at = exec[<<q, s>>].at /\ exec'[<<q, s>>].stage = exec[<<q, s>>].stage,
           \A k \in Locks : store'["db"][k].left > 0 =>
              store["db"][k].left > 0 /\ store'["db"][k].worker = store["db"][k].worker
    PROVE  Accounted'
<1>1. ASSUME NEW q \in Procs, NEW k \in Locks, store'["db"][k].left > 0, store'["db"][k].worker = q,
             q \in alive
      PROVE  \E s \in Runs : Works(<<q, s>>, k)'
  <2>1. PICK s \in Runs : Works(<<q, s>>, k)
    BY <1>1 DEF Excluding, Accounted
  <2>2. Works(<<q, s>>, k)'
    BY <2>1 DEF Works
  <2> QED
    BY <2>2
<1>2. \A q \in Procs \ alive, s \in Runs : exec'[<<q, s>>].at = "idle"
  BY DEF Excluding, Accounted
<1> QED
  BY <1>1, <1>2 DEF Accounted

LEMMA RenewedExcludes ==
    ASSUME Steady, Excluding, NEW p \in Procs, NEW t \in timers[p], Renewed(p, t)
    PROVE  Excludes
<1> DEFINE k == t.lock
           u == [t EXCEPT !.due = FALSE, !.failures = 0]
<1>1. TypeOK /\ StoreTyped /\ ProcsTyped /\ t \in TimerType /\ k \in Locks
  BY Parts, TimerOfWork DEF Excluding
<1>2. PICK r \in Runs, i \in stageLocks[p] :
         exec[<<p, r>>].at = "working" /\ Lock(p, r) = k /\ Holds(p, r, i, t)
  BY TimerOfWork
<1>3. /\ store' = [store EXCEPT !["db"][k].left = Ttl]
      /\ timers' = [timers EXCEPT ![p] = (@ \ {t}) \cup {u}]
      /\ UNCHANGED <<alive, exec, stageLocks>>
  BY <1>1, DatabaseOnly DEF Renewed
<1>4. store["db"][k] \in Entry /\ "db" \in Providers
  BY <1>1 DEF StoreTyped, Providers
<1>5. /\ store'["db"][k].left = Ttl /\ store'["db"][k].worker = store["db"][k].worker
      /\ store'["db"][k].token = store["db"][k].token
      /\ \A l \in Locks : l # k => store'["db"][l] = store["db"][l]
  <2>1. store'["db"][k] = [store["db"][k] EXCEPT !.left = Ttl]
        /\ \A l \in Locks : l # k => store'["db"][l] = store["db"][l]
    BY <1>1, <1>3, <1>4, RefreshTyped
  <2> QED
    BY <1>4, <2>1 DEF Entry
<1>6. /\ u.lock = k /\ u.failures = 0 /\ ~u.due
  BY <1>1 DEF TimerType
<1>7. timers'[p] = {u} /\ \A q \in Procs : q # p => timers'[q] = timers[q]
  <2> HIDE DEF u
  <2> QED
    BY <1>1, <1>2, <1>3 DEF Holds, ProcsTyped
<1>8. store["db"][k].left > 0 /\ store["db"][k].worker = p
  BY <1>1, <1>2, HoldsLive
<1> HIDE DEF u, k
<1>9. HasWhatItNeeds(p)'
  <2>1. Lock(p, r)' = k
    BY <1>2, <1>3 DEF Lock
  <2>2. Ttl \in Nat
    BY StageLockAssumption
  <2>3. Holds(p, r, i, u)'
    BY <1>2, <1>3, <1>5, <1>6, <1>7, <2>1, <2>2 DEF Holds
  <2> QED
    BY <1>2, <1>3, <1>7, <2>3 DEF HasWhatItNeeds, Steady
<1>10. \A q \in Procs : q # p => HasWhatItNeeds(q)'
  BY <1>1, <1>3, <1>5, <1>7, <1>8, Untouched DEF Excluding
<1>11. Accounted'
  BY <1>3, <1>5, <1>8, AccountKept
<1> QED
  BY <1>9, <1>10, <1>11 DEF Excludes

LEMMA NotRenewedExcludes ==
    ASSUME Steady, Excluding, NEW p \in Procs, NEW t \in timers[p], NotRenewed(p, t)
    PROVE  Excludes
<1> DEFINE n == IF t.failures < 3 THEN t.failures + 1 ELSE 3
           u == [t EXCEPT !.due = FALSE, !.failures = n]
<1>1. TypeOK /\ StoreTyped /\ ProcsTyped /\ t \in TimerType /\ t.lock \in Locks
  BY Parts, TimerOfWork DEF Excluding
<1>2. PICK r \in Runs, i \in stageLocks[p] :
         exec[<<p, r>>].at = "working" /\ Lock(p, r) = t.lock /\ Holds(p, r, i, t)
  BY TimerOfWork
<1>3. /\ t.due /\ timers' = [timers EXCEPT ![p] = (@ \ {t}) \cup {u}]
      /\ UNCHANGED <<store, alive, stageLocks>>
  BY DEF NotRenewed
<1>4. n = t.failures + 1 /\ t.failures \in 0 .. 2 /\ n \in 0 .. 3
  BY <1>1, <1>2, <1>3 DEF Holds, TimerType
<1>5. \A e \in Execs :
         exec'[e] = IF n = 3 /\ e = <<p, t.lock[1]>> /\ (\E j \in stageLocks[p] : j.lock = t.lock)
                    THEN [exec[e] EXCEPT !.aborted = TRUE] ELSE exec[e]
  BY DEF NotRenewed
<1> HIDE DEF n
<1>6. u.lock = t.lock /\ u.failures = n /\ ~u.due
  BY <1>1 DEF TimerType
<1>7. timers'[p] = {u} /\ \A q \in Procs : q # p => timers'[q] = timers[q]
  <2> HIDE DEF u
  <2> QED
    BY <1>1, <1>2, <1>3 DEF Holds, ProcsTyped
<1>8. \A q \in Procs, s \in Runs :
         /\ <<q, s>> \in Execs /\ exec[<<q, s>>] \in ExecType
         /\ exec'[<<q, s>>].at = exec[<<q, s>>].at /\ exec'[<<q, s>>].stage = exec[<<q, s>>].stage
         /\ q # p => exec'[<<q, s>>] = exec[<<q, s>>]
  <2>1. \A q \in Procs, s \in Runs : <<q, s>> \in Execs /\ exec[<<q, s>>] \in ExecType
    BY <1>1 DEF Execs, ProcsTyped
  <2> QED
    BY <1>5, <2>1 DEF ExecType
<1>9. n = 3 => exec'[<<p, r>>].aborted
  <2>1. t.lock[1] = r
    BY <1>2 DEF Lock
  <2>2. i.lock = t.lock
    BY <1>2 DEF Holds
  <2>3. exec[<<p, r>>] \in ExecType /\ <<p, r>> \in Execs
    BY <1>8
  <2>4. n = 3 => exec'[<<p, r>>] = [exec[<<p, r>>] EXCEPT !.aborted = TRUE]
    BY <1>5, <2>1, <2>2, <2>3
  <2> QED
    BY <2>3, <2>4 DEF ExecType
<1> HIDE DEF u
<1>10. HasWhatItNeeds(p)'
  <2>1. Lock(p, r)' = t.lock
    BY <1>2, <1>8 DEF Lock
  <2>2. store["db"][t.lock] \in Entry
    BY <1>1 DEF StoreTyped, Providers
  <2>3. store["db"][t.lock].left \in Nat /\ Ttl \in Nat
    BY <2>2, StageLockAssumption DEF Entry
  <2>4. store["db"][t.lock].left + n >= Ttl
    BY <1>2, <1>3, <1>4, <2>3 DEF Holds
  <2>5. stageLocks[p] = {i} /\ i.lock = t.lock /\ i.token = store["db"][t.lock].token
        /\ store["db"][t.lock].worker = p
    BY <1>2 DEF Holds
  <2>6. Holds(p, r, i, u)'
    BY <1>3, <1>4, <1>6, <1>7, <1>9, <2>1, <2>3, <2>4, <2>5 DEF Holds
  <2> QED
    BY <1>2, <1>3, <1>7, <1>8, <2>6 DEF HasWhatItNeeds, Steady
<1>11. \A q \in Procs : q # p => HasWhatItNeeds(q)'
  BY <1>1, <1>3, <1>7, <1>8, Untouched DEF Excluding
<1>12. Accounted'
  BY <1>3, <1>8, AccountKept
<1> QED
  BY <1>10, <1>11, <1>12 DEF Excludes

\* The entry of a stage that works is there, and so is the row.
LEMMA AtWork ==
    ASSUME Steady, Excluding, NEW p \in Procs, NEW r \in Runs, exec[<<p, r>>].at = "working"
    PROVE  \E i \in stageLocks[p], t \in timers[p] : Holds(p, r, i, t)
BY DEF Excluding, HasWhatItNeeds

LEMMA EndStageExcludes ==
    ASSUME Steady, Excluding, NEW p \in Procs, NEW r \in Runs, EndStage(p, r)
    PROVE  Excludes
<1> DEFINE k == Lock(p, r)
<1>1. /\ TypeOK /\ StoreTyped /\ ProcsTyped /\ k \in Locks /\ <<p, r>> \in Execs
      /\ exec[<<p, r>>] \in ExecType
  BY Parts, LockTyped DEF Excluding
<1>2. exec[<<p, r>>].at = "working" /\ alive' = alive
  BY DEF EndStage
<1>3. PICK i \in stageLocks[p], t \in timers[p] : Holds(p, r, i, t)
  BY <1>2, AtWork
<1>4. store["db"][k].left > 0 /\ store["db"][k].worker = p
  BY <1>1, <1>3, HoldsLive
<1>5. Unlocked(p, k, i.token, TRUE) /\ stageLocks' = [stageLocks EXCEPT ![p] = @ \ {i}]
  BY <1>3 DEF EndStage, Steady, Holds
<1>6. store' = [store EXCEPT !["db"][k] = Free]
  <2>1. ProviderOf(p, k) = "db" /\ Id("db", p) = p
    BY <1>1, DatabaseOnly
  <2>2. Matches("db", k, p, i.token)
    BY <1>3, <1>4, <2>1 DEF Matches, Held, Holds
  <2> QED
    BY <1>5, <2>1, <2>2 DEF Unlocked
<1>7. stageLocks'[p] = {} /\ timers'[p] = {}
      /\ \A q \in Procs : q # p => stageLocks'[q] = stageLocks[q] /\ timers'[q] = timers[q]
  <2>1. timers' = [timers EXCEPT ![p] = {u \in @ : u.lock # k}]
    BY DEF EndStage
  <2>2. timers[p] = {t} /\ t.lock = k /\ stageLocks[p] = {i}
    BY <1>3 DEF Holds
  <2> HIDE DEF k
  <2> QED
    BY <1>1, <1>5, <2>1, <2>2 DEF ProcsTyped
<1>8. exec'[<<p, r>>].at # "working" /\ \A q \in Procs, s \in Runs : q # p => exec'[<<q, s>>] = exec[<<q, s>>]
  <2> DEFINE x    == exec[<<p, r>>]
             next == IF ~x.aborted /\ x.stage + 1 \in Stages
                     THEN [x EXCEPT !.at = "locking", !.stage = x.stage + 1] ELSE [x EXCEPT !.at = "ending"]
  <2>1. next.at \in {"locking", "ending"}
    BY <1>1 DEF ExecType
  <2>2. exec' = [exec EXCEPT ![<<p, r>>] = next]
    BY DEF EndStage, Onward
  <2> HIDE DEF next
  <2> QED
    BY <1>1, <2>1, <2>2 DEF ProcsTyped, Execs
<1> HIDE DEF k
<1>9. store'["db"][k] = Free /\ \A l \in Locks : l # k => store'["db"][l] = store["db"][l]
  BY <1>1, <1>6 DEF StoreTyped, Providers
<1>10. HasWhatItNeeds(p)'
  BY <1>7, <1>8 DEF HasWhatItNeeds, Steady
<1>11. \A q \in Procs : q # p => HasWhatItNeeds(q)'
  BY <1>1, <1>4, <1>7, <1>8, <1>9, Untouched DEF Excluding
<1>12. Accounted'
  <2>1. ASSUME NEW q \in Procs, NEW l \in Locks, store'["db"][l].left > 0, store'["db"][l].worker = q,
               q \in alive
        PROVE  \E s \in Runs : Works(<<q, s>>, l)'
    <3>1. l # k
      BY <1>9, <2>1, FreeTyped
    <3>2. PICK s \in Runs : Works(<<q, s>>, l)
      BY <1>9, <2>1, <3>1 DEF Excluding, Accounted
    <3>3. q # p
      BY <3>1, <3>2 DEF Works, Steady, Lock, k
    <3>4. Works(<<q, s>>, l)'
      BY <1>8, <3>2, <3>3 DEF Works
    <3> QED
      BY <3>4
  <2>2. p \in alive
    BY <1>2, Active
  <2>3. \A q \in Procs \ alive, s \in Runs : exec'[<<q, s>>].at = "idle"
    BY <1>8, <2>2 DEF Excluding, Accounted
  <2> QED
    BY <1>2, <2>1, <2>3 DEF Accounted
<1> QED
  BY <1>10, <1>11, <1>12 DEF Excludes

LEMMA EndStageForgottenNever ==
    ASSUME Steady, Excluding, NEW p \in Procs, NEW r \in Runs, EndStageForgotten(p, r)
    PROVE  FALSE
BY AtWork DEF EndStageForgotten, Holds

LEMMA CrashExcludes ==
    ASSUME Steady, Excluding, NEW p \in Procs, Crash(p)
    PROVE  Excludes
<1>1. TypeOK /\ ProcsTyped
  BY Parts DEF Excluding
<1>2. /\ alive' = alive \ {p} /\ store' = store
      /\ stageLocks'[p] = {} /\ timers'[p] = {}
      /\ \A q \in Procs : q # p => stageLocks'[q] = stageLocks[q] /\ timers'[q] = timers[q]
  BY <1>1 DEF Crash, ProcsTyped
<1>3. \A q \in Procs, s \in Runs :
         /\ q = p => exec'[<<q, s>>].at = "idle"
         /\ q # p => exec'[<<q, s>>] = exec[<<q, s>>]
  BY IdleTyped DEF Crash, Execs
<1>4. HasWhatItNeeds(p)'
  BY <1>2, <1>3 DEF HasWhatItNeeds
<1>5. \A q \in Procs : q # p => HasWhatItNeeds(q)'
  BY <1>1, <1>2, <1>3, Untouched DEF Excluding
<1>6. Accounted'
  <2>1. ASSUME NEW q \in Procs, NEW l \in Locks, store["db"][l].left > 0, store["db"][l].worker = q,
               q \in alive'
        PROVE  \E s \in Runs : Works(<<q, s>>, l)'
    <3>1. q \in alive /\ q # p
      BY <1>2, <2>1
    <3>2. PICK s \in Runs : Works(<<q, s>>, l)
      BY <2>1, <3>1 DEF Excluding, Accounted
    <3>3. Works(<<q, s>>, l)'
      BY <1>3, <3>1, <3>2 DEF Works
    <3> QED
      BY <3>3
  <2>2. ASSUME NEW q \in Procs, q \notin alive', NEW s \in Runs
        PROVE  exec'[<<q, s>>].at = "idle"
    <3>1. q # p => exec[<<q, s>>].at = "idle"
      BY <1>2, <2>2 DEF Excluding, Accounted
    <3> QED
      BY <1>3, <3>1
  <2> QED
    BY <1>2, <2>1, <2>2 DEF Accounted
<1> QED
  BY <1>4, <1>5, <1>6 DEF Excludes

LEMMA TickExcludes ==
    ASSUME Steady, Excluding, Tick
    PROVE  Excludes
<1>1. TypeOK /\ StoreTyped /\ ProcsTyped
  BY Parts DEF Excluding
<1>2. /\ \A p \in Procs : \A t \in timers[p] : ~t.due
      /\ \A e \in Execs : exec[e].at = "working" => ~exec[e].aborted
      /\ \A k \in Locks : store'["db"][k] = Aged(store["db"][k]) /\ store["db"][k] \in Entry
      /\ \A p \in Procs : timers'[p] = {[t EXCEPT !.due = TRUE] : t \in timers[p]}
      /\ UNCHANGED <<alive, exec, stageLocks>>
  BY <1>1 DEF Tick, Steady, StoreTyped, Providers
<1>3. ASSUME NEW p \in Procs
      PROVE  HasWhatItNeeds(p)'
  <2> SUFFICES ASSUME NEW r \in Runs
               PROVE  IF exec[<<p, r>>].at = "working"
                      THEN \E i \in stageLocks[p], t \in timers'[p] : Holds(p, r, i, t)'
                      ELSE stageLocks[p] = {} /\ timers'[p] = {}
    BY <1>2 DEF HasWhatItNeeds
  <2>1. CASE exec[<<p, r>>].at # "working"
    <3>1. stageLocks[p] = {} /\ timers[p] = {}
      BY <2>1 DEF Excluding, HasWhatItNeeds
    <3> QED
      BY <1>2, <2>1, <3>1
  <2>2. CASE exec[<<p, r>>].at = "working"
    <3>1. PICK i \in stageLocks[p], t \in timers[p] : Holds(p, r, i, t)
      BY <2>2, AtWork
    <3> DEFINE k == Lock(p, r)
               x == store["db"][k]
               u == [t EXCEPT !.due = TRUE]
    <3>2. k \in Locks /\ t \in TimerType /\ x \in Entry /\ <<p, r>> \in Execs
      BY <1>1, <3>1, HoldsLive, LockTyped
    <3>3. ~t.due /\ ~exec[<<p, r>>].aborted
      BY <1>2, <2>2, <3>2
    <3>4. t.failures \in 0 .. 2
      BY <3>1, <3>2, <3>3 DEF Holds, TimerType
    <3>5. x.left \in Nat /\ Ttl \in Nat
      BY <3>2, StageLockAssumption DEF Entry
    <3>6. x.left + t.failures >= Ttl /\ x.left > 1
      BY <3>1, <3>3, <3>4, <3>5 DEF Holds, Steady
    <3>7. store'["db"][k] = [x EXCEPT !.left = x.left - 1]
      BY <1>2, <3>2, <3>6, AgedIs
    <3>8. store'["db"][k].left = x.left - 1 /\ store'["db"][k].worker = x.worker
          /\ store'["db"][k].token = x.token
      BY <3>2, <3>7 DEF Entry
    <3>9. u.lock = t.lock /\ u.failures = t.failures /\ u.due
      BY <3>2 DEF TimerType
    <3>10. timers[p] = {t} /\ stageLocks[p] = {i} /\ t.lock = k /\ i.lock = k
           /\ i.token = x.token /\ x.worker = p
      BY <3>1 DEF Holds
    <3>11. timers'[p] = {u}
      BY <1>2, <3>10
    <3>12. Lock(p, r)' = k
      BY <1>2 DEF Lock
    <3> HIDE DEF u, x, k
    <3>13. Holds(p, r, i, u)'
      BY <1>2, <3>4, <3>5, <3>6, <3>8, <3>9, <3>10, <3>11, <3>12 DEF Holds
    <3> QED
      BY <1>2, <2>2, <3>11, <3>13
  <2> QED
    BY <2>1, <2>2
<1>4. Accounted'
  <2>1. ASSUME NEW k \in Locks, store'["db"][k].left > 0
        PROVE  store["db"][k].left > 0 /\ store'["db"][k].worker = store["db"][k].worker
    <3> DEFINE x == store["db"][k]
    <3>1. x \in Entry /\ store'["db"][k] = Aged(x)
      BY <1>2
    <3> HIDE DEF x
    <3>2. x.left \in Nat
      BY <3>1, StageLockAssumption DEF Entry
    <3>3. x.left > 1
      BY <2>1, <3>1, <3>2, FreeTyped DEF Aged
    <3>4. store'["db"][k].worker = x.worker
      BY <3>1, <3>2, <3>3, AgedIs DEF Entry
    <3> QED
      BY <3>2, <3>3, <3>4 DEF x
  <2> QED
    BY <1>2, <2>1, AccountKept
<1> QED
  BY <1>3, <1>4 DEF Excludes

LEMMA InitExcludes ==
    ASSUME Steady, Init
    PROVE  Excluding
<1>1. Accounted
  BY FreeTyped DEF Init, Accounted, Providers
<1>2. \A p \in Procs : HasWhatItNeeds(p)
  BY IdleTyped DEF Init, HasWhatItNeeds, Execs
<1> QED
  BY <1>1, <1>2, InitTyped DEF Excluding

LEMMA NextExcludes ==
    ASSUME Steady, Excluding, [Next]_vars
    PROVE  Excluding'
<1>1. TypeOK'
  BY NextFenced DEF Excluding, Fenced
<1>2. ASSUME NEW p \in Procs, NEW r \in Runs,
             \/ Begin(p, r) \/ TakeFree(p, r) \/ TakeOwn(p, r) \/ Refused(p, r) \/ AnswerLost(p, r)
             \/ EndStage(p, r) \/ EndStageForgotten(p, r) \/ EndRun(p, r)
      PROVE  Excludes
  <2>1. ~AnswerLost(p, r)
    BY DEF AnswerLost, Steady
  <2> QED
    BY <1>2, <2>1, BeginExcludes, TakeFreeExcludes, TakeOwnNever, RefusedExcludes,
       EndStageExcludes, EndStageForgottenNever, EndRunExcludes
<1>3. ASSUME NEW p \in Procs, Heartbeat(p) \/ Crash(p)
      PROVE  Excludes
  BY <1>3, RenewedExcludes, NotRenewedExcludes, CrashExcludes DEF Heartbeat
<1>4. ~RedisChanges
  BY DatabaseOnly DEF RedisChanges, Excluding
<1>5. ASSUME UNCHANGED vars
      PROVE  Excludes
  <2>1. TypeOK /\ UNCHANGED <<store, alive, exec, stageLocks, timers>>
    BY <1>5 DEF vars, procVars, Excluding
  <2>2. \A p \in Procs : HasWhatItNeeds(p)'
    BY <2>1, Untouched DEF Excluding
  <2>3. Accounted'
    BY <2>1, AccountKept
  <2> QED
    BY <2>2, <2>3 DEF Excludes
<1>6. Excludes
  BY <1>2, <1>3, <1>4, <1>5, TickExcludes DEF Next
<1> QED
  BY <1>1, <1>6 DEF Excluding, Excludes

LEMMA ExcludingInv ==
    ASSUME Steady
    PROVE  Spec => []Excluding
<1>1. Init => Excluding
  BY InitExcludes
<1>2. Excluding /\ [Next]_vars => Excluding'
  BY NextExcludes
<1> QED
  BY <1>1, <1>2, PTL DEF Spec

\* With the table and one run per process, no two processes are ever in the same stage of
\* a run, though processes die and heartbeats fail: the run is aborted before its lock
\* can expire (tryLockWithFence, #startStageHeartbeat).
THEOREM Exclusion ==
    ASSUME Steady
    PROVE  Spec => []MutualExclusion
<1>1. ASSUME Excluding
      PROVE  MutualExclusion
  <2> SUFFICES ASSUME NEW k \in Locks, NEW d \in Execs, NEW e \in Execs, Works(d, k), Works(e, k)
               PROVE  d = e
    BY DEF MutualExclusion
  <2>1. PICK p \in Procs, r \in Runs : d = <<p, r>>
    BY DEF Execs
  <2>2. PICK q \in Procs, s \in Runs : e = <<q, s>>
    BY DEF Execs
  <2>3. exec[<<p, r>>].at = "working" /\ Lock(p, r) = k /\ exec[<<q, s>>].at = "working" /\ Lock(q, s) = k
    BY <2>1, <2>2 DEF Works, Lock
  <2>4. store["db"][k].worker = p /\ store["db"][k].worker = q
    BY <1>1, <2>3, AtWork DEF Holds
  <2> QED
    BY <2>1, <2>2, <2>4 DEF Steady
<1> QED
  BY <1>1, ExcludingInv, PTL

\* There, a stage that was not told to abort holds its lock: the TTL outlasts the
\* failures (#startStageHeartbeat).
THEOREM WorkersHold ==
    ASSUME Steady
    PROVE  Spec => []HoldsWhileWorking
<1>1. ASSUME Excluding
      PROVE  HoldsWhileWorking
  <2> SUFFICES ASSUME NEW p \in Procs, NEW r \in Runs, exec[<<p, r>>].at = "working"
               PROVE  /\ ProviderOf(p, Lock(p, r)) # "none"
                      /\ Held(ProviderOf(p, Lock(p, r)), p, Lock(p, r))
    BY DEF HoldsWhileWorking
  <2>1. PICK i \in stageLocks[p], t \in timers[p] : Holds(p, r, i, t)
    BY <1>1, AtWork
  <2>2. TypeOK
    BY <1>1 DEF Excluding
  <2>3. /\ Lock(p, r) \in Locks /\ store["db"][Lock(p, r)].left > 0 /\ store["db"][Lock(p, r)].worker = p
    BY <2>1, <2>2, HoldsLive
  <2> QED
    BY <2>2, <2>3, DatabaseOnly DEF Held
<1> QED
  BY <1>1, ExcludingInv, PTL

=============================================================================
