------------------------------- MODULE DnsProofs -------------------------------
(***************************************************************************)
(* The strict gate passes nothing unproven, for any number of lookups,     *)
(* names, hosts and events.                                                *)
(***************************************************************************)
EXTENDS Dns, TLAPS

Modes    == {"strict", "lax", "down"}
CallType == [at: {"idle", "reading", "read", "asking", "joined", "told"},
             domain: Domains \cup {None}, host: Hosts \cup {0}, got: Answer \cup {None}]
Kept     == [Domains -> Answer \cup {None}]

\* The types, in parts that the actions touch together.
HostsTyped ==
    /\ mode \in [Hosts -> Modes] /\ undue \subseteq Hosts
    /\ health \in [Hosts -> Health] /\ validating \in BOOLEAN
    /\ saved \in [Hosts -> Health \cup {None}] /\ events \in 0 .. MaxEvents
RoundTyped ==
    round \in [kind: Kinds, next: Nat, reached: SUBSET Hosts, proven: SUBSET Hosts, changed: BOOLEAN]
CallsTyped ==
    /\ memory \in Kept /\ row \in Kept /\ late \in Kept
    /\ pending \in [Domains -> Callers \cup {None}] /\ call \in [Callers -> CallType]

LEMMA Parts ==
    /\ TypeOK <=> HostsTyped /\ RoundTyped /\ CallsTyped
    /\ TypeOK' <=> HostsTyped' /\ RoundTyped' /\ CallsTyped'
BY DEF TypeOK, HostsTyped, RoundTyped, CallsTyped, Modes, CallType, Kept

\* A host that does not validate, and has no undue proof, has none, neither in the
\* process nor saved.
Proofs == \A h \in Hosts : mode[h] = "lax" /\ h \notin undue => ~health[h].valid /\ saved[h] = None

\* An answer that claims a proof is right.
Sound(a) == a # None => ~(a.valid /\ a.wrong)

\* No answer that is kept or told is otherwise, and a lookup under way has what it needs.
Answers ==
    /\ \A d \in Domains : Sound(memory[d]) /\ Sound(row[d]) /\ Sound(late[d])
    /\ \A c \in Callers :
          /\ Sound(call[c].got)
          /\ call[c].at # "idle" => call[c].domain \in Domains
          /\ call[c].at = "asking" => call[c].host \in Hosts
          /\ call[c].at = "told" => call[c].got \in Answer

\* The inductive invariant.
Inv == TypeOK /\ Proofs /\ Answers

LEMMA FreshTyped == Fresh \in Health /\ ~Fresh.valid
BY DnsAssumption DEF Fresh, Health

LEMMA AsleepTyped == Asleep \in CallType /\ Asleep.at = "idle" /\ Asleep.got = None
BY DEF Asleep, CallType

LEMMA SilenceTyped ==
    ASSUME NEW d \in Domains
    PROVE  Silence(d) \in Answer /\ Silence(d).domain = d /\ Sound(Silence(d))
BY DEF Silence, Answer, Status, Sound

LEMMA RoundKinds ==
    /\ Boot \in [kind: Kinds, next: Nat, reached: SUBSET Hosts, proven: SUBSET Hosts, changed: BOOLEAN]
    /\ Quiet \in [kind: Kinds, next: Nat, reached: SUBSET Hosts, proven: SUBSET Hosts, changed: BOOLEAN]
BY DEF Boot, Quiet, Kinds

LEMMA InitInv ==
    ASSUME Init
    PROVE  Inv
<1>1. HostsTyped
  <2>1. mode \in [Hosts -> Modes] /\ undue \subseteq Hosts /\ validating \in BOOLEAN
    BY DEF Init, Modes
  <2>2. health \in [Hosts -> Health] /\ saved \in [Hosts -> Health \cup {None}]
    BY FreshTyped DEF Init
  <2>3. events \in 0 .. MaxEvents
    BY DnsAssumption DEF Init
  <2> QED
    BY <2>1, <2>2, <2>3 DEF HostsTyped
<1>2. RoundTyped
  BY RoundKinds DEF Init, RoundTyped
<1>3. memory \in Kept /\ row \in Kept /\ late \in Kept /\ pending \in [Domains -> Callers \cup {None}]
  BY DEF Init, Kept
<1>4. call \in [Callers -> CallType] /\ \A c \in Callers : call[c] = Asleep
  BY AsleepTyped DEF Init
<1>5. Proofs
  BY FreshTyped DEF Init, Proofs
<1>6. Answers
  BY <1>4, AsleepTyped DEF Init, Answers, Sound
<1> QED
  BY <1>1, <1>2, <1>3, <1>4, <1>5, <1>6, Parts DEF Inv, CallsTyped

-----------------------------------------------------------------------------
(* Health.                                                                  *)

LEMMA HealthIs ==
    ASSUME NEW g \in Health, NEW n \in 0 .. MaxFailures, NEW up \in BOOLEAN, NEW cool \in BOOLEAN
    PROVE  LET new == [g EXCEPT !.fails = n, !.healthy = up, !.cooling = cool]
           IN  new \in Health /\ new.valid = g.valid
BY DEF Health

\* Failures and successes of a host do not touch its proof.
LEMMA MarkIs ==
    ASSUME NEW hs \in [Hosts -> Health], NEW h \in Hosts
    PROVE  /\ Mark(hs, h) \in [Hosts -> Health] /\ Succeed(hs, h) \in [Hosts -> Health]
           /\ \A g \in Hosts : Mark(hs, h)[g].valid = hs[g].valid /\ Succeed(hs, h)[g].valid = hs[g].valid
<1> DEFINE n    == IF hs[h].fails < MaxFailures THEN hs[h].fails + 1 ELSE MaxFailures
           up   == hs[h].healthy /\ n < MaxFailures
           down == [hs[h] EXCEPT !.fails = n, !.healthy = up, !.cooling = ~up]
           good == [hs[h] EXCEPT !.fails = 0, !.healthy = TRUE, !.cooling = FALSE]
<1>0. 0 \in 0 .. MaxFailures /\ TRUE \in BOOLEAN /\ FALSE \in BOOLEAN
  BY DnsAssumption
<1>1. hs[h] \in Health /\ MaxFailures \in Nat \ {0}
  BY DnsAssumption
<1>2. n \in 0 .. MaxFailures /\ up \in BOOLEAN
  BY <1>1 DEF Health
<1> HIDE DEF n, up
<1>3. down \in Health /\ down.valid = hs[h].valid
  BY <1>1, <1>2 DEF Health
<1>4. good \in Health /\ good.valid = hs[h].valid
  BY <1>1, <1>0, HealthIs
<1>5. Mark(hs, h) = [hs EXCEPT ![h] = down]
  BY DEF Mark, n, up
<1>6. Succeed(hs, h) = [hs EXCEPT ![h] = good]
  BY DEF Succeed
<1> HIDE DEF down, good
<1> QED
  BY <1>3, <1>4, <1>5, <1>6

\* A step of the calls that leaves proofs alone, or a step of the hosts that leaves the
\* calls alone, has to care for its own part only.
LEMMA CallsKeep ==
    ASSUME Inv, UNCHANGED <<mode, undue, saved, validating, round>>, events' \in 0 .. MaxEvents,
           health' \in [Hosts -> Health], \A h \in Hosts : health'[h].valid = health[h].valid,
           CallsTyped', Answers'
    PROVE  Inv'
<1>1. HostsTyped' /\ RoundTyped'
  BY Parts DEF Inv, HostsTyped, RoundTyped
<1>2. Proofs'
  BY DEF Inv, Proofs
<1> QED
  BY <1>1, <1>2, Parts DEF Inv

LEMMA HostsKeep ==
    ASSUME Inv,
           memory' \in Kept, row' \in Kept, late' \in Kept, pending' \in [Domains -> Callers \cup {None}],
           \A d \in Domains : Sound(memory'[d]) /\ Sound(row'[d]) /\ Sound(late'[d]),
           UNCHANGED call \/ call' = [c \in Callers |-> Asleep],
           HostsTyped', RoundTyped', Proofs'
    PROVE  Inv'
<1>1. CallsTyped /\ Answers
  BY Parts DEF Inv
<1>2. call' \in [Callers -> CallType]
  BY <1>1, AsleepTyped DEF CallsTyped
<1>3. Answers'
  <2>1. CASE UNCHANGED call
    BY <1>1, <2>1 DEF Answers
  <2>2. CASE call' = [c \in Callers |-> Asleep]
    BY <2>2, AsleepTyped DEF Answers, Sound
  <2> QED
    BY <2>1, <2>2
<1>4. CallsTyped'
  BY <1>2 DEF CallsTyped
<1> QED
  BY <1>3, <1>4, Parts DEF Inv

\* Nothing kept changes but for what is dropped.
LEMMA HostsDrop ==
    ASSUME Inv,
           \A d \in Domains : /\ memory'[d] \in {memory[d], None}
                              /\ row'[d] \in {row[d], None} /\ late'[d] \in {late[d], None},
           memory' \in Kept, row' \in Kept, late' \in Kept, pending' \in [Domains -> Callers \cup {None}],
           UNCHANGED call \/ call' = [c \in Callers |-> Asleep],
           HostsTyped', RoundTyped', Proofs'
    PROVE  Inv'
<1>1. Answers
  BY DEF Inv
<1>2. \A d \in Domains : Sound(memory'[d]) /\ Sound(row'[d]) /\ Sound(late'[d])
  BY <1>1 DEF Answers, Sound
<1> QED
  BY <1>2, HostsKeep

-----------------------------------------------------------------------------
(* The steps of the hosts and of the rounds.                                *)

LEMMA HostFacts ==
    ASSUME Inv
    PROVE  /\ HostsTyped /\ RoundTyped /\ CallsTyped /\ Proofs /\ Answers
           /\ memory \in Kept /\ row \in Kept /\ late \in Kept
           /\ pending \in [Domains -> Callers \cup {None}]
           /\ [d \in Domains |-> None] \in Kept
BY Parts DEF Inv, CallsTyped, Kept

LEMMA CheckSocketsKeeps ==
    ASSUME Inv, CheckSockets
    PROVE  Inv'
<1>1. RoundTyped'
  BY RoundKinds DEF CheckSockets, Boot, Kinds, RoundTyped
<1>2. HostsTyped' /\ Proofs'
  BY HostFacts DEF CheckSockets, world, caches, HostsTyped, Proofs
<1> QED
  BY <1>1, <1>2, HostFacts, HostsDrop DEF CheckSockets, world, caches

LEMMA StartRoundKeeps ==
    ASSUME Inv, StartRound
    PROVE  Inv'
<1>1. RoundTyped'
  BY DEF StartRound, Boot, Kinds, RoundTyped
<1>2. HostsTyped' /\ Proofs'
  BY HostFacts DEF StartRound, world, caches, HostsTyped, Proofs
<1> QED
  BY <1>1, <1>2, HostFacts, HostsDrop DEF StartRound, world, caches

LEMMA SkipKeeps ==
    ASSUME Inv, NEW h \in Hosts, Skip(h)
    PROVE  Inv'
<1>1. RoundTyped'
  BY HostFacts DEF Skip, RoundTyped
<1>2. HostsTyped' /\ Proofs'
  BY HostFacts DEF Skip, world, caches, HostsTyped, Proofs
<1> QED
  BY <1>1, <1>2, HostFacts, HostsDrop DEF Skip, world, caches

LEMMA ProbeKeeps ==
    ASSUME Inv, NEW h \in Hosts, Probe(h)
    PROVE  Inv'
<1>1. PICK course \in {"clear", "outage", "lost"} :
         /\ events' = IF course = "clear" THEN events ELSE events + 1
         /\ course # "clear" => events < MaxEvents
         /\ health' = [Succeed(health, h) EXCEPT ![h].valid = Proof(h, course)]
         /\ undue' = IF mode[h] = "lax" /\ course = "outage" THEN undue \cup {h}
                     ELSE IF Proof(h, course) \/ saved[h] = None THEN undue \ {h} ELSE undue
         /\ round' = [round EXCEPT !.next = @ + 1, !.reached = @ \cup {h},
                                   !.proven = IF Proof(h, course) THEN @ \cup {h} ELSE @]
         /\ UNCHANGED <<mode, caches, validating, pending, call>>
  BY DEF Probe
<1> DEFINE proof == Proof(h, course)
           after == Succeed(health, h)
<1>2. proof \in BOOLEAN /\ (proof => mode[h] = "strict" \/ course = "outage")
  BY DEF Proof
<1>3. HostsTyped /\ RoundTyped /\ Proofs /\ MaxEvents \in Nat
  BY HostFacts, DnsAssumption
<1>4. after \in [Hosts -> Health] /\ \A g \in Hosts : after[g].valid = health[g].valid
  BY <1>3, MarkIs DEF HostsTyped
<1> HIDE DEF after, proof
<1>5. /\ health' \in [Hosts -> Health] /\ health'[h].valid = proof
      /\ \A g \in Hosts : g # h => health'[g].valid = health[g].valid
  <2>1. health' = [after EXCEPT ![h].valid = proof]
    BY <1>1 DEF after, proof
  <2>2. [after[h] EXCEPT !.valid = proof] \in Health /\ [after[h] EXCEPT !.valid = proof].valid = proof
    BY <1>2, <1>4 DEF Health
  <2> QED
    BY <1>4, <2>1, <2>2
<1>6. HostsTyped'
  <2>1. events' \in 0 .. MaxEvents
    BY <1>1, <1>3 DEF HostsTyped
  <2>2. undue' \subseteq Hosts
    BY <1>1, <1>3 DEF HostsTyped
  <2> QED
    BY <1>1, <1>3, <1>5, <2>1, <2>2 DEF HostsTyped, caches
<1>7. RoundTyped'
  <2>1. round' = [round EXCEPT !.next = @ + 1, !.reached = @ \cup {h}, !.proven = IF proof THEN @ \cup {h} ELSE @]
    BY <1>1 DEF proof
  <2>2. (IF proof THEN round.proven \cup {h} ELSE round.proven) \in SUBSET Hosts
    BY <1>3 DEF RoundTyped
  <2>3. round.next + 1 \in Nat /\ round.reached \cup {h} \in SUBSET Hosts
    BY <1>3 DEF RoundTyped
  <2> QED
    BY <1>3, <2>1, <2>2, <2>3 DEF RoundTyped
<1>8. Proofs'
  <2> SUFFICES ASSUME NEW g \in Hosts, mode[g] = "lax", g \notin undue'
               PROVE  ~health'[g].valid /\ saved[g] = None
    BY <1>1 DEF Proofs, caches
  <2>1. CASE g = h
    <3>0. ~(mode[h] = "lax" /\ course = "outage")
      BY <1>1, <2>1
    <3>1. ~proof /\ ~health'[h].valid
      BY <1>2, <1>5, <2>1, <3>0
    <3>2. saved[h] = None
      BY <1>1, <1>3, <2>1, <3>0, <3>1 DEF Proofs, proof
    <3> QED
      BY <2>1, <3>1, <3>2
  <2>2. CASE g # h
    BY <1>1, <1>3, <1>5, <2>2 DEF Proofs
  <2> QED
    BY <2>1, <2>2
<1> QED
  BY <1>1, <1>6, <1>7, <1>8, HostFacts, HostsDrop DEF caches

LEMMA ProbeFailsKeeps ==
    ASSUME Inv, NEW h \in Hosts, ProbeFails(h)
    PROVE  Inv'
<1>1. HostsTyped /\ RoundTyped /\ Proofs /\ MaxEvents \in Nat /\ UNCHANGED <<mode, undue, caches, validating, pending, call>>
  BY HostFacts, DnsAssumption DEF ProbeFails
<1>2. health' \in [Hosts -> Health] /\ \A g \in Hosts : health'[g].valid = health[g].valid
  BY <1>1, MarkIs DEF ProbeFails, HostsTyped
<1>3. RoundTyped'
  BY <1>1 DEF ProbeFails, RoundTyped
<1>4. events' \in 0 .. MaxEvents
  BY <1>1 DEF ProbeFails, HostsTyped
<1>5. HostsTyped' /\ Proofs'
  BY <1>1, <1>2, <1>4 DEF HostsTyped, Proofs, caches
<1> QED
  BY <1>1, <1>3, <1>5, HostFacts, HostsDrop DEF caches

LEMMA EndProbesKeeps ==
    ASSUME Inv, EndProbes
    PROVE  Inv'
<1>1. HostsTyped /\ RoundTyped /\ Proofs /\ MaxEvents \in Nat
  BY HostFacts, DnsAssumption
<1>2. UNCHANGED <<mode, undue, caches, health, pending, call>> /\ validating' \in BOOLEAN
  BY DEF EndProbes
<1>3. events' \in 0 .. MaxEvents
  BY <1>1 DEF EndProbes, HostsTyped
<1>4. RoundTyped'
  <2> DEFINE changed == validating # (round.proven # {})
  <2>1. changed \in BOOLEAN /\ round' \in {Quiet, Boot, [round EXCEPT !.kind = "saving", !.next = 1, !.changed = changed]}
    BY DEF EndProbes
  <2> HIDE DEF changed
  <2>2. [round EXCEPT !.kind = "saving", !.next = 1, !.changed = changed]
          \in [kind: Kinds, next: Nat, reached: SUBSET Hosts, proven: SUBSET Hosts, changed: BOOLEAN]
    BY <1>1, <2>1 DEF RoundTyped, Kinds
  <2> QED
    BY <2>1, <2>2, RoundKinds DEF RoundTyped
<1>5. HostsTyped' /\ Proofs'
  BY <1>1, <1>2, <1>3 DEF HostsTyped, Proofs, caches
<1> QED
  BY <1>2, <1>4, <1>5, HostFacts, HostsDrop DEF caches

LEMMA SaveKeeps ==
    ASSUME Inv, NEW h \in Hosts, Save(h)
    PROVE  Inv'
<1>1. HostsTyped /\ RoundTyped /\ Proofs /\ MaxEvents \in Nat
  BY HostFacts, DnsAssumption
<1>2. UNCHANGED <<mode, memory, row, late, health, validating, pending, call>>
  BY DEF Save
<1>3. RoundTyped'
  BY <1>1 DEF Save, RoundTyped
<1>4. CASE UNCHANGED <<saved, undue>> /\ events < MaxEvents /\ events' = events + 1
  <2>1. HostsTyped' /\ Proofs'
    BY <1>1, <1>2, <1>4 DEF HostsTyped, Proofs
  <2> QED
    BY <1>2, <1>3, <2>1, HostFacts, HostsDrop
<1>5. CASE /\ saved' = [saved EXCEPT ![h] =
                IF ~health[h].valid THEN None
                ELSE [health[h] EXCEPT !.healthy = h \in round.reached, !.cooling = FALSE]]
           /\ undue' = IF health[h].valid THEN undue ELSE undue \ {h}
           /\ UNCHANGED events
  <2>1. [health[h] EXCEPT !.healthy = h \in round.reached, !.cooling = FALSE] \in Health
    <3> DEFINE up == h \in round.reached
    <3>1. health[h] \in Health /\ up \in BOOLEAN
      BY <1>1 DEF HostsTyped
    <3> HIDE DEF up
    <3>2. [health[h] EXCEPT !.healthy = up, !.cooling = FALSE] \in Health
      BY <3>1 DEF Health
    <3> QED
      BY <3>2 DEF up
  <2>2. saved' \in [Hosts -> Health \cup {None}] /\ (~health[h].valid => saved'[h] = None)
        /\ \A g \in Hosts : g # h => saved'[g] = saved[g]
    BY <1>1, <1>5, <2>1 DEF HostsTyped
  <2>3. undue' \subseteq Hosts
    BY <1>1, <1>5 DEF HostsTyped
  <2>4. HostsTyped' /\ Proofs'
    BY <1>1, <1>2, <1>5, <2>2, <2>3 DEF HostsTyped, Proofs
  <2> QED
    BY <1>2, <1>3, <2>4, HostFacts, HostsDrop
<1> QED
  BY <1>4, <1>5 DEF Save

LEMMA ClearKeeps ==
    ASSUME Inv, Clear
    PROVE  Inv'
<1>1. HostsTyped /\ RoundTyped /\ Proofs
  BY HostFacts
<1>2. RoundTyped'
  BY <1>1, RoundKinds DEF Clear, Kinds, RoundTyped
<1>3. HostsTyped' /\ Proofs'
  BY <1>1 DEF Clear, world, HostsTyped, Proofs
<1>4. memory' \in {memory, [d \in Domains |-> None]}
  BY DEF Clear
<1> QED
  BY <1>2, <1>3, <1>4, HostFacts, HostsDrop DEF Clear

\* Ageing leaves what an answer says alone.
LEMMA AgedIs ==
    ASSUME NEW kept \in Kept, \A d \in Domains : Sound(kept[d])
    PROVE  Aged(kept) \in Kept /\ \A d \in Domains : Sound(Aged(kept)[d])
<1>1. \A a \in Answer : [a EXCEPT !.old = TRUE] \in Answer /\ [a EXCEPT !.old = TRUE].valid = a.valid
                        /\ [a EXCEPT !.old = TRUE].wrong = a.wrong
  BY DEF Answer
<1> QED
  BY <1>1 DEF Aged, Kept, Sound

LEMMA PurgeKeeps ==
    ASSUME Inv, Purge
    PROVE  Inv'
<1>1. HostsTyped /\ RoundTyped /\ Proofs /\ Answers /\ MaxEvents \in Nat
  BY HostFacts, DnsAssumption
<1>2. RoundTyped'
  BY RoundKinds DEF Purge, RoundTyped
<1>3. UNCHANGED <<mode, late, health, validating, pending, call>>
  BY DEF Purge
<1>4. CASE UNCHANGED <<row, saved, memory, undue>> /\ events < MaxEvents /\ events' = events + 1
  <2>1. HostsTyped' /\ Proofs'
    BY <1>1, <1>3, <1>4 DEF HostsTyped, Proofs
  <2> QED
    BY <1>2, <1>3, <1>4, <2>1, HostFacts, HostsDrop
<1>5. CASE /\ row' = [d \in Domains |-> None] /\ saved' = [h \in Hosts |-> None]
           /\ memory' = Aged(memory)
           /\ undue' = {h \in undue : health[h].valid}
           /\ UNCHANGED events
  <2>1. saved' \in [Hosts -> Health \cup {None}] /\ \A h \in Hosts : saved'[h] = None
    BY <1>5
  <2>2. HostsTyped' /\ Proofs'
    BY <1>1, <1>3, <1>5, <2>1 DEF HostsTyped, Proofs
  <2>3. memory' \in Kept /\ \A d \in Domains : Sound(memory'[d])
    BY <1>1, <1>5, HostFacts, AgedIs DEF Answers
  <2>4. \A d \in Domains : Sound(row'[d]) /\ Sound(late'[d])
    BY <1>1, <1>3, <1>5 DEF Answers, Sound
  <2> QED
    BY <1>2, <1>3, <1>5, <2>2, <2>3, <2>4, HostFacts, HostsKeep
<1> QED
  BY <1>4, <1>5 DEF Purge

LEMMA RestartKeeps ==
    ASSUME Inv, Restart
    PROVE  Inv'
<1>1. HostsTyped /\ RoundTyped /\ Proofs /\ MaxEvents \in Nat
  BY HostFacts, DnsAssumption
<1>2. PICK lapsed \in SUBSET {h \in Hosts : saved[h] # None} :
         saved' = [h \in Hosts |-> IF h \in lapsed THEN None ELSE saved[h]]
  BY DEF Restart
<1>3. saved' \in [Hosts -> Health \cup {None}] /\ \A h \in Hosts : saved[h] = None => saved'[h] = None
  BY <1>1, <1>2 DEF HostsTyped
<1>4. health' = [h \in Hosts |-> IF saved'[h] # None THEN saved'[h] ELSE Fresh]
  BY DEF Restart
<1>5. health' \in [Hosts -> Health] /\ \A h \in Hosts : saved'[h] = None => ~health'[h].valid
  BY <1>3, <1>4, FreshTyped
<1>6. RoundTyped'
  BY RoundKinds DEF Restart, RoundTyped
<1>7. events' \in 0 .. MaxEvents /\ validating' \in BOOLEAN
  BY <1>1 DEF Restart, HostsTyped
<1>8. undue' = {h \in undue : saved'[h] # None} /\ UNCHANGED <<mode, row>>
  BY DEF Restart
<1>9. HostsTyped' /\ Proofs'
  BY <1>1, <1>3, <1>5, <1>7, <1>8 DEF HostsTyped, Proofs
<1>10. /\ memory' \in Kept /\ row' \in Kept /\ late' \in Kept /\ pending' \in [Domains -> Callers \cup {None}]
       /\ \A d \in Domains : memory'[d] = None /\ row'[d] = row[d] /\ late'[d] = None
  BY HostFacts DEF Restart
<1>11. call' = [c \in Callers |-> Asleep]
  BY DEF Restart
<1> QED
  BY <1>6, <1>9, <1>10, <1>11, HostsDrop

LEMMA CoolDownKeeps ==
    ASSUME Inv, NEW h \in Hosts, CoolDown(h)
    PROVE  Inv'
<1>1. HostsTyped /\ UNCHANGED <<world, caches, validating, pending, call, round>>
  BY HostFacts DEF CoolDown
<1>2. health' \in [Hosts -> Health] /\ \A g \in Hosts : health'[g].valid = health[g].valid
  BY <1>1 DEF CoolDown, HostsTyped, Health
<1>3. HostsTyped' /\ Proofs' /\ RoundTyped'
  BY <1>1, <1>2, HostFacts DEF HostsTyped, Proofs, RoundTyped, world, caches
<1> QED
  BY <1>1, <1>3, HostFacts, HostsDrop DEF world, caches

LEMMA ShiftKeeps ==
    ASSUME Inv, NEW h \in Hosts, NEW m \in Modes, Shift(h, m)
    PROVE  Inv'
<1>1. HostsTyped /\ Proofs /\ MaxEvents \in Nat /\ UNCHANGED <<caches, health, validating, pending, call, round>>
  BY HostFacts, DnsAssumption DEF Shift
<1>2. mode' \in [Hosts -> Modes] /\ mode'[h] = m /\ \A g \in Hosts : g # h => mode'[g] = mode[g]
  BY <1>1 DEF Shift, HostsTyped
<1>3. events' \in 0 .. MaxEvents
  BY <1>1 DEF Shift, HostsTyped
<1>4. undue' = IF m = "lax" /\ (health[h].valid \/ saved[h] # None) THEN undue \cup {h} ELSE undue
  BY DEF Shift
<1>5. HostsTyped' /\ Proofs' /\ RoundTyped'
  BY <1>1, <1>2, <1>3, <1>4, HostFacts DEF HostsTyped, Proofs, RoundTyped, caches
<1> QED
  BY <1>1, <1>5, HostFacts, HostsDrop DEF caches

LEMMA ExpireKeeps ==
    ASSUME Inv, NEW d \in Domains, Expire(d)
    PROVE  Inv'
<1>1. /\ memory' \in {memory, [memory EXCEPT ![d] = None]} /\ row' \in {row, [row EXCEPT ![d] = None]}
      /\ UNCHANGED <<world, late, saved, health, validating, pending, call, round>>
  BY DEF Expire
<1>2. /\ memory' \in Kept /\ row' \in Kept
      /\ \A e \in Domains : memory'[e] \in {memory[e], None} /\ row'[e] \in {row[e], None}
  BY <1>1, HostFacts DEF Kept
<1>3. HostsTyped' /\ Proofs' /\ RoundTyped'
  BY <1>1, HostFacts DEF HostsTyped, Proofs, RoundTyped, world
<1> QED
  BY <1>1, <1>2, <1>3, HostFacts, HostsDrop

LEMMA LandKeeps ==
    ASSUME Inv, NEW d \in Domains, NEW lost \in BOOLEAN, Land(d, lost)
    PROVE  Inv'
<1>1. /\ late[d] # None /\ late' = [late EXCEPT ![d] = None] /\ row' \in {row, [row EXCEPT ![d] = late[d]]}
      /\ UNCHANGED <<world, memory, saved, health, validating, pending, call, round>>
  BY DEF Land
<1>2. /\ late' \in Kept /\ row' \in Kept
      /\ \A e \in Domains : Sound(memory'[e]) /\ Sound(row'[e]) /\ Sound(late'[e])
  BY <1>1, HostFacts DEF Kept, Answers, Sound
<1>3. HostsTyped' /\ Proofs' /\ RoundTyped'
  BY <1>1, HostFacts DEF HostsTyped, Proofs, RoundTyped, world
<1> QED
  BY <1>1, <1>2, <1>3, HostFacts, HostsKeep

-----------------------------------------------------------------------------
(* The steps of the lookups.                                                *)

\* A caller as the invariant has it.
Fit(x) ==
    /\ x \in CallType /\ Sound(x.got)
    /\ x.at # "idle" => x.domain \in Domains
    /\ x.at = "asking" => x.host \in Hosts
    /\ x.at = "told" => x.got \in Answer

LEMMA AnswersAre ==
    ASSUME CallsTyped
    PROVE  Answers <=> /\ \A d \in Domains : Sound(memory[d]) /\ Sound(row[d]) /\ Sound(late[d])
                       /\ \A c \in Callers : Fit(call[c])
BY DEF CallsTyped, Answers, Fit

LEMMA AnswersAreThen ==
    ASSUME CallsTyped'
    PROVE  Answers' <=> /\ \A d \in Domains : Sound(memory'[d]) /\ Sound(row'[d]) /\ Sound(late'[d])
                        /\ \A c \in Callers : Fit(call'[c])
BY DEF CallsTyped, Answers, Fit

\* A step in which the callers stay fit and the kept answers sound.
LEMMA LookupKeeps ==
    ASSUME Inv, UNCHANGED <<mode, undue, saved, validating, round>>, events' \in 0 .. MaxEvents,
           health' \in [Hosts -> Health], \A h \in Hosts : health'[h].valid = health[h].valid,
           pending' \in [Domains -> Callers \cup {None}], memory' \in Kept, row' \in Kept, late' \in Kept,
           \A d \in Domains : Sound(memory'[d]) /\ Sound(row'[d]) /\ Sound(late'[d]),
           call' \in [Callers -> CallType], \A c \in Callers : Fit(call'[c])
    PROVE  Inv'
<1>1. CallsTyped'
  BY DEF CallsTyped
<1>2. Answers'
  BY <1>1, AnswersAreThen
<1> QED
  BY <1>1, <1>2, CallsKeep

LEMMA FitNow ==
    ASSUME Inv
    PROVE  /\ \A d \in Domains : Sound(memory[d]) /\ Sound(row[d]) /\ Sound(late[d])
           /\ \A c \in Callers : Fit(call[c])
           /\ call \in [Callers -> CallType] /\ memory \in Kept /\ row \in Kept /\ late \in Kept
           /\ pending \in [Domains -> Callers \cup {None}]
           /\ health \in [Hosts -> Health] /\ events \in 0 .. MaxEvents
BY HostFacts, AnswersAre DEF CallsTyped, HostsTyped

\* An answer is told, kept in memory, or silence.
LEMMA ToldFits ==
    ASSUME NEW a \in Answer, Sound(a)
    PROVE  Fit([Asleep EXCEPT !.at = "told", !.domain = a.domain, !.got = a])
BY DEF Asleep, Fit, CallType, Answer

LEMMA RememberKeeps ==
    ASSUME NEW a \in Answer, Sound(a), Inv, Remember(a)
    PROVE  memory' \in Kept /\ \A d \in Domains : Sound(memory'[d])
<1>1. a.domain \in Domains
  BY DEF Answer
<1> QED
  BY <1>1, FitNow DEF Remember, Kept

LEMMA OneFits ==
    ASSUME Inv, NEW c \in Callers, NEW x, Fit(x), call' = [call EXCEPT ![c] = x]
    PROVE  call' \in [Callers -> CallType] /\ \A b \in Callers : Fit(call'[b])
<1>1. x \in CallType
  BY DEF Fit
<1> QED
  BY <1>1, FitNow

LEMMA LookUpKeeps ==
    ASSUME Inv, NEW c \in Callers, NEW d \in Domains, LookUp(c, d),
           UNCHANGED <<mode, undue, row, late, saved, health, validating, round>>, events' \in 0 .. MaxEvents
    PROVE  Inv'
<1> DEFINE joined == [Asleep EXCEPT !.at = "joined", !.domain = d]
<1>1. CASE /\ call' = [call EXCEPT ![c] = joined]
           /\ UNCHANGED <<pending, memory>>
  <2>1. Fit(joined)
    BY DEF Asleep, Fit, CallType, Sound
  <2> HIDE DEF joined
  <2>2. call' \in [Callers -> CallType] /\ \A b \in Callers : Fit(call'[b])
    BY <1>1, <2>1, OneFits
  <2> QED
    BY <1>1, <2>2, FitNow, LookupKeeps
<1>2. ASSUME NEW h \in Healthy, call' = [call EXCEPT ![c] = [Asleep EXCEPT !.at = "asking", !.domain = d, !.host = h]],
             pending' = [pending EXCEPT ![d] = c], UNCHANGED memory
      PROVE  Inv'
  <2> DEFINE x == [Asleep EXCEPT !.at = "asking", !.domain = d, !.host = h]
  <2>1. Fit(x)
    BY DEF Healthy, Asleep, Fit, CallType, Sound
  <2>2. call' = [call EXCEPT ![c] = x]
    BY <1>2
  <2> HIDE DEF x
  <2>3. call' \in [Callers -> CallType] /\ \A b \in Callers : Fit(call'[b])
    BY <2>1, <2>2, OneFits
  <2>4. pending' \in [Domains -> Callers \cup {None}]
    BY <1>2, FitNow
  <2> QED
    BY <1>2, <2>3, <2>4, FitNow, LookupKeeps
<1>3. CASE call' = Told(c, Silence(d)) /\ Remember(Silence(d)) /\ UNCHANGED pending
  <2> DEFINE a == Silence(d)
             x == [Asleep EXCEPT !.at = "told", !.domain = a.domain, !.got = a]
  <2>1. a \in Answer /\ Sound(a)
    BY SilenceTyped DEF Sound
  <2>2. call' = [call EXCEPT ![c] = x]
    BY <1>3 DEF Told
  <2> HIDE DEF a
  <2>3. Fit(x)
    BY <2>1, ToldFits
  <2> HIDE DEF x
  <2>4. call' \in [Callers -> CallType] /\ \A b \in Callers : Fit(call'[b])
    BY <2>2, <2>3, OneFits
  <2>5. memory' \in Kept /\ \A e \in Domains : Sound(memory'[e])
    BY <1>3, <2>1, RememberKeeps DEF a
  <2> QED
    BY <1>3, <2>4, <2>5, FitNow, LookupKeeps
<1> QED
  BY <1>1, <1>2, <1>3 DEF LookUp

\* Told what is kept, in memory or in the row.
LEMMA KeptToldKeeps ==
    ASSUME Inv, NEW c \in Callers, NEW a \in Answer, Sound(a), call' = Told(c, a),
           Remember(a) \/ UNCHANGED memory,
           UNCHANGED <<mode, undue, row, late, saved, health, validating, round, pending>>,
           events' \in 0 .. MaxEvents
    PROVE  Inv'
<1> DEFINE x == [Asleep EXCEPT !.at = "told", !.domain = a.domain, !.got = a]
<1>1. Fit(x) /\ call' = [call EXCEPT ![c] = x]
  BY ToldFits DEF Told
<1> HIDE DEF x
<1>2. call' \in [Callers -> CallType] /\ \A b \in Callers : Fit(call'[b])
  BY <1>1, OneFits
<1>3. memory' \in Kept /\ \A e \in Domains : Sound(memory'[e])
  BY RememberKeeps, FitNow
<1> QED
  BY <1>2, <1>3, FitNow, LookupKeeps

LEMMA CallKeeps ==
    ASSUME Inv, NEW c \in Callers, NEW d \in Domains, NEW forceRecheck \in BOOLEAN, Call(c, d, forceRecheck)
    PROVE  Inv'
<1>1. UNCHANGED <<mode, undue, row, late, saved, health, validating, round>>
  BY DEF Call
<1>2. events' \in 0 .. MaxEvents
  BY FitNow, DnsAssumption DEF Call
<1>3. CASE memory[d] # None /\ call' = Told(c, memory[d]) /\ UNCHANGED <<pending, memory>>
  <2>1. memory[d] \in Answer /\ Sound(memory[d])
    BY <1>3, FitNow DEF Kept
  <2> QED
    BY <1>1, <1>2, <1>3, <2>1, KeptToldKeeps
<1>4. CASE /\ call' = [call EXCEPT ![c] = [Asleep EXCEPT !.at = "reading", !.domain = d]]
           /\ UNCHANGED <<pending, memory>>
  <2> DEFINE x == [Asleep EXCEPT !.at = "reading", !.domain = d]
  <2>1. Fit(x) /\ call' = [call EXCEPT ![c] = x]
    BY <1>4 DEF Asleep, Fit, CallType, Sound
  <2> HIDE DEF x
  <2>2. call' \in [Callers -> CallType] /\ \A b \in Callers : Fit(call'[b])
    BY <2>1, OneFits
  <2> QED
    BY <1>1, <1>2, <1>4, <2>2, FitNow, LookupKeeps
<1>5. CASE LookUp(c, d)
  BY <1>1, <1>2, <1>5, LookUpKeeps
<1> QED
  BY <1>3, <1>4, <1>5 DEF Call

LEMMA ReadRowKeeps ==
    ASSUME Inv, NEW c \in Callers, ReadRow(c)
    PROVE  Inv'
<1> DEFINE d == call[c].domain
           x == [call[c] EXCEPT !.at = "read", !.got = row[d]]
<1>1. call[c] \in CallType /\ Fit(call[c]) /\ call[c].at = "reading"
  BY FitNow DEF ReadRow
<1>2. d \in Domains
  BY <1>1 DEF Fit
<1>3. row[d] \in Answer \cup {None} /\ Sound(row[d])
  BY <1>2, FitNow DEF Kept
<1>4. \A got \in Answer \cup {None} : Sound(got) => Fit([call[c] EXCEPT !.at = "read", !.got = got])
  BY <1>1 DEF Fit, CallType
<1>5. Fit(x) /\ call' = [call EXCEPT ![c] = x]
  BY <1>3, <1>4 DEF ReadRow
<1> HIDE DEF x
<1>6. call' \in [Callers -> CallType] /\ \A b \in Callers : Fit(call'[b])
  BY <1>5, OneFits
<1>7. UNCHANGED <<world, caches, health, validating, pending, round>>
  BY DEF ReadRow
<1> QED
  BY <1>6, <1>7, FitNow, LookupKeeps DEF world, caches

LEMMA UseRowKeeps ==
    ASSUME Inv, NEW c \in Callers, UseRow(c)
    PROVE  Inv'
<1> DEFINE d == call[c].domain
           a == call[c].got
<1>1. d \in Domains /\ Sound(a) /\ a \in Answer \cup {None}
  BY FitNow DEF UseRow, Fit, CallType
<1>2. UNCHANGED <<mode, undue, row, late, saved, health, validating, round>> /\ events' \in 0 .. MaxEvents
  BY FitNow DEF UseRow, world
<1>3. CASE LookUp(c, d)
  BY <1>1, <1>2, <1>3, LookUpKeeps
<1>4. CASE a # None /\ call' = Told(c, a) /\ Remember(a) /\ UNCHANGED pending
  <2>1. a \in Answer /\ Sound(a)
    BY <1>1, <1>4
  <2> HIDE DEF a
  <2> QED
    BY <1>2, <1>4, <2>1, KeptToldKeeps
<1> QED
  BY <1>3, <1>4 DEF UseRow

\* What is told to all that wait for it, is told soundly.
LEMMA TellAllKeeps ==
    ASSUME Inv, NEW c \in Callers, NEW a \in Answer, Sound(a), TellAll(c, a),
           row' \in Kept, late' \in Kept, \A d \in Domains : Sound(row'[d]) /\ Sound(late'[d]),
           health' \in [Hosts -> Health], \A h \in Hosts : health'[h].valid = health[h].valid,
           UNCHANGED <<mode, undue, saved, validating, round>>, events' \in 0 .. MaxEvents
    PROVE  Inv'
<1> DEFINE x == [Asleep EXCEPT !.at = "told", !.domain = a.domain, !.got = a]
<1>1. Fit(x)
  BY ToldFits
<1>2. call' = [b \in Callers |-> IF b = c \/ (call[b].at = "joined" /\ call[b].domain = a.domain) THEN x ELSE call[b]]
  BY DEF TellAll
<1> HIDE DEF x
<1>3. x \in CallType
  BY <1>1 DEF Fit
<1>4. call' \in [Callers -> CallType] /\ \A b \in Callers : Fit(call'[b])
  BY <1>1, <1>2, <1>3, FitNow
<1>5. memory' \in Kept /\ \A d \in Domains : Sound(memory'[d])
  BY RememberKeeps DEF TellAll
<1>6. pending' \in [Domains -> Callers \cup {None}]
  BY FitNow DEF TellAll
<1> QED
  BY <1>4, <1>5, <1>6, FitNow, LookupKeeps

\* A host that does not validate is the only one that can say "free" of a taken name.
LEMMA OnlyLaxLies ==
    ASSUME HostsTyped, NEW h \in Hosts, NEW d \in Taken,
           NEW a \in Says(h, d), NEW ns \in Says(h, d), NEW soa \in Says(h, d), Resolved(a, ns, soa) = "free"
    PROVE  mode[h] = "lax"
<1>1. ns = "nxdomain" /\ soa = "nxdomain"
  BY DEF Resolved
<1>2. mode[h] \in Modes
  BY DEF HostsTyped
<1>3. CASE mode[h] = "strict"
  BY <1>1, <1>3 DEF Says
<1>4. CASE mode[h] = "down"
  BY <1>1, <1>4 DEF Says
<1> QED
  BY <1>2, <1>3, <1>4 DEF Modes

LEMMA ReplyKeeps ==
    ASSUME Inv, NEW c \in Callers, Reply(c)
    PROVE  Inv'
<1> DEFINE d == call[c].domain
           h == call[c].host
<1>1. d \in Domains /\ h \in Hosts
  BY FitNow DEF Reply, Fit
<1>2. PICK a \in Says(h, d), ns \in Says(h, d), soa \in Says(h, d) :
         LET s == Resolved(a, ns, soa)
             answer == [domain |-> d, status |-> s, valid |-> s = "free" /\ Stamp(h),
                        wrong |-> s = "free" /\ d \in Taken /\ h \notin undue, old |-> FALSE]
         IN  /\ TellAll(c, answer)
             /\ late' = IF s = "unknown" THEN late ELSE [late EXCEPT ![d] = answer]
  BY DEF Reply
<1> DEFINE s      == Resolved(a, ns, soa)
           valid  == s = "free" /\ Stamp(h)
           wrong  == s = "free" /\ d \in Taken /\ h \notin undue
           answer == [domain |-> d, status |-> s, valid |-> valid, wrong |-> wrong, old |-> FALSE]
<1>3. s \in Status /\ wrong \in BOOLEAN /\ valid \in BOOLEAN
  BY DEF Resolved, Status
<1>4. Stamp(h) = health[h].valid /\ health[h].valid \in BOOLEAN
  BY <1>1, FitNow DEF Stamp, Health
<1>5. wrong => ~valid
  BY <1>1, <1>4, HostFacts, OnlyLaxLies DEF Proofs
<1>6. TellAll(c, answer) /\ late' \in {late, [late EXCEPT ![d] = answer]}
  BY <1>2
<1> HIDE DEF s, wrong, valid
<1>7. answer \in Answer /\ Sound(answer)
  BY <1>1, <1>3, <1>5 DEF Answer, Sound
<1> HIDE DEF answer
<1>8. late' \in Kept /\ \A e \in Domains : Sound(late'[e])
  BY <1>1, <1>6, <1>7, FitNow DEF Kept
<1>9. health' \in [Hosts -> Health] /\ \A g \in Hosts : health'[g].valid = health[g].valid
  BY <1>1, FitNow, MarkIs DEF Reply
<1>10. UNCHANGED <<world, row, saved, validating, round>>
  BY DEF Reply
<1> QED
  BY <1>6, <1>7, <1>8, <1>9, <1>10, FitNow, TellAllKeeps DEF world

LEMMA RefusedKeeps ==
    ASSUME Inv, NEW c \in Callers, Refused(c)
    PROVE  Inv'
<1> DEFINE d == call[c].domain
           h == call[c].host
           a == Silence(d)
<1>1. d \in Domains /\ h \in Hosts
  BY FitNow DEF Refused, Fit
<1>2. a \in Answer /\ Sound(a)
  BY <1>1, SilenceTyped DEF Sound
<1>3. TellAll(c, a) /\ UNCHANGED <<mode, undue, row, late, saved, validating, round>>
  BY DEF Refused
<1> HIDE DEF a
<1>4. health' \in [Hosts -> Health] /\ \A g \in Hosts : health'[g].valid = health[g].valid
  BY <1>1, FitNow, MarkIs DEF Refused
<1>5. events' \in 0 .. MaxEvents
  BY FitNow, DnsAssumption DEF Refused
<1> QED
  BY <1>2, <1>3, <1>4, <1>5, FitNow, TellAllKeeps

LEMMA PreFilterKeeps ==
    ASSUME Inv, NEW c \in Callers, PreFilter(c)
    PROVE  Inv'
<1>1. Fit(Asleep) /\ call' = [call EXCEPT ![c] = Asleep]
  BY AsleepTyped DEF PreFilter, Fit, Sound
<1>2. call' \in [Callers -> CallType] /\ \A b \in Callers : Fit(call'[b])
  BY <1>1, OneFits
<1>3. UNCHANGED <<world, caches, health, validating, pending, round>>
  BY DEF PreFilter
<1> QED
  BY <1>2, <1>3, FitNow, LookupKeeps DEF world, caches

\* The gate: what it passes came with a proof, unchanged by the fallback.
LEMMA GateHolds ==
    ASSUME Inv
    PROVE  PassedIsProven
<1> SUFFICES ASSUME NEW c \in Callers, call[c].at = "told", NEW a \in Wrapped(call[c].got), Passes(a)
             PROVE  ~a.wrong
  BY DEF PassedIsProven
<1>1. call[c].got \in Answer /\ Sound(call[c].got)
  BY FitNow DEF Fit
<1>2. ~(call[c].got.valid /\ call[c].got.wrong)
  BY <1>1, NoAnswerAssumption DEF Sound
<1>3. a = call[c].got
  <2>1. CASE IsHealthy
    BY <2>1 DEF Wrapped
  <2>2. CASE ~IsHealthy /\ call[c].got.status = "free"
    BY <2>2 DEF Wrapped, Passes, Silence
  <2>3. CASE ~IsHealthy /\ call[c].got.status # "free"
    BY <2>3 DEF Wrapped, Passes
  <2> QED
    BY <2>1, <2>2, <2>3
<1> QED
  BY <1>2, <1>3 DEF Passes

-----------------------------------------------------------------------------
(* What holds of every behaviour.                                           *)

LEMMA StutterKeeps ==
    ASSUME Inv, UNCHANGED vars
    PROVE  Inv'
<1>1. UNCHANGED <<mode, undue, events, memory, row, late, saved, health, validating, pending, call, round>>
  BY DEF vars, world, caches
<1>2. HostsTyped' /\ RoundTyped' /\ Proofs'
  BY <1>1, HostFacts DEF HostsTyped, RoundTyped, Proofs
<1> QED
  BY <1>1, <1>2, HostFacts, HostsDrop

LEMMA NextInv ==
    ASSUME Inv, [Next]_vars
    PROVE  Inv'
<1>1. CASE \E c \in Callers : Step(c)
  BY <1>1, ReadRowKeeps, UseRowKeeps, ReplyKeeps, RefusedKeeps, PreFilterKeeps DEF Step
<1>2. CASE \E c \in Callers, d \in Domains, forceRecheck \in BOOLEAN : Call(c, d, forceRecheck)
  BY <1>2, CallKeeps
<1>3. CASE Round
  BY <1>3, CheckSocketsKeeps, StartRoundKeeps, EndProbesKeeps, ClearKeeps, PurgeKeeps, SkipKeeps, ProbeKeeps,
     ProbeFailsKeeps, SaveKeeps DEF Round
<1>4. CASE Restart
  BY <1>4, RestartKeeps
<1>5. CASE \E h \in Hosts : CoolDown(h) \/ \E m \in {"strict", "lax", "down"} : Shift(h, m)
  BY <1>5, CoolDownKeeps, ShiftKeeps DEF Modes
<1>6. CASE \E d \in Domains : Expire(d) \/ \E lost \in BOOLEAN : Land(d, lost)
  BY <1>6, ExpireKeeps, LandKeeps
<1> QED
  BY <1>1, <1>2, <1>3, <1>4, <1>5, <1>6, StutterKeeps DEF Next

THEOREM AlwaysInv == Spec => []Inv
<1>1. Inv /\ [Next]_vars => Inv'
  BY NextInv
<1> QED
  BY <1>1, InitInv, PTL DEF Spec

\* The resolver, its rounds and its caches are what their variables say they are.
THEOREM DnsTypeCorrect == Spec => []TypeOK
<1>1. Inv => TypeOK
  BY DEF Inv
<1> QED
  BY <1>1, AlwaysInv, PTL

\* However many hosts, lookups, restarts and changes there are, the strict gate lets
\* no "free" of a taken name through that a host said without a proof, or the fallback
\* (DnsPreFilterStage, #dnssecPasses); a host fools it only by a proof it does not
\* deserve, because validation was lost since or an outage of the controls gave it.
THEOREM GateIsProven == Spec => []PassedIsProven
<1>1. Inv => PassedIsProven
  BY GateHolds
<1> QED
  BY <1>1, AlwaysInv, PTL

-----------------------------------------------------------------------------
(* What has been purged does not come back.                                 *)

Young(a) == a # None => ~a.old

\* No row, no write under way and no read in hand is from before a purge, the memory
\* only while validation is lost or its return is about to clear it, and a process
\* that starts has nothing in memory.
Purged ==
    /\ \A d \in Domains : Young(row[d]) /\ Young(late[d])
    /\ \A c \in Callers : call[c].at = "read" => Young(call[c].got)
    /\ \A d \in Domains :
          \/ Young(memory[d])
          \/ ~validating
          \/ (round.kind = "saving" /\ round.changed /\ round.reached # {})
    /\ round.kind = "purge" => ~validating
    /\ round.kind = "saving" => validating = (round.proven # {})
    /\ round.proven \subseteq round.reached
    /\ Booting => /\ \A c \in Callers : call[c].at = "idle"
                  /\ \A d \in Domains : memory[d] = None

LEMMA InitPurged ==
    ASSUME Init
    PROVE  Purged
BY AsleepTyped DEF Init, Purged, Young, Boot

\* A step of the lookups.
LEMMA LookupPurged ==
    ASSUME Purged, ~Booting, UNCHANGED <<validating, round>>,
           \A d \in Domains : /\ memory'[d] = memory[d] \/ Young(memory'[d])
                              /\ Young(row'[d]) /\ Young(late'[d]),
           \A c \in Callers : call'[c].at = "read" => call'[c] = call[c] \/ Young(call'[c].got)
    PROVE  Purged'
<1>1. ~Booting'
  BY DEF Booting
<1>2. \A c \in Callers : call'[c].at = "read" => Young(call'[c].got)
  BY DEF Purged
<1>3. \A d \in Domains :
          \/ Young(memory'[d])
          \/ ~validating'
          \/ (round'.kind = "saving" /\ round'.changed /\ round'.reached # {})
  BY DEF Purged
<1> QED
  BY <1>1, <1>2, <1>3 DEF Purged

\* A step of the hosts, or of a round that stays what it is: nothing new is kept.
LEMMA HostPurged ==
    ASSUME Purged, UNCHANGED <<validating, call>>,
           round'.kind = round.kind, round'.changed = round.changed,
           round.reached \subseteq round'.reached, round'.proven \subseteq round'.reached,
           round.kind = "saving" => round'.proven = round.proven,
           \A d \in Domains : /\ memory'[d] \in {memory[d], None} /\ row'[d] \in {row[d], late[d], None}
                              /\ late'[d] \in {late[d], None}
    PROVE  Purged'
<1>1. \A d \in Domains : Young(row'[d]) /\ Young(late'[d])
  BY DEF Purged, Young
<1>2. \A d \in Domains :
          \/ Young(memory'[d])
          \/ ~validating'
          \/ (round'.kind = "saving" /\ round'.changed /\ round'.reached # {})
  BY DEF Purged, Young
<1>3. Booting' => /\ \A c \in Callers : call'[c].at = "idle"
                  /\ \A d \in Domains : memory'[d] = None
  BY DEF Purged, Booting
<1> QED
  BY <1>1, <1>2, <1>3 DEF Purged

\* A caller that is on its way is not told of a process that starts.
LEMMA Awake ==
    ASSUME Purged, NEW c \in Callers, call[c].at # "idle"
    PROVE  ~Booting
BY DEF Purged

LEMMA SilenceYoung ==
    ASSUME NEW d \in Domains
    PROVE  Young(Silence(d))
BY DEF Young, Silence

LEMMA RememberYoung ==
    ASSUME Inv, NEW a \in Answer, Young(a), Remember(a)
    PROVE  \A d \in Domains : memory'[d] = memory[d] \/ Young(memory'[d])
BY FitNow DEF Remember, Kept, Answer

LEMMA OneMoves ==
    ASSUME Inv, NEW c \in Callers, NEW x, call' = [call EXCEPT ![c] = x], x.at # "read"
    PROVE  \A b \in Callers : call'[b].at = "read" => call'[b] = call[b]
BY FitNow

\* What a caller becomes by the steps of a lookup is no read in hand.
LEMMA Moves ==
    ASSUME NEW d, NEW a, NEW h
    PROVE  /\ [Asleep EXCEPT !.at = "joined", !.domain = d].at # "read"
           /\ [Asleep EXCEPT !.at = "reading", !.domain = d].at # "read"
           /\ [Asleep EXCEPT !.at = "asking", !.domain = d, !.host = h].at # "read"
           /\ [Asleep EXCEPT !.at = "told", !.domain = a.domain, !.got = a].at # "read"
BY DEF Asleep

LEMMA LookUpPurged ==
    ASSUME Inv, NEW c \in Callers, NEW d \in Domains, LookUp(c, d)
    PROVE  /\ \A e \in Domains : memory'[e] = memory[e] \/ Young(memory'[e])
           /\ \A b \in Callers : call'[b].at = "read" => call'[b] = call[b]
<1>1. UNCHANGED memory \/ Remember(Silence(d))
  BY DEF LookUp
<1>2. \A e \in Domains : memory'[e] = memory[e] \/ Young(memory'[e])
  BY <1>1, SilenceTyped, SilenceYoung, RememberYoung
<1>3. \A b \in Callers : call'[b].at = "read" => call'[b] = call[b]
  <2>1. CASE call' = [call EXCEPT ![c] = [Asleep EXCEPT !.at = "joined", !.domain = d]]
    BY <2>1, Moves, OneMoves
  <2>2. CASE \E h \in Healthy :
               call' = [call EXCEPT ![c] = [Asleep EXCEPT !.at = "asking", !.domain = d, !.host = h]]
    BY <2>2, Moves, OneMoves
  <2>3. CASE call' = Told(c, Silence(d))
    BY <2>3, Moves, OneMoves DEF Told
  <2> QED
    BY <2>1, <2>2, <2>3 DEF LookUp
<1> QED
  BY <1>2, <1>3

LEMMA CallPurged ==
    ASSUME Inv, Purged, NEW c \in Callers, NEW d \in Domains, NEW forceRecheck \in BOOLEAN,
           Call(c, d, forceRecheck)
    PROVE  Purged'
<1>1. /\ \A e \in Domains : memory'[e] = memory[e] \/ Young(memory'[e])
      /\ \A b \in Callers : call'[b].at = "read" => call'[b] = call[b]
  <2>1. CASE LookUp(c, d)
    BY <2>1, LookUpPurged
  <2>2. CASE call' = Told(c, memory[d]) /\ UNCHANGED memory
    BY <2>2, Moves, OneMoves DEF Told
  <2>3. CASE call' = [call EXCEPT ![c] = [Asleep EXCEPT !.at = "reading", !.domain = d]] /\ UNCHANGED memory
    BY <2>3, Moves, OneMoves
  <2> QED
    BY <2>1, <2>2, <2>3 DEF Call
<1>2. ~Booting /\ UNCHANGED <<row, late, validating, round>>
  BY DEF Call
<1> QED
  BY <1>1, <1>2, LookupPurged DEF Purged

LEMMA ReadRowPurged ==
    ASSUME Inv, Purged, NEW c \in Callers, ReadRow(c)
    PROVE  Purged'
<1>1. ~Booting /\ UNCHANGED <<memory, row, late, validating, round>>
  BY Awake DEF ReadRow, caches
<1>2. call[c].domain \in Domains
  BY FitNow DEF ReadRow, Fit
<1>3. \A b \in Callers : call'[b].at = "read" => call'[b] = call[b] \/ Young(call'[b].got)
  BY <1>2, FitNow DEF ReadRow, Purged, CallType
<1> QED
  BY <1>1, <1>3, LookupPurged DEF Purged

LEMMA UseRowPurged ==
    ASSUME Inv, Purged, NEW c \in Callers, UseRow(c)
    PROVE  Purged'
<1> DEFINE d == call[c].domain
           a == call[c].got
<1>1. ~Booting /\ UNCHANGED <<row, late, validating, round>>
  BY Awake DEF UseRow
<1>2. d \in Domains /\ a \in Answer \cup {None} /\ Young(a)
  BY FitNow DEF UseRow, Fit, CallType, Purged
<1>3. /\ \A e \in Domains : memory'[e] = memory[e] \/ Young(memory'[e])
      /\ \A b \in Callers : call'[b].at = "read" => call'[b] = call[b]
  <2>1. CASE LookUp(c, d)
    BY <1>2, <2>1, LookUpPurged
  <2>2. CASE a # None /\ call' = Told(c, a) /\ Remember(a)
    <3>1. \A b \in Callers : call'[b].at = "read" => call'[b] = call[b]
      BY <2>2, Moves, OneMoves DEF Told
    <3> HIDE DEF a
    <3> QED
      BY <1>2, <2>2, <3>1, RememberYoung
  <2> QED
    BY <2>1, <2>2 DEF UseRow
<1> QED
  BY <1>1, <1>3, LookupPurged DEF Purged

LEMMA TellAllPurged ==
    ASSUME Inv, NEW c \in Callers, NEW a \in Answer, Young(a), TellAll(c, a)
    PROVE  /\ \A d \in Domains : memory'[d] = memory[d] \/ Young(memory'[d])
           /\ \A b \in Callers : call'[b].at = "read" => call'[b] = call[b]
<1>1. \A d \in Domains : memory'[d] = memory[d] \/ Young(memory'[d])
  BY RememberYoung DEF TellAll
<1>2. \A b \in Callers : call'[b] = call[b] \/ call'[b].at = "told"
  BY DEF TellAll, Asleep
<1> QED
  BY <1>1, <1>2

LEMMA ReplyPurged ==
    ASSUME Inv, Purged, NEW c \in Callers, Reply(c)
    PROVE  Purged'
<1> DEFINE d == call[c].domain
           h == call[c].host
<1>1. d \in Domains
  BY FitNow DEF Reply, Fit
<1>2. PICK s \in Status, valid \in BOOLEAN, wrong \in BOOLEAN :
         LET answer == [domain |-> d, status |-> s, valid |-> valid, wrong |-> wrong, old |-> FALSE]
         IN  /\ TellAll(c, answer)
             /\ late' = IF s = "unknown" THEN late ELSE [late EXCEPT ![d] = answer]
  <2>1. PICK q \in Says(h, d), ns \in Says(h, d), soa \in Says(h, d) :
           LET s == Resolved(q, ns, soa)
               answer == [domain |-> d, status |-> s, valid |-> s = "free" /\ Stamp(h),
                          wrong |-> s = "free" /\ d \in Taken /\ h \notin undue, old |-> FALSE]
           IN  /\ TellAll(c, answer)
               /\ late' = IF s = "unknown" THEN late ELSE [late EXCEPT ![d] = answer]
    BY DEF Reply
  <2> DEFINE s     == Resolved(q, ns, soa)
             valid == s = "free" /\ Stamp(h)
             wrong == s = "free" /\ d \in Taken /\ h \notin undue
  <2>2. s \in Status /\ valid \in BOOLEAN /\ wrong \in BOOLEAN
    BY DEF Resolved, Status
  <2> QED
    BY <2>1, <2>2
<1> DEFINE answer == [domain |-> d, status |-> s, valid |-> valid, wrong |-> wrong, old |-> FALSE]
<1>3. answer \in Answer /\ Young(answer)
  BY <1>1 DEF Answer, Young
<1>4. TellAll(c, answer) /\ late' \in {late, [late EXCEPT ![d] = answer]}
  BY <1>2
<1> HIDE DEF answer
<1>5. \A e \in Domains : Young(late'[e])
  BY <1>1, <1>3, <1>4, FitNow DEF Purged, Kept
<1>6. ~Booting /\ UNCHANGED <<row, validating, round>>
  BY Awake DEF Reply
<1>7. /\ \A e \in Domains : memory'[e] = memory[e] \/ Young(memory'[e])
      /\ \A b \in Callers : call'[b].at = "read" => call'[b] = call[b]
  BY <1>3, <1>4, TellAllPurged
<1> QED
  BY <1>5, <1>6, <1>7, LookupPurged DEF Purged

LEMMA RefusedPurged ==
    ASSUME Inv, Purged, NEW c \in Callers, Refused(c)
    PROVE  Purged'
<1>1. call[c].domain \in Domains
  BY FitNow DEF Refused, Fit
<1>2. /\ \A e \in Domains : memory'[e] = memory[e] \/ Young(memory'[e])
      /\ \A b \in Callers : call'[b].at = "read" => call'[b] = call[b]
  BY <1>1, SilenceTyped, SilenceYoung, TellAllPurged DEF Refused
<1>3. ~Booting /\ UNCHANGED <<row, late, validating, round>>
  BY Awake DEF Refused
<1> QED
  BY <1>2, <1>3, LookupPurged DEF Purged

LEMMA PreFilterPurged ==
    ASSUME Inv, Purged, NEW c \in Callers, PreFilter(c)
    PROVE  Purged'
<1>1. ~Booting /\ UNCHANGED <<memory, row, late, validating, round>>
  BY Awake DEF PreFilter, caches
<1>2. \A b \in Callers : call'[b].at = "read" => call'[b] = call[b]
  BY AsleepTyped, OneMoves DEF PreFilter
<1> QED
  BY <1>1, <1>2, LookupPurged DEF Purged

\* The rounds.
LEMMA CheckSocketsPurged ==
    ASSUME Inv, Purged, CheckSockets
    PROVE  Purged'
<1>1. UNCHANGED <<memory, row, late, validating, call>> /\ Booting
  BY DEF CheckSockets, caches, Booting
<1>2. round'.kind \in {"boot", "none"} /\ round'.proven = {} /\ round'.reached = {}
  BY DEF CheckSockets, Boot, Quiet
<1> QED
  BY <1>1, <1>2 DEF Purged, Young

LEMMA StartRoundPurged ==
    ASSUME Inv, Purged, StartRound
    PROVE  Purged'
<1>1. UNCHANGED <<memory, row, late, validating, call>> /\ round.kind = "none"
  BY DEF StartRound, caches
<1>2. round'.kind = "periodic" /\ round'.proven = {} /\ round'.reached = {}
  BY DEF StartRound, Boot
<1> QED
  BY <1>1, <1>2 DEF Purged, Booting

LEMMA SkipPurged ==
    ASSUME Inv, Purged, NEW h \in Hosts, Skip(h)
    PROVE  Purged'
<1>1. UNCHANGED <<memory, row, late, validating, call>>
  BY DEF Skip, caches
<1>2. /\ round'.kind = round.kind /\ round'.changed = round.changed
      /\ round'.reached = round.reached /\ round'.proven = round.proven
  BY HostFacts DEF Skip, RoundTyped
<1> QED
  BY <1>1, <1>2, HostPurged DEF Purged

LEMMA ProbePurged ==
    ASSUME Inv, Purged, NEW h \in Hosts, Probe(h)
    PROVE  Purged'
<1>1. PICK course \in {"clear", "outage", "lost"} :
         round' = [round EXCEPT !.next = @ + 1, !.reached = @ \cup {h},
                                !.proven = IF Proof(h, course) THEN @ \cup {h} ELSE @]
  BY DEF Probe
<1>2. UNCHANGED <<memory, row, late, validating, call>> /\ round.kind # "saving"
  BY DEF Probe, caches, Probing
<1>3. /\ round'.kind = round.kind /\ round'.changed = round.changed
      /\ round'.reached = round.reached \cup {h}
      /\ round'.proven \in {round.proven, round.proven \cup {h}}
  BY <1>1, HostFacts DEF RoundTyped
<1>4. round'.proven \subseteq round'.reached
  BY <1>3 DEF Purged
<1> QED
  BY <1>2, <1>3, <1>4, HostPurged

LEMMA ProbeFailsPurged ==
    ASSUME Inv, Purged, NEW h \in Hosts, ProbeFails(h)
    PROVE  Purged'
<1>1. UNCHANGED <<memory, row, late, validating, call>>
  BY DEF ProbeFails, caches
<1>2. /\ round'.kind = round.kind /\ round'.changed = round.changed
      /\ round'.reached = round.reached /\ round'.proven = round.proven
  BY HostFacts DEF ProbeFails, RoundTyped
<1> QED
  BY <1>1, <1>2, HostPurged DEF Purged

\* Validation comes back only with a round that has reached a host and found the change.
LEMMA EndProbesPurged ==
    ASSUME Inv, Purged, EndProbes
    PROVE  Purged'
<1>1. UNCHANGED <<memory, row, late, call>> /\ validating' = (round.proven # {})
  BY DEF EndProbes, caches
<1>2. validating \in BOOLEAN
  BY HostFacts DEF HostsTyped
<1>3. CASE round.kind = "boot"
  <2>1. round'.kind \in {"sockets", "none"} /\ round'.proven = {} /\ round'.reached = {}
    BY <1>3 DEF EndProbes, Boot, Quiet
  <2>2. Booting
    BY <1>3 DEF Booting
  <2> QED
    BY <1>1, <2>1, <2>2 DEF Purged, Young
<1>4. CASE round.kind = "periodic"
  <2> DEFINE changed == validating # (round.proven # {})
  <2>1. round' = [round EXCEPT !.kind = "saving", !.next = 1, !.changed = changed]
    BY <1>4 DEF EndProbes
  <2>2. changed \in BOOLEAN /\ (changed <=> validating # (round.proven # {}))
    OBVIOUS
  <2> HIDE DEF changed
  <2>3. /\ round'.kind = "saving" /\ round'.changed = changed
        /\ round'.reached = round.reached /\ round'.proven = round.proven
    BY <2>1, HostFacts DEF RoundTyped
  <2>4. ASSUME NEW d \in Domains, ~Young(memory'[d]), validating'
        PROVE  round'.changed /\ round'.reached # {}
    <3>1. ~validating
      BY <1>1, <1>4, <2>4 DEF Purged
    <3>2. round.proven # {}
      BY <1>1, <2>4
    <3>3. round'.reached # {}
      BY <2>3, <3>2 DEF Purged
    <3> QED
      BY <1>2, <2>2, <2>3, <3>1, <3>2, <3>3
  <2> QED
    BY <1>1, <2>3, <2>4 DEF Purged, Booting
<1> QED
  BY <1>3, <1>4 DEF EndProbes

LEMMA SavePurged ==
    ASSUME Inv, Purged, NEW h \in Hosts, Save(h)
    PROVE  Purged'
<1>1. UNCHANGED <<memory, row, late, validating, call>>
  BY DEF Save
<1>2. /\ round'.kind = round.kind /\ round'.changed = round.changed
      /\ round'.reached = round.reached /\ round'.proven = round.proven
  BY HostFacts DEF Save, RoundTyped
<1> QED
  BY <1>1, <1>2, HostPurged DEF Purged

LEMMA ClearPurged ==
    ASSUME Inv, Purged, Clear
    PROVE  Purged'
<1>1. UNCHANGED <<row, late, validating, call>> /\ round.kind = "saving"
  BY DEF Clear
<1>2. CASE Noticed
  <2>1. \A d \in Domains : memory'[d] = None
    BY <1>2 DEF Clear
  <2>2. round' = IF round.proven = {} THEN [round EXCEPT !.kind = "purge"] ELSE Quiet
    BY <1>2 DEF Clear
  <2>3. CASE round.proven = {}
    <3>1. round'.kind = "purge" /\ round'.proven = round.proven /\ round'.reached = round.reached
      BY <2>2, <2>3, HostFacts DEF RoundTyped
    <3>2. ~validating
      BY <1>1, <2>3 DEF Purged
    <3> QED
      BY <1>1, <2>1, <3>1, <3>2 DEF Purged, Young, Booting
  <2>4. CASE round.proven # {}
    <3>1. round'.kind = "none" /\ round'.proven = {} /\ round'.reached = {}
      BY <2>2, <2>4 DEF Quiet, Boot
    <3> QED
      BY <1>1, <2>1, <3>1 DEF Purged, Young, Booting
  <2> QED
    BY <2>3, <2>4
<1>3. CASE ~Noticed
  <2>1. round'.kind = "none" /\ round'.proven = {} /\ round'.reached = {} /\ UNCHANGED memory
    BY <1>3 DEF Clear, Quiet, Boot
  <2>2. \A d \in Domains : Young(memory[d]) \/ ~validating
    BY <1>3 DEF Purged, Noticed
  <2> QED
    BY <1>1, <2>1, <2>2 DEF Purged, Booting
<1> QED
  BY <1>2, <1>3

LEMMA PurgePurged ==
    ASSUME Inv, Purged, Purge
    PROVE  Purged'
<1>1. UNCHANGED <<late, validating, call>> /\ ~validating
  BY DEF Purge, Purged
<1>2. round'.kind = "none" /\ round'.proven = {} /\ round'.reached = {}
  BY DEF Purge, Quiet, Boot
<1>3. \A d \in Domains : row'[d] \in {row[d], None}
  BY DEF Purge
<1> QED
  BY <1>1, <1>2, <1>3 DEF Purged, Young, Booting

LEMMA RestartPurged ==
    ASSUME Inv, Purged, Restart
    PROVE  Purged'
<1>1. \A d \in Domains : memory'[d] = None /\ late'[d] = None /\ row'[d] = row[d]
  BY DEF Restart
<1>2. round'.kind = "sockets" /\ round'.proven = {} /\ round'.reached = {}
  BY DEF Restart, Boot
<1>3. \A c \in Callers : call'[c].at = "idle"
  BY AsleepTyped DEF Restart
<1> QED
  BY <1>1, <1>2, <1>3 DEF Purged, Young

LEMMA OthersPurged ==
    ASSUME Inv, Purged,
           \/ \E h \in Hosts : CoolDown(h) \/ \E m \in Modes : Shift(h, m)
           \/ \E d \in Domains : Expire(d) \/ \E lost \in BOOLEAN : Land(d, lost)
           \/ UNCHANGED vars
    PROVE  Purged'
<1>1. UNCHANGED <<validating, call, round>>
  BY DEF CoolDown, Shift, Expire, Land, vars
<1>2. \A d \in Domains : /\ memory'[d] \in {memory[d], None} /\ row'[d] \in {row[d], late[d], None}
                         /\ late'[d] \in {late[d], None}
  <2>1. CASE \E h \in Hosts : CoolDown(h) \/ \E m \in Modes : Shift(h, m)
    BY <2>1 DEF CoolDown, Shift, caches
  <2>2. ASSUME NEW d \in Domains, Expire(d) \/ \E lost \in BOOLEAN : Land(d, lost)
        PROVE  \A e \in Domains : /\ memory'[e] \in {memory[e], None} /\ row'[e] \in {row[e], late[e], None}
                                  /\ late'[e] \in {late[e], None}
    BY <2>2, FitNow DEF Expire, Land, Kept
  <2>3. CASE UNCHANGED vars
    BY <2>3 DEF vars, caches
  <2> QED
    BY <2>1, <2>2, <2>3
<1> QED
  BY <1>1, <1>2, HostPurged DEF Purged

LEMMA NextPurged ==
    ASSUME Inv, Purged, [Next]_vars
    PROVE  Purged'
<1>1. CASE \E c \in Callers : Step(c)
  BY <1>1, ReadRowPurged, UseRowPurged, ReplyPurged, RefusedPurged, PreFilterPurged DEF Step
<1>2. CASE \E c \in Callers, d \in Domains, forceRecheck \in BOOLEAN : Call(c, d, forceRecheck)
  BY <1>2, CallPurged
<1>3. CASE Round
  BY <1>3, CheckSocketsPurged, StartRoundPurged, EndProbesPurged, ClearPurged, PurgePurged, SkipPurged,
     ProbePurged, ProbeFailsPurged, SavePurged DEF Round
<1>4. CASE Restart
  BY <1>4, RestartPurged
<1>5. CASE \/ \E h \in Hosts : CoolDown(h) \/ \E m \in Modes : Shift(h, m)
           \/ \E d \in Domains : Expire(d) \/ \E lost \in BOOLEAN : Land(d, lost)
           \/ UNCHANGED vars
  BY <1>5, OthersPurged
<1> QED
  BY <1>1, <1>2, <1>3, <1>4, <1>5 DEF Next, Modes

\* However many hosts, lookups, restarts and failures there are, validation that comes
\* back after a loss was purged (clearProvider in revalidateDnssecValidation) finds
\* nothing in the caches that they held before the purge.
THEOREM PurgeIsFinal == Spec => []PurgedStaysPurged
<1>1. Init => Inv /\ Purged
  BY InitInv, InitPurged
<1>2. Inv /\ Purged /\ [Next]_vars => Inv' /\ Purged'
  BY NextInv, NextPurged
<1>3. Purged => PurgedStaysPurged
  BY DEF Purged, PurgedStaysPurged, Young
<1> QED
  BY <1>1, <1>2, <1>3, PTL DEF Spec

=============================================================================
