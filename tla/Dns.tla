---------------------------------- MODULE Dns ----------------------------------
(***************************************************************************)
(* Availability by DNS: the lookups of UnboundResolver over several        *)
(* Unbound hosts and two caches, the periodic proof that each host         *)
(* validates DNSSEC (ADR-0072, ADR-0078), FallbackResolver around it, and  *)
(* the gate of the DNS pre-filter in strict mode.                          *)
(*                                                                         *)
(* A host that does not validate ("lax") may be made to say that a taken   *)
(* name does not exist; the fallback never validates. Who has a name does  *)
(* not change. An outage of the control zones may give a lax host a proof, *)
(* since it answers SERVFAIL of a zone it cannot reach.                    *)
(***************************************************************************)
EXTENDS Naturals, FiniteSets

CONSTANTS
    Callers,     \* lookups that may be in flight
    Domains,     \* names looked up
    Taken,       \* those of them somebody has and has delegated
    Hosts,       \* 1 .. the number of Unbound hosts, in configured order
    None,        \* no answer, no caller, no saved state
    MaxFailures, \* MAX_CONSECUTIVE_FAILURES
    MinHealthy,  \* minHealthyHosts
    Quorum,      \* healthy hosts that isHealthy asks for
    MaxEvents    \* bound: lookups started or refused, hosts changed, probes, saves and
                 \* purges gone wrong, restarts

ASSUME DnsAssumption ==
    /\ Hosts = 1 .. Cardinality(Hosts)
    /\ Taken \subseteq Domains
    /\ {MaxFailures, MinHealthy, Quorum} \subseteq Nat \ {0}
    /\ MaxEvents \in Nat

VARIABLES
    mode,       \* each host: it validates, it does not, it is down
    undue,      \* hosts whose proof, in the process or saved, is not deserved: they have
                \* stopped validating since, or an outage of the control zones gave it
    health,     \* #hostHealth
    validating, \* #dnssecValidating
    memory,     \* #cache
    row,        \* provider_cache: answers
    late,       \* the write of a row that is under way, not awaited
    saved,      \* provider_cache: the state of each host with a proof (the
                \* state of another is saved too, but not loaded again)
    pending,    \* #pending: the caller whose lookup it is
    call,       \* each caller: where it is
    round,      \* the round of probes: boot (healthCheck) or periodic
    events      \* the bound

world  == <<mode, undue, events>>
caches == <<memory, row, late, saved>>
vars   == <<world, caches, health, validating, pending, call, round>>

\* an answer is wrong if a host said it that does not validate and has no undue
\* proof; it is old if a cache held it when a loss of validation was purged
Status == {"free", "taken", "unknown"}
Answer == [domain: Domains, status: Status, valid: BOOLEAN, wrong: BOOLEAN, old: BOOLEAN]
Health == [valid: BOOLEAN, healthy: BOOLEAN, fails: 0 .. MaxFailures, cooling: BOOLEAN]
Fresh  == [valid |-> FALSE, healthy |-> TRUE, fails |-> 0, cooling |-> FALSE]
Asleep == [at |-> "idle", domain |-> None, host |-> 0, got |-> None]

ASSUME NoAnswerAssumption == None \notin Answer

\* a round: the host it comes to next, what it has found out so far, and whether
\* that changes #dnssecValidating
Boot  == [kind |-> "sockets", next |-> 1, reached |-> {}, proven |-> {}, changed |-> FALSE]
Quiet == [Boot EXCEPT !.kind = "none"]
Kinds == {"none", "sockets", "boot", "periodic", "saving", "purge"}
Booting == round.kind \in {"sockets", "boot"}

TypeOK ==
    /\ mode \in [Hosts -> {"strict", "lax", "down"}]
    /\ undue \subseteq Hosts /\ health \in [Hosts -> Health] /\ validating \in BOOLEAN
    /\ {memory, row, late} \subseteq [Domains -> Answer \cup {None}]
    /\ saved \in [Hosts -> Health \cup {None}] /\ pending \in [Domains -> Callers \cup {None}]
    /\ call \in [Callers -> [at: {"idle", "reading", "read", "asking", "joined", "told"},
                             domain: Domains \cup {None}, host: Hosts \cup {0}, got: Answer \cup {None}]]
    /\ round \in [kind: Kinds, next: Nat, reached: SUBSET Hosts, proven: SUBSET Hosts, changed: BOOLEAN]
    /\ events \in 0 .. MaxEvents

Init ==
    /\ mode \in [Hosts -> {"strict", "lax"}]
    /\ undue = {} /\ health = [h \in Hosts |-> Fresh] /\ validating = FALSE
    /\ memory = [d \in Domains |-> None] /\ row = memory /\ late = memory /\ pending = memory
    /\ saved = [h \in Hosts |-> None] /\ call = [c \in Callers |-> Asleep]
    /\ round = Boot /\ events = 0

Healthy == {h \in Hosts : health[h].healthy}

(***************************************************************************)
(* UnboundResolver.checkAvailability                                       *)
(***************************************************************************)
Mark(hs, h) ==
    LET n == IF hs[h].fails < MaxFailures THEN hs[h].fails + 1 ELSE MaxFailures
        up == hs[h].healthy /\ n < MaxFailures
    IN  [hs EXCEPT ![h].fails = n, ![h].healthy = up, ![h].cooling = ~up]
Succeed(hs, h) == [hs EXCEPT ![h].fails = 0, ![h].healthy = TRUE, ![h].cooling = FALSE]

Silence(d) == [domain |-> d, status |-> "unknown", valid |-> FALSE, wrong |-> FALSE, old |-> FALSE]
Told(c, a) == [call EXCEPT ![c] = [Asleep EXCEPT !.at = "told", !.domain = a.domain, !.got = a]]
Remember(a) == memory' = [memory EXCEPT ![a.domain] = a]

\* a lookup in flight is joined; else one starts on a healthy host, or there are
\* too few of them and the answer is that nothing is known
LookUp(c, d) ==
    \/ /\ pending[d] # None
       /\ call' = [call EXCEPT ![c] = [Asleep EXCEPT !.at = "joined", !.domain = d]]
       /\ UNCHANGED <<pending, memory>>
    \/ /\ pending[d] = None /\ Cardinality(Healthy) >= MinHealthy
       /\ \E h \in Healthy :
            call' = [call EXCEPT ![c] = [Asleep EXCEPT !.at = "asking", !.domain = d, !.host = h]]
       /\ pending' = [pending EXCEPT ![d] = c]
       /\ UNCHANGED memory
    \/ /\ pending[d] = None /\ Cardinality(Healthy) < MinHealthy
       /\ call' = Told(c, Silence(d)) /\ Remember(Silence(d))
       /\ UNCHANGED pending

Call(c, d, forceRecheck) ==
    /\ ~Booting /\ call[c].at = "idle" /\ events < MaxEvents
    /\ events' = events + 1
    /\ \/ memory[d] # None /\ call' = Told(c, memory[d]) /\ UNCHANGED <<pending, memory>>
       \/ /\ memory[d] = None /\ ~forceRecheck
          /\ call' = [call EXCEPT ![c] = [Asleep EXCEPT !.at = "reading", !.domain = d]]
          /\ UNCHANGED <<pending, memory>>
       \/ memory[d] = None /\ forceRecheck /\ LookUp(c, d)
    /\ UNCHANGED <<mode, undue, row, late, saved, health, validating, round>>

\* the database answers; the caller has the row in hand until it goes on
ReadRow(c) ==
    /\ call[c].at = "reading"
    /\ call' = [call EXCEPT ![c].at = "read", ![c].got = row[call[c].domain]]
    /\ UNCHANGED <<world, caches, health, validating, pending, round>>

\* the row is used, and put into the memory, or it is stale (only a free one can
\* be) or there is none
UseRow(c) ==
    LET d == call[c].domain
        found == call[c].got
    IN  /\ call[c].at = "read"
        /\ \/ found # None /\ call' = Told(c, found) /\ Remember(found) /\ UNCHANGED pending
           \/ (found # None => found.status = "free") /\ LookUp(c, d)
        /\ UNCHANGED <<world, row, late, saved, health, validating, round>>

\* #resolveDomainOnHost: the A, NS and SOA queries of a name, each answered,
\* denied, timed out, or failed in another way
Outcomes == {"resolved", "nxdomain", "timeout", "error"}
Resolved(a, ns, soa) ==
    IF "resolved" \in {a, ns, soa} THEN "taken"
    ELSE IF {ns, soa} = {"nxdomain"} THEN "free" ELSE "unknown"
Says(h, d) ==
    CASE mode[h] = "strict" -> Outcomes \ (IF d \in Taken THEN {"nxdomain"} ELSE {"resolved"})
      [] mode[h] = "lax"    -> Outcomes \ (IF d \in Taken THEN {} ELSE {"resolved"})
      [] mode[h] = "down"   -> {"timeout"}

\* the answer is stamped with the proof the host has now (only a free one is asked
\* for its stamp again)
Stamp(h) == health[h].valid
TellAll(c, answer) ==
    /\ call' = [x \in Callers |->
           IF x = c \/ (call[x].at = "joined" /\ call[x].domain = answer.domain)
           THEN [Asleep EXCEPT !.at = "told", !.domain = answer.domain, !.got = answer] ELSE call[x]]
    /\ Remember(answer)
    /\ pending' = [pending EXCEPT ![answer.domain] = None]

Reply(c) ==
    LET d == call[c].domain
        h == call[c].host
    IN  /\ call[c].at = "asking"
        /\ \E a, ns, soa \in Says(h, d) :
             LET s == Resolved(a, ns, soa)
                 answer == [domain |-> d, status |-> s, valid |-> s = "free" /\ Stamp(h),
                            wrong |-> s = "free" /\ d \in Taken /\ h \notin undue, old |-> FALSE]
             IN  /\ TellAll(c, answer)
                 /\ late' = IF s = "unknown" THEN late ELSE [late EXCEPT ![d] = answer]
        /\ health' = Succeed(health, h)
        /\ UNCHANGED <<world, row, saved, validating, round>>

\* #setCaches does not await the write: it lands at some time or is lost (bound: one
\* write of a name is under way, an earlier one has landed or is lost)
Land(d, lost) ==
    /\ late[d] # None
    /\ late' = [late EXCEPT ![d] = None]
    /\ row' = IF lost THEN row ELSE [row EXCEPT ![d] = late[d]]
    /\ UNCHANGED <<world, memory, saved, health, validating, pending, call, round>>

\* the limiter has no room: counted against the host, which was not even asked
Refused(c) ==
    /\ call[c].at = "asking" /\ events < MaxEvents
    /\ events' = events + 1
    /\ TellAll(c, Silence(call[c].domain))
    /\ health' = Mark(health, call[c].host)
    /\ UNCHANGED <<mode, undue, row, late, saved, validating, round>>

(***************************************************************************)
(* FallbackResolver.checkAvailability, then DnsPreFilterStage              *)
(***************************************************************************)
IsHealthy == validating /\ Cardinality(Healthy) >= Quorum

\* a free name is never left to the fallback; what the fallback says of others,
\* "free" included, is unchecked
Wrapped(a) ==
    IF IsHealthy THEN {a}
    ELSE IF a.status = "free" THEN {Silence(a.domain)}
    ELSE {[domain |-> a.domain, status |-> s, valid |-> FALSE,
           wrong |-> s = "free" /\ a.domain \in Taken, old |-> FALSE] : s \in Status}

Passes(a) == a.status = "free" /\ a.valid

PreFilter(c) ==
    /\ call[c].at = "told"
    /\ call' = [call EXCEPT ![c] = Asleep]
    /\ UNCHANGED <<world, caches, health, validating, pending, round>>

(***************************************************************************)
(* healthCheck at boot, then revalidateDnssecValidation every interval     *)
(***************************************************************************)
\* one host that refuses a socket rejects the whole of healthCheck: without
\* DNS_UNBOUND_STRICT the process goes on with the saved proofs
CheckSockets ==
    /\ round.kind = "sockets"
    /\ round' = IF \A h \in Hosts : mode[h] # "down" THEN [Boot EXCEPT !.kind = "boot"] ELSE Quiet
    /\ UNCHANGED <<world, caches, health, validating, pending, call>>

StartRound ==
    /\ round.kind = "none"
    /\ round' = [Boot EXCEPT !.kind = "periodic"]
    /\ UNCHANGED <<world, caches, health, validating, pending, call>>

Probing == round.kind \in {"boot", "periodic"} /\ round.next \in Hosts
SkippedForGood(h) == round.kind = "periodic" /\ ~health[h].healthy
Skipped(h) == round.kind = "periodic" /\ ~health[h].healthy /\ health[h].cooling

Skip(h) ==
    /\ Probing /\ h = round.next /\ Skipped(h)
    /\ round' = [round EXCEPT !.next = @ + 1]
    /\ UNCHANGED <<world, caches, health, validating, pending, call>>

\* the A record of the test domain is resolved, then the controls: a SERVFAIL of a
\* bogus name is a proof, whatever its cause. A positive control that is answered
\* vouches for another zone than the bogus name's, or none is answered and the
\* fallback control is asked: with such a zone out of reach a lax host says SERVFAIL
\* too ("outage"). An inconclusive probe ("lost") is no proof.
ProofSticky(h, course) == health[h].valid \/ (mode[h] = "strict" /\ course # "lost")
ProofHopeful(h, course) == mode[h] = "strict" \/ course # "clear"
Proof(h, course) == course = "outage" \/ (mode[h] = "strict" /\ course = "clear")

Probe(h) ==
    \E course \in IF events < MaxEvents THEN {"clear", "outage", "lost"} ELSE {"clear"} :
        LET proof == Proof(h, course)
        IN  /\ Probing /\ h = round.next /\ ~Skipped(h) /\ mode[h] # "down"
            /\ events' = IF course = "clear" THEN events ELSE events + 1
            /\ health' = [Succeed(health, h) EXCEPT ![h].valid = proof]
            /\ undue' = IF mode[h] = "lax" /\ course = "outage" THEN undue \cup {h}
                        ELSE IF proof \/ saved[h] = None THEN undue \ {h} ELSE undue
            /\ round' = [round EXCEPT !.next = @ + 1, !.reached = @ \cup {h},
                                      !.proven = IF proof THEN @ \cup {h} ELSE @]
            /\ UNCHANGED <<mode, caches, validating, pending, call>>

ProbeFails(h) ==
    /\ Probing /\ h = round.next /\ ~Skipped(h)
    /\ mode[h] = "down" \/ events < MaxEvents
    /\ events' = IF mode[h] = "down" THEN events ELSE events + 1
    /\ health' = Mark(health, h)
    /\ round' = [round EXCEPT !.next = @ + 1]
    /\ UNCHANGED <<mode, undue, caches, validating, pending, call>>

\* #dnssecValidating is what the round has found. After a boot round waitForReady may
\* try again; a periodic one goes on to save the state of the hosts
EndProbes ==
    /\ round.kind \in {"boot", "periodic"} /\ round.next \notin Hosts
    /\ validating' = (round.proven # {})
    /\ IF round.kind = "boot"
       THEN \/ round' = Quiet /\ UNCHANGED events
            \/ events < MaxEvents /\ events' = events + 1 /\ round' = Boot
       ELSE /\ round' = [round EXCEPT !.kind = "saving", !.next = 1,
                                      !.changed = validating # (round.proven # {})]
            /\ UNCHANGED events
    /\ UNCHANGED <<mode, undue, caches, health, pending, call>>

\* one awaited write for each host, whose failure is swallowed
Save(h) ==
    /\ round.kind = "saving" /\ h = round.next
    /\ round' = [round EXCEPT !.next = @ + 1]
    /\ \/ /\ saved' = [saved EXCEPT ![h] =
                IF ~health[h].valid THEN None
                ELSE [health[h] EXCEPT !.healthy = h \in round.reached, !.cooling = FALSE]]
          /\ undue' = IF health[h].valid THEN undue ELSE undue \ {h}
          /\ UNCHANGED events
       \/ /\ events < MaxEvents /\ events' = events + 1
          /\ UNCHANGED <<saved, undue>>
    /\ UNCHANGED <<mode, memory, row, late, health, validating, pending, call>>

\* a round that has reached a host and found a change, for better or worse, clears
\* the memory, and purges the rows too if validation is lost
NoticedLoss == round.changed /\ round.reached # {} /\ round.proven = {}
Noticed == round.changed /\ round.reached # {}
Clear ==
    /\ round.kind = "saving" /\ round.next \notin Hosts
    /\ memory' = IF Noticed THEN [d \in Domains |-> None] ELSE memory
    /\ round' = IF Noticed /\ round.proven = {} THEN [round EXCEPT !.kind = "purge"] ELSE Quiet
    /\ UNCHANGED <<world, row, late, saved, health, validating, pending, call>>

\* clearProvider takes the saved state of the hosts with it, or fails unnoticed; what
\* the memory holds by then was read or told between the two
Aged(kept) == [d \in Domains |-> IF kept[d] = None THEN None ELSE [kept[d] EXCEPT !.old = TRUE]]
Purge ==
    /\ round.kind = "purge" /\ round' = Quiet
    /\ \/ /\ row' = [d \in Domains |-> None] /\ saved' = [h \in Hosts |-> None]
          /\ memory' = Aged(memory)
          /\ undue' = {h \in undue : health[h].valid}
          /\ UNCHANGED events
       \/ /\ events < MaxEvents /\ events' = events + 1
          /\ UNCHANGED <<row, saved, memory, undue>>
    /\ UNCHANGED <<mode, late, health, validating, pending, call>>

(***************************************************************************)
(* The surroundings                                                        *)
(***************************************************************************)
CoolDown(h) ==
    /\ health[h].cooling /\ health' = [health EXCEPT ![h].cooling = FALSE]
    /\ UNCHANGED <<world, caches, validating, pending, call, round>>

Expire(d) ==
    /\ \/ memory[d] # None /\ memory' = [memory EXCEPT ![d] = None] /\ UNCHANGED row
       \/ row[d] # None /\ row' = [row EXCEPT ![d] = None] /\ UNCHANGED memory
    /\ UNCHANGED <<world, late, saved, health, validating, pending, call, round>>

Shift(h, m) ==
    /\ events < MaxEvents /\ mode[h] # m /\ events' = events + 1
    /\ mode' = [mode EXCEPT ![h] = m]
    /\ undue' = IF m = "lax" /\ (health[h].valid \/ saved[h] # None) THEN undue \cup {h} ELSE undue
    /\ UNCHANGED <<caches, health, validating, pending, call, round>>

\* the process is replaced: loadDnssecState brings back the hosts whose proof was
\* saved and has not lapsed since, then waitForReady checks them all
Restart ==
    \E lapsed \in SUBSET {h \in Hosts : saved[h] # None} :
        /\ events < MaxEvents /\ events' = events + 1
        /\ saved' = [h \in Hosts |-> IF h \in lapsed THEN None ELSE saved[h]]
        /\ memory' = [d \in Domains |-> None] /\ pending' = memory' /\ late' = memory'
        /\ call' = [c \in Callers |-> Asleep] /\ round' = Boot
        /\ health' = [h \in Hosts |-> IF saved'[h] # None THEN saved'[h] ELSE Fresh]
        /\ validating' = \E h \in Hosts : health'[h].valid
        /\ undue' = {h \in undue : saved'[h] # None}
        /\ UNCHANGED <<mode, row>>

Step(c) == ReadRow(c) \/ UseRow(c) \/ Reply(c) \/ Refused(c) \/ PreFilter(c)
Round ==
    \/ CheckSockets \/ StartRound \/ EndProbes \/ Clear \/ Purge
    \/ \E h \in Hosts : Skip(h) \/ Probe(h) \/ ProbeFails(h) \/ Save(h)

Next ==
    \/ \E c \in Callers : Step(c)
    \/ \E c \in Callers, d \in Domains, forceRecheck \in BOOLEAN : Call(c, d, forceRecheck)
    \/ Round \/ Restart
    \/ \E h \in Hosts : CoolDown(h) \/ \E m \in {"strict", "lax", "down"} : Shift(h, m)
    \/ \E d \in Domains : Expire(d) \/ \E lost \in BOOLEAN : Land(d, lost)

Spec == Init /\ [][Next]_vars

\* the revalidation timer fires, its probes and writes end, and the cooldown goes by;
\* nothing is asked of the lookups
Fairness == WF_vars(Round) /\ \A h \in Hosts : WF_vars(CoolDown(h))
FairSpec == Spec /\ Fairness

(***************************************************************************)
(* Properties                                                              *)
(***************************************************************************)
\* The strict gate (dns-prefilter-stage.ts #dnssecPasses): a taken name that a host
\* without a proof, or the fallback, calls free does not pass, by whatever way the
\* answer comes: a host, a caller joined, the memory, a row of an earlier process. A
\* host can fool it only while it has a proof it does not deserve (undue); an answer
\* from that time stays good to the gate for as long as a cache keeps it.
PassedIsProven ==
    \A c \in Callers : call[c].at = "told" =>
        \A a \in Wrapped(call[c].got) : Passes(a) => ~a.wrong

\* Once a loss of validation has been purged (ADR-0078), validation that is back
\* finds no answer in the caches that one held before, though rows are read and put
\* into the memory between its clearing and the purge. Excepted are the reads and
\* writes under way at the purge, and the time between the end of the probes and the
\* clearing, when validation counts as regained and the memory is still the old one.
PurgedStaysPurged ==
    validating /\ round.kind # "saving" =>
        \A d \in Domains : \A kept \in {memory[d], row[d]} \ {None} : ~kept.old

\* A host that has stopped validating loses its proof at last, whatever lookups,
\* failed probes and restarts come between (ADR-0072), if outages of the control zones
\* end and the rounds are not switched off.
LaxIsNoticed ==
    \A h \in Hosts : mode[h] = "lax" ~> (mode[h] # "lax" \/ ~health[h].valid)

\* A host that is up is used again at last: nothing but the revalidation revives
\* one that was marked unhealthy (proactive revival is behind the quorum check).
UpIsUsed ==
    \A h \in Hosts : mode[h] # "down" ~> (mode[h] = "down" \/ health[h].healthy)

=============================================================================
