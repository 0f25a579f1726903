--------------------------------- MODULE Lookup ---------------------------------
(***************************************************************************)
(* An availability lookup, from the candidate in RdapConfirmationStage     *)
(* through the provider cache, the retries under the global breaker and    *)
(* the race of the RDAP servers behind one rate limiter, and back to the   *)
(* second opinion of the 2-of-2 consensus.                                 *)
(*                                                                         *)
(* Callers are the lookups in flight: candidates of a batch, or of several *)
(* runs in one process. The names in Domains share a TLD; the lookups of   *)
(* other TLDs are only seen in the queue of the limiter.                   *)
(***************************************************************************)
EXTENDS Naturals, Sequences, Functions

CONSTANTS
    Callers,         \* lookups that may be in flight
    Domains,         \* names looked up
    Order,           \* the RDAP servers raced for the TLD, in input order
    Second,          \* the server of the second opinion
    Leads,           \* where the redirects of a server may lead
    Authoritative,   \* servers of the TLD by the IANA bootstrap
    None,            \* no answer, no server, nobody
    Liars,           \* sources of which at most one wrongly says "free"
    Rescue,          \* WHOIS may stand in for the second opinion
    ServerThreshold, \* failures that open the breaker of a server
    GlobalThreshold, \* failures that open the breaker of all RDAP
    Attempts,        \* RDAP_RETRY_POLICY.maxAttempts
    BucketSize,      \* maxTokens of the limiter
    QueueSize,       \* maxQueueSize of the limiter
    MaxCalls,        \* bound: lookups ever started
    MaxAges          \* bound: times the stale window goes by

Servers == Range(Order)
Reach(s) == {s} \cup Leads[s]   \* who may give the answer when s is asked
Sources  == UNION {Reach(s) : s \in Servers \cup {Second}}
Before(s, t) == \E i, j \in DOMAIN Order : i < j /\ Order[i] = s /\ Order[j] = t
InOrder(S) == {q \in UNION {[1 .. n -> S] : n \in 0 .. Len(Order)} :
                  Range(q) = S /\ \A i, j \in DOMAIN q : i < j => Before(q[i], q[j])}

ASSUME LookupAssumption ==
    /\ Order \in Seq(Servers) /\ IsInjective(Order) /\ Second \notin {None, "whois"}
    /\ Authoritative \subseteq Servers \ {None, "whois"}
    /\ None \notin Callers \cup Servers \cup {"whois"}
    /\ {None, "whois"} \cap Sources = {} /\ Liars \subseteq Sources \cup {"whois"}
    /\ Rescue \in BOOLEAN
    /\ {ServerThreshold, GlobalThreshold, Attempts, BucketSize, QueueSize} \subseteq Nat \ {0}
    /\ {MaxCalls, MaxAges} \subseteq Nat

VARIABLES
    truth,      \* who has each name: "free" or "taken"
    liar,       \* the source that may be wrong
    row,        \* provider_cache
    memory,     \* MemoryCache of CachedProvider
    inflight,   \* #inflight of CachedProvider: the caller whose fetch it is
    recent,     \* #intraRunCache of FailoverRdapProvider
    breaker,    \* #perServerBreakers
    global,     \* the breaker of RetryingRdapProvider
    tokens,     \* tokens of the shared limiter
    queue,      \* and the requests that wait for one
    call,       \* each caller: where it is
    req,        \* and its request to each server
    survivors,  \* names the stage has passed on, and whether on a rubber stamp
    calls, ages \* the two bounds

shared     == <<row, memory, inflight, recent>>
guards     == <<breaker, global, tokens, queue>>
world      == <<truth, liar, calls, ages>>
lookupVars == <<world, shared, guards, call, req, survivors>>

Status  == {"free", "taken", "unknown"}
\* origin is sourceOrigin, the server that was asked; source is the one that answered
Answer  == [status: Status, origin: Servers, source: Sources, old: BOOLEAN]
Failed  == [status |-> "error", origin |-> None, source |-> None, old |-> FALSE]
Breaker(threshold) == [state: {"closed", "open", "halfopen"}, fails: 0 .. threshold]
Closed  == [state |-> "closed", fails |-> 0]
Ended   == {"none", "failed", "cancelled"} \cup Status
NoCall  == [at |-> "idle", dom |-> None, forced |-> FALSE, tries |-> 0,
            cancelled |-> FALSE, got |-> None]

LookupTypeOK ==
    /\ truth \in [Domains -> {"free", "taken"}] /\ liar \in Liars \cup {None}
    /\ {row, memory, recent} \subseteq [Domains -> Answer \cup {None}]
    /\ inflight \in [Domains -> Callers \cup {None}]
    /\ breaker \in [Servers -> Breaker(ServerThreshold)] /\ global \in Breaker(GlobalThreshold)
    /\ tokens \in 0 .. BucketSize /\ queue \in Seq((Callers \X Servers) \cup {None})
    /\ Len(queue) <= QueueSize
    /\ call \in [Callers -> [at: {"idle", "reading", "racing", "trying", "writing", "joined", "told"},
                             dom: Domains \cup {None}, forced: BOOLEAN, tries: 0 .. Attempts,
                             cancelled: BOOLEAN, got: Answer \cup {None, Failed}]]
    /\ req \in [Callers -> [Servers -> Ended \cup {"queued", "sent"}]]
    /\ survivors \subseteq [name: Domains, stamped: BOOLEAN] /\ calls \in 0 .. MaxCalls /\ ages \in 0 .. MaxAges

LookupInit ==
    /\ truth \in [Domains -> {"free", "taken"}] /\ liar \in (IF Liars = {} THEN {None} ELSE Liars)
    /\ row = [d \in Domains |-> None] /\ memory = row /\ recent = row /\ inflight = row
    /\ breaker = [s \in Servers |-> Closed] /\ global = Closed
    /\ tokens = BucketSize /\ queue = <<>>
    /\ call = [c \in Callers |-> NoCall]
    /\ req = [c \in Callers |-> [s \in Servers |-> "none"]]
    /\ survivors = {} /\ calls = 0 /\ ages = 0

(***************************************************************************)
(* CircuitBreaker. Only its time is abstract: whether the cooldown is over *)
(* and whether the window of failures has gone by are left open.           *)
(***************************************************************************)
Allows(b, cooled) == b.state # "open" \/ cooled
AfterAllow(b, cooled) == IF b.state = "open" /\ cooled THEN [b EXCEPT !.state = "halfopen"] ELSE b
AfterFailures(b, threshold) ==
    {[state |-> IF n >= threshold \/ b.state = "halfopen" THEN "open" ELSE b.state, fails |-> n]
        : n \in {1, IF b.fails < threshold THEN b.fails + 1 ELSE threshold}}

(***************************************************************************)
(* What a source may say of a name: the truth, nothing, or, if it is the   *)
(* liar, that the name is free (a 404 of a server that is wrong). Redirects *)
(* are followed, so the source need not be the server that was asked; it   *)
(* counts as the source of whatever it might have said itself.             *)
(***************************************************************************)
Opinions(source, d) ==
    {truth[d], "unknown"} \cup (IF source = liar THEN {"free"} ELSE {})
SaidBy(s, d, opinion) ==
    IF opinion \in Opinions(s, d) THEN {s} ELSE {t \in Reach(s) : opinion \in Opinions(t, d)}

(***************************************************************************)
(* CachedProvider.get                                                      *)
(***************************************************************************)
Told(c, answer) == [call EXCEPT ![c].at = "told", ![c].got = answer]

\* the callers that share the promise of a fetch, its owner with them
Sharers(d) == {c \in Callers : call[c].dom = d /\
                  (inflight[d] = c \/ call[c].at = "joined")}
TellOwner(d, answer) ==
    /\ call' = [call EXCEPT ![inflight[d]].at = "told", ![inflight[d]].got = answer]
    /\ inflight' = [inflight EXCEPT ![d] = None]
TellAll(d, answer) ==
    /\ call' = [c \in Callers |-> IF c \in Sharers(d)
                    THEN [NoCall EXCEPT !.at = "told", !.dom = d, !.got = answer] ELSE call[c]]
    /\ inflight' = [inflight EXCEPT ![d] = None]

FetchAlone(c, d) ==
    /\ call' = [call EXCEPT ![c] = [NoCall EXCEPT !.at = "trying", !.dom = d]]
    /\ inflight' = [inflight EXCEPT ![d] = c]
    /\ UNCHANGED global

\* a forced caller, or one whose row was no use, joins the fetch in flight or
\* starts one: a fetch asks the global breaker before its first attempt
Fetch(c, d) ==
    \/ /\ inflight[d] # None
       /\ call' = [call EXCEPT ![c] = [NoCall EXCEPT !.at = "joined", !.dom = d]]
       /\ UNCHANGED <<inflight, global>>
    \/ /\ inflight[d] = None
       /\ \E cooled \in IF global.state = "open" THEN BOOLEAN ELSE {TRUE} :
            /\ global' = AfterAllow(global, cooled)
            /\ IF Allows(global, cooled)
               THEN /\ call' = [call EXCEPT ![c] = [NoCall EXCEPT !.at = "trying", !.dom = d]]
                    /\ inflight' = [inflight EXCEPT ![d] = c]
               ELSE /\ call' = [call EXCEPT ![c] = [NoCall EXCEPT !.at = "told", !.dom = d, !.got = Failed]]
                    /\ UNCHANGED inflight

Call(c, d, forced) ==
    LET asked == [NoCall EXCEPT !.dom = d, !.forced = forced]
    IN  /\ call[c].at = "idle" /\ calls < MaxCalls
        /\ calls' = calls + 1
        /\ \/ /\ memory[d] # None
              /\ call' = [call EXCEPT ![c] = [asked EXCEPT !.at = "told", !.got = memory[d]]]
              /\ UNCHANGED <<inflight, global>>
           \/ /\ memory[d] = None /\ ~forced
              /\ call' = [call EXCEPT ![c] = [asked EXCEPT !.at = "reading"]]
              /\ UNCHANGED <<inflight, global>>
           \/ memory[d] = None /\ forced /\ Fetch(c, d)
        /\ UNCHANGED <<truth, liar, ages, row, memory, recent, breaker, tokens, queue, req, survivors>>

StaleNever(kept) == FALSE
\* a persisted "free" goes stale, a persisted "taken" does not
Stale(kept) == kept.status = "free" /\ kept.old

ReadRow(c) ==
    LET d == call[c].dom
    IN  /\ call[c].at = "reading"
        /\ IF row[d] # None /\ ~Stale(row[d])
           THEN /\ memory' = [memory EXCEPT ![d] = row[d]]
                /\ call' = Told(c, row[d])
                /\ UNCHANGED <<inflight, global>>
           ELSE Fetch(c, d) /\ UNCHANGED memory
        /\ UNCHANGED <<world, row, recent, breaker, tokens, queue, req, survivors>>

(***************************************************************************)
(* FailoverRdapProvider.confirm, once per attempt of                       *)
(* withRetryAndCircuitBreaker                                              *)
(***************************************************************************)
\* the attempt has failed: again after a pause, or the promise rejects
AttemptFails(c, transient) ==
    IF transient /\ call[c].tries + 1 < Attempts
    THEN /\ call' = [call EXCEPT ![c] = [call[c] EXCEPT !.at = "trying", !.tries = @ + 1]]
         /\ UNCHANGED <<inflight, global>>
    ELSE /\ TellAll(call[c].dom, Failed)
         /\ global' \in AfterFailures(global, GlobalThreshold)

\* a definite answer is kept in memory at once, and in the table before the
\* promise resolves; an unknown one is in neither
AttemptAnswers(c, answer) ==
    /\ global' = Closed
    /\ IF answer.status = "unknown"
       THEN TellAll(call[c].dom, answer) /\ UNCHANGED memory
       ELSE /\ memory' = [memory EXCEPT ![call[c].dom] = answer]
            /\ call' = [call EXCEPT ![c] = [NoCall EXCEPT !.at = "writing", !.dom = call[c].dom, !.got = answer]]
            /\ UNCHANGED inflight

\* the breakers are asked one by one, then each admitted request asks the
\* limiter: it goes out at once if nobody waits and there is a token, else it
\* waits, and fails when the queue has no room for it
Least(m, n) == IF m < n THEN m ELSE n
StartRace(c, asked, cooled) ==
    LET count   == Len(asked)
        direct  == IF queue = <<>> THEN Least(tokens, count) ELSE 0
        last    == Least(direct + QueueSize - Len(queue), count)
        sent    == {asked[i] : i \in 1 .. direct}
        waiting == {asked[i] : i \in direct + 1 .. last}
        over    == {asked[i] : i \in last + 1 .. count}
        at      == [s \in Servers |-> AfterAllow(breaker[s], s \in cooled)]
    IN  /\ breaker' \in {b \in [Servers -> Breaker(ServerThreshold)] : \A s \in Servers :
                            IF s \in over THEN b[s] \in AfterFailures(at[s], ServerThreshold)
                                          ELSE b[s] = at[s]}
        /\ tokens' = tokens - direct
        /\ queue' = queue \o [i \in 1 .. last - direct |-> <<c, asked[direct + i]>>]
        /\ req' = [req EXCEPT ![c] = [s \in Servers |->
                       IF s \in sent THEN "sent" ELSE IF s \in waiting THEN "queued" ELSE "failed"]]
        /\ call' = [call EXCEPT ![c].at = "racing"]

Attempt(c) ==
    LET kept == recent[call[c].dom]
    IN  /\ call[c].at = "trying"
        /\ \/ call[c].cancelled /\ AttemptFails(c, FALSE) /\ UNCHANGED <<memory, breaker, tokens, queue, req>>
           \/ ~call[c].cancelled /\ kept # None /\ AttemptAnswers(c, kept)
              /\ UNCHANGED <<breaker, tokens, queue, req>>
           \/ ~call[c].cancelled /\ kept = None
              /\ \E cooled \in SUBSET {s \in Servers : breaker[s].state = "open"} :
                   \E asked \in InOrder({s \in Servers : Allows(breaker[s], s \in cooled)}) :
                      StartRace(c, asked, cooled)
              /\ UNCHANGED <<memory, inflight, global>>
        /\ UNCHANGED <<world, row, recent, survivors>>

\* RateLimiter: the head of the queue takes a token, wanted or not any more
Grant ==
    /\ queue # <<>> /\ tokens > 0
    /\ tokens' = tokens - 1
    /\ queue' = Tail(queue)
    /\ req' = IF Head(queue) = None THEN req
              ELSE [req EXCEPT ![Head(queue)[1]][Head(queue)[2]] = "sent"]
    /\ UNCHANGED <<world, shared, breaker, global, call, survivors>>

Refill ==
    /\ tokens < BucketSize
    /\ tokens' = tokens + 1
    /\ UNCHANGED <<world, shared, breaker, global, queue, call, req, survivors>>

\* a request of a lookup of another TLD, which shares the limiter
OtherAsks ==
    /\ \/ queue = <<>> /\ tokens > 0 /\ tokens' = tokens - 1 /\ UNCHANGED queue
       \/ tokens = 0 /\ Len(queue) < QueueSize /\ queue' = Append(queue, None) /\ UNCHANGED tokens
    /\ UNCHANGED <<world, shared, breaker, global, call, req, survivors>>

\* a definite answer has aborted the other requests of the race
Won(c) == \E s \in Servers : req[c][s] \in {"free", "taken"}

Reply(c, s, opinion) ==
    /\ req[c][s] = "sent"
    /\ \E source \in Reach(s) : opinion \in Opinions(source, call[c].dom)
    /\ req' = [req EXCEPT ![c][s] = opinion]
    /\ breaker' = [breaker EXCEPT ![s] = Closed]
    /\ UNCHANGED <<world, shared, global, tokens, queue, call, survivors>>

\* a timeout, a 429, a broken answer: a failure of the server
Fails(c, s) ==
    /\ req[c][s] = "sent"
    /\ req' = [req EXCEPT ![c][s] = "failed"]
    /\ \E b \in AfterFailures(breaker[s], ServerThreshold) : breaker' = [breaker EXCEPT ![s] = b]
    /\ UNCHANGED <<world, shared, global, tokens, queue, call, survivors>>

\* an aborted request: during fetch it ends in a ProviderError, which counts
\* as a failure; while its body is read, or a 429 waited for, it does not
Cancelled(c, s) ==
    /\ req[c][s] = "sent" /\ (Won(c) \/ call[c].cancelled)
    /\ req' = [req EXCEPT ![c][s] = "cancelled"]
    /\ \/ UNCHANGED breaker
       \/ \E b \in AfterFailures(breaker[s], ServerThreshold) : breaker' = [breaker EXCEPT ![s] = b]
    /\ UNCHANGED <<world, shared, global, tokens, queue, call, survivors>>

\* all requests have settled: the first definite answer in input order is the
\* result, else an unknown one, else the attempt has failed. The answer bears the
\* origin of the server that was asked, whoever it was that answered
EndRace(c) ==
    LET d         == call[c].dom
        Said(st)  == {s \in Servers : req[c][s] \in st}
        best      == IF Said({"free", "taken"}) # {} THEN Said({"free", "taken"}) ELSE Said({"unknown"})
        answer(s, by) == [status |-> req[c][s], origin |-> s, source |-> by, old |-> FALSE]
    IN  /\ call[c].at = "racing" /\ \A s \in Servers : req[c][s] \in Ended
        /\ req' = [req EXCEPT ![c] = [s \in Servers |-> "none"]]
        /\ \/ \E s \in best : \E by \in SaidBy(s, d, req[c][s]) :
                 /\ \A t \in best : ~Before(t, s)
                 /\ AttemptAnswers(c, answer(s, by)) /\ recent' = [recent EXCEPT ![d] = answer(s, by)]
           \/ /\ best = {} /\ \E transient \in BOOLEAN : AttemptFails(c, transient)
              /\ UNCHANGED <<memory, recent>>
        /\ UNCHANGED <<world, row, breaker, tokens, queue, survivors>>

\* the write of the row may fail, which changes nothing else
WriteRow(c) ==
    LET d == call[c].dom
    IN  /\ call[c].at = "writing"
        /\ row' \in {row, [row EXCEPT ![d] = call[c].got]}
        /\ TellAll(d, call[c].got)
        /\ UNCHANGED <<world, memory, recent, guards, req, survivors>>

\* the stage's signal, or the timeout it puts on the enrichment of a candidate
Cancel(c) ==
    /\ call[c].at \in {"trying", "racing"} /\ ~call[c].cancelled
    /\ call' = [call EXCEPT ![c].cancelled = TRUE]
    /\ UNCHANGED <<world, shared, guards, req, survivors>>

(***************************************************************************)
(* RdapConfirmationStage: the verdict on the answer, beside that of WHOIS, *)
(* and the second opinion a free name needs                                *)
(***************************************************************************)
\* #crossValidate, where whois is "none" if WHOIS did not answer in its budget
Verdict(got, whois) ==
    IF whois = "none" THEN got.status
    ELSE IF got.status = "error" \/ (got.status = "free" <=> whois = "free")
         THEN IF got.status = "error" THEN whois ELSE got.status
         ELSE "taken"

\* #verifyConsensus: the second server is not asked when it is authoritative for
\* the TLD, or when it has served the first answer; guardUp is FALSE when the
\* authoritative servers cannot be resolved, and then it is not asked either
OverlapStatic(got) == Second \in Authoritative
Overlap(got) == Second \in Authoritative \/ Second = got.origin
Verified(got, guardUp, second, rescue) ==
    IF ~guardUp THEN Rescue /\ rescue = "free"
    ELSE ~Overlap(got) /\ (second = "free" \/ (second \in {"unknown", "error"} /\ Rescue /\ rescue = "free"))

\* both opinions are one server's, which a redirect has led to
Stamped(got, by) == got.source = by /\ ~(got.origin = by /\ Second = by)

Decide(c) ==
    LET d     == call[c].dom
        got   == call[c].got
        whois == (Opinions("whois", d) \ {"unknown"}) \cup {"none"}
    IN  /\ call[c].at = "told"
        /\ \/ UNCHANGED survivors    \* the second opinion may always fail
           \/ \E first, rescue \in whois, guardUp \in BOOLEAN, by \in Reach(Second) :
                \E second \in Opinions(by, d) \cup {"error"} :
                   /\ Verdict(got, first) = "free" /\ Verified(got, guardUp, second, rescue)
                   /\ survivors' = survivors \cup
                         {[name |-> d, stamped |-> guardUp /\ second = "free" /\ Stamped(got, by)]}
        /\ call' = [call EXCEPT ![c] = NoCall]
        /\ UNCHANGED <<world, shared, guards, req>>

(***************************************************************************)
(* Time: what is kept in memory lasts seconds or minutes. When the stale   *)
(* window goes by no lookup is in flight, since each is bounded by         *)
(* timeouts; names change hands only then, and rows grow old.              *)
(***************************************************************************)
Expire(d) ==
    /\ \/ memory' = [memory EXCEPT ![d] = None] /\ UNCHANGED recent
       \/ recent' = [recent EXCEPT ![d] = None] /\ UNCHANGED memory
    /\ UNCHANGED <<world, row, inflight, guards, call, req, survivors>>

AgeOut ==
    /\ \A c \in Callers : call[c].at = "idle"
    /\ ages < MaxAges /\ ages' = ages + 1
    /\ truth' \in [Domains -> {"free", "taken"}]
    /\ row' = [d \in Domains |-> IF row[d] = None THEN None ELSE [row[d] EXCEPT !.old = TRUE]]
    /\ memory' = [d \in Domains |-> None] /\ recent' = memory'
    /\ survivors' = {}
    /\ UNCHANGED <<liar, calls, inflight, guards, call, req>>

Step(c) ==
    \/ ReadRow(c) \/ Attempt(c) \/ EndRace(c) \/ WriteRow(c) \/ Decide(c)
    \/ \E s \in Servers : Fails(c, s) \/ Cancelled(c, s) \/ \E o \in Status : Reply(c, s, o)

LookupNext ==
    \/ \E c \in Callers : Step(c) \/ Cancel(c)
    \/ \E c \in Callers, d \in Domains, forced \in BOOLEAN : Call(c, d, forced)
    \/ Grant \/ Refill \/ OtherAsks \/ AgeOut
    \/ \E d \in Domains : Expire(d)

LookupSpec == LookupInit /\ [][LookupNext]_lookupVars

\* promises and timers are served: every request ends by its timeout
LookupFairness == WF_lookupVars(Grant) /\ WF_lookupVars(Refill) /\ \A c \in Callers : WF_lookupVars(Step(c))
LookupFairSpec == LookupSpec /\ LookupFairness

(***************************************************************************)
(* Properties                                                              *)
(***************************************************************************)
\* The 2-of-2 consensus (#verifyConsensus, hasWinningOriginOverlap): as long as
\* at most one source is wrong, a name the stage passes on is free, however the
\* first answer came to the stage: from a race, a retry, the fetch of another
\* caller, the memory or a row. Excepted is the rubber stamp that the comparison of
\* configured origins does not see: one server gave both opinions, since a redirect of
\* one of the two that were asked has led to it.
SurvivorsAreFree == \A s \in survivors : ~s.stamped => truth[s.name] = "free"

\* CachedProvider coalesces: a name has a fetch in flight exactly when #inflight
\* says so, and it is the fetch of the caller #inflight names; callers that wait
\* for it are never left behind when it ends.
Fetching(c) == call[c].at \in {"trying", "racing", "writing"}
OneFetchPerName ==
    /\ \A c \in Callers : Fetching(c) <=> \E d \in Domains : inflight[d] = c /\ call[c].dom = d
    /\ \A c \in Callers : call[c].at = "joined" => inflight[call[c].dom] # None

\* What is served as available is never older than the stale window
\* (RDAP_PERSISTENT_AVAILABLE_STALE_HOURS), whichever cache serves it.
AvailableIsRecent ==
    \A c \in Callers : call[c].at = "told" /\ call[c].got.status = "free" => ~call[c].got.old

\* Every lookup ends, by an answer or an error, although the callers share one
\* limiter, one fetch per name and one global breaker.
LookupsEnd == \A c \in Callers : call[c].at # "idle" ~> call[c].at = "idle"

=============================================================================
