----------------------------- MODULE LookupProofs -----------------------------
(***************************************************************************)
(* What holds of lookups for any number of callers, names and servers, and *)
(* of the watchlist, whose polls are lookups, for any number of replicas.  *)
(***************************************************************************)
EXTENDS Lookup, Watchlist, SequenceTheorems, TLAPS

(***************************************************************************)
(* Lookups.                                                                *)
(***************************************************************************)
Places   == {"idle", "reading", "racing", "trying", "writing", "joined", "told"}
CallType == [at: Places, dom: Domains \cup {None}, forced: BOOLEAN, tries: 0 .. Attempts,
             cancelled: BOOLEAN, got: Answer \cup {None, Failed}]
ReqType  == [Servers -> Ended \cup {"queued", "sent"}]
Survivors == [name: Domains, stamped: BOOLEAN]

\* The types, in parts that the actions touch together.
WorldTyped ==
    /\ truth \in [Domains -> {"free", "taken"}] /\ liar \in Liars \cup {None}
    /\ calls \in 0 .. MaxCalls /\ ages \in 0 .. MaxAges
CacheTyped ==
    /\ row \in [Domains -> Answer \cup {None}] /\ memory \in [Domains -> Answer \cup {None}]
    /\ recent \in [Domains -> Answer \cup {None}] /\ inflight \in [Domains -> Callers \cup {None}]
BreakersTyped == breaker \in [Servers -> Breaker(ServerThreshold)] /\ global \in Breaker(GlobalThreshold)
LimiterTyped ==
    /\ tokens \in 0 .. BucketSize /\ queue \in Seq((Callers \X Servers) \cup {None})
    /\ Len(queue) <= QueueSize
CallTyped == call \in [Callers -> CallType]

\* What an answer says of a name is right, or it is the liar that said it, or it is
\* old; and what may be served is not stale.
Says(d, a)   == a \in Answer /\ (a.status = "free" /\ ~a.old /\ truth[d] = "taken" => a.source = liar)
Serves(d, a) == Says(d, a) /\ ~Stale(a)

CachesSay ==
    \A d \in Domains :
        /\ row[d] # None => Says(d, row[d])
        /\ memory[d] # None => Serves(d, memory[d])
        /\ recent[d] # None => Serves(d, recent[d])

CallSays(k) ==
    /\ k.at # "idle" => k.dom \in Domains
    /\ k.at = "writing" => Serves(k.dom, k.got)
    /\ k.at = "told" => k.got = Failed \/ Serves(k.dom, k.got)
CallsSay == \A c \in Callers : CallSays(call[c])

\* Requests belong to a race, and what they bring is right or from the liar.
RacesSay ==
    \A c \in Callers, s \in Servers :
        /\ call[c].at # "racing" => req[c][s] = "none"
        /\ req[c][s] = "free" /\ truth[call[c].dom] = "taken" => liar \in Reach(s)

\* A fetch is in #inflight under its name, and only there; who waits, waits for one.
Owned ==
    /\ \A d \in Domains, c \in Callers : inflight[d] = c => Fetching(c) /\ call[c].dom = d
    /\ \A c \in Callers : Fetching(c) => inflight[call[c].dom] = c
    /\ \A c \in Callers : call[c].at = "joined" => inflight[call[c].dom] # None

\* A request waits in the queue once, as long as it has not gone out.
Queued ==
    /\ \A i \in DOMAIN queue : queue[i] # None => req[queue[i][1]][queue[i][2]] = "queued"
    /\ \A i, j \in DOMAIN queue : i # j /\ queue[i] = queue[j] => queue[i] = None

\* The inductive invariant.
LookupInv ==
    /\ WorldTyped /\ CacheTyped /\ BreakersTyped /\ LimiterTyped /\ CallTyped
    /\ req \in [Callers -> ReqType] /\ survivors \subseteq Survivors
    /\ CachesSay /\ CallsSay /\ RacesSay /\ Owned /\ Queued

LEMMA LookupParts ==
    /\ LookupTypeOK <=> /\ WorldTyped /\ CacheTyped /\ BreakersTyped /\ LimiterTyped /\ CallTyped
                        /\ req \in [Callers -> ReqType] /\ survivors \subseteq Survivors
    /\ LookupTypeOK' <=> /\ WorldTyped' /\ CacheTyped' /\ BreakersTyped' /\ LimiterTyped' /\ CallTyped'
                         /\ req' \in [Callers -> ReqType] /\ survivors' \subseteq Survivors
BY DEF LookupTypeOK, WorldTyped, CacheTyped, BreakersTyped, LimiterTyped, CallTyped, CallType, ReqType, Places,
   Survivors

LEMMA LookupConstants ==
    /\ ServerThreshold \in Nat \ {0} /\ GlobalThreshold \in Nat \ {0} /\ Attempts \in Nat \ {0}
    /\ BucketSize \in Nat \ {0} /\ QueueSize \in Nat \ {0} /\ MaxCalls \in Nat /\ MaxAges \in Nat
    /\ None \notin Callers /\ None \notin Servers /\ None # "whois" /\ Second # None /\ Second # "whois"
BY LookupAssumption

LEMMA Types ==
    /\ NoCall \in CallType /\ NoCall.at = "idle"
    /\ \A d \in Domains : [NoCall EXCEPT !.at = "joined", !.dom = d] \in CallType
    /\ \A d \in Domains : [NoCall EXCEPT !.at = "trying", !.dom = d] \in CallType
    /\ \A d \in Domains, a \in Answer \cup {Failed} :
          /\ [NoCall EXCEPT !.at = "told", !.dom = d, !.got = a] \in CallType
          /\ [NoCall EXCEPT !.at = "writing", !.dom = d, !.got = a] \in CallType
    /\ Failed \notin Answer /\ Failed.status = "error"
<1>1. Failed \notin Answer /\ Failed.status = "error"
  BY DEF Failed, Answer, Status
<1>2. 0 \in 0 .. Attempts
  BY LookupConstants
<1>3. NoCall \in CallType /\ NoCall.at = "idle"
  BY <1>2 DEF NoCall, CallType, Places
<1>4. ASSUME NEW d \in Domains, NEW x \in {"joined", "trying"}
      PROVE  [NoCall EXCEPT !.at = x, !.dom = d] \in CallType
  BY <1>3 DEF CallType, Places
<1>5. ASSUME NEW d \in Domains, NEW a \in Answer \cup {Failed}, NEW x \in {"told", "writing"}
      PROVE  [NoCall EXCEPT !.at = x, !.dom = d, !.got = a] \in CallType
  BY <1>3 DEF CallType, Places
<1> QED
  BY <1>1, <1>3, <1>4, <1>5

LEMMA BreakerTypes ==
    /\ \A b \in Breaker(ServerThreshold), cooled \in BOOLEAN : AfterAllow(b, cooled) \in Breaker(ServerThreshold)
    /\ \A b \in Breaker(GlobalThreshold), cooled \in BOOLEAN : AfterAllow(b, cooled) \in Breaker(GlobalThreshold)
    /\ \A b \in Breaker(ServerThreshold) : AfterFailures(b, ServerThreshold) \subseteq Breaker(ServerThreshold)
    /\ \A b \in Breaker(GlobalThreshold) : AfterFailures(b, GlobalThreshold) \subseteq Breaker(GlobalThreshold)
    /\ Closed \in Breaker(ServerThreshold) /\ Closed \in Breaker(GlobalThreshold)
<1>1. ASSUME NEW t \in Nat \ {0}
      PROVE  /\ \A b \in Breaker(t), cooled \in BOOLEAN : AfterAllow(b, cooled) \in Breaker(t)
             /\ \A b \in Breaker(t) : AfterFailures(b, t) \subseteq Breaker(t)
             /\ Closed \in Breaker(t)
  <2>1. ASSUME NEW b \in Breaker(t), NEW cooled \in BOOLEAN
        PROVE  AfterAllow(b, cooled) \in Breaker(t)
    BY DEF AfterAllow, Breaker
  <2>2. ASSUME NEW b \in Breaker(t), NEW x \in AfterFailures(b, t)
        PROVE  x \in Breaker(t)
    <3>1. PICK n \in {1, IF b.fails < t THEN b.fails + 1 ELSE t} :
             x = [state |-> IF n >= t \/ b.state = "halfopen" THEN "open" ELSE b.state, fails |-> n]
      BY DEF AfterFailures
    <3>2. b.fails \in 0 .. t /\ b.state \in {"closed", "open", "halfopen"}
      BY DEF Breaker
    <3>3. n \in 0 .. t
      BY <3>2
    <3> QED
      BY <3>1, <3>2, <3>3 DEF Breaker
  <2>3. Closed \in Breaker(t)
    BY DEF Closed, Breaker
  <2> QED
    BY <2>1, <2>2, <2>3
<1> QED
  BY <1>1, LookupConstants

LEMMA LookupInitInv ==
    ASSUME LookupInit
    PROVE  LookupInv
<1>1. WorldTyped /\ CacheTyped
  BY LookupConstants DEF LookupInit, WorldTyped, CacheTyped
<1>2. BreakersTyped
  BY BreakerTypes DEF LookupInit, BreakersTyped
<1>3. LimiterTyped
  BY LookupConstants DEF LookupInit, LimiterTyped
<1>4. CallTyped
  BY Types DEF LookupInit, CallTyped
<1>5. req \in [Callers -> ReqType] /\ survivors \subseteq Survivors
  BY DEF LookupInit, ReqType, Ended
<1>6. CachesSay
  BY DEF LookupInit, CachesSay
<1>7. CallsSay
  BY Types DEF LookupInit, CallsSay, CallSays
<1>8. RacesSay
  BY DEF LookupInit, RacesSay
<1>9. Owned
  BY Types, LookupConstants DEF LookupInit, Owned, Fetching
<1>10. Queued
  BY DEF LookupInit, Queued
<1> QED
  BY <1>1, <1>2, <1>3, <1>4, <1>5, <1>6, <1>7, <1>8, <1>9, <1>10 DEF LookupInv

-----------------------------------------------------------------------------
(* What the steps have in common.                                           *)

LEMMA CachesFramed ==
    ASSUME CachesSay, UNCHANGED <<truth, liar, row, memory, recent>>
    PROVE  CachesSay'
BY DEF CachesSay, Says, Serves, Stale

LEMMA QueuedFramed ==
    ASSUME Queued, UNCHANGED <<queue, req>>
    PROVE  Queued'
BY DEF Queued

\* One caller moves, from and to a place without requests.
LEMMA OneMoves ==
    ASSUME LookupInv, UNCHANGED <<truth, liar, req>>, NEW c \in Callers, NEW k \in CallType,
           call' = [call EXCEPT ![c] = k], CallSays(k), call[c].at # "racing", k.at # "racing"
    PROVE  /\ CallTyped' /\ CallsSay' /\ RacesSay'
           /\ call'[c] = k /\ \A b \in Callers : b # c => call'[b] = call[b]
<1>1. call \in [Callers -> CallType] /\ CallsSay /\ RacesSay
  BY DEF LookupInv, CallTyped
<1>2. call'[c] = k /\ \A b \in Callers : b # c => call'[b] = call[b]
  BY <1>1
<1>3. CallTyped'
  BY <1>1 DEF CallTyped
<1>4. CallsSay'
  BY <1>1, <1>2 DEF CallsSay, CallSays, Says, Serves, Stale
<1>5. RacesSay'
  <2> SUFFICES ASSUME NEW b \in Callers, NEW s \in Servers
               PROVE  /\ call'[b].at # "racing" => req'[b][s] = "none"
                      /\ req'[b][s] = "free" /\ truth'[call'[b].dom] = "taken" => liar \in Reach(s)'
    BY DEF RacesSay
  <2>1. CASE b = c
    BY <1>1, <1>2, <2>1 DEF RacesSay
  <2>2. CASE b # c
    BY <1>1, <1>2, <2>2 DEF RacesSay
  <2> QED
    BY <2>1, <2>2
<1> QED
  BY <1>2, <1>3, <1>4, <1>5

\* A caller joins the fetch of its name, or starts it, or is refused.
LEMMA FetchKeeps ==
    ASSUME LookupInv, UNCHANGED <<truth, liar, req>>, NEW c \in Callers, NEW d \in Domains,
           call[c].at \in {"idle", "reading"}, Fetch(c, d)
    PROVE  /\ CallTyped' /\ CallsSay' /\ RacesSay' /\ Owned'
           /\ inflight' \in [Domains -> Callers \cup {None}] /\ global' \in Breaker(GlobalThreshold)
<1>1. /\ inflight \in [Domains -> Callers \cup {None}] /\ global \in Breaker(GlobalThreshold)
      /\ Owned /\ call \in [Callers -> CallType]
  BY DEF LookupInv, CacheTyped, BreakersTyped, CallTyped
<1>2. ~Fetching(c) /\ call[c].at # "joined" /\ call[c].at # "racing"
  BY DEF Fetching
<1>3. CASE inflight[d] # None
  <2>1. PICK k \in CallType : k.at = "joined" /\ k.dom = d /\ call' = [call EXCEPT ![c] = k]
    <3>1. /\ [NoCall EXCEPT !.at = "joined", !.dom = d] \in CallType
          /\ [NoCall EXCEPT !.at = "joined", !.dom = d].at = "joined"
          /\ [NoCall EXCEPT !.at = "joined", !.dom = d].dom = d
      BY Types DEF NoCall
    <3> QED
      BY <1>3, <3>1 DEF Fetch
  <2>2. UNCHANGED <<inflight, global>>
    BY <1>3 DEF Fetch
  <2>3. /\ CallTyped' /\ CallsSay' /\ RacesSay'
        /\ call'[c] = k /\ \A b \in Callers : b # c => call'[b] = call[b]
    BY <1>2, <2>1, OneMoves DEF CallSays
  <2>4. Owned'
    BY <1>1, <1>2, <1>3, <2>1, <2>2, <2>3 DEF Owned, Fetching
  <2> QED
    BY <1>1, <2>2, <2>3, <2>4
<1>4. CASE inflight[d] = None
  <2>1. PICK cooled \in BOOLEAN :
           /\ global' = AfterAllow(global, cooled)
           /\ IF Allows(global, cooled)
              THEN /\ call' = [call EXCEPT ![c] = [NoCall EXCEPT !.at = "trying", !.dom = d]]
                   /\ inflight' = [inflight EXCEPT ![d] = c]
              ELSE /\ call' = [call EXCEPT ![c] = [NoCall EXCEPT !.at = "told", !.dom = d, !.got = Failed]]
                   /\ UNCHANGED inflight
    BY <1>4 DEF Fetch
  <2>2. global' \in Breaker(GlobalThreshold)
    BY <1>1, <2>1, BreakerTypes
  <2>3. CASE Allows(global, cooled)
    <3>1. PICK k \in CallType : k.at = "trying" /\ k.dom = d /\ call' = [call EXCEPT ![c] = k]
      <4>1. /\ [NoCall EXCEPT !.at = "trying", !.dom = d] \in CallType
            /\ [NoCall EXCEPT !.at = "trying", !.dom = d].at = "trying"
            /\ [NoCall EXCEPT !.at = "trying", !.dom = d].dom = d
        BY Types DEF NoCall
      <4> QED
        BY <2>1, <2>3, <4>1
    <3>2. inflight' = [inflight EXCEPT ![d] = c]
      BY <2>1, <2>3
    <3>3. /\ CallTyped' /\ CallsSay' /\ RacesSay'
          /\ call'[c] = k /\ \A b \in Callers : b # c => call'[b] = call[b]
      BY <1>2, <3>1, OneMoves DEF CallSays
    <3>4. Owned'
      BY <1>1, <1>2, <1>4, <3>1, <3>2, <3>3, LookupConstants DEF Owned, Fetching
    <3> QED
      BY <1>1, <2>2, <3>2, <3>3, <3>4
  <2>4. CASE ~Allows(global, cooled)
    <3>1. PICK k \in CallType : k.at = "told" /\ k.dom = d /\ k.got = Failed /\ call' = [call EXCEPT ![c] = k]
      <4>1. /\ [NoCall EXCEPT !.at = "told", !.dom = d, !.got = Failed] \in CallType
            /\ [NoCall EXCEPT !.at = "told", !.dom = d, !.got = Failed].at = "told"
            /\ [NoCall EXCEPT !.at = "told", !.dom = d, !.got = Failed].dom = d
            /\ [NoCall EXCEPT !.at = "told", !.dom = d, !.got = Failed].got = Failed
        BY Types DEF NoCall
      <4> QED
        BY <2>1, <2>4, <4>1
    <3>2. UNCHANGED inflight
      BY <2>1, <2>4
    <3>3. /\ CallTyped' /\ CallsSay' /\ RacesSay'
          /\ call'[c] = k /\ \A b \in Callers : b # c => call'[b] = call[b]
      BY <1>2, <3>1, OneMoves DEF CallSays
    <3>4. Owned'
      BY <1>1, <1>2, <3>1, <3>2, <3>3 DEF Owned, Fetching
    <3> QED
      BY <1>1, <2>2, <3>2, <3>3, <3>4
  <2> QED
    BY <2>3, <2>4
<1> QED
  BY <1>3, <1>4

\* The fetch of a name ends: its owner c and all that wait for it are told. The
\* requests of c, if it had any, are forgotten.
LEMMA AllAreTold ==
    ASSUME LookupInv, UNCHANGED <<truth, liar>>, NEW c \in Callers, NEW d, d = call[c].dom, Fetching(c),
           NEW a, a = Failed \/ Serves(d, a), TellAll(d, a),
           req' = [req EXCEPT ![c] = [s \in Servers |-> "none"]]
    PROVE  /\ CallTyped' /\ CallsSay' /\ RacesSay' /\ Owned'
           /\ inflight' \in [Domains -> Callers \cup {None}]
<1>1. /\ inflight \in [Domains -> Callers \cup {None}] /\ call \in [Callers -> CallType]
      /\ Owned /\ CallsSay /\ RacesSay /\ req \in [Callers -> ReqType]
  BY DEF LookupInv, CacheTyped, CallTyped
<1>2. d \in Domains /\ inflight[d] = c
  BY <1>1 DEF Fetching, CallsSay, CallSays, Owned
<1>3. a \in Answer \cup {Failed}
  BY DEF Serves, Says
<1>4. PICK k \in CallType : /\ k.at = "told" /\ k.dom = d /\ k.got = a
                            /\ k = [NoCall EXCEPT !.at = "told", !.dom = d, !.got = a]
  <2>1. /\ [NoCall EXCEPT !.at = "told", !.dom = d, !.got = a].at = "told"
        /\ [NoCall EXCEPT !.at = "told", !.dom = d, !.got = a].dom = d
        /\ [NoCall EXCEPT !.at = "told", !.dom = d, !.got = a].got = a
    BY DEF NoCall
  <2> QED
    BY <1>2, <1>3, <2>1, Types
<1>5. PICK T : T = Sharers(d)
  OBVIOUS
<1>6. \A b \in Callers : b \in T <=> call[b].dom = d /\ (b = c \/ call[b].at = "joined")
  BY <1>2, <1>5 DEF Sharers
<1>7. call' = [b \in Callers |-> IF b \in T THEN k ELSE call[b]] /\ inflight' = [inflight EXCEPT ![d] = None]
  BY <1>4, <1>5 DEF TellAll
<1>8. \A b \in Callers : call'[b] = IF b \in T THEN k ELSE call[b]
  BY <1>7
<1>9. CallTyped'
  BY <1>1, <1>4, <1>7 DEF CallTyped
<1>10. inflight' \in [Domains -> Callers \cup {None}] /\ inflight'[d] = None
       /\ \A e \in Domains : e # d => inflight'[e] = inflight[e]
  BY <1>1, <1>2, <1>7
<1>11. CallsSay'
  <2> SUFFICES ASSUME NEW b \in Callers PROVE CallSays(call[b])'
    BY DEF CallsSay
  <2>1. CASE b \in T
    BY <1>2, <1>4, <1>8, <2>1 DEF CallSays, Says, Serves, Stale
  <2>2. CASE b \notin T
    BY <1>1, <1>8, <2>2 DEF CallsSay, CallSays, Says, Serves, Stale
  <2> QED
    BY <2>1, <2>2
<1>12. \A b \in Callers, s \in Servers : req'[b][s] = IF b = c THEN "none" ELSE req[b][s]
  BY <1>1 DEF ReqType
<1>13. RacesSay'
  <2> SUFFICES ASSUME NEW b \in Callers, NEW s \in Servers
               PROVE  /\ call'[b].at # "racing" => req'[b][s] = "none"
                      /\ req'[b][s] = "free" /\ truth'[call'[b].dom] = "taken" => liar \in Reach(s)'
    BY DEF RacesSay
  <2>1. CASE b = c
    BY <1>12, <2>1
  <2>2. CASE b # c /\ b \in T
    BY <1>1, <1>6, <1>12, <2>2 DEF RacesSay
  <2>3. CASE b # c /\ b \notin T
    BY <1>1, <1>8, <1>12, <2>3 DEF RacesSay
  <2> QED
    BY <2>1, <2>2, <2>3
<1>14. Owned'
  <2>0. \A b \in Callers : b \in T => ~Fetching(b)' /\ call'[b].at # "joined"
    BY <1>4, <1>8 DEF Fetching
  <2>1. ASSUME NEW e \in Domains, NEW b \in Callers, inflight'[e] = b
        PROVE  Fetching(b)' /\ call'[b].dom = e
    <3>1. e # d /\ inflight[e] = b
      BY <1>10, <2>1, LookupConstants
    <3>2. Fetching(b) /\ call[b].dom = e
      BY <1>1, <3>1 DEF Owned
    <3>3. b \notin T
      BY <1>6, <3>1, <3>2
    <3> QED
      BY <1>8, <3>2, <3>3 DEF Fetching
  <2>2. ASSUME NEW b \in Callers, Fetching(b)'
        PROVE  inflight'[call'[b].dom] = b
    <3>1. b \notin T
      BY <2>0, <2>2
    <3>2. Fetching(b) /\ call'[b] = call[b]
      BY <1>8, <2>2, <3>1 DEF Fetching
    <3>3. inflight[call[b].dom] = b /\ call[b].dom \in Domains
      BY <1>1, <3>2 DEF Owned, CallsSay, CallSays, Fetching
    <3>4. call[b].dom # d
      BY <1>2, <1>6, <3>1, <3>3
    <3> QED
      BY <1>10, <3>2, <3>3, <3>4
  <2>3. ASSUME NEW b \in Callers, call'[b].at = "joined"
        PROVE  inflight'[call'[b].dom] # None
    <3>1. b \notin T /\ call'[b] = call[b]
      BY <1>8, <2>0, <2>3
    <3>2. call[b].dom # d /\ call[b].dom \in Domains /\ inflight[call[b].dom] # None
      BY <1>1, <1>6, <2>3, <3>1 DEF Owned, CallsSay, CallSays
    <3> QED
      BY <1>10, <3>1, <3>2
  <2> QED
    BY <2>1, <2>2, <2>3 DEF Owned
<1> QED
  BY <1>9, <1>10, <1>11, <1>13, <1>14

\* The owner of a fetch moves on, and still owns it.
LEMMA OwnerMoves ==
    ASSUME LookupInv, UNCHANGED <<truth, liar, inflight>>, NEW c \in Callers, Fetching(c), NEW k \in CallType,
           call' = [call EXCEPT ![c] = k], k.at \in {"racing", "trying", "writing"}, k.dom = call[c].dom,
           k.at = "writing" => Serves(k.dom, k.got),
           NEW q \in ReqType, req' = [req EXCEPT ![c] = q],
           \A s \in Servers : q[s] = "free" /\ truth[k.dom] = "taken" => liar \in Reach(s),
           k.at # "racing" => \A s \in Servers : q[s] = "none"
    PROVE  CallTyped' /\ CallsSay' /\ RacesSay' /\ Owned'
<1>1. /\ call \in [Callers -> CallType] /\ Owned /\ CallsSay /\ RacesSay /\ req \in [Callers -> ReqType]
  BY DEF LookupInv, CallTyped
<1>2. call'[c] = k /\ \A b \in Callers : b # c => call'[b] = call[b]
  BY <1>1
<1>3. req'[c] = q /\ \A b \in Callers : b # c => req'[b] = req[b]
  BY <1>1
<1>4. CallTyped'
  BY <1>1 DEF CallTyped
<1>5. call[c].dom \in Domains /\ inflight[call[c].dom] = c
  BY <1>1 DEF Fetching, CallsSay, CallSays, Owned
<1>6. CallsSay'
  <2> SUFFICES ASSUME NEW b \in Callers PROVE CallSays(call[b])'
    BY DEF CallsSay
  <2>1. CASE b = c
    BY <1>2, <1>5, <2>1 DEF CallSays, Says, Serves, Stale
  <2>2. CASE b # c
    BY <1>1, <1>2, <2>2 DEF CallsSay, CallSays, Says, Serves, Stale
  <2> QED
    BY <2>1, <2>2
<1>7. RacesSay'
  <2> SUFFICES ASSUME NEW b \in Callers, NEW s \in Servers
               PROVE  /\ call'[b].at # "racing" => req'[b][s] = "none"
                      /\ req'[b][s] = "free" /\ truth'[call'[b].dom] = "taken" => liar \in Reach(s)'
    BY DEF RacesSay
  <2>1. CASE b = c
    BY <1>2, <1>3, <2>1
  <2>2. CASE b # c
    BY <1>1, <1>2, <1>3, <2>2 DEF RacesSay
  <2> QED
    BY <2>1, <2>2
<1>8. Owned'
  <2>1. \A b \in Callers : /\ Fetching(b)' <=> Fetching(b)
                           /\ call'[b].dom = call[b].dom
                           /\ call'[b].at = "joined" <=> call[b].at = "joined"
    <3> SUFFICES ASSUME NEW b \in Callers
                 PROVE  /\ Fetching(b)' <=> Fetching(b)
                        /\ call'[b].dom = call[b].dom
                        /\ call'[b].at = "joined" <=> call[b].at = "joined"
      OBVIOUS
    <3>1. CASE b = c
      BY <1>2, <3>1 DEF Fetching
    <3>2. CASE b # c
      BY <1>2, <3>2 DEF Fetching
    <3> QED
      BY <3>1, <3>2
  <2> QED
    BY <1>1, <2>1 DEF Owned
<1> QED
  BY <1>4, <1>6, <1>7, <1>8

\* An attempt fails, and is made again, or all that wait for it are told.
LEMMA AttemptFailsKeeps ==
    ASSUME LookupInv, UNCHANGED <<truth, liar>>, NEW c \in Callers, call[c].at \in {"trying", "racing"},
           NEW transient \in BOOLEAN, AttemptFails(c, transient),
           req' = [req EXCEPT ![c] = [s \in Servers |-> "none"]]
    PROVE  /\ CallTyped' /\ CallsSay' /\ RacesSay' /\ Owned'
           /\ inflight' \in [Domains -> Callers \cup {None}] /\ global' \in Breaker(GlobalThreshold)
<1>1. /\ call[c] \in CallType /\ Fetching(c) /\ global \in Breaker(GlobalThreshold)
      /\ inflight \in [Domains -> Callers \cup {None}]
  BY DEF LookupInv, CallTyped, BreakersTyped, CacheTyped, Fetching
<1>2. CASE transient /\ call[c].tries + 1 < Attempts
  <2> DEFINE k == [call[c] EXCEPT !.at = "trying", !.tries = call[c].tries + 1]
  <2>1. call' = [call EXCEPT ![c] = k] /\ UNCHANGED <<inflight, global>>
    BY <1>2 DEF AttemptFails
  <2>2. k \in CallType /\ k.at = "trying" /\ k.dom = call[c].dom
    <3>1. PICK n \in 0 .. Attempts : n = call[c].tries + 1
      BY <1>1, <1>2, LookupConstants DEF CallType
    <3>2. k = [call[c] EXCEPT !.at = "trying", !.tries = n]
      BY <3>1
    <3>3. "trying" \in Places
      BY DEF Places
    <3> HIDE DEF k
    <3> QED
      BY <1>1, <3>2, <3>3 DEF CallType
  <2> HIDE DEF k
  <2>3. PICK q \in ReqType : q = [s \in Servers |-> "none"]
    BY DEF ReqType, Ended
  <2>4. CallTyped' /\ CallsSay' /\ RacesSay' /\ Owned'
    BY <1>1, <2>1, <2>2, <2>3, OwnerMoves
  <2> QED
    BY <1>1, <2>1, <2>4
<1>3. CASE ~(transient /\ call[c].tries + 1 < Attempts)
  <2>1. TellAll(call[c].dom, Failed) /\ global' \in AfterFailures(global, GlobalThreshold)
    BY <1>3 DEF AttemptFails
  <2>2. global' \in Breaker(GlobalThreshold)
    BY <1>1, <2>1, BreakerTypes
  <2>3. /\ CallTyped' /\ CallsSay' /\ RacesSay' /\ Owned'
        /\ inflight' \in [Domains -> Callers \cup {None}]
    BY <1>1, <2>1, AllAreTold
  <2> QED
    BY <2>2, <2>3
<1> QED
  BY <1>2, <1>3

\* An attempt has an answer: it is kept, or all that wait for it are told.
LEMMA AttemptAnswersKeeps ==
    ASSUME LookupInv, UNCHANGED <<truth, liar>>, NEW c \in Callers, call[c].at \in {"trying", "racing"},
           NEW a, Serves(call[c].dom, a), AttemptAnswers(c, a),
           req' = [req EXCEPT ![c] = [s \in Servers |-> "none"]]
    PROVE  /\ CallTyped' /\ CallsSay' /\ RacesSay' /\ Owned'
           /\ inflight' \in [Domains -> Callers \cup {None}] /\ global' \in Breaker(GlobalThreshold)
           /\ memory' = memory \/ memory' = [memory EXCEPT ![call[c].dom] = a]
<1>1. /\ call[c] \in CallType /\ Fetching(c) /\ inflight \in [Domains -> Callers \cup {None}]
  BY DEF LookupInv, CallTyped, CacheTyped, Fetching
<1>2. global' \in Breaker(GlobalThreshold)
  BY BreakerTypes DEF AttemptAnswers
<1>3. CASE a.status = "unknown"
  <2>1. TellAll(call[c].dom, a) /\ UNCHANGED memory
    BY <1>3 DEF AttemptAnswers
  <2>2. /\ CallTyped' /\ CallsSay' /\ RacesSay' /\ Owned'
        /\ inflight' \in [Domains -> Callers \cup {None}]
    BY <1>1, <2>1, AllAreTold
  <2> QED
    BY <1>2, <2>1, <2>2
<1>4. CASE a.status # "unknown"
  <2>1. /\ memory' = [memory EXCEPT ![call[c].dom] = a] /\ UNCHANGED inflight
        /\ call' = [call EXCEPT ![c] = [NoCall EXCEPT !.at = "writing", !.dom = call[c].dom, !.got = a]]
    BY <1>4 DEF AttemptAnswers
  <2>2. call[c].dom \in Domains /\ a \in Answer
    BY <1>1 DEF LookupInv, CallsSay, CallSays, Fetching, Serves, Says
  <2>3. PICK k \in CallType : /\ k.at = "writing" /\ k.dom = call[c].dom /\ k.got = a
                              /\ call' = [call EXCEPT ![c] = k]
    <3>1. \A d : /\ [NoCall EXCEPT !.at = "writing", !.dom = d, !.got = a].at = "writing"
                 /\ [NoCall EXCEPT !.at = "writing", !.dom = d, !.got = a].dom = d
                 /\ [NoCall EXCEPT !.at = "writing", !.dom = d, !.got = a].got = a
      BY DEF NoCall
    <3> QED
      BY <2>1, <2>2, <3>1, Types
  <2>4. PICK q \in ReqType : q = [s \in Servers |-> "none"]
    BY DEF ReqType, Ended
  <2>5. CallTyped' /\ CallsSay' /\ RacesSay' /\ Owned'
    BY <1>1, <2>1, <2>3, <2>4, OwnerMoves
  <2> QED
    BY <1>1, <1>2, <2>1, <2>5
<1> QED
  BY <1>3, <1>4

-----------------------------------------------------------------------------
(* The steps.                                                               *)

LEMMA Anew ==
    ASSUME LookupInv, NEW c \in Callers, call[c].at # "racing"
    PROVE  req = [req EXCEPT ![c] = [s \in Servers |-> "none"]]
<1>1. req \in [Callers -> ReqType] /\ \A s \in Servers : req[c][s] = "none"
  BY DEF LookupInv, RacesSay
<1>2. req[c] = [s \in Servers |-> "none"]
  BY <1>1 DEF ReqType
<1> QED
  BY <1>1, <1>2

LEMMA CallKeeps ==
    ASSUME LookupInv, NEW c \in Callers, NEW d \in Domains, NEW forced \in BOOLEAN, Call(c, d, forced)
    PROVE  LookupInv'
<1> DEFINE asked == [NoCall EXCEPT !.dom = d, !.forced = forced]
<1>1. /\ call[c].at = "idle" /\ calls < MaxCalls /\ calls' = calls + 1
      /\ \/ /\ memory[d] # None
            /\ call' = [call EXCEPT ![c] = [asked EXCEPT !.at = "told", !.got = memory[d]]]
            /\ UNCHANGED <<inflight, global>>
         \/ /\ memory[d] = None /\ ~forced
            /\ call' = [call EXCEPT ![c] = [asked EXCEPT !.at = "reading"]]
            /\ UNCHANGED <<inflight, global>>
         \/ memory[d] = None /\ forced /\ Fetch(c, d)
      /\ UNCHANGED <<truth, liar, ages, row, memory, recent, breaker, tokens, queue, req, survivors>>
  BY DEF Call
<1>2. /\ WorldTyped /\ CacheTyped /\ BreakersTyped /\ LimiterTyped /\ CallTyped
      /\ req \in [Callers -> ReqType] /\ survivors \subseteq Survivors
      /\ CachesSay /\ CallsSay /\ RacesSay /\ Owned /\ Queued
  BY DEF LookupInv
<1>3. WorldTyped' /\ CachesSay' /\ Queued' /\ LimiterTyped'
  BY <1>1, <1>2, CachesFramed, QueuedFramed, LookupConstants DEF WorldTyped, LimiterTyped
<1>4. asked \in CallType /\ asked.at = "idle" /\ asked.dom = d
  <2>1. PICK k \in CallType : k = NoCall /\ k.at = "idle"
    BY Types
  <2>2. asked = [k EXCEPT !.dom = d, !.forced = forced]
    BY <2>1
  <2> HIDE DEF asked
  <2> QED
    BY <2>1, <2>2 DEF CallType, Places
<1> HIDE DEF asked
<1>5. ASSUME NEW k \in CallType, call' = [call EXCEPT ![c] = k], k.at \in {"told", "reading"}, CallSays(k),
             UNCHANGED <<inflight, global>>
      PROVE  CallTyped' /\ CallsSay' /\ RacesSay' /\ Owned' /\ CacheTyped' /\ BreakersTyped'
  <2>1. /\ CallTyped' /\ CallsSay' /\ RacesSay'
        /\ call'[c] = k /\ \A b \in Callers : b # c => call'[b] = call[b]
    BY <1>1, <1>5, OneMoves
  <2>2. Owned'
    BY <1>1, <1>2, <1>5, <2>1 DEF Owned, Fetching
  <2> QED
    BY <1>1, <1>2, <1>5, <2>1, <2>2 DEF CacheTyped, BreakersTyped
<1>6. CallTyped' /\ CallsSay' /\ RacesSay' /\ Owned' /\ CacheTyped' /\ BreakersTyped'
  <2>1. CASE /\ memory[d] # None /\ UNCHANGED <<inflight, global>>
             /\ call' = [call EXCEPT ![c] = [asked EXCEPT !.at = "told", !.got = memory[d]]]
    <3>1. memory[d] \in Answer /\ Serves(d, memory[d])
      BY <1>2, <2>1 DEF CacheTyped, CachesSay
    <3>2. PICK k \in CallType : /\ k.at = "told" /\ k.dom = d /\ k.got = memory[d]
                                /\ call' = [call EXCEPT ![c] = k]
      BY <1>4, <2>1, <3>1 DEF CallType, Places
    <3> QED
      BY <1>5, <2>1, <3>1, <3>2 DEF CallSays
  <2>2. CASE UNCHANGED <<inflight, global>> /\ call' = [call EXCEPT ![c] = [asked EXCEPT !.at = "reading"]]
    <3>1. PICK k \in CallType : k.at = "reading" /\ k.dom = d /\ call' = [call EXCEPT ![c] = k]
      BY <1>4, <2>2 DEF CallType, Places
    <3> QED
      BY <1>5, <2>2, <3>1 DEF CallSays
  <2>3. CASE Fetch(c, d)
    BY <1>1, <1>2, <2>3, FetchKeeps DEF CacheTyped, BreakersTyped
  <2> QED
    BY <1>1, <2>1, <2>2, <2>3
<1> QED
  BY <1>1, <1>2, <1>3, <1>6 DEF LookupInv

LEMMA ReadRowKeeps ==
    ASSUME LookupInv, NEW c \in Callers, ReadRow(c)
    PROVE  LookupInv'
<1>1. PICK d : d = call[c].dom
  OBVIOUS
<1>2. /\ call[c].at = "reading" /\ UNCHANGED <<world, row, recent, breaker, tokens, queue, req, survivors>>
      /\ IF row[d] # None /\ ~Stale(row[d])
         THEN /\ memory' = [memory EXCEPT ![d] = row[d]]
              /\ call' = Told(c, row[d])
              /\ UNCHANGED <<inflight, global>>
         ELSE Fetch(c, d) /\ UNCHANGED memory
  BY <1>1 DEF ReadRow
<1>3. /\ WorldTyped /\ CacheTyped /\ BreakersTyped /\ LimiterTyped /\ call \in [Callers -> CallType]
      /\ req \in [Callers -> ReqType] /\ survivors \subseteq Survivors
      /\ CachesSay /\ CallsSay /\ RacesSay /\ Owned /\ Queued
  BY DEF LookupInv, CallTyped
<1>4. UNCHANGED <<truth, liar, calls, ages, row, recent, breaker, tokens, queue, req, survivors>>
  BY <1>2 DEF world
<1>5. WorldTyped' /\ Queued' /\ LimiterTyped'
  BY <1>3, <1>4, QueuedFramed DEF WorldTyped, LimiterTyped
<1>6. d \in Domains
  BY <1>1, <1>2, <1>3 DEF CallsSay, CallSays
<1>7. CASE row[d] # None /\ ~Stale(row[d])
  <2>1. row[d] \in Answer /\ Serves(d, row[d])
    BY <1>3, <1>6, <1>7 DEF CacheTyped, CachesSay, Serves
  <2>2. call' = [call EXCEPT ![c].at = "told", ![c].got = row[d]]
    BY <1>2, <1>7 DEF Told
  <2>3. PICK k \in CallType : k.at = "told" /\ k.dom = d /\ k.got = row[d] /\ call' = [call EXCEPT ![c] = k]
    <3> DEFINE k == [call[c] EXCEPT !.at = "told", !.got = row[d]]
    <3>1. call' = [call EXCEPT ![c] = k]
      BY <1>3, <2>2
    <3>2. k \in CallType /\ k.at = "told" /\ k.dom = d /\ k.got = row[d]
      BY <1>1, <1>3, <2>1 DEF CallType, Places
    <3> QED
      BY <3>1, <3>2
  <2>4. /\ CallTyped' /\ CallsSay' /\ RacesSay'
        /\ call'[c] = k /\ \A b \in Callers : b # c => call'[b] = call[b]
    BY <1>2, <1>4, <1>6, <2>1, <2>3, OneMoves DEF CallSays
  <2>5. UNCHANGED <<inflight, global>> /\ memory' = [memory EXCEPT ![d] = row[d]]
    BY <1>2, <1>7
  <2>6. Owned'
    BY <1>2, <1>3, <2>3, <2>4, <2>5 DEF Owned, Fetching
  <2>7. CacheTyped' /\ BreakersTyped'
    BY <1>3, <1>4, <2>1, <2>5 DEF CacheTyped, BreakersTyped
  <2>8. CachesSay'
    BY <1>3, <1>4, <1>6, <2>1, <2>5 DEF CachesSay, CacheTyped, Says, Serves, Stale
  <2> QED
    BY <1>3, <1>4, <1>5, <2>4, <2>6, <2>7, <2>8 DEF LookupInv
<1>8. CASE ~(row[d] # None /\ ~Stale(row[d]))
  <2>1. Fetch(c, d) /\ UNCHANGED memory
    BY <1>2, <1>8
  <2>2. /\ CallTyped' /\ CallsSay' /\ RacesSay' /\ Owned'
        /\ inflight' \in [Domains -> Callers \cup {None}] /\ global' \in Breaker(GlobalThreshold)
    BY <1>2, <1>4, <1>6, <2>1, FetchKeeps
  <2>3. CachesSay' /\ CacheTyped' /\ BreakersTyped'
    BY <1>3, <1>4, <2>1, <2>2, CachesFramed DEF CacheTyped, BreakersTyped
  <2> QED
    BY <1>3, <1>4, <1>5, <2>2, <2>3 DEF LookupInv
<1> QED
  BY <1>7, <1>8

\* The servers of a race are asked once each.
LEMMA AskedOnce ==
    ASSUME NEW S \in SUBSET Servers, NEW asked \in InOrder(S)
    PROVE  /\ asked \in Seq(S) /\ Len(asked) \in Nat /\ DOMAIN asked = 1 .. Len(asked)
           /\ \A i \in 1 .. Len(asked) : asked[i] \in S
           /\ \A i, j \in 1 .. Len(asked) : asked[i] = asked[j] => i = j
<1>1. PICK n \in 0 .. Len(Order) : asked \in [1 .. n -> S]
  BY DEF InOrder
<1>2. Len(Order) \in Nat
  BY LookupAssumption
<1>3. n \in Nat
  BY <1>1, <1>2
<1>4. asked \in Seq(S) /\ Len(asked) = n /\ DOMAIN asked = 1 .. Len(asked)
  BY <1>1, <1>3
<1>5. \A i, j \in DOMAIN asked : i < j => Before(asked[i], asked[j])
  BY DEF InOrder
<1>6. \A s : ~Before(s, s)
  <2>1. DOMAIN Order = 1 .. Len(Order) /\ \A i, j \in DOMAIN Order : Order[i] = Order[j] => i = j
    BY LookupAssumption DEF IsInjective
  <2> QED
    BY <1>2, <2>1 DEF Before
<1>7. ASSUME NEW i \in 1 .. Len(asked), NEW j \in 1 .. Len(asked), asked[i] = asked[j], i # j
      PROVE  FALSE
  <2>1. i < j \/ j < i
    BY <1>3, <1>4, <1>7
  <2> QED
    BY <1>4, <1>5, <1>6, <1>7, <2>1
<1> QED
  BY <1>1, <1>3, <1>4, <1>7

\* The limiter lets the first requests of a race go, and queues the next.
LEMMA RaceStarts ==
    ASSUME LookupInv, NEW c \in Callers, call[c].at = "trying",
           NEW S \in SUBSET Servers, NEW asked \in InOrder(S), NEW cooled, StartRace(c, asked, cooled),
           UNCHANGED <<truth, liar, inflight, global>>
    PROVE  /\ CallTyped' /\ CallsSay' /\ RacesSay' /\ Owned' /\ Queued' /\ LimiterTyped' /\ BreakersTyped'
           /\ req' \in [Callers -> ReqType]
<1>1. PICK count \in Nat : count = Len(asked) /\ \A i \in 1 .. count : asked[i] \in Servers
  BY AskedOnce
<1>2. /\ tokens \in 0 .. BucketSize /\ tokens \in Nat /\ queue \in Seq((Callers \X Servers) \cup {None})
      /\ Len(queue) <= QueueSize /\ Len(queue) \in Nat /\ QueueSize \in Nat /\ BucketSize \in Nat
      /\ call \in [Callers -> CallType] /\ req \in [Callers -> ReqType] /\ Queued /\ RacesSay /\ Fetching(c)
      /\ global \in Breaker(GlobalThreshold)
  BY LookupConstants DEF LookupInv, LimiterTyped, CallTyped, Fetching, BreakersTyped
<1>3. PICK direct \in Nat : /\ direct = IF queue = <<>> THEN Least(tokens, count) ELSE 0
                            /\ direct <= tokens /\ direct <= count
  BY <1>1, <1>2 DEF Least
<1>4. PICK last \in Nat : /\ last = Least(direct + QueueSize - Len(queue), count)
                          /\ direct <= last /\ last <= count /\ Len(queue) + (last - direct) <= QueueSize
  <2>1. PICK room \in Nat : room = direct + QueueSize - Len(queue) /\ direct <= room
    BY <1>2, <1>3
  <2>2. PICK m \in Nat : m = Least(room, count) /\ m <= room /\ m <= count /\ direct <= m
    BY <1>1, <1>3, <2>1 DEF Least
  <2>3. Len(queue) + (m - direct) <= QueueSize
    BY <1>2, <1>3, <2>1, <2>2
  <2> QED
    BY <2>1, <2>2, <2>3
<1>24. PICK more \in Nat : more = last - direct
  BY <1>4
<1>5. PICK new : new = [i \in 1 .. more |-> <<c, asked[direct + i]>>]
  OBVIOUS
<1>6. PICK q : q = [s \in Servers |->
                       IF s \in {asked[i] : i \in 1 .. direct} THEN "sent"
                       ELSE IF s \in {asked[i] : i \in direct + 1 .. last} THEN "queued" ELSE "failed"]
  OBVIOUS
<1>7. /\ tokens' = tokens - direct /\ queue' = queue \o new /\ req' = [req EXCEPT ![c] = q]
      /\ call' = [call EXCEPT ![c].at = "racing"] /\ breaker' \in [Servers -> Breaker(ServerThreshold)]
  BY <1>1, <1>3, <1>4, <1>5, <1>6, <1>24 DEF StartRace
<1>8. q \in ReqType /\ \A s \in Servers : q[s] # "free"
  BY <1>6 DEF ReqType, Ended
<1>9. PICK k \in CallType : k.at = "racing" /\ k.dom = call[c].dom /\ call' = [call EXCEPT ![c] = k]
  <2> DEFINE k == [call[c] EXCEPT !.at = "racing"]
  <2>1. call' = [call EXCEPT ![c] = k]
    BY <1>2, <1>7
  <2>2. k \in CallType /\ k.at = "racing" /\ k.dom = call[c].dom
    BY <1>2 DEF CallType, Places
  <2> QED
    BY <2>1, <2>2
<1>10. CallTyped' /\ CallsSay' /\ RacesSay' /\ Owned'
  <2>1. Fetching(c) /\ req' = [req EXCEPT ![c] = q]
    BY <1>2, <1>7
  <2>2. \A s \in Servers : q[s] = "free" /\ truth[k.dom] = "taken" => liar \in Reach(s)
    BY <1>8
  <2>3. k.at \in {"racing", "trying", "writing"} /\ k.at # "writing"
    BY <1>9
  <2>4. k.at # "racing" => \A s \in Servers : q[s] = "none"
    BY <1>9
  <2>5. q \in ReqType
    BY <1>8
  <2> QED
    BY <1>9, <2>1, <2>2, <2>3, <2>4, <2>5, OwnerMoves
<1>11. /\ new \in Seq(Callers \X Servers) /\ Len(new) = more
       /\ \A i \in 1 .. more : new[i] = <<c, asked[direct + i]>> /\ asked[direct + i] \in Servers
  <2>1. \A i \in 1 .. more : direct + i \in 1 .. count
    BY <1>1, <1>3, <1>4, <1>24
  <2>2. \A i \in 1 .. more : asked[direct + i] \in Servers
    BY <1>1, <2>1
  <2>3. new \in [1 .. more -> Callers \X Servers]
    BY <1>5, <2>2
  <2>4. new \in Seq(Callers \X Servers) /\ Len(new) = more
    BY <1>24, <2>3
  <2> QED
    BY <1>5, <2>2, <2>4
<1>12. /\ queue' \in Seq((Callers \X Servers) \cup {None}) /\ Len(queue') = Len(queue) + more
       /\ \A i \in 1 .. Len(queue) : queue'[i] = queue[i]
       /\ \A i \in 1 .. more : queue'[Len(queue) + i] = new[i]
  <2> DEFINE E == (Callers \X Servers) \cup {None}
  <2>1. new \in Seq(E) /\ queue \in Seq(E) /\ queue' = queue \o new /\ Len(new) = more
    BY <1>2, <1>7, <1>11
  <2> HIDE DEF E
  <2>2. queue' \in Seq(E) /\ Len(queue') = Len(queue) + more
    <3>1. queue \o new \in Seq(E) /\ Len(queue \o new) = Len(queue) + Len(new)
      BY <2>1, ConcatProperties
    <3> QED
      BY <2>1, <3>1
  <2>3. \A i \in 1 .. Len(queue) : queue'[i] = queue[i]
    BY <2>1, <1>24
  <2>4. \A i \in 1 .. more : queue'[Len(queue) + i] = new[i]
    BY <2>1, <1>24
  <2> QED
    BY <2>2, <2>3, <2>4 DEF E
<1>13. LimiterTyped'
  BY <1>2, <1>3, <1>4, <1>7, <1>12, <1>24 DEF LimiterTyped
<1>14. BreakersTyped'
  BY <1>2, <1>7 DEF BreakersTyped
<1>15. ASSUME NEW i \in 1 .. more
       PROVE  q[asked[direct + i]] = "queued"
  <2>1. direct + i \in 1 .. count /\ direct + i \in direct + 1 .. last
    BY <1>1, <1>3, <1>4, <1>24
  <2>2. asked[direct + i] \in {asked[j] : j \in direct + 1 .. last} /\ asked[direct + i] \in Servers
    BY <1>1, <2>1
  <2>3. asked[direct + i] \notin {asked[j] : j \in 1 .. direct}
    <3> SUFFICES ASSUME NEW j \in 1 .. direct, asked[j] = asked[direct + i] PROVE FALSE
      OBVIOUS
    <3>1. j \in 1 .. count /\ j # direct + i
      BY <1>1, <1>3
    <3> QED
      BY <1>1, <2>1, <3>1, AskedOnce
  <2> QED
    BY <1>6, <2>2, <2>3
<1>16. \A b \in Callers : b # c => req'[b] = req[b]
  BY <1>2, <1>7
<1>17. req'[c] = q
  BY <1>2, <1>7
<1>18. ASSUME NEW i \in 1 .. Len(queue), queue[i] # None
       PROVE  queue[i][1] \in Callers \ {c} /\ queue[i][2] \in Servers /\ req[queue[i][1]][queue[i][2]] = "queued"
  <2>1. queue[i] \in Callers \X Servers /\ req[queue[i][1]][queue[i][2]] = "queued"
    BY <1>2, <1>18 DEF Queued
  <2> QED
    BY <1>2, <2>1 DEF RacesSay
<1>19. \A i \in DOMAIN queue' : i \in 1 .. Len(queue) \/ \E n \in 1 .. more : i = Len(queue) + n
  <2>1. DOMAIN queue' = 1 .. Len(queue')
    BY <1>12
  <2>2. ASSUME NEW i \in 1 .. Len(queue'), i \notin 1 .. Len(queue)
        PROVE  i - Len(queue) \in 1 .. more /\ i = Len(queue) + (i - Len(queue))
    BY <1>2, <1>12, <1>24, <2>2
  <2> QED
    BY <2>1, <2>2
<1>20. ASSUME NEW i \in DOMAIN queue', queue'[i] # None
       PROVE  req'[queue'[i][1]][queue'[i][2]] = "queued"
  <2>1. CASE i \in 1 .. Len(queue)
    BY <1>12, <1>16, <1>18, <1>20, <2>1
  <2>2. ASSUME NEW n \in 1 .. more, i = Len(queue) + n
        PROVE  req'[queue'[i][1]][queue'[i][2]] = "queued"
    <3>1. PICK s \in Servers : s = asked[direct + n] /\ queue'[i] = <<c, s>>
      BY <1>11, <1>12, <2>2
    <3>2. queue'[i][1] = c /\ queue'[i][2] = s /\ q[s] = "queued"
      BY <1>15, <3>1
    <3> QED
      BY <1>17, <3>2
  <2> QED
    BY <1>19, <2>1, <2>2
<1>21. ASSUME NEW i \in DOMAIN queue', NEW j \in DOMAIN queue', i # j, queue'[i] = queue'[j], queue'[i] # None
       PROVE  FALSE
  <2>1. ASSUME NEW m \in 1 .. Len(queue), NEW n \in 1 .. more,
               queue'[m] = queue'[Len(queue) + n], queue'[m] # None
        PROVE  FALSE
    <3>1. PICK s \in Servers : queue'[Len(queue) + n] = <<c, s>>
      BY <1>11, <1>12
    <3>2. queue[m] = <<c, s>> /\ queue[m] # None
      BY <1>12, <2>1, <3>1
    <3>3. queue[m][1] = c
      BY <3>2
    <3> QED
      BY <1>18, <3>2, <3>3
  <2>2. CASE i \in 1 .. Len(queue) /\ j \in 1 .. Len(queue)
    BY <1>2, <1>12, <1>21, <2>2 DEF Queued
  <2>3. ASSUME NEW m \in 1 .. more, NEW n \in 1 .. more,
               i = Len(queue) + m, j = Len(queue) + n
        PROVE  FALSE
    <3>1. asked[direct + m] = asked[direct + n] /\ m # n
      <4>1. queue'[i] = <<c, asked[direct + m]>> /\ queue'[j] = <<c, asked[direct + n]>>
        BY <1>11, <1>12, <2>3
      <4>2. <<c, asked[direct + m]>> = <<c, asked[direct + n]>> /\ m # n
        BY <1>21, <2>3, <4>1
      <4> QED
        BY <4>2
    <3>2. direct + m \in 1 .. count /\ direct + n \in 1 .. count /\ direct + m # direct + n
      BY <1>1, <1>3, <1>4, <1>24, <3>1
    <3> QED
      BY <1>1, <3>1, <3>2, AskedOnce
  <2> QED
    BY <1>19, <1>21, <2>1, <2>2, <2>3
<1>22. Queued'
  BY <1>20, <1>21 DEF Queued
<1>23. req' \in [Callers -> ReqType]
  BY <1>2, <1>7, <1>8
<1> QED
  BY <1>10, <1>13, <1>14, <1>22, <1>23

LEMMA AttemptKeeps ==
    ASSUME LookupInv, NEW c \in Callers, Attempt(c)
    PROVE  LookupInv'
<1>1. PICK d : d = call[c].dom
  OBVIOUS
<1>2. /\ WorldTyped /\ CacheTyped /\ BreakersTyped /\ LimiterTyped /\ call \in [Callers -> CallType]
      /\ req \in [Callers -> ReqType] /\ survivors \subseteq Survivors
      /\ CachesSay /\ CallsSay /\ RacesSay /\ Owned /\ Queued
  BY DEF LookupInv, CallTyped
<1>3. call[c].at = "trying" /\ UNCHANGED <<truth, liar, calls, ages, row, recent, survivors>>
  BY DEF Attempt, world
<1>4. WorldTyped' /\ survivors' \subseteq Survivors
  BY <1>2, <1>3 DEF WorldTyped
<1>5. d \in Domains
  BY <1>1, <1>2, <1>3 DEF CallsSay, CallSays
<1>6. CASE AttemptFails(c, FALSE) /\ UNCHANGED <<memory, breaker, tokens, queue, req>>
  <2>1. /\ CallTyped' /\ CallsSay' /\ RacesSay' /\ Owned'
        /\ inflight' \in [Domains -> Callers \cup {None}] /\ global' \in Breaker(GlobalThreshold)
    BY <1>3, <1>6, Anew, AttemptFailsKeeps
  <2>2. CachesSay' /\ Queued'
    BY <1>2, <1>3, <1>6, CachesFramed, QueuedFramed
  <2> QED
    BY <1>2, <1>3, <1>4, <1>6, <2>1, <2>2 DEF LookupInv, CacheTyped, BreakersTyped, LimiterTyped
<1>7. CASE recent[d] # None /\ AttemptAnswers(c, recent[d]) /\ UNCHANGED <<breaker, tokens, queue, req>>
  <2>1. PICK a \in Answer : a = recent[d] /\ Serves(d, a)
    BY <1>2, <1>5, <1>7 DEF CacheTyped, CachesSay
  <2>2. /\ CallTyped' /\ CallsSay' /\ RacesSay' /\ Owned'
        /\ inflight' \in [Domains -> Callers \cup {None}] /\ global' \in Breaker(GlobalThreshold)
        /\ memory' = memory \/ memory' = [memory EXCEPT ![d] = a]
    BY <1>1, <1>3, <1>7, <2>1, Anew, AttemptAnswersKeeps
  <2>3. CachesSay'
    BY <1>2, <1>3, <1>5, <2>1, <2>2 DEF CachesSay, CacheTyped, Says, Serves, Stale
  <2>4. Queued'
    BY <1>2, <1>7, QueuedFramed
  <2>5. CacheTyped'
    BY <1>2, <1>3, <2>1, <2>2 DEF CacheTyped
  <2> QED
    BY <1>2, <1>3, <1>4, <1>7, <2>2, <2>3, <2>4, <2>5 DEF LookupInv, BreakersTyped, LimiterTyped
<1>8. ASSUME NEW cooled \in SUBSET {s \in Servers : breaker[s].state = "open"},
             NEW asked \in InOrder({s \in Servers : Allows(breaker[s], s \in cooled)}),
             StartRace(c, asked, cooled), UNCHANGED <<memory, inflight, global>>
      PROVE  LookupInv'
  <2>1. {s \in Servers : Allows(breaker[s], s \in cooled)} \in SUBSET Servers
    OBVIOUS
  <2>2. /\ CallTyped' /\ CallsSay' /\ RacesSay' /\ Owned' /\ Queued' /\ LimiterTyped' /\ BreakersTyped'
        /\ req' \in [Callers -> ReqType]
    BY <1>3, <1>8, <2>1, RaceStarts
  <2>3. CachesSay' /\ CacheTyped'
    BY <1>2, <1>3, <1>8, CachesFramed DEF CacheTyped
  <2> QED
    BY <1>4, <2>2, <2>3 DEF LookupInv
<1> QED
  BY <1>1, <1>6, <1>7, <1>8 DEF Attempt

LEMMA GrantKeeps ==
    ASSUME LookupInv, Grant
    PROVE  LookupInv'
<1>1. /\ WorldTyped /\ CacheTyped /\ BreakersTyped /\ call \in [Callers -> CallType]
      /\ req \in [Callers -> ReqType] /\ survivors \subseteq Survivors
      /\ CachesSay /\ CallsSay /\ RacesSay /\ Owned /\ Queued
      /\ tokens \in 0 .. BucketSize /\ queue \in Seq((Callers \X Servers) \cup {None}) /\ Len(queue) <= QueueSize
      /\ BucketSize \in Nat /\ QueueSize \in Nat
  BY LookupConstants DEF LookupInv, CallTyped, LimiterTyped
<1>2. /\ queue # <<>> /\ tokens > 0 /\ tokens' = tokens - 1 /\ queue' = Tail(queue)
      /\ req' = IF Head(queue) = None THEN req ELSE [req EXCEPT ![Head(queue)[1]][Head(queue)[2]] = "sent"]
      /\ UNCHANGED <<world, shared, breaker, global, call, survivors>>
  BY DEF Grant
<1>3. UNCHANGED <<truth, liar, calls, ages, row, memory, recent, inflight>>
  BY <1>2 DEF world, shared
<1>4. PICK E : E = (Callers \X Servers) \cup {None}
  OBVIOUS
<1>5. /\ Tail(queue) \in Seq(E) /\ Len(queue) \in Nat \ {0} /\ Len(Tail(queue)) = Len(queue) - 1
      /\ \A i \in 1 .. Len(Tail(queue)) : Tail(queue)[i] = queue[i + 1]
      /\ Head(queue) = queue[1] /\ queue[1] \in E
  <2>1. queue \in Seq(E) /\ queue # <<>>
    BY <1>1, <1>2, <1>4
  <2> QED
    BY <2>1
<1>6. LimiterTyped'
  BY <1>1, <1>2, <1>4, <1>5 DEF LimiterTyped
<1>7. WorldTyped' /\ CacheTyped' /\ BreakersTyped' /\ CallTyped' /\ survivors' \subseteq Survivors
  BY <1>1, <1>2, <1>3 DEF WorldTyped, CacheTyped, BreakersTyped, CallTyped
<1>8. CachesSay' /\ CallsSay' /\ Owned'
  BY <1>1, <1>2, <1>3, CachesFramed DEF CallsSay, CallSays, Says, Serves, Stale, Owned, Fetching
<1>9. \A i \in DOMAIN queue' : /\ i + 1 \in DOMAIN queue /\ queue'[i] = queue[i + 1] /\ i + 1 # 1 /\ i \in Nat
  <2>1. DOMAIN queue' = 1 .. Len(Tail(queue)) /\ DOMAIN queue = 1 .. Len(queue)
    BY <1>1, <1>2, <1>5
  <2> QED
    BY <1>2, <1>5, <2>1
<1>10. 1 \in DOMAIN queue
  BY <1>1, <1>5
<1>11. CASE Head(queue) = None
  <2>1. req' = req
    BY <1>2, <1>11
  <2>2. RacesSay'
    BY <1>1, <1>2, <1>3, <2>1 DEF RacesSay
  <2>3. Queued'
    <3>1. \A i \in DOMAIN queue' : queue'[i] # None => req'[queue'[i][1]][queue'[i][2]] = "queued"
      BY <1>1, <1>9, <2>1 DEF Queued
    <3>2. \A i, j \in DOMAIN queue' : i # j /\ queue'[i] = queue'[j] => queue'[i] = None
      <4> SUFFICES ASSUME NEW i \in DOMAIN queue', NEW j \in DOMAIN queue', i # j, queue'[i] = queue'[j]
                   PROVE  queue'[i] = None
        OBVIOUS
      <4>1. i + 1 # j + 1
        BY <1>9
      <4> QED
        BY <1>1, <1>9, <4>1 DEF Queued
    <3> QED
      BY <3>1, <3>2 DEF Queued
  <2> QED
    BY <1>1, <1>6, <1>7, <1>8, <2>1, <2>2, <2>3 DEF LookupInv
<1>12. CASE Head(queue) # None
  <2>1. PICK b \in Callers, s \in Servers : queue[1] = <<b, s>>
    BY <1>4, <1>5, <1>12
  <2>2. queue[1] # None /\ queue[1][1] = b /\ queue[1][2] = s
    BY <1>5, <1>12, <2>1
  <2>3. req[b][s] = "queued" /\ call[b].at = "racing"
    BY <1>1, <1>10, <2>2 DEF Queued, RacesSay
  <2>4. req' = [req EXCEPT ![b][s] = "sent"]
    BY <1>2, <1>5, <1>12, <2>2
  <2>5. req' \in [Callers -> ReqType]
    BY <1>1, <2>4 DEF ReqType, Ended
  <2>6. \A a \in Callers, t \in Servers : req'[a][t] = IF a = b /\ t = s THEN "sent" ELSE req[a][t]
    BY <1>1, <2>4 DEF ReqType
  <2>7. RacesSay'
    BY <1>1, <1>2, <1>3, <2>3, <2>6 DEF RacesSay
  <2>8. ASSUME NEW i \in DOMAIN queue', queue'[i] # None
        PROVE  req'[queue'[i][1]][queue'[i][2]] = "queued"
    <3>1. queue[i + 1] # queue[1] /\ req[queue[i + 1][1]][queue[i + 1][2]] = "queued" /\ queue[i + 1] \in E
      BY <1>1, <1>4, <1>9, <1>10, <2>8 DEF Queued
    <3>2. PICK a \in Callers, t \in Servers : queue[i + 1] = <<a, t>>
      BY <1>4, <1>9, <2>8, <3>1
    <3>3. ~(a = b /\ t = s)
      BY <2>1, <3>1, <3>2
    <3>4. queue'[i][1] = a /\ queue'[i][2] = t /\ req[a][t] = "queued"
      BY <1>9, <3>1, <3>2
    <3> QED
      BY <2>6, <3>3, <3>4
  <2>9. ASSUME NEW i \in DOMAIN queue', NEW j \in DOMAIN queue', i # j, queue'[i] = queue'[j]
        PROVE  queue'[i] = None
    <3>1. i + 1 # j + 1
      BY <1>9, <2>9
    <3> QED
      BY <1>1, <1>9, <2>9, <3>1 DEF Queued
  <2>10. Queued'
    BY <2>8, <2>9 DEF Queued
  <2> QED
    BY <1>6, <1>7, <1>8, <2>5, <2>7, <2>10 DEF LookupInv
<1> QED
  BY <1>11, <1>12

\* A step of the limiter that sends no request of these lookups.
LEMMA LimiterKeeps ==
    ASSUME LookupInv, Refill \/ OtherAsks
    PROVE  LookupInv'
<1>1. /\ WorldTyped /\ CacheTyped /\ BreakersTyped /\ CallTyped
      /\ req \in [Callers -> ReqType] /\ survivors \subseteq Survivors
      /\ CachesSay /\ CallsSay /\ RacesSay /\ Owned /\ Queued
      /\ tokens \in 0 .. BucketSize /\ queue \in Seq((Callers \X Servers) \cup {None}) /\ Len(queue) <= QueueSize
      /\ BucketSize \in Nat /\ QueueSize \in Nat
  BY LookupConstants DEF LookupInv, LimiterTyped
<1>2. UNCHANGED <<world, shared, breaker, global, call, req, survivors>>
  BY DEF Refill, OtherAsks
<1>3. UNCHANGED <<truth, liar, calls, ages, row, memory, recent, inflight, breaker, global, call, req, survivors>>
  BY <1>2 DEF world, shared
<1>4. WorldTyped' /\ CacheTyped' /\ BreakersTyped' /\ CallTyped'
  BY <1>1, <1>3 DEF WorldTyped, CacheTyped, BreakersTyped, CallTyped
<1>5. CachesSay' /\ CallsSay' /\ RacesSay' /\ Owned'
  BY <1>1, <1>3, CachesFramed DEF CallsSay, CallSays, Says, Serves, Stale, RacesSay, Owned, Fetching
<1>6. LimiterTyped' /\ Queued'
  <2>1. CASE tokens' \in 0 .. BucketSize /\ UNCHANGED queue
    BY <1>1, <1>3, <2>1, QueuedFramed DEF LimiterTyped
  <2>2. CASE UNCHANGED tokens /\ Len(queue) < QueueSize /\ queue' = Append(queue, None)
    <3>1. PICK E : E = (Callers \X Servers) \cup {None}
      OBVIOUS
    <3>2. queue \in Seq(E) /\ None \in E
      BY <1>1, <3>1
    <3>3. queue' \in Seq(E) /\ Len(queue') = Len(queue) + 1
      BY <2>2, <3>2
    <3>4. \A i \in DOMAIN queue' : (i \in DOMAIN queue /\ queue'[i] = queue[i]) \/ queue'[i] = None
      BY <2>2, <3>2
    <3>5. LimiterTyped'
      BY <1>1, <2>2, <3>1, <3>2, <3>3 DEF LimiterTyped
    <3>6. Queued'
      BY <1>1, <1>3, <3>4 DEF Queued
    <3> QED
      BY <3>5, <3>6
  <2>3. CASE Refill
    <3>1. tokens' \in 0 .. BucketSize /\ UNCHANGED queue
      BY <1>1, <2>3 DEF Refill
    <3> QED
      BY <2>1, <3>1
  <2>4. CASE OtherAsks /\ queue = <<>> /\ tokens > 0 /\ tokens' = tokens - 1 /\ UNCHANGED queue
    BY <1>1, <2>1, <2>4
  <2> QED
    BY <2>2, <2>3, <2>4 DEF OtherAsks
<1> QED
  BY <1>1, <1>3, <1>4, <1>5, <1>6 DEF LookupInv

\* A request that is out ends.
LEMMA RequestEnds ==
    ASSUME LookupInv, NEW c \in Callers, NEW s \in Servers, req[c][s] = "sent",
           NEW x \in Ended, req' = [req EXCEPT ![c][s] = x],
           x = "free" /\ truth[call[c].dom] = "taken" => liar \in Reach(s),
           BreakersTyped', UNCHANGED <<world, shared, global, tokens, queue, call, survivors>>
    PROVE  LookupInv'
<1>1. /\ WorldTyped /\ CacheTyped /\ LimiterTyped /\ CallTyped
      /\ req \in [Callers -> ReqType] /\ survivors \subseteq Survivors
      /\ CachesSay /\ CallsSay /\ RacesSay /\ Owned /\ Queued
  BY DEF LookupInv
<1>2. UNCHANGED <<truth, liar, calls, ages, row, memory, recent, inflight>>
  BY DEF world, shared
<1>3. WorldTyped' /\ CacheTyped' /\ LimiterTyped' /\ CallTyped'
  BY <1>1, <1>2 DEF WorldTyped, CacheTyped, LimiterTyped, CallTyped
<1>4. CachesSay' /\ CallsSay' /\ Owned'
  BY <1>1, <1>2, CachesFramed DEF CallsSay, CallSays, Says, Serves, Stale, Owned, Fetching
<1>5. \A b \in Callers, t \in Servers : req'[b][t] = IF b = c /\ t = s THEN x ELSE req[b][t]
  BY <1>1 DEF ReqType
<1>6. req' \in [Callers -> ReqType]
  BY <1>1 DEF ReqType
<1>7. call[c].at = "racing"
  BY <1>1 DEF RacesSay
<1>8. RacesSay'
  BY <1>1, <1>2, <1>5, <1>7 DEF RacesSay
<1>9. Queued'
  <2>1. ASSUME NEW i \in DOMAIN queue, queue[i] # None
        PROVE  req'[queue[i][1]][queue[i][2]] = "queued"
    <3>1. queue[i] \in Callers \X Servers /\ req[queue[i][1]][queue[i][2]] = "queued"
      BY <1>1, <2>1 DEF LimiterTyped, Queued
    <3> QED
      BY <1>5, <3>1
  <2> QED
    BY <1>1, <2>1 DEF Queued
<1> QED
  BY <1>1, <1>3, <1>4, <1>6, <1>8, <1>9 DEF LookupInv

LEMMA RequestKeeps ==
    ASSUME LookupInv, NEW c \in Callers, NEW s \in Servers,
           Fails(c, s) \/ Cancelled(c, s) \/ \E o \in Status : Reply(c, s, o)
    PROVE  LookupInv'
<1>1. breaker \in [Servers -> Breaker(ServerThreshold)] /\ global \in Breaker(GlobalThreshold)
  BY DEF LookupInv, BreakersTyped
<1>2. /\ req[c][s] = "sent" /\ UNCHANGED <<world, shared, global, tokens, queue, call, survivors>>
  BY DEF Fails, Cancelled, Reply
<1>3. /\ \A b \in AfterFailures(breaker[s], ServerThreshold) : b \in Breaker(ServerThreshold)
      /\ Closed \in Breaker(ServerThreshold)
  BY <1>1, BreakerTypes
<1>4. BreakersTyped'
  <2>1. UNCHANGED breaker \/ \E b \in Breaker(ServerThreshold) : breaker' = [breaker EXCEPT ![s] = b]
    BY <1>3 DEF Fails, Cancelled, Reply
  <2> QED
    BY <1>1, <1>2, <2>1 DEF BreakersTyped
<1>5. CASE Fails(c, s) \/ Cancelled(c, s)
  <2>1. PICK x \in Ended : x # "free" /\ req' = [req EXCEPT ![c][s] = x]
    BY <1>5 DEF Fails, Cancelled, Ended
  <2> QED
    BY <1>2, <1>4, <2>1, RequestEnds
<1>6. ASSUME NEW o \in Status, Reply(c, s, o)
      PROVE  LookupInv'
  <2>1. PICK source \in Reach(s) : o \in Opinions(source, call[c].dom)
    BY <1>6 DEF Reply
  <2>2. o = "free" /\ truth[call[c].dom] = "taken" => liar \in Reach(s)
    BY <2>1 DEF Opinions
  <2>3. req' = [req EXCEPT ![c][s] = o] /\ o \in Ended
    BY <1>6 DEF Reply, Ended
  <2> QED
    BY <1>2, <1>4, <2>2, <2>3, RequestEnds
<1> QED
  BY <1>5, <1>6

LEMMA EndRaceKeeps ==
    ASSUME LookupInv, NEW c \in Callers, EndRace(c)
    PROVE  LookupInv'
<1>1. PICK d : d = call[c].dom
  OBVIOUS
<1>2. /\ WorldTyped /\ CacheTyped /\ BreakersTyped /\ LimiterTyped /\ call \in [Callers -> CallType]
      /\ req \in [Callers -> ReqType] /\ survivors \subseteq Survivors
      /\ CachesSay /\ CallsSay /\ RacesSay /\ Owned /\ Queued
  BY DEF LookupInv, CallTyped
<1>3. /\ call[c].at = "racing" /\ \A s \in Servers : req[c][s] \in Ended
      /\ req' = [req EXCEPT ![c] = [s \in Servers |-> "none"]]
      /\ UNCHANGED <<truth, liar, calls, ages, row, breaker, tokens, queue, survivors>>
  BY DEF EndRace, world
<1>4. WorldTyped' /\ LimiterTyped' /\ survivors' \subseteq Survivors
  BY <1>2, <1>3 DEF WorldTyped, LimiterTyped
<1>5. d \in Domains
  BY <1>1, <1>2, <1>3 DEF CallsSay, CallSays
<1>6. req' \in [Callers -> ReqType] /\ \A b \in Callers : b # c => req'[b] = req[b]
  BY <1>2, <1>3 DEF ReqType, Ended
<1>7. Queued'
  <2>1. ASSUME NEW i \in DOMAIN queue, queue[i] # None
        PROVE  req'[queue[i][1]][queue[i][2]] = "queued"
    <3>1. queue[i] \in Callers \X Servers /\ req[queue[i][1]][queue[i][2]] = "queued"
      BY <1>2, <2>1 DEF LimiterTyped, Queued
    <3>2. queue[i][1] # c
      BY <1>3, <3>1 DEF Ended, Status
    <3> QED
      BY <1>6, <3>1, <3>2
  <2> QED
    BY <1>2, <1>3, <2>1 DEF Queued
<1>8. ASSUME NEW s \in Servers, NEW by \in SaidBy(s, d, req[c][s]), NEW a \in Answer,
             a = [status |-> req[c][s], origin |-> s, source |-> by, old |-> FALSE],
             AttemptAnswers(c, a), recent' = [recent EXCEPT ![d] = a]
      PROVE  LookupInv'
  <2>1. a.status = req[c][s] /\ a.source = by /\ a.old = FALSE
    BY <1>8
  <2>2. Serves(d, a)
    <3>1. a.status = "free" /\ truth[d] = "taken" => by = liar
      BY <2>1 DEF SaidBy, Opinions
    <3> QED
      BY <2>1, <3>1 DEF Serves, Says, Stale
  <2>3. /\ CallTyped' /\ CallsSay' /\ RacesSay' /\ Owned'
        /\ inflight' \in [Domains -> Callers \cup {None}] /\ global' \in Breaker(GlobalThreshold)
        /\ memory' = memory \/ memory' = [memory EXCEPT ![d] = a]
    BY <1>1, <1>3, <1>8, <2>2, AttemptAnswersKeeps
  <2>4. CachesSay'
    BY <1>2, <1>3, <1>5, <1>8, <2>2, <2>3 DEF CachesSay, CacheTyped, Says, Serves, Stale
  <2>5. CacheTyped' /\ BreakersTyped'
    BY <1>2, <1>3, <1>5, <1>8, <2>3 DEF CacheTyped, BreakersTyped
  <2> QED
    BY <1>4, <1>6, <1>7, <2>3, <2>4, <2>5 DEF LookupInv
<1>9. ASSUME NEW transient \in BOOLEAN, AttemptFails(c, transient), UNCHANGED <<memory, recent>>
      PROVE  LookupInv'
  <2>1. /\ CallTyped' /\ CallsSay' /\ RacesSay' /\ Owned'
        /\ inflight' \in [Domains -> Callers \cup {None}] /\ global' \in Breaker(GlobalThreshold)
    BY <1>3, <1>9, AttemptFailsKeeps
  <2>2. CachesSay' /\ CacheTyped' /\ BreakersTyped'
    BY <1>2, <1>3, <1>9, <2>1, CachesFramed DEF CacheTyped, BreakersTyped
  <2> QED
    BY <1>4, <1>6, <1>7, <2>1, <2>2 DEF LookupInv
<1>10. ASSUME NEW s \in Servers, req[c][s] \in Status, NEW by \in SaidBy(s, d, req[c][s]),
              AttemptAnswers(c, [status |-> req[c][s], origin |-> s, source |-> by, old |-> FALSE]),
              recent' = [recent EXCEPT ![d] = [status |-> req[c][s], origin |-> s, source |-> by, old |-> FALSE]]
       PROVE  LookupInv'
  <2>1. PICK a \in Answer : a = [status |-> req[c][s], origin |-> s, source |-> by, old |-> FALSE]
    <3>1. by \in Sources
      <4>1. by \in Reach(s)
        BY DEF SaidBy, Reach
      <4> QED
        BY <4>1 DEF Sources
    <3> QED
      BY <1>10, <3>1 DEF Answer
  <2> QED
    BY <1>8, <1>10, <2>1
<1>11. PICK best \in SUBSET Servers :
          /\ \A s \in best : req[c][s] \in Status
          /\ \/ \E s \in best : \E by \in SaidBy(s, d, req[c][s]) :
                   /\ AttemptAnswers(c, [status |-> req[c][s], origin |-> s, source |-> by, old |-> FALSE])
                   /\ recent' = [recent EXCEPT ![d] = [status |-> req[c][s], origin |-> s, source |-> by, old |-> FALSE]]
             \/ (\E transient \in BOOLEAN : AttemptFails(c, transient)) /\ UNCHANGED <<memory, recent>>
  <2> DEFINE Definite == {s \in Servers : req[c][s] \in {"free", "taken"}}
             Unknown  == {s \in Servers : req[c][s] \in {"unknown"}}
             best     == IF Definite # {} THEN Definite ELSE Unknown
  <2>1. best \in SUBSET Servers /\ \A s \in best : req[c][s] \in Status
    BY DEF Status
  <2>2. \/ \E s \in best : \E by \in SaidBy(s, d, req[c][s]) :
              /\ \A t \in best : ~Before(t, s)
              /\ AttemptAnswers(c, [status |-> req[c][s], origin |-> s, source |-> by, old |-> FALSE])
              /\ recent' = [recent EXCEPT ![d] = [status |-> req[c][s], origin |-> s, source |-> by, old |-> FALSE]]
        \/ /\ best = {} /\ \E transient \in BOOLEAN : AttemptFails(c, transient)
           /\ UNCHANGED <<memory, recent>>
    BY <1>1, Zenon DEF EndRace
  <2> QED
    <3> HIDE DEF best
    <3> QED
      BY <2>1, <2>2
<1> QED
  <2>1. CASE \E transient \in BOOLEAN : AttemptFails(c, transient) /\ UNCHANGED <<memory, recent>>
    BY <1>9, <2>1
  <2>2. CASE \E s \in Servers : \E by \in SaidBy(s, d, req[c][s]) :
                /\ req[c][s] \in Status
                /\ AttemptAnswers(c, [status |-> req[c][s], origin |-> s, source |-> by, old |-> FALSE])
                /\ recent' = [recent EXCEPT ![d] = [status |-> req[c][s], origin |-> s, source |-> by, old |-> FALSE]]
    BY <1>10, <2>2, Zenon
  <2> QED
    BY <1>11, <2>1, <2>2, Zenon

LEMMA WriteRowKeeps ==
    ASSUME LookupInv, NEW c \in Callers, WriteRow(c)
    PROVE  LookupInv'
<1>1. PICK d : d = call[c].dom
  OBVIOUS
<1>2. PICK a : a = call[c].got
  OBVIOUS
<1>3. /\ WorldTyped /\ CacheTyped /\ BreakersTyped /\ LimiterTyped /\ CallTyped
      /\ req \in [Callers -> ReqType] /\ survivors \subseteq Survivors
      /\ CachesSay /\ CallsSay /\ RacesSay /\ Owned /\ Queued
  BY DEF LookupInv
<1>4. /\ call[c].at = "writing" /\ row' \in {row, [row EXCEPT ![d] = a]} /\ TellAll(d, a)
      /\ UNCHANGED <<truth, liar, calls, ages, memory, recent, breaker, global, tokens, queue, req, survivors>>
  BY <1>1, <1>2 DEF WriteRow, world, guards
<1>5. d \in Domains /\ Serves(d, a) /\ a \in Answer /\ Fetching(c)
  BY <1>1, <1>2, <1>3, <1>4 DEF CallsSay, CallSays, Fetching, Serves, Says
<1>6. WorldTyped' /\ BreakersTyped' /\ LimiterTyped' /\ Queued'
  BY <1>3, <1>4, QueuedFramed DEF WorldTyped, BreakersTyped, LimiterTyped
<1>7. req' = [req EXCEPT ![c] = [s \in Servers |-> "none"]]
  BY <1>4, Anew
<1>8. /\ CallTyped' /\ CallsSay' /\ RacesSay' /\ Owned'
      /\ inflight' \in [Domains -> Callers \cup {None}]
  BY <1>1, <1>4, <1>5, <1>7, AllAreTold
<1>9. CacheTyped'
  BY <1>3, <1>4, <1>5, <1>8 DEF CacheTyped
<1>10. CachesSay'
  BY <1>3, <1>4, <1>5 DEF CachesSay, CacheTyped, Says, Serves, Stale
<1> QED
  BY <1>3, <1>4, <1>6, <1>8, <1>9, <1>10 DEF LookupInv

LEMMA CancelKeeps ==
    ASSUME LookupInv, NEW c \in Callers, Cancel(c)
    PROVE  LookupInv'
<1>1. /\ WorldTyped /\ CacheTyped /\ BreakersTyped /\ LimiterTyped /\ call \in [Callers -> CallType]
      /\ req \in [Callers -> ReqType] /\ survivors \subseteq Survivors
      /\ CachesSay /\ CallsSay /\ RacesSay /\ Owned /\ Queued
  BY DEF LookupInv, CallTyped
<1>2. /\ call[c].at \in {"trying", "racing"} /\ call' = [call EXCEPT ![c].cancelled = TRUE]
      /\ UNCHANGED <<truth, liar, calls, ages, row, memory, recent, inflight, breaker, global, tokens, queue,
                     req, survivors>>
  BY DEF Cancel, world, shared, guards
<1>3. call' \in [Callers -> CallType]
  BY <1>1, <1>2 DEF CallType
<1>4. \A b \in Callers : call'[b].at = call[b].at /\ call'[b].dom = call[b].dom /\ call'[b].got = call[b].got
  BY <1>1, <1>2 DEF CallType
<1>5. WorldTyped' /\ CacheTyped' /\ BreakersTyped' /\ LimiterTyped' /\ CallTyped' /\ CachesSay' /\ Queued'
  BY <1>1, <1>2, <1>3, CachesFramed, QueuedFramed
     DEF WorldTyped, CacheTyped, BreakersTyped, LimiterTyped, CallTyped
<1>6. CallsSay' /\ RacesSay' /\ Owned'
  BY <1>1, <1>2, <1>4 DEF CallsSay, CallSays, Says, Serves, Stale, RacesSay, Owned, Fetching
<1> QED
  BY <1>1, <1>2, <1>5, <1>6 DEF LookupInv

LEMMA DecideKeeps ==
    ASSUME LookupInv, NEW c \in Callers, Decide(c)
    PROVE  LookupInv'
<1>1. /\ WorldTyped /\ CacheTyped /\ BreakersTyped /\ LimiterTyped /\ CallTyped
      /\ req \in [Callers -> ReqType] /\ survivors \subseteq Survivors
      /\ CachesSay /\ CallsSay /\ RacesSay /\ Owned /\ Queued
  BY DEF LookupInv
<1>2. /\ call[c].at = "told" /\ call' = [call EXCEPT ![c] = NoCall]
      /\ UNCHANGED survivors \/ \E b \in BOOLEAN : survivors' = survivors \cup {[name |-> call[c].dom, stamped |-> b]}
      /\ UNCHANGED <<truth, liar, calls, ages, row, memory, recent, inflight, breaker, global, tokens, queue, req>>
  BY DEF Decide, world, shared, guards
<1>3. survivors' \subseteq Survivors
  BY <1>1, <1>2 DEF CallsSay, CallSays, Survivors
<1>4. PICK k \in CallType : k = NoCall /\ k.at = "idle"
  BY Types
<1>5. /\ CallTyped' /\ CallsSay' /\ RacesSay'
      /\ call'[c] = k /\ \A b \in Callers : b # c => call'[b] = call[b]
  BY <1>2, <1>4, OneMoves DEF CallSays
<1>6. Owned'
  BY <1>1, <1>2, <1>4, <1>5 DEF Owned, Fetching
<1>7. WorldTyped' /\ CacheTyped' /\ BreakersTyped' /\ LimiterTyped' /\ CachesSay' /\ Queued'
  BY <1>1, <1>2, CachesFramed, QueuedFramed DEF WorldTyped, CacheTyped, BreakersTyped, LimiterTyped
<1> QED
  BY <1>1, <1>2, <1>3, <1>5, <1>6, <1>7 DEF LookupInv

LEMMA ExpireKeeps ==
    ASSUME LookupInv, NEW d \in Domains, Expire(d)
    PROVE  LookupInv'
<1>1. /\ WorldTyped /\ CacheTyped /\ BreakersTyped /\ LimiterTyped /\ CallTyped
      /\ req \in [Callers -> ReqType] /\ survivors \subseteq Survivors
      /\ CachesSay /\ CallsSay /\ RacesSay /\ Owned /\ Queued
  BY DEF LookupInv
<1>2. /\ UNCHANGED <<truth, liar, calls, ages, row, inflight, breaker, global, tokens, queue, call, req, survivors>>
      /\ \/ memory' = [memory EXCEPT ![d] = None] /\ UNCHANGED recent
         \/ recent' = [recent EXCEPT ![d] = None] /\ UNCHANGED memory
  BY DEF Expire, world, guards
<1>3. CacheTyped' /\ CachesSay'
  BY <1>1, <1>2 DEF CacheTyped, CachesSay, Says, Serves, Stale
<1>4. WorldTyped' /\ BreakersTyped' /\ LimiterTyped' /\ CallTyped' /\ Queued'
  BY <1>1, <1>2, QueuedFramed DEF WorldTyped, BreakersTyped, LimiterTyped, CallTyped
<1>5. CallsSay' /\ RacesSay' /\ Owned'
  BY <1>1, <1>2 DEF CallsSay, CallSays, Says, Serves, Stale, RacesSay, Owned, Fetching
<1> QED
  BY <1>1, <1>2, <1>3, <1>4, <1>5 DEF LookupInv

\* Names change hands, and what is kept of them is old.
LEMMA AgeOutKeeps ==
    ASSUME LookupInv, AgeOut
    PROVE  LookupInv'
<1>1. /\ WorldTyped /\ CacheTyped /\ BreakersTyped /\ LimiterTyped /\ CallTyped
      /\ req \in [Callers -> ReqType]
      /\ CachesSay /\ CallsSay /\ RacesSay /\ Owned /\ Queued
  BY DEF LookupInv
<1>2. /\ \A c \in Callers : call[c].at = "idle"
      /\ ages < MaxAges /\ ages' = ages + 1 /\ truth' \in [Domains -> {"free", "taken"}]
      /\ row' = [d \in Domains |-> IF row[d] = None THEN None ELSE [row[d] EXCEPT !.old = TRUE]]
      /\ memory' = [d \in Domains |-> None] /\ recent' = memory' /\ survivors' = {}
      /\ UNCHANGED <<liar, calls, inflight, breaker, global, tokens, queue, call, req>>
  BY DEF AgeOut, guards
<1>3. ASSUME NEW d \in Domains
      PROVE  row'[d] = None \/ (row'[d] \in Answer /\ row'[d].old = TRUE)
  <2>1. row[d] \in Answer \cup {None} /\ row'[d] = IF row[d] = None THEN None ELSE [row[d] EXCEPT !.old = TRUE]
    BY <1>1, <1>2 DEF CacheTyped
  <2>2. ASSUME NEW a \in Answer
        PROVE  [a EXCEPT !.old = TRUE] \in Answer /\ [a EXCEPT !.old = TRUE].old = TRUE
    BY DEF Answer
  <2> QED
    BY <2>1, <2>2
<1>4. WorldTyped'
  BY <1>1, <1>2, LookupConstants DEF WorldTyped
<1>5. CacheTyped'
  <2>1. row' \in [Domains -> Answer \cup {None}]
    BY <1>2, <1>3
  <2> QED
    BY <1>1, <1>2, <2>1 DEF CacheTyped
<1>6. CachesSay'
  BY <1>2, <1>3 DEF CachesSay, Says
<1>7. CallsSay' /\ RacesSay' /\ Owned'
  BY <1>1, <1>2 DEF CallsSay, CallSays, RacesSay, Owned, Fetching
<1>8. BreakersTyped' /\ LimiterTyped' /\ CallTyped' /\ Queued'
  BY <1>1, <1>2, QueuedFramed DEF BreakersTyped, LimiterTyped, CallTyped
<1> QED
  BY <1>1, <1>2, <1>4, <1>5, <1>6, <1>7, <1>8 DEF LookupInv

LEMMA LookupNextInv ==
    ASSUME LookupInv, [LookupNext]_lookupVars
    PROVE  LookupInv'
<1>1. ASSUME NEW c \in Callers, Step(c) \/ Cancel(c)
      PROVE  LookupInv'
  BY <1>1, ReadRowKeeps, AttemptKeeps, EndRaceKeeps, WriteRowKeeps, DecideKeeps, RequestKeeps, CancelKeeps DEF Step
<1>2. CASE UNCHANGED lookupVars
  <2>1. /\ WorldTyped /\ CacheTyped /\ BreakersTyped /\ LimiterTyped /\ CallTyped
        /\ req \in [Callers -> ReqType] /\ survivors \subseteq Survivors
        /\ CachesSay /\ CallsSay /\ RacesSay /\ Owned /\ Queued
    BY DEF LookupInv
  <2>2. UNCHANGED <<truth, liar, calls, ages, row, memory, recent, inflight, breaker, global, tokens, queue, call,
                    req, survivors>>
    BY <1>2 DEF lookupVars, world, shared, guards
  <2>3. WorldTyped' /\ CacheTyped' /\ BreakersTyped' /\ LimiterTyped' /\ CallTyped' /\ CachesSay' /\ Queued'
    BY <2>1, <2>2, CachesFramed, QueuedFramed
       DEF WorldTyped, CacheTyped, BreakersTyped, LimiterTyped, CallTyped
  <2>4. CallsSay' /\ RacesSay' /\ Owned'
    BY <2>1, <2>2 DEF CallsSay, CallSays, Says, Serves, Stale, RacesSay, Owned, Fetching
  <2> QED
    BY <2>1, <2>2, <2>3, <2>4 DEF LookupInv
<1> QED
  BY <1>1, <1>2, CallKeeps, GrantKeeps, LimiterKeeps, AgeOutKeeps, ExpireKeeps DEF LookupNext

THEOREM LookupAlwaysInv == LookupSpec => []LookupInv
BY LookupInitInv, LookupNextInv, PTL DEF LookupSpec

\* Every reachable state of the lookups is well typed, in particular the limiter never
\* has a negative number of tokens nor more requests waiting than its queue takes.
THEOREM LookupTypeCorrect == LookupSpec => []LookupTypeOK
<1>1. LookupInv => LookupTypeOK
  BY LookupParts DEF LookupInv
<1> QED
  BY <1>1, LookupAlwaysInv, PTL

\* However many callers ask for a name, it is fetched once at a time, and whoever waits
\* for a fetch waits for one that is in flight (CachedProvider.get).
THEOREM FetchesAreShared == LookupSpec => []OneFetchPerName
<1>1. LookupInv => OneFetchPerName
  BY DEF LookupInv, OneFetchPerName, Owned, CallsSay, CallSays, Fetching
<1> QED
  BY <1>1, LookupAlwaysInv, PTL

\* Nothing serves an availability that is older than the stale window
\* (isRdapResultStale).
THEOREM FreeIsRecent == LookupSpec => []AvailableIsRecent
<1>1. LookupInv => AvailableIsRecent
  <2> SUFFICES ASSUME LookupInv, NEW c \in Callers, call[c].at = "told", call[c].got.status = "free"
               PROVE  ~call[c].got.old
    BY DEF AvailableIsRecent
  <2>1. call[c].got = Failed \/ Serves(call[c].dom, call[c].got)
    BY DEF LookupInv, CallsSay, CallSays
  <2> QED
    BY <2>1, Types DEF Serves, Stale
<1> QED
  BY <1>1, LookupAlwaysInv, PTL

-----------------------------------------------------------------------------
(* The second opinion.                                                      *)

\* If WHOIS may stand in for the second opinion, WHOIS is not the source that is wrong:
\* a name RDAP has no answer for is passed on by WHOIS alone, asked twice.
WhoisIsRight == Rescue => "whois" \notin Liars

LEMMA SurvivorIsFree ==
    ASSUME WhoisIsRight, LookupInv, SurvivorsAreFree, NEW c \in Callers, Decide(c)
    PROVE  SurvivorsAreFree'
<1>1. PICK d : d = call[c].dom
  OBVIOUS
<1>2. PICK got : got = call[c].got
  OBVIOUS
<1>3. UNCHANGED <<truth, liar>> /\ call[c].at = "told"
  BY DEF Decide, world
<1>4. d \in Domains /\ (got = Failed \/ Serves(d, got)) /\ truth[d] \in {"free", "taken"} /\ liar \in Liars \cup {None}
  BY <1>1, <1>2, <1>3 DEF LookupInv, CallsSay, CallSays, WorldTyped
<1>5. CASE UNCHANGED survivors
  BY <1>3, <1>5 DEF SurvivorsAreFree
<1>6. CASE survivors' # survivors
  <2>1. PICK first \in (Opinions("whois", d) \ {"unknown"}) \cup {"none"},
             rescue \in (Opinions("whois", d) \ {"unknown"}) \cup {"none"},
             guardUp \in BOOLEAN, by \in Reach(Second) :
           \E second \in Opinions(by, d) \cup {"error"} :
              /\ Verdict(got, first) = "free" /\ Verified(got, guardUp, second, rescue)
              /\ survivors' = survivors \cup
                    {[name |-> d, stamped |-> guardUp /\ second = "free" /\ Stamped(got, by)]}
    BY <1>1, <1>2, <1>6 DEF Decide
  <2>2. PICK second \in Opinions(by, d) \cup {"error"} :
           /\ Verdict(got, first) = "free" /\ Verified(got, guardUp, second, rescue)
           /\ survivors' = survivors \cup
                 {[name |-> d, stamped |-> guardUp /\ second = "free" /\ Stamped(got, by)]}
    BY <2>1
  <2>3. ASSUME truth[d] = "taken", ~(guardUp /\ second = "free" /\ Stamped(got, by))
        PROVE  FALSE
    <3>0. "whois" \notin {by}
      BY LookupAssumption DEF Sources, Reach
    <3>1. rescue = "free" /\ Rescue => FALSE
      BY <1>4, <2>3, LookupConstants DEF Opinions, WhoisIsRight
    <3>2. guardUp /\ second = "free" /\ ~Overlap(got)
      BY <2>2, <3>1 DEF Verified
    <3>3. by = liar /\ Second # got.origin
      BY <2>3, <3>2 DEF Opinions, Overlap
    <3>4. first # "free"
      BY <2>3, <3>0, <3>3, LookupConstants DEF Opinions
    <3>5. got # Failed
      BY <2>2, <3>4, Types DEF Verdict
    <3>6. got \in Answer /\ Says(d, got) /\ ~Stale(got)
      BY <1>4, <3>5 DEF Serves, Says
    <3>7. got.status = "free"
      BY <2>2, <3>4, <3>6 DEF Verdict, Answer, Status
    <3>8. got.source = liar
      BY <2>3, <3>6, <3>7 DEF Says, Stale
    <3> QED
      BY <2>3, <3>2, <3>3, <3>8 DEF Stamped
  <2> QED
    BY <1>3, <1>4, <2>2, <2>3 DEF SurvivorsAreFree
<1> QED
  BY <1>5, <1>6

LEMMA SurvivorsKept ==
    ASSUME WhoisIsRight, LookupInv, SurvivorsAreFree, [LookupNext]_lookupVars
    PROVE  SurvivorsAreFree'
<1>1. ASSUME NEW c \in Callers, Decide(c)
      PROVE  SurvivorsAreFree'
  BY <1>1, SurvivorIsFree
<1>2. CASE AgeOut
  BY <1>2 DEF AgeOut, SurvivorsAreFree
<1>3. UNCHANGED <<truth, survivors>> => SurvivorsAreFree'
  BY DEF SurvivorsAreFree
<1>4. ASSUME NEW c \in Callers, Step(c) \/ Cancel(c), ~Decide(c)
      PROVE  UNCHANGED <<truth, survivors>>
  BY <1>4 DEF Step, Cancel, ReadRow, Attempt, EndRace, WriteRow, Fails, Cancelled, Reply, world
<1>5. ASSUME \/ Grant \/ Refill \/ OtherAsks \/ UNCHANGED lookupVars
             \/ \E d \in Domains : Expire(d)
             \/ \E c \in Callers, d \in Domains, forced \in BOOLEAN : Call(c, d, forced)
      PROVE  UNCHANGED <<truth, survivors>>
  BY <1>5 DEF Grant, Refill, OtherAsks, Expire, Call, lookupVars, world
<1> QED
  BY <1>1, <1>2, <1>3, <1>4, <1>5 DEF LookupNext

\* With at most one source that wrongly calls names free, a name the stage passes on is
\* free (RdapConfirmationStage, the 2-of-2 consensus), wherever redirects lead, unless
\* one of them made both opinions the same server's; if WHOIS may stand in for the second
\* server, WHOIS must not be that source.
THEOREM ConsensusIsSound ==
    ASSUME WhoisIsRight
    PROVE  LookupSpec => []SurvivorsAreFree
<1>1. LookupInit => SurvivorsAreFree
  BY DEF LookupInit, SurvivorsAreFree
<1>2. LookupInv /\ SurvivorsAreFree /\ [LookupNext]_lookupVars => SurvivorsAreFree'
  BY SurvivorsKept
<1> QED
  BY <1>1, <1>2, LookupAlwaysInv, PTL DEF LookupSpec

-----------------------------------------------------------------------------
(***************************************************************************)
(* The scheduler and the watchlist.                                        *)
(***************************************************************************)
Steps == {"idle", "due", "database", "enqueue"}
Polls == [at: {"idle", "look", "update", "alert", "mark"}, seen: BOOLEAN, found: BOOLEAN, dry: BOOLEAN]

\* The part of the state that a tick is about, and the rest.
CronTyped ==
    /\ locking \in BOOLEAN /\ fire \in [Replicas -> Steps]
    /\ keys \subseteq {"redis", "database"} /\ tick \in {"open", "fired", "hurt"}
RestTyped ==
    /\ free \in BOOLEAN /\ alerted \in BOOLEAN
    /\ poll \in [Pollers -> Polls]
    /\ entry \in [kept: BOOLEAN, notified: BOOLEAN, recent: BOOLEAN]

LEMMA Parts ==
    /\ TypeOK <=> CronTyped /\ RestTyped /\ jobs \in 0 .. MaxJobs /\ faults \in 0 .. MaxFaults
    /\ TypeOK' <=> CronTyped' /\ RestTyped' /\ jobs' \in 0 .. MaxJobs /\ faults' \in 0 .. MaxFaults
BY DEF TypeOK, CronTyped, RestTyped, Steps, Polls

\* While a tick is open somebody is at it, and whoever has the row of the slot is
\* about to enqueue the job: nobody is refused by a replica that has stepped back.
Answered ==
    tick = "open" => /\ \E r \in Replicas : fire[r] # "idle"
                     /\ "database" \in keys => \E r \in Replicas : fire[r] = "enqueue"

\* The inductive invariant.
Inv == TypeOK /\ Answered

LEMMA InitInv ==
    ASSUME Init
    PROVE  Inv
<1>1. poll \in [Pollers -> Polls]
  BY DEF Init, Idle, Polls
<1>2. entry \in [kept: BOOLEAN, notified: BOOLEAN, recent: BOOLEAN]
  BY DEF Init, NoEntry
<1>3. jobs \in 0 .. MaxJobs /\ faults \in 0 .. MaxFaults
  BY WatchlistAssumption DEF Init
<1>4. TypeOK
  BY <1>1, <1>2, <1>3, Parts DEF Init, Steps, CronTyped, RestTyped
<1>5. Answered
  BY DEF Init, Answered
<1> QED
  BY <1>4, <1>5 DEF Inv

\* The changes of a row.
Rows == [kept: BOOLEAN, notified: BOOLEAN, recent: BOOLEAN]

LEMMA RowChanges ==
    /\ NoEntry \in Rows /\ [NoEntry EXCEPT !.kept = TRUE] \in Rows
    /\ \A e \in Rows : /\ [e EXCEPT !.recent = FALSE] \in Rows /\ [e EXCEPT !.notified = TRUE] \in Rows
                      /\ [e EXCEPT !.notified = FALSE, !.recent = TRUE] \in Rows
BY DEF Rows, NoEntry

\* A failure is counted within its bound.
LEMMA FaultCounts ==
    ASSUME faults \in 0 .. MaxFaults, Fault
    PROVE  faults' \in 0 .. MaxFaults
BY WatchlistAssumption DEF Fault

\* A poll that goes on stays typed.
LEMMA PollGoes ==
    ASSUME poll \in [Pollers -> Polls], NEW p \in Pollers,
           NEW step \in {"look", "update", "alert", "mark"},
           Goes(p, step) \/ Ends(p)
    PROVE  poll' \in [Pollers -> Polls]
<1>1. poll[p] \in Polls
  OBVIOUS
<1>2. [poll[p] EXCEPT !.at = step] \in Polls
  BY <1>1 DEF Polls
<1>3. Idle \in Polls
  BY DEF Idle, Polls
<1> QED
  BY <1>2, <1>3 DEF Goes, Ends

LEMMA PollReads ==
    ASSUME poll \in [Pollers -> Polls], NEW p \in Pollers, NEW dry \in BOOLEAN,
           entry \in [kept: BOOLEAN, notified: BOOLEAN, recent: BOOLEAN], Reads(p, dry)
    PROVE  poll' \in [Pollers -> Polls]
<1>1. [at |-> "look", seen |-> entry.notified, found |-> FALSE, dry |-> dry] \in Polls
  BY DEF Polls
<1> QED
  BY <1>1 DEF Reads

\* What happens to a tick keeps the types and somebody at it.
LEMMA FireKeeps ==
    ASSUME Inv, NEW r \in Replicas, Fires(r) \/ Die(r)
    PROVE  Inv'
<1>1. CronTyped /\ RestTyped /\ jobs \in 0 .. MaxJobs /\ faults \in 0 .. MaxFaults
  BY Parts DEF Inv
<1>2. RestTyped'
  BY <1>1 DEF RestTyped, Fires, Die, AskRedis, AskDatabase, Enqueue, domain
<1>3. CronTyped'
  BY <1>1 DEF CronTyped, Steps, Fires, Die, AskRedis, AskDatabase, Enqueue, At, Hurt
<1>4. faults' \in 0 .. MaxFaults
  BY <1>1, FaultCounts DEF Fires, Die, AskRedis, AskDatabase, Enqueue, Hurt
<1>5. jobs' \in 0 .. MaxJobs
  BY <1>1, WatchlistAssumption DEF Fires, Die, AskRedis, AskDatabase, Enqueue
<1>6. Answered'
  <2>1. fire \in [Replicas -> Steps] /\ Answered
    BY <1>1 DEF CronTyped, Inv
  <2>2. CASE AskRedis(r)
    BY <2>1, <2>2 DEF AskRedis, At, Answered
  <2>3. CASE AskDatabase(r)
    BY <2>1, <2>3 DEF AskDatabase, At, Hurt, Answered
  <2>4. CASE Enqueue(r)
    BY <2>4 DEF Enqueue, Hurt, Answered
  <2>5. CASE Die(r)
    BY <2>5 DEF Die, Hurt, Answered
  <2> QED
    BY <2>2, <2>3, <2>4, <2>5 DEF Fires
<1> QED
  BY <1>2, <1>3, <1>4, <1>5, <1>6, Parts DEF Inv

\* A new tick.
LEMMA TickKeeps ==
    ASSUME Inv, Tick
    PROVE  Inv'
<1>1. CronTyped /\ RestTyped /\ jobs \in 0 .. MaxJobs /\ faults \in 0 .. MaxFaults
  BY Parts DEF Inv
<1>2. CronTyped'
  BY <1>1 DEF CronTyped, Tick, Steps
<1>3. RestTyped' /\ jobs' \in 0 .. MaxJobs /\ faults' \in 0 .. MaxFaults
  BY <1>1 DEF RestTyped, Tick, domain
<1>4. Answered'
  BY WatchlistAssumption DEF Answered, Tick
<1> QED
  BY <1>2, <1>3, <1>4, Parts DEF Inv

\* Everything else leaves the tick alone.
LEMMA CronFramed ==
    ASSUME Inv, UNCHANGED cron, RestTyped', jobs' \in 0 .. MaxJobs, faults' \in 0 .. MaxFaults
    PROVE  Inv'
<1>1. CronTyped /\ Answered
  BY Parts DEF Inv
<1>2. CronTyped' /\ Answered'
  BY <1>1 DEF cron, CronTyped, Answered
<1> QED
  BY <1>2, Parts DEF Inv

\* What users and the world do.
LEMMA WorldKeeps ==
    ASSUME Inv, Add \/ Remove \/ Age \/ Drops \/ Caught
    PROVE  Inv'
<1>1. RestTyped /\ jobs \in 0 .. MaxJobs /\ faults \in 0 .. MaxFaults
  BY Parts DEF Inv
<1>2. UNCHANGED cron /\ UNCHANGED <<jobs, poll, faults>>
  BY DEF Add, Remove, Age, Drops, Caught
<1>3. entry' \in [kept: BOOLEAN, notified: BOOLEAN, recent: BOOLEAN]
  <2>1. entry \in Rows
    BY <1>1 DEF RestTyped, Rows
  <2>2. entry' \in Rows
    BY <2>1, RowChanges DEF Add, Remove, Age, Drops, Caught
  <2> QED
    BY <2>2 DEF Rows
<1>4. free' \in BOOLEAN /\ alerted' \in BOOLEAN
  BY <1>1 DEF RestTyped, domain, Add, Remove, Age, Drops, Caught
<1>5. RestTyped'
  BY <1>1, <1>2, <1>3, <1>4 DEF RestTyped
<1> QED
  BY <1>1, <1>2, <1>5, CronFramed

\* What a poll does.
LEMMA PollKeeps ==
    ASSUME Inv, NEW p \in Pollers, PollByJob(p) \/ PollByHand(p) \/ Checks(p) \/ PollDies(p)
    PROVE  Inv'
<1>1. RestTyped /\ jobs \in 0 .. MaxJobs /\ faults \in 0 .. MaxFaults
  BY Parts DEF Inv
<1>2. UNCHANGED cron
  BY DEF PollByJob, PollByHand, Checks, LookFindsFree, LookFindsNot, UpdateStatus, Alert, Mark, PollDies
<1>3. jobs' \in 0 .. MaxJobs
  <2>1. jobs' = jobs \/ (jobs > 0 /\ jobs' = jobs - 1)
    BY DEF PollByJob, PollByHand, Checks, LookFindsFree, LookFindsNot, UpdateStatus, Alert, Mark, PollDies
  <2> QED
    BY <1>1, <2>1, WatchlistAssumption
<1>4. faults' \in 0 .. MaxFaults
  BY <1>1, FaultCounts
     DEF PollByJob, PollByHand, Checks, LookFindsFree, LookFindsNot, UpdateStatus, Alert, Mark, PollDies
<1>5. free' \in BOOLEAN /\ alerted' \in BOOLEAN
  BY <1>1
     DEF RestTyped, domain, PollByJob, PollByHand, Checks, LookFindsFree, LookFindsNot, UpdateStatus, Alert, Mark, PollDies
<1>6. entry' \in [kept: BOOLEAN, notified: BOOLEAN, recent: BOOLEAN]
  <2>1. entry \in Rows
    BY <1>1 DEF RestTyped, Rows
  <2>2. entry' \in Rows
    BY <2>1, RowChanges
       DEF PollByJob, PollByHand, Checks, LookFindsFree, LookFindsNot, UpdateStatus, Alert, Mark, PollDies
  <2> QED
    BY <2>2 DEF Rows
<1>7. poll' \in [Pollers -> Polls]
  <2>1. poll \in [Pollers -> Polls] /\ poll[p] \in Polls
    BY <1>1 DEF RestTyped
  <2>2. CASE PollByJob(p) \/ PollByHand(p)
    BY <1>1, <2>2, PollReads DEF RestTyped, PollByJob, PollByHand
  <2>3. CASE LookFindsFree(p)
    <3>1. [poll[p] EXCEPT !.at = "update", !.found = TRUE] \in Polls
      BY <2>1 DEF Polls
    <3> QED
      BY <2>1, <2>3, <3>1 DEF LookFindsFree
  <2>4. CASE LookFindsNot(p) \/ UpdateStatus(p) \/ Alert(p) \/ Mark(p) \/ PollDies(p)
    <3>1. \E step \in {"look", "update", "alert", "mark"} : Goes(p, step) \/ Ends(p)
      BY <2>4 DEF LookFindsNot, UpdateStatus, AfterUpdate, Alert, Mark, PollDies
    <3> QED
      BY <2>1, <3>1, PollGoes
  <2> QED
    BY <2>2, <2>3, <2>4 DEF Checks
<1> QED
  BY <1>1, <1>2, <1>3, <1>4, <1>5, <1>6, <1>7, CronFramed DEF RestTyped

LEMMA NextInv ==
    ASSUME Inv, [Next]_vars
    PROVE  Inv'
<1>1. CASE Tick
  BY <1>1, TickKeeps
<1>2. CASE Add \/ Remove \/ Age \/ Drops \/ Caught
  BY <1>2, WorldKeeps
<1>3. CASE \E r \in Replicas : Fires(r) \/ Die(r)
  BY <1>3, FireKeeps
<1>4. CASE \E p \in Pollers : PollByJob(p) \/ PollByHand(p) \/ Checks(p) \/ PollDies(p)
  BY <1>4, PollKeeps
<1>5. CASE UNCHANGED vars
  <2>1. RestTyped /\ jobs \in 0 .. MaxJobs /\ faults \in 0 .. MaxFaults
    BY Parts DEF Inv
  <2> QED
    BY <1>5, <2>1, CronFramed DEF vars, domain, RestTyped
<1> QED
  BY <1>1, <1>2, <1>3, <1>4, <1>5 DEF Next

-----------------------------------------------------------------------------
\* Every reachable state is well typed; in particular no worker takes a poll job
\* that is not there.
THEOREM WatchlistTypeCorrect == Spec => []TypeOK
<1>1. Inv => TypeOK
  BY DEF Inv
<1> QED
  BY <1>1, InitInv, NextInv, PTL DEF Spec

\* However many replicas there are and however many answers of Redis are lost, a
\* tick on which no replica dies and no statement fails is fired.
THEOREM TicksAreFired == Spec => []TickIsFired
<1>1. Inv => TickIsFired
  BY DEF Inv, Answered, TickIsFired, Settled
<1> QED
  BY <1>1, InitInv, NextInv, PTL DEF Spec

=============================================================================
