-------------------------------- MODULE Account --------------------------------
(***************************************************************************)
(* The account of one tenant: the subscription row that the webhooks of    *)
(* Stripe keep up to date (BillingService), and the meter of tracked names *)
(* that is held against the plan of that row (UsageMeterService,           *)
(* PipelineUsageEnforcer, and the add() of the portfolio and the           *)
(* watchlist).                                                             *)
(*                                                                         *)
(* Stripe delivers an event any number of times, to any replica, in any    *)
(* order. A handler stops at each await; its claim of an event is a row of *)
(* webhook_events, with a copy in the memory of the replica.               *)
(***************************************************************************)
EXTENDS Naturals, FiniteSetsExt, SequencesExt

CONSTANTS
    Replicas,   \* API replicas, each handling one delivery at a time
    Adders,     \* requests that each add a tracked name
    Plans,      \* plans that are sold
    Known,      \* those whose price is in the configuration, not negotiated
    Limit,      \* domains_tracked of each plan, "free" among them; None: no limit
    Overrides,  \* bound: plans the operator grants by hand, each once
    None,       \* no row, no event, no plan, no limit
    Faults,     \* what may go wrong: "store", "answer", "release", "crash"
    MaxFaults,  \* bound: times it does
    MaxEvents,  \* bound: events Stripe sends
    Reported,   \* bound: statuses that updates report
    Months      \* bound: billing periods, 1 .. Months

ASSUME AccountAssumption ==
    /\ "free" \notin Plans /\ "pro" \in Plans
    /\ Known \subseteq Plans /\ Overrides \subseteq Plans \cup {"free"}
    /\ None \notin Replicas /\ None \notin Plans \cup {"free"} /\ None \notin Nat
    /\ Limit \in [Plans \cup {"free"} -> Nat \cup {None}]
    /\ Reported \subseteq {"active", "trialing", "past_due", "canceled", "incomplete"}
    /\ Faults \subseteq {"store", "answer", "release", "crash"}
    /\ {MaxFaults, MaxEvents} \subseteq Nat /\ Months \in Nat \ {0}

VARIABLES
    events,    \* events Stripe has sent, in the order they happened
    claims,    \* webhook_events
    handler,   \* the delivery each replica works on
    applied,   \* how often each event has been carried out (history)
    fate,      \* of each event: open, handled and answered 2xx, or lost (history)
    row,       \* tenant_subscriptions
    override, granted,   \* the operator's plan for the tenant, and those so far
    faults,    \* faults so far
    blind,     \* and those among them that hid the effect of a statement
    month, usage,   \* the billing period, and usage_records of each
    adder,     \* each request that adds a name
    tracked    \* names added (history)

billing  == <<events, claims, handler, applied, fate>>
operator == <<override, granted>>
metering == <<month, usage, adder, tracked, operator>>
trouble  == <<faults, blind>>
vars     == <<billing, metering, row, trouble>>

Ids       == 1 .. MaxEvents
Statuses  == {"active", "trialing", "past_due", "canceled", "incomplete"}
Current   == {"active", "trialing"}   \* ACTIVE_PLAN_STATUSES
Kinds     == {"checkout", "bare checkout", "updated", "failed", "deleted"}
Event     == [kind: Kinds, status: Statuses, plan: Plans]
Row       == [plan: Plans \cup {"free"}, status: Statuses, customer: BOOLEAN]
FreeRow   == [plan |-> "free", status |-> "active", customer |-> FALSE]
Resting   == [at |-> "idle", id |-> None, plan |-> None]
Waiting   == [at |-> "idle", period |-> 1, limit |-> 0]
Over      == [Waiting EXCEPT !.at = "over"]
Periods   == 1 .. Months

ASSUME NoRowAssumption == None \notin Row

TypeOK ==
    /\ events \in Seq(Event) /\ Len(events) <= MaxEvents
    /\ claims \subseteq Ids
    /\ handler \in [Replicas -> [at: {"idle", "claiming", "claimed", "writing", "releasing"},
                                 id: Ids \cup {None}, plan: Plans \cup {None}]]
    /\ applied \in [Ids -> Nat] /\ fate \in [Ids -> {"open", "handled", "lost"}] /\ row \in Row \cup {None}
    /\ blind \in 0 .. faults
    /\ faults \in 0 .. MaxFaults /\ month \in Periods /\ usage \in [Periods -> Nat]
    /\ adder \in [Adders -> [at: {"idle", "reading", "metering", "inserting", "refunding", "over"},
                             period: Periods, limit: Nat \cup {None}]]
    /\ tracked \in Nat
    /\ override \in granted \cup {None} /\ granted \subseteq Overrides

Init ==
    /\ events = <<>> /\ claims = {}
    /\ handler = [r \in Replicas |-> Resting]
    /\ applied = [i \in Ids |-> 0] /\ fate = [i \in Ids |-> "open"] /\ row = None
    /\ faults = 0 /\ blind = 0
    /\ month = 1 /\ usage = [p \in Periods |-> 0] /\ adder = [a \in Adders |-> Waiting]
    /\ tracked = 0 /\ override = None /\ granted = {}

\* one of the faults of this instance happens
Fault(kind) ==
    /\ kind \in Faults /\ faults < MaxFaults /\ faults' = faults + 1
    /\ blind' = IF kind = "answer" THEN blind + 1 ELSE blind

(***************************************************************************)
(* Stripe. A checkout is what ties the customer to the tenant, and a bare  *)
(* one comes of a session without the plan in its metadata, which this     *)
(* code did not make. The events of the subscription only name the         *)
(* customer: nothing here writes metadata of a subscription.               *)
(***************************************************************************)
stripe == IF events = <<>> THEN [status |-> "canceled", plan |-> None]
          ELSE [status |-> Last(events).status, plan |-> Last(events).plan]
paidFor == {e.plan : e \in {f \in Range(events) : f.status \in Current}}

Sends(kind, status, plan) ==
    /\ Len(events) < MaxEvents
    /\ events' = Append(events, [kind |-> kind, status |-> status, plan |-> plan])
    /\ UNCHANGED <<claims, handler, applied, fate, metering, row, trouble>>

StripeActs ==
    \/ /\ stripe.status = "canceled"
       /\ \E p \in Plans : \/ Sends("checkout", "active", p)
                           \/ p # "pro" /\ Sends("bare checkout", "active", p)
    \/ stripe.status # "canceled" /\
         \/ \E p \in Plans, s \in Reported :
               <<p, s>> # <<stripe.plan, stripe.status>> /\ Sends("updated", s, p)
         \/ Sends("deleted", "canceled", stripe.plan)
    \/ stripe.status \in Current /\ Sends("failed", "past_due", stripe.plan)

(***************************************************************************)
(* BillingService.handleWebhookEvent                                       *)
(***************************************************************************)
Works(r, at) == handler[r].at = at
Rests(r) == handler' = [handler EXCEPT ![r] = Resting]

Held(id) == \E r \in Replicas : handler[r].id = id /\ handler[r].at # "claiming"
Lost(id) == fate' = [fate EXCEPT ![id] = IF @ = "open" THEN "lost" ELSE @]
Settled(id) == fate' = [fate EXCEPT ![id] = "handled"]

\* Stripe does not send again what was answered 2xx, even if the handler that
\* holds the claim fails later
Duplicate(id) == IF Held(id) THEN Lost(id) ELSE UNCHANGED fate

\* a delivery (the copy of the claims in the memory of a replica answers no other
\* way than the row does: only the replica with the claim has one)
Deliver(r, id) ==
    /\ Works(r, "idle") /\ id \in 1 .. Len(events)
    /\ handler' = [handler EXCEPT ![r] = [at |-> "claiming", id |-> id, plan |-> None]]
    /\ UNCHANGED <<events, claims, applied, fate, metering, row, trouble>>

\* a claim that does not look at what the insert did
ClaimBlind(r) ==
    LET id == handler[r].id
    IN  /\ Works(r, "claiming")
        /\ claims' = claims \cup {id}
        /\ handler' = [handler EXCEPT ![r].at = "claimed"]
        /\ UNCHANGED <<events, applied, fate, metering, row, trouble>>

\* #claimEvent: the insert tells who is first; a store that fails fails the request,
\* and nothing gives back the claim if the insert took effect all the same
Claim(r) ==
    LET id == handler[r].id
    IN  /\ Works(r, "claiming")
        /\ \/ /\ id \notin claims
              /\ claims' = claims \cup {id}
              /\ handler' = [handler EXCEPT ![r].at = "claimed"]
              /\ UNCHANGED <<fate, trouble>>
           \/ id \in claims /\ Duplicate(id) /\ Rests(r) /\ UNCHANGED <<claims, trouble>>
           \/ Fault("store") /\ Rests(r) /\ UNCHANGED <<claims, fate>>
           \/ /\ Fault("answer") /\ id \notin claims
              /\ claims' = claims \cup {id} /\ Lost(id) /\ Rests(r)
        /\ UNCHANGED <<events, applied, metering, row>>

\* #processEvent up to its write: a checkout has the plan of its price, or if that
\* cannot be had the plan of its session, which is pro if the session has none. A
\* price that nobody knows, or a negotiated one that was not paid in full or is
\* another tenant's, grants nothing. The other events look for the row of the
\* customer, and the update of a negotiated price leaves its plan alone: it is
\* looked up with a tenant only
Resolved(r, outcome, plan) ==
    handler' = [handler EXCEPT ![r].at = outcome, ![r].plan = plan]

Dropped(r) == Rests(r) /\ Settled(handler[r].id)

PlansOfCheckout(event) == {event.plan} \cup (IF event.kind = "checkout" THEN {} ELSE {"pro"})
PlanOfUpdate(event) == IF event.kind = "updated" /\ event.plan \in Known THEN event.plan ELSE None

Resolve(r) ==
    LET id    == handler[r].id
        event == events[id]
    IN  /\ Works(r, "claimed")
        /\ \/ /\ event.kind \in {"checkout", "bare checkout"}
              /\ \/ Dropped(r)
                 \/ UNCHANGED fate /\ \E p \in PlansOfCheckout(event) : Resolved(r, "writing", p)
              /\ UNCHANGED trouble
           \/ /\ event.kind \notin {"checkout", "bare checkout"}
              /\ IF row # None /\ row.customer
                 THEN UNCHANGED fate /\ Resolved(r, "writing", PlanOfUpdate(event))
                 ELSE Dropped(r)
              /\ UNCHANGED trouble
           \/ Resolved(r, "releasing", None) /\ UNCHANGED <<fate, trouble>>
        /\ UNCHANGED <<events, claims, applied, metering, row>>

\* an update with a plan that takes no notice of its status
UpdatedBlindly(event, plan) ==
    [plan     |-> IF plan = None THEN row.plan ELSE plan,
     status   |-> IF plan = None THEN event.status ELSE "active",
     customer |-> TRUE]

\* what the row becomes, where an update without a plan keeps the one it has
Updated(event, plan) ==
    [plan     |-> IF plan = None THEN row.plan ELSE plan,
     status   |-> event.status,
     customer |-> TRUE]

\* effectivePlanFor without a grant of the operator: a row not in force is free
LimitOf(r) == Limit[IF r.status \in Current THEN r.plan ELSE "free"]

Write(r) ==
    LET id   == handler[r].id
        next == Updated(events[id], handler[r].plan)
        done == row' = next /\ applied' = [applied EXCEPT ![id] = @ + 1]
    IN  /\ Works(r, "writing")
        /\ \/ done /\ Rests(r) /\ Settled(id) /\ UNCHANGED trouble
           \/ /\ Resolved(r, "releasing", None)
              /\ UNCHANGED <<row, applied, fate, trouble>>
           \/ Fault("answer") /\ done /\ Resolved(r, "releasing", None) /\ UNCHANGED fate
        /\ UNCHANGED <<events, claims, metering>>

\* a release of the copy in memory only
ReleaseMemory(r) ==
    /\ Works(r, "releasing")
    /\ Rests(r)
    /\ UNCHANGED <<events, claims, applied, fate, metering, row, trouble>>

\* #releaseEvent: a failed handler gives its claim back, so that a redelivery is
\* handled; if the store fails the claim stays
Release(r) ==
    LET id == handler[r].id
    IN  /\ Works(r, "releasing")
        /\ \/ claims' = claims \ {id} /\ UNCHANGED <<fate, trouble>>
           \/ Fault("release") /\ UNCHANGED claims /\ Lost(id)
        /\ Rests(r)
        /\ UNCHANGED <<events, applied, metering, row>>

\* a replica restarts, with nothing in memory
Crash(r) ==
    /\ Fault("crash") /\ ~Works(r, "idle")
    /\ IF handler[r].at \in {"claimed", "writing", "releasing"} THEN Lost(handler[r].id) ELSE UNCHANGED fate
    /\ Rests(r)
    /\ UNCHANGED <<events, claims, applied, metering, row>>

(***************************************************************************)
(* PortfolioManager.add and WatchlistService.add: meter, insert, and       *)
(* refund if the insert has failed                                         *)
(***************************************************************************)
\* record: the period, and the plan of the row; a tenant without a row gets one
ReadRow(a) ==
    LET found == IF row = None THEN FreeRow ELSE row
    IN  /\ adder[a].at = "idle"
        /\ row' = found
        /\ adder' = [adder EXCEPT ![a] = [at |-> "reading", period |-> month, limit |-> LimitOf(found)]]
        /\ UNCHANGED <<billing, month, usage, tracked, operator, trouble>>

\* then the operator's plan, which comes first, and the limit
ReadOverride(a) ==
    /\ adder[a].at = "reading"
    /\ adder' = [adder EXCEPT ![a].at = "metering",
                              ![a].limit = IF override = None THEN @ ELSE Limit[override]]
    /\ UNCHANGED <<billing, month, usage, tracked, operator, row, trouble>>

\* an increment without its guard
IncrementUnguarded(a) ==
    /\ adder[a].at = "metering"
    /\ usage' = [usage EXCEPT ![adder[a].period] = @ + 1]
    /\ adder' = [adder EXCEPT ![a].at = "inserting"]
    /\ UNCHANGED <<billing, month, tracked, operator, row, trouble>>

\* incrementUsageIfWithinLimit: one guarded statement, without a guard if the plan
\* has no limit
Increment(a) ==
    LET p      == adder[a].period
        within == adder[a].limit = None \/ usage[p] + 1 <= adder[a].limit
    IN  /\ adder[a].at = "metering"
        /\ usage' = IF within THEN [usage EXCEPT ![p] = @ + 1] ELSE usage
        /\ adder' = [adder EXCEPT ![a] = IF within THEN [Waiting EXCEPT !.at = "inserting"] ELSE Over]
        /\ UNCHANGED <<billing, month, tracked, operator, row, trouble>>

\* the insert, which a duplicate name fails; with "answer" it may have been done
\* when it fails
Insert(a) ==
    LET refunds == adder' = [adder EXCEPT ![a].at = "refunding"]
    IN  /\ adder[a].at = "inserting"
        /\ \/ tracked' = tracked + 1 /\ adder' = [adder EXCEPT ![a] = Over] /\ UNCHANGED trouble
           \/ refunds /\ UNCHANGED <<tracked, trouble>>
           \/ Fault("answer") /\ tracked' = tracked + 1 /\ refunds
        /\ UNCHANGED <<billing, month, usage, operator, row>>

\* a refund that is sent again when its answer is late
RefundTwice(a) ==
    /\ adder[a].at = "refunding"
    /\ usage' = [usage EXCEPT ![month] = IF @ < 2 THEN 0 ELSE @ - 2]
    /\ adder' = [adder EXCEPT ![a] = Over]
    /\ UNCHANGED <<billing, month, tracked, operator, row, trouble>>

\* refundTracked: of the period of the refund, not below zero; its failure is
\* swallowed
Refund(a) ==
    /\ adder[a].at = "refunding"
    /\ \/ usage' = [usage EXCEPT ![month] = IF @ = 0 THEN 0 ELSE @ - 1] /\ UNCHANGED trouble
       \/ Fault("store") /\ UNCHANGED usage
    /\ adder' = [adder EXCEPT ![a] = Over]
    /\ UNCHANGED <<billing, month, tracked, operator, row>>

NextMonth ==
    /\ month < Months /\ month' = month + 1
    /\ UNCHANGED <<billing, usage, adder, tracked, operator, row, trouble>>

\* the operator grants a plan, or takes it back
OperatorActs ==
    /\ \/ \E p \in Overrides \ granted : override' = p /\ granted' = granted \cup {p}
       \/ override # None /\ override' = None /\ UNCHANGED granted
    /\ UNCHANGED <<billing, month, usage, adder, tracked, row, trouble>>

Handle(r) == Claim(r) \/ Resolve(r) \/ Write(r) \/ Release(r)
Add(a)    == ReadRow(a) \/ ReadOverride(a) \/ Increment(a) \/ Insert(a) \/ Refund(a)

Next ==
    \/ StripeActs \/ NextMonth \/ OperatorActs
    \/ \E r \in Replicas : Handle(r) \/ Crash(r) \/ \E id \in Ids : Deliver(r, id)
    \/ \E a \in Adders : Add(a)

Spec == Init /\ [][Next]_vars

(***************************************************************************)
(* Properties                                                              *)
(***************************************************************************)
\* An event is carried out at most once however often it is delivered, to
\* whichever replicas, and once more only for a statement that took effect though
\* it failed: what the claims are for (#claimEvent, "Dedup gate for webhook
\* events").
AppliedOnce == \A id \in Ids : applied[id] <= 1 + blind

\* Plans that the handlers may put in force unpaid: pro, if a checkout had neither
\* price nor plan; and a plan of another event, as one announced with a payment
\* that failed, if an update with a negotiated price then confirms what the row has.
unpaid ==
    {p \in Plans : \/ p = "pro" /\ \E e \in Range(events) : e.kind = "bare checkout"
                   \/ /\ \E e \in Range(events) : e.plan = p
                      /\ \E e \in Range(events) : /\ e.kind = "updated" /\ e.status \in Current
                                                  /\ e.plan \notin Known}

\* A row in force never has a plan that Stripe has not had in force for the tenant,
\* in whichever order the events come, and though an update writes its plan
\* whatever its status ("a tenant whose billing lapses must not keep paid
\* capacity"). The exceptions are those of unpaid.
GrantWasPaid ==
    row # None /\ row.status \in Current => row.plan \in paidFor \cup unpaid \cup {"free"}

\* Concurrent additions never lift the usage of a period above the highest limit
\* among the plans the tenant had by payment, by a grant of the operator or by an
\* exception of unpaid, although row, override and usage are read and written in
\* separate statements and change in between (incrementUsageIfWithinLimit).
WithinALimit ==
    \A p \in Periods : \E plan \in paidFor \cup unpaid \cup granted \cup {"free"} :
        Limit[plan] = None \/ usage[p] <= Limit[plan]

\* Over all periods the meter never counts fewer names than were added: refunds
\* only give back what was taken (refund: "units they actually consumed"), unless
\* the insert took effect though it failed.
MeterCoversTracked == MapThenSumSet(LAMBDA p : usage[p], Periods) + blind >= tracked

\* The claim of an event is held by a handler at work, or its event is closed: no
\* failure leaves a claim that turns every redelivery away ("otherwise Stripe's
\* retry is dropped as a duplicate and the subscription change is lost for good").
\* Lost are only the events whose claim was taken by an insert that failed, whose
\* handler dies with the claim or cannot release it, or whose duplicate is answered
\* while the handler is at work.
NoOrphanClaim == \A id \in claims : fate[id] # "open" \/ Held(id)
=============================================================================
