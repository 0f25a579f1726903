---------------------------- MODULE AccountProofs ------------------------------
(***************************************************************************)
(* What holds of the account of a tenant for any number of replicas,       *)
(* events, additions and faults.                                           *)
(***************************************************************************)
EXTENDS Account, FiniteSets, FiniteSetTheorems, WellFoundedInduction, TLAPS

Stages      == {"idle", "claiming", "claimed", "writing", "releasing"}
HandlerType == [at: Stages, id: Ids \cup {None}, plan: Plans \cup {None}]
Fates       == {"open", "handled", "lost"}
AdderType   == [at: {"idle", "reading", "metering", "inserting", "refunding", "over"},
                period: Periods, limit: Nat \cup {None}]
Checkouts   == {"checkout", "bare checkout"}
Limited     == {"reading", "metering"}   \* an addition that has read a limit
Holding     == {"claimed", "writing", "releasing"}

\* The types, in parts that the actions touch together.
BillingTyped ==
    /\ events \in Seq(Event) /\ Len(events) <= MaxEvents
    /\ claims \subseteq Ids
    /\ handler \in [Replicas -> HandlerType]
    /\ applied \in [Ids -> Nat] /\ fate \in [Ids -> Fates]
RowTyped     == row \in Row \cup {None}
TroubleTyped == faults \in 0 .. MaxFaults /\ blind \in 0 .. faults
MeterTyped ==
    /\ month \in Periods /\ usage \in [Periods -> Nat]
    /\ adder \in [Adders -> AdderType] /\ tracked \in Nat
    /\ override \in granted \cup {None} /\ granted \subseteq Overrides

LEMMA Parts ==
    /\ TypeOK <=> BillingTyped /\ RowTyped /\ TroubleTyped /\ MeterTyped
    /\ TypeOK' <=> BillingTyped' /\ RowTyped' /\ TroubleTyped' /\ MeterTyped'
BY DEF TypeOK, BillingTyped, RowTyped, TroubleTyped, MeterTyped, HandlerType, AdderType, Fates, Stages

\* The plan a handler may take from an event.
Fits(event, plan) ==
    IF event.kind \in Checkouts THEN plan \in PlansOfCheckout(event) ELSE plan = PlanOfUpdate(event)

\* A handler works on an event that was sent, under a claim once it has one, with a
\* plan of that event; it leaves the plan to the row only if there is one.
Working ==
    \A r \in Replicas :
        /\ IF handler[r].at = "idle" THEN handler[r].id = None ELSE handler[r].id \in 1 .. Len(events)
        /\ handler[r].at \in Holding => handler[r].id \in claims
        /\ handler[r].at = "writing" => /\ Fits(events[handler[r].id], handler[r].plan)
                                        /\ handler[r].plan = None => row # None

\* A claim has one holder at most.
OneHolder ==
    \A r, s \in Replicas :
        handler[r].at \in Holding /\ handler[s].at \in Holding /\ handler[r].id = handler[s].id => r = s

\* An event that may still be carried out has only been so by mistake.
Counted ==
    \A id \in Ids :
        /\ applied[id] <= 1 + blind
        /\ id \notin claims \/ (\E r \in Replicas : handler[r].id = id /\ handler[r].at \in Holding)
              => applied[id] <= blind

\* A checkout is of a subscription in force; an event that only names the customer
\* is of one that is not, unless it is an update.
Granting ==
    \A i \in 1 .. Len(events) :
        IF events[i].kind \in Checkouts THEN events[i].status = "active"
        ELSE events[i].kind = "updated" \/ events[i].status \notin Current

\* The plan of the row is one that an event names, whatever its status.
Named ==
    row # None => \/ row.plan = "free"
                  \/ \E i \in 1 .. Len(events) : events[i].plan = row.plan
                  \/ row.plan = "pro" /\ \E i \in 1 .. Len(events) : events[i].kind = "bare checkout"

\* Plans that may be in force for the tenant, and those that may set a limit.
InForce == paidFor \cup unpaid \cup {"free"}
Had     == paidFor \cup unpaid \cup granted \cup {"free"}

\* A limit that was read is that of a plan the tenant has had at some time.
Capped ==
    /\ \A a \in Adders : adder[a].at \in Limited => \E plan \in Had : adder[a].limit = Limit[plan]
    /\ WithinALimit

\* The inductive invariant.
Inv ==
    /\ TypeOK /\ Working /\ OneHolder /\ Counted /\ Granting /\ Named
    /\ GrantWasPaid /\ NoOrphanClaim /\ Capped

\* What is claimed and by whom, in the words of the model.
LEMMA HeldIs ==
    ASSUME BillingTyped, Working, NEW id \in Ids
    PROVE  Held(id) <=> \E r \in Replicas : handler[r].id = id /\ handler[r].at \in Holding
<1>1. None \notin Ids
  BY AccountAssumption DEF Ids
<1>2. \A r \in Replicas : handler[r].at \in Stages
  BY DEF BillingTyped, HandlerType
<1>3. \A r \in Replicas : handler[r].at = "idle" => handler[r].id = None
  BY DEF Working
<1> QED
  BY <1>1, <1>2, <1>3 DEF Held, Stages, Holding

LEMMA HeldIsThen ==
    ASSUME BillingTyped', Working', NEW id \in Ids
    PROVE  Held(id)' <=> \E r \in Replicas : handler'[r].id = id /\ handler'[r].at \in Holding
<1>1. None \notin Ids
  BY AccountAssumption DEF Ids
<1>2. \A r \in Replicas : handler'[r].at \in Stages
  BY DEF BillingTyped, HandlerType
<1>3. \A r \in Replicas : handler'[r].at = "idle" => handler'[r].id = None
  BY DEF Working
<1> QED
  BY <1>1, <1>2, <1>3 DEF Held, Stages, Holding

\* Faults are counted within their bound, and a blind one among them.
LEMMA FaultCounts ==
    ASSUME TroubleTyped, NEW kind, Fault(kind)
    PROVE  TroubleTyped' /\ blind' = IF kind = "answer" THEN blind + 1 ELSE blind
<1>1. MaxFaults \in Nat
  BY AccountAssumption
<1>2. faults \in Nat /\ blind \in Nat /\ blind <= faults /\ faults <= MaxFaults
  BY <1>1 DEF TroubleTyped
<1> QED
  BY <1>1, <1>2 DEF Fault, TroubleTyped

LEMMA Quiet ==
    ASSUME TroubleTyped, UNCHANGED trouble
    PROVE  TroubleTyped' /\ blind' = blind
BY DEF TroubleTyped, trouble

\* What the events say of the plans.
LEMMA PaidIs ==
    ASSUME BillingTyped
    PROVE  /\ Range(events) \subseteq Event
           /\ paidFor \subseteq Plans /\ unpaid \subseteq Plans
           /\ \A i \in 1 .. Len(events) : events[i] \in Range(events) /\ events[i] \in Event
           /\ \A i \in 1 .. Len(events) : events[i].status \in Current => events[i].plan \in paidFor
<1>1. events \in Seq(Event)
  BY DEF BillingTyped
<1>2. \A i \in 1 .. Len(events) : events[i] \in Event /\ events[i] \in Range(events)
  BY <1>1 DEF Range
<1>3. \A e \in Range(events) : e \in Event
  BY <1>1 DEF Range
<1>4. \A e \in Event : e.plan \in Plans
  BY DEF Event
<1> QED
  BY <1>2, <1>3, <1>4 DEF paidFor, unpaid

\* As long as no event is sent, nothing is said anew.
LEMMA Unsaid ==
    ASSUME UNCHANGED events
    PROVE  paidFor' = paidFor /\ unpaid' = unpaid /\ InForce' = InForce
<1>1. paidFor' = paidFor
  BY DEF paidFor
<1>2. unpaid' = unpaid
  BY DEF unpaid
<1> QED
  BY <1>1, <1>2 DEF InForce

LEMMA PaidIsInForce == GrantWasPaid <=> (row # None /\ row.status \in Current => row.plan \in InForce)
BY DEF GrantWasPaid, InForce

LEMMA InitInv ==
    ASSUME Init
    PROVE  Inv
<1>1. MaxEvents \in Nat /\ MaxFaults \in Nat /\ Months \in Nat \ {0}
  BY AccountAssumption
<1>2. Resting \in HandlerType
  BY DEF Resting, HandlerType, Stages
<1>3. BillingTyped
  BY <1>1, <1>2 DEF Init, BillingTyped, Fates
<1>4. 1 \in Periods
  BY <1>1 DEF Periods
<1>5. Waiting \in AdderType
  BY <1>4 DEF Waiting, AdderType
<1>6. RowTyped /\ TroubleTyped /\ MeterTyped
  BY <1>1, <1>4, <1>5 DEF Init, RowTyped, TroubleTyped, MeterTyped
<1>7. Working /\ OneHolder
  BY DEF Init, Working, OneHolder, Resting, Holding
<1>8. Counted /\ NoOrphanClaim
  BY DEF Init, Counted, NoOrphanClaim
<1>9. Granting /\ Named
  BY DEF Init, Granting, Named
<1>10. GrantWasPaid
  BY DEF Init, GrantWasPaid
<1>11. Capped
  <2>1. \A p \in Periods : usage[p] = 0
    BY DEF Init
  <2>2. Limit["free"] \in Nat \cup {None}
    BY AccountAssumption
  <2>3. WithinALimit
    BY <2>1, <2>2 DEF WithinALimit
  <2>4. \A a \in Adders : adder[a].at = "idle"
    BY DEF Init, Waiting
  <2> QED
    BY <2>3, <2>4 DEF Capped, Limited
<1> QED
  BY <1>3, <1>6, <1>7, <1>8, <1>9, <1>10, <1>11, Parts DEF Inv

-----------------------------------------------------------------------------
(* The steps of a handler.                                                  *)

\* A step that sends no event and meters nothing.
LEMMA BillingKeeps ==
    ASSUME Inv, UNCHANGED <<events, metering>>,
           BillingTyped', RowTyped', TroubleTyped', Working', OneHolder', Counted', NoOrphanClaim', GrantWasPaid', Named'
    PROVE  Inv'
<1>1. Had' = Had
  BY Unsaid DEF Had, metering, operator
<1>2. MeterTyped'
  BY Parts DEF Inv, MeterTyped, metering, operator
<1>3. Granting'
  BY DEF Inv, Granting
<1>4. Capped'
  BY <1>1 DEF Inv, Capped, WithinALimit, metering, Had
<1> QED
  BY <1>2, <1>3, <1>4, Parts DEF Inv

\* What is left of the invariant for a handler that moves: that it works as it should,
\* and that it has its claim alone.
LEMMA HandlerMoves ==
    ASSUME Inv, NEW r \in Replicas, NEW h \in HandlerType, handler' = [handler EXCEPT ![r] = h],
           UNCHANGED events, claims \subseteq claims' \cup {handler[r].id}, row # None => row' # None,
           IF h.at = "idle" THEN h.id = None ELSE h.id \in 1 .. Len(events),
           h.at \in Holding => h.id \in claims',
           h.at \in Holding => (handler[r].at \in Holding /\ h.id = handler[r].id) \/ h.id \notin claims,
           handler[r].at \in Holding \/ claims \subseteq claims',
           h.at = "writing" => Fits(events[h.id], h.plan) /\ (h.plan = None => row' # None)
    PROVE  Working' /\ OneHolder'
<1>1. events' = events
  OBVIOUS
<1>2. handler \in [Replicas -> HandlerType] /\ Working /\ OneHolder
  BY Parts DEF Inv, BillingTyped
<1>3. handler'[r] = h /\ \A s \in Replicas : s # r => handler'[s] = handler[s]
  BY <1>2
<1>4. \A s \in Replicas : s # r /\ handler[s].at \in Holding => handler[s].id \in claims'
  BY <1>2 DEF Working, OneHolder
<1>5. Working'
  <2> SUFFICES ASSUME NEW s \in Replicas
               PROVE  /\ IF handler'[s].at = "idle" THEN handler'[s].id = None
                                                     ELSE handler'[s].id \in 1 .. Len(events')
                      /\ handler'[s].at \in Holding => handler'[s].id \in claims'
                      /\ handler'[s].at = "writing" => /\ Fits(events'[handler'[s].id], handler'[s].plan)
                                                       /\ handler'[s].plan = None => row' # None
    BY DEF Working
  <2>1. CASE s = r
    BY <1>1, <1>3, <2>1
  <2>2. CASE s # r
    BY <1>1, <1>2, <1>3, <1>4, <2>2 DEF Working
  <2> QED
    BY <2>1, <2>2
<1>6. OneHolder'
  <2> SUFFICES ASSUME NEW s \in Replicas, NEW t \in Replicas, s # t,
                      handler'[s].at \in Holding, handler'[t].at \in Holding, handler'[s].id = handler'[t].id
               PROVE  FALSE
    BY DEF OneHolder
  <2>1. CASE s = r
    BY <1>2, <1>3, <2>1 DEF OneHolder, Working
  <2>2. CASE t = r
    BY <1>2, <1>3, <2>2 DEF OneHolder, Working
  <2>3. CASE s # r /\ t # r
    BY <1>2, <1>3, <2>3 DEF OneHolder
  <2> QED
    BY <2>1, <2>2, <2>3
<1> QED
  BY <1>5, <1>6

LEMMA DeliverKeeps ==
    ASSUME Inv, NEW r \in Replicas, NEW id \in Ids, Deliver(r, id)
    PROVE  Inv'
<1> DEFINE h == [at |-> "claiming", id |-> id, plan |-> None]
<1>1. BillingTyped /\ RowTyped /\ TroubleTyped /\ Working /\ handler[r].at = "idle" /\ id \in 1 .. Len(events)
  BY Parts DEF Inv, Deliver, Works
<1>2. h \in HandlerType
  BY DEF HandlerType, Stages
<1>3. handler' = [handler EXCEPT ![r] = h] /\ UNCHANGED <<events, claims, applied, fate, metering, row, trouble>>
  BY DEF Deliver
<1> HIDE DEF h
<1>4. h.at = "claiming" /\ h.id = id /\ h.plan = None
  BY DEF h
<1>5. BillingTyped' /\ RowTyped' /\ TroubleTyped' /\ blind' = blind
  BY <1>1, <1>2, <1>3, Quiet DEF BillingTyped, RowTyped
<1>6. Working' /\ OneHolder'
  BY <1>1, <1>2, <1>3, <1>4, HandlerMoves DEF Holding
<1>7. handler'[r] = h /\ \A s \in Replicas : s # r => handler'[s] = handler[s]
  BY <1>1, <1>3 DEF BillingTyped
<1>8. \A i \in Ids : (\E s \in Replicas : handler'[s].id = i /\ handler'[s].at \in Holding)
                        <=> \E s \in Replicas : handler[s].id = i /\ handler[s].at \in Holding
  BY <1>1, <1>4, <1>7 DEF Holding
<1>9. Counted'
  BY <1>3, <1>5, <1>8 DEF Inv, Counted
<1>10. NoOrphanClaim'
  <2>1. \A i \in Ids : Held(i) => Held(i)'
    BY <1>1, <1>5, <1>6, <1>8, HeldIs DEF Held, Holding, BillingTyped, HandlerType, Stages
  <2> QED
    BY <1>1, <1>3, <2>1 DEF Inv, NoOrphanClaim, BillingTyped
<1>11. GrantWasPaid' /\ Named'
  BY <1>3, Unsaid DEF Inv, GrantWasPaid, Named
<1> QED
  BY <1>3, <1>5, <1>6, <1>9, <1>10, <1>11, BillingKeeps

\* No claim is orphaned if the handler that leaves one gives it back or closes the event.
LEMMA NoneOrphaned ==
    ASSUME Inv, NEW r \in Replicas, NEW h \in HandlerType, handler' = [handler EXCEPT ![r] = h],
           BillingTyped', Working',
           \A i \in claims' \ claims : (h.at \in Holding /\ h.id = i) \/ fate'[i] # "open",
           \A i \in Ids : fate[i] # "open" => fate'[i] # "open",
           handler[r].at \in Holding /\ handler[r].id \in claims'
              => fate'[handler[r].id] # "open" \/ (h.at \in Holding /\ h.id = handler[r].id)
    PROVE  NoOrphanClaim'
<1>1. BillingTyped /\ Working
  BY Parts DEF Inv
<1>2. handler'[r] = h /\ \A s \in Replicas : s # r => handler'[s] = handler[s]
  BY <1>1 DEF BillingTyped
<1> SUFFICES ASSUME NEW i \in Ids, i \in claims', fate'[i] = "open"
             PROVE  Held(i)'
  BY DEF NoOrphanClaim, BillingTyped
<1>3. CASE h.at \in Holding /\ h.id = i
  BY <1>2, <1>3, HeldIsThen
<1>4. CASE ~(h.at \in Holding /\ h.id = i)
  <2>1. i \in claims /\ fate[i] = "open"
    BY <1>4, <1>1
  <2>2. PICK s \in Replicas : handler[s].id = i /\ handler[s].at \in Holding
    BY <1>1, <2>1, HeldIs DEF Inv, NoOrphanClaim
  <2>3. s # r
    BY <1>4, <2>2
  <2> QED
    BY <1>2, <2>2, <2>3, HeldIsThen
<1> QED
  BY <1>3, <1>4

\* The count is kept if it is kept for the event of the handler that moves.
LEMMA CountKept ==
    ASSUME Inv, NEW r \in Replicas, NEW h \in HandlerType, handler' = [handler EXCEPT ![r] = h],
           handler[r].id \in Ids, h.id \in {handler[r].id, None},
           blind' \in Nat, blind' >= blind, applied' \in [Ids -> Nat],
           \A i \in Ids : i # handler[r].id => applied'[i] = applied[i] /\ (i \in claims => i \in claims'),
           applied'[handler[r].id] <= 1 + blind',
           ( \/ handler[r].id \notin claims'
             \/ h.at \in Holding
             \/ \E s \in Replicas : s # r /\ handler[s].id = handler[r].id /\ handler[s].at \in Holding )
              => applied'[handler[r].id] <= blind'
    PROVE  Counted'
<1>1. BillingTyped /\ TroubleTyped /\ Counted
  BY Parts DEF Inv
<1>2. handler'[r] = h /\ \A s \in Replicas : s # r => handler'[s] = handler[s]
  BY <1>1 DEF BillingTyped
<1>3. blind \in Nat /\ applied \in [Ids -> Nat] /\ None \notin Ids
  BY <1>1, AccountAssumption DEF TroubleTyped, BillingTyped, Ids
<1> SUFFICES ASSUME NEW i \in Ids
             PROVE  /\ applied'[i] <= 1 + blind'
                    /\ i \notin claims' \/ (\E s \in Replicas : handler'[s].id = i /\ handler'[s].at \in Holding)
                          => applied'[i] <= blind'
  BY DEF Counted
<1>4. CASE i = handler[r].id
  <2>1. ASSUME NEW s \in Replicas, handler'[s].id = i, handler'[s].at \in Holding
        PROVE  applied'[i] <= blind'
    <3>1. CASE s = r
      BY <1>2, <1>4, <2>1, <3>1
    <3>2. CASE s # r
      BY <1>2, <1>4, <2>1, <3>2
    <3> QED
      BY <3>1, <3>2
  <2> QED
    BY <1>4, <2>1
<1>5. CASE i # handler[r].id
  <2>1. applied'[i] = applied[i] /\ applied[i] <= 1 + blind
    BY <1>1, <1>5 DEF Counted
  <2>2. (\E s \in Replicas : handler'[s].id = i /\ handler'[s].at \in Holding)
           => \E s \in Replicas : handler[s].id = i /\ handler[s].at \in Holding
    BY <1>2, <1>3, <1>5
  <2>3. i \notin claims' => i \notin claims
    BY <1>5
  <2>4. i \notin claims' \/ (\E s \in Replicas : handler'[s].id = i /\ handler'[s].at \in Holding)
           => applied[i] <= blind
    BY <1>1, <2>2, <2>3 DEF Counted
  <2>5. applied[i] \in Nat
    BY <1>3
  <2> QED
    BY <1>3, <2>1, <2>4, <2>5
<1> QED
  BY <1>4, <1>5

\* A handler that moves keeps the invariant if it treats its own event as it should.
LEMMA HandlerKeeps ==
    ASSUME Inv, NEW r \in Replicas, NEW h \in HandlerType, handler' = [handler EXCEPT ![r] = h],
           UNCHANGED <<events, metering>>,
           handler[r].at # "idle",
           IF h.at = "idle" THEN h.id = None ELSE h.id = handler[r].id,
           h.at \in Holding => h.id \in claims' /\ (handler[r].at \in Holding \/ h.id \notin claims),
           h.at = "writing" => Fits(events[h.id], h.plan) /\ (h.plan = None => row' # None),
           claims' \subseteq claims \cup {handler[r].id},
           \A i \in claims' \ claims : (h.at \in Holding /\ h.id = i) \/ fate'[i] # "open",
           claims \subseteq claims' \cup {handler[r].id},
           handler[r].at \in Holding \/ claims \subseteq claims',
           applied' \in [Ids -> Nat], \A i \in Ids : i # handler[r].id => applied'[i] = applied[i],
           applied'[handler[r].id] <= 1 + blind',
           ( \/ handler[r].id \notin claims'
             \/ h.at \in Holding
             \/ \E s \in Replicas : s # r /\ handler[s].id = handler[r].id /\ handler[s].at \in Holding )
              => applied'[handler[r].id] <= blind',
           fate' \in [Ids -> Fates], \A i \in Ids : fate[i] # "open" => fate'[i] # "open",
           handler[r].at \in Holding /\ handler[r].id \in claims' => fate'[handler[r].id] # "open" \/ h.at \in Holding,
           TroubleTyped', blind' >= blind,
           RowTyped', row # None => row' # None, GrantWasPaid', Named'
    PROVE  Inv'
<1>1. BillingTyped /\ Working /\ handler[r].id \in 1 .. Len(events)
  BY Parts DEF Inv, Working
<1>2. handler[r].id \in Ids
  BY <1>1, AccountAssumption DEF BillingTyped, Ids
<1>3. \A s \in Holding : s # "idle"
  BY DEF Holding
<1>4. claims' \subseteq Ids
  BY <1>1, <1>2, <1>3 DEF BillingTyped
<1>5. BillingTyped'
  BY <1>1, <1>4 DEF BillingTyped
<1>6. blind' \in Nat
  BY AccountAssumption DEF TroubleTyped
<1>7. Working' /\ OneHolder'
  <2>1. IF h.at = "idle" THEN h.id = None ELSE h.id \in 1 .. Len(events)
    BY <1>1
  <2>2. h.at \in Holding => (handler[r].at \in Holding /\ h.id = handler[r].id) \/ h.id \notin claims
    BY <1>3
  <2>3. h.at \in Holding => h.id \in claims'
    OBVIOUS
  <2>4. events' = events
    OBVIOUS
  <2> QED
    BY <2>1, <2>2, <2>3, <2>4, HandlerMoves
<1>8. NoOrphanClaim'
  <2>1. handler[r].at \in Holding /\ handler[r].id \in claims'
           => fate'[handler[r].id] # "open" \/ (h.at \in Holding /\ h.id = handler[r].id)
    BY <1>3
  <2> QED
    BY <1>5, <1>7, <2>1, NoneOrphaned
<1>9. Counted'
  <2>1. h.id \in {handler[r].id, None}
    OBVIOUS
  <2>2. \A i \in Ids : i # handler[r].id => applied'[i] = applied[i] /\ (i \in claims => i \in claims')
    OBVIOUS
  <2> QED
    BY <1>2, <1>6, <2>1, <2>2, CountKept
<1> QED
  BY <1>5, <1>7, <1>8, <1>9, BillingKeeps

\* What the handler has in hand.
LEMMA InHand ==
    ASSUME Inv, NEW r \in Replicas, handler[r].at # "idle"
    PROVE  /\ BillingTyped /\ RowTyped /\ TroubleTyped /\ GrantWasPaid
           /\ handler[r].id \in 1 .. Len(events) /\ handler[r].id \in Ids
           /\ handler[r] \in HandlerType /\ handler \in [Replicas -> HandlerType]
           /\ events[handler[r].id] \in Event
           /\ applied[handler[r].id] \in Nat /\ blind \in Nat /\ applied[handler[r].id] <= 1 + blind
           /\ handler[r].id \notin claims => applied[handler[r].id] <= blind
           /\ \A s \in Replicas : handler[s].at \in Holding /\ handler[s].id = handler[r].id
                                     => applied[handler[r].id] <= blind
           /\ handler[r].at \in Holding => handler[r].id \in claims
<1>1. BillingTyped /\ RowTyped /\ TroubleTyped /\ GrantWasPaid /\ Working /\ Counted
  BY Parts DEF Inv
<1>2. handler[r].id \in 1 .. Len(events)
  BY <1>1 DEF Working
<1>3. handler[r].id \in Ids
  BY <1>1, <1>2, AccountAssumption DEF BillingTyped, Ids
<1>4. blind \in Nat
  BY <1>1, AccountAssumption DEF TroubleTyped
<1>5. events[handler[r].id] \in Event
  BY <1>1, <1>2 DEF BillingTyped
<1> QED
  BY <1>1, <1>2, <1>3, <1>4, <1>5 DEF BillingTyped, Counted, Working

LEMMA ClaimKeeps ==
    ASSUME Inv, NEW r \in Replicas, Claim(r)
    PROVE  Inv'
<1> DEFINE id == handler[r].id
           h  == [handler[r] EXCEPT !.at = "claimed"]
<1>1. handler[r].at = "claiming" /\ UNCHANGED <<events, applied, metering, row>>
  BY DEF Claim, Works
<1>2. handler[r].at \notin Holding /\ handler[r].at # "idle"
  BY <1>1 DEF Holding
<1>3. /\ BillingTyped /\ RowTyped /\ TroubleTyped /\ GrantWasPaid
      /\ handler[r] \in HandlerType /\ id \in Ids
      /\ applied \in [Ids -> Nat] /\ fate \in [Ids -> Fates]
      /\ blind \in Nat /\ applied[id] \in Nat /\ applied[id] <= 1 + blind
      /\ id \notin claims => applied[id] <= blind
      /\ \A s \in Replicas : handler[s].at \in Holding /\ handler[s].id = id => applied[id] <= blind
  BY <1>2, InHand DEF BillingTyped
<1>4. RowTyped' /\ GrantWasPaid' /\ Named'
  BY <1>1, <1>3, Unsaid DEF RowTyped, GrantWasPaid, Named, Inv
<1>5. Resting \in HandlerType /\ Resting.at = "idle" /\ Resting.id = None /\ Resting.plan = None
  BY DEF Resting, HandlerType, Stages
<1>6. ASSUME id \notin claims, claims' = claims \cup {id}, handler' = [handler EXCEPT ![r].at = "claimed"],
             UNCHANGED <<fate, trouble>>
      PROVE  Inv'
  <2>1. handler' = [handler EXCEPT ![r] = h]
    BY <1>6
  <2>2. h \in HandlerType /\ h.at = "claimed" /\ h.id = id /\ h.plan = handler[r].plan
    BY <1>3 DEF HandlerType, Stages
  <2>3. h.at \in Holding /\ h.at # "writing"
    BY <2>2 DEF Holding
  <2>5. TroubleTyped' /\ blind' = blind
    BY <1>3, <1>6, Quiet
  <2> HIDE DEF h
  <2>6. /\ claims' \subseteq claims \cup {id}
        /\ \A i \in claims' \ claims : (h.at \in Holding /\ h.id = i) \/ fate'[i] # "open"
    BY <1>6, <2>2, <2>3
  <2>7. applied'[id] <= blind' /\ applied'[id] <= 1 + blind' /\ blind' >= blind
    BY <1>1, <1>3, <1>6, <2>5
  <2> QED
    BY <1>1, <1>2, <1>3, <1>4, <1>6, <2>1, <2>2, <2>3, <2>5, <2>6, <2>7, HandlerKeeps
<1>7. ASSUME claims' = claims \/ (claims' = claims \cup {id} /\ fate'[id] # "open"), handler' = [handler EXCEPT ![r] = Resting],
             fate' \in [Ids -> Fates], \A i \in Ids : fate[i] # "open" => fate'[i] # "open",
             TroubleTyped', blind' >= blind, blind' \in Nat
      PROVE  Inv'
  <2>1. Resting.at \notin Holding /\ Resting.at # "writing"
    BY <1>5 DEF Holding
  <2>2. applied'[id] <= 1 + blind' /\ blind' >= blind
    BY <1>1, <1>3, <1>7
  <2>3. ( \/ id \notin claims'
          \/ Resting.at \in Holding
          \/ \E s \in Replicas : s # r /\ handler[s].id = id /\ handler[s].at \in Holding )
           => applied'[id] <= blind'
    BY <1>1, <1>3, <1>7, <2>1
  <2>4. /\ claims' \subseteq claims \cup {id} /\ claims \subseteq claims'
        /\ \A i \in claims' \ claims : fate'[i] # "open"
    BY <1>7
  <2> QED
    BY <1>1, <1>2, <1>3, <1>4, <1>5, <1>7, <2>1, <2>2, <2>3, <2>4, HandlerKeeps
<1>8. CASE id \in claims /\ Duplicate(id) /\ Rests(r) /\ UNCHANGED <<claims, trouble>>
  <2>1. fate' \in [Ids -> Fates] /\ \A i \in Ids : fate[i] # "open" => fate'[i] # "open"
    BY <1>3, <1>8 DEF Duplicate, Lost, Fates
  <2> QED
    BY <1>3, <1>7, <1>8, <2>1, Quiet DEF Rests
<1>9. CASE Fault("store") /\ Rests(r) /\ UNCHANGED <<claims, fate>>
  BY <1>3, <1>7, <1>9, FaultCounts DEF Rests
<1>10. CASE /\ Fault("answer") /\ id \notin claims
            /\ claims' = claims \cup {id} /\ Lost(id) /\ Rests(r)
  <2>1. fate' \in [Ids -> Fates] /\ fate'[id] # "open" /\ \A i \in Ids : fate[i] # "open" => fate'[i] # "open"
    BY <1>3, <1>10 DEF Lost, Fates
  <2>2. TroubleTyped' /\ blind' >= blind /\ blind' \in Nat
    BY <1>3, <1>10, FaultCounts
  <2> QED
    BY <1>7, <1>10, <2>1, <2>2 DEF Rests
<1> QED
  BY <1>6, <1>8, <1>9, <1>10 DEF Claim

\* A handler with a claim that leaves the claims as they are.
LEMMA HolderKeeps ==
    ASSUME Inv, NEW r \in Replicas, NEW h \in HandlerType, handler' = [handler EXCEPT ![r] = h],
           UNCHANGED <<events, claims, metering>>,
           handler[r].at \in Holding,
           (h.at = "idle" /\ h.id = None /\ h.plan = None) \/ (h.at \in Holding /\ h.id = handler[r].id),
           h.at = "writing" => Fits(events[h.id], h.plan) /\ (h.plan = None => row' # None),
           applied' \in [Ids -> Nat], \A i \in Ids : i # handler[r].id => applied'[i] = applied[i],
           applied'[handler[r].id] <= 1 + blind',
           h.at \in Holding => applied'[handler[r].id] <= blind',
           fate' \in [Ids -> Fates], \A i \in Ids : fate[i] # "open" => fate'[i] # "open",
           fate'[handler[r].id] # "open" \/ h.at \in Holding,
           TroubleTyped', blind' >= blind,
           RowTyped', row # None => row' # None, GrantWasPaid', Named'
    PROVE  Inv'
<1>1. handler[r].at # "idle"
  BY DEF Holding
<1>2. handler[r].id \in claims
  BY <1>1, InHand
<1>3. ~ \E s \in Replicas : s # r /\ handler[s].id = handler[r].id /\ handler[s].at \in Holding
  BY DEF Inv, OneHolder
<1>4. ( \/ handler[r].id \notin claims'
        \/ h.at \in Holding
        \/ \E s \in Replicas : s # r /\ handler[s].id = handler[r].id /\ handler[s].at \in Holding )
         => applied'[handler[r].id] <= blind'
  BY <1>2, <1>3
<1>5. IF h.at = "idle" THEN h.id = None ELSE h.id = handler[r].id
  BY DEF Holding
<1>6. h.at \in Holding => h.id \in claims' /\ (handler[r].at \in Holding \/ h.id \notin claims)
  BY <1>2 DEF Holding
<1>7. claims' = claims
  OBVIOUS
<1> QED
  BY <1>1, <1>4, <1>5, <1>6, <1>7, HandlerKeeps

LEMMA RestingIs == Resting \in HandlerType /\ Resting.at = "idle" /\ Resting.id = None /\ Resting.plan = None
BY DEF Resting, HandlerType, Stages

LEMMA ResolveKeeps ==
    ASSUME Inv, NEW r \in Replicas, Resolve(r)
    PROVE  Inv'
<1> DEFINE id    == handler[r].id
           event == events[id]
<1>1. handler[r].at = "claimed" /\ UNCHANGED <<events, claims, applied, metering, row>>
  BY DEF Resolve, Works
<1>2. handler[r].at \in Holding /\ handler[r].at # "idle"
  BY <1>1 DEF Holding
<1>3. /\ BillingTyped /\ RowTyped /\ TroubleTyped /\ GrantWasPaid
      /\ handler[r] \in HandlerType /\ id \in Ids /\ id \in 1 .. Len(events) /\ event \in Event
      /\ applied \in [Ids -> Nat] /\ fate \in [Ids -> Fates]
      /\ blind \in Nat /\ applied[id] \in Nat /\ applied[id] <= 1 + blind /\ applied[id] <= blind
  BY <1>2, InHand DEF BillingTyped
<1>4. RowTyped' /\ GrantWasPaid' /\ Named'
  BY <1>1, <1>3, Unsaid DEF RowTyped, GrantWasPaid, Named, Inv
<1>6. ASSUME Dropped(r), UNCHANGED trouble
      PROVE  Inv'
  <2>1. fate' \in [Ids -> Fates] /\ fate'[id] # "open" /\ \A i \in Ids : fate[i] # "open" => fate'[i] # "open"
    BY <1>3, <1>6 DEF Dropped, Settled, Fates
  <2>2. TroubleTyped' /\ blind' = blind
    BY <1>3, <1>6, Quiet
  <2> DEFINE h == Resting
  <2>3. handler' = [handler EXCEPT ![r] = h]
    BY <1>6 DEF Dropped, Rests
  <2>4. h \in HandlerType /\ h.at = "idle" /\ h.id = None /\ h.plan = None /\ h.at \notin Holding
    BY RestingIs DEF Holding
  <2> HIDE DEF h
  <2>5. applied'[id] <= 1 + blind' /\ blind' >= blind
    BY <1>1, <1>3, <2>2
  <2> QED
    BY <1>1, <1>2, <1>3, <1>4, <2>1, <2>2, <2>3, <2>4, <2>5, HolderKeeps
<1>7. ASSUME NEW outcome \in {"writing", "releasing"}, NEW plan \in Plans \cup {None}, Resolved(r, outcome, plan),
             outcome = "writing" => Fits(event, plan) /\ (plan = None => row # None),
             UNCHANGED fate, TroubleTyped', blind' = blind
      PROVE  Inv'
  <2> DEFINE h == [handler[r] EXCEPT !.at = outcome, !.plan = plan]
  <2>1. handler' = [handler EXCEPT ![r] = h]
    BY <1>7 DEF Resolved
  <2>2. h \in HandlerType /\ h.at = outcome /\ h.id = id /\ h.plan = plan
    BY <1>3 DEF HandlerType, Stages
  <2>3. h.at \in Holding
    BY <2>2 DEF Holding
  <2> HIDE DEF h
  <2>4. applied'[id] <= blind' /\ applied'[id] <= 1 + blind' /\ blind' >= blind
    BY <1>1, <1>3, <1>7
  <2>5. h.at = "writing" => Fits(events[h.id], h.plan) /\ (h.plan = None => row' # None)
    BY <1>1, <1>7, <2>2
  <2> QED
    BY <1>1, <1>2, <1>3, <1>4, <1>7, <2>1, <2>2, <2>3, <2>4, <2>5, HolderKeeps
<1>8. CASE /\ event.kind \in Checkouts
           /\ \/ Dropped(r)
              \/ UNCHANGED fate /\ \E p \in PlansOfCheckout(event) : Resolved(r, "writing", p)
           /\ UNCHANGED trouble
  <2>1. TroubleTyped' /\ blind' = blind
    BY <1>3, <1>8, Quiet
  <2>2. ASSUME NEW p \in PlansOfCheckout(event), UNCHANGED fate, Resolved(r, "writing", p)
        PROVE  Inv'
    <3>1. p \in Plans /\ p # None
      BY <1>3, AccountAssumption DEF PlansOfCheckout, Event
    <3>2. Fits(event, p)
      BY <1>8 DEF Fits
    <3> QED
      BY <1>7, <2>1, <2>2, <3>1, <3>2
  <2> QED
    BY <1>6, <1>8, <2>2
<1>9. CASE /\ event.kind \notin Checkouts
           /\ IF row # None /\ row.customer
              THEN UNCHANGED fate /\ Resolved(r, "writing", PlanOfUpdate(event))
              ELSE Dropped(r)
           /\ UNCHANGED trouble
  <2>1. TroubleTyped' /\ blind' = blind
    BY <1>3, <1>9, Quiet
  <2>2. PlanOfUpdate(event) \in Plans \cup {None} /\ Fits(event, PlanOfUpdate(event))
    BY <1>3, <1>9 DEF PlanOfUpdate, Fits, Event
  <2>3. CASE row # None /\ row.customer
    BY <1>7, <1>9, <2>1, <2>2, <2>3
  <2>4. CASE ~(row # None /\ row.customer)
    BY <1>6, <1>9, <2>4
  <2> QED
    BY <2>3, <2>4
<1>10. CASE Resolved(r, "releasing", None) /\ UNCHANGED <<fate, trouble>>
  BY <1>3, <1>7, <1>10, Quiet
<1> QED
  BY <1>8, <1>9, <1>10 DEF Resolve, Checkouts

LEMMA WriteKeeps ==
    ASSUME Inv, NEW r \in Replicas, Write(r)
    PROVE  Inv'
<1> DEFINE id   == handler[r].id
           next == Updated(events[id], handler[r].plan)
           done == row' = next /\ applied' = [applied EXCEPT ![id] = @ + 1]
<1>1. handler[r].at = "writing" /\ UNCHANGED <<events, claims, metering>>
  BY DEF Write, Works
<1>2. handler[r].at \in Holding /\ handler[r].at # "idle"
  BY <1>1 DEF Holding
<1>3. /\ BillingTyped /\ RowTyped /\ TroubleTyped /\ GrantWasPaid
      /\ handler[r] \in HandlerType /\ id \in Ids /\ events[id] \in Event
      /\ applied \in [Ids -> Nat] /\ fate \in [Ids -> Fates]
      /\ blind \in Nat /\ applied[id] \in Nat /\ applied[id] <= blind
  BY <1>2, InHand DEF BillingTyped
<1>4. /\ InForce' = InForce /\ Named /\ Granting /\ id \in 1 .. Len(events)
      /\ Fits(events[id], handler[r].plan) /\ (handler[r].plan = None => row # None)
  BY <1>1, Unsaid DEF Inv, Working
<1>5. /\ next \in Row
      /\ next.status \in Current => next.plan \in InForce
      /\ \/ next.plan = "free"
         \/ \E i \in 1 .. Len(events) : events[i].plan = next.plan
         \/ next.plan = "pro" /\ \E i \in 1 .. Len(events) : events[i].kind = "bare checkout"
  <2> DEFINE e == events[id]
  <2>1. /\ e \in Event /\ e \in Range(events) /\ e.status \in Statuses /\ e.plan \in Plans
        /\ e.status \in Current => e.plan \in paidFor
    BY <1>3, <1>4, PaidIs DEF Event
  <2>2. "pro" \in Plans /\ None \notin Plans /\ "active" \in Current
    BY AccountAssumption DEF Current
  <2>3. CASE handler[r].plan = None
    <3>1. row \in Row /\ row # None
      BY <1>3, <1>4, <2>3 DEF RowTyped
    <3>2. next = [plan |-> row.plan, status |-> e.status, customer |-> TRUE]
      BY <2>3 DEF Updated
    <3>3. e.kind \notin Checkouts /\ (e.kind = "updated" => e.plan \notin Known)
      BY <1>4, <2>1, <2>2, <2>3 DEF Fits, PlansOfCheckout, PlanOfUpdate
    <3>4. e.status \in Current => e.kind = "updated" /\ e.plan \notin Known
      BY <1>4, <3>3 DEF Granting
    <3>5. row.plan \in Plans \cup {"free"}
      BY <3>1 DEF Row
    <3>6. ASSUME e.status \in Current, row.plan # "free"
          PROVE  row.plan \in unpaid
      <4>1. /\ \E f \in Range(events) : f.kind = "updated" /\ f.status \in Current /\ f.plan \notin Known
            /\ \A i \in 1 .. Len(events) : events[i] \in Range(events)
        BY <1>3, <2>1, <3>4, <3>6, PaidIs
      <4>2. \/ \E f \in Range(events) : f.plan = row.plan
            \/ row.plan = "pro" /\ \E f \in Range(events) : f.kind = "bare checkout"
        BY <1>4, <3>1, <3>6, <4>1 DEF Named
      <4> QED
        BY <3>5, <3>6, <4>1, <4>2 DEF unpaid
    <3> HIDE DEF next, e
    <3>7. next.plan = row.plan /\ next.status = e.status /\ next \in Row
      BY <2>1, <3>2, <3>5 DEF Row
    <3> QED
      BY <1>4, <3>1, <3>6, <3>7 DEF Named, InForce
  <2>4. CASE handler[r].plan # None
    <3> DEFINE p == handler[r].plan
    <3>1. next = [plan |-> p, status |-> e.status, customer |-> TRUE]
      BY <2>4 DEF Updated
    <3>2. p = e.plan \/ (p = "pro" /\ e.kind = "bare checkout")
      BY <1>4, <2>4 DEF Fits, PlansOfCheckout, PlanOfUpdate, Checkouts
    <3>3. p = "pro" /\ e.kind = "bare checkout" => p \in unpaid
      BY <2>1, <2>2 DEF unpaid
    <3>4. p \in Plans
      BY <2>1, <2>2, <3>2
    <3> HIDE DEF next, p
    <3>5. next.plan = p /\ next.status = e.status /\ next \in Row
      BY <2>1, <3>1, <3>4 DEF Row
    <3> QED
      BY <1>4, <2>1, <3>2, <3>3, <3>5 DEF InForce
  <2> QED
    BY <2>3, <2>4
<1>6. None \notin Row
  BY NoRowAssumption
<1> HIDE DEF next
<1>7. ASSUME done
      PROVE  /\ RowTyped' /\ GrantWasPaid' /\ Named' /\ row' # None
             /\ applied' \in [Ids -> Nat] /\ applied'[id] = applied[id] + 1
             /\ \A i \in Ids : i # id => applied'[i] = applied[i]
  <2>1. RowTyped' /\ Named' /\ row' # None
    BY <1>1, <1>5, <1>6, <1>7 DEF RowTyped, Named
  <2>2. row'.status \in Current => row'.plan \in InForce'
    BY <1>4, <1>5, <1>7
  <2>3. GrantWasPaid'
    BY <2>2 DEF GrantWasPaid, InForce
  <2> QED
    BY <1>3, <1>7, <2>1, <2>3
<1>8. CASE done /\ Rests(r) /\ Settled(id) /\ UNCHANGED trouble
  <2> DEFINE h == Resting
  <2>1. fate' \in [Ids -> Fates] /\ fate'[id] # "open" /\ \A i \in Ids : fate[i] # "open" => fate'[i] # "open"
    BY <1>3, <1>8 DEF Settled, Fates
  <2>2. TroubleTyped' /\ blind' = blind
    BY <1>3, <1>8, Quiet
  <2>3. handler' = [handler EXCEPT ![r] = h]
    BY <1>8 DEF Rests
  <2>4. h \in HandlerType /\ h.at = "idle" /\ h.id = None /\ h.plan = None /\ h.at \notin Holding
    BY RestingIs DEF Holding
  <2> HIDE DEF h
  <2>5. applied'[id] <= 1 + blind' /\ blind' >= blind
    BY <1>3, <1>7, <1>8, <2>2
  <2> QED
    BY <1>1, <1>2, <1>3, <1>7, <1>8, <2>1, <2>2, <2>3, <2>4, <2>5, HolderKeeps
<1>9. ASSUME Resolved(r, "releasing", None), UNCHANGED fate, TroubleTyped', blind' >= blind, blind' \in Nat,
             RowTyped', GrantWasPaid', Named', row # None => row' # None,
             applied' \in [Ids -> Nat], \A i \in Ids : i # id => applied'[i] = applied[i], applied'[id] <= blind'
      PROVE  Inv'
  <2> DEFINE h == [handler[r] EXCEPT !.at = "releasing", !.plan = None]
  <2>1. handler' = [handler EXCEPT ![r] = h]
    BY <1>9 DEF Resolved
  <2>2. h \in HandlerType /\ h.at = "releasing" /\ h.id = id /\ h.plan = None
    BY <1>3 DEF HandlerType, Stages
  <2>3. h.at \in Holding
    BY <2>2 DEF Holding
  <2> HIDE DEF h
  <2>4. applied'[id] <= 1 + blind'
    BY <1>3, <1>9
  <2> QED
    BY <1>1, <1>2, <1>3, <1>9, <2>1, <2>2, <2>3, <2>4, HolderKeeps
<1>10. CASE Resolved(r, "releasing", None) /\ UNCHANGED <<row, applied, fate, trouble>>
  <2>1. TroubleTyped' /\ blind' = blind
    BY <1>3, <1>10, Quiet
  <2>2. RowTyped' /\ GrantWasPaid' /\ Named'
    BY <1>1, <1>3, <1>4, <1>10, Unsaid DEF RowTyped, GrantWasPaid, Named
  <2> QED
    BY <1>3, <1>9, <1>10, <2>1, <2>2
<1>11. CASE Fault("answer") /\ done /\ Resolved(r, "releasing", None) /\ UNCHANGED fate
  <2>1. TroubleTyped' /\ blind' = blind + 1
    BY <1>3, <1>11, FaultCounts
  <2>2. applied'[id] <= blind' /\ blind' >= blind /\ blind' \in Nat
    BY <1>3, <1>7, <1>11, <2>1
  <2> QED
    BY <1>7, <1>9, <1>11, <2>1, <2>2
<1> QED
  BY <1>8, <1>10, <1>11 DEF Write, next

LEMMA ReleaseKeeps ==
    ASSUME Inv, NEW r \in Replicas, Release(r)
    PROVE  Inv'
<1> DEFINE id == handler[r].id
           h  == Resting
<1>1. handler[r].at = "releasing" /\ handler' = [handler EXCEPT ![r] = h] /\ UNCHANGED <<events, applied, metering, row>>
  BY DEF Release, Works, Rests
<1>2. handler[r].at \in Holding /\ handler[r].at # "idle"
  BY <1>1 DEF Holding
<1>3. /\ BillingTyped /\ RowTyped /\ TroubleTyped /\ GrantWasPaid /\ id \in Ids
      /\ applied \in [Ids -> Nat] /\ fate \in [Ids -> Fates]
      /\ blind \in Nat /\ applied[id] \in Nat /\ applied[id] <= blind
  BY <1>2, InHand DEF BillingTyped
<1>4. RowTyped' /\ GrantWasPaid' /\ Named'
  BY <1>1, <1>3, Unsaid DEF RowTyped, GrantWasPaid, Named, Inv
<1>5. h \in HandlerType /\ h.at = "idle" /\ h.id = None /\ h.plan = None /\ h.at \notin Holding
  BY RestingIs DEF Holding
<1> HIDE DEF h
<1>6. CASE claims' = claims \ {id} /\ UNCHANGED <<fate, trouble>>
  <2>1. TroubleTyped' /\ blind' = blind
    BY <1>3, <1>6, Quiet
  <2>2. applied'[id] <= blind' /\ applied'[id] <= 1 + blind' /\ blind' >= blind
    BY <1>1, <1>3, <2>1
  <2>3. /\ claims' \subseteq claims
        /\ claims \subseteq claims' \cup {handler[r].id}
        /\ handler[r].id \notin claims'
    BY <1>6
  <2> QED
    BY <1>1, <1>2, <1>3, <1>4, <1>5, <1>6, <2>1, <2>2, <2>3, HandlerKeeps
<1>7. CASE Fault("release") /\ UNCHANGED claims /\ Lost(id)
  <2>1. TroubleTyped' /\ blind' = blind
    BY <1>3, <1>7, FaultCounts
  <2>2. fate' \in [Ids -> Fates] /\ fate'[id] # "open" /\ \A i \in Ids : fate[i] # "open" => fate'[i] # "open"
    BY <1>3, <1>7 DEF Lost, Fates
  <2>3. applied'[id] <= 1 + blind' /\ blind' >= blind
    BY <1>1, <1>3, <2>1
  <2> QED
    BY <1>1, <1>2, <1>3, <1>4, <1>5, <1>7, <2>1, <2>2, <2>3, HolderKeeps
<1> QED
  BY <1>6, <1>7 DEF Release

LEMMA CrashKeeps ==
    ASSUME Inv, NEW r \in Replicas, Crash(r)
    PROVE  Inv'
<1> DEFINE id == handler[r].id
           h  == Resting
<1>1. handler[r].at # "idle" /\ handler' = [handler EXCEPT ![r] = h] /\ UNCHANGED <<events, claims, applied, metering, row>>
  BY DEF Crash, Works, Rests
<1>2. /\ BillingTyped /\ RowTyped /\ TroubleTyped /\ GrantWasPaid /\ id \in Ids
      /\ applied \in [Ids -> Nat] /\ fate \in [Ids -> Fates]
      /\ blind \in Nat /\ applied[id] \in Nat /\ applied[id] <= 1 + blind
      /\ id \notin claims => applied[id] <= blind
      /\ \A s \in Replicas : handler[s].at \in Holding /\ handler[s].id = id => applied[id] <= blind
  BY <1>1, InHand DEF BillingTyped
<1>3. RowTyped' /\ GrantWasPaid' /\ Named'
  BY <1>1, <1>2, Unsaid DEF RowTyped, GrantWasPaid, Named, Inv
<1>4. h \in HandlerType /\ h.at = "idle" /\ h.id = None /\ h.plan = None /\ h.at \notin Holding
  BY RestingIs DEF Holding
<1>5. TroubleTyped' /\ blind' = blind
  BY <1>2, FaultCounts DEF Crash
<1>6. fate' \in [Ids -> Fates] /\ \A i \in Ids : fate[i] # "open" => fate'[i] # "open"
  BY <1>2 DEF Crash, Lost, Fates
<1>7. handler[r].at \in Holding => fate'[id] # "open"
  BY <1>2 DEF Crash, Lost, Holding, Fates
<1> HIDE DEF h
<1>8. applied'[id] <= 1 + blind' /\ blind' >= blind
  BY <1>1, <1>2, <1>5
<1>9. ( \/ id \notin claims'
        \/ h.at \in Holding
        \/ \E s \in Replicas : s # r /\ handler[s].id = id /\ handler[s].at \in Holding )
         => applied'[id] <= blind'
  BY <1>1, <1>2, <1>4, <1>5
<1>10. claims' = claims
  BY <1>1
<1> QED
  BY <1>1, <1>2, <1>3, <1>4, <1>5, <1>6, <1>7, <1>8, <1>9, <1>10, HandlerKeeps

-----------------------------------------------------------------------------
(* The steps of Stripe and of the calendar.                                 *)

LEMMA SendKeeps ==
    ASSUME Inv, NEW kind \in Kinds, NEW status \in Statuses, NEW plan \in Plans, Sends(kind, status, plan),
           IF kind \in Checkouts THEN status = "active" ELSE kind = "updated" \/ status \notin Current
    PROVE  Inv'
<1> DEFINE e == [kind |-> kind, status |-> status, plan |-> plan]
<1>1. /\ BillingTyped /\ RowTyped /\ TroubleTyped /\ MeterTyped /\ Working /\ OneHolder /\ Counted
      /\ Granting /\ GrantWasPaid /\ Named /\ NoOrphanClaim /\ Capped
  BY Parts DEF Inv
<1>2. events' = Append(events, e) /\ Len(events) < MaxEvents
      /\ UNCHANGED <<claims, handler, applied, fate, metering, row, trouble>>
  BY DEF Sends
<1>3. e \in Event /\ e.kind = kind /\ e.status = status
  BY DEF Event
<1> HIDE DEF e
<1>4. events \in Seq(Event) /\ MaxEvents \in Nat
  BY <1>1, AccountAssumption DEF BillingTyped
<1>5. /\ events' \in Seq(Event) /\ Len(events') = Len(events) + 1 /\ Len(events') <= MaxEvents
      /\ 1 .. Len(events) \subseteq 1 .. Len(events')
      /\ \A i \in 1 .. Len(events) : events'[i] = events[i]
      /\ \A i \in 1 .. Len(events') : i \in 1 .. Len(events) \/ events'[i] = e
  BY <1>2, <1>3, <1>4
<1>6. InForce \subseteq InForce' /\ Had \subseteq Had'
  <2>1. Range(events) \subseteq Range(events')
    BY <1>4, <1>5 DEF Range
  <2>2. paidFor \subseteq paidFor'
    BY <2>1 DEF paidFor
  <2>3. unpaid \subseteq unpaid'
    BY <2>1 DEF unpaid
  <2>4. granted' = granted
    BY <1>2 DEF metering, operator
  <2> QED
    BY <2>2, <2>3, <2>4 DEF InForce, Had
<1>7. BillingTyped' /\ RowTyped'
  BY <1>1, <1>2, <1>5 DEF BillingTyped, RowTyped
<1>8. TroubleTyped' /\ blind' = blind
  BY <1>1, <1>2, Quiet
<1>9. MeterTyped' /\ Capped'
  BY <1>1, <1>2, <1>6 DEF MeterTyped, Capped, WithinALimit, metering, operator, Had
<1>10. Working' /\ OneHolder' /\ Counted'
  BY <1>1, <1>2, <1>5, <1>8 DEF Working, OneHolder, Counted
<1>11. Granting' /\ Named'
  <2>1. Granting'
    BY <1>1, <1>3, <1>5 DEF Granting
  <2>2. Named'
    BY <1>1, <1>2, <1>5 DEF Named
  <2> QED
    BY <2>1, <2>2
<1>12. GrantWasPaid'
  BY <1>1, <1>2, <1>6 DEF GrantWasPaid, InForce
<1>13. NoOrphanClaim'
  BY <1>1, <1>2 DEF NoOrphanClaim, Held
<1> QED
  BY <1>7, <1>8, <1>9, <1>10, <1>11, <1>12, <1>13, Parts DEF Inv

LEMMA StripeKeeps ==
    ASSUME Inv, StripeActs
    PROVE  Inv'
<1>1. events \in Seq(Event)
  BY Parts DEF Inv, BillingTyped
<1>2. stripe.status # "canceled" => stripe.plan \in Plans
  <2>1. CASE events = <<>>
    BY <2>1 DEF stripe
  <2>2. CASE events # <<>>
    <3>1. Last(events) \in Event
      BY <1>1, <2>2 DEF Last
    <3> QED
      BY <2>2, <3>1 DEF stripe, Event
  <2> QED
    BY <2>1, <2>2
<1>3. \A kind \in Kinds, status \in Statuses, plan \in Plans :
         /\ Sends(kind, status, plan)
         /\ IF kind \in Checkouts THEN status = "active" ELSE kind = "updated" \/ status \notin Current
         => Inv'
  BY SendKeeps
<1>4. CASE \E p \in Plans : Sends("checkout", "active", p) \/ Sends("bare checkout", "active", p)
  BY <1>3, <1>4 DEF Kinds, Statuses, Checkouts
<1>5. CASE \E p \in Plans, s \in Reported : Sends("updated", s, p)
  <2>1. Reported \subseteq Statuses
    BY AccountAssumption DEF Statuses
  <2> QED
    BY <1>3, <1>5, <2>1 DEF Kinds, Checkouts
<1>6. CASE stripe.plan \in Plans /\ (Sends("deleted", "canceled", stripe.plan) \/ Sends("failed", "past_due", stripe.plan))
  BY <1>3, <1>6 DEF Kinds, Statuses, Checkouts, Current
<1>7. stripe.status \in Current => stripe.status # "canceled"
  BY DEF Current
<1> QED
  BY <1>2, <1>4, <1>5, <1>6, <1>7 DEF StripeActs

\* A step that is not of billing.
LEMMA MeteringKeeps ==
    ASSUME Inv, UNCHANGED billing, RowTyped', GrantWasPaid', Named', row # None => row' # None,
           TroubleTyped', blind' >= blind, MeterTyped', Capped'
    PROVE  Inv'
<1>1. BillingTyped /\ TroubleTyped /\ Working /\ OneHolder /\ Counted /\ Granting /\ NoOrphanClaim
  BY Parts DEF Inv
<1>2. BillingTyped'
  BY <1>1 DEF billing, BillingTyped
<1>4. Working' /\ OneHolder' /\ Granting' /\ NoOrphanClaim'
  BY <1>1 DEF billing, Working, OneHolder, Granting, NoOrphanClaim, Held
<1>5. Counted'
  <2>1. blind \in Nat /\ blind' \in Nat /\ applied \in [Ids -> Nat]
    BY <1>1, AccountAssumption DEF TroubleTyped, BillingTyped
  <2> SUFFICES ASSUME NEW id \in Ids
               PROVE  /\ applied[id] <= 1 + blind'
                      /\ id \notin claims \/ (\E r \in Replicas : handler[r].id = id /\ handler[r].at \in Holding)
                            => applied[id] <= blind'
    BY DEF Counted, billing
  <2>2. applied[id] \in Nat
    BY <2>1
  <2> QED
    BY <1>1, <2>1, <2>2 DEF Counted
<1> QED
  BY <1>2, <1>4, <1>5, Parts DEF Inv

LEMMA MonthKeeps ==
    ASSUME Inv, NextMonth
    PROVE  Inv'
<1>1. UNCHANGED <<billing, usage, adder, tracked, operator, row, trouble>> /\ month < Months /\ month' = month + 1
  BY DEF NextMonth
<1>2. /\ RowTyped /\ TroubleTyped /\ MeterTyped /\ GrantWasPaid /\ Named /\ Capped /\ blind \in Nat
  BY Parts, AccountAssumption DEF Inv, TroubleTyped
<1>3. InForce' = InForce /\ Had' = Had
  BY <1>1, Unsaid DEF billing, Had, operator
<1>4. RowTyped' /\ GrantWasPaid' /\ Named'
  BY <1>1, <1>2, <1>3 DEF billing, RowTyped, GrantWasPaid, Named, InForce
<1>5. TroubleTyped' /\ blind' = blind
  BY <1>1, <1>2, Quiet
<1>6. MeterTyped'
  BY <1>1, <1>2, AccountAssumption DEF MeterTyped, Periods, operator
<1>7. Capped'
  BY <1>1, <1>2, <1>3 DEF Capped, WithinALimit, Had
<1> QED
  BY <1>1, <1>2, <1>4, <1>5, <1>6, <1>7, MeteringKeeps

\* A grant of the operator is one more plan that the tenant has had.
LEMMA OperatorKeeps ==
    ASSUME Inv, OperatorActs
    PROVE  Inv'
<1>1. /\ UNCHANGED <<billing, month, usage, adder, tracked, row, trouble>>
      /\ granted \subseteq granted' /\ granted' \subseteq Overrides /\ override' \in granted' \cup {None}
  BY Parts DEF OperatorActs, Inv, MeterTyped
<1>2. /\ RowTyped /\ TroubleTyped /\ MeterTyped /\ GrantWasPaid /\ Named /\ Capped /\ blind \in Nat
  BY Parts, AccountAssumption DEF Inv, TroubleTyped
<1>3. InForce' = InForce /\ Had \subseteq Had'
  BY <1>1, Unsaid DEF billing, Had
<1>4. RowTyped' /\ GrantWasPaid' /\ Named'
  BY <1>1, <1>2, <1>3 DEF billing, RowTyped, GrantWasPaid, Named, InForce
<1>5. TroubleTyped' /\ blind' = blind
  BY <1>1, <1>2, Quiet
<1>6. MeterTyped'
  BY <1>1, <1>2 DEF MeterTyped
<1>7. Capped'
  BY <1>1, <1>2, <1>3 DEF Capped, WithinALimit, Had
<1> QED
  BY <1>1, <1>2, <1>4, <1>5, <1>6, <1>7, MeteringKeeps

-----------------------------------------------------------------------------
(* The steps of a request that adds a name.                                 *)

LEMMA HadLimit ==
    ASSUME BillingTyped, MeterTyped, NEW plan \in Had
    PROVE  plan \in Plans \cup {"free"} /\ Limit[plan] \in Nat \cup {None}
<1>1. plan \in Plans \cup {"free"}
  BY PaidIs, AccountAssumption DEF Had, MeterTyped
<1> QED
  BY <1>1, AccountAssumption

LEMMA ReadRowKeeps ==
    ASSUME Inv, NEW a \in Adders, ReadRow(a)
    PROVE  Inv'
<1> DEFINE found == IF row = None THEN FreeRow ELSE row
           new   == [at |-> "reading", period |-> month, limit |-> LimitOf(found)]
           plan  == IF found.status \in Current THEN found.plan ELSE "free"
<1>1. BillingTyped /\ RowTyped /\ TroubleTyped /\ MeterTyped /\ GrantWasPaid /\ Named /\ Capped
  BY Parts DEF Inv
<1>2. row' = found /\ adder' = [adder EXCEPT ![a] = new]
      /\ UNCHANGED <<billing, month, usage, tracked, operator, trouble>>
  BY DEF ReadRow
<1>3. found \in Row /\ found # None
  <2>1. FreeRow \in Row
    BY DEF FreeRow, Row, Statuses
  <2> QED
    BY <1>1, <2>1, NoRowAssumption DEF RowTyped
<1>4. found.status \in Current => found.plan \in InForce
  BY <1>1 DEF GrantWasPaid, FreeRow, InForce
<1>5. LimitOf(found) = Limit[plan] /\ plan \in Had
  BY <1>3, <1>4 DEF LimitOf, InForce, Had
<1>6. row = None => found.plan = "free"
  BY DEF FreeRow
<1>14. row # None => found = row
  OBVIOUS
<1> HIDE DEF found, plan
<1>7. new \in AdderType /\ new.limit = Limit[plan]
  BY <1>1, <1>5, HadLimit DEF AdderType, MeterTyped
<1> HIDE DEF new
<1>8. InForce' = InForce /\ Had' = Had
  BY <1>2, Unsaid DEF billing, Had, operator
<1>9. RowTyped' /\ GrantWasPaid' /\ Named' /\ row' # None
  <2>1. RowTyped' /\ row' # None
    BY <1>2, <1>3 DEF RowTyped
  <2>2. GrantWasPaid'
    BY <1>2, <1>4, <1>8 DEF GrantWasPaid, InForce
  <2>3. Named'
    BY <1>1, <1>2, <1>6, <1>14 DEF Named, billing
  <2> QED
    BY <2>1, <2>2, <2>3
<1>10. adder \in [Adders -> AdderType]
  BY <1>1 DEF MeterTyped
<1>11. MeterTyped'
  BY <1>1, <1>2, <1>7 DEF MeterTyped, operator
<1>12. Capped'
  <2>1. ASSUME NEW b \in Adders, adder'[b].at \in Limited
        PROVE  \E p \in Had : adder'[b].limit = Limit[p]
    <3>1. CASE b = a
      BY <1>2, <1>5, <1>7, <1>10, <3>1
    <3>2. CASE b # a
      BY <1>1, <1>2, <1>10, <2>1, <3>2 DEF Capped
    <3> QED
      BY <3>1, <3>2
  <2> QED
    BY <1>1, <1>2, <1>8, <2>1 DEF Capped, WithinALimit, Had
<1>13. TroubleTyped' /\ blind' = blind /\ blind \in Nat
  BY <1>1, <1>2, Quiet, AccountAssumption DEF TroubleTyped
<1> QED
  BY <1>2, <1>9, <1>11, <1>12, <1>13, MeteringKeeps

\* The adder moves on with a limit of a plan the tenant has had, or without one, and
\* the usage of each period is still within one.
LEMMA AdderMoves ==
    ASSUME Inv, NEW a \in Adders, NEW new \in AdderType, adder' = [adder EXCEPT ![a] = new],
           new.at \in Limited => \E plan \in Had : new.limit = Limit[plan],
           UNCHANGED <<billing, month, operator, row>>, tracked' \in Nat,
           usage' \in [Periods -> Nat],
           \A p \in Periods : usage'[p] <= usage[p] \/ \E plan \in Had : Limit[plan] = None \/ usage'[p] <= Limit[plan],
           TroubleTyped', blind' >= blind
    PROVE  Inv'
<1>1. BillingTyped /\ RowTyped /\ MeterTyped /\ GrantWasPaid /\ Named /\ Capped
  BY Parts DEF Inv
<1>2. InForce' = InForce /\ Had' = Had
  BY Unsaid DEF billing, Had, operator
<1>3. RowTyped' /\ GrantWasPaid' /\ Named'
  BY <1>1, <1>2 DEF RowTyped, GrantWasPaid, InForce, Named, billing
<1>4. adder \in [Adders -> AdderType] /\ usage \in [Periods -> Nat]
  BY <1>1 DEF MeterTyped
<1>5. MeterTyped'
  BY <1>1, <1>4 DEF MeterTyped, operator
<1>6. Capped'
  <2>1. \A b \in Adders : adder'[b].at \in Limited => \E plan \in Had : adder'[b].limit = Limit[plan]
    BY <1>1, <1>4 DEF Capped
  <2>2. ASSUME NEW p \in Periods
        PROVE  \E plan \in Had : Limit[plan] = None \/ usage'[p] <= Limit[plan]
    <3>1. PICK plan \in Had : Limit[plan] = None \/ usage[p] <= Limit[plan]
      BY <1>1 DEF Capped, WithinALimit, Had
    <3>2. Limit[plan] \in Nat \cup {None} /\ usage[p] \in Nat /\ usage'[p] \in Nat
      BY <1>1, <1>4, HadLimit
    <3>3. CASE Limit[plan] = None
      BY <3>3
    <3>4. CASE Limit[plan] # None
      BY <3>1, <3>2, <3>4
    <3> QED
      BY <3>3, <3>4
  <2> QED
    BY <1>1, <1>2, <2>1, <2>2 DEF Capped, WithinALimit, Had
<1>7. row # None => row' # None
  OBVIOUS
<1>8. UNCHANGED billing
  OBVIOUS
<1> QED
  BY <1>3, <1>5, <1>6, <1>7, <1>8, MeteringKeeps

LEMMA ReadOverrideKeeps ==
    ASSUME Inv, NEW a \in Adders, ReadOverride(a)
    PROVE  Inv'
<1>1. BillingTyped /\ TroubleTyped /\ MeterTyped /\ Capped
  BY Parts DEF Inv
<1>2. /\ adder[a] \in AdderType /\ adder[a].at \in Limited /\ usage \in [Periods -> Nat] /\ tracked \in Nat
      /\ UNCHANGED <<billing, month, operator, row>> /\ UNCHANGED <<usage, tracked, trouble>>
  BY <1>1 DEF ReadOverride, MeterTyped, Limited
<1>3. PICK plan \in Had : (IF override = None THEN adder[a].limit ELSE Limit[override]) = Limit[plan]
  <2>1. CASE override = None
    BY <1>1, <1>2, <2>1 DEF Capped
  <2>2. CASE override # None
    BY <1>1, <2>2 DEF MeterTyped, Had
  <2> QED
    BY <2>1, <2>2
<1> DEFINE new == [adder[a] EXCEPT !.at = "metering", !.limit = Limit[plan]]
<1>4. adder' = [adder EXCEPT ![a] = new]
  BY <1>1, <1>2, <1>3 DEF ReadOverride, MeterTyped, AdderType
<1>5. new \in AdderType /\ new.limit = Limit[plan]
  BY <1>1, <1>2, HadLimit DEF AdderType
<1> HIDE DEF new
<1>6. TroubleTyped' /\ blind' = blind /\ blind \in Nat
  BY <1>1, <1>2, Quiet, AccountAssumption DEF TroubleTyped
<1>7. usage' \in [Periods -> Nat] /\ tracked' \in Nat /\ \A p \in Periods : usage'[p] <= usage[p]
  BY <1>2
<1>8. new.at \in Limited => \E other \in Had : new.limit = Limit[other]
  BY <1>3, <1>5
<1>9. \A p \in Periods : usage'[p] <= usage[p] \/ \E other \in Had : Limit[other] = None \/ usage'[p] <= Limit[other]
  BY <1>7
<1>10. blind' >= blind /\ TroubleTyped' /\ tracked' \in Nat /\ usage' \in [Periods -> Nat]
  BY <1>6, <1>7
<1>11. new \in AdderType /\ adder' = [adder EXCEPT ![a] = new] /\ UNCHANGED <<billing, month, operator, row>>
  BY <1>2, <1>4, <1>5
<1> QED
  BY <1>8, <1>9, <1>10, <1>11, AdderMoves

LEMMA OverIs == Over \in AdderType /\ Over.at = "over" /\ [Waiting EXCEPT !.at = "inserting"] \in AdderType
<1>1. 1 \in Periods
  BY AccountAssumption DEF Periods
<1> QED
  BY <1>1 DEF Over, Waiting, AdderType

LEMMA IncrementKeeps ==
    ASSUME Inv, NEW a \in Adders, Increment(a)
    PROVE  Inv'
<1> DEFINE p      == adder[a].period
           within == adder[a].limit = None \/ usage[p] + 1 <= adder[a].limit
           new    == IF within THEN [Waiting EXCEPT !.at = "inserting"] ELSE Over
<1>1. BillingTyped /\ TroubleTyped /\ MeterTyped /\ Capped
  BY Parts DEF Inv
<1>2. /\ adder[a].at = "metering"
      /\ usage' = IF within THEN [usage EXCEPT ![p] = @ + 1] ELSE usage
      /\ adder' = [adder EXCEPT ![a] = new]
      /\ UNCHANGED <<billing, month, tracked, operator, row, trouble>>
  BY DEF Increment
<1>3. Over \in AdderType /\ Over.at = "over" /\ [Waiting EXCEPT !.at = "inserting"] \in AdderType
  BY OverIs
<1>4. new \in AdderType /\ new.at \notin Limited
  BY <1>3 DEF Waiting, Limited
<1>5. adder[a] \in AdderType /\ usage \in [Periods -> Nat] /\ tracked' \in Nat
  BY <1>1, <1>2 DEF MeterTyped
<1>6. p \in Periods /\ adder[a].limit \in Nat \cup {None}
  BY <1>5 DEF AdderType
<1> HIDE DEF new
<1>7. usage' \in [Periods -> Nat]
  BY <1>2, <1>5, <1>6
<1>8. ASSUME NEW q \in Periods
      PROVE  usage'[q] <= usage[q] \/ \E plan \in Had : Limit[plan] = None \/ usage'[q] <= Limit[plan]
  <2>1. usage[q] \in Nat
    BY <1>5
  <2>2. CASE within /\ q = p
    <3>1. PICK plan \in Had : adder[a].limit = Limit[plan]
      BY <1>1, <1>2 DEF Capped, Limited
    <3>3. usage'[q] = usage[q] + 1
      BY <1>2, <1>5, <2>2
    <3>4. adder[a].limit = None \/ usage[q] + 1 <= adder[a].limit
      BY <2>2
    <3> QED
      BY <3>1, <3>3, <3>4
  <2>3. CASE ~(within /\ q = p)
    BY <1>2, <1>5, <2>1, <2>3
  <2> QED
    BY <2>2, <2>3
<1>9. TroubleTyped' /\ blind' >= blind
  <2>1. blind \in Nat
    BY <1>1, AccountAssumption DEF TroubleTyped
  <2> QED
    BY <1>1, <1>2, <2>1, Quiet
<1>10. adder' = [adder EXCEPT ![a] = new] /\ UNCHANGED <<billing, month, operator, row>>
  BY <1>2
<1> QED
  BY <1>4, <1>5, <1>7, <1>8, <1>9, <1>10, AdderMoves

LEMMA InsertKeeps ==
    ASSUME Inv, NEW a \in Adders, Insert(a)
    PROVE  Inv'
<1> DEFINE refunding == [adder[a] EXCEPT !.at = "refunding"]
<1>1. BillingTyped /\ TroubleTyped /\ MeterTyped
  BY Parts DEF Inv
<1>2. adder[a] \in AdderType /\ usage \in [Periods -> Nat] /\ tracked \in Nat /\ blind \in Nat
  BY <1>1, AccountAssumption DEF MeterTyped, TroubleTyped
<1>3. refunding \in AdderType /\ refunding.at \notin Limited
  BY <1>2 DEF AdderType, Limited
<1>4. Over \in AdderType /\ Over.at \notin Limited
  BY OverIs DEF Limited
<1>5. UNCHANGED <<billing, month, usage, operator, row>> /\ \A p \in Periods : usage'[p] <= usage[p]
  BY <1>2 DEF Insert
<1>6. adder' = [adder EXCEPT ![a] = Over] \/ adder' = [adder EXCEPT ![a] = refunding]
  BY DEF Insert
<1>7. tracked' \in Nat
  BY <1>2 DEF Insert
<1>8. TroubleTyped' /\ blind' >= blind
  <2>1. CASE UNCHANGED trouble
    BY <1>1, <1>2, <2>1, Quiet
  <2>2. CASE Fault("answer")
    BY <1>1, <1>2, <2>2, FaultCounts
  <2> QED
    BY <2>1, <2>2 DEF Insert
<1> HIDE DEF refunding
<1>9. PICK new \in AdderType : new.at \notin Limited /\ adder' = [adder EXCEPT ![a] = new]
  BY <1>3, <1>4, <1>6
<1>10. usage' \in [Periods -> Nat]
  BY <1>2, <1>5
<1> QED
  BY <1>5, <1>7, <1>8, <1>9, <1>10, AdderMoves

LEMMA RefundKeeps ==
    ASSUME Inv, NEW a \in Adders, Refund(a)
    PROVE  Inv'
<1> DEFINE new == Over
<1>1. BillingTyped /\ TroubleTyped /\ MeterTyped
  BY Parts DEF Inv
<1>2. usage \in [Periods -> Nat] /\ month \in Periods /\ tracked \in Nat /\ blind \in Nat
  BY <1>1, AccountAssumption DEF MeterTyped, TroubleTyped
<1>3. adder' = [adder EXCEPT ![a] = new] /\ UNCHANGED <<billing, month, tracked, operator, row>>
  BY DEF Refund
<1>4. new \in AdderType /\ new.at \notin Limited
  BY OverIs DEF Limited
<1> HIDE DEF new
<1>5. usage' \in [Periods -> Nat] /\ \A p \in Periods : usage'[p] <= usage[p]
  <2>1. CASE usage' = [usage EXCEPT ![month] = IF @ = 0 THEN 0 ELSE @ - 1]
    BY <1>2, <2>1
  <2>2. CASE UNCHANGED usage
    BY <1>2, <2>2
  <2> QED
    BY <2>1, <2>2 DEF Refund
<1>6. TroubleTyped' /\ blind' >= blind
  <2>1. CASE UNCHANGED trouble
    BY <1>1, <1>2, <2>1, Quiet
  <2>2. CASE Fault("store")
    BY <1>1, <1>2, <2>2, FaultCounts
  <2> QED
    BY <2>1, <2>2 DEF Refund
<1> QED
  BY <1>2, <1>3, <1>4, <1>5, <1>6, AdderMoves

-----------------------------------------------------------------------------
(* What holds of every behaviour.                                           *)

LEMMA StutterKeeps ==
    ASSUME Inv, UNCHANGED vars
    PROVE  Inv'
<1>1. UNCHANGED <<billing, month, usage, adder, tracked, operator, row, trouble>>
  BY DEF vars, metering
<1>2. /\ RowTyped /\ TroubleTyped /\ MeterTyped /\ GrantWasPaid /\ Named /\ Capped /\ blind \in Nat
  BY Parts, AccountAssumption DEF Inv, TroubleTyped
<1>3. InForce' = InForce /\ Had' = Had
  BY <1>1, Unsaid DEF billing, Had, operator
<1>4. RowTyped' /\ GrantWasPaid' /\ Named' /\ MeterTyped'
  BY <1>1, <1>2, <1>3 DEF RowTyped, GrantWasPaid, InForce, Named, MeterTyped, billing, operator
<1>5. TroubleTyped' /\ blind' = blind
  BY <1>1, <1>2, Quiet
<1>6. Capped'
  BY <1>1, <1>2, <1>3 DEF Capped, WithinALimit, Had
<1> QED
  BY <1>1, <1>2, <1>4, <1>5, <1>6, MeteringKeeps

LEMMA NextInv ==
    ASSUME Inv, [Next]_vars
    PROVE  Inv'
<1>1. ASSUME NEW r \in Replicas, Handle(r) \/ Crash(r) \/ \E id \in Ids : Deliver(r, id)
      PROVE  Inv'
  BY <1>1, ClaimKeeps, ResolveKeeps, WriteKeeps, ReleaseKeeps, CrashKeeps, DeliverKeeps DEF Handle
<1>2. ASSUME NEW a \in Adders, Add(a)
      PROVE  Inv'
  BY <1>2, ReadRowKeeps, ReadOverrideKeeps, IncrementKeeps, InsertKeeps, RefundKeeps DEF Add
<1> QED
  BY <1>1, <1>2, StripeKeeps, MonthKeeps, OperatorKeeps, StutterKeeps DEF Next

THEOREM AlwaysInv == Spec => []Inv
<1>1. Inv /\ [Next]_vars => Inv'
  BY NextInv
<1> QED
  BY <1>1, InitInv, PTL DEF Spec

\* The account is what its variables say it is (the rows of BillingService and
\* UsageMeterService).
THEOREM AccountTypeCorrect == Spec => []TypeOK
<1>1. Inv => TypeOK
  BY DEF Inv
<1> QED
  BY <1>1, AlwaysInv, PTL

\* However often an event is delivered, to however many replicas, it is carried out
\* once, and again only for each statement that took effect though it failed
\* (#claimEvent).
THEOREM EventsAreAppliedOnce == Spec => []AppliedOnce
<1>1. Inv => AppliedOnce
  BY DEF Inv, Counted, AppliedOnce
<1> QED
  BY <1>1, AlwaysInv, PTL

\* No order of the events of Stripe, late, repeated or lost, puts a plan in force
\* that Stripe has not had in force for the tenant, whatever status an update
\* reports, but for the two exceptions that unpaid names (#processEvent).
THEOREM GrantsArePaid == Spec => []GrantWasPaid
<1>1. Inv => GrantWasPaid
  BY DEF Inv
<1> QED
  BY <1>1, AlwaysInv, PTL

\* Any number of concurrent additions stay within the highest limit of the plans the
\* tenant has had, by payment or by a grant of the operator, if all of them have
\* one (record, incrementUsageIfWithinLimit).
THEOREM UsageIsCapped == Spec => []WithinALimit
<1>1. Inv => WithinALimit
  BY DEF Inv, Capped
<1> QED
  BY <1>1, AlwaysInv, PTL

\* A claim without a handler is of an event that was settled, or that was lost by a
\* fault of the store or a crash, or answered while it was worked on: the failure of
\* a handler alone leaves no claim behind (#claimEvent, #releaseEvent).
THEOREM ClaimsAreNotOrphaned == Spec => []NoOrphanClaim
<1>1. Inv => NoOrphanClaim
  BY DEF Inv
<1> QED
  BY <1>1, AlwaysInv, PTL

-----------------------------------------------------------------------------
(* Sums over a finite set. What MapThenSumSet computes is a function on the *)
(* subsets; that it exists, and what it does when one value changes, is     *)
(* shown by going up through their sizes, since a set of numbers that fails *)
(* would have a least one.                                                  *)

LEMMA NatMin ==
    ASSUME NEW T \in SUBSET Nat, T # {}
    PROVE  \E n \in T : \A m \in T : n <= m
<1> DEFINE R == OpToRel(<, Nat)
<1>1. IsWellFoundedOn(R, Nat)
  BY NatLessThanWellFounded
<1>2. \A m, n \in Nat : m < n => <<m, n>> \in R
  BY DEF OpToRel
<1> HIDE DEF R
<1>3. \E n \in T : \A m \in T : ~(<<m, n>> \in R)
  BY <1>1, WFMin
<1>4. PICK n \in T : \A m \in T : ~(<<m, n>> \in R)
  BY <1>3
<1>5. \A m \in T : m \in Nat /\ n \in Nat /\ ~(m < n)
  BY <1>2, <1>4
<1> QED
  BY <1>5

\* Induction over a set of numbers.
LEMMA NatSteps ==
    ASSUME NEW T \in SUBSET Nat, 0 \in T, \A n \in T : n + 1 \in T
    PROVE  T = Nat
<1>1. SUFFICES ASSUME T # Nat PROVE FALSE
  OBVIOUS
<1>2. PICK n \in Nat \ T : \A m \in Nat \ T : n <= m
  BY <1>1, NatMin, Nat \ T \in SUBSET Nat, Nat \ T # {}
<1>3. n - 1 \in Nat /\ n - 1 \notin Nat \ T
  BY <1>2
<1> QED
  BY <1>2, <1>3, (n - 1) + 1 = n

\* f adds up the values of u over each of the sets in D, one element after the other.
AnyOf(s) == CHOOSE x \in s : TRUE
Adds(f, u, D) == f = [s \in D |-> IF s = {} THEN 0 ELSE u[AnyOf(s)] + f[s \ {AnyOf(s)}]]
\* The function MapThenSumSet stands for.
SumOver(u, S) == CHOOSE f : Adds(f, u, SUBSET S)

LEMMA Smaller ==
    ASSUME NEW s, IsFiniteSet(s), s # {}
    PROVE  /\ AnyOf(s) \in s /\ IsFiniteSet(s \ {AnyOf(s)})
           /\ Cardinality(s \ {AnyOf(s)}) = Cardinality(s) - 1 /\ Cardinality(s) \in Nat \ {0}
<1>1. AnyOf(s) \in s
  BY DEF AnyOf
<1>2. IsFiniteSet(s \ {AnyOf(s)}) /\ Cardinality(s \ {AnyOf(s)}) = Cardinality(s) - 1
  BY <1>1, FS_RemoveElement
<1>3. Cardinality(s) \in Nat /\ Cardinality(s) # 0
  BY FS_CardinalityType, FS_EmptySet
<1> QED
  BY <1>1, <1>2, <1>3

LEMMA SumExists ==
    ASSUME NEW S, IsFiniteSet(S), NEW u \in [S -> Nat]
    PROVE  \E f \in [SUBSET S -> Nat] : Adds(f, u, SUBSET S)
<1> DEFINE Upto(n) == {s \in SUBSET S : Cardinality(s) <= n}
           Good == {n \in Nat : \E f \in [Upto(n) -> Nat] : Adds(f, u, Upto(n))}
<1>1. \A s \in SUBSET S : IsFiniteSet(s) /\ Cardinality(s) \in Nat /\ Cardinality(s) <= Cardinality(S)
  BY FS_Subset, FS_CardinalityType
<1>2. 0 \in Good
  <2> DEFINE f == [s \in Upto(0) |-> 0]
  <2>1. \A s \in Upto(0) : s = {}
    BY <1>1, FS_EmptySet
  <2>2. f = [s \in Upto(0) |-> IF s = {} THEN 0 ELSE u[AnyOf(s)] + f[s \ {AnyOf(s)}]]
    BY <2>1
  <2>3. f \in [Upto(0) -> Nat]
    OBVIOUS
  <2> QED
    BY <2>2, <2>3 DEF Adds
<1>3. ASSUME NEW n \in Good PROVE n + 1 \in Good
  <2>1. PICK g \in [Upto(n) -> Nat] : Adds(g, u, Upto(n))
    OBVIOUS
  <2> DEFINE f == [s \in Upto(n + 1) |-> IF s = {} THEN 0 ELSE u[AnyOf(s)] + g[s \ {AnyOf(s)}]]
  <2>2. ASSUME NEW s \in Upto(n + 1), s # {}
        PROVE  s \ {AnyOf(s)} \in Upto(n) /\ u[AnyOf(s)] \in Nat
    BY <1>1, <2>2, Smaller
  <2>3. \A s \in Upto(n) : s \in Upto(n + 1)
    BY <1>1
  <2>4. f \in [Upto(n + 1) -> Nat]
    BY <2>2
  <2>5. \A s \in Upto(n) : f[s] = g[s]
    BY <2>1, <2>3 DEF Adds
  <2>6. f = [s \in Upto(n + 1) |-> IF s = {} THEN 0 ELSE u[AnyOf(s)] + f[s \ {AnyOf(s)}]]
    BY <2>2, <2>5
  <2> HIDE DEF f
  <2>8. n + 1 \in Nat
    OBVIOUS
  <2> HIDE DEF Upto
  <2>7. Adds(f, u, Upto(n + 1))
    BY <2>6 DEF Adds
  <2> QED
    BY <2>4, <2>7, <2>8
<1> HIDE DEF Good
<1>4. Good = Nat
  BY <1>2, <1>3, NatSteps, Good \in SUBSET Nat DEF Good
<1>5. PICK f \in [Upto(Cardinality(S)) -> Nat] : Adds(f, u, Upto(Cardinality(S)))
  BY <1>4, FS_CardinalityType DEF Good
<1>6. Upto(Cardinality(S)) = SUBSET S
  BY <1>1
<1> QED
  BY <1>5, <1>6

LEMMA SumOverAdds ==
    ASSUME NEW S, IsFiniteSet(S), NEW u \in [S -> Nat]
    PROVE  /\ SumOver(u, S) \in [SUBSET S -> Nat]
           /\ Adds(SumOver(u, S), u, SUBSET S)
<1>1. PICK f \in [SUBSET S -> Nat] : Adds(f, u, SUBSET S)
  BY SumExists
<1>2. Adds(SumOver(u, S), u, SUBSET S)
  BY <1>1 DEF SumOver
<1> DEFINE g == SumOver(u, S)
           Same == {n \in Nat : \A s \in SUBSET S : Cardinality(s) <= n => g[s] = f[s]}
<1>3. \A s \in SUBSET S : IsFiniteSet(s) /\ Cardinality(s) \in Nat
  BY FS_Subset, FS_CardinalityType
<1>4. 0 \in Same
  <2>1. \A s \in SUBSET S : Cardinality(s) <= 0 => s = {}
    BY <1>3, FS_EmptySet
  <2> QED
    BY <2>1, <1>1, <1>2 DEF Adds
<1>5. ASSUME NEW n \in Same PROVE n + 1 \in Same
  <2>0. n + 1 \in Nat
    OBVIOUS
  <2> HIDE DEF g
  <2> SUFFICES ASSUME NEW s \in SUBSET S, Cardinality(s) <= n + 1 PROVE g[s] = f[s]
    BY <2>0
  <2>9. CASE s = {}
    BY <2>9, <1>1, <1>2 DEF Adds, g
  <2> SUFFICES ASSUME s # {} PROVE g[s] = f[s]
    BY <2>9
  <2>1. s \ {AnyOf(s)} \in SUBSET S /\ Cardinality(s \ {AnyOf(s)}) <= n
    BY <1>3, Smaller
  <2>2. g[s \ {AnyOf(s)}] = f[s \ {AnyOf(s)}]
    BY <2>1
  <2> QED
    BY <2>2, <1>1, <1>2 DEF Adds, g
<1> HIDE DEF Same
<1>6. Same = Nat
  BY <1>4, <1>5, NatSteps, Same \in SUBSET Nat DEF Same
<1>7. \A s \in SUBSET S : g[s] = f[s]
  BY <1>6, <1>3 DEF Same
<1>8. g = [s \in SUBSET S |-> g[s]]
  BY <1>2 DEF Adds
<1>9. g \in [SUBSET S -> Nat]
  BY <1>7, <1>8
<1> QED
  BY <1>2, <1>9

\* A sum of the library is the value of that function.
LEMMA SumIs ==
    ASSUME NEW S, NEW u
    PROVE  MapThenSumSet(LAMBDA x : u[x], S) = SumOver(u, S)[S]
BY Zenon DEF MapThenSumSet, MapThenFoldSet, SumOver, Adds, AnyOf

\* A sum changes by as much as one of its values.
LEMMA SumChanges ==
    ASSUME NEW S, IsFiniteSet(S), NEW u \in [S -> Nat], NEW p \in S, NEW v \in Nat
    PROVE  SumOver([u EXCEPT ![p] = v], S)[S] + u[p] = SumOver(u, S)[S] + v
<1> DEFINE w == [u EXCEPT ![p] = v]
           f == SumOver(u, S)
           g == SumOver(w, S)
           Right(s) == IF p \in s THEN g[s] + u[p] = f[s] + v ELSE g[s] = f[s]
           Same == {n \in Nat : \A s \in SUBSET S : Cardinality(s) <= n => Right(s)}
<1>1. w \in [S -> Nat]
  OBVIOUS
<1>2. \A x \in S : w[x] = IF x = p THEN v ELSE u[x]
  OBVIOUS
<1> HIDE DEF w
<1>3. f \in [SUBSET S -> Nat] /\ Adds(f, u, SUBSET S)
  BY SumOverAdds
<1>4. g \in [SUBSET S -> Nat] /\ Adds(g, w, SUBSET S)
  BY <1>1, SumOverAdds
<1> HIDE DEF f, g
<1>5. \A s \in SUBSET S : IsFiniteSet(s) /\ Cardinality(s) \in Nat
  BY FS_Subset, FS_CardinalityType
<1>6. 0 \in Same
  <2>1. \A s \in SUBSET S : Cardinality(s) <= 0 => s = {}
    BY <1>5, FS_EmptySet
  <2> QED
    BY <2>1, <1>3, <1>4 DEF Adds
<1>7. ASSUME NEW n \in Same PROVE n + 1 \in Same
  <2>0. n + 1 \in Nat
    OBVIOUS
  <2> SUFFICES ASSUME NEW s \in SUBSET S, Cardinality(s) <= n + 1 PROVE Right(s)
    BY <2>0
  <2>9. CASE s = {}
    BY <2>9, <1>3, <1>4 DEF Adds
  <2> SUFFICES ASSUME s # {} PROVE Right(s)
    BY <2>9
  <2>1. PICK x \in s : x = AnyOf(s)
    BY <1>5, Smaller
  <2>2. s \ {x} \in SUBSET S /\ Cardinality(s \ {x}) <= n
    BY <1>5, <2>1, Smaller
  <2>3. Right(s \ {x})
    BY <2>2
  <2>4. f[s] = u[x] + f[s \ {x}] /\ g[s] = w[x] + g[s \ {x}]
    BY <2>1, <1>3, <1>4 DEF Adds
  <2>5. f[s \ {x}] \in Nat /\ g[s \ {x}] \in Nat /\ u[x] \in Nat /\ u[p] \in Nat /\ w[x] \in Nat
    BY <2>2, <1>3, <1>4, <1>1
  <2>6. CASE x = p
    BY <2>3, <2>4, <2>5, <2>6, <1>2
  <2>7. CASE x # p
    BY <2>3, <2>4, <2>5, <2>7, <1>2
  <2> QED
    BY <2>6, <2>7
<1> HIDE DEF Same
<1>8. Same = Nat
  BY <1>6, <1>7, NatSteps, Same \in SUBSET Nat DEF Same
<1>9. Right(S)
  BY <1>8, <1>5 DEF Same
<1> QED
  BY <1>9 DEF f, g, w

-----------------------------------------------------------------------------
(* What the meter counts.                                                   *)

\* The additions that have been metered and are neither added nor refunded.
Busy == {a \in Adders : adder[a].at \in {"inserting", "refunding"}}

Metered == SumOver(usage, Periods)[Periods]

\* What was counted is a name that was added, an addition that is not over, or the
\* work of a refund for an insert that took effect though it failed.
Covered == IsFiniteSet(Busy) /\ Metered + blind >= tracked + Cardinality(Busy)

LEMMA PeriodsAreFinite == IsFiniteSet(Periods)
<1>1. 1 \in Int /\ Months \in Int
  BY AccountAssumption
<1> QED
  BY <1>1, FS_Interval DEF Periods

LEMMA MeteredIs ==
    ASSUME usage \in [Periods -> Nat]
    PROVE  Metered \in Nat
<1>1. SumOver(usage, Periods) \in [SUBSET Periods -> Nat]
  BY PeriodsAreFinite, SumOverAdds
<1> QED
  BY <1>1 DEF Metered

LEMMA MeterMoves ==
    ASSUME usage \in [Periods -> Nat], NEW p \in Periods, NEW v \in Nat, usage' = [usage EXCEPT ![p] = v]
    PROVE  Metered' + usage[p] = Metered + v /\ Metered' \in Nat /\ Metered \in Nat
<1>1. SumOver([usage EXCEPT ![p] = v], Periods)[Periods] + usage[p] = SumOver(usage, Periods)[Periods] + v
  BY PeriodsAreFinite, SumChanges
<1>2. usage' \in [Periods -> Nat]
  OBVIOUS
<1>3. SumOver(usage', Periods) \in [SUBSET Periods -> Nat]
  BY <1>2, PeriodsAreFinite, SumOverAdds
<1>4. Metered' = SumOver([usage EXCEPT ![p] = v], Periods)[Periods]
  BY DEF Metered, Periods
<1>5. Metered' = SumOver(usage', Periods)[Periods]
  BY DEF Metered, Periods
<1> QED
  BY <1>1, <1>3, <1>4, <1>5, MeteredIs DEF Metered

\* A step of one addition takes it into the busy ones, out of them, or neither.
LEMMA BusyMoves ==
    ASSUME MeterTyped, IsFiniteSet(Busy), NEW a \in Adders, NEW new, adder' = [adder EXCEPT ![a] = new]
    PROVE  /\ IsFiniteSet(Busy') /\ Cardinality(Busy) \in Nat /\ Cardinality(Busy') \in Nat
           /\ Cardinality(Busy') + (IF adder[a].at \in {"inserting", "refunding"} THEN 1 ELSE 0)
                = Cardinality(Busy) + (IF new.at \in {"inserting", "refunding"} THEN 1 ELSE 0)
<1> DEFINE was == adder[a].at \in {"inserting", "refunding"}
           is  == new.at \in {"inserting", "refunding"}
<1>1. adder'[a] = new /\ \A b \in Adders : b # a => adder'[b] = adder[b]
  BY DEF MeterTyped
<1>2. Busy' = IF is THEN Busy \cup {a} ELSE Busy \ {a}
  BY <1>1 DEF Busy
<1>3. a \in Busy <=> was
  BY DEF Busy
<1> HIDE DEF was, is
<1>4. Cardinality(Busy) \in Nat
  BY FS_CardinalityType
<1>5. CASE is
  <2>1. IsFiniteSet(Busy') /\ Cardinality(Busy') = IF a \in Busy THEN Cardinality(Busy) ELSE Cardinality(Busy) + 1
    BY <1>2, <1>5, FS_AddElement
  <2> QED
    BY <1>3, <1>4, <1>5, <2>1 DEF was, is
<1>6. CASE ~is
  <2>1. IsFiniteSet(Busy') /\ Cardinality(Busy') = IF a \in Busy THEN Cardinality(Busy) - 1 ELSE Cardinality(Busy)
    BY <1>2, <1>6, FS_RemoveElement
  <2>2. Cardinality(Busy') \in Nat
    BY <2>1, FS_CardinalityType
  <2> QED
    BY <1>3, <1>4, <1>6, <2>1, <2>2 DEF was, is
<1> QED
  BY <1>5, <1>6

LEMMA CoveredAtFirst == ASSUME Init PROVE Covered
<1>1. Busy = {}
  BY DEF Init, Waiting, Busy
<1>2. usage \in [Periods -> Nat]
  BY DEF Init
<1>3. IsFiniteSet(Busy) /\ Cardinality(Busy) = 0
  BY <1>1, FS_EmptySet
<1> QED
  BY <1>2, <1>3, MeteredIs DEF Init, Covered

\* A step that touches neither the meter nor an addition.
LEMMA CoveredKept ==
    ASSUME Inv, Covered, UNCHANGED <<usage, adder, tracked>>, blind' \in Nat, blind' >= blind
    PROVE  Covered'
<1>1. Metered \in Nat /\ blind \in Nat /\ tracked \in Nat
  BY Parts, MeteredIs, AccountAssumption DEF Inv, MeterTyped, TroubleTyped
<1>2. Busy' = Busy /\ Metered' = Metered
  BY DEF Busy, Metered, Periods
<1>3. Cardinality(Busy) \in Nat
  BY FS_CardinalityType DEF Covered
<1> QED
  BY <1>1, <1>2, <1>3 DEF Covered

LEMMA CoveredStep ==
    ASSUME Inv, Inv', Covered, [Next]_vars
    PROVE  Covered'
<1>1. MeterTyped /\ TroubleTyped /\ MeterTyped' /\ TroubleTyped'
  BY Parts DEF Inv
<1>2. /\ usage \in [Periods -> Nat] /\ month \in Periods /\ tracked \in Nat /\ blind \in Nat
      /\ adder \in [Adders -> AdderType] /\ blind' \in Nat
  BY <1>1, AccountAssumption DEF MeterTyped, TroubleTyped
<1>3. Metered \in Nat /\ IsFiniteSet(Busy) /\ Metered + blind >= tracked + Cardinality(Busy)
  BY <1>2, MeteredIs DEF Covered
<1>4. \A kind : Fault(kind) => blind' >= blind
  BY <1>2 DEF Fault
<1>5. UNCHANGED trouble => blind' = blind
  BY DEF trouble
<1>6. ASSUME NEW a \in Adders, ReadRow(a) \/ ReadOverride(a)
      PROVE  Covered'
  <2>1. PICK new : new.at \in Limited /\ adder' = [adder EXCEPT ![a] = new]
    <3>1. CASE ReadRow(a)
      <4> DEFINE found == IF row = None THEN FreeRow ELSE row
                 took  == [at |-> "reading", period |-> month, limit |-> LimitOf(found)]
      <4>1. adder' = [adder EXCEPT ![a] = took]
        BY <3>1 DEF ReadRow
      <4>2. took.at \in Limited
        BY DEF Limited
      <4> QED
        BY <4>1, <4>2
    <3>2. CASE ReadOverride(a)
      <4> DEFINE took == [adder[a] EXCEPT !.at = "metering",
                             !.limit = IF override = None THEN adder[a].limit ELSE Limit[override]]
      <4>1. adder' = [adder EXCEPT ![a] = took]
        BY <1>2, <3>2 DEF ReadOverride, AdderType
      <4>2. took.at \in Limited
        BY <1>2 DEF Limited, AdderType
      <4> QED
        BY <4>1, <4>2
    <3> QED
      BY <1>6, <3>1, <3>2
  <2>2. adder[a].at \in {"idle", "reading"} /\ UNCHANGED <<usage, tracked, trouble>>
    BY <1>6 DEF ReadRow, ReadOverride
  <2>3. Metered' = Metered
    BY <2>2 DEF Metered, Periods
  <2>9. /\ IsFiniteSet(Busy') /\ Cardinality(Busy) \in Nat /\ Cardinality(Busy') \in Nat
        /\ Cardinality(Busy') + (IF adder[a].at \in {"inserting", "refunding"} THEN 1 ELSE 0)
             = Cardinality(Busy) + (IF new.at \in {"inserting", "refunding"} THEN 1 ELSE 0)
    BY <1>1, <1>3, <2>1, BusyMoves
  <2> QED
    BY <1>2, <1>3, <1>5, <2>1, <2>2, <2>3, <2>9 DEF Covered, Limited
<1>7. ASSUME NEW a \in Adders, Increment(a)
      PROVE  Covered'
  <2> DEFINE p      == adder[a].period
             within == adder[a].limit = None \/ usage[p] + 1 <= adder[a].limit
  <2>1. PICK new : /\ new.at = IF within THEN "inserting" ELSE "over"
                   /\ adder' = [adder EXCEPT ![a] = new]
    BY <1>7, OverIs DEF Increment, Waiting
  <2>2. /\ adder[a].at = "metering" /\ UNCHANGED <<tracked, trouble>>
        /\ usage' = IF within THEN [usage EXCEPT ![p] = usage[p] + 1] ELSE usage
    BY <1>7 DEF Increment
  <2>3. p \in Periods /\ usage[p] \in Nat
    BY <1>2 DEF AdderType
  <2>4. Metered' = IF within THEN Metered + 1 ELSE Metered
    <3>1. CASE within
      <4>1. usage[p] + 1 \in Nat /\ usage' = [usage EXCEPT ![p] = usage[p] + 1]
        BY <2>2, <2>3, <3>1
      <4> HIDE DEF p, within
      <4>2. Metered' + usage[p] = Metered + (usage[p] + 1) /\ Metered' \in Nat
        BY <1>2, <2>3, <4>1, MeterMoves
      <4> QED
        BY <1>3, <2>3, <3>1, <4>2
    <3>2. CASE ~within
      BY <2>2, <3>2 DEF Metered, Periods
    <3> QED
      BY <3>1, <3>2
  <2> HIDE DEF within
  <2>9. /\ IsFiniteSet(Busy') /\ Cardinality(Busy) \in Nat /\ Cardinality(Busy') \in Nat
        /\ Cardinality(Busy') + (IF adder[a].at \in {"inserting", "refunding"} THEN 1 ELSE 0)
             = Cardinality(Busy) + (IF new.at \in {"inserting", "refunding"} THEN 1 ELSE 0)
    BY <1>1, <1>3, <2>1, BusyMoves
  <2> QED
    BY <1>2, <1>3, <1>5, <2>1, <2>2, <2>4, <2>9 DEF Covered
<1>8. ASSUME NEW a \in Adders, Insert(a)
      PROVE  Covered'
  <2>1. adder[a].at = "inserting" /\ UNCHANGED usage
    BY <1>8 DEF Insert
  <2>2. Metered' = Metered
    BY <2>1 DEF Metered, Periods
  <2>3. PICK new : /\ adder' = [adder EXCEPT ![a] = new]
                   /\ \/ new.at = "over" /\ tracked' = tracked + 1 /\ blind' = blind
                      \/ new.at = "refunding" /\ tracked' = tracked /\ blind' = blind
                      \/ new.at = "refunding" /\ tracked' = tracked + 1 /\ blind' = blind + 1
    <3>1. adder[a] \in AdderType
      BY <1>2
    <3>2. [adder[a] EXCEPT !.at = "refunding"].at = "refunding" /\ Over.at = "over"
      BY <3>1, OverIs DEF AdderType
    <3>3. Fault("answer") => blind' = blind + 1
      BY DEF Fault
    <3> QED
      BY <1>5, <1>8, <3>2, <3>3 DEF Insert
  <2>9. /\ IsFiniteSet(Busy') /\ Cardinality(Busy) \in Nat /\ Cardinality(Busy') \in Nat
        /\ Cardinality(Busy') + (IF adder[a].at \in {"inserting", "refunding"} THEN 1 ELSE 0)
             = Cardinality(Busy) + (IF new.at \in {"inserting", "refunding"} THEN 1 ELSE 0)
    BY <1>1, <1>3, <2>3, BusyMoves
  <2> QED
    BY <1>2, <1>3, <2>1, <2>2, <2>3, <2>9 DEF Covered
<1>9. ASSUME NEW a \in Adders, Refund(a)
      PROVE  Covered'
  <2>1. adder[a].at = "refunding" /\ UNCHANGED tracked /\ blind' >= blind
    BY <1>2, <1>4, <1>5, <1>9 DEF Refund
  <2>2. PICK new : new.at = "over" /\ adder' = [adder EXCEPT ![a] = new]
    BY <1>9, OverIs DEF Refund
  <2>3. Metered' \in Nat /\ Metered' >= Metered - 1
    <3>1. CASE UNCHANGED usage
      BY <1>3, <3>1 DEF Metered, Periods
    <3>2. CASE usage' = [usage EXCEPT ![month] = IF @ = 0 THEN 0 ELSE @ - 1]
      <4>1. PICK v \in Nat : v = IF usage[month] = 0 THEN 0 ELSE usage[month] - 1
        BY <1>2
      <4>2. usage' = [usage EXCEPT ![month] = v] /\ usage[month] \in Nat
        BY <1>2, <3>2, <4>1
      <4>3. Metered' + usage[month] = Metered + v /\ Metered' \in Nat
        BY <1>2, <4>2, MeterMoves
      <4> QED
        BY <1>3, <4>1, <4>2, <4>3
    <3> QED
      BY <1>9, <3>1, <3>2 DEF Refund
  <2>9. /\ IsFiniteSet(Busy') /\ Cardinality(Busy) \in Nat /\ Cardinality(Busy') \in Nat
        /\ Cardinality(Busy') + (IF adder[a].at \in {"inserting", "refunding"} THEN 1 ELSE 0)
             = Cardinality(Busy) + (IF new.at \in {"inserting", "refunding"} THEN 1 ELSE 0)
    BY <1>1, <1>3, <2>2, BusyMoves
  <2> QED
    BY <1>2, <1>3, <2>1, <2>2, <2>3, <2>9 DEF Covered
<1>10. ASSUME NEW r \in Replicas, Handle(r) \/ Crash(r) \/ \E id \in Ids : Deliver(r, id)
       PROVE  Covered'
  <2>1. UNCHANGED <<usage, adder, tracked>>
    BY <1>10 DEF Handle, Claim, Resolve, Write, Release, Crash, Deliver, metering
  <2>2. UNCHANGED trouble \/ \E kind : Fault(kind)
    BY <1>10 DEF Handle, Claim, Resolve, Write, Release, Crash, Deliver
  <2> QED
    BY <1>2, <1>4, <1>5, <2>1, <2>2, CoveredKept
<1>11. CASE StripeActs
  <2>1. UNCHANGED <<usage, adder, tracked, trouble>>
    BY <1>11 DEF StripeActs, Sends, metering
  <2> QED
    BY <1>2, <1>5, <2>1, CoveredKept
<1>12. CASE NextMonth \/ OperatorActs
  BY <1>2, <1>5, <1>12, CoveredKept DEF NextMonth, OperatorActs
<1>13. CASE UNCHANGED vars
  BY <1>2, <1>5, <1>13, CoveredKept DEF vars, metering
<1> QED
  BY <1>6, <1>7, <1>8, <1>9, <1>10, <1>11, <1>12, <1>13 DEF Next, Add

THEOREM AlwaysCovered == Spec => []Covered
<1>1. Inv /\ Inv' /\ Covered /\ [Next]_vars => Covered'
  BY CoveredStep
<1> QED
  BY <1>1, CoveredAtFirst, AlwaysInv, PTL DEF Spec

\* Over all billing periods the meter never counts fewer names than were added:
\* what refunds give back was taken (refundTracked), except for an insert that took
\* effect though it failed.
THEOREM MeterCovers == Spec => []MeterCoversTracked
<1>1. Inv /\ Covered => MeterCoversTracked
  <2> SUFFICES ASSUME Inv, Covered PROVE MeterCoversTracked
    OBVIOUS
  <2>1. MapThenSumSet(LAMBDA p : usage[p], Periods) = Metered
    BY SumIs DEF Metered
  <2>2. usage \in [Periods -> Nat] /\ tracked \in Nat /\ blind \in Nat
    BY Parts, AccountAssumption DEF Inv, MeterTyped, TroubleTyped
  <2>3. Metered \in Nat /\ Cardinality(Busy) \in Nat
    BY <2>2, MeteredIs, FS_CardinalityType DEF Covered
  <2> QED
    BY <2>1, <2>2, <2>3 DEF Covered, MeterCoversTracked
<1> QED
  BY <1>1, AlwaysInv, AlwaysCovered, PTL

=============================================================================
