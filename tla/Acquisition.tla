------------------------------ MODULE Acquisition ------------------------------
(***************************************************************************)
(* One domain of one tenant on its way into the portfolio: bids            *)
(* (AcquisitionService), purchases (PurchaseService), and the portfolio    *)
(* entry with its outcomes.  What a won bid or a purchase then triggers,   *)
(* without waiting for it, is PostAcquisition.                             *)
(*                                                                         *)
(* A call stops at each await, and other calls run there.  On SQLite the   *)
(* statements of a resolved bid are one step; on Postgres each commits     *)
(* alone, since the repositories do not use the transaction they are in.   *)
(***************************************************************************)
EXTENDS Naturals, FiniteSetsExt, SequencesExt

CONSTANTS
    Calls,        \* calls of place, resolve and execute
    Backends,     \* a subset of "sqlite", "postgres"
    MaxBids,      \* bound: rows of bids
    MaxAdds,      \* bound: times the domain enters the portfolio
    MaxRemovals,  \* bound: removals at once
    MaxFaults     \* bound: statements that fail, lost answers and crashes

ASSUME AcquisitionAssumption ==
    /\ Backends \subseteq {"sqlite", "postgres"} /\ Backends # {}
    /\ IsFiniteSet(Calls) /\ {MaxBids, MaxAdds, MaxRemovals, MaxFaults} \subseteq Nat

VARIABLES
    backend,
    bids,      \* rows of bids, the latest last
    entry,     \* the row of portfolio_entries
    outcomes,  \* "purchased" rows of outcomes
    call,      \* where each call is
    bought,    \* the registrar has sold the domain to us
    removing,  \* removals between their two statements
    adds,      \* times the domain has entered the portfolio (history)
    booked,    \* outcomes ever inserted (history)
    crossed,   \* a call has added and booked under a removal (history)
    dropped,   \* a removal has taken out the entry of a sold domain (history)
    faults

portfolio == <<entry, outcomes, removing, adds, booked, crossed, dropped>>
sales     == <<backend, bids, bought, portfolio>>
vars      == <<sales, call, faults>>

TypeOK ==
    /\ backend \in Backends
    /\ bids \in Seq({"pending", "won", "lost"}) /\ Len(bids) <= MaxBids
    /\ {entry, bought, crossed, dropped} \subseteq BOOLEAN
    /\ {outcomes, booked, adds} \subseteq 0 .. MaxAdds /\ removing \in 0 .. MaxRemovals
    /\ call \in [Calls -> [at: {"idle", "gate", "insert", "resolve", "mark", "sale", "add", "check", "book", "over"},
                           for: {"place", "won", "lost", "buy"}, row: 0 .. MaxBids]]
    /\ faults \in 0 .. MaxFaults

Init ==
    /\ backend \in Backends
    /\ bids = <<>> /\ entry = FALSE /\ outcomes = 0 /\ bought = FALSE /\ removing = 0
    /\ call = [c \in Calls |-> [at |-> "idle", for |-> "place", row |-> 0]]
    /\ adds = 0 /\ booked = 0 /\ crossed = FALSE /\ dropped = FALSE
    /\ faults = 0

-----------------------------------------------------------------------------
(* Bids and purchases.                                                      *)

Go(c, at) == call' = [call EXCEPT ![c].at = at]

Pending == bids # <<>> /\ Last(bids) = "pending"

\* place: no bid may be pending when the call begins.
Place(c) ==
    /\ call[c].at = "idle"
    /\ call' = [call EXCEPT ![c] = [at |-> IF Pending THEN "over" ELSE "gate", for |-> "place", row |-> 0]]
    /\ UNCHANGED <<sales, faults>>

\* The trademark gate is asked; anything but Clear, an error too, ends the call.
Gate(c) ==
    /\ call[c].at = "gate"
    /\ \/ Go(c, "over")
       \/ call[c].for = "place" /\ Go(c, "insert")
       \/ call[c].for = "buy" /\ \E at \in {"sale", "add"} : Go(c, at)   \* "add": the manual registrar
    /\ UNCHANGED <<sales, faults>>

InsertBid(c) ==
    /\ call[c].at = "insert" /\ Len(bids) < MaxBids
    /\ bids' = Append(bids, "pending")
    /\ Go(c, "over")
    /\ UNCHANGED <<portfolio, backend, bought, faults>>

\* resolve: the latest bid must be pending when the call begins.
Resolve(c) ==
    /\ call[c].at = "idle" /\ bids # <<>>
    /\ \E how \in {"won", "lost"} :
          call' = [call EXCEPT ![c] = [at |-> IF Pending THEN "resolve" ELSE "over", for |-> how, row |-> 0]]
    /\ UNCHANGED <<sales, faults>>

Buy(c) ==
    /\ call[c].at = "idle"
    /\ call' = [call EXCEPT ![c] = [at |-> "gate", for |-> "buy", row |-> 0]]
    /\ UNCHANGED <<sales, faults>>

\* A variant that leaves the entry out.
SaleThenOutcome(c) ==
    /\ call[c].at = "sale"
    /\ \/ Go(c, "over") /\ UNCHANGED bought
       \/ ~bought /\ bought' = TRUE /\ Go(c, "check")
    /\ UNCHANGED <<portfolio, backend, bids, faults>>

\* The registrar refuses, or sells the domain; it sells it once.
Sale(c) ==
    /\ call[c].at = "sale"
    /\ \/ Go(c, "over") /\ UNCHANGED bought
       \/ ~bought /\ bought' = TRUE /\ Go(c, "add")
    /\ UNCHANGED <<portfolio, backend, bids, faults>>

\* The entry goes in, under the unique key of its domain.
Entered ==
    /\ ~entry /\ adds < MaxAdds
    /\ entry' = TRUE /\ adds' = adds + 1
    /\ crossed' = (crossed \/ removing > 0)
    /\ UNCHANGED <<removing, dropped>>

\* The row is updated whatever its status has become.
Settled(row, how) == bids' = [bids EXCEPT ![row] = how]

Booked == outcomes' = outcomes + 1 /\ booked' = booked + 1

ResolveWithoutRollback(c) ==
    /\ call[c].at = "resolve" /\ backend = "sqlite"
    /\ Go(c, "over") /\ Settled(Len(bids), call[c].for)
    /\ \/ (call[c].for = "lost" \/ entry) /\ UNCHANGED portfolio
       \/ call[c].for = "won" /\ Entered /\ Booked
    /\ UNCHANGED <<backend, bought, faults>>

\* The transaction on SQLite: a won bid's duplicate entry rolls it back.
ResolveAtOnce(c) ==
    /\ call[c].at = "resolve" /\ backend = "sqlite"
    /\ Go(c, "over")
    /\ \/ call[c].for = "lost" /\ Settled(Len(bids), "lost") /\ UNCHANGED portfolio
       \/ call[c].for = "won" /\ entry /\ UNCHANGED <<bids, portfolio>>
       \/ call[c].for = "won" /\ Settled(Len(bids), "won") /\ Entered /\ Booked
    /\ UNCHANGED <<backend, bought, faults>>

\* On Postgres the latest row is looked up again, updated, and that commits alone.
LookAgain(c) ==
    /\ call[c].at = "resolve" /\ backend = "postgres"
    /\ call' = [call EXCEPT ![c].at = "mark", ![c].row = Len(bids)]
    /\ UNCHANGED <<sales, faults>>

Mark(c) ==
    /\ call[c].at = "mark"
    /\ Settled(call[c].row, call[c].for)
    /\ Go(c, IF call[c].for = "won" THEN "add" ELSE "over")
    /\ UNCHANGED <<portfolio, backend, bought, faults>>

\* A variant that takes a duplicate for its own.
AddOrReplace(c) ==
    /\ call[c].at = "add" /\ Go(c, "check")
    /\ Entered \/ (entry /\ UNCHANGED <<entry, removing, adds, crossed, dropped>>)
    /\ UNCHANGED <<backend, bids, outcomes, bought, booked, faults>>

\* The entry of a purchase, or of a won bid on Postgres: a duplicate ends the call.
AddEntry(c) ==
    /\ call[c].at = "add"
    /\ \/ Entered /\ Go(c, "check")
       \/ entry /\ Go(c, "over") /\ UNCHANGED <<entry, removing, adds, crossed, dropped>>
    /\ UNCHANGED <<backend, bids, outcomes, bought, booked, faults>>

\* OutcomeRepository.insert looks for the entry first.
CheckEntry(c) ==
    /\ call[c].at = "check"
    /\ Go(c, IF entry THEN "book" ELSE "over")
    /\ UNCHANGED <<sales, faults>>

Book(c) ==
    /\ call[c].at = "book"
    /\ Booked /\ Go(c, "over")
    /\ UNCHANGED <<backend, bids, entry, bought, adds, removing, crossed, dropped, faults>>

CallFails(c) ==
    /\ call[c].at \notin {"idle", "over"} /\ faults < MaxFaults
    /\ faults' = faults + 1 /\ Go(c, "over")
    /\ UNCHANGED <<sales>>

\* The statement, or the sale, takes effect and the call fails all the same.
AnswerLost(c) ==
    /\ faults < MaxFaults
    /\ faults' = faults + 1 /\ Go(c, "over")
    /\ \/ call[c].at = "sale" /\ ~bought /\ bought' = TRUE /\ UNCHANGED <<bids, portfolio>>
       \/ call[c].at = "mark" /\ Settled(call[c].row, call[c].for) /\ UNCHANGED <<bought, portfolio>>
       \/ call[c].at = "add" /\ Entered /\ UNCHANGED <<bids, bought, outcomes, booked>>
    /\ UNCHANGED backend

AddByHand ==
    /\ ~entry /\ adds < MaxAdds
    /\ entry' = TRUE /\ adds' = adds + 1
    /\ UNCHANGED <<backend, bids, outcomes, call, bought, booked, removing, crossed, dropped, faults>>

\* Calls between their entry and their outcome.
Owing == {c \in Calls : call[c].at \in {"check", "book"}}

\* remove: the outcomes of the domain, then its entry.
RemoveOutcomes ==
    /\ entry /\ removing < MaxRemovals
    /\ removing' = removing + 1 /\ outcomes' = 0
    /\ crossed' = (crossed \/ Owing # {})
    /\ UNCHANGED <<backend, bids, entry, call, bought, adds, booked, dropped, faults>>

RemoveEntry ==
    /\ removing > 0
    /\ removing' = removing - 1 /\ entry' = FALSE
    /\ dropped' = (dropped \/ (entry /\ bought))
    /\ UNCHANGED <<backend, bids, outcomes, call, bought, adds, booked, crossed, faults>>

RemoveFails ==
    /\ removing > 0 /\ faults < MaxFaults
    /\ removing' = removing - 1 /\ faults' = faults + 1
    /\ UNCHANGED <<backend, bids, bought, entry, outcomes, adds, booked, crossed, dropped, call>>

CallStep(c) ==
    \/ Place(c) \/ Gate(c) \/ InsertBid(c) \/ Resolve(c) \/ Buy(c) \/ Sale(c)
    \/ ResolveAtOnce(c) \/ LookAgain(c) \/ Mark(c) \/ AddEntry(c) \/ CheckEntry(c) \/ Book(c)
    \/ CallFails(c) \/ AnswerLost(c)

Next ==
    \/ \E c \in Calls : CallStep(c)
    \/ AddByHand \/ RemoveOutcomes \/ RemoveEntry \/ RemoveFails

Spec == Init /\ [][Next]_vars

-----------------------------------------------------------------------------
(* Properties.                                                              *)

\* However bids, purchases, manual entries and failures meet, a domain has one "purchased"
\* outcome at most, and none without its entry, as long as no call adds and books under
\* a removal.
OneOutcome == ~crossed => outcomes <= IF entry THEN 1 ELSE 0

\* On SQLite every won bid has its outcome: no resolution stops half-way, and none
\* is won for a domain that was there already.
WonIsBooked ==
    backend = "sqlite" => Cardinality({i \in DOMAIN bids : bids[i] = "won"}) <= booked

\* A domain that the registrar has sold is in the portfolio, by the entry of the call or
\* by one it found there, until a removal takes that entry out; unless a statement
\* fails or a process dies right after the sale.
PaidIsTracked ==
    (bought /\ faults = 0) => (entry \/ dropped \/ \E c \in Calls : call[c].at = "add")

=============================================================================
