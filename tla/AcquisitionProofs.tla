--------------------------- MODULE AcquisitionProofs ---------------------------
(***************************************************************************)
(* What holds of bids, purchases and the portfolio for any number of calls *)
(* at once.                                                                *)
(***************************************************************************)
EXTENDS Acquisition, FiniteSetTheorems, TLAPS

Places   == {"idle", "gate", "insert", "resolve", "mark", "sale", "add", "check", "book", "over"}
Kinds    == {"place", "won", "lost", "buy"}
CallType == [at: Places, for: Kinds, row: 0 .. MaxBids]
BidSeq   == Seq({"pending", "won", "lost"})

\* Calls that have added an entry and not booked its outcome yet.
Owes(x)  == x.at \in {"check", "book"}
Won(b)   == {i \in DOMAIN b : b[i] = "won"}

\* Every outcome was booked for a time that the domain came in.
Counted == booked + Cardinality(Owing) <= adds /\ outcomes <= booked

\* Unless they met a removal, the entry has one outcome at most, those still to be booked
\* included, and none while it is being removed.
Fit ==
    ~crossed => /\ outcomes + Cardinality(Owing) <= IF entry THEN 1 ELSE 0
                /\ removing > 0 => outcomes = 0 /\ Owing = {}

\* A call that settles a bid has one to settle.
Aimed ==
    \A c \in Calls :
        /\ call[c].at \in {"resolve", "mark"} => call[c].for \in {"won", "lost"}
        /\ call[c].at = "resolve" => Len(bids) > 0
        /\ call[c].at = "mark" => backend = "postgres" /\ call[c].row \in 1 .. Len(bids)

\* The inductive invariant.
Inv == TypeOK /\ Counted /\ Fit /\ Aimed /\ WonIsBooked /\ PaidIsTracked

\* The types, each variable by itself.
Typed ==
    /\ backend \in Backends
    /\ bids \in BidSeq /\ Len(bids) <= MaxBids
    /\ entry \in BOOLEAN /\ bought \in BOOLEAN /\ crossed \in BOOLEAN /\ dropped \in BOOLEAN
    /\ outcomes \in 0 .. MaxAdds /\ booked \in 0 .. MaxAdds /\ adds \in 0 .. MaxAdds
    /\ removing \in 0 .. MaxRemovals
    /\ call \in [Calls -> CallType]
    /\ faults \in 0 .. MaxFaults

LEMMA Types == (TypeOK <=> Typed) /\ (TypeOK' <=> Typed')
BY DEF TypeOK, Typed, BidSeq, CallType, Places, Kinds

LEMMA Bounds == MaxBids \in Nat /\ MaxAdds \in Nat /\ MaxRemovals \in Nat /\ MaxFaults \in Nat
BY AcquisitionAssumption

LEMMA OwingFinite == IsFiniteSet(Owing) /\ Cardinality(Owing) \in Nat
BY FS_Subset, FS_CardinalityType, AcquisitionAssumption DEF Owing

\* One call moves: how many owe an outcome.
LEMMA OwingMoves ==
    ASSUME NEW c \in Calls, \A x \in Calls : x # c => call'[x] = call[x]
    PROVE  /\ Cardinality(Owing') \in Nat /\ Cardinality(Owing) \in Nat
           /\ (Owes(call'[c]) => Owes(call[c])) => Owing' \subseteq Owing
           /\ (Owes(call[c]) <=> Owes(call'[c])) => Cardinality(Owing') = Cardinality(Owing)
           /\ Owes(call[c]) /\ ~Owes(call'[c]) => Cardinality(Owing') = Cardinality(Owing) - 1
           /\ ~Owes(call[c]) /\ Owes(call'[c]) => Cardinality(Owing') = Cardinality(Owing) + 1
<1>1. IsFiniteSet(Owing) /\ Cardinality(Owing) \in Nat
  BY OwingFinite
<1>2. CASE Owes(call[c]) <=> Owes(call'[c])
  <2>1. Owing' = Owing
    BY <1>2 DEF Owing, Owes
  <2> QED
    BY <1>1, <1>2, <2>1
<1>3. CASE Owes(call[c]) /\ ~Owes(call'[c])
  <2>1. Owing' = Owing \ {c} /\ c \in Owing
    BY <1>3 DEF Owing, Owes
  <2>2. Cardinality(Owing') = Cardinality(Owing) - 1 /\ Cardinality(Owing') \in Nat
    BY <1>1, <2>1, FS_RemoveElement, FS_CardinalityType
  <2>3. Owing' \subseteq Owing
    BY <2>1
  <2> QED
    BY <1>1, <1>3, <2>2, <2>3
<1>4. CASE ~Owes(call[c]) /\ Owes(call'[c])
  <2>1. Owing' = Owing \cup {c} /\ c \notin Owing
    BY <1>4 DEF Owing, Owes
  <2>2. Cardinality(Owing') = Cardinality(Owing) + 1
    BY <1>1, <2>1, FS_AddElement
  <2> QED
    BY <1>1, <1>4, <2>2
<1>5. (Owes(call'[c]) => Owes(call[c])) => Owing' \subseteq Owing
  BY DEF Owing, Owes
<1> QED
  BY <1>2, <1>3, <1>4, <1>5

\* One bid is settled, or a pending one is added: how many are won.
LEMMA WonFinite ==
    ASSUME NEW b \in BidSeq
    PROVE  IsFiniteSet(Won(b)) /\ Cardinality(Won(b)) \in Nat
<1>1. Won(b) \in SUBSET (1 .. Len(b)) /\ Len(b) \in Int
  BY DEF Won, BidSeq
<1>2. IsFiniteSet(1 .. Len(b))
  BY <1>1, FS_Interval
<1> QED
  BY <1>1, <1>2, FS_Subset, FS_CardinalityType

LEMMA WonSettled ==
    ASSUME NEW b \in BidSeq, NEW k \in 1 .. Len(b), NEW how \in {"won", "lost"}
    PROVE  /\ [b EXCEPT ![k] = how] \in BidSeq
           /\ Len([b EXCEPT ![k] = how]) = Len(b)
           /\ how = "won" => Cardinality(Won([b EXCEPT ![k] = how])) <= Cardinality(Won(b)) + 1
           /\ how = "lost" => Cardinality(Won([b EXCEPT ![k] = how])) <= Cardinality(Won(b))
<1> DEFINE d == [b EXCEPT ![k] = how]
<1>0. "won" # "lost" /\ b \in [1 .. Len(b) -> {"pending", "won", "lost"}] /\ DOMAIN b = 1 .. Len(b)
  BY DEF BidSeq
<1>1. d \in BidSeq /\ Len(d) = Len(b) /\ DOMAIN d = DOMAIN b
  BY DEF BidSeq
<1>2. IsFiniteSet(Won(b)) /\ Cardinality(Won(b)) \in Nat
  BY WonFinite
<1>3. CASE how = "won"
  <2>1. \A i \in 1 .. Len(b) : d[i] = IF i = k THEN "won" ELSE b[i]
    BY <1>3 DEF BidSeq
  <2>2. Won(d) = Won(b) \cup {k}
    BY <1>1, <2>1 DEF Won, BidSeq
  <2>3. Cardinality(Won(d)) = IF k \in Won(b) THEN Cardinality(Won(b)) ELSE Cardinality(Won(b)) + 1
    BY <1>2, <2>2, FS_AddElement
  <2> HIDE DEF d
  <2>4. Cardinality(Won(d)) <= Cardinality(Won(b)) + 1
    BY <1>2, <2>3
  <2> QED
    BY <1>0, <1>1, <1>3, <2>4 DEF d
<1>4. CASE how = "lost"
  <2>1. \A i \in 1 .. Len(b) : d[i] = IF i = k THEN "lost" ELSE b[i]
    BY <1>4 DEF BidSeq
  <2>2. Won(d) = Won(b) \ {k}
    BY <1>1, <2>1 DEF Won, BidSeq
  <2>3. Cardinality(Won(d)) = IF k \in Won(b) THEN Cardinality(Won(b)) - 1 ELSE Cardinality(Won(b))
    BY <1>2, <2>2, FS_RemoveElement
  <2> HIDE DEF d
  <2>4. Cardinality(Won(d)) <= Cardinality(Won(b))
    BY <1>2, <2>3
  <2> QED
    BY <1>0, <1>1, <1>4, <2>4 DEF d
<1> QED
  BY <1>3, <1>4

LEMMA WonAppended ==
    ASSUME NEW b \in BidSeq
    PROVE  Append(b, "pending") \in BidSeq /\ Won(Append(b, "pending")) = Won(b)
<1> DEFINE d == Append(b, "pending")
<1>1. /\ d \in BidSeq /\ Len(b) \in Nat
      /\ DOMAIN b = 1 .. Len(b) /\ DOMAIN d = 1 .. Len(b) + 1
      /\ \A i \in 1 .. Len(b) : d[i] = b[i]
      /\ d[Len(b) + 1] = "pending"
  BY DEF BidSeq
<1> HIDE DEF d
<1>2. Won(d) = Won(b)
  BY <1>1 DEF Won
<1> QED
  BY <1>1, <1>2 DEF d

LEMMA InitInv == Init => Inv
<1> SUFFICES ASSUME Init PROVE Inv
  OBVIOUS
<1>1. TypeOK
  <2>1. bids \in BidSeq /\ Len(bids) = 0
    BY DEF Init, BidSeq
  <2>2. call \in [Calls -> CallType]
    BY AcquisitionAssumption DEF Init, CallType, Places, Kinds
  <2>3. {entry, bought, crossed, dropped} \subseteq BOOLEAN /\ backend \in Backends
    BY DEF Init
  <2>4. 0 \in 0 .. MaxAdds /\ 0 \in 0 .. MaxFaults /\ 0 \in 0 .. MaxRemovals /\ 0 <= MaxBids
    BY Bounds
  <2>5. outcomes = 0 /\ booked = 0 /\ adds = 0 /\ removing = 0 /\ faults = 0
    BY DEF Init
  <2> QED
    BY <2>1, <2>2, <2>3, <2>4, <2>5, Types DEF Typed
<1>2. Owing = {} /\ Won(bids) = {}
  BY DEF Init, Owing, Owes, Won
<1>3. Cardinality({}) = 0
  BY FS_EmptySet
<1>4. Counted /\ Fit
  BY <1>2, <1>3 DEF Init, Counted, Fit
<1>5. WonIsBooked
  BY <1>2, <1>3 DEF Init, WonIsBooked, Won
<1> QED
  BY <1>1, <1>4, <1>5 DEF Init, Inv, Aimed, PaidIsTracked

\* A sale stays tracked while its entry goes only by a removal, and its call brings one in.
LEMMA StaysTracked ==
    ASSUME TypeOK, TypeOK', PaidIsTracked, bought' = bought, faults' >= faults,
           entry => entry' \/ dropped' \/ ~bought, dropped => dropped',
           \A c \in Calls : call[c].at = "add" /\ call'[c].at # "add" => entry' \/ faults' # 0
    PROVE  PaidIsTracked'
<1>1. faults \in Nat /\ faults' \in Nat
  BY Types, Bounds DEF Typed
<1> SUFFICES ASSUME bought', faults' = 0
             PROVE  entry' \/ dropped' \/ \E c \in Calls : call'[c].at = "add"
  BY DEF PaidIsTracked
<1>2. bought /\ faults = 0
  BY <1>1
<1>3. CASE entry \/ dropped
  BY <1>2, <1>3
<1>4. CASE \E c \in Calls : call[c].at = "add"
  BY <1>4
<1> QED
  BY <1>2, <1>3, <1>4 DEF PaidIsTracked

\* A call goes on, and at most a bid with it, without a change to the portfolio.
LEMMA CallMoves ==
    ASSUME Inv, NEW c \in Calls, NEW v \in CallType, call' = [call EXCEPT ![c] = v],
           UNCHANGED <<portfolio, backend, bought>>,
           bids' \in BidSeq, Len(bids') >= Len(bids), Len(bids') <= MaxBids,
           backend = "sqlite" => Cardinality(Won(bids')) <= Cardinality(Won(bids)),
           faults' \in 0 .. MaxFaults, faults' >= faults,
           Owes(v) => Owes(call[c]),
           v.at \in {"resolve", "mark"} => v.for \in {"won", "lost"},
           v.at = "resolve" => Len(bids) > 0,
           v.at = "mark" => backend = "postgres" /\ v.row \in 1 .. Len(bids),
           call[c].at = "add" /\ v.at # "add" => entry \/ faults' # 0
    PROVE  Inv'
<1>1. call \in [Calls -> CallType] /\ Len(bids) \in Nat /\ Len(bids') \in Nat
  BY Types DEF Inv, Typed, BidSeq
<1>2. call'[c] = v /\ \A x \in Calls : x # c => call'[x] = call[x]
  BY <1>1
<1>3. /\ backend' = backend /\ bought' = bought /\ entry' = entry /\ outcomes' = outcomes
      /\ adds' = adds /\ booked' = booked /\ removing' = removing
      /\ crossed' = crossed /\ dropped' = dropped
  BY DEF portfolio
<1>4. TypeOK'
  BY <1>1, <1>3, Types DEF Inv, Typed
<1>5. Counted' /\ Fit'
  <2>1. /\ Cardinality(Owing') \in Nat /\ Cardinality(Owing) \in Nat
        /\ Cardinality(Owing') <= Cardinality(Owing) /\ Owing' \subseteq Owing
    BY <1>2, OwingMoves
  <2>2. /\ booked \in Nat /\ adds \in Nat /\ booked + Cardinality(Owing) <= adds
        /\ outcomes \in Nat
    BY Types, Bounds DEF Inv, Counted, Typed
  <2>3. booked' + Cardinality(Owing') <= adds'
    BY <1>3, <2>1, <2>2
  <2>4. ASSUME ~crossed'
        PROVE  /\ outcomes' + Cardinality(Owing') <= IF entry' THEN 1 ELSE 0
               /\ removing' > 0 => outcomes' = 0 /\ Owing' = {}
    <3>1. /\ outcomes + Cardinality(Owing) <= IF entry THEN 1 ELSE 0
          /\ removing > 0 => outcomes = 0 /\ Owing = {}
      BY <1>3, <2>4 DEF Inv, Fit
    <3>2. outcomes + Cardinality(Owing') <= IF entry THEN 1 ELSE 0
      BY <2>1, <2>2, <3>1
    <3> QED
      BY <1>3, <2>1, <3>1, <3>2
  <2> QED
    BY <1>3, <2>3, <2>4 DEF Inv, Counted, Fit
<1>6. Aimed'
  <2>1. \A k \in 1 .. Len(bids) : k \in 1 .. Len(bids')
    BY <1>1
  <2>2. Len(bids) > 0 => Len(bids') > 0
    BY <1>1
  <2> QED
    BY <1>2, <1>3, <2>1, <2>2 DEF Inv, Aimed
<1>7. WonIsBooked'
  <2>1. ASSUME backend = "sqlite" PROVE Cardinality(Won(bids')) <= booked
    <3>1. Cardinality(Won(bids)) <= booked /\ booked \in Nat
      BY <2>1, Types, Bounds DEF Inv, Typed, WonIsBooked, Won
    <3>2. Cardinality(Won(bids)) \in Nat /\ Cardinality(Won(bids')) \in Nat
      BY WonFinite, Types DEF Inv, Typed
    <3> QED
      BY <2>1, <3>1, <3>2
  <2> QED
    BY <1>3, <2>1 DEF WonIsBooked, Won
<1>8. PaidIsTracked'
  <2>1. \A x \in Calls : call[x].at = "add" /\ call'[x].at # "add" => entry' \/ faults' # 0
    BY <1>2, <1>3
  <2> QED
    BY <1>3, <1>4, <2>1, StaysTracked DEF Inv
<1> QED
  BY <1>4, <1>5, <1>6, <1>7, <1>8 DEF Inv

\* Nothing but the call changes, and perhaps the count of faults.
LEMMA CallMovesAlone ==
    ASSUME Inv, NEW c \in Calls, NEW v \in CallType, call' = [call EXCEPT ![c] = v], UNCHANGED sales,
           faults' \in 0 .. MaxFaults, faults' >= faults,
           Owes(v) => Owes(call[c]),
           v.at \in {"resolve", "mark"} => v.for \in {"won", "lost"},
           v.at = "resolve" => Len(bids) > 0,
           v.at = "mark" => backend = "postgres" /\ v.row \in 1 .. Len(bids),
           call[c].at = "add" /\ v.at # "add" => entry \/ faults' # 0
    PROVE  Inv'
<1>1. bids' = bids /\ bids \in BidSeq /\ Len(bids) \in Nat /\ Len(bids) <= MaxBids
  BY Types DEF Inv, Typed, BidSeq, sales
<1>2. UNCHANGED <<portfolio, backend, bought>>
  BY DEF sales
<1>3. bids' \in BidSeq /\ Len(bids') >= Len(bids) /\ Len(bids') <= MaxBids
  BY <1>1
<1>4. Cardinality(Won(bids')) <= Cardinality(Won(bids))
  BY <1>1, WonFinite
<1> QED
  BY <1>2, <1>3, <1>4, CallMoves

\* The steps of a call that leave bids and portfolio as they are.
LEMMA QuietStep ==
    ASSUME Inv, NEW c \in Calls,
           Place(c) \/ Gate(c) \/ Resolve(c) \/ Buy(c) \/ LookAgain(c) \/ CheckEntry(c) \/ CallFails(c)
    PROVE  Inv'
<1>1. /\ bids \in BidSeq /\ Len(bids) \in Nat /\ Len(bids) <= MaxBids
      /\ faults \in 0 .. MaxFaults /\ faults \in Nat
      /\ call[c] \in CallType /\ 0 \in 0 .. MaxBids
  BY Types, Bounds DEF Inv, Typed, BidSeq
<1>2. \A at \in Places : [call[c] EXCEPT !.at = at] \in CallType
  BY <1>1 DEF CallType
<1>3. UNCHANGED sales
  BY DEF Place, Gate, Resolve, Buy, LookAgain, CheckEntry, CallFails
<1>4. faults' = faults => faults' \in 0 .. MaxFaults /\ faults' >= faults
  BY <1>1
<1>5. CASE Place(c)
  <2> DEFINE v == [at |-> IF Pending THEN "over" ELSE "gate", for |-> "place", row |-> 0]
  <2>1. v \in CallType /\ v.at \in {"over", "gate"}
    BY <1>1 DEF CallType, Places, Kinds
  <2>2. call' = [call EXCEPT ![c] = v] /\ faults' = faults /\ call[c].at = "idle"
    BY <1>5 DEF Place
  <2> HIDE DEF v
  <2> QED
    BY <1>3, <1>4, <2>1, <2>2, CallMovesAlone DEF Owes
<1>6. CASE Buy(c)
  <2> DEFINE v == [at |-> "gate", for |-> "buy", row |-> 0]
  <2>1. v \in CallType /\ v.at = "gate"
    BY <1>1 DEF CallType, Places, Kinds
  <2>2. call' = [call EXCEPT ![c] = v] /\ faults' = faults /\ call[c].at = "idle"
    BY <1>6 DEF Buy
  <2> HIDE DEF v
  <2> QED
    BY <1>3, <1>4, <2>1, <2>2, CallMovesAlone DEF Owes
<1>7. CASE Resolve(c)
  <2>1. PICK how \in {"won", "lost"} :
           call' = [call EXCEPT ![c] = [at |-> IF Pending THEN "resolve" ELSE "over", for |-> how, row |-> 0]]
    BY <1>7 DEF Resolve
  <2> DEFINE v == [at |-> IF Pending THEN "resolve" ELSE "over", for |-> how, row |-> 0]
  <2>2. v \in CallType /\ v.at \in {"resolve", "over"} /\ v.for \in {"won", "lost"}
    BY <1>1, <2>1 DEF CallType, Places, Kinds
  <2>3. call' = [call EXCEPT ![c] = v]
    BY <2>1
  <2>4. faults' = faults /\ call[c].at = "idle" /\ Len(bids) > 0
    BY <1>1, <1>7 DEF Resolve, BidSeq
  <2> HIDE DEF v
  <2> QED
    BY <1>3, <1>4, <2>2, <2>3, <2>4, CallMovesAlone DEF Owes
<1>8. CASE Gate(c) \/ CheckEntry(c)
  <2>1. PICK at \in {"over", "insert", "sale", "add", "book"} :
           call' = [call EXCEPT ![c].at = at] /\ (at = "book" => call[c].at = "check")
    BY <1>8 DEF Gate, CheckEntry, Go
  <2> DEFINE v == [call[c] EXCEPT !.at = at]
  <2>2. v \in CallType /\ v.at = at
    BY <1>1, <1>2 DEF Places, CallType
  <2>3. call' = [call EXCEPT ![c] = v]
    BY <2>1
  <2>4. faults' = faults /\ call[c].at \in {"gate", "check"}
    BY <1>8 DEF Gate, CheckEntry
  <2> HIDE DEF v
  <2>5. Owes(v) => Owes(call[c])
    BY <2>1, <2>2 DEF Owes
  <2>6. v.at \notin {"resolve", "mark"}
    BY <2>2
  <2> QED
    BY <1>3, <1>4, <2>2, <2>3, <2>4, <2>5, <2>6, CallMovesAlone
<1>9. CASE LookAgain(c)
  <2> DEFINE v == [call[c] EXCEPT !.at = "mark", !.row = Len(bids)]
  <2>1. call[c].for \in {"won", "lost"} /\ Len(bids) > 0 /\ backend = "postgres" /\ call[c].at = "resolve"
    BY <1>9 DEF LookAgain, Inv, Aimed
  <2>2. Len(bids) \in 0 .. MaxBids /\ Len(bids) \in 1 .. Len(bids)
    BY <1>1, <2>1
  <2>3. v \in CallType /\ v.at = "mark" /\ v.for = call[c].for /\ v.row = Len(bids)
    BY <1>1, <2>2 DEF CallType, Places
  <2>4. call' = [call EXCEPT ![c] = v] /\ faults' = faults
    BY <1>9 DEF LookAgain
  <2> HIDE DEF v
  <2> QED
    BY <1>3, <1>4, <2>1, <2>2, <2>3, <2>4, CallMovesAlone DEF Owes
<1>10. CASE CallFails(c)
  <2> DEFINE v == [call[c] EXCEPT !.at = "over"]
  <2>1. v \in CallType /\ v.at = "over"
    BY <1>1, <1>2 DEF Places, CallType
  <2>2. call' = [call EXCEPT ![c] = v]
    BY <1>10 DEF CallFails, Go
  <2>3. faults' \in 0 .. MaxFaults /\ faults' >= faults /\ faults' # 0
    BY <1>1, <1>10, Bounds DEF CallFails
  <2> HIDE DEF v
  <2> QED
    BY <1>3, <2>1, <2>2, <2>3, CallMovesAlone DEF Owes
<1> QED
  BY <1>5, <1>6, <1>7, <1>8, <1>9, <1>10

\* The portfolio changes, and no call with it.
LEMMA PortfolioMoves ==
    ASSUME Inv, UNCHANGED <<backend, bids, bought, call, booked>>,
           entry' \in BOOLEAN, crossed' \in BOOLEAN, dropped' \in BOOLEAN,
           removing' \in 0 .. MaxRemovals, outcomes' \in 0 .. MaxAdds, outcomes' <= outcomes,
           adds' \in 0 .. MaxAdds, adds' >= adds,
           faults' \in 0 .. MaxFaults, faults' >= faults,
           ~crossed' => /\ ~crossed /\ (entry /\ ~entry' => removing > 0)
                        /\ removing' > 0 => removing > 0 \/ (outcomes' = 0 /\ Owing = {}),
           entry => entry' \/ dropped' \/ ~bought, dropped => dropped'
    PROVE  Inv'
<1>1. TypeOK'
  BY Types DEF Inv, Typed
<1>2. Owing' = Owing /\ Cardinality(Owing) \in Nat
  BY OwingFinite DEF Owing
<1>3. {booked, adds, adds', outcomes, outcomes'} \subseteq Nat /\ Cardinality({}) = 0
  BY Types, Bounds, FS_EmptySet DEF Inv, Typed
<1>4. Counted'
  <2>1. booked + Cardinality(Owing) <= adds' /\ outcomes' <= booked
    BY <1>2, <1>3 DEF Inv, Counted
  <2> QED
    BY <1>2, <2>1 DEF Counted
<1>5. ASSUME ~crossed'
      PROVE  /\ outcomes' + Cardinality(Owing) <= IF entry' THEN 1 ELSE 0
             /\ removing' > 0 => outcomes' = 0 /\ Owing = {}
  <2>1. /\ outcomes + Cardinality(Owing) <= IF entry THEN 1 ELSE 0
        /\ removing > 0 => outcomes = 0 /\ Owing = {}
    BY <1>5 DEF Inv, Fit
  <2>2. CASE removing > 0
    BY <1>3, <2>1, <2>2
  <2>3. CASE ~(removing > 0)
    <3>1. outcomes' + Cardinality(Owing) <= IF entry THEN 1 ELSE 0
      BY <1>2, <1>3, <2>1
    <3>2. entry => entry'
      BY <1>5, <2>3
    <3>3. outcomes' + Cardinality(Owing) <= IF entry' THEN 1 ELSE 0
      BY <1>2, <1>3, <3>1, <3>2
    <3> QED
      BY <1>5, <2>3, <3>3
  <2> QED
    BY <2>2, <2>3
<1>6. Fit'
  BY <1>2, <1>5 DEF Fit
<1>7. Aimed' /\ WonIsBooked'
  BY DEF Inv, Aimed, WonIsBooked
<1>8. PaidIsTracked'
  BY <1>1, StaysTracked DEF Inv
<1> QED
  BY <1>1, <1>4, <1>6, <1>7, <1>8 DEF Inv

\* The steps of a call that change bids or portfolio, and a sale.
LEMMA InsertBidStep ==
    ASSUME Inv, NEW c \in Calls, InsertBid(c)
    PROVE  Inv'
<1>1. /\ bids \in BidSeq /\ Len(bids) \in Nat /\ Len(bids) < MaxBids /\ MaxBids \in Nat
      /\ faults' \in 0 .. MaxFaults /\ faults' >= faults /\ call[c] \in CallType
  BY Types, Bounds DEF Inv, Typed, BidSeq, InsertBid
<1> DEFINE v == [call[c] EXCEPT !.at = "over"]
<1>2. v \in CallType /\ v.at = "over"
  BY <1>1 DEF Places, CallType
<1>3. call' = [call EXCEPT ![c] = v] /\ call[c].at = "insert"
  BY DEF InsertBid, Go
<1>4. bids' \in BidSeq /\ Len(bids') >= Len(bids) /\ Len(bids') <= MaxBids
  BY <1>1, WonAppended DEF InsertBid, BidSeq
<1>5. Cardinality(Won(bids')) <= Cardinality(Won(bids))
  <2>1. Won(bids') = Won(bids)
    BY <1>1, WonAppended DEF InsertBid
  <2> QED
    BY <1>1, <2>1, WonFinite
<1>6. UNCHANGED <<portfolio, backend, bought>>
  BY DEF InsertBid
<1> HIDE DEF v
<1> QED
  BY <1>1, <1>2, <1>3, <1>4, <1>5, <1>6, CallMoves DEF Owes

LEMMA MarkStep ==
    ASSUME Inv, NEW c \in Calls, Mark(c)
    PROVE  Inv'
<1>1. /\ bids \in BidSeq /\ Len(bids) \in Nat /\ Len(bids) <= MaxBids
      /\ faults' \in 0 .. MaxFaults /\ faults' >= faults /\ call[c] \in CallType
  BY Types, Bounds DEF Inv, Typed, BidSeq, Mark
<1>2. /\ call[c].at = "mark" /\ call[c].for \in {"won", "lost"} /\ call[c].row \in 1 .. Len(bids)
      /\ backend = "postgres"
  BY DEF Mark, Inv, Aimed
<1> DEFINE v == [call[c] EXCEPT !.at = IF call[c].for = "won" THEN "add" ELSE "over"]
<1>3. v \in CallType /\ v.at \in {"add", "over"}
  BY <1>1 DEF Places, CallType
<1>4. call' = [call EXCEPT ![c] = v]
  BY DEF Mark, Go
<1>5. bids' \in BidSeq /\ Len(bids') = Len(bids)
  BY <1>1, <1>2, WonSettled DEF Mark, Settled
<1>6. UNCHANGED <<portfolio, backend, bought>>
  BY DEF Mark
<1>7. Len(bids') >= Len(bids) /\ Len(bids') <= MaxBids /\ backend # "sqlite"
  BY <1>1, <1>2, <1>5
<1> HIDE DEF v
<1> QED
  BY <1>1, <1>2, <1>3, <1>4, <1>5, <1>6, <1>7, CallMoves DEF Owes

\* The registrar sells: the call goes on to the entry, or the answer is lost.
LEMMA SaleKeeps ==
    ASSUME Inv, NEW c \in Calls, NEW v \in CallType, call' = [call EXCEPT ![c] = v],
           call[c].at = "sale", v.at \in {"add", "over"}, v.at = "over" => faults' # 0,
           bought' = TRUE, UNCHANGED <<bids, portfolio, backend>>,
           faults' \in 0 .. MaxFaults
    PROVE  Inv'
<1>1. call' \in [Calls -> CallType] /\ call'[c] = v /\ \A x \in Calls : x # c => call'[x] = call[x]
  BY Types DEF Inv, Typed
<1>2. /\ backend' = backend /\ entry' = entry /\ outcomes' = outcomes /\ adds' = adds
      /\ booked' = booked /\ removing' = removing /\ crossed' = crossed /\ dropped' = dropped
  BY DEF portfolio
<1>3. TypeOK'
  BY <1>1, <1>2, Types DEF Inv, Typed
<1>4. Owing' = Owing
  BY <1>1 DEF Owing
<1>5. Counted' /\ Fit'
  BY <1>2, <1>4 DEF Inv, Counted, Fit
<1>6. Aimed'
  BY <1>1, <1>2 DEF Inv, Aimed
<1>7. WonIsBooked'
  BY <1>2 DEF Inv, WonIsBooked
<1>8. PaidIsTracked'
  BY <1>1 DEF PaidIsTracked
<1> QED
  BY <1>3, <1>5, <1>6, <1>7, <1>8 DEF Inv

LEMMA SaleStep ==
    ASSUME Inv, NEW c \in Calls, Sale(c)
    PROVE  Inv'
<1>1. /\ call[c] \in CallType /\ call[c].at = "sale" /\ UNCHANGED <<bids, portfolio, backend>>
      /\ faults' \in 0 .. MaxFaults /\ faults' >= faults
  BY Types, Bounds DEF Inv, Typed, Sale
<1>2. CASE Go(c, "over") /\ UNCHANGED bought
  <2> DEFINE v == [call[c] EXCEPT !.at = "over"]
  <2>1. v \in CallType /\ v.at = "over" /\ call' = [call EXCEPT ![c] = v]
    BY <1>1, <1>2 DEF Go, Places, CallType
  <2>2. UNCHANGED sales
    BY <1>1, <1>2 DEF sales
  <2> HIDE DEF v
  <2> QED
    BY <1>1, <2>1, <2>2, CallMovesAlone DEF Owes
<1>3. CASE bought' = TRUE /\ Go(c, "add")
  <2> DEFINE v == [call[c] EXCEPT !.at = "add"]
  <2>1. v \in CallType /\ v.at = "add" /\ call' = [call EXCEPT ![c] = v]
    BY <1>1, <1>3 DEF Go, Places, CallType
  <2> HIDE DEF v
  <2> QED
    BY <1>1, <1>3, <2>1, SaleKeeps
<1> QED
  BY <1>2, <1>3 DEF Sale

LEMMA ResolveStep ==
    ASSUME Inv, NEW c \in Calls, ResolveAtOnce(c)
    PROVE  Inv'
<1>1. /\ bids \in BidSeq /\ Len(bids) \in Nat /\ Len(bids) <= MaxBids
      /\ faults' \in 0 .. MaxFaults /\ faults' >= faults /\ call \in [Calls -> CallType]
  BY Types, Bounds DEF Inv, Typed, BidSeq, ResolveAtOnce
<1>2. call[c].at = "resolve" /\ Len(bids) \in 1 .. Len(bids) /\ backend' = backend /\ bought' = bought
  BY <1>1 DEF ResolveAtOnce, Inv, Aimed
<1> DEFINE v == [call[c] EXCEPT !.at = "over"]
<1>3. v \in CallType /\ v.at = "over" /\ call' = [call EXCEPT ![c] = v]
  BY <1>1 DEF Places, CallType, ResolveAtOnce, Go
<1> HIDE DEF v
<1>4. call' \in [Calls -> CallType] /\ call'[c] = v /\ \A x \in Calls : x # c => call'[x] = call[x]
  BY <1>1, <1>3
<1>5. CASE Settled(Len(bids), "lost") /\ UNCHANGED portfolio
  <2>1. /\ bids' \in BidSeq /\ Len(bids') = Len(bids)
        /\ Cardinality(Won(bids')) <= Cardinality(Won(bids))
    BY <1>1, <1>2, <1>5, WonSettled DEF Settled
  <2>2. Len(bids') >= Len(bids) /\ Len(bids') <= MaxBids
    BY <1>1, <2>1
  <2>3. UNCHANGED <<portfolio, backend, bought>>
    BY <1>2, <1>5
  <2> QED
    BY <1>1, <1>2, <1>3, <2>1, <2>2, <2>3, CallMoves DEF Owes
<1>6. CASE UNCHANGED <<bids, portfolio>>
  <2>1. UNCHANGED sales
    BY <1>2, <1>6 DEF sales
  <2> QED
    BY <1>1, <1>2, <1>3, <2>1, CallMovesAlone DEF Owes
<1>7. CASE Settled(Len(bids), "won") /\ Entered /\ Booked
  <2>0. /\ ~entry /\ adds < MaxAdds /\ entry' = TRUE /\ adds' = adds + 1 /\ removing' = removing
        /\ crossed' = (crossed \/ removing > 0) /\ dropped' = dropped
        /\ outcomes' = outcomes + 1 /\ booked' = booked + 1
    BY <1>7 DEF Entered, Booked
  <2>1. Owing' = Owing /\ Cardinality(Owing) \in Nat
    BY <1>2, <1>3, <1>4, OwingFinite DEF Owing
  <2>2. /\ {adds, booked, outcomes, MaxAdds} \subseteq Nat /\ removing \in Nat
        /\ booked + Cardinality(Owing) <= adds /\ outcomes <= booked
    BY Types, Bounds DEF Inv, Typed, Counted
  <2>3. Counted'
    BY <2>0, <2>1, <2>2 DEF Counted
  <2>4. /\ bids' \in BidSeq /\ Len(bids') = Len(bids)
        /\ Cardinality(Won(bids')) <= Cardinality(Won(bids)) + 1
    BY <1>1, <1>2, <1>7, WonSettled DEF Settled
  <2>5. /\ adds' \in 0 .. MaxAdds /\ booked' \in 0 .. MaxAdds /\ outcomes' \in 0 .. MaxAdds
    BY <2>0, <2>1, <2>2
  <2>6. TypeOK'
    BY <1>1, <1>2, <1>4, <2>0, <2>4, <2>5, Types DEF Inv, Typed
  <2>7. Aimed'
    BY <1>2, <1>3, <1>4, <2>4 DEF Inv, Aimed
  <2>8. Cardinality(Won(bids)) \in Nat /\ Cardinality(Won(bids')) \in Nat
    BY <1>1, <2>4, WonFinite
  <2>9. backend = "sqlite" => Cardinality(Won(bids)) <= booked
    BY DEF Inv, WonIsBooked, Won
  <2>10. backend' = "sqlite" => Cardinality(Won(bids')) <= booked'
    BY <1>2, <2>0, <2>2, <2>4, <2>8, <2>9
  <2>11. WonIsBooked'
    BY <2>10 DEF WonIsBooked, Won
  <2>12. ASSUME ~crossed' PROVE outcomes' + Cardinality(Owing) <= 1 /\ ~(removing > 0)
    <3>0. ~crossed /\ ~(removing > 0)
      BY <2>0, <2>12, Zenon
    <3>1. outcomes + Cardinality(Owing) <= 0
      BY <2>0, <3>0 DEF Inv, Fit
    <3> QED
      BY <2>0, <2>1, <2>2, <3>0, <3>1
  <2>13. Fit'
    BY <2>0, <2>1, <2>12 DEF Fit
  <2>14. PaidIsTracked'
    BY <2>0 DEF PaidIsTracked
  <2> QED
    BY <2>3, <2>6, <2>7, <2>11, <2>13, <2>14 DEF Inv
<1> QED
  BY <1>5, <1>6, <1>7 DEF ResolveAtOnce

\* An entry goes in: the call goes on to its outcome, or the answer is lost.
LEMMA EntryKeeps ==
    ASSUME Inv, NEW c \in Calls, NEW v \in CallType, call' = [call EXCEPT ![c] = v],
           call[c].at = "add", v.at \in {"check", "over"}, Entered,
           UNCHANGED <<backend, bids, bought, outcomes, booked>>, faults' \in 0 .. MaxFaults
    PROVE  Inv'
<1>1. call' \in [Calls -> CallType] /\ call'[c] = v /\ \A x \in Calls : x # c => call'[x] = call[x]
  BY Types DEF Inv, Typed
<1>2. /\ ~entry /\ adds < MaxAdds /\ entry' = TRUE /\ adds' = adds + 1 /\ removing' = removing
      /\ crossed' = (crossed \/ removing > 0) /\ dropped' = dropped
  BY DEF Entered
<1>3. /\ Cardinality(Owing) \in Nat /\ Cardinality(Owing') \in Nat
      /\ Cardinality(Owing') <= Cardinality(Owing) + 1
  <2>1. /\ ~Owes(call[c])
        /\ Cardinality(Owing') \in Nat /\ Cardinality(Owing) \in Nat
        /\ (Owes(call[c]) <=> Owes(call'[c])) => Cardinality(Owing') = Cardinality(Owing)
        /\ ~Owes(call[c]) /\ Owes(call'[c]) => Cardinality(Owing') = Cardinality(Owing) + 1
    BY <1>1, OwingMoves DEF Owes
  <2>2. CASE Owes(call'[c])
    BY <2>1, <2>2
  <2>3. CASE ~Owes(call'[c])
    BY <2>1, <2>3
  <2> QED
    BY <2>2, <2>3
<1>4. /\ {adds, booked, outcomes, MaxAdds} \subseteq Nat /\ removing \in Nat
      /\ booked + Cardinality(Owing) <= adds /\ outcomes <= booked
  BY Types, Bounds DEF Inv, Typed, Counted
<1>5. Counted'
  BY <1>2, <1>3, <1>4 DEF Counted
<1>6. ASSUME ~crossed' PROVE outcomes + Cardinality(Owing') <= 1 /\ ~(removing > 0)
  <2>0. ~crossed /\ ~(removing > 0)
    BY <1>2, <1>6, Zenon
  <2>1. outcomes + Cardinality(Owing) <= 0
    BY <1>2, <2>0 DEF Inv, Fit
  <2> QED
    BY <1>3, <1>4, <2>0, <2>1
<1>7. Fit'
  BY <1>2, <1>6 DEF Fit
<1>8. adds' \in 0 .. MaxAdds
  BY <1>2, <1>4
<1>9. TypeOK'
  BY <1>1, <1>2, <1>8, Types DEF Inv, Typed
<1>10. Aimed'
  BY <1>1, <1>2 DEF Inv, Aimed
<1>11. WonIsBooked' /\ PaidIsTracked'
  BY <1>2 DEF Inv, WonIsBooked, PaidIsTracked
<1> QED
  BY <1>5, <1>7, <1>9, <1>10, <1>11 DEF Inv

LEMMA AddEntryStep ==
    ASSUME Inv, NEW c \in Calls, AddEntry(c)
    PROVE  Inv'
<1>1. /\ call[c] \in CallType /\ call[c].at = "add"
      /\ faults' \in 0 .. MaxFaults /\ faults' >= faults
  BY Types, Bounds DEF Inv, Typed, AddEntry
<1>2. CASE entry /\ Go(c, "over") /\ UNCHANGED <<entry, removing, adds, crossed, dropped>>
  <2> DEFINE v == [call[c] EXCEPT !.at = "over"]
  <2>1. v \in CallType /\ v.at = "over" /\ call' = [call EXCEPT ![c] = v]
    BY <1>1, <1>2 DEF Places, CallType, Go
  <2> HIDE DEF v
  <2>2. UNCHANGED sales
    BY <1>2 DEF AddEntry, sales, portfolio
  <2> QED
    BY <1>1, <1>2, <2>1, <2>2, CallMovesAlone DEF Owes
<1>3. CASE Entered /\ Go(c, "check")
  <2> DEFINE v == [call[c] EXCEPT !.at = "check"]
  <2>1. v \in CallType /\ v.at = "check" /\ call' = [call EXCEPT ![c] = v]
    BY <1>1, <1>3 DEF Places, CallType, Go
  <2>2. UNCHANGED <<backend, bids, bought, outcomes, booked>>
    BY DEF AddEntry
  <2> HIDE DEF v
  <2> QED
    BY <1>1, <1>3, <2>1, <2>2, EntryKeeps
<1> QED
  BY <1>2, <1>3 DEF AddEntry

\* The effect without its answer.
LEMMA AnswerLostStep ==
    ASSUME Inv, NEW c \in Calls, AnswerLost(c)
    PROVE  Inv'
<1> DEFINE v == [call[c] EXCEPT !.at = "over"]
<1>1. /\ call[c] \in CallType /\ bids \in BidSeq /\ Len(bids) \in Nat /\ Len(bids) <= MaxBids
      /\ faults \in 0 .. MaxFaults /\ MaxFaults \in Nat
  BY Types, Bounds DEF Inv, Typed, BidSeq
<1>2. v \in CallType /\ v.at = "over" /\ call' = [call EXCEPT ![c] = v]
  BY <1>1 DEF AnswerLost, Go, Places, CallType
<1>3. faults' \in 0 .. MaxFaults /\ faults' >= faults /\ faults' # 0 /\ backend' = backend
  BY <1>1 DEF AnswerLost
<1> HIDE DEF v
<1>4. CASE call[c].at = "sale" /\ bought' = TRUE /\ UNCHANGED <<bids, portfolio>>
  BY <1>2, <1>3, <1>4, SaleKeeps
<1>5. CASE call[c].at = "mark" /\ Settled(call[c].row, call[c].for) /\ UNCHANGED <<bought, portfolio>>
  <2>1. call[c].for \in {"won", "lost"} /\ call[c].row \in 1 .. Len(bids) /\ backend = "postgres"
    BY <1>5 DEF Inv, Aimed
  <2>2. bids' \in BidSeq /\ Len(bids') = Len(bids)
    BY <1>1, <1>5, <2>1, WonSettled DEF Settled
  <2>3. Len(bids') >= Len(bids) /\ Len(bids') <= MaxBids /\ backend # "sqlite"
    BY <1>1, <2>1, <2>2
  <2> QED
    BY <1>1, <1>2, <1>3, <1>5, <2>2, <2>3, CallMoves DEF Owes
<1>6. CASE call[c].at = "add" /\ Entered /\ UNCHANGED <<bids, bought, outcomes, booked>>
  BY <1>2, <1>3, <1>6, EntryKeeps
<1> QED
  BY <1>4, <1>5, <1>6 DEF AnswerLost

LEMMA BookStep ==
    ASSUME Inv, NEW c \in Calls, Book(c)
    PROVE  Inv'
<1>1. /\ call \in [Calls -> CallType] /\ call[c].at = "book"
      /\ faults' \in 0 .. MaxFaults /\ faults' >= faults
  BY Types, Bounds DEF Inv, Typed, Book
<1> DEFINE v == [call[c] EXCEPT !.at = "over"]
<1>2. v \in CallType /\ v.at = "over" /\ call' = [call EXCEPT ![c] = v]
  BY <1>1 DEF Places, CallType, Go, Book
<1> HIDE DEF v
<1>3. call' \in [Calls -> CallType] /\ call'[c] = v /\ \A x \in Calls : x # c => call'[x] = call[x]
  BY <1>1, <1>2
<1>4. Cardinality(Owing') = Cardinality(Owing) - 1 /\ Cardinality(Owing) \in Nat /\ Cardinality(Owing') \in Nat
  BY <1>1, <1>2, <1>3, OwingMoves DEF Owes
<1>5. /\ {adds, booked, outcomes, MaxAdds} \subseteq Nat /\ adds <= MaxAdds
      /\ booked + Cardinality(Owing) <= adds /\ outcomes <= booked
  BY Types, Bounds DEF Inv, Typed, Counted
<1>6. /\ backend' = backend /\ bids' = bids /\ bought' = bought /\ entry' = entry /\ adds' = adds
      /\ removing' = removing /\ outcomes' = outcomes + 1 /\ booked' = booked + 1
      /\ crossed' = crossed /\ dropped' = dropped
  BY DEF Book, Booked
<1>7. booked + 1 <= adds
  BY <1>4, <1>5
<1>8. outcomes' \in 0 .. MaxAdds /\ booked' \in 0 .. MaxAdds
  BY <1>5, <1>6, <1>7
<1>9. TypeOK'
  BY <1>1, <1>3, <1>6, <1>8, Types DEF Inv, Typed
<1>10. Counted' /\ Fit'
  <2>1. booked' + Cardinality(Owing') <= adds' /\ outcomes' <= booked'
    BY <1>4, <1>5, <1>6
  <2>2. c \in Owing
    BY <1>1 DEF Owing
  <2>3. ASSUME ~crossed PROVE outcomes' + Cardinality(Owing') <= (IF entry' THEN 1 ELSE 0) /\ ~(removing' > 0)
    <3>1. /\ outcomes + Cardinality(Owing) <= IF entry THEN 1 ELSE 0
          /\ removing > 0 => Owing = {}
      BY <2>3 DEF Inv, Fit
    <3>2. outcomes' + Cardinality(Owing') = outcomes + Cardinality(Owing)
      BY <1>4, <1>5, <1>6
    <3> QED
      BY <1>6, <2>2, <3>1, <3>2
  <2> QED
    BY <1>6, <2>1, <2>3 DEF Counted, Fit
<1>11. Aimed'
  BY <1>2, <1>3, <1>6 DEF Inv, Aimed
<1>12. WonIsBooked'
  <2>1. ASSUME backend = "sqlite" PROVE Cardinality(Won(bids)) <= booked + 1
    <3>1. Cardinality(Won(bids)) <= booked
      BY <2>1 DEF Inv, WonIsBooked, Won
    <3>2. Cardinality(Won(bids)) \in Nat
      BY WonFinite, Types DEF Inv, Typed
    <3> QED
      BY <1>5, <3>1, <3>2
  <2> QED
    BY <1>6, <2>1 DEF WonIsBooked, Won
<1>13. PaidIsTracked'
  <2>1. \A x \in Calls : call[x].at = "add" /\ call'[x].at # "add" => entry' \/ faults' # 0
    BY <1>1, <1>3
  <2> QED
    BY <1>1, <1>6, <1>9, <2>1, StaysTracked DEF Inv
<1> QED
  BY <1>9, <1>10, <1>11, <1>12, <1>13 DEF Inv

LEMMA PortfolioStep ==
    ASSUME Inv, AddByHand \/ RemoveOutcomes \/ RemoveEntry \/ RemoveFails
    PROVE  Inv'
<1>1. /\ {outcomes, adds, faults, removing, MaxAdds, MaxFaults, MaxRemovals} \subseteq Nat
      /\ outcomes <= MaxAdds /\ adds <= MaxAdds /\ faults <= MaxFaults /\ removing <= MaxRemovals
      /\ entry \in BOOLEAN /\ crossed \in BOOLEAN /\ dropped \in BOOLEAN /\ bought \in BOOLEAN
  BY Types, Bounds DEF Inv, Typed
<1>2. CASE AddByHand
  <2>1. /\ UNCHANGED <<backend, bids, bought, call, booked>> /\ UNCHANGED <<outcomes, removing, crossed, dropped, faults>>
        /\ entry' = TRUE /\ adds' = adds + 1 /\ adds < MaxAdds
    BY <1>2 DEF AddByHand
  <2>2. /\ adds' \in 0 .. MaxAdds /\ adds' >= adds /\ outcomes' \in 0 .. MaxAdds /\ outcomes' <= outcomes
        /\ removing' \in 0 .. MaxRemovals /\ faults' \in 0 .. MaxFaults /\ faults' >= faults
    BY <1>1, <2>1
  <2> QED
    BY <1>1, <2>1, <2>2, PortfolioMoves
<1>3. CASE RemoveOutcomes
  <2>1. /\ UNCHANGED <<backend, bids, bought, call, booked>> /\ UNCHANGED <<entry, adds, dropped, faults>>
        /\ crossed' = (crossed \/ Owing # {}) /\ removing' = removing + 1 /\ removing < MaxRemovals
        /\ outcomes' = 0
    BY <1>3 DEF RemoveOutcomes
  <2>2. /\ adds' \in 0 .. MaxAdds /\ adds' >= adds /\ outcomes' \in 0 .. MaxAdds /\ outcomes' <= outcomes
        /\ removing' \in 0 .. MaxRemovals /\ faults' \in 0 .. MaxFaults /\ faults' >= faults
    BY <1>1, <2>1
  <2> QED
    BY <1>1, <2>1, <2>2, PortfolioMoves
<1>4. CASE RemoveEntry
  <2>1. /\ UNCHANGED <<backend, bids, bought, call, booked>> /\ UNCHANGED <<outcomes, adds, crossed, faults>>
        /\ dropped' = (dropped \/ (entry /\ bought)) /\ removing' = removing - 1 /\ removing > 0
        /\ entry' = FALSE
    BY <1>4 DEF RemoveEntry
  <2>2. /\ adds' \in 0 .. MaxAdds /\ adds' >= adds /\ outcomes' \in 0 .. MaxAdds /\ outcomes' <= outcomes
        /\ removing' \in 0 .. MaxRemovals /\ faults' \in 0 .. MaxFaults /\ faults' >= faults
    BY <1>1, <2>1
  <2> QED
    BY <1>1, <2>1, <2>2, PortfolioMoves
<1>5. CASE RemoveFails
  <2>1. /\ UNCHANGED <<backend, bids, bought, call, booked>> /\ UNCHANGED <<entry, outcomes, adds, crossed, dropped>>
        /\ removing' = removing - 1 /\ removing > 0 /\ faults < MaxFaults /\ faults' = faults + 1
    BY <1>5 DEF RemoveFails
  <2>2. /\ adds' \in 0 .. MaxAdds /\ adds' >= adds /\ outcomes' \in 0 .. MaxAdds /\ outcomes' <= outcomes
        /\ removing' \in 0 .. MaxRemovals /\ faults' \in 0 .. MaxFaults /\ faults' >= faults
    BY <1>1, <2>1
  <2> QED
    BY <1>1, <2>1, <2>2, PortfolioMoves
<1> QED
  BY <1>2, <1>3, <1>4, <1>5

LEMMA NextKeeps == Inv /\ [Next]_vars => Inv'
<1> SUFFICES ASSUME Inv, [Next]_vars PROVE Inv'
  OBVIOUS
<1>1. ASSUME NEW c \in Calls, CallStep(c) PROVE Inv'
  BY <1>1, QuietStep, InsertBidStep, MarkStep, SaleStep, ResolveStep, AddEntryStep, BookStep, AnswerLostStep
     DEF CallStep
<1>2. CASE UNCHANGED vars
  <2>1. UNCHANGED <<backend, bids, bought, call, entry, outcomes, adds, booked, removing, crossed, dropped, faults>>
    BY <1>2 DEF vars, sales, portfolio
  <2>2. TypeOK' /\ Aimed'
    BY <2>1, Types DEF Inv, Typed, Aimed
  <2>3. Owing' = Owing
    BY <2>1 DEF Owing
  <2>4. Counted' /\ Fit' /\ WonIsBooked' /\ PaidIsTracked'
    BY <2>1, <2>3 DEF Inv, Counted, Fit, WonIsBooked, PaidIsTracked
  <2> QED
    BY <2>2, <2>4 DEF Inv
<1> QED
  BY <1>1, <1>2, PortfolioStep DEF Next

LEMMA Invariant == Spec => []Inv
BY InitInv, NextKeeps, PTL DEF Spec

\* Bids, entries, outcomes and calls keep their types, and the counts their bounds.
THEOREM AcquisitionTypeCorrect == Spec => []TypeOK
<1>1. Inv => TypeOK
  BY DEF Inv
<1> QED
  BY <1>1, Invariant, PTL

\* However many bids, purchases and manual entries race and fail, a domain has one
\* "purchased" outcome at most, and none without its entry, unless a call adds and books
\* under a removal (OutcomeRepository.insert checks, PortfolioRepository.delete deletes
\* in two statements).
THEOREM OutcomesHaveEntries == Spec => []OneOutcome
<1>1. Inv => OneOutcome
  <2> SUFFICES ASSUME Inv, ~crossed PROVE outcomes <= IF entry THEN 1 ELSE 0
    BY DEF OneOutcome
  <2>1. Cardinality(Owing) \in Nat /\ outcomes \in Nat
    BY OwingFinite, Types, Bounds DEF Inv, Typed
  <2> QED
    BY <2>1 DEF Inv, Fit
<1> QED
  BY <1>1, Invariant, PTL

\* On SQLite a resolution is all or nothing: there are never more won bids than
\* outcomes were booked.
THEOREM WonBidsAreBooked == Spec => []WonIsBooked
<1>1. Inv => WonIsBooked
  BY DEF Inv
<1> QED
  BY <1>1, Invariant, PTL

\* What the registrar has sold is in the portfolio, by the call's entry or one that it
\* found there, until a removal takes the entry out, faults apart.
THEOREM SalesAreTracked == Spec => []PaidIsTracked
<1>1. Inv => PaidIsTracked
  BY DEF Inv
<1> QED
  BY <1>1, Invariant, PTL

=============================================================================
