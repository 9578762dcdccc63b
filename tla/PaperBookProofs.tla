--------------------------- MODULE PaperBookProofs ---------------------------
(***************************************************************************)
(* What the admission rules make of the whole book, for every set of       *)
(* signals, every limit and every pattern of correlations: the limits on   *)
(* the open positions, counted and summed, and the bound the daily stop    *)
(* puts on a day's realised loss.                                          *)
(***************************************************************************)
EXTENDS PaperBook, SetLemmas

\* The types of the book, and that only signals of the book are open.
BookTypeOK ==
  /\ status \in [Signals -> RowStatus]
  /\ net \in [Signals -> Int]
  /\ closedOn \in [Signals -> Days]
  /\ today \in Days

\* The position limit the gate is meant to keep (the first conjunct of
\* ExposureWithinLimits).
PositionsWithinLimit == Cardinality(OpenIn(status)) <= MaxOpenPositions

LEMMA BookTypeInit == Init => BookTypeOK
  BY BookAssumption DEF Init, BookTypeOK, FirstStatus, RowStatus, Days

LEMMA BookTypeStep == BookTypeOK /\ [Next]_bookVars => BookTypeOK'
<1> SUFFICES ASSUME BookTypeOK, [Next]_bookVars PROVE BookTypeOK'
  OBVIOUS
<1>1. ASSUME NEW s \in Signals, Admit(s) \/ Reject(s) PROVE BookTypeOK'
  BY <1>1 DEF BookTypeOK, Admit, Reject, RowStatus
<1>2. ASSUME NEW s \in Signals, NEW pnl \in Pnl, Close(s, pnl) PROVE BookTypeOK'
  BY <1>2, BookAssumption DEF BookTypeOK, Close, RowStatus
<1>3. CASE NextDay
  BY <1>3, BookAssumption DEF BookTypeOK, NextDay, Days
<1>4. CASE UNCHANGED bookVars
  BY <1>4 DEF BookTypeOK, bookVars
<1>5. QED BY <1>1, <1>2, <1>3, <1>4 DEF Next

\* How one step changes the set of open positions: a newcomer the gate has
\* accepted, one position less, or nothing.
LEMMA OpenStep ==
  ASSUME BookTypeOK, [Next]_bookVars
  PROVE  \/ \E s \in Signals :
              /\ s \notin OpenIn(status)
              /\ OpenIn(status') = OpenIn(status) \cup {s}
              /\ ~PortfolioRejects(s, OpenIn(status))
              /\ ~CorrelationRejects(s, OpenIn(status))
         \/ OpenIn(status') \subseteq OpenIn(status)
<1>1. ASSUME NEW s \in Signals, Admit(s)
      PROVE  /\ s \notin OpenIn(status)
             /\ OpenIn(status') = OpenIn(status) \cup {s}
             /\ ~PortfolioRejects(s, OpenIn(status))
             /\ ~CorrelationRejects(s, OpenIn(status))
  BY <1>1 DEF Admit, Admissible, GateRejects, BookTypeOK, OpenIn
<1>2. ASSUME NEW s \in Signals, Reject(s) \/ \E pnl \in Pnl : Close(s, pnl)
      PROVE  OpenIn(status') \subseteq OpenIn(status)
  BY <1>2 DEF Reject, Close, BookTypeOK, OpenIn
<1>3. CASE NextDay \/ UNCHANGED bookVars
  BY <1>3 DEF NextDay, bookVars
<1>4. QED BY <1>1, <1>2, <1>3 DEF Next

LEMMA OpenIsFinite ==
  ASSUME BookTypeOK
  PROVE  IsFiniteSet(OpenIn(status)) /\ Cardinality(OpenIn(status)) \in Nat
  BY SignalsAssumption, FS_Subset, FS_CardinalityType DEF OpenIn
-----------------------------------------------------------------------------
\* The book never holds more positions than max_open_positions, although the
\* gate compares only the count before each admission (risk_gate.py:82-83).
THEOREM PositionLimitHolds ==
  ASSUME Cardinality(Legacy) <= MaxOpenPositions
  PROVE  Spec => []PositionsWithinLimit
<1>1. Init => PositionsWithinLimit
  <2>1. Init => OpenIn(status) = Legacy
    BY BookAssumption DEF Init, FirstStatus, OpenIn
  <2>2. QED BY <2>1 DEF PositionsWithinLimit
<1>2. ASSUME BookTypeOK, PositionsWithinLimit, [Next]_bookVars
      PROVE  PositionsWithinLimit'
  <2>1. ASSUME NEW s \in Signals,
               s \notin OpenIn(status),
               OpenIn(status') = OpenIn(status) \cup {s},
               ~PortfolioRejects(s, OpenIn(status))
        PROVE  PositionsWithinLimit'
    <3>1. Cardinality(OpenIn(status')) = Cardinality(OpenIn(status)) + 1
      BY <1>2, <2>1, OpenIsFinite, FS_AddElement
    <3>2. ~(Cardinality(OpenIn(status)) >= MaxOpenPositions)
      BY <2>1 DEF PortfolioRejects
    <3>3. QED
      BY <1>2, <3>1, <3>2, OpenIsFinite, LimitsAssumption DEF PositionsWithinLimit
  <2>2. CASE OpenIn(status') \subseteq OpenIn(status)
    <3>1. /\ Cardinality(OpenIn(status')) <= Cardinality(OpenIn(status))
          /\ Cardinality(OpenIn(status')) \in Nat
      BY <1>2, <2>2, OpenIsFinite, FS_Subset, FS_CardinalityType
    <3>2. QED
      BY <1>2, <3>1, OpenIsFinite, LimitsAssumption DEF PositionsWithinLimit
  <2>3. QED BY <1>2, <2>1, <2>2, OpenStep
<1>3. QED BY <1>1, <1>2, BookTypeInit, BookTypeStep, PTL DEF Spec

\* No group of open positions ever becomes densely correlated, in whatever
\* order positions come and go (risk_gate.py:103-111): in any group the last
\* position admitted had few enough correlated neighbours.
THEOREM NoCorrelatedCycleHolds ==
  ASSUME NoDenselyCorrelatedGroup(Legacy)
  PROVE  Spec => []NoCorrelatedCycle
<1>1. Init => NoCorrelatedCycle
  <2>1. Init => OpenIn(status) = Legacy
    BY BookAssumption DEF Init, FirstStatus, OpenIn
  <2>2. QED BY <2>1 DEF NoCorrelatedCycle
<1>2. ASSUME BookTypeOK, NoCorrelatedCycle, [Next]_bookVars
      PROVE  NoCorrelatedCycle'
  <2> DEFINE Sparse(group) ==
        \E p \in group :
          Cardinality(CorrelatedWith(p, group \ {p})) < MaxCorrelatedPositions
  <2>1. \A group \in SUBSET OpenIn(status) \ {{}} : Sparse(group)
    BY <1>2 DEF NoCorrelatedCycle, NoDenselyCorrelatedGroup
  <2>2. ASSUME NEW s \in Signals,
               s \notin OpenIn(status),
               OpenIn(status') = OpenIn(status) \cup {s},
               ~CorrelationRejects(s, OpenIn(status)),
               NEW group \in SUBSET OpenIn(status') \ {{}}
        PROVE  Sparse(group)
    <3>1. CASE s \in group
      <4>1. /\ CorrelatedWith(s, group \ {s}) \subseteq CorrelatedWith(s, OpenIn(status))
            /\ CorrelatedWith(s, OpenIn(status)) \subseteq OpenIn(status)
        BY <2>2 DEF CorrelatedWith
      <4>2. /\ IsFiniteSet(CorrelatedWith(s, OpenIn(status)))
            /\ Cardinality(CorrelatedWith(s, OpenIn(status))) \in Nat
        BY <1>2, <4>1, OpenIsFinite, FS_Subset, FS_CardinalityType
      <4>3. /\ Cardinality(CorrelatedWith(s, group \ {s}))
                  <= Cardinality(CorrelatedWith(s, OpenIn(status)))
            /\ Cardinality(CorrelatedWith(s, group \ {s})) \in Nat
        BY <4>1, <4>2, FS_Subset, FS_CardinalityType
      <4>4. ~(Cardinality(CorrelatedWith(s, OpenIn(status))) + 1 > MaxCorrelatedPositions)
        BY <2>2 DEF CorrelationRejects
      <4>5. Cardinality(CorrelatedWith(s, group \ {s})) < MaxCorrelatedPositions
        BY <4>2, <4>3, <4>4, LimitsAssumption
      <4>6. QED BY <3>1, <4>5
    <3>2. CASE s \notin group
      BY <2>1, <2>2, <3>2
    <3>3. QED BY <3>1, <3>2
  <2>3. ASSUME OpenIn(status') \subseteq OpenIn(status),
               NEW group \in SUBSET OpenIn(status') \ {{}}
        PROVE  Sparse(group)
    BY <2>1, <2>3
  <2>4. \A group \in SUBSET OpenIn(status') \ {{}} : Sparse(group)
    BY <1>2, <2>2, <2>3, OpenStep
  <2>5. QED BY <2>4 DEF NoCorrelatedCycle, NoDenselyCorrelatedGroup
<1>3. QED BY <1>1, <1>2, BookTypeInit, BookTypeStep, PTL DEF Spec
-----------------------------------------------------------------------------
\* The portfolio sums of the gate and the day's result, as sums of columns.
LEMMA ExposureSums ==
  ASSUME NEW open
  PROVE  OpenRisk(open) = SetSum(Risk, open) /\ GrossNotional(open) = SetSum(Notional, open)
  BY DEF OpenRisk, GrossNotional, SetSum, MapThenSumSet, MapThenFoldSet

\* A position less is no risk more, a position more is its risk more.
LEMMA ExposureShrinks ==
  ASSUME NEW open \in SUBSET Signals, NEW part \in SUBSET open,
         \A p \in open : Risk[p] >= 0 /\ Notional[p] >= 0
  PROVE  /\ OpenRisk(part) \in Int /\ OpenRisk(open) \in Int
         /\ GrossNotional(part) \in Int /\ GrossNotional(open) \in Int
         /\ OpenRisk(part) <= OpenRisk(open)
         /\ GrossNotional(part) <= GrossNotional(open)
<1>1. IsFiniteSet(open) /\ IsFiniteSet(part)
  BY SignalsAssumption, FS_Subset
<1>2. \A p \in open : Risk[p] \in Int /\ Notional[p] \in Int
  BY SignalsAssumption
<1>3. \A p \in part : Risk[p] \in Int /\ Notional[p] \in Int
  BY <1>2
<1>4. SetSum(Risk, open) \in Int /\ SetSum(Notional, open) \in Int
  BY <1>1, <1>2, SumType
<1>5. SetSum(Risk, part) \in Int /\ SetSum(Notional, part) \in Int
  BY <1>1, <1>3, SumType
<1>6. SetSum(Risk, part) <= SetSum(Risk, open)
  BY <1>1, <1>2, SumMonotone
<1>7. SetSum(Notional, part) <= SetSum(Notional, open)
  BY <1>1, <1>2, SumMonotone
<1>8. QED BY <1>4, <1>5, <1>6, <1>7, ExposureSums

LEMMA ExposureGrows ==
  ASSUME NEW open \in SUBSET Signals, NEW s \in Signals, s \notin open
  PROVE  /\ OpenRisk(open \cup {s}) = OpenRisk(open) + Risk[s]
         /\ GrossNotional(open \cup {s}) = GrossNotional(open) + Notional[s]
<1>1. IsFiniteSet(open)
  BY SignalsAssumption, FS_Subset
<1>2. \A p \in open : Risk[p] \in Int /\ Notional[p] \in Int
  BY SignalsAssumption
<1>3. Risk[s] \in Int /\ Notional[s] \in Int
  BY SignalsAssumption
<1>4. SetSum(Risk, open \cup {s}) = SetSum(Risk, open) + Risk[s]
  BY <1>1, <1>2, <1>3, SumAdd
<1>5. SetSum(Notional, open \cup {s}) = SetSum(Notional, open) + Notional[s]
  BY <1>1, <1>2, <1>3, SumAdd
<1>6. QED BY <1>4, <1>5, ExposureSums

\* Nothing that is open hides risk: the gate refuses what has none.
NothingIsHedged(open) == \A p \in open : Risk[p] >= 0 /\ Notional[p] >= 0

\* The limits that are sums, as ExposureWithinLimits states them.
SumsWithinLimits(open) ==
  /\ OpenRisk(open) <= MaxAggregateRisk
  /\ GrossNotional(open) <= MaxGrossNotional
  /\ \A s \in open :
       /\ OpenRisk(SameSector(s, open)) <= MaxSectorRisk
       /\ GrossNotional(SameSector(s, open)) <= MaxSectorNotional

LEMMA PartStaysWithinLimits ==
  ASSUME NEW open \in SUBSET Signals, NothingIsHedged(open), SumsWithinLimits(open),
         NEW part \in SUBSET open
  PROVE  NothingIsHedged(part) /\ SumsWithinLimits(part)
<1>1. NothingIsHedged(part)
  BY DEF NothingIsHedged
<1>2. OpenRisk(part) <= MaxAggregateRisk /\ GrossNotional(part) <= MaxGrossNotional
  <2>1. /\ OpenRisk(part) \in Int /\ OpenRisk(open) \in Int
        /\ GrossNotional(part) \in Int /\ GrossNotional(open) \in Int
        /\ OpenRisk(part) <= OpenRisk(open)
        /\ GrossNotional(part) <= GrossNotional(open)
    BY ExposureShrinks DEF NothingIsHedged
  <2>2. QED BY <2>1, LimitsAssumption DEF SumsWithinLimits
<1>3. ASSUME NEW s \in part
      PROVE  /\ OpenRisk(SameSector(s, part)) <= MaxSectorRisk
             /\ GrossNotional(SameSector(s, part)) <= MaxSectorNotional
  <2> DEFINE A == SameSector(s, open)
             B == SameSector(s, part)
  <2>1. A \in SUBSET Signals /\ B \in SUBSET A
    BY DEF SameSector
  <2>2. \A p \in A : Risk[p] >= 0 /\ Notional[p] >= 0
    BY DEF NothingIsHedged, SameSector
  <2>3. OpenRisk(A) <= MaxSectorRisk /\ GrossNotional(A) <= MaxSectorNotional
    BY DEF SumsWithinLimits
  <2> HIDE DEF A, B
  <2>4. /\ OpenRisk(B) \in Int /\ OpenRisk(A) \in Int
        /\ GrossNotional(B) \in Int /\ GrossNotional(A) \in Int
        /\ OpenRisk(B) <= OpenRisk(A)
        /\ GrossNotional(B) <= GrossNotional(A)
    BY <2>1, <2>2, ExposureShrinks
  <2>5. OpenRisk(B) <= MaxSectorRisk /\ GrossNotional(B) <= MaxSectorNotional
    BY <2>3, <2>4, LimitsAssumption
  <2>6. QED BY <2>5 DEF B
<1>4. QED BY <1>1, <1>2, <1>3 DEF SumsWithinLimits

LEMMA NewcomerStaysWithinLimits ==
  ASSUME NEW open \in SUBSET Signals, NothingIsHedged(open), SumsWithinLimits(open),
         NEW n \in Signals, n \notin open,
         ~PortfolioRejects(n, open), ~SectorRejects(n, open)
  PROVE  NothingIsHedged(open \cup {n}) /\ SumsWithinLimits(open \cup {n})
<1> DEFINE more == open \cup {n}
<1>1. Risk[n] \in Int /\ Notional[n] \in Int /\ Risk[n] >= 0 /\ Notional[n] >= 0
  BY SignalsAssumption DEF PortfolioRejects
<1>2. NothingIsHedged(more)
  BY <1>1 DEF NothingIsHedged
<1>3. ASSUME NEW part \in SUBSET Signals
      PROVE  OpenRisk(part) \in Int /\ GrossNotional(part) \in Int
  <2>1. IsFiniteSet(part) /\ \A p \in part : Risk[p] \in Int /\ Notional[p] \in Int
    BY SignalsAssumption, FS_Subset
  <2>2. SetSum(Risk, part) \in Int /\ SetSum(Notional, part) \in Int
    BY <2>1, SumType
  <2>3. QED BY <2>2, ExposureSums
<1>4. OpenRisk(more) <= MaxAggregateRisk /\ GrossNotional(more) <= MaxGrossNotional
  <2>1. /\ OpenRisk(more) = OpenRisk(open) + Risk[n]
        /\ GrossNotional(more) = GrossNotional(open) + Notional[n]
    BY ExposureGrows
  <2>2. /\ ~(OpenRisk(open) + Risk[n] > MaxAggregateRisk)
        /\ ~(GrossNotional(open) + Notional[n] > MaxGrossNotional)
    BY DEF PortfolioRejects
  <2>3. OpenRisk(open) \in Int /\ GrossNotional(open) \in Int
    BY <1>3
  <2> HIDE DEF more
  <2>4. QED BY <1>1, <2>1, <2>2, <2>3, LimitsAssumption
<1>5. ASSUME NEW s \in more
      PROVE  /\ OpenRisk(SameSector(s, more)) <= MaxSectorRisk
             /\ GrossNotional(SameSector(s, more)) <= MaxSectorNotional
  <2>1. CASE SectorOf[InstrumentOf[s]] = SectorOf[InstrumentOf[n]]
    <3> DEFINE A == SameSector(n, open)
    <3>1. SameSector(s, more) = A \cup {n}
      BY <2>1 DEF SameSector
    <3>2. A \in SUBSET Signals /\ n \notin A
      BY DEF SameSector
    <3>3. /\ ~(OpenRisk(A) + Risk[n] > MaxSectorRisk)
          /\ ~(GrossNotional(A) + Notional[n] > MaxSectorNotional)
      BY DEF SectorRejects
    <3> HIDE DEF A
    <3>4. /\ OpenRisk(A \cup {n}) = OpenRisk(A) + Risk[n]
          /\ GrossNotional(A \cup {n}) = GrossNotional(A) + Notional[n]
      BY <3>2, ExposureGrows
    <3>5. OpenRisk(A) \in Int /\ GrossNotional(A) \in Int
      BY <1>3, <3>2
    <3>6. OpenRisk(A \cup {n}) <= MaxSectorRisk /\ GrossNotional(A \cup {n}) <= MaxSectorNotional
      BY <1>1, <3>3, <3>4, <3>5, LimitsAssumption
    <3>7. QED BY <3>1, <3>6
  <2>2. CASE SectorOf[InstrumentOf[s]] # SectorOf[InstrumentOf[n]]
    <3>1. s \in open /\ SameSector(s, more) = SameSector(s, open)
      BY <2>2 DEF SameSector
    <3>2. QED BY <3>1 DEF SumsWithinLimits
  <2>3. QED BY <2>1, <2>2
<1>6. QED BY <1>2, <1>4, <1>5 DEF SumsWithinLimits

\* The positions open together stay inside every portfolio and sector limit
\* (risk_gate.py:75-113), however many come and go and in whatever order, if
\* those the program finds when it first starts do, and none of them carries a
\* negative risk that a later one could be set off against.
THEOREM BookLimitsHold ==
  ASSUME ExposureWithinLimits(Legacy),
         \A s \in Legacy : Risk[s] >= 0 /\ Notional[s] >= 0
  PROVE  Spec => []BookWithinLimits
<1>1. Init => NothingIsHedged(OpenIn(status)) /\ SumsWithinLimits(OpenIn(status))
  <2>1. Init => OpenIn(status) = Legacy
    BY BookAssumption DEF Init, FirstStatus, OpenIn
  <2>2. NothingIsHedged(Legacy) /\ SumsWithinLimits(Legacy)
    BY DEF NothingIsHedged, SumsWithinLimits, ExposureWithinLimits
  <2>3. QED BY <2>1, <2>2
<1>2. ASSUME BookTypeOK, NothingIsHedged(OpenIn(status)), SumsWithinLimits(OpenIn(status)),
             [Next]_bookVars
      PROVE  NothingIsHedged(OpenIn(status))' /\ SumsWithinLimits(OpenIn(status))'
  <2>1. OpenIn(status) \in SUBSET Signals
    BY DEF OpenIn
  <2>2. ASSUME NEW s \in Signals, Admit(s)
        PROVE  NothingIsHedged(OpenIn(status')) /\ SumsWithinLimits(OpenIn(status'))
    <3>1. /\ s \notin OpenIn(status)
          /\ OpenIn(status') = OpenIn(status) \cup {s}
          /\ ~PortfolioRejects(s, OpenIn(status))
          /\ ~SectorRejects(s, OpenIn(status))
      BY <1>2, <2>2 DEF Admit, Admissible, GateRejects, BookTypeOK, OpenIn
    <3>2. /\ NothingIsHedged(OpenIn(status) \cup {s})
          /\ SumsWithinLimits(OpenIn(status) \cup {s})
      BY <1>2, <2>1, <3>1, NewcomerStaysWithinLimits
    <3>3. QED BY <3>1, <3>2
  <2>3. ASSUME OpenIn(status') \subseteq OpenIn(status)
        PROVE  NothingIsHedged(OpenIn(status')) /\ SumsWithinLimits(OpenIn(status'))
    BY <1>2, <2>1, <2>3, PartStaysWithinLimits
  <2>4. ASSUME NEW s \in Signals, Reject(s) \/ \E pnl \in Pnl : Close(s, pnl)
        PROVE  OpenIn(status') \subseteq OpenIn(status)
    BY <1>2, <2>4 DEF Reject, Close, BookTypeOK, OpenIn
  <2>5. ASSUME NextDay \/ UNCHANGED bookVars
        PROVE  OpenIn(status') \subseteq OpenIn(status)
    BY <2>5 DEF NextDay, bookVars
  <2>6. NothingIsHedged(OpenIn(status')) /\ SumsWithinLimits(OpenIn(status'))
    BY <1>2, <2>2, <2>3, <2>4, <2>5 DEF Next
  <2>7. QED BY <2>6
<1>3. Spec => []PositionsWithinLimit
  BY PositionLimitHolds DEF ExposureWithinLimits
<1>4. PositionsWithinLimit /\ SumsWithinLimits(OpenIn(status)) => BookWithinLimits
  BY DEF PositionsWithinLimit, SumsWithinLimits, BookWithinLimits, ExposureWithinLimits
<1>5. QED BY <1>1, <1>2, <1>3, <1>4, BookTypeInit, BookTypeStep, PTL DEF Spec
-----------------------------------------------------------------------------
\* What a day has realised, as a sum over its closed rows.
ClosedRows(day, st, on) == {s \in Signals : st[s] = "CLOSED" /\ on[s] = day}
Realised(day) == RealisedOn(day, status, net, closedOn)

LEMMA RealisedSum ==
  ASSUME NEW day, NEW st, NEW pnl, NEW on
  PROVE  RealisedOn(day, st, pnl, on) = SetSum(pnl, ClosedRows(day, st, on))
  BY DEF RealisedOn, ClosedRows, SetSum, MapThenSumSet, MapThenFoldSet

\* Every net result an exit can realise is at least -WorstLoss.
LEMMA WorstLossBounds ==
  ASSUME IsFiniteSet(Pnl)
  PROVE  WorstLoss \in Nat /\ \A pnl \in Pnl : pnl \in Int /\ pnl >= -WorstLoss
<1> DEFINE S == Pnl \cup {0}
<1>1. S \subseteq Int
  BY BookAssumption
<1>2. S # {} /\ IsFiniteSet(S)
  BY FS_AddElement
<1>3. 0 \in S /\ \A pnl \in Pnl : pnl \in S
  OBVIOUS
<1>4. WorstLoss = -Min(S)
  BY DEF WorstLoss
<1> HIDE DEF S
<1>5. Min(S) \in S /\ \A y \in S : Min(S) <= y
  BY <1>1, <1>2, MinIsLeast
<1>6. Min(S) \in Int /\ Min(S) <= 0 /\ \A pnl \in Pnl : pnl \in Int /\ Min(S) <= pnl
  BY <1>1, <1>3, <1>5
<1> DEFINE m == Min(S)
<1>7. WorstLoss = -m /\ m \in Int /\ m <= 0 /\ \A pnl \in Pnl : pnl \in Int /\ m <= pnl
  BY <1>4, <1>6
<1> HIDE DEF m
<1>8. QED BY <1>7

\* Today's result can still fall by WorstLoss for every open position; the gate
\* admits none while it is at the stop.  Days gone by no longer change.
LossAllowance ==
  Realised(today) - WorstLoss * Cardinality(OpenIn(status))
    > -HardDailyLoss - MaxOpenPositions * WorstLoss
PastLosses ==
  \A day \in Days :
    day < today => Realised(day) > -HardDailyLoss - MaxOpenPositions * WorstLoss
ClosedInThePast ==
  \A s \in Signals : status[s] = "CLOSED" => closedOn[s] <= today

\* A step other than a close or midnight leaves every day's result alone.
LEMMA RealisedSteady ==
  ASSUME BookTypeOK, NEW day \in Days,
         UNCHANGED <<net, closedOn, today>>,
         \A s \in Signals : status'[s] = "CLOSED" <=> status[s] = "CLOSED"
  PROVE  Realised(day)' = Realised(day)
<1>1. ClosedRows(day, status', closedOn') = ClosedRows(day, status, closedOn)
  BY DEF ClosedRows
<1>2. Realised(day)' = SetSum(net', ClosedRows(day, status', closedOn'))
  BY RealisedSum DEF Realised
<1>3. Realised(day) = SetSum(net, ClosedRows(day, status, closedOn))
  BY RealisedSum DEF Realised
<1>4. net' = net
  OBVIOUS
<1>5. QED BY <1>1, <1>2, <1>3, <1>4

\* A close adds its result to today and to no other day.
LEMMA RealisedByClose ==
  ASSUME BookTypeOK, NEW s \in Signals, NEW pnl \in Pnl, Close(s, pnl), NEW day \in Days
  PROVE  /\ Realised(day) \in Int
         /\ Realised(day)' = IF day = today THEN Realised(day) + pnl ELSE Realised(day)
<1> DEFINE old == ClosedRows(day, status, closedOn)
           new == ClosedRows(day, status', closedOn')
<1>1. /\ status[s] = "OPEN" /\ today' = today
      /\ \A p \in Signals \ {s} :
           /\ status'[p] = status[p] /\ net'[p] = net[p] /\ closedOn'[p] = closedOn[p]
      /\ status'[s] = "CLOSED" /\ net'[s] = pnl /\ closedOn'[s] = today
  BY DEF Close, BookTypeOK
<1>2. IsFiniteSet(old) /\ s \notin old
  BY <1>1, SignalsAssumption, FS_Subset DEF ClosedRows
<1>3. new = IF day = today THEN old \cup {s} ELSE old
  BY <1>1 DEF ClosedRows
<1>4. \A p \in old : net[p] \in Int /\ net'[p] = net[p] /\ net'[p] \in Int
  BY <1>1, <1>2 DEF ClosedRows, BookTypeOK
<1>5. Realised(day)' = SetSum(net', new) /\ Realised(day) = SetSum(net, old)
  BY RealisedSum DEF Realised
<1>6. pnl \in Int
  BY BookAssumption
<1> HIDE DEF old, new
<1>7. SetSum(net, old) \in Int
  BY <1>2, <1>4, SumType
<1>8. SetSum(net', old) = SetSum(net, old)
  BY <1>2, <1>4, SumSame
<1>9. SetSum(net', old \cup {s}) = SetSum(net', old) + net'[s]
  <2>1. /\ IsFiniteSet(old) /\ s \notin old
        /\ net'[s] \in Int /\ \A p \in old : net'[p] \in Int
    BY <1>1, <1>2, <1>4, <1>6
  <2>2. QED BY ONLY <2>1, SumAdd
<1>10. QED BY <1>1, <1>3, <1>5, <1>7, <1>8, <1>9

LEMMA RealisedType ==
  ASSUME BookTypeOK, NEW day \in Days
  PROVE  Realised(day) \in Int
<1> DEFINE rows == ClosedRows(day, status, closedOn)
<1>1. IsFiniteSet(rows) /\ \A p \in rows : net[p] \in Int
  BY SignalsAssumption, FS_Subset DEF ClosedRows, BookTypeOK
<1>2. Realised(day) = SetSum(net, rows)
  BY RealisedSum DEF Realised
<1> HIDE DEF rows
<1>3. QED BY <1>1, <1>2, SumType

\* Nothing has been realised on a day that has not begun.
LEMMA NothingRealisedYet ==
  ASSUME BookTypeOK, ClosedInThePast, NEW day \in Days, day > today
  PROVE  Realised(day) = 0
<1>1. ClosedRows(day, status, closedOn) = {}
  BY BookAssumption DEF ClosedRows, ClosedInThePast, BookTypeOK, Days
<1>2. Realised(day) = SetSum(net, {})
  BY <1>1, RealisedSum DEF Realised
<1>3. QED BY <1>2, SumEmpty

\* The daily stop looks at closed rows only, and yet a day's realised loss is
\* bounded (risk_gate.py:88-89): when it engages at most MaxOpenPositions
\* positions are open, and each can still lose no more than the worst exit.
THEOREM DailyLossBound ==
  ASSUME IsFiniteSet(Pnl), Cardinality(Legacy) <= MaxOpenPositions
  PROVE  Spec => []DailyLossIsBounded
<1> DEFINE Loss == WorstLoss
           Floor == -HardDailyLoss - MaxOpenPositions * Loss
           Open == Cardinality(OpenIn(status))
<1>1. Loss \in Nat /\ \A pnl \in Pnl : pnl \in Int /\ pnl >= -Loss
  BY WorstLossBounds
<1>2. HardDailyLoss \in Nat \ {0} /\ MaxOpenPositions \in Nat \ {0}
  BY LimitsAssumption
<1>3. Floor \in Int /\ Floor < 0
  <2> HIDE DEF Loss
  <2>1. MaxOpenPositions * Loss \in Nat
    BY <1>1, <1>2
  <2>2. QED BY <1>2, <2>1
<1> HIDE DEF Loss
\* With no position above the limit, nothing realised leaves allowance enough.
<1>4. ASSUME NEW n \in Nat, n <= MaxOpenPositions
      PROVE  Loss * n \in Nat /\ 0 - Loss * n > Floor
  <2>1. Loss * n \in Nat /\ MaxOpenPositions * Loss \in Nat
    BY <1>1, <1>2
  <2>2. Loss * n <= MaxOpenPositions * Loss
    <3> DEFINE gap == MaxOpenPositions - n
    <3>1. gap \in Nat /\ MaxOpenPositions = n + gap
      BY <1>2, <1>4
    <3> HIDE DEF gap
    <3>2. (n + gap) * Loss = Loss * n + Loss * gap /\ Loss * gap \in Nat
      BY <1>1, <3>1
    <3>3. QED BY <2>1, <3>1, <3>2
  <2>3. QED BY <1>2, <2>1, <2>2
<1>5. Init => LossAllowance /\ PastLosses /\ ClosedInThePast
  <2> SUFFICES ASSUME Init PROVE LossAllowance /\ PastLosses /\ ClosedInThePast
    OBVIOUS
  <2>1. BookTypeOK
    BY BookTypeInit
  <2>2. \A s \in Signals : status[s] # "CLOSED"
    BY DEF Init, FirstStatus
  <2>3. today = 0 /\ 0 \in Days
    BY BookAssumption DEF Init, Days
  <2>4. ClosedRows(0, status, closedOn) = {}
    BY <2>2 DEF ClosedRows
  <2>5. Realised(0) = 0
    BY <2>4, RealisedSum, SumEmpty DEF Realised
  <2>6. OpenIn(status) = Legacy
    BY BookAssumption DEF Init, FirstStatus, OpenIn
  <2>7. Open \in Nat /\ Open <= MaxOpenPositions
    BY <2>1, <2>6, OpenIsFinite
  <2>8. 0 - Loss * Open > Floor
    BY <1>4, <2>7
  <2>9. LossAllowance
    BY <2>3, <2>5, <2>8 DEF LossAllowance, Loss
  <2>10. QED BY <2>2, <2>3, <2>9 DEF PastLosses, ClosedInThePast, Days
<1>6. ASSUME BookTypeOK, PositionsWithinLimit, LossAllowance, PastLosses, ClosedInThePast,
             [Next]_bookVars
      PROVE  LossAllowance' /\ PastLosses' /\ ClosedInThePast'
  <2>1. Open \in Nat /\ Open <= MaxOpenPositions /\ IsFiniteSet(OpenIn(status))
    BY <1>6, OpenIsFinite DEF PositionsWithinLimit
  <2>2. today \in Days /\ \A day \in Days : Realised(day) \in Int
    BY <1>6, RealisedType DEF BookTypeOK
  <2>3. Realised(today) - Loss * Open > Floor
    BY <1>6 DEF LossAllowance, Loss
  <2>4. \A day \in Days : day < today => Realised(day) > Floor
    BY <1>6 DEF PastLosses, Loss
  <2> HIDE DEF Open, Floor
  <2>5. ASSUME NEW s \in Signals, Admit(s)
        PROVE  LossAllowance' /\ PastLosses' /\ ClosedInThePast'
    <3>1. /\ UNCHANGED <<net, closedOn, today>>
          /\ s \notin OpenIn(status) /\ OpenIn(status') = OpenIn(status) \cup {s}
          /\ \A p \in Signals : status'[p] = "CLOSED" <=> status[p] = "CLOSED"
          /\ Realised(today) > -HardDailyLoss
          /\ ~(Open >= MaxOpenPositions)
      <4>1. /\ ~DailyStop(Realised(today)) /\ ~PortfolioRejects(s, OpenIn(status))
            /\ status[s] = "NONE" /\ status' = [status EXCEPT ![s] = "OPEN"]
            /\ UNCHANGED <<net, closedOn, today>>
        BY <2>5 DEF Admit, Admissible, GateRejects, Realised
      <4>2. ~(Open >= MaxOpenPositions)
        BY <4>1 DEF PortfolioRejects, Open
      <4>3. Realised(today) > -HardDailyLoss
        BY <1>2, <2>2, <4>1 DEF DailyStop
      <4>4. s \notin OpenIn(status) /\ OpenIn(status') = OpenIn(status) \cup {s}
        BY <1>6, <4>1 DEF OpenIn, BookTypeOK
      <4>5. \A p \in Signals : status'[p] = "CLOSED" <=> status[p] = "CLOSED"
        BY <1>6, <4>1 DEF BookTypeOK
      <4>6. QED BY <4>1, <4>2, <4>3, <4>4, <4>5
    <3>2. \A day \in Days : Realised(day)' = Realised(day)
      BY <1>6, <3>1, RealisedSteady
    <3>3. Open' = Open + 1
      BY <2>1, <3>1, FS_AddElement DEF Open
    <3>4. Realised(today)' = Realised(today)
      BY <2>2, <3>1, <3>2
    <3>5. Realised(today) - Loss * (Open + 1) > Floor
      <4>1. Open + 1 \in Nat /\ Open + 1 <= MaxOpenPositions
        BY <1>2, <2>1, <3>1
      <4> DEFINE gap == MaxOpenPositions - (Open + 1)
                 n == Open + 1
      <4>2. gap \in Nat /\ n \in Nat /\ MaxOpenPositions = n + gap
        BY <1>2, <4>1
      <4> HIDE DEF gap, n
      <4>3. (n + gap) * Loss = Loss * n + Loss * gap /\ Loss * gap \in Nat /\ Loss * n \in Nat
        BY <1>1, <4>2
      <4>4. MaxOpenPositions * Loss >= Loss * n /\ MaxOpenPositions * Loss \in Nat
        BY <4>2, <4>3
      <4>5. Realised(today) - Loss * n > Floor
        BY <1>2, <2>2, <3>1, <4>3, <4>4 DEF Floor
      <4>6. QED BY <4>5 DEF n
    <3>6. LossAllowance'
      BY <3>3, <3>4, <3>5 DEF LossAllowance, Open, Loss, Floor
    <3>7. PastLosses'
      BY <2>4, <3>1, <3>2 DEF PastLosses, Floor, Loss
    <3>8. ClosedInThePast'
      BY <1>6, <3>1 DEF ClosedInThePast
    <3>9. QED BY <3>6, <3>7, <3>8
  <2>6. ASSUME NEW s \in Signals, Reject(s)
        PROVE  LossAllowance' /\ PastLosses' /\ ClosedInThePast'
    <3>1. /\ UNCHANGED <<net, closedOn, today>>
          /\ OpenIn(status') = OpenIn(status)
          /\ \A p \in Signals : status'[p] = "CLOSED" <=> status[p] = "CLOSED"
      BY <1>6, <2>6 DEF Reject, OpenIn, BookTypeOK
    <3>2. \A day \in Days : Realised(day)' = Realised(day)
      BY <1>6, <3>1, RealisedSteady
    <3>3. LossAllowance'
      BY <1>6, <2>2, <3>1, <3>2 DEF LossAllowance
    <3>4. PastLosses'
      BY <1>6, <3>1, <3>2 DEF PastLosses
    <3>5. ClosedInThePast'
      BY <1>6, <3>1 DEF ClosedInThePast
    <3>6. QED BY <3>3, <3>4, <3>5
  <2>7. ASSUME NEW s \in Signals, NEW pnl \in Pnl, Close(s, pnl)
        PROVE  LossAllowance' /\ PastLosses' /\ ClosedInThePast'
    <3>1. /\ today' = today
          /\ s \in OpenIn(status) /\ OpenIn(status') = OpenIn(status) \ {s}
          /\ \A p \in Signals : p # s =>
               status'[p] = status[p] /\ closedOn'[p] = closedOn[p]
          /\ closedOn'[s] = today
      BY <1>6, <2>7 DEF Close, OpenIn, BookTypeOK
    <3>2. \A day \in Days :
            Realised(day)' = IF day = today THEN Realised(day) + pnl ELSE Realised(day)
      BY <1>6, <2>7, RealisedByClose
    <3>3. Open \in Nat /\ Open' \in Nat /\ Open = Open' + 1
      <4>1. IsFiniteSet(OpenIn(status')) /\ Open' = Open - 1
        BY <2>1, <3>1, FS_RemoveElement DEF Open
      <4>2. Open' \in Nat
        BY <4>1, FS_CardinalityType DEF Open
      <4>3. QED BY <2>1, <4>1, <4>2
    <3>4. Realised(today)' = Realised(today) + pnl
      BY <2>2, <3>1, <3>2
    <3>5. (Realised(today) + pnl) - Loss * Open' > Floor
      <4> DEFINE n == Open'
      <4>1. n \in Nat /\ Open = n + 1
        BY <3>3
      <4> HIDE DEF n
      <4>2. Loss * (n + 1) = Loss * n + Loss /\ Loss * n \in Nat
        BY <1>1, <4>1
      <4>3. Realised(today) - (Loss * n + Loss) > Floor
        BY <2>3, <4>1, <4>2
      <4>4. pnl \in Int /\ pnl >= -Loss
        BY <1>1
      <4>5. (Realised(today) + pnl) - Loss * n > Floor
        BY <1>1, <1>3, <2>2, <4>2, <4>3, <4>4
      <4>6. QED BY <4>5 DEF n
    <3>6. LossAllowance'
      BY <3>4, <3>5 DEF LossAllowance, Open, Loss, Floor
    <3>7. PastLosses'
      <4>1. \A day \in Days : day < today => Realised(day)' = Realised(day)
        BY <2>2, <3>2 DEF Days
      <4>2. QED BY <2>4, <3>1, <4>1 DEF PastLosses, Floor, Loss
    <3>8. ClosedInThePast'
      BY <1>6, <2>2, <3>1 DEF ClosedInThePast, Days
    <3>9. QED BY <3>6, <3>7, <3>8
  <2>8. ASSUME NextDay
        PROVE  LossAllowance' /\ PastLosses' /\ ClosedInThePast'
    <3>1. today' = today + 1 /\ today' \in Days /\ UNCHANGED <<status, net, closedOn>>
      BY <1>6, <2>8, BookTypeStep DEF NextDay, BookTypeOK, Next
    <3>2. ASSUME NEW day \in Days PROVE Realised(day)' = Realised(day)
      BY <3>1 DEF Realised
    <3>3. Realised(today') = 0
      BY <1>6, <2>2, <3>1, NothingRealisedYet DEF Days
    <3>4. Realised(today)' = 0
      BY <3>1, <3>3 DEF Realised
    <3>5. Open' = Open
      BY <3>1 DEF Open
    <3>6. LossAllowance'
      BY <1>4, <2>1, <3>4, <3>5 DEF LossAllowance, Open, Loss, Floor
    <3>7. Realised(today) > Floor
      <4>1. Loss * Open \in Nat
        BY <1>4, <2>1
      <4>2. QED BY <1>3, <2>2, <2>3, <4>1
    <3>8. PastLosses'
      <4>1. ASSUME NEW day \in Days, day < today' PROVE Realised(day) > Floor
        <5>1. day < today \/ day = today
          BY <2>2, <3>1, <4>1 DEF Days
        <5>2. QED BY <2>4, <3>7, <5>1
      <4>2. QED BY <3>1, <3>2, <4>1 DEF PastLosses, Floor, Loss
    <3>9. ClosedInThePast'
      <4>1. ASSUME NEW s \in Signals, status[s] = "CLOSED" PROVE closedOn[s] <= today + 1
        BY <1>6, <2>2, <4>1 DEF ClosedInThePast, BookTypeOK, Days
      <4>2. QED BY <3>1, <4>1 DEF ClosedInThePast
    <3>10. QED BY <3>6, <3>8, <3>9
  <2>9. CASE UNCHANGED bookVars
    BY <1>6, <2>9 DEF bookVars, LossAllowance, PastLosses, ClosedInThePast, Realised
  <2>10. QED BY <1>6, <2>5, <2>6, <2>7, <2>8, <2>9 DEF Next
<1>7. ASSUME BookTypeOK, PositionsWithinLimit, LossAllowance, PastLosses, ClosedInThePast
      PROVE  DailyLossIsBounded
  <2>1. Open \in Nat /\ Open <= MaxOpenPositions
    BY <1>7, OpenIsFinite DEF PositionsWithinLimit
  <2>2. today \in Days /\ \A day \in Days : Realised(day) \in Int
    BY <1>7, RealisedType DEF BookTypeOK
  <2>3. Realised(today) - Loss * Open > Floor
    BY <1>7 DEF LossAllowance, Loss
  <2>4. \A day \in Days : day < today => Realised(day) > Floor
    BY <1>7 DEF PastLosses, Loss
  <2> HIDE DEF Open, Floor
  <2>5. Loss * Open \in Nat
    BY <1>4, <2>1 DEF Floor
  <2>6. Realised(today) > Floor
    BY <1>3, <2>2, <2>3, <2>5
  <2>7. ASSUME NEW day \in Days, day > today PROVE Realised(day) > Floor
    BY <1>3, <1>7, <2>7, NothingRealisedYet
  <2>8. \A day \in Days : Realised(day) > Floor
    BY <2>2, <2>4, <2>6, <2>7 DEF Days
  <2>9. QED BY <2>8 DEF DailyLossIsBounded, Realised, Floor, Loss
<1>8. Spec => []PositionsWithinLimit
  BY PositionLimitHolds
<1>9. QED BY <1>5, <1>6, <1>7, <1>8, BookTypeInit, BookTypeStep, PTL DEF Spec
=============================================================================
