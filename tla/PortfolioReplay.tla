-------------------------- MODULE PortfolioReplay --------------------------
(***************************************************************************)
(* _evaluate_portfolio of validation/meta_intelligence.py: scored samples  *)
(* are replayed in the order of their timestamps through the live          *)
(* allocator of decision/risk.py.  A position reserves its capital and its *)
(* maximal loss until its horizon is over; what is settled then moves      *)
(* equity, peak and the result of the session that opened it.              *)
(*                                                                         *)
(* Rupees are whole, fractions are percents, both rounded down; a return   *)
(* is a percent of the reserved capital.  The list of the open positions   *)
(* is a function whose domain are the places they were appended at: what   *)
(* is settled leaves its place, the others keep theirs.  Ranking           *)
(* statistics and calibration of the predictions are left out.             *)
(***************************************************************************)
EXTENDS Integers, FiniteSets, FiniteSetsExt

CONSTANTS
  ScoredRows,            \* records, see RowFields
  MaxRows,               \* bound on the rows of a replay
  Holding,               \* horizon_minutes, in slots
  SessionSlots,          \* slots of a session
  StartingCapital, MaxTradeRisk, HardLoss, MaxOpenRisk,
  PositionPercent        \* max_position_fraction

RowFields == {"time", "symbol", "long", "short", "longResult", "shortResult",
              "confidence", "volatility"}

ASSUME ReplayAssumption ==
  /\ \A r \in ScoredRows :
       /\ DOMAIN r = RowFields
       /\ r.time \in Nat /\ r.confidence \in 0..100
       /\ {r.long, r.short, r.volatility} \subseteq Int
       \* _triple_barrier_gross ends a sample at the first barrier it touches
       /\ {r.longResult, r.shortResult} \subseteq Int
       /\ r.longResult >= -100 /\ r.shortResult >= -100
  /\ MaxRows \in Nat
  /\ {Holding, SessionSlots, StartingCapital, MaxTradeRisk, HardLoss, MaxOpenRisk}
       \subseteq Nat \ {0}
  /\ PositionPercent \in 1..100

VARIABLES
  rowsLeft,              \* rows of later timestamps
  ranked,                \* rows of this timestamp the loop has yet to reach
  replaying,             \* FALSE while the rows are handed over
  asOf,
  equity, peak,
  reserved,              \* open_positions, [places -> [row, exit, capital, risk]]
  dailyPnl,              \* [sessions -> result of what they opened]
  capital                \* the CapitalState the candidates are allocated from

replayVars == <<rowsLeft, ranked, replaying, asOf, equity, peak, reserved,
                dailyPnl, capital>>

Session(t) == t \div SessionSlots
Sessions == {Session(r.time) : r \in ScoredRows}

\* The direction with the larger predicted net return, LONG in a tie.
GoesLong(r) == r.long >= r.short
Predicted(r) == IF GoesLong(r) THEN r.long ELSE r.short
Realised(r) == IF GoesLong(r) THEN r.longResult ELSE r.shortResult

Total(amounts) == MapThenSumSet(LAMBDA i : amounts[i], DOMAIN amounts)
ReservedCapital(positions) == Total([i \in DOMAIN positions |-> positions[i].capital])
ReservedRisk(positions) == Total([i \in DOMAIN positions |-> positions[i].risk])

ReplayInit ==
  /\ rowsLeft = {} /\ ranked = {} /\ replaying = FALSE /\ asOf = 0
  /\ equity = StartingCapital /\ peak = StartingCapital
  /\ reserved = [i \in {} |-> {}]
  /\ dailyPnl = [s \in Sessions |-> 0]
  /\ capital = [equity |-> equity, peak |-> peak, cash |-> equity, risk |-> 0, daily |-> 0]
-----------------------------------------------------------------------------
(***************************************************************************)
(* AdaptiveCapitalAllocator.allocate                                       *)
(***************************************************************************)

\* base and maximal risk fraction, min(0.49, risk per trade / starting capital)
RiskPercent == Min({49, (100 * MaxTradeRisk) \div StartingCapital})

\* Confidence times edge over volatility, between 0 and 100.
Quality(r) ==
  Max({0, Min({100, (r.confidence * Predicted(r)) \div r.volatility})})

\* (0.5 + quality) * (1 - drawdown), at most 1.
Deployment(r, c) == Min({100, ((50 + Quality(r)) * c.equity) \div c.peak})

MaxLoss(r, c) ==
  Min({(c.equity * RiskPercent * Deployment(r, c)) \div 10000, MaxOpenRisk - c.risk})

Deployable(c) == Min({c.cash, (c.equity * PositionPercent) \div 100})

AllocatorApproves(r, c) ==
  /\ c.daily > -HardLoss
  /\ c.equity > 0 /\ c.cash > 0
  /\ r.volatility > 0
  /\ c.risk < MaxOpenRisk
  /\ Deployable(c) > 0 /\ MaxLoss(r, c) > 0

\* Mutant: the reservation is of the cash only.
ReserveCash(c, money, loss) == [c EXCEPT !.cash = @ - money]

\* CapitalState.reserve
ReserveCapital(c, money, loss) ==
  [c EXCEPT !.cash = @ - money, !.risk = @ + loss]
-----------------------------------------------------------------------------
(***************************************************************************)
(* The replay.                                                             *)
(***************************************************************************)
HandRow(r) ==
  /\ ~replaying
  /\ r \notin rowsLeft /\ Cardinality(rowsLeft) < MaxRows
  /\ rowsLeft' = rowsLeft \cup {r}
  /\ UNCHANGED <<ranked, replaying, asOf, equity, peak, reserved, dailyPnl, capital>>

\* Without rows it raises.
StartReplay ==
  /\ ~replaying /\ rowsLeft # {}
  /\ replaying' = TRUE
  /\ UNCHANGED <<rowsLeft, ranked, asOf, equity, peak, reserved, dailyPnl, capital>>

Result(p) == (p.capital * Realised(p.row)) \div 100
ResultOf(places) == Total([i \in places |-> Result(reserved[i])])

Due(t) == {i \in DOMAIN reserved : reserved[i].exit <= t}

\* equity when the due positions up to place n are settled
EquityAfter(t, n) == equity + ResultOf({i \in Due(t) : i <= n})

\* The next timestamp: positions whose horizon is over are settled one after
\* the other, each may set a new peak, and the capital is read anew.
NextTimestamp ==
  /\ replaying /\ ranked = {} /\ rowsLeft # {}
  /\ LET t == Min({r.time : r \in rowsLeft}) IN
     /\ asOf' = t
     /\ reserved' = [i \in DOMAIN reserved \ Due(t) |-> reserved[i]]
     /\ equity' = equity + ResultOf(Due(t))
     /\ peak' = Max({peak} \cup {EquityAfter(t, n) : n \in Due(t)})
     /\ dailyPnl' =
          [s \in Sessions |->
             dailyPnl[s] + ResultOf({i \in Due(t) : Session(reserved[i].row.time) = s})]
     /\ ranked' = {r \in rowsLeft : r.time = t}
     /\ capital' = [equity |-> equity', peak |-> peak',
                    cash |-> Max({0, equity' - ReservedCapital(reserved')}),
                    risk |-> ReservedRisk(reserved'),
                    daily |-> dailyPnl'[Session(t)]]
  /\ rowsLeft' = rowsLeft \ ranked'
  /\ UNCHANGED replaying

\* Candidates come in the order of their predictions; equal ones in any.
IsNext(r) == r \in ranked /\ \A q \in ranked : Predicted(q) <= Predicted(r)

\* The first without a positive prediction ends the loop.
NoMoreEdge(r) ==
  /\ IsNext(r) /\ Predicted(r) <= 0
  /\ ranked' = {}
  /\ UNCHANGED <<rowsLeft, replaying, asOf, equity, peak, reserved, dailyPnl, capital>>

AllocationRejected(r) ==
  /\ IsNext(r) /\ Predicted(r) > 0
  /\ ~AllocatorApproves(r, capital)
  /\ ranked' = ranked \ {r}
  /\ UNCHANGED <<rowsLeft, replaying, asOf, equity, peak, reserved, dailyPnl, capital>>

Appended(positions, p) ==
  LET place == Max({0} \cup DOMAIN positions) + 1
  IN  [i \in DOMAIN positions \cup {place} |-> IF i = place THEN p ELSE positions[i]]

SelectRow(r) ==
  /\ IsNext(r) /\ Predicted(r) > 0
  /\ AllocatorApproves(r, capital)
  /\ ranked' = ranked \ {r}
  /\ reserved' = Appended(reserved,
       [row |-> r, exit |-> r.time + Holding, capital |-> Deployable(capital),
        risk |-> MaxLoss(r, capital)])
  /\ capital' = ReserveCapital(capital, Deployable(capital), MaxLoss(r, capital))
  /\ UNCHANGED <<rowsLeft, replaying, asOf, equity, peak, dailyPnl>>

ReplayNext ==
  \/ \E r \in ScoredRows : HandRow(r)
  \/ StartReplay
  \/ NextTimestamp
  \/ \E r \in ranked : NoMoreEdge(r) \/ AllocationRejected(r) \/ SelectRow(r)

ReplaySpec == ReplayInit /\ [][ReplayNext]_replayVars
-----------------------------------------------------------------------------
(***************************************************************************)
(* Properties                                                              *)
(***************************************************************************)

\* "The exact same capital allocator as live" (meta_intelligence.py:866) keeps
\* the book of the replay within its limits, although it decides on a copy of
\* the capital that the loop carries along: whatever was settled in between,
\* equity covers all that is reserved, what is open together never risks more
\* than the aggregate limit, and nothing was opened at this timestamp if its
\* session had lost the daily limit.
ReplayWithinLimits ==
  /\ ReservedCapital(reserved) <= equity
  /\ ReservedRisk(reserved) <= MaxOpenRisk
  /\ (\E i \in DOMAIN reserved : reserved[i].row.time = asOf)
       => dailyPnl[Session(asOf)] > -HardLoss
=============================================================================
