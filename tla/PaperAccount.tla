---------------------------- MODULE PaperAccount ----------------------------
(***************************************************************************)
(* What runtime/ledger.py and the paper runtime promise together: an       *)
(* account that opens and closes positions one at a time, each opening     *)
(* decided on the cash, the risk and the day's result of that very moment, *)
(* each closing recorded by exactly one trade.                             *)
(*                                                                         *)
(* A fill is a model value: the position that one paper execution would    *)
(* create.  Amounts are whole rupees.                                      *)
(***************************************************************************)
EXTENDS Integers, FiniteSets, FiniteSetsExt

CONSTANTS
  Fills,                 \* positions, identified by their uuid
  Symbols,
  SymbolOf,              \* [Fills -> Symbols]
  Quoted,                \* [Fills -> Nat], entry_notional_inr at the fresh quote
  Paid,                  \* [Fills -> Nat], actual_notional after slippage
  Risk,                  \* [Fills -> Nat], adverse loss plus round-trip cost
  Results,               \* the net results a trade can have
  StartingEquity,
  MaxRiskPerTrade, MaxAggregateRisk, HardDailyLoss,
  PositionShare,         \* max_position_fraction = 1 / PositionShare
  MaxDay                 \* bound on the number of IST midnights

ASSUME AccountAssumption ==
  /\ IsFiniteSet(Fills)
  /\ SymbolOf \in [Fills -> Symbols]
  /\ Quoted \in [Fills -> Nat \ {0}]
  /\ Paid \in [Fills -> Nat \ {0}]
  /\ Risk \in [Fills -> Nat \ {0}]
  /\ Results \subseteq Int
  /\ StartingEquity \in Nat \ {0}
  /\ MaxRiskPerTrade \in Nat \ {0}
  /\ MaxAggregateRisk \in Nat \ {0}
  /\ HardDailyLoss \in Nat \ {0}
  /\ PositionShare \in Nat \ {0}
  /\ MaxDay \in Nat

VARIABLES
  position,              \* [Fills -> PositionStatus], positions.status
  trades,                \* [Fills -> Nat], rows of trades per position
  net,                   \* [Fills -> Int], net_pnl_inr of the last of them
  closedOn,              \* [Fills -> Days], IST day of closed_at
  today

ledger == <<position, trades, net, closedOn>>
accountVars == <<ledger, today>>

PositionStatus == {"NONE", "OPEN", "CLOSED"}
Days == 0..MaxDay

Init ==
  /\ position = [f \in Fills |-> "NONE"]
  /\ trades = [f \in Fills |-> 0]
  /\ net = [f \in Fills |-> 0]
  /\ closedOn = [f \in Fills |-> 0]
  /\ today = 0
-----------------------------------------------------------------------------
\* What the queries of the ledger return.
OpenPositions == {f \in Fills : position[f] = "OPEN"}
SymbolIsOpen(s) == \E f \in OpenPositions : SymbolOf[f] = s

OpenRisk == MapThenSumSet(LAMBDA f : Risk[f], OpenPositions)
OpenCapital == MapThenSumSet(LAMBDA f : Paid[f], OpenPositions)
Traded == {f \in Fills : trades[f] > 0}
Equity == StartingEquity + MapThenSumSet(LAMBDA f : net[f] * trades[f], Traded)
RealisedOn(day) ==
  MapThenSumSet(LAMBDA f : net[f] * trades[f], {f \in Traded : closedOn[f] = day})

\* _capital_state: the CapitalState of a trading date.
CapitalOn(day) ==
  [equity |-> Equity,
   cash   |-> Max({0, Equity - OpenCapital}),
   risk   |-> OpenRisk,
   daily  |-> RealisedOn(day)]

\* Mutant: the allocation does not look at the risk that is already open.
AllocatesIgnoringOpenRisk(f, capital) ==
  /\ capital.daily > -HardDailyLoss
  /\ Quoted[f] <= capital.cash
  /\ Quoted[f] * PositionShare <= capital.equity
  /\ Risk[f] <= MaxRiskPerTrade

\* AdaptiveCapitalAllocator.allocate and ExecutionSizer.size: the most an
\* approved and sized candidate can ask for.  Edge, confidence and drawdown
\* only make the budget smaller, so a candidate may always be refused.
Allocates(f, capital) ==
  /\ capital.daily > -HardDailyLoss
  /\ Quoted[f] <= capital.cash
  /\ Quoted[f] * PositionShare <= capital.equity
  /\ Risk[f] <= MaxRiskPerTrade
  /\ Risk[f] <= MaxAggregateRisk - capital.risk

\* The fill after slippage must still be covered by cash.
Affordable(f, capital) == Paid[f] <= capital.cash
-----------------------------------------------------------------------------
Open(f) ==
  /\ position[f] = "NONE"
  /\ ~SymbolIsOpen(SymbolOf[f])
  /\ Allocates(f, CapitalOn(today))
  /\ Affordable(f, CapitalOn(today))
  /\ position' = [position EXCEPT ![f] = "OPEN"]
  /\ UNCHANGED <<trades, net, closedOn, today>>

Close(f, result) ==
  /\ position[f] = "OPEN"
  /\ position' = [position EXCEPT ![f] = "CLOSED"]
  /\ trades' = [trades EXCEPT ![f] = @ + 1]
  /\ net' = [net EXCEPT ![f] = result]
  /\ closedOn' = [closedOn EXCEPT ![f] = today]
  /\ UNCHANGED today

NextDay ==
  /\ today < MaxDay
  /\ today' = today + 1
  /\ UNCHANGED ledger

Next ==
  \/ \E f \in Fills : Open(f) \/ \E result \in Results : Close(f, result)
  \/ NextDay

Spec == Init /\ [][Next]_accountVars
-----------------------------------------------------------------------------
\* The risk open together never exceeds max_aggregate_open_risk_inr, although
\* every candidate is sized on its own (risk.py:143-155).
RiskWithinLimit == OpenRisk <= MaxAggregateRisk

\* A symbol has at most one open position (ledger.py:177-182).
OneOpenPerSymbol ==
  \A f, g \in OpenPositions : SymbolOf[f] = SymbolOf[g] => f = g

\* A closed position has exactly one trade, any other none: no result is lost
\* or booked twice (ledger.py:258-301).
TradesMatchClosures ==
  \A f \in Fills : trades[f] = IF position[f] = "CLOSED" THEN 1 ELSE 0
=============================================================================
