----------------------------- MODULE TradeCosts -----------------------------
(***************************************************************************)
(* What a trade costs and how large it may be: integration/costs.py and    *)
(* the RiskDesk of engine/risk_gate.py, as pure operators.  Money and      *)
(* prices are whole units of the smallest step the rounding knows; a rate  *)
(* is a numerator over Scale, slippage is in basis points per side.        *)
(***************************************************************************)
EXTENDS Integers

CONSTANTS
  Scale,                 \* the denominator of the rates
  BrokerageRate, BrokerageCap, SttRate, ExchangeRate, SebiRate, StampRate,
  GstPercent,            \* of brokerage and exchange charges
  ProbeNotional,         \* 1000 rupees, for the linear cost
  Capital, RiskBudget,   \* RiskDesk.capital, max_risk_inr
  MinStopDistance        \* 0.10

ASSUME CostsAssumption ==
  /\ Scale \in Nat \ {0} /\ BrokerageCap \in Nat
  /\ {BrokerageRate, SttRate, ExchangeRate, SebiRate, StampRate} \subseteq Nat
  /\ GstPercent \in Nat
  /\ ProbeNotional \in Nat \ {0}
  /\ Capital \in Nat \ {0} /\ RiskBudget \in Nat /\ MinStopDistance \in Nat \ {0}

Least(x, y) == IF x <= y THEN x ELSE y
Distance(x, y) == IF x <= y THEN y - x ELSE x - y

\* _money: a fraction of non-negative integers, rounded half up.
Money(n, denominator) == (2 * n + denominator) \div (2 * denominator)
-----------------------------------------------------------------------------
\* estimate_round_trip, as numerators over Scale; GST is on brokerage and the
\* exchange's charge only, brokerage is capped per order.
Brokerage(turnover) == Least(BrokerageCap * Scale, turnover * BrokerageRate)
ExchangeCharge(buy, sell) == (buy + sell) * ExchangeRate

RoundTrip(buy, sell) ==
  LET taxed == Brokerage(buy) + Brokerage(sell) + ExchangeCharge(buy, sell)
      untaxed == sell * SttRate + (buy + sell) * SebiRate + buy * StampRate
  IN  Money(taxed * (100 + GstPercent) + untaxed * 100, 100 * Scale)

\* estimate_trade_friction: the entry is the buying side, whatever the
\* direction; the sum of two amounts already rounded.
TradeFriction(entry, exit, quantity, slippage) ==
  RoundTrip(entry * quantity, exit * quantity)
    + Money((entry + exit) * quantity * slippage, 10000)

\* calculate_nse_friction of one share at a price, in parts of
\* ProbeNotional * 10000: the rate conservative_linear_round_trip_bps derives
\* from a small notional, where the cap on brokerage does not help.
LinearFriction(price, slippage) ==
  price * (10000 * RoundTrip(ProbeNotional, ProbeNotional)
             + 2 * slippage * ProbeNotional)

\* What holds of the published rates: a thousand rupees stay below the cap on
\* brokerage (0.1% of them is one rupee, the cap is twenty) and cost more than
\* a rounding; the closest stop is ten steps away.
ASSUME RatesAssumption ==
  /\ ProbeNotional * BrokerageRate <= BrokerageCap * Scale
  /\ RoundTrip(ProbeNotional, ProbeNotional) > 0
  /\ MinStopDistance >= 3
-----------------------------------------------------------------------------
(***************************************************************************)
(* RiskDesk.evaluate                                                       *)
(***************************************************************************)

\* validate_signal_geometry
GeometryValid(direction, entry, stop) ==
  /\ direction \in {"LONG", "SHORT"}
  /\ entry > 0 /\ stop > 0
  /\ direction = "LONG" => stop < entry
  /\ direction = "SHORT" => stop > entry

\* One and a half times the risk; prices are even, so that the half is exact.
Edge(entry, stop) == (3 * Distance(entry, stop)) \div 2
Target(direction, entry, stop) ==
  IF direction = "LONG" THEN entry + Edge(entry, stop) ELSE entry - Edge(entry, stop)

\* Mutant: the hurdle compares with a fifth of the friction.
LowHurdle(entry, stop, slippage) ==
  10 * Edge(entry, stop) * ProbeNotional * 10000 >= 5 * LinearFriction(entry, slippage)

\* expected_edge >= 2.5 * friction
ClearsHurdle(entry, stop, slippage) ==
  2 * Edge(entry, stop) * ProbeNotional * 10000 >= 5 * LinearFriction(entry, slippage)

\* Risk budget over distance, cut to five times the capital.
Quantity(entry, stop) ==
  LET byRisk == RiskBudget \div Distance(entry, stop)
  IN  IF byRisk * entry > 5 * Capital THEN (5 * Capital) \div entry ELSE byRisk

Approves(direction, entry, stop, slippage) ==
  /\ GeometryValid(direction, entry, stop)
  /\ Distance(entry, stop) >= MinStopDistance
  /\ ClearsHurdle(entry, stop, slippage)
  /\ Quantity(entry, stop) > 0
=============================================================================
