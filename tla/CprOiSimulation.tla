-------------------------- MODULE CprOiSimulation --------------------------
(***************************************************************************)
(* The trading half of scripts/run_reconciled_cpr_oi_backtest.py:          *)
(* simulate_symbol_day walks the five-minute bars of one symbol and one    *)
(* session, and portfolio_filter thins out the trades of all symbols and   *)
(* sessions with the book's limits.                                        *)
(*                                                                         *)
(* First the bars of a day are laid out, then they are walked.  The        *)
(* opinion of the live engine is part of the bar; a bar without a future   *)
(* at its minute has the opinion "NONE", with the same effect.  Prices are *)
(* adjusted for corporate actions by one factor per day, taken as 1.       *)
(***************************************************************************)
EXTENDS TradeCosts, Sequences, FiniteSets, FiniteSetsExt

CONSTANTS
  Shapes,                \* records [low, close, high, opinion] of bars
  Bc, Tc,                \* the pivots of the previous session: the stops
  Slippage,              \* of the day, basis points per side
  LastSlot,              \* 15:30, in bars after 9:15
  SquareOffSlot,         \* 15:15
  MaxBars,               \* bound on the bars of a day
  TradePool,             \* trades of all symbols, input of portfolio_filter
  MaxCandidates,         \* bound on how many of them there are
  MaxOpen, MaxRisk, MaxNotional, DailyStop   \* 4, 1000, 200000, 1000

ASSUME SimulationAssumption ==
  /\ \A b \in Shapes :
       /\ {b.low, b.close, b.high} \subseteq Int
       /\ b.low <= b.close /\ b.close <= b.high /\ b.close % 2 = 0
  /\ {Bc, Tc} \subseteq Int /\ Bc % 2 = 0 /\ Tc % 2 = 0
  /\ \A t \in TradePool :
       /\ {t.day, t.opened, t.closed, t.symbol, t.risk, t.notional} \subseteq Nat
       /\ t.opened < t.closed
  /\ Slippage \in Nat /\ LastSlot \in Nat /\ SquareOffSlot \in 0..LastSlot
  /\ MaxBars \in Nat /\ MaxCandidates \in Nat
  /\ {MaxOpen, MaxRisk, MaxNotional, DailyStop} \subseteq Nat \ {0}

\* Selling costs less than a tenth of the turnover: the rates of TradeCosts are
\* some 15 basis points together, the slippage a few more.
ASSUME SellingAssumption ==
  100 * ((BrokerageRate + ExchangeRate) * (100 + GstPercent) + (SebiRate + SttRate) * 100)
    + Slippage * Scale <= 1000 * Scale

VARIABLES
  stage,                 \* "bars", "walk", "candidates" or "filter"
  cashDay,               \* slot, opinion and prices of every bar
  index,                 \* of the walk
  probe,                 \* of the inner loop; 0 outside it
  trades,                \* result
  gapped,                \* entries excluded because they touched a gap
  queue,                 \* candidates not yet filtered, in order
  accepted               \* trades portfolio_filter has accepted

simVars == <<stage, cashDay, index, probe, trades, gapped, queue, accepted>>

SimInit ==
  /\ stage = "bars"
  /\ cashDay = <<>>
  /\ index = 1 /\ probe = 0
  /\ trades = {} /\ gapped = {}
  /\ queue = {} /\ accepted = {}
-----------------------------------------------------------------------------
\* One more bar of the day, after a gap or not.
AddBar(shape, slot) ==
  /\ stage = "bars" /\ Len(cashDay) < MaxBars
  /\ slot <= LastSlot
  /\ IF cashDay = <<>> THEN slot <= 1 ELSE slot - cashDay[Len(cashDay)].slot \in {1, 2}
  /\ cashDay' = Append(cashDay, [slot |-> slot, opinion |-> shape.opinion,
                           low |-> shape.low, close |-> shape.close,
                           high |-> shape.high])
  /\ UNCHANGED <<stage, index, probe, trades, gapped, queue, accepted>>

StartWalk ==
  /\ stage = "bars"
  /\ stage' = "walk"
  /\ UNCHANGED <<cashDay, index, probe, trades, gapped, queue, accepted>>

\* has_gap: two neighbours more than five minutes apart between two bars.
HasGap(from, to) ==
  \/ from < 1 \/ to > Len(cashDay) \/ from > to
  \/ \E i \in (from + 1)..to : cashDay[i].slot - cashDay[i - 1].slot # 1

Stop(i) == IF cashDay[i].opinion = "LONG" THEN Bc ELSE Tc
Entry(i) == cashDay[i].close

\* A bar enters if it has an opinion, no gap before it and the desk approves.
Enters(i) ==
  /\ cashDay[i].opinion # "NONE"
  /\ ~(i > 1 /\ HasGap(i - 1, i))
  /\ Approves(cashDay[i].opinion, Entry(i), Stop(i), Slippage)

Walking == stage = "walk" /\ index < Len(cashDay)

SkipBar ==
  /\ Walking /\ probe = 0 /\ ~Enters(index)
  /\ index' = index + 1
  /\ UNCHANGED <<stage, cashDay, probe, trades, gapped, queue, accepted>>

EnterBar ==
  /\ Walking /\ probe = 0 /\ Enters(index)
  /\ probe' = index + 1
  /\ UNCHANGED <<stage, cashDay, index, trades, gapped, queue, accepted>>

\* Mutant: the target is looked at before the stop.
TargetFirst ==
  LET b == cashDay[probe]
      long == cashDay[index].opinion = "LONG"
      stop == Stop(index)
      target == Target(cashDay[index].opinion, Entry(index), stop)
  IN  IF (IF long THEN b.high >= target ELSE b.low <= target) THEN {target}
      ELSE IF (IF long THEN b.low <= stop ELSE b.high >= stop) THEN {stop}
      ELSE IF b.slot >= SquareOffSlot THEN {b.close} ELSE {}

\* Where the bar under the probe ends the trade, if it does: a bar that spans
\* stop and target counts as the stop.
ExitPrice ==
  LET b == cashDay[probe]
      long == cashDay[index].opinion = "LONG"
      stop == Stop(index)
      target == Target(cashDay[index].opinion, Entry(index), stop)
  IN  IF (IF long THEN b.low <= stop ELSE b.high >= stop) THEN {stop}
      ELSE IF (IF long THEN b.high >= target ELSE b.low <= target) THEN {target}
      ELSE IF b.slot >= SquareOffSlot THEN {b.close} ELSE {}

Probing == Walking /\ probe # 0 /\ probe <= Len(cashDay) /\ ~HasGap(index, probe)

ProbeOn ==
  /\ Probing /\ ExitPrice = {}
  /\ probe' = probe + 1
  /\ UNCHANGED <<stage, cashDay, index, trades, gapped, queue, accepted>>

NetResult(direction, entry, exit, quantity) ==
  (IF direction = "LONG" THEN exit - entry ELSE entry - exit) * quantity
    - TradeFriction(entry, exit, quantity, Slippage)

CloseTrade ==
  /\ Probing
  /\ \E exit \in ExitPrice :
       trades' = trades \cup
         {[opened |-> index, closed |-> probe, direction |-> cashDay[index].opinion,
           entry |-> Entry(index), exit |-> exit,
           quantity |-> Quantity(Entry(index), Stop(index)),
           net |-> NetResult(cashDay[index].opinion, Entry(index), exit,
                             Quantity(Entry(index), Stop(index)))]}
  /\ index' = probe + 1
  /\ probe' = 0
  /\ UNCHANGED <<stage, cashDay, gapped, queue, accepted>>

\* A gap or the end of the bars before an exit: TRADE_TOUCHED_BAR_GAP, and the
\* walk goes on with the next bar.
ExcludeTrade ==
  /\ Walking /\ probe # 0 /\ ~Probing
  /\ gapped' = gapped \cup {index}
  /\ index' = index + 1
  /\ probe' = 0
  /\ UNCHANGED <<stage, cashDay, trades, queue, accepted>>

-----------------------------------------------------------------------------
(***************************************************************************)
(* portfolio_filter, on trades with their opening and closing times.       *)
(***************************************************************************)
AddCandidate(t) ==
  /\ stage \in {"bars", "candidates"} /\ cashDay = <<>>
  /\ t \notin queue /\ Cardinality(queue) < MaxCandidates
  /\ stage' = "candidates"
  /\ queue' = queue \cup {t}
  /\ UNCHANGED <<cashDay, index, probe, trades, gapped, accepted>>

StartFilter ==
  /\ stage = "candidates"
  /\ stage' = "filter"
  /\ UNCHANGED <<cashDay, index, probe, trades, gapped, queue, accepted>>

\* Mutant: a trade that is still open at the newcomer's opening is left out.
ActiveBefore(t) == {x \in accepted : x.day = t.day /\ x.closed > t.closed}

Active(t) == {x \in accepted : x.day = t.day /\ x.closed > t.opened}

\* What the session's trades closed by then have brought in.
RealisedBefore(t) ==
  MapThenSumSet(LAMBDA x : x.net,
                {x \in accepted : x.day = t.day /\ x.closed <= t.opened})

Fits(t) ==
  /\ Cardinality(Active(t)) < MaxOpen
  /\ MapThenSumSet(LAMBDA x : x.risk, Active(t)) + t.risk <= MaxRisk
  /\ MapThenSumSet(LAMBDA x : x.notional, Active(t)) + t.notional <= MaxNotional
  /\ RealisedBefore(t) > -DailyStop

\* The candidates come in the order of (opened_at, symbol).
Earlier(t, u) ==
  \/ t.day < u.day
  \/ t.day = u.day /\ t.opened < u.opened
  \/ t.day = u.day /\ t.opened = u.opened /\ t.symbol <= u.symbol

FilterNext(t) ==
  /\ stage = "filter" /\ t \in queue
  /\ \A u \in queue : Earlier(t, u)
  /\ queue' = queue \ {t}
  /\ accepted' = IF Fits(t) THEN accepted \cup {t} ELSE accepted
  /\ UNCHANGED <<stage, cashDay, index, probe, trades, gapped>>
-----------------------------------------------------------------------------
SimNext ==
  \/ \E shape \in Shapes, slot \in 0..LastSlot : AddBar(shape, slot)
  \/ StartWalk \/ SkipBar \/ EnterBar \/ ProbeOn \/ CloseTrade \/ ExcludeTrade
  \/ \E t \in TradePool : AddCandidate(t)
  \/ StartFilter
  \/ \E t \in queue : FilterNext(t)

SimSpec == SimInit /\ [][SimNext]_simVars
-----------------------------------------------------------------------------
(***************************************************************************)
(* Properties                                                              *)
(***************************************************************************)
BarsWithin(t) == (t.opened + 1)..t.closed
HitsStop(t, i) ==
  IF t.direction = "LONG" THEN cashDay[i].low <= Bc ELSE cashDay[i].high >= Tc
HitsTarget(t, i) ==
  LET reward == IF t.direction = "LONG" THEN cashDay[i].high - t.entry
                                        ELSE t.entry - cashDay[i].low
      risk == IF t.direction = "LONG" THEN t.entry - Bc ELSE Tc - t.entry
  IN  2 * reward >= 3 * risk

\* The result of a day is what the tape allows: a trade lasts over consecutive
\* bars up to the first that touches its stop, its target or the square-off
\* time; it never gets better than its stop in a bar that touches it; and no
\* two trades of the symbol overlap.
TradesFollowTheTape ==
  \A t \in trades :
    /\ \A i \in BarsWithin(t) : cashDay[i].slot = cashDay[t.opened].slot + (i - t.opened)
    /\ {i \in BarsWithin(t) : \/ HitsStop(t, i) \/ HitsTarget(t, i)
                         \/ cashDay[i].slot >= SquareOffSlot} = {t.closed}
    /\ HitsStop(t, t.closed) => t.exit = IF t.direction = "LONG" THEN Bc ELSE Tc
    /\ \A u \in trades : u = t \/ t.closed < u.opened \/ u.closed < t.opened

\* The hurdle the desk puts before a trade is an estimate per share from a small
\* notional; with the real quantity, the capped brokerage and both roundings a
\* trade that reaches its target still earns something.
TargetPaysForItself ==
  \A t \in trades :
    (~HitsStop(t, t.closed) /\ HitsTarget(t, t.closed)) => t.net > 0

\* At every moment of every session the accepted trades of all symbols respect
\* the limits of the book.
FilteredBookWithinLimits ==
  \A t \in accepted :
    LET book == {x \in accepted : /\ x.day = t.day /\ x.opened <= t.opened
                                  /\ t.opened < x.closed}
    IN  /\ Cardinality(book) <= MaxOpen
        /\ MapThenSumSet(LAMBDA x : x.risk, book) <= MaxRisk
        /\ MapThenSumSet(LAMBDA x : x.notional, book) <= MaxNotional
=============================================================================
