------------------------------ MODULE RiskGate ------------------------------
(***************************************************************************)
(* The portfolio admission rules of engine/risk_gate.py as pure operators: *)
(* what PortfolioRiskGate.rejection_reason decides about one candidate     *)
(* signal, given the OPEN positions and today's realised net P&L.          *)
(*                                                                         *)
(* A signal is a model value; everything the rules read of it is a         *)
(* constant function.  Amounts are whole rupees.  The reason strings are   *)
(* left out: callers only distinguish "rejected" from "not rejected".      *)
(***************************************************************************)
EXTENDS Integers, FiniteSets, FiniteSetsExt

CONSTANTS
  Signals,               \* signal ids: the primary key of paper_ledger
  Instruments,           \* tradable symbols
  Sectors,               \* sectors of the generated risk metadata
  InstrumentOf,          \* [Signals -> Instruments]
  SectorOf,              \* [Instruments -> Sectors]
  Risk,                  \* [Signals -> Int]  |entry - stop| * quantity
  Notional,              \* [Signals -> Int]  entry * quantity
  Correlated,            \* pairs of instruments with |corr| >= threshold
  Uncorrelated           \* pairs with a known |corr| below the threshold

CONSTANTS                \* the fields of PortfolioRiskLimits
  MaxOpenPositions, MaxAggregateRisk, MaxGrossNotional, HardDailyLoss,
  MaxSectorRisk, MaxSectorNotional, MaxCorrelatedRisk, MaxCorrelatedPositions

\* Signals and instruments are finite, every signal names an instrument.
ASSUME SignalsAssumption ==
  /\ IsFiniteSet(Signals)
  /\ InstrumentOf \in [Signals -> Instruments]
  /\ SectorOf \in [Instruments -> Sectors]
  /\ Risk \in [Signals -> Int]
  /\ Notional \in [Signals -> Int]

\* InstrumentRiskMetadata looks a pair up whatever its order.
ASSUME CorrelationAssumption ==
  /\ Correlated \subseteq Instruments \X Instruments
  /\ Uncorrelated \subseteq Instruments \X Instruments
  /\ Correlated \cap Uncorrelated = {}
  /\ \A p \in Correlated : <<p[2], p[1]>> \in Correlated
  /\ \A p \in Uncorrelated : <<p[2], p[1]>> \in Uncorrelated

\* PortfolioRiskLimits.__post_init__: every limit is positive.
ASSUME LimitsAssumption ==
  /\ MaxOpenPositions \in Nat \ {0}
  /\ MaxAggregateRisk \in Nat \ {0}
  /\ MaxGrossNotional \in Nat \ {0}
  /\ HardDailyLoss \in Nat \ {0}
  /\ MaxSectorRisk \in Nat \ {0}
  /\ MaxSectorNotional \in Nat \ {0}
  /\ MaxCorrelatedRisk \in Nat \ {0}
  /\ MaxCorrelatedPositions \in Nat \ {0}
-----------------------------------------------------------------------------
\* PortfolioState.open_risk_inr and gross_notional_inr over a set of signals.
OpenRisk(open) == MapThenSumSet(LAMBDA s : Risk[s], open)
GrossNotional(open) == MapThenSumSet(LAMBDA s : Notional[s], open)

\* The positions of the candidate's own sector.
SameSector(s, open) ==
  {p \in open : SectorOf[InstrumentOf[p]] = SectorOf[InstrumentOf[s]]}

\* InstrumentRiskMetadata.correlation: an instrument has correlation 1 with
\* itself; a pair without evidence has no correlation at all.
HighlyCorrelated(i, j) == i = j \/ <<i, j>> \in Correlated
CorrelationKnown(i, j) == HighlyCorrelated(i, j) \/ <<i, j>> \in Uncorrelated

CorrelatedWith(s, open) ==
  {p \in open : HighlyCorrelated(InstrumentOf[s], InstrumentOf[p])}

\* record_signal fails closed when the evidence for any open pair is missing.
CorrelationMissing(s, open) ==
  \E p \in open : ~CorrelationKnown(InstrumentOf[s], InstrumentOf[p])

\* The rules of PortfolioRiskGate.rejection_reason, grouped by what they read.
PortfolioRejects(s, open) ==
  \/ Risk[s] <= 0 \/ Notional[s] <= 0
  \/ Cardinality(open) >= MaxOpenPositions
  \/ OpenRisk(open) + Risk[s] > MaxAggregateRisk
  \/ GrossNotional(open) + Notional[s] > MaxGrossNotional

\* Mutant: the sector rule compares what is open, without the newcomer.
SectorRejectsTooLate(s, open) ==
  \/ OpenRisk(SameSector(s, open)) > MaxSectorRisk
  \/ GrossNotional(SameSector(s, open)) > MaxSectorNotional

SectorRejects(s, open) ==
  \/ OpenRisk(SameSector(s, open)) + Risk[s] > MaxSectorRisk
  \/ GrossNotional(SameSector(s, open)) + Notional[s] > MaxSectorNotional

\* Mutant: the count rule forgets the newcomer.
CorrelationRejectsOffByOne(s, open) ==
  Cardinality(CorrelatedWith(s, open)) > MaxCorrelatedPositions

CorrelationRejects(s, open) ==
  \/ Cardinality(CorrelatedWith(s, open)) + 1 > MaxCorrelatedPositions
  \/ OpenRisk(CorrelatedWith(s, open)) + Risk[s] > MaxCorrelatedRisk

\* Mutant: no daily stop.
NeverStopped(dailyNet) == FALSE

DailyStop(dailyNet) == dailyNet <= -HardDailyLoss

GateRejects(s, open, dailyNet) ==
  \/ DailyStop(dailyNet)
  \/ PortfolioRejects(s, open)
  \/ SectorRejects(s, open)
  \/ CorrelationRejects(s, open)

\* What the admission transaction requires of the portfolio it has read.
Admissible(s, open, dailyNet) ==
  /\ ~CorrelationMissing(s, open)
  /\ ~GateRejects(s, open, dailyNet)
-----------------------------------------------------------------------------
\* A set of positions the gate is meant to keep the book inside of.
ExposureWithinLimits(open) ==
  /\ Cardinality(open) <= MaxOpenPositions
  /\ OpenRisk(open) <= MaxAggregateRisk
  /\ GrossNotional(open) <= MaxGrossNotional
  /\ \A s \in open :
       /\ OpenRisk(SameSector(s, open)) <= MaxSectorRisk
       /\ GrossNotional(SameSector(s, open)) <= MaxSectorNotional

\* The correlated-count rule looks from the newcomer only, so a position that
\* is already open may collect several correlated neighbours later.  What the
\* rule does guarantee is that no group of open positions is correlated
\* "densely": each group has a member with fewer than MaxCorrelatedPositions
\* correlated neighbours inside the group (for 2: no correlated cycle).
NoDenselyCorrelatedGroup(open) ==
  \A group \in SUBSET open \ {{}} :
    \E p \in group :
      Cardinality(CorrelatedWith(p, group \ {p})) < MaxCorrelatedPositions
=============================================================================
