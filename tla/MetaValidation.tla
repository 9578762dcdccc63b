--------------------------- MODULE MetaValidation ---------------------------
(***************************************************************************)
(* One run of validate_meta_intelligence (validation/meta_intelligence.py) *)
(* as a matter of what may be looked at when: candles are fetched, samples *)
(* are built for every horizon, sessions and symbols are split into a      *)
(* development and a holdout part, base models are fitted in expanding     *)
(* folds, the horizon is selected on development evidence, and only then   *)
(* the holdout is evaluated.                                               *)
(*                                                                         *)
(* Models and features are not computed.  A sample is <<symbol, day,       *)
(* minute>>, and what is kept of its features and of its label is the set  *)
(* of candles they are computed from, cells <<symbol, day, minute>>.  What *)
(* a portfolio evaluation yields is chosen by the environment.             *)
(***************************************************************************)
EXTENDS Integers, FiniteSets, FiniteSetsExt

CONSTANTS
  Universe,              \* equities, numbered in the order of their names
  Calendar, Minutes,     \* days, and the minutes of each
  Archives,              \* histories: [stock, market, bank, vix] of cells
  Horizons,              \* FIXED_HORIZONS
  Warmup, Stride,        \* 30 and 15 bars
  MinPrior, Lookback,    \* 5 and 20 sessions of volume
  LatestExit,            \* 15:10
  MinUniverse,           \* 6 equities
  HoldoutEvery,          \* 5: every fifth symbol is held out
  MinHeldOut, MinDevelopers,          \* 2 and 6 symbols
  HoldoutSessions, MinSessions, MinDevelopment,    \* 15, 55, 40
  MinTrain, TestBlock,   \* 30 and 5 sessions
  MinOofDates, MinEval,  \* 15 and 5 sessions
  MinFitRows,            \* 50
  Unscorable,            \* samples for which build_meta_features raises
  Totals                 \* total_net_return_bps of an evaluation

ASSUME MetaAssumption ==
  /\ Universe \subseteq Nat /\ Calendar \subseteq Nat /\ Minutes \subseteq Nat
  /\ IsFiniteSet(Universe) /\ IsFiniteSet(Calendar) /\ IsFiniteSet(Minutes)
  /\ \A a \in Archives :
       /\ a.stock \subseteq Universe \X Calendar \X Minutes
       /\ a.market \cup a.bank \cup a.vix \subseteq Calendar \X Minutes
  /\ Horizons \subseteq Nat \ {0} /\ IsFiniteSet(Horizons)
  /\ {Warmup, Stride, HoldoutEvery, TestBlock, MinEval} \subseteq Nat \ {0}
  /\ {MinPrior, Lookback, LatestExit, MinUniverse, MinHeldOut, MinDevelopers,
      HoldoutSessions, MinSessions, MinDevelopment, MinTrain, MinOofDates,
      MinFitRows} \subseteq Nat
  /\ Totals \subseteq Int

VARIABLES
  archive,               \* what the vendor has
  progress,              \* where the run is; "raised" and "done" are its ends
  unfetched,             \* symbols whose candles are not yet fetched
  usable,                \* symbols with candles
  samples,               \* [Horizons -> samples], samples_by_horizon
  pending,               \* horizons whose folds are not done
  block,                 \* start of the current horizon's next fold
  rows,                  \* its out-of-fold rows: [sample, train]
  evidence,              \* [horizon, rows, total] of the finished horizons
  chosen,                \* the selected horizon's evidence
  fitted,                \* history: <<sample, horizon>> any model was fitted on
  judged,                \* history: those any evaluation looked at
  verdict                \* "none", "approved" or "rejected"

metaVars == <<archive, progress, unfetched, usable, samples, pending, block, rows,
              evidence, chosen, fitted, judged, verdict>>

MetaInit ==
  /\ archive \in Archives
  /\ progress = "fetch"
  /\ unfetched = Universe /\ usable = {}
  /\ samples = [h \in Horizons |-> {}]
  /\ pending = Horizons /\ block = MinTrain /\ rows = {}
  /\ evidence = {} /\ chosen = {}
  /\ fitted = {} /\ judged = {}
  /\ verdict = "none"

Rank(x, set) == Cardinality({y \in set : y <= x})
LastOf(n, set) == {x \in set : Cardinality({y \in set : y > x}) < n}
-----------------------------------------------------------------------------
(***************************************************************************)
(* build_meta_samples, and the features it asks for.                       *)
(***************************************************************************)
BarsOf(s, d) == {t \in Minutes : <<s, d, t>> \in archive.stock}
ContextBars(series, d) == {t \in Minutes : <<d, t>> \in archive[series]}

\* group_sessions
SessionDates(s) == {d \in Calendar : BarsOf(s, d) # {}}

\* Every Stride-th bar of the index after the warm-up, if all three context
\* series have it.
DecisionTimes(d) ==
  LET market == ContextBars("market", d) IN
  {t \in market :
     /\ \A series \in {"market", "bank", "vix"} :
          /\ Cardinality(ContextBars(series, d)) >= Warmup
          /\ t \in ContextBars(series, d)
     /\ Rank(t, market) >= Warmup
     /\ (Rank(t, market) - Warmup) % Stride = 0}

\* The prefixes the cross-section is built from: of all usable symbols.
Aligned(d, t) ==
  {s \in usable : t \in BarsOf(s, d) /\ Rank(t, BarsOf(s, d)) >= Warmup}

PriorSessions(s, d) == LastOf(Lookback, {e \in SessionDates(s) : e < d})

\* The horizon ends on a bar of the session, in time.
Labelled(s, d, t, h) == t + h \in BarsOf(s, d) /\ t + h <= LatestExit

SamplesFor(h) ==
  {x \in usable \X Calendar \X Minutes :
     LET s == x[1]  d == x[2]  t == x[3] IN
     /\ t \in DecisionTimes(d)
     /\ s \in Aligned(d, t) /\ Cardinality(Aligned(d, t)) >= MinUniverse
     /\ Cardinality(PriorSessions(s, d)) >= MinPrior
     /\ Labelled(s, d, t, h)}

\* build_meta_raw_features with build_cross_section_state: returns and breadth
\* of every aligned symbol up to the minute, volumes of the prior sessions.
FeatureCells(x) ==
  LET s == x[1]  d == x[2]  t == x[3] IN
  {c \in Aligned(d, t) \X {d} \X Minutes : c[3] \in BarsOf(c[1], d) /\ c[3] <= t}
    \cup {c \in {s} \X PriorSessions(s, d) \X Minutes : c \in archive.stock}

\* The bars of the triple barrier, from the entry to the end of the horizon.
LabelCells(x, h) ==
  {c \in {x[1]} \X {x[2]} \X Minutes :
     c[3] \in BarsOf(x[1], x[2]) /\ x[3] < c[3] /\ c[3] <= x[3] + h}
-----------------------------------------------------------------------------
(***************************************************************************)
(* Fetching and splitting.                                                 *)
(***************************************************************************)
Raise ==
  /\ progress' = "raised"
  /\ UNCHANGED <<archive, unfetched, usable, samples, pending, block, rows,
                 evidence, chosen, fitted, judged, verdict>>

\* A symbol without a candle is left out of the validation.
FetchSymbol(s) ==
  /\ progress = "fetch" /\ s \in unfetched
  /\ \A other \in unfetched : s <= other
  /\ unfetched' = unfetched \ {s}
  /\ usable' = IF SessionDates(s) # {} THEN usable \cup {s} ELSE usable
  /\ UNCHANGED <<archive, progress, samples, pending, block, rows, evidence, chosen,
                 fitted, judged, verdict>>

\* A request that fails for good ends the run.
FetchRaises == progress = "fetch" /\ unfetched # {} /\ Raise

HeldOutSymbols == {s \in usable : (Rank(s, usable) - 1) % HoldoutEvery = 0}

UniverseTooSmall ==
  \/ Cardinality(usable) < MinUniverse
  \/ Cardinality(HeldOutSymbols) < MinHeldOut
  \/ Cardinality(usable \ HeldOutSymbols) < MinDevelopers

BuildSamples ==
  /\ progress = "fetch" /\ unfetched = {}
  /\ ~UniverseTooSmall
  /\ samples' = [h \in Horizons |-> SamplesFor(h)]
  /\ progress' = "split"
  /\ UNCHANGED <<archive, unfetched, usable, pending, block, rows, evidence,
                 chosen, fitted, judged, verdict>>

TooSmall == progress = "fetch" /\ unfetched = {} /\ UniverseTooSmall /\ Raise

OrderedDates == {x[2] : x \in UNION {samples[h] : h \in Horizons}}
HoldoutDates == LastOf(HoldoutSessions, OrderedDates)

DevelopmentDates == OrderedDates \ HoldoutDates

SplitDates ==
  /\ progress = "split"
  /\ IF \/ Cardinality(OrderedDates) < MinSessions
        \/ Cardinality(DevelopmentDates) < MinDevelopment
     THEN Raise
     ELSE /\ progress' = "folds"
          /\ UNCHANGED <<archive, unfetched, usable, samples, pending, block,
                         rows, evidence, chosen, fitted, judged, verdict>>

\* Mutant: only the symbols are split.
SymbolSplit(h) == {x \in samples[h] : x[1] \notin HeldOutSymbols}

\* One split of the sessions and one of the symbols, the same for all horizons.
Development(h) ==
  {x \in samples[h] : x[2] \in DevelopmentDates /\ x[1] \notin HeldOutSymbols}

Holdout(h) ==
  {x \in samples[h] : x[2] \in HoldoutDates /\ x[1] \in HeldOutSymbols}
-----------------------------------------------------------------------------
(***************************************************************************)
(* _build_expanding_oof_rows: one fold per step.                           *)
(***************************************************************************)
\* A night is longer than two horizons, so that of earlier sessions the embargo
\* of TrainSamples removes nothing.
DayLength == Max(Minutes) + 1 + 2 * Max(Horizons)
Moment(x) == x[2] * DayLength + x[3]

FoldDates(h) == {x[2] : x \in Development(h)}
TestSamples(h, start) ==
  {x \in Development(h) : Rank(x[2], FoldDates(h)) \in (start + 1)..(start + TestBlock)}

\* Mutant: the folds of a cross-validation, trained on all other sessions.
OtherSessions(h, start) == Development(h) \ TestSamples(h, start)

\* The sessions before the block, without samples whose label ends within a
\* horizon of its first moment.
TrainSamples(h, start) ==
  LET testStart == Min({Moment(x) : x \in TestSamples(h, start)}) IN
  {x \in Development(h) : /\ Rank(x[2], FoldDates(h)) <= start
                          /\ Moment(x) + h < testStart - h}

\* Horizons are tried in their order.
InFold(h) ==
  /\ progress = "folds" /\ h \in pending
  /\ \A other \in pending : h <= other
MoreBlocks(h) == block < Cardinality(FoldDates(h))

\* _fit_base_specs on the training part; rows of the test part whose features
\* raise are dropped.
Fold(h) ==
  /\ InFold(h) /\ MoreBlocks(h)
  /\ Cardinality(TrainSamples(h, block)) >= MinFitRows
  /\ rows' = rows \cup {[sample |-> x, train |-> TrainSamples(h, block)] :
                           x \in TestSamples(h, block) \ Unscorable}
  /\ fitted' = fitted \cup {<<x, h>> : x \in TrainSamples(h, block)}
  /\ block' = block + TestBlock
  /\ UNCHANGED <<archive, progress, unfetched, usable, samples, pending, evidence,
                 chosen, judged, verdict>>

\* Too few rows, or outcomes of one class only, end the whole validation.
FoldRaises(h) ==
  /\ InFold(h) /\ MoreBlocks(h)
  /\ Raise
-----------------------------------------------------------------------------
(***************************************************************************)
(* The evidence of a horizon, and the selection.                           *)
(***************************************************************************)
RowDates(rs) == {r.sample[2] : r \in rs}
EvalDates(rs) ==
  LET n == Cardinality(RowDates(rs))
  IN  LastOf(IF n \div 4 > MinEval THEN n \div 4 ELSE MinEval, RowDates(rs))

\* Mutant: the regressors are judged on the first sessions.
JudgedFirst(rs) ==
  {r \in rs : r.sample[2] \notin LastOf(Cardinality(RowDates(rs)) - MinEval, RowDates(rs))}

EvalRows(rs) == {r \in rs : r.sample[2] \in EvalDates(rs)}

MetaTrainRows(rs) == rs \ EvalRows(rs)

Trainable ==
  /\ Cardinality(RowDates(rows)) >= MinOofDates
  /\ MetaTrainRows(rows) # {} /\ EvalRows(rows) # {}

NextHorizon(h) ==
  /\ pending' = pending \ {h}
  /\ block' = MinTrain /\ rows' = {}
  /\ progress' = IF pending' = {} THEN "select" ELSE "folds"
  /\ UNCHANGED <<archive, unfetched, usable, samples, chosen, verdict>>

SkipHorizon(h) ==
  /\ InFold(h) /\ ~MoreBlocks(h) /\ ~Trainable
  /\ NextHorizon(h)
  /\ UNCHANGED <<evidence, fitted, judged>>

\* _fit_meta_regressors on the older rows, _evaluate_portfolio on the newer.
EvaluateHorizon(h, total) ==
  /\ InFold(h) /\ ~MoreBlocks(h) /\ Trainable
  /\ Cardinality(MetaTrainRows(rows)) >= MinFitRows
  /\ evidence' = evidence \cup {[horizon |-> h, rows |-> rows, total |-> total]}
  /\ fitted' = fitted \cup {<<r.sample, h>> : r \in MetaTrainRows(rows)}
  /\ judged' = judged \cup {<<r.sample, h>> : r \in EvalRows(rows)}
  /\ NextHorizon(h)

\* Too few rows for the regressors.
EvaluationRaises(h) ==
  /\ InFold(h) /\ ~MoreBlocks(h) /\ Trainable
  /\ Cardinality(MetaTrainRows(rows)) < MinFitRows
  /\ Raise

\* The largest total; ties are decided by evidence that is not modelled.
SelectHorizon ==
  /\ progress = "select" /\ evidence # {}
  /\ \E best \in evidence :
       /\ \A other \in evidence : other.total <= best.total
       /\ chosen' = {best}
  /\ progress' = "holdout"
  /\ UNCHANGED <<archive, unfetched, usable, samples, pending, block, rows,
                 evidence, fitted, judged, verdict>>

NothingTrainable == progress = "select" /\ evidence = {} /\ Raise

\* The final models are fitted on all development samples and all out-of-fold
\* rows; the gates on both evidences decide.
EvaluateHoldout(passes) ==
  /\ progress = "holdout"
  /\ \E best \in chosen :
       /\ Holdout(best.horizon) # {} /\ Holdout(best.horizon) \cap Unscorable = {}
       /\ fitted' = fitted \cup {<<x, best.horizon>> : x \in Development(best.horizon)}
       /\ judged' = judged \cup {<<x, best.horizon>> : x \in Holdout(best.horizon)}
       /\ verdict' = IF passes /\ best.total > 0 THEN "approved" ELSE "rejected"
  /\ progress' = "done"
  /\ UNCHANGED <<archive, unfetched, usable, samples, pending, block, rows,
                 evidence, chosen>>

\* Without a holdout row, or with one that cannot be scored, nothing is
\* concluded.
HoldoutRaises ==
  /\ progress = "holdout"
  /\ \E best \in chosen :
       ~(Holdout(best.horizon) # {} /\ Holdout(best.horizon) \cap Unscorable = {})
  /\ Raise

MetaNext ==
  \/ \E s \in Universe : FetchSymbol(s)
  \/ FetchRaises \/ BuildSamples \/ TooSmall \/ SplitDates
  \/ \E h \in Horizons : Fold(h) \/ FoldRaises(h) \/ SkipHorizon(h)
                            \/ EvaluationRaises(h)
  \/ \E h \in Horizons, total \in Totals : EvaluateHorizon(h, total)
  \/ SelectHorizon \/ NothingTrainable
  \/ \E passes \in BOOLEAN : EvaluateHoldout(passes)
  \/ HoldoutRaises

MetaSpec == MetaInit /\ [][MetaNext]_metaVars
-----------------------------------------------------------------------------
(***************************************************************************)
(* Properties                                                              *)
(***************************************************************************)
CellsOf(use) == FeatureCells(use[1]) \cup LabelCells(use[1], use[2])

\* "Holdout remains unopened" (meta_intelligence.py:466): until the horizon is
\* selected no fit and no evaluation has read a candle of a holdout session, of
\* whatever symbol, neither through features nor through labels; and no model
\* is ever fitted on one.
HoldoutUnopened ==
  \A use \in fitted \cup (IF chosen = {} THEN judged ELSE {}) :
    \A c \in CellsOf(use) : \A d \in HoldoutDates : c[2] < d

\* Nothing the samples were computed from is of the row's session or a later one.
OutOfSample(h, r, seen) ==
  \A y \in seen : \A c \in CellsOf(<<y, h>>) : c[2] < r.sample[2]

\* What the regressors know of a horizon: the rows they are fitted on, and
\* through the scores of these whatever the base models behind them saw.
SeenByRegressors(rs) ==
  {q.sample : q \in MetaTrainRows(rs)} \cup UNION {q.train : q \in MetaTrainRows(rs)}

\* The evidence a horizon is selected on is out of sample at both levels of the
\* stack: the base models that score a row know only sessions before it, and
\* so do the regressors of the rows they are judged on
\* (meta_intelligence.py:423-461, 656-693).
TrainedOnlyOnPast ==
  /\ \A h \in Horizons : InFold(h) => \A r \in rows : OutOfSample(h, r, r.train)
  /\ \A e \in evidence :
       /\ \A r \in e.rows : OutOfSample(e.horizon, r, r.train)
       /\ \A r \in EvalRows(e.rows) :
            OutOfSample(e.horizon, r, SeenByRegressors(e.rows))

\* "These symbols never contribute to development training"
\* (meta_intelligence.py:354): no fit reads a candle of a held-out symbol.
HeldOutSymbolsUnseen ==
  \A use \in fitted : \A c \in CellsOf(use) : c[1] \notin HeldOutSymbols
=============================================================================
