--------------------------- MODULE ResearchProofs ---------------------------
(***************************************************************************)
(* Theorems about the offline programs, for every archive, every split and *)
(* every number of runs: the holdout of a validation stays unopened, its   *)
(* models know only the past, and the files that runs share hold what      *)
(* their readers take them for; the simulated trades follow the tape and   *)
(* fit the book; reports rest on genuine data that their hash identifies;  *)
(* and the replay keeps its limits and its reservations covered.           *)
(***************************************************************************)
EXTENDS MetaValidation, ModelFiles, CprOiSimulation, ReconciledData, PortfolioReplay,
        SetLemmas

(***************************************************************************)
(* A validation: which samples are used when.                              *)
(***************************************************************************)
MetaTypeOK ==
  /\ usable \subseteq Universe /\ pending \subseteq Horizons /\ block \in Nat
  /\ samples \in [Horizons -> SUBSET (Universe \X Calendar \X Minutes)]

\* Until the sessions are split nothing is computed from the samples.
NothingUsed ==
  progress \in {"fetch", "split"} =>
    rows = {} /\ evidence = {} /\ chosen = {} /\ fitted = {} /\ judged = {}

\* An out-of-fold row is a development sample, and the models that score it were
\* fitted on development samples of earlier sessions.
RowIsHonest(h, r) ==
  /\ r.sample \in Development(h)
  /\ \A y \in r.train : y \in Development(h) /\ y[2] < r.sample[2]

RowsAreHonest ==
  /\ \A h \in Horizons : InFold(h) => \A r \in rows : RowIsHonest(h, r)
  /\ \A e \in evidence : e.horizon \in Horizons /\ \A r \in e.rows : RowIsHonest(e.horizon, r)
  /\ chosen \subseteq evidence

UsedForDevelopment(use) == use[2] \in Horizons /\ use[1] \in Development(use[2])

\* Every fit uses development samples, and until the selection every judgement.
OnlyDevelopmentUsed ==
  /\ \A use \in fitted : UsedForDevelopment(use)
  /\ chosen = {} => \A use \in judged : UsedForDevelopment(use)

MetaInv == MetaTypeOK /\ NothingUsed /\ RowsAreHonest /\ OnlyDevelopmentUsed
-----------------------------------------------------------------------------
LEMMA MetaConstants ==
  /\ Universe \subseteq Nat /\ Calendar \subseteq Nat /\ Minutes \subseteq Nat
  /\ Horizons \subseteq Nat \ {0} /\ IsFiniteSet(Calendar)
  /\ IsFiniteSet(Minutes) /\ IsFiniteSet(Horizons)
  BY MetaAssumption

LEMMA SampleFields ==
  ASSUME MetaTypeOK, NEW h \in Horizons, NEW x \in samples[h]
  PROVE  x[1] \in Universe /\ x[2] \in Calendar /\ x[3] \in Minutes
  BY DEF MetaTypeOK

\* The last days of a finite set come after all its other days.
LEMMA LastAreLater ==
  ASSUME NEW S, S \subseteq Nat, IsFiniteSet(S), NEW n \in Nat,
         NEW x \in S, x \notin LastOf(n, S), NEW d \in LastOf(n, S)
  PROVE  x < d
<1>1. SUFFICES ASSUME d <= x PROVE FALSE
  BY DEF LastOf
<1> DEFINE After(z) == {y \in S : y > z}
<1>2. d \in S /\ Cardinality(After(d)) < n /\ ~(Cardinality(After(x)) < n)
  BY DEF LastOf
<1>3. After(x) \subseteq After(d)
  <2>1. ASSUME NEW y \in S, y > x PROVE y > d
    BY <1>1, <1>2, <2>1
  <2>2. QED BY <2>1
<1>4. IsFiniteSet(After(d))
  BY FS_Subset
<1>5. IsFiniteSet(After(x)) /\ Cardinality(After(x)) <= Cardinality(After(d))
  BY <1>3, <1>4, FS_Subset
<1>6. Cardinality(After(x)) \in Nat /\ Cardinality(After(d)) \in Nat
  BY <1>4, <1>5, FS_CardinalityType
<1>7. QED BY <1>2, <1>5, <1>6

\* Cells a sample is computed from lie on its day or on earlier ones.
LEMMA CellsBehind ==
  ASSUME NEW x, NEW h, x[2] \in Nat, NEW c \in FeatureCells(x) \cup LabelCells(x, h)
  PROVE  /\ c[3] \in Minutes /\ c[2] \in Nat /\ c[2] <= x[2]
         /\ c \in LabelCells(x, h) => c[2] = x[2] /\ c[3] <= x[3] + h
         /\ c \in FeatureCells(x) => c[2] < x[2] \/ (c[2] = x[2] /\ c[3] <= x[3])
<1>1. ASSUME c \in LabelCells(x, h)
      PROVE  c[3] \in Minutes /\ c[2] = x[2] /\ c[3] <= x[3] + h
  BY <1>1 DEF LabelCells
<1>2. ASSUME c \in FeatureCells(x)
      PROVE  c[3] \in Minutes /\ c[2] \in Nat
             /\ (c[2] < x[2] \/ (c[2] = x[2] /\ c[3] <= x[3]))
  <2>1. CASE c \in {e \in Aligned(x[2], x[3]) \X {x[2]} \X Minutes :
                      e[3] \in BarsOf(e[1], x[2]) /\ e[3] <= x[3]}
    BY <2>1
  <2>2. CASE c \in {e \in {x[1]} \X PriorSessions(x[1], x[2]) \X Minutes : e \in archive.stock}
    <3>1. c[2] \in PriorSessions(x[1], x[2]) /\ c[3] \in Minutes
      BY <2>2
    <3>2. c[2] \in Calendar /\ c[2] < x[2]
      BY <3>1 DEF PriorSessions, LastOf, SessionDates
    <3>3. QED BY <3>1, <3>2, MetaConstants
  <2>3. QED BY <1>2, <2>1, <2>2 DEF FeatureCells
<1>3. QED BY <1>1, <1>2

\* The cells of a development sample lie before every holdout session.
LEMMA DevelopmentIsBefore ==
  ASSUME MetaTypeOK, NEW use, UsedForDevelopment(use), NEW c \in CellsOf(use),
         NEW d \in HoldoutDates
  PROVE  c[2] < d
<1> DEFINE x == use[1]
           h == use[2]
<1>1. h \in Horizons /\ x \in samples[h] /\ x[2] \in OrderedDates \ HoldoutDates
  BY DEF UsedForDevelopment, Development, DevelopmentDates
<1>2. OrderedDates \subseteq Calendar
  <2>1. ASSUME NEW k \in Horizons, NEW y \in samples[k] PROVE y[2] \in Calendar
    BY <2>1, SampleFields
  <2>2. QED BY <2>1 DEF OrderedDates
<1>3. OrderedDates \subseteq Nat /\ IsFiniteSet(OrderedDates)
  BY <1>2, MetaConstants, FS_Subset
<1>4. x[2] < d /\ x[2] \in Nat /\ d \in Nat
  <2>1. HoldoutSessions \in Nat
    BY MetaAssumption
  <2>2. HoldoutDates \subseteq OrderedDates
    BY DEF HoldoutDates, LastOf
  <2>3. QED BY <1>1, <1>3, <2>1, <2>2, LastAreLater DEF HoldoutDates
<1>5. c[2] \in Nat /\ c[2] <= x[2]
  BY <1>4, CellsBehind DEF CellsOf
<1>6. QED BY <1>4, <1>5

LEMMA NoLeak == MetaInv => HoldoutUnopened
<1> SUFFICES ASSUME MetaInv, NEW use \in fitted \cup (IF chosen = {} THEN judged ELSE {}),
                    NEW c \in CellsOf(use), NEW d \in HoldoutDates
             PROVE  c[2] < d
  BY DEF HoldoutUnopened
<1>1. UsedForDevelopment(use)
  BY DEF MetaInv, OnlyDevelopmentUsed
<1>2. QED BY <1>1, DevelopmentIsBefore DEF MetaInv
-----------------------------------------------------------------------------
(***************************************************************************)
(* Steps of a validation.                                                  *)
(***************************************************************************)

\* Once built, the samples and what they are computed from stay.
SamplesStay == UNCHANGED <<archive, usable, samples>>

LEMMA SameSamples ==
  ASSUME SamplesStay
  PROVE  /\ \A h : Development(h)' = Development(h)
         /\ \A h, r : RowIsHonest(h, r)' <=> RowIsHonest(h, r)
         /\ \A use : UsedForDevelopment(use)' <=> UsedForDevelopment(use)
<1>1. OrderedDates' = OrderedDates /\ HeldOutSymbols' = HeldOutSymbols
  BY DEF SamplesStay, OrderedDates, HeldOutSymbols
<1>2. DevelopmentDates' = DevelopmentDates
  BY <1>1 DEF DevelopmentDates, HoldoutDates
<1>3. \A h : Development(h)' = Development(h)
  BY <1>1, <1>2 DEF Development, SamplesStay
<1>4. QED BY <1>3 DEF RowIsHonest, UsedForDevelopment

LEMMA DevelopmentTyped ==
  ASSUME MetaTypeOK, NEW h \in Horizons, NEW x \in Development(h)
  PROVE  x[2] \in Calendar /\ x[2] \in Nat /\ x[3] \in Minutes
<1>1. x \in samples[h]
  BY DEF Development
<1>2. QED BY <1>1, SampleFields, MetaConstants

\* A member of lower rank is smaller.
LEMMA RankOrders ==
  ASSUME NEW S, S \subseteq Nat, IsFiniteSet(S), NEW a \in Nat, NEW b \in Nat,
         NEW n \in Nat, Rank(a, S) <= n, n < Rank(b, S)
  PROVE  a < b
<1>1. SUFFICES ASSUME b <= a PROVE FALSE
  OBVIOUS
<1> DEFINE UpTo(z) == {y \in S : y <= z}
<1>2. UpTo(b) \subseteq UpTo(a)
  <2>1. ASSUME NEW y \in S, y <= b PROVE y <= a
    <3>1. y \in Nat
      OBVIOUS
    <3>2. QED BY <1>1, <2>1, <3>1
  <2>2. QED BY <2>1
<1>3. IsFiniteSet(UpTo(a))
  BY FS_Subset
<1>4. IsFiniteSet(UpTo(b)) /\ Cardinality(UpTo(b)) <= Cardinality(UpTo(a))
  BY <1>2, <1>3, FS_Subset
<1>5. Cardinality(UpTo(a)) \in Nat /\ Cardinality(UpTo(b)) \in Nat
  BY <1>3, <1>4, FS_CardinalityType
<1>6. QED BY <1>4, <1>5 DEF Rank

\* Of a fold, all sessions trained on lie before all sessions tested on.
LEMMA FoldsAreOrdered ==
  ASSUME MetaTypeOK, NEW h \in Horizons, NEW start \in Nat, NEW x \in TestSamples(h, start),
         NEW y \in Development(h), Rank(y[2], FoldDates(h)) <= start
  PROVE  x \in Development(h) /\ y[2] < x[2]
<1>1. /\ x \in Development(h)
      /\ Rank(x[2], FoldDates(h)) \in (start + 1)..(start + TestBlock)
  BY DEF TestSamples
<1>2. FoldDates(h) \subseteq Calendar
  BY DevelopmentTyped DEF FoldDates
<1>3. FoldDates(h) \subseteq Nat /\ IsFiniteSet(FoldDates(h))
  BY <1>2, MetaConstants, FS_Subset
<1>4. x[2] \in Nat /\ y[2] \in Nat
  BY <1>1, DevelopmentTyped
<1>5. start < Rank(x[2], FoldDates(h))
  <2>1. TestBlock \in Nat
    BY MetaAssumption
  <2>2. QED BY <1>1, <2>1
<1>6. QED BY <1>1, <1>3, <1>4, <1>5, RankOrders

LEMMA FoldIsHonest ==
  ASSUME MetaTypeOK, NEW h \in Horizons, NEW start \in Nat, NEW x \in TestSamples(h, start)
  PROVE  RowIsHonest(h, [sample |-> x, train |-> TrainSamples(h, start)])
<1>1. x \in Development(h)
  BY DEF TestSamples
<1>2. ASSUME NEW y \in TrainSamples(h, start) PROVE y \in Development(h) /\ y[2] < x[2]
  <2>1. y \in Development(h) /\ Rank(y[2], FoldDates(h)) <= start
    BY DEF TrainSamples
  <2>2. QED BY <2>1, FoldsAreOrdered
<1>3. QED BY <1>1, <1>2 DEF RowIsHonest

\* What a sample of an earlier session was computed from is out of sample.
LEMMA EarlierIsOutOfSample ==
  ASSUME MetaTypeOK, NEW h \in Horizons, NEW r, r.sample \in Development(h), NEW seen,
         \A y \in seen : y \in Development(h) /\ y[2] < r.sample[2]
  PROVE  OutOfSample(h, r, seen)
<1> SUFFICES ASSUME NEW y \in seen, NEW c \in CellsOf(<<y, h>>)
             PROVE  c[2] < r.sample[2]
  BY DEF OutOfSample
<1>1. y[2] \in Nat /\ r.sample[2] \in Nat /\ y[2] < r.sample[2]
  BY DevelopmentTyped
<1>2. c \in FeatureCells(y) \cup LabelCells(y, h)
  BY DEF CellsOf
<1>3. c[2] \in Nat /\ c[2] <= y[2]
  BY <1>1, <1>2, CellsBehind
<1>4. QED BY <1>1, <1>3

\* The sessions the regressors are judged on come after those they were fitted
\* on, and these after those the base models behind them were fitted on.
LEMMA StackIsOrdered ==
  ASSUME MetaTypeOK, NEW h \in Horizons, NEW rs, \A r \in rs : RowIsHonest(h, r),
         NEW r \in EvalRows(rs), NEW y \in SeenByRegressors(rs)
  PROVE  y \in Development(h) /\ y[2] < r.sample[2]
<1> DEFINE dates == RowDates(rs)
           n == Cardinality(dates)
           length == IF n \div 4 > MinEval THEN n \div 4 ELSE MinEval
<1>1. dates \subseteq Calendar
  <2>1. \A q \in rs : q.sample[2] \in Calendar
    BY DevelopmentTyped DEF RowIsHonest
  <2>2. QED BY <2>1 DEF RowDates
<1>2. dates \subseteq Nat /\ IsFiniteSet(dates)
  BY <1>1, MetaConstants, FS_Subset
<1>3. length \in Nat
  <2>1. n \in Nat /\ MinEval \in Nat
    BY <1>2, FS_CardinalityType, MetaAssumption
  <2> HIDE DEF n
  <2>2. QED BY <2>1
<1>4. r \in rs /\ r.sample[2] \in LastOf(length, dates)
  BY DEF EvalRows, EvalDates
<1>5. PICK q \in MetaTrainRows(rs) : y = q.sample \/ y \in q.train
  BY DEF SeenByRegressors
<1>6. q \in rs /\ q.sample[2] \in dates /\ q.sample[2] \notin LastOf(length, dates)
  BY <1>5 DEF MetaTrainRows, EvalRows, EvalDates, RowDates
<1> HIDE DEF dates, length
<1>7. q.sample[2] < r.sample[2]
  BY <1>2, <1>3, <1>4, <1>6, LastAreLater
<1>8. /\ q.sample \in Development(h) /\ r.sample \in Development(h)
      /\ \A z \in q.train : z \in Development(h) /\ z[2] < q.sample[2]
  BY <1>4, <1>6 DEF RowIsHonest
<1>9. CASE y = q.sample
  BY <1>7, <1>8, <1>9
<1>10. CASE y \in q.train
  <2>1. y \in Development(h) /\ y[2] < q.sample[2]
    BY <1>8, <1>10
  <2>2. y[2] \in Nat /\ q.sample[2] \in Nat /\ r.sample[2] \in Nat
    BY <1>8, <2>1, DevelopmentTyped
  <2>3. QED BY <1>7, <2>1, <2>2
<1>11. QED BY <1>5, <1>9, <1>10

LEMMA OnlyPast == MetaInv => TrainedOnlyOnPast
<1> SUFFICES ASSUME MetaInv PROVE TrainedOnlyOnPast
  OBVIOUS
<1>1. MetaTypeOK
  BY DEF MetaInv
<1>2. ASSUME NEW h \in Horizons, NEW r, RowIsHonest(h, r) PROVE OutOfSample(h, r, r.train)
  BY <1>1, <1>2, EarlierIsOutOfSample DEF RowIsHonest
<1>3. ASSUME NEW h \in Horizons, InFold(h), NEW r \in rows PROVE OutOfSample(h, r, r.train)
  BY <1>2, <1>3 DEF MetaInv, RowsAreHonest
<1>4. ASSUME NEW e \in evidence
      PROVE  e.horizon \in Horizons /\ \A r \in e.rows : RowIsHonest(e.horizon, r)
  BY DEF MetaInv, RowsAreHonest
<1>5. ASSUME NEW e \in evidence, NEW r \in EvalRows(e.rows)
      PROVE  OutOfSample(e.horizon, r, SeenByRegressors(e.rows))
  <2>1. r \in e.rows
    BY DEF EvalRows
  <2>2. r.sample \in Development(e.horizon)
    BY <1>4, <2>1 DEF RowIsHonest
  <2>3. \A y \in SeenByRegressors(e.rows) :
          y \in Development(e.horizon) /\ y[2] < r.sample[2]
    BY <1>1, <1>4, StackIsOrdered
  <2>4. QED BY <1>1, <1>4, <2>2, <2>3, EarlierIsOutOfSample
<1>6. QED BY <1>2, <1>3, <1>4, <1>5 DEF TrainedOnlyOnPast

LEMMA MetaStart == MetaInit => MetaInv
  BY MetaAssumption
  DEF MetaInit, MetaInv, MetaTypeOK, NothingUsed, RowsAreHonest, OnlyDevelopmentUsed, InFold

LEMMA MetaTypeStep == MetaTypeOK /\ [MetaNext]_metaVars => MetaTypeOK'
<1> SUFFICES ASSUME MetaTypeOK, [MetaNext]_metaVars PROVE MetaTypeOK'
  OBVIOUS
<1>1. CASE UNCHANGED <<usable, pending, samples, block>>
  BY <1>1 DEF MetaTypeOK
<1>2. CASE \E s \in Universe : FetchSymbol(s)
  BY <1>2 DEF FetchSymbol, MetaTypeOK
<1>3. CASE BuildSamples
  <2>1. samples' = [h \in Horizons |-> SamplesFor(h)] /\ UNCHANGED <<usable, pending, block>>
    BY <1>3 DEF BuildSamples
  <2>2. \A h \in Horizons : SamplesFor(h) \subseteq Universe \X Calendar \X Minutes
    BY DEF SamplesFor, MetaTypeOK
  <2>3. QED BY <2>1, <2>2 DEF MetaTypeOK
<1>4. ASSUME NEW h \in Horizons, NextHorizon(h) PROVE MetaTypeOK'
  BY <1>4, MetaAssumption DEF NextHorizon, MetaTypeOK
<1>5. ASSUME NEW h \in Horizons, Fold(h) PROVE MetaTypeOK'
  <2>1. TestBlock \in Nat
    BY MetaAssumption
  <2>2. QED BY <1>5, <2>1 DEF Fold, MetaTypeOK
<1>6. QED
  BY <1>1, <1>2, <1>3, <1>4, <1>5
     DEF MetaNext, metaVars, Raise, FetchRaises, TooSmall, SplitDates, FoldRaises,
         SkipHorizon, EvaluateHorizon, EvaluationRaises, SelectHorizon, NothingTrainable,
         EvaluateHoldout, HoldoutRaises

\* A step that uses no sample keeps what is known of the uses.
LEMMA UsesStay ==
  ASSUME MetaInv, SamplesStay, UNCHANGED <<evidence, chosen, fitted, judged, rows, pending>>,
         progress' = progress \/ progress' \notin {"fetch", "split", "folds"}
  PROVE  NothingUsed' /\ RowsAreHonest' /\ OnlyDevelopmentUsed'
<1>1. /\ \A h, r : RowIsHonest(h, r)' <=> RowIsHonest(h, r)
      /\ \A use : UsedForDevelopment(use)' <=> UsedForDevelopment(use)
  BY SameSamples
<1>2. \A h \in Horizons : InFold(h)' => InFold(h)
  BY DEF InFold
<1>3. NothingUsed'
  BY DEF MetaInv, NothingUsed
<1>4. RowsAreHonest'
  BY <1>1, <1>2 DEF MetaInv, RowsAreHonest
<1>5. OnlyDevelopmentUsed'
  BY <1>1 DEF MetaInv, OnlyDevelopmentUsed
<1>6. QED BY <1>3, <1>4, <1>5

\* The fold whose turn it is is one.
LEMMA OneFold ==
  ASSUME NEW h \in Horizons, NEW k \in Horizons, InFold(h), InFold(k)
  PROVE  h = k
  BY MetaConstants DEF InFold

LEMMA HorizonsInTurn ==
  ASSUME MetaInv, NEW h \in Horizons, InFold(h), NextHorizon(h),
         NEW E, evidence' = evidence \cup E,
         \A e \in E : e.horizon \in Horizons /\ \A r \in e.rows : RowIsHonest(e.horizon, r),
         NEW F, fitted' = fitted \cup F, \A use \in F : UsedForDevelopment(use),
         NEW J, judged' = judged \cup J, \A use \in J : UsedForDevelopment(use)
  PROVE  NothingUsed' /\ RowsAreHonest' /\ OnlyDevelopmentUsed'
<1>1. /\ SamplesStay /\ UNCHANGED chosen /\ rows' = {}
      /\ progress' \in {"select", "folds"}
  BY DEF NextHorizon, SamplesStay
<1>2. /\ \A k, r : RowIsHonest(k, r)' <=> RowIsHonest(k, r)
      /\ \A use : UsedForDevelopment(use)' <=> UsedForDevelopment(use)
  BY <1>1, SameSamples
<1>3. NothingUsed'
  BY <1>1 DEF NothingUsed
<1>4. RowsAreHonest'
  BY <1>1, <1>2 DEF MetaInv, RowsAreHonest
<1>5. OnlyDevelopmentUsed'
  BY <1>1, <1>2 DEF MetaInv, OnlyDevelopmentUsed
<1>6. QED BY <1>3, <1>4, <1>5

LEMMA MetaUsesStep ==
  MetaInv /\ [MetaNext]_metaVars => NothingUsed' /\ RowsAreHonest' /\ OnlyDevelopmentUsed'
<1> DEFINE Goal == NothingUsed' /\ RowsAreHonest' /\ OnlyDevelopmentUsed'
<1> SUFFICES ASSUME MetaInv, [MetaNext]_metaVars PROVE Goal
  OBVIOUS
<1>1. CASE Raise \/ UNCHANGED metaVars
  BY <1>1, UsesStay DEF Raise, metaVars, SamplesStay
<1>2. CASE (\E s \in Universe : FetchSymbol(s)) \/ BuildSamples
  <2>1. /\ UNCHANGED <<rows, evidence, chosen, fitted, judged>> /\ progress = "fetch"
        /\ progress' \in {"fetch", "split"}
    BY <1>2 DEF FetchSymbol, BuildSamples
  <2>2. rows' = {} /\ evidence' = {} /\ chosen' = {} /\ fitted' = {} /\ judged' = {}
    BY <2>1 DEF MetaInv, NothingUsed
  <2>3. QED BY <2>1, <2>2 DEF NothingUsed, RowsAreHonest, OnlyDevelopmentUsed, InFold
<1>3. CASE SplitDates
  <2>1. CASE ~Raise
    <3>1. /\ UNCHANGED <<rows, evidence, chosen, fitted, judged>> /\ progress = "split"
          /\ progress' = "folds"
      BY <1>3, <2>1 DEF SplitDates
    <3>2. rows' = {} /\ evidence' = {} /\ chosen' = {} /\ fitted' = {} /\ judged' = {}
      BY <3>1 DEF MetaInv, NothingUsed
    <3>3. QED BY <3>1, <3>2 DEF NothingUsed, RowsAreHonest, OnlyDevelopmentUsed
  <2>2. QED BY <1>1, <2>1
<1>4. ASSUME NEW h \in Horizons, Fold(h) PROVE Goal
  <2>1. /\ InFold(h) /\ SamplesStay
        /\ rows' = rows \cup {[sample |-> x, train |-> TrainSamples(h, block)] :
                                 x \in TestSamples(h, block) \ Unscorable}
        /\ fitted' = fitted \cup {<<x, h>> : x \in TrainSamples(h, block)}
        /\ UNCHANGED <<progress, pending, evidence, chosen, judged>>
    BY <1>4 DEF Fold, SamplesStay
  <2>2. /\ \A k, r : RowIsHonest(k, r)' <=> RowIsHonest(k, r)
        /\ \A use : UsedForDevelopment(use)' <=> UsedForDevelopment(use)
    BY <2>1, SameSamples
  <2>3. \A x \in TestSamples(h, block) :
          RowIsHonest(h, [sample |-> x, train |-> TrainSamples(h, block)])
    BY FoldIsHonest DEF MetaInv, MetaTypeOK
  <2>4. \A x \in TrainSamples(h, block) : UsedForDevelopment(<<x, h>>)
    BY DEF TrainSamples, UsedForDevelopment
  <2>5. \A r \in rows' : RowIsHonest(h, r)
    BY <2>1, <2>3 DEF MetaInv, RowsAreHonest
  <2>6. \A k \in Horizons : InFold(k)' => k = h
    BY <2>1, OneFold DEF InFold
  <2>7. NothingUsed'
    BY <2>1 DEF InFold, NothingUsed
  <2>8. RowsAreHonest'
    BY <2>1, <2>2, <2>5, <2>6 DEF MetaInv, RowsAreHonest
  <2>9. OnlyDevelopmentUsed'
    BY <2>1, <2>2, <2>4 DEF MetaInv, OnlyDevelopmentUsed
  <2>10. QED BY <2>7, <2>8, <2>9
<1>5. ASSUME NEW h \in Horizons, SkipHorizon(h) PROVE Goal
  <2> DEFINE none == {}
  <2>1. /\ InFold(h) /\ NextHorizon(h) /\ evidence' = evidence \cup none
        /\ fitted' = fitted \cup none /\ judged' = judged \cup none
    BY <1>5 DEF SkipHorizon
  <2>2. /\ \A e \in none : e.horizon \in Horizons /\ \A r \in e.rows : RowIsHonest(e.horizon, r)
        /\ \A use \in none : UsedForDevelopment(use)
    OBVIOUS
  <2> HIDE DEF none
  <2>3. QED BY <2>1, <2>2, HorizonsInTurn
<1>6. ASSUME NEW h \in Horizons, NEW total \in Totals, EvaluateHorizon(h, total) PROVE Goal
  <2> DEFINE E == {[horizon |-> h, rows |-> rows, total |-> total]}
             F == {<<r.sample, h>> : r \in MetaTrainRows(rows)}
             J == {<<r.sample, h>> : r \in EvalRows(rows)}
  <2>1. /\ InFold(h) /\ NextHorizon(h) /\ evidence' = evidence \cup E
        /\ fitted' = fitted \cup F /\ judged' = judged \cup J
    BY <1>6 DEF EvaluateHorizon
  <2>2. \A r \in rows : RowIsHonest(h, r)
    BY <2>1 DEF MetaInv, RowsAreHonest
  <2>3. MetaTrainRows(rows) \subseteq rows /\ EvalRows(rows) \subseteq rows
    BY DEF MetaTrainRows, EvalRows
  <2>4. \A e \in E : e.horizon \in Horizons /\ \A r \in e.rows : RowIsHonest(e.horizon, r)
    BY <2>2
  <2>5. \A r \in rows : UsedForDevelopment(<<r.sample, h>>)
    BY <2>2 DEF RowIsHonest, UsedForDevelopment
  <2>6. (\A use \in F : UsedForDevelopment(use)) /\ (\A use \in J : UsedForDevelopment(use))
    BY <2>3, <2>5
  <2> HIDE DEF E, F, J
  <2>7. QED BY <2>1, <2>4, <2>6, HorizonsInTurn
<1>7. CASE SelectHorizon
  <2>1. /\ UNCHANGED <<evidence, fitted, judged>> /\ SamplesStay
        /\ chosen' \subseteq evidence /\ progress' = "holdout" /\ chosen' # {}
    BY <1>7 DEF SelectHorizon, SamplesStay
  <2>2. /\ \A k, r : RowIsHonest(k, r)' <=> RowIsHonest(k, r)
        /\ \A use : UsedForDevelopment(use)' <=> UsedForDevelopment(use)
    BY <2>1, SameSamples
  <2>3. QED
    BY <2>1, <2>2 DEF MetaInv, NothingUsed, RowsAreHonest, OnlyDevelopmentUsed, InFold
<1>8. ASSUME NEW passes \in BOOLEAN, EvaluateHoldout(passes) PROVE Goal
  <2>1. PICK best \in chosen :
          fitted' = fitted \cup {<<x, best.horizon>> : x \in Development(best.horizon)}
    BY <1>8 DEF EvaluateHoldout
  <2>2. /\ UNCHANGED <<evidence, chosen>> /\ SamplesStay /\ progress' = "done"
    BY <1>8 DEF EvaluateHoldout, SamplesStay
  <2>3. /\ \A k, r : RowIsHonest(k, r)' <=> RowIsHonest(k, r)
        /\ \A use : UsedForDevelopment(use)' <=> UsedForDevelopment(use)
    BY <2>2, SameSamples
  <2>4. best.horizon \in Horizons /\ chosen' # {}
    BY <2>2 DEF MetaInv, RowsAreHonest
  <2>5. \A x \in Development(best.horizon) : UsedForDevelopment(<<x, best.horizon>>)
    BY <2>4 DEF UsedForDevelopment
  <2>6. QED
    BY <2>1, <2>2, <2>3, <2>4, <2>5
       DEF MetaInv, NothingUsed, RowsAreHonest, OnlyDevelopmentUsed, InFold
<1>9. QED
  BY <1>1, <1>2, <1>3, <1>4, <1>5, <1>6, <1>7, <1>8
     DEF MetaNext, FetchRaises, TooSmall, FoldRaises, EvaluationRaises, NothingTrainable,
         HoldoutRaises

LEMMA MetaInvariance == MetaSpec => []MetaInv
<1>1. MetaInv /\ [MetaNext]_metaVars => MetaInv'
  BY MetaTypeStep, MetaUsesStep DEF MetaInv
<1>2. QED BY <1>1, MetaStart, PTL DEF MetaSpec

\* Until the horizon is selected no fit and no evaluation has read a candle of a
\* holdout session, and no model is ever fitted on one, however the archive is
\* gapped and whatever fails (meta_intelligence.py:349-372, 466).
THEOREM HoldoutStaysUnopened == MetaSpec => []HoldoutUnopened
  BY MetaInvariance, NoLeak, PTL

\* Neither the base models that score an out-of-fold row nor the regressors that
\* are judged on it have seen a candle of its session or of a later one, through
\* features, labels or the scores of other rows (meta_intelligence.py:423-461,
\* 656-693).  Whole sessions in order give it, at both levels; the embargo has no
\* part in it.
THEOREM ModelsKnowOnlyThePast == MetaSpec => []TrainedOnlyOnPast
  BY MetaInvariance, OnlyPast, PTL
-----------------------------------------------------------------------------
(***************************************************************************)
(* The embargo before a fold.                                              *)
(***************************************************************************)
LEMMA DayLengthFits ==
  ASSUME NEW m \in Minutes, NEW h \in Horizons
  PROVE  DayLength \in Nat /\ m + 2 * h < DayLength
<1>1. Max(Minutes) \in Minutes /\ Max(Minutes) >= m
  <2>1. Minutes \subseteq Int
    BY MetaConstants
  <2>2. QED BY <2>1, MetaConstants, MaxIsGreatest
<1>2. Max(Horizons) \in Horizons /\ Max(Horizons) >= h
  <2>1. Horizons \subseteq Int
    BY MetaConstants
  <2>2. QED BY <2>1, MetaConstants, MaxIsGreatest
<1>3. Max(Minutes) \in Nat /\ Max(Horizons) \in Nat /\ m \in Nat /\ h \in Nat
  BY <1>1, <1>2, MetaConstants
<1>4. QED BY <1>1, <1>2, <1>3 DEF DayLength

\* A moment of an earlier day is an earlier moment.
LEMMA EarlierDay ==
  ASSUME NEW a \in Nat, NEW b \in Nat, a < b, NEW len \in Nat,
         NEW m \in Nat, m < len, NEW n \in Nat
  PROVE  (a * len) + m < (b * len) + n
<1> DEFINE k == b - (a + 1)
<1>1. k \in Nat /\ b = (a + 1) + k
  OBVIOUS
<1> HIDE DEF k
<1>2. k * len \in Nat /\ a * len \in Nat
  BY <1>1
<1>3. ((a + 1) + k) * len = ((a * len) + len) + (k * len)
  BY <1>1
<1>4. b * len = ((a * len) + len) + (k * len)
  BY <1>1, <1>3
<1>5. QED BY <1>2, <1>4

LEMMA MomentsOfSessions ==
  ASSUME NEW h \in Horizons, NEW y, y[2] \in Nat, y[3] \in Minutes,
         NEW x, x[2] \in Nat, x[3] \in Minutes
  PROVE  /\ Moment(x) \in Nat /\ Moment(y) \in Nat
         /\ y[2] < x[2] => Moment(y) + h < Moment(x) - h
<1>1. /\ DayLength \in Nat /\ x[3] \in Nat /\ y[3] \in Nat /\ h \in Nat
      /\ y[3] + 2 * h \in Nat /\ y[3] + 2 * h < DayLength
  <2>1. x[3] \in Nat /\ y[3] \in Nat /\ h \in Nat
    BY MetaConstants
  <2>2. DayLength \in Nat /\ y[3] + 2 * h < DayLength
    BY DayLengthFits
  <2>3. QED BY <2>1, <2>2
<1>2. x[2] * DayLength \in Nat /\ y[2] * DayLength \in Nat
  BY <1>1
<1>3. Moment(x) = (x[2] * DayLength) + x[3] /\ Moment(y) = (y[2] * DayLength) + y[3]
  BY DEF Moment
<1>4. ASSUME y[2] < x[2] PROVE Moment(y) + h < Moment(x) - h
  <2>1. (y[2] * DayLength) + (y[3] + 2 * h) < (x[2] * DayLength) + x[3]
    BY <1>1, <1>4, EarlierDay
  <2>2. QED BY <1>1, <1>2, <1>3, <2>1
<1>5. QED BY <1>1, <1>2, <1>3, <1>4

\* The condition on the time of a training sample (meta_intelligence.py:667-673)
\* never fails: labels end on their day, and a night is longer than two horizons.
THEOREM EmbargoRemovesNothing ==
  ASSUME MetaTypeOK, NEW h \in Horizons, NEW start \in Nat, TestSamples(h, start) # {}
  PROVE  TrainSamples(h, start) = {x \in Development(h) : Rank(x[2], FoldDates(h)) <= start}
<1> DEFINE moments == {Moment(z) : z \in TestSamples(h, start)}
           first == Min(moments)
<1>1. ASSUME NEW z \in TestSamples(h, start)
      PROVE  z[2] \in Nat /\ z[3] \in Minutes /\ Moment(z) \in Nat
  <2>1. z[2] \in Nat /\ z[3] \in Minutes
    BY <1>1, DevelopmentTyped DEF TestSamples
  <2>2. QED BY <2>1, MomentsOfSessions
<1>2. first \in moments
  <2>1. moments \subseteq Nat /\ moments # {}
    BY <1>1
  <2> HIDE DEF moments
  <2>2. QED BY <2>1, MinOfNaturals
<1>3. PICK z \in TestSamples(h, start) : first = Moment(z)
  BY <1>2
<1> HIDE DEF first, moments
<1>4. ASSUME NEW y \in Development(h), Rank(y[2], FoldDates(h)) <= start
      PROVE  Moment(y) + h < first - h
  <2>1. y[2] < z[2]
    BY <1>4, FoldsAreOrdered
  <2>2. y[2] \in Nat /\ y[3] \in Minutes /\ z[2] \in Nat /\ z[3] \in Minutes
    BY <1>1, DevelopmentTyped
  <2>3. QED BY <1>3, <2>1, <2>2, MomentsOfSessions
<1>5. TrainSamples(h, start) =
        {x \in Development(h) : /\ Rank(x[2], FoldDates(h)) <= start
                                /\ Moment(x) + h < first - h}
  BY DEF TrainSamples, first, moments
<1>6. QED BY <1>4, <1>5
-----------------------------------------------------------------------------
(***************************************************************************)
(* The files that validations share.                                       *)
(***************************************************************************)
Stages == {"write", "opened", "half", "written"}
Places ==
  {<<"off">>, <<"fetch">>, <<"request">>, <<"judge">>, <<"evidence">>, <<"read">>,
   <<"extend">>, <<"recording">>, <<"end">>, <<"raised">>} \cup Moved \X Stages

FilesTypeOK ==
  /\ at \in [Validations -> Places]
  /\ writing \in [Validations -> SUBSET Validations]
  /\ inodes \in [Moved \X Validations -> SUBSET ({"head", "tail"} \X Validations)]
  /\ temporary \in [Moved -> SUBSET Validations]
  /\ place \in [Moved -> SUBSET Validations]
  /\ current \in [Validations -> SUBSET Validations]
  /\ registry.records \subseteq Validations

\* A run comes to the model when it is approved, has written its evidence and
\* its record; what is in a model file was written by such runs.
Settled == approved \cap evidenceFiles \cap recorded
ModelsSettled ==
  /\ \A v \in Validations :
       /\ at[v] \in {"model"} \X Stages => v \in Settled
       /\ at[v] \in {<<"read">>, <<"extend">>, <<"recording">>} => v \in evidenceFiles
  /\ \A i \in Validations : \A p \in inodes[<<"model", i>>] : p[2] \in Settled

\* The run has the temporary name of the candles open, or has not come to it.
Fills(v) == at[v] \in {"candles"} \X {"opened", "half", "written"}
NotYet(v) == at[v] \in {<<"off">>, <<"fetch">>, <<"request">>, <<"candles", "write">>}

\* What has been written under the temporary name.
Draft == UNION {inodes[<<"candles", i>>] : i \in temporary["candles"]}
DraftOf(v) ==
  CASE at[v] = <<"candles", "opened">> -> {}
    [] at[v] = <<"candles", "half">> -> {"head"}
    [] at[v] = <<"candles", "written">> -> {"head", "tail"}

\* As long as no two runs wrote the candles at once, the run that does so is
\* alone with its draft, and the file in place is another one and complete.
CandlesInOrder ==
  /\ \A v \in Validations : NotYet(v) => v \notin place["candles"] \cup temporary["candles"]
  /\ "candles" \notin overlapped =>
       /\ \A v, w \in Validations : Fills(v) /\ Fills(w) => v = w
       /\ \A v \in Validations : Fills(v) =>
            /\ writing[v] = temporary["candles"] /\ writing[v] # {}
            /\ Parts(Draft) = DraftOf(v)
       /\ place["candles"] \cap temporary["candles"] = {}
       /\ place["candles"] # {} => Parts(Content("candles")) = {"head", "tail"}

\* As long as no two runs extended the registry at once and none died over it,
\* the run that does so knows every record.
Extends(v) == at[v] \in {<<"extend">>, <<"recording">>}
RegistryInOrder ==
  "registry" \notin overlapped /\ ~diedRecording =>
    /\ \A v, w \in Validations : Extends(v) /\ Extends(w) => v = w
    /\ \A v \in Validations : at[v] = <<"extend">> => current[v] = registry.records
    /\ \A v \in Validations :
         at[v] = <<"recording">> => registry.kind = "empty" /\ recorded \subseteq current[v]
    /\ (\A v \in Validations : at[v] # <<"recording">>) =>
         registry.kind \in {"none", "whole"} /\ recorded \subseteq registry.records

FilesInv == FilesTypeOK /\ ModelsSettled /\ CandlesInOrder /\ RegistryInOrder
-----------------------------------------------------------------------------
LEMMA FilesStart == FilesInit => FilesInv
<1> SUFFICES ASSUME FilesInit PROVE FilesInv
  OBVIOUS
<1>1. \A v \in Validations : at[v] = <<"off">>
  BY DEF FilesInit
<1>2. FilesTypeOK
  BY DEF FilesInit, FilesTypeOK, Places, RegistryOf
<1>3. ModelsSettled
  <2>1. \A i \in Validations : inodes[<<"model", i>>] = {}
    BY DEF FilesInit, Moved
  <2>2. <<"off">> \notin {"model"} \X Stages
    OBVIOUS
  <2>3. <<"off">> \notin {<<"read">>, <<"extend">>, <<"recording">>}
    OBVIOUS
  <2>4. QED BY <1>1, <2>1, <2>2, <2>3 DEF ModelsSettled
<1>4. \A v \in Validations : ~Fills(v) /\ ~Extends(v) /\ at[v] # <<"recording">>
  BY <1>1 DEF Fills, Extends
<1>5. CandlesInOrder
  BY <1>4 DEF FilesInit, CandlesInOrder, Moved
<1>6. RegistryInOrder
  BY <1>4 DEF FilesInit, RegistryInOrder, RegistryOf, Extends
<1>7. QED BY <1>2, <1>3, <1>5, <1>6 DEF FilesInv

LEMMA FollowingTyped ==
  ASSUME NEW v \in Validations
  PROVE  /\ Following(v, "candles") = <<"judge">>
         /\ Following(v, "verdict") = <<"evidence">>
         /\ Following(v, "evidence") = <<"read">>
         /\ Following(v, "record") \in {<<"model", "write">>, <<"end">>}
         /\ Following(v, "record") = <<"model", "write">> => v \in approved
         /\ Following(v, "model") = <<"end">>
  BY DEF Following

\* Where a run goes is a place.
LEMMA PlacesTyped ==
  /\ {<<"off">>, <<"fetch">>, <<"request">>, <<"judge">>, <<"evidence">>, <<"read">>,
      <<"extend">>, <<"recording">>, <<"end">>, <<"raised">>} \subseteq Places
  /\ \A f \in Moved, x \in Stages : <<f, x>> \in Places
  /\ \A v \in Validations, f \in Moved : Following(v, f) \in Places
  /\ \A v \in Validations : \A done \in {"verdict", "evidence", "record"} :
       Following(v, done) \in Places
<1>1. \A f \in Moved, x \in Stages : <<f, x>> \in Places
  BY DEF Places
<1>2. {<<"off">>, <<"fetch">>, <<"request">>, <<"judge">>, <<"evidence">>, <<"read">>,
       <<"extend">>, <<"recording">>, <<"end">>, <<"raised">>} \subseteq Places
  BY DEF Places
<1>3. <<"model", "write">> \in Places
  BY <1>1 DEF Moved, Stages
<1>4. QED BY <1>1, <1>2, <1>3, FollowingTyped DEF Moved

LEMMA EnterTyped ==
  ASSUME at \in [Validations -> Places], NEW v \in Validations, NEW w \in Places, Enter(v, w)
  PROVE  /\ at' \in [Validations -> Places] /\ at'[v] = w
         /\ \A u \in Validations : u # v => at'[u] = at[u]
  BY DEF Enter

LEMMA FilesTypeStep == FilesTypeOK /\ [FilesNext]_filesVars => FilesTypeOK'
<1> SUFFICES ASSUME FilesTypeOK, [FilesNext]_filesVars PROVE FilesTypeOK'
  OBVIOUS
<1> USE DEF FilesTypeOK
<1>1. ASSUME NEW v \in Validations, NEW f \in Moved, OpenTemporary(v, f) PROVE FilesTypeOK'
  <2> DEFINE inode == IF temporary[f] = {} THEN {v} ELSE temporary[f]
  <2>1. inode \subseteq Validations
    OBVIOUS
  <2>2. <<f, "opened">> \in Places
    BY PlacesTyped DEF Stages
  <2>3. /\ temporary' = [temporary EXCEPT ![f] = inode]
        /\ inodes' = [i \in DOMAIN inodes |-> IF i \in {f} \X inode THEN {} ELSE inodes[i]]
        /\ writing' = [writing EXCEPT ![v] = inode]
        /\ UNCHANGED <<place, current, registry>> /\ Enter(v, <<f, "opened">>)
    BY <1>1 DEF OpenTemporary, Truncate
  <2> HIDE DEF inode
  <2>4. at' \in [Validations -> Places]
    BY <2>2, <2>3, EnterTyped
  <2>5. QED BY <2>1, <2>3, <2>4
<1>2. ASSUME NEW v \in Validations, NEW f \in Moved, NEW part \in {"head", "tail"},
             WritePart(v, f, part)
      PROVE  FilesTypeOK'
  <2>1. /\ inodes' = [i \in DOMAIN inodes |->
                        IF i \in {f} \X writing[v]
                        THEN {p \in inodes[i] : p[1] # part} \cup {<<part, v>>}
                        ELSE inodes[i]]
        /\ UNCHANGED <<writing, temporary, place, current, registry>>
        /\ \E w \in {<<f, "half">>, <<f, "written">>} : Enter(v, w)
    BY <1>2 DEF WritePart
  <2>2. {<<f, "half">>, <<f, "written">>} \subseteq Places
    BY PlacesTyped DEF Stages
  <2>3. at' \in [Validations -> Places]
    BY <2>1, <2>2, EnterTyped
  <2>4. QED BY <2>1, <2>3
<1>3. ASSUME NEW v \in Validations, NEW f \in Moved, Replace(v, f) PROVE FilesTypeOK'
  <2>1. /\ place' = [place EXCEPT ![f] = IF temporary[f] = {} THEN @ ELSE temporary[f]]
        /\ temporary' = [temporary EXCEPT ![f] = {}]
        /\ writing' = [writing EXCEPT ![v] = {}]
        /\ UNCHANGED <<inodes, current, registry>>
        /\ \E w \in {<<"raised">>, Following(v, f)} : Enter(v, w)
    BY <1>3 DEF Replace
  <2>2. at' \in [Validations -> Places]
    BY <2>1, PlacesTyped, EnterTyped
  <2>3. QED BY <2>1, <2>2
<1>4. ASSUME NEW v \in Validations, NEW w \in Places, Enter(v, w), OnlyAt PROVE FilesTypeOK'
  BY <1>4, EnterTyped DEF OnlyAt
<1>5. ASSUME NEW v \in Validations,
             StartValidation(v) \/ UseCache(v) \/ CacheRaises(v) \/ NoCache(v) \/ Fetch(v)
      PROVE  FilesTypeOK'
  <2>1. OnlyAt /\ \E w \in {<<"fetch">>, <<"judge">>, <<"raised">>, <<"request">>,
                            <<"candles", "write">>} : Enter(v, w)
    BY <1>5 DEF StartValidation, UseCache, CacheRaises, NoCache, Fetch
  <2>2. <<"candles", "write">> \in Places
    BY PlacesTyped DEF Moved, Stages
  <2>3. QED BY <2>1, <2>2, <1>4, PlacesTyped
<1>6. ASSUME NEW v \in Validations, NEW w \in Places, Enter(v, w),
             UNCHANGED <<writing, inodes, temporary>>,
             current' \in [Validations -> SUBSET Validations],
             registry'.records \subseteq Validations,
             place' \in [Moved -> SUBSET Validations]
      PROVE  FilesTypeOK'
  BY <1>6, EnterTyped
<1>7. ASSUME NEW v \in Validations, DropCache(v) \/ WriteEvidence(v) \/ OpenRegistry(v)
                                      \/ WriteRegistry(v)
                                      \/ (\E passes \in BOOLEAN : Judge(v, passes))
      PROVE  FilesTypeOK'
  <2>1. /\ UNCHANGED <<writing, inodes, temporary, current>>
        /\ place' \in [Moved -> SUBSET Validations]
        /\ registry'.records \subseteq Validations
    BY <1>7 DEF DropCache, WriteEvidence, OpenRegistry, WriteRegistry, Judge, RegistryOf
  <2>2. \E w \in {<<"request">>, <<"recording">>, Following(v, "evidence"),
                     Following(v, "record"), Following(v, "verdict")} : Enter(v, w)
    BY <1>7 DEF DropCache, WriteEvidence, OpenRegistry, WriteRegistry, Judge
  <2>3. QED BY <2>1, <2>2, <1>6, PlacesTyped
<1>8. ASSUME NEW v \in Validations, ReadRegistry(v) PROVE FilesTypeOK'
  <2>1. /\ UNCHANGED <<writing, inodes, temporary, place, registry>>
        /\ current' \in [Validations -> SUBSET Validations]
        /\ \E w \in {<<"extend">>, <<"raised">>} : Enter(v, w)
    BY <1>8 DEF ReadRegistry
  <2>2. QED BY <2>1, <1>6, PlacesTyped
<1>9. ASSUME NEW v \in Validations, Die(v) PROVE FilesTypeOK'
  <2>1. /\ writing' = [writing EXCEPT ![v] = {}] /\ Enter(v, <<"raised">>)
        /\ UNCHANGED <<inodes, temporary, place, current, registry>>
    BY <1>9 DEF Die
  <2>2. at' \in [Validations -> Places]
    BY <2>1, PlacesTyped, EnterTyped
  <2>3. QED BY <2>1, <2>2
<1>10. CASE UNCHANGED filesVars
  BY <1>10 DEF filesVars
<1>11. QED
  BY <1>1, <1>2, <1>3, <1>5, <1>7, <1>8, <1>9, <1>10 DEF FilesNext

\* A step of one run keeps the models settled if it writes none or comes from a
\* run that is.
LEMMA SettledStays ==
  ASSUME FilesTypeOK, ModelsSettled, NEW v \in Validations, NEW w \in Places, Enter(v, w),
         approved \subseteq approved', evidenceFiles \subseteq evidenceFiles',
         recorded \subseteq recorded',
         w \in {"model"} \X Stages => v \in Settled',
         w \in {<<"read">>, <<"extend">>, <<"recording">>} => v \in evidenceFiles',
         \A i \in Validations : \A p \in inodes'[<<"model", i>>] :
           p \in inodes[<<"model", i>>] \/ p[2] \in Settled
  PROVE  ModelsSettled'
<1>1. Settled \subseteq Settled'
  BY DEF Settled
<1>2. at'[v] = w /\ \A u \in Validations : u # v => at'[u] = at[u]
  BY EnterTyped DEF FilesTypeOK
<1>3. ASSUME NEW u \in Validations
      PROVE  /\ at'[u] \in {"model"} \X Stages => u \in Settled'
             /\ at'[u] \in {<<"read">>, <<"extend">>, <<"recording">>} => u \in evidenceFiles'
  <2>1. CASE u = v
    BY <1>2, <2>1
  <2>2. CASE u # v
    BY <1>1, <1>2, <2>2 DEF ModelsSettled
  <2>3. QED BY <2>1, <2>2
<1>4. \A i \in Validations : \A p \in inodes'[<<"model", i>>] : p[2] \in Settled'
  BY <1>1 DEF ModelsSettled
<1>5. QED BY <1>3, <1>4 DEF ModelsSettled

LEMMA SettledStep ==
  FilesTypeOK /\ ModelsSettled /\ [FilesNext]_filesVars => ModelsSettled'
<1> SUFFICES ASSUME FilesTypeOK, ModelsSettled, [FilesNext]_filesVars PROVE ModelsSettled'
  OBVIOUS
<1> DEFINE EarlyEnds == {<<"fetch">>, <<"request">>, <<"judge">>, <<"evidence">>, <<"end">>, <<"raised">>}
<1>1. \A w \in EarlyEnds \cup {<<"candles", x>> : x \in Stages} :
        w \notin {"model"} \X Stages /\ w \notin {<<"read">>, <<"extend">>, <<"recording">>}
  OBVIOUS
<1>2. EarlyEnds \cup {<<"candles", x>> : x \in Stages} \subseteq Places
  BY PlacesTyped DEF Moved
<1>3. ASSUME NEW v \in Validations, NEW w \in EarlyEnds \cup {<<"candles", x>> : x \in Stages},
             Enter(v, w), approved \subseteq approved', UNCHANGED <<evidenceFiles, recorded, inodes>>
      PROVE  ModelsSettled'
  BY <1>1, <1>2, <1>3, SettledStays
<1>4. ASSUME NEW v \in Validations,
             \/ StartValidation(v) \/ UseCache(v) \/ CacheRaises(v) \/ NoCache(v) \/ Fetch(v)
             \/ DropCache(v) \/ Die(v) \/ (\E passes \in BOOLEAN : Judge(v, passes))
      PROVE  ModelsSettled'
  <2>1. approved \subseteq approved' /\ UNCHANGED <<evidenceFiles, recorded, inodes>>
    BY <1>4 DEF StartValidation, UseCache, CacheRaises, NoCache, Fetch, DropCache, Die, Judge, OnlyAt
  <2>2. \E w \in EarlyEnds \cup {<<"candles", "write">>} : Enter(v, w)
    BY <1>4, FollowingTyped
       DEF StartValidation, UseCache, CacheRaises, NoCache, Fetch, DropCache, Die, Judge
  <2>3. "write" \in Stages
    BY DEF Stages
  <2>4. QED BY <2>1, <2>2, <2>3, <1>3
<1>5. ASSUME NEW v \in Validations, NEW f \in Moved, OpenTemporary(v, f) PROVE ModelsSettled'
  <2>1. /\ at[v] = <<f, "write">> /\ Enter(v, <<f, "opened">>)
        /\ UNCHANGED <<approved, evidenceFiles, recorded>>
    BY <1>5 DEF OpenTemporary
  <2>2. \A i \in Validations : inodes'[<<"model", i>>] \subseteq inodes[<<"model", i>>]
    BY <1>5 DEF OpenTemporary, Truncate, FilesTypeOK, Moved
  <2>3. <<f, "opened">> \in Places /\ "write" \in Stages
    BY PlacesTyped DEF Stages
  <2>4. <<f, "opened">> \in {"model"} \X Stages => v \in Settled
    BY <2>1, <2>3 DEF ModelsSettled
  <2>5. <<f, "opened">> \notin {<<"read">>, <<"extend">>, <<"recording">>}
    OBVIOUS
  <2>6. Settled' = Settled
    BY <2>1 DEF Settled
  <2>7. QED BY <2>1, <2>2, <2>3, <2>4, <2>5, <2>6, SettledStays
<1>6. ASSUME NEW v \in Validations, NEW f \in Moved, NEW part \in {"head", "tail"},
             WritePart(v, f, part)
      PROVE  ModelsSettled'
  <2>1. PICK x \in Stages, y \in Stages :
          /\ at[v] = <<f, x>> /\ Enter(v, <<f, y>>)
          /\ UNCHANGED <<approved, evidenceFiles, recorded>>
    BY <1>6 DEF WritePart, Stages
  <2>2. f = "model" => v \in Settled
    BY <2>1 DEF ModelsSettled
  <2>3. \A i \in Validations : \A p \in inodes'[<<"model", i>>] :
          p \in inodes[<<"model", i>>] \/ p[2] \in Settled
    BY <1>6, <2>2 DEF WritePart, FilesTypeOK, Moved
  <2>4. <<f, y>> \in Places
    BY PlacesTyped
  <2>5. <<f, y>> \notin {<<"read">>, <<"extend">>, <<"recording">>}
    OBVIOUS
  <2>6. Settled' = Settled
    BY <2>1 DEF Settled
  <2>7. QED BY <2>1, <2>2, <2>3, <2>4, <2>5, <2>6, SettledStays
<1>7. ASSUME NEW v \in Validations, NEW f \in Moved, Replace(v, f) PROVE ModelsSettled'
  <2>1. UNCHANGED <<approved, evidenceFiles, recorded, inodes>>
    BY <1>7 DEF Replace
  <2>2. \E w \in EarlyEnds : Enter(v, w)
    BY <1>7, FollowingTyped DEF Replace, Moved
  <2>3. QED BY <2>1, <2>2, <1>3
<1>8. ASSUME NEW v \in Validations, WriteEvidence(v) PROVE ModelsSettled'
  <2>1. Enter(v, <<"read">>) /\ UNCHANGED <<approved, recorded, inodes>>
        /\ evidenceFiles' = evidenceFiles \cup {v}
    BY <1>8, FollowingTyped DEF WriteEvidence
  <2>2. <<"read">> \notin {"model"} \X Stages /\ <<"read">> \in Places
    BY PlacesTyped
  <2>3. QED BY <2>1, <2>2, SettledStays
<1>9. ASSUME NEW v \in Validations, ReadRegistry(v) \/ OpenRegistry(v) PROVE ModelsSettled'
  <2>1. /\ at[v] \in {<<"read">>, <<"extend">>}
        /\ UNCHANGED <<approved, recorded, inodes, evidenceFiles>>
        /\ \E w \in {<<"extend">>, <<"raised">>, <<"recording">>} : Enter(v, w)
    BY <1>9 DEF ReadRegistry, OpenRegistry
  <2>2. v \in evidenceFiles
    BY <2>1 DEF ModelsSettled
  <2>3. \A w \in {<<"extend">>, <<"raised">>, <<"recording">>} :
          w \notin {"model"} \X Stages /\ w \in Places
    BY PlacesTyped
  <2>4. QED BY <2>1, <2>2, <2>3, SettledStays
<1>10. ASSUME NEW v \in Validations, WriteRegistry(v) PROVE ModelsSettled'
  <2>1. /\ at[v] = <<"recording">> /\ Enter(v, Following(v, "record"))
        /\ UNCHANGED <<approved, inodes, evidenceFiles>> /\ recorded' = recorded \cup {v}
    BY <1>10 DEF WriteRegistry
  <2>2. v \in evidenceFiles
    BY <2>1 DEF ModelsSettled
  <2>3. Following(v, "record") \in Places
    BY PlacesTyped
  <2>4. Following(v, "record") \in {"model"} \X Stages => v \in Settled'
    BY <2>1, <2>2, FollowingTyped DEF Settled
  <2>5. QED BY <2>1, <2>2, <2>3, <2>4, SettledStays
<1>11. CASE UNCHANGED filesVars
  BY <1>11 DEF filesVars, ModelsSettled, Settled
<1>12. QED
  BY <1>4, <1>5, <1>6, <1>7, <1>8, <1>9, <1>10, <1>11 DEF FilesNext

\* A run that is not within the write of the registry, and does not come to
\* extend it, leaves it in order.
LEMMA RegistryStays ==
  ASSUME FilesTypeOK, RegistryInOrder, NEW v \in Validations, NEW w \in Places, Enter(v, w),
         at[v] # <<"recording">>, w \notin {<<"extend">>, <<"recording">>},
         overlapped \subseteq overlapped', diedRecording => diedRecording',
         UNCHANGED <<registry, current, recorded>>
  PROVE  RegistryInOrder'
<1> SUFFICES ASSUME "registry" \notin overlapped', ~diedRecording'
    PROVE  /\ \A x, y \in Validations : Extends(x)' /\ Extends(y)' => x = y
           /\ \A x \in Validations : at'[x] = <<"extend">> => current'[x] = registry'.records
           /\ \A x \in Validations : at'[x] = <<"recording">> =>
                registry'.kind = "empty" /\ recorded' \subseteq current'[x]
           /\ (\A x \in Validations : at'[x] # <<"recording">>) =>
                registry'.kind \in {"none", "whole"} /\ recorded' \subseteq registry'.records
  BY DEF RegistryInOrder
<1>1. at'[v] = w /\ \A u \in Validations : u # v => at'[u] = at[u]
  BY EnterTyped DEF FilesTypeOK
<1>2. "registry" \notin overlapped /\ ~diedRecording
  OBVIOUS
<1>3. \A x \in Validations : Extends(x)' => x # v /\ Extends(x) /\ at'[x] = at[x]
  BY <1>1 DEF Extends
<1>4. \A x \in Validations : at'[x] = <<"recording">> <=> at[x] = <<"recording">>
  BY <1>1
<1>5. \A x \in Validations : at'[x] = <<"extend">> => at[x] = <<"extend">>
  BY <1>1
<1>6. QED BY <1>2, <1>3, <1>4, <1>5 DEF RegistryInOrder

LEMMA RegistryStep ==
  FilesTypeOK /\ RegistryInOrder /\ [FilesNext]_filesVars => RegistryInOrder'
<1> SUFFICES ASSUME FilesTypeOK, RegistryInOrder, [FilesNext]_filesVars PROVE RegistryInOrder'
  OBVIOUS
<1>1. ASSUME NEW v \in Validations,
             \/ StartValidation(v) \/ UseCache(v) \/ CacheRaises(v) \/ NoCache(v) \/ Fetch(v)
             \/ DropCache(v) \/ WriteEvidence(v) \/ (\E passes \in BOOLEAN : Judge(v, passes))
      PROVE  RegistryInOrder'
  <2>1. UNCHANGED <<registry, current, recorded, overlapped, diedRecording>>
    BY <1>1 DEF StartValidation, UseCache, CacheRaises, NoCache, Fetch, DropCache, WriteEvidence,
                Judge, OnlyAt
  <2>2. /\ at[v] # <<"recording">>
        /\ \E w \in {<<"fetch">>, <<"judge">>, <<"raised">>, <<"request">>, <<"candles", "write">>,
                     <<"evidence">>, <<"read">>} : Enter(v, w)
    BY <1>1, FollowingTyped
       DEF StartValidation, UseCache, CacheRaises, NoCache, Fetch, DropCache, WriteEvidence, Judge
  <2>3. <<"candles", "write">> \in Places
    BY PlacesTyped DEF Moved, Stages
  <2>4. QED BY <2>1, <2>2, <2>3, RegistryStays, PlacesTyped
<1>2. ASSUME NEW v \in Validations, NEW f \in Moved,
             \/ OpenTemporary(v, f) \/ Replace(v, f)
             \/ \E part \in {"head", "tail"} : WritePart(v, f, part)
      PROVE  RegistryInOrder'
  <2>1. UNCHANGED <<registry, current, recorded, diedRecording>> /\ overlapped \subseteq overlapped'
    BY <1>2 DEF OpenTemporary, Replace, WritePart
  <2>2. /\ at[v] # <<"recording">>
        /\ \E w \in {<<f, "opened">>, <<f, "half">>, <<f, "written">>, <<"raised">>,
                     <<"judge">>, <<"end">>} : Enter(v, w)
    BY <1>2, FollowingTyped DEF OpenTemporary, Replace, WritePart, Moved
  <2>3. {<<f, "opened">>, <<f, "half">>, <<f, "written">>} \subseteq Places
    BY PlacesTyped DEF Stages
  <2>4. QED BY <2>1, <2>2, <2>3, RegistryStays, PlacesTyped
<1>3. ASSUME NEW v \in Validations, Die(v) PROVE RegistryInOrder'
  <2>1. /\ Enter(v, <<"raised">>) /\ UNCHANGED <<registry, current, recorded, overlapped>>
        /\ diedRecording' = (diedRecording \/ at[v] = <<"recording">>)
    BY <1>3 DEF Die
  <2>2. CASE at[v] = <<"recording">>
    BY <2>1, <2>2 DEF RegistryInOrder
  <2>3. CASE at[v] # <<"recording">>
    BY <2>1, <2>3, RegistryStays, PlacesTyped
  <2>4. QED BY <2>2, <2>3
<1>4. ASSUME NEW v \in Validations, ReadRegistry(v) PROVE RegistryInOrder'
  <2>1. /\ at[v] = <<"read">> /\ UNCHANGED <<registry, recorded, diedRecording>>
        /\ overlapped \subseteq overlapped'
        /\ "registry" \notin overlapped' => \A u \in Validations \ {v} : ~Extends(u)
        /\ \/ Enter(v, <<"raised">>) /\ UNCHANGED current
           \/ Enter(v, <<"extend">>) /\ current' = [current EXCEPT ![v] = registry.records]
    BY <1>4 DEF ReadRegistry, Extends
  <2>2. CASE Enter(v, <<"raised">>) /\ UNCHANGED current
    BY <2>1, <2>2, RegistryStays, PlacesTyped
  <2>3. CASE Enter(v, <<"extend">>) /\ current' = [current EXCEPT ![v] = registry.records]
    <3> SUFFICES ASSUME "registry" \notin overlapped', ~diedRecording'
        PROVE  /\ \A x, y \in Validations : Extends(x)' /\ Extends(y)' => x = y
               /\ \A x \in Validations : at'[x] = <<"extend">> => current'[x] = registry'.records
               /\ \A x \in Validations : at'[x] = <<"recording">> =>
                    registry'.kind = "empty" /\ recorded' \subseteq current'[x]
               /\ registry'.kind \in {"none", "whole"} /\ recorded' \subseteq registry'.records
      BY DEF RegistryInOrder
    <3>1. at'[v] = <<"extend">> /\ \A u \in Validations : u # v => at'[u] = at[u]
      BY <2>3, EnterTyped, PlacesTyped DEF FilesTypeOK
    <3>2. \A u \in Validations : ~Extends(u)
      BY <2>1 DEF Extends
    <3>3. \A x \in Validations : Extends(x)' => x = v
      BY <3>1, <3>2 DEF Extends
    <3>4. registry'.kind \in {"none", "whole"} /\ recorded' \subseteq registry'.records
      BY <2>1, <3>2 DEF RegistryInOrder, Extends
    <3>5. current'[v] = registry'.records
      BY <2>1, <2>3 DEF FilesTypeOK
    <3>6. \A x \in Validations : at'[x] # <<"recording">>
      BY <3>1, <3>3 DEF Extends
    <3>7. \A x \in Validations : at'[x] = <<"extend">> => x = v
      BY <3>3 DEF Extends
    <3>8. QED BY <3>3, <3>4, <3>5, <3>6, <3>7
  <2>4. QED BY <2>1, <2>2, <2>3
<1>5. ASSUME NEW v \in Validations, OpenRegistry(v) PROVE RegistryInOrder'
  <2> SUFFICES ASSUME "registry" \notin overlapped', ~diedRecording'
      PROVE  /\ \A x, y \in Validations : Extends(x)' /\ Extends(y)' => x = y
             /\ \A x \in Validations : at'[x] # <<"extend">>
             /\ \A x \in Validations : at'[x] = <<"recording">> =>
                  registry'.kind = "empty" /\ recorded' \subseteq current'[x]
             /\ at'[v] = <<"recording">>
    BY DEF RegistryInOrder
  <2>1. /\ at[v] = <<"extend">> /\ Enter(v, <<"recording">>) /\ registry'.kind = "empty"
        /\ UNCHANGED <<current, recorded, overlapped, diedRecording>>
    BY <1>5 DEF OpenRegistry, RegistryOf
  <2>2. at'[v] = <<"recording">> /\ \A u \in Validations : u # v => at'[u] = at[u]
    BY <2>1, EnterTyped, PlacesTyped DEF FilesTypeOK
  <2>3. \A u \in Validations : Extends(u) => u = v
    BY <2>1 DEF RegistryInOrder, Extends
  <2>4. \A u \in Validations : Extends(u)' => u = v
    BY <2>2, <2>3 DEF Extends
  <2>5. recorded \subseteq current[v]
    BY <2>1, <2>3 DEF RegistryInOrder, Extends
  <2>6. QED BY <2>1, <2>2, <2>4, <2>5 DEF Extends
<1>6. ASSUME NEW v \in Validations, WriteRegistry(v) PROVE RegistryInOrder'
  <2> SUFFICES ASSUME "registry" \notin overlapped', ~diedRecording'
      PROVE  /\ \A x \in Validations : ~Extends(x)'
             /\ registry'.kind = "whole" /\ recorded' \subseteq registry'.records
    BY DEF RegistryInOrder, Extends
  <2>1. /\ at[v] = <<"recording">> /\ Enter(v, Following(v, "record"))
        /\ UNCHANGED <<overlapped, diedRecording>> /\ recorded' = recorded \cup {v}
    BY <1>6 DEF WriteRegistry
  <2>2. Extends(v) /\ registry.kind = "empty" /\ recorded \subseteq current[v]
    BY <2>1 DEF RegistryInOrder, Extends
  <2>3. registry' = RegistryOf("whole", current[v] \cup {v})
    BY <1>6, <2>2 DEF WriteRegistry
  <2>4. \A u \in Validations : Extends(u) => u = v
    BY <2>1, <2>2 DEF RegistryInOrder
  <2>5. at'[v] \in {<<"model", "write">>, <<"end">>}
        /\ \A u \in Validations : u # v => at'[u] = at[u]
    BY <2>1, EnterTyped, PlacesTyped, FollowingTyped DEF FilesTypeOK
  <2>6. \A u \in Validations : ~Extends(u)'
    BY <2>4, <2>5 DEF Extends
  <2>7. QED BY <2>1, <2>2, <2>3, <2>6 DEF RegistryOf
<1>7. CASE UNCHANGED filesVars
  BY <1>7 DEF filesVars, RegistryInOrder, Extends
<1>8. QED
  BY <1>1, <1>2, <1>3, <1>4, <1>5, <1>6, <1>7 DEF FilesNext

\* What a file holds is what its inodes hold.
LEMMA Gathered ==
  /\ \A p : p \in Draft <=> \E i \in temporary["candles"] : p \in inodes[<<"candles", i>>]
  /\ \A p : p \in Content("candles") <=>
              \E i \in place["candles"] : p \in inodes[<<"candles", i>>]
  /\ \A q : q \in Parts(Draft) <=> \E p \in Draft : q = p[1]
<1>1. \A p : p \in Draft <=> \E i \in temporary["candles"] : p \in inodes[<<"candles", i>>]
  BY DEF Draft
<1>2. \A p : p \in Content("candles") <=>
              \E i \in place["candles"] : p \in inodes[<<"candles", i>>]
  BY DEF Content
<1>3. \A q : q \in Parts(Draft) <=> \E p \in Draft : q = p[1]
  BY DEF Parts
<1>4. QED BY <1>1, <1>2, <1>3

LEMMA GatheredNext ==
  /\ \A p : p \in Draft' <=> \E i \in temporary'["candles"] : p \in inodes'[<<"candles", i>>]
  /\ \A p : p \in Content("candles")' <=>
              \E i \in place'["candles"] : p \in inodes'[<<"candles", i>>]
  /\ \A q : q \in Parts(Draft)' <=> \E p \in Draft' : q = p[1]
<1>1. \A p : p \in Draft' <=> \E i \in temporary'["candles"] : p \in inodes'[<<"candles", i>>]
  BY DEF Draft
<1>2. \A p : p \in Content("candles")' <=>
              \E i \in place'["candles"] : p \in inodes'[<<"candles", i>>]
  BY DEF Content
<1>3. \A q : q \in Parts(Draft)' <=> \E p \in Draft' : q = p[1]
  BY DEF Parts
<1>4. QED BY <1>1, <1>2, <1>3

\* A step that writes no candles and leaves their files where they are, or
\* deletes the one in place, keeps them in order.
LEMMA CandlesStay ==
  ASSUME FilesTypeOK, CandlesInOrder, NEW v \in Validations, NEW w \in Places, Enter(v, w),
         w \notin {"candles"} \X {"opened", "half", "written"},
         w \in {<<"off">>, <<"fetch">>, <<"request">>, <<"candles", "write">>} => NotYet(v),
         "candles" \in overlapped => "candles" \in overlapped',
         \A u \in Validations : u # v => writing'[u] = writing[u],
         \A i \in Validations : inodes'[<<"candles", i>>] = inodes[<<"candles", i>>],
         temporary'["candles"] = temporary["candles"],
         place'["candles"] = place["candles"] \/ place'["candles"] = {}
  PROVE  CandlesInOrder'
<1>1. at'[v] = w /\ \A u \in Validations : u # v => at'[u] = at[u]
  BY EnterTyped DEF FilesTypeOK
<1>2. temporary["candles"] \subseteq Validations /\ place["candles"] \subseteq Validations
  BY DEF FilesTypeOK, Moved
<1>3. \A u \in Validations : NotYet(u)' => NotYet(u)
  BY <1>1 DEF NotYet
<1>4. \A u \in Validations : NotYet(u)' => u \notin place'["candles"] \cup temporary'["candles"]
  BY <1>3 DEF CandlesInOrder
<1>5. \A u \in Validations : Fills(u)' => u # v /\ Fills(u) /\ at'[u] = at[u]
  BY <1>1 DEF Fills
<1>6. Draft' = Draft
  <2>1. \A p : p \in Draft' <=> p \in Draft
    BY <1>2, Gathered, GatheredNext
  <2>2. QED BY <2>1
<1>7. place'["candles"] # {} => Content("candles")' = Content("candles")
  <2>1. place'["candles"] # {} =>
          \A p : p \in Content("candles")' <=> p \in Content("candles")
    BY <1>2, Gathered, GatheredNext
  <2>2. QED BY <2>1
<1>8. ASSUME "candles" \notin overlapped'
      PROVE  /\ \A x, y \in Validations : Fills(x)' /\ Fills(y)' => x = y
             /\ \A x \in Validations : Fills(x)' =>
                  /\ writing'[x] = temporary'["candles"] /\ writing'[x] # {}
                  /\ Parts(Draft)' = DraftOf(x)'
             /\ place'["candles"] \cap temporary'["candles"] = {}
             /\ place'["candles"] # {} => Parts(Content("candles"))' = {"head", "tail"}
  <2>1. "candles" \notin overlapped
    BY <1>8
  <2>2. \A x \in Validations : Fills(x)' => DraftOf(x)' = DraftOf(x)
    BY <1>5 DEF DraftOf
  <2>3. Parts(Draft)' = Parts(Draft)
    BY <1>6 DEF Parts
  <2>4. place'["candles"] # {} => Parts(Content("candles"))' = Parts(Content("candles"))
    BY <1>7 DEF Parts
  <2>5. \A x, y \in Validations : Fills(x)' /\ Fills(y)' => x = y
    BY <1>5, <2>1 DEF CandlesInOrder
  <2>6. \A x \in Validations : Fills(x)' =>
          writing'[x] = temporary'["candles"] /\ writing'[x] # {} /\ Parts(Draft)' = DraftOf(x)'
    BY <1>5, <2>1, <2>2, <2>3 DEF CandlesInOrder
  <2>7. QED BY <2>1, <2>4, <2>5, <2>6 DEF CandlesInOrder
<1>9. QED BY <1>4, <1>8 DEF CandlesInOrder

LEMMA CandlesOpened ==
  ASSUME FilesTypeOK, CandlesInOrder, NEW v \in Validations, OpenTemporary(v, "candles")
  PROVE  CandlesInOrder'
<1> DEFINE inode == IF temporary["candles"] = {} THEN {v} ELSE temporary["candles"]
<1>1. /\ at[v] = <<"candles", "write">> /\ Enter(v, <<"candles", "opened">>)
      /\ overlapped' = IF Contended(v, "candles") THEN overlapped \cup {"candles"} ELSE overlapped
      /\ temporary' = [temporary EXCEPT !["candles"] = inode]
      /\ inodes' = [i \in DOMAIN inodes |-> IF i \in {"candles"} \X inode THEN {} ELSE inodes[i]]
      /\ writing' = [writing EXCEPT ![v] = inode] /\ UNCHANGED place
  BY DEF OpenTemporary, Truncate
<1>2. inode # {} /\ inode \subseteq temporary["candles"] \cup {v} /\ inode \subseteq Validations
  BY DEF FilesTypeOK, Moved
<1> HIDE DEF inode
<1>3. at'[v] = <<"candles", "opened">> /\ \A u \in Validations : u # v => at'[u] = at[u]
  BY <1>1, EnterTyped, PlacesTyped DEF FilesTypeOK, Moved, Stages
<1>4. temporary'["candles"] = inode
  BY <1>1 DEF FilesTypeOK, Moved
<1>5. \A u \in Validations : NotYet(u)' => u # v /\ NotYet(u)
  BY <1>3 DEF NotYet
<1>6. \A u \in Validations : NotYet(u)' => u \notin place'["candles"] \cup temporary'["candles"]
  BY <1>1, <1>2, <1>4, <1>5 DEF CandlesInOrder
<1>7. ASSUME "candles" \notin overlapped'
      PROVE  /\ \A x, y \in Validations : Fills(x)' /\ Fills(y)' => x = y
             /\ \A x \in Validations : Fills(x)' =>
                  /\ writing'[x] = temporary'["candles"] /\ writing'[x] # {}
                  /\ Parts(Draft)' = DraftOf(x)'
             /\ place'["candles"] \cap temporary'["candles"] = {}
             /\ place'["candles"] # {} => Parts(Content("candles"))' = {"head", "tail"}
  <2>1. "candles" \notin overlapped /\ ~Contended(v, "candles")
    BY <1>1, <1>7
  <2>2. \A u \in Validations : u # v => ~Fills(u)
    BY <2>1 DEF Contended, Fills
  <2>3. \A u \in Validations : Fills(u)' => u = v
    BY <1>3, <2>2 DEF Fills
  <2>4. v \notin place["candles"] \cup temporary["candles"]
    BY <1>1 DEF CandlesInOrder, NotYet
  <2>5. place["candles"] \cap inode = {}
    BY <1>2, <2>1, <2>4 DEF CandlesInOrder
  <2>6. \A i \in inode : inodes'[<<"candles", i>>] = {}
    BY <1>1, <1>2 DEF FilesTypeOK, Moved
  <2>7. Draft' = {}
    BY <1>4, <2>6 DEF Draft
  <2>8. Parts(Draft)' = {} /\ DraftOf(v)' = {}
    BY <1>3, <2>7 DEF Parts, DraftOf
  <2>9. writing'[v] = inode
    BY <1>1 DEF FilesTypeOK
  <2>10. \A i \in place["candles"] : inodes'[<<"candles", i>>] = inodes[<<"candles", i>>]
    BY <1>1, <2>5 DEF FilesTypeOK, Moved
  <2>11. Content("candles")' = Content("candles")
    BY <1>1, <2>10 DEF Content
  <2>12. Parts(Content("candles"))' = Parts(Content("candles"))
    BY <2>11 DEF Parts
  <2>13. place'["candles"] # {} => Parts(Content("candles"))' = {"head", "tail"}
    BY <1>1, <2>1, <2>12 DEF CandlesInOrder
  <2>14. \A x \in Validations : Fills(x)' =>
           writing'[x] = temporary'["candles"] /\ writing'[x] # {} /\ Parts(Draft)' = DraftOf(x)'
    BY <1>2, <1>4, <2>3, <2>8, <2>9
  <2>15. QED BY <1>1, <1>4, <2>3, <2>5, <2>13, <2>14
<1>8. QED BY <1>6, <1>7 DEF CandlesInOrder

LEMMA CandlesWritten ==
  ASSUME FilesTypeOK, CandlesInOrder, NEW v \in Validations, NEW part \in {"head", "tail"},
         WritePart(v, "candles", part)
  PROVE  CandlesInOrder'
<1>1. /\ at[v] = <<"candles", IF part = "head" THEN "opened" ELSE "half">>
      /\ Enter(v, <<"candles", IF part = "head" THEN "half" ELSE "written">>)
      /\ inodes' = [i \in DOMAIN inodes |->
                      IF i \in {"candles"} \X writing[v]
                      THEN {p \in inodes[i] : p[1] # part} \cup {<<part, v>>}
                      ELSE inodes[i]]
      /\ UNCHANGED <<writing, temporary, place, overlapped>>
  BY DEF WritePart
<1>2. <<"candles", IF part = "head" THEN "half" ELSE "written">> \in Places
  BY PlacesTyped DEF Moved, Stages
<1>3. /\ at'[v] = <<"candles", IF part = "head" THEN "half" ELSE "written">>
      /\ \A u \in Validations : u # v => at'[u] = at[u]
  BY <1>1, <1>2, EnterTyped DEF FilesTypeOK
<1>4. \A u \in Validations : NotYet(u)' => NotYet(u)
  BY <1>3 DEF NotYet
<1>5. \A u \in Validations : NotYet(u)' => u \notin place'["candles"] \cup temporary'["candles"]
  BY <1>1, <1>4 DEF CandlesInOrder
<1>6. ASSUME "candles" \notin overlapped'
      PROVE  /\ \A x, y \in Validations : Fills(x)' /\ Fills(y)' => x = y
             /\ \A x \in Validations : Fills(x)' =>
                  /\ writing'[x] = temporary'["candles"] /\ writing'[x] # {}
                  /\ Parts(Draft)' = DraftOf(x)'
             /\ place'["candles"] \cap temporary'["candles"] = {}
             /\ place'["candles"] # {} => Parts(Content("candles"))' = {"head", "tail"}
  <2>1. "candles" \notin overlapped /\ Fills(v)
    BY <1>1, <1>6 DEF Fills
  <2>2. /\ writing[v] = temporary["candles"] /\ writing[v] # {} /\ Parts(Draft) = DraftOf(v)
        /\ place["candles"] \cap temporary["candles"] = {}
        /\ place["candles"] # {} => Parts(Content("candles")) = {"head", "tail"}
        /\ \A u \in Validations : Fills(u) => u = v
    BY <2>1 DEF CandlesInOrder
  <2>3. \A u \in Validations : Fills(u)' => u = v
    BY <1>3, <2>2 DEF Fills
  <2>4. place["candles"] \subseteq Validations /\ temporary["candles"] \subseteq Validations
    BY DEF FilesTypeOK, Moved
  <2>5. \A i \in place["candles"] : inodes'[<<"candles", i>>] = inodes[<<"candles", i>>]
    BY <1>1, <2>2, <2>4 DEF FilesTypeOK, Moved
  <2>6. \A i \in temporary["candles"] : inodes'[<<"candles", i>>] =
          {p \in inodes[<<"candles", i>>] : p[1] # part} \cup {<<part, v>>}
    BY <1>1, <2>2, <2>4 DEF FilesTypeOK, Moved
  <2>7. Content("candles")' = Content("candles")
    BY <1>1, <2>5 DEF Content
  <2>8. Parts(Content("candles"))' = Parts(Content("candles"))
    BY <2>7 DEF Parts
  <2>9. \A p : p \in Draft' <=> (p \in Draft /\ p[1] # part) \/ p = <<part, v>>
    <3>1. \A i \in temporary["candles"] : \A p :
            p \in inodes'[<<"candles", i>>] <=>
              (p \in inodes[<<"candles", i>>] /\ p[1] # part) \/ p = <<part, v>>
      <4> SUFFICES ASSUME NEW i \in temporary["candles"], NEW p
          PROVE  p \in inodes'[<<"candles", i>>] <=>
                   (p \in inodes[<<"candles", i>>] /\ p[1] # part) \/ p = <<part, v>>
        OBVIOUS
      <4>1. inodes'[<<"candles", i>>] =
              {x \in inodes[<<"candles", i>>] : x[1] # part} \cup {<<part, v>>}
        BY <2>6
      <4>2. p \in {x \in inodes[<<"candles", i>>] : x[1] # part} <=>
              p \in inodes[<<"candles", i>>] /\ p[1] # part
        OBVIOUS
      <4>3. QED BY <4>1, <4>2, Zenon
    <3>2. temporary'["candles"] = temporary["candles"] /\ temporary["candles"] # {}
      BY <1>1, <2>2
    <3>3. \A p : p \in Draft' <=> \E i \in temporary["candles"] : p \in inodes'[<<"candles", i>>]
      BY <3>2, GatheredNext
    <3>4. \A p : p \in Draft <=> \E i \in temporary["candles"] : p \in inodes[<<"candles", i>>]
      BY Gathered
    <3>5. QED BY <3>1, <3>2, <3>3, <3>4, Zenon
  <2>10. Parts(Draft)' = Parts(Draft) \cup {part}
    <3>1. <<part, v>>[1] = part
      OBVIOUS
    <3>2. ASSUME NEW q PROVE q \in Parts(Draft)' <=> q \in Parts(Draft) \/ q = part
      <4>1. q \in Parts(Draft)' <=> \E p \in Draft' : q = p[1]
        BY GatheredNext
      <4>2. q \in Parts(Draft) <=> \E p \in Draft : q = p[1]
        BY Gathered
      <4>3. CASE q = part
        BY <2>9, <3>1, <4>1, <4>3
      <4>4. CASE q # part
        BY <2>9, <3>1, <4>1, <4>2, <4>4
      <4>5. QED BY <4>3, <4>4
    <3>3. QED BY <3>2
  <2>11. DraftOf(v)' = DraftOf(v) \cup {part}
    BY <1>1, <1>3 DEF DraftOf
  <2>12. \A x \in Validations : Fills(x)' =>
           writing'[x] = temporary'["candles"] /\ writing'[x] # {} /\ Parts(Draft)' = DraftOf(x)'
    BY <1>1, <2>2, <2>3, <2>10, <2>11
  <2>13. QED BY <1>1, <2>2, <2>3, <2>8, <2>12
<1>7. QED BY <1>5, <1>6 DEF CandlesInOrder

LEMMA CandlesReplaced ==
  ASSUME FilesTypeOK, CandlesInOrder, NEW v \in Validations, Replace(v, "candles")
  PROVE  CandlesInOrder'
<1>1. /\ at[v] = <<"candles", "written">>
      /\ place'["candles"] = IF temporary["candles"] = {} THEN place["candles"]
                             ELSE temporary["candles"]
      /\ temporary'["candles"] = {}
      /\ UNCHANGED <<inodes, overlapped>>
      /\ \E w \in {<<"raised">>, <<"judge">>} : Enter(v, w)
  BY FollowingTyped DEF Replace, FilesTypeOK, Moved
<1>2. /\ at'[v] \in {<<"raised">>, <<"judge">>}
      /\ \A u \in Validations : u # v => at'[u] = at[u]
  BY <1>1, EnterTyped, PlacesTyped DEF FilesTypeOK
<1>3. \A u \in Validations : NotYet(u)' => NotYet(u)
  BY <1>2 DEF NotYet
<1>4. \A u \in Validations : NotYet(u)' => u \notin place'["candles"] \cup temporary'["candles"]
  BY <1>1, <1>3 DEF CandlesInOrder
<1>5. ASSUME "candles" \notin overlapped'
      PROVE  /\ \A x \in Validations : ~Fills(x)'
             /\ Parts(Content("candles"))' = {"head", "tail"}
  <2>1. "candles" \notin overlapped /\ Fills(v)
    BY <1>1, <1>5 DEF Fills
  <2>2. /\ temporary["candles"] # {} /\ Parts(Draft) = DraftOf(v)
        /\ \A u \in Validations : Fills(u) => u = v
    BY <2>1 DEF CandlesInOrder
  <2>3. \A u \in Validations : ~Fills(u)'
    BY <1>2, <2>2 DEF Fills
  <2>4. Content("candles")' = Draft
    BY <1>1, <2>2 DEF Content, Draft
  <2>5. Parts(Content("candles"))' = DraftOf(v)
    BY <2>2, <2>4 DEF Parts
  <2>6. DraftOf(v) = {"head", "tail"}
    BY <1>1 DEF DraftOf
  <2>7. QED BY <2>3, <2>5, <2>6
<1>6. QED BY <1>1, <1>4, <1>5 DEF CandlesInOrder

LEMMA CandlesStep ==
  FilesTypeOK /\ CandlesInOrder /\ [FilesNext]_filesVars => CandlesInOrder'
<1> SUFFICES ASSUME FilesTypeOK, CandlesInOrder, [FilesNext]_filesVars PROVE CandlesInOrder'
  OBVIOUS
<1>1. <<"candles", "write">> \in Places
  BY PlacesTyped DEF Moved, Stages
<1>2. ASSUME NEW v \in Validations,
             StartValidation(v) \/ UseCache(v) \/ CacheRaises(v) \/ NoCache(v) \/ Fetch(v)
             \/ DropCache(v)
      PROVE  CandlesInOrder'
  <2>1. /\ UNCHANGED <<writing, inodes, temporary, overlapped>>
        /\ place'["candles"] = place["candles"] \/ place'["candles"] = {}
    BY <1>2 DEF StartValidation, UseCache, CacheRaises, NoCache, Fetch, DropCache, OnlyAt,
                FilesTypeOK, Moved
  <2>2. NotYet(v)
    BY <1>2 DEF StartValidation, UseCache, CacheRaises, NoCache, Fetch, DropCache, NotYet
  <2>3. \E w \in {<<"fetch">>, <<"judge">>, <<"raised">>, <<"request">>, <<"candles", "write">>} :
          Enter(v, w)
    BY <1>2 DEF StartValidation, UseCache, CacheRaises, NoCache, Fetch, DropCache
  <2>4. QED BY <1>1, <2>1, <2>2, <2>3, CandlesStay, PlacesTyped
<1>3. ASSUME NEW v \in Validations,
             WriteEvidence(v) \/ ReadRegistry(v) \/ OpenRegistry(v) \/ WriteRegistry(v) \/ Die(v)
             \/ (\E passes \in BOOLEAN : Judge(v, passes))
      PROVE  CandlesInOrder'
  <2>1. /\ UNCHANGED <<inodes, temporary, place>> /\ overlapped \subseteq overlapped'
        /\ \A u \in Validations : u # v => writing'[u] = writing[u]
    BY <1>3 DEF WriteEvidence, ReadRegistry, OpenRegistry, WriteRegistry, Die, Judge, FilesTypeOK
  <2>2. \E w \in {<<"evidence">>, <<"read">>, <<"extend">>, <<"recording">>, <<"end">>,
                  <<"model", "write">>, <<"raised">>} : Enter(v, w)
    BY <1>3, FollowingTyped
       DEF WriteEvidence, ReadRegistry, OpenRegistry, WriteRegistry, Die, Judge
  <2>3. <<"model", "write">> \in Places
    BY PlacesTyped DEF Moved, Stages
  <2>4. QED BY <2>1, <2>2, <2>3, CandlesStay, PlacesTyped
<1>4. ASSUME NEW v \in Validations,
             OpenTemporary(v, "model") \/ Replace(v, "model")
             \/ \E part \in {"head", "tail"} : WritePart(v, "model", part)
      PROVE  CandlesInOrder'
  <2>1. /\ place'["candles"] = place["candles"] /\ temporary'["candles"] = temporary["candles"]
        /\ "candles" \in overlapped => "candles" \in overlapped'
    BY <1>4 DEF OpenTemporary, Truncate, Replace, WritePart, FilesTypeOK, Moved
  <2>2. \A u \in Validations : u # v => writing'[u] = writing[u]
    BY <1>4 DEF OpenTemporary, Truncate, Replace, WritePart, FilesTypeOK
  <2>3. \A i \in Validations : inodes'[<<"candles", i>>] = inodes[<<"candles", i>>]
    BY <1>4 DEF OpenTemporary, Truncate, Replace, WritePart, FilesTypeOK, Moved
  <2>4. \E w \in {<<"model", "opened">>, <<"model", "half">>, <<"model", "written">>,
                  <<"raised">>, <<"end">>} : Enter(v, w)
    BY <1>4, FollowingTyped DEF OpenTemporary, Replace, WritePart
  <2>5. {<<"model", "opened">>, <<"model", "half">>, <<"model", "written">>} \subseteq Places
    BY PlacesTyped DEF Moved, Stages
  <2>6. QED BY <2>1, <2>2, <2>3, <2>4, <2>5, CandlesStay, PlacesTyped
<1>5. CASE UNCHANGED filesVars
  <2>1. Draft' = Draft /\ Content("candles")' = Content("candles")
    BY <1>5 DEF filesVars, Draft, Content
  <2>2. /\ Parts(Draft)' = Parts(Draft)
        /\ Parts(Content("candles"))' = Parts(Content("candles"))
    BY <2>1 DEF Parts
  <2>3. \A v \in Validations : (NotYet(v)' <=> NotYet(v)) /\ (Fills(v)' <=> Fills(v))
                              /\ DraftOf(v)' = DraftOf(v)
    BY <1>5 DEF filesVars, NotYet, Fills, DraftOf
  <2>4. UNCHANGED <<place, temporary, writing, overlapped>>
    BY <1>5 DEF filesVars
  <2>5. QED BY <2>2, <2>3, <2>4 DEF CandlesInOrder
<1>6. ASSUME NEW v \in Validations, NEW f \in Moved,
             \/ OpenTemporary(v, f) \/ Replace(v, f)
             \/ \E part \in {"head", "tail"} : WritePart(v, f, part)
      PROVE  CandlesInOrder'
  <2>1. CASE f = "model"
    BY <1>4, <1>6, <2>1
  <2>2. CASE f = "candles"
    BY <1>6, <2>2, CandlesOpened, CandlesWritten, CandlesReplaced
  <2>3. QED BY <2>1, <2>2 DEF Moved
<1>7. QED BY <1>2, <1>3, <1>5, <1>6 DEF FilesNext

LEMMA FilesInvariance == FilesSpec => []FilesInv
<1>1. FilesInv /\ [FilesNext]_filesVars => FilesInv'
  BY FilesTypeStep, SettledStep, CandlesStep, RegistryStep DEF FilesInv
<1>2. QED BY FilesStart, <1>1, PTL DEF FilesSpec

\* The model that the runtime loads is the work of one validation that was
\* approved, whose evidence is on disk and whose record was written: a run
\* opens the model's file after all three, and what is loaded is what such runs
\* wrote, whichever of them moved it to its place (promote_if_approved).
THEOREM RuntimeModelHasEvidence == FilesSpec => []RuntimeModelIsEvidenced
<1>1. FilesInv => RuntimeModelIsEvidenced
  <2> SUFFICES ASSUME FilesInv PROVE RuntimeModelIsEvidenced
    OBVIOUS
  <2>1. place["model"] \subseteq Validations
    BY DEF FilesInv, FilesTypeOK, Moved
  <2>2. \A p \in Content("model") : p[2] \in Settled
    BY <2>1 DEF FilesInv, ModelsSettled, Content
  <2>3. LoadedModel \subseteq {p[2] : p \in Content("model")}
    BY DEF LoadedModel
  <2>4. QED BY <2>2, <2>3 DEF RuntimeModelIsEvidenced, Settled
<1>2. QED BY FilesInvariance, <1>1, PTL

\* A validation on its own leaves the candle cache and the registry in order
\* wherever it dies: only two that write at once, or a death within the write
\* of the registry, can do damage (HistoricalCandleClient.fetch,
\* ModelRegistry.record).
THEOREM FilesNeedOverlapToBreak == FilesSpec => []DamageNeedsOverlap
<1>1. FilesInv => DamageNeedsOverlap
  <2> SUFFICES ASSUME FilesInv PROVE DamageNeedsOverlap
    OBVIOUS
  <2>1. (place["candles"] # {} /\ ~Intact("candles", Content("candles")))
          => "candles" \in overlapped
    BY DEF FilesInv, CandlesInOrder, Intact
  <2>2. (/\ \A v \in Validations : at[v] # <<"recording">>
         /\ ~(registry.kind \in {"none", "whole"} /\ recorded \subseteq registry.records))
          => ("registry" \in overlapped \/ diedRecording)
    BY DEF FilesInv, RegistryInOrder
  <2>3. QED BY <2>1, <2>2 DEF DamageNeedsOverlap
<1>2. QED BY FilesInvariance, <1>1, PTL
-----------------------------------------------------------------------------
(***************************************************************************)
(* The trades portfolio_filter lets through.                               *)
(***************************************************************************)

\* The sums over the fields of trades are sums.
RiskOf(S) == MapThenSumSet(LAMBDA x : x.risk, S)

LEMMA RiskIsSum ==
  ASSUME NEW S, IsFiniteSet(S)
  PROVE  RiskOf(S) = SetSum([x \in S |-> x.risk], S)
<1> DEFINE e == [x \in S |-> x.risk]
           Row(g, s) == IF s = {} THEN 0 ELSE First(s).risk + g[s \ {First(s)}]
           IsTable(g) == g = [s \in SUBSET S |-> Row(g, s)]
           c == CHOOSE g : IsTable(g)
<1>1. RiskOf(S) = c[S]
  BY DEF RiskOf, MapThenSumSet, MapThenFoldSet, First
<1>2. \A s \in SUBSET S : s # {} => e[First(s)] = First(s).risk
  BY FirstIsIn
<1> HIDE DEF e
<1>3. ASSUME NEW g PROVE IsTable(g) <=> IsSumTable(e, S, g)
  <2> DEFINE Cell(s) == IF s = {} THEN 0 ELSE e[First(s)] + g[s \ {First(s)}]
  <2>1. \A s \in SUBSET S : Row(g, s) = Cell(s)
    BY <1>2
  <2> HIDE DEF Row, Cell
  <2>2. [s \in SUBSET S |-> Row(g, s)] = [s \in SUBSET S |-> Cell(s)]
    BY <2>1
  <2>3. IsSumTable(e, S, g) <=> g = [s \in SUBSET S |-> Cell(s)]
    BY DEF IsSumTable, Cell
  <2>4. QED BY <2>2, <2>3
<1> HIDE DEF IsTable
<1>4. \E g : IsTable(g)
  BY <1>3, TableExists
<1>5. IsTable(c)
  BY <1>4
<1> HIDE DEF c
<1>6. IsSumTable(e, S, c) /\ S \in SUBSET S
  BY <1>3, <1>5
<1>7. c[S] = SetSum(e, S)
  BY <1>6, SumOfTable
<1>8. QED BY <1>1, <1>7 DEF e

\* The same of the other field.
NotionalOf(S) == MapThenSumSet(LAMBDA x : x.notional, S)

LEMMA NotionalIsSum ==
  ASSUME NEW S, IsFiniteSet(S)
  PROVE  NotionalOf(S) = SetSum([x \in S |-> x.notional], S)
<1> DEFINE e == [x \in S |-> x.notional]
           Row(g, s) == IF s = {} THEN 0 ELSE First(s).notional + g[s \ {First(s)}]
           IsTable(g) == g = [s \in SUBSET S |-> Row(g, s)]
           c == CHOOSE g : IsTable(g)
<1>1. NotionalOf(S) = c[S]
  BY DEF NotionalOf, MapThenSumSet, MapThenFoldSet, First
<1>2. \A s \in SUBSET S : s # {} => e[First(s)] = First(s).notional
  BY FirstIsIn
<1> HIDE DEF e
<1>3. ASSUME NEW g PROVE IsTable(g) <=> IsSumTable(e, S, g)
  <2> DEFINE Cell(s) == IF s = {} THEN 0 ELSE e[First(s)] + g[s \ {First(s)}]
  <2>1. \A s \in SUBSET S : Row(g, s) = Cell(s)
    BY <1>2
  <2> HIDE DEF Row, Cell
  <2>2. [s \in SUBSET S |-> Row(g, s)] = [s \in SUBSET S |-> Cell(s)]
    BY <2>1
  <2>3. IsSumTable(e, S, g) <=> g = [s \in SUBSET S |-> Cell(s)]
    BY DEF IsSumTable, Cell
  <2>4. QED BY <2>2, <2>3
<1> HIDE DEF IsTable
<1>4. \E g : IsTable(g)
  BY <1>3, TableExists
<1>5. IsTable(c)
  BY <1>4
<1> HIDE DEF c
<1>6. IsSumTable(e, S, c) /\ S \in SUBSET S
  BY <1>3, <1>5
<1>7. c[S] = SetSum(e, S)
  BY <1>6, SumOfTable
<1>8. QED BY <1>1, <1>7 DEF e

\* Candidates are filtered in order: what is accepted comes before what is left,
\* and at every opening it was within the limits.
BookAt(day, time) ==
  {x \in accepted : x.day = day /\ x.opened <= time /\ time < x.closed}
FilterInv ==
  /\ queue \subseteq TradePool /\ accepted \subseteq TradePool
  /\ IsFiniteSet(accepted) /\ queue \cap accepted = {}
  /\ stage \in {"bars", "walk", "candidates"} => accepted = {}
  /\ \A a \in accepted, u \in queue : Earlier(a, u)
  /\ \A t \in accepted :
       /\ Cardinality(BookAt(t.day, t.opened)) <= MaxOpen
       /\ RiskOf(BookAt(t.day, t.opened)) <= MaxRisk
       /\ NotionalOf(BookAt(t.day, t.opened)) <= MaxNotional

\* Trades of the pool have times and amounts.
LEMMA TradesTyped ==
  \A t \in TradePool :
    /\ t.day \in Nat /\ t.opened \in Nat /\ t.closed \in Nat /\ t.symbol \in Nat
    /\ t.risk \in Nat /\ t.notional \in Nat /\ t.opened < t.closed
  BY SimulationAssumption

\* A trade that fits among those still open joins them within the limits.
LEMMA TradeJoins ==
  ASSUME NEW S, IsFiniteSet(S), S \subseteq TradePool, NEW t \in TradePool, t \notin S,
         Cardinality(S) < MaxOpen, RiskOf(S) + t.risk <= MaxRisk,
         NotionalOf(S) + t.notional <= MaxNotional
  PROVE  /\ Cardinality(S \cup {t}) <= MaxOpen
         /\ RiskOf(S \cup {t}) <= MaxRisk
         /\ NotionalOf(S \cup {t}) <= MaxNotional
<1> DEFINE T == S \cup {t}
           r == [x \in T |-> x.risk]
           n == [x \in T |-> x.notional]
           rs == [x \in S |-> x.risk]
           ns == [x \in S |-> x.notional]
<1>1. IsFiniteSet(T) /\ Cardinality(T) = Cardinality(S) + 1 /\ Cardinality(S) \in Nat
  BY FS_AddElement, FS_CardinalityType
<1>2. /\ \A x \in T : r[x] \in Int /\ n[x] \in Int
      /\ \A x \in S : r[x] = rs[x] /\ n[x] = ns[x]
      /\ r[t] = t.risk /\ n[t] = t.notional
  BY TradesTyped
<1>3. RiskOf(T) = SetSum(r, T) /\ NotionalOf(T) = SetSum(n, T)
  BY <1>1, RiskIsSum, NotionalIsSum
<1>4. RiskOf(S) = SetSum(rs, S) /\ NotionalOf(S) = SetSum(ns, S)
  BY RiskIsSum, NotionalIsSum
<1> HIDE DEF r, n, rs, ns
<1>5. SetSum(r, S) = SetSum(rs, S) /\ SetSum(n, S) = SetSum(ns, S)
  BY <1>2, SumSame
<1>6. SetSum(r, S \cup {t}) = SetSum(r, S) + r[t]
  BY <1>2, SumAdd
<1>7. SetSum(n, S \cup {t}) = SetSum(n, S) + n[t]
  BY <1>2, SumAdd
<1>8. MaxOpen \in Nat
  BY SimulationAssumption
<1>9. QED BY <1>1, <1>2, <1>3, <1>4, <1>5, <1>6, <1>7, <1>8

LEMMA FilterStart == SimInit => FilterInv
  BY FS_EmptySet DEF SimInit, FilterInv

\* The trades open at the newcomer's opening are those the filter counts, and
\* only trades opened at that moment see the newcomer at their own opening.
LEMMA BookGrows ==
  ASSUME FilterInv, NEW t \in queue, accepted' = accepted \cup {t}
  PROVE  /\ BookAt(t.day, t.opened)' = Active(t) \cup {t}
         /\ \A y \in accepted :
              \/ BookAt(y.day, y.opened)' = BookAt(y.day, y.opened)
              \/ BookAt(y.day, y.opened)' = Active(t) \cup {t}
<1>1. t \in TradePool /\ accepted \subseteq TradePool
  BY DEF FilterInv
<1>2. \A x \in accepted : x.day = t.day => x.opened <= t.opened
  BY <1>1, TradesTyped DEF FilterInv, Earlier
<1>3. ASSUME NEW y \in accepted \cup {t}, y.day = t.day, y.opened = t.opened
      PROVE  BookAt(y.day, y.opened)' = Active(t) \cup {t}
  <2>1. \A x : x \in BookAt(y.day, y.opened)' <=>
                 /\ x \in accepted \cup {t} /\ x.day = t.day
                 /\ x.opened <= t.opened /\ t.opened < x.closed
    BY <1>3 DEF BookAt
  <2>2. \A x : x \in Active(t) <=> x \in accepted /\ x.day = t.day /\ x.closed > t.opened
    BY DEF Active
  <2>3. ASSUME NEW x PROVE x \in BookAt(y.day, y.opened)' <=> x \in Active(t) \cup {t}
    <3>1. x \in accepted => (x.closed > t.opened <=> t.opened < x.closed)
      BY <1>1, TradesTyped
    <3>2. t.opened <= t.opened /\ t.opened < t.closed
      BY <1>1, TradesTyped
    <3>3. QED BY <1>2, <2>1, <2>2, <3>1, <3>2
  <2>4. QED BY <2>3
<1>4. ASSUME NEW y \in accepted, ~(y.day = t.day /\ y.opened = t.opened)
      PROVE  BookAt(y.day, y.opened)' = BookAt(y.day, y.opened)
  <2>1. ~(t.day = y.day /\ t.opened <= y.opened)
    BY <1>1, <1>2, <1>4, TradesTyped
  <2>2. QED BY <2>1 DEF BookAt
<1>5. QED BY <1>3, <1>4

LEMMA FilterStep == FilterInv /\ [SimNext]_simVars => FilterInv'
<1> SUFFICES ASSUME FilterInv, [SimNext]_simVars PROVE FilterInv'
  OBVIOUS
<1>1. ASSUME UNCHANGED <<queue, accepted>>,
             stage' \in {"bars", "walk", "candidates"} => stage \in {"bars", "walk", "candidates"}
      PROVE  FilterInv'
  BY <1>1 DEF FilterInv, BookAt
<1>2. ASSUME NEW t \in queue, FilterNext(t) PROVE FilterInv'
  <2>1. /\ stage = "filter" /\ stage' = stage /\ queue' = queue \ {t}
        /\ \A u \in queue : Earlier(t, u)
        /\ accepted' = IF Fits(t) THEN accepted \cup {t} ELSE accepted
    BY <1>2 DEF FilterNext
  <2>2. CASE ~Fits(t)
    BY <2>1, <2>2 DEF FilterInv, BookAt
  <2>3. CASE Fits(t)
    <3>1. accepted' = accepted \cup {t} /\ t \in TradePool /\ t \notin accepted
      BY <2>1, <2>3 DEF FilterInv
    <3>2. IsFiniteSet(accepted')
      BY <3>1, FS_AddElement DEF FilterInv
    <3>3. Active(t) \subseteq accepted
      BY DEF Active
    <3>4. IsFiniteSet(Active(t)) /\ Active(t) \subseteq TradePool /\ t \notin Active(t)
      BY <3>1, <3>3, FS_Subset DEF FilterInv
    <3>5. /\ Cardinality(Active(t)) < MaxOpen
          /\ RiskOf(Active(t)) + t.risk <= MaxRisk
          /\ NotionalOf(Active(t)) + t.notional <= MaxNotional
      BY <2>3 DEF Fits, RiskOf, NotionalOf
    <3>6. /\ Cardinality(Active(t) \cup {t}) <= MaxOpen
          /\ RiskOf(Active(t) \cup {t}) <= MaxRisk
          /\ NotionalOf(Active(t) \cup {t}) <= MaxNotional
      BY <3>1, <3>4, <3>5, TradeJoins
    <3>7. /\ BookAt(t.day, t.opened)' = Active(t) \cup {t}
          /\ \A y \in accepted :
               \/ BookAt(y.day, y.opened)' = BookAt(y.day, y.opened)
               \/ BookAt(y.day, y.opened)' = Active(t) \cup {t}
      BY <3>1, BookGrows
    <3>8. ASSUME NEW y \in accepted'
          PROVE  /\ Cardinality(BookAt(y.day, y.opened)') <= MaxOpen
                 /\ RiskOf(BookAt(y.day, y.opened)') <= MaxRisk
                 /\ NotionalOf(BookAt(y.day, y.opened)') <= MaxNotional
      <4>1. CASE y = t
        BY <3>6, <3>7, <4>1
      <4>2. CASE y \in accepted
        BY <3>6, <3>7, <4>2 DEF FilterInv
      <4>3. QED BY <3>1, <4>1, <4>2
    <3>9. \A a \in accepted', u \in queue' : Earlier(a, u)
      BY <2>1, <3>1 DEF FilterInv
    <3>10. queue' \cap accepted' = {} /\ queue' \subseteq TradePool /\ accepted' \subseteq TradePool
      BY <2>1, <3>1 DEF FilterInv
    <3>11. QED BY <2>1, <3>2, <3>8, <3>9, <3>10 DEF FilterInv, Earlier
  <2>4. QED BY <2>2, <2>3
<1>3. ASSUME NEW t \in TradePool, AddCandidate(t) PROVE FilterInv'
  BY <1>3 DEF AddCandidate, FilterInv, BookAt
<1>4. ASSUME \/ \E shape \in Shapes, slot \in 0..LastSlot : AddBar(shape, slot)
             \/ StartWalk \/ SkipBar \/ EnterBar \/ ProbeOn \/ CloseTrade \/ ExcludeTrade
             \/ StartFilter
      PROVE  FilterInv'
  <2>1. UNCHANGED <<queue, accepted>>
    BY <1>4 DEF AddBar, StartWalk, SkipBar, EnterBar, ProbeOn, CloseTrade, ExcludeTrade, StartFilter
  <2>2. stage' \in {"bars", "walk", "candidates"} => stage \in {"bars", "walk", "candidates"}
    BY <1>4 DEF AddBar, StartWalk, SkipBar, EnterBar, ProbeOn, CloseTrade, ExcludeTrade, StartFilter
  <2>3. QED BY <1>1, <2>1, <2>2
<1>5. CASE UNCHANGED simVars
  BY <1>1, <1>5 DEF simVars
<1>6. QED BY <1>2, <1>3, <1>4, <1>5 DEF SimNext

\* At every moment of every session the trades portfolio_filter has accepted
\* are within the number, the risk and the notional of the book: the trades
\* come in the order of their openings, so that those still open at a newcomer's
\* opening are all it will ever share that moment with.
THEOREM FilterKeepsTheBook == SimSpec => []FilteredBookWithinLimits
<1>1. FilterInv => FilteredBookWithinLimits
  BY DEF FilterInv, FilteredBookWithinLimits, BookAt, RiskOf, NotionalOf
<1>2. SimSpec => []FilterInv
  BY FilterStart, FilterStep, PTL DEF SimSpec
<1>3. QED BY <1>1, <1>2, PTL
-----------------------------------------------------------------------------
(***************************************************************************)
(* The walk over the bars of a day.                                        *)
(***************************************************************************)
BarSet ==
  [slot : 0..LastSlot, opinion : {b.opinion : b \in Shapes}, low : Int,
   close : {x \in Int : x % 2 = 0}, high : Int]

\* What a trade needs to know of its bars: no gap up to one of them, and
\* whether that one ends it.
InTime(o, i) == cashDay[i].slot = cashDay[o].slot + (i - o)
Touches(t, i) == HitsStop(t, i) \/ HitsTarget(t, i) \/ cashDay[i].slot >= SquareOffSlot
Open == [direction |-> cashDay[index].opinion, entry |-> Entry(index)]

Follows(t) ==
  /\ t.opened \in Nat /\ t.closed \in Nat /\ t.opened < t.closed
  /\ \A i \in BarsWithin(t) : InTime(t.opened, i)
  /\ \A i \in BarsWithin(t) : Touches(t, i) <=> i = t.closed
  /\ HitsStop(t, t.closed) => t.exit = IF t.direction = "LONG" THEN Bc ELSE Tc

\* The bars before the probe have not ended the open trade; the trades of the
\* day are over before the bar the walk has come to.
WalkInv ==
  /\ cashDay \in Seq(BarSet)
  /\ index \in Nat \ {0} /\ probe \in Nat
  /\ stage = "bars" => probe = 0 /\ trades = {}
  /\ probe # 0 =>
       /\ index < probe /\ index < Len(cashDay) /\ Enters(index)
       /\ \A i \in (index + 1)..(probe - 1) : InTime(index, i) /\ ~Touches(Open, i)
  /\ \A t \in trades : Follows(t) /\ t.closed < index
  /\ \A t, u \in trades : u = t \/ t.closed < u.opened \/ u.closed < t.opened

LEMMA WalkStart == SimInit => WalkInv
  BY DEF SimInit, WalkInv

\* Half of three times an even distance is exact.
LEMMA HalfOfEven ==
  ASSUME NEW x \in Int, NEW y \in Int, NEW r \in Int, x % 2 = 0, y % 2 = 0
  PROVE  r >= (3 * (x - y)) \div 2 <=> 2 * r >= 3 * (x - y)
<1>1. PICK a \in Int : x = 2 * a
  BY Z3
<1>2. PICK b \in Int : y = 2 * b
  BY Z3
<1>3. (3 * (x - y)) \div 2 = 3 * (a - b)
  BY <1>1, <1>2
<1>4. QED BY <1>1, <1>2, <1>3

LEMMA BarTyped ==
  ASSUME cashDay \in Seq(BarSet), NEW i \in 1..Len(cashDay)
  PROVE  /\ cashDay[i].slot \in Nat /\ cashDay[i].low \in Int /\ cashDay[i].high \in Int
         /\ cashDay[i].close \in Int /\ cashDay[i].close % 2 = 0
<1>1. cashDay[i] \in BarSet
  OBVIOUS
<1>2. /\ cashDay[i].slot \in 0..LastSlot /\ cashDay[i].low \in Int /\ cashDay[i].high \in Int
      /\ cashDay[i].close \in {x \in Int : x % 2 = 0}
  BY <1>1 DEF BarSet
<1>3. LastSlot \in Nat
  BY SimulationAssumption
<1>4. QED BY <1>2, <1>3

\* The bar under the probe ends the trade if it touches stop, target or the
\* square-off time: at the stop if it touches that, else at the target.
LEMMA ExitIsATouch ==
  ASSUME cashDay \in Seq(BarSet), index \in 1..Len(cashDay), probe \in 1..Len(cashDay),
         Enters(index)
  PROVE  /\ ExitPrice # {} <=> Touches(Open, probe)
         /\ HitsStop(Open, probe) =>
              ExitPrice = {IF cashDay[index].opinion = "LONG" THEN Bc ELSE Tc}
         /\ ~HitsStop(Open, probe) /\ HitsTarget(Open, probe) =>
              ExitPrice = {Target(cashDay[index].opinion, Entry(index), Stop(index))}
         /\ cashDay[index].opinion \in {"LONG", "SHORT"}
<1> DEFINE o == cashDay[index].opinion
           b == cashDay[probe]
           e == Entry(index)
<1>1. Bc \in Int /\ Tc \in Int /\ Bc % 2 = 0 /\ Tc % 2 = 0
  BY SimulationAssumption
<1>2. e \in Int /\ e % 2 = 0 /\ b.low \in Int /\ b.high \in Int
  BY BarTyped DEF Entry
<1>3. /\ o \in {"LONG", "SHORT"}
      /\ o = "LONG" => Bc < e
      /\ o = "SHORT" => Tc > e
  BY DEF Enters, Approves, GeometryValid, Stop
<1>4. Open.direction = o /\ Open.entry = e
  BY DEF Open
<1>5. HitsStop(Open, probe) <=> IF o = "LONG" THEN b.low <= Bc ELSE b.high >= Tc
  BY <1>4 DEF HitsStop
<1>6. HitsTarget(Open, probe) <=>
        IF o = "LONG" THEN 2 * (b.high - e) >= 3 * (e - Bc)
                      ELSE 2 * (e - b.low) >= 3 * (Tc - e)
  BY <1>4 DEF HitsTarget
<1>7. CASE o = "LONG"
  <2>1. Stop(index) = Bc /\ Target(o, e, Stop(index)) = e + (3 * (e - Bc)) \div 2
    BY <1>1, <1>2, <1>3, <1>7 DEF Stop, Target, Edge, Distance
  <2>2. (3 * (e - Bc)) \div 2 \in Int
    BY <1>1, <1>2
  <2>3. b.high >= Target(o, e, Stop(index)) <=> 2 * (b.high - e) >= 3 * (e - Bc)
    <3> HIDE DEF o, b, e
    <3>1. b.high - e >= (3 * (e - Bc)) \div 2 <=> 2 * (b.high - e) >= 3 * (e - Bc)
      <4>1. b.high - e \in Int
        BY <1>2
      <4>2. QED BY <1>1, <1>2, <4>1, HalfOfEven, Zenon
    <3>2. QED BY <1>2, <2>1, <2>2, <3>1
  <2>4. ExitPrice = IF b.low <= Bc THEN {Bc}
                    ELSE IF b.high >= Target(o, e, Stop(index)) THEN {Target(o, e, Stop(index))}
                    ELSE IF b.slot >= SquareOffSlot THEN {b.close} ELSE {}
    BY <1>7, <2>1 DEF ExitPrice
  <2>5. QED
    <3> HIDE DEF e, b, o
    <3>1. CASE HitsStop(Open, probe)
      BY <1>3, <1>5, <1>7, <2>4, <3>1 DEF Touches, o
    <3>2. CASE ~HitsStop(Open, probe)
      <4>1. HitsTarget(Open, probe) => ExitPrice = {Target(o, e, Stop(index))}
        BY <1>5, <1>6, <1>7, <2>3, <2>4, <3>2
      <4>2. ExitPrice # {} <=> Touches(Open, probe)
        BY <1>5, <1>6, <1>7, <2>3, <2>4, <3>2 DEF Touches, b
      <4>3. QED BY <1>3, <3>2, <4>1, <4>2 DEF o, e
    <3>3. QED BY <3>1, <3>2
<1>8. CASE o = "SHORT"
  <2>1. Stop(index) = Tc /\ Target(o, e, Stop(index)) = e - (3 * (Tc - e)) \div 2
    BY <1>1, <1>2, <1>3, <1>8 DEF Stop, Target, Edge, Distance
  <2>2. (3 * (Tc - e)) \div 2 \in Int
    BY <1>1, <1>2
  <2>3. b.low <= Target(o, e, Stop(index)) <=> 2 * (e - b.low) >= 3 * (Tc - e)
    <3> HIDE DEF o, b, e
    <3>1. e - b.low >= (3 * (Tc - e)) \div 2 <=> 2 * (e - b.low) >= 3 * (Tc - e)
      <4>1. e - b.low \in Int
        BY <1>2
      <4>2. QED BY <1>1, <1>2, <4>1, HalfOfEven, Zenon
    <3>2. QED BY <1>2, <2>1, <2>2, <3>1
  <2>4. ExitPrice = IF b.high >= Tc THEN {Tc}
                    ELSE IF b.low <= Target(o, e, Stop(index)) THEN {Target(o, e, Stop(index))}
                    ELSE IF b.slot >= SquareOffSlot THEN {b.close} ELSE {}
    BY <1>8, <2>1 DEF ExitPrice
  <2>5. QED
    <3> HIDE DEF e, b, o
    <3>1. CASE HitsStop(Open, probe)
      BY <1>3, <1>5, <1>8, <2>4, <3>1 DEF Touches, o
    <3>2. CASE ~HitsStop(Open, probe)
      <4>1. HitsTarget(Open, probe) => ExitPrice = {Target(o, e, Stop(index))}
        BY <1>5, <1>6, <1>8, <2>3, <2>4, <3>2
      <4>2. ExitPrice # {} <=> Touches(Open, probe)
        BY <1>5, <1>6, <1>8, <2>3, <2>4, <3>2 DEF Touches, b
      <4>3. QED BY <1>3, <3>2, <4>1, <4>2 DEF o, e
    <3>3. QED BY <3>1, <3>2
<1>9. QED BY <1>3, <1>7, <1>8

\* Without a gap, the bar under the probe is the next one in time.
LEMMA ProbeInTime ==
  ASSUME WalkInv, Probing
  PROVE  /\ InTime(index, probe)
         /\ index \in 1..Len(cashDay) /\ probe \in 1..Len(cashDay) /\ index < probe
<1>1. /\ index \in Nat \ {0} /\ probe \in Nat /\ index < probe
      /\ probe <= Len(cashDay) /\ Len(cashDay) \in Nat
      /\ cashDay \in Seq(BarSet)
  BY DEF WalkInv, Probing, Walking
<1>2. index \in 1..Len(cashDay) /\ probe \in 1..Len(cashDay) /\ probe - 1 \in 1..Len(cashDay)
  BY <1>1
<1>3. cashDay[probe].slot - cashDay[probe - 1].slot = 1
  BY <1>1 DEF Probing, HasGap
<1>4. InTime(index, probe - 1)
  <2>1. CASE probe - 1 = index
    <3>1. cashDay[probe - 1].slot \in Nat
      BY <1>1, <1>2, BarTyped
    <3>2. QED BY <1>1, <2>1, <3>1 DEF InTime
  <2>2. CASE probe - 1 # index
    <3>1. probe - 1 \in (index + 1)..(probe - 1)
      BY <1>1, <2>2
    <3>2. QED BY <1>1, <3>1 DEF WalkInv
  <2>3. QED BY <2>1, <2>2
<1>5. cashDay[probe].slot \in Nat /\ cashDay[probe - 1].slot \in Nat /\ cashDay[index].slot \in Nat
  BY <1>1, <1>2, BarTyped
<1>6. cashDay[probe - 1].slot = cashDay[index].slot + ((probe - 1) - index)
  BY <1>4 DEF InTime
<1>7. cashDay[probe].slot = cashDay[index].slot + (probe - index)
  <2> DEFINE a == cashDay[probe].slot
             b == cashDay[probe - 1].slot
             c == cashDay[index].slot
  <2>1. a \in Int /\ b \in Int /\ c \in Int /\ a - b = 1 /\ b = c + ((probe - 1) - index)
    BY <1>3, <1>5, <1>6
  <2>2. probe \in Int /\ index \in Int
    BY <1>1
  <2> HIDE DEF a, b, c
  <2>3. a = c + (probe - index)
    BY <2>1, <2>2
  <2>4. QED BY <2>3 DEF a, c
<1>8. QED BY <1>1, <1>2, <1>7 DEF InTime

\* What the open trade meets is what a trade closed from it has met.
LEMMA SameTouches ==
  ASSUME NEW t, t.direction = cashDay[index].opinion, t.entry = Entry(index), NEW i
  PROVE  /\ HitsStop(t, i) <=> HitsStop(Open, i)
         /\ Touches(t, i) <=> Touches(Open, i)
<1>1. Open.direction = cashDay[index].opinion /\ Open.entry = Entry(index)
  BY DEF Open
<1>2. HitsStop(t, i) <=> HitsStop(Open, i)
  BY <1>1 DEF HitsStop
<1>3. HitsTarget(t, i) <=> HitsTarget(Open, i)
  BY <1>1 DEF HitsTarget
<1>4. QED BY <1>2, <1>3 DEF Touches

LEMMA ClosedTradeFollows ==
  ASSUME WalkInv, Probing, NEW e \in ExitPrice, NEW t, t.opened = index, t.closed = probe,
         t.direction = cashDay[index].opinion, t.entry = Entry(index), t.exit = e
  PROVE  Follows(t)
<1>1. /\ index \in Nat /\ probe \in Nat /\ index < probe /\ Enters(index)
      /\ cashDay \in Seq(BarSet) /\ InTime(index, probe)
      /\ index \in 1..Len(cashDay) /\ probe \in 1..Len(cashDay)
      /\ \A i \in (index + 1)..(probe - 1) : InTime(index, i) /\ ~Touches(Open, i)
  BY ProbeInTime DEF WalkInv, Probing
<1>2. /\ Touches(Open, probe)
      /\ HitsStop(Open, probe) =>
           ExitPrice = {IF cashDay[index].opinion = "LONG" THEN Bc ELSE Tc}
  BY <1>1, ExitIsATouch
<1>3. \A i \in BarsWithin(t) : i = probe \/ i \in (index + 1)..(probe - 1)
  BY <1>1 DEF BarsWithin
<1>4. \A i \in BarsWithin(t) : InTime(t.opened, i)
  BY <1>1, <1>3
<1>5. \A i \in BarsWithin(t) : Touches(t, i) <=> i = t.closed
  <2>1. probe \notin (index + 1)..(probe - 1)
    BY <1>1
  <2>2. QED BY <1>1, <1>2, <1>3, <2>1, SameTouches
<1>6. HitsStop(t, t.closed) => t.exit = IF t.direction = "LONG" THEN Bc ELSE Tc
  BY <1>2, SameTouches
<1>7. QED BY <1>1, <1>4, <1>5, <1>6 DEF Follows

LEMMA TradesStay ==
  ASSUME WalkInv, UNCHANGED <<cashDay, trades>>, index' \in Nat \ {0}, index <= index',
         probe' \in Nat, stage' = "bars" => stage = "bars" /\ probe' = 0,
         probe' # 0 =>
           /\ index < probe' /\ index < Len(cashDay) /\ Enters(index) /\ index' = index
           /\ \A i \in (index + 1)..(probe' - 1) : InTime(index, i) /\ ~Touches(Open, i)
  PROVE  WalkInv'
<1>1. \A t \in trades' : Follows(t)' /\ t.closed < index'
  <2>1. \A t \in trades : Follows(t) /\ t.closed \in Nat /\ t.closed < index
    BY DEF WalkInv, Follows
  <2>2. \A t \in trades : Follows(t)'
    BY <2>1 DEF Follows, InTime, Touches, HitsStop, HitsTarget
  <2>3. \A t \in trades : t.closed < index'
    BY <2>1 DEF WalkInv
  <2>4. QED BY <2>2, <2>3
<1>2. probe' # 0 =>
        /\ index' < probe' /\ index' < Len(cashDay') /\ Enters(index)'
        /\ \A i \in (index' + 1)..(probe' - 1) : InTime(index, i)' /\ ~Touches(Open, i)'
  <2>1. ASSUME probe' # 0 PROVE Enters(index)'
    BY <2>1 DEF Enters, HasGap, Entry, Stop
  <2>2. ASSUME probe' # 0, NEW i \in (index' + 1)..(probe' - 1)
        PROVE  InTime(index, i)' /\ ~Touches(Open, i)'
    BY <2>2 DEF InTime, Touches, HitsStop, HitsTarget, Open, Entry
  <2>3. QED BY <2>1, <2>2
<1>3. QED BY <1>1, <1>2 DEF WalkInv

LEMMA WalkStep == WalkInv /\ [SimNext]_simVars => WalkInv'
<1> SUFFICES ASSUME WalkInv, [SimNext]_simVars PROVE WalkInv'
  OBVIOUS
<1>1. /\ index \in Nat \ {0} /\ probe \in Nat /\ cashDay \in Seq(BarSet)
      /\ Len(cashDay) \in Nat
  BY DEF WalkInv
<1>2. ASSUME NEW shape \in Shapes, NEW slot \in 0..LastSlot, AddBar(shape, slot) PROVE WalkInv'
  <2>1. /\ stage = "bars" /\ stage' = "bars"
        /\ cashDay' = Append(cashDay, [slot |-> slot, opinion |-> shape.opinion,
                           low |-> shape.low, close |-> shape.close, high |-> shape.high])
        /\ UNCHANGED <<index, probe, trades>>
    BY <1>2 DEF AddBar
  <2>2. [slot |-> slot, opinion |-> shape.opinion, low |-> shape.low, close |-> shape.close,
         high |-> shape.high] \in BarSet
    BY SimulationAssumption DEF BarSet
  <2>3. cashDay' \in Seq(BarSet)
    BY <1>1, <2>1, <2>2
  <2>4. QED BY <2>1, <2>3 DEF WalkInv
<1>3. ASSUME StartWalk \/ SkipBar \/ ExcludeTrade PROVE WalkInv'
  <2>1. /\ UNCHANGED <<cashDay, trades>> /\ index' \in {index, index + 1} /\ probe' = 0
        /\ stage' # "bars"
    BY <1>3 DEF StartWalk, SkipBar, ExcludeTrade, Walking, WalkInv
  <2>2. index' \in Nat \ {0} /\ index <= index'
    BY <1>1, <2>1
  <2>3. QED BY <2>1, <2>2, TradesStay
<1>4. ASSUME EnterBar PROVE WalkInv'
  <2>1. /\ UNCHANGED <<cashDay, trades, index>> /\ probe' = index + 1 /\ stage' # "bars"
        /\ Enters(index) /\ index < Len(cashDay)
    BY <1>4 DEF EnterBar, Walking
  <2>2. index < probe' /\ probe' \in Nat /\ (index + 1)..(probe' - 1) = {}
    BY <1>1, <2>1
  <2>3. QED BY <1>1, <2>1, <2>2, TradesStay
<1>5. ASSUME ProbeOn PROVE WalkInv'
  <2>1. /\ UNCHANGED <<cashDay, trades, index>> /\ probe' = probe + 1 /\ stage' # "bars"
        /\ Probing /\ ExitPrice = {} /\ probe # 0
    BY <1>5 DEF ProbeOn, Probing, Walking
  <2>2. /\ InTime(index, probe) /\ index < probe
        /\ index \in 1..Len(cashDay) /\ probe \in 1..Len(cashDay)
    BY <2>1, ProbeInTime
  <2>3. /\ Enters(index) /\ index < Len(cashDay)
        /\ \A i \in (index + 1)..(probe - 1) : InTime(index, i) /\ ~Touches(Open, i)
    BY <2>1 DEF WalkInv
  <2>4. ~Touches(Open, probe)
    BY <1>1, <2>1, <2>2, <2>3, ExitIsATouch
  <2>5. \A i \in (index + 1)..(probe' - 1) : i = probe \/ i \in (index + 1)..(probe - 1)
    BY <1>1, <2>1
  <2>6. index < probe' /\ probe' \in Nat
    BY <1>1, <2>1, <2>2
  <2>7. QED BY <1>1, <2>1, <2>2, <2>3, <2>4, <2>5, <2>6, TradesStay
<1>6. ASSUME CloseTrade PROVE WalkInv'
  <2> DEFINE Closed(e) ==
        [opened |-> index, closed |-> probe, direction |-> cashDay[index].opinion,
         entry |-> Entry(index), exit |-> e,
         quantity |-> Quantity(Entry(index), Stop(index)),
         net |-> NetResult(cashDay[index].opinion, Entry(index), e,
                           Quantity(Entry(index), Stop(index)))]
  <2>1. PICK e \in ExitPrice : trades' = trades \cup {Closed(e)}
    BY <1>6 DEF CloseTrade
  <2> DEFINE t == Closed(e)
  <2>2. /\ trades' = trades \cup {t}
        /\ t.opened = index /\ t.closed = probe
        /\ t.direction = cashDay[index].opinion /\ t.entry = Entry(index)
        /\ t.exit = e
    BY <2>1
  <2> HIDE DEF t
  <2>3. /\ Probing /\ index' = probe + 1 /\ probe' = 0 /\ stage' # "bars"
        /\ UNCHANGED cashDay
    BY <1>6 DEF CloseTrade, Probing, Walking
  <2>4. Follows(t)
    BY <2>2, <2>3, ClosedTradeFollows
  <2>5. \A u \in trades : Follows(u) /\ u.closed \in Nat /\ u.closed < index
    BY DEF WalkInv, Follows
  <2>6. \A u \in trades' : Follows(u)'
    BY <2>2, <2>3, <2>4, <2>5 DEF Follows, InTime, Touches, HitsStop, HitsTarget
  <2>7. index < probe
    BY <2>3, ProbeInTime
  <2>8. index' \in Nat \ {0} /\ \A u \in trades' : u.closed < index'
    BY <1>1, <2>2, <2>3, <2>5, <2>7
  <2>9. \A x, y \in trades' : x = y \/ y.closed < x.opened \/ x.closed < y.opened
    BY <2>2, <2>5 DEF WalkInv
  <2>10. QED BY <1>1, <2>3, <2>6, <2>8, <2>9 DEF WalkInv
<1>7. ASSUME \/ \E t \in TradePool : AddCandidate(t)
             \/ StartFilter
             \/ \E t \in queue : FilterNext(t)
             \/ UNCHANGED simVars
      PROVE  WalkInv'
  <2>1. /\ UNCHANGED <<cashDay, trades, index, probe>>
        /\ stage' = "bars" => stage = "bars"
    BY <1>7 DEF AddCandidate, StartFilter, FilterNext, simVars
  <2>2. stage' = "bars" => probe' = 0
    BY <2>1 DEF WalkInv
  <2>3. probe' # 0 =>
          /\ index < probe' /\ index < Len(cashDay) /\ Enters(index) /\ index' = index
          /\ \A i \in (index + 1)..(probe' - 1) : InTime(index, i) /\ ~Touches(Open, i)
    BY <2>1 DEF WalkInv
  <2>4. QED BY <1>1, <2>1, <2>2, <2>3, TradesStay
<1>8. QED BY <1>2, <1>3, <1>4, <1>5, <1>6, <1>7 DEF SimNext

\* A simulated trade lasts over consecutive bars up to the first that touches
\* its stop, its target or the square-off time, takes the stop where a bar spans
\* both, and overlaps no other trade of the symbol (simulate_symbol_day).
THEOREM SimulationFollowsTheTape == SimSpec => []TradesFollowTheTape
<1>1. WalkInv => TradesFollowTheTape
  <2> SUFFICES ASSUME WalkInv, NEW t \in trades
      PROVE  /\ \A i \in BarsWithin(t) :
                  cashDay[i].slot = cashDay[t.opened].slot + (i - t.opened)
             /\ {i \in BarsWithin(t) : \/ HitsStop(t, i) \/ HitsTarget(t, i)
                                       \/ cashDay[i].slot >= SquareOffSlot} = {t.closed}
             /\ HitsStop(t, t.closed) => t.exit = IF t.direction = "LONG" THEN Bc ELSE Tc
             /\ \A u \in trades : u = t \/ t.closed < u.opened \/ u.closed < t.opened
    BY DEF TradesFollowTheTape
  <2>1. Follows(t)
    BY DEF WalkInv
  <2>2. t.closed \in BarsWithin(t)
    BY <2>1 DEF Follows, BarsWithin
  <2>3. {i \in BarsWithin(t) : \/ HitsStop(t, i) \/ HitsTarget(t, i)
                               \/ cashDay[i].slot >= SquareOffSlot} = {t.closed}
    BY <2>1, <2>2 DEF Follows, Touches
  <2>4. QED BY <2>1, <2>3 DEF WalkInv, Follows, InTime
<1>2. SimSpec => []WalkInv
  BY WalkStart, WalkStep, PTL DEF SimSpec
<1>3. QED BY <1>1, <1>2, PTL
-----------------------------------------------------------------------------
(***************************************************************************)
(* What a trade earns at its target.                                       *)
(***************************************************************************)
\* Multiplying by something not negative keeps an order.
LEMMA TimesKeepsOrder ==
  ASSUME NEW x \in Int, NEW y \in Int, NEW k \in Nat, x <= y
  PROVE  k * x \in Int /\ k * y \in Int /\ k * x <= k * y
<1>1. PICK d \in Nat : y = x + d
  <2>1. y - x \in Nat /\ y = x + (y - x)
    OBVIOUS
  <2>2. QED BY <2>1
<1>2. k * d \in Nat
  OBVIOUS
<1>3. k * y = k * x + k * d
  BY <1>1
<1>4. QED BY <1>2, <1>3

\* Rounding half up moves an amount by half a unit at most.
LEMMA MoneyRounds ==
  ASSUME NEW n \in Int, NEW d \in Nat \ {0}
  PROVE  /\ Money(n, d) \in Int
         /\ 2 * (d * Money(n, d)) <= 2 * n + d
         /\ 2 * n < 2 * (d * Money(n, d)) + d
<1> DEFINE k == 2 * d
           m == 2 * n + d
<1>1. k \in Nat \ {0} /\ m \in Int
  OBVIOUS
<1> HIDE DEF k, m
<1>2. m \div k \in Int
  BY <1>1
<1>3. k * (m \div k) <= m
  BY <1>1
<1>4. m < k * (m \div k) + k
  BY <1>1
<1> DEFINE x == m \div k
<1>5. Money(n, d) = x
  BY DEF Money, x, m, k
<1> HIDE DEF x
<1>6. x \in Int /\ k * x <= m /\ m < k * x + k
  BY <1>2, <1>3, <1>4 DEF x
<1>7. d * x \in Int /\ k * x = 2 * (d * x)
  BY <1>6 DEF k
<1>8. QED BY <1>5, <1>6, <1>7 DEF m, k

\* What remains of an edge E that clears the hurdle for a turnover B: charges
\* rt with the rates c on a round trip and b on the selling side, slippage sl.
LEMMA EdgeSurvives ==
  ASSUME NEW S \in Nat \ {0}, NEW P \in Nat \ {0}, NEW R \in Nat \ {0},
         NEW B \in Nat, NEW b \in Nat, NEW c \in Nat, NEW s \in Nat, NEW E \in Nat,
         NEW rt \in Int, NEW sl \in Int,
         10000 * (B * R) + 2 * (s * (P * B)) <= 4000 * (P * E),
         2 * (P * c) <= 200 * (S * R) + 100 * S,
         200 * (S * rt) <= 2 * (B * c) + 2 * (E * b) + 100 * S,
         20000 * sl <= 4 * (B * s) + 2 * (E * s) + 10000,
         100 * b + s * S <= 1000 * S,
         4 <= E
  PROVE  rt + sl < E
<1> DEFINE PS == P * S
           PSE == (P * S) * E
           BRS == (B * R) * S
           PSBs == ((P * S) * B) * s
           BS == B * S
           PEb == (P * E) * b
           PSEs == ((P * S) * E) * s
           PSrt == (P * S) * rt
           PSsl == (P * S) * sl
           PBc == (P * B) * c
<1>0. /\ PS \in Nat /\ PSE \in Nat /\ BRS \in Nat /\ PSBs \in Nat /\ BS \in Nat
      /\ PEb \in Nat /\ PSEs \in Nat /\ PSrt \in Int /\ PSsl \in Int /\ PBc \in Nat
      /\ PS > 0
  OBVIOUS
<1>1. 10000 * BRS + 2 * PSBs <= 4000 * PSE
  <2>1. S * (10000 * (B * R) + 2 * (s * (P * B))) <= S * (4000 * (P * E))
    BY TimesKeepsOrder
  <2>2. S * (10000 * (B * R) + 2 * (s * (P * B))) = 10000 * BRS + 2 * PSBs
    OBVIOUS
  <2>3. S * (4000 * (P * E)) = 4000 * PSE
    OBVIOUS
  <2>4. QED BY <2>1, <2>2, <2>3
<1>2. 2 * PBc <= 200 * BRS + 100 * BS
  <2>1. B * (2 * (P * c)) <= B * (200 * (S * R) + 100 * S)
    BY TimesKeepsOrder
  <2>2. B * (2 * (P * c)) = 2 * PBc
    OBVIOUS
  <2>3. B * (200 * (S * R) + 100 * S) = 200 * BRS + 100 * BS
    OBVIOUS
  <2>4. QED BY <2>1, <2>2, <2>3
<1>3. BS <= BRS
  <2>1. BS * 1 <= BS * R
    BY TimesKeepsOrder
  <2>2. BS * R = BRS
    OBVIOUS
  <2>3. QED BY <1>0, <2>1, <2>2
<1>4. 200 * PSrt <= 2 * PBc + 2 * PEb + 100 * PS
  <2>1. P * (200 * (S * rt)) <= P * (2 * (B * c) + 2 * (E * b) + 100 * S)
    BY TimesKeepsOrder
  <2>2. P * (200 * (S * rt)) = 200 * PSrt
    OBVIOUS
  <2>3. P * (2 * (B * c) + 2 * (E * b) + 100 * S) = 2 * PBc + 2 * PEb + 100 * PS
    OBVIOUS
  <2>4. QED BY <2>1, <2>2, <2>3
<1>5. 20000 * PSsl <= 4 * PSBs + 2 * PSEs + 10000 * PS
  <2>1. PS * (20000 * sl) <= PS * (4 * (B * s) + 2 * (E * s) + 10000)
    BY TimesKeepsOrder
  <2>2. PS * (20000 * sl) = 20000 * PSsl
    OBVIOUS
  <2>3. PS * (4 * (B * s) + 2 * (E * s) + 10000) = 4 * PSBs + 2 * PSEs + 10000 * PS
    OBVIOUS
  <2>4. QED BY <2>1, <2>2, <2>3
<1>6. 100 * PEb + PSEs <= 1000 * PSE
  <2>1. (P * E) * (100 * b + s * S) <= (P * E) * (1000 * S)
    BY TimesKeepsOrder
  <2>2. (P * E) * (100 * b + s * S) = 100 * PEb + PSEs
    OBVIOUS
  <2>3. (P * E) * (1000 * S) = 1000 * PSE
    OBVIOUS
  <2>4. QED BY <2>1, <2>2, <2>3
<1>7. 4 * PS <= PSE
  <2>1. PS * 4 <= PS * E
    BY TimesKeepsOrder
  <2>2. QED BY <1>0, <2>1
<1>8. ASSUME E <= rt + sl PROVE FALSE
  <2>1. PS * E <= PS * (rt + sl)
    BY <1>8, TimesKeepsOrder
  <2>2. PS * (rt + sl) = PSrt + PSsl
    OBVIOUS
  <2>3. PSE <= PSrt + PSsl
    BY <2>1, <2>2
  <2> HIDE DEF PS, PSE, BRS, PSBs, BS, PEb, PSEs, PSrt, PSsl, PBc
  <2>4. QED BY <1>0, <1>1, <1>2, <1>3, <1>4, <1>5, <1>6, <1>7, <2>3
<1>9. QED BY <1>8

\* The rates of a turnover where no cap helps, times 100 * Scale.
BuyingRate == (BrokerageRate + ExchangeRate) * (100 + GstPercent) + (SebiRate + StampRate) * 100
SellingRate == (BrokerageRate + ExchangeRate) * (100 + GstPercent) + (SebiRate + SttRate) * 100

LEMMA RatesTyped ==
  /\ Scale \in Nat \ {0} /\ ProbeNotional \in Nat \ {0} /\ BrokerageCap \in Nat
  /\ BrokerageRate \in Nat /\ SttRate \in Nat /\ ExchangeRate \in Nat
  /\ SebiRate \in Nat /\ StampRate \in Nat /\ GstPercent \in Nat
  /\ Capital \in Nat \ {0} /\ RiskBudget \in Nat /\ MinStopDistance \in Nat /\ Slippage \in Nat
  /\ BuyingRate \in Nat /\ SellingRate \in Nat
<1>1. /\ Scale \in Nat \ {0} /\ ProbeNotional \in Nat \ {0} /\ BrokerageCap \in Nat
      /\ BrokerageRate \in Nat /\ SttRate \in Nat /\ ExchangeRate \in Nat
      /\ SebiRate \in Nat /\ StampRate \in Nat /\ GstPercent \in Nat
      /\ Capital \in Nat \ {0} /\ RiskBudget \in Nat /\ MinStopDistance \in Nat /\ Slippage \in Nat
  BY CostsAssumption, SimulationAssumption
<1>2. BuyingRate \in Nat /\ SellingRate \in Nat
  BY <1>1 DEF BuyingRate, SellingRate
<1>3. QED BY <1>1, <1>2

\* The charges of a round trip before rounding, times 100 * Scale.
Charges(buy, sell) ==
  (Brokerage(buy) + Brokerage(sell) + ExchangeCharge(buy, sell)) * (100 + GstPercent)
    + (sell * SttRate + (buy + sell) * SebiRate + buy * StampRate) * 100

LEMMA BrokerageBound ==
  ASSUME NEW turnover \in Int
  PROVE  /\ Brokerage(turnover) \in Int /\ Brokerage(turnover) <= turnover * BrokerageRate
         /\ turnover * BrokerageRate <= BrokerageCap * Scale =>
              Brokerage(turnover) = turnover * BrokerageRate
<1>1. turnover * BrokerageRate \in Int /\ BrokerageCap * Scale \in Int
  BY RatesTyped
<1>2. QED BY <1>1 DEF Brokerage, Least

\* Without a cap the charges are linear in both turnovers.
LEMMA ChargesAreLinear ==
  ASSUME NEW buy \in Int, NEW sell \in Int, NEW x \in Int, NEW y \in Int,
         x = buy * BrokerageRate, y = sell * BrokerageRate
  PROVE  (x + y + ExchangeCharge(buy, sell)) * (100 + GstPercent)
           + (sell * SttRate + (buy + sell) * SebiRate + buy * StampRate) * 100
         = buy * BuyingRate + sell * SellingRate
  BY RatesTyped DEF ExchangeCharge, BuyingRate, SellingRate

LEMMA ChargesBound ==
  ASSUME NEW buy \in Int, NEW sell \in Int
  PROVE  /\ Charges(buy, sell) \in Int
         /\ Charges(buy, sell) <= buy * BuyingRate + sell * SellingRate
         /\ /\ buy * BrokerageRate <= BrokerageCap * Scale
            /\ sell * BrokerageRate <= BrokerageCap * Scale
            => Charges(buy, sell) = buy * BuyingRate + sell * SellingRate
<1> DEFINE x == buy * BrokerageRate
           y == sell * BrokerageRate
           bx == Brokerage(buy)
           by == Brokerage(sell)
           ex == ExchangeCharge(buy, sell)
           rest == (sell * SttRate + (buy + sell) * SebiRate + buy * StampRate) * 100
           g == 100 + GstPercent
<1>1. /\ x \in Int /\ y \in Int /\ ex \in Int /\ rest \in Int /\ g \in Nat
  BY RatesTyped DEF ExchangeCharge
<1>2. bx \in Int /\ by \in Int /\ bx <= x /\ by <= y
  BY BrokerageBound
<1>3. (x + y + ex) * g + rest = buy * BuyingRate + sell * SellingRate
  BY <1>1, ChargesAreLinear
<1>4. Charges(buy, sell) = (bx + by + ex) * g + rest
  BY DEF Charges
<1>5. x <= BrokerageCap * Scale /\ y <= BrokerageCap * Scale => bx = x /\ by = y
  BY BrokerageBound
<1>6. (bx + by + ex) * g \in Int /\ (bx + by + ex) * g <= (x + y + ex) * g
  <2> HIDE DEF x, y, bx, by, ex, g
  <2>1. bx + by + ex \in Int /\ x + y + ex \in Int /\ bx + by + ex <= x + y + ex
    BY <1>1, <1>2
  <2>2. g * (bx + by + ex) <= g * (x + y + ex)
    BY <1>1, <2>1, TimesKeepsOrder
  <2>3. QED BY <1>1, <2>1, <2>2
<1>7. QED
  <2> HIDE DEF bx, by, ex, rest, g
  <2>1. Charges(buy, sell) \in Int /\ Charges(buy, sell) <= (x + y + ex) * g + rest
    <3> HIDE DEF x, y
    <3>1. (x + y + ex) * g \in Int
      BY <1>1
    <3>2. QED BY <1>1, <1>4, <1>6, <3>1
  <2>2. QED BY <1>3, <1>4, <1>5, <2>1

LEMMA RoundTripBound ==
  ASSUME NEW buy \in Int, NEW sell \in Int
  PROVE  /\ RoundTrip(buy, sell) \in Int
         /\ 200 * (Scale * RoundTrip(buy, sell))
              <= 2 * (buy * BuyingRate + sell * SellingRate) + 100 * Scale
<1> DEFINE n == Charges(buy, sell)
           d == 100 * Scale
           r == Money(n, d)
           lin == buy * BuyingRate + sell * SellingRate
<1>1. RoundTrip(buy, sell) = r
  BY DEF RoundTrip, Charges
<1>2. n \in Int /\ n <= lin /\ lin \in Int
  BY ChargesBound, RatesTyped
<1>3. d \in Nat \ {0}
  BY RatesTyped
<1>4. r \in Int /\ 2 * (d * r) <= 2 * n + d
  <2> HIDE DEF n, d
  <2>1. QED BY <1>2, <1>3, MoneyRounds
<1>5. QED
  <2> HIDE DEF n, r, lin
  <2>1. 2 * (d * r) = 200 * (Scale * r) /\ Scale * r \in Int
    BY <1>4, RatesTyped
  <2>2. QED BY <1>1, <1>2, <1>4, <2>1, RatesTyped DEF lin

\* The linear estimate is not below the rates by more than half a unit.
LEMMA ProbeBound ==
  LET R == RoundTrip(ProbeNotional, ProbeNotional)
  IN  /\ R \in Nat \ {0}
      /\ 2 * (ProbeNotional * (BuyingRate + SellingRate)) <= 200 * (Scale * R) + 100 * Scale
<1> DEFINE P == ProbeNotional
           n == Charges(P, P)
           d == 100 * Scale
           r == Money(n, d)
<1>1. RoundTrip(P, P) = r
  BY DEF RoundTrip, Charges
<1>2. n = P * (BuyingRate + SellingRate) /\ n \in Int
  <2>1. n = P * BuyingRate + P * SellingRate /\ n \in Int
    BY ChargesBound, RatesTyped, RatesAssumption
  <2>2. P * BuyingRate + P * SellingRate = P * (BuyingRate + SellingRate)
    BY RatesTyped
  <2>3. QED BY <2>1, <2>2
<1>3. d \in Nat \ {0}
  BY RatesTyped
<1>4. r \in Int /\ 2 * n < 2 * (d * r) + d
  <2> HIDE DEF n, d
  <2>1. QED BY <1>2, <1>3, MoneyRounds
<1>5. r > 0
  BY <1>1, RatesAssumption
<1>6. QED
  <2> HIDE DEF n, r
  <2>1. 2 * (d * r) = 200 * (Scale * r) /\ Scale * r \in Int
    BY <1>4, RatesTyped
  <2>2. QED BY <1>1, <1>2, <1>4, <1>5, <2>1, RatesTyped

LEMMA ApprovedTrade ==
  ASSUME NEW entry \in Int, NEW stop \in Int, NEW direction,
         Approves(direction, entry, stop, Slippage)
  PROVE  /\ entry > 0 /\ direction \in {"LONG", "SHORT"}
         /\ Edge(entry, stop) \in Nat /\ Edge(entry, stop) >= 4
         /\ Quantity(entry, stop) \in Nat \ {0}
<1> DEFINE dist == Distance(entry, stop)
<1>1. /\ entry > 0 /\ direction \in {"LONG", "SHORT"} /\ dist \in Nat /\ dist >= 3
      /\ Quantity(entry, stop) > 0
  BY RatesTyped, RatesAssumption DEF Approves, GeometryValid, Distance
<1>2. Edge(entry, stop) \in Nat /\ Edge(entry, stop) >= 4
  <2> HIDE DEF dist
  <2>1. (3 * dist) \div 2 \in Nat /\ (3 * dist) \div 2 >= 4
    BY <1>1
  <2>2. QED BY <2>1 DEF Edge, dist
<1>3. Quantity(entry, stop) \in Int
  <2>1. RiskBudget \div dist \in Int
    <3> HIDE DEF dist
    <3>1. QED BY <1>1, RatesTyped
  <2>2. (5 * Capital) \div entry \in Int
    <3>1. 5 * Capital \in Int /\ entry \in Nat \ {0}
      BY <1>1, RatesTyped
    <3>2. QED BY <3>1
  <2>3. QED BY <2>1, <2>2 DEF Quantity
<1>4. QED BY <1>1, <1>2, <1>3

\* A trade the desk approves earns something at its target.
LEMMA TargetEarns ==
  ASSUME NEW entry \in Int, NEW stop \in Int, NEW direction,
         Approves(direction, entry, stop, Slippage)
  PROVE  NetResult(direction, entry, Target(direction, entry, stop), Quantity(entry, stop)) > 0
<1> DEFINE e == Edge(entry, stop)
           q == Quantity(entry, stop)
           exit == Target(direction, entry, stop)
           B == entry * q
           X == exit * q
           E == e * q
           P == ProbeNotional
           R == RoundTrip(P, P)
           c == BuyingRate + SellingRate
           rt == RoundTrip(B, X)
           turnover == (entry + exit) * q * Slippage
           sl == Money(turnover, 10000)
<1>1. /\ entry > 0 /\ direction \in {"LONG", "SHORT"}
      /\ e \in Nat /\ e >= 4 /\ q \in Nat \ {0}
  BY ApprovedTrade
<1>2. exit \in Int /\ exit = IF direction = "LONG" THEN entry + e ELSE entry - e
  <2> HIDE DEF e
  <2>1. exit = IF direction = "LONG" THEN entry + e ELSE entry - e
    BY DEF Target, e
  <2>2. QED BY <1>1, <2>1
<1>3. ClearsHurdle(entry, stop, Slippage)
  BY DEF Approves
<1> HIDE DEF e, q, exit
<1>4. /\ B \in Nat /\ X \in Int /\ E \in Nat /\ 4 <= E
      /\ X = IF direction = "LONG" THEN B + E ELSE B - E
  <2>1. B \in Nat /\ X \in Int /\ E \in Nat
    BY <1>1, <1>2
  <2>2. 4 <= E
    BY <1>1
  <2>3. CASE direction = "LONG"
    BY <1>1, <1>2, <2>1, <2>2, <2>3
  <2>4. CASE direction # "LONG"
    BY <1>1, <1>2, <2>1, <2>2, <2>4
  <2>5. QED BY <2>3, <2>4
<1>5. 10000 * (B * R) + 2 * (Slippage * (P * B)) <= 4000 * (P * E)
  <2>1. R \in Nat
    BY ProbeBound
  <2>2. 2 * e * P * 10000 >= 5 * (entry * (10000 * R + 2 * Slippage * P))
    BY <1>3 DEF ClearsHurdle, LinearFriction, e
  <2> HIDE DEF R
  <2>3. /\ 5 * (entry * (10000 * R + 2 * Slippage * P)) \in Int
        /\ 2 * e * P * 10000 \in Int
    BY <1>1, <2>1, RatesTyped
  <2>4. q * (5 * (entry * (10000 * R + 2 * Slippage * P))) <= q * (2 * e * P * 10000)
    BY <1>1, <2>2, <2>3, TimesKeepsOrder
  <2>5. q * (5 * (entry * (10000 * R + 2 * Slippage * P)))
          = 5 * (10000 * (B * R) + 2 * (Slippage * (P * B)))
    BY <1>1, <2>1, RatesTyped
  <2>6. q * (2 * e * P * 10000) = 5 * (4000 * (P * E))
    BY <1>1, RatesTyped
  <2>7. 10000 * (B * R) + 2 * (Slippage * (P * B)) \in Int /\ 4000 * (P * E) \in Int
    BY <1>4, <2>1, RatesTyped
  <2>8. QED BY <2>4, <2>5, <2>6, <2>7
<1>6. /\ R \in Nat \ {0}
      /\ 2 * (P * c) <= 200 * (Scale * R) + 100 * Scale
  BY ProbeBound
<1>7. /\ rt \in Int
      /\ 200 * (Scale * rt) <= 2 * (B * c) + 2 * (E * SellingRate) + 100 * Scale
  <2> HIDE DEF B, X, E
  <2>1. rt \in Int /\ 200 * (Scale * rt) <= 2 * (B * BuyingRate + X * SellingRate) + 100 * Scale
    <3>1. B \in Int /\ X \in Int
      BY <1>4
    <3>2. QED BY <3>1, RoundTripBound, Zenon
  <2>2. B * BuyingRate + X * SellingRate <= B * c + E * SellingRate
    <3>1. /\ B * BuyingRate + (B + E) * SellingRate = B * c + E * SellingRate
          /\ B * BuyingRate + (B - E) * SellingRate = B * c - E * SellingRate
          /\ B * c \in Int /\ E * SellingRate \in Nat
      BY <1>4, RatesTyped
    <3>2. QED BY <1>4, <3>1
  <2>3. /\ B * BuyingRate + X * SellingRate \in Int /\ B * c + E * SellingRate \in Int
        /\ Scale * rt \in Int /\ B * c \in Int /\ E * SellingRate \in Int
    BY <1>4, <2>1, RatesTyped
  <2> HIDE DEF rt, c
  <2>4. QED BY <2>1, <2>2, <2>3, RatesTyped
<1>8. /\ sl \in Int
      /\ 20000 * sl <= 4 * (B * Slippage) + 2 * (E * Slippage) + 10000
  <2>1. turnover = (B + X) * Slippage
    BY <1>1, <1>2, RatesTyped
  <2> HIDE DEF B, X, E
  <2>2. turnover \in Int /\ turnover <= 2 * (B * Slippage) + E * Slippage
    <3>1. /\ (B + (B + E)) * Slippage = 2 * (B * Slippage) + E * Slippage
          /\ (B + (B - E)) * Slippage = 2 * (B * Slippage) - E * Slippage
          /\ B * Slippage \in Int /\ E * Slippage \in Nat
      BY <1>4, RatesTyped
    <3> HIDE DEF turnover
    <3>2. QED BY <1>4, <2>1, <3>1
  <2> HIDE DEF turnover
  <2>3. sl \in Int /\ 2 * (10000 * sl) <= 2 * turnover + 10000
    <3>1. PICK d \in Nat \ {0} : d = 10000
      OBVIOUS
    <3>2. /\ Money(turnover, d) \in Int
          /\ 2 * (d * Money(turnover, d)) <= 2 * turnover + d
      BY <2>2, MoneyRounds
    <3>3. QED BY <3>1, <3>2
  <2>4. B * Slippage \in Int /\ E * Slippage \in Int
    BY <1>4, RatesTyped
  <2> HIDE DEF sl
  <2>5. QED BY <2>2, <2>3, <2>4
<1>9. rt + sl < E
  <2>1. 100 * SellingRate + Slippage * Scale <= 1000 * Scale
    BY SellingAssumption DEF SellingRate
  <2>2. c \in Nat
    BY RatesTyped
  <2> HIDE DEF B, E, R, rt, sl, c
  <2>3. QED
    BY <1>4, <1>5, <1>6, <1>7, <1>8, <2>1, <2>2, RatesTyped, EdgeSurvives
<1>10. NetResult(direction, entry, exit, q) = E - (rt + sl)
  <2>1. TradeFriction(entry, exit, q, Slippage) = rt + sl
    BY DEF TradeFriction
  <2>2. (IF direction = "LONG" THEN exit - entry ELSE entry - exit) = e
    BY <1>1, <1>2
  <2>3. QED BY <2>1, <2>2 DEF NetResult
<1>11. QED
  <2> HIDE DEF E, rt, sl
  <2>1. E - (rt + sl) > 0
    BY <1>4, <1>7, <1>8, <1>9
  <2>2. QED BY <1>10, <2>1 DEF e, q, exit

\* A trade that ends at its target does so at the price the desk approved.
LEMMA TargetStep ==
  WalkInv /\ TargetPaysForItself /\ [SimNext]_simVars => TargetPaysForItself'
<1> SUFFICES ASSUME WalkInv, TargetPaysForItself, [SimNext]_simVars
    PROVE  TargetPaysForItself'
  OBVIOUS
<1>1. ASSUME NEW shape \in Shapes, NEW slot \in 0..LastSlot, AddBar(shape, slot)
      PROVE  TargetPaysForItself'
  <2>1. trades' = {}
    BY <1>1 DEF AddBar, WalkInv
  <2>2. QED BY <2>1 DEF TargetPaysForItself
<1>2. ASSUME UNCHANGED <<cashDay, trades>> PROVE TargetPaysForItself'
  BY <1>2 DEF TargetPaysForItself, HitsStop, HitsTarget
<1>3. ASSUME CloseTrade PROVE TargetPaysForItself'
  <2> DEFINE o == cashDay[index].opinion
             q == Quantity(Entry(index), Stop(index))
             Closed(e) ==
               [opened |-> index, closed |-> probe, direction |-> cashDay[index].opinion,
                entry |-> Entry(index), exit |-> e,
                quantity |-> Quantity(Entry(index), Stop(index)),
                net |-> NetResult(cashDay[index].opinion, Entry(index), e,
                                  Quantity(Entry(index), Stop(index)))]
  <2>1. PICK e \in ExitPrice : trades' = trades \cup {Closed(e)}
    BY <1>3 DEF CloseTrade
  <2> DEFINE t == Closed(e)
  <2>2. /\ trades' = trades \cup {t}
        /\ t.closed = probe /\ t.direction = o /\ t.entry = Entry(index)
        /\ t.net = NetResult(o, Entry(index), e, q)
    BY <2>1
  <2> HIDE DEF t
  <2>3. UNCHANGED cashDay /\ Probing
    BY <1>3 DEF CloseTrade
  <2>4. /\ cashDay \in Seq(BarSet) /\ Enters(index)
        /\ index \in 1..Len(cashDay) /\ probe \in 1..Len(cashDay)
    BY <2>3, ProbeInTime DEF WalkInv, Probing
  <2>5. ASSUME ~HitsStop(t, probe), HitsTarget(t, probe) PROVE t.net > 0
    <3>1. ~HitsStop(Open, probe) /\ HitsTarget(Open, probe)
      BY <2>2, <2>5 DEF HitsStop, HitsTarget, Open
    <3>2. e = Target(o, Entry(index), Stop(index))
      BY <2>4, <3>1, ExitIsATouch
    <3>3. Entry(index) \in Int /\ Stop(index) \in Int
      BY <2>4, BarTyped, SimulationAssumption DEF Entry, Stop
    <3>4. Approves(o, Entry(index), Stop(index), Slippage)
      BY <2>4 DEF Enters
    <3>5. NetResult(o, Entry(index), e, q) > 0
      BY <3>2, <3>3, <3>4, TargetEarns
    <3>6. QED BY <2>2, <3>5
  <2>6. ASSUME NEW u \in trades'
        PROVE  (~HitsStop(u, u.closed)' /\ HitsTarget(u, u.closed)') => u.net > 0
    <3>1. /\ HitsStop(u, u.closed)' <=> HitsStop(u, u.closed)
          /\ HitsTarget(u, u.closed)' <=> HitsTarget(u, u.closed)
      BY <2>3 DEF HitsStop, HitsTarget
    <3>2. CASE u \in trades
      BY <3>1, <3>2 DEF TargetPaysForItself
    <3>3. CASE u = t
      BY <2>2, <2>5, <3>1, <3>3
    <3>4. QED BY <2>2, <3>2, <3>3
  <2>7. QED BY <2>6 DEF TargetPaysForItself
<1>4. QED
  BY <1>1, <1>2, <1>3
  DEF SimNext, StartWalk, SkipBar, EnterBar, ProbeOn, ExcludeTrade, AddCandidate,
      StartFilter, FilterNext, simVars

\* The desk's hurdle is a linear estimate from a small notional; yet with the
\* real quantity, brokerage capped per order and charges and slippage rounded
\* one by one, a simulated trade that reaches its target earns something
\* (engine/risk_gate.py evaluate against integration/costs.py).
THEOREM TargetsPayForThemselves == SimSpec => []TargetPaysForItself
<1>1. SimInit => TargetPaysForItself
  BY DEF SimInit, TargetPaysForItself
<1>2. QED BY <1>1, TargetStep, WalkStart, WalkStep, PTL DEF SimSpec
-----------------------------------------------------------------------------
(***************************************************************************)
(* What a trade puts at risk.                                              *)
(***************************************************************************)
StopOf(t) == IF t.direction = "LONG" THEN Bc ELSE Tc

\* Loss at the stop and notional of every simulated trade are within the desk's
\* risk budget and five times its capital.
TradesWithinBudget ==
  \A t \in trades :
    /\ t.quantity > 0
    /\ t.quantity * Distance(t.entry, StopOf(t)) <= RiskBudget
    /\ t.quantity * t.entry <= 5 * Capital

LEMMA QuotientFits ==
  ASSUME NEW a \in Nat, NEW b \in Nat \ {0}
  PROVE  a \div b \in Nat /\ (a \div b) * b <= a
<1>1. a \div b \in Int /\ b * (a \div b) <= a /\ a < b * (a \div b) + b
  <2>1. a \div b \in Int
    OBVIOUS
  <2>2. b * (a \div b) <= a
    OBVIOUS
  <2>3. a < b * (a \div b) + b
    OBVIOUS
  <2>4. QED BY <2>1, <2>2, <2>3
<1> DEFINE q == a \div b
<1> HIDE DEF q
<1>2. q \in Int /\ b * q <= a /\ a < b * q + b
  BY <1>1 DEF q
<1>3. q >= 0
  <2>1. ASSUME q <= -1 PROVE FALSE
    <3>1. b * q <= b * (-1)
      BY <1>2, <2>1, TimesKeepsOrder
    <3>2. b * q \in Int /\ b * (-1) = -b
      BY <1>2
    <3>3. QED BY <1>2, <3>1, <3>2
  <2>2. QED BY <1>2, <2>1
<1>4. q \in Nat /\ q * b <= a
  BY <1>2, <1>3
<1>5. QED BY <1>4 DEF q

\* The quantity is cut to what the capital allows after it was sized by the
\* risk, and what is cut away only makes the risk smaller.
LEMMA QuantityFits ==
  ASSUME NEW entry \in Int, NEW stop \in Int, NEW direction,
         Approves(direction, entry, stop, Slippage)
  PROVE  /\ Quantity(entry, stop) > 0
         /\ Quantity(entry, stop) * Distance(entry, stop) <= RiskBudget
         /\ Quantity(entry, stop) * entry <= 5 * Capital
<1> DEFINE d == Distance(entry, stop)
           byRisk == RiskBudget \div d
           byCapital == (5 * Capital) \div entry
           q == Quantity(entry, stop)
<1>1. entry \in Nat \ {0} /\ d \in Nat \ {0} /\ q \in Nat \ {0}
  BY ApprovedTrade, RatesTyped, RatesAssumption DEF Approves, Distance
<1>2. q = IF byRisk * entry > 5 * Capital THEN byCapital ELSE byRisk
  BY DEF Quantity
<1> HIDE DEF d, q
<1>3. /\ byRisk \in Nat /\ byRisk * d <= RiskBudget
      /\ byCapital \in Nat /\ byCapital * entry <= 5 * Capital
  <2>1. byRisk \in Nat /\ byRisk * d <= RiskBudget
    BY <1>1, RatesTyped, QuotientFits
  <2>2. 5 * Capital \in Nat
    BY RatesTyped
  <2>3. byCapital \in Nat /\ byCapital * entry <= 5 * Capital
    <3> DEFINE money == 5 * Capital
    <3> HIDE DEF money
    <3>1. money \in Nat
      BY <2>2 DEF money
    <3>2. money \div entry \in Nat /\ (money \div entry) * entry <= money
      BY <1>1, <3>1, QuotientFits
    <3>3. QED BY <3>2 DEF money
  <2>4. QED BY <2>1, <2>3
<1> HIDE DEF byRisk, byCapital
<1>4. CASE byRisk * entry > 5 * Capital
  <2>1. q = byCapital
    BY <1>2, <1>4
  <2>2. byCapital <= byRisk
    <3>1. ASSUME byRisk <= byCapital PROVE byRisk * entry <= 5 * Capital
      <4>1. entry * byRisk <= entry * byCapital
        BY <1>1, <1>3, <3>1, TimesKeepsOrder
      <4>2. QED BY <1>1, <1>3, <4>1, RatesTyped
    <3>2. byRisk * entry \in Int
      BY <1>1, <1>3
    <3>3. QED BY <1>3, <1>4, <3>1, <3>2, RatesTyped
  <2>3. d * byCapital <= d * byRisk
    BY <1>1, <1>3, <2>2, TimesKeepsOrder
  <2>4. q * d <= RiskBudget
    BY <1>1, <1>3, <2>1, <2>3, RatesTyped
  <2>5. QED BY <1>1, <1>3, <2>1, <2>4 DEF d, q
<1>5. CASE ~(byRisk * entry > 5 * Capital)
  <2>1. q = byRisk
    BY <1>2, <1>5
  <2>2. q * entry <= 5 * Capital
    <3>1. byRisk * entry \in Int
      BY <1>1, <1>3
    <3>2. QED BY <1>5, <2>1, <3>1, RatesTyped
  <2>3. QED BY <1>1, <1>3, <2>1, <2>2 DEF d, q
<1>6. QED BY <1>4, <1>5

LEMMA BudgetStep ==
  WalkInv /\ TradesWithinBudget /\ [SimNext]_simVars => TradesWithinBudget'
<1> SUFFICES ASSUME WalkInv, TradesWithinBudget, [SimNext]_simVars
    PROVE  TradesWithinBudget'
  OBVIOUS
<1>1. ASSUME UNCHANGED trades PROVE TradesWithinBudget'
  BY <1>1 DEF TradesWithinBudget, StopOf
<1>2. ASSUME CloseTrade PROVE TradesWithinBudget'
  <2> DEFINE o == cashDay[index].opinion
             q == Quantity(Entry(index), Stop(index))
  <2>1. PICK t : /\ trades' = trades \cup {t}
                 /\ t.direction = o /\ t.entry = Entry(index) /\ t.quantity = q
    <3> DEFINE Closed(e) ==
          [opened |-> index, closed |-> probe, direction |-> cashDay[index].opinion,
           entry |-> Entry(index), exit |-> e,
           quantity |-> Quantity(Entry(index), Stop(index)),
           net |-> NetResult(cashDay[index].opinion, Entry(index), e,
                             Quantity(Entry(index), Stop(index)))]
    <3>1. PICK e \in ExitPrice : trades' = trades \cup {Closed(e)}
      BY <1>2 DEF CloseTrade
    <3>2. /\ Closed(e).direction = o /\ Closed(e).entry = Entry(index)
          /\ Closed(e).quantity = q
      OBVIOUS
    <3> HIDE DEF Closed
    <3>3. QED BY <3>1, <3>2
  <2>2. /\ cashDay \in Seq(BarSet) /\ Enters(index) /\ index \in 1..Len(cashDay)
    BY <1>2, ProbeInTime DEF CloseTrade, WalkInv, Probing
  <2>3. /\ Entry(index) \in Int /\ Stop(index) \in Int
        /\ Approves(o, Entry(index), Stop(index), Slippage)
    BY <2>2, BarTyped, SimulationAssumption DEF Entry, Stop, Enters
  <2>4. Stop(index) = StopOf(t)
    BY <2>1 DEF Stop, StopOf
  <2>5. /\ q > 0 /\ q * Distance(Entry(index), Stop(index)) <= RiskBudget
        /\ q * Entry(index) <= 5 * Capital
    BY <2>3, QuantityFits
  <2>6. QED BY <2>1, <2>4, <2>5 DEF TradesWithinBudget, StopOf
<1>3. QED
  BY <1>1, <1>2
  DEF SimNext, AddBar, StartWalk, SkipBar, EnterBar, ProbeOn, ExcludeTrade, AddCandidate,
      StartFilter, FilterNext, simVars

\* No simulated trade risks more at its stop than the desk's budget per trade
\* nor buys for more than five times its capital, although the quantity is
\* sized by one and then cut by the other (engine/risk_gate.py:186-189).
THEOREM TradesStayWithinBudget == SimSpec => []TradesWithinBudget
<1>1. SimInit => TradesWithinBudget
  BY DEF SimInit, TradesWithinBudget
<1>2. QED BY <1>1, BudgetStep, WalkStart, WalkStep, PTL DEF SimSpec
-----------------------------------------------------------------------------
(***************************************************************************)
(* The data of the CPR/OI study.                                           *)
(***************************************************************************)
Payloads == [kind : {"none", "whole", "torn"}, bars : [Days -> Nat]]
TaskStates == {"todo", "locking", "calling", "writing", "fetched", "absent", "failed",
               "collected"}
Candles == CashFiles \cup FutureFiles

DataTypeOK ==
  /\ cache \in [Files -> Payloads] /\ task \in [Files -> TaskStates]
  /\ phase \in {"off", "archives", "candles", "actions", "replay"}
  /\ hashed \subseteq Files \X Payloads
  /\ IsFiniteSet(spool)
  /\ sessions \subseteq Days /\ cursor \in Nat

\* Of the cash, only the days of the request are in a file.
ChunksApart ==
  \A f \in CashFiles, d \in Days : d \div ChunkDays # f[2] => cache[f].bars[d] = 0

\* What has been read of a file and can be used is the file, and is hashed.
HashAt(f) ==
  /\ task[f] \in {"locking", "calling", "writing", "failed", "absent"} =>
       cache[f].kind # "whole"
  /\ \A c \in Payloads :
       (<<f, c>> \in hashed /\ c.kind = "whole") <=>
         (task[f] \in {"fetched", "collected"} /\ c = cache[f] /\ c.kind = "whole")
Hashed == \A f \in Files : HashAt(f)

\* Which tasks there are in a phase.
TasksInPhase ==
  /\ phase = "off" => hashed = {}
  /\ phase \in {"off", "archives"} => \A f \in Files \ ArchiveFiles : task[f] = "todo"
  /\ phase = "candles" => \A f \in Files \ (ArchiveFiles \cup Specs) : task[f] = "todo"
  /\ phase \in {"actions", "replay"} =>
       /\ \A f \in Candles : task[f] = "todo" \/ (task[f] = "collected" /\ f \in Specs)
       /\ task[ActionsFile] # "collected"

\* The bars table holds the files that were collected whole.
Finished == {f \in Candles : task[f] = "collected" /\ cache[f].kind = "whole"}
SpoolOfFinished == spool = {<<f, cache[f].bars>> : f \in Finished}

\* What a hash tells of the run: its sessions, its bars table, its simulations.
SessionsIn(h) ==
  {d \in Days : \E c \in Payloads : <<<<"cm", d, 0>>, c>> \in h /\ c.kind = "whole"}
WholeIn(h) == {i \in h : i[1] \in Candles /\ i[2].kind = "whole"}
SpoolIn(h) == {<<i[1], i[2].bars>> : i \in WholeIn(h)}
ActionsIn(h) == \E c \in Payloads : <<ActionsFile, c>> \in h /\ c.kind = "whole"
PreviousIn(days, d) == Max({e \in days : e < d})
CashIn(table, d) == CandlesOn({row \in table : row[1][1] = "cash"}, d)
FutureIn(table, k, d) == CandlesOn({row \in table : IsFuture(row[1]) /\ row[1][2] = k}, d)
CompleteIn(days, table, k, d) ==
  /\ \E e \in days :
       /\ e < d /\ ListedFrom[k] <= e
       /\ \A g \in days : e < g /\ g < d => d - g <= 10
  /\ CashIn(table, d) = Bars /\ CashIn(table, PreviousIn(days, d)) = Bars
  /\ FutureIn(table, k, d) = Bars /\ FutureIn(table, k, PreviousIn(days, d)) = Bars
Nearest(d) == CHOOSE k \in SelectedContract(d) : TRUE
TradesOn(days, table, known, d) ==
  /\ d # Min(days) /\ SelectedContract(d) # {}
  /\ known /\ CompleteIn(days, table, Nearest(d), d)
ReportOf(h) ==
  [hash |-> h, sessions |-> SessionsIn(h),
   simulated |-> {d \in SessionsIn(h) : TradesOn(SessionsIn(h), SpoolIn(h), ActionsIn(h), d)},
   spool |-> SpoolIn(h)]

SessionsAsHashed ==
  /\ phase \in {"candles", "actions", "replay"} => sessions = SessionsIn(hashed)
  /\ phase \in {"off", "archives"} => sessions = {}
SimulatedAsData ==
  /\ phase # "replay" => cursor = 0
  /\ simulated = {d \in sessions : d < cursor /\ TradesOn(sessions, spool, ActionsKnown, d)}
ReportsAsHashed == \A a \in reports : a = ReportOf(a.hash)

DataInv ==
  /\ DataTypeOK /\ ChunksApart /\ Hashed /\ TasksInPhase /\ SpoolOfFinished
  /\ SessionsAsHashed /\ SimulatedAsData /\ ReportsAsHashed
-----------------------------------------------------------------------------
LEMMA FileKinds ==
  /\ ArchiveFiles \subseteq Files /\ Candles \subseteq Files /\ ActionsFile \in Files
  /\ ArchiveFiles \cap Candles = {}
  /\ ActionsFile \notin Candles /\ ActionsFile \notin ArchiveFiles
  /\ \A f \in Candles : f[1] = "cash" <=> f \in CashFiles
  /\ \A f \in CashFiles : f = <<"cash", f[2], 0>>
  /\ \A d \in Days : <<"cm", d, 0>> \in ArchiveFiles
  BY DEF ArchiveFiles, CashFiles, FutureFiles, Candles, ActionsFile, Files

LEMMA DaysFinite == Days \subseteq Nat /\ IsFiniteSet(Days)
  BY DataAssumption, FS_Interval DEF Days

\* A run asks for the file of a contract only once.
LEMMA SpecsTyped ==
  ASSUME sessions \subseteq Days
  PROVE  /\ Specs \subseteq Candles
         /\ \A f, g \in Specs : f \in FutureFiles /\ g \in FutureFiles /\ f[2] = g[2] => f = g
<1>1. ASSUME NEW k \in Contracts, SessionsOf(k) # {} PROVE Max(SessionsOf(k)) \in Days
  <2>1. SessionsOf(k) \subseteq Days
    BY DEF SessionsOf
  <2>2. IsFiniteSet(SessionsOf(k)) /\ SessionsOf(k) \subseteq Int
    <3>1. SessionsOf(k) \subseteq Int
      <4>1. \A x \in Days : x \in Int
        BY DaysFinite
      <4>2. QED BY <2>1, <4>1, Zenon
    <3>2. IsFiniteSet(SessionsOf(k))
      BY <2>1, DaysFinite, FS_Subset, Zenon
    <3>3. QED BY <3>1, <3>2
  <2>3. Max(SessionsOf(k)) \in SessionsOf(k)
    BY <1>1, <2>2, MaxIsGreatest
  <2>4. QED BY <2>1, <2>3
<1> DEFINE File(k) == <<IF Expiry[k] < today THEN "expired" ELSE "active", k, Max(SessionsOf(k))>>
<1>2. \A k \in {k \in Contracts : SessionsOf(k) # {}} : File(k) \in FutureFiles /\ File(k)[2] = k
  BY <1>1 DEF FutureFiles
<1>3. Specs = CashFiles \cup {File(k) : k \in {k \in Contracts : SessionsOf(k) # {}}}
  BY DEF Specs
<1>4. CashFiles \cap FutureFiles = {}
  BY DEF CashFiles, FutureFiles
<1> HIDE DEF File
<1>5. QED BY <1>2, <1>3, <1>4 DEF Candles

LEMMA SpecsSame ==
  ASSUME UNCHANGED <<today, sessions>>
  PROVE  Specs' = Specs
<1>1. \A k : SessionsOf(k)' = SessionsOf(k)
  BY DEF SessionsOf
<1>2. QED BY <1>1 DEF Specs

LEMMA ServedTyped ==
  ASSUME NEW f \in Files
  PROVE  /\ Served(f) \in Payloads /\ Served(f).kind = "whole"
         /\ f \in CashFiles =>
              \A d \in Days : d \div ChunkDays # f[2] => Served(f).bars[d] = 0
         /\ NoFile \in Payloads /\ NoFile.kind = "none"
         /\ Torn \in Payloads /\ Torn.kind = "torn"
         /\ \A d \in Days : NoFile.bars[d] = 0 /\ Torn.bars[d] = 0
<1>1. Bars \in Nat /\ Bars - 1 \in Nat
  BY DataAssumption
<1>2. NoBars \in [Days -> Nat] /\ \A d \in Days : NoBars[d] = 0
  BY DEF NoBars
<1> DEFINE b == [d \in Days |->
    IF \/ f \in ArchiveFiles \cup {ActionsFile} \/ d \notin DaysOf(f)
       \/ d > today \/ d \in Holidays
       \/ IsFuture(f) /\ d < ListedFrom[f[2]]
    THEN 0
    ELSE IF d = today THEN 1
    ELSE IF <<f, d>> \in VendorGaps THEN Bars - 1 ELSE Bars]
<1>3. Served(f) = [kind |-> "whole", bars |-> b]
  BY DEF Served, Whole
<1>4. b \in [Days -> Nat]
  BY <1>1
<1>5. ASSUME f \in CashFiles, NEW d \in Days, d \div ChunkDays # f[2] PROVE b[d] = 0
  <2>1. f[1] = "cash"
    BY <1>5 DEF CashFiles
  <2>2. d \notin DaysOf(f)
    BY <1>5, <2>1 DEF DaysOf
  <2>3. QED BY <2>2
<1> HIDE DEF b
<1>6. QED BY <1>2, <1>3, <1>4, <1>5 DEF Payloads, NoFile, Torn

LEMMA DataStart == DataInit => DataInv
<1> SUFFICES ASSUME DataInit PROVE DataInv
  OBVIOUS
<1>1. DataTypeOK
  BY ServedTyped, FileKinds, FS_EmptySet DEF DataInit, DataTypeOK, TaskStates
<1>2. ChunksApart
  BY ServedTyped, FileKinds DEF DataInit, ChunksApart, Candles
<1>3. Hashed
  BY DEF DataInit, Hashed, HashAt
<1>4. TasksInPhase
  BY DEF DataInit, TasksInPhase
<1>5. SpoolOfFinished
  <2>1. Finished = {}
    BY FileKinds DEF DataInit, Finished
  <2>2. QED BY <2>1 DEF DataInit, SpoolOfFinished
<1>6. SessionsAsHashed /\ SimulatedAsData /\ ReportsAsHashed
  BY DEF DataInit, SessionsAsHashed, SimulatedAsData, ReportsAsHashed
<1>7. QED BY <1>1, <1>2, <1>3, <1>4, <1>5, <1>6 DEF DataInv

\* What a worker does with its file concerns no other.
LEMMA PoolLocal ==
  ASSUME DataTypeOK, Hashed, NEW f \in Files,
         \/ Take(f) \/ Acquire(f) \/ Respond(f) \/ FinishWrite(f) \/ NotPublished(f)
         \/ RequestFails(f) \/ RequestRefused(f)
  PROVE  /\ task' \in [Files -> TaskStates] /\ cache' \in [Files -> Payloads]
         /\ hashed' \subseteq Files \X Payloads
         /\ \A g \in Files : g # f => task'[g] = task[g] /\ cache'[g] = cache[g]
         /\ \A g \in Files, c \in Payloads : g # f => (<<g, c>> \in hashed' <=> <<g, c>> \in hashed)
         /\ task[f] \notin {"fetched", "collected"} /\ task'[f] # "collected"
         /\ cache'[f] \in {cache[f], Torn, Served(f)}
         /\ HashAt(f)'
         /\ UNCHANGED <<today, phase, spool, sessions, cursor, simulated, reports>>
<1>1. /\ cache[f] \in Payloads /\ Served(f) \in Payloads /\ Served(f).kind = "whole"
      /\ Torn \in Payloads /\ Torn.kind = "torn"
  BY ServedTyped DEF DataTypeOK
<1>2. /\ task[f] \in {"locking", "calling", "writing", "failed", "absent"} =>
           cache[f].kind # "whole"
      /\ \A c \in Payloads :
           (<<f, c>> \in hashed /\ c.kind = "whole") <=>
             (task[f] \in {"fetched", "collected"} /\ c = cache[f] /\ c.kind = "whole")
  BY DEF Hashed, HashAt
<1>3. UNCHANGED <<today, phase, spool, sessions, cursor, simulated, reports>>
  BY DEF Take, Acquire, Respond, FinishWrite, NotPublished, RequestFails, RequestRefused, PoolOnly
<1>4. ASSUME NEW x \in TaskStates \ {"todo", "fetched", "collected"}, NEW y \in {cache[f], Torn},
             task' = [task EXCEPT ![f] = x], cache' = [cache EXCEPT ![f] = y], hashed' = hashed,
             task[f] \in {"todo", "locking", "calling", "writing"}, y.kind # "whole"
      PROVE  /\ task' \in [Files -> TaskStates] /\ cache' \in [Files -> Payloads]
             /\ hashed' \subseteq Files \X Payloads
             /\ \A g \in Files : g # f => task'[g] = task[g] /\ cache'[g] = cache[g]
             /\ \A g \in Files, c \in Payloads :
                  g # f => (<<g, c>> \in hashed' <=> <<g, c>> \in hashed)
             /\ task[f] \notin {"fetched", "collected"} /\ task'[f] # "collected"
             /\ cache'[f] \in {cache[f], Torn, Served(f)}
             /\ HashAt(f)'
  <2>1. task'[f] = x /\ cache'[f] = y
    BY <1>4 DEF DataTypeOK
  <2>2. y \in Payloads
    BY <1>1
  <2>3. /\ task' \in [Files -> TaskStates] /\ cache' \in [Files -> Payloads]
        /\ \A g \in Files : g # f => task'[g] = task[g] /\ cache'[g] = cache[g]
    BY <1>4, <2>2 DEF DataTypeOK
  <2>4. HashAt(f)'
    BY <1>2, <1>4, <2>1 DEF HashAt
  <2>5. QED BY <1>4, <2>1, <2>3, <2>4 DEF DataTypeOK
<1>5. ASSUME NEW y \in {cache[f], Served(f)},
             task' = [task EXCEPT ![f] = "fetched"], cache' = [cache EXCEPT ![f] = y],
             hashed' = hashed \cup {<<f, y>>}, task[f] \in {"todo", "writing"}
      PROVE  /\ task' \in [Files -> TaskStates] /\ cache' \in [Files -> Payloads]
             /\ hashed' \subseteq Files \X Payloads
             /\ \A g \in Files : g # f => task'[g] = task[g] /\ cache'[g] = cache[g]
             /\ \A g \in Files, c \in Payloads :
                  g # f => (<<g, c>> \in hashed' <=> <<g, c>> \in hashed)
             /\ task[f] \notin {"fetched", "collected"} /\ task'[f] # "collected"
             /\ cache'[f] \in {cache[f], Torn, Served(f)}
             /\ HashAt(f)'
  <2>1. task'[f] = "fetched" /\ cache'[f] = y
    BY <1>5 DEF DataTypeOK
  <2>2. y \in Payloads
    BY <1>1
  <2>3. /\ task' \in [Files -> TaskStates] /\ cache' \in [Files -> Payloads]
        /\ \A g \in Files : g # f => task'[g] = task[g] /\ cache'[g] = cache[g]
    BY <1>5, <2>2 DEF DataTypeOK, TaskStates
  <2>4. \A g \in Files, c \in Payloads : <<g, c>> \in hashed' <=>
          <<g, c>> \in hashed \/ (g = f /\ c = y)
    BY <1>5
  <2>5. HashAt(f)'
    BY <1>2, <1>5, <2>1, <2>4 DEF HashAt
  <2>6. hashed' \subseteq Files \X Payloads
    BY <1>5, <2>2 DEF DataTypeOK
  <2>7. QED BY <1>5, <2>1, <2>3, <2>4, <2>5, <2>6
<1>6. cache = [cache EXCEPT ![f] = cache[f]] /\ task = [task EXCEPT ![f] = task[f]]
  BY DEF DataTypeOK
<1>7. CASE Take(f)
  <2>1. task[f] = "todo" /\ UNCHANGED cache
    BY <1>7 DEF Take
  <2>2. CASE cache[f].kind # "none"
    <3>1. task' = [task EXCEPT ![f] = "fetched"] /\ hashed' = hashed \cup {<<f, cache[f]>>}
      BY <1>7, <2>2 DEF Take, SetTask
    <3>2. QED BY <1>3, <1>5, <1>6, <2>1, <3>1
  <2>3. CASE cache[f].kind = "none"
    <3>1. /\ \E x \in {"calling", "locking"} : task' = [task EXCEPT ![f] = x]
          /\ hashed' = hashed
      BY <1>7, <2>3 DEF Take, SetTask
    <3>2. {"calling", "locking"} \subseteq TaskStates \ {"todo", "fetched", "collected"}
      BY DEF TaskStates
    <3>3. QED BY <1>3, <1>4, <1>6, <2>1, <2>3, <3>1, <3>2
  <2>4. QED BY <2>2, <2>3
<1>8. CASE Acquire(f) \/ NotPublished(f) \/ RequestRefused(f)
  <2>1. /\ UNCHANGED <<cache, hashed>> /\ task[f] \in {"locking", "calling"}
        /\ \E x \in {"calling", "absent", "failed"} : task' = [task EXCEPT ![f] = x]
    BY <1>8 DEF Acquire, NotPublished, RequestRefused, SetTask
  <2>2. {"calling", "absent", "failed"} \subseteq TaskStates \ {"todo", "fetched", "collected"}
    BY DEF TaskStates
  <2>3. QED BY <1>2, <1>3, <1>4, <1>6, <2>1, <2>2
<1>9. CASE RequestFails(f)
  <2>1. /\ UNCHANGED <<cache, hashed>> /\ task[f] = "calling"
        /\ \E x \in {"calling", "failed"} : task' = [task EXCEPT ![f] = x]
    BY <1>6, <1>9 DEF RequestFails, SetTask
  <2>2. {"calling", "failed"} \subseteq TaskStates \ {"todo", "fetched", "collected"}
    BY DEF TaskStates
  <2>3. QED BY <1>2, <1>3, <1>4, <1>6, <2>1, <2>2
<1>10. CASE Respond(f)
  <2>1. /\ UNCHANGED hashed /\ task[f] = "calling" /\ cache' = [cache EXCEPT ![f] = Torn]
        /\ task' = [task EXCEPT ![f] = "writing"]
    BY <1>10 DEF Respond, SetTask
  <2>2. "writing" \in TaskStates \ {"todo", "fetched", "collected"}
    BY DEF TaskStates
  <2>3. QED BY <1>1, <1>3, <1>4, <2>1, <2>2
<1>11. CASE FinishWrite(f)
  <2>1. /\ task[f] = "writing" /\ cache' = [cache EXCEPT ![f] = Served(f)]
        /\ hashed' = hashed \cup {<<f, Served(f)>>} /\ task' = [task EXCEPT ![f] = "fetched"]
    BY <1>11 DEF FinishWrite, SetTask
  <2>2. QED BY <1>3, <1>5, <2>1
<1>12. QED BY <1>7, <1>8, <1>9, <1>10, <1>11

LEMMA WantedTyped ==
  ASSUME DataTypeOK, NEW f \in Wanted
  PROVE  /\ f \in Files
         /\ \/ phase = "archives" /\ f \in ArchiveFiles
            \/ phase = "candles" /\ f \in Specs
            \/ phase = "actions" /\ f = ActionsFile
<1>1. Specs \subseteq Files
  BY SpecsTyped, FileKinds DEF DataTypeOK
<1>2. /\ phase = "archives" => Wanted = ArchiveFiles
      /\ phase = "candles" => Wanted = Specs
      /\ phase = "actions" => Wanted = {ActionsFile}
      /\ phase \in {"off", "replay"} => Wanted = {}
  BY DEF Wanted
<1>3. QED BY <1>1, <1>2, FileKinds DEF DataTypeOK

\* The sessions in the hash are those of the archives.
LEMMA SessionsSame ==
  ASSUME \A d \in Days, c \in Payloads : c.kind = "whole" =>
           (<<<<"cm", d, 0>>, c>> \in hashed' <=> <<<<"cm", d, 0>>, c>> \in hashed)
  PROVE  SessionsIn(hashed') = SessionsIn(hashed)
  BY DEF SessionsIn

\* Nothing is simulated before the replay.
LEMMA NothingSimulated ==
  ASSUME DataTypeOK, SimulatedAsData, phase # "replay", simulated' = simulated, cursor' = cursor,
         sessions' \subseteq Days
  PROVE  SimulatedAsData'
<1>1. cursor = 0 /\ \A d \in sessions \cup sessions' : ~(d < cursor)
  BY DaysFinite DEF SimulatedAsData, DataTypeOK
<1>2. simulated = {}
  BY <1>1 DEF SimulatedAsData
<1>3. QED BY <1>1, <1>2 DEF SimulatedAsData

LEMMA PoolKeeps ==
  ASSUME DataInv, NEW f \in Wanted,
         \/ Take(f) \/ Acquire(f) \/ Respond(f) \/ FinishWrite(f) \/ NotPublished(f)
         \/ RequestFails(f) \/ RequestRefused(f)
  PROVE  DataInv'
<1>1. /\ f \in Files
      /\ \/ phase = "archives" /\ f \in ArchiveFiles
         \/ phase = "candles" /\ f \in Specs
         \/ phase = "actions" /\ f = ActionsFile
  BY WantedTyped DEF DataInv
<1>2. /\ task' \in [Files -> TaskStates] /\ cache' \in [Files -> Payloads]
      /\ hashed' \subseteq Files \X Payloads
      /\ \A g \in Files : g # f => task'[g] = task[g] /\ cache'[g] = cache[g]
      /\ \A g \in Files, c \in Payloads : g # f => (<<g, c>> \in hashed' <=> <<g, c>> \in hashed)
      /\ task[f] \notin {"fetched", "collected"} /\ task'[f] # "collected"
      /\ cache'[f] \in {cache[f], Torn, Served(f)}
      /\ HashAt(f)'
      /\ UNCHANGED <<today, phase, spool, sessions, cursor, simulated, reports>>
  BY <1>1, PoolLocal DEF DataInv
<1>3. DataTypeOK'
  BY <1>2 DEF DataInv, DataTypeOK
<1>4. ChunksApart'
  <2>1. ASSUME NEW g \in CashFiles, NEW d \in Days, d \div ChunkDays # g[2]
        PROVE  cache'[g].bars[d] = 0
    <3>1. g \in Files
      BY FileKinds DEF Candles
    <3>2. cache[g].bars[d] = 0
      BY <2>1 DEF DataInv, ChunksApart
    <3>3. Served(g).bars[d] = 0 /\ Torn.bars[d] = 0
      BY <2>1, <3>1, ServedTyped
    <3>4. QED BY <1>2, <3>1, <3>2, <3>3
  <2>2. QED BY <2>1 DEF ChunksApart
<1>5. Hashed'
  <2>1. ASSUME NEW g \in Files, g # f PROVE HashAt(g)'
    <3>1. HashAt(g)
      BY DEF DataInv, Hashed
    <3>2. QED BY <1>2, <2>1, <3>1 DEF HashAt
  <2>2. QED BY <1>2, <2>1 DEF Hashed
<1>6. TasksInPhase'
  <2>1. Specs' = Specs
    BY <1>2, SpecsSame
  <2>2. QED BY <1>1, <1>2, <2>1, FileKinds DEF DataInv, TasksInPhase
<1>7. SpoolOfFinished'
  <2>1. Finished' = Finished /\ \A g \in Finished : cache'[g] = cache[g]
    BY <1>1, <1>2, FileKinds DEF Finished
  <2>2. QED BY <1>2, <2>1 DEF DataInv, SpoolOfFinished
<1>8. SessionsAsHashed'
  <2>1. CASE phase = "archives"
    BY <1>2, <2>1 DEF DataInv, SessionsAsHashed
  <2>2. CASE phase # "archives"
    <3>1. f \notin ArchiveFiles
      BY <1>1, <2>2, SpecsTyped, FileKinds DEF DataInv, DataTypeOK
    <3>2. \A d \in Days : <<"cm", d, 0>> \in Files /\ <<"cm", d, 0>> # f
      BY <3>1, FileKinds
    <3>3. SessionsIn(hashed') = SessionsIn(hashed)
      BY <1>2, <3>2, SessionsSame
    <3>4. QED BY <1>2, <3>3 DEF DataInv, SessionsAsHashed
  <2>3. QED BY <2>1, <2>2
<1>9. SimulatedAsData'
  BY <1>1, <1>2, NothingSimulated DEF DataInv, DataTypeOK
<1>10. ReportsAsHashed'
  BY <1>2 DEF DataInv, ReportsAsHashed
<1>11. QED BY <1>3, <1>4, <1>5, <1>6, <1>7, <1>8, <1>9, <1>10 DEF DataInv

\* Hashing a failure adds nothing that can be used.
LEMMA FailureHashed ==
  ASSUME DataTypeOK, NEW f \in Files,
         hashed' = hashed \/ hashed' = hashed \cup {<<f, NoFile>>}
  PROVE  /\ hashed' \subseteq Files \X Payloads
         /\ \A g \in Files, c \in Payloads :
              c.kind = "whole" => (<<g, c>> \in hashed' <=> <<g, c>> \in hashed)
         /\ SessionsIn(hashed') = SessionsIn(hashed)
<1>1. NoFile \in Payloads /\ NoFile.kind = "none"
  BY ServedTyped
<1>2. \A g \in Files, c \in Payloads :
        c.kind = "whole" => (<<g, c>> \in hashed' <=> <<g, c>> \in hashed)
  BY <1>1
<1>3. SessionsIn(hashed') = SessionsIn(hashed)
  BY <1>2, SessionsSame, FileKinds
<1>4. QED BY <1>1, <1>2, <1>3 DEF DataTypeOK

LEMMA CollectKeeps ==
  ASSUME DataInv, NEW f \in Wanted, Collect(f)
  PROVE  DataInv'
<1>1. phase = "candles" /\ f \in Specs /\ f \in Files
  BY WantedTyped DEF DataInv, Collect
<1>2. f \in Candles /\ f \notin ArchiveFiles
  BY <1>1, SpecsTyped, FileKinds DEF DataInv, DataTypeOK
<1>3. /\ task[f] \in {"fetched", "failed"} /\ task' = [task EXCEPT ![f] = "collected"]
      /\ hashed' = hashed \/ hashed' = hashed \cup {<<f, NoFile>>}
      /\ IF task[f] = "fetched" /\ cache[f].kind = "whole"
         THEN spool' = spool \cup {<<f, cache[f].bars>>} ELSE spool' = spool
      /\ UNCHANGED <<today, cache, phase, sessions, cursor, simulated, reports>>
  BY DEF Collect, SetTask, MainOnly
<1>4. /\ hashed' \subseteq Files \X Payloads
      /\ \A g \in Files, c \in Payloads :
           c.kind = "whole" => (<<g, c>> \in hashed' <=> <<g, c>> \in hashed)
      /\ SessionsIn(hashed') = SessionsIn(hashed)
  BY <1>1, <1>3, FailureHashed DEF DataInv
<1>5. /\ task' \in [Files -> TaskStates] /\ task'[f] = "collected"
      /\ \A g \in Files : g # f => task'[g] = task[g]
  BY <1>1, <1>3 DEF DataInv, DataTypeOK, TaskStates
<1>6. DataTypeOK'
  <2>1. IsFiniteSet(spool')
    <3>1. IsFiniteSet(spool)
      BY DEF DataInv, DataTypeOK
    <3>2. IsFiniteSet(spool \cup {<<f, cache[f].bars>>})
      BY <3>1, FS_AddElement
    <3>3. spool' = spool \/ spool' = spool \cup {<<f, cache[f].bars>>}
      BY <1>3
    <3>4. QED BY <3>1, <3>2, <3>3
  <2>2. QED BY <1>3, <1>4, <1>5, <2>1 DEF DataInv, DataTypeOK
<1>7. ChunksApart'
  BY <1>3 DEF DataInv, ChunksApart
<1>8. HashAt(f)
  BY <1>1 DEF DataInv, Hashed
<1>9. Hashed'
  <2>1. ASSUME NEW g \in Files, g # f PROVE HashAt(g)'
    <3>1. HashAt(g)
      BY DEF DataInv, Hashed
    <3>2. QED BY <1>3, <1>4, <1>5, <2>1, <3>1 DEF HashAt
  <2>2. HashAt(f)'
    <3>1. task[f] = "failed" => cache[f].kind # "whole"
      BY <1>8 DEF HashAt
    <3>2. \A c \in Payloads :
            (<<f, c>> \in hashed' /\ c.kind = "whole") <=> (c = cache[f] /\ c.kind = "whole")
      BY <1>1, <1>3, <1>4, <1>8, <3>1 DEF HashAt
    <3>3. QED BY <1>3, <1>5, <3>2 DEF HashAt
  <2>3. QED BY <2>1, <2>2 DEF Hashed
<1>10. TasksInPhase'
  <2>1. Specs' = Specs
    BY <1>3, SpecsSame
  <2>2. QED BY <1>1, <1>3, <1>5, <2>1 DEF DataInv, TasksInPhase
<1>11. SpoolOfFinished'
  <2>1. CASE cache[f].kind = "whole"
    <3>1. task[f] = "fetched"
      BY <1>3, <1>8, <2>1 DEF HashAt
    <3>2. Finished' = Finished \cup {f}
      BY <1>2, <1>3, <1>5, <2>1, FileKinds DEF Finished
    <3>3. QED BY <1>3, <2>1, <3>1, <3>2 DEF DataInv, SpoolOfFinished
  <2>2. CASE cache[f].kind # "whole"
    <3>1. Finished' = Finished
      BY <1>2, <1>3, <1>5, <2>2, FileKinds DEF Finished
    <3>2. QED BY <1>3, <2>2, <3>1 DEF DataInv, SpoolOfFinished
  <2>3. QED BY <2>1, <2>2
<1>12. SessionsAsHashed'
  BY <1>3, <1>4 DEF DataInv, SessionsAsHashed
<1>13. SimulatedAsData'
  BY <1>1, <1>3, NothingSimulated DEF DataInv, DataTypeOK
<1>14. ReportsAsHashed'
  BY <1>3 DEF DataInv, ReportsAsHashed
<1>15. QED BY <1>6, <1>7, <1>9, <1>10, <1>11, <1>12, <1>13, <1>14 DEF DataInv

\* The main thread goes to a later phase, before the replay has begun.
LEMMA PhaseKeeps ==
  ASSUME DataInv, phase # "replay", UNCHANGED <<today, cache, task, spool, simulated, cursor, reports>>,
         phase' \in {"off", "archives", "candles", "actions", "replay"}, sessions' \subseteq Days,
         hashed' \subseteq Files \X Payloads,
         \A g \in Files, c \in Payloads :
           c.kind = "whole" => (<<g, c>> \in hashed' <=> <<g, c>> \in hashed),
         TasksInPhase', SessionsAsHashed'
  PROVE  DataInv'
<1>1. DataTypeOK'
  BY DEF DataInv, DataTypeOK
<1>2. ChunksApart'
  BY DEF DataInv, ChunksApart
<1>3. Hashed'
  <2>1. ASSUME NEW g \in Files PROVE HashAt(g)'
    <3>1. HashAt(g)
      BY DEF DataInv, Hashed
    <3>2. QED BY <3>1 DEF HashAt
  <2>2. QED BY <2>1 DEF Hashed
<1>4. SpoolOfFinished'
  <2>1. Finished' = Finished
    BY DEF Finished
  <2>2. QED BY <2>1 DEF DataInv, SpoolOfFinished
<1>5. SimulatedAsData'
  BY NothingSimulated DEF DataInv
<1>6. ReportsAsHashed'
  BY DEF DataInv, ReportsAsHashed
<1>7. QED BY <1>1, <1>2, <1>3, <1>4, <1>5, <1>6 DEF DataInv

LEMMA ReadArchivesKeeps == DataInv /\ ReadArchives => DataInv'
<1> SUFFICES ASSUME DataInv, ReadArchives PROVE DataInv'
  OBVIOUS
<1>1. /\ phase = "archives" /\ phase' = "candles" /\ sessions' = {d \in Days : Has("cm", d)}
      /\ ArchivesDone /\ ArchivesUsable
      /\ UNCHANGED <<today, cache, task, hashed, spool, simulated, cursor, reports>>
  BY DEF ReadArchives, MainOnly
<1>2. TasksInPhase'
  BY <1>1 DEF DataInv, TasksInPhase
<1>3. SessionsAsHashed'
  <2>1. ASSUME NEW d \in Days
        PROVE  Has("cm", d) <=>
                 \E c \in Payloads : <<<<"cm", d, 0>>, c>> \in hashed /\ c.kind = "whole"
    <3> DEFINE f == <<"cm", d, 0>>
    <3>1. f \in ArchiveFiles /\ f \in Files
      BY FileKinds
    <3>2. HashAt(f) /\ cache[f] \in Payloads
      BY <3>1 DEF DataInv, Hashed, DataTypeOK
    <3>3. task[f] \in {"fetched", "absent", "failed"}
      BY <1>1, <3>1 DEF ArchivesDone
    <3>4. task[f] = "fetched" => cache[f].kind = "whole"
      BY <1>1, <3>1 DEF ArchivesUsable
    <3>5. Has("cm", d) <=> task[f] = "fetched"
      BY DEF Has
    <3> HIDE DEF f
    <3>6. Has("cm", d) <=> \E c \in Payloads : <<f, c>> \in hashed /\ c.kind = "whole"
      BY <3>2, <3>3, <3>4, <3>5 DEF HashAt
    <3>7. QED BY <3>6 DEF f
  <2>2. sessions' = SessionsIn(hashed')
    BY <1>1, <2>1 DEF SessionsIn
  <2>3. QED BY <1>1, <2>2 DEF SessionsAsHashed
<1>4. QED BY <1>1, <1>2, <1>3, PhaseKeeps DEF DataInv, DataTypeOK

LEMMA CandlesDoneKeeps == DataInv /\ CandlesDone => DataInv'
<1> SUFFICES ASSUME DataInv, CandlesDone PROVE DataInv'
  OBVIOUS
<1>1. /\ phase = "candles" /\ phase' = "actions" /\ \A f \in Specs : task[f] = "collected"
      /\ UNCHANGED <<today, cache, task, hashed, spool, sessions, simulated, cursor, reports>>
  BY DEF CandlesDone, MainOnly
<1>2. TasksInPhase'
  <2>1. Specs' = Specs
    BY <1>1, SpecsSame
  <2>2. Specs \subseteq Candles
    BY SpecsTyped DEF DataInv, DataTypeOK
  <2>3. \A f \in Files \ (ArchiveFiles \cup Specs) : task[f] = "todo"
    BY <1>1 DEF DataInv, TasksInPhase
  <2>4. QED BY <1>1, <2>1, <2>2, <2>3, FileKinds DEF TasksInPhase
<1>3. SessionsAsHashed'
  BY <1>1 DEF DataInv, SessionsAsHashed
<1>4. QED BY <1>1, <1>2, <1>3, PhaseKeeps DEF DataInv, DataTypeOK

LEMMA ActionsDoneKeeps == DataInv /\ ActionsDone => DataInv'
<1> SUFFICES ASSUME DataInv, ActionsDone PROVE DataInv'
  OBVIOUS
<1>1. /\ phase = "actions" /\ phase' = "replay"
      /\ hashed' = hashed \/ hashed' = hashed \cup {<<ActionsFile, NoFile>>}
      /\ UNCHANGED <<today, cache, task, spool, sessions, simulated, cursor, reports>>
  BY DEF ActionsDone, MainOnly
<1>2. /\ hashed' \subseteq Files \X Payloads
      /\ \A g \in Files, c \in Payloads :
           c.kind = "whole" => (<<g, c>> \in hashed' <=> <<g, c>> \in hashed)
      /\ SessionsIn(hashed') = SessionsIn(hashed)
  BY <1>1, FailureHashed, FileKinds DEF DataInv
<1>3. TasksInPhase'
  <2>1. Specs' = Specs
    BY <1>1, SpecsSame
  <2>2. QED BY <1>1, <2>1 DEF DataInv, TasksInPhase
<1>4. SessionsAsHashed'
  BY <1>1, <1>2 DEF DataInv, SessionsAsHashed
<1>5. QED BY <1>1, <1>2, <1>3, <1>4, PhaseKeeps DEF DataInv, DataTypeOK

\* A session of the replay, in the order of the sessions.
LEMMA CompleteIsComplete ==
  ASSUME NEW k, NEW d
  PROVE  DataComplete(k, d) <=> ActionsKnown /\ CompleteIn(sessions, spool, k, d)
  BY DEF DataComplete, CompleteIn, HasPriorBar, Reconciles, CashBars, FutureBars, CashIn,
         FutureIn, Previous, PreviousIn

LEMMA RunSessionKeeps ==
  ASSUME DataInv, NEW d \in sessions, RunSession(d)
  PROVE  DataInv'
<1>1. /\ phase = "replay" /\ d >= cursor /\ \A e \in sessions : e >= cursor => d <= e
      /\ cursor' = d + 1
      /\ UNCHANGED <<today, cache, phase, task, hashed, spool, sessions, reports>>
  BY DEF RunSession, MainOnly
<1>2. IF TradesOn(sessions, spool, ActionsKnown, d)
      THEN simulated' = simulated \cup {d} ELSE simulated' = simulated
  <2>1. CASE d = Min(sessions) \/ SelectedContract(d) = {}
    BY <2>1 DEF RunSession, TradesOn
  <2>2. CASE ~(d = Min(sessions) \/ SelectedContract(d) = {})
    <3>1. TradesOn(sessions, spool, ActionsKnown, d) <=> DataComplete(Nearest(d), d)
      BY <2>2, CompleteIsComplete DEF TradesOn
    <3>2. IF DataComplete(Nearest(d), d)
          THEN simulated' = simulated \cup {d} ELSE simulated' = simulated
      BY <2>2 DEF RunSession, Nearest
    <3>3. QED BY <3>1, <3>2
  <2>3. QED BY <2>1, <2>2
<1>3. sessions \subseteq Nat /\ cursor \in Nat /\ d \in Nat
  BY DaysFinite DEF DataInv, DataTypeOK
<1>4. DataTypeOK'
  BY <1>1, <1>3 DEF DataInv, DataTypeOK
<1>5. ChunksApart' /\ ReportsAsHashed'
  BY <1>1 DEF DataInv, ChunksApart, ReportsAsHashed
<1>6. Hashed'
  BY <1>1 DEF DataInv, Hashed, HashAt
<1>7. TasksInPhase'
  <2>1. Specs' = Specs
    BY <1>1, SpecsSame
  <2>2. QED BY <1>1, <2>1 DEF DataInv, TasksInPhase
<1>8. SpoolOfFinished'
  <2>1. Finished' = Finished
    BY <1>1 DEF Finished
  <2>2. QED BY <1>1, <2>1 DEF DataInv, SpoolOfFinished
<1>9. SessionsAsHashed'
  BY <1>1 DEF DataInv, SessionsAsHashed
<1>10. SimulatedAsData'
  <2> DEFINE Good(e) == TradesOn(sessions, spool, ActionsKnown, e)
  <2>1. ASSUME NEW e \in sessions PROVE e < d + 1 <=> e < cursor \/ e = d
    <3>1. e \in Nat /\ (e >= cursor => d <= e)
      BY <1>1, <1>3
    <3>2. QED BY <1>1, <1>3, <3>1
  <2>2. simulated = {e \in sessions : e < cursor /\ Good(e)}
    BY DEF DataInv, SimulatedAsData
  <2>3. IF Good(d) THEN simulated' = simulated \cup {d} ELSE simulated' = simulated
    BY <1>2
  <2>4. \A e \in sessions : TradesOn(sessions, spool, ActionsKnown, e)' <=> Good(e)
    BY <1>1 DEF ActionsKnown, TradesOn, Nearest, SelectedContract
  <2> HIDE DEF Good
  <2>5. simulated' = {e \in sessions : e < d + 1 /\ Good(e)}
    BY <2>1, <2>2, <2>3
  <2>6. QED BY <1>1, <2>4, <2>5 DEF SimulatedAsData
<1>11. QED BY <1>4, <1>5, <1>6, <1>7, <1>8, <1>9, <1>10 DEF DataInv

\* What ProcessGone leaves is as at the start, but for the cache.
LEMMA GoneKeeps ==
  ASSUME DataInv, UNCHANGED <<today, cache>>, ProcessGone, ReportsAsHashed'
  PROVE  DataInv'
<1>1. /\ phase' = "off" /\ task' = [f \in Files |-> "todo"] /\ hashed' = {} /\ spool' = {}
      /\ sessions' = {} /\ cursor' = 0 /\ simulated' = {} /\ cache' = cache
  BY DEF ProcessGone
<1>2. DataTypeOK'
  BY <1>1, FS_EmptySet DEF DataInv, DataTypeOK, TaskStates
<1>3. ChunksApart'
  BY <1>1 DEF DataInv, ChunksApart
<1>4. Hashed'
  BY <1>1 DEF Hashed, HashAt
<1>5. TasksInPhase'
  BY <1>1 DEF TasksInPhase
<1>6. SpoolOfFinished'
  <2>1. Finished' = {}
    BY <1>1, FileKinds DEF Finished
  <2>2. QED BY <1>1, <2>1 DEF SpoolOfFinished
<1>7. SessionsAsHashed' /\ SimulatedAsData'
  BY <1>1 DEF SessionsAsHashed, SimulatedAsData
<1>8. QED BY <1>2, <1>3, <1>4, <1>5, <1>6, <1>7 DEF DataInv

\* When the replay is over, the run is what its hash says.
LEMMA RunAsHashed ==
  ASSUME DataInv, phase = "replay", \A d \in sessions : d < cursor
  PROVE  /\ sessions = SessionsIn(hashed) /\ spool = SpoolIn(hashed)
         /\ ActionsKnown <=> ActionsIn(hashed)
         /\ simulated = {d \in sessions : TradesOn(sessions, spool, ActionsKnown, d)}
<1>1. sessions = SessionsIn(hashed)
  BY DEF DataInv, SessionsAsHashed
<1>2. simulated = {d \in sessions : TradesOn(sessions, spool, ActionsKnown, d)}
  BY DEF DataInv, SimulatedAsData
<1>3. ActionsKnown <=> ActionsIn(hashed)
  <2>1. HashAt(ActionsFile) /\ cache[ActionsFile] \in Payloads /\ task[ActionsFile] # "collected"
    BY FileKinds DEF DataInv, Hashed, DataTypeOK, TasksInPhase
  <2>2. QED BY <2>1 DEF HashAt, ActionsKnown, ActionsIn
<1>4. \A f \in Candles, c \in Payloads :
        (<<f, c>> \in hashed /\ c.kind = "whole") <=> (f \in Finished /\ c = cache[f])
  <2>1. ASSUME NEW f \in Candles PROVE HashAt(f) /\ task[f] \in {"todo", "collected"}
    BY FileKinds DEF DataInv, Hashed, TasksInPhase
  <2>2. QED BY <2>1 DEF HashAt, Finished
<1>5. \A f \in Finished : cache[f] \in Payloads /\ f \in Candles
  BY FileKinds DEF DataInv, DataTypeOK, Finished
<1>6. hashed \subseteq Files \X Payloads
  BY DEF DataInv, DataTypeOK
<1>7. WholeIn(hashed) = {<<f, cache[f]>> : f \in Finished}
  <2>1. ASSUME NEW i \in WholeIn(hashed) PROVE i \in {<<f, cache[f]>> : f \in Finished}
    <3>1. /\ i \in hashed /\ i = <<i[1], i[2]>> /\ i[2] \in Payloads
          /\ i[1] \in Candles /\ i[2].kind = "whole"
      BY <1>6 DEF WholeIn
    <3>2. i[1] \in Finished /\ i[2] = cache[i[1]]
      BY <1>4, <3>1
    <3>3. QED BY <3>1, <3>2
  <2>2. ASSUME NEW f \in Finished PROVE <<f, cache[f]>> \in WholeIn(hashed)
    BY <1>4, <1>5 DEF WholeIn
  <2>3. QED BY <2>1, <2>2
<1>8. spool = SpoolIn(hashed)
  <2>1. spool = {<<f, cache[f].bars>> : f \in Finished}
    BY DEF DataInv, SpoolOfFinished
  <2>2. SpoolIn(hashed) = {<<i[1], i[2].bars>> : i \in {<<f, cache[f]>> : f \in Finished}}
    BY <1>7 DEF SpoolIn
  <2>3. ASSUME NEW f \in Finished PROVE <<f, cache[f].bars>> \in SpoolIn(hashed)
    <3>1. <<f, cache[f]>> \in {<<g, cache[g]>> : g \in Finished}
      OBVIOUS
    <3>2. <<f, cache[f]>>[1] = f /\ <<f, cache[f]>>[2] = cache[f]
      OBVIOUS
    <3>3. QED BY <2>2, <3>1, <3>2
  <2>4. ASSUME NEW x \in SpoolIn(hashed) PROVE x \in spool
    <3>1. PICK f \in Finished : x = <<<<f, cache[f]>>[1], <<f, cache[f]>>[2].bars>>
      BY <2>2
    <3>2. x = <<f, cache[f].bars>>
      BY <3>1
    <3>3. QED BY <2>1, <3>2
  <2>5. QED BY <2>1, <2>3, <2>4
<1>9. QED BY <1>1, <1>2, <1>3, <1>8

LEMMA ReportKeeps == DataInv /\ Report => DataInv'
<1> SUFFICES ASSUME DataInv, Report PROVE DataInv'
  OBVIOUS
<1> DEFINE new == [hash |-> hashed, sessions |-> sessions, simulated |-> simulated,
                   spool |-> spool]
<1>1. /\ phase = "replay" /\ \A d \in sessions : d < cursor
      /\ reports' = reports \cup {new} /\ ProcessGone /\ UNCHANGED <<today, cache>>
  BY DEF Report, DatasetHash
<1>2. new = ReportOf(hashed)
  <2>1. /\ sessions = SessionsIn(hashed) /\ spool = SpoolIn(hashed)
        /\ ActionsKnown <=> ActionsIn(hashed)
        /\ simulated = {d \in sessions : TradesOn(sessions, spool, ActionsKnown, d)}
    BY <1>1, RunAsHashed
  <2>2. simulated = {d \in SessionsIn(hashed) :
                       TradesOn(SessionsIn(hashed), SpoolIn(hashed), ActionsIn(hashed), d)}
    BY <2>1 DEF TradesOn
  <2>3. QED BY <2>1, <2>2 DEF ReportOf
<1>3. new.hash = hashed
  OBVIOUS
<1> HIDE DEF new
<1>4. ASSUME NEW a \in reports' PROVE a = ReportOf(a.hash)'
  <2>1. ReportOf(a.hash)' = ReportOf(a.hash)
    BY DEF ReportOf, SessionsIn, SpoolIn, WholeIn, ActionsIn, TradesOn, Nearest, SelectedContract
  <2>2. CASE a \in reports
    BY <2>1, <2>2 DEF DataInv, ReportsAsHashed
  <2>3. CASE a = new
    BY <1>2, <1>3, <2>1, <2>3
  <2>4. QED BY <1>1, <2>2, <2>3
<1>5. ReportsAsHashed'
  BY <1>4 DEF ReportsAsHashed
<1>6. QED BY <1>1, <1>5, GoneKeeps

\* Between the runs.
LEMMA OffKeeps ==
  ASSUME DataInv, StartRun \/ ClearCache \/ NextCalendarDay \/ UNCHANGED dataVars
  PROVE  DataInv'
<1>1. UNCHANGED <<task, hashed, spool, sessions, cursor, simulated, reports>>
  BY DEF StartRun, ClearCache, NextCalendarDay, dataVars, work
<1>2. CASE UNCHANGED dataVars
  <2>1. UNCHANGED <<today, cache, phase>>
    BY <1>2 DEF dataVars, work
  <2>2. DataTypeOK' /\ ChunksApart' /\ SessionsAsHashed' /\ SimulatedAsData' /\ ReportsAsHashed'
    BY <1>1, <2>1 DEF DataInv, DataTypeOK, ChunksApart, SessionsAsHashed, SimulatedAsData,
      ReportsAsHashed, TradesOn, ActionsKnown, Nearest, SelectedContract
  <2>3. Hashed' /\ SpoolOfFinished'
    BY <1>1, <2>1 DEF DataInv, Hashed, HashAt, SpoolOfFinished, Finished
  <2>4. TasksInPhase'
    <3>1. Specs' = Specs
      BY <1>1, <2>1, SpecsSame
    <3>2. QED BY <1>1, <2>1, <3>1 DEF DataInv, TasksInPhase
  <2>5. QED BY <2>2, <2>3, <2>4 DEF DataInv
<1>3. CASE StartRun \/ ClearCache \/ NextCalendarDay
  <2>1. /\ phase = "off" /\ phase' \in {"off", "archives"}
        /\ cache' = cache \/ (phase' = "off" /\ cache' = [f \in Files |-> NoFile])
    BY <1>3 DEF StartRun, ClearCache, NextCalendarDay, work
  <2>2. sessions = {} /\ simulated = {} /\ cursor = 0
    BY <2>1 DEF DataInv, SessionsAsHashed, SimulatedAsData
  <2>3. DataTypeOK'
    BY <1>1, <2>1, ServedTyped DEF DataInv, DataTypeOK
  <2>4. ChunksApart'
    <3>1. \A f \in CashFiles : f \in Files
      BY FileKinds DEF Candles
    <3>2. \A d \in Days : NoFile.bars[d] = 0
      BY <3>1, ServedTyped, FileKinds
    <3>3. QED BY <2>1, <3>1, <3>2 DEF DataInv, ChunksApart
  <2>5. Hashed'
    <3>1. CASE cache' = cache
      BY <1>1, <3>1 DEF DataInv, Hashed, HashAt
    <3>2. CASE cache' = [f \in Files |-> NoFile]
      <4>1. hashed' = {} /\ \A f \in Files : cache'[f].kind # "whole"
        BY <1>1, <2>1, <3>2, ServedTyped DEF DataInv, TasksInPhase
      <4>2. QED BY <4>1 DEF Hashed, HashAt
    <3>3. QED BY <2>1, <3>1, <3>2
  <2>6. TasksInPhase'
    BY <1>1, <2>1 DEF DataInv, TasksInPhase
  <2>7. SpoolOfFinished'
    <3>1. Finished = {} /\ Finished' = {}
      BY <1>1, <2>1, FileKinds DEF DataInv, TasksInPhase, Finished
    <3>2. QED BY <1>1, <3>1 DEF DataInv, SpoolOfFinished
  <2>8. SessionsAsHashed' /\ SimulatedAsData'
    BY <1>1, <2>1, <2>2 DEF SessionsAsHashed, SimulatedAsData
  <2>9. ReportsAsHashed'
    BY <1>1 DEF DataInv, ReportsAsHashed
  <2>10. QED BY <2>3, <2>4, <2>5, <2>6, <2>7, <2>8, <2>9 DEF DataInv
<1>4. QED BY <1>2, <1>3

LEMMA DataStep == DataInv /\ [DataNext]_dataVars => DataInv'
<1> SUFFICES ASSUME DataInv, [DataNext]_dataVars PROVE DataInv'
  OBVIOUS
<1>1. CASE StartRun \/ ClearCache \/ NextCalendarDay \/ UNCHANGED dataVars
  BY <1>1, OffKeeps
<1>2. ASSUME NEW f \in Wanted, PoolStep(f) PROVE DataInv'
  BY <1>2, PoolKeeps, CollectKeeps DEF PoolStep
<1>3. CASE ReadArchives \/ CandlesDone \/ ActionsDone \/ Report
  BY <1>3, ReadArchivesKeeps, CandlesDoneKeeps, ActionsDoneKeeps, ReportKeeps
<1>4. ASSUME NEW d \in sessions, RunSession(d) PROVE DataInv'
  BY <1>4, RunSessionKeeps
<1>5. CASE RunAborts \/ KillRun
  <2>1. UNCHANGED <<today, cache, reports>> /\ ProcessGone
    BY <1>5 DEF RunAborts, KillRun
  <2>2. ReportsAsHashed'
    BY <2>1 DEF DataInv, ReportsAsHashed
  <2>3. QED BY <2>1, <2>2, GoneKeeps
<1>6. QED BY <1>1, <1>2, <1>3, <1>4, <1>5 DEF DataNext, RunStep

\* The hash tells which files were whole, what was in them, and of which days
\* there are archives; the replay computes everything else from that.  So runs
\* with one dataset hash used the same candles and simulated the same sessions.
THEOREM HashIdentifiesData == DataSpec => []SameHashSameData
<1>1. DataInv => SameHashSameData
  BY DEF DataInv, ReportsAsHashed, SameHashSameData
<1>2. DataSpec => []DataInv
  BY DataStart, DataStep, PTL DEF DataSpec
<1>3. QED BY <1>1, <1>2, PTL

\* The bars of a table on a day are a sum.
LEMMA CandlesAreSum ==
  ASSUME NEW d, NEW S, IsFiniteSet(S)
  PROVE  CandlesOn(S, d) = SetSum([x \in S |-> x[2][d]], S)
<1> DEFINE e == [x \in S |-> x[2][d]]
           Row(g, s) == IF s = {} THEN 0 ELSE First(s)[2][d] + g[s \ {First(s)}]
           IsTable(g) == g = [s \in SUBSET S |-> Row(g, s)]
           c == CHOOSE g : IsTable(g)
<1>1. CandlesOn(S, d) = c[S]
  BY DEF CandlesOn, MapThenSumSet, MapThenFoldSet, First
<1>2. \A s \in SUBSET S : s # {} => e[First(s)] = First(s)[2][d]
  BY FirstIsIn
<1> HIDE DEF e
<1>3. ASSUME NEW g PROVE IsTable(g) <=> IsSumTable(e, S, g)
  <2> DEFINE Cell(s) == IF s = {} THEN 0 ELSE e[First(s)] + g[s \ {First(s)}]
  <2>1. \A s \in SUBSET S : Row(g, s) = Cell(s)
    BY <1>2
  <2> HIDE DEF Row, Cell
  <2>2. [s \in SUBSET S |-> Row(g, s)] = [s \in SUBSET S |-> Cell(s)]
    BY <2>1
  <2>3. IsSumTable(e, S, g) <=> g = [s \in SUBSET S |-> Cell(s)]
    BY DEF IsSumTable, Cell
  <2>4. QED BY <2>2, <2>3
<1> HIDE DEF IsTable
<1>4. \E g : IsTable(g)
  BY <1>3, TableExists
<1>5. IsTable(c)
  BY <1>4
<1> HIDE DEF c
<1>6. IsSumTable(e, S, c) /\ S \in SUBSET S
  BY <1>3, <1>5
<1>7. c[S] = SetSum(e, S)
  BY <1>6, SumOfTable
<1>8. QED BY <1>1, <1>7 DEF e

\* Candles that come from one row of a table alone are that row's.
LEMMA CandlesOfOneRow ==
  ASSUME NEW d, NEW S, IsFiniteSet(S), \A x \in S : x[2][d] \in Nat,
         \A x, y \in S : x[2][d] # 0 /\ y[2][d] # 0 => x = y,
         CandlesOn(S, d) # 0
  PROVE  \E x \in S : x[2][d] = CandlesOn(S, d)
<1> DEFINE e == [x \in S |-> x[2][d]]
<1>1. CandlesOn(S, d) = SetSum(e, S)
  BY CandlesAreSum
<1>2. \A x \in S : e[x] = x[2][d]
  OBVIOUS
<1> HIDE DEF e
<1>3. PICK a \in S : e[a] # 0
  BY <1>1, SumOfZeros
<1>4. e[a] \in Int /\ \A x \in S : x # a => e[x] = 0
  BY <1>2, <1>3
<1>5. SetSum(e, S) = e[a]
  BY <1>4, SumOfOne
<1>6. QED BY <1>1, <1>2, <1>5

\* A row of the bars table is a collected file: of the cash only the days of
\* its request, of a contract only one.
LEMMA RowsOfFiles ==
  ASSUME DataInv, phase = "replay"
  PROVE  /\ \A r \in spool : r[1] \in Candles /\ r[2] \in [Days -> Nat]
         /\ \A r \in spool, g \in Days :
              r[1][1] = "cash" /\ r[2][g] # 0 => r[1] = <<"cash", g \div ChunkDays, 0>>
         /\ \A r, t \in spool :
              IsFuture(r[1]) /\ IsFuture(t[1]) /\ r[1][2] = t[1][2] => r = t
         /\ \A r, t \in spool : r[1] = t[1] => r = t
<1>1. spool = {<<f, cache[f].bars>> : f \in Finished}
  BY DEF DataInv, SpoolOfFinished
<1>2. \A f \in Finished : /\ f \in Candles /\ f \in Specs /\ f \in Files
                          /\ cache[f].bars \in [Days -> Nat]
  BY FileKinds DEF DataInv, TasksInPhase, DataTypeOK, Payloads, Finished
<1>3. \A r \in spool : r[1] \in Finished /\ r = <<r[1], cache[r[1]].bars>>
  BY <1>1
<1>4. \A r, t \in spool : r[1] = t[1] => r = t
  BY <1>3
<1>5. \A f, g \in Specs : f \in FutureFiles /\ g \in FutureFiles /\ f[2] = g[2] => f = g
  BY SpecsTyped DEF DataInv, DataTypeOK
<1>6. ASSUME NEW r \in spool, NEW g \in Days, r[1][1] = "cash", r[2][g] # 0
      PROVE  r[1] = <<"cash", g \div ChunkDays, 0>>
  <2>1. r[1] \in Candles /\ r[2] = cache[r[1]].bars
    BY <1>2, <1>3
  <2>2. r[1] \in CashFiles /\ r[1] = <<"cash", r[1][2], 0>>
    BY <1>6, <2>1, FileKinds
  <2>3. g \div ChunkDays = r[1][2]
    BY <1>6, <2>1, <2>2 DEF DataInv, ChunksApart
  <2>4. QED BY <2>2, <2>3
<1>7. \A r \in spool : r[2] = cache[r[1]].bars
  BY <1>3
<1>8. \A r \in spool : r[1] \in Candles /\ r[2] \in [Days -> Nat]
  BY <1>2, <1>3, <1>7
<1>9. \A r, t \in spool :
        IsFuture(r[1]) /\ IsFuture(t[1]) /\ r[1][2] = t[1][2] => r = t
  BY <1>2, <1>3, <1>4, <1>5 DEF IsFuture
<1>10. QED BY <1>4, <1>6, <1>8, <1>9

\* The session before one that is not the first.
LEMMA PreviousIsEarlier ==
  ASSUME sessions \subseteq Days, NEW d \in sessions, d # Min(sessions)
  PROVE  Previous(d) \in sessions /\ Previous(d) < d
<1>1. IsFiniteSet(sessions) /\ \A x \in sessions : x \in Int
  <2>1. \A x \in Days : x \in Int
    BY DaysFinite
  <2>2. QED BY <2>1, DaysFinite, FS_Subset
<1> DEFINE S == {e \in sessions : e < d}
<1>2. IsFiniteSet(S) /\ S \subseteq Int
  BY <1>1, FS_Subset
<1>3. Min(sessions) \in sessions /\ Min(sessions) <= d
  <2>1. sessions \subseteq Int /\ sessions # {}
    BY <1>1
  <2>2. QED BY <1>1, <2>1, MinIsLeast
<1>4. Min(sessions) \in S
  BY <1>1, <1>3
<1> HIDE DEF S
<1>5. Max(S) \in S
  BY <1>2, <1>4, MaxIsGreatest
<1>6. QED BY <1>5 DEF S, Previous

\* Cash candles in the number of the archive are those of the chunk of the day.
LEMMA CashOfOneChunk ==
  ASSUME DataInv, phase = "replay", NEW g \in Days, CashBars(g) = Bars
  PROVE  \E r \in spool : r[1] \in CashFiles /\ r[2][g] = Bars
<1> DEFINE S == {r \in spool : r[1][1] = "cash"}
<1>1. IsFiniteSet(S)
  <2>1. IsFiniteSet(spool)
    BY DEF DataInv, DataTypeOK
  <2>2. QED BY <2>1, FS_Subset
<1>2. \A x \in S : x[2][g] \in Nat /\ x[1] \in CashFiles
  BY RowsOfFiles, FileKinds
<1>3. \A x, y \in S : x[2][g] # 0 /\ y[2][g] # 0 => x = y
  BY RowsOfFiles
<1>4. CandlesOn(S, g) = Bars /\ Bars # 0
  BY DataAssumption DEF CashBars
<1>5. S \subseteq spool
  OBVIOUS
<1> HIDE DEF S
<1>6. \E x \in S : x[2][g] = CandlesOn(S, g)
  BY <1>1, <1>2, <1>3, <1>4, CandlesOfOneRow
<1>7. QED BY <1>2, <1>4, <1>5, <1>6

LEMMA FuturesOfOneFile ==
  ASSUME DataInv, phase = "replay", NEW k \in Contracts, NEW g \in Days,
         FutureBars(k, g) = Bars
  PROVE  \E r \in spool : IsFuture(r[1]) /\ r[1][2] = k /\ r[2][g] = Bars
<1> DEFINE S == {r \in spool : IsFuture(r[1]) /\ r[1][2] = k}
<1>1. IsFiniteSet(S)
  <2>1. IsFiniteSet(spool)
    BY DEF DataInv, DataTypeOK
  <2>2. QED BY <2>1, FS_Subset
<1>2. \A x \in S : x[2][g] \in Nat
  BY RowsOfFiles
<1>3. \A x, y \in S : x = y
  BY RowsOfFiles
<1>4. CandlesOn(S, g) = Bars /\ Bars # 0
  BY DataAssumption DEF FutureBars
<1>5. \A r \in S : r \in spool /\ IsFuture(r[1]) /\ r[1][2] = k
  OBVIOUS
<1> HIDE DEF S
<1>6. \E x \in S : x[2][g] = CandlesOn(S, g)
  BY <1>1, <1>2, <1>3, <1>4, CandlesOfOneRow
<1>7. QED BY <1>4, <1>5, <1>6

\* What is simulated is simulated in the replay, and there the candles it is
\* compared by come from one chunk of the cash and from one file of the
\* contract.
THEOREM SimulatedDaysAreGenuine == DataSpec => []SimulatedOnGenuineData
<1>1. ASSUME DataInv, NEW d \in simulated
      PROVE  LET e == Previous(d) IN
             /\ \A g \in {d, e} : \E row \in spool : row[1] \in CashFiles /\ row[2][g] = Bars
             /\ \E row \in spool :
                  /\ IsFuture(row[1]) /\ Expiry[row[1][2]] > d
                  /\ row[2][d] = Bars /\ row[2][e] = Bars
  <2> DEFINE e == Previous(d)
             k == Nearest(d)
  <2>1. /\ d \in sessions /\ d < cursor
        /\ d # Min(sessions) /\ SelectedContract(d) # {}
        /\ ActionsKnown /\ CompleteIn(sessions, spool, k, d)
    BY <1>1 DEF DataInv, SimulatedAsData, TradesOn
  <2>2. phase = "replay" /\ sessions \subseteq Days /\ d \in Days
    <3>1. sessions \subseteq Days
      BY <1>1 DEF DataInv, DataTypeOK
    <3>2. d \in Nat
      BY <2>1, <3>1, DaysFinite
    <3>3. phase # "replay" => cursor = 0
      BY <1>1 DEF DataInv, SimulatedAsData
    <3>4. QED BY <2>1, <3>1, <3>2, <3>3
  <2>3. k \in SelectedContract(d)
    BY <2>1 DEF Nearest
  <2>4. k \in Contracts /\ Expiry[k] > d
    BY <2>3 DEF SelectedContract
  <2>5. e \in Days
    BY <2>1, <2>2, PreviousIsEarlier
  <2>6. DataComplete(k, d)
    BY <2>1, CompleteIsComplete
  <2>7. /\ CashBars(d) = Bars /\ CashBars(e) = Bars
        /\ FutureBars(k, d) = Bars /\ FutureBars(k, e) = Bars
    BY <2>6 DEF DataComplete, Reconciles
  <2> HIDE DEF e, k
  <2>8. \A g \in {d, e} : \E r \in spool : r[1] \in CashFiles /\ r[2][g] = Bars
    BY <1>1, <2>2, <2>5, <2>7, CashOfOneChunk
  <2>9. PICK r \in spool : IsFuture(r[1]) /\ r[1][2] = k /\ r[2][d] = Bars
    BY <1>1, <2>2, <2>4, <2>7, FuturesOfOneFile
  <2>10. PICK t \in spool : IsFuture(t[1]) /\ t[1][2] = k /\ t[2][e] = Bars
    BY <1>1, <2>2, <2>4, <2>5, <2>7, FuturesOfOneFile
  <2>11. r = t
    BY <1>1, <2>2, <2>9, <2>10, RowsOfFiles
  <2>12. Expiry[r[1][2]] > d
    BY <2>4, <2>9
  <2>13. \E row \in spool :
           /\ IsFuture(row[1]) /\ Expiry[row[1][2]] > d
           /\ row[2][d] = Bars /\ row[2][e] = Bars
    BY <2>9, <2>10, <2>11, <2>12
  <2>14. QED BY <2>8, <2>13 DEF e
<1>2. DataInv => SimulatedOnGenuineData
  BY <1>1 DEF SimulatedOnGenuineData
<1>3. DataSpec => []DataInv
  BY DataStart, DataStep, PTL DEF DataSpec
<1>4. QED BY <1>2, <1>3, PTL
-----------------------------------------------------------------------------
(***************************************************************************)
(* The replay of scored rows through the allocator.                        *)
(***************************************************************************)
Positions == [row : ScoredRows, exit : Int, capital : Nat, risk : Nat]

ReplayTypeOK ==
  /\ rowsLeft \subseteq ScoredRows /\ ranked \subseteq ScoredRows
  /\ equity \in Int /\ peak \in Nat \ {0}
  /\ IsFiniteSet(DOMAIN reserved) /\ DOMAIN reserved \subseteq Nat
  /\ \A i \in DOMAIN reserved : reserved[i] \in Positions
  /\ dailyPnl \in [Sessions -> Int]

\* While there are candidates, the capital the loop carries along is that of
\* the book, and the rows to come are of later timestamps.
CapitalIsCurrent ==
  ranked # {} =>
    capital = [equity |-> equity, peak |-> peak,
               cash |-> equity - ReservedCapital(reserved),
               risk |-> ReservedRisk(reserved),
               daily |-> dailyPnl[Session(asOf)]]

RowsInTime ==
  /\ ~replaying => ranked = {} /\ DOMAIN reserved = {}
  /\ \A r \in ranked : r.time = asOf
  /\ \A r \in rowsLeft : /\ \A i \in DOMAIN reserved : reserved[i].row.time < r.time
                         /\ \A q \in ranked : q.time < r.time

ReplayInv ==
  /\ ReplayTypeOK /\ CapitalIsCurrent /\ RowsInTime /\ ReplayWithinLimits

LEMMA TotalIsSum ==
  ASSUME NEW amounts
  PROVE  Total(amounts) = SetSum(amounts, DOMAIN amounts)
  BY DEF Total, SetSum

LEMMA MinOfPair ==
  ASSUME NEW x \in Int, NEW y \in Int
  PROVE  Min({x, y}) \in Int /\ Min({x, y}) <= x /\ Min({x, y}) <= y
<1> DEFINE S == {x, y}
<1>1. IsFiniteSet(S) /\ S \subseteq Int /\ S # {} /\ x \in S /\ y \in S
  <2>1. IsFiniteSet({x} \cup {y}) /\ {x} \cup {y} = S
    BY FS_Singleton, FS_Union
  <2>2. QED BY <2>1
<1> HIDE DEF S
<1>2. Min(S) \in Int /\ Min(S) <= x /\ Min(S) <= y
  BY <1>1, MinIsLeast
<1>3. QED BY <1>2 DEF S

LEMMA MaxOfPair ==
  ASSUME NEW x \in Int, NEW y \in Int
  PROVE  Max({x, y}) \in Int /\ Max({x, y}) \in {x, y} /\ Max({x, y}) >= x /\ Max({x, y}) >= y
<1> DEFINE S == {x, y}
<1>1. IsFiniteSet(S) /\ S \subseteq Int /\ S # {} /\ x \in S /\ y \in S
  <2>1. IsFiniteSet({x} \cup {y}) /\ {x} \cup {y} = S
    BY FS_Singleton, FS_Union
  <2>2. QED BY <2>1
<1> HIDE DEF S
<1>2. Max(S) \in Int /\ Max(S) \in S /\ Max(S) >= x /\ Max(S) >= y
  BY <1>1, MaxIsGreatest
<1>3. QED BY <1>2 DEF S

LEMMA RowsTyped ==
  /\ \A r \in ScoredRows :
       /\ r.time \in Nat /\ r.confidence \in Int
       /\ r.long \in Int /\ r.short \in Int /\ r.volatility \in Int
       /\ r.longResult \in Int /\ r.shortResult \in Int
       /\ r.longResult >= -100 /\ r.shortResult >= -100
       /\ Predicted(r) \in Int /\ Realised(r) \in Int /\ Realised(r) >= -100
  /\ Holding \in Nat /\ SessionSlots \in Nat \ {0} /\ StartingCapital \in Nat \ {0}
  /\ MaxTradeRisk \in Nat /\ HardLoss \in Nat \ {0} /\ MaxOpenRisk \in Nat
  /\ PositionPercent \in Int
  BY ReplayAssumption DEF Predicted, Realised, GoesLong

\* A position loses at most what it reserved.
LEMMA LossIsReserved ==
  ASSUME NEW p \in Positions
  PROVE  Result(p) \in Int /\ Result(p) + p.capital >= 0
<1> DEFINE c == p.capital
           x == Realised(p.row)
<1>1. c \in Nat /\ x \in Int /\ x >= -100
  BY RowsTyped DEF Positions
<1>2. Result(p) = (c * x) \div 100
  BY DEF Result
<1> HIDE DEF c, x
<1>3. c * (x + 100) \in Nat
  <2>1. x + 100 \in Nat
    BY <1>1
  <2>2. QED BY <1>1, <2>1
<1>4. c * (x + 100) = c * x + 100 * c /\ c * x \in Int
  BY <1>1
<1> DEFINE y == c * x
<1>5. y \in Int /\ y >= -100 * c
  BY <1>1, <1>3, <1>4
<1> HIDE DEF y
<1>6. y \div 100 \in Int /\ y \div 100 >= -c
  BY <1>1, <1>5
<1>7. Result(p) = y \div 100
  BY <1>2 DEF y
<1>8. Result(p) \in Int /\ Result(p) + c >= 0
  BY <1>1, <1>6, <1>7
<1>9. QED BY <1>8 DEF c

\* The amounts of the book, and of a part of it.
LEMMA BookTotals ==
  ASSUME ReplayTypeOK, NEW T \in SUBSET DOMAIN reserved
  PROVE  LET kept == [i \in DOMAIN reserved \ T |-> reserved[i]] IN
         /\ ReservedCapital(reserved) \in Int /\ ReservedRisk(reserved) \in Int
         /\ ResultOf(T) \in Int
         /\ ReservedCapital(kept) \in Int /\ ReservedRisk(kept) \in Int
         /\ ReservedCapital(kept) <= ReservedCapital(reserved) + ResultOf(T)
         /\ ReservedRisk(kept) <= ReservedRisk(reserved)
<1> DEFINE D == DOMAIN reserved
           K == D \ T
           kept == [i \in K |-> reserved[i]]
           c == [i \in D |-> reserved[i].capital]
           q == [i \in D |-> reserved[i].risk]
           ck == [i \in K |-> kept[i].capital]
           qk == [i \in K |-> kept[i].risk]
           w == [i \in T |-> Result(reserved[i])]
<1>1. IsFiniteSet(D) /\ IsFiniteSet(K) /\ IsFiniteSet(T) /\ K \subseteq D /\ T \subseteq D /\ D \ K = T
  BY FS_Subset DEF ReplayTypeOK
<1>2. /\ \A i \in D : c[i] \in Int
      /\ \A i \in D : q[i] \in Int /\ q[i] >= 0
      /\ \A i \in K : c[i] = ck[i]
      /\ \A i \in K : q[i] = qk[i]
  <2>1. \A i \in D : reserved[i].capital \in Nat /\ reserved[i].risk \in Nat
    BY DEF ReplayTypeOK, Positions
  <2>2. \A i \in D : c[i] \in Int /\ q[i] \in Int /\ q[i] >= 0
    BY <2>1
  <2>3. \A i \in K : c[i] = ck[i]
    OBVIOUS
  <2>4. \A i \in K : q[i] = qk[i]
    OBVIOUS
  <2>5. QED BY <2>2, <2>3, <2>4
<1>3. ASSUME NEW i \in T PROVE w[i] \in Int /\ c[i] \in Int /\ w[i] + c[i] >= 0
  <2>1. reserved[i] \in Positions
    BY DEF ReplayTypeOK
  <2>2. Result(reserved[i]) \in Int /\ Result(reserved[i]) + reserved[i].capital >= 0
    BY <2>1, LossIsReserved
  <2>3. w[i] = Result(reserved[i]) /\ c[i] = reserved[i].capital
    BY <1>1
  <2>4. QED BY <1>1, <1>2, <2>2, <2>3
<1>4. /\ ReservedCapital(reserved) = SetSum(c, D) /\ ReservedRisk(reserved) = SetSum(q, D)
      /\ ReservedCapital(kept) = SetSum(ck, K) /\ ReservedRisk(kept) = SetSum(qk, K)
      /\ ResultOf(T) = SetSum(w, T)
  <2>1. DOMAIN c = D /\ DOMAIN q = D /\ DOMAIN ck = K /\ DOMAIN qk = K /\ DOMAIN w = T /\ DOMAIN kept = K
    OBVIOUS
  <2>2. /\ ReservedCapital(reserved) = Total(c) /\ ReservedRisk(reserved) = Total(q)
        /\ ReservedCapital(kept) = Total(ck) /\ ReservedRisk(kept) = Total(qk)
        /\ ResultOf(T) = Total(w)
    BY <2>1 DEF ReservedCapital, ReservedRisk, ResultOf
  <2> HIDE DEF c, q, ck, qk, w, kept
  <2>3. QED BY <2>1, <2>2, TotalIsSum
<1> HIDE DEF c, q, ck, qk, w, kept, K, D
<1>5. SetSum(c, D) = SetSum(c, K) + SetSum(c, T)
  BY <1>1, <1>2, SumSplit
<1>6. SetSum(ck, K) = SetSum(c, K)
  BY <1>1, <1>2, SumSame
<1>7. SetSum(qk, K) = SetSum(q, K)
  BY <1>1, <1>2, SumSame
<1>8. SetSum(w, T) + SetSum(c, T) >= 0
  BY <1>1, <1>3, SumsBalance
<1>9. SetSum(q, K) <= SetSum(q, D)
  BY <1>1, <1>2, SumMonotone
<1>10. SetSum(c, D) \in Int
  BY <1>1, <1>2, SumType
<1>11. SetSum(q, D) \in Int
  BY <1>1, <1>2, SumType
<1>12. SetSum(c, K) \in Int
  <2>1. \A i \in K : c[i] \in Int
    BY <1>1, <1>2
  <2>2. QED BY <1>1, <2>1, SumType
<1>13. SetSum(q, K) \in Int
  <2>1. \A i \in K : q[i] \in Int
    BY <1>1, <1>2
  <2>2. QED BY <1>1, <2>1, SumType
<1>14. SetSum(c, T) \in Int
  <2>1. \A i \in T : c[i] \in Int
    BY <1>3
  <2>2. QED BY <1>1, <2>1, SumType
<1>15. SetSum(w, T) \in Int
  <2>1. \A i \in T : w[i] \in Int
    BY <1>3
  <2>2. QED BY <1>1, <2>1, SumType
<1>16. /\ ReservedCapital(kept) <= ReservedCapital(reserved) + ResultOf(T)
       /\ ReservedRisk(kept) <= ReservedRisk(reserved)
  BY <1>4, <1>5, <1>6, <1>7, <1>8, <1>9, <1>10, <1>11, <1>12, <1>13, <1>14, <1>15
<1>17. QED BY <1>4, <1>6, <1>7, <1>10, <1>11, <1>12, <1>13, <1>15, <1>16 DEF kept, K, D

LEMMA ProductType ==
  ASSUME NEW x \in Int, NEW y \in Int
  PROVE  x * y \in Int
  OBVIOUS

LEMMA QuotientType ==
  ASSUME NEW x \in Int, NEW y \in Nat \ {0}
  PROVE  x \div y \in Int
  OBVIOUS

\* What is approved is positive, and within cash and remaining risk.
LEMMA ApprovedFits ==
  ASSUME NEW r \in ScoredRows, NEW c, c.equity \in Int, c.peak \in Nat \ {0}, c.cash \in Int,
         c.risk \in Int, AllocatorApproves(r, c)
  PROVE  /\ Deployable(c) \in Nat /\ Deployable(c) <= c.cash
         /\ MaxLoss(r, c) \in Nat /\ MaxLoss(r, c) <= MaxOpenRisk - c.risk
<1>1. Deployable(c) > 0 /\ MaxLoss(r, c) > 0 /\ r.volatility > 0
  BY DEF AllocatorApproves
<1>2. RiskPercent \in Int
  <2>1. (100 * MaxTradeRisk) \div StartingCapital \in Int /\ 49 \in Int
    BY RowsTyped
  <2>2. QED BY <2>1, MinOfPair, Zenon DEF RiskPercent
<1>3. Quality(r) \in Int
  <2> DEFINE x == (r.confidence * Predicted(r)) \div r.volatility
  <2>1. x \in Int
    <3>1. r.confidence \in Int /\ Predicted(r) \in Int /\ r.volatility \in Nat \ {0}
      BY <1>1, RowsTyped
    <3>2. r.confidence * Predicted(r) \in Int
      BY <3>1, ProductType
    <3>3. QED BY <3>1, <3>2, QuotientType
  <2> HIDE DEF x
  <2>2. Min({100, x}) \in Int
    <3>1. 100 \in Int
      OBVIOUS
    <3>2. QED BY <2>1, <3>1, MinOfPair, Zenon
  <2>3. Max({0, Min({100, x})}) \in Int
    <3>1. 0 \in Int
      OBVIOUS
    <3>2. QED BY <2>2, <3>1, MaxOfPair, Zenon
  <2>4. QED BY <2>3 DEF Quality, x
<1>4. Deployment(r, c) \in Int
  <2> DEFINE x == ((50 + Quality(r)) * c.equity) \div c.peak
  <2>1. x \in Int
    <3>1. 50 + Quality(r) \in Int
      BY <1>3
    <3>2. (50 + Quality(r)) * c.equity \in Int
      BY <3>1, ProductType
    <3>3. QED BY <3>2, QuotientType
  <2> HIDE DEF x
  <2>2. Min({100, x}) \in Int
    <3>1. 100 \in Int
      OBVIOUS
    <3>2. QED BY <2>1, <3>1, MinOfPair, Zenon
  <2>3. QED BY <2>2 DEF Deployment, x
<1>5. MaxLoss(r, c) \in Int /\ MaxLoss(r, c) <= MaxOpenRisk - c.risk
  <2> DEFINE x == (c.equity * RiskPercent * Deployment(r, c)) \div 10000
             y == MaxOpenRisk - c.risk
  <2>1. x \in Int /\ y \in Int
    <3>1. c.equity * RiskPercent \in Int
      BY <1>2, ProductType
    <3>2. c.equity * RiskPercent * Deployment(r, c) \in Int
      BY <1>4, <3>1, ProductType
    <3>3. x \in Int
      BY <3>2, QuotientType
    <3>4. QED BY <3>3, RowsTyped
  <2> HIDE DEF x, y
  <2>2. Min({x, y}) \in Int /\ Min({x, y}) <= y
    BY <2>1, MinOfPair
  <2>3. QED BY <2>2 DEF MaxLoss, x, y
<1>6. Deployable(c) \in Int /\ Deployable(c) <= c.cash
  <2> DEFINE x == (c.equity * PositionPercent) \div 100
  <2>1. x \in Int
    BY RowsTyped
  <2> HIDE DEF x
  <2>2. Min({c.cash, x}) \in Int /\ Min({c.cash, x}) <= c.cash
    BY <2>1, MinOfPair
  <2>3. QED BY <2>2 DEF Deployable, x
<1>7. QED BY <1>1, <1>5, <1>6

\* A position that is appended adds its amounts.
LEMMA BookAppends ==
  ASSUME ReplayTypeOK, NEW p \in Positions
  PROVE  LET book == Appended(reserved, p) IN
         /\ IsFiniteSet(DOMAIN book) /\ DOMAIN book \subseteq Nat
         /\ \A i \in DOMAIN book :
              book[i] = p \/ (i \in DOMAIN reserved /\ book[i] = reserved[i])
         /\ ReservedCapital(book) = ReservedCapital(reserved) + p.capital
         /\ ReservedRisk(book) = ReservedRisk(reserved) + p.risk
<1> DEFINE D == DOMAIN reserved
           a == Max({0} \cup D) + 1
           E == D \cup {a}
           book == [i \in E |-> IF i = a THEN p ELSE reserved[i]]
           c == [i \in D |-> reserved[i].capital]
           q == [i \in D |-> reserved[i].risk]
           cb == [i \in E |-> book[i].capital]
           qb == [i \in E |-> book[i].risk]
<1>1. Appended(reserved, p) = book
  BY DEF Appended
<1>2. IsFiniteSet(D) /\ D \subseteq Nat
  BY DEF ReplayTypeOK
<1>3. a \in Nat /\ a \notin D
  <2> DEFINE S == {0} \cup D
  <2>1. IsFiniteSet(S) /\ S \subseteq Int /\ S # {} /\ D \subseteq S /\ S \subseteq Nat
    <3>1. IsFiniteSet({0})
      BY FS_Singleton
    <3>2. IsFiniteSet(S)
      BY <1>2, <3>1, FS_Union
    <3>3. QED BY <1>2, <3>2
  <2> HIDE DEF S, D
  <2>2. Max(S) \in S /\ \A y \in S : Max(S) >= y
    BY <2>1, MaxIsGreatest
  <2>3. \A y \in D : y \in Nat /\ Max(S) >= y
    BY <2>1, <2>2
  <2>4. Max(S) \in Nat
    BY <2>1, <2>2
  <2>5. Max(S) + 1 \notin D
    BY <2>3, <2>4
  <2>6. QED BY <2>4, <2>5 DEF S
<1>4. \A i \in D : reserved[i].capital \in Nat /\ reserved[i].risk \in Nat
  BY DEF ReplayTypeOK, Positions
<1>5. p.capital \in Nat /\ p.risk \in Nat
  BY DEF Positions
<1> HIDE DEF a
<1>6. /\ \A i \in D : c[i] = cb[i]
      /\ \A i \in D : q[i] = qb[i]
      /\ cb[a] = p.capital /\ qb[a] = p.risk
  BY <1>3
<1>7. /\ \A i \in D : cb[i] \in Int
      /\ \A i \in D : qb[i] \in Int
  BY <1>3, <1>4
<1>8. /\ ReservedCapital(reserved) = SetSum(c, D) /\ ReservedRisk(reserved) = SetSum(q, D)
      /\ ReservedCapital(book) = SetSum(cb, E) /\ ReservedRisk(book) = SetSum(qb, E)
  <2>1. DOMAIN c = D /\ DOMAIN q = D /\ DOMAIN cb = E /\ DOMAIN qb = E /\ DOMAIN book = E
    OBVIOUS
  <2>2. /\ ReservedCapital(reserved) = Total(c) /\ ReservedRisk(reserved) = Total(q)
        /\ ReservedCapital(book) = Total(cb) /\ ReservedRisk(book) = Total(qb)
    BY <2>1 DEF ReservedCapital, ReservedRisk
  <2> HIDE DEF c, q, cb, qb, book, E
  <2>3. QED BY <2>1, <2>2, TotalIsSum
<1>9. /\ IsFiniteSet(DOMAIN book) /\ DOMAIN book \subseteq Nat
      /\ \A i \in DOMAIN book : book[i] = p \/ (i \in DOMAIN reserved /\ book[i] = reserved[i])
  BY <1>2, <1>3, FS_AddElement
<1> HIDE DEF c, q, cb, qb, book, D
<1>10. SetSum(cb, D \cup {a}) = SetSum(cb, D) + cb[a]
  <2>1. cb[a] \in Int /\ \A i \in D : cb[i] \in Int
    BY <1>5, <1>6, <1>7
  <2>2. IsFiniteSet(D) /\ a \notin D
    BY <1>2, <1>3
  <2>3. QED BY ONLY <2>1, <2>2, SumAdd
<1>11. SetSum(qb, D \cup {a}) = SetSum(qb, D) + qb[a]
  <2>1. qb[a] \in Int /\ \A i \in D : qb[i] \in Int
    BY <1>5, <1>6, <1>7
  <2>2. IsFiniteSet(D) /\ a \notin D
    BY <1>2, <1>3
  <2>3. QED BY ONLY <2>1, <2>2, SumAdd
<1>12. SetSum(c, D) = SetSum(cb, D)
  BY <1>2, <1>6, SumSame
<1>13. SetSum(q, D) = SetSum(qb, D)
  BY <1>2, <1>6, SumSame
<1>14. /\ ReservedCapital(book) = ReservedCapital(reserved) + p.capital
       /\ ReservedRisk(book) = ReservedRisk(reserved) + p.risk
  BY <1>6, <1>8, <1>10, <1>11, <1>12, <1>13
<1>15. QED BY <1>1, <1>9, <1>14

LEMMA ReplayStart == ReplayInit => ReplayInv
<1> SUFFICES ASSUME ReplayInit PROVE ReplayInv
  OBVIOUS
<1>1. /\ rowsLeft = {} /\ ranked = {} /\ replaying = FALSE /\ equity = StartingCapital
      /\ peak = StartingCapital /\ reserved = [i \in {} |-> {}]
      /\ dailyPnl = [d \in Sessions |-> 0]
  BY DEF ReplayInit
<1>2. DOMAIN reserved = {}
  BY <1>1
<1>3. ReservedCapital(reserved) = 0 /\ ReservedRisk(reserved) = 0
  <2> DEFINE c == [i \in {} |-> reserved[i].capital]
             q == [i \in {} |-> reserved[i].risk]
  <2>1. ReservedCapital(reserved) = Total(c) /\ ReservedRisk(reserved) = Total(q)
    BY <1>2 DEF ReservedCapital, ReservedRisk
  <2>2. DOMAIN c = {} /\ DOMAIN q = {}
    OBVIOUS
  <2> HIDE DEF c, q
  <2>3. QED BY <2>1, <2>2, TotalIsSum, SumEmpty
<1>4. ReplayTypeOK
  BY <1>1, <1>2, RowsTyped, FS_EmptySet DEF ReplayTypeOK
<1>5. QED BY <1>1, <1>2, <1>3, <1>4, RowsTyped DEF ReplayInv, CapitalIsCurrent, RowsInTime,
    ReplayWithinLimits

\* A candidate is sized by what the book has left.
LEMMA SelectRowKeeps ==
  ASSUME ReplayInv, NEW r \in ranked, SelectRow(r)
  PROVE  ReplayInv'
<1> DEFINE p == [row |-> r, exit |-> r.time + Holding, capital |-> Deployable(capital),
                 risk |-> MaxLoss(r, capital)]
           book == Appended(reserved, p)
<1>1. /\ r \in ranked /\ AllocatorApproves(r, capital) /\ ranked' = ranked \ {r}
      /\ reserved' = book
      /\ capital' = ReserveCapital(capital, Deployable(capital), MaxLoss(r, capital))
      /\ UNCHANGED <<rowsLeft, replaying, asOf, equity, peak, dailyPnl>>
  BY DEF SelectRow
<1>2. /\ ReplayTypeOK /\ r \in ScoredRows /\ r.time = asOf /\ replaying
      /\ ReservedCapital(reserved) <= equity /\ ReservedRisk(reserved) <= MaxOpenRisk
      /\ \A q \in rowsLeft : r.time < q.time
  BY <1>1 DEF ReplayInv, ReplayTypeOK, RowsInTime, ReplayWithinLimits
<1>3. /\ capital = [equity |-> equity, peak |-> peak,
                    cash |-> equity - ReservedCapital(reserved),
                    risk |-> ReservedRisk(reserved), daily |-> dailyPnl[Session(asOf)]]
      /\ ReservedCapital(reserved) \in Int /\ ReservedRisk(reserved) \in Int
  BY <1>1, <1>2, BookTotals DEF ReplayInv, CapitalIsCurrent
<1>4. /\ capital.equity = equity /\ capital.peak = peak
      /\ capital.cash = equity - ReservedCapital(reserved)
      /\ capital.risk = ReservedRisk(reserved) /\ capital.daily = dailyPnl[Session(asOf)]
  BY <1>3
<1>5. /\ capital.equity \in Int /\ capital.peak \in Nat \ {0} /\ capital.cash \in Int
      /\ capital.risk \in Int
  BY <1>2, <1>3, <1>4 DEF ReplayTypeOK
<1>6. /\ Deployable(capital) \in Nat /\ Deployable(capital) <= capital.cash
      /\ MaxLoss(r, capital) \in Nat /\ MaxLoss(r, capital) <= MaxOpenRisk - capital.risk
  BY <1>1, <1>2, <1>5, ApprovedFits
<1>7. p \in Positions /\ p.row = r /\ p.capital = Deployable(capital) /\ p.risk = MaxLoss(r, capital)
  BY <1>2, <1>6, RowsTyped DEF Positions
<1>8. dailyPnl[Session(asOf)] > -HardLoss
  BY <1>1, <1>4 DEF AllocatorApproves
<1> HIDE DEF p
<1>9. /\ IsFiniteSet(DOMAIN book) /\ DOMAIN book \subseteq Nat
      /\ \A i \in DOMAIN book : book[i] = p \/ (i \in DOMAIN reserved /\ book[i] = reserved[i])
      /\ ReservedCapital(book) = ReservedCapital(reserved) + p.capital
      /\ ReservedRisk(book) = ReservedRisk(reserved) + p.risk
  BY <1>2, <1>7, BookAppends
<1> HIDE DEF book
<1>10. ReplayTypeOK'
  BY <1>1, <1>2, <1>7, <1>9 DEF ReplayTypeOK
<1>11. /\ ReservedCapital(book) <= equity /\ ReservedRisk(book) <= MaxOpenRisk
       /\ equity - ReservedCapital(book) = (equity - ReservedCapital(reserved)) - p.capital
  <2>1. equity \in Int /\ MaxOpenRisk \in Int
    BY <1>2, RowsTyped DEF ReplayTypeOK
  <2>2. QED BY <1>3, <1>4, <1>6, <1>7, <1>9, <2>1
<1>12. CapitalIsCurrent'
  <2>1. capital' = [capital EXCEPT !.cash = @ - p.capital, !.risk = @ + p.risk]
    BY <1>1, <1>7 DEF ReserveCapital
  <2>2. capital' = [equity |-> equity, peak |-> peak,
                    cash |-> (equity - ReservedCapital(reserved)) - p.capital,
                    risk |-> ReservedRisk(reserved) + p.risk,
                    daily |-> dailyPnl[Session(asOf)]]
    BY <1>3, <2>1
  <2>3. QED BY <1>1, <1>9, <1>11, <2>2 DEF CapitalIsCurrent
<1>13. RowsInTime'
  BY <1>1, <1>2, <1>7, <1>9 DEF ReplayInv, RowsInTime
<1>14. ReplayWithinLimits'
  <2>1. UNCHANGED <<equity, asOf, dailyPnl>> /\ reserved' = book
    BY <1>1
  <2>2. ReservedCapital(reserved') <= equity' /\ ReservedRisk(reserved') <= MaxOpenRisk
    BY <1>11, <2>1
  <2>3. dailyPnl'[Session(asOf)'] > -HardLoss
    BY <1>8, <2>1 DEF Session
  <2>4. QED BY <2>2, <2>3 DEF ReplayWithinLimits
<1>15. QED BY <1>10, <1>12, <1>13, <1>14 DEF ReplayInv

\* Settlement frees at least what it can lose.
LEMMA NextTimestampKeeps ==
  ASSUME ReplayInv, NextTimestamp
  PROVE  ReplayInv'
<1> DEFINE S == {r.time : r \in rowsLeft}
           t == Min(S)
           T == Due(t)
           kept == [i \in DOMAIN reserved \ T |-> reserved[i]]
<1>1. /\ replaying /\ rowsLeft # {} /\ asOf' = t /\ reserved' = kept
      /\ equity' = equity + ResultOf(T)
      /\ peak' = Max({peak} \cup {EquityAfter(t, n) : n \in T})
      /\ dailyPnl' = [s \in Sessions |->
           dailyPnl[s] + ResultOf({i \in T : Session(reserved[i].row.time) = s})]
      /\ ranked' = {r \in rowsLeft : r.time = t}
      /\ capital' = [equity |-> equity', peak |-> peak',
                     cash |-> Max({0, equity' - ReservedCapital(reserved')}),
                     risk |-> ReservedRisk(reserved'),
                     daily |-> dailyPnl'[Session(t)]]
      /\ rowsLeft' = rowsLeft \ ranked' /\ replaying' = replaying
  BY DEF NextTimestamp
<1>2. /\ ReplayTypeOK /\ \A r \in rowsLeft : r.time \in Nat
      /\ \A r \in rowsLeft : \A i \in DOMAIN reserved : reserved[i].row.time < r.time
      /\ ReservedCapital(reserved) <= equity /\ ReservedRisk(reserved) <= MaxOpenRisk
      /\ equity \in Int /\ peak \in Nat \ {0}
  BY RowsTyped DEF ReplayInv, ReplayTypeOK, RowsInTime, ReplayWithinLimits
<1>3. t \in S /\ \A y \in S : t <= y
  <2>1. S \subseteq Nat /\ S # {}
    BY <1>1, <1>2
  <2> HIDE DEF S
  <2>2. QED BY <2>1, MinOfNaturals
<1>4. t \in Nat /\ \A r \in rowsLeft : t <= r.time
  BY <1>2, <1>3
<1>5. PICK first \in rowsLeft : first.time = t
  BY <1>3
<1> HIDE DEF t
<1>6. T \in SUBSET DOMAIN reserved
  BY DEF Due
<1>7. \A U \in SUBSET DOMAIN reserved : ResultOf(U) \in Int
  BY <1>2, BookTotals
<1> HIDE DEF T
<1>8. /\ ReservedCapital(kept) \in Int /\ ReservedRisk(kept) \in Int
      /\ ReservedCapital(reserved) \in Int /\ ReservedRisk(reserved) \in Int
      /\ ReservedCapital(kept) <= ReservedCapital(reserved) + ResultOf(T)
      /\ ReservedRisk(kept) <= ReservedRisk(reserved)
  BY <1>2, <1>6, BookTotals
<1>9. /\ DOMAIN kept \subseteq DOMAIN reserved
      /\ \A i \in DOMAIN kept : kept[i] = reserved[i]
  OBVIOUS
<1> HIDE DEF kept
<1>10. /\ equity' \in Int /\ ReservedCapital(reserved') <= equity'
       /\ ReservedRisk(reserved') <= MaxOpenRisk
  <2>1. ResultOf(T) \in Int /\ MaxOpenRisk \in Int
    BY <1>6, <1>7, RowsTyped
  <2>2. QED BY <1>1, <1>2, <1>8, <2>1
<1>11. peak' \in Nat \ {0}
  <2> DEFINE E == {EquityAfter(t, n) : n \in T}
             M == {peak} \cup E
  <2>1. IsFiniteSet(E)
    <3>1. IsFiniteSet(T)
      BY <1>2, <1>6, FS_Subset DEF ReplayTypeOK
    <3> DEFINE after == [n \in T |-> EquityAfter(t, n)]
    <3>2. after \in Surjection(T, E)
      BY DEF Surjection
    <3>3. QED BY ONLY <3>1, <3>2, FS_Surjection
  <2>2. E \subseteq Int
    <3>1. ASSUME NEW n \in T PROVE EquityAfter(t, n) \in Int
      <4>1. {i \in Due(t) : i <= n} \in SUBSET DOMAIN reserved
        BY DEF Due
      <4>2. ResultOf({i \in Due(t) : i <= n}) \in Int
        BY <1>7, <4>1
      <4>3. QED BY <1>2, <4>2 DEF EquityAfter
    <3>2. QED BY <3>1
  <2> HIDE DEF E
  <2>3. IsFiniteSet(M) /\ M \subseteq Int /\ M # {} /\ peak \in M
    <3>1. IsFiniteSet({peak})
      BY FS_Singleton
    <3>2. IsFiniteSet(M)
      BY <2>1, <3>1, FS_Union
    <3>3. QED BY <1>2, <2>2, <3>2
  <2>4. peak' = Max(M)
    BY <1>1 DEF E
  <2> HIDE DEF M
  <2>5. Max(M) \in M /\ Max(M) >= peak
    BY <2>3, MaxIsGreatest
  <2>6. Max(M) \in Int
    BY <2>3, <2>5
  <2>7. QED BY <1>2, <2>4, <2>5, <2>6
<1>12. ReplayTypeOK'
  <2>1. ranked' \subseteq ScoredRows /\ rowsLeft' \subseteq ScoredRows
    BY <1>1, <1>2 DEF ReplayTypeOK
  <2>2. dailyPnl' \in [Sessions -> Int]
    <3>1. ASSUME NEW d \in Sessions
          PROVE  dailyPnl[d] + ResultOf({i \in T : Session(reserved[i].row.time) = d}) \in Int
      <4>1. {i \in T : Session(reserved[i].row.time) = d} \in SUBSET DOMAIN reserved
        BY <1>6
      <4>2. dailyPnl[d] \in Int
        BY <1>2 DEF ReplayTypeOK
      <4>3. ResultOf({i \in T : Session(reserved[i].row.time) = d}) \in Int
        BY <1>7, <4>1
      <4>4. QED BY <4>2, <4>3
    <3>2. QED BY <1>1, <3>1
  <2>3. /\ IsFiniteSet(DOMAIN reserved') /\ DOMAIN reserved' \subseteq Nat
        /\ \A i \in DOMAIN reserved' : reserved'[i] \in Positions
    <3>1. IsFiniteSet(DOMAIN kept)
      BY <1>2, <1>9, FS_Subset DEF ReplayTypeOK
    <3>2. QED BY <1>1, <1>2, <1>9, <3>1 DEF ReplayTypeOK
  <2>4. QED BY <1>10, <1>11, <2>1, <2>2, <2>3 DEF ReplayTypeOK
<1>13. CapitalIsCurrent'
  <2> DEFINE left == equity' - ReservedCapital(reserved')
  <2>1. left \in Int /\ left >= 0
    BY <1>1, <1>8, <1>10
  <2> HIDE DEF left
  <2>2. Max({0, left}) = left
    <3>1. 0 \in Int
      OBVIOUS
    <3>2. /\ Max({0, left}) \in Int /\ Max({0, left}) \in {0, left}
          /\ Max({0, left}) >= 0 /\ Max({0, left}) >= left
      BY <2>1, <3>1, MaxOfPair, Zenon
    <3>3. QED BY <2>1, <3>2
  <2>3. Session(asOf)' = Session(t)
    BY <1>1 DEF Session
  <2>4. capital' = [equity |-> equity', peak |-> peak', cash |-> left,
                    risk |-> ReservedRisk(reserved'), daily |-> dailyPnl'[Session(t)]]
    BY <1>1, <2>2 DEF left
  <2>5. QED BY <2>3, <2>4 DEF CapitalIsCurrent, left
<1>14. \A i \in DOMAIN reserved' : reserved'[i].row.time < t
  BY <1>1, <1>2, <1>5, <1>9
<1>15. RowsInTime'
  <2>1. \A r \in rowsLeft' : r \in rowsLeft /\ r.time \in Nat /\ t < r.time
    BY <1>1, <1>2, <1>4
  <2>2. \A i \in DOMAIN reserved' : reserved'[i].row.time \in Nat
    BY <1>12, RowsTyped DEF ReplayTypeOK, Positions
  <2>3. QED BY <1>1, <1>4, <1>14, <2>1, <2>2 DEF RowsInTime
<1>16. ReplayWithinLimits'
  <2>1. ~(\E i \in DOMAIN reserved' : reserved'[i].row.time = asOf')
    BY <1>1, <1>4, <1>14
  <2>2. QED BY <1>10, <2>1 DEF ReplayWithinLimits
<1>17. QED BY <1>12, <1>13, <1>15, <1>16 DEF ReplayInv

LEMMA ReplayStep == ReplayInv /\ [ReplayNext]_replayVars => ReplayInv'
<1> SUFFICES ASSUME ReplayInv, [ReplayNext]_replayVars PROVE ReplayInv'
  OBVIOUS
<1>1. ASSUME UNCHANGED <<replaying, asOf, equity, peak, reserved, dailyPnl, capital, rowsLeft>>,
             ranked' \subseteq ranked
      PROVE  ReplayInv'
  BY <1>1 DEF ReplayInv, ReplayTypeOK, CapitalIsCurrent, RowsInTime, ReplayWithinLimits, Session
<1>2. ASSUME UNCHANGED <<asOf, equity, peak, reserved, dailyPnl, capital, ranked>>, ~replaying,
             rowsLeft' \subseteq ScoredRows
      PROVE  ReplayInv'
  <2>1. ranked = {} /\ DOMAIN reserved = {}
    BY <1>2 DEF ReplayInv, RowsInTime
  <2>2. QED
    BY <1>2, <2>1 DEF ReplayInv, ReplayTypeOK, CapitalIsCurrent, RowsInTime, ReplayWithinLimits,
      Session
<1>3. ASSUME NEW r \in ScoredRows, HandRow(r) PROVE ReplayInv'
  BY <1>2, <1>3 DEF HandRow, ReplayInv, ReplayTypeOK
<1>4. CASE StartReplay
  BY <1>2, <1>4 DEF StartReplay, ReplayInv, ReplayTypeOK
<1>5. CASE NextTimestamp
  BY <1>5, NextTimestampKeeps
<1>6. ASSUME NEW r \in ranked, NoMoreEdge(r) \/ AllocationRejected(r) PROVE ReplayInv'
  BY <1>1, <1>6 DEF NoMoreEdge, AllocationRejected
<1>7. ASSUME NEW r \in ranked, SelectRow(r) PROVE ReplayInv'
  BY <1>7, SelectRowKeeps
<1>8. CASE UNCHANGED replayVars
  BY <1>1, <1>8 DEF replayVars
<1>9. QED BY <1>3, <1>4, <1>5, <1>6, <1>7, <1>8 DEF ReplayNext

\* Equity covers all that is reserved, since a position loses at most what it
\* reserved; what is open never risks more than the aggregate limit; and the
\* day's loss is looked at for every candidate, with the result of the day.
THEOREM ReplayKeepsTheLimits == ReplaySpec => []ReplayWithinLimits
<1>1. ReplayInv => ReplayWithinLimits
  BY DEF ReplayInv
<1>2. ReplaySpec => []ReplayInv
  BY ReplayStart, ReplayStep, PTL DEF ReplaySpec
<1>3. QED BY <1>1, <1>2, PTL
=============================================================================
