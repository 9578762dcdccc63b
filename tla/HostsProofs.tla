----------------------------- MODULE HostsProofs -----------------------------
(***************************************************************************)
(* Theorems about the three programs that run beside the desks, for every  *)
(* division of the day, every usage line and every market: the telemetry   *)
(* daemon accounts for its summaries, the billing guard never reports what *)
(* it has not done or seen, and a scan decides in one minute.              *)
(***************************************************************************)
EXTENDS TelemetryDaemon, BillingGuard, MarketScan, SetLemmas

(***************************************************************************)
(* The telemetry daemon.                                                   *)
(***************************************************************************)
DaemonTypeOK ==
  /\ clock \in Nat /\ summaries \in Nat /\ restarts \in Nat
  /\ eodReported \in BOOLEAN /\ healthy \in BOOLEAN /\ cleared \in BOOLEAN

\* Before the report window of a day nothing has been counted.
NothingYet ==
  TimeOfDay < ReportStart => ~healthy /\ summaries = 0 /\ restarts = 0

\* On a day whose start the process has noticed, the flag and a fault-free poll
\* of the window both mean that a summary was sent.
FlagMeansSent == cleared /\ (eodReported \/ healthy) => report # "none"

\* A summary is sent with the flag down, and only a start lowers it in the
\* window.
SummariesCounted ==
  /\ summaries <= restarts + 1
  /\ InReportWindow /\ ~eodReported => summaries <= restarts

DaemonInv == DaemonTypeOK /\ NothingYet /\ FlagMeansSent /\ SummariesCounted

LEMMA DayHasHours ==
  /\ DayLength \in Nat \ {0} /\ ReportStart \in Nat /\ ReportEnd \in Nat
  /\ UnitsPerHour \in Nat /\ UnitsPerHour < ReportStart /\ ReportStart < ReportEnd
  /\ ReportEnd < DayLength
  BY DaemonAssumption DEF DayLength

LEMMA UniqueRest ==
  ASSUME NEW q \in Nat, NEW d \in Nat \ {0}, NEW r \in 0..(d - 1)
  PROVE  (d * q + r) % d = r
  OBVIOUS

\* The time of day moves by one unit or starts again.
LEMMA NextTimeOfDay ==
  ASSUME NEW n \in Nat, NEW d \in Nat \ {0}
  PROVE  n % d \in Nat /\ ((n + 1) % d = 0 \/ (n + 1) % d = (n % d) + 1)
<1> DEFINE q == n \div d
           r == n % d
<1>1. q \in Nat /\ r \in 0..(d - 1) /\ n = d * q + r
  OBVIOUS
<1> HIDE DEF q, r
<1>2. CASE r + 1 < d
  <2>1. n + 1 = d * q + (r + 1) /\ r + 1 \in 0..(d - 1)
    BY <1>1, <1>2
  <2>2. (d * q + (r + 1)) % d = r + 1
    BY <1>1, <2>1, UniqueRest
  <2>3. QED BY <1>1, <2>1, <2>2 DEF r
<1>3. CASE ~(r + 1 < d)
  <2>1. n + 1 = d * (q + 1) + 0 /\ q + 1 \in Nat /\ 0 \in 0..(d - 1)
    BY <1>1, <1>3
  <2>2. (d * (q + 1) + 0) % d = 0
    BY <2>1, UniqueRest
  <2>3. QED BY <1>1, <2>1, <2>2 DEF r
<1>4. QED BY <1>2, <1>3

LEMMA DaemonStart == DaemonInit => DaemonInv
<1>1. DaemonInit => clock = 0 /\ TimeOfDay = 0
  <2>1. (DayLength * 0 + 0) % DayLength = 0
    BY DayHasHours, UniqueRest
  <2>2. QED BY <2>1, DayHasHours DEF DaemonInit, TimeOfDay
<1>2. DaemonInit => DaemonTypeOK
  <2>1. DaemonInit => clock \in Nat /\ summaries \in Nat /\ restarts \in Nat
    BY DEF DaemonInit
  <2>2. DaemonInit => eodReported \in BOOLEAN /\ healthy \in BOOLEAN /\ cleared \in BOOLEAN
    BY Zenon DEF DaemonInit
  <2>3. QED BY <2>1, <2>2 DEF DaemonTypeOK
<1>3. DaemonInit => FlagMeansSent
  BY Zenon DEF DaemonInit, FlagMeansSent
<1>4. DaemonInit => NothingYet /\ SummariesCounted
  BY <1>1 DEF DaemonInit, NothingYet, SummariesCounted
<1>5. QED BY <1>2, <1>3, <1>4 DEF DaemonInv

LEMMA DaemonStep == DaemonInv /\ [DaemonNext]_daemonVars => DaemonInv'
<1> SUFFICES ASSUME DaemonInv, [DaemonNext]_daemonVars PROVE DaemonInv'
  OBVIOUS
<1> DEFINE t == clock % DayLength
<1>1. DaemonTypeOK /\ TimeOfDay = t
  BY DEF DaemonInv, TimeOfDay
<1>2. t \in Nat
  BY <1>1, NextTimeOfDay, DayHasHours DEF DaemonTypeOK
<1> HIDE DEF t
<1>3. /\ DaemonTypeOK /\ TimeOfDay = t /\ t \in Nat
      /\ FirstHour <=> t < UnitsPerHour
      /\ InReportWindow <=> ReportStart <= t /\ t < ReportEnd
  BY <1>1, <1>2, DayHasHours DEF FirstHour, InReportWindow
<1>4. CASE StartDaemon
  <2>1. /\ UNCHANGED <<clock, summaries, report>>
        /\ eodReported' = FALSE /\ healthy' = FALSE /\ cleared' = TRUE
        /\ InReportWindow => restarts' = restarts + 1
        /\ ~InReportWindow => restarts' = restarts
    BY <1>4 DEF StartDaemon
  <2>2. TimeOfDay' = TimeOfDay /\ InReportWindow' = InReportWindow
    BY <2>1 DEF TimeOfDay, InReportWindow
  <2>3. DaemonTypeOK'
    <3>1. clock' \in Nat /\ summaries' \in Nat /\ restarts' \in Nat
      BY <1>3, <2>1 DEF DaemonTypeOK
    <3>2. eodReported' \in BOOLEAN /\ healthy' \in BOOLEAN /\ cleared' \in BOOLEAN
      BY <2>1, Zenon
    <3>3. QED BY <3>1, <3>2 DEF DaemonTypeOK
  <2>4. FlagMeansSent'
    BY <2>1, Zenon DEF FlagMeansSent
  <2>5. NothingYet'
    BY <1>3, <2>1, <2>2, DayHasHours DEF DaemonInv, NothingYet
  <2>6. SummariesCounted'
    BY <1>3, <2>1, <2>2 DEF DaemonInv, DaemonTypeOK, SummariesCounted
  <2>7. QED BY <2>3, <2>4, <2>5, <2>6 DEF DaemonInv
<1>5. CASE StopDaemon \/ ServiceFault \/ UNCHANGED daemonVars
  BY <1>5 DEF StopDaemon, ServiceFault, daemonVars, DaemonInv, DaemonTypeOK, NothingYet,
              FlagMeansSent, SummariesCounted, TimeOfDay, InReportWindow
<1>6. ASSUME NEW readable \in BOOLEAN, NEW delivered \in BOOLEAN,
             HealthyPoll(readable, delivered)
      PROVE  DaemonInv'
  <2>1. /\ clock' = clock /\ restarts' = restarts
        /\ eodReported' = FlagAfter
        /\ healthy' = (healthy \/ InReportWindow) /\ cleared' = (cleared \/ FirstHour)
        /\ Summary(readable, delivered)
    BY <1>6 DEF HealthyPoll
  <2>2. TimeOfDay' = TimeOfDay /\ InReportWindow' = InReportWindow
    BY <2>1 DEF TimeOfDay, InReportWindow
  <2>3. /\ SummaryDue => report' # "none" /\ summaries' = summaries + 1
        /\ ~SummaryDue => report' = report /\ summaries' = summaries
    BY <2>1 DEF Summary, LedgerStats
  <2>4. FirstHour => ~InReportWindow /\ TimeOfDay < ReportStart
    BY <1>3, DayHasHours
  <2>5. DaemonTypeOK'
    <3>1. clock' \in Nat /\ restarts' \in Nat /\ summaries' \in Nat
      BY <1>3, <2>1, <2>3 DEF DaemonTypeOK
    <3>2. healthy' \in BOOLEAN /\ cleared' \in BOOLEAN
      BY <2>1
    <3>3. eodReported' \in BOOLEAN
      BY <1>3, <2>1 DEF DaemonTypeOK, FlagAfter
    <3>4. QED BY <3>1, <3>2, <3>3 DEF DaemonTypeOK
  <2>6. NothingYet'
    <3>1. SUFFICES ASSUME TimeOfDay < ReportStart
                   PROVE  ~healthy' /\ summaries' = 0 /\ restarts' = 0
      BY <2>2 DEF NothingYet
    <3>2. ~InReportWindow
      BY <1>3, <3>1, DayHasHours
    <3>3. ~healthy /\ summaries = 0 /\ restarts = 0
      BY <3>1 DEF DaemonInv, NothingYet
    <3>4. QED BY <2>1, <2>3, <3>2, <3>3 DEF SummaryDue
  <2>7. FlagMeansSent'
    BY <1>3, <2>1, <2>3, <2>4 DEF DaemonInv, NothingYet, FlagMeansSent, SummaryDue, FlagAfter, DaemonTypeOK
  <2>8. SummariesCounted'
    BY <1>3, <2>1, <2>2, <2>3, <2>4
       DEF DaemonInv, SummariesCounted, SummaryDue, FlagAfter, DaemonTypeOK
  <2>9. QED BY <2>5, <2>6, <2>7, <2>8 DEF DaemonInv
<1>7. CASE NextUnit
  <2>1. clock' = clock + 1 /\ eodReported' = eodReported
    BY <1>7 DEF NextUnit
  <2>2. TimeOfDay' = 0 \/ TimeOfDay' = t + 1
    <3>1. (clock + 1) % DayLength = 0 \/ (clock + 1) % DayLength = (clock % DayLength) + 1
      BY <1>1, NextTimeOfDay, DayHasHours DEF DaemonTypeOK
    <3>2. QED BY <2>1, <3>1 DEF TimeOfDay, t, DayLength
  <2>3. CASE TimeOfDay' = 0
    <3>1. ~healthy' /\ ~cleared' /\ summaries' = 0 /\ restarts' = 0
          /\ healthy' \in BOOLEAN /\ cleared' \in BOOLEAN
      BY <1>7, <2>3 DEF NextUnit, TimeOfDay
    <3>2. QED
      BY <1>3, <2>1, <3>1 DEF DaemonInv, DaemonTypeOK, NothingYet, FlagMeansSent, SummariesCounted
  <2>4. CASE TimeOfDay' # 0
    <3>1. UNCHANGED <<report, summaries, restarts, healthy, cleared>>
      BY <1>7, <2>4 DEF NextUnit, TimeOfDay
    <3>2. TimeOfDay' = t + 1
      BY <2>2, <2>4
    <3>3. QED
      BY <1>3, <2>1, <3>1, <3>2, DayHasHours
         DEF DaemonInv, DaemonTypeOK, NothingYet, FlagMeansSent, SummariesCounted, InReportWindow
  <2>5. QED BY <2>3, <2>4
<1>8. QED BY <1>4, <1>5, <1>6, <1>7 DEF DaemonNext

LEMMA DaemonExplains == DaemonInv => SummariesAreExplained
  BY DEF DaemonInv, FlagMeansSent, SummariesCounted, SummariesAreExplained

\* A report window that closes without a summary had a fault in every poll of
\* the last process, or that process never noticed the day; and no day has more
\* summaries than starts in its window and one (telemetry_daemon.py:81-140).
THEOREM DaemonAccountsForSummaries == DaemonSpec => []SummariesAreExplained
<1>1. DaemonSpec => []DaemonInv
  BY DaemonStart, DaemonStep, PTL DEF DaemonSpec
<1>2. QED BY <1>1, DaemonExplains, PTL
-----------------------------------------------------------------------------
(***************************************************************************)
(* The billing guard.                                                      *)
(***************************************************************************)
GuardTypeOK ==
  /\ hour \in Nat /\ published \subseteq Lines
  /\ step \in {"idle", "query", "save", "mark", "stop"}
  /\ config["enforce"] \in BOOLEAN

\* A check that stops units has written the marker, one that has a verdict to
\* save has seen the window as it is.
CheckKnows ==
  /\ step = "stop" => marker
  /\ step = "save" => items = Window

GuardInv == GuardTypeOK /\ CheckKnows

LEMMA GuardStart == GuardInit => GuardInv
  BY GuardAssumption DEF GuardInit, GuardInv, GuardTypeOK, CheckKnows, ConfigFields

LEMMA GuardStep == GuardInv /\ [GuardNext]_guardVars => GuardInv'
<1> SUFFICES ASSUME GuardInv, [GuardNext]_guardVars PROVE GuardInv'
  OBVIOUS
<1> USE DEF GuardInv, GuardTypeOK, CheckKnows
<1>1. ASSUME NEW pre \in BOOLEAN, StartCheck(pre) PROVE GuardInv'
  BY <1>1 DEF StartCheck, Exit, world, Window
<1>2. CASE CheckStep
  <2>1. CASE QueryFails \/ QueryRecentCosts
    BY <2>1 DEF QueryFails, QueryRecentCosts, ApiError, Exit, world, Window
  <2>2. CASE SaveCheck \/ WriteMarker \/ WriteFails
    BY <2>2 DEF SaveCheck, WriteMarker, WriteFails, Exit, world, check, Window
  <2>3. ASSUME NEW u \in Units, StopUnit(u) PROVE GuardInv'
    BY <2>3 DEF StopUnit, Window
  <2>4. CASE StopInstance \/ StopInstanceFails \/ EndLockdown
    BY <2>4 DEF StopInstance, StopInstanceFails, EndLockdown, Exit, world, Window
  <2>5. QED BY <1>2, <2>1, <2>2, <2>3, <2>4 DEF CheckStep
<1>3. CASE KillCheck \/ NextHour \/ Unlock
  BY <1>3 DEF KillCheck, NextHour, Unlock, Exit, world, check, Window
<1>4. ASSUME NEW l \in Lines, Publish(l) PROVE GuardInv'
  BY <1>4 DEF Publish, check
<1>5. CASE EditConfig
  BY <1>5, GuardAssumption DEF EditConfig, check, ConfigFields
<1>6. ASSUME NEW u \in Units, StartUnit(u) PROVE GuardInv'
  BY <1>6 DEF StartUnit, check, Window
<1>7. CASE StartInstance \/ UNCHANGED guardVars
  BY <1>7 DEF StartInstance, guardVars, check, Window
<1>8. QED BY <1>1, <1>2, <1>3, <1>4, <1>5, <1>6, <1>7 DEF GuardNext

LEMMA GuardInvariance == GuardSpec => []GuardInv
  BY GuardStart, GuardStep, PTL DEF GuardSpec

\* The positive lines of the window are the costs of the last hours.
LEMMA WindowShowsCosts ==
  ASSUME GuardTypeOK
  PROVE  /\ PositiveCost(Window) = MapThenSumSet(LAMBDA l : Amount[l], CostsOfLastHours)
         /\ PositiveCost(Window) \in Int
<1>1. {l \in Window : Amount[l] > 0} = CostsOfLastHours
  <2>1. ASSUME NEW l \in Lines
        PROVE  HourOf[l] >= hour - Lookback /\ HourOf[l] < hour
                 <=> HourOf[l] \in (hour - Lookback)..(hour - 1)
    BY GuardAssumption DEF GuardTypeOK
  <2>2. QED BY <2>1 DEF Window, CostsOfLastHours, GuardTypeOK
<1>2. MapThenSumSet(LAMBDA l : Amount[l], CostsOfLastHours) = SetSum(Amount, CostsOfLastHours)
  BY DEF SetSum, MapThenSumSet, MapThenFoldSet
<1>3. IsFiniteSet(CostsOfLastHours) /\ \A l \in CostsOfLastHours : Amount[l] \in Int
  BY GuardAssumption, FS_Subset DEF CostsOfLastHours
<1>4. SetSum(Amount, CostsOfLastHours) \in Int
  BY <1>3, SumType
<1>5. QED BY <1>1, <1>2, <1>4 DEF PositiveCost

LEMMA QuietStep ==
  GuardInv /\ [GuardNext]_guardVars =>
    [(/\ step # "idle" /\ step' = "idle" /\ lastRc' = 0 /\ ~preflight)
       => MapThenSumSet(LAMBDA l : Amount[l], CostsOfLastHours) < Threshold]_guardVars
<1> SUFFICES ASSUME GuardInv, GuardNext, step # "idle", step' = "idle", lastRc' = 0,
                    ~preflight
             PROVE  MapThenSumSet(LAMBDA l : Amount[l], CostsOfLastHours) < Threshold
  OBVIOUS
<1>1. SaveCheck
  BY DEF GuardInv, GuardTypeOK, GuardNext, StartCheck, CheckStep, QueryFails, QueryRecentCosts,
         ApiError, WriteMarker, WriteFails, StopUnit, StopInstance, StopInstanceFails,
         EndLockdown, KillCheck, NextHour, Publish, EditConfig, Unlock, StartUnit,
         StartInstance, Exit, ReturnCode, check, world
<1>2. items = Window /\ ~Breached(items)
  BY <1>1 DEF SaveCheck, Exit, GuardInv, CheckKnows
<1>3. QED
  BY <1>2, WindowShowsCosts, GuardAssumption DEF Breached, GuardInv

\* A check that exits 0 outside preflight has seen every published cost of its
\* window, and together they stay below the threshold
\* (oci_billing_guard.py: evaluate_costs and run).
THEOREM QuietChecksSawNoCost == GuardSpec => QuietMeansNoCost
  BY GuardInvariance, QuietStep, PTL DEF GuardSpec, QuietMeansNoCost

LEMMA LockedStep ==
  GuardInv /\ [GuardNext]_guardVars =>
    [(\/ vm /\ ~vm'
      \/ /\ step # "idle" /\ step' = "idle" /\ ~preflight
         /\ config["enforce"] /\ config["failClosed"] /\ lastRc' \in {2, 3})
       => marker /\ tried = Units]_guardVars
  BY DEF GuardInv, GuardTypeOK, CheckKnows, GuardNext, StartCheck, CheckStep, QueryFails,
         QueryRecentCosts, ApiError, SaveCheck, WriteMarker, WriteFails, StopUnit,
         StopInstance, StopInstanceFails, EndLockdown, KillCheck, NextHour, Publish,
         EditConfig, Unlock, StartUnit, StartInstance, Exit, ReturnCode, check, world

\* The instance is stopped, and a breach or an error reported under an enforcing
\* configuration, only with the marker on disk and every unit called upon to
\* stop (lock_down and run of oci_billing_guard.py).
THEOREM LockdownComesFirst == GuardSpec => ReportedMeansLocked
  BY GuardInvariance, LockedStep, PTL DEF GuardSpec, ReportedMeansLocked
-----------------------------------------------------------------------------
(***************************************************************************)
(* The market scan.                                                        *)
(***************************************************************************)
ScanTypeOK ==
  /\ minute \in 0..MaxMinute
  /\ feed \in [Instruments -> Nat] /\ \A i \in Instruments : feed[i] <= minute
  /\ fetched \in [Instruments -> SUBSET (0..MaxMinute)]
  /\ waiting \subseteq Stocks /\ deep \subseteq Stocks /\ executable \subseteq Stocks

\* What the indices shared at first they still have, and it is in the candles
\* already received of them.
BegunIsShared ==
  /\ \A i \in Contexts : begun \subseteq Bars(i)
  /\ request \in {"bank", "vix", "stocks", "decide"} => begun \subseteq fetched["market"]
  /\ request \in {"vix", "stocks", "decide"} => begun \subseteq fetched["bank"]
  /\ request \in {"stocks", "decide"} => begun \subseteq fetched["vix"]

\* A decision of the running cycle: of its moment, and of its market.
OfThisMoment(d) ==
  /\ d.asOf = AsOf /\ d.begun = begun /\ d.ends = {AsOf}
  /\ d.direction = "LONG" => Return("market") > 0
  /\ d.direction = "SHORT" => Return("market") < 0

\* Decisions are made on candles that stay, and belong to the running cycle
\* or, between cycles, to the last one.
DecisionsOfCycle ==
  /\ request = "decide" => /\ CommonMinutes # {}
                           /\ \A d \in decisions : OfThisMoment(d)
  /\ request \notin {"decide", "none"} => decisions = {}

ScanInv == ScanTypeOK /\ BegunIsShared /\ DecisionsOfCycle /\ OneMomentPerCycle

LEMMA ScanConstants ==
  /\ MaxMinute \in Nat /\ IsFiniteSet(Stocks) /\ Stocks \subseteq Instruments
  /\ Contexts \subseteq Instruments
  /\ Level \in [Instruments -> [0..(MaxMinute + 1) -> Int]]
  /\ Late \subseteq Instruments
  BY ScanAssumption DEF Instruments

LEMMA MinutesFinite ==
  ASSUME NEW M \in SUBSET (0..MaxMinute)
  PROVE  IsFiniteSet(M) /\ M \subseteq Int
<1>1. 0 \in Int /\ MaxMinute \in Int
  BY ScanConstants
<1>2. IsFiniteSet(0..MaxMinute)
  BY <1>1, FS_Interval
<1>3. IsFiniteSet(M)
  BY <1>2, FS_Subset
<1>4. QED BY <1>3

LEMMA BarsAreMinutes ==
  ASSUME ScanTypeOK, NEW i \in Instruments
  PROVE  Bars(i) \subseteq 0..MaxMinute
  BY ScanConstants DEF ScanTypeOK, Bars

\* The moment is the last minute the indices share.
LEMMA MomentIsShared ==
  ASSUME ScanTypeOK, CommonMinutes # {}
  PROVE  /\ AsOf \in CommonMinutes /\ AsOf \in 0..MaxMinute
         /\ \A m \in CommonMinutes : m <= AsOf
<1>1. CommonMinutes \in SUBSET (0..MaxMinute)
  BY DEF CommonMinutes
<1>2. IsFiniteSet(CommonMinutes) /\ CommonMinutes \subseteq Int
  BY <1>1, MinutesFinite
<1>3. AsOf \in CommonMinutes /\ \A m \in CommonMinutes : AsOf >= m
  BY <1>2, MaxIsGreatest DEF AsOf
<1>4. AsOf \in 0..MaxMinute
  BY <1>1, <1>3
<1>5. \A m \in CommonMinutes : m <= AsOf
  BY <1>1, <1>3, <1>4
<1>6. QED BY <1>3, <1>4, <1>5

\* A series cut at the moment ends in it.
LEMMA PrefixEndsThere ==
  ASSUME ScanTypeOK, NEW i \in Instruments, NEW m \in 0..MaxMinute, Prefix(i, m) # {}
  PROVE  /\ Max(Prefix(i, m)) = m
         /\ Min(Prefix(i, m)) \in 0..MaxMinute
<1> DEFINE P == Prefix(i, m)
<1>1. P = {k \in fetched[i] : k <= m} /\ m \in fetched[i]
  BY DEF Prefix
<1>2. P \in SUBSET (0..MaxMinute) /\ m \in P /\ \A k \in P : k <= m
  BY <1>1 DEF ScanTypeOK
<1> HIDE DEF P
<1>3. IsFiniteSet(P) /\ P \subseteq Int /\ P # {}
  BY <1>2, MinutesFinite
<1>4. Max(P) \in P /\ \A k \in P : Max(P) >= k
  BY <1>3, MaxIsGreatest
<1>5. Max(P) = m
  <2>1. Max(P) >= m /\ Max(P) <= m
    BY <1>2, <1>4
  <2>2. Max(P) \in Int
    BY <1>3, <1>4
  <2>3. QED BY <2>1, <2>2
<1>6. Min(P) \in 0..MaxMinute
  BY <1>2, <1>3, MinIsLeast
<1>7. QED BY <1>5, <1>6 DEF P

LEMMA ReturnTyped ==
  ASSUME ScanTypeOK, CommonMinutes # {}
  PROVE  Return("market") \in Int
<1> DEFINE P == Prefix("market", AsOf)
<1>1. "market" \in Contexts /\ "market" \in Instruments
  BY DEF Contexts, Instruments
<1>2. AsOf \in 0..MaxMinute /\ AsOf \in fetched["market"]
  BY <1>1, MomentIsShared DEF CommonMinutes
<1>3. AsOf \in P
  BY <1>2 DEF Prefix
<1>4. Max(P) = AsOf /\ Min(P) \in 0..MaxMinute
  BY <1>1, <1>2, <1>3, PrefixEndsThere
<1>5. Return("market") = Level["market"][Max(P) + 1] - Level["market"][Min(P)]
  BY DEF Return
<1> HIDE DEF P
<1>6. Max(P) + 1 \in 0..(MaxMinute + 1) /\ Min(P) \in 0..(MaxMinute + 1)
  BY <1>2, <1>4, ScanConstants
<1>7. Level["market"] \in [0..(MaxMinute + 1) -> Int]
  BY <1>1, ScanConstants
<1>8. Level["market"][Max(P) + 1] \in Int /\ Level["market"][Min(P)] \in Int
  BY <1>6, <1>7
<1>9. QED BY <1>5, <1>8

\* What the running cycle decided in one moment fits together.
LEMMA OneMomentFits ==
  ASSUME ScanTypeOK, BegunIsShared, request = "decide", CommonMinutes # {},
         NEW D, \A d \in D : OfThisMoment(d)
  PROVE  \A d \in D :
           /\ d.ends = {d.asOf}
           /\ \A m \in d.begun : m <= d.asOf
           /\ \A e \in D : /\ e.asOf = d.asOf
                          /\ ~(d.direction = "LONG" /\ e.direction = "SHORT")
<1>1. ASSUME NEW m \in begun PROVE m <= AsOf
  <2>1. \A i \in Contexts : m \in fetched[i]
    BY DEF BegunIsShared, Contexts
  <2>2. m \in fetched["market"] /\ "market" \in Instruments
    BY <2>1 DEF Contexts, Instruments
  <2>3. m \in 0..MaxMinute
    BY <2>2 DEF ScanTypeOK
  <2>4. QED BY <2>1, <2>3, MomentIsShared DEF CommonMinutes
<1>2. ASSUME NEW d \in D, NEW e \in D,
             d.direction = "LONG", e.direction = "SHORT"
      PROVE  FALSE
  <2>1. Return("market") > 0 /\ Return("market") < 0
    BY <1>2 DEF OfThisMoment
  <2>2. QED BY <2>1, ReturnTyped
<1>3. QED BY <1>1, <1>2 DEF OfThisMoment

LEMMA ScanStart == ScanInit => ScanInv
  BY ScanConstants
     DEF ScanInit, ScanInv, ScanTypeOK, BegunIsShared, DecisionsOfCycle, OneMomentPerCycle,
         Nothing

\* Time and the feeds, in a step of the cycle and in one of the vendor.
LEMMA FeedsGrow ==
  ASSUME ScanTypeOK, [ScanNext]_scanVars
  PROVE  /\ minute' \in 0..MaxMinute
         /\ feed' \in [Instruments -> Nat]
         /\ \A i \in Instruments : feed'[i] <= minute' /\ feed[i] <= feed'[i]
<1>1. CASE NextMinute
  BY <1>1, ScanConstants DEF ScanTypeOK, NextMinute
<1>2. ASSUME NEW i \in Late, CatchUp(i)
      PROVE  /\ minute' \in 0..MaxMinute
             /\ feed' \in [Instruments -> Nat]
             /\ \A j \in Instruments : feed'[j] <= minute' /\ feed[j] <= feed'[j]
  BY <1>2, ScanConstants DEF ScanTypeOK, CatchUp
<1>3. CASE World
  BY <1>3 DEF ScanTypeOK, World
<1>4. QED
  BY <1>1, <1>2, <1>3
     DEF ScanNext, scanVars, World, Leave, Retry, RequestRaises, CandleRaises, StockMissing,
         BeginScan, TimingsKnown, ExchangeOpen, LoadUniverse, QuoteBatch, ChooseDeep,
         SectorKnown, SectorsDone, FetchContext, FetchStock, AlignData, Decided, Decide,
         Reject, EndScan

\* The cycle's own state, step by step.
ScanStateOK ==
  /\ fetched \in [Instruments -> SUBSET (0..MaxMinute)]
  /\ waiting \subseteq Stocks /\ deep \subseteq Stocks /\ executable \subseteq Stocks

LEMMA LeaveIsOK == Leave => ScanStateOK'
  BY DEF Leave, ScanStateOK, Nothing

LEMMA AlignedIsDeep == Aligned \subseteq deep
  BY DEF Aligned

LEMMA ScanTypeStep == ScanTypeOK /\ [ScanNext]_scanVars => ScanTypeOK'
<1> SUFFICES ASSUME ScanTypeOK, [ScanNext]_scanVars PROVE ScanTypeOK'
  OBVIOUS
<1>1. ScanStateOK
  BY DEF ScanTypeOK, ScanStateOK
<1>2. SUFFICES ScanStateOK'
  BY FeedsGrow DEF ScanTypeOK, ScanStateOK
<1>3. CASE NextMinute \/ Retry \/ UNCHANGED scanVars \/ (\E i \in Late : CatchUp(i))
  BY <1>1, <1>3 DEF NextMinute, Retry, CatchUp, scanVars, ScanStateOK
<1>4. CASE RequestRaises \/ CandleRaises \/ EndScan
  BY <1>4, LeaveIsOK DEF RequestRaises, CandleRaises, EndScan
<1>5. CASE BeginScan \/ TimingsKnown \/ ExchangeOpen
  BY <1>1, <1>5 DEF BeginScan, TimingsKnown, ExchangeOpen, ScanStateOK
<1>6. CASE StockMissing
  BY <1>1, <1>6 DEF StockMissing, Skip, ScanStateOK
<1>7. ASSUME NEW file \in InstrumentFiles, LoadUniverse(file) PROVE ScanStateOK'
  BY <1>1, <1>7, ScanAssumption DEF LoadUniverse, MisEquities, ScanStateOK
<1>8. ASSUME NEW batch \in SUBSET waiting, NEW kind, QuoteBatch(batch, kind) PROVE ScanStateOK'
  BY <1>1, <1>8 DEF QuoteBatch, ScanStateOK
<1>9. ASSUME NEW chosen \in SUBSET executable, ChooseDeep(chosen) PROVE ScanStateOK'
  BY <1>1, <1>9, LeaveIsOK DEF ChooseDeep, ScanStateOK
<1>10. ASSUME NEW s \in Stocks, SectorKnown(s) \/ FetchStock(s) PROVE ScanStateOK'
  BY <1>1, <1>10, BarsAreMinutes, ScanConstants DEF SectorKnown, FetchStock, Skip, ScanStateOK
<1>11. ASSUME NEW s \in Stocks, Decide(s) \/ Reject(s) PROVE ScanStateOK'
  BY <1>1, <1>11 DEF Decide, Reject, Decided, Skip, ScanStateOK
<1>12. CASE SectorsDone
  BY <1>1, <1>12, LeaveIsOK DEF SectorsDone, ScanStateOK
<1>13. ASSUME NEW i \in Contexts, FetchContext(i) PROVE ScanStateOK'
  BY <1>1, <1>13, BarsAreMinutes, ScanConstants DEF FetchContext, ScanStateOK
<1>14. CASE AlignData
  BY <1>1, <1>14, LeaveIsOK, AlignedIsDeep DEF AlignData, ScanStateOK
<1>15. QED
  BY <1>3, <1>4, <1>5, <1>6, <1>7, <1>8, <1>9, <1>10, <1>11, <1>12, <1>13, <1>14 DEF ScanNext

\* What the indices shared at first stays in them, and the stages keep the
\* candles of the indices behind them.
LEMMA BegunStep == ScanTypeOK /\ BegunIsShared /\ [ScanNext]_scanVars => BegunIsShared'
<1> SUFFICES ASSUME ScanTypeOK, BegunIsShared, [ScanNext]_scanVars PROVE BegunIsShared'
  OBVIOUS
<1>1. \A i \in Contexts : Bars(i) \subseteq Bars(i)'
  <2>1. ASSUME NEW i \in Contexts, NEW m \in 0..feed[i] PROVE m \in 0..feed'[i]
    BY <2>1, FeedsGrow, ScanConstants DEF ScanTypeOK
  <2>2. QED BY <2>1 DEF Bars
<1>2. CASE UNCHANGED begun /\ UNCHANGED fetched /\ UNCHANGED request
  BY <1>1, <1>2 DEF BegunIsShared
<1>3. ASSUME UNCHANGED begun, request' \in {"timings", "status", "files", "quotes", "sectors"}
      PROVE  BegunIsShared'
  BY <1>1, <1>3 DEF BegunIsShared
<1>4. CASE Leave
  BY <1>4 DEF Leave, BegunIsShared
<1>5. CASE RequestRaises \/ CandleRaises \/ EndScan
  BY <1>4, <1>5 DEF RequestRaises, CandleRaises, EndScan
<1>6. CASE NextMinute \/ Retry \/ UNCHANGED scanVars \/ StockMissing \/ (\E i \in Late : CatchUp(i))
  BY <1>2, <1>6 DEF NextMinute, Retry, CatchUp, scanVars, StockMissing
<1>7. CASE BeginScan \/ TimingsKnown \/ ExchangeOpen \/ (\E file \in InstrumentFiles : LoadUniverse(file))
  BY <1>3, <1>7 DEF BeginScan, TimingsKnown, ExchangeOpen, LoadUniverse, Proceed
<1>8. ASSUME NEW batch, NEW kind, QuoteBatch(batch, kind) PROVE BegunIsShared'
  BY <1>2, <1>8 DEF QuoteBatch
<1>9. ASSUME NEW chosen, ChooseDeep(chosen) PROVE BegunIsShared'
  BY <1>3, <1>4, <1>9 DEF ChooseDeep, Proceed
<1>10. ASSUME NEW s \in Stocks, SectorKnown(s) \/ Decide(s) \/ Reject(s) PROVE BegunIsShared'
  BY <1>2, <1>10 DEF SectorKnown, Decide, Reject, Decided
<1>11. ASSUME NEW s \in Stocks, FetchStock(s) PROVE BegunIsShared'
  <2>1. /\ UNCHANGED begun /\ UNCHANGED request
        /\ fetched' = [fetched EXCEPT ![s] = Bars(s)]
    BY <1>11 DEF FetchStock
  <2>2. \A i \in Contexts : i # s
    BY ScanAssumption
  <2>3. \A i \in Contexts : fetched'[i] = fetched[i]
    BY <2>1, <2>2, ScanConstants DEF ScanTypeOK
  <2>4. QED BY <1>1, <2>1, <2>3 DEF BegunIsShared, Contexts
<1>12. CASE SectorsDone
  <2>1. CASE ~Leave
    <3>1. begun' = {m \in 0..minute : \A i \in Contexts : m \in Bars(i)} /\ request' = "market"
      BY <1>12, <2>1 DEF SectorsDone, Proceed
    <3>2. QED BY <1>1, <3>1 DEF BegunIsShared
  <2>2. QED BY <1>4, <2>1
<1>13. ASSUME NEW i \in Contexts, FetchContext(i) PROVE BegunIsShared'
  <2>1. /\ UNCHANGED begun /\ request = i
        /\ fetched' = [fetched EXCEPT ![i] = Bars(i)]
        /\ request' = (CASE i = "market" -> "bank" [] i = "bank" -> "vix" [] i = "vix" -> "stocks")
    BY <1>13 DEF FetchContext, Proceed
  <2>2. i \in {"market", "bank", "vix"}
    BY DEF Contexts
  <2>3. begun \subseteq Bars(i)
    BY DEF BegunIsShared
  <2>4. fetched'[i] = Bars(i) /\ \A k \in Contexts : k # i => fetched'[k] = fetched[k]
    BY <2>1, ScanConstants DEF ScanTypeOK
  <2>5. CASE i = "market"
    BY <1>1, <2>1, <2>3, <2>4, <2>5 DEF BegunIsShared, Contexts
  <2>6. CASE i = "bank"
    BY <1>1, <2>1, <2>3, <2>4, <2>6 DEF BegunIsShared, Contexts
  <2>7. CASE i = "vix"
    BY <1>1, <2>1, <2>3, <2>4, <2>7 DEF BegunIsShared, Contexts
  <2>8. QED BY <2>2, <2>5, <2>6, <2>7
<1>14. CASE AlignData
  <2>1. CASE ~Leave
    <3>1. UNCHANGED begun /\ UNCHANGED fetched /\ request' = "decide" /\ request = "stocks"
      BY <1>14, <2>1 DEF AlignData, Proceed
    <3>2. QED BY <1>1, <3>1 DEF BegunIsShared
  <2>2. QED BY <1>4, <2>1
<1>15. QED
  BY <1>5, <1>6, <1>7, <1>8, <1>9, <1>10, <1>11, <1>12, <1>13, <1>14 DEF ScanNext

\* The moment and the returns depend on the candles received and the stocks of
\* the scan.
LEMMA SameMoment ==
  ASSUME UNCHANGED fetched, UNCHANGED begun, UNCHANGED deep
  PROVE  /\ CommonMinutes' = CommonMinutes /\ AsOf' = AsOf /\ Aligned' = Aligned
         /\ \A d : OfThisMoment(d)' <=> OfThisMoment(d)
  BY DEF CommonMinutes, AsOf, Aligned, Prefix, OfThisMoment, Return

\* A decision is of the running cycle's moment and goes its market's way.
LEMMA DecidedNow ==
  ASSUME ScanInv, NEW s, NEW direction, Decided(s, direction),
         direction = "LONG" => Return("market") > 0,
         direction = "SHORT" => Return("market") < 0
  PROVE  \A d \in decisions' : OfThisMoment(d)
<1> DEFINE ends == {Max(Prefix(i, AsOf)) : i \in Contexts \cup Aligned}
           new == [symbol |-> s, asOf |-> AsOf, direction |-> direction, begun |-> begun,
                   ends |-> ends]
<1>1. request = "decide" /\ decisions' = decisions \cup {new}
  BY DEF Decided
<1>2. ScanTypeOK /\ CommonMinutes # {} /\ \A d \in decisions : OfThisMoment(d)
  BY <1>1 DEF ScanInv, DecisionsOfCycle
<1>3. ASSUME NEW i \in Contexts \cup Aligned PROVE Max(Prefix(i, AsOf)) = AsOf
  <2>1. i \in Instruments
    BY <1>2, AlignedIsDeep, ScanConstants DEF ScanTypeOK
  <2>2. AsOf \in CommonMinutes /\ AsOf \in 0..MaxMinute
    BY <1>2, MomentIsShared
  <2>3. Prefix(i, AsOf) # {}
    <3>1. CASE i \in Contexts
      <4>1. AsOf \in fetched[i]
        BY <2>2, <3>1 DEF CommonMinutes
      <4>2. AsOf \in Prefix(i, AsOf)
        BY <2>2, <4>1 DEF Prefix
      <4>3. QED BY <4>2
    <3>2. CASE i \in Aligned
      BY <3>2 DEF Aligned
    <3>3. QED BY <3>1, <3>2
  <2>4. QED BY <1>2, <2>1, <2>2, <2>3, PrefixEndsThere
<1>4. "market" \in Contexts
  BY DEF Contexts
<1>5. ends = {AsOf}
  BY <1>3, <1>4
<1> HIDE DEF ends
<1>6. OfThisMoment(new)
  BY <1>5 DEF OfThisMoment
<1>7. QED BY <1>1, <1>2, <1>6

LEMMA DecisionsStep == ScanInv /\ [ScanNext]_scanVars => DecisionsOfCycle' /\ OneMomentPerCycle'
<1> SUFFICES ASSUME ScanInv, [ScanNext]_scanVars
             PROVE  DecisionsOfCycle' /\ OneMomentPerCycle'
  OBVIOUS
<1>1. DecisionsOfCycle /\ OneMomentPerCycle /\ ScanTypeOK'  /\ BegunIsShared'
  BY ScanTypeStep, BegunStep DEF ScanInv
<1>2. decisions = {} => OneMomentPerCycle
  BY DEF OneMomentPerCycle
<1>3. CASE UNCHANGED <<request, decisions, fetched, begun, deep>>
  BY <1>1, <1>3, SameMoment DEF DecisionsOfCycle, OneMomentPerCycle
<1>4. CASE /\ request \notin {"decide", "none"} /\ request' # "decide"
           /\ UNCHANGED decisions
  BY <1>1, <1>4 DEF DecisionsOfCycle, OneMomentPerCycle
<1>5. CASE Leave /\ UNCHANGED decisions
  BY <1>1, <1>5 DEF Leave, Proceed, DecisionsOfCycle, OneMomentPerCycle
<1>6. CASE RequestRaises \/ CandleRaises \/ EndScan
  BY <1>5, <1>6 DEF RequestRaises, CandleRaises, EndScan
<1>7. CASE NextMinute \/ Retry \/ UNCHANGED scanVars \/ (\E i \in Late : CatchUp(i))
  BY <1>3, <1>7 DEF NextMinute, Retry, CatchUp, scanVars
<1>8. CASE StockMissing \/ TimingsKnown \/ ExchangeOpen \/ (\E file \in InstrumentFiles : LoadUniverse(file))
  BY <1>4, <1>8 DEF StockMissing, TimingsKnown, ExchangeOpen, LoadUniverse, Proceed
<1>9. CASE BeginScan
  BY <1>9 DEF BeginScan, Proceed, DecisionsOfCycle, OneMomentPerCycle
<1>10. ASSUME NEW batch, NEW kind, QuoteBatch(batch, kind)
       PROVE  DecisionsOfCycle' /\ OneMomentPerCycle'
  BY <1>4, <1>10 DEF QuoteBatch
<1>11. ASSUME NEW chosen, ChooseDeep(chosen) PROVE DecisionsOfCycle' /\ OneMomentPerCycle'
  BY <1>4, <1>5, <1>11 DEF ChooseDeep, Proceed
<1>12. ASSUME NEW s \in Stocks, SectorKnown(s) \/ FetchStock(s)
       PROVE  DecisionsOfCycle' /\ OneMomentPerCycle'
  BY <1>4, <1>12 DEF SectorKnown, FetchStock
<1>13. CASE SectorsDone
  BY <1>4, <1>5, <1>13 DEF SectorsDone, Proceed
<1>14. ASSUME NEW i \in Contexts, FetchContext(i) PROVE DecisionsOfCycle' /\ OneMomentPerCycle'
  <2>1. i \in {"market", "bank", "vix"}
    BY DEF Contexts
  <2>2. UNCHANGED decisions /\ request = i /\ request' \in {"bank", "vix", "stocks"}
    BY <1>14, <2>1 DEF FetchContext, Proceed
  <2>3. QED BY <1>4, <2>1, <2>2
<1>15. CASE AlignData
  <2>1. CASE ~Leave
    <3>1. /\ CommonMinutes # {} /\ UNCHANGED <<decisions, fetched, begun, deep>>
          /\ request = "stocks" /\ request' = "decide"
      BY <1>15, <2>1 DEF AlignData, Proceed
    <3>2. decisions' = {} /\ CommonMinutes' # {}
      BY <1>1, <3>1, SameMoment DEF DecisionsOfCycle
    <3>3. QED BY <3>1, <3>2 DEF DecisionsOfCycle, OneMomentPerCycle
  <2>2. QED BY <1>5, <1>15, <2>1 DEF AlignData
<1>16. ASSUME NEW s \in Stocks, Decide(s) \/ Reject(s)
       PROVE  DecisionsOfCycle' /\ OneMomentPerCycle'
  <2>1. \A d \in decisions' : OfThisMoment(d)
    <3>1. CASE Decide(s)
      <4>1. Decided(s, Direction(s)) /\ Direction(s) \in {"LONG", "SHORT"}
        BY <3>1 DEF Decide, Direction
      <4>2. /\ Direction(s) = "LONG" => Return("market") > 0
            /\ Direction(s) = "SHORT" => Return("market") < 0
        BY <3>1 DEF Decide, Qualifies, LongGate, ShortGate
      <4>3. QED BY <4>1, <4>2, DecidedNow
    <3>2. CASE Reject(s)
      BY <3>2, DecidedNow DEF Reject
    <3>3. QED BY <1>16, <3>1, <3>2
  <2>2. UNCHANGED <<request, fetched, begun, deep>> /\ request = "decide"
    BY <1>16 DEF Decide, Reject, Decided
  <2>3. CommonMinutes' # {} /\ \A d \in decisions' : OfThisMoment(d)'
    BY <1>1, <2>1, <2>2, SameMoment DEF DecisionsOfCycle
  <2>4. DecisionsOfCycle'
    BY <2>2, <2>3 DEF DecisionsOfCycle
  <2>5. OneMomentPerCycle'
    BY <1>1, <2>1, <2>2, OneMomentFits DEF ScanInv, DecisionsOfCycle, OneMomentPerCycle
  <2>6. QED BY <2>4, <2>5
<1>17. QED
  BY <1>6, <1>7, <1>8, <1>9, <1>10, <1>11, <1>12, <1>13, <1>14, <1>15, <1>16 DEF ScanNext

\* However the feeds move on while a cycle collects its candles, its decisions
\* rest on one minute, which every index had and which is no older than what
\* they shared when it began, and all of them go the market's way
\* (runtime/paper_runtime.py: the scan of run_cycle; features/meta_features.py).
THEOREM ScanDecidesInOneMoment == ScanSpec => []OneMomentPerCycle
<1>1. ScanInv /\ [ScanNext]_scanVars => ScanInv'
  BY ScanTypeStep, BegunStep, DecisionsStep DEF ScanInv
<1>2. ScanInv => OneMomentPerCycle
  BY DEF ScanInv
<1>3. QED BY <1>1, <1>2, ScanStart, PTL DEF ScanSpec
=============================================================================
