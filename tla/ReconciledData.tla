--------------------------- MODULE ReconciledData ---------------------------
(***************************************************************************)
(* The data half of scripts/run_reconciled_cpr_oi_backtest.py, over the    *)
(* pipeline of validation/reconciled_cpr_oi.py: download the NSE archives, *)
(* choose a future for every session, fetch five-minute candles through a  *)
(* pool of workers and one API lock into a file cache, reconcile them with *)
(* the archives, and simulate only the sessions that agree.                *)
(*                                                                         *)
(* One symbol; a day has Bars candles, of which the current day has one so *)
(* far.  A payload is how many candles of each day it holds.  Files are    *)
(* written in place: a process that dies in a write leaves a torn file,    *)
(* which json.loads and zipfile refuse in every later run.                 *)
(***************************************************************************)
EXTENDS Integers, FiniteSets, FiniteSetsExt

CONSTANTS
  MaxDay,                \* the calendar of the test is 0..MaxDay
  Holidays,              \* days without an archive
  Contracts,             \* numbered monthly futures
  Expiry, ListedFrom,    \* [Contracts -> Nat]
  Bars,                  \* candles of a complete day
  VendorGaps,            \* <<file, day>> with a candle missing at the vendor
  ChunkDays,             \* 28: days of one request for cash candles
  ArchiveWorkers,        \* 8
  Workers,               \* --workers
  MaxAttempts,           \* 8
  Unreliable,            \* files whose requests may fail
  MaxRuns                \* bound on completed runs

Days == 0..MaxDay

ArchiveFiles == {"cm", "fo"} \X Days \X {0}
CashFiles == {"cash"} \X {d \div ChunkDays : d \in Days} \X {0}
\* The identity of a future's request names the last session it is chosen for
\* (the first does not change) and whether the contract had expired by then.
FutureFiles == {"active", "expired"} \X Contracts \X Days
IsFuture(f) == f \in FutureFiles
ActionsFile == <<"actions", 0, 0>>
Files == ArchiveFiles \cup CashFiles \cup FutureFiles \cup {ActionsFile}

ASSUME DataAssumption ==
  /\ MaxDay \in Nat /\ Holidays \subseteq Days
  /\ Contracts \subseteq Nat /\ IsFiniteSet(Contracts)
  /\ Expiry \in [Contracts -> Nat] /\ ListedFrom \in [Contracts -> Nat]
  /\ Bars \in Nat \ {0, 1}
  /\ VendorGaps \subseteq Files \X Days /\ Unreliable \subseteq Files
  /\ ChunkDays \in Nat \ {0}
  /\ ArchiveWorkers \in Nat \ {0} /\ Workers \in Nat \ {0}
  /\ MaxAttempts \in Nat \ {0} /\ MaxRuns \in Nat

VARIABLES
  today,
  cache,                 \* [Files -> Payloads], the cache directory
  phase,                 \* where the main thread is
  task,                  \* what the pool does with each file
  attempt,               \* failed attempts of a file's request
  hashed,                \* DatasetHasher._items
  spool,                 \* what bars.csv holds of each file
  sessions,              \* days both archives have
  cursor,                \* sessions before this day are done
  excluded,              \* days with an entry in exclusions
  simulated,             \* days handed to simulate_symbol_day
  reports                \* history: dataset hash and data of completed runs

work == <<phase, task, attempt, hashed, spool, sessions, cursor, excluded,
          simulated>>
dataVars == <<today, cache, work, reports>>

NoBars == [d \in Days |-> 0]
Whole(bars) == [kind |-> "whole", bars |-> bars]
NoFile == [kind |-> "none", bars |-> NoBars]
Torn == [kind |-> "torn", bars |-> NoBars]
-----------------------------------------------------------------------------
(***************************************************************************)
(* Which files a run wants.                                                *)
(***************************************************************************)

\* select_contracts: the nearest expiry, but on its expiry day the next one.
\* Empty if there is none (on an expiry day that is an exclusion).
SelectedContract(d) ==
  LET alive == {k \in Contracts : ListedFrom[k] <= d /\ Expiry[k] > d}
  IN  {k \in alive : \A other \in alive : Expiry[k] <= Expiry[other]}

SessionsOf(k) == {d \in sessions : k \in SelectedContract(d)}

\* fetch_inputs asks for every chunk of cash candles and, for each chosen
\* contract, for the span from a week before its first session to its last.
Specs ==
  CashFiles \cup
  {<<IF Expiry[k] < today THEN "expired" ELSE "active", k, Max(SessionsOf(k))>> :
     k \in {k \in Contracts : SessionsOf(k) # {}}}

DaysOf(f) ==
  IF f[1] = "cash" THEN {d \in Days : d \div ChunkDays = f[2]}
  ELSE {d \in Days : /\ d <= f[3]
                     /\ SessionsOf(f[2]) # {}
                     /\ d >= Min(SessionsOf(f[2])) - 7}

\* What the vendor answers today.
Served(f) ==
  Whole([d \in Days |->
    IF \/ f \in ArchiveFiles \cup {ActionsFile} \/ d \notin DaysOf(f)
       \/ d > today \/ d \in Holidays
       \/ IsFuture(f) /\ d < ListedFrom[f[2]]
    THEN 0
    ELSE IF d = today THEN 1
    ELSE IF <<f, d>> \in VendorGaps THEN Bars - 1 ELSE Bars])

\* NSE answers 404 for a holiday and before the day is over.
Published(f) == f[2] < today /\ f[2] \notin Holidays

Wanted ==
  CASE phase = "archives" -> ArchiveFiles
    [] phase = "candles" -> Specs
    [] phase = "actions" -> {ActionsFile}
    [] OTHER -> {}

DataInit ==
  /\ today = 0
  /\ cache = [f \in Files |-> NoFile]
  /\ phase = "off"
  /\ task = [f \in Files |-> "todo"]
  /\ attempt = [f \in Files |-> 0]
  /\ hashed = {} /\ spool = {} /\ sessions = {}
  /\ cursor = 0 /\ excluded = {} /\ simulated = {}
  /\ reports = {}

ProcessGone ==
  /\ phase' = "off"
  /\ task' = [f \in Files |-> "todo"]
  /\ attempt' = [f \in Files |-> 0]
  /\ hashed' = {} /\ spool' = {} /\ sessions' = {}
  /\ cursor' = 0 /\ excluded' = {} /\ simulated' = {}

StartRun ==
  /\ phase = "off" /\ Cardinality(reports) < MaxRuns
  /\ phase' = "archives"
  /\ UNCHANGED <<today, cache, task, attempt, hashed, spool, sessions, cursor,
                 excluded, simulated, reports>>
-----------------------------------------------------------------------------
(***************************************************************************)
(* One task of the pool: _download_nse, candles, corporate_actions.        *)
(***************************************************************************)
SetTask(f, state) == task' = [task EXCEPT ![f] = state]
PoolOnly == UNCHANGED <<today, phase, spool, sessions, cursor, excluded,
                        simulated, reports>>

Busy == {f \in Files : task[f] \in {"locking", "calling", "writing"}}

Started == {f \in Wanted : task[f] \notin {"todo", "collected"}}

\* Tasks are submitted day by day, cash before futures, and begun in that order.
Before(f, g) ==
  \/ f[1] = "cash" /\ IsFuture(g)
  \/ f[2] < g[2] /\ (f[1] = g[1] \/ f \in ArchiveFiles)
  \/ f[1] = "cm" /\ g[1] = "fo" /\ f[2] = g[2]

\* A worker takes a task: a file that exists is read, whatever is in it.  The
\* archives and the actions are all in the pool; of the candles the main thread
\* keeps 2 * workers there.
Take(f) ==
  /\ task[f] = "todo" /\ f \in Wanted
  /\ \A g \in Wanted : Before(g, f) => task[g] # "todo"
  /\ Cardinality(Busy) < (IF phase = "archives" THEN ArchiveWorkers ELSE Workers)
  /\ phase = "candles" => Cardinality(Started) < 2 * Workers
  /\ IF cache[f].kind # "none"
     THEN /\ SetTask(f, "fetched")
          /\ hashed' = hashed \cup {<<f, cache[f]>>}
     ELSE /\ SetTask(f, IF phase = "archives" THEN "calling" ELSE "locking")
          /\ UNCHANGED hashed
  /\ UNCHANGED <<cache, attempt>> /\ PoolOnly

\* _api_lock is held over all attempts of an authenticated request.
LockFree == \A g \in Files \ ArchiveFiles : task[g] # "calling"

Acquire(f) ==
  /\ task[f] = "locking" /\ LockFree
  /\ SetTask(f, "calling")
  /\ UNCHANGED <<cache, attempt, hashed>> /\ PoolOnly

\* The request succeeds; write_bytes has created the file and not yet filled it.
Respond(f) ==
  /\ task[f] = "calling"
  /\ f \in ArchiveFiles => Published(f)
  /\ cache' = [cache EXCEPT ![f] = Torn]
  /\ SetTask(f, "writing")
  /\ UNCHANGED <<attempt, hashed>> /\ PoolOnly

FinishWrite(f) ==
  /\ task[f] = "writing"
  /\ cache' = [cache EXCEPT ![f] = Served(f)]
  /\ hashed' = hashed \cup {<<f, Served(f)>>}
  /\ SetTask(f, "fetched")
  /\ UNCHANGED attempt /\ PoolOnly

\* A 404 for an archive: no file, no session.
NotPublished(f) ==
  /\ task[f] = "calling"
  /\ f \in ArchiveFiles /\ ~Published(f)
  /\ SetTask(f, "absent")
  /\ UNCHANGED <<cache, attempt, hashed>> /\ PoolOnly

\* Throttling, a server or a network error: again, MaxAttempts times in all.
RequestFails(f) ==
  /\ task[f] = "calling" /\ f \in Unreliable
  /\ attempt' = [attempt EXCEPT ![f] = @ + 1]
  /\ IF attempt[f] + 1 < MaxAttempts THEN UNCHANGED task ELSE SetTask(f, "failed")
  /\ UNCHANGED <<cache, hashed>> /\ PoolOnly

\* Any other HTTP error is final.
RequestRefused(f) ==
  /\ task[f] = "calling" /\ f \in Unreliable
  /\ SetTask(f, "failed")
  /\ UNCHANGED <<cache, attempt, hashed>> /\ PoolOnly
-----------------------------------------------------------------------------
(***************************************************************************)
(* The main thread.                                                        *)
(***************************************************************************)
MainOnly == UNCHANGED <<today, cache, attempt>>

\* nse_sessions when every download has ended: an error of one of them, half
\* an archive or a torn one ends the run; no session at all does too.
Has(seg, d) == task[<<seg, d, 0>>] = "fetched"
ArchivesUsable ==
  /\ \A f \in ArchiveFiles :
       /\ task[f] # "failed"
       /\ task[f] = "fetched" => cache[f].kind = "whole"
  /\ \A d \in Days : Has("cm", d) <=> Has("fo", d)
  /\ \E d \in Days : Has("cm", d)

ArchivesDone == \A f \in ArchiveFiles : task[f] \in {"fetched", "absent", "failed"}

ReadArchives ==
  /\ phase = "archives" /\ ArchivesDone /\ ArchivesUsable
  /\ phase' = "candles"
  /\ sessions' = {d \in Days : Has("cm", d)}
  /\ excluded' = {d \in sessions' : /\ SelectedContract(d) = {}
                                    /\ \E k \in Contracts : Expiry[k] = d}
  /\ UNCHANGED <<task, hashed, spool, cursor, simulated, reports>> /\ MainOnly

RunAborts ==
  /\ phase = "archives" /\ ArchivesDone /\ ~ArchivesUsable
  /\ ProcessGone
  /\ UNCHANGED <<today, cache, reports>>

\* A finished task: its rows are spooled, or, if the request failed or the
\* payload does not parse, the failure is hashed and all its days excluded.
Collect(f) ==
  /\ phase = "candles" /\ f \in Wanted /\ task[f] \in {"fetched", "failed"}
  /\ SetTask(f, "collected")
  /\ IF task[f] = "fetched" /\ cache[f].kind = "whole"
     THEN /\ spool' = spool \cup {<<f, cache[f].bars>>}
          /\ UNCHANGED <<hashed, excluded>>
     ELSE /\ hashed' = hashed \cup {<<f, NoFile>>}
          /\ excluded' = excluded \cup DaysOf(f)
          /\ UNCHANGED spool
  /\ UNCHANGED <<phase, sessions, cursor, simulated, reports>> /\ MainOnly

CandlesDone ==
  /\ phase = "candles" /\ \A f \in Specs : task[f] = "collected"
  /\ phase' = "actions"
  /\ UNCHANGED <<task, hashed, spool, sessions, cursor, excluded, simulated,
                 reports>> /\ MainOnly

\* The corporate actions: a failure leaves the ISIN out of `actions`.
ActionsDone ==
  /\ phase = "actions" /\ task[ActionsFile] \in {"fetched", "failed"}
  /\ phase' = "replay"
  /\ hashed' = IF task[ActionsFile] = "fetched" /\ cache[ActionsFile].kind = "whole"
               THEN hashed ELSE hashed \cup {<<ActionsFile, NoFile>>}
  /\ UNCHANGED <<task, spool, sessions, cursor, excluded, simulated, reports>>
  /\ MainOnly

ActionsKnown ==
  task[ActionsFile] = "fetched" /\ cache[ActionsFile].kind = "whole"

\* The candles of one day in the bars table: of the cash, of one future.
CandlesOn(rows, d) == MapThenSumSet(LAMBDA row : row[2][d], rows)
CashBars(d) == CandlesOn({row \in spool : row[1][1] = "cash"}, d)
FutureBars(k, d) == CandlesOn({row \in spool : IsFuture(row[1]) /\ row[1][2] = k}, d)

\* Mutant: the candles are compared by their prices only.
SomeBars(bars) == bars > 0

\* reconcile: the volume of the day, and with it the number of candles, must be
\* the archive's (and the prices, and a future's open interest).
Reconciles(bars) == bars = Bars

Previous(d) == Max({e \in sessions : e < d})

\* prior_contract_bar: the last earlier session that lists the contract; the
\* search gives up behind the first session more than ten days back.
HasPriorBar(k, d) ==
  \E e \in sessions :
    /\ e < d /\ ListedFrom[k] <= e
    /\ \A g \in sessions : e < g /\ g < d => d - g <= 10

\* main's body for one session: CPR comes from the previous session's cash, the
\* change of open interest from the previous day of the very same contract.
DataComplete(k, d) ==
  /\ ActionsKnown
  /\ HasPriorBar(k, d)
  /\ Reconciles(CashBars(d)) /\ Reconciles(CashBars(Previous(d)))
  /\ Reconciles(FutureBars(k, d)) /\ Reconciles(FutureBars(k, Previous(d)))

RunSession(d) ==
  /\ phase = "replay"
  /\ d >= cursor /\ \A e \in sessions : e >= cursor => d <= e
  /\ cursor' = d + 1
  /\ IF d = Min(sessions) \/ SelectedContract(d) = {}
     THEN UNCHANGED <<simulated, excluded>>
     ELSE LET k == CHOOSE c \in SelectedContract(d) : TRUE IN
          IF DataComplete(k, d)
          THEN simulated' = simulated \cup {d} /\ UNCHANGED excluded
          ELSE excluded' = excluded \cup {d} /\ UNCHANGED simulated
  /\ UNCHANGED <<phase, task, hashed, spool, sessions, reports>> /\ MainOnly

\* Mutant: the hash is taken of the identities only.
IdentitiesOnly == {item[1] : item \in hashed}

\* dataset_hash: of every identity with its payload.
DatasetHash == hashed

\* The report is written: its dataset_hash stands for the data it used.
Report ==
  /\ phase = "replay" /\ \A d \in sessions : d < cursor
  /\ reports' = reports \cup
       {[hash |-> DatasetHash, sessions |-> sessions, simulated |-> simulated,
         spool |-> spool]}
  /\ ProcessGone
  /\ UNCHANGED <<today, cache>>
-----------------------------------------------------------------------------
\* The process dies, or the billing guard stops its slice.
KillRun ==
  /\ phase # "off"
  /\ ProcessGone
  /\ UNCHANGED <<today, cache, reports>>

\* Someone deletes the cache directory: nothing else replaces a file in it.
ClearCache ==
  /\ phase = "off"
  /\ cache' = [f \in Files |-> NoFile]
  /\ UNCHANGED <<today, work, reports>>

\* A run takes less than a day.
NextCalendarDay ==
  /\ phase = "off" /\ today <= MaxDay
  /\ today' = today + 1
  /\ UNCHANGED <<cache, work, reports>>

PoolStep(f) ==
  \/ Take(f) \/ Acquire(f) \/ Respond(f) \/ FinishWrite(f)
  \/ NotPublished(f) \/ RequestFails(f) \/ RequestRefused(f)
  \/ Collect(f)

RunStep ==
  \/ \E f \in Wanted : PoolStep(f)
  \/ ReadArchives \/ RunAborts \/ CandlesDone \/ ActionsDone
  \/ \E d \in sessions : RunSession(d)
  \/ Report

DataNext ==
  \/ StartRun \/ RunStep \/ KillRun
  \/ ClearCache \/ NextCalendarDay

DataSpec == DataInit /\ [][DataNext]_dataVars
-----------------------------------------------------------------------------
(***************************************************************************)
(* Properties                                                              *)
(***************************************************************************)

\* "It never fills gaps" (reconciled_cpr_oi.py:109): whatever requests failed,
\* files were torn by a death or cached before their day was over, a simulated
\* session has every candle of itself and of the session before, of the cash
\* and of one contract that does not expire that day.
SimulatedOnGenuineData ==
  \A d \in simulated :
    LET e == Previous(d) IN
    /\ \A g \in {d, e} : \E row \in spool :
         row[1] \in CashFiles /\ row[2][g] = Bars
    /\ \E row \in spool :
         /\ IsFuture(row[1])
         /\ Expiry[row[1][2]] > d
         /\ row[2][d] = Bars /\ row[2][e] = Bars

\* The dataset hash of a report identifies the data: two runs with one hash
\* used the same candles and simulated the same sessions, whatever was cached,
\* deleted, torn or refused in between.  (canonical_json_hash sorts the keys, so
\* the order in which the threads add them is left out of the hash.)
SameHashSameData == \A a, b \in reports : a.hash = b.hash => a = b
=============================================================================
