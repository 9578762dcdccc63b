----------------------------- MODULE MarketScan -----------------------------
(***************************************************************************)
(* The scan of a paper cycle (runtime/paper_runtime.py, run_cycle between  *)
(* the exits and the entries): official session, instrument files, quotes  *)
(* of all of them, sectors, candles of the three indices and of every      *)
(* stock in turn, and the baseline decision on what is aligned.            *)
(*                                                                         *)
(* Every request takes time and may be retried, so the answers are of      *)
(* different minutes while the feeds go on.  Parsing is kept as what       *)
(* becomes of an answer: it is used, it is refused with an UpstoxDataError *)
(* or its numbers raise something else.  Prices are points around a common *)
(* level, so that a return is a difference.                                *)
(***************************************************************************)
EXTENDS Integers, FiniteSets, FiniteSetsExt

CONSTANTS
  Stocks,
  SectorName,            \* [Stocks -> names], what a company profile says
  CachedSectors,         \* stocks in sector_cache.json at first
  MaxMinute,             \* bound: minutes of the test after the open
  Level,                 \* [Instruments -> prices at the end points of minutes]
  Late,                  \* instruments whose feed may lag
  NoTrades,              \* <<instrument, minute>> without a bar
  InstrumentFiles,       \* records [bod, mis, unsound] of sets of stocks
  QuoteKinds,            \* [Stocks -> kinds of quotes there may be]
  BatchSize,             \* 500 quotes of a request
  DeepLimit,             \* deep_scan_symbols
  MinDeep,               \* 6
  MinBars,               \* 30
  MaxAttempts,           \* 3 attempts of a request
  Cost                   \* statutory cost, spread and slippage, in points

Contexts == {"market", "bank", "vix"}
Instruments == Contexts \cup Stocks

ASSUME ScanAssumption ==
  /\ IsFiniteSet(Stocks) /\ Stocks \cap Contexts = {}
  /\ {MaxMinute, BatchSize, DeepLimit, MinDeep, MinBars, MaxAttempts} \subseteq Nat \ {0}
  /\ MinDeep >= 3 /\ Cost \in Nat
  /\ Level \in [Instruments -> [0..(MaxMinute + 1) -> Int]]
  /\ Late \subseteq Instruments /\ CachedSectors \subseteq Stocks
  /\ \A file \in InstrumentFiles : file.bod \cup file.mis \cup file.unsound \subseteq Stocks

VARIABLES
  minute,
  feed,                  \* [Instruments -> latest minute the vendor has]
  request,               \* what the cycle asks for; "none" between cycles
  attempts,              \* failed attempts of that request
  waiting,               \* stocks the stage has yet to go through
  deep,                  \* the stocks the scan is about
  executable,            \* stocks with a usable quote
  sectorCache,           \* sector_cache.json
  fetched,               \* [Instruments -> minutes of the candles received]
  begun,                 \* history: minutes all indices had when asked first
  decisions              \* decisions of the cycle, the last one's until the next

scanVars == <<minute, feed, request, attempts, waiting, deep, executable,
              sectorCache, fetched, begun, decisions>>

Bars(i) == {m \in 0..feed[i] : <<i, m>> \notin NoTrades}
Nothing == [i \in Instruments |-> {}]

ScanInit ==
  /\ minute = 0
  /\ feed = [i \in Instruments |-> 0]
  /\ request = "none" /\ attempts = 0
  /\ waiting = {} /\ deep = {} /\ executable = {}
  /\ sectorCache = CachedSectors
  /\ fetched = Nothing
  /\ begun = {} /\ decisions = {}

\* A minute passes; a feed that is late catches up when it likes.
NextMinute ==
  /\ minute < MaxMinute
  /\ minute' = minute + 1
  /\ feed' = [i \in Instruments |-> IF i \in Late THEN feed[i] ELSE minute + 1]
  /\ UNCHANGED <<request, attempts, waiting, deep, executable, sectorCache,
                 fetched, begun, decisions>>

CatchUp(i) ==
  /\ feed[i] < minute
  /\ feed' = [feed EXCEPT ![i] = minute]
  /\ UNCHANGED <<minute, request, attempts, waiting, deep, executable,
                 sectorCache, fetched, begun, decisions>>

World == UNCHANGED <<minute, feed>>
-----------------------------------------------------------------------------
(***************************************************************************)
(* Requests.                                                               *)
(***************************************************************************)
Proceed(next) == request' = next /\ attempts' = 0

\* The cycle is over, with a result or with an exception.
Leave ==
  /\ Proceed("none")
  /\ waiting' = {} /\ deep' = {} /\ executable' = {} /\ fetched' = Nothing
  /\ begun' = {}
  /\ UNCHANGED sectorCache /\ World

Skip(s) == waiting' = waiting \ {s}

\* There is something left to ask for in the stage.
Asking ==
  /\ request \notin {"none", "decide"}
  /\ (request \in {"quotes", "sectors", "stocks"}) => (waiting # {})

\* Throttling, a server or a network error: again, after a pause.
Retry ==
  /\ Asking /\ request # "files"
  /\ attempts + 1 < MaxAttempts
  /\ attempts' = attempts + 1
  /\ UNCHANGED <<request, waiting, deep, executable, sectorCache, fetched,
                 begun, decisions>> /\ World

\* The last attempt fails, the error is not transient or the answer is refused:
\* an UpstoxDataError, and the cycle is over; only one stock's candles may be
\* missing, or its sector, whatever has been raised for that.
RequestRaises ==
  /\ Asking /\ request \notin {"sectors", "stocks"}
  /\ Leave /\ UNCHANGED decisions

\* A number of a candle that is none (NaN) fails in the comparison behind the
\* conversion, with another error than the one a missing stock is caught by.
CandleRaises ==
  /\ Asking /\ request \in Contexts \cup {"stocks"}
  /\ Leave /\ UNCHANGED decisions

StockMissing ==
  /\ request \in {"sectors", "stocks"}
  /\ \E s \in waiting : Skip(s)
  /\ attempts' = 0
  /\ UNCHANGED <<request, deep, executable, sectorCache, fetched, begun,
                 decisions>> /\ World
-----------------------------------------------------------------------------
(***************************************************************************)
(* The stages.                                                             *)
(***************************************************************************)
BeginScan ==
  /\ request = "none"
  /\ Proceed("timings")
  /\ decisions' = {}
  /\ UNCHANGED <<waiting, deep, executable, sectorCache, fetched, begun>>
  /\ World

\* Timings of the NSE for the date; without them, or if the status then says
\* CLOSE or HALT, the cycle raises.
TimingsKnown ==
  /\ request = "timings" /\ Proceed("status")
  /\ UNCHANGED <<waiting, deep, executable, sectorCache, fetched, begun,
                 decisions>> /\ World

ExchangeOpen ==
  /\ request = "status" /\ Proceed("files")
  /\ UNCHANGED <<waiting, deep, executable, sectorCache, fetched, begun,
                 decisions>> /\ World

\* load_mis_equities: the NSE cash equities of both files; no such equity, or
\* an incomplete row of one, raises.
MisEquities(file) == file.bod \cap file.mis

LoadUniverse(file) ==
  /\ request = "files"
  /\ MisEquities(file) # {} /\ MisEquities(file) \cap file.unsound = {}
  /\ Proceed("quotes")
  /\ waiting' = MisEquities(file)
  /\ UNCHANGED <<deep, executable, sectorCache, fetched, begun, decisions>>
  /\ World

\* _parse_quote_snapshot refuses a "malformed" quote; its optional numbers, and
\* a NaN in any of them ("odd"), raise what full_quotes does not catch.
Parsed(kind) == kind # "malformed"
NumberRaises(kind) == kind = "odd"

\* Traded, and quoted on two sides.
UsableForExecution(kind) == kind # "oneSided"

\* observe, one batch: what is not quoted is left out, one odd number raises for
\* the whole batch.
QuoteBatch(batch, kind) ==
  /\ request = "quotes" /\ waiting # {}
  /\ batch \subseteq waiting
  /\ Cardinality(batch) = (IF Cardinality(waiting) < BatchSize
                           THEN Cardinality(waiting) ELSE BatchSize)
  /\ \A s \in batch : ~NumberRaises(kind[s])
  /\ executable' = executable \cup
       {s \in batch : Parsed(kind[s]) /\ UsableForExecution(kind[s])}
  /\ waiting' = waiting \ batch
  /\ attempts' = 0
  /\ UNCHANGED <<request, deep, sectorCache, fetched, begun, decisions>>
  /\ World

\* The DeepLimit of them with the largest turnover, without open positions.
ChooseDeep(chosen) ==
  /\ request = "quotes" /\ waiting = {}
  /\ chosen \subseteq executable /\ Cardinality(chosen) <= DeepLimit
  /\ IF Cardinality(chosen) < MinDeep
     THEN Leave
     ELSE /\ deep' = chosen /\ waiting' = chosen \ sectorCache
          /\ Proceed("sectors")
          /\ UNCHANGED <<executable, sectorCache, fetched, begun>> /\ World
  /\ UNCHANGED decisions

SectorKnown(s) ==
  /\ request = "sectors" /\ s \in waiting
  /\ Skip(s) /\ attempts' = 0
  /\ sectorCache' = sectorCache \cup {s}
  /\ UNCHANGED <<request, deep, executable, fetched, begun, decisions>>
  /\ World

SectorsDone ==
  /\ request = "sectors" /\ waiting = {}
  /\ IF Cardinality(deep \cap sectorCache) < MinDeep
     THEN Leave
     ELSE /\ deep' = deep \cap sectorCache
          /\ Proceed("market")
          /\ begun' = {m \in 0..minute : \A i \in Contexts : m \in Bars(i)}
          /\ UNCHANGED <<waiting, executable, sectorCache, fetched>> /\ World
  /\ UNCHANGED decisions

\* Candles of the three indices, one after the other.
FetchContext(i) ==
  /\ request = i /\ i \in Contexts /\ Bars(i) # {}
  /\ fetched' = [fetched EXCEPT ![i] = Bars(i)]
  /\ Proceed(CASE i = "market" -> "bank" [] i = "bank" -> "vix" [] i = "vix" -> "stocks")
  /\ waiting' = IF i = "vix" THEN deep ELSE {}
  /\ UNCHANGED <<deep, executable, sectorCache, begun, decisions>> /\ World

FetchStock(s) ==
  /\ request = "stocks" /\ s \in waiting /\ Bars(s) # {}
  /\ fetched' = [fetched EXCEPT ![s] = Bars(s)]
  /\ Skip(s) /\ attempts' = 0
  /\ UNCHANGED <<request, deep, executable, sectorCache, begun, decisions>>
  /\ World
-----------------------------------------------------------------------------
(***************************************************************************)
(* Alignment, features and decision.                                       *)
(***************************************************************************)
CommonMinutes == {m \in 0..MaxMinute : \A i \in Contexts : m \in fetched[i]}
AsOf == Max(CommonMinutes)

\* Mutant: the candles up to the moment, wherever they end.
LoosePrefix(i, asOf) == {m \in fetched[i] : m <= asOf}

\* _prefix_at: the candles up to the moment, if there is one of the moment.
Prefix(i, asOf) ==
  IF asOf \in fetched[i] THEN {m \in fetched[i] : m <= asOf} ELSE {}

Aligned == {s \in deep : /\ Prefix(s, AsOf) # {}
                         /\ Cardinality(Prefix(s, AsOf)) >= MinBars}

AlignData ==
  /\ request = "stocks" /\ waiting = {}
  /\ IF CommonMinutes = {} \/ Cardinality(Aligned) < MinDeep
     THEN Leave
     ELSE /\ Proceed("decide") /\ waiting' = Aligned
          /\ UNCHANGED <<deep, executable, sectorCache, fetched, begun>>
          /\ World
  /\ UNCHANGED decisions

\* stock_price_features, compute_context_features: from the first open to the
\* last close of the prefix.
Return(i) ==
  LET prefix == Prefix(i, AsOf) IN Level[i][Max(prefix) + 1] - Level[i][Min(prefix)]

\* Twice the median of the returns of a set of stocks.
TwiceMedian(set) ==
  LET Nth(k) == CHOOSE v \in {Return(s) : s \in set} :
                  /\ Cardinality({s \in set : Return(s) < v}) < k
                  /\ Cardinality({s \in set : Return(s) <= v}) >= k
      n == Cardinality(set)
  IN  Nth((n + 1) \div 2) + Nth(n \div 2 + 1)

SectorReturn(s) == TwiceMedian({x \in Aligned : SectorName[x] = SectorName[s]})

Below(s) == Cardinality({x \in Aligned : Return(x) < Return(s)})
Equal(s) == Cardinality({x \in Aligned : Return(x) = Return(s)})
Advances == Cardinality({x \in Aligned : Return(x) > 0})

\* decide_baseline.  The residual is four times 0.5 * (return - market +
\* return - sector); a percentile is (below + equal / 2) / n.
Residual(s) == 4 * Return(s) - 2 * Return("market") - SectorReturn(s)

LongGate(s) ==
  /\ 2 * (2 * Below(s) + Equal(s)) >= 3 * Cardinality(Aligned)
  /\ 20 * Advances >= 9 * Cardinality(Aligned)
  /\ Return("market") > 0

ShortGate(s) ==
  /\ 2 * (2 * Below(s) + Equal(s)) <= Cardinality(Aligned)
  /\ 20 * Advances <= 11 * Cardinality(Aligned)
  /\ Return("market") < 0

Size(x) == IF x < 0 THEN -x ELSE x
Direction(s) == IF Residual(s) > 0 THEN "LONG" ELSE "SHORT"
Qualifies(s) ==
  /\ IF Direction(s) = "LONG" THEN LongGate(s) ELSE ShortGate(s)
  /\ Size(Residual(s)) > 4 * Cost

Decided(s, direction) ==
  /\ request = "decide" /\ s \in waiting
  /\ decisions' = decisions \cup
       {[symbol |-> s, asOf |-> AsOf, direction |-> direction, begun |-> begun,
         ends |-> {Max(Prefix(i, AsOf)) : i \in Contexts \cup Aligned}]}
  /\ Skip(s)
  /\ UNCHANGED <<request, attempts, deep, executable, sectorCache, fetched, begun>>
  /\ World

\* A candidate for the allocation.
Decide(s) == Decided(s, Direction(s)) /\ Qualifies(s)

\* No volumes of earlier sessions, any error in the features, a thin volume, a
\* wide spread, a market without a trend or a veto: rejected, whatever the
\* gates would say.  (The earlier volumes are asked for once in the life of the
\* process; whether they are known makes no other difference.)
Reject(s) == Decided(s, "FLAT")

\* The candidates go to the allocation: the entries of PaperRuntime.
EndScan ==
  /\ request = "decide" /\ waiting = {}
  /\ Leave /\ UNCHANGED decisions

ScanNext ==
  \/ NextMinute \/ \E i \in Late : CatchUp(i)
  \/ Retry \/ RequestRaises \/ CandleRaises \/ StockMissing
  \/ BeginScan \/ TimingsKnown \/ ExchangeOpen
  \/ \E file \in InstrumentFiles : LoadUniverse(file)
  \/ \E batch \in SUBSET waiting :
       \E kind \in {k \in [batch -> UNION {QuoteKinds[s] : s \in Stocks}] :
                      \A s \in batch : k[s] \in QuoteKinds[s]} : QuoteBatch(batch, kind)
  \/ \E chosen \in SUBSET executable : ChooseDeep(chosen)
  \/ \E s \in Stocks : SectorKnown(s) \/ FetchStock(s) \/ Decide(s) \/ Reject(s)
  \/ SectorsDone
  \/ \E i \in Contexts : FetchContext(i)
  \/ AlignData \/ EndScan

ScanSpec == ScanInit /\ [][ScanNext]_scanVars
-----------------------------------------------------------------------------
(***************************************************************************)
(* Properties                                                              *)
(***************************************************************************)

\* "The SAME timestamp-aligned deep universe" (meta_features.py:38): however
\* the feeds move on while the requests go out, all decisions of a cycle rest
\* on series that end in one minute, no earlier than the last minute the three
\* indices already shared when the first of them was asked for; and the trades
\* they propose all go the market's way.
OneMomentPerCycle ==
  \A d \in decisions :
    /\ d.ends = {d.asOf}
    /\ \A m \in d.begun : m <= d.asOf
    /\ \A e \in decisions :
         /\ e.asOf = d.asOf
         /\ ~(d.direction = "LONG" /\ e.direction = "SHORT")
=============================================================================
