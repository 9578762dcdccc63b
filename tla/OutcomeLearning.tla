-------------------------- MODULE OutcomeLearning --------------------------
(***************************************************************************)
(* How a decision becomes an observation.  A cycle of the paper runtime    *)
(* writes traces (operations/trace_store.py); at its end it labels the     *)
(* traces that have matured with the bar their horizon ends on             *)
(* (operations/outcomes.py), which inserts a row into the learning store   *)
(* (decision/learning.py) and then marks the trace.  The two stores are    *)
(* two databases: no transaction covers both.                              *)
(*                                                                         *)
(* decide_baseline gives a qualified decision exactly one opinion and      *)
(* every other decision none, so a trace here is a trace with its opinion; *)
(* those without are never pending.                                        *)
(***************************************************************************)
EXTENDS Integers

CONSTANTS
  Traces,
  Symbols,
  SymbolOf,              \* [Traces -> Symbols]
  BarExists,             \* traces whose horizon ends on a genuine bar
  Horizon,               \* horizon_minutes in slots
  Slots,                 \* observable moments of a session, 0..Slots - 1
  LastFullCycle,         \* the last slot in which a cycle is not cut short
  MaxExtraFetches,       \* 20 in the code
  MaxDay, MaxRows,       \* bounds
  NoTrace

ASSUME LearningAssumption ==
  /\ SymbolOf \in [Traces -> Symbols]
  /\ BarExists \subseteq Traces
  /\ Horizon \in Nat \ {0} /\ Slots \in Nat \ {0}
  /\ LastFullCycle \in 0..(Slots - 1)
  /\ LastFullCycle + Horizon < Slots
  /\ MaxExtraFetches \in Nat /\ MaxDay \in Nat /\ MaxRows \in Nat \ {0}
  /\ NoTrace \notin Traces

VARIABLES
  now,                   \* slots since the program was first started
  pc,
  cycleNow,              \* the "now" of the running cycle
  trace,                 \* [Traces -> {"NONE", "PENDING", "RECORDED"}]
  decidedAt,             \* [Traces -> Nat], as_of
  rows,                  \* [Traces -> Nat], rows of model_outcomes
  todo,                  \* matured traces the cycle has read, not yet visited
  fetched,               \* symbols whose candles of today the cycle has
  extraFetches,
  unfetched,             \* traces the cycle found no candles for
  hand,                  \* the trace between its two databases
  interrupted            \* history: times a trace was left between them

stores == <<trace, decidedAt, rows>>
locals == <<cycleNow, todo, fetched, extraFetches, unfetched, hand>>
vars == <<now, pc, stores, locals, interrupted>>

Slot == now % Slots
DayOf(t) == t \div Slots
Target(t) == decidedAt[t] + Horizon
Pending == {t \in Traces : trace[t] = "PENDING"}

Init ==
  /\ now = 0
  /\ pc = "down"
  /\ cycleNow = 0
  /\ trace = [t \in Traces |-> "NONE"]
  /\ decidedAt = [t \in Traces |-> 0]
  /\ rows = [t \in Traces |-> 0]
  /\ todo = {} /\ fetched = {} /\ extraFetches = 0 /\ unfetched = {}
  /\ hand = NoTrace
  /\ interrupted = [t \in Traces |-> 0]

ForgetCycle ==
  /\ cycleNow' = 0
  /\ todo' = {} /\ fetched' = {} /\ extraFetches' = 0 /\ unfetched' = {}
  /\ hand' = NoTrace
-----------------------------------------------------------------------------
Start ==
  /\ pc = "down"
  /\ pc' = "idle"
  /\ UNCHANGED <<now, stores, locals, interrupted>>

\* A cycle in the entry window: some symbols are scanned deeply and their
\* candles are kept.
BeginCycle(scanned) ==
  /\ pc = "idle" /\ Slot <= LastFullCycle
  /\ pc' = "decide"
  /\ cycleNow' = now
  /\ fetched' = scanned
  /\ UNCHANGED <<now, stores, todo, extraFetches, unfetched, hand, interrupted>>

\* A cycle that returns before it has decided or learned anything: always once
\* the window is over (ENTRY_WINDOW_CLOSED, BASELINE_HORIZON_EXCEEDS_...), at
\* any time when too few symbols are usable.
BeginShortCycle ==
  /\ pc = "idle"
  /\ pc' = "short"
  /\ cycleNow' = now
  /\ UNCHANGED <<now, stores, todo, fetched, extraFetches, unfetched, hand, interrupted>>

EndShortCycle ==
  /\ pc = "short"
  /\ pc' = "idle"
  /\ ForgetCycle
  /\ UNCHANGED <<now, stores, interrupted>>

\* record_decision of a qualified candidate, whatever becomes of it.  Its as_of
\* is the latest bar all context series of today have: they may lag.
RecordDecision(t, asOf) ==
  /\ pc = "decide"
  /\ trace[t] = "NONE" /\ SymbolOf[t] \in fetched
  /\ asOf <= cycleNow /\ DayOf(asOf) = DayOf(cycleNow)
  /\ trace' = [trace EXCEPT ![t] = "PENDING"]
  /\ decidedAt' = [decidedAt EXCEPT ![t] = asOf]
  /\ UNCHANGED <<now, pc, rows, locals, interrupted>>

\* Mutant: a trace that matures right now is left for the next cycle.
MaturedStrictly(t) == Target(t) < cycleNow

Matured(t) == Target(t) <= cycleNow

\* Mutant: the query forgets outcome_recorded = 0.
AllTraces == {t \in Traces : trace[t] # "NONE"}

NotRecorded == Pending

\* pending_outcomes.
PendingOutcomes ==
  /\ pc = "decide"
  /\ pc' = "label"
  /\ todo' = {t \in NotRecorded : Matured(t)}
  /\ UNCHANGED <<now, stores, cycleNow, fetched, extraFetches, unfetched, hand,
                 interrupted>>
-----------------------------------------------------------------------------
\* ORDER BY as_of, id: the oldest comes first; the ids order no more than that.
IsNext(t) ==
  /\ pc = "label" /\ t \in todo
  /\ \A u \in todo : decidedAt[t] <= decidedAt[u]

\* Mutant: the candles of earlier days would do.
HasOutcomeEver(t) == t \in BarExists

\* The exact bar is among the candles of today: intraday_candles has no others.
HasOutcome(t) ==
  t \in BarExists /\ DayOf(Target(t)) = DayOf(cycleNow)

FetchCandles(t) ==
  /\ IsNext(t)
  /\ SymbolOf[t] \notin fetched
  /\ extraFetches < MaxExtraFetches
  /\ fetched' = fetched \cup {SymbolOf[t]}
  /\ extraFetches' = extraFetches + 1
  /\ UNCHANGED <<now, pc, stores, cycleNow, todo, unfetched, hand, interrupted>>

\* The request fails or the cycle may not make another one.
NoCandles(t) ==
  /\ IsNext(t)
  /\ SymbolOf[t] \notin fetched
  /\ todo' = todo \ {t}
  /\ unfetched' = unfetched \cup {t}
  /\ UNCHANGED <<now, pc, stores, cycleNow, fetched, extraFetches, hand, interrupted>>

\* The bar is missing, or the trace is of an earlier day.
NoOutcome(t) ==
  /\ IsNext(t)
  /\ SymbolOf[t] \in fetched
  /\ ~HasOutcome(t)
  /\ todo' = todo \ {t}
  /\ UNCHANGED <<now, pc, stores, cycleNow, fetched, extraFetches, unfetched, hand,
                 interrupted>>

\* Mutant: the trace is marked first.
MarkBeforeRecord(t) ==
  /\ IsNext(t)
  /\ SymbolOf[t] \in fetched
  /\ HasOutcome(t)
  /\ rows[t] < MaxRows
  /\ pc' = "mark"
  /\ trace' = [trace EXCEPT ![t] = "RECORDED"]
  /\ hand' = t
  /\ todo' = todo \ {t}
  /\ UNCHANGED <<now, decidedAt, rows, cycleNow, fetched, extraFetches, unfetched,
                 interrupted>>

\* ModelLearningStore.record commits the observation.
RecordOutcome(t) ==
  /\ IsNext(t)
  /\ SymbolOf[t] \in fetched
  /\ HasOutcome(t)
  /\ rows[t] < MaxRows
  /\ pc' = "mark"
  /\ rows' = [rows EXCEPT ![t] = @ + 1]
  /\ hand' = t
  /\ todo' = todo \ {t}
  /\ UNCHANGED <<now, trace, decidedAt, cycleNow, fetched, extraFetches, unfetched,
                 interrupted>>

MarkOutcomeRecorded ==
  /\ pc = "mark"
  /\ pc' = "label"
  /\ trace' = [trace EXCEPT ![hand] = "RECORDED"]
  /\ hand' = NoTrace
  /\ UNCHANGED <<now, decidedAt, rows, cycleNow, todo, fetched, extraFetches,
                 unfetched, interrupted>>

EndCycle ==
  /\ pc = "label" /\ todo = {}
  /\ pc' = "idle"
  /\ ForgetCycle
  /\ UNCHANGED <<now, stores, interrupted>>
-----------------------------------------------------------------------------
NoteInterruption ==
  interrupted' = IF hand = NoTrace THEN interrupted
                 ELSE [interrupted EXCEPT ![hand] = @ + 1]

\* Any exception ends the cycle: one of the databases is locked, or the data
\* of a decision are unusable.
CycleRaises ==
  /\ \/ pc \in {"decide", "mark"}
     \/ pc = "label" /\ todo # {}
  /\ pc' = "idle"
  /\ ForgetCycle
  /\ NoteInterruption
  /\ UNCHANGED <<now, stores>>

Crash ==
  /\ pc # "down"
  /\ pc' = "down"
  /\ ForgetCycle
  /\ NoteInterruption
  /\ UNCHANGED <<now, stores>>

\* A cycle takes less than a slot.
Tick ==
  /\ pc \in {"idle", "down"}
  /\ now < (MaxDay + 1) * Slots - 1
  /\ now' = now + 1
  /\ UNCHANGED <<pc, stores, locals, interrupted>>

Next ==
  \/ Start
  \/ \E scanned \in SUBSET Symbols : BeginCycle(scanned)
  \/ BeginShortCycle \/ EndShortCycle
  \/ \E t \in Traces, asOf \in 0..now : RecordDecision(t, asOf)
  \/ \E t \in Traces :
       FetchCandles(t) \/ NoCandles(t) \/ NoOutcome(t) \/ RecordOutcome(t)
  \/ PendingOutcomes \/ MarkOutcomeRecorded \/ EndCycle
  \/ CycleRaises \/ Crash
  \/ Tick

Spec == Init /\ [][Next]_vars
-----------------------------------------------------------------------------
\* Every variable keeps its type; only a trace in hand is between the stores.
TypeOK ==
  /\ now \in Nat /\ cycleNow \in Nat
  /\ pc \in {"down", "idle", "decide", "label", "mark", "short"}
  /\ trace \in [Traces -> {"NONE", "PENDING", "RECORDED"}]
  /\ decidedAt \in [Traces -> Nat]
  /\ rows \in [Traces -> 0..MaxRows]
  /\ todo \in SUBSET Traces /\ unfetched \in SUBSET Traces
  /\ \A t \in todo : trace[t] = "PENDING"
  /\ fetched \in SUBSET Symbols
  /\ extraFetches \in 0..MaxExtraFetches
  /\ hand \in Traces \cup {NoTrace} /\ (hand = NoTrace <=> pc # "mark")
  /\ interrupted \in [Traces -> Nat]

\* A trace is marked only when its observation is in the learning store: no
\* interruption loses one (paper_runtime.py:683-690).
MarkedMeansRecorded ==
  \A t \in Traces : trace[t] = "RECORDED" => rows[t] >= 1

\* An observation is counted again only if the program was interrupted between
\* the two stores, once for each time that happened (outcomes.py:111,
\* trace_store.py:174).
OnceUnlessInterrupted ==
  \A t \in Traces : rows[t] <= 1 + interrupted[t]

\* A decision whose horizon ends after the last full cycle of its session is
\* never labelled, however long the program runs: the cycles of that day return
\* too early (paper_runtime.py:138, 146), those of later days get no candles of
\* its day (paper_runtime.py:676).
LateDecisionsStayPending ==
  \A t \in Traces :
    trace[t] # "NONE" /\ Target(t) % Slots > LastFullCycle =>
      trace[t] = "PENDING" /\ rows[t] = 0

\* What a finished cycle owes to the traces of its day.
Labelled ==
  \A t \in Traces \ unfetched :
    trace[t] # "NONE" /\ Target(t) <= cycleNow /\ HasOutcome(t) =>
      trace[t] = "RECORDED"

\* A full cycle leaves no matured trace of its day behind for which it could
\* get candles and whose bar exists (paper_runtime.py:664-690).
FullCyclesLabel ==
  [][(pc = "label" /\ pc' = "idle" /\ todo = {}) => Labelled]_vars

\* ARCHITECTURE.md:15 "accepted and rejected opportunities are labeled from
\* genuine future candles": at the end of the last cycle of a session this is
\* true also of its decisions that mature after the last full cycle.
SessionIsLabelled ==
  [][(pc = "short" /\ pc' = "idle" /\ cycleNow % Slots = Slots - 1) =>
       \A t \in Traces :
         trace[t] # "NONE" /\ HasOutcome(t) /\ Target(t) % Slots > LastFullCycle =>
           trace[t] = "RECORDED"]_vars
=============================================================================
