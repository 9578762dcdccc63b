----------------------- MODULE OutcomeLearningProofs -----------------------
(***************************************************************************)
(* What holds between the trace store and the learning store although no   *)
(* transaction covers both, for every set of traces and every session.     *)
(***************************************************************************)
EXTENDS OutcomeLearning, TLAPS

\* Nobody but the trace in hand is between its two databases.
HandIsHalfway ==
  /\ pc = "mark" => hand \in Traces /\ hand \notin todo
                      /\ trace[hand] = "PENDING" /\ rows[hand] >= 1
  /\ pc # "mark" => hand = NoTrace

\* The rows of a trace, by the state it is in: every row beyond the first was
\* left behind by an interruption.
RowsAreAccountedFor ==
  \A t \in Traces :
    /\ trace[t] = "NONE" => rows[t] = 0
    /\ trace[t] = "PENDING" /\ t # hand => rows[t] <= interrupted[t]

\* Only a full cycle is in the middle of labelling, and only with what has
\* matured by its own time.
CycleIsFull ==
  /\ pc \in {"decide", "label", "mark"} => cycleNow % Slots <= LastFullCycle
  /\ pc \notin {"label", "mark"} => todo = {}
  /\ \A t \in todo : Matured(t)

\* A row needs a bar of a day on which a full cycle came after it.
RowsHaveBars ==
  \A t \in Traces : rows[t] > 0 => Target(t) % Slots <= LastFullCycle

\* The inductive invariant.
IInv ==
  /\ TypeOK
  /\ HandIsHalfway
  /\ RowsAreAccountedFor
  /\ CycleIsFull
  /\ RowsHaveBars
  /\ MarkedMeansRecorded
  /\ OnceUnlessInterrupted

\* Later on the same day means a later slot.
LEMMA LaterSlot ==
  ASSUME NEW n \in Nat \ {0}, NEW a \in Nat, NEW b \in Nat, a <= b, a \div n = b \div n
  PROVE  a % n <= b % n
<1>1. a = n * (a \div n) + (a % n) /\ b = n * (b \div n) + (b % n)
  OBVIOUS
<1>2. a % n \in Int /\ b % n \in Int /\ n * (a \div n) \in Int
  OBVIOUS
<1>3. QED BY <1>1, <1>2

USE DEF stores, locals

LEMMA InvInit == Init => IInv
  BY LearningAssumption
  DEF Init, IInv, TypeOK, HandIsHalfway, RowsAreAccountedFor, CycleIsFull, RowsHaveBars,
      MarkedMeansRecorded, OnceUnlessInterrupted

\* The steps that change neither a trace, a row nor the hand.
LEMMA QuietSteps ==
  ASSUME IInv,
         \/ Start
         \/ \E scanned \in SUBSET Symbols : BeginCycle(scanned)
         \/ BeginShortCycle \/ EndShortCycle
         \/ \E t \in Traces : FetchCandles(t) \/ NoCandles(t) \/ NoOutcome(t)
         \/ PendingOutcomes \/ EndCycle
         \/ Tick
         \/ UNCHANGED vars
  PROVE  IInv'
<1> USE DEF IInv
<1>1. /\ UNCHANGED <<stores, hand, interrupted>>
      /\ (pc # "mark" /\ pc' # "mark") \/ UNCHANGED <<pc, todo>>
  BY DEF Start, BeginCycle, BeginShortCycle, EndShortCycle, ForgetCycle, FetchCandles,
         NoCandles, NoOutcome, IsNext, PendingOutcomes, EndCycle, Tick, vars,
         HandIsHalfway
<1>2. TypeOK'
  <2>1. CASE \E scanned \in SUBSET Symbols : BeginCycle(scanned)
    BY <2>1 DEF BeginCycle, TypeOK
  <2>2. CASE \E t \in Traces : FetchCandles(t)
    BY <2>2, LearningAssumption DEF FetchCandles, TypeOK
  <2>3. CASE PendingOutcomes
    BY <2>3 DEF PendingOutcomes, NotRecorded, Pending, TypeOK
  <2>4. CASE Tick
    BY <2>4 DEF Tick, TypeOK
  <2>5. CASE \/ Start \/ BeginShortCycle \/ EndShortCycle \/ EndCycle \/ UNCHANGED vars
             \/ \E t \in Traces : NoCandles(t) \/ NoOutcome(t)
    BY <2>5, LearningAssumption
    DEF Start, BeginShortCycle, EndShortCycle, EndCycle, ForgetCycle, NoCandles, NoOutcome,
        IsNext, TypeOK, HandIsHalfway, vars
  <2>6. QED BY <2>1, <2>2, <2>3, <2>4, <2>5
<1>3. HandIsHalfway' /\ RowsAreAccountedFor' /\ RowsHaveBars'
      /\ MarkedMeansRecorded' /\ OnceUnlessInterrupted'
  BY <1>1 DEF HandIsHalfway, RowsAreAccountedFor, RowsHaveBars, Target,
              MarkedMeansRecorded, OnceUnlessInterrupted
<1>4. CycleIsFull'
  <2>1. CASE \E scanned \in SUBSET Symbols : BeginCycle(scanned)
    BY <2>1, <1>1 DEF BeginCycle, Slot, CycleIsFull, TypeOK, Matured, Target
  <2>2. CASE PendingOutcomes
    BY <2>2, <1>1 DEF PendingOutcomes, CycleIsFull, Matured, Target
  <2>3. CASE BeginShortCycle
    BY <2>3 DEF BeginShortCycle, CycleIsFull
  <2>4. CASE \/ Start \/ EndShortCycle \/ EndCycle \/ Tick \/ UNCHANGED vars
             \/ \E t \in Traces : FetchCandles(t) \/ NoCandles(t) \/ NoOutcome(t)
    BY <2>4, <1>1
    DEF Start, EndShortCycle, EndCycle, ForgetCycle, Tick, FetchCandles, NoCandles,
        NoOutcome, IsNext, CycleIsFull, Matured, Target, vars
  <2>5. QED BY <2>1, <2>2, <2>3, <2>4
<1>5. QED BY <1>2, <1>3, <1>4

\* A new trace has no rows; it is nowhere but in the trace store.
LEMMA DecisionStep ==
  ASSUME IInv, NEW t \in Traces, NEW asOf \in 0..now, RecordDecision(t, asOf)
  PROVE  IInv'
<1> USE DEF IInv
<1>1. /\ trace[t] = "NONE" /\ rows[t] = 0 /\ pc = "decide" /\ todo = {} /\ hand = NoTrace
      /\ trace' = [trace EXCEPT ![t] = "PENDING"]
      /\ decidedAt' = [decidedAt EXCEPT ![t] = asOf]
      /\ UNCHANGED <<now, pc, rows, locals, interrupted>>
  BY DEF RecordDecision, RowsAreAccountedFor, CycleIsFull, HandIsHalfway
<1>2. TypeOK'
  BY <1>1 DEF TypeOK
<1>3. HandIsHalfway' /\ CycleIsFull'
  BY <1>1 DEF HandIsHalfway, CycleIsFull
<1>4. RowsAreAccountedFor' /\ MarkedMeansRecorded' /\ OnceUnlessInterrupted'
  BY <1>1 DEF RowsAreAccountedFor, MarkedMeansRecorded, OnceUnlessInterrupted, TypeOK
<1>5. RowsHaveBars'
  BY <1>1 DEF RowsHaveBars, Target, TypeOK
<1>6. QED BY <1>2, <1>3, <1>4, <1>5

\* The observation is inserted: its bar is of today, and today it has matured.
LEMMA RecordStep ==
  ASSUME IInv, NEW t \in Traces, RecordOutcome(t)
  PROVE  IInv'
<1> USE DEF IInv
<1>1. /\ trace[t] = "PENDING" /\ rows[t] \in Nat /\ rows[t] <= interrupted[t]
      /\ rows[t] < MaxRows /\ t \in todo /\ pc = "label" /\ pc' = "mark"
      /\ rows' = [rows EXCEPT ![t] = @ + 1]
      /\ hand' = t /\ todo' = todo \ {t}
      /\ HasOutcome(t)
      /\ UNCHANGED <<now, trace, decidedAt, cycleNow, fetched, extraFetches, unfetched,
                     interrupted>>
  BY LearningAssumption
  DEF RecordOutcome, IsNext, HandIsHalfway, RowsAreAccountedFor, TypeOK
<1>2. TypeOK'
  BY <1>1, LearningAssumption DEF TypeOK
<1>3. HandIsHalfway' /\ CycleIsFull'
  BY <1>1 DEF HandIsHalfway, CycleIsFull, Matured, Target, TypeOK
<1>4. RowsAreAccountedFor' /\ MarkedMeansRecorded' /\ OnceUnlessInterrupted'
  BY <1>1, LearningAssumption
  DEF RowsAreAccountedFor, HandIsHalfway, MarkedMeansRecorded, OnceUnlessInterrupted,
      TypeOK
<1>5. RowsHaveBars'
  <2>1. Target(t) <= cycleNow /\ DayOf(Target(t)) = DayOf(cycleNow)
        /\ cycleNow % Slots <= LastFullCycle
    BY <1>1 DEF CycleIsFull, Matured, HasOutcome
  <2>2. Target(t) \in Nat /\ cycleNow \in Nat /\ Slots \in Nat \ {0}
    BY LearningAssumption DEF Target, TypeOK
  <2>3. Target(t) % Slots <= cycleNow % Slots
    BY <2>1, <2>2, LaterSlot DEF DayOf
  <2>4. Target(t) % Slots <= LastFullCycle
    BY <2>1, <2>2, <2>3, LearningAssumption
  <2>5. QED BY <1>1, <2>4 DEF RowsHaveBars, Target, TypeOK
<1>6. QED BY <1>2, <1>3, <1>4, <1>5

\* The trace is marked: its row is there.
LEMMA MarkStep ==
  ASSUME IInv, MarkOutcomeRecorded
  PROVE  IInv'
<1> USE DEF IInv
<1>1. /\ hand \in Traces /\ hand \notin todo /\ trace[hand] = "PENDING"
      /\ rows[hand] >= 1 /\ pc = "mark" /\ pc' = "label"
      /\ trace' = [trace EXCEPT ![hand] = "RECORDED"]
      /\ hand' = NoTrace
      /\ UNCHANGED <<now, decidedAt, rows, cycleNow, todo, fetched, extraFetches,
                     unfetched, interrupted>>
  BY DEF MarkOutcomeRecorded, HandIsHalfway
<1>2. TypeOK'
  BY <1>1 DEF TypeOK
<1>3. HandIsHalfway' /\ CycleIsFull'
  BY <1>1 DEF HandIsHalfway, CycleIsFull, Matured, Target
<1>4. RowsAreAccountedFor' /\ MarkedMeansRecorded' /\ OnceUnlessInterrupted'
  BY <1>1 DEF RowsAreAccountedFor, MarkedMeansRecorded, OnceUnlessInterrupted, TypeOK
<1>5. RowsHaveBars'
  BY <1>1 DEF RowsHaveBars, Target
<1>6. QED BY <1>2, <1>3, <1>4, <1>5

\* The cycle dies: the trace in hand keeps its row and owes it to this
\* interruption.
LEMMA InterruptionStep ==
  ASSUME IInv, CycleRaises \/ Crash
  PROVE  IInv'
<1> USE DEF IInv
<1>1. /\ pc' \in {"idle", "down"} /\ UNCHANGED <<now, stores>>
      /\ ForgetCycle /\ NoteInterruption
  BY DEF CycleRaises, Crash
<1>2. /\ interrupted' \in [Traces -> Nat]
      /\ \A t \in Traces : interrupted'[t] >= interrupted[t]
      /\ hand # NoTrace => interrupted'[hand] = interrupted[hand] + 1
  BY <1>1 DEF NoteInterruption, TypeOK
<1>3. TypeOK'
  BY <1>1, <1>2, LearningAssumption DEF ForgetCycle, TypeOK
<1>4. HandIsHalfway' /\ CycleIsFull'
  BY <1>1 DEF HandIsHalfway, CycleIsFull, ForgetCycle
<1>5. RowsAreAccountedFor' /\ MarkedMeansRecorded' /\ OnceUnlessInterrupted'
  <2>1. ASSUME NEW t \in Traces
        PROVE  /\ trace[t] = "PENDING" => rows[t] <= interrupted'[t]
               /\ rows[t] <= 1 + interrupted'[t]
    BY <1>2, LearningAssumption DEF RowsAreAccountedFor, OnceUnlessInterrupted, TypeOK
  <2>2. QED BY <1>1, <2>1 DEF RowsAreAccountedFor, MarkedMeansRecorded, OnceUnlessInterrupted
<1>6. RowsHaveBars'
  BY <1>1 DEF RowsHaveBars, Target
<1>7. QED BY <1>3, <1>4, <1>5, <1>6

LEMMA InvStep == IInv /\ [Next]_vars => IInv'
  BY QuietSteps, DecisionStep, RecordStep, MarkStep, InterruptionStep DEF Next

\* The inductive invariant holds throughout.
THEOREM Invariance == Spec => []IInv
<1>1. QED BY InvInit, InvStep, PTL DEF Spec

\* A trace is marked only when its observation is in the learning store.
THEOREM NoObservationIsLost == Spec => []MarkedMeansRecorded
<1>1. IInv => MarkedMeansRecorded
  BY DEF IInv
<1>2. QED BY <1>1, Invariance, PTL

\* Only an interruption between the stores makes an observation count again.
THEOREM DuplicatesAreInterruptions == Spec => []OnceUnlessInterrupted
<1>1. IInv => OnceUnlessInterrupted
  BY DEF IInv
<1>2. QED BY <1>1, Invariance, PTL

\* What matures after the last full cycle of its session is never learned.
THEOREM LateDecisionsAreNeverLearned == Spec => []LateDecisionsStayPending
<1>1. IInv => LateDecisionsStayPending
  <2> SUFFICES ASSUME IInv, NEW t \in Traces, trace[t] # "NONE",
                      Target(t) % Slots > LastFullCycle
               PROVE  trace[t] = "PENDING" /\ rows[t] = 0
    BY DEF LateDecisionsStayPending
  <2>1. Target(t) \in Nat /\ rows[t] \in Nat
    BY LearningAssumption DEF IInv, TypeOK, Target
  <2>2. Target(t) % Slots \in Int /\ LastFullCycle \in Int
    BY <2>1, LearningAssumption
  <2>3. rows[t] = 0
    BY <2>1, <2>2 DEF IInv, RowsHaveBars
  <2>4. QED BY <2>3 DEF IInv, TypeOK, MarkedMeansRecorded
<1>2. QED BY <1>1, Invariance, PTL

\* In the middle of labelling, what the cycle owes is still to be visited, had
\* no candles, or is in hand.
CycleCovers ==
  pc \in {"label", "mark"} =>
    \A t \in Traces \ (todo \cup unfetched \cup {hand}) :
      trace[t] # "NONE" /\ Target(t) <= cycleNow /\ HasOutcome(t) => trace[t] = "RECORDED"

LEMMA CoverStep == IInv /\ CycleCovers /\ [Next]_vars => CycleCovers'
<1> SUFFICES ASSUME IInv, CycleCovers, [Next]_vars, pc' \in {"label", "mark"},
                    NEW t \in Traces, t \notin todo' \cup unfetched' \cup {hand'},
                    trace'[t] # "NONE", (Target(t) <= cycleNow)', HasOutcome(t)'
             PROVE  trace'[t] = "RECORDED"
  BY DEF CycleCovers
<1> USE DEF IInv, Target, HasOutcome
<1>1. ASSUME NEW u \in Traces,
             FetchCandles(u) \/ NoCandles(u) \/ NoOutcome(u) \/ RecordOutcome(u)
      PROVE  trace'[t] = "RECORDED"
  <2>1. /\ pc = "label" /\ UNCHANGED <<trace, decidedAt, cycleNow>>
        /\ unfetched \subseteq unfetched'
        /\ todo = todo' \/ todo' = todo \ {u}
        /\ t = u => t \in todo' \cup unfetched' \cup {hand'} \/ ~HasOutcome(t)
    BY <1>1 DEF FetchCandles, NoCandles, NoOutcome, RecordOutcome, IsNext
  <2>2. t # u /\ hand = NoTrace
    BY <2>1, <1>1 DEF HandIsHalfway
  <2>3. QED BY <2>1, <2>2, LearningAssumption DEF CycleCovers
<1>2. CASE PendingOutcomes
  BY <1>2 DEF PendingOutcomes, NotRecorded, Pending, Matured, TypeOK
<1>3. CASE MarkOutcomeRecorded
  BY <1>3 DEF MarkOutcomeRecorded, CycleCovers, HandIsHalfway, TypeOK
<1>4. CASE UNCHANGED vars
  BY <1>4 DEF vars, CycleCovers
<1>5. ASSUME \/ Start \/ BeginShortCycle \/ EndShortCycle \/ EndCycle
             \/ \E scanned \in SUBSET Symbols : BeginCycle(scanned)
             \/ \E u \in Traces, asOf \in 0..now : RecordDecision(u, asOf)
             \/ CycleRaises \/ Crash \/ Tick
      PROVE  FALSE
  BY <1>5 DEF Start, BeginShortCycle, EndShortCycle, EndCycle, BeginCycle, RecordDecision,
              CycleRaises, Crash, Tick
<1>6. QED BY <1>1, <1>2, <1>3, <1>4, <1>5 DEF Next

\* A full cycle that ends has labelled everything it could.
THEOREM FullCyclesLabelWhatTheyCan == Spec => FullCyclesLabel
<1>1. Init => CycleCovers
  BY DEF Init, CycleCovers
<1>2. IInv /\ CycleCovers /\ [Next]_vars =>
        [(pc = "label" /\ pc' = "idle" /\ todo = {}) => Labelled]_vars
  <2> SUFFICES ASSUME IInv, CycleCovers, pc = "label", todo = {} PROVE Labelled
    OBVIOUS
  <2>1. hand = NoTrace
    BY DEF IInv, HandIsHalfway
  <2>2. QED BY <2>1, LearningAssumption DEF CycleCovers, Labelled
<1>3. QED BY <1>1, <1>2, CoverStep, Invariance, PTL DEF Spec, FullCyclesLabel
=============================================================================
