------------------------ MODULE SignalListenerProofs ------------------------
(***************************************************************************)
(* Theorems about SignalListener for every set of signals and instruments, *)
(* every price, every division of the day and every admission limit: what  *)
(* a finished scan leaves behind stays true until the next message.        *)
(***************************************************************************)
EXTENDS SignalListener, TLAPS

\* active_positions holds the OPEN rows while the process runs; a process that
\* is down knows nothing.
MemoryIsTheLedger ==
  /\ pc # "down" => active = OpenIn(status)
  /\ pc = "down" => /\ active = {}
                    /\ latestPrices = [i \in Instruments |-> 0]
                    /\ ~swept
  /\ pc # "scan" => due = {}

\* In an iteration the price of the message is the latest one of its
\* instrument, and every open position that price makes due is still listed.
ScanMissesNothing ==
  pc = "scan" =>
    /\ msg \in Signals
    /\ Entry[msg] > 0 => latestPrices[InstrumentOf[msg]] = Entry[msg]
    /\ \A p \in OpenIn(status) \ due : ~DueAt(p, latestPrices)

\* A scan counts as a sweep only from 15:15 on, and midnight forgets it.
SweptAfterSquareOff == swept => slot >= SquareOff

\* The inductive invariant.
IInv ==
  /\ TypeOK
  /\ MemoryIsTheLedger
  /\ ScanMissesNothing
  /\ SweptAfterSquareOff
  /\ NoBreachedPosition
  /\ SweptMeansFlat
-----------------------------------------------------------------------------
LEMMA Constants ==
  /\ InstrumentOf \in [Signals -> Instruments]
  /\ Approved \subseteq Signals /\ Legacy \subseteq Signals
  /\ MaxDay \in Nat /\ Slots \in Nat /\ SquareOff \in Nat /\ EntryEnd \in Nat
  /\ EntryEnd <= SquareOff /\ SquareOff < Slots
  /\ NoSignal \notin Signals
  BY SignalsAssumption, BookAssumption, ListenerAssumption

\* The INSTANCE reads the book as this module does.
LEMMA SameBook ==
  /\ Book!Init => /\ status = FirstStatus /\ today = 0
                  /\ net = [s \in Signals |-> 0] /\ closedOn = [s \in Signals |-> 0]
  /\ \A s \in Signals : Book!Admit(s) =>
       /\ s \in Approved
       /\ status' = [status EXCEPT ![s] = "OPEN"]
       /\ UNCHANGED <<net, closedOn, today>>
  /\ \A s \in Signals : Book!Reject(s) =>
       /\ status[s] = "NONE"
       /\ status' = [status EXCEPT ![s] = "REJECTED"]
       /\ UNCHANGED <<net, closedOn, today>>
  BY DEF Book!Init, Book!FirstStatus, FirstStatus, Book!Admit, Book!Reject

\* The levels of an approved signal surround its entry price.
LEMMA EntryHitsNoLevel ==
  ASSUME NEW s \in Approved
  PROVE  Entry[s] > 0 /\ ~LevelHit(s, Entry[s])
  BY Constants, ListenerAssumption DEF LevelHit

\* Prices stay typed, and the price of a message with one is remembered.
LEMMA PricesTyped ==
  ASSUME TypeOK, NEW s \in Signals
  PROVE  /\ PricesAfter(s) \in [Instruments -> Nat]
         /\ Entry[s] > 0 => PricesAfter(s)[InstrumentOf[s]] = Entry[s]
  BY Constants, ListenerAssumption DEF TypeOK, PricesAfter

LEMMA NetResultTyped ==
  ASSUME NEW p \in Signals, NEW price \in Nat
  PROVE  NetResult(p, price) \in Int
<1>1. Entry[p] \in Nat /\ Quantity[p] \in Nat /\ Friction[p] \in Nat
  BY ListenerAssumption
<1>2. (price - Entry[p]) * Quantity[p] \in Int /\ (Entry[p] - price) * Quantity[p] \in Int
  BY <1>1
<1>3. QED BY <1>1, <1>2 DEF NetResult
-----------------------------------------------------------------------------
(***************************************************************************)
(* Type correctness                                                        *)
(***************************************************************************)
LEMMA TypeInit == Init => TypeOK
<1> SUFFICES ASSUME Init PROVE TypeOK
  OBVIOUS
<1>1. /\ status \in [Signals -> RowStatus] /\ net \in [Signals -> Int]
      /\ closedOn \in [Signals -> Days] /\ today \in Days
  BY SameBook, Constants DEF Init, FirstStatus, RowStatus, Days
<1>2. 0 \in Days /\ 0 \in 0..(Slots - 1) /\ slot = 0
  BY Constants DEF Init, Days
<1>3. /\ openedOn \in [Signals -> Days] /\ latestPrices \in [Instruments -> Nat]
  BY <1>2 DEF Init
<1>4. QED BY <1>1, <1>2, <1>3 DEF Init, TypeOK

\* The conjuncts of a step that finishes a scan.
LEMMA CompleteTypes ==
  ASSUME TypeOK, ScanComplete
  PROVE  /\ today' \in Days /\ slot' \in 0..(Slots - 1) /\ pc' = "idle"
         /\ msg' = NoSignal /\ latestPrices' \in [Instruments -> Nat]
         /\ due' = {} /\ interrupted' \in BOOLEAN /\ swept' \in BOOLEAN
  BY DEF TypeOK, ScanComplete

LEMMA TypeStep ==
  ASSUME TypeOK, MemoryIsTheLedger, ScanMissesNothing, [Next]_vars
  PROVE  TypeOK'
<1> USE DEF book, memory, history
<1>1. CASE Start
  BY <1>1 DEF TypeOK, MemoryIsTheLedger, Start, OpenIn
<1>2. ASSUME NEW s \in Signals, Receive(s) PROVE TypeOK'
  BY <1>2, PricesTyped DEF TypeOK, Receive
<1>3. ASSUME NEW p \in due, Exit(p) PROVE TypeOK'
  <2> DEFINE price == latestPrices[InstrumentOf[p]]
             result == NetResult(p, price)
  <2>1. p \in Signals /\ price \in Nat
    BY <1>3, Constants DEF TypeOK
  <2>2. result \in Int
    BY <2>1, NetResultTyped
  <2> HIDE DEF result
  <2>3. /\ status' = [status EXCEPT ![p] = "CLOSED"]
        /\ net' = [net EXCEPT ![p] = result]
        /\ closedOn' = [closedOn EXCEPT ![p] = today]
        /\ UNCHANGED today
    BY <1>3 DEF Exit, Book!Close, result
  <2>4. /\ status' \in [Signals -> RowStatus] /\ net' \in [Signals -> Int]
        /\ closedOn' \in [Signals -> Days] /\ today' \in Days
    BY <2>1, <2>2, <2>3 DEF TypeOK, RowStatus
  <2>5. QED BY <1>3, <2>4 DEF TypeOK, Exit
<1>4. ASSUME NEW p \in due, ExitRaises(p) PROVE TypeOK'
  BY <1>4 DEF TypeOK, ExitRaises
<1>5. CASE EntryBlocked \/ RecordLeavesNothing
  BY <1>5, CompleteTypes DEF TypeOK, EntryBlocked, RecordLeavesNothing
<1>6. CASE RecordOpens
  <2>1. msg \in Signals
    BY <1>6 DEF RecordOpens, ScanComplete, ScanMissesNothing
  <2>2. status' = [status EXCEPT ![msg] = "OPEN"] /\ UNCHANGED <<net, closedOn>>
    BY <1>6, <2>1, SameBook DEF RecordOpens
  <2>3. status' \in [Signals -> RowStatus]
    BY <2>1, <2>2 DEF TypeOK, RowStatus
  <2>4. openedOn' \in [Signals -> Days] /\ active' \in SUBSET Signals
        /\ zeroed' \in SUBSET active'
    BY <1>6, <2>1 DEF TypeOK, RecordOpens
  <2>5. QED BY <1>6, <2>2, <2>3, <2>4, CompleteTypes DEF TypeOK, RecordOpens
<1>7. CASE RecordRejects
  <2>1. msg \in Signals
    BY <1>7 DEF RecordRejects, ScanComplete, ScanMissesNothing
  <2>2. status' = [status EXCEPT ![msg] = "REJECTED"] /\ UNCHANGED <<net, closedOn>>
    BY <1>7, <2>1, SameBook DEF RecordRejects
  <2>3. status' \in [Signals -> RowStatus]
    BY <2>1, <2>2 DEF TypeOK, RowStatus
  <2>4. QED BY <1>7, <2>2, <2>3, CompleteTypes DEF TypeOK, RecordRejects
<1>8. CASE RecordReplays
  <2>1. msg \in Signals
    BY <1>8 DEF RecordReplays, ScanComplete, ScanMissesNothing
  <2>2. active' \in SUBSET Signals /\ zeroed' \in SUBSET active'
    BY <1>8, <2>1 DEF TypeOK, RecordReplays
  <2>3. QED BY <1>8, <2>2, CompleteTypes DEF TypeOK, RecordReplays
<1>9. CASE Crash
  BY <1>9 DEF TypeOK, Crash
<1>10. CASE Tick
  <2>1. CASE slot < Slots - 1
    BY <1>10, <2>1, Constants DEF TypeOK, Tick
  <2>2. CASE ~(slot < Slots - 1)
    <3>1. slot' = 0 /\ Book!NextDay /\ ~swept'
      BY <1>10, <2>2 DEF Tick
    <3>2. today' \in Days /\ slot' \in 0..(Slots - 1)
      BY <3>1, Constants DEF TypeOK, Book!NextDay, Days
    <3>3. QED BY <1>10, <3>1, <3>2 DEF TypeOK, Tick, Book!NextDay
  <2>3. QED BY <2>1, <2>2
<1>11. CASE UNCHANGED vars
  BY <1>11 DEF TypeOK, vars
<1>12. QED
  BY <1>1, <1>2, <1>3, <1>4, <1>5, <1>6, <1>7, <1>8, <1>9, <1>10, <1>11 DEF Next
-----------------------------------------------------------------------------
(***************************************************************************)
(* The memory of the process                                               *)
(***************************************************************************)

\* Memory and ledger change together: an exit leaves both, an admission enters
\* both, a replay of an open row adds what is there already.
LEMMA MemoryStep ==
  ASSUME TypeOK, MemoryIsTheLedger, ScanMissesNothing, [Next]_vars
  PROVE  MemoryIsTheLedger'
<1> USE DEF MemoryIsTheLedger, book, memory, history
<1>1. CASE Start
  BY <1>1 DEF Start
<1>2. ASSUME NEW s \in Signals, Receive(s) PROVE MemoryIsTheLedger'
  BY <1>2 DEF Receive
<1>3. ASSUME NEW p \in due, Exit(p) PROVE MemoryIsTheLedger'
  <2>1. status' = [status EXCEPT ![p] = "CLOSED"] /\ p \in Signals
    BY <1>3 DEF TypeOK, Exit, Book!Close
  <2>2. OpenIn(status') = OpenIn(status) \ {p}
    BY <2>1 DEF TypeOK, OpenIn
  <2>3. QED BY <1>3, <2>2 DEF Exit
<1>4. ASSUME NEW p \in due, ExitRaises(p) PROVE MemoryIsTheLedger'
  BY <1>4 DEF ExitRaises
<1>5. CASE EntryBlocked \/ RecordLeavesNothing
  BY <1>5 DEF EntryBlocked, RecordLeavesNothing, ScanComplete
<1>6. CASE RecordOpens
  <2>1. msg \in Signals
    BY <1>6 DEF RecordOpens, ScanComplete, ScanMissesNothing
  <2>2. OpenIn(status') = OpenIn(status) \cup {msg}
    BY <1>6, <2>1, SameBook DEF RecordOpens, TypeOK, OpenIn
  <2>3. QED BY <1>6, <2>2 DEF RecordOpens, ScanComplete
<1>7. CASE RecordRejects
  <2>1. msg \in Signals
    BY <1>7 DEF RecordRejects, ScanComplete, ScanMissesNothing
  <2>2. OpenIn(status') = OpenIn(status)
    BY <1>7, <2>1, SameBook DEF RecordRejects, TypeOK, OpenIn
  <2>3. QED BY <1>7, <2>2 DEF RecordRejects, ScanComplete
<1>8. CASE RecordReplays
  <2>1. msg \in Signals
    BY <1>8 DEF RecordReplays, ScanComplete, ScanMissesNothing
  <2>2. active' = active
    BY <1>8, <2>1 DEF RecordReplays, ScanComplete, OpenIn
  <2>3. QED BY <1>8, <2>2 DEF RecordReplays, ScanComplete
<1>9. CASE Crash
  BY <1>9 DEF Crash
<1>10. CASE Tick
  BY <1>10 DEF Tick, Book!NextDay
<1>11. CASE UNCHANGED vars
  BY <1>11 DEF vars
<1>12. QED
  BY <1>1, <1>2, <1>3, <1>4, <1>5, <1>6, <1>7, <1>8, <1>9, <1>10, <1>11 DEF Next

\* What is due is known when the message arrives, and stays known: the prices
\* and the slot do not change before the scan is over.
LEMMA ScanStep ==
  ASSUME TypeOK, MemoryIsTheLedger, ScanMissesNothing, [Next]_vars
  PROVE  ScanMissesNothing'
<1> USE DEF ScanMissesNothing, book, memory, history
<1>1. CASE Start
  BY <1>1 DEF Start
<1>2. ASSUME NEW s \in Signals, Receive(s) PROVE ScanMissesNothing'
  <2>1. /\ OpenIn(status') = active /\ msg' = s
        /\ due' = {p \in active : DueAt(p, latestPrices')}
        /\ slot' = slot
    BY <1>2 DEF Receive, MemoryIsTheLedger
  <2>2. Entry[s] > 0 => latestPrices'[InstrumentOf[s]] = Entry[s]
    BY <1>2, PricesTyped DEF Receive
  <2>3. \A p \in OpenIn(status') \ due' : ~DueAt(p, latestPrices')
    BY <2>1
  <2>4. QED BY <2>1, <2>2, <2>3 DEF DueAt
<1>3. ASSUME NEW p \in due, Exit(p) PROVE ScanMissesNothing'
  <2>1. status' = [status EXCEPT ![p] = "CLOSED"] /\ p \in Signals
    BY <1>3 DEF TypeOK, Exit, Book!Close
  <2>2. OpenIn(status') \ due' = OpenIn(status) \ due
    BY <1>3, <2>1 DEF TypeOK, OpenIn, Exit
  <2>3. UNCHANGED <<slot, msg, latestPrices>> /\ pc = "scan"
    BY <1>3 DEF Exit
  <2>4. QED BY <2>2, <2>3 DEF DueAt
<1>4. CASE pc' # "scan"
  BY <1>4
<1>5. CASE UNCHANGED vars
  BY <1>5 DEF vars, DueAt
<1>6. QED
  <2>1. ASSUME \/ \E p \in due : ExitRaises(p)
               \/ EntryBlocked \/ RecordOpens \/ RecordRejects \/ RecordReplays
               \/ RecordLeavesNothing \/ Crash \/ Tick
        PROVE  pc' # "scan"
    BY <2>1
    DEF ExitRaises, EntryBlocked, RecordOpens, RecordRejects, RecordReplays,
        RecordLeavesNothing, ScanComplete, Crash, Tick
  <2>2. QED BY <1>1, <1>2, <1>3, <1>4, <1>5, <2>1 DEF Next
-----------------------------------------------------------------------------
(***************************************************************************)
(* The two safety invariants                                               *)
(***************************************************************************)
LEMMA SweptStep ==
  ASSUME TypeOK, SweptAfterSquareOff, [Next]_vars
  PROVE  SweptAfterSquareOff'
<1> USE DEF SweptAfterSquareOff, book, memory, history
<1>1. CASE Tick
  <2>1. CASE slot < Slots - 1
    <3>1. slot' = slot + 1 /\ swept' = swept
      BY <1>1, <2>1 DEF Tick
    <3>2. QED BY <3>1, Constants DEF TypeOK
  <2>2. CASE ~(slot < Slots - 1)
    BY <1>1, <2>2 DEF Tick
  <2>3. QED BY <2>1, <2>2
<1>2. ASSUME NEW s \in Signals, Receive(s) PROVE SweptAfterSquareOff'
  BY <1>2 DEF Receive
<1>3. ASSUME NEW p \in due, Exit(p) \/ ExitRaises(p) PROVE SweptAfterSquareOff'
  BY <1>3 DEF Exit, ExitRaises
<1>4. CASE ScanComplete
  BY <1>4 DEF ScanComplete
<1>5. CASE Start \/ Crash \/ UNCHANGED vars
  BY <1>5 DEF Start, Crash, vars
<1>6. QED
  BY <1>1, <1>2, <1>3, <1>4, <1>5
  DEF Next, EntryBlocked, RecordOpens, RecordRejects, RecordReplays, RecordLeavesNothing

\* The end of a scan: no level is hit among the open positions, and after 15:15
\* none of them has a known price.
LEMMA ScanEnd ==
  ASSUME TypeOK, ScanMissesNothing, SweptAfterSquareOff, ScanComplete,
         OpenIn(status') \subseteq OpenIn(status)
  PROVE  NoBreachedPosition' /\ SweptMeansFlat'
<1>1. ASSUME NEW p \in OpenIn(status')
      PROVE  /\ latestPrices'[InstrumentOf[p]] = latestPrices[InstrumentOf[p]]
             /\ ~DueAt(p, latestPrices)
             /\ latestPrices[InstrumentOf[p]] \in Nat
  BY <1>1, Constants DEF ScanComplete, ScanMissesNothing, TypeOK, OpenIn
<1>2. NoBreachedPosition'
  BY <1>1 DEF NoBreachedPosition, DueAt, LevelHit
<1>3. swept' => slot >= SquareOff
  BY DEF ScanComplete, SweptAfterSquareOff
<1>4. SweptMeansFlat'
  BY <1>1, <1>3 DEF SweptMeansFlat, DueAt
<1>5. QED BY <1>2, <1>4

LEMMA SafetyStep ==
  ASSUME TypeOK, MemoryIsTheLedger, ScanMissesNothing, SweptAfterSquareOff,
         NoBreachedPosition, SweptMeansFlat, [Next]_vars
  PROVE  NoBreachedPosition' /\ SweptMeansFlat'
<1> USE DEF book, memory, history
<1>1. CASE Start
  <2>1. \A p \in OpenIn(status') : latestPrices'[InstrumentOf[p]] = 0
    BY <1>1, Constants DEF Start, MemoryIsTheLedger, OpenIn
  <2>2. QED BY <2>1 DEF NoBreachedPosition, SweptMeansFlat
<1>2. CASE EntryBlocked \/ RecordReplays \/ RecordLeavesNothing
  BY <1>2, ScanEnd DEF EntryBlocked, RecordReplays, RecordLeavesNothing
<1>3. CASE RecordRejects
  <2>1. msg \in Signals
    BY <1>3 DEF RecordRejects, ScanComplete, ScanMissesNothing
  <2>2. OpenIn(status') \subseteq OpenIn(status)
    BY <1>3, <2>1, SameBook DEF RecordRejects, TypeOK, OpenIn
  <2>3. QED BY <1>3, <2>2, ScanEnd DEF RecordRejects
<1>4. CASE RecordOpens
  <2>1. msg \in Signals /\ msg \in Approved
    BY <1>4, SameBook DEF RecordOpens, ScanComplete, ScanMissesNothing
  <2>2. OpenIn(status') = OpenIn(status) \cup {msg}
    BY <1>4, <2>1, SameBook DEF RecordOpens, TypeOK, OpenIn
  <2>3. /\ UNCHANGED latestPrices /\ pc = "scan" /\ due = {}
        /\ slot < SquareOff /\ ~swept'
    BY <1>4, Constants
    DEF RecordOpens, ScanComplete, EntryAllowed, TypeOK, SweptAfterSquareOff
  <2>4. ~LevelHit(msg, latestPrices[InstrumentOf[msg]])
    BY <2>1, <2>3, EntryHitsNoLevel DEF ScanMissesNothing
  <2>5. \A p \in OpenIn(status) :
          latestPrices[InstrumentOf[p]] > 0 => ~LevelHit(p, latestPrices[InstrumentOf[p]])
    BY <2>3 DEF ScanMissesNothing, DueAt
  <2>6. NoBreachedPosition'
    BY <2>2, <2>3, <2>4, <2>5 DEF NoBreachedPosition, LevelHit
  <2>7. QED BY <2>3, <2>6 DEF SweptMeansFlat
<1>5. CASE \E p \in due : ExitRaises(p)
  BY <1>5 DEF ExitRaises, NoBreachedPosition, SweptMeansFlat
<1>6. CASE (\E s \in Signals : Receive(s)) \/ (\E p \in due : Exit(p)) \/ Crash
  <2>1. pc' # "idle"
    BY <1>6 DEF Receive, Exit, Crash
  <2>2. QED BY <2>1 DEF NoBreachedPosition, SweptMeansFlat
<1>7. CASE Tick
  <2>1. /\ UNCHANGED <<status, pc, latestPrices, interrupted>>
        /\ swept' => swept
    BY <1>7 DEF Tick, Book!NextDay
  <2>2. QED BY <2>1 DEF NoBreachedPosition, SweptMeansFlat, LevelHit
<1>8. CASE UNCHANGED vars
  BY <1>8 DEF vars, NoBreachedPosition, SweptMeansFlat, LevelHit
<1>9. QED
  BY <1>1, <1>2, <1>3, <1>4, <1>5, <1>6, <1>7, <1>8 DEF Next
-----------------------------------------------------------------------------
(***************************************************************************)
(* The invariant and what follows from it                                  *)
(***************************************************************************)
LEMMA InvariantInit == Init => IInv
<1> SUFFICES ASSUME Init PROVE IInv
  OBVIOUS
<1>1. MemoryIsTheLedger /\ ScanMissesNothing /\ SweptAfterSquareOff
  BY DEF Init, MemoryIsTheLedger, ScanMissesNothing, SweptAfterSquareOff
<1>2. NoBreachedPosition /\ SweptMeansFlat
  BY DEF Init, NoBreachedPosition, SweptMeansFlat
<1>3. QED BY <1>1, <1>2, TypeInit DEF IInv

LEMMA InvariantStep == IInv /\ [Next]_vars => IInv'
  BY TypeStep, MemoryStep, ScanStep, SweptStep, SafetyStep DEF IInv

\* Every variable keeps its type, and active_positions is the set of OPEN rows
\* whenever the process runs (order_desk.py:312-326 and signal_listener.py).
THEOREM MemoryHoldsTheBook == Spec => [](TypeOK /\ MemoryIsTheLedger)
<1>1. IInv => TypeOK /\ MemoryIsTheLedger
  BY DEF IInv
<1>2. QED BY <1>1, InvariantInit, InvariantStep, PTL DEF Spec

\* A finished scan leaves no position beyond its stop or target at the last
\* price the listener has seen, and neither the signal recorded after it nor
\* the passing of time brings one there.
THEOREM ScansLeaveNoBreach == Spec => []NoBreachedPosition
<1>1. IInv => NoBreachedPosition
  BY DEF IInv
<1>2. QED BY <1>1, InvariantInit, InvariantStep, PTL DEF Spec

\* After a finished scan at or past 15:15 only positions without a known price
\* are open, until midnight: the entry cut-off lies before the square-off, so
\* no later message can open another.
THEOREM SquareOffKeepsFlat == Spec => []SweptMeansFlat
<1>1. IInv => SweptMeansFlat
  BY DEF IInv
<1>2. QED BY <1>1, InvariantInit, InvariantStep, PTL DEF Spec
-----------------------------------------------------------------------------
(***************************************************************************)
(* The loop runs on the atomic book                                        *)
(***************************************************************************)

\* The listener knows no price but the entry_trigger of a message of that very
\* instrument, and a position is due only at a known price.
PricesAreEntries ==
  /\ \A i \in Instruments : latestPrices[i] # 0 =>
       \E s \in Signals : InstrumentOf[s] = i /\ Entry[s] = latestPrices[i]
  /\ \A p \in due : latestPrices[InstrumentOf[p]] > 0

\* The book knows every result an exit can have: that of a position at the
\* entry price of a signal for its instrument.
BookKnowsTheResults ==
  \A p, s \in Signals :
    InstrumentOf[s] = InstrumentOf[p] => NetResult(p, Entry[s]) \in Pnl

LEMMA PricesStep ==
  ASSUME IInv, PricesAreEntries, [Next]_vars
  PROVE  PricesAreEntries'
<1> USE DEF book, memory, history
<1>0. TypeOK
  BY DEF IInv
<1>1. ASSUME NEW s \in Signals, Receive(s) PROVE PricesAreEntries'
  <2>1. /\ InstrumentOf[s] \in Instruments /\ Entry[s] \in Nat
        /\ latestPrices \in [Instruments -> Nat]
    BY <1>0, Constants, ListenerAssumption DEF TypeOK
  <2>2. latestPrices' = PricesAfter(s) /\ due' = {p \in active : DueAt(p, latestPrices')}
    BY <1>1 DEF Receive
  <2>3. \A p \in due' : latestPrices'[InstrumentOf[p]] > 0
    BY <2>2 DEF DueAt
  <2>4. ASSUME NEW i \in Instruments, latestPrices'[i] # 0
        PROVE  \E t \in Signals : InstrumentOf[t] = i /\ Entry[t] = latestPrices'[i]
    <3>1. CASE i = InstrumentOf[s] /\ Entry[s] > 0
      BY <2>1, <2>2, <3>1 DEF PricesAfter
    <3>2. CASE ~(i = InstrumentOf[s] /\ Entry[s] > 0)
      <4>1. latestPrices'[i] = latestPrices[i]
        BY <2>1, <2>2, <3>2 DEF PricesAfter
      <4>2. QED BY <2>4, <4>1 DEF PricesAreEntries
    <3>3. QED BY <3>1, <3>2
  <2>5. QED BY <2>3, <2>4 DEF PricesAreEntries
<1>2. ASSUME NEW p \in due, Exit(p) PROVE PricesAreEntries'
  BY <1>2 DEF Exit, PricesAreEntries
<1>3. ASSUME NEW p \in due, ExitRaises(p) PROVE PricesAreEntries'
  BY <1>3 DEF ExitRaises, PricesAreEntries
<1>4. CASE \/ Start \/ EntryBlocked \/ RecordOpens \/ RecordRejects \/ RecordReplays
           \/ RecordLeavesNothing \/ Tick \/ UNCHANGED vars
  BY <1>4
  DEF Start, EntryBlocked, RecordOpens, RecordRejects, RecordReplays,
      RecordLeavesNothing, ScanComplete, Tick, vars, PricesAreEntries
<1>5. CASE Crash
  BY <1>5 DEF Crash, PricesAreEntries
<1>6. QED BY <1>1, <1>2, <1>3, <1>4, <1>5 DEF Next

\* Every iteration changes the ledger by steps of the book only: what is proved
\* of PaperBook holds of the ledger of the listener, if the book's results
\* include those the listener's exits have.
THEOREM ListenerUsesTheBook ==
  ASSUME BookKnowsTheResults
  PROVE  Spec => Book!Spec
<1>1. Init => Book!Init /\ PricesAreEntries
  BY DEF Init, PricesAreEntries
<1>2. ASSUME IInv, PricesAreEntries, [Next]_vars PROVE [Book!Next]_(Book!bookVars)
  <2> USE DEF book, memory, history
  <2>1. ASSUME NEW p \in due, Exit(p) PROVE Book!Next
    <3> DEFINE price == latestPrices[InstrumentOf[p]]
    <3>1. p \in Signals /\ InstrumentOf[p] \in Instruments
      BY <1>2, <2>1, Constants DEF IInv, TypeOK
    <3>2. price > 0 /\ latestPrices \in [Instruments -> Nat]
      BY <1>2, <2>1 DEF PricesAreEntries, IInv, TypeOK
    <3>3. PICK s \in Signals : InstrumentOf[s] = InstrumentOf[p] /\ Entry[s] = price
      BY <1>2, <3>1, <3>2 DEF PricesAreEntries
    <3>4. NetResult(p, price) \in Pnl
      BY <3>1, <3>3 DEF BookKnowsTheResults
    <3>5. Book!Close(p, NetResult(p, price))
      BY <2>1 DEF Exit
    <3>6. QED BY <3>1, <3>4, <3>5 DEF Book!Next
  <2>2. CASE RecordOpens \/ RecordRejects
    <3>1. msg \in Signals /\ (Book!Admit(msg) \/ Book!Reject(msg))
      BY <1>2, <2>2
      DEF IInv, RecordOpens, RecordRejects, ScanComplete, ScanMissesNothing
    <3>2. QED BY <3>1 DEF Book!Next
  <2>3. CASE Tick
    BY <2>3 DEF Tick, Book!Next, Book!bookVars
  <2>4. CASE \/ Start \/ (\E s \in Signals : Receive(s)) \/ (\E p \in due : ExitRaises(p))
             \/ EntryBlocked \/ RecordReplays \/ RecordLeavesNothing
             \/ Crash \/ UNCHANGED vars
    BY <2>4
    DEF Start, Receive, ExitRaises, EntryBlocked, RecordReplays, RecordLeavesNothing,
        ScanComplete, Crash, vars, Book!bookVars
  <2>5. QED BY <1>2, <2>1, <2>2, <2>3, <2>4 DEF Next
<1>3. QED
  BY <1>1, <1>2, PricesStep, InvariantInit, InvariantStep, PTL DEF Spec, Book!Spec
-----------------------------------------------------------------------------
(***************************************************************************)
(* So what PaperBookProofs shows of the book holds of the ledger the loop  *)
(* runs on.  Its assumptions are this module's, and its book is the one    *)
(* above: all three read the admission rules of RiskGate.                  *)
(***************************************************************************)
Limits == INSTANCE PaperBookProofs

\* The most a single exit can lose.
WorstExit == -Min(Pnl \cup {0})

\* What the admission rules are to make of the book the loop trades on.
BookWithinLimits == ExposureWithinLimits(OpenIn(status))
BookWithoutCycle == NoDenselyCorrelatedGroup(OpenIn(status))
BookLossIsBounded ==
  \A day \in Days :
    RealisedOn(day, status, net, closedOn) > -HardDailyLoss - MaxOpenPositions * WorstExit

LEMMA LimitsAssumptions ==
  /\ Limits!SignalsAssumption /\ Limits!CorrelationAssumption
  /\ Limits!LimitsAssumption /\ Limits!BookAssumption
<1>1. Limits!IsFiniteSet(Signals) <=> IsFiniteSet(Signals)
  BY DEF Limits!IsFiniteSet, IsFiniteSet
<1>2. QED
  BY <1>1, SignalsAssumption, CorrelationAssumption, LimitsAssumption, BookAssumption
  DEF Limits!SignalsAssumption, Limits!CorrelationAssumption,
      Limits!LimitsAssumption, Limits!BookAssumption

LEMMA SameSums ==
  ASSUME NEW open
  PROVE  /\ Book!OpenRisk(open) = OpenRisk(open)
         /\ Limits!OpenRisk(open) = OpenRisk(open)
         /\ Book!GrossNotional(open) = GrossNotional(open)
         /\ Limits!GrossNotional(open) = GrossNotional(open)
<1> USE DEF Book!MapThenSumSet, Limits!MapThenSumSet, MapThenSumSet,
            Book!MapThenFoldSet, Limits!MapThenFoldSet, MapThenFoldSet
<1>1. Book!OpenRisk(open) = OpenRisk(open)
  BY DEF Book!OpenRisk, OpenRisk
<1>2. Limits!OpenRisk(open) = OpenRisk(open)
  BY DEF Limits!OpenRisk, OpenRisk
<1>3. Book!GrossNotional(open) = GrossNotional(open)
  BY DEF Book!GrossNotional, GrossNotional
<1>4. Limits!GrossNotional(open) = GrossNotional(open)
  BY DEF Limits!GrossNotional, GrossNotional
<1>5. QED BY <1>1, <1>2, <1>3, <1>4

LEMMA SameCardinality ==
  ASSUME NEW S
  PROVE  Book!Cardinality(S) = Cardinality(S) /\ Limits!Cardinality(S) = Cardinality(S)
  BY DEF Book!Cardinality, Limits!Cardinality, Cardinality

LEMMA SameRows ==
  ASSUME NEW st, NEW pnl, NEW on, NEW day
  PROVE  /\ Book!OpenIn(st) = OpenIn(st) /\ Limits!OpenIn(st) = OpenIn(st)
         /\ Book!RealisedOn(day, st, pnl, on) = RealisedOn(day, st, pnl, on)
         /\ Limits!RealisedOn(day, st, pnl, on) = RealisedOn(day, st, pnl, on)
<1> USE DEF Book!MapThenSumSet, Limits!MapThenSumSet, MapThenSumSet,
            Book!MapThenFoldSet, Limits!MapThenFoldSet, MapThenFoldSet
<1>1. Book!OpenIn(st) = OpenIn(st) /\ Limits!OpenIn(st) = OpenIn(st)
  BY DEF Book!OpenIn, Limits!OpenIn, OpenIn
<1>2. Book!RealisedOn(day, st, pnl, on) = RealisedOn(day, st, pnl, on)
  BY DEF Book!RealisedOn, RealisedOn
<1>3. Limits!RealisedOn(day, st, pnl, on) = RealisedOn(day, st, pnl, on)
  BY DEF Limits!RealisedOn, RealisedOn
<1>4. QED BY <1>1, <1>2, <1>3

LEMMA SameNeighbours ==
  ASSUME NEW s, NEW open
  PROVE  /\ Book!SameSector(s, open) = SameSector(s, open)
         /\ Limits!SameSector(s, open) = SameSector(s, open)
         /\ Book!CorrelatedWith(s, open) = CorrelatedWith(s, open)
         /\ Limits!CorrelatedWith(s, open) = CorrelatedWith(s, open)
         /\ Book!CorrelationMissing(s, open) <=> CorrelationMissing(s, open)
         /\ Limits!CorrelationMissing(s, open) <=> CorrelationMissing(s, open)
  BY DEF Book!SameSector, Limits!SameSector, SameSector,
         Book!CorrelatedWith, Limits!CorrelatedWith, CorrelatedWith,
         Book!CorrelationMissing, Limits!CorrelationMissing, CorrelationMissing,
         Book!CorrelationKnown, Limits!CorrelationKnown, CorrelationKnown,
         Book!HighlyCorrelated, Limits!HighlyCorrelated, HighlyCorrelated

LEMMA SameVerdict ==
  ASSUME NEW s, NEW open, NEW dailyNet
  PROVE  Book!Admissible(s, open, dailyNet) <=> Limits!Admissible(s, open, dailyNet)
<1>1. Book!DailyStop(dailyNet) <=> Limits!DailyStop(dailyNet)
  BY DEF Book!DailyStop, Limits!DailyStop
<1>2. Book!PortfolioRejects(s, open) <=> Limits!PortfolioRejects(s, open)
  BY SameSums, SameCardinality DEF Book!PortfolioRejects, Limits!PortfolioRejects
<1>3. Book!SectorRejects(s, open) <=> Limits!SectorRejects(s, open)
  BY SameSums, SameNeighbours DEF Book!SectorRejects, Limits!SectorRejects
<1>4. Book!CorrelationRejects(s, open) <=> Limits!CorrelationRejects(s, open)
  BY SameSums, SameCardinality, SameNeighbours
  DEF Book!CorrelationRejects, Limits!CorrelationRejects
<1>5. QED
  BY <1>1, <1>2, <1>3, <1>4, SameNeighbours
  DEF Book!Admissible, Limits!Admissible, Book!GateRejects, Limits!GateRejects

\* The two instances of the book are the same book.
LEMMA OneBook ==
  /\ Book!Init => Limits!Init
  /\ [Book!Next]_(Book!bookVars) => [Limits!Next]_(Limits!bookVars)
<1>1. Book!Init => Limits!Init
  BY DEF Book!Init, Limits!Init, Book!FirstStatus, Limits!FirstStatus
<1>2. ASSUME NEW s \in Signals
      PROVE  /\ Book!InstrumentFree(s, status) <=> Limits!InstrumentFree(s, status)
             /\ Book!Admissible(s, Book!OpenIn(status),
                  Book!RealisedOn(today, status, net, closedOn)) <=>
                Limits!Admissible(s, Limits!OpenIn(status),
                  Limits!RealisedOn(today, status, net, closedOn))
  BY SameVerdict, SameRows DEF Book!InstrumentFree, Limits!InstrumentFree
<1>3. ASSUME NEW s \in Signals
      PROVE  /\ Book!Admit(s) => Limits!Admit(s)
             /\ Book!Reject(s) => Limits!Reject(s)
             /\ \A pnl \in Pnl : Book!Close(s, pnl) => Limits!Close(s, pnl)
  BY <1>2 DEF Book!Admit, Limits!Admit, Book!Reject, Limits!Reject,
              Book!Close, Limits!Close
<1>4. Book!NextDay => Limits!NextDay
  BY DEF Book!NextDay, Limits!NextDay
<1>5. Book!Next => Limits!Next
  BY <1>3, <1>4 DEF Book!Next, Limits!Next
<1>6. QED BY <1>1, <1>5 DEF Book!bookVars, Limits!bookVars

LEMMA ListenerKeepsLimitsBook ==
  ASSUME BookKnowsTheResults
  PROVE  Spec => Limits!Spec
  BY ListenerUsesTheBook, OneBook, PTL DEF Book!Spec, Limits!Spec

\* The positions the loop holds open together stay inside every portfolio and
\* sector limit, whatever messages come, late, again or never, and whatever
\* exits raise and crashes cut short (risk_gate.py:75-113 called by
\* signal_listener.py's record_signal).
THEOREM ListenerKeepsTheLimits ==
  ASSUME BookKnowsTheResults, ExposureWithinLimits(Legacy),
         \A s \in Legacy : Risk[s] >= 0 /\ Notional[s] >= 0
  PROVE  Spec => []BookWithinLimits
<1>1. ASSUME NEW open
      PROVE  Limits!ExposureWithinLimits(open) <=> ExposureWithinLimits(open)
  BY SameSums, SameCardinality, SameNeighbours
  DEF Limits!ExposureWithinLimits, ExposureWithinLimits
<1>2. Limits!ExposureWithinLimits(Legacy)
  BY <1>1
<1>3. Limits!Spec => []Limits!BookWithinLimits
  BY <1>2, LimitsAssumptions, Limits!BookLimitsHold
<1>4. Limits!BookWithinLimits => BookWithinLimits
  BY <1>1, SameRows DEF Limits!BookWithinLimits, BookWithinLimits
<1>5. Spec => Limits!Spec
  BY ListenerKeepsLimitsBook
<1>6. QED BY <1>3, <1>4, <1>5, PTL

\* No group of the loop's open positions becomes densely correlated, in
\* whatever order messages open and prices close them.
THEOREM ListenerAdmitsNoCycle ==
  ASSUME BookKnowsTheResults, NoDenselyCorrelatedGroup(Legacy)
  PROVE  Spec => []BookWithoutCycle
<1>1. ASSUME NEW open
      PROVE  Limits!NoDenselyCorrelatedGroup(open) <=> NoDenselyCorrelatedGroup(open)
  BY SameCardinality, SameNeighbours
  DEF Limits!NoDenselyCorrelatedGroup, NoDenselyCorrelatedGroup
<1>2. Limits!NoDenselyCorrelatedGroup(Legacy)
  BY <1>1
<1>3. Limits!Spec => []Limits!NoCorrelatedCycle
  BY <1>2, LimitsAssumptions, Limits!NoCorrelatedCycleHolds
<1>4. Limits!NoCorrelatedCycle => BookWithoutCycle
  BY <1>1, SameRows DEF Limits!NoCorrelatedCycle, BookWithoutCycle
<1>5. Spec => Limits!Spec
  BY ListenerKeepsLimitsBook
<1>6. QED BY <1>3, <1>4, <1>5, PTL

\* A day of the loop realises no more than a bounded loss: the daily stop and
\* the worst exit of each position that may be open when it engages.  The exits
\* are priced by the messages, so the worst one is that of a position at the
\* worst entry price any signal of its instrument carries.
THEOREM ListenerBoundsTheDailyLoss ==
  ASSUME BookKnowsTheResults, IsFiniteSet(Pnl),
         Cardinality(Legacy) <= MaxOpenPositions
  PROVE  Spec => []BookLossIsBounded
<1>1. Limits!IsFiniteSet(Pnl) <=> IsFiniteSet(Pnl)
  BY DEF Limits!IsFiniteSet, IsFiniteSet
<1>2. Limits!Cardinality(Legacy) <= MaxOpenPositions
  BY SameCardinality
<1>3. Limits!Spec => []Limits!DailyLossIsBounded
  BY <1>1, <1>2, LimitsAssumptions, Limits!DailyLossBound
<1>4. Limits!WorstLoss = WorstExit
  BY DEF Limits!WorstLoss, WorstExit, Limits!Min, Min
<1>5. Limits!DailyLossIsBounded => BookLossIsBounded
  BY <1>4, SameRows
  DEF Limits!DailyLossIsBounded, BookLossIsBounded, Limits!Days, Days
<1>6. Spec => Limits!Spec
  BY ListenerKeepsLimitsBook
<1>7. QED BY <1>3, <1>5, <1>6, PTL
=============================================================================
