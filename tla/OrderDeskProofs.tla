--------------------------- MODULE OrderDeskProofs ---------------------------
(***************************************************************************)
(* Theorems about OrderDesk for every number of desks, signals and         *)
(* instruments, every limit and every retry budget.                        *)
(***************************************************************************)
EXTENDS OrderDesk, FiniteSetTheorems, TLAPS

\* What a call in flight knows about its own arguments and progress.
CallsWellFormed ==
  \A d \in Desks :
    /\ pc[d] \in {"begin", "mutex", "decide", "commit", "return"} =>
         call[d].sig \in Signals /\ call[d].op \in {"record", "close"}
    /\ call[d].op = "close" => call[d].pnl \in Pnl

\* Between its UPDATE of the mutex row and the end of its transaction a desk
\* owns that row, and only then.
OwnerIsDeciding ==
  \A d \in Desks : mutexOwner = d <=> pc[d] \in {"decide", "commit"}

\* A snapshot of which no mutex write has been committed since is the ledger.
CurrentSnapshots ==
  \A d \in Desks :
    /\ mutexCurrent[d] => pc[d] \in InTransaction /\ snap[d] = ledger
    /\ pc[d] \in {"decide", "commit"} => mutexCurrent[d]

\* A lock always belongs to an OPEN row of its instrument.
LocksAreOpen ==
  \A i \in Instruments :
    ledger.lock[i] # NoSignal =>
      ledger.lock[i] \in Open(ledger) /\ InstrumentOf[ledger.lock[i]] = i

\* Once a desk has run _init_db no OPEN row is without its lock.
OpenRowsLocked ==
  (\E d \in Desks : pc[d] # "down") =>
    \A s \in Open(ledger) : ledger.lock[InstrumentOf[s]] = s

\* What a desk has decided to write is right for the snapshot it has read.
VerdictsJustified ==
  \A d \in Desks :
    LET s == call[d].sig
    IN  pc[d] = "commit" =>
          \/ verdict[d] = "EXISTING"
          \/ /\ verdict[d] = "OPEN"
             /\ snap[d].status[s] = "NONE"
             /\ s \in Approved
             /\ snap[d].lock[InstrumentOf[s]] = NoSignal
             /\ AdmissibleTo(d)
          \/ /\ verdict[d] = "REJECTED"
             /\ snap[d].status[s] = "NONE"
             /\ \/ s \notin Approved
                \/ /\ snap[d].lock[InstrumentOf[s]] = NoSignal
                   /\ ~AdmissibleTo(d)
          \/ /\ verdict[d] = "CLOSED"
             /\ call[d].op = "close"
             /\ snap[d].status[s] = "OPEN"

\* The inductive invariant.
IInv ==
  /\ TypeOK
  /\ CallsWellFormed
  /\ OwnerIsDeciding
  /\ CurrentSnapshots
  /\ OneOpenPerInstrument
  /\ LocksAreOpen
  /\ OpenRowsLocked
  /\ VerdictsJustified
-----------------------------------------------------------------------------
LEMMA FirstLedgerTyped == FirstLedger \in Ledgers
  BY SignalsAssumption, BookAssumption
  DEF FirstLedger, Ledgers, FirstStatus, RowStatus, Days

LEMMA NoCallTyped == NoCall \in Calls
  BY DEF NoCall, Calls

\* Leaving a call keeps the thread's variables well typed, and so does the
\* retry decision.
LEMMA LeaveCallTypes ==
  ASSUME TypeOK, NEW d \in Desks, LeaveCall(d)
  PROVE  /\ pc' \in [Desks -> Locations]
         /\ call' \in [Desks -> Calls]
         /\ due' \in [Desks -> SUBSET Signals]
         /\ tries' \in [Desks -> 0..(TransactionRetries - 1)]
  BY NoCallTyped, DeskAssumption DEF TypeOK, LeaveCall, Locations

LEMMA RetryTypes ==
  ASSUME TypeOK, NEW d \in Desks, RetryOrRaise(d)
  PROVE  /\ pc' \in [Desks -> Locations]
         /\ call' \in [Desks -> Calls]
         /\ due' \in [Desks -> SUBSET Signals]
         /\ tries' \in [Desks -> 0..(TransactionRetries - 1)]
<1>1. CASE tries[d] + 1 < TransactionRetries
  BY <1>1, DeskAssumption DEF TypeOK, RetryOrRaise, Locations
<1>2. CASE ~(tries[d] + 1 < TransactionRetries)
  BY <1>2, LeaveCallTypes DEF RetryOrRaise
<1>3. QED BY <1>1, <1>2

LEMMA EndTransactionTypes ==
  ASSUME TypeOK, NEW d \in Desks, EndTransaction(d)
  PROVE  /\ mutexOwner' \in Desks \cup {NoDesk}
         /\ snap' \in [Desks -> Ledgers]
         /\ mutexCurrent' \in [Desks -> BOOLEAN]
         /\ verdict' \in [Desks -> Verdicts]
  BY FirstLedgerTyped DEF TypeOK, EndTransaction, Verdicts

\* The migration of _init_db only adds locks.
LEMMA MigrationTyped ==
  ASSUME NEW l \in Ledgers
  PROVE  /\ WithMissingLocks(l) \in Ledgers
         /\ WithMissingLocks(l).status = l.status
         /\ WithMissingLocks(l).net = l.net
         /\ WithMissingLocks(l).closedOn = l.closedOn
<1> DEFINE locks == [i \in Instruments |->
              IF l.lock[i] = NoSignal /\ \E s \in Open(l) : InstrumentOf[s] = i
              THEN CHOOSE s \in Open(l) : InstrumentOf[s] = i
              ELSE l.lock[i]]
<1>1. locks \in [Instruments -> Signals \cup {NoSignal}]
  <2> SUFFICES ASSUME NEW i \in Instruments
               PROVE  locks[i] \in Signals \cup {NoSignal}
    OBVIOUS
  <2>1. CASE l.lock[i] = NoSignal /\ \E s \in Open(l) : InstrumentOf[s] = i
    BY <2>1 DEF Open, OpenIn
  <2>2. CASE ~(l.lock[i] = NoSignal /\ \E s \in Open(l) : InstrumentOf[s] = i)
    BY <2>2 DEF Ledgers
  <2>3. QED BY <2>1, <2>2
<1>2. WithMissingLocks(l) = [l EXCEPT !.lock = locks]
  BY DEF WithMissingLocks
<1> HIDE DEF locks
<1>3. QED BY <1>1, <1>2 DEF Ledgers

LEMMA WrittenTyped ==
  ASSUME TypeOK, NEW d \in Desks, call[d].sig \in Signals, call[d].pnl \in Int
  PROVE  Written(d) \in Ledgers
<1> DEFINE s == call[d].sig
           i == InstrumentOf[s]
<1>1. ledger \in Ledgers /\ i \in Instruments /\ today \in Days
  BY SignalsAssumption DEF TypeOK
<1>2. [ledger EXCEPT !.status[s] = "OPEN", !.lock[i] = s] \in Ledgers
  BY <1>1 DEF Ledgers, RowStatus
<1>3. [ledger EXCEPT !.status[s] = "REJECTED"] \in Ledgers
  BY <1>1 DEF Ledgers, RowStatus
<1>4. [ledger EXCEPT !.status[s] = "CLOSED", !.net[s] = call[d].pnl,
                     !.closedOn[s] = today,
                     !.lock[i] = IF @ = s THEN NoSignal ELSE @] \in Ledgers
  BY <1>1 DEF Ledgers, RowStatus
<1>5. QED BY <1>1, <1>2, <1>3, <1>4 DEF Written
-----------------------------------------------------------------------------
(***************************************************************************)
(* Type correctness                                                        *)
(***************************************************************************)
LEMMA TypeInit == Init => TypeOK
<1> SUFFICES ASSUME Init PROVE TypeOK
  OBVIOUS
<1>1. [s \in Signals |-> 0] \in [Signals -> Nat]
  OBVIOUS
<1>2. [d \in Desks |-> 0] \in [Desks -> 0..(TransactionRetries - 1)]
  BY DeskAssumption
<1>3. QED
  BY <1>1, <1>2, FirstLedgerTyped, NoCallTyped, BookAssumption
  DEF Init, TypeOK, Days, Locations, Verdicts

LEMMA TypeStep ==
  ASSUME TypeOK, CallsWellFormed, [Next]_vars
  PROVE  TypeOK'
<1> USE DEF txVars, memoryVars, threadVars
<1>1. ASSUME NEW d \in Desks, InitDb(d) PROVE TypeOK'
  BY <1>1, MigrationTyped DEF TypeOK, InitDb, Locations
<1>2. ASSUME NEW d \in Desks, NEW s \in Signals, RecordSignal(d, s) PROVE TypeOK'
  BY <1>2 DEF TypeOK, RecordSignal, Locations, Calls
<1>3. ASSUME NEW d \in Desks, NEW exits \in SUBSET held[d],
             EvaluateOpenPositions(d, exits)
      PROVE  TypeOK'
  BY <1>3 DEF TypeOK, EvaluateOpenPositions, Locations
<1>4. ASSUME NEW d \in Desks, Step(d) PROVE TypeOK'
  <2>1. CASE HydrateActiveState(d)
    <3> DEFINE qty == [s \in Signals |-> IF s \in Open(ledger) THEN Quantity[s] ELSE 0]
    <3>1. Open(ledger) \in SUBSET Signals /\ qty \in [Signals -> Nat]
      BY DeskAssumption DEF Open, OpenIn
    <3> HIDE DEF qty
    <3>2. /\ held' = [held EXCEPT ![d] = Open(ledger)]
          /\ heldQty' = [heldQty EXCEPT ![d] = qty]
      BY <2>1 DEF HydrateActiveState, qty
    <3>3. QED BY <2>1, <3>1, <3>2 DEF TypeOK, HydrateActiveState, Locations
  <2>2. CASE HydrateRaises(d)
    BY <2>2 DEF TypeOK, HydrateRaises, Locations
  <2>3. CASE Begin(d)
    BY <2>3 DEF TypeOK, Begin, Locations
  <2>4. CASE AttachConflict(d)
    <3>1. RetryOrRaise(d) \/ LeaveCall(d)
      BY <2>4 DEF AttachConflict
    <3>2. /\ pc' \in [Desks -> Locations]
          /\ call' \in [Desks -> Calls]
          /\ due' \in [Desks -> SUBSET Signals]
          /\ tries' \in [Desks -> 0..(TransactionRetries - 1)]
      BY <3>1, RetryTypes, LeaveCallTypes
    <3>3. QED BY <2>4, <3>2 DEF TypeOK, AttachConflict
  <2>5. CASE UpdateMutex(d)
    BY <2>5 DEF TypeOK, UpdateMutex, Locations
  <2>6. CASE WriteConflict(d)
    BY <2>6, RetryTypes, EndTransactionTypes DEF TypeOK, WriteConflict
  <2>7. CASE TransactionFails(d)
    BY <2>7, LeaveCallTypes, EndTransactionTypes DEF TypeOK, TransactionFails
  <2>8. ASSUME NEW v \in Verdicts, Decided(d, v) PROVE TypeOK'
    BY <2>8 DEF TypeOK, Decided, Locations
  <2>9. CASE SignalReplay(d) \/ AdmitSignal(d) \/ RejectSignal(d) \/ DecideClose(d)
    BY <2>8, <2>9 DEF SignalReplay, AdmitSignal, RejectSignal, DecideClose, Verdicts
  <2>10. CASE DuplicateDbLocked(d)
    BY <2>10, LeaveCallTypes, EndTransactionTypes DEF TypeOK, DuplicateDbLocked
  <2>11. CASE RecordReturns(d)
    <3>1. call[d].sig \in Signals
      BY <2>11 DEF RecordReturns, CallsWellFormed
    <3>2. /\ held' \in [Desks -> SUBSET Signals]
          /\ heldQty' \in [Desks -> [Signals -> Nat]]
      <4> DEFINE s == call[d].sig
                 q == IF verdict[d] = "OPEN" THEN Quantity[s] ELSE 0
      <4>1. q \in Nat
        BY <3>1, DeskAssumption
      <4>2. \/ UNCHANGED memoryVars
            \/ /\ held' = [held EXCEPT ![d] = @ \cup {s}]
               /\ heldQty' = [heldQty EXCEPT ![d][s] = q]
        BY <2>11 DEF RecordReturns
      <4> HIDE DEF q
      <4>3. held' \in [Desks -> SUBSET Signals]
        <5>1. held[d] \cup {s} \in SUBSET Signals
          BY <3>1 DEF TypeOK
        <5>2. held' = held \/ held' = [held EXCEPT ![d] = held[d] \cup {s}]
          BY <4>2
        <5> HIDE DEF s
        <5>3. QED BY <5>1, <5>2 DEF TypeOK
      <4>4. CASE heldQty' = [heldQty EXCEPT ![d][s] = q]
        <5>1. [heldQty[d] EXCEPT ![s] = q] \in [Signals -> Nat]
          BY <3>1, <4>1 DEF TypeOK
        <5>2. QED BY <4>3, <4>4, <5>1 DEF TypeOK
      <4>5. QED BY <4>2, <4>3, <4>4 DEF TypeOK
    <3>3. QED
      BY <2>11, <3>2, LeaveCallTypes, EndTransactionTypes DEF TypeOK, RecordReturns
  <2>12. ASSUME NEW s \in due[d], ZeroQuantity(d, s) PROVE TypeOK'
    BY <2>12, LeaveCallTypes DEF TypeOK, ZeroQuantity
  <2>13. ASSUME NEW s \in due[d], NEW pnl \in Pnl, ClosePosition(d, s, pnl)
         PROVE  TypeOK'
    BY <2>13, BookAssumption DEF TypeOK, ClosePosition, Locations, Calls
  <2>14. CASE CloseRefused(d)
    BY <2>14, LeaveCallTypes, EndTransactionTypes DEF TypeOK, CloseRefused
  <2>15. CASE CloseReturns(d)
    <3>1. /\ pc' \in [Desks -> Locations]
          /\ due' \in [Desks -> SUBSET Signals]
          /\ call' \in [Desks -> Calls]
          /\ tries' \in [Desks -> 0..(TransactionRetries - 1)]
      BY <2>15, NoCallTyped, DeskAssumption DEF TypeOK, CloseReturns, Locations
    <3>2. /\ held' \in [Desks -> SUBSET Signals]
          /\ heldQty' \in [Desks -> [Signals -> Nat]]
      BY <2>15 DEF TypeOK, CloseReturns
    <3>3. QED BY <2>15, <3>1, <3>2, EndTransactionTypes DEF TypeOK, CloseReturns
  <2>16. CASE Commit(d)
    <3>1. call[d].sig \in Signals /\ call[d].pnl \in Int
      BY <2>16 DEF Commit, CallsWellFormed, TypeOK, Calls
    <3>2. ledger' \in Ledgers
      BY <2>16, <3>1, WrittenTyped DEF Commit
    <3>3. QED BY <2>16, <3>2 DEF TypeOK, Commit, Locations
  <2>17. QED
    BY <1>4, <2>1, <2>2, <2>3, <2>4, <2>5, <2>6, <2>7, <2>9, <2>10, <2>11, <2>12, <2>13,
       <2>14, <2>15, <2>16 DEF Step
<1>5. CASE Crash
  <2>1. [s \in Signals |-> 0] \in [Signals -> Nat]
    OBVIOUS
  <2>2. [d \in Desks |-> 0] \in [Desks -> 0..(TransactionRetries - 1)]
    BY DeskAssumption
  <2>3. QED
    BY <1>5, <2>1, <2>2, FirstLedgerTyped, NoCallTyped
    DEF TypeOK, Crash, Locations, Verdicts
<1>6. CASE NextDay
  BY <1>6, BookAssumption DEF TypeOK, NextDay, Days
<1>7. CASE UNCHANGED vars
  BY <1>7 DEF TypeOK, vars
<1>8. QED BY <1>1, <1>2, <1>3, <1>4, <1>5, <1>6, <1>7 DEF Next
-----------------------------------------------------------------------------
(***************************************************************************)
(* The shapes of a step.  Most actions either stay outside any transaction *)
(* or end one; only what a shape says of them matters to the invariant.    *)
(***************************************************************************)
OthersStay(d) ==
  \A e \in Desks \ {d} : pc'[e] = pc[e] /\ call'[e] = call[e]

\* A step outside any transaction.
Quiet(d) ==
  /\ pc[d] \notin InTransaction \cup {"down"}
  /\ pc'[d] \in {"down", "idle", "scan", "begin"}
  /\ OthersStay(d)
  /\ UNCHANGED <<ledger, today, txVars>>

\* A step that ends the desk's transaction.
Ends(d) ==
  /\ pc[d] # "down"
  /\ pc'[d] \in {"idle", "scan", "begin"}
  /\ OthersStay(d)
  /\ EndTransaction(d)
  /\ UNCHANGED <<ledger, today>>

Decides(d) == SignalReplay(d) \/ AdmitSignal(d) \/ RejectSignal(d) \/ DecideClose(d)

LEMMA LeaveCallShape ==
  ASSUME TypeOK, NEW d \in Desks, LeaveCall(d) \/ RetryOrRaise(d)
  PROVE  pc'[d] \in {"idle", "scan", "begin"} /\ OthersStay(d)
  BY DEF TypeOK, LeaveCall, RetryOrRaise, OthersStay

LEMMA StepShapes ==
  ASSUME TypeOK, NEW d \in Desks, Step(d)
  PROVE  \/ Begin(d) \/ UpdateMutex(d) \/ Decides(d) \/ Commit(d)
         \/ Quiet(d) \/ Ends(d)
<1>1. CASE HydrateActiveState(d) \/ HydrateRaises(d)
  BY <1>1 DEF TypeOK, HydrateActiveState, HydrateRaises, Quiet, OthersStay, InTransaction
<1>2. CASE AttachConflict(d)
  BY <1>2, LeaveCallShape DEF AttachConflict, Quiet, InTransaction
<1>3. CASE WriteConflict(d) \/ TransactionFails(d) \/ DuplicateDbLocked(d)
           \/ CloseRefused(d) \/ RecordReturns(d)
  BY <1>3, LeaveCallShape
  DEF WriteConflict, TransactionFails, DuplicateDbLocked, CloseRefused, RecordReturns,
      Recording, Closing, Ends, InTransaction
<1>4. ASSUME NEW s \in due[d], ZeroQuantity(d, s) PROVE Quiet(d)
  BY <1>4, LeaveCallShape DEF ZeroQuantity, Quiet, InTransaction
<1>5. ASSUME NEW s \in due[d], NEW pnl \in Pnl, ClosePosition(d, s, pnl)
      PROVE  Quiet(d)
  BY <1>5 DEF TypeOK, ClosePosition, Quiet, OthersStay, InTransaction
<1>6. CASE CloseReturns(d)
  BY <1>6 DEF TypeOK, CloseReturns, Ends, OthersStay
<1>7. QED
  BY <1>1, <1>2, <1>3, <1>4, <1>5, <1>6 DEF Step, Decides

LEMMA NextShapes ==
  ASSUME TypeOK, Next
  PROVE  \/ \E d \in Desks :
              \/ InitDb(d) \/ Begin(d) \/ UpdateMutex(d) \/ Decides(d) \/ Commit(d)
              \/ Quiet(d) \/ Ends(d)
         \/ Crash \/ NextDay
<1>1. ASSUME NEW d \in Desks, NEW s \in Signals, RecordSignal(d, s) PROVE Quiet(d)
  BY <1>1 DEF TypeOK, RecordSignal, Quiet, OthersStay, InTransaction
<1>2. ASSUME NEW d \in Desks, NEW exits \in SUBSET held[d],
             EvaluateOpenPositions(d, exits)
      PROVE  Quiet(d)
  BY <1>2 DEF TypeOK, EvaluateOpenPositions, Quiet, OthersStay, InTransaction
<1>3. QED BY <1>1, <1>2, StepShapes DEF Next
-----------------------------------------------------------------------------
(***************************************************************************)
(* The conjuncts of the inductive invariant, one lemma each                *)
(***************************************************************************)
LEMMA CallsStep ==
  ASSUME TypeOK, CallsWellFormed, [Next]_vars
  PROVE  CallsWellFormed'
<1> USE DEF CallsWellFormed
<1>1. ASSUME NEW d \in Desks, LeaveCall(d) \/ RetryOrRaise(d),
             pc[d] \in {"begin", "mutex", "decide", "commit", "return"} \/ LeaveCall(d)
      PROVE  CallsWellFormed'
  BY <1>1 DEF TypeOK, LeaveCall, RetryOrRaise, NoCall
<1>2. ASSUME NEW d \in Desks, InitDb(d) PROVE CallsWellFormed'
  BY <1>2 DEF TypeOK, InitDb
<1>3. ASSUME NEW d \in Desks, NEW s \in Signals, RecordSignal(d, s)
      PROVE  CallsWellFormed'
  BY <1>3 DEF TypeOK, RecordSignal
<1>4. ASSUME NEW d \in Desks, NEW exits \in SUBSET held[d],
             EvaluateOpenPositions(d, exits)
      PROVE  CallsWellFormed'
  BY <1>4 DEF TypeOK, EvaluateOpenPositions
<1>5. ASSUME NEW d \in Desks, Step(d) PROVE CallsWellFormed'
  <2>1. CASE HydrateActiveState(d) \/ HydrateRaises(d)
    BY <2>1 DEF TypeOK, HydrateActiveState, HydrateRaises
  <2>2. CASE Begin(d) \/ UpdateMutex(d)
    BY <2>2 DEF TypeOK, Begin, UpdateMutex
  <2>3. CASE AttachConflict(d)
    BY <2>3, <1>1 DEF AttachConflict
  <2>4. CASE WriteConflict(d)
    BY <2>4, <1>1 DEF WriteConflict
  <2>5. CASE TransactionFails(d) \/ DuplicateDbLocked(d) \/ CloseRefused(d)
             \/ RecordReturns(d)
    BY <2>5, <1>1 DEF TransactionFails, DuplicateDbLocked, CloseRefused, RecordReturns
  <2>6. CASE Decides(d)
    BY <2>6
    DEF TypeOK, Decides, SignalReplay, AdmitSignal, RejectSignal, DecideClose, Decided,
        Recording, Closing
  <2>7. ASSUME NEW s \in due[d], ZeroQuantity(d, s) PROVE CallsWellFormed'
    BY <2>7, <1>1 DEF ZeroQuantity
  <2>8. ASSUME NEW s \in due[d], NEW pnl \in Pnl, ClosePosition(d, s, pnl)
        PROVE  CallsWellFormed'
    BY <2>8 DEF TypeOK, ClosePosition
  <2>9. CASE CloseReturns(d)
    BY <2>9 DEF TypeOK, CloseReturns, NoCall
  <2>10. CASE Commit(d)
    BY <2>10 DEF TypeOK, Commit
  <2>11. QED
    BY <1>5, <2>1, <2>2, <2>3, <2>4, <2>5, <2>6, <2>7, <2>8, <2>9, <2>10
    DEF Step, Decides
<1>6. CASE Crash
  BY <1>6 DEF Crash, NoCall
<1>7. CASE NextDay \/ UNCHANGED vars
  BY <1>7 DEF NextDay, vars, threadVars
<1>8. QED BY <1>2, <1>3, <1>4, <1>5, <1>6, <1>7 DEF Next
-----------------------------------------------------------------------------
LEMMA OwnerStep ==
  ASSUME TypeOK, CallsWellFormed, OwnerIsDeciding, [Next]_vars
  PROVE  OwnerIsDeciding'
<1> USE DEF OwnerIsDeciding
<1>1. ASSUME NEW d \in Desks, InitDb(d) PROVE OwnerIsDeciding'
  BY <1>1 DEF TypeOK, InitDb, txVars
<1>2. ASSUME NEW d \in Desks, Begin(d) PROVE OwnerIsDeciding'
  BY <1>2 DEF TypeOK, Begin
<1>3. ASSUME NEW d \in Desks, UpdateMutex(d) PROVE OwnerIsDeciding'
  <2>1. \A e \in Desks : pc[e] \notin {"decide", "commit"}
    BY <1>3, DeskAssumption DEF UpdateMutex, MutexAvailable
  <2>2. mutexOwner' = d /\ pc' = [pc EXCEPT ![d] = "decide"]
    BY <1>3 DEF UpdateMutex
  <2>3. QED BY <2>1, <2>2 DEF TypeOK
<1>4. ASSUME NEW d \in Desks, Commit(d) PROVE OwnerIsDeciding'
  <2>1. mutexOwner = d /\ mutexOwner' = NoDesk /\ pc' = [pc EXCEPT ![d] = "return"]
    BY <1>4 DEF Commit
  <2>2. QED BY <2>1, DeskAssumption DEF TypeOK
<1>5. ASSUME NEW d \in Desks, Decides(d) PROVE OwnerIsDeciding'
  BY <1>5
  DEF TypeOK, Decides, SignalReplay, AdmitSignal, RejectSignal, DecideClose, Decided,
      Recording, Closing
<1>6. ASSUME NEW d \in Desks, Quiet(d) PROVE OwnerIsDeciding'
  BY <1>6 DEF Quiet, OthersStay, txVars, InTransaction
<1>7. ASSUME NEW d \in Desks, Ends(d) PROVE OwnerIsDeciding'
  BY <1>7, DeskAssumption DEF Ends, OthersStay, EndTransaction
<1>8. CASE Crash
  BY <1>8, DeskAssumption DEF Crash
<1>9. CASE NextDay \/ UNCHANGED vars
  BY <1>9 DEF NextDay, vars, threadVars, txVars
<1>10. QED BY <1>1, <1>2, <1>3, <1>4, <1>5, <1>6, <1>7, <1>8, <1>9, NextShapes

\* Once some desk is past _init_db, another desk's _init_db adds no lock.
LEMMA MigrationOnce ==
  ASSUME TypeOK, OpenRowsLocked, NEW d \in Desks, pc[d] # "down"
  PROVE  WithMissingLocks(ledger) = ledger
<1> DEFINE locks == [i \in Instruments |->
              IF ledger.lock[i] = NoSignal /\ \E s \in Open(ledger) : InstrumentOf[s] = i
              THEN CHOOSE s \in Open(ledger) : InstrumentOf[s] = i
              ELSE ledger.lock[i]]
<1>1. ASSUME NEW i \in Instruments PROVE locks[i] = ledger.lock[i]
  <2>1. ~(ledger.lock[i] = NoSignal /\ \E s \in Open(ledger) : InstrumentOf[s] = i)
    BY DeskAssumption DEF OpenRowsLocked, Open, OpenIn
  <2>2. QED BY <2>1
<1>2. locks = ledger.lock
  BY <1>1 DEF TypeOK, Ledgers
<1>3. WithMissingLocks(ledger) = [ledger EXCEPT !.lock = locks]
  BY DEF WithMissingLocks
<1> HIDE DEF locks
<1>4. QED BY <1>2, <1>3 DEF TypeOK, Ledgers

LEMMA SnapshotsStep ==
  ASSUME TypeOK, CallsWellFormed, OwnerIsDeciding, CurrentSnapshots, OpenRowsLocked,
         [Next]_vars
  PROVE  CurrentSnapshots'
<1> USE DEF CurrentSnapshots, InTransaction
<1>1. ASSUME NEW d \in Desks, InitDb(d) PROVE CurrentSnapshots'
  <2>1. CASE \A e \in Desks : pc[e] = "down"
    BY <1>1, <2>1 DEF TypeOK, InitDb, txVars
  <2>2. CASE \E e \in Desks : pc[e] # "down"
    <3>1. ledger' = ledger
      BY <1>1, <2>2, MigrationOnce DEF InitDb
    <3>2. QED BY <1>1, <3>1 DEF TypeOK, InitDb, txVars
  <2>3. QED BY <2>1, <2>2
<1>2. ASSUME NEW d \in Desks, Begin(d) PROVE CurrentSnapshots'
  BY <1>2 DEF TypeOK, Begin
<1>3. ASSUME NEW d \in Desks, UpdateMutex(d) PROVE CurrentSnapshots'
  BY <1>3 DEF TypeOK, UpdateMutex, MutexAvailable
<1>4. ASSUME NEW d \in Desks, Decides(d) PROVE CurrentSnapshots'
  BY <1>4
  DEF TypeOK, Decides, SignalReplay, AdmitSignal, RejectSignal, DecideClose, Decided,
      Recording, Closing
<1>5. ASSUME NEW d \in Desks, Commit(d) PROVE CurrentSnapshots'
  BY <1>5 DEF TypeOK, Commit, OwnerIsDeciding
<1>6. ASSUME NEW d \in Desks, Quiet(d) PROVE CurrentSnapshots'
  BY <1>6 DEF TypeOK, Quiet, OthersStay, txVars
<1>7. ASSUME NEW d \in Desks, Ends(d) PROVE CurrentSnapshots'
  BY <1>7 DEF TypeOK, Ends, OthersStay, EndTransaction
<1>8. CASE Crash
  BY <1>8 DEF Crash
<1>9. CASE NextDay \/ UNCHANGED vars
  BY <1>9 DEF NextDay, vars, threadVars, txVars
<1>10. QED BY <1>1, <1>2, <1>3, <1>4, <1>5, <1>6, <1>7, <1>8, <1>9, NextShapes
-----------------------------------------------------------------------------
\* What a COMMIT does to the ledger, given that the desk decided on the
\* present one.
LEMMA CommitShape ==
  ASSUME TypeOK, CallsWellFormed, CurrentSnapshots, OpenRowsLocked, VerdictsJustified,
         NEW d \in Desks, Commit(d)
  PROVE  LET s == call[d].sig
             i == InstrumentOf[s]
         IN  /\ s \in Signals /\ i \in Instruments
             /\ snap[d] = ledger
             /\ \/ ledger' = ledger
                \/ /\ verdict[d] = "OPEN"
                   /\ ledger.status[s] = "NONE" /\ ledger.lock[i] = NoSignal
                   /\ s \in Approved /\ AdmissibleTo(d)
                   /\ ledger'.status = [ledger.status EXCEPT ![s] = "OPEN"]
                   /\ ledger'.lock = [ledger.lock EXCEPT ![i] = s]
                   /\ ledger'.net = ledger.net /\ ledger'.closedOn = ledger.closedOn
                \/ /\ verdict[d] = "REJECTED"
                   /\ ledger.status[s] = "NONE"
                   /\ s \notin Approved \/ (ledger.lock[i] = NoSignal /\ ~AdmissibleTo(d))
                   /\ ledger'.status = [ledger.status EXCEPT ![s] = "REJECTED"]
                   /\ ledger'.lock = ledger.lock
                   /\ ledger'.net = ledger.net /\ ledger'.closedOn = ledger.closedOn
                \/ /\ verdict[d] = "CLOSED"
                   /\ call[d].pnl \in Pnl
                   /\ ledger.status[s] = "OPEN" /\ ledger.lock[i] = s
                   /\ ledger'.status = [ledger.status EXCEPT ![s] = "CLOSED"]
                   /\ ledger'.lock = [ledger.lock EXCEPT ![i] = NoSignal]
                   /\ ledger'.net = [ledger.net EXCEPT ![s] = call[d].pnl]
                   /\ ledger'.closedOn = [ledger.closedOn EXCEPT ![s] = today]
<1> DEFINE s == call[d].sig
           i == InstrumentOf[s]
<1>1. /\ s \in Signals /\ i \in Instruments
      /\ ledger \in Ledgers /\ snap[d] = ledger
      /\ ledger' = Written(d)
      /\ pc[d] = "commit"
  BY SignalsAssumption DEF Commit, CallsWellFormed, TypeOK, CurrentSnapshots
<1>2. CASE verdict[d] = "EXISTING"
  BY <1>1, <1>2 DEF Written
<1>3. CASE verdict[d] = "OPEN"
  <2>1. ledger' = [ledger EXCEPT !.status[s] = "OPEN", !.lock[i] = s]
    BY <1>1, <1>3 DEF Written
  <2>2. /\ ledger.status[s] = "NONE" /\ ledger.lock[i] = NoSignal
        /\ s \in Approved /\ AdmissibleTo(d)
    BY <1>1, <1>3 DEF VerdictsJustified
  <2> HIDE DEF s, i
  <2>3. /\ ledger'.status = [ledger.status EXCEPT ![s] = "OPEN"]
        /\ ledger'.lock = [ledger.lock EXCEPT ![i] = s]
        /\ ledger'.net = ledger.net /\ ledger'.closedOn = ledger.closedOn
    BY <1>1, <2>1 DEF Ledgers
  <2>4. QED BY <1>1, <1>3, <2>2, <2>3 DEF s, i
<1>4. CASE verdict[d] = "REJECTED"
  <2>1. ledger' = [ledger EXCEPT !.status[s] = "REJECTED"]
    BY <1>1, <1>4 DEF Written
  <2>2. /\ ledger.status[s] = "NONE"
        /\ s \notin Approved \/ (ledger.lock[i] = NoSignal /\ ~AdmissibleTo(d))
    BY <1>1, <1>4 DEF VerdictsJustified
  <2> HIDE DEF s, i
  <2>3. /\ ledger'.status = [ledger.status EXCEPT ![s] = "REJECTED"]
        /\ ledger'.lock = ledger.lock
        /\ ledger'.net = ledger.net /\ ledger'.closedOn = ledger.closedOn
    BY <1>1, <2>1 DEF Ledgers
  <2>4. QED BY <1>1, <1>4, <2>2, <2>3 DEF s, i
<1>5. CASE verdict[d] = "CLOSED"
  <2>1. ledger.status[s] = "OPEN" /\ call[d].pnl \in Pnl
    BY <1>1, <1>5 DEF VerdictsJustified, CallsWellFormed
  <2>2. ledger.lock[i] = s
    BY <1>1, <2>1 DEF OpenRowsLocked, Open, OpenIn
  <2>3. ledger' = [ledger EXCEPT !.status[s] = "CLOSED", !.net[s] = call[d].pnl,
                                 !.closedOn[s] = today,
                                 !.lock[i] = IF @ = s THEN NoSignal ELSE @]
    BY <1>1, <1>5 DEF Written
  <2> HIDE DEF s, i
  <2>4. /\ ledger'.status = [ledger.status EXCEPT ![s] = "CLOSED"]
        /\ ledger'.net = [ledger.net EXCEPT ![s] = call[d].pnl]
        /\ ledger'.closedOn = [ledger.closedOn EXCEPT ![s] = today]
    BY <1>1, <2>3 DEF Ledgers
  <2>5. ledger'.lock = [ledger.lock EXCEPT ![i] = NoSignal]
    BY <1>1, <2>2, <2>3 DEF Ledgers
  <2>6. QED BY <1>1, <1>5, <2>1, <2>2, <2>4, <2>5 DEF s, i
<1>6. QED BY <1>1, <1>2, <1>3, <1>4, <1>5 DEF VerdictsJustified

\* The three invariants of the ledger itself.
LedgerInv == OneOpenPerInstrument /\ LocksAreOpen /\ OpenRowsLocked

LEMMA LedgerCommit ==
  ASSUME TypeOK, CallsWellFormed, CurrentSnapshots, LedgerInv, VerdictsJustified,
         NEW d \in Desks, Commit(d)
  PROVE  LedgerInv'
<1> DEFINE s == call[d].sig
           i == InstrumentOf[s]
<1>1. /\ ledger \in Ledgers
      /\ pc[d] # "down"
      /\ \A p \in Open(ledger) : ledger.lock[InstrumentOf[p]] = p
      /\ Open(ledger) \subseteq Signals
      /\ s \in Signals /\ i \in Instruments
      /\ InstrumentOf \in [Signals -> Instruments]
  BY CommitShape, SignalsAssumption
  DEF Commit, TypeOK, LedgerInv, OpenRowsLocked, Open, OpenIn
<1>2. CASE ledger' = ledger
  BY <1>1, <1>2
  DEF LedgerInv, OneOpenPerInstrument, LocksAreOpen, OpenRowsLocked, Open, OpenIn
<1>3. CASE /\ ledger.status[s] = "NONE" /\ ledger.lock[i] = NoSignal
           /\ ledger'.status = [ledger.status EXCEPT ![s] = "OPEN"]
           /\ ledger'.lock = [ledger.lock EXCEPT ![i] = s]
  <2>1. Open(ledger') = Open(ledger) \cup {s}
    BY <1>1, <1>3 DEF Open, OpenIn, Ledgers
  <2>2. \A p \in Open(ledger) : InstrumentOf[p] # i
    BY <1>1, <1>3, DeskAssumption
  <2> HIDE DEF i, s
  <2>3. \A p \in Open(ledger') : ledger'.lock[InstrumentOf[p]] = p
    BY <1>1, <1>3, <2>1, <2>2 DEF Ledgers, i
  <2>4. LocksAreOpen'
    BY <1>1, <1>3, <2>1 DEF LocksAreOpen, LedgerInv, Ledgers, i
  <2>5. QED BY <2>3, <2>4 DEF LedgerInv, OneOpenPerInstrument, OpenRowsLocked
<1>4. CASE /\ ledger.status[s] = "NONE"
           /\ ledger'.status = [ledger.status EXCEPT ![s] = "REJECTED"]
           /\ ledger'.lock = ledger.lock
  <2>1. Open(ledger') = Open(ledger)
    BY <1>1, <1>4 DEF Open, OpenIn, Ledgers
  <2>2. QED
    BY <1>1, <1>4, <2>1 DEF LedgerInv, OneOpenPerInstrument, LocksAreOpen, OpenRowsLocked
<1>5. CASE /\ ledger.status[s] = "OPEN" /\ ledger.lock[i] = s
           /\ ledger'.status = [ledger.status EXCEPT ![s] = "CLOSED"]
           /\ ledger'.lock = [ledger.lock EXCEPT ![i] = NoSignal]
  <2>1. Open(ledger') = Open(ledger) \ {s} /\ s \in Open(ledger)
    BY <1>1, <1>5 DEF Open, OpenIn, Ledgers
  <2> HIDE DEF i, s
  <2>2. \A p \in Open(ledger') : InstrumentOf[p] # i
    BY <1>1, <2>1, <1>5
  <2>3. \A p \in Open(ledger') : ledger'.lock[InstrumentOf[p]] = p
    BY <1>1, <1>5, <2>1, <2>2 DEF Ledgers
  <2>4. LocksAreOpen'
    BY <1>1, <1>5, <2>1 DEF LocksAreOpen, LedgerInv, Ledgers, i
  <2>5. QED BY <2>3, <2>4 DEF LedgerInv, OneOpenPerInstrument, OpenRowsLocked
<1>6. QED BY <1>2, <1>3, <1>4, <1>5, CommitShape DEF LedgerInv

\* The migration gives every OPEN row its lock and every lock an OPEN row.
LEMMA LedgerMigration ==
  ASSUME TypeOK, LedgerInv, NEW d \in Desks, InitDb(d)
  PROVE  LedgerInv'
<1> DEFINE locks == [i \in Instruments |->
              IF ledger.lock[i] = NoSignal /\ \E s \in Open(ledger) : InstrumentOf[s] = i
              THEN CHOOSE s \in Open(ledger) : InstrumentOf[s] = i
              ELSE ledger.lock[i]]
<1>1. /\ ledger \in Ledgers
      /\ ledger' = [ledger EXCEPT !.lock = locks]
      /\ \A s, t \in Open(ledger) : InstrumentOf[s] = InstrumentOf[t] => s = t
      /\ Open(ledger) \subseteq Signals
      /\ InstrumentOf \in [Signals -> Instruments]
  BY SignalsAssumption DEF TypeOK, InitDb, WithMissingLocks, Open, OpenIn
<1>2. ASSUME NEW i \in Instruments
      PROVE  /\ locks[i] # NoSignal =>
                  locks[i] \in Open(ledger) /\ InstrumentOf[locks[i]] = i
             /\ \A s \in Open(ledger) : InstrumentOf[s] = i => locks[i] # NoSignal
  <2>1. CASE ledger.lock[i] = NoSignal /\ \E s \in Open(ledger) : InstrumentOf[s] = i
    <3>1. locks[i] = CHOOSE s \in Open(ledger) : InstrumentOf[s] = i
      BY <2>1
    <3>2. locks[i] \in Open(ledger) /\ InstrumentOf[locks[i]] = i
      BY <2>1, <3>1
    <3>3. QED BY <1>1, <3>2, DeskAssumption
  <2>2. CASE ~(ledger.lock[i] = NoSignal /\ \E s \in Open(ledger) : InstrumentOf[s] = i)
    <3>1. locks[i] = ledger.lock[i]
      BY <2>2
    <3>2. QED BY <2>2, <3>1 DEF LedgerInv, LocksAreOpen
  <2>3. QED BY <2>1, <2>2
<1>3. locks = [i \in Instruments |-> locks[i]]
  OBVIOUS
<1> HIDE DEF locks
<1>4. ledger'.lock = locks /\ Open(ledger') = Open(ledger)
  BY <1>1 DEF Ledgers, Open, OpenIn
<1>5. LocksAreOpen'
  BY <1>2, <1>4 DEF LocksAreOpen
<1>6. \A s \in Open(ledger') : ledger'.lock[InstrumentOf[s]] = s
  BY <1>1, <1>2, <1>4
<1>7. QED BY <1>1, <1>4, <1>5, <1>6 DEF LedgerInv, OneOpenPerInstrument, OpenRowsLocked

LEMMA LedgerStep ==
  ASSUME TypeOK, CallsWellFormed, CurrentSnapshots, LedgerInv, VerdictsJustified,
         [Next]_vars
  PROVE  LedgerInv'
<1> USE DEF LedgerInv, OneOpenPerInstrument, LocksAreOpen, OpenRowsLocked
<1>1. ASSUME NEW d \in Desks, ledger' = ledger, pc[d] # "down",
             \A e \in Desks \ {d} : pc'[e] = pc[e]
      PROVE  LedgerInv'
  BY <1>1
<1>2. ASSUME NEW d \in Desks, Begin(d) \/ UpdateMutex(d) PROVE LedgerInv'
  BY <1>2, <1>1 DEF TypeOK, Begin, UpdateMutex
<1>3. ASSUME NEW d \in Desks, Decides(d) PROVE LedgerInv'
  BY <1>3, <1>1
  DEF TypeOK, Decides, SignalReplay, AdmitSignal, RejectSignal, DecideClose, Decided,
      Recording, Closing
<1>4. ASSUME NEW d \in Desks, Quiet(d) \/ Ends(d) PROVE LedgerInv'
  BY <1>4, <1>1 DEF Quiet, Ends, OthersStay
<1>5. CASE Crash \/ NextDay \/ UNCHANGED vars
  BY <1>5 DEF Crash, NextDay, vars, threadVars
<1>6. QED
  BY <1>2, <1>3, <1>4, <1>5, LedgerMigration, LedgerCommit, NextShapes

LEMMA VerdictsStep ==
  ASSUME TypeOK, CallsWellFormed, VerdictsJustified, [Next]_vars
  PROVE  VerdictsJustified'
<1> USE DEF VerdictsJustified, AdmissibleTo
<1>1. ASSUME NEW d \in Desks, pc'[d] # "commit", OthersStay(d), today' = today,
             \A e \in Desks \ {d} : verdict'[e] = verdict[e] /\ snap'[e] = snap[e]
      PROVE  VerdictsJustified'
  BY <1>1 DEF OthersStay
<1>2. ASSUME NEW d \in Desks,
             InitDb(d) \/ Begin(d) \/ UpdateMutex(d) \/ Commit(d) \/ Quiet(d) \/ Ends(d)
      PROVE  VerdictsJustified'
  BY <1>2, <1>1
  DEF TypeOK, InitDb, Begin, UpdateMutex, Commit, Quiet, Ends, EndTransaction, OthersStay,
      txVars
<1>3. ASSUME NEW d \in Desks, Decides(d) PROVE VerdictsJustified'
  <2>1. /\ \A e \in Desks \ {d} : pc'[e] = pc[e] /\ verdict'[e] = verdict[e]
        /\ UNCHANGED <<ledger, today, call, snap>>
        /\ call[d].sig \in Signals
    BY <1>3
    DEF TypeOK, CallsWellFormed, Decides, SignalReplay, AdmitSignal, RejectSignal,
        DecideClose, Decided, Recording, Closing
  <2>2. \/ verdict'[d] = "EXISTING"
        \/ /\ verdict'[d] = "OPEN"
           /\ snap[d].status[call[d].sig] = "NONE"
           /\ call[d].sig \in Approved
           /\ snap[d].lock[InstrumentOf[call[d].sig]] = NoSignal
           /\ AdmissibleTo(d)
        \/ /\ verdict'[d] = "REJECTED"
           /\ snap[d].status[call[d].sig] = "NONE"
           /\ \/ call[d].sig \notin Approved
              \/ /\ snap[d].lock[InstrumentOf[call[d].sig]] = NoSignal
                 /\ ~AdmissibleTo(d)
        \/ /\ verdict'[d] = "CLOSED"
           /\ call[d].op = "close"
           /\ snap[d].status[call[d].sig] = "OPEN"
    BY <1>3
    DEF TypeOK, Decides, SignalReplay, AdmitSignal, RejectSignal, DecideClose, Decided,
        Recording, Closing, LockTaken
  <2>3. QED BY <2>1, <2>2
<1>4. CASE Crash
  BY <1>4 DEF Crash
<1>5. CASE NextDay
  BY <1>5 DEF NextDay, threadVars
<1>6. CASE UNCHANGED vars
  BY <1>6 DEF vars, threadVars, txVars
<1>7. QED BY <1>2, <1>3, <1>4, <1>5, <1>6, NextShapes
-----------------------------------------------------------------------------
(***************************************************************************)
(* The invariant and what follows from it                                  *)
(***************************************************************************)
LEMMA InvariantInit == Init => IInv
<1> SUFFICES ASSUME Init PROVE IInv
  OBVIOUS
<1>1. Open(ledger) = Legacy /\ \A i \in Instruments : ledger.lock[i] = NoSignal
  BY BookAssumption DEF Init, FirstLedger, FirstStatus, Open, OpenIn
<1>2. OneOpenPerInstrument /\ LocksAreOpen /\ OpenRowsLocked
  BY <1>1, BookAssumption DEF Init, OneOpenPerInstrument, LocksAreOpen, OpenRowsLocked
<1>3. CallsWellFormed /\ OwnerIsDeciding /\ CurrentSnapshots /\ VerdictsJustified
  BY DeskAssumption
  DEF Init, CallsWellFormed, OwnerIsDeciding, CurrentSnapshots, VerdictsJustified, NoCall
<1>4. QED BY <1>2, <1>3, TypeInit DEF IInv

LEMMA InvariantStep == IInv /\ [Next]_vars => IInv'
  BY TypeStep, CallsStep, OwnerStep, SnapshotsStep, LedgerStep, VerdictsStep
  DEF IInv, LedgerInv

\* Type correctness for every instance.
THEOREM TypeCorrect == Spec => []TypeOK
<1>1. IInv => TypeOK
  BY DEF IInv
<1>2. QED BY <1>1, InvariantInit, InvariantStep, PTL DEF Spec

\* The lock table keeps its promise: however many desks, whatever retries,
\* failures and crashes, an instrument has at most one OPEN row
\* (order_desk.py:378-386).
THEOREM OneOpenRowPerInstrument == Spec => []OneOpenPerInstrument
<1>1. IInv => OneOpenPerInstrument
  BY DEF IInv
<1>2. QED BY <1>1, InvariantInit, InvariantStep, PTL DEF Spec

\* A lock never outlives its position and no position loses its lock once a
\* desk is past _init_db (order_desk.py:160-169, 414-420, 610-612).
THEOREM LocksMirrorTheLedger == Spec => []LocksMirrorOpenRows
<1>1. ASSUME IInv PROVE LocksMirrorOpenRows
  <2>1. /\ \A i \in Instruments : ledger.lock[i] # NoSignal =>
              ledger.lock[i] \in Open(ledger) /\ InstrumentOf[ledger.lock[i]] = i
        /\ (\E d \in Desks : pc[d] # "down") =>
              \A s \in Open(ledger) : ledger.lock[InstrumentOf[s]] = s
    BY <1>1 DEF IInv, LocksAreOpen, OpenRowsLocked
  <2>2. QED BY <2>1, DeskAssumption DEF LocksMirrorOpenRows
<1>2. QED BY <1>1, InvariantInit, InvariantStep, PTL DEF Spec

\* The mutex row makes the admission transactions serial: the desk that wrote
\* it decides on the ledger it will commit to (order_desk.py:353-361).
THEOREM DecisionsReadThePresent == Spec => []OwnerReadsPresent
<1>1. ASSUME IInv PROVE OwnerReadsPresent
  BY <1>1 DEF IInv, OwnerIsDeciding, CurrentSnapshots, OwnerReadsPresent
<1>2. QED BY <1>1, InvariantInit, InvariantStep, PTL DEF Spec
-----------------------------------------------------------------------------
(***************************************************************************)
(* active_positions against the ledger                                     *)
(***************************************************************************)

\* What a transaction has decided fits the call it belongs to, and the row of
\* a close that is returning is CLOSED already.
ReturnsFitLedger ==
  \A d \in Desks :
    pc[d] \in {"commit", "return"} =>
      /\ verdict[d] \in {"EXISTING", "OPEN", "REJECTED", "CLOSED"}
      /\ verdict[d] = "CLOSED" <=> call[d].op = "close"
      /\ pc[d] = "return" /\ verdict[d] = "CLOSED" =>
           ledger.status[call[d].sig] = "CLOSED"

\* The process has no other desk that has finished its constructor.
Alone(d) == \A e \in Desks \ {d} : ~Up(e)

\* The memory of a desk that is alone is the ledger, but for the one row whose
\* COMMIT is being returned; a replay sees the ledger as it is.
LoneMemory ==
  \A d \in Desks :
    Up(d) /\ Alone(d) =>
      /\ pc[d] # "return" => held[d] = Open(ledger)
      /\ pc[d] = "return" =>
           /\ verdict[d] \in {"EXISTING", "REJECTED"} => held[d] = Open(ledger)
           /\ verdict[d] = "EXISTING" => snap[d].status = ledger.status
           /\ verdict[d] = "OPEN" => Open(ledger) = held[d] \cup {call[d].sig}
           /\ verdict[d] = "CLOSED" => Open(ledger) = held[d] \ {call[d].sig}

MemoryInv == IInv /\ ReturnsFitLedger /\ LoneMemory /\ NoOrphanPosition
-----------------------------------------------------------------------------
\* A step of a desk inside its calls that touches neither ledger nor memory.
Steady(d) ==
  /\ Up(d) /\ pc[d] # "return"
  /\ pc'[d] \in {"idle", "scan", "begin", "mutex", "decide"}
  /\ OthersStay(d)
  /\ \A e \in Desks \ {d} : verdict'[e] = verdict[e] /\ snap'[e] = snap[e]
  /\ UNCHANGED <<ledger, memoryVars>>

LEMMA EndTransactionShape ==
  ASSUME TypeOK, NEW d \in Desks, EndTransaction(d)
  PROVE  \A e \in Desks \ {d} : verdict'[e] = verdict[e] /\ snap'[e] = snap[e]
  BY DEF TypeOK, EndTransaction

LEMMA MemoryShapes ==
  ASSUME TypeOK, [Next]_vars
  PROVE  \/ \E d \in Desks :
              \/ InitDb(d) \/ HydrateActiveState(d) \/ HydrateRaises(d)
              \/ Decides(d) \/ Commit(d)
              \/ RecordReturns(d) \/ CloseReturns(d)
              \/ Steady(d)
         \/ Crash \/ NextDay \/ UNCHANGED vars
<1> USE DEF Up, InTransaction, memoryVars
<1>1. ASSUME NEW d \in Desks, NEW s \in Signals, RecordSignal(d, s) PROVE Steady(d)
  BY <1>1 DEF TypeOK, RecordSignal, Steady, OthersStay, txVars
<1>2. ASSUME NEW d \in Desks, NEW exits \in SUBSET held[d],
             EvaluateOpenPositions(d, exits)
      PROVE  Steady(d)
  BY <1>2 DEF TypeOK, EvaluateOpenPositions, Steady, OthersStay, txVars
<1>3. ASSUME NEW d \in Desks, Begin(d) \/ UpdateMutex(d) PROVE Steady(d)
  BY <1>3 DEF TypeOK, Begin, UpdateMutex, Steady, OthersStay
<1>4. ASSUME NEW d \in Desks, AttachConflict(d) PROVE Steady(d)
  BY <1>4, LeaveCallShape DEF AttachConflict, Steady, txVars
<1>5. ASSUME NEW d \in Desks,
             \/ WriteConflict(d) \/ TransactionFails(d)
             \/ DuplicateDbLocked(d) \/ CloseRefused(d)
      PROVE  Steady(d)
  BY <1>5, LeaveCallShape, EndTransactionShape
  DEF WriteConflict, TransactionFails, DuplicateDbLocked, CloseRefused, Recording,
      Closing, Steady
<1>6. ASSUME NEW d \in Desks, NEW s \in due[d], ZeroQuantity(d, s) PROVE Steady(d)
  BY <1>6, LeaveCallShape DEF ZeroQuantity, Steady, txVars
<1>7. ASSUME NEW d \in Desks, NEW s \in due[d], NEW pnl \in Pnl, ClosePosition(d, s, pnl)
      PROVE  Steady(d)
  BY <1>7 DEF TypeOK, ClosePosition, Steady, OthersStay, txVars
<1>8. QED
  BY <1>1, <1>2, <1>3, <1>4, <1>5, <1>6, <1>7 DEF Next, Step, Decides

\* A deciding step only writes down a verdict.
LEMMA DecidesShape ==
  ASSUME TypeOK, NEW d \in Desks, Decides(d)
  PROVE  /\ pc[d] = "decide" /\ pc'[d] = "commit"
         /\ OthersStay(d)
         /\ call'[d] = call[d] /\ snap'[d] = snap[d]
         /\ \A e \in Desks \ {d} : verdict'[e] = verdict[e] /\ snap'[e] = snap[e]
         /\ UNCHANGED <<ledger, memoryVars>>
         /\ \/ call[d].op = "record" /\ verdict'[d] \in {"EXISTING", "OPEN", "REJECTED"}
            \/ call[d].op = "close" /\ verdict'[d] = "CLOSED"
  BY DEF TypeOK, Decides, SignalReplay, AdmitSignal, RejectSignal, DecideClose, Decided,
         Recording, Closing, OthersStay

\* What the end of a call leaves of the others.
LEMMA ReturnShape ==
  ASSUME TypeOK, NEW d \in Desks, RecordReturns(d) \/ CloseReturns(d)
  PROVE  /\ pc[d] = "return" /\ pc'[d] \in {"idle", "scan"}
         /\ OthersStay(d)
         /\ \A e \in Desks \ {d} :
              verdict'[e] = verdict[e] /\ snap'[e] = snap[e] /\ held'[e] = held[e]
         /\ ledger' = ledger
<1>1. CASE RecordReturns(d)
  <2>1. held' = held \/ held' = [held EXCEPT ![d] = held[d] \cup {call[d].sig}]
    BY <1>1 DEF RecordReturns, memoryVars
  <2>2. \A e \in Desks \ {d} : held'[e] = held[e]
    BY <2>1 DEF TypeOK
  <2>3. EndTransaction(d) /\ LeaveCall(d) /\ pc[d] = "return" /\ ledger' = ledger
    BY <1>1 DEF RecordReturns
  <2>4. pc'[d] = "idle" /\ OthersStay(d)
    BY <2>3 DEF TypeOK, LeaveCall, OthersStay
  <2>5. QED BY <2>2, <2>3, <2>4, EndTransactionShape
<1>2. CASE CloseReturns(d)
  BY <1>2, EndTransactionShape DEF TypeOK, CloseReturns, OthersStay
<1>3. QED BY <1>1, <1>2
-----------------------------------------------------------------------------
LEMMA ReturnsStep ==
  ASSUME IInv, ReturnsFitLedger, [Next]_vars
  PROVE  ReturnsFitLedger'
<1>1. TypeOK /\ CallsWellFormed /\ CurrentSnapshots /\ OpenRowsLocked /\ VerdictsJustified
  BY DEF IInv
<1>2. ASSUME NEW d \in Desks, pc'[d] \notin {"commit", "return"}, OthersStay(d),
             \A e \in Desks \ {d} : verdict'[e] = verdict[e],
             ledger'.status = ledger.status
      PROVE  ReturnsFitLedger'
  BY <1>2 DEF ReturnsFitLedger, OthersStay
<1>3. ASSUME NEW d \in Desks, InitDb(d) PROVE ReturnsFitLedger'
  BY <1>1, <1>2, <1>3, MigrationTyped DEF TypeOK, InitDb, OthersStay, txVars
<1>4. ASSUME NEW d \in Desks, HydrateActiveState(d) \/ HydrateRaises(d)
      PROVE  ReturnsFitLedger'
  BY <1>1, <1>2, <1>4 DEF TypeOK, HydrateActiveState, HydrateRaises, OthersStay, txVars
<1>5. ASSUME NEW d \in Desks, Decides(d) PROVE ReturnsFitLedger'
  BY <1>1, <1>5, DecidesShape DEF ReturnsFitLedger, OthersStay
<1>6. ASSUME NEW d \in Desks, Commit(d) PROVE ReturnsFitLedger'
  <2> DEFINE s == call[d].sig
  <2>1. /\ pc[d] = "commit" /\ pc' = [pc EXCEPT ![d] = "return"]
        /\ UNCHANGED <<call, verdict>>
    BY <1>6 DEF Commit
  <2>2. ledger \in Ledgers /\ s \in Signals
    BY <1>1, <1>6, CommitShape DEF TypeOK
  <2>3. \A t \in Signals : ledger.status[t] = "CLOSED" => ledger'.status[t] = "CLOSED"
    <3>1. \/ ledger' = ledger
          \/ /\ ledger.status[s] # "CLOSED"
             /\ \E v \in RowStatus : ledger'.status = [ledger.status EXCEPT ![s] = v]
          \/ ledger'.status = [ledger.status EXCEPT ![s] = "CLOSED"]
      BY <1>1, <1>6, CommitShape DEF RowStatus
    <3>2. ledger.status \in [Signals -> RowStatus]
      BY <2>2 DEF Ledgers
    <3> HIDE DEF s
    <3>3. QED BY <2>2, <3>1, <3>2
  <2>4. verdict[d] = "CLOSED" => ledger'.status[s] = "CLOSED"
    <3> DEFINE i == InstrumentOf[s]
    <3> SUFFICES ASSUME verdict[d] = "CLOSED" PROVE ledger'.status[s] = "CLOSED"
      OBVIOUS
    <3>1. ledger' = [ledger EXCEPT !.status[s] = "CLOSED", !.net[s] = call[d].pnl,
                                   !.closedOn[s] = today,
                                   !.lock[i] = IF @ = s THEN NoSignal ELSE @]
      BY <1>6 DEF Commit, Written
    <3> HIDE DEF s, i
    <3>2. QED BY <2>2, <3>1 DEF Ledgers
  <2>5. \A e \in Desks : pc[e] = "return" => call[e].sig \in Signals
    BY <1>1 DEF CallsWellFormed
  <2>6. QED
    BY <1>1, <2>1, <2>3, <2>4, <2>5 DEF ReturnsFitLedger, TypeOK
<1>7. ASSUME NEW d \in Desks, RecordReturns(d) \/ CloseReturns(d)
      PROVE  ReturnsFitLedger'
  BY <1>1, <1>2, <1>7, ReturnShape
<1>8. ASSUME NEW d \in Desks, Steady(d) PROVE ReturnsFitLedger'
  BY <1>2, <1>8 DEF Steady
<1>9. CASE Crash
  BY <1>9 DEF Crash, ReturnsFitLedger
<1>10. CASE NextDay \/ UNCHANGED vars
  BY <1>10 DEF NextDay, vars, threadVars, txVars, ReturnsFitLedger
<1>11. QED
  BY <1>1, <1>3, <1>4, <1>5, <1>6, <1>7, <1>8, <1>9, <1>10, MemoryShapes

\* What a COMMIT does to the set of open positions.
LEMMA CommitOpens ==
  ASSUME IInv, ReturnsFitLedger, NEW d \in Desks, Commit(d)
  PROVE  /\ call[d].sig \in Signals /\ snap[d] = ledger
         /\ \/ verdict[d] = "EXISTING" /\ ledger' = ledger
            \/ verdict[d] = "REJECTED" /\ Open(ledger') = Open(ledger)
            \/ verdict[d] = "OPEN" /\ Open(ledger') = Open(ledger) \cup {call[d].sig}
            \/ verdict[d] = "CLOSED" /\ Open(ledger') = Open(ledger) \ {call[d].sig}
<1> DEFINE s == call[d].sig
<1>1. TypeOK /\ CallsWellFormed /\ CurrentSnapshots /\ OpenRowsLocked /\ VerdictsJustified
  BY DEF IInv
<1>2. ledger \in Ledgers /\ s \in Signals /\ snap[d] = ledger
  BY <1>1, CommitShape DEF TypeOK
<1>3. pc[d] = "commit" /\ ledger' = Written(d)
  BY DEF Commit
<1>4. verdict[d] \in {"EXISTING", "OPEN", "REJECTED", "CLOSED"}
  BY <1>3 DEF ReturnsFitLedger
<1>5. CASE verdict[d] = "EXISTING"
  BY <1>2, <1>3, <1>5 DEF Written
<1>6. CASE verdict[d] = "OPEN"
  <2>1. ledger' = [ledger EXCEPT !.status[s] = "OPEN", !.lock[InstrumentOf[s]] = s]
    BY <1>3, <1>6 DEF Written
  <2> HIDE DEF s
  <2>2. Open(ledger') = Open(ledger) \cup {s}
    BY <1>2, <2>1 DEF Open, OpenIn, Ledgers
  <2>3. QED BY <1>2, <1>6, <2>2 DEF s
<1>7. CASE verdict[d] = "REJECTED"
  <2>1. ledger' = [ledger EXCEPT !.status[s] = "REJECTED"]
    BY <1>3, <1>7 DEF Written
  <2>2. ledger.status[s] = "NONE"
    BY <1>1, <1>2, <1>3, <1>7 DEF VerdictsJustified
  <2> HIDE DEF s
  <2>3. Open(ledger') = Open(ledger)
    BY <1>2, <2>1, <2>2 DEF Open, OpenIn, Ledgers
  <2>4. QED BY <1>2, <1>7, <2>3 DEF s
<1>8. CASE verdict[d] = "CLOSED"
  <2>1. ledger' = [ledger EXCEPT !.status[s] = "CLOSED",
                       !.net[s] = call[d].pnl, !.closedOn[s] = today,
                       !.lock[InstrumentOf[s]] = IF @ = s THEN NoSignal ELSE @]
    BY <1>3, <1>8 DEF Written
  <2> HIDE DEF s
  <2>2. Open(ledger') = Open(ledger) \ {s}
    BY <1>2, <2>1 DEF Open, OpenIn, Ledgers
  <2>3. QED BY <1>2, <1>8, <2>2 DEF s
<1>9. QED BY <1>4, <1>5, <1>6, <1>7, <1>8

\* How a returning call leaves the memory of its own desk.
LEMMA ReturnMemory ==
  ASSUME IInv, ReturnsFitLedger, NEW d \in Desks
  PROVE  /\ RecordReturns(d) =>
              /\ verdict[d] \in {"EXISTING", "OPEN", "REJECTED"}
              /\ \/ verdict[d] = "OPEN" /\ held'[d] = held[d] \cup {call[d].sig}
                 \/ /\ verdict[d] = "EXISTING" /\ call[d].sig \in Open(snap[d])
                    /\ held'[d] = held[d] \cup {call[d].sig}
                 \/ verdict[d] # "OPEN" /\ held'[d] = held[d]
         /\ CloseReturns(d) =>
              /\ verdict[d] = "CLOSED" /\ held'[d] = held[d] \ {call[d].sig}
              /\ call[d].sig \notin Open(ledger)
<1>1. TypeOK /\ CallsWellFormed
  BY DEF IInv
<1>2. ASSUME RecordReturns(d)
      PROVE  /\ verdict[d] \in {"EXISTING", "OPEN", "REJECTED"}
             /\ \/ verdict[d] = "OPEN" /\ held'[d] = held[d] \cup {call[d].sig}
                \/ /\ verdict[d] = "EXISTING" /\ call[d].sig \in Open(snap[d])
                   /\ held'[d] = held[d] \cup {call[d].sig}
                \/ verdict[d] # "OPEN" /\ held'[d] = held[d]
  <2>1. /\ pc[d] = "return" /\ call[d].op = "record" /\ call[d].sig \in Signals
        /\ \/ /\ \/ verdict[d] = "OPEN"
                 \/ verdict[d] = "EXISTING" /\ snap[d].status[call[d].sig] = "OPEN"
              /\ held' = [held EXCEPT ![d] = @ \cup {call[d].sig}]
           \/ verdict[d] # "OPEN" /\ held' = held
    BY <1>1, <1>2 DEF RecordReturns, memoryVars, CallsWellFormed
  <2>2. verdict[d] \in {"EXISTING", "OPEN", "REJECTED"}
    BY <2>1 DEF ReturnsFitLedger
  <2>3. held \in [Desks -> SUBSET Signals]
    BY <1>1 DEF TypeOK
  <2>4. QED BY <2>1, <2>2, <2>3 DEF Open, OpenIn
<1>3. ASSUME CloseReturns(d)
      PROVE  /\ verdict[d] = "CLOSED" /\ held'[d] = held[d] \ {call[d].sig}
             /\ call[d].sig \notin Open(ledger)
  <2>1. /\ pc[d] = "return" /\ call[d].op = "close"
        /\ held' = [held EXCEPT ![d] = @ \ {call[d].sig}]
    BY <1>3 DEF CloseReturns
  <2>2. verdict[d] = "CLOSED" /\ ledger.status[call[d].sig] = "CLOSED"
    BY <2>1 DEF ReturnsFitLedger
  <2>3. held \in [Desks -> SUBSET Signals]
    BY <1>1 DEF TypeOK
  <2>4. QED BY <2>1, <2>2, <2>3 DEF Open, OpenIn
<1>4. QED BY <1>2, <1>3

\* The desk that takes a step is the only one the step can concern: after it,
\* no other desk is alone.
LEMMA LoneMemoryStep ==
  ASSUME IInv, ReturnsFitLedger, LoneMemory, [Next]_vars
  PROVE  LoneMemory'
<1>1. TypeOK
  BY DEF IInv
<1>2. ASSUME NEW d \in Desks, Up(d)', OthersStay(d),
             Alone(d) =>
               /\ pc'[d] # "return" => held'[d] = Open(ledger')
               /\ pc'[d] = "return" =>
                    /\ verdict'[d] \in {"EXISTING", "REJECTED"} => held'[d] = Open(ledger')
                    /\ verdict'[d] = "EXISTING" => snap'[d].status = ledger'.status
                    /\ verdict'[d] = "OPEN" =>
                         Open(ledger') = held'[d] \cup {call'[d].sig}
                    /\ verdict'[d] = "CLOSED" =>
                         Open(ledger') = held'[d] \ {call'[d].sig}
      PROVE  LoneMemory'
  BY <1>2 DEF LoneMemory, Alone, Up, OthersStay, Open
<1>3. ASSUME NEW d \in Desks, InitDb(d) \/ HydrateRaises(d) PROVE LoneMemory'
  <2>1. /\ ~Up(d) /\ ~Up(d)' /\ OthersStay(d)
        /\ ledger'.status = ledger.status
        /\ UNCHANGED <<verdict, snap, held>>
    BY <1>1, <1>3, MigrationTyped
    DEF TypeOK, InitDb, HydrateRaises, Up, OthersStay, txVars, memoryVars
  <2>2. ASSUME NEW e \in Desks, Up(e)', Alone(e)'
        PROVE  Up(e) /\ Alone(e) /\ e # d
    BY <2>1, <2>2 DEF Alone, Up, OthersStay
  <2>3. QED BY <2>1, <2>2 DEF LoneMemory, OthersStay, Open
<1>4. ASSUME NEW d \in Desks, HydrateActiveState(d) PROVE LoneMemory'
  <2>1. pc'[d] = "idle" /\ OthersStay(d) /\ held'[d] = Open(ledger) /\ ledger' = ledger
    BY <1>1, <1>4 DEF TypeOK, HydrateActiveState, OthersStay
  <2>2. QED BY <1>2, <2>1 DEF Up
<1>5. ASSUME NEW d \in Desks, Decides(d) \/ Steady(d) PROVE LoneMemory'
  <2>1. /\ Up(d) /\ pc[d] # "return" /\ pc'[d] \notin {"down", "hydrate", "return"}
        /\ OthersStay(d) /\ ledger' = ledger /\ held' = held
    BY <1>1, <1>5, DecidesShape DEF Steady, Up, memoryVars
  <2>2. QED BY <1>2, <2>1 DEF LoneMemory, Up
<1>6. ASSUME NEW d \in Desks, Commit(d) PROVE LoneMemory'
  <2>1. /\ Up(d) /\ pc[d] # "return" /\ pc'[d] = "return"
        /\ OthersStay(d) /\ held' = held /\ call' = call /\ verdict' = verdict
        /\ snap' = snap
    BY <1>1, <1>6 DEF TypeOK, Commit, Up, OthersStay, memoryVars
  <2>2. Alone(d) => held[d] = Open(ledger)
    BY <2>1 DEF LoneMemory
  <2>3. QED BY <1>2, <1>6, <2>1, <2>2, CommitOpens DEF Up
<1>7. ASSUME NEW d \in Desks, RecordReturns(d) PROVE LoneMemory'
  <2>1. /\ Up(d) /\ pc[d] = "return" /\ pc'[d] \in {"idle", "scan"}
        /\ OthersStay(d) /\ ledger' = ledger
    BY <1>1, <1>7, ReturnShape DEF Up
  <2>2. ASSUME Alone(d) PROVE held'[d] = Open(ledger)
    <3>1. /\ verdict[d] \in {"EXISTING", "REJECTED"} => held[d] = Open(ledger)
          /\ verdict[d] = "EXISTING" => Open(snap[d]) = Open(ledger)
          /\ verdict[d] = "OPEN" => Open(ledger) = held[d] \cup {call[d].sig}
      BY <2>1, <2>2 DEF LoneMemory, Open
    <3>2. QED BY <1>7, <3>1, ReturnMemory
  <2>3. QED BY <1>2, <2>1, <2>2 DEF Up
<1>8. ASSUME NEW d \in Desks, CloseReturns(d) PROVE LoneMemory'
  <2>1. /\ Up(d) /\ pc[d] = "return" /\ pc'[d] \in {"idle", "scan"}
        /\ OthersStay(d) /\ ledger' = ledger
    BY <1>1, <1>8, ReturnShape DEF Up
  <2>2. Alone(d) => held'[d] = Open(ledger)
    BY <1>8, <2>1, ReturnMemory DEF LoneMemory
  <2>3. QED BY <1>2, <2>1, <2>2 DEF Up
<1>9. CASE Crash
  BY <1>9 DEF Crash, LoneMemory, Up
<1>10. CASE NextDay \/ UNCHANGED vars
  BY <1>10 DEF NextDay, vars, threadVars, txVars, memoryVars, LoneMemory, Up, Alone, Open
<1>11. QED
  BY <1>1, <1>3, <1>4, <1>5, <1>6, <1>7, <1>8, <1>9, <1>10, MemoryShapes

\* Whoever knew an open position still does, and the desk that opens one does
\* from its COMMIT on.
LEMMA NoOrphanStep ==
  ASSUME IInv, ReturnsFitLedger, NoOrphanPosition, [Next]_vars
  PROVE  NoOrphanPosition'
<1> DEFINE Knows(d, s) == /\ Up(d)
                          /\ \/ s \in held[d]
                             \/ pc[d] = "return" /\ call[d].sig = s /\ verdict[d] = "OPEN"
<1>1. TypeOK
  BY DEF IInv
<1>2. ASSUME NEW d \in Desks, Up(d),
             \A s \in Open(ledger') : s \in Open(ledger) \/ Knows(d, s)',
             \A s \in Open(ledger), e \in Desks : Knows(e, s) => Knows(e, s)'
      PROVE  NoOrphanPosition'
  BY <1>2 DEF NoOrphanPosition, Open
<1>3. ASSUME NEW d \in Desks, OthersStay(d),
             \A e \in Desks \ {d} : verdict'[e] = verdict[e] /\ held'[e] = held[e],
             NEW s, NEW e \in Desks \ {d}, Knows(e, s)
      PROVE  Knows(e, s)'
  BY <1>3 DEF OthersStay, Up
<1>4. ASSUME NEW d \in Desks, InitDb(d) PROVE NoOrphanPosition'
  <2>1. /\ ~Up(d) /\ ~Up(d)' /\ Open(ledger') = Open(ledger)
        /\ \A e \in Desks \ {d} : pc'[e] = pc[e]
        /\ UNCHANGED <<call, verdict, held>>
    BY <1>1, <1>4, MigrationTyped
    DEF TypeOK, InitDb, Up, Open, txVars, memoryVars
  <2>2. \A e \in Desks : Up(e)' <=> Up(e)
    BY <2>1 DEF Up
  <2>3. \A e \in Desks, s \in Signals : Knows(e, s) => Knows(e, s)'
    BY <2>1, <2>2 DEF Up
  <2>4. Open(ledger) \subseteq Signals
    BY DEF Open, OpenIn
  <2>5. QED BY <2>1, <2>2, <2>3, <2>4 DEF NoOrphanPosition
<1>5. ASSUME NEW d \in Desks, HydrateActiveState(d) PROVE NoOrphanPosition'
  <2>1. held'[d] = Open(ledger) /\ ledger' = ledger /\ Up(d)'
    BY <1>1, <1>5 DEF TypeOK, HydrateActiveState, Up
  <2>2. QED BY <2>1 DEF NoOrphanPosition, Open
<1>6. ASSUME NEW d \in Desks, HydrateRaises(d) PROVE NoOrphanPosition'
  <2>1. /\ ~Up(d) /\ ~Up(d)' /\ ledger' = ledger
        /\ \A e \in Desks \ {d} : pc'[e] = pc[e]
        /\ UNCHANGED <<call, verdict, held>>
    BY <1>1, <1>6 DEF TypeOK, HydrateRaises, Up, txVars, memoryVars
  <2>2. \A e \in Desks : Up(e)' <=> Up(e)
    BY <2>1 DEF Up
  <2>3. \A e \in Desks, s \in Signals : Knows(e, s) => Knows(e, s)'
    BY <2>1, <2>2 DEF Up
  <2>4. Open(ledger) \subseteq Signals
    BY DEF Open, OpenIn
  <2>5. QED BY <2>1, <2>2, <2>3, <2>4 DEF NoOrphanPosition, Open
<1>7. ASSUME NEW d \in Desks, Decides(d) \/ Steady(d) PROVE NoOrphanPosition'
  <2>1. /\ Up(d) /\ pc[d] # "return" /\ Up(d)' /\ OthersStay(d)
        /\ \A e \in Desks \ {d} : verdict'[e] = verdict[e]
        /\ ledger' = ledger /\ held' = held
    BY <1>1, <1>7, DecidesShape DEF Steady, Up, memoryVars
  <2>2. \A s : Knows(d, s) => Knows(d, s)'
    BY <2>1
  <2>3. \A s \in Open(ledger), e \in Desks : Knows(e, s) => Knows(e, s)'
    BY <1>3, <2>1, <2>2
  <2>4. QED BY <1>2, <2>1, <2>3
<1>8. ASSUME NEW d \in Desks, Commit(d) PROVE NoOrphanPosition'
  <2>1. /\ Up(d) /\ pc[d] # "return" /\ Up(d)' /\ pc'[d] = "return" /\ OthersStay(d)
        /\ call' = call /\ verdict' = verdict /\ held' = held
    BY <1>1, <1>8 DEF TypeOK, Commit, Up, OthersStay, memoryVars
  <2>2. \A s \in Open(ledger), e \in Desks : Knows(e, s) => Knows(e, s)'
    BY <1>3, <2>1
  <2>3. \A s \in Open(ledger') : s \in Open(ledger) \/ Knows(d, s)'
    BY <1>8, <2>1, CommitOpens DEF Open
  <2>4. QED BY <1>2, <2>1, <2>2, <2>3
<1>9. ASSUME NEW d \in Desks, RecordReturns(d) \/ CloseReturns(d) PROVE NoOrphanPosition'
  <2>1. /\ Up(d) /\ pc[d] = "return" /\ Up(d)' /\ OthersStay(d) /\ ledger' = ledger
        /\ \A e \in Desks \ {d} : verdict'[e] = verdict[e] /\ held'[e] = held[e]
    BY <1>1, <1>9, ReturnShape DEF Up
  <2>2. ASSUME NEW s \in Open(ledger), Knows(d, s) PROVE Knows(d, s)'
    BY <1>9, <2>1, <2>2, ReturnMemory
  <2>3. \A s \in Open(ledger), e \in Desks : Knows(e, s) => Knows(e, s)'
    BY <1>3, <2>1, <2>2
  <2>4. QED BY <1>2, <2>1, <2>3
<1>10. CASE Crash
  BY <1>10 DEF Crash, NoOrphanPosition, Up
<1>11. CASE NextDay \/ UNCHANGED vars
  BY <1>11 DEF NextDay, vars, threadVars, txVars, memoryVars, NoOrphanPosition, Up, Open
<1>12. QED
  BY <1>1, <1>4, <1>5, <1>6, <1>7, <1>8, <1>9, <1>10, <1>11, MemoryShapes

LEMMA MemoryInvInit == Init => MemoryInv
<1>1. Init => ReturnsFitLedger /\ LoneMemory /\ NoOrphanPosition
  BY DEF Init, ReturnsFitLedger, LoneMemory, NoOrphanPosition, Up
<1>2. QED BY <1>1, InvariantInit DEF MemoryInv

LEMMA MemoryInvStep == MemoryInv /\ [Next]_vars => MemoryInv'
  BY InvariantStep, ReturnsStep, LoneMemoryStep, NoOrphanStep DEF MemoryInv

\* While the process runs every OPEN row has a desk that will look after it,
\* however admissions, exits, failures, crashes and restarts of several desks
\* interleave (order_desk.py:312-326, 461-475).
THEOREM PositionsAreLookedAfter == Spec => []NoOrphanPosition
<1>1. MemoryInv => NoOrphanPosition
  BY DEF MemoryInv
<1>2. QED BY <1>1, MemoryInvInit, MemoryInvStep, PTL DEF Spec

\* A desk that has the database to itself agrees with it on what is open
\* whenever it is not just returning from a COMMIT, whatever was replayed,
\* rolled back, retried or restarted before.
THEOREM LoneDeskMirrorsLedger == Spec => []MemoryMirrorsLedger
<1>1. MemoryInv => MemoryMirrorsLedger
  BY DEF MemoryInv, LoneMemory, MemoryMirrorsLedger, Alone
<1>2. QED BY <1>1, MemoryInvInit, MemoryInvStep, PTL DEF Spec
-----------------------------------------------------------------------------
(***************************************************************************)
(* The transactional desks implement the atomic book, for every number of  *)
(* desks.  A COMMIT is the step of the book; everything else leaves it     *)
(* alone.  What holds of the book therefore holds of the ledger.           *)
(***************************************************************************)

(***************************************************************************)
(* The book's instance of the admission rules is the desks' own: both are  *)
(* RiskGate over the same constants.                                       *)
(***************************************************************************)
LEMMA SameSums ==
  ASSUME NEW open
  PROVE  /\ Book!OpenRisk(open) = OpenRisk(open)
         /\ Book!GrossNotional(open) = GrossNotional(open)
<1>1. Book!OpenRisk(open) = OpenRisk(open)
  BY DEF Book!OpenRisk, OpenRisk, Book!MapThenSumSet, MapThenSumSet,
         Book!MapThenFoldSet, MapThenFoldSet
<1>2. Book!GrossNotional(open) = GrossNotional(open)
  BY DEF Book!GrossNotional, GrossNotional, Book!MapThenSumSet, MapThenSumSet,
         Book!MapThenFoldSet, MapThenFoldSet
<1>3. QED BY <1>1, <1>2

LEMMA SameCardinality ==
  ASSUME NEW S
  PROVE  Book!Cardinality(S) = Cardinality(S)
  BY DEF Book!Cardinality, Cardinality

LEMMA SameResult ==
  ASSUME NEW day, NEW st, NEW pnl, NEW on
  PROVE  Book!RealisedOn(day, st, pnl, on) = RealisedOn(day, st, pnl, on)
  BY DEF Book!RealisedOn, RealisedOn, Book!MapThenSumSet, MapThenSumSet,
         Book!MapThenFoldSet, MapThenFoldSet

LEMMA SameOpenRows ==
  ASSUME NEW st, NEW s
  PROVE  /\ Book!OpenIn(st) = OpenIn(st)
         /\ Book!InstrumentFree(s, st) <=> InstrumentFree(s, st)
  BY DEF Book!OpenIn, OpenIn, Book!InstrumentFree, InstrumentFree

LEMMA SameNeighbours ==
  ASSUME NEW s, NEW open
  PROVE  /\ Book!SameSector(s, open) = SameSector(s, open)
         /\ Book!CorrelatedWith(s, open) = CorrelatedWith(s, open)
         /\ Book!CorrelationMissing(s, open) <=> CorrelationMissing(s, open)
  BY DEF Book!SameSector, SameSector, Book!CorrelatedWith, CorrelatedWith,
         Book!CorrelationMissing, CorrelationMissing, Book!CorrelationKnown,
         CorrelationKnown, Book!HighlyCorrelated, HighlyCorrelated

LEMMA SameVerdict ==
  ASSUME NEW s, NEW open, NEW dailyNet
  PROVE  Book!Admissible(s, open, dailyNet) <=> Admissible(s, open, dailyNet)
<1>1. Book!DailyStop(dailyNet) <=> DailyStop(dailyNet)
  BY DEF Book!DailyStop, DailyStop
<1>2. Book!PortfolioRejects(s, open) <=> PortfolioRejects(s, open)
  BY SameSums, SameCardinality DEF Book!PortfolioRejects, PortfolioRejects
<1>3. Book!SectorRejects(s, open) <=> SectorRejects(s, open)
  BY SameSums, SameNeighbours DEF Book!SectorRejects, SectorRejects
<1>4. Book!CorrelationRejects(s, open) <=> CorrelationRejects(s, open)
  BY SameSums, SameCardinality, SameNeighbours
  DEF Book!CorrelationRejects, CorrelationRejects
<1>5. QED
  BY <1>1, <1>2, <1>3, <1>4, SameNeighbours
  DEF Book!Admissible, Admissible, Book!GateRejects, GateRejects
-----------------------------------------------------------------------------
(***************************************************************************)
(* Every step of the desks is a step of the book or leaves it alone        *)
(***************************************************************************)
LEMMA BookInit == Init => Book!Init
  BY DEF Init, FirstLedger, Book!Init, FirstStatus, Book!FirstStatus

LEMMA BookStepOfCommit ==
  ASSUME IInv, NEW d \in Desks, Commit(d)
  PROVE  [Book!Next]_(Book!bookVars)
<1> DEFINE s == call[d].sig
           i == InstrumentOf[s]
<1>1. /\ TypeOK /\ CallsWellFormed /\ CurrentSnapshots /\ OpenRowsLocked
      /\ VerdictsJustified
  BY DEF IInv
<1>2. /\ s \in Signals /\ i \in Instruments /\ snap[d] = ledger
      /\ today' = today /\ pc[d] # "down"
  BY <1>1, CommitShape DEF Commit
<1>3. ledger.lock[i] = NoSignal => InstrumentFree(s, ledger.status)
  BY <1>1, <1>2, DeskAssumption DEF OpenRowsLocked, Open, OpenIn, InstrumentFree
<1>4. AdmissibleTo(d) <=>
        Admissible(s, OpenIn(ledger.status),
                   RealisedOn(today, ledger.status, ledger.net, ledger.closedOn))
  BY <1>2 DEF AdmissibleTo, Open, Realised
<1>5. Book!Admissible(s, Book!OpenIn(ledger.status),
         Book!RealisedOn(today, ledger.status, ledger.net, ledger.closedOn))
        <=> AdmissibleTo(d)
  BY <1>4, SameVerdict, SameOpenRows, SameResult
<1>6. Book!InstrumentFree(s, ledger.status) <=> InstrumentFree(s, ledger.status)
  BY SameOpenRows
<1>7. \/ ledger' = ledger
      \/ Book!Admit(s)
      \/ Book!Reject(s)
      \/ Book!Close(s, call[d].pnl) /\ call[d].pnl \in Pnl
  BY <1>1, <1>2, <1>3, <1>5, <1>6, CommitShape
  DEF Book!Admit, Book!Reject, Book!Close
<1>8. QED BY <1>2, <1>7 DEF Book!Next, Book!bookVars

LEMMA BookStep ==
  ASSUME IInv, [Next]_vars
  PROVE  [Book!Next]_(Book!bookVars)
<1> USE DEF Book!bookVars
<1>1. TypeOK /\ CallsWellFormed
  BY DEF IInv
<1>2. ASSUME NEW d \in Desks, InitDb(d) PROVE UNCHANGED Book!bookVars
  BY <1>1, <1>2, MigrationTyped DEF InitDb, TypeOK
<1>3. ASSUME NEW d \in Desks, Begin(d) \/ UpdateMutex(d) \/ Quiet(d) \/ Ends(d)
      PROVE  UNCHANGED Book!bookVars
  BY <1>3 DEF Begin, UpdateMutex, Quiet, Ends
<1>4. ASSUME NEW d \in Desks, Decides(d) PROVE UNCHANGED Book!bookVars
  BY <1>4
  DEF Decides, SignalReplay, AdmitSignal, RejectSignal, DecideClose, Decided
<1>5. CASE NextDay
  BY <1>5 DEF NextDay, Book!Next, Book!NextDay
<1>6. CASE Crash \/ UNCHANGED vars
  BY <1>6 DEF Crash, vars
<1>7. QED
  BY <1>1, <1>2, <1>3, <1>4, <1>5, <1>6, BookStepOfCommit, NextShapes

\* Every behaviour of the desks is a behaviour of the atomic book: rows only
\* move NONE -> OPEN -> CLOSED or NONE -> REJECTED, a position is closed once,
\* and every admission respects the limits of the ledger it is committed to
\* (order_desk.py:343-477, 572-631).
THEOREM DesksImplementBook == Spec => BookSpec
  BY BookInit, BookStep, InvariantInit, InvariantStep, PTL
  DEF Spec, BookSpec, Book!Spec
-----------------------------------------------------------------------------
(***************************************************************************)
(* What PaperBookProofs shows of the atomic book therefore holds of the    *)
(* desks' ledger.  Its theorems are instantiated under the refinement      *)
(* mapping; that takes its assumptions, which are the desks' own, and that *)
(* the book they are about is the book the desks implement.                *)
(***************************************************************************)
Limits == INSTANCE PaperBookProofs WITH
            status <- ledger.status, net <- ledger.net, closedOn <- ledger.closedOn

\* The portfolio and sector limits, of the ledger the desks share.
LedgerWithinLimits == ExposureWithinLimits(Open(ledger))

\* No densely correlated group of open rows in that ledger.
LedgerWithoutCycle == NoDenselyCorrelatedGroup(Open(ledger))

\* The most a single exit can lose.
WorstExit == -Min(Pnl \cup {0})

\* No day's closed rows have lost more than the daily stop and the worst exits
\* of as many positions as may be open when it engages.
LedgerLossIsBounded ==
  \A day \in Days :
    Realised(day, ledger) > -HardDailyLoss - MaxOpenPositions * WorstExit

LEMMA LimitsAssumptions ==
  /\ Limits!SignalsAssumption /\ Limits!CorrelationAssumption
  /\ Limits!LimitsAssumption /\ Limits!BookAssumption
<1>1. Limits!IsFiniteSet(Signals) <=> IsFiniteSet(Signals)
  BY DEF Limits!IsFiniteSet, IsFiniteSet
<1>2. Limits!SignalsAssumption
  BY <1>1, SignalsAssumption DEF Limits!SignalsAssumption
<1>3. Limits!CorrelationAssumption
  BY CorrelationAssumption DEF Limits!CorrelationAssumption
<1>4. Limits!LimitsAssumption
  BY LimitsAssumption DEF Limits!LimitsAssumption
<1>5. Limits!BookAssumption
  BY BookAssumption DEF Limits!BookAssumption
<1>6. QED BY <1>2, <1>3, <1>4, <1>5

LEMMA LimitsSums ==
  ASSUME NEW open
  PROVE  /\ Limits!OpenRisk(open) = OpenRisk(open)
         /\ Limits!GrossNotional(open) = GrossNotional(open)
<1>1. Limits!OpenRisk(open) = OpenRisk(open)
  BY DEF Limits!OpenRisk, OpenRisk, Limits!MapThenSumSet, MapThenSumSet,
         Limits!MapThenFoldSet, MapThenFoldSet
<1>2. Limits!GrossNotional(open) = GrossNotional(open)
  BY DEF Limits!GrossNotional, GrossNotional, Limits!MapThenSumSet, MapThenSumSet,
         Limits!MapThenFoldSet, MapThenFoldSet
<1>3. QED BY <1>1, <1>2

LEMMA LimitsCardinality ==
  ASSUME NEW S
  PROVE  Limits!Cardinality(S) = Cardinality(S)
  BY DEF Limits!Cardinality, Cardinality

LEMMA LimitsRows ==
  ASSUME NEW st, NEW pnl, NEW on, NEW day
  PROVE  /\ Limits!OpenIn(st) = OpenIn(st)
         /\ Limits!RealisedOn(day, st, pnl, on) = RealisedOn(day, st, pnl, on)
<1>1. Limits!OpenIn(st) = OpenIn(st)
  BY DEF Limits!OpenIn, OpenIn
<1>2. Limits!RealisedOn(day, st, pnl, on) = RealisedOn(day, st, pnl, on)
  BY DEF Limits!RealisedOn, RealisedOn, Limits!MapThenSumSet, MapThenSumSet,
         Limits!MapThenFoldSet, MapThenFoldSet
<1>3. QED BY <1>1, <1>2

LEMMA LimitsNeighbours ==
  ASSUME NEW s, NEW open
  PROVE  /\ Limits!SameSector(s, open) = SameSector(s, open)
         /\ Limits!CorrelatedWith(s, open) = CorrelatedWith(s, open)
         /\ Limits!CorrelationMissing(s, open) <=> CorrelationMissing(s, open)
  BY DEF Limits!SameSector, SameSector, Limits!CorrelatedWith, CorrelatedWith,
         Limits!CorrelationMissing, CorrelationMissing, Limits!CorrelationKnown,
         CorrelationKnown, Limits!HighlyCorrelated, HighlyCorrelated

LEMMA LimitsVerdict ==
  ASSUME NEW s, NEW open, NEW dailyNet
  PROVE  Limits!Admissible(s, open, dailyNet) <=> Admissible(s, open, dailyNet)
<1>1. Limits!DailyStop(dailyNet) <=> DailyStop(dailyNet)
  BY DEF Limits!DailyStop, DailyStop
<1>2. Limits!PortfolioRejects(s, open) <=> PortfolioRejects(s, open)
  BY LimitsSums, LimitsCardinality DEF Limits!PortfolioRejects, PortfolioRejects
<1>3. Limits!SectorRejects(s, open) <=> SectorRejects(s, open)
  BY LimitsSums, LimitsNeighbours DEF Limits!SectorRejects, SectorRejects
<1>4. Limits!CorrelationRejects(s, open) <=> CorrelationRejects(s, open)
  BY LimitsSums, LimitsCardinality, LimitsNeighbours
  DEF Limits!CorrelationRejects, CorrelationRejects
<1>5. QED
  BY <1>1, <1>2, <1>3, <1>4, LimitsNeighbours
  DEF Limits!Admissible, Admissible, Limits!GateRejects, GateRejects

\* The two instances of the book are the same book.
LEMMA OneBook ==
  /\ Book!Init => Limits!Init
  /\ [Book!Next]_(Book!bookVars) => [Limits!Next]_(Limits!bookVars)
<1>1. Book!Init => Limits!Init
  BY DEF Book!Init, Limits!Init, Book!FirstStatus, Limits!FirstStatus
<1>2. ASSUME NEW s \in Signals, Book!Admit(s) PROVE Limits!Admit(s)
  <2> DEFINE daily == RealisedOn(today, ledger.status, ledger.net, ledger.closedOn)
  <2>1. Book!Admissible(s, OpenIn(ledger.status), daily)
    BY <1>2, SameOpenRows, SameResult DEF Book!Admit
  <2>2. Limits!Admissible(s, Limits!OpenIn(ledger.status),
          Limits!RealisedOn(today, ledger.status, ledger.net, ledger.closedOn))
    BY <2>1, SameVerdict, LimitsVerdict, LimitsRows
  <2>3. Limits!InstrumentFree(s, ledger.status)
    BY <1>2, SameOpenRows, LimitsRows
    DEF Book!Admit, Book!InstrumentFree, Limits!InstrumentFree
  <2>4. QED BY <1>2, <2>2, <2>3 DEF Book!Admit, Limits!Admit
<1>3. ASSUME NEW s \in Signals, Book!Reject(s) PROVE Limits!Reject(s)
  <2> DEFINE daily == RealisedOn(today, ledger.status, ledger.net, ledger.closedOn)
  <2>1. ASSUME s \in Approved
        PROVE  /\ Book!InstrumentFree(s, ledger.status)
               /\ ~Book!Admissible(s, OpenIn(ledger.status), daily)
    BY <1>3, <2>1, SameOpenRows, SameResult DEF Book!Reject
  <2>2. ASSUME s \in Approved
        PROVE  ~Limits!Admissible(s, Limits!OpenIn(ledger.status),
                 Limits!RealisedOn(today, ledger.status, ledger.net, ledger.closedOn))
    BY <2>1, <2>2, SameVerdict, LimitsVerdict, LimitsRows
  <2>3. ASSUME s \in Approved PROVE Limits!InstrumentFree(s, ledger.status)
    BY <2>1, <2>3, SameOpenRows, LimitsRows
    DEF Book!InstrumentFree, Limits!InstrumentFree
  <2>4. QED BY <1>3, <2>2, <2>3 DEF Book!Reject, Limits!Reject
<1>4. ASSUME NEW s \in Signals, NEW pnl \in Pnl, Book!Close(s, pnl)
      PROVE  Limits!Close(s, pnl)
  BY <1>4 DEF Book!Close, Limits!Close
<1>5. Book!NextDay => Limits!NextDay
  BY DEF Book!NextDay, Limits!NextDay
<1>6. Book!Next => Limits!Next
  BY <1>2, <1>3, <1>4, <1>5 DEF Book!Next, Limits!Next
<1>7. QED BY <1>1, <1>6 DEF Book!bookVars, Limits!bookVars

LEMMA DesksKeepLimitsBook == Spec => Limits!Spec
  BY BookInit, BookStep, OneBook, InvariantInit, InvariantStep, PTL
  DEF Spec, Limits!Spec

\* However the transactions of the desks interleave, retry, fail or crash, the
\* positions open in the ledger they share stay inside every portfolio and
\* sector limit, if those found at the first start do and none of them carries
\* a negative risk (risk_gate.py:75-113 inside order_desk.py:343-459).
THEOREM DesksKeepTheLimits ==
  ASSUME ExposureWithinLimits(Legacy),
         \A s \in Legacy : Risk[s] >= 0 /\ Notional[s] >= 0
  PROVE  Spec => []LedgerWithinLimits
<1>1. ASSUME NEW open
      PROVE  Limits!ExposureWithinLimits(open) <=> ExposureWithinLimits(open)
  BY LimitsSums, LimitsCardinality, LimitsNeighbours
  DEF Limits!ExposureWithinLimits, ExposureWithinLimits
<1>2. Limits!ExposureWithinLimits(Legacy)
  BY <1>1
<1>3. Limits!Spec => []Limits!BookWithinLimits
  BY <1>2, LimitsAssumptions, Limits!BookLimitsHold
<1>4. Limits!BookWithinLimits => LedgerWithinLimits
  BY <1>1, LimitsRows DEF Limits!BookWithinLimits, LedgerWithinLimits, Open
<1>5. QED BY <1>3, <1>4, DesksKeepLimitsBook, PTL

\* No group of positions open in the desks' ledger becomes densely correlated,
\* whichever desk admits and whichever closes, in whatever order
\* (risk_gate.py:103-111 inside order_desk.py:343-459).
THEOREM DesksAdmitNoCycle ==
  ASSUME NoDenselyCorrelatedGroup(Legacy)
  PROVE  Spec => []LedgerWithoutCycle
<1>1. ASSUME NEW open
      PROVE  Limits!NoDenselyCorrelatedGroup(open) <=> NoDenselyCorrelatedGroup(open)
  BY LimitsCardinality, LimitsNeighbours
  DEF Limits!NoDenselyCorrelatedGroup, NoDenselyCorrelatedGroup
<1>2. Limits!NoDenselyCorrelatedGroup(Legacy)
  BY <1>1
<1>3. Limits!Spec => []Limits!NoCorrelatedCycle
  BY <1>2, LimitsAssumptions, Limits!NoCorrelatedCycleHolds
<1>4. Limits!NoCorrelatedCycle => LedgerWithoutCycle
  BY <1>1, LimitsRows DEF Limits!NoCorrelatedCycle, LedgerWithoutCycle, Open
<1>5. QED BY <1>3, <1>4, DesksKeepLimitsBook, PTL

\* A day's realised loss is bounded although several desks close positions at
\* once and each admission reads the daily result only up to its own snapshot
\* (risk_gate.py:88-89, order_desk.py:572-631).
THEOREM DesksBoundTheDailyLoss ==
  ASSUME IsFiniteSet(Pnl), Cardinality(Legacy) <= MaxOpenPositions
  PROVE  Spec => []LedgerLossIsBounded
<1>1. Limits!WorstLoss = WorstExit
  BY DEF Limits!WorstLoss, WorstExit, Limits!Min, Min
<1>2. Limits!IsFiniteSet(Pnl) <=> IsFiniteSet(Pnl)
  BY DEF Limits!IsFiniteSet, IsFiniteSet
<1>3. Limits!Cardinality(Legacy) <= MaxOpenPositions
  BY LimitsCardinality
<1>4. Limits!Spec => []Limits!DailyLossIsBounded
  BY <1>2, <1>3, LimitsAssumptions, Limits!DailyLossBound
<1>5. Limits!DailyLossIsBounded => LedgerLossIsBounded
  BY LimitsRows, <1>1
  DEF Limits!DailyLossIsBounded, LedgerLossIsBounded, Limits!Days, Days, Realised
<1>6. QED BY <1>4, <1>5, DesksKeepLimitsBook, PTL
-----------------------------------------------------------------------------
(***************************************************************************)
(* Every call ends: the argument behind CallsReturn that needs no fairness.*)
(* A thread inside a call has a bounded number of steps left, each step it *)
(* takes brings the number down, and nobody else can bring it up.          *)
(***************************************************************************)
Thread(d) == <<pc[d], call[d], due[d], tries[d]>>
InCall(d) == pc[d] \in {"begin", "mutex", "decide", "commit", "return"}

\* Outside an evaluation loop nothing is due, within it the position being
\* closed is; and the attempts are those of the call in hand.
ThreadsInOrder ==
  \A d \in Desks :
    /\ pc[d] \in {"down", "hydrate", "idle"} => due[d] = {} /\ tries[d] = 0
    /\ pc[d] = "scan" => due[d] # {} /\ tries[d] = 0
    /\ InCall(d) => IF call[d].op = "close" THEN call[d].sig \in due[d] ELSE due[d] = {}

\* The steps that the attempts of the call in hand can still take: two for each
\* that fails, and three more for the one that gets the mutex.
AttemptsLeft(d) == 2 * (TransactionRetries - tries[d])
CallLeft(d) ==
  CASE pc[d] = "begin"  -> AttemptsLeft(d) + 3
    [] pc[d] = "mutex"  -> AttemptsLeft(d) + 2
    [] pc[d] = "decide" -> 3
    [] pc[d] = "commit" -> 2
    [] pc[d] = "return" -> 1
    [] OTHER -> 0

\* The positions the loop has not come to yet, each worth one more call.
Later(d) == IF InCall(d) THEN due[d] \ {call[d].sig} ELSE due[d]
CallSteps == 2 * TransactionRetries + 4
WorkLeft(d) == CallLeft(d) + CallSteps * Cardinality(Later(d))

\* What a step of desk d does to its thread.
Enters(d) ==
  /\ pc[d] \in {"down", "hydrate", "idle"}
  /\ \/ pc'[d] \in {"down", "hydrate", "idle"} /\ due'[d] = due[d]
     \/ pc'[d] = "begin" /\ call'[d].op = "record" /\ due'[d] = due[d]
     \/ pc'[d] = "scan" /\ due'[d] # {}
  /\ tries'[d] = tries[d]
Advances(d) ==
  /\ <<pc[d], pc'[d]>> \in {<<"begin", "mutex">>, <<"mutex", "decide">>,
                            <<"decide", "commit">>, <<"commit", "return">>}
  /\ call'[d] = call[d] /\ due'[d] = due[d] /\ tries'[d] = tries[d]
Retries(d) ==
  /\ pc[d] \in {"begin", "mutex"} /\ pc'[d] = "begin"
  /\ call'[d] = call[d] /\ due'[d] = due[d]
  /\ tries'[d] = tries[d] + 1 /\ tries'[d] < TransactionRetries
Leaves(d) ==
  /\ InCall(d) \/ pc[d] = "scan"
  /\ pc'[d] = "idle" /\ due'[d] = {} /\ tries'[d] = 0
ClosesNext(d) ==
  /\ pc[d] = "scan" /\ pc'[d] = "begin"
  /\ call'[d].op = "close" /\ call'[d].sig \in due[d]
  /\ due'[d] = due[d] /\ tries'[d] = tries[d]
GoesOn(d) ==
  /\ pc[d] = "return" /\ call[d].op = "close"
  /\ due'[d] = due[d] \ {call[d].sig} /\ tries'[d] = 0
  /\ pc'[d] = IF due'[d] = {} THEN "idle" ELSE "scan"
Moves(d) ==
  \/ Enters(d) \/ Advances(d) \/ Retries(d) \/ Leaves(d) \/ ClosesNext(d) \/ GoesOn(d)
OnlyMoves(d) == Moves(d) /\ \A e \in Desks \ {d} : Thread(e)' = Thread(e)

LEMMA LeaveMoves ==
  ASSUME TypeOK, NEW d \in Desks, LeaveCall(d), InCall(d) \/ pc[d] = "scan"
  PROVE  OnlyMoves(d)
  BY DEF TypeOK, LeaveCall, OnlyMoves, Moves, Leaves, Thread

LEMMA RetryMoves ==
  ASSUME TypeOK, NEW d \in Desks, RetryOrRaise(d), pc[d] \in {"begin", "mutex"}
  PROVE  OnlyMoves(d)
<1>1. CASE tries[d] + 1 < TransactionRetries
  <2>1. Retries(d)
    BY <1>1 DEF TypeOK, RetryOrRaise, Retries
  <2>2. \A e \in Desks \ {d} : Thread(e)' = Thread(e)
    BY <1>1 DEF TypeOK, RetryOrRaise, Thread
  <2>3. QED BY <2>1, <2>2 DEF OnlyMoves, Moves
<1>2. CASE ~(tries[d] + 1 < TransactionRetries)
  BY <1>2, LeaveMoves DEF RetryOrRaise, InCall
<1>3. QED BY <1>1, <1>2

LEMMA StepMoves ==
  ASSUME TypeOK, NEW d \in Desks, Step(d)
  PROVE  OnlyMoves(d)
<1>1. CASE HydrateActiveState(d) \/ HydrateRaises(d)
  BY <1>1 DEF TypeOK, HydrateActiveState, HydrateRaises, OnlyMoves, Moves, Enters, Thread
<1>2. CASE Begin(d) \/ UpdateMutex(d) \/ Commit(d)
  BY <1>2 DEF TypeOK, Begin, UpdateMutex, Commit, OnlyMoves, Moves, Advances, Thread
<1>3. CASE Decides(d)
  <2>1. PICK v \in Verdicts : Decided(d, v)
    BY <1>3 DEF Decides, SignalReplay, AdmitSignal, RejectSignal, DecideClose, Verdicts
  <2>2. pc[d] = "decide"
    BY <1>3 DEF Decides, SignalReplay, AdmitSignal, RejectSignal, DecideClose,
                Recording, Closing
  <2>3. QED BY <2>1, <2>2 DEF TypeOK, Decided, OnlyMoves, Moves, Advances, Thread
<1>4. CASE AttachConflict(d) \/ WriteConflict(d)
  BY <1>4, RetryMoves, LeaveMoves DEF AttachConflict, WriteConflict, InCall
<1>5. CASE TransactionFails(d) \/ DuplicateDbLocked(d) \/ CloseRefused(d) \/ RecordReturns(d)
  BY <1>5, LeaveMoves
  DEF TransactionFails, DuplicateDbLocked, CloseRefused, RecordReturns, Recording,
      Closing, InTransaction, InCall
<1>6. ASSUME NEW s \in due[d], ZeroQuantity(d, s) PROVE OnlyMoves(d)
  BY <1>6, LeaveMoves DEF ZeroQuantity
<1>7. ASSUME NEW s \in due[d], NEW pnl \in Pnl, ClosePosition(d, s, pnl) PROVE OnlyMoves(d)
  <2>1. ClosesNext(d)
    BY <1>7 DEF TypeOK, ClosePosition, ClosesNext
  <2>2. \A e \in Desks \ {d} : Thread(e)' = Thread(e)
    BY <1>7 DEF TypeOK, ClosePosition, Thread
  <2>3. QED BY <2>1, <2>2 DEF OnlyMoves, Moves
<1>8. CASE CloseReturns(d)
  <2>1. GoesOn(d)
    BY <1>8 DEF TypeOK, CloseReturns, GoesOn
  <2>2. \A e \in Desks \ {d} : Thread(e)' = Thread(e)
    BY <1>8 DEF TypeOK, CloseReturns, Thread
  <2>3. QED BY <2>1, <2>2 DEF OnlyMoves, Moves
<1>9. QED
  BY <1>1, <1>2, <1>3, <1>4, <1>5, <1>6, <1>7, <1>8 DEF Step, Decides

LEMMA NextMoves ==
  ASSUME TypeOK, [Next]_vars
  PROVE  \/ \E d \in Desks : OnlyMoves(d)
         \/ \A d \in Desks : Thread(d)' = Thread(d)
         \/ Crash
<1>1. ASSUME NEW d \in Desks, InitDb(d) PROVE OnlyMoves(d)
  BY <1>1 DEF TypeOK, InitDb, OnlyMoves, Moves, Enters, Thread
<1>2. ASSUME NEW d \in Desks, NEW s \in Signals, RecordSignal(d, s) PROVE OnlyMoves(d)
  <2>1. Enters(d)
    BY <1>2 DEF TypeOK, RecordSignal, Enters
  <2>2. \A e \in Desks \ {d} : Thread(e)' = Thread(e)
    BY <1>2 DEF TypeOK, RecordSignal, Thread
  <2>3. QED BY <2>1, <2>2 DEF OnlyMoves, Moves
<1>3. ASSUME NEW d \in Desks, NEW exits \in SUBSET held[d], EvaluateOpenPositions(d, exits)
      PROVE  OnlyMoves(d)
  BY <1>3 DEF TypeOK, EvaluateOpenPositions, OnlyMoves, Moves, Enters, Thread
<1>4. CASE NextDay \/ UNCHANGED vars
  BY <1>4 DEF NextDay, vars, threadVars, Thread
<1>5. QED BY <1>1, <1>2, <1>3, <1>4, StepMoves DEF Next

LEMMA ThreadsStep ==
  ASSUME TypeOK, ThreadsInOrder, [Next]_vars
  PROVE  ThreadsInOrder'
<1>1. ASSUME NEW d \in Desks, OnlyMoves(d) PROVE ThreadsInOrder'
  <2>1. /\ pc'[d] \in {"down", "hydrate", "idle"} => due'[d] = {} /\ tries'[d] = 0
        /\ pc'[d] = "scan" => due'[d] # {} /\ tries'[d] = 0
        /\ InCall(d)' => IF call'[d].op = "close" THEN call'[d].sig \in due'[d]
                                                  ELSE due'[d] = {}
    BY <1>1 DEF OnlyMoves, Moves, Enters, Advances, Retries, Leaves, ClosesNext, GoesOn,
                ThreadsInOrder, InCall
  <2>2. QED BY <1>1, <2>1 DEF OnlyMoves, Thread, ThreadsInOrder, InCall
<1>2. CASE \A d \in Desks : Thread(d)' = Thread(d)
  BY <1>2 DEF Thread, ThreadsInOrder, InCall
<1>3. CASE Crash
  BY <1>3 DEF Crash, ThreadsInOrder, InCall
<1>4. QED BY <1>1, <1>2, <1>3, NextMoves

LEMMA WorkTyped ==
  ASSUME TypeOK, NEW d \in Desks
  PROVE  /\ CallLeft(d) \in Nat /\ CallSteps \in Nat /\ IsFiniteSet(Later(d))
         /\ Cardinality(Later(d)) \in Nat /\ WorkLeft(d) \in Nat
         /\ tries[d] \in Nat /\ tries[d] < TransactionRetries
<1>1. tries[d] \in Nat /\ tries[d] < TransactionRetries /\ TransactionRetries \in Nat
  BY DeskAssumption DEF TypeOK
<1>2. CallLeft(d) \in Nat /\ CallSteps \in Nat
  BY <1>1 DEF CallLeft, AttemptsLeft, CallSteps
<1>3. IsFiniteSet(Later(d)) /\ Cardinality(Later(d)) \in Nat
  <2>1. Later(d) \subseteq Signals
    BY DEF TypeOK, Later
  <2>2. QED BY <2>1, SignalsAssumption, FS_Subset, FS_CardinalityType
<1>4. WorkLeft(d) \in Nat
  BY <1>2, <1>3 DEF WorkLeft
<1>5. QED BY <1>1, <1>2, <1>3, <1>4

\* There is work left as long as the thread is in a call or a loop.
LEMMA WorkInHand ==
  ASSUME TypeOK, ThreadsInOrder, NEW d \in Desks, InCall(d) \/ pc[d] = "scan"
  PROVE  WorkLeft(d) > 0
<1> DEFINE l == Cardinality(Later(d))
<1>1. /\ CallLeft(d) \in Nat /\ l \in Nat /\ CallSteps \in Nat \ {0}
      /\ tries[d] \in Nat /\ tries[d] < TransactionRetries /\ TransactionRetries \in Nat
  BY WorkTyped, DeskAssumption DEF CallSteps
<1>2. WorkLeft(d) = CallLeft(d) + CallSteps * l
  BY DEF WorkLeft
<1>3. CASE InCall(d)
  <2>1. CallLeft(d) > 0
    BY <1>1, <1>3 DEF InCall, CallLeft, AttemptsLeft
  <2> HIDE DEF l
  <2>2. CallSteps * l \in Nat
    BY <1>1
  <2>3. QED BY <1>1, <1>2, <2>1, <2>2
<1>4. CASE pc[d] = "scan"
  <2>1. Later(d) # {} /\ IsFiniteSet(Later(d))
    BY <1>4, WorkTyped DEF ThreadsInOrder, Later, InCall
  <2>2. l > 0
    BY <1>1, <2>1, FS_EmptySet
  <2> HIDE DEF l
  <2>3. CallSteps * l > 0
    BY <1>1, <2>2
  <2>4. QED BY <1>1, <1>2, <2>3
<1>5. QED BY <1>3, <1>4

\* A step of the thread in a call or a loop costs some of the work left.
LEMMA MoveCosts ==
  ASSUME TypeOK, TypeOK', ThreadsInOrder, NEW d \in Desks, Moves(d),
         InCall(d) \/ pc[d] = "scan"
  PROVE  WorkLeft(d)' < WorkLeft(d)
<1> DEFINE l == Cardinality(Later(d))
           m == Cardinality(Later(d))'
<1>1. /\ CallLeft(d) \in Nat /\ l \in Nat /\ CallSteps \in Nat \ {0}
      /\ tries[d] \in Nat /\ tries[d] < TransactionRetries /\ TransactionRetries \in Nat
  BY WorkTyped, DeskAssumption DEF CallSteps
<1>2. /\ WorkLeft(d) = CallLeft(d) + CallSteps * l
      /\ WorkLeft(d)' = CallLeft(d)' + CallSteps * m
  BY DEF WorkLeft, CallSteps
<1>3. ~Enters(d)
  BY DEF Enters, InCall
<1>4. ASSUME CallLeft(d)' < CallLeft(d), m = l, CallLeft(d)' \in Nat
      PROVE  WorkLeft(d)' < WorkLeft(d)
  <2> HIDE DEF l, m
  <2>1. CallSteps * l \in Nat
    BY <1>1
  <2>2. QED BY <1>1, <1>2, <1>4, <2>1
<1>5. CASE Advances(d)
  <2>1. CallLeft(d)' < CallLeft(d) /\ CallLeft(d)' \in Nat
    BY <1>1, <1>5 DEF Advances, CallLeft, AttemptsLeft
  <2>2. Later(d)' = Later(d)
    BY <1>5 DEF Advances, Later, InCall
  <2>3. QED BY <1>4, <2>1, <2>2
<1>6. CASE Retries(d)
  <2>1. CallLeft(d)' < CallLeft(d) /\ CallLeft(d)' \in Nat
    BY <1>1, <1>6 DEF Retries, CallLeft, AttemptsLeft
  <2>2. Later(d)' = Later(d)
    BY <1>6 DEF Retries, Later, InCall
  <2>3. QED BY <1>4, <2>1, <2>2
<1>7. CASE Leaves(d)
  <2>1. CallLeft(d)' = 0 /\ Later(d)' = {}
    BY <1>7 DEF Leaves, CallLeft, Later, InCall
  <2>2. WorkLeft(d)' = 0
    BY <1>1, <1>2, <2>1, FS_EmptySet
  <2>3. QED BY <2>2, WorkInHand
<1>8. CASE ClosesNext(d)
  <2>1. /\ Later(d) = due[d] /\ call'[d].sig \in due[d]
        /\ Later(d)' = due[d] \ {call'[d].sig}
    BY <1>8 DEF ClosesNext, Later, InCall
  <2>2. m = l - 1
    <3>1. IsFiniteSet(Later(d)) /\ call'[d].sig \in Later(d)
      BY <2>1, WorkTyped
    <3>2. Cardinality(Later(d) \ {call'[d].sig}) = l - 1
      BY <3>1, FS_RemoveElement
    <3>3. Later(d)' = Later(d) \ {call'[d].sig}
      BY <2>1
    <3>4. QED BY <3>2, <3>3
  <2>3. CallLeft(d)' = CallSteps - 1 /\ CallLeft(d) = 0
    <3>1. tries[d] = 0
      BY <1>8 DEF ThreadsInOrder, ClosesNext
    <3>2. QED BY <1>1, <1>8, <3>1 DEF ClosesNext, CallLeft, AttemptsLeft, CallSteps
  <2>4. CallSteps * l \in Nat /\ CallSteps * (l - 1) = CallSteps * l - CallSteps
    <3> HIDE DEF l
    <3>1. QED BY <1>1
  <2> HIDE DEF l, m
  <2>5. QED BY <1>1, <1>2, <2>2, <2>3, <2>4
<1>9. CASE GoesOn(d)
  <2>1. Later(d) = due[d] \ {call[d].sig} /\ Later(d)' = due[d] \ {call[d].sig}
    BY <1>9 DEF GoesOn, Later, InCall
  <2>2. CallLeft(d) = 1 /\ CallLeft(d)' = 0
    BY <1>9 DEF GoesOn, CallLeft
  <2>3. QED BY <1>4, <2>1, <2>2
<1>10. QED BY <1>3, <1>5, <1>6, <1>7, <1>8, <1>9 DEF Moves

\* The thread of a desk in a call either does nothing or gets nearer to its
\* return, by its own steps, by a crash, and by nothing else.
CallsMakeHeadway ==
  \A d \in Desks :
    InCall(d) \/ pc[d] = "scan" =>
      Thread(d)' = Thread(d) \/ WorkLeft(d)' < WorkLeft(d)

\* A call of record_signal takes at most three steps and two for every attempt
\* the retry budget allows; an evaluation loop one call for each due position.
WorkIsBounded ==
  \A d \in Desks :
    /\ WorkLeft(d) \in Nat
    /\ InCall(d) /\ call[d].op = "record" => WorkLeft(d) <= 2 * TransactionRetries + 3
    /\ WorkLeft(d) <= CallSteps * (Cardinality(due[d]) + 1)

\* However many desks contend for the mutex, every call of every desk comes to
\* its end in a number of its own steps that the retry budget fixes beforehand
\* (order_desk.py:291-311, 510-622): contention costs attempts, and attempts run out.
THEOREM CallsRunOut == Spec => [][CallsMakeHeadway]_vars /\ []WorkIsBounded
<1>1. Init => ThreadsInOrder
  BY DEF Init, ThreadsInOrder, InCall
<1>2. ASSUME TypeOK, TypeOK', ThreadsInOrder, [Next]_vars PROVE CallsMakeHeadway
  <2> SUFFICES ASSUME NEW d \in Desks, InCall(d) \/ pc[d] = "scan"
               PROVE  Thread(d)' = Thread(d) \/ WorkLeft(d)' < WorkLeft(d)
    BY DEF CallsMakeHeadway
  <2>1. ASSUME NEW e \in Desks, OnlyMoves(e)
        PROVE  Thread(d)' = Thread(d) \/ WorkLeft(d)' < WorkLeft(d)
    <3>1. CASE e = d
      BY <1>2, <2>1, <3>1, MoveCosts DEF OnlyMoves
    <3>2. CASE e # d
      BY <2>1, <3>2 DEF OnlyMoves
    <3>3. QED BY <3>1, <3>2
  <2>2. ASSUME Crash PROVE WorkLeft(d)' < WorkLeft(d)
    <3>1. CallLeft(d)' = 0 /\ Later(d)' = {}
      BY <2>2 DEF Crash, CallLeft, Later, InCall
    <3>2. WorkLeft(d)' = 0
      BY <3>1, FS_EmptySet, DeskAssumption DEF WorkLeft, CallSteps
    <3>3. QED BY <1>2, <3>2, WorkInHand
  <2>3. QED BY <1>2, <2>1, <2>2, NextMoves
<1>3. ASSUME TypeOK, ThreadsInOrder PROVE WorkIsBounded
  <2> SUFFICES ASSUME NEW d \in Desks
               PROVE  /\ WorkLeft(d) \in Nat
                      /\ InCall(d) /\ call[d].op = "record" =>
                           WorkLeft(d) <= 2 * TransactionRetries + 3
                      /\ WorkLeft(d) <= CallSteps * (Cardinality(due[d]) + 1)
    BY DEF WorkIsBounded
  <2> DEFINE l == Cardinality(Later(d))
             n == Cardinality(due[d])
  <2>1. /\ CallLeft(d) \in Nat /\ l \in Nat /\ CallSteps \in Nat
        /\ WorkLeft(d) \in Nat /\ WorkLeft(d) = CallLeft(d) + CallSteps * l
    BY <1>3, WorkTyped DEF WorkLeft
  <2>2. CallLeft(d) <= 2 * TransactionRetries + 3 /\ TransactionRetries \in Nat
    <3>1. tries[d] \in Nat /\ TransactionRetries \in Nat
      BY <1>3, WorkTyped, DeskAssumption
    <3>2. QED BY <3>1 DEF CallLeft, AttemptsLeft
  <2>3. l <= n /\ n \in Nat
    <3>1. Later(d) \subseteq due[d] /\ due[d] \subseteq Signals
      BY <1>3 DEF TypeOK, Later
    <3>2. QED BY <3>1, SignalsAssumption, FS_Subset, FS_CardinalityType
  <2>4. ASSUME due[d] = {} PROVE WorkLeft(d) <= 2 * TransactionRetries + 3
    <3>1. Later(d) = {}
      BY <2>4 DEF Later
    <3>2. l = 0
      BY <3>1, FS_EmptySet
    <3> HIDE DEF l
    <3>3. QED BY <2>1, <2>2, <3>2
  <2>5. CallLeft(d) + CallSteps * l <= CallSteps * (n + 1)
    <3> HIDE DEF l, n
    <3>1. CallSteps * l <= CallSteps * n /\ CallSteps * n \in Nat /\ CallSteps * l \in Nat
      BY <2>1, <2>3
    <3>2. CallSteps * (n + 1) = CallSteps * n + CallSteps
      BY <2>1, <2>3
    <3>3. CallLeft(d) <= CallSteps
      BY <2>1, <2>2 DEF CallSteps
    <3>4. QED BY <2>1, <3>1, <3>2, <3>3
  <2>6. InCall(d) /\ call[d].op = "record" => due[d] = {}
    BY <1>3 DEF ThreadsInOrder
  <2>7. QED BY <2>1, <2>4, <2>5, <2>6
<1>4. ThreadsInOrder /\ TypeOK /\ [Next]_vars => ThreadsInOrder'
  BY ThreadsStep
<1>5. TypeOK /\ TypeOK' /\ ThreadsInOrder /\ [Next]_vars => CallsMakeHeadway
  BY <1>2
<1>6. TypeOK /\ ThreadsInOrder => WorkIsBounded
  BY <1>3
<1>7. UNCHANGED vars => CallsMakeHeadway
  BY DEF vars, threadVars, CallsMakeHeadway, Thread
<1>8. QED BY <1>1, <1>4, <1>5, <1>6, TypeCorrect, PTL DEF Spec
=============================================================================
