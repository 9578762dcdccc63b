------------------------------ MODULE OrderDesk ------------------------------
(***************************************************************************)
(* engine/order_desk.py: PaperOrderDesk objects that share one DuckDB file *)
(* (the desks of one process; a process restart takes all of them down).   *)
(*                                                                         *)
(* DuckDB is external.  What the code relies on is modelled: a transaction *)
(* reads the snapshot taken at BEGIN, its writes are invisible until       *)
(* COMMIT, and the UPDATE of the one row of portfolio_admission_mutex      *)
(* raises TransactionException when another transaction has an uncommitted *)
(* write of that row or has committed one since the snapshot.              *)
(*                                                                         *)
(* Prices and the clock are inputs here: EvaluateOpenPositions is told     *)
(* which positions are due.  Messages, prices and the clock belong to      *)
(* SignalListener.                                                         *)
(***************************************************************************)
EXTENDS LedgerRows

CONSTANTS
  Desks,
  Quantity,              \* [Signals -> Nat \ {0}], shares bought or sold
  TransactionRetries,    \* PaperOrderDesk(transaction_retries=...)
  NoSignal,              \* no lock on an instrument, no signal in a call
  NoDesk                 \* nobody has written the mutex row

ASSUME DeskAssumption ==
  /\ NoSignal \notin Signals
  /\ NoDesk \notin Desks
  /\ Quantity \in [Signals -> Nat \ {0}]
  /\ TransactionRetries \in Nat \ {0}

VARIABLES
  ledger,                \* the committed database
  today,                 \* the current IST day
  mutexOwner,            \* the desk with an uncommitted write of the mutex row
  pc,                    \* where each desk's thread is
  call,                  \* the record_signal or close it is executing
  due,                   \* positions evaluate_open_positions still has to close
  tries,                 \* attempts of the retry loop already failed
  snap,                  \* the snapshot of the desk's transaction
  mutexCurrent,          \* no mutex write was committed since that snapshot
  verdict,               \* what the transaction has decided to write
  held,                  \* keys of active_positions
  heldQty                \* [Desks -> [Signals -> Nat]], their "qty"

threadVars == <<pc, call, due, tries>>
txVars == <<mutexOwner, snap, mutexCurrent, verdict>>
memoryVars == <<held, heldQty>>
vars == <<ledger, today, threadVars, txVars, memoryVars>>
-----------------------------------------------------------------------------
Ledgers == [status : [Signals -> RowStatus],
            net : [Signals -> Int],
            closedOn : [Signals -> Days],
            lock : [Instruments -> Signals \cup {NoSignal}]]

FirstLedger == [status |-> FirstStatus,
                net |-> [s \in Signals |-> 0],
                closedOn |-> [s \in Signals |-> 0],
                lock |-> [i \in Instruments |-> NoSignal]]

Calls == [op : {"none", "record", "close"}, sig : Signals \cup {NoSignal},
          pnl : Int]
NoCall == [op |-> "none", sig |-> NoSignal, pnl |-> 0]

Locations == {"down", "hydrate", "idle", "scan",
              "begin", "mutex", "decide", "commit", "return"}
InTransaction == {"mutex", "decide", "commit"}
Verdicts == {"none", "EXISTING", "OPEN", "REJECTED", "CLOSED"}

Open(l) == OpenIn(l.status)
Realised(day, l) == RealisedOn(day, l.status, l.net, l.closedOn)

Init ==
  /\ ledger = FirstLedger
  /\ today = 0
  /\ mutexOwner = NoDesk
  /\ pc = [d \in Desks |-> "down"]
  /\ call = [d \in Desks |-> NoCall]
  /\ due = [d \in Desks |-> {}]
  /\ tries = [d \in Desks |-> 0]
  /\ snap = [d \in Desks |-> FirstLedger]
  /\ mutexCurrent = [d \in Desks |-> FALSE]
  /\ verdict = [d \in Desks |-> "none"]
  /\ held = [d \in Desks |-> {}]
  /\ heldQty = [d \in Desks |-> [s \in Signals |-> 0]]
-----------------------------------------------------------------------------
(***************************************************************************)
(* PaperOrderDesk.__init__: _init_db, then _hydrate_active_state.          *)
(***************************************************************************)

\* Mutant: no migration of rows that are older than the lock table.
WithoutMigration(l) == l

\* The INSERT INTO open_instrument_locks ... WHERE NOT EXISTS of _init_db.
WithMissingLocks(l) ==
  [l EXCEPT !.lock =
     [i \in Instruments |->
        IF l.lock[i] = NoSignal /\ \E s \in Open(l) : InstrumentOf[s] = i
        THEN CHOOSE s \in Open(l) : InstrumentOf[s] = i
        ELSE l.lock[i]]]

\* _init_db refuses a ledger with two OPEN rows of one instrument.
InitDb(d) ==
  /\ pc[d] = "down"
  /\ \A s, t \in Open(ledger) : InstrumentOf[s] = InstrumentOf[t] => s = t
  /\ ledger' = WithMissingLocks(ledger)
  /\ pc' = [pc EXCEPT ![d] = "hydrate"]
  /\ UNCHANGED <<today, call, due, tries, txVars, memoryVars>>

\* Mutant: a restarted desk starts with an empty book.
StartEmpty(d) ==
  /\ pc[d] = "hydrate"
  /\ pc' = [pc EXCEPT ![d] = "idle"]
  /\ UNCHANGED <<ledger, today, call, due, tries, txVars, memoryVars>>

HydrateActiveState(d) ==
  /\ pc[d] = "hydrate"
  /\ held' = [held EXCEPT ![d] = Open(ledger)]
  /\ heldQty' = [heldQty EXCEPT ![d] =
       [s \in Signals |-> IF s \in Open(ledger) THEN Quantity[s] ELSE 0]]
  /\ pc' = [pc EXCEPT ![d] = "idle"]
  /\ UNCHANGED <<ledger, today, call, due, tries, txVars>>

\* An OPEN row with values that make no position, or without the metadata of
\* its instrument: the constructor raises, and the process has no desk.
HydrateRaises(d) ==
  /\ pc[d] = "hydrate"
  /\ Open(ledger) # {}
  /\ pc' = [pc EXCEPT ![d] = "down"]
  /\ UNCHANGED <<ledger, today, call, due, tries, txVars, memoryVars>>
-----------------------------------------------------------------------------
(***************************************************************************)
(* The end of a transaction attempt.                                       *)
(***************************************************************************)

\* The connection closes; what it had not committed is gone.
EndTransaction(d) ==
  /\ mutexOwner' = IF mutexOwner = d THEN NoDesk ELSE mutexOwner
  /\ snap' = [snap EXCEPT ![d] = FirstLedger]
  /\ mutexCurrent' = [mutexCurrent EXCEPT ![d] = FALSE]
  /\ verdict' = [verdict EXCEPT ![d] = "none"]

\* The call returns to its caller, or an exception leaves it: nothing of the
\* call survives, and an evaluation loop it was part of is abandoned.
LeaveCall(d) ==
  /\ pc' = [pc EXCEPT ![d] = "idle"]
  /\ call' = [call EXCEPT ![d] = NoCall]
  /\ due' = [due EXCEPT ![d] = {}]
  /\ tries' = [tries EXCEPT ![d] = 0]

\* Mutant: the budget allows one attempt more than it says.
RetryOnceMore(d) ==
  IF tries[d] < TransactionRetries
  THEN /\ pc' = [pc EXCEPT ![d] = "begin"]
       /\ tries' = [tries EXCEPT ![d] = @ + 1]
       /\ UNCHANGED <<call, due>>
  ELSE LeaveCall(d)

\* Mutant: the attempts are not counted.
RetryForever(d) ==
  /\ pc' = [pc EXCEPT ![d] = "begin"]
  /\ UNCHANGED <<tries, call, due>>

\* The except duckdb.Error branch of both retry loops: contention is retried
\* until the budget is spent, then raised.
RetryOrRaise(d) ==
  IF tries[d] + 1 < TransactionRetries
  THEN /\ pc' = [pc EXCEPT ![d] = "begin"]
       /\ tries' = [tries EXCEPT ![d] = @ + 1]
       /\ UNCHANGED <<call, due>>
  ELSE LeaveCall(d)

\* Every transaction starts by connecting and BEGIN TRANSACTION.
Begin(d) ==
  /\ pc[d] = "begin"
  /\ pc' = [pc EXCEPT ![d] = "mutex"]
  /\ snap' = [snap EXCEPT ![d] = ledger]
  /\ mutexCurrent' = [mutexCurrent EXCEPT ![d] = TRUE]
  /\ UNCHANGED <<ledger, today, call, due, tries, mutexOwner, verdict, memoryVars>>

\* duckdb.connect can find the file "already attached" by a connection another
\* thread is opening or closing.  record_signal retries that BinderException;
\* _close_position_transaction connects outside its try, so there it escapes.
AttachConflict(d) ==
  /\ pc[d] = "begin"
  /\ \E e \in Desks \ {d} : pc[e] \in InTransaction
  /\ IF call[d].op = "record" THEN RetryOrRaise(d) ELSE LeaveCall(d)
  /\ UNCHANGED <<ledger, today, txVars, memoryVars>>

\* Mutant: no conflict with a write committed after the snapshot.
MutexNotHeld(d) == mutexOwner = NoDesk

\* UPDATE portfolio_admission_mutex SET version = version + 1.
MutexAvailable(d) == mutexOwner = NoDesk /\ mutexCurrent[d]

UpdateMutex(d) ==
  /\ pc[d] = "mutex"
  /\ MutexAvailable(d)
  /\ mutexOwner' = d
  /\ pc' = [pc EXCEPT ![d] = "decide"]
  /\ UNCHANGED <<ledger, today, call, due, tries, snap, mutexCurrent, verdict,
                 memoryVars>>

WriteConflict(d) ==
  /\ pc[d] = "mutex"
  /\ ~MutexAvailable(d)
  /\ EndTransaction(d)
  /\ RetryOrRaise(d)
  /\ UNCHANGED <<ledger, today, memoryVars>>

\* Any other error inside the transaction (I/O, cost model, ...) rolls back
\* and is raised.
TransactionFails(d) ==
  /\ pc[d] \in InTransaction
  /\ EndTransaction(d)
  /\ LeaveCall(d)
  /\ UNCHANGED <<ledger, today, memoryVars>>

Decided(d, v) ==
  /\ verdict' = [verdict EXCEPT ![d] = v]
  /\ pc' = [pc EXCEPT ![d] = "commit"]
  /\ UNCHANGED <<ledger, today, call, due, tries, mutexOwner, snap, mutexCurrent,
                 memoryVars>>
-----------------------------------------------------------------------------
(***************************************************************************)
(* record_signal                                                           *)
(***************************************************************************)
RecordSignal(d, s) ==
  /\ pc[d] = "idle"
  /\ pc' = [pc EXCEPT ![d] = "begin"]
  /\ call' = [call EXCEPT ![d] = [op |-> "record", sig |-> s, pnl |-> 0]]
  /\ UNCHANGED <<ledger, today, due, tries, txVars, memoryVars>>

Recording(d) == pc[d] = "decide" /\ call[d].op = "record"

\* The signal already has a row: nothing but the mutex bump is committed.
SignalReplay(d) ==
  /\ Recording(d)
  /\ snap[d].status[call[d].sig] # "NONE"
  /\ Decided(d, "EXISTING")

\* Mutant: a second lock on an instrument is accepted.
NoPrimaryKey(d) == FALSE

\* The primary key of open_instrument_locks refuses a second lock.
LockTaken(d) ==
  LET i == InstrumentOf[call[d].sig]
  IN  snap[d].lock[i] # NoSignal \/ ledger.lock[i] # NoSignal

\* INSERT INTO open_instrument_locks raises ConstraintException: the call rolls
\* back and returns DUPLICATE_DB_LOCKED without leaving a row.
DuplicateDbLocked(d) ==
  /\ Recording(d)
  /\ snap[d].status[call[d].sig] = "NONE"
  /\ call[d].sig \in Approved
  /\ LockTaken(d)
  /\ EndTransaction(d)
  /\ LeaveCall(d)
  /\ UNCHANGED <<ledger, today, memoryVars>>

AdmissibleTo(d) ==
  Admissible(call[d].sig, Open(snap[d]), Realised(today, snap[d]))

AdmitSignal(d) ==
  /\ Recording(d)
  /\ snap[d].status[call[d].sig] = "NONE"
  /\ call[d].sig \in Approved
  /\ ~LockTaken(d)
  /\ AdmissibleTo(d)
  /\ Decided(d, "OPEN")

\* A refused candidate gives back the lock it inserted, in the same transaction.
RejectSignal(d) ==
  /\ Recording(d)
  /\ snap[d].status[call[d].sig] = "NONE"
  /\ \/ call[d].sig \notin Approved
     \/ ~LockTaken(d) /\ ~AdmissibleTo(d)
  /\ Decided(d, "REJECTED")

\* After the transaction record_signal looks only at the status it returned.
\* For a replayed OPEN row that status is "OPEN" with quantity 0, and the entry
\* of active_positions is overwritten with it (unless the replayed signal has no
\* profile: then building the entry raises AttributeError).
RecordReturns(d) ==
  LET s == call[d].sig
  IN  /\ pc[d] = "return"
      /\ call[d].op = "record"
      /\ IF \/ verdict[d] = "OPEN"
            \/ /\ verdict[d] = "EXISTING"
               /\ snap[d].status[s] = "OPEN"
               /\ s \in Approved
         THEN /\ held' = [held EXCEPT ![d] = @ \cup {s}]
              /\ heldQty' = [heldQty EXCEPT ![d][s] =
                               IF verdict[d] = "OPEN" THEN Quantity[s] ELSE 0]
         ELSE UNCHANGED memoryVars
      /\ EndTransaction(d)
      /\ LeaveCall(d)
      /\ UNCHANGED <<ledger, today>>
-----------------------------------------------------------------------------
(***************************************************************************)
(* evaluate_open_positions                                                 *)
(***************************************************************************)

\* exits: the positions with a known price that is past target, stop or 15:15.
\* The code walks them in dict order; here they come in any order.
EvaluateOpenPositions(d, exits) ==
  /\ pc[d] = "idle"
  /\ exits # {}
  /\ pc' = [pc EXCEPT ![d] = "scan"]
  /\ due' = [due EXCEPT ![d] = exits]
  /\ UNCHANGED <<ledger, today, call, tries, txVars, memoryVars>>

ClosePosition(d, s, pnl) ==
  /\ pc[d] = "scan"
  /\ heldQty[d][s] > 0
  /\ pc' = [pc EXCEPT ![d] = "begin"]
  /\ call' = [call EXCEPT ![d] = [op |-> "close", sig |-> s, pnl |-> pnl]]
  /\ UNCHANGED <<ledger, today, due, tries, txVars, memoryVars>>

\* estimate_trade_friction raises ValueError for a quantity of zero, out of the
\* whole loop.
ZeroQuantity(d, s) ==
  /\ pc[d] = "scan"
  /\ heldQty[d][s] = 0
  /\ LeaveCall(d)
  /\ UNCHANGED <<ledger, today, txVars, memoryVars>>

Closing(d) == pc[d] = "decide" /\ call[d].op = "close"

DecideClose(d) ==
  /\ Closing(d)
  /\ snap[d].status[call[d].sig] = "OPEN"
  /\ Decided(d, "CLOSED")

\* "position is not OPEN in durable ledger": the entry stays in memory.
CloseRefused(d) ==
  /\ Closing(d)
  /\ snap[d].status[call[d].sig] # "OPEN"
  /\ EndTransaction(d)
  /\ LeaveCall(d)
  /\ UNCHANGED <<ledger, today, memoryVars>>

\* Mutant: a closed position stays in memory.
CloseForgetsDelete(d) ==
  LET rest == due[d] \ {call[d].sig}
  IN  /\ pc[d] = "return"
      /\ call[d].op = "close"
      /\ EndTransaction(d)
      /\ pc' = [pc EXCEPT ![d] = IF rest = {} THEN "idle" ELSE "scan"]
      /\ call' = [call EXCEPT ![d] = NoCall]
      /\ due' = [due EXCEPT ![d] = rest]
      /\ tries' = [tries EXCEPT ![d] = 0]
      /\ UNCHANGED <<ledger, today, memoryVars>>

\* del self.active_positions[sig_id], then on with the loop.
CloseReturns(d) ==
  LET s == call[d].sig
      rest == due[d] \ {s}
  IN  /\ pc[d] = "return"
      /\ call[d].op = "close"
      /\ held' = [held EXCEPT ![d] = @ \ {s}]
      /\ heldQty' = [heldQty EXCEPT ![d][s] = 0]
      /\ EndTransaction(d)
      /\ pc' = [pc EXCEPT ![d] = IF rest = {} THEN "idle" ELSE "scan"]
      /\ call' = [call EXCEPT ![d] = NoCall]
      /\ due' = [due EXCEPT ![d] = rest]
      /\ tries' = [tries EXCEPT ![d] = 0]
      /\ UNCHANGED <<ledger, today>>
-----------------------------------------------------------------------------
\* COMMIT: the writes of the transaction reach the database, and every other
\* transaction's snapshot of the mutex row is out of date.
Written(d) ==
  LET s == call[d].sig
      i == InstrumentOf[s]
  IN  CASE verdict[d] = "OPEN" ->
             [ledger EXCEPT !.status[s] = "OPEN", !.lock[i] = s]
        [] verdict[d] = "REJECTED" ->
             [ledger EXCEPT !.status[s] = "REJECTED"]
        [] verdict[d] = "CLOSED" ->
             [ledger EXCEPT !.status[s] = "CLOSED",
                            !.net[s] = call[d].pnl,
                            !.closedOn[s] = today,
                            !.lock[i] = IF @ = s THEN NoSignal ELSE @]
        [] OTHER -> ledger

Commit(d) ==
  /\ pc[d] = "commit"
  /\ ledger' = Written(d)
  /\ mutexOwner' = NoDesk
  /\ mutexCurrent' = [e \in Desks |-> FALSE]
  /\ pc' = [pc EXCEPT ![d] = "return"]
  /\ UNCHANGED <<today, call, due, tries, snap, verdict, memoryVars>>
-----------------------------------------------------------------------------
\* The process dies: memory and uncommitted work are lost, the file stays.
Crash ==
  /\ \E d \in Desks : pc[d] # "down"
  /\ mutexOwner' = NoDesk
  /\ pc' = [d \in Desks |-> "down"]
  /\ call' = [d \in Desks |-> NoCall]
  /\ due' = [d \in Desks |-> {}]
  /\ tries' = [d \in Desks |-> 0]
  /\ snap' = [d \in Desks |-> FirstLedger]
  /\ mutexCurrent' = [d \in Desks |-> FALSE]
  /\ verdict' = [d \in Desks |-> "none"]
  /\ held' = [d \in Desks |-> {}]
  /\ heldQty' = [d \in Desks |-> [s \in Signals |-> 0]]
  /\ UNCHANGED <<ledger, today>>

\* IST midnight.  A call lasts about a second at most; none straddles midnight.
NextDay ==
  /\ today < MaxDay
  /\ \A d \in Desks : pc[d] \in {"down", "idle"}
  /\ today' = today + 1
  /\ UNCHANGED <<ledger, threadVars, txVars, memoryVars>>

\* The steps a desk's own thread takes once it is in a constructor or a call.
Step(d) ==
  \/ HydrateActiveState(d) \/ HydrateRaises(d)
  \/ Begin(d) \/ AttachConflict(d) \/ UpdateMutex(d) \/ WriteConflict(d)
  \/ TransactionFails(d)
  \/ SignalReplay(d) \/ DuplicateDbLocked(d) \/ AdmitSignal(d) \/ RejectSignal(d)
  \/ RecordReturns(d)
  \/ \E s \in due[d] : ZeroQuantity(d, s) \/ \E pnl \in Pnl : ClosePosition(d, s, pnl)
  \/ DecideClose(d) \/ CloseRefused(d) \/ CloseReturns(d)
  \/ Commit(d)

Next ==
  \/ \E d \in Desks :
       \/ InitDb(d)
       \/ \E s \in Signals : RecordSignal(d, s)
       \/ \E exits \in SUBSET held[d] : EvaluateOpenPositions(d, exits)
       \/ Step(d)
  \/ Crash
  \/ NextDay

Spec == Init /\ [][Next]_vars

\* A thread inside a call keeps running.
FairSpec == Spec /\ \A d \in Desks : WF_vars(Step(d))
-----------------------------------------------------------------------------
(***************************************************************************)
(* Properties                                                              *)
(***************************************************************************)

\* Every variable keeps its type.
TypeOK ==
  /\ ledger \in Ledgers
  /\ today \in Days
  /\ mutexOwner \in Desks \cup {NoDesk}
  /\ pc \in [Desks -> Locations]
  /\ call \in [Desks -> Calls]
  /\ due \in [Desks -> SUBSET Signals]
  /\ tries \in [Desks -> 0..(TransactionRetries - 1)]
  /\ snap \in [Desks -> Ledgers]
  /\ mutexCurrent \in [Desks -> BOOLEAN]
  /\ verdict \in [Desks -> Verdicts]
  /\ held \in [Desks -> SUBSET Signals]
  /\ heldQty \in [Desks -> [Signals -> Nat]]

Up(d) == pc[d] \notin {"down", "hydrate"}

\* At most one OPEN row per instrument, whatever desks, retries and crashes do:
\* the promise of open_instrument_locks.
OneOpenPerInstrument ==
  \A s, t \in Open(ledger) : InstrumentOf[s] = InstrumentOf[t] => s = t

\* The lock table and the OPEN rows tell the same story as soon as a desk has
\* run _init_db: a lock never outlives its position, a position never loses
\* its lock.
LocksMirrorOpenRows ==
  (\E d \in Desks : pc[d] # "down") =>
    \A i \in Instruments, s \in Signals :
      ledger.lock[i] = s <=> s \in Open(ledger) /\ InstrumentOf[s] = i

\* The desk that owns the mutex row decides on the database as it still is
\* when it commits: the snapshot it read has not been overtaken.
OwnerReadsPresent ==
  \A d \in Desks : mutexOwner = d => snap[d] = ledger

\* No OPEN position is orphaned: while the process runs some desk has it in
\* active_positions, or is returning from the COMMIT that opened it.
NoOrphanPosition ==
  (\E d \in Desks : Up(d)) =>
    \A s \in Open(ledger) :
      \E d \in Desks :
        /\ Up(d)
        /\ \/ s \in held[d]
           \/ pc[d] = "return" /\ call[d].sig = s /\ verdict[d] = "OPEN"

\* A desk that has the database to itself, as in production, agrees with the
\* ledger exactly on which positions are open whenever no COMMIT is being
\* returned, whatever was replayed, rolled back, retried or restarted before.
\* (A second desk that closes a position leaves the first one's entry stale.)
MemoryMirrorsLedger ==
  \A d \in Desks :
    (/\ Up(d) /\ pc[d] # "return"
     /\ \A e \in Desks \ {d} : ~Up(e)) => held[d] = Open(ledger)

\* What order_desk.py:369 says of a replayed signal ("Ignored existing
\* signal"): the position in memory keeps the quantity the ledger has.
ReplayIgnored ==
  \A d \in Desks : \A s \in held[d] : heldQty[d][s] = Quantity[s]

\* The desks implement the atomic book: rows only move forward, nothing is
\* closed twice, every admission respects the limits of the ledger it is
\* committed to.
Book == INSTANCE PaperBook WITH
          status <- ledger.status, net <- ledger.net, closedOn <- ledger.closedOn
BookSpec == Book!Spec

\* The retry loop ends whatever the other desks do: no call contends forever.
CallsReturn ==
  \A d \in Desks : pc[d] \in {"begin", "scan"} ~> pc[d] \in {"idle", "down"}
=============================================================================
