------------------------- MODULE PaperRuntimeProofs -------------------------
(***************************************************************************)
(* What the lock file makes of the ledger's unprotected SELECTs, for every *)
(* number of processes, fills and symbols and every length of a day: that  *)
(* the runtime implements the account, and what the account promises.      *)
(***************************************************************************)
EXTENDS PaperRuntime, SetLemmas

\* The part of TypeOK the argument needs.  It leaves out whatever is computed
\* by a sum over a set.
StateTypeOK ==
  /\ position \in [Fills -> PositionStatus]
  /\ trades \in [Fills -> Nat]
  /\ lockHolder \in Processes \cup {Nobody}
  /\ pc \in [Processes -> Phases]
  /\ cycleNow \in [Processes -> Nat]
  /\ slot \in Nat /\ today \in Nat
  /\ todo \in [Processes -> SUBSET Fills]
  /\ failed \in [Processes -> SUBSET Fills]
  /\ hand \in [Processes -> Fills \cup {Nobody}]

\* A process is up if and only if it holds the lock.
OnlyHolderRuns == \A p \in Processes : pc[p] # "down" <=> lockHolder = p

\* What a process has read of the fill in its hand is still so when it writes.
HandIsCurrent ==
  \A p \in Processes :
    /\ pc[p] = "closing" => hand[p] \in Fills /\ position[hand[p]] = "OPEN"
    /\ pc[p] = "reserving" => hand[p] \in Fills
    /\ pc[p] = "opening" =>
         /\ hand[p] \in Fills
         /\ position[hand[p]] = "NONE"
         /\ ~SymbolIsOpen(SymbolOf[hand[p]])

\* During a mandatory sweep every open position is still to be looked at or
\* has failed.
SweepCovers ==
  \A p \in Processes :
    pc[p] \in {"exits", "closing"} /\ SlotOf(cycleNow[p]) >= MandatoryExit =>
      OpenPositions \subseteq todo[p] \cup failed[p]

\* The inductive invariant.
IInv ==
  /\ StateTypeOK
  /\ OnlyHolderRuns
  /\ HandIsCurrent
  /\ SweepCovers
  /\ OneOpenPerSymbol
  /\ TradesMatchClosures

USE DEF PositionStatus, Phases

LEMMA InvInit == RuntimeInit => IInv
  BY RuntimeAssumption
  DEF RuntimeInit, Init, IInv, StateTypeOK, OnlyHolderRuns, HandIsCurrent,
      SweepCovers, OneOpenPerSymbol, TradesMatchClosures, OpenPositions

LEMMA TypeStep == StateTypeOK /\ HandIsCurrent /\ [RuntimeNext]_vars => StateTypeOK'
<1> SUFFICES ASSUME StateTypeOK, HandIsCurrent, [RuntimeNext]_vars PROVE StateTypeOK'
  OBVIOUS
<1> USE DEF StateTypeOK, Goto, OpenPositions
<1>1. ASSUME NEW p \in Processes, Launch(p) PROVE StateTypeOK'
  BY <1>1 DEF Launch, cycle, accountVars, ledger
<1>2. ASSUME NEW p \in Processes, Crash(p) PROVE StateTypeOK'
  BY <1>2 DEF Crash, ForgetCycle, accountVars, ledger
<1>3. ASSUME NEW p \in Processes, BeginCycle(p) PROVE StateTypeOK'
  <2>1. Now \in Nat
    BY RuntimeAssumption DEF Now
  <2>2. QED BY <1>3, <2>1 DEF BeginCycle, accountVars, ledger
<1>4. ASSUME NEW p \in Processes, NEW f \in Fills,
             KeepPosition(p, f) \/ StartClose(p, f) \/ ExitFails(p, f) \/ StartOpen(p, f)
      PROVE  StateTypeOK'
  BY <1>4 DEF KeepPosition, StartClose, ExitFails, StartOpen, accountVars, ledger
<1>5. ASSUME NEW p \in Processes, NEW result \in Results, CommitClose(p, result)
      PROVE  StateTypeOK'
  <2> DEFINE f == hand[p]
  <2>1. f \in Fills
    BY <1>5 DEF CommitClose, HandIsCurrent
  <2>2. position' \in [Fills -> PositionStatus] /\ trades' \in [Fills -> Nat]
    BY <1>5, <2>1 DEF CommitClose
  <2>3. QED BY <1>5, <2>2 DEF CommitClose
<1>6. ASSUME NEW p \in Processes, EndExits(p) PROVE StateTypeOK'
  BY <1>6 DEF EndExits, ForgetCycle, accountVars, ledger
<1>7. ASSUME NEW p \in Processes,
             Scan(p) \/ ReadCapital(p) \/ \E s \in Symbols : RejectCandidate(p, s)
      PROVE  StateTypeOK'
  BY <1>7 DEF Scan, ReadCapital, RejectCandidate, accountVars, ledger
<1>8. ASSUME NEW p \in Processes, CommitOpen(p) \/ ReserveFill(p) PROVE StateTypeOK'
  BY <1>8 DEF CommitOpen, ReserveFill, cycle, accountVars, ledger
<1>9. ASSUME NEW p \in Processes, EndCycle(p) \/ CycleRaises(p) PROVE StateTypeOK'
  BY <1>9 DEF EndCycle, CycleRaises, ForgetCycle, accountVars, ledger
<1>10. CASE Tick
  BY <1>10, RuntimeAssumption DEF Tick, NextDay, cycle, accountVars, ledger
<1>11. CASE UNCHANGED vars
  BY <1>11 DEF vars, cycle, accountVars, ledger
<1>12. QED
  BY <1>1, <1>2, <1>3, <1>4, <1>5, <1>6, <1>7, <1>8, <1>9, <1>10, <1>11
  DEF RuntimeNext, Step

\* Exactly the actions of the process that is up can happen besides Launch.
LEMMA Alone ==
  ASSUME OnlyHolderRuns, NEW p \in Processes, pc[p] # "down"
  PROVE  \A q \in Processes : q # p => pc[q] = "down"
  BY DEF OnlyHolderRuns

LEMMA LockStep ==
  StateTypeOK /\ OnlyHolderRuns /\ [RuntimeNext]_vars => OnlyHolderRuns'
<1> SUFFICES ASSUME StateTypeOK, OnlyHolderRuns, [RuntimeNext]_vars
             PROVE  OnlyHolderRuns'
  OBVIOUS
<1> USE DEF StateTypeOK, OnlyHolderRuns, Goto
<1>1. ASSUME NEW p \in Processes, Launch(p) PROVE OnlyHolderRuns'
  BY <1>1, RuntimeAssumption DEF Launch, LockFree
<1>2. ASSUME NEW p \in Processes, Crash(p) PROVE OnlyHolderRuns'
  BY <1>2, RuntimeAssumption DEF Crash
<1>3. ASSUME NEW p \in Processes, BeginCycle(p) \/ Step(p) PROVE OnlyHolderRuns'
  <2>1. pc[p] # "down" /\ lockHolder' = lockHolder
    BY <1>3 DEF BeginCycle, Step, KeepPosition, StartClose, ExitFails,
       CommitClose, EndExits, Scan, ReadCapital, RejectCandidate, StartOpen,
       CommitOpen, ReserveFill, EndCycle, CycleRaises
  <2>2. \E phase \in Phases \ {"down"} : pc' = [pc EXCEPT ![p] = phase]
    <3>1. CASE \E f \in Fills : KeepPosition(p, f)
      BY <3>1 DEF KeepPosition
    <3>2. CASE EndExits(p)
      BY <3>2 DEF EndExits
    <3>3. CASE BeginCycle(p) \/ \E f \in Fills : StartClose(p, f) \/ ExitFails(p, f)
      BY <3>3 DEF BeginCycle, StartClose, ExitFails
    <3>4. CASE \E result \in Results : CommitClose(p, result)
      BY <3>4 DEF CommitClose
    <3>5. CASE Scan(p) \/ ReadCapital(p) \/ \E s \in Symbols : RejectCandidate(p, s)
      BY <3>5 DEF Scan, ReadCapital, RejectCandidate
    <3>6. CASE CommitOpen(p) \/ ReserveFill(p) \/ \E f \in Fills : StartOpen(p, f)
      BY <3>6 DEF CommitOpen, ReserveFill, StartOpen
    <3>7. CASE EndCycle(p) \/ CycleRaises(p)
      BY <3>7 DEF EndCycle, CycleRaises
    <3>8. QED BY <1>3, <3>1, <3>2, <3>3, <3>4, <3>5, <3>6, <3>7 DEF Step
  <2>3. QED BY <2>1, <2>2
<1>4. CASE Tick \/ UNCHANGED vars
  BY <1>4 DEF Tick, vars
<1>5. QED BY <1>1, <1>2, <1>3, <1>4 DEF RuntimeNext

\* The hand of a process that is not between a SELECT and its transaction
\* matters to nobody.
LEMMA HandStep == IInv /\ [RuntimeNext]_vars => HandIsCurrent'
<1> SUFFICES ASSUME IInv, [RuntimeNext]_vars PROVE HandIsCurrent'
  OBVIOUS
<1> USE DEF IInv, StateTypeOK, HandIsCurrent, Goto
<1>1. ASSUME NEW p \in Processes, Launch(p) PROVE HandIsCurrent'
  BY <1>1 DEF Launch, cycle, accountVars, ledger, SymbolIsOpen, OpenPositions
<1>2. ASSUME NEW p \in Processes, pc[p] # "down",
             pc' = [pc EXCEPT ![p] = pc'[p]],
             pc'[p] \notin {"closing", "opening", "reserving"}
      PROVE  HandIsCurrent'
  BY <1>2, Alone
<1>3. ASSUME NEW p \in Processes, NEW f \in Fills, StartClose(p, f)
      PROVE  HandIsCurrent'
  BY <1>3, Alone DEF StartClose, accountVars, ledger
<1>4. ASSUME NEW p \in Processes, NEW f \in Fills, StartOpen(p, f)
      PROVE  HandIsCurrent'
  BY <1>4, Alone DEF StartOpen, accountVars, ledger, SymbolIsOpen, OpenPositions
<1>5. ASSUME NEW p \in Processes, NEW f \in Fills, KeepPosition(p, f)
      PROVE  HandIsCurrent'
  BY <1>5, <1>2 DEF KeepPosition
<1>6. ASSUME NEW p \in Processes, NEW f \in Fills, ExitFails(p, f)
      PROVE  HandIsCurrent'
  BY <1>6, <1>2 DEF ExitFails
<1>7. ASSUME NEW p \in Processes, NEW result \in Results, CommitClose(p, result)
      PROVE  HandIsCurrent'
  BY <1>7, <1>2 DEF CommitClose
<1>8. ASSUME NEW p \in Processes,
             Scan(p) \/ ReadCapital(p) \/ \E s \in Symbols : RejectCandidate(p, s)
      PROVE  HandIsCurrent'
  BY <1>8, <1>2 DEF Scan, ReadCapital, RejectCandidate
<1>9. ASSUME NEW p \in Processes,
             \/ Crash(p) \/ BeginCycle(p) \/ EndExits(p)
             \/ ReserveFill(p) \/ EndCycle(p) \/ CycleRaises(p)
      PROVE  HandIsCurrent'
  BY <1>9, <1>2 DEF Crash, BeginCycle, EndExits, ReserveFill, EndCycle, CycleRaises
<1>10. ASSUME NEW p \in Processes, CommitOpen(p) PROVE HandIsCurrent'
  BY <1>10, Alone DEF CommitOpen, cycle
<1>11. CASE Tick \/ UNCHANGED vars
  BY <1>11 DEF Tick, NextDay, vars, cycle, accountVars, ledger, SymbolIsOpen,
     OpenPositions
<1>12. QED
  BY <1>1, <1>3, <1>4, <1>5, <1>6, <1>7, <1>8, <1>9, <1>10, <1>11 DEF RuntimeNext, Step

LEMMA SweepStep == IInv /\ [RuntimeNext]_vars => SweepCovers'
<1> SUFFICES ASSUME IInv, [RuntimeNext]_vars PROVE SweepCovers'
  OBVIOUS
<1> USE DEF IInv, StateTypeOK, SweepCovers, Goto
<1>1. ASSUME NEW p \in Processes, Launch(p) PROVE SweepCovers'
  BY <1>1 DEF Launch, cycle, accountVars, ledger, OpenPositions
<1>2. ASSUME NEW p \in Processes, pc[p] # "down",
             pc' = [pc EXCEPT ![p] = pc'[p]],
             pc'[p] \notin {"exits", "closing"}
      PROVE  SweepCovers'
  BY <1>2, Alone
<1>3. ASSUME NEW p \in Processes, BeginCycle(p) PROVE SweepCovers'
  BY <1>3, Alone DEF BeginCycle, accountVars, ledger, OpenPositions
<1>4. ASSUME NEW p \in Processes, NEW f \in Fills, KeepPosition(p, f)
      PROVE  SweepCovers'
  BY <1>4, Alone DEF KeepPosition, TimeExit
<1>5. ASSUME NEW p \in Processes, NEW f \in Fills, StartClose(p, f)
      PROVE  SweepCovers'
  BY <1>5, Alone DEF StartClose, accountVars, ledger, OpenPositions
<1>6. ASSUME NEW p \in Processes, NEW f \in Fills, ExitFails(p, f)
      PROVE  SweepCovers'
  BY <1>6, Alone DEF ExitFails, accountVars, ledger, OpenPositions
<1>7. ASSUME NEW p \in Processes, NEW result \in Results, CommitClose(p, result)
      PROVE  SweepCovers'
  <2>1. OpenPositions' = OpenPositions \ {hand[p]}
    BY <1>7 DEF CommitClose, OpenPositions, HandIsCurrent
  <2>2. QED BY <1>7, <2>1, Alone DEF CommitClose
<1>8. ASSUME NEW p \in Processes,
             \/ Scan(p) \/ ReadCapital(p)
             \/ \E s \in Symbols : RejectCandidate(p, s)
             \/ \E f \in Fills : StartOpen(p, f)
      PROVE  SweepCovers'
  BY <1>8, <1>2 DEF Scan, ReadCapital, RejectCandidate, StartOpen
<1>9. ASSUME NEW p \in Processes,
             \/ Crash(p) \/ EndExits(p)
             \/ CommitOpen(p) \/ ReserveFill(p) \/ EndCycle(p) \/ CycleRaises(p)
      PROVE  SweepCovers'
  BY <1>9, <1>2 DEF Crash, EndExits, CommitOpen, ReserveFill, EndCycle, CycleRaises
<1>10. CASE Tick \/ UNCHANGED vars
  BY <1>10 DEF Tick, NextDay, vars, cycle, accountVars, ledger, OpenPositions
<1>11. QED
  BY <1>1, <1>3, <1>4, <1>5, <1>6, <1>7, <1>8, <1>9, <1>10 DEF RuntimeNext, Step

\* The three things a step can do to the positions and their trades.
LEMMA LedgerStep ==
  ASSUME IInv, [RuntimeNext]_vars
  PROVE  \/ UNCHANGED <<position, trades>>
         \/ \E f \in Fills :
              /\ position[f] = "OPEN"
              /\ position' = [position EXCEPT ![f] = "CLOSED"]
              /\ trades' = [trades EXCEPT ![f] = @ + 1]
         \/ \E f \in Fills :
              /\ position[f] = "NONE"
              /\ ~SymbolIsOpen(SymbolOf[f])
              /\ position' = [position EXCEPT ![f] = "OPEN"]
              /\ UNCHANGED trades
<1> USE DEF IInv, HandIsCurrent
<1>1. ASSUME NEW p \in Processes, Launch(p) \/ Crash(p) \/ BeginCycle(p)
      PROVE  UNCHANGED <<position, trades>>
  BY <1>1 DEF Launch, Crash, BeginCycle, accountVars, ledger
<1>2. ASSUME NEW p \in Processes, NEW f \in Fills,
             KeepPosition(p, f) \/ StartClose(p, f) \/ ExitFails(p, f) \/ StartOpen(p, f)
      PROVE  UNCHANGED <<position, trades>>
  BY <1>2 DEF KeepPosition, StartClose, ExitFails, StartOpen, accountVars, ledger
<1>3. ASSUME NEW p \in Processes,
             \/ EndExits(p) \/ Scan(p) \/ ReadCapital(p) \/ ReserveFill(p) \/ EndCycle(p)
             \/ CycleRaises(p) \/ \E s \in Symbols : RejectCandidate(p, s)
      PROVE  UNCHANGED <<position, trades>>
  BY <1>3 DEF EndExits, Scan, ReadCapital, ReserveFill, EndCycle, CycleRaises,
     RejectCandidate, accountVars, ledger
<1>4. CASE Tick \/ UNCHANGED vars
  BY <1>4 DEF Tick, NextDay, vars, accountVars, ledger
<1>5. ASSUME NEW p \in Processes, NEW result \in Results, CommitClose(p, result)
      PROVE  \E f \in Fills :
               /\ position[f] = "OPEN"
               /\ position' = [position EXCEPT ![f] = "CLOSED"]
               /\ trades' = [trades EXCEPT ![f] = @ + 1]
  <2>1. hand[p] \in Fills /\ position[hand[p]] = "OPEN"
    BY <1>5 DEF CommitClose
  <2>2. QED BY <1>5, <2>1 DEF CommitClose
<1>6. ASSUME NEW p \in Processes, CommitOpen(p)
      PROVE  \E f \in Fills :
               /\ position[f] = "NONE"
               /\ ~SymbolIsOpen(SymbolOf[f])
               /\ position' = [position EXCEPT ![f] = "OPEN"]
               /\ UNCHANGED trades
  <2>1. hand[p] \in Fills /\ ~SymbolIsOpen(SymbolOf[hand[p]])
    BY <1>6 DEF CommitOpen
  <2>2. QED BY <1>6, <2>1 DEF CommitOpen
<1>7. QED BY <1>1, <1>2, <1>3, <1>4, <1>5, <1>6 DEF RuntimeNext, Step

LEMMA AccountStep ==
  IInv /\ [RuntimeNext]_vars => OneOpenPerSymbol' /\ TradesMatchClosures'
<1> SUFFICES ASSUME IInv, [RuntimeNext]_vars
             PROVE  OneOpenPerSymbol' /\ TradesMatchClosures'
  OBVIOUS
<1> USE DEF IInv, StateTypeOK, OneOpenPerSymbol, TradesMatchClosures, OpenPositions
<1>1. CASE UNCHANGED <<position, trades>>
  BY <1>1
<1>2. ASSUME NEW f \in Fills, position[f] = "OPEN",
             position' = [position EXCEPT ![f] = "CLOSED"],
             trades' = [trades EXCEPT ![f] = @ + 1]
      PROVE  OneOpenPerSymbol' /\ TradesMatchClosures'
  <2>1. trades'[f] = 1
    BY <1>2
  <2>2. QED BY <1>2, <2>1
<1>3. ASSUME NEW f \in Fills, position[f] = "NONE", ~SymbolIsOpen(SymbolOf[f]),
             position' = [position EXCEPT ![f] = "OPEN"], UNCHANGED trades
      PROVE  OneOpenPerSymbol' /\ TradesMatchClosures'
  <2>1. OneOpenPerSymbol'
    BY <1>3 DEF SymbolIsOpen
  <2>2. TradesMatchClosures'
    BY <1>3
  <2>3. QED BY <2>1, <2>2
<1>4. QED BY <1>1, <1>2, <1>3, LedgerStep

\* Processes, lock, hand, sweep and ledger stay consistent throughout.
THEOREM Invariance == RuntimeSpec => []IInv
<1>1. RuntimeInit => IInv
  BY InvInit
<1>2. IInv /\ [RuntimeNext]_vars => IInv'
  BY TypeStep, LockStep, HandStep, SweepStep, AccountStep DEF IInv
<1>3. QED BY <1>1, <1>2, PTL DEF RuntimeSpec

\* At most one process runs cycles (run_paper_runtime.py:31-38), whoever dies
\* at whatever moment.
OneProcessRuns == \A p, q \in Processes : pc[p] # "down" /\ pc[q] # "down" => p = q

THEOREM OneRuntimeAtATime == RuntimeSpec => []OneProcessRuns
<1>1. IInv => OneProcessRuns
  BY DEF IInv, OnlyHolderRuns, OneProcessRuns
<1>2. QED BY Invariance, <1>1, PTL

\* No symbol is ever bought twice, although open_fill looks before its
\* transaction begins.
THEOREM OneOpenPositionPerSymbol == RuntimeSpec => []OneOpenPerSymbol
<1>1. IInv => OneOpenPerSymbol
  BY DEF IInv
<1>2. QED BY Invariance, <1>1, PTL

\* Every closed position has exactly one trade and no other has any.
THEOREM EveryCloseIsBookedOnce == RuntimeSpec => []TradesMatchClosures
<1>1. IInv => TradesMatchClosures
  BY DEF IInv
<1>2. QED BY Invariance, <1>1, PTL

\* A mandatory sweep that gets through leaves only positions whose own exit failed
\* within its try block (paper_runtime.py:630-661); one that an exception outside
\* of it aborts promises nothing.
THEOREM SweepIsComplete == RuntimeSpec => []SweepLeavesOnlyFailures
<1>1. IInv => SweepLeavesOnlyFailures
  BY DEF IInv, SweepCovers, SweepLeavesOnlyFailures
<1>2. QED BY Invariance, <1>1, PTL
-----------------------------------------------------------------------------
\* A time is a number of days and a slot.
LEMMA SlotSplit ==
  ASSUME NEW t \in Nat, NEW n \in Nat \ {0}
  PROVE  t = n * (t \div n) + (t % n) /\ t \div n \in Nat /\ t % n \in 0..(n - 1)
  OBVIOUS

LEMMA SlotUnique ==
  ASSUME NEW q \in Nat, NEW n \in Nat \ {0}, NEW r \in 0..(n - 1)
  PROVE  (n * q + r) % n = r
  OBVIOUS

\* Adding to a time moves its slot as long as it stays within the day.
LEMMA SlotAdd ==
  ASSUME NEW t \in Nat, NEW d \in Nat, NEW n \in Nat \ {0}, (t % n) + d < n
  PROVE  (t + d) % n = (t % n) + d
<1> DEFINE q == t \div n  r == t % n
<1>1. q \in Nat /\ r \in 0..(n - 1) /\ t = n * q + r
  BY SlotSplit
<1>2. r + d \in 0..(n - 1)
  BY <1>1
<1> HIDE DEF q, r
<1>3. (n * q + (r + d)) % n = r + d
  BY <1>1, <1>2, SlotUnique
<1>4. n * q \in Nat
  BY <1>1
<1>5. t + d = n * q + (r + d)
  BY <1>1, <1>4
<1>6. QED BY <1>3, <1>5 DEF r

\* A cycle never runs longer than CycleSlots, and enters positions only if it
\* began in the entry window.
ClockTypeOK ==
  /\ slot \in 0..(Slots - 1)
  /\ today \in Nat
  /\ openedAt \in [Fills -> Nat]
  /\ cycleNow \in [Processes -> Nat]

CyclesInTime ==
  \A p \in Processes :
    /\ Busy(p) => cycleNow[p] <= Now /\ Now <= cycleNow[p] + CycleSlots
    /\ pc[p] \in {"scan", "rank", "entries", "opening", "reserving"} =>
         EntryWindow(cycleNow[p])

TimeInv == ClockTypeOK /\ CyclesInTime /\ NoLateEntry

LEMMA NowIsNat == ClockTypeOK => Now \in Nat
  BY RuntimeAssumption DEF ClockTypeOK, Now

LEMMA SlotsPositive == Slots \in Nat \ {0}
  BY RuntimeAssumption

LEMMA TimeInit == RuntimeInit => TimeInv
<1> SUFFICES ASSUME RuntimeInit PROVE TimeInv
  OBVIOUS
<1>1. SlotOf(0) = 0
  BY SlotsPositive DEF SlotOf
<1>2. ClockTypeOK
  BY SlotsPositive DEF RuntimeInit, Init, ClockTypeOK
<1>3. CyclesInTime
  BY DEF RuntimeInit, CyclesInTime, Busy
<1>4. NoLateEntry
  BY <1>1, RuntimeAssumption DEF RuntimeInit, NoLateEntry
<1>5. QED BY <1>2, <1>3, <1>4 DEF TimeInv

\* What is entered during a cycle that began in the entry window is entered
\* before the mandatory exit.
LEMMA EntryIsInTime ==
  ASSUME NEW t \in Nat, NEW u \in Nat, EntryWindow(t), t <= u, u <= t + CycleSlots
  PROVE  SlotOf(u) < MandatoryExit
<1> DEFINE d == u - t
<1>1. d \in Nat /\ u = t + d /\ d < Horizon
  BY RuntimeAssumption
<1>2. t % Slots \in Nat
  BY SlotsPositive
<1>3. (t % Slots) + d < MandatoryExit /\ MandatoryExit < Slots
  BY <1>1, <1>2, RuntimeAssumption DEF EntryWindow, SlotOf
<1>4. (t + d) % Slots = (t % Slots) + d
  BY <1>1, <1>2, <1>3, SlotsPositive, SlotAdd, RuntimeAssumption
<1>5. QED BY <1>1, <1>3, <1>4 DEF SlotOf

\* The clock advances by one slot.
LEMMA NowAdvances ==
  ASSUME ClockTypeOK, Tick
  PROVE  Now' = Now + 1 /\ slot' \in 0..(Slots - 1) /\ today' \in Nat
<1>1. CASE slot < Slots - 1
  BY <1>1, SlotsPositive DEF ClockTypeOK, Tick, Now, accountVars
<1>2. CASE ~(slot < Slots - 1)
  <2>1. slot = Slots - 1 /\ slot' = 0 /\ today' = today + 1
    BY <1>2, SlotsPositive DEF ClockTypeOK, Tick, NextDay
  <2>2. (today + 1) * Slots = today * Slots + Slots
    BY SlotsPositive DEF ClockTypeOK
  <2>3. today * Slots \in Nat
    BY SlotsPositive DEF ClockTypeOK
  <2>4. QED BY <2>1, <2>2, <2>3, SlotsPositive DEF ClockTypeOK, Now
<1>3. QED BY <1>1, <1>2

LEMMA TimeStep == StateTypeOK /\ HandIsCurrent /\ TimeInv /\ [RuntimeNext]_vars => TimeInv'
<1> SUFFICES ASSUME StateTypeOK, HandIsCurrent, TimeInv, [RuntimeNext]_vars
             PROVE  TimeInv'
  OBVIOUS
<1> USE DEF TimeInv, ClockTypeOK, CyclesInTime, NoLateEntry, Goto, StateTypeOK, Busy
<1>0. Now \in Nat
  BY NowIsNat
\* Every action but Tick leaves the clock alone; those that end a cycle or
\* leave it in the exits owe nothing but that.
<1>1. ASSUME NEW p \in Processes, UNCHANGED <<slot, today, openedAt, cycleNow>>,
             pc' = [pc EXCEPT ![p] = pc'[p]],
             pc'[p] \notin {"down", "idle"} => Busy(p),
             pc'[p] \in {"scan", "rank", "entries", "opening", "reserving"} =>
               EntryWindow(cycleNow[p])
      PROVE  TimeInv'
  BY <1>1 DEF Now
<1>2. ASSUME NEW p \in Processes, UNCHANGED <<slot, today, openedAt>>,
             pc' = [pc EXCEPT ![p] = pc'[p]], ForgetCycle(p),
             pc'[p] \in {"down", "idle"}
      PROVE  TimeInv'
  BY <1>2 DEF Now, ForgetCycle
<1>3. ASSUME NEW p \in Processes, Launch(p) PROVE TimeInv'
  BY <1>3, <1>1 DEF Launch, cycle, accountVars
<1>4. ASSUME NEW p \in Processes, Crash(p) \/ EndCycle(p) \/ CycleRaises(p)
      PROVE  TimeInv'
  BY <1>4, <1>2 DEF Crash, EndCycle, CycleRaises, accountVars
<1>5. ASSUME NEW p \in Processes, BeginCycle(p) PROVE TimeInv'
  <2>1. UNCHANGED <<slot, today, openedAt>> /\ Now' = Now
    BY <1>5 DEF BeginCycle, accountVars, Now
  <2>2. cycleNow' = [cycleNow EXCEPT ![p] = Now] /\ pc' = [pc EXCEPT ![p] = "exits"]
    BY <1>5 DEF BeginCycle
  <2>3. CyclesInTime'
    BY <1>0, <2>1, <2>2, RuntimeAssumption
  <2>4. QED BY <1>0, <2>1, <2>2, <2>3
<1>6. ASSUME NEW p \in Processes, NEW f \in Fills,
             KeepPosition(p, f) \/ StartClose(p, f) \/ ExitFails(p, f)
      PROVE  TimeInv'
  BY <1>6, <1>1 DEF KeepPosition, StartClose, ExitFails, accountVars
<1>7. ASSUME NEW p \in Processes, NEW result \in Results, CommitClose(p, result)
      PROVE  TimeInv'
  BY <1>7, <1>1 DEF CommitClose
<1>8. ASSUME NEW p \in Processes, EndExits(p) PROVE TimeInv'
  <2>1. CASE EntryWindow(cycleNow[p])
    BY <1>8, <2>1, <1>1 DEF EndExits, accountVars
  <2>2. CASE ~EntryWindow(cycleNow[p])
    BY <1>8, <2>2, <1>2 DEF EndExits, accountVars
  <2>3. QED BY <2>1, <2>2
<1>9. ASSUME NEW p \in Processes,
             \/ Scan(p) \/ ReadCapital(p) \/ ReserveFill(p)
             \/ \E s \in Symbols : RejectCandidate(p, s)
             \/ \E f \in Fills : StartOpen(p, f)
      PROVE  TimeInv'
  BY <1>9, <1>1 DEF Scan, ReadCapital, ReserveFill, RejectCandidate, StartOpen, accountVars
<1>10. ASSUME NEW p \in Processes, CommitOpen(p) PROVE TimeInv'
  <2>1. hand[p] \in Fills /\ pc[p] = "opening" /\ UNCHANGED <<slot, today, cycleNow>>
    BY <1>10 DEF CommitOpen, HandIsCurrent, cycle
  <2>2. openedAt' = [openedAt EXCEPT ![hand[p]] = Now] /\ pc' = [pc EXCEPT ![p] = "reserving"]
    BY <1>10 DEF CommitOpen
  <2>3. SlotOf(Now) < MandatoryExit
    BY <1>0, <2>1, EntryIsInTime
  <2>4. NoLateEntry'
    BY <2>2, <2>3
  <2>5. Now' = Now
    BY <2>1 DEF Now
  <2>6. CyclesInTime'
    BY <2>1, <2>2, <2>5
  <2>7. QED BY <1>0, <2>1, <2>2, <2>4, <2>6
<1>11. CASE Tick
  <2>1. Now' = Now + 1 /\ slot' \in 0..(Slots - 1) /\ today' \in Nat
    BY <1>11, NowAdvances
  <2>2. UNCHANGED <<pc, cycleNow, openedAt>>
    BY <1>11 DEF Tick, cycle
  <2>3. CyclesInTime'
    BY <1>11, <1>0, <2>1, <2>2, RuntimeAssumption DEF Tick
  <2>4. QED BY <2>1, <2>2, <2>3
<1>12. CASE UNCHANGED vars
  BY <1>12 DEF vars, cycle, accountVars, Now
<1>13. QED
  BY <1>3, <1>4, <1>5, <1>6, <1>7, <1>8, <1>9, <1>10, <1>11, <1>12
  DEF RuntimeNext, Step

\* Nothing is entered from 15:10 on, as long as a cycle is shorter than the
\* horizon of a position (RuntimeAssumption).
THEOREM EntriesAreInTime == RuntimeSpec => []NoLateEntry
<1>1. RuntimeInit => TimeInv
  BY TimeInit
<1>2. IInv /\ TimeInv /\ [RuntimeNext]_vars => TimeInv'
  BY TimeStep DEF IInv
<1>3. TimeInv => NoLateEntry
  BY DEF TimeInv
<1>4. QED BY Invariance, <1>1, <1>2, <1>3, PTL DEF RuntimeSpec
-----------------------------------------------------------------------------
\* A cycle begins early enough to end on the day it began.
CyclesBeginInSession ==
  \A p \in Processes : Busy(p) => SlotOf(cycleNow[p]) < ExchangeClose

LEMMA SlotOfNow == ASSUME ClockTypeOK PROVE SlotOf(Now) = slot
<1>1. today \in Nat /\ slot \in 0..(Slots - 1)
  BY DEF ClockTypeOK
<1>2. (Slots * today + slot) % Slots = slot
  BY <1>1, SlotsPositive, SlotUnique
<1>3. Slots * today = today * Slots
  BY <1>1, SlotsPositive
<1>4. QED BY <1>2, <1>3 DEF SlotOf, Now

LEMMA SessionInit == RuntimeInit => CyclesBeginInSession
  BY DEF RuntimeInit, CyclesBeginInSession, Busy

LEMMA SessionStep ==
  ASSUME StateTypeOK, TimeInv, CyclesBeginInSession, [RuntimeNext]_vars
  PROVE  CyclesBeginInSession'
<1> USE DEF StateTypeOK, CyclesBeginInSession, Goto, Busy
<1>1. ASSUME NEW p \in Processes, UNCHANGED cycleNow,
             pc' = [pc EXCEPT ![p] = pc'[p]],
             pc'[p] \notin {"down", "idle"} => pc[p] \notin {"down", "idle"}
      PROVE  CyclesBeginInSession'
  BY <1>1
<1>2. ASSUME NEW p \in Processes, Launch(p) PROVE CyclesBeginInSession'
  BY <1>2, <1>1 DEF Launch, cycle
<1>3. ASSUME NEW p \in Processes, Crash(p) \/ EndCycle(p) \/ CycleRaises(p)
      PROVE  CyclesBeginInSession'
  BY <1>3 DEF Crash, EndCycle, CycleRaises, ForgetCycle
<1>4. ASSUME NEW p \in Processes, BeginCycle(p) PROVE CyclesBeginInSession'
  <2>1. SlotOf(Now) < ExchangeClose
    BY <1>4, SlotOfNow DEF BeginCycle, TimeInv
  <2>2. QED BY <1>4, <2>1 DEF BeginCycle
<1>5. ASSUME NEW p \in Processes, NEW f \in Fills,
             KeepPosition(p, f) \/ StartClose(p, f) \/ ExitFails(p, f) \/ StartOpen(p, f)
      PROVE  CyclesBeginInSession'
  BY <1>5, <1>1 DEF KeepPosition, StartClose, ExitFails, StartOpen
<1>6. ASSUME NEW p \in Processes, NEW result \in Results, CommitClose(p, result)
      PROVE  CyclesBeginInSession'
  BY <1>6, <1>1 DEF CommitClose
<1>7. ASSUME NEW p \in Processes, EndExits(p) PROVE CyclesBeginInSession'
  <2>1. CASE EntryWindow(cycleNow[p])
    BY <1>7, <2>1, <1>1 DEF EndExits
  <2>2. CASE ~EntryWindow(cycleNow[p])
    BY <1>7, <2>2 DEF EndExits, ForgetCycle
  <2>3. QED BY <2>1, <2>2
<1>8. ASSUME NEW p \in Processes,
             \/ Scan(p) \/ ReadCapital(p) \/ CommitOpen(p) \/ ReserveFill(p)
             \/ \E s \in Symbols : RejectCandidate(p, s)
      PROVE  CyclesBeginInSession'
  BY <1>8, <1>1 DEF Scan, ReadCapital, RejectCandidate, CommitOpen, ReserveFill, cycle
<1>9. CASE Tick \/ UNCHANGED vars
  BY <1>9 DEF Tick, vars, cycle
<1>10. QED
  BY <1>2, <1>3, <1>4, <1>5, <1>6, <1>7, <1>8, <1>9 DEF RuntimeNext, Step

\* Days and slots of a time in one equation: at most one day fits.
LEMMA DayUnique ==
  ASSUME NEW n \in Nat \ {0}, NEW q \in Nat, NEW d \in Nat, NEW r \in Nat, NEW k \in Nat,
         NEW c \in Nat, r + c < n, k < n,
         n * q + r <= n * d + k, n * d + k <= n * q + r + c
  PROVE  q = d
<1> DEFINE e == d - q
<1>1. e \in Int /\ n * d = n * q + n * e
  OBVIOUS
<1>2. n * q \in Nat /\ n * e \in Int
  BY <1>1
<1> HIDE DEF e
<1>3. r <= n * e + k /\ n * e + k <= r + c
  BY <1>1, <1>2
<1>4. e >= 1 => n * e >= n
  BY <1>1
<1>5. e <= -1 => n * e <= -n
  BY <1>1
<1>6. e = 0
  BY <1>1, <1>2, <1>3, <1>4, <1>5
<1>7. QED BY <1>6 DEF e

\* The day a running cycle takes from its own time is today, and midnight does
\* not come before it ends.
LEMMA CycleDayIsToday ==
  ASSUME StateTypeOK, TimeInv, CyclesBeginInSession, NEW p \in Processes, Busy(p)
  PROVE  /\ cycleNow[p] \div Slots = today
         /\ Now < cycleNow[p] + CycleSlots => slot < Slots - 1
<1> DEFINE t == cycleNow[p]
           q == t \div Slots
           r == t % Slots
<1>1. /\ t \in Nat /\ today \in Nat /\ slot \in 0..(Slots - 1)
      /\ t <= Now /\ Now <= t + CycleSlots /\ r < ExchangeClose
  BY DEF TimeInv, ClockTypeOK, CyclesInTime, CyclesBeginInSession, SlotOf
<1> HIDE DEF t
<1>2. t = Slots * q + r /\ q \in Nat /\ r \in Nat
  <2>1. t \in Nat /\ Slots \in Nat \ {0}
    BY <1>1, SlotsPositive
  <2>2. t = Slots * q + r /\ q \in Nat /\ r \in 0..(Slots - 1)
    BY ONLY <2>1, SlotSplit
  <2>3. QED BY <2>1, <2>2
<1>3. r + CycleSlots < Slots /\ CycleSlots \in Nat /\ Slots \in Nat \ {0}
  BY <1>1, <1>2, RuntimeAssumption
<1>4. Now = Slots * today + slot /\ slot \in Nat /\ slot < Slots
  BY <1>1, <1>3 DEF Now
<1> HIDE DEF t, q, r
<1>5. Slots * q \in Nat /\ Slots * today \in Nat
  BY <1>1, <1>2, <1>3
<1>6. Slots * q + r <= Slots * today + slot /\ Slots * today + slot <= Slots * q + r + CycleSlots
  BY <1>1, <1>2, <1>3, <1>4, <1>5
<1>7. q = today
  BY <1>1, <1>2, <1>3, <1>4, <1>6, DayUnique
<1>8. ASSUME Now < t + CycleSlots PROVE slot < Slots - 1
  BY <1>1, <1>2, <1>3, <1>4, <1>5, <1>7, <1>8
<1>9. QED BY <1>7, <1>8 DEF t, q
-----------------------------------------------------------------------------
\* The rows a result can be in.
LedgerTypeOK ==
  /\ position \in [Fills -> PositionStatus]
  /\ trades \in [Fills -> Nat]
  /\ net \in [Fills -> Int]

LEMMA FillsFinite ==
  ASSUME NEW S \in SUBSET Fills
  PROVE  IsFiniteSet(S)
  BY AccountAssumption, FS_Subset

\* What the ledger answers, as sums over columns.
LEMMA CapitalSums ==
  /\ OpenRisk = SetSum(Risk, OpenPositions)
  /\ OpenCapital = SetSum(Paid, OpenPositions)
  /\ Equity = StartingEquity + ProductSum(net, trades, Traded)
  /\ \A day : RealisedOn(day) = ProductSum(net, trades, {f \in Traded : closedOn[f] = day})
<1>1. OpenRisk = SetSum(Risk, OpenPositions)
  BY DEF OpenRisk, SetSum, MapThenSumSet, MapThenFoldSet
<1>2. OpenCapital = SetSum(Paid, OpenPositions)
  BY DEF OpenCapital, SetSum, MapThenSumSet, MapThenFoldSet
<1>3. Equity = StartingEquity + ProductSum(net, trades, Traded)
  BY DEF Equity, ProductSum, MapThenSumSet, MapThenFoldSet
<1>4. \A day : RealisedOn(day) = ProductSum(net, trades, {f \in Traded : closedOn[f] = day})
  BY DEF RealisedOn, ProductSum, MapThenSumSet, MapThenFoldSet
<1>5. QED BY <1>1, <1>2, <1>3, <1>4

LEMMA CapitalSumsNext ==
  /\ OpenRisk' = SetSum(Risk, OpenPositions')
  /\ OpenCapital' = SetSum(Paid, OpenPositions')
  /\ Equity' = StartingEquity + ProductSum(net', trades', Traded')
  /\ \A day : RealisedOn(day)' = ProductSum(net', trades', {f \in Traded' : closedOn'[f] = day})
<1>1. OpenRisk' = SetSum(Risk, OpenPositions')
  BY DEF OpenRisk, SetSum, MapThenSumSet, MapThenFoldSet
<1>2. OpenCapital' = SetSum(Paid, OpenPositions')
  BY DEF OpenCapital, SetSum, MapThenSumSet, MapThenFoldSet
<1>3. Equity' = StartingEquity + ProductSum(net', trades', Traded')
  BY DEF Equity, ProductSum, MapThenSumSet, MapThenFoldSet
<1>4. \A day : RealisedOn(day)' = ProductSum(net', trades', {f \in Traded' : closedOn'[f] = day})
  BY DEF RealisedOn, ProductSum, MapThenSumSet, MapThenFoldSet
<1>5. QED BY <1>1, <1>2, <1>3, <1>4

LEMMA CapitalTypes ==
  ASSUME LedgerTypeOK
  PROVE  Equity \in Int /\ OpenRisk \in Int /\ OpenCapital \in Int
<1>1. IsFiniteSet(OpenPositions) /\ IsFiniteSet(Traded)
  BY FillsFinite DEF OpenPositions, Traded
<1>2. \A f \in OpenPositions : Risk[f] \in Int /\ Paid[f] \in Int
  BY AccountAssumption DEF OpenPositions
<1>3. SetSum(Risk, OpenPositions) \in Int
  BY <1>1, <1>2, SumType
<1>4. SetSum(Paid, OpenPositions) \in Int
  BY <1>1, <1>2, SumType
<1> DEFINE products == [f \in Traded |-> net[f] * trades[f]]
<1>5. \A f \in Traded : products[f] \in Int
  BY DEF LedgerTypeOK, Traded
<1>6. ProductSum(net, trades, Traded) = SetSum(products, Traded)
  BY <1>1, ProductSumIsSum
<1> HIDE DEF products
<1>7. SetSum(products, Traded) \in Int
  BY <1>1, <1>5, SumType
<1>8. QED BY <1>3, <1>4, <1>6, <1>7, CapitalSums, AccountAssumption

\* A step that touches no row changes none of the answers.
LEMMA CapitalSteady ==
  ASSUME UNCHANGED <<position, trades, net, closedOn>>
  PROVE  /\ OpenPositions' = OpenPositions
         /\ OpenRisk' = OpenRisk
         /\ \A day : CapitalOn(day)' = CapitalOn(day)
<1>1. OpenPositions' = OpenPositions /\ Traded' = Traded
  BY DEF OpenPositions, Traded
<1>2. OpenRisk' = OpenRisk /\ OpenCapital' = OpenCapital
  BY <1>1, CapitalSums, CapitalSumsNext
<1>3. Equity' = Equity
  BY <1>1, CapitalSums, CapitalSumsNext
<1>4. ASSUME NEW day PROVE RealisedOn(day)' = RealisedOn(day)
  <2>1. {f \in Traded' : closedOn'[f] = day} = {f \in Traded : closedOn[f] = day}
    BY <1>1
  <2>2. QED BY <2>1, CapitalSums, CapitalSumsNext
<1>5. QED BY <1>1, <1>2, <1>3, <1>4 DEF CapitalOn

LEMMA MaxWithZero ==
  ASSUME NEW n \in Int
  PROVE  Max({0, n}) = IF n > 0 THEN n ELSE 0
<1>1. {0, n} \subseteq Int /\ {0, n} # {}
  OBVIOUS
<1>2. IsFiniteSet({0, n})
  <2>1. {0, n} = {0} \cup {n}
    OBVIOUS
  <2>2. IsFiniteSet({0})
    BY FS_Singleton
  <2>3. IsFiniteSet({0} \cup {n})
    BY <2>2, FS_AddElement
  <2>4. QED BY <2>1, <2>3
<1>3. Max({0, n}) \in {0, n} /\ \A y \in {0, n} : Max({0, n}) >= y
  BY <1>1, <1>2, MaxIsGreatest
<1>4. QED BY <1>3

LEMMA ReserveRecord ==
  ASSUME NEW e, NEW c, NEW r, NEW d, NEW f
  PROVE  Reserve([equity |-> e, cash |-> c, risk |-> r, daily |-> d], f)
           = [equity |-> e, cash |-> c - Paid[f], risk |-> r + Risk[f], daily |-> d]
<1> DEFINE view == [equity |-> e, cash |-> c, risk |-> r, daily |-> d]
           paid == [equity |-> e, cash |-> c - Paid[f], risk |-> r, daily |-> d]
<1>1. view.cash = c /\ view.risk = r /\ [view EXCEPT !.cash = c - Paid[f]] = paid
  OBVIOUS
<1>2. [paid EXCEPT !.risk = r + Risk[f]]
        = [equity |-> e, cash |-> c - Paid[f], risk |-> r + Risk[f], daily |-> d]
  OBVIOUS
<1> HIDE DEF view, paid
<1>3. Reserve(view, f)
        = [[view EXCEPT !.cash = view.cash - Paid[f]] EXCEPT !.risk = view.risk + Risk[f]]
  BY Zenon DEF Reserve
<1>4. Reserve(view, f) = [paid EXCEPT !.risk = r + Risk[f]]
  BY <1>1, <1>3, Zenon
<1>5. QED BY <1>2, <1>4 DEF view

\* Reserving a fill in memory gives what the ledger answers once its row is
\* there.
LEMMA ReserveMatchesLedger ==
  ASSUME LedgerTypeOK, NEW f \in Fills, position[f] = "NONE", NEW day,
         position' = [position EXCEPT ![f] = "OPEN"], UNCHANGED <<trades, net, closedOn>>,
         Affordable(f, CapitalOn(day))
  PROVE  /\ OpenRisk' = OpenRisk + Risk[f]
         /\ CapitalOn(day)' = Reserve(CapitalOn(day), f)
<1>1. /\ OpenPositions' = OpenPositions \cup {f} /\ f \notin OpenPositions
      /\ Traded' = Traded
  BY DEF OpenPositions, Traded, LedgerTypeOK
<1>2. /\ IsFiniteSet(OpenPositions)
      /\ Risk[f] \in Int /\ Paid[f] \in Int /\ Paid[f] > 0
      /\ \A g \in OpenPositions : Risk[g] \in Int /\ Paid[g] \in Int
  BY FillsFinite, AccountAssumption DEF OpenPositions
<1>3. SetSum(Risk, OpenPositions \cup {f}) = SetSum(Risk, OpenPositions) + Risk[f]
  BY <1>1, <1>2, SumAdd
<1>4. SetSum(Paid, OpenPositions \cup {f}) = SetSum(Paid, OpenPositions) + Paid[f]
  BY <1>1, <1>2, SumAdd
<1>5. OpenRisk' = OpenRisk + Risk[f]
  BY <1>1, <1>3, CapitalSums, CapitalSumsNext
<1>6. OpenCapital' = OpenCapital + Paid[f]
  BY <1>1, <1>4, CapitalSums, CapitalSumsNext
<1>7. Equity' = Equity
  BY <1>1, CapitalSums, CapitalSumsNext
<1>8. RealisedOn(day)' = RealisedOn(day)
  <2>1. {g \in Traded' : closedOn'[g] = day} = {g \in Traded : closedOn[g] = day}
    BY <1>1
  <2>2. QED BY <2>1, CapitalSums, CapitalSumsNext
<1> DEFINE left == Equity - OpenCapital
<1>9. left \in Int /\ (Equity - OpenCapital)' = left - Paid[f]
  BY <1>2, <1>6, <1>7, CapitalTypes
<1>10. Paid[f] <= Max({0, left})
  BY DEF Affordable, CapitalOn
<1> HIDE DEF left
<1>11. Max({0, left}) = left /\ Max({0, left - Paid[f]}) = left - Paid[f]
  BY <1>2, <1>9, <1>10, MaxWithZero
<1>12. CapitalOn(day)' = [equity |-> Equity, cash |-> left - Paid[f],
                          risk |-> OpenRisk + Risk[f], daily |-> RealisedOn(day)]
  <2>1. (Max({0, Equity - OpenCapital}))' = left - Paid[f]
    BY <1>9, <1>11 DEF left
  <2>2. QED BY <1>5, <1>7, <1>8, <2>1 DEF CapitalOn
<1>13. CapitalOn(day) = [equity |-> Equity, cash |-> left,
                         risk |-> OpenRisk, daily |-> RealisedOn(day)]
  BY <1>11 DEF CapitalOn, left
<1>14. Reserve(CapitalOn(day), f) = [equity |-> Equity, cash |-> left - Paid[f],
                                     risk |-> OpenRisk + Risk[f], daily |-> RealisedOn(day)]
  BY <1>13, ReserveRecord
<1>15. QED BY <1>5, <1>12, <1>14
-----------------------------------------------------------------------------
\* Between a candidate's checks and its row the CapitalState in memory is the
\* ledger's answer, and it covers the fill in hand; between the row and its
\* reservation it still covers the fill, and is one reservation behind the ledger.
CapitalCovers ==
  \A p \in Processes :
    /\ pc[p] = "opening" => Approved(hand[p], CapitalOn(today))
    /\ pc[p] = "reserving" =>
         /\ Affordable(hand[p], capital[p])
         /\ CapitalOn(today) = Reserve(capital[p], hand[p])

\* The inductive invariant of the capital.
CapitalInv ==
  /\ LedgerTypeOK
  /\ DOMAIN capital = Processes
  /\ CapitalViewIsCurrent
  /\ CapitalCovers

\* What all the invariants together say.
AllInv == IInv /\ TimeInv /\ CyclesBeginInSession /\ CapitalInv

LEMMA CapitalInit == RuntimeInit => CapitalInv
  BY DEF RuntimeInit, Init, CapitalInv, LedgerTypeOK, CapitalViewIsCurrent, CapitalCovers

LEMMA LedgerTypeStep ==
  ASSUME IInv, LedgerTypeOK, [RuntimeNext]_vars
  PROVE  LedgerTypeOK'
<1>1. position' \in [Fills -> PositionStatus] /\ trades' \in [Fills -> Nat]
  BY TypeStep DEF IInv, StateTypeOK
<1>2. CASE UNCHANGED net
  BY <1>1, <1>2 DEF LedgerTypeOK
<1>3. ASSUME NEW p \in Processes, NEW result \in Results, CommitClose(p, result)
      PROVE  LedgerTypeOK'
  BY <1>1, <1>3, AccountAssumption DEF LedgerTypeOK, CommitClose
<1>4. ASSUME NEW p \in Processes, Launch(p) \/ Crash(p) \/ BeginCycle(p)
      PROVE  UNCHANGED net
  BY <1>4 DEF Launch, Crash, BeginCycle, accountVars, ledger
<1>5. ASSUME NEW p \in Processes, NEW f \in Fills,
             KeepPosition(p, f) \/ StartClose(p, f) \/ ExitFails(p, f) \/ StartOpen(p, f)
      PROVE  UNCHANGED net
  BY <1>5 DEF KeepPosition, StartClose, ExitFails, StartOpen, accountVars, ledger
<1>6. ASSUME NEW p \in Processes,
             \/ EndExits(p) \/ Scan(p) \/ ReadCapital(p) \/ EndCycle(p) \/ CommitOpen(p)
             \/ ReserveFill(p) \/ CycleRaises(p) \/ \E s \in Symbols : RejectCandidate(p, s)
      PROVE  UNCHANGED net
  BY <1>6 DEF EndExits, Scan, ReadCapital, EndCycle, CycleRaises, RejectCandidate,
     CommitOpen, ReserveFill, accountVars, ledger
<1>7. CASE Tick \/ UNCHANGED vars
  BY <1>2, <1>7 DEF Tick, NextDay, vars, accountVars, ledger
<1>8. QED BY <1>2, <1>3, <1>4, <1>5, <1>6, <1>7 DEF RuntimeNext, Step

\* A step of a process that leaves the rows alone and ends between candidates
\* or before them.
LEMMA CapitalKept ==
  ASSUME AllInv, NEW p \in Processes, pc[p] # "down",
         UNCHANGED <<position, trades, net, closedOn, today>>,
         pc' = [pc EXCEPT ![p] = pc'[p]], pc'[p] \notin {"opening", "reserving"},
         pc'[p] = "entries" => capital'[p] = CapitalOn(today)
  PROVE  CapitalViewIsCurrent' /\ CapitalCovers'
<1>1. \A q \in Processes : q # p => pc[q] = "down" /\ pc'[q] = "down"
  BY Alone DEF AllInv, IInv, StateTypeOK
<1>2. CapitalOn(today)' = CapitalOn(today)
  BY CapitalSteady
<1>3. pc'[p] = "entries" => capital'[p] = CapitalOn(today)'
  BY <1>2
<1>4. QED BY <1>1, <1>3 DEF CapitalViewIsCurrent, CapitalCovers

LEMMA CapitalDomainStep ==
  ASSUME DOMAIN capital = Processes, [RuntimeNext]_vars
  PROVE  DOMAIN capital' = Processes
<1>1. CASE UNCHANGED capital
  BY <1>1
<1>2. ASSUME NEW p \in Processes, ForgetCycle(p) PROVE DOMAIN capital' = Processes
  BY <1>2 DEF ForgetCycle
<1>3. ASSUME NEW p \in Processes,
             \/ Crash(p) \/ EndExits(p) \/ EndCycle(p) \/ CycleRaises(p)
      PROVE  DOMAIN capital' = Processes
  BY <1>1, <1>2, <1>3 DEF Crash, EndExits, EndCycle, CycleRaises
<1>4. ASSUME NEW p \in Processes, ReadCapital(p) \/ CommitOpen(p) \/ ReserveFill(p)
      PROVE  DOMAIN capital' = Processes
  BY <1>4 DEF ReadCapital, CommitOpen, ReserveFill, cycle
<1>5. ASSUME NEW p \in Processes, NEW f \in Fills,
             KeepPosition(p, f) \/ StartClose(p, f) \/ ExitFails(p, f) \/ StartOpen(p, f)
      PROVE  UNCHANGED capital
  BY <1>5 DEF KeepPosition, StartClose, ExitFails, StartOpen
<1>6. ASSUME NEW p \in Processes,
             \/ Launch(p) \/ BeginCycle(p) \/ Scan(p)
             \/ \E s \in Symbols : RejectCandidate(p, s)
             \/ \E result \in Results : CommitClose(p, result)
      PROVE  UNCHANGED capital
  BY <1>6 DEF Launch, BeginCycle, Scan, RejectCandidate, CommitClose, cycle
<1>7. CASE Tick \/ UNCHANGED vars
  BY <1>1, <1>7 DEF Tick, vars, cycle
<1>8. QED BY <1>1, <1>3, <1>4, <1>5, <1>6, <1>7 DEF RuntimeNext, Step

LEMMA CapitalViewStep ==
  ASSUME AllInv, [RuntimeNext]_vars
  PROVE  CapitalViewIsCurrent' /\ CapitalCovers'
<1> DEFINE Kept == CapitalViewIsCurrent' /\ CapitalCovers'
<1> USE DEF Goto
<1>1. /\ pc \in [Processes -> Phases] /\ hand \in [Processes -> Fills \cup {Nobody}]
      /\ DOMAIN capital = Processes /\ OnlyHolderRuns
      /\ \A p \in Processes : pc[p] \in {"entries", "opening"} => capital[p] = CapitalOn(today)
  BY DEF AllInv, IInv, StateTypeOK, CapitalInv, CapitalViewIsCurrent
<1>2. ASSUME NEW p \in Processes, Launch(p) PROVE Kept
  <2>1. \A q \in Processes : pc[q] = "down"
    BY <1>1, <1>2, RuntimeAssumption DEF Launch, LockFree, OnlyHolderRuns
  <2>2. pc' = [pc EXCEPT ![p] = "idle"]
    BY <1>2 DEF Launch
  <2>3. QED BY <1>1, <2>1, <2>2 DEF CapitalViewIsCurrent, CapitalCovers
<1>3. ASSUME NEW p \in Processes,
             \/ Crash(p) \/ BeginCycle(p) \/ EndExits(p) \/ Scan(p)
             \/ EndCycle(p) \/ CycleRaises(p)
             \/ \E f \in Fills : KeepPosition(p, f) \/ StartClose(p, f) \/ ExitFails(p, f)
      PROVE  Kept
  <2>1. UNCHANGED <<position, trades, net, closedOn, today>>
    BY <1>3 DEF Crash, BeginCycle, EndExits, Scan, EndCycle, CycleRaises, KeepPosition,
       StartClose, ExitFails, accountVars, ledger
  <2>2. /\ pc[p] # "down"
        /\ \E phase \in Phases \ {"entries", "opening", "reserving"} : pc' = [pc EXCEPT ![p] = phase]
    <3>1. CASE Crash(p) \/ BeginCycle(p) \/ Scan(p)
      BY <3>1 DEF Crash, BeginCycle, Scan
    <3>2. CASE EndExits(p) \/ EndCycle(p) \/ CycleRaises(p)
      BY <3>2 DEF EndExits, EndCycle, CycleRaises
    <3>3. ASSUME NEW f \in Fills, KeepPosition(p, f)
          PROVE  pc[p] = "exits" /\ pc' = [pc EXCEPT ![p] = "exits"]
      BY <1>1, <3>3 DEF KeepPosition
    <3>4. ASSUME NEW f \in Fills, StartClose(p, f) \/ ExitFails(p, f)
          PROVE  /\ pc[p] # "down"
                 /\ \E phase \in {"closing", "exits"} : pc' = [pc EXCEPT ![p] = phase]
      BY <3>4 DEF StartClose, ExitFails
    <3>5. QED BY <1>3, <3>1, <3>2, <3>3, <3>4
  <2>3. QED BY <1>1, <2>1, <2>2, CapitalKept
<1>4. ASSUME NEW p \in Processes, NEW result \in Results, CommitClose(p, result)
      PROVE  Kept
  <2>1. pc[p] # "down" /\ pc' = [pc EXCEPT ![p] = "exits"]
    BY <1>4 DEF CommitClose
  <2>2. \A q \in Processes : q # p => pc[q] = "down"
    BY <1>1, <2>1, Alone
  <2>3. QED BY <1>1, <2>1, <2>2 DEF CapitalViewIsCurrent, CapitalCovers
<1>5. ASSUME NEW p \in Processes, ReadCapital(p) PROVE Kept
  <2>1. /\ UNCHANGED <<position, trades, net, closedOn, today>>
        /\ pc[p] = "rank" /\ pc' = [pc EXCEPT ![p] = "entries"]
        /\ capital' = [capital EXCEPT ![p] = CapitalOn(cycleNow[p] \div Slots)]
    BY <1>5 DEF ReadCapital, accountVars, ledger
  <2>2. cycleNow[p] \div Slots = today
    BY <2>1, CycleDayIsToday DEF AllInv, IInv, Busy
  <2>3. capital'[p] = CapitalOn(today) /\ pc'[p] = "entries" /\ pc[p] # "down"
    BY <1>1, <2>1, <2>2
  <2>4. QED BY <2>1, <2>3, CapitalKept
<1>6. ASSUME NEW p \in Processes, NEW s \in Symbols, RejectCandidate(p, s) PROVE Kept
  <2>1. /\ UNCHANGED <<position, trades, net, closedOn, today>>
        /\ pc[p] \in {"entries", "opening"} /\ pc' = [pc EXCEPT ![p] = "entries"]
        /\ capital' = capital
    BY <1>6 DEF RejectCandidate, accountVars, ledger
  <2>2. capital'[p] = CapitalOn(today) /\ pc'[p] = "entries" /\ pc[p] # "down"
    BY <1>1, <2>1
  <2>3. QED BY <2>1, <2>2, CapitalKept
<1>7. ASSUME NEW p \in Processes, NEW f \in Fills, StartOpen(p, f) PROVE Kept
  <2>1. /\ UNCHANGED <<position, trades, net, closedOn, today>>
        /\ pc[p] = "entries" /\ pc' = [pc EXCEPT ![p] = "opening"]
        /\ capital' = capital /\ hand' = [hand EXCEPT ![p] = f]
        /\ Approved(f, capital[p])
    BY <1>7 DEF StartOpen, accountVars, ledger
  <2>2. \A q \in Processes : q # p => pc[q] = "down" /\ pc'[q] = "down"
    BY <1>1, <2>1, Alone
  <2>3. capital'[p] = CapitalOn(today)
    BY <1>1, <2>1
  <2>4. CapitalOn(today)' = CapitalOn(today)
    BY <2>1, CapitalSteady
  <2>5. hand'[p] = f /\ pc'[p] = "opening" /\ Approved(f, CapitalOn(today))
    BY <1>1, <2>1
  <2>6. Approved(f, CapitalOn(today)')
    BY <2>4, <2>5
  <2>7. CapitalViewIsCurrent'
    BY <2>2, <2>3, <2>4 DEF CapitalViewIsCurrent
  <2>8. CapitalCovers'
    BY <2>2, <2>5, <2>6 DEF CapitalCovers
  <2>9. QED BY <2>7, <2>8
<1>8. ASSUME NEW p \in Processes, CommitOpen(p) PROVE Kept
  <2>1. /\ pc[p] = "opening" /\ pc' = [pc EXCEPT ![p] = "reserving"]
        /\ position[hand[p]] = "NONE"
        /\ position' = [position EXCEPT ![hand[p]] = "OPEN"]
        /\ UNCHANGED <<capital, hand, trades, net, closedOn, today>>
    BY <1>8 DEF CommitOpen, cycle
  <2>2. hand[p] \in Fills
    BY <2>1 DEF AllInv, IInv, HandIsCurrent
  <2>3. \A q \in Processes : q # p => pc[q] = "down" /\ pc'[q] = "down"
    BY <1>1, <2>1, Alone
  <2>4. capital[p] = CapitalOn(today) /\ Affordable(hand[p], CapitalOn(today)) /\ LedgerTypeOK
    BY <1>1, <2>1 DEF AllInv, CapitalInv, CapitalCovers, Approved
  <2>5. CapitalOn(today)' = Reserve(CapitalOn(today), hand[p])
    <3>1. today' = today
      BY <2>1
    <3>2. \A day : Affordable(hand[p], CapitalOn(day)) =>
                     CapitalOn(day)' = Reserve(CapitalOn(day), hand[p])
      BY <2>1, <2>2, <2>4, ReserveMatchesLedger
    <3>3. QED BY <2>4, <3>1, <3>2
  <2>6. pc'[p] = "reserving" /\ capital'[p] = capital[p] /\ hand'[p] = hand[p]
    BY <1>1, <2>1
  <2>7. CapitalViewIsCurrent'
    BY <2>3, <2>6 DEF CapitalViewIsCurrent
  <2>8. Affordable(hand'[p], capital'[p]) /\ CapitalOn(today)' = Reserve(capital'[p], hand'[p])
    BY <2>4, <2>5, <2>6
  <2>9. CapitalCovers'
    BY <2>3, <2>6, <2>8 DEF CapitalCovers
  <2>10. QED BY <2>7, <2>9
<1>9. ASSUME NEW p \in Processes, ReserveFill(p) PROVE Kept
  <2>1. /\ UNCHANGED <<position, trades, net, closedOn, today>>
        /\ pc[p] = "reserving" /\ pc' = [pc EXCEPT ![p] = "entries"]
        /\ capital' = IF Affordable(hand[p], capital[p])
                      THEN [capital EXCEPT ![p] = Reserve(capital[p], hand[p])]
                      ELSE capital
    BY <1>9 DEF ReserveFill, accountVars, ledger
  <2>2. /\ Affordable(hand[p], capital[p])
        /\ CapitalOn(today) = Reserve(capital[p], hand[p])
    BY <2>1 DEF AllInv, CapitalInv, CapitalCovers
  <2>3. capital'[p] = CapitalOn(today) /\ pc'[p] = "entries" /\ pc[p] # "down"
    BY <1>1, <2>1, <2>2
  <2>4. QED BY <2>1, <2>3, CapitalKept
<1>10. CASE Tick
  <2>1. pc' = pc /\ capital' = capital /\ hand' = hand
    BY <1>10 DEF Tick, cycle
  <2>2. ASSUME NEW p \in Processes, pc[p] \in {"entries", "opening", "reserving"}
        PROVE  UNCHANGED <<position, trades, net, closedOn, today>>
    <3>1. Now < cycleNow[p] + CycleSlots /\ Busy(p)
      BY <1>10, <2>2 DEF Tick, Busy
    <3>2. slot < Slots - 1
      BY <3>1, CycleDayIsToday DEF AllInv, IInv
    <3>3. QED BY <1>10, <3>2 DEF Tick, accountVars, ledger
  <2>3. ASSUME NEW p \in Processes, pc[p] \in {"entries", "opening", "reserving"}
        PROVE  CapitalOn(today)' = CapitalOn(today)
    BY <2>2, <2>3, CapitalSteady
  <2>4. CapitalViewIsCurrent'
    BY <1>1, <2>1, <2>3 DEF CapitalViewIsCurrent
  <2>5. CapitalCovers'
    BY <2>1, <2>3 DEF CapitalCovers, AllInv, CapitalInv
  <2>6. QED BY <2>4, <2>5
<1>11. CASE UNCHANGED vars
  <2>1. pc' = pc /\ capital' = capital /\ hand' = hand
        /\ UNCHANGED <<position, trades, net, closedOn, today>>
    BY <1>11 DEF vars, cycle, accountVars, ledger
  <2>2. CapitalOn(today)' = CapitalOn(today)
    BY <2>1, CapitalSteady
  <2>3. QED BY <1>1, <2>1, <2>2 DEF CapitalViewIsCurrent, CapitalCovers, AllInv, CapitalInv
<1>12. QED
  BY <1>2, <1>3, <1>4, <1>5, <1>6, <1>7, <1>8, <1>9, <1>10, <1>11 DEF RuntimeNext, Step

\* So do the clock and the capital a cycle carries along.
THEOREM AllInvariance == RuntimeSpec => []AllInv
<1>1. RuntimeInit => AllInv
  BY InvInit, TimeInit, SessionInit, CapitalInit DEF AllInv
<1>2. AllInv /\ [RuntimeNext]_vars => AllInv'
  <2> SUFFICES ASSUME AllInv, [RuntimeNext]_vars PROVE AllInv'
    OBVIOUS
  <2>1. IInv'
    BY TypeStep, LockStep, HandStep, SweepStep, AccountStep DEF AllInv, IInv
  <2>2. TimeInv'
    BY TimeStep DEF AllInv, IInv
  <2>3. CyclesBeginInSession'
    BY SessionStep DEF AllInv, IInv
  <2>4. CapitalInv'
    BY LedgerTypeStep, CapitalDomainStep, CapitalViewStep DEF AllInv, CapitalInv
  <2>5. QED BY <2>1, <2>2, <2>3, <2>4 DEF AllInv
<1>3. QED BY <1>1, <1>2, PTL DEF RuntimeSpec

\* The CapitalState a cycle reads once and reserves from in memory never differs
\* from what the ledger would answer (paper_runtime.py:298, 415): nobody else
\* writes, midnight does not come, and a reservation is what the row adds.
THEOREM CapitalViewHolds == RuntimeSpec => []CapitalViewIsCurrent
<1>1. AllInv => CapitalViewIsCurrent
  BY DEF AllInv, CapitalInv
<1>2. QED BY AllInvariance, <1>1, PTL
-----------------------------------------------------------------------------
\* Every step of the runtime opens one position, closes one, passes midnight
\* or leaves the account alone.
LEMMA StepImplements ==
  ASSUME AllInv, [RuntimeNext]_vars
  PROVE  [Next]_accountVars
<1>1. ASSUME NEW p \in Processes, Launch(p) \/ Crash(p) \/ BeginCycle(p)
      PROVE  UNCHANGED accountVars
  BY <1>1 DEF Launch, Crash, BeginCycle
<1>2. ASSUME NEW p \in Processes, NEW f \in Fills,
             KeepPosition(p, f) \/ StartClose(p, f) \/ ExitFails(p, f) \/ StartOpen(p, f)
      PROVE  UNCHANGED accountVars
  BY <1>2 DEF KeepPosition, StartClose, ExitFails, StartOpen
<1>3. ASSUME NEW p \in Processes,
             \/ EndExits(p) \/ Scan(p) \/ ReadCapital(p) \/ ReserveFill(p) \/ EndCycle(p)
             \/ CycleRaises(p) \/ \E s \in Symbols : RejectCandidate(p, s)
      PROVE  UNCHANGED accountVars
  BY <1>3 DEF EndExits, Scan, ReadCapital, ReserveFill, EndCycle, CycleRaises,
     RejectCandidate
<1>4. ASSUME NEW p \in Processes, NEW result \in Results, CommitClose(p, result)
      PROVE  Next
  <2>1. /\ hand[p] \in Fills /\ position[hand[p]] = "OPEN" /\ pc[p] = "closing"
    BY <1>4 DEF CommitClose, AllInv, IInv, HandIsCurrent
  <2>2. cycleNow[p] \div Slots = today
    BY <2>1, CycleDayIsToday DEF AllInv, IInv, Busy
  <2>3. Close(hand[p], result)
    BY <1>4, <2>1, <2>2 DEF CommitClose, Close
  <2>4. QED BY <2>1, <2>3 DEF Next
<1>5. ASSUME NEW p \in Processes, CommitOpen(p) PROVE Next
  <2>1. /\ hand[p] \in Fills /\ pc[p] = "opening"
        /\ ~SymbolIsOpen(SymbolOf[hand[p]])
        /\ Allocates(hand[p], CapitalOn(today)) /\ Affordable(hand[p], CapitalOn(today))
    BY <1>5 DEF CommitOpen, AllInv, IInv, HandIsCurrent, CapitalInv, CapitalCovers,
                Approved
  <2>2. Open(hand[p])
    BY <1>5, <2>1 DEF CommitOpen, Open
  <2>3. QED BY <2>1, <2>2 DEF Next
<1>6. CASE Tick
  BY <1>6 DEF Tick, Next
<1>7. CASE UNCHANGED vars
  BY <1>7 DEF vars
<1>8. QED BY <1>1, <1>2, <1>3, <1>4, <1>5, <1>6, <1>7 DEF RuntimeNext, Step

\* The processes with their lock file, their cycles and their unprotected
\* SELECTs implement the account in which every opening and every closing is
\* one step (paper_runtime.py:126-441, ledger.py:163-307).
THEOREM RuntimeImplementsAccount == RuntimeSpec => AccountSpec
<1>1. RuntimeInit => Init
  BY DEF RuntimeInit
<1>2. AllInv /\ [RuntimeNext]_vars => [Next]_accountVars
  BY StepImplements
<1>3. QED BY AllInvariance, <1>1, <1>2, PTL DEF RuntimeSpec, AccountSpec, Spec
-----------------------------------------------------------------------------
\* The account's own invariant: the gate sees the risk that is open.
RiskInv == LedgerTypeOK /\ RiskWithinLimit

LEMMA RiskInit == Init => RiskInv
<1> SUFFICES ASSUME Init PROVE RiskInv
  OBVIOUS
<1>1. LedgerTypeOK
  BY DEF Init, LedgerTypeOK
<1>2. OpenPositions = {}
  BY DEF Init, OpenPositions
<1>3. OpenRisk = 0
  BY <1>2, CapitalSums, SumEmpty
<1>4. QED BY <1>1, <1>3, AccountAssumption DEF RiskInv, RiskWithinLimit

LEMMA RiskStep ==
  ASSUME RiskInv, [Next]_accountVars
  PROVE  RiskInv'
<1> USE DEF RiskInv
<1>1. OpenRisk \in Int /\ MaxAggregateRisk \in Nat
  BY CapitalTypes, AccountAssumption
<1>2. ASSUME NEW f \in Fills, Open(f) PROVE RiskInv'
  <2>1. /\ position[f] = "NONE" /\ position' = [position EXCEPT ![f] = "OPEN"]
        /\ UNCHANGED <<trades, net, closedOn>>
        /\ Affordable(f, CapitalOn(today))
        /\ Risk[f] <= MaxAggregateRisk - CapitalOn(today).risk
    BY <1>2 DEF Open, Allocates
  <2>2. OpenRisk' = OpenRisk + Risk[f]
    BY <2>1, ReserveMatchesLedger
  <2>3. CapitalOn(today).risk = OpenRisk /\ Risk[f] \in Int
    BY AccountAssumption DEF CapitalOn
  <2>4. RiskWithinLimit'
    BY <1>1, <2>1, <2>2, <2>3 DEF RiskWithinLimit
  <2>5. LedgerTypeOK'
    BY <2>1 DEF LedgerTypeOK
  <2>6. QED BY <2>4, <2>5
<1>3. ASSUME NEW f \in Fills, NEW result \in Results, Close(f, result) PROVE RiskInv'
  <2>1. LedgerTypeOK'
    BY <1>3, AccountAssumption DEF Close, LedgerTypeOK
  <2>2. OpenPositions' \subseteq OpenPositions
    BY <1>3 DEF Close, OpenPositions, LedgerTypeOK
  <2>3. IsFiniteSet(OpenPositions)
    BY FillsFinite DEF OpenPositions
  <2>4. \A g \in OpenPositions : Risk[g] \in Int /\ Risk[g] >= 0
    BY AccountAssumption DEF OpenPositions
  <2>5. SetSum(Risk, OpenPositions') <= SetSum(Risk, OpenPositions)
    BY <2>2, <2>3, <2>4, SumMonotone
  <2>6. IsFiniteSet(OpenPositions') /\ \A g \in OpenPositions' : Risk[g] \in Int
    BY <2>2, <2>3, <2>4, FS_Subset
  <2>7. SetSum(Risk, OpenPositions') \in Int
    BY <2>6, SumType
  <2>8. RiskWithinLimit'
    BY <1>1, <2>5, <2>7, CapitalSums, CapitalSumsNext DEF RiskWithinLimit
  <2>9. QED BY <2>1, <2>8
<1>4. ASSUME NextDay \/ UNCHANGED accountVars PROVE RiskInv'
  <2>1. UNCHANGED <<position, trades, net, closedOn>>
    BY <1>4 DEF NextDay, accountVars, ledger
  <2>2. OpenRisk' = OpenRisk
    BY <2>1, CapitalSteady
  <2>3. QED BY <2>1, <2>2 DEF LedgerTypeOK, RiskWithinLimit
<1>5. QED BY <1>2, <1>3, <1>4 DEF Next

\* The risk open together stays within the aggregate limit of the account
\* (risk.py:143-155): the last fill fitted beside what was open, and an exit
\* only takes risk away.
THEOREM AccountRiskIsBounded == Spec => []RiskWithinLimit
<1>1. RiskInv => RiskWithinLimit
  BY DEF RiskInv
<1>2. RiskInv /\ [Next]_accountVars => RiskInv'
  BY RiskStep
<1>3. QED BY RiskInit, <1>1, <1>2, PTL DEF Spec

\* The runtime implements the account, and so keeps the limit although it decides
\* on a capital it read some fills and failures ago (paper_runtime.py:298-415).
THEOREM RuntimeRiskIsBounded == RuntimeSpec => []RiskWithinLimit
<1>1. QED BY RuntimeImplementsAccount, AccountRiskIsBounded, PTL DEF AccountSpec
-----------------------------------------------------------------------------
(***************************************************************************)
(* Every cycle ends: the argument behind CycleEnds that needs no fairness. *)
(* What a cycle may still do is bounded by the positions and candidates it *)
(* has not dealt with; each of its steps brings that down, and no other    *)
(* process, nor the clock, brings it up.                                   *)
(***************************************************************************)
View(p) == <<pc[p], todo[p], hand[p], candidates[p]>>

\* What a cycle has taken in hand is on the list it is working through.
HandIsListed ==
  \A p \in Processes :
    /\ pc[p] = "closing" => hand[p] \in todo[p]
    /\ pc[p] \in {"opening", "reserving"} => SymbolOf[hand[p]] \in candidates[p]
    /\ candidates[p] \subseteq Symbols

\* Two steps for each position and three for each candidate left, and one for
\* each change of phase.
StepsLeft(p) ==
  CASE pc[p] = "exits"     -> 2 * Cardinality(todo[p]) + 3 * Cardinality(Symbols) + 4
    [] pc[p] = "closing"   -> 2 * Cardinality(todo[p]) + 3 * Cardinality(Symbols) + 3
    [] pc[p] = "scan"      -> 3 * Cardinality(Symbols) + 3
    [] pc[p] = "rank"      -> 3 * Cardinality(candidates[p]) + 2
    [] pc[p] = "entries"   -> 3 * Cardinality(candidates[p]) + 1
    [] pc[p] = "opening"   -> 3 * Cardinality(candidates[p])
    [] pc[p] = "reserving" -> 3 * Cardinality(candidates[p]) - 1
    [] OTHER -> 0

\* What a step of p does to its cycle.
Begins(p) == ~Busy(p) /\ pc'[p] \in {"idle", "exits"} /\ candidates'[p] \subseteq Symbols
Stops(p) == pc'[p] \in {"idle", "down"} /\ candidates'[p] = {}
Looks(p) ==
  /\ pc[p] \in {"exits", "closing"} /\ pc'[p] = "exits"
  /\ \E f \in todo[p] : todo'[p] = todo[p] \ {f}
  /\ candidates'[p] = candidates[p]
Takes(p) ==
  /\ pc[p] = "exits" /\ pc'[p] = "closing"
  /\ hand'[p] \in todo[p] /\ todo'[p] = todo[p]
  /\ candidates'[p] = candidates[p]
Turns(p) ==
  /\ <<pc[p], pc'[p]>> \in {<<"exits", "scan">>, <<"rank", "entries">>}
  /\ candidates'[p] = candidates[p]
Lists(p) == pc[p] = "scan" /\ pc'[p] = "rank" /\ candidates'[p] \subseteq Symbols
Tries(p) ==
  /\ pc[p] = "entries" /\ pc'[p] = "opening"
  /\ SymbolOf[hand'[p]] \in candidates[p] /\ candidates'[p] = candidates[p]
Inserts(p) ==
  /\ pc[p] = "opening" /\ pc'[p] = "reserving"
  /\ hand'[p] = hand[p] /\ candidates'[p] = candidates[p]
Decides(p) ==
  /\ pc[p] \in {"entries", "opening", "reserving"} /\ pc'[p] = "entries"
  /\ \E s \in candidates[p] : candidates'[p] = candidates[p] \ {s}
Moves(p) ==
  \/ Begins(p) \/ Stops(p) \/ Looks(p) \/ Takes(p) \/ Turns(p) \/ Lists(p)
  \/ Tries(p) \/ Inserts(p) \/ Decides(p)
OnlyMoves(p) == Moves(p) /\ \A q \in Processes \ {p} : View(q)' = View(q)

LEMMA ForgetMoves ==
  ASSUME NEW p \in Processes, candidates \in [Processes -> SUBSET Symbols], StateTypeOK,
         NEW phase \in {"idle", "down"}, Goto(p, phase), ForgetCycle(p)
  PROVE  OnlyMoves(p)
  BY DEF StateTypeOK, Goto, ForgetCycle, OnlyMoves, Moves, Stops, View

LEMMA ExitMoves ==
  ASSUME NEW p \in Processes, candidates \in [Processes -> SUBSET Symbols],
         StateTypeOK, HandIsListed,
         \/ \E f \in Fills : KeepPosition(p, f) \/ StartClose(p, f) \/ ExitFails(p, f)
         \/ \E result \in Results : CommitClose(p, result)
  PROVE  OnlyMoves(p)
<1> USE DEF StateTypeOK, Goto, OnlyMoves, Moves, View
<1>1. ASSUME NEW f \in Fills, KeepPosition(p, f) PROVE OnlyMoves(p)
  BY <1>1 DEF KeepPosition, Looks
<1>2. ASSUME NEW f \in Fills, StartClose(p, f) PROVE OnlyMoves(p)
  BY <1>2 DEF StartClose, Takes
<1>3. ASSUME NEW f \in Fills, ExitFails(p, f) PROVE OnlyMoves(p)
  BY <1>3 DEF ExitFails, Looks, HandIsListed
<1>4. ASSUME NEW result \in Results, CommitClose(p, result) PROVE OnlyMoves(p)
  BY <1>4 DEF CommitClose, Looks, HandIsListed
<1>5. QED BY <1>1, <1>2, <1>3, <1>4

LEMMA EntryMoves ==
  ASSUME NEW p \in Processes, candidates \in [Processes -> SUBSET Symbols],
         StateTypeOK, HandIsListed,
         \/ Scan(p) \/ ReadCapital(p) \/ CommitOpen(p) \/ ReserveFill(p)
         \/ \E s \in Symbols : RejectCandidate(p, s)
         \/ \E f \in Fills : StartOpen(p, f)
  PROVE  OnlyMoves(p)
<1> USE DEF StateTypeOK, Goto, OnlyMoves, Moves, View
<1>1. CASE Scan(p)
  BY <1>1 DEF Scan, Lists
<1>2. CASE ReadCapital(p)
  BY <1>2 DEF ReadCapital, Turns
<1>3. CASE CommitOpen(p)
  BY <1>3 DEF CommitOpen, Inserts, cycle
<1>4. ASSUME NEW s \in Symbols, RejectCandidate(p, s) PROVE OnlyMoves(p)
  BY <1>4 DEF RejectCandidate, Decides, HandIsListed
<1>5. ASSUME NEW f \in Fills, StartOpen(p, f) PROVE OnlyMoves(p)
  BY <1>5 DEF StartOpen, Tries
<1>6. CASE ReserveFill(p)
  BY <1>6 DEF ReserveFill, Decides, HandIsListed
<1>7. QED BY <1>1, <1>2, <1>3, <1>4, <1>5, <1>6

LEMMA CycleMoves ==
  ASSUME candidates \in [Processes -> SUBSET Symbols], StateTypeOK, HandIsListed,
         [RuntimeNext]_vars
  PROVE  \/ \E p \in Processes : OnlyMoves(p)
         \/ \A p \in Processes : View(p)' = View(p)
<1>1. ASSUME NEW p \in Processes, Launch(p) PROVE OnlyMoves(p)
  BY <1>1 DEF StateTypeOK, Launch, Goto, cycle, OnlyMoves, Moves, Begins, Busy, View
<1>2. ASSUME NEW p \in Processes, BeginCycle(p) PROVE OnlyMoves(p)
  BY <1>2 DEF StateTypeOK, BeginCycle, Goto, OnlyMoves, Moves, Begins, Busy, View
<1>3. ASSUME NEW p \in Processes, Crash(p) \/ EndCycle(p) \/ CycleRaises(p)
      PROVE  OnlyMoves(p)
  BY <1>3, ForgetMoves DEF Crash, EndCycle, CycleRaises
<1>4. ASSUME NEW p \in Processes, EndExits(p) PROVE OnlyMoves(p)
  <2>1. CASE EntryWindow(cycleNow[p])
    BY <1>4, <2>1 DEF StateTypeOK, EndExits, Goto, OnlyMoves, Moves, Turns, View
  <2>2. CASE ~EntryWindow(cycleNow[p])
    BY <1>4, <2>2, ForgetMoves DEF EndExits
  <2>3. QED BY <2>1, <2>2
<1>5. CASE Tick \/ UNCHANGED vars
  BY <1>5 DEF Tick, vars, cycle, View
<1>6. QED
  BY <1>1, <1>2, <1>3, <1>4, <1>5, ExitMoves, EntryMoves DEF RuntimeNext, Step

LEMMA ListedStep ==
  ASSUME candidates \in [Processes -> SUBSET Symbols], StateTypeOK, HandIsListed,
         [RuntimeNext]_vars
  PROVE  HandIsListed'
<1>1. ASSUME NEW p \in Processes, OnlyMoves(p) PROVE HandIsListed'
  <2>1. /\ pc'[p] = "closing" => hand'[p] \in todo'[p]
        /\ pc'[p] \in {"opening", "reserving"} => SymbolOf[hand'[p]] \in candidates'[p]
        /\ candidates'[p] \subseteq Symbols
    BY <1>1 DEF OnlyMoves, Moves, Begins, Stops, Looks, Takes, Turns, Lists, Tries,
                Inserts, Decides, HandIsListed
  <2>2. QED BY <1>1, <2>1 DEF OnlyMoves, View, HandIsListed
<1>2. CASE \A p \in Processes : View(p)' = View(p)
  BY <1>2 DEF View, HandIsListed
<1>3. QED BY <1>1, <1>2, CycleMoves

\* A step of the cycle itself costs some of what it has left.
LEMMA MoveCosts ==
  ASSUME IsFiniteSet(Symbols), StateTypeOK, HandIsListed, NEW p \in Processes,
         Moves(p), Busy(p)
  PROVE  StepsLeft(p)' < StepsLeft(p)
<1> DEFINE t == Cardinality(todo[p])
           c == Cardinality(candidates[p])
           n == Cardinality(Symbols)
<1>1. /\ IsFiniteSet(todo[p]) /\ IsFiniteSet(candidates[p])
      /\ t \in Nat /\ c \in Nat /\ n \in Nat
  <2>1. todo[p] \subseteq Fills /\ candidates[p] \subseteq Symbols
    BY DEF StateTypeOK, HandIsListed
  <2>2. IsFiniteSet(Fills)
    BY AccountAssumption
  <2>3. QED BY <2>1, <2>2, FS_Subset, FS_CardinalityType
<1>2. CASE Stops(p)
  <2>1. StepsLeft(p)' = 0
    BY <1>2 DEF Stops, StepsLeft
  <2>2. pc[p] \in {"opening", "reserving"} => c > 0
    <3>1. pc[p] \in {"opening", "reserving"} => candidates[p] # {}
      BY DEF HandIsListed
    <3>2. QED BY <1>1, <3>1, FS_EmptySet
  <2>3. pc[p] \in {"exits", "closing", "scan", "rank", "entries", "opening",
                  "reserving"}
    BY DEF Busy, StateTypeOK
  <2> HIDE DEF t, c, n
  <2>4. StepsLeft(p) > 0
    BY <1>1, <2>2, <2>3 DEF StepsLeft, t, c, n
  <2>5. QED BY <2>1, <2>4
<1>3. CASE Looks(p)
  <2>1. PICK f \in todo[p] : todo'[p] = todo[p] \ {f}
    BY <1>3 DEF Looks
  <2>2. Cardinality(todo'[p]) = t - 1
    BY <1>1, <2>1, FS_RemoveElement
  <2>3. QED BY <1>1, <1>3, <2>2 DEF Looks, StepsLeft
<1>4. CASE Takes(p)
  BY <1>1, <1>4 DEF Takes, StepsLeft
<1>5. CASE Turns(p)
  BY <1>1, <1>5 DEF Turns, StepsLeft
<1>6. CASE Lists(p)
  <2>1. Cardinality(candidates'[p]) \in Nat /\ Cardinality(candidates'[p]) <= n
    BY <1>6, FS_Subset, FS_CardinalityType DEF Lists
  <2>2. QED BY <1>1, <1>6, <2>1 DEF Lists, StepsLeft
<1>7. CASE Tries(p)
  BY <1>1, <1>7 DEF Tries, StepsLeft
<1>8. CASE Decides(p)
  <2>1. PICK s \in candidates[p] : candidates'[p] = candidates[p] \ {s}
    BY <1>8 DEF Decides
  <2>2. Cardinality(candidates'[p]) = c - 1
    BY <1>1, <2>1, FS_RemoveElement
  <2>3. QED BY <1>1, <1>8, <2>2 DEF Decides, StepsLeft
<1>9. CASE Inserts(p)
  BY <1>1, <1>9 DEF Inserts, StepsLeft
<1>10. ~Begins(p)
  BY DEF Begins
<1>11. QED BY <1>2, <1>3, <1>4, <1>5, <1>6, <1>7, <1>8, <1>9, <1>10 DEF Moves

\* A running cycle either does nothing or gets nearer to its end.
CyclesMakeHeadway ==
  \A p \in Processes :
    Busy(p) => View(p)' = View(p) \/ StepsLeft(p)' < StepsLeft(p)

\* A cycle takes at most two steps for each position and three for each symbol.
CyclesAreBounded ==
  \A p \in Processes :
    /\ StepsLeft(p) \in Nat
    /\ StepsLeft(p) <= 2 * Cardinality(Fills) + 3 * Cardinality(Symbols) + 4

\* Whatever fails in a cycle, whoever else is launched and however long the
\* exchange stays open, it ends within a number of its own steps that the
\* positions and the universe fix (paper_runtime.py:302-431, 630-661): what
\* fails is skipped, not tried again.
THEOREM CyclesRunOut ==
  ASSUME IsFiniteSet(Symbols)
  PROVE  RuntimeSpec => [][CyclesMakeHeadway]_vars /\ []CyclesAreBounded
<1> DEFINE Listed == HandIsListed /\ candidates \in [Processes -> SUBSET Symbols]
<1>1. RuntimeInit => Listed
  BY DEF RuntimeInit, HandIsListed
<1>2. StateTypeOK /\ Listed /\ [RuntimeNext]_vars => Listed'
  <2> SUFFICES ASSUME StateTypeOK, Listed, [RuntimeNext]_vars PROVE Listed'
    OBVIOUS
  <2>1. HandIsListed'
    BY ListedStep
  <2>2. candidates' \in [Processes -> SUBSET Symbols]
    BY DEF RuntimeNext, Step, Launch, Crash, BeginCycle, Tick, KeepPosition, StartClose,
           ExitFails, CommitClose, EndExits, Scan, ReadCapital, RejectCandidate,
           StartOpen, CommitOpen, ReserveFill, EndCycle, CycleRaises, ForgetCycle, vars,
           cycle
  <2>3. QED BY <2>1, <2>2
<1>3. StateTypeOK /\ Listed /\ [RuntimeNext]_vars => CyclesMakeHeadway
  <2> SUFFICES ASSUME StateTypeOK, Listed, [RuntimeNext]_vars, NEW p \in Processes, Busy(p)
               PROVE  View(p)' = View(p) \/ StepsLeft(p)' < StepsLeft(p)
    BY DEF CyclesMakeHeadway
  <2>1. ASSUME NEW q \in Processes, OnlyMoves(q)
        PROVE  View(p)' = View(p) \/ StepsLeft(p)' < StepsLeft(p)
    BY <2>1, MoveCosts DEF OnlyMoves
  <2>2. QED BY <2>1, CycleMoves
<1>4. StateTypeOK /\ Listed => CyclesAreBounded
  <2> SUFFICES ASSUME StateTypeOK, HandIsListed, NEW p \in Processes
               PROVE  /\ StepsLeft(p) \in Nat
                      /\ StepsLeft(p) <= 2 * Cardinality(Fills) + 3 * Cardinality(Symbols) + 4
    BY DEF CyclesAreBounded
  <2> DEFINE t == Cardinality(todo[p])
             c == Cardinality(candidates[p])
             m == Cardinality(Fills)
             n == Cardinality(Symbols)
  <2>1. t \in Nat /\ c \in Nat /\ m \in Nat /\ n \in Nat /\ t <= m /\ c <= n
    <3>1. todo[p] \subseteq Fills /\ candidates[p] \subseteq Symbols
      BY DEF StateTypeOK, HandIsListed
    <3>2. IsFiniteSet(Fills)
      BY AccountAssumption
    <3>3. QED BY <3>1, <3>2, FS_Subset, FS_CardinalityType
  <2>2. pc[p] \in {"opening", "reserving"} => c > 0
    <3>1. pc[p] \in {"opening", "reserving"} => candidates[p] # {}
      BY DEF HandIsListed
    <3>2. IsFiniteSet(candidates[p])
      BY FS_Subset DEF HandIsListed
    <3>3. QED BY <2>1, <3>1, <3>2, FS_EmptySet
  <2> HIDE DEF t, c, m, n
  <2>3. QED BY <2>1, <2>2 DEF StepsLeft, t, c, m, n
<1>5. IInv => StateTypeOK
  BY DEF IInv
<1>6. UNCHANGED vars => CyclesMakeHeadway
  BY DEF vars, cycle, CyclesMakeHeadway, View
<1>7. QED BY <1>1, <1>2, <1>3, <1>4, <1>5, Invariance, PTL DEF RuntimeSpec
=============================================================================
