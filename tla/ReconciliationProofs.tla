------------------------ MODULE ReconciliationProofs ------------------------
(***************************************************************************)
(* What the reconciliation leaves intact of the live runners, for any       *)
(* quantities, limits and faults.  It makes a runner manual at any place of *)
(* a restore, an entry or an exit, so the invariant of LiveRunnerProofs     *)
(* does not hold beside it; a weaker one does, for at most two codes.       *)
(***************************************************************************)
EXTENDS Reconciliation, LiveRunnerProofs

Step(c) == Start(c) \/ Stop(c) \/ Restore(c) \/ Loop(c) \/ Enter(c) \/ Exit(c) \/ Broker(c)

-----------------------------------------------------------------------------
\* Types.

RTypeInv == TypeInv /\ check \in CheckType /\ streak \in [Codes -> 0..(Limit - 1)]

\* The end of the check of one runner, and the count of checks without an answer.
LEMMA DoneTyped ==
    ASSUME check \in CheckType, streak \in [Codes -> 0..(Limit - 1)], NEW c \in Codes
    PROVE  /\ Done(c) => check' \in CheckType
           /\ \A n \in 0..(Limit - 1) : Streak(c, n) => streak' \in [Codes -> 0..(Limit - 1)]
           /\ 0 \in 0..(Limit - 1)
<1>1. NoCheck \in CheckType
    BY AttemptsAssumption DEF NoCheck, CheckType
<1>2. [NoCheck EXCEPT !.at = "compare", !.left = check.left \ {c}, !.kis = check.kis] \in CheckType
    BY <1>1 DEF CheckType
<1>3. Done(c) => check' \in CheckType
    BY <1>1, <1>2 DEF Done
<1> QED BY <1>3 DEF Streak, Limit

\* What the check reads and counts has its types.
LEMMA CheckTyped ==
    ASSUME RTypeInv, Reconcile
    PROVE  check' \in CheckType /\ streak' \in [Codes -> 0..(Limit - 1)]
<1> USE DEF RTypeInv
<1>a. \A c \in Codes : acct[c].hold \in Nat /\ mem[c].pos \in Nat /\ streak[c] \in 0..(Limit - 1)
    BY ValuesTyped DEF AcctType, MemType
<1>b. /\ Attempts \in 0..Attempts /\ 0 \in 0..Attempts
      /\ \A n \in 0..Attempts : n > 1 => n - 1 \in 0..Attempts
    BY AttemptsAssumption
<1>c. check.tries \in 0..Attempts
    BY DEF CheckType
<1>1. CASE Fetch
    BY <1>1, <1>a DEF Fetch, CheckType, Running
<1>2. ASSUME NEW c \in Codes, Compare(c)
      PROVE  check' \in CheckType /\ streak' \in [Codes -> 0..(Limit - 1)]
    <2>1. CASE Differs(c)
        <3>1. [check EXCEPT !.at = "confirm", !.code = c, !.own = mem[c].pos, !.tries = Attempts] \in CheckType
            BY <1>a, <1>b DEF CheckType
        <3> QED BY <2>1, <3>1 DEF Differs
    <2>2. CASE Done(c) /\ (UNCHANGED streak \/ Streak(c, 0))
        BY <2>2, DoneTyped
    <2> QED BY <1>2, <2>1, <2>2 DEF Compare
<1>3. ASSUME NEW c \in Codes, Confirm(c)
      PROVE  check' \in CheckType /\ streak' \in [Codes -> 0..(Limit - 1)]
    <2>1. ASSUME NEW seen \in SUBSET Nat, Inquired(c, seen)
          PROVE  check' \in CheckType /\ streak' \in [Codes -> 0..(Limit - 1)]
        <3>1. CASE check.tries > 1
            <4>1. [check EXCEPT !.tries = check.tries - 1, !.seen = seen] \in CheckType
                BY <1>b, <1>c, <2>1, <3>1 DEF CheckType
            <4> QED BY <2>1, <3>1, <4>1 DEF Inquired
        <3>2. CASE ~(check.tries > 1) /\ (seen # {} \/ streak[c] + 1 >= Limit)
            <4>1. [check EXCEPT !.at = "flag", !.tries = 0, !.seen = seen] \in CheckType
                BY <1>b, <2>1 DEF CheckType
            <4> QED BY <2>1, <3>2, <4>1, DoneTyped DEF Inquired, Verdict
        <3>3. CASE ~(check.tries > 1) /\ ~(seen # {} \/ streak[c] + 1 >= Limit)
            <4>1. streak[c] + 1 \in 0..(Limit - 1)
                BY <1>a, <3>3 DEF Limit
            <4> QED BY <2>1, <3>3, <4>1, DoneTyped DEF Inquired, Verdict
        <3> QED BY <3>1, <3>2, <3>3
    <2>2. {acct[c].hold} \in SUBSET Nat /\ check.seen \in SUBSET Nat
        BY <1>a DEF CheckType
    <2>3. CASE Done(c) /\ Streak(c, 0)
        BY <2>3, DoneTyped
    <2> QED BY <1>3, <2>1, <2>2, <2>3 DEF Confirm
<1>4. ASSUME NEW c \in Codes, Flag(c) \/ Seize(c)
      PROVE  check' \in CheckType /\ streak' \in [Codes -> 0..(Limit - 1)]
    BY <1>4 DEF Flag, Seize, CheckType
<1>5. ASSUME NEW c \in Codes, Persist(c)
      PROVE  check' \in CheckType /\ streak' \in [Codes -> 0..(Limit - 1)]
    BY <1>5, DoneTyped DEF Persist
<1> QED BY <1>1, <1>2, <1>3, <1>4, <1>5 DEF Reconcile

\* What it writes of the runners has its types.
LEMMA ReconcileTyped ==
    ASSUME RTypeInv, Reconcile
    PROVE  TypeInv'
<1> USE NamesTyped DEF Counters
<1>t. TypeInv
    BY DEF RTypeInv
<1>1. CASE UNCHANGED vars
    BY <1>1, <1>t DEF vars, TypeInv, LockOK, PcOK, ExecOK, ManualOK, MemOK, RowOK, AcctOK, CountsOK
<1>2. ASSUME NEW c \in Codes, Flag(c)
      PROVE  TypeInv'
    BY <1>2, <1>t, Writes DEF Flag, TypeInv
<1>3. ASSUME NEW c \in Codes, Seize(c)
      PROVE  TypeInv'
    <2>1. [mem[c] EXCEPT !.stop = TRUE] \in MemType /\ ManualLock(c) \in LockType
        BY <1>t, ValuesTyped DEF MemType
    <2> QED BY <1>3, <1>t, <2>1, Writes DEF Seize, TypeInv
<1>4. ASSUME NEW c \in Codes, Persist(c)
      PROVE  TypeInv'
    <2>1. ManualRow(row[c]) \in RowType
        BY <1>t, ValuesTyped
    <2> QED BY <1>4, <1>t, <2>1, Writes DEF Persist, TypeInv
<1> QED BY <1>1, <1>2, <1>3, <1>4 DEF Reconcile, Fetch, Compare, Confirm

\* A step of a runner, whatever the check is about to do with it.
LEMMA StepTyped ==
    ASSUME TypeInv, NEW c \in Codes, Step(c)
    PROVE  TypeInv'
BY TaskTyped, RestoreTyped, LoopTyped, EnterTyped, ExitTyped, BrokerTyped DEF Step

\* The step of some runner in Runners.
LEMMA SomeStep ==
    ASSUME Runners
    PROVE  UNCHANGED <<check, streak>> /\ \E c \in Codes : Step(c)
BY DEF Runners, Step

\* Types of the runners and of the check, and the bound of its streaks.
LEMMA RTypesHold == RSpec => []RTypeInv
<1>1. RInit => RTypeInv
    <2> SUFFICES ASSUME RInit PROVE RTypeInv
        OBVIOUS
    <2>1. TypeInv
        BY InitTyped DEF RInit
    <2>2. check \in CheckType
        BY AttemptsAssumption DEF RInit, NoCheck, CheckType
    <2>3. streak \in [Codes -> 0..(Limit - 1)]
        BY DEF RInit, Limit
    <2> QED BY <2>1, <2>2, <2>3 DEF RTypeInv
<1>2. ASSUME RTypeInv, [RNext]_rvars
      PROVE  RTypeInv'
    <2>1. CASE Reconcile
        BY <1>2, <2>1, CheckTyped, ReconcileTyped DEF RTypeInv
    <2>2. CASE Runners
        BY <1>2, <2>2, SomeStep, StepTyped DEF RTypeInv
    <2>3. CASE UNCHANGED rvars
        BY <1>2, <2>3 DEF rvars, vars, RTypeInv, TypeInv, LockOK, PcOK, ExecOK, ManualOK, MemOK, RowOK,
           AcctOK, CountsOK
    <2> QED BY <1>2, <2>1, <2>2, <2>3 DEF RNext
<1> QED BY <1>1, <1>2, PTL DEF RSpec

\* A runner that the check seizes in the middle of a restore, an entry or an exit still
\* counts and sells no more than it has, and three checks in a row without an answer are
\* the last (reconcile_inconclusive_streaks).
THEOREM ReconciledTypes == RSpec => []RTypeOK
<1>1. RTypeInv => RTypeOK
    BY DEF RTypeInv, RTypeOK, TypeInv, TypeOK, LockOK, PcOK, ExecOK, ManualOK, MemOK, RowOK, AcctOK, CountsOK
<1> QED BY <1>1, RTypesHold, PTL

-----------------------------------------------------------------------------
\* What any step does to the lock and the entries, of a manual runner too.

\* A runner told to stop that is manual: it takes the lock no more, and is not started.
Ended(c) == manual[c] /\ mem[c].stop

\* What a step of c, or of the check of c, may do.
Moves(c) ==
    /\ Alone(c)
    /\ manual[c] => manual'[c]
    /\ Ended(c) => mem'[c].stop
    /\ \/ lock' \in {lock, Released(c)}
       \/ lock' = FreedByRestore(c)
       \/ lock' \in {ManualLock(c), Lock("manual", c)} /\ Ended(c)'
       \/ PollAcquire(c) \/ PollPreempt(c) \/ HoldLock(c)
    /\ InEntry(c)' => \/ InEntry(c) /\ lock' \in {lock, ManualLock(c)}
                      \/ PollAcquire(c) \/ HoldLock(c)
    /\ gate' = gate \/ SaveOpen(c)
    /\ pc'[c] \in Committed => pc[c] \in Committed \/ gate < MaxTrades

\* A step of a runner is a step of no other.
LEMMA StepAlone ==
    ASSUME TypeInv, NEW c \in Codes, Step(c)
    PROVE  Alone(c)
<1> DEFINE PcAlone     == \A d \in Codes \ {c} : pc'[d] = pc[d]
           ExecAlone   == \A d \in Codes \ {c} : exec'[d] = exec[d]
           ManualAlone == \A d \in Codes \ {c} : manual'[d] = manual[d]
           MemAlone    == \A d \in Codes \ {c} : mem'[d] = mem[d]
<1>1. /\ pc' = pc \/ (\E p : Goto(c, p)) => PcAlone
      /\ exec' = exec \/ (\E s : Exec(c, s)) => ExecAlone
      /\ manual' = manual \/ (\E b : Manual(c, b)) => ManualAlone
      /\ mem' = mem \/ (\E m : Mem(c, m)) => MemAlone
    BY Reads
<1>2. PcAlone /\ ExecAlone /\ ManualAlone /\ MemAlone => Alone(c)
    BY DEF Alone
<1> HIDE DEF PcAlone, ExecAlone, ManualAlone, MemAlone
<1>3. CASE Start(c) \/ Stop(c)
    BY <1>1, <1>2, <1>3 DEF Start, Stop
<1>4. /\ \A p, r : ToManual(c, p, r) => PcAlone /\ ExecAlone /\ ManualAlone
      /\ \A q, r : RestoreManual(c, q, r) => Alone(c)
      /\ \A l : RestoreFlat(c, l) => Alone(c)
      /\ \A p : RestoreStep(c, p) => Alone(c)
      /\ Abort(c) => Alone(c)
      /\ EntryFailed(c) => Alone(c)
      /\ BeginExit(c) => Alone(c)
      /\ Finalize(c) => Alone(c)
      /\ \A r, m : ExitManual(c, r, m) => Alone(c)
    BY <1>1, <1>2 DEF ToManual, RestoreManual, RestoreFlat, RestoreStep, Abort, EntryFailed, BeginExit,
       Finalize, ExitManual
<1>5. CASE Restore(c)
    BY <1>1, <1>2, <1>4, <1>5 DEF Restore, RestoreOrphan, OrphanCancel, RestoreExit, RestoreEntry,
       EntryAsManual, RestoreCancel, RestoreRecheck, RestoreOpen, RestoreStock, RestoreTp
<1>6. CASE Loop(c)
    BY <1>1, <1>2, <1>4, <1>6 DEF Loop, WaitStopped, WaitOver, LoopStop, LoopEnd, PollDegraded, PollIdle,
       PollPreempt, PollAcquire, ManageClose, ManageTakeProfit
<1>7. CASE Enter(c)
    BY <1>1, <1>2, <1>4, <1>7 DEF Enter, SignalAbort, SignalArmed, ArmedAbort, ArmedReady, SubmitRefused,
       SubmitReady, PostAccepted, PostFailed, SaveRow, WaitFilled, WaitBroken, WaitTimedOut, CancelEntry,
       VerifyCancel, VerifyFilled, VerifyNothing, HoldLock, OpenPosition, SaveOpen
<1>8. CASE Exit(c)
    BY <1>1, <1>2, <1>4, <1>8 DEF Exit, ExitCancel, TpCancel, CancelTp, ExitSubmit, ExitMark, TpMark, Mark,
       VerifyTimeout, ExitVerify, ExitRetry, TpSell, SellRest, ExitReverify
<1>9. CASE Broker(c)
    BY <1>1, <1>2, <1>9 DEF Broker, FillEntry, FillStray, FillTp, FillMarket, Filled
<1> QED BY <1>3, <1>5, <1>6, <1>7, <1>8, <1>9 DEF Step

\* The stop flag after a write of mem.
LEMMA StopWritten ==
    ASSUME TypeInv, NEW c \in Codes, NEW m, Mem(c, m)
    PROVE  mem'[c].stop = m.stop
BY Reads

\* A step that makes nobody manual and enters nothing.
LEMMA QuietMoves ==
    ASSUME TypeInv, NEW c \in Codes, Step(c), manual' = manual, Ended(c) => mem'[c].stop,
           lock' \in {lock, Released(c), FreedByRestore(c)},
           InEntry(c)' => InEntry(c) /\ lock' = lock, gate' = gate,
           pc'[c] \in Committed => pc[c] \in Committed \/ gate < MaxTrades
    PROVE  Moves(c)
BY StepAlone DEF Moves, Ended

\* trigger_manual_intervention, wherever it is called.
LEMMA ToManualMoves ==
    ASSUME TypeInv, NEW c \in Codes, Step(c), NEW p \in {"wait", "loop"}, NEW r, ToManual(c, p, r),
           mem'[c].stop, gate' = gate
    PROVE  Moves(c)
<1>1. pc'[c] = p /\ manual'[c] = TRUE /\ lock' = ManualLock(c)
    BY Reads DEF ToManual
<1>2. ~InEntry(c)' /\ p \notin Committed
    BY <1>1, Phases DEF InEntry
<1> QED BY <1>1, <1>2, StepAlone DEF Moves, Ended

\* Every end of a restore.
LEMMA RestoreMoves ==
    ASSUME TypeInv, NEW c \in Codes, Restore(c)
    PROVE  Moves(c)
<1>s. Step(c)
    BY DEF Step
<1>r. {"restore", "orphanCancel", "restoreCancel", "restoreRecheck", "restoreStock", "restoreTp"}
        \subseteq RestorePcs
    BY DEF RestorePcs
<1>1. ASSUME NEW q, NEW r, RestoreManual(c, q, r)
      PROVE  Moves(c)
    <2> DEFINE m == [mem[c] EXCEPT !.pos = q, !.stop = TRUE]
    <2>m. m.stop = TRUE
        BY ValuesTyped DEF MemType
    <2>n. Mem(c, m)
        BY <1>1 DEF RestoreManual
    <2> HIDE DEF m
    <2>1. mem'[c].stop = TRUE
        BY <2>m, <2>n, StopWritten
    <2> QED BY <1>1, <1>s, <2>1, ToManualMoves DEF RestoreManual, Counters
<1>2. ASSUME NEW p \in RestorePcs \cup {"wait"}, Goto(c, p), UNCHANGED <<manual, mem, gate>>,
             lock' \in {lock, Released(c), FreedByRestore(c)}
      PROVE  Moves(c)
    <2>1. pc'[c] = p
        BY <1>2, Reads
    <2>2. p \notin EntryPcs \cup OpenPcs \cup Committed
        BY Phases
    <2> QED BY <1>2, <1>s, <2>1, <2>2, QuietMoves DEF InEntry, Ended
<1>3. CASE RestoreOrphan(c)
    BY <1>1, <1>2, <1>3, <1>r DEF RestoreOrphan, RestoreStep, Counters
<1>4. CASE OrphanCancel(c)
    BY <1>2, <1>4, <1>r DEF OrphanCancel, Counters
<1>5. CASE RestoreExit(c)
    BY <1>1, <1>2, <1>5, <1>r DEF RestoreExit, RestoreFlat, Counters
<1>m. EntryAsManual(c) => Moves(c)
    BY <1>1 DEF EntryAsManual
<1>6. CASE RestoreEntry(c)
    BY <1>1, <1>2, <1>6, <1>m, <1>r DEF RestoreEntry, RestoreStep, Counters
<1>7. CASE RestoreCancel(c)
    BY <1>1, <1>2, <1>7, <1>r DEF RestoreCancel, Counters
<1>8. CASE RestoreRecheck(c)
    BY <1>1, <1>2, <1>8, <1>m, <1>r DEF RestoreRecheck, RestoreFlat, Counters
<1>9. CASE RestoreOpen(c)
    BY <1>2, <1>9, <1>r DEF RestoreOpen, RestoreStep, Counters
<1>10. CASE RestoreStock(c)
    BY <1>2, <1>10, <1>r DEF RestoreStock, RestoreStep, RestoreFlat, Counters
<1>11. CASE RestoreTp(c)
    <2>1. row[c].man \in BOOLEAN /\ manual[c] \in BOOLEAN /\ mem[c].stop \in BOOLEAN
        BY ValuesTyped DEF RowType, MemType
    <2>2. /\ pc'[c] = "wait" /\ gate' = gate
          /\ manual'[c] = (manual[c] \/ row[c].man)
          /\ lock' = IF row[c].man THEN Lock("manual", c) ELSE lock
        BY <1>11, Reads DEF RestoreTp, Counters
    <2>3. mem'[c].stop = (mem[c].stop \/ row[c].man)
        <3>1. PICK m, known : m = [mem[c] EXCEPT !.pos = row[c].qty, !.tp = known, !.stop = @ \/ row[c].man]
                              /\ Mem(c, m)
            BY <1>11 DEF RestoreTp
        <3>2. m.stop = (mem[c].stop \/ row[c].man)
            BY <3>1, ValuesTyped DEF MemType
        <3> QED BY <3>1, <3>2, StopWritten
    <2>4. ~InEntry(c)' /\ "wait" \notin Committed
        BY <2>2, Phases DEF InEntry
    <2> QED BY <1>s, <2>1, <2>2, <2>3, <2>4, StepAlone DEF Moves, Ended
<1> QED BY <1>3, <1>4, <1>5, <1>6, <1>7, <1>8, <1>9, <1>10, <1>11 DEF Restore

\* Starting, stopping, fills, and the waits and polls of a runner.
LEMMA TaskMoves ==
    ASSUME TypeInv, NEW c \in Codes, Start(c) \/ Stop(c) \/ Broker(c)
    PROVE  Moves(c)
<1>s. Step(c)
    BY DEF Step
<1>1. CASE Start(c)
    <2>1. pc'[c] = "restore" /\ ~manual[c] /\ UNCHANGED <<lock, manual, gate>>
        BY <1>1, Reads DEF Start, Counters
    <2>2. "restore" \in RestorePcs
        BY DEF RestorePcs
    <2> QED BY <1>s, <2>1, <2>2, Phases, QuietMoves DEF InEntry, Ended
<1>2. CASE Stop(c)
    <2> DEFINE m == [mem[c] EXCEPT !.stop = TRUE]
    <2>m. m.stop = TRUE
        BY ValuesTyped DEF MemType
    <2>n. Mem(c, m) /\ UNCHANGED <<lock, pc, manual, gate>> /\ ~mem[c].stop
        BY <1>2 DEF Stop, Counters
    <2> HIDE DEF m
    <2>1. mem'[c].stop
        BY <2>m, <2>n, StopWritten
    <2> QED BY <1>s, <2>n, <2>1, StepAlone DEF Moves, Ended, InEntry
<1>3. CASE Broker(c)
    <2>1. UNCHANGED <<lock, pc, manual, mem, gate>>
        BY <1>3 DEF Broker, FillEntry, FillStray, FillTp, FillMarket, Filled, Counters
    <2> QED BY <1>s, <2>1, QuietMoves DEF InEntry, Ended
<1> QED BY <1>1, <1>2, <1>3

\* close_position_market and finalize_flat_transition leave the entries alone.
LEMMA EndsMove ==
    ASSUME TypeInv, NEW c \in Codes, Step(c), BeginExit(c) \/ Finalize(c)
    PROVE  Moves(c)
<1>1. CASE BeginExit(c)
    <2> DEFINE m == [mem[c] EXCEPT !.exiting = TRUE]
    <2>m. m.stop = mem[c].stop
        BY ValuesTyped DEF MemType
    <2>n. Mem(c, m) /\ Goto(c, "exitCancel") /\ UNCHANGED <<lock, manual, gate>>
        BY <1>1 DEF BeginExit, Counters
    <2> HIDE DEF m
    <2>1. pc'[c] = "exitCancel" /\ mem'[c].stop = mem[c].stop /\ UNCHANGED <<lock, manual, gate>>
        BY <2>m, <2>n, StopWritten, Reads
    <2>2. "exitCancel" \in ExitPcs
        BY DEF ExitPcs
    <2> QED BY <2>1, <2>2, Phases, QuietMoves DEF InEntry, Ended
<1>2. CASE Finalize(c)
    <2> DEFINE m == [mem[c] EXCEPT !.pos = 0, !.tp = FALSE, !.exiting = FALSE, !.rest = 0]
    <2>m. m.stop = mem[c].stop
        BY ValuesTyped DEF MemType
    <2>n. Mem(c, m) /\ lock' = Released(c) /\ UNCHANGED <<manual, gate>>
          /\ \E p \in {"loop", "off"} : Goto(c, p)
        BY <1>2 DEF Finalize, Counters
    <2> HIDE DEF m
    <2>1. pc'[c] \in {"loop", "off"} /\ mem'[c].stop = mem[c].stop /\ lock' = Released(c)
          /\ UNCHANGED <<manual, gate>>
        BY <2>m, <2>n, StopWritten, Reads
    <2> QED BY <2>1, Phases, QuietMoves DEF InEntry, Ended
<1> QED BY <1>1, <1>2

\* The waits, the polls and the starts of an exit.
LEMMA LoopMoves ==
    ASSUME TypeInv, NEW c \in Codes, Loop(c)
    PROVE  Moves(c)
<1>s. Step(c)
    BY DEF Step
<1>1. ASSUME NEW p \in {"off", "loop"}, Goto(c, p), UNCHANGED <<lock, manual, mem, gate>>
      PROVE  Moves(c)
    <2>1. pc'[c] = p
        BY <1>1, Reads
    <2> QED BY <1>1, <1>s, <2>1, Phases, QuietMoves DEF InEntry, Ended
<1>2. CASE UNCHANGED <<lock, pc, manual, mem, gate>>
    BY <1>2, <1>s, QuietMoves DEF InEntry, Ended
<1>3. CASE WaitStopped(c) \/ WaitOver(c) \/ LoopEnd(c)
    BY <1>1, <1>3 DEF WaitStopped, WaitOver, LoopEnd, Counters
<1>4. CASE LoopStop(c) \/ ManageClose(c)
    BY <1>1, <1>4, <1>s, EndsMove DEF LoopStop, ManageClose, Counters
<1>5. CASE PollDegraded(c) \/ PollIdle(c)
    BY <1>2, <1>5 DEF PollDegraded, PollIdle, Counters
<1>6. CASE PollPreempt(c)
    <2>1. UNCHANGED <<pc, manual, mem, gate>> /\ pc[c] = "loop"
        BY <1>6 DEF PollPreempt, Flat, Counters
    <2> QED BY <1>6, <1>s, <2>1, Phases, StepAlone DEF Moves, Ended, InEntry
<1>7. CASE PollAcquire(c)
    <2>1. UNCHANGED <<manual, mem, gate>> /\ pc'[c] = "signal"
        BY <1>7, Reads DEF PollAcquire, Counters
    <2>2. "signal" \notin Committed
        BY DEF Committed
    <2> QED BY <1>7, <1>s, <2>1, <2>2, StepAlone DEF Moves, Ended
<1>8. CASE ManageTakeProfit(c)
    <2>1. PICK q \in 1..acct[c].tpf :
             IF q >= mem[c].pos THEN Finalize(c)
             ELSE /\ Mem(c, [mem[c] EXCEPT !.exiting = TRUE, !.rest = mem[c].pos - q])
                  /\ Exec(c, "ExitPartial") /\ Goto(c, "tpCancel")
                  /\ UNCHANGED <<lock, manual, row, acct, Counters>>
        BY <1>8 DEF ManageTakeProfit
    <2>2. CASE q >= mem[c].pos
        BY <1>s, <2>1, <2>2, EndsMove
    <2>3. CASE ~(q >= mem[c].pos)
        <3> DEFINE m == [mem[c] EXCEPT !.exiting = TRUE, !.rest = mem[c].pos - q]
        <3>m. m.stop = mem[c].stop
            BY ValuesTyped DEF MemType
        <3>n. Mem(c, m) /\ Goto(c, "tpCancel") /\ UNCHANGED <<lock, manual, gate>>
            BY <2>1, <2>3 DEF Counters
        <3> HIDE DEF m
        <3>1. pc'[c] = "tpCancel" /\ mem'[c].stop = mem[c].stop /\ UNCHANGED <<lock, manual, gate>>
            BY <3>m, <3>n, StopWritten, Reads
        <3>2. "tpCancel" \in ExitPcs
            BY DEF ExitPcs
        <3> QED BY <1>s, <3>1, <3>2, Phases, QuietMoves DEF InEntry, Ended
    <2> QED BY <2>2, <2>3
<1> QED BY <1>3, <1>4, <1>5, <1>6, <1>7, <1>8 DEF Loop

\* The steps of an entry stay in it or end it; only the fill touches the lock without
\* ending it.
LEMMA EnterMoves ==
    ASSUME TypeInv, NEW c \in Codes, Enter(c)
    PROVE  Moves(c)
<1>s. Step(c)
    BY DEF Step
<1>0. /\ {"signal", "armed", "submit", "post", "saveRow", "fillWait", "cancel", "verify", "hold"}
           \subseteq EntryPcs
      /\ {"placeTp", "saveOpen"} \subseteq OpenPcs
      /\ mem[c] \in MemType
    BY ValuesTyped DEF EntryPcs, OpenPcs
<1>c. /\ {"post", "saveRow", "fillWait", "cancel", "verify", "hold", "placeTp", "saveOpen"} \subseteq Committed
      /\ "armed" \notin Committed /\ "submit" \notin Committed
    BY DEF Committed
<1>1. ASSUME pc[c] \in EntryPcs \cup OpenPcs, NEW p \in EntryPcs \cup OpenPcs, Goto(c, p),
             p \in Committed => pc[c] \in Committed \/ gate < MaxTrades,
             mem[c].stop => mem'[c].stop, UNCHANGED <<lock, manual, gate>>
      PROVE  Moves(c)
    <2>1. pc'[c] = p
        BY <1>1, Reads
    <2> QED BY <1>1, <1>s, <2>1, QuietMoves DEF InEntry, Ended
<1> DEFINE F(q) == [mem[c] EXCEPT !.filled = q]
           S(q) == [mem[c] EXCEPT !.stop = mem[c].stop \/ q]
           T    == [mem[c] EXCEPT !.stop = TRUE]
           R(q) == [mem[c] EXCEPT !.retried = TRUE, !.base = q]
           B(q) == [mem[c] EXCEPT !.base = q]
           P(q) == [mem[c] EXCEPT !.pos = mem[c].filled, !.tp = q]
           A    == [mem[c] EXCEPT !.filled = 0, !.base = 0, !.retried = FALSE]
<1>m. /\ \A q : /\ F(q).stop = mem[c].stop /\ R(q).stop = mem[c].stop
                /\ B(q).stop = mem[c].stop /\ P(q).stop = mem[c].stop
                /\ S(q).stop = (mem[c].stop \/ q)
      /\ T.stop = TRUE /\ A.stop = mem[c].stop
    BY <1>0 DEF MemType
<1>n. /\ mem' = mem => (mem[c].stop => mem'[c].stop)
      /\ \A q : Mem(c, F(q)) \/ Mem(c, S(q)) \/ Mem(c, R(q)) \/ Mem(c, B(q)) \/ Mem(c, P(q))
                   => (mem[c].stop => mem'[c].stop)
      /\ Mem(c, A) => (mem[c].stop => mem'[c].stop)
      /\ Mem(c, T) => mem'[c].stop
    <2> HIDE DEF F, S, T, R, B, P, A
    <2> QED BY <1>m, StopWritten
<1>2. ASSUME pc[c] \in EntryPcs, Abort(c), gate' = gate
      PROVE  Moves(c)
    <2>1. pc'[c] = "loop" /\ lock' = Released(c) /\ manual' = manual /\ Mem(c, A)
        BY <1>2, Reads DEF Abort
    <2> HIDE DEF A
    <2>2. mem[c].stop => mem'[c].stop
        BY <1>n, <2>1
    <2> QED BY <1>2, <1>s, <2>1, <2>2, Phases, QuietMoves DEF InEntry, Ended
<1>3. ASSUME NEW r, ToManual(c, "loop", r), Mem(c, T), gate' = gate
      PROVE  Moves(c)
    <2> HIDE DEF T
    <2>1. mem'[c].stop
        BY <1>3, <1>n
    <2> QED BY <1>3, <1>s, <2>1, ToManualMoves
<1>4. ASSUME EntryFailed(c), pc[c] \in {"submit", "post"}, gate' = gate
      PROVE  Moves(c)
    <2>1. CASE Abort(c)
        BY <1>0, <1>2, <1>4, <2>1
    <2>2. CASE ~Abort(c)
        <3>1. Mem(c, R(0)) /\ Goto(c, "submit") /\ UNCHANGED <<lock, manual>>
            BY <1>4, <2>2 DEF EntryFailed
        <3> HIDE DEF R
        <3> QED BY <1>0, <1>1, <1>4, <1>c, <1>n, <3>1
    <2> QED BY <2>1, <2>2
<1>5. CASE SignalAbort(c) \/ ArmedAbort(c)
    BY <1>0, <1>2, <1>5 DEF SignalAbort, ArmedAbort, Counters
<1>6. CASE SignalArmed(c) \/ ArmedReady(c) \/ PostAccepted(c) \/ CancelEntry(c)
    <2>1. /\ mem' = mem /\ UNCHANGED <<lock, manual, gate>>
          /\ \/ pc[c] = "signal" /\ Goto(c, "armed")
             \/ pc[c] = "armed" /\ Goto(c, "submit")
             \/ pc[c] = "post" /\ Goto(c, "saveRow")
             \/ pc[c] = "cancel" /\ Goto(c, "verify")
        BY <1>6 DEF SignalArmed, ArmedReady, PostAccepted, CancelEntry, Counters
    <2> QED BY <1>0, <1>1, <1>c, <1>n, <2>1
<1>7. CASE SubmitRefused(c)
    BY <1>4, <1>7 DEF SubmitRefused, Counters
<1>8. CASE SubmitReady(c)
    <2>1. Mem(c, B(acct[c].hold)) /\ gate < MaxTrades /\ pc[c] = "submit" /\ Goto(c, "post")
          /\ UNCHANGED <<lock, manual, gate>>
        BY <1>8 DEF SubmitReady, Counters
    <2> HIDE DEF B
    <2> QED BY <1>0, <1>1, <1>n, <2>1
<1>9. CASE PostFailed(c)
    BY <1>4, <1>9 DEF PostFailed
<1>10. CASE SaveRow(c)
    <2>1. CASE ToManual(c, "loop", row[c]) /\ Mem(c, T)
        BY <1>3, <1>10, <2>1 DEF SaveRow, Counters
    <2>2. CASE ~(ToManual(c, "loop", row[c]) /\ Mem(c, T))
        <3>1. /\ \E q : Mem(c, S(q))
              /\ pc[c] = "saveRow" /\ Goto(c, "fillWait") /\ UNCHANGED <<lock, manual, gate>>
            BY <1>10, <2>2 DEF SaveRow, Counters
        <3> HIDE DEF S
        <3> QED BY <1>0, <1>1, <1>c, <1>n, <3>1
    <2> QED BY <2>1, <2>2
<1>11. CASE WaitFilled(c) \/ WaitBroken(c) \/ WaitTimedOut(c)
    <2>1. /\ \E q : Mem(c, F(q))
          /\ pc[c] = "fillWait" /\ (Goto(c, "hold") \/ Goto(c, "cancel")) /\ UNCHANGED <<lock, manual, gate>>
        BY <1>11 DEF WaitFilled, WaitBroken, WaitTimedOut, Counters
    <2> HIDE DEF F
    <2> QED BY <1>0, <1>1, <1>c, <1>n, <2>1
<1>12. CASE VerifyCancel(c)
    <2>1. pc[c] = "verify" /\ gate' = gate
        BY <1>12 DEF VerifyCancel, Counters
    <2>2. ASSUME NEW q, VerifyFilled(c, q)
          PROVE  Moves(c)
        <3>1. Mem(c, F(q)) /\ Goto(c, "hold") /\ UNCHANGED <<lock, manual>>
            BY <2>2 DEF VerifyFilled
        <3> HIDE DEF F
        <3> QED BY <1>0, <1>1, <1>c, <1>n, <2>1, <3>1
    <2>3. ASSUME VerifyNothing(c)
          PROVE  Moves(c)
        BY <1>0, <1>2, <1>3, <2>1, <2>2, <2>3 DEF VerifyNothing
    <2> QED BY <1>12, <2>2, <2>3 DEF VerifyCancel
<1>13. CASE HoldLock(c)
    <2>1. UNCHANGED <<manual, mem, gate>> /\ pc[c] = "hold" /\ pc'[c] = "placeTp"
        BY <1>13, Reads DEF HoldLock, Counters
    <2> QED BY <1>13, <1>c, <1>s, <2>1, StepAlone DEF Moves, Ended
<1>14. CASE OpenPosition(c)
    <2>1. /\ \E q : Mem(c, P(q))
          /\ pc[c] = "placeTp" /\ Goto(c, "saveOpen") /\ UNCHANGED <<lock, manual, gate>>
        BY <1>14 DEF OpenPosition, Counters
    <2> HIDE DEF P
    <2> QED BY <1>0, <1>1, <1>c, <1>n, <2>1
<1>15. CASE SaveOpen(c)
    <2>1. Mem(c, A) /\ pc'[c] = "loop" /\ UNCHANGED <<lock, manual>>
        BY <1>15, Reads DEF SaveOpen
    <2> HIDE DEF A
    <2>2. mem[c].stop => mem'[c].stop
        BY <1>n, <2>1
    <2> QED BY <1>15, <1>s, <2>1, <2>2, Phases, StepAlone DEF Moves, Ended, InEntry
<1> QED BY <1>5, <1>6, <1>7, <1>8, <1>9, <1>10, <1>11, <1>12, <1>13, <1>14, <1>15 DEF Enter

\* The steps of an exit enter nothing.
LEMMA ExitMoves ==
    ASSUME TypeInv, NEW c \in Codes, Exit(c)
    PROVE  Moves(c)
<1>s. Step(c)
    BY DEF Step
<1>0. /\ {"exitCancel", "exitSubmit", "exitMark", "exitVerify", "exitRetry",
           "tpCancel", "tpSell", "tpMark", "reverify"} \subseteq ExitPcs
      /\ mem[c] \in MemType
    BY ValuesTyped DEF ExitPcs
<1>1. ASSUME NEW p \in ExitPcs \cup {"loop"}, Goto(c, p), UNCHANGED <<lock, manual, gate>>,
             mem'[c].stop = mem[c].stop
      PROVE  Moves(c)
    <2>1. pc'[c] = p
        BY <1>1, Reads
    <2>2. p \notin EntryPcs \cup OpenPcs \cup Committed
        BY Phases
    <2> QED BY <1>1, <1>s, <2>1, <2>2, QuietMoves DEF InEntry, Ended
<1>2. ASSUME NEW r, NEW m \in MemType, ExitManual(c, r, m)
      PROVE  Moves(c)
    <2> DEFINE n == [m EXCEPT !.stop = TRUE, !.rest = 0]
    <2>1. n.stop = TRUE
        BY DEF MemType
    <2>2. ToManual(c, "loop", r) /\ Mem(c, n) /\ gate' = gate
        BY <1>2 DEF ExitManual, Counters
    <2> HIDE DEF n
    <2>3. mem'[c].stop
        BY <2>1, <2>2, StopWritten
    <2> QED BY <1>s, <2>2, <2>3, ToManualMoves
<1>3. CASE ExitCancel(c) \/ TpCancel(c)
    BY <1>0, <1>1, <1>3 DEF ExitCancel, TpCancel, CancelTp, Counters
<1>4. CASE ExitMark(c) \/ TpMark(c)
    BY <1>0, <1>1, <1>4 DEF ExitMark, TpMark, Mark, Counters
<1>5. CASE ExitRetry(c) \/ TpSell(c)
    BY <1>0, <1>1, <1>2, <1>5 DEF ExitRetry, TpSell, SellRest, Counters
<1>6. CASE ExitSubmit(c)
    <2> DEFINE m == [mem[c] EXCEPT !.exiting = FALSE, !.tp = FALSE]
    <2>1. m \in MemType
        BY <1>0 DEF MemType
    <2> HIDE DEF m
    <2>2. CASE ExitManual(c, [row[c] EXCEPT !.tp = FALSE], m)
        BY <1>2, <2>1, <2>2
    <2>3. CASE ~ExitManual(c, [row[c] EXCEPT !.tp = FALSE], m)
        BY <1>0, <1>1, <1>6, <2>3 DEF ExitSubmit, Counters, m
    <2> QED BY <2>2, <2>3
<1>7. CASE VerifyTimeout(c)
    BY <1>0, <1>1, <1>2, <1>7 DEF VerifyTimeout, Counters
<1>8. CASE ExitVerify(c)
    <2>1. CASE Finalize(c)
        BY <1>s, <2>1, EndsMove
    <2>2. CASE ExitManual(c, row[c], mem[c])
        BY <1>0, <1>2, <2>2
    <2>3. CASE ~Finalize(c) /\ ~ExitManual(c, row[c], mem[c])
        <3> DEFINE m == [mem[c] EXCEPT !.rest = acct[c].hold]
        <3>1. m.stop = mem[c].stop
            BY <1>0 DEF MemType
        <3>2. Mem(c, m) /\ Goto(c, "exitRetry") /\ UNCHANGED <<lock, manual, gate>>
            BY <1>8, <2>3 DEF ExitVerify, Counters
        <3> HIDE DEF m
        <3>3. mem'[c].stop = mem[c].stop
            BY <3>1, <3>2, StopWritten
        <3> QED BY <1>0, <1>1, <3>2, <3>3
    <2> QED BY <2>1, <2>2, <2>3
<1>9. CASE ExitReverify(c)
    <2>1. CASE Finalize(c)
        BY <1>s, <2>1, EndsMove
    <2>2. CASE ExitManual(c, row[c], mem[c])
        BY <1>0, <1>2, <2>2
    <2> QED BY <1>9, <2>1, <2>2 DEF ExitReverify
<1> QED BY <1>3, <1>4, <1>5, <1>6, <1>7, <1>8, <1>9 DEF Exit

\* Every step of every runner.
LEMMA StepMoves ==
    ASSUME TypeInv, NEW c \in Codes, Step(c)
    PROVE  Moves(c)
BY TaskMoves, RestoreMoves, LoopMoves, EnterMoves, ExitMoves DEF Step

-----------------------------------------------------------------------------
\* The invariant beside the reconciliation.

\* The program trades two ETFs.
TwoCodes == \A a, b, d \in Codes : a = b \/ a = d \/ b = d

\* A code made manual while its restore is under way takes the lock of the code that buys
\* with it, and the restore then gives it back: while a code buys, the lock is its own,
\* or ManualHeld, or every other code has ended.
BuyerInv ==
    \A c \in Codes : InEntry(c) =>
        \/ lock.kind = "manual"
        \/ lock.kind \in {"pending", "held"} /\ lock.code = c
        \/ \A d \in Codes \ {c} : Ended(d)

EndedInv == lock.kind = "manual" => lock.code \in Codes /\ Ended(lock.code)

\* Between the two writes of enter_manual_intervention_state the runner is manual.
SeizedInv == check.at = "seize" => check.code \in Codes /\ manual[check.code]

ExclusionInv == BuyerInv /\ EntryExclusive /\ EndedInv /\ GateInv

\* The lock after a move of c that is not the fill of an entry.
LEMMA LockMoves ==
    ASSUME TypeInv, ExclusionInv, TwoCodes, NEW c \in Codes, Moves(c), ~PollAcquire(c), ~HoldLock(c),
           NEW e \in Codes \ {c}, InEntry(e)
    PROVE  \/ lock'.kind = "manual"
           \/ lock'.kind \in {"pending", "held"} /\ lock'.code = e
           \/ \A d \in Codes \ {e} : Ended(d)'
<1>0. lock.code \in Codes \cup {NoCode} /\ lock.kind \in LockKinds
    BY DEF TypeInv, LockOK, LockType
<1>1. CASE \A d \in Codes \ {e} : Ended(d)
    BY <1>1 DEF Moves, Alone, Ended
<1>2. PollPreempt(c) => lock'.kind = lock.kind /\ lock'.code = lock.code
    BY DEF PollPreempt, TypeInv, LockOK, LockType
<1>3. CASE lock.kind = "manual"
    <2>1. CASE lock.code = c
        <3>1. Ended(c)'
            BY <1>3, <2>1 DEF ExclusionInv, EndedInv, Moves, Ended
        <3>2. \A d \in Codes \ {e} : d = c
            BY DEF TwoCodes
        <3> QED BY <3>1, <3>2
    <2>2. CASE lock.code # c
        BY <1>2, <1>3, <2>2, LockFields DEF Moves
    <2> QED BY <2>1, <2>2
<1>4. CASE lock.kind \in {"pending", "held"} /\ lock.code = e
    BY <1>2, <1>4, LockFields DEF Moves
<1> QED BY <1>1, <1>3, <1>4 DEF ExclusionInv, BuyerInv

\* A code that is not in an entry comes into one only by taking a free lock, and while it
\* is free no other code is in one.
LEMMA EntersAlone ==
    ASSUME TypeInv, ExclusionInv, NEW c \in Codes, PollAcquire(c)
    PROVE  \A d \in Codes : ~InEntry(d)
<1>1. lock.kind = "free" /\ ~mem[c].stop /\ pc[c] = "loop"
    BY DEF PollAcquire, Flat
<1>2. ~InEntry(c)
    BY <1>1, Phases DEF InEntry
<1>3. ASSUME NEW d \in Codes \ {c}, InEntry(d)
      PROVE  FALSE
    BY <1>1, <1>3 DEF ExclusionInv, BuyerInv, Ended
<1> QED BY <1>2, <1>3

\* Every move keeps the exclusion, and is one of the moves of the slot.
LEMMA MovesKeep ==
    ASSUME TypeInv, ExclusionInv, TwoCodes, NEW c \in Codes, Moves(c)
    PROVE  /\ ExclusionInv'
           /\ \/ (\A d \in Codes : InEntry(d)' => InEntry(d)) /\ gate' = gate
              \/ (\A d \in Codes : ~InEntry(d)) /\ gate' = gate
              \/ /\ \E d \in Codes : InEntry(d)
                 /\ \A d \in Codes : ~InEntry(d)'
                 /\ gate < MaxTrades /\ gate' = gate + 1
<1>a. \A d \in Codes \ {c} : (InEntry(d)' <=> InEntry(d)) /\ (Ended(d)' <=> Ended(d))
    BY DEF Moves, Alone, InEntry, Ended
<1>b. Ended(c) => Ended(c)'
    BY DEF Moves, Ended
<1>h. HoldLock(c) => /\ InEntry(c) /\ InEntry(c)' /\ gate' = gate
                     /\ lock'.kind = "held" /\ lock'.code = c
    BY Reads DEF HoldLock, InEntry, EntryPcs, OpenPcs, Counters, Lock
<1>p. PollAcquire(c) => /\ lock'.kind = "pending" /\ lock'.code = c /\ gate' = gate
                        /\ pc'[c] \notin Committed
    BY Reads DEF PollAcquire, Counters, Lock, Committed
<1>v. SaveOpen(c) => /\ InEntry(c) /\ ~InEntry(c)' /\ pc[c] \in Committed
                     /\ gate' = gate + 1
    BY Reads, Phases DEF SaveOpen, InEntry, OpenPcs, Committed
<1>1. EntryExclusive'
    <2> SUFFICES ASSUME NEW a \in Codes, NEW b \in Codes, InEntry(a)', InEntry(b)'
                 PROVE  a = b
        BY DEF EntryExclusive
    <2>1. CASE PollAcquire(c)
        BY <1>a, <2>1, EntersAlone
    <2>2. CASE ~PollAcquire(c)
        <3>1. InEntry(a) /\ InEntry(b)
            BY <1>a, <1>h, <2>2 DEF Moves
        <3> QED BY <3>1 DEF ExclusionInv, EntryExclusive
    <2> QED BY <2>1, <2>2
<1>2. BuyerInv'
    <2> SUFFICES ASSUME NEW e \in Codes, InEntry(e)'
                 PROVE  \/ lock'.kind = "manual"
                        \/ lock'.kind \in {"pending", "held"} /\ lock'.code = e
                        \/ \A d \in Codes \ {e} : Ended(d)'
        BY DEF BuyerInv
    <2>1. CASE e = c
        <3>1. CASE PollAcquire(c) \/ HoldLock(c)
            BY <1>h, <1>p, <2>1, <3>1
        <3>2. CASE ~PollAcquire(c) /\ ~HoldLock(c)
            <4>1. InEntry(c) /\ lock' \in {lock, ManualLock(c)}
                BY <2>1, <3>2 DEF Moves
            <4> QED BY <1>a, <2>1, <4>1, LockFields DEF ExclusionInv, BuyerInv
        <3> QED BY <3>1, <3>2
    <2>2. CASE e # c
        <3>1. InEntry(e)
            BY <1>a, <2>2
        <3>2. ~PollAcquire(c)
            BY <3>1, EntersAlone
        <3>3. ~HoldLock(c)
            BY <1>h, <2>2, <3>1 DEF ExclusionInv, EntryExclusive
        <3> QED BY <2>2, <3>1, <3>2, <3>3, LockMoves
    <2> QED BY <2>1, <2>2
<1>3. EndedInv'
    <2> SUFFICES ASSUME lock'.kind = "manual"
                 PROVE  lock'.code \in Codes /\ manual'[lock'.code] /\ mem'[lock'.code].stop
        BY DEF EndedInv, Ended
    <2>1. CASE lock'.kind = lock.kind /\ lock'.code = lock.code
        BY <1>a, <1>b, <2>1 DEF ExclusionInv, EndedInv, Ended
    <2>2. CASE ~(lock'.kind = lock.kind /\ lock'.code = lock.code)
        <3>1. ~PollPreempt(c)
            BY <2>2 DEF PollPreempt, TypeInv, LockOK, LockType
        <3>2. lock'.code = c /\ Ended(c)'
            BY <1>h, <1>p, <2>2, <3>1, LockFields DEF Moves
        <3> QED BY <3>2 DEF Ended
    <2> QED BY <2>1, <2>2
<1>4. GateInv'
    <2>1. CASE SaveOpen(c)
        <3>1. gate < MaxTrades /\ \A d \in Codes : ~InEntry(d)'
            BY <1>a, <1>v, <2>1 DEF ExclusionInv, GateInv, EntryExclusive
        <3>2. gate' <= MaxTrades
            BY <1>v, <2>1, <3>1, LimitsAssumption DEF TypeInv, CountsOK
        <3> QED BY <3>1, <3>2, Phases DEF GateInv, InEntry
    <2>2. CASE ~SaveOpen(c)
        BY <2>2 DEF ExclusionInv, GateInv, Moves, Alone
    <2> QED BY <2>1, <2>2
<1>5. \/ (\A d \in Codes : InEntry(d)' => InEntry(d)) /\ gate' = gate
      \/ (\A d \in Codes : ~InEntry(d)) /\ gate' = gate
      \/ /\ \E d \in Codes : InEntry(d)
         /\ \A d \in Codes : ~InEntry(d)'
         /\ gate < MaxTrades /\ gate' = gate + 1
    <2>1. CASE SaveOpen(c)
        BY <1>a, <1>v, <2>1 DEF ExclusionInv, GateInv, EntryExclusive
    <2>2. CASE PollAcquire(c)
        BY <1>p, <2>2, EntersAlone
    <2>3. CASE ~SaveOpen(c) /\ ~PollAcquire(c)
        BY <1>a, <1>h, <2>3 DEF Moves
    <2> QED BY <2>1, <2>2, <2>3
<1> QED BY <1>1, <1>2, <1>3, <1>4, <1>5 DEF ExclusionInv

\* The check moves a runner when it makes it manual, and nothing else.
LEMMA ReconcileMoves ==
    ASSUME RTypeInv, SeizedInv, Reconcile
    PROVE  \/ UNCHANGED <<lock, pc, exec, manual, mem, gate>>
           \/ \E c \in Codes : Moves(c) /\ manual'[c]
<1>t. TypeInv
    BY DEF RTypeInv
<1>1. ASSUME NEW c \in Codes, Flag(c)
      PROVE  Moves(c) /\ manual'[c]
    <2>1. manual'[c] = TRUE /\ Alone(c) /\ UNCHANGED <<lock, pc, mem, gate>>
        <3>1. Manual(c, TRUE) /\ Exec(c, "ManualIntervention") /\ UNCHANGED <<lock, pc, mem, gate>>
            BY <1>1 DEF Flag, Counters
        <3> QED BY <1>t, <3>1, Reads DEF Alone
    <2> QED BY <2>1 DEF Moves, Ended, InEntry
<1>2. ASSUME NEW c \in Codes, Seize(c)
      PROVE  Moves(c) /\ manual'[c]
    <2> DEFINE m == [mem[c] EXCEPT !.stop = TRUE]
    <2>m. m.stop = TRUE
        BY <1>t, ValuesTyped DEF MemType
    <2>1. Mem(c, m) /\ lock' = ManualLock(c) /\ UNCHANGED <<pc, exec, manual, gate>> /\ manual[c]
        BY <1>2 DEF Seize, SeizedInv, Counters
    <2> HIDE DEF m
    <2>2. mem'[c].stop /\ Alone(c)
        BY <1>t, <2>m, <2>1, Reads DEF Alone
    <2> QED BY <2>1, <2>2 DEF Moves, Ended, InEntry
<1>3. ASSUME NEW c \in Codes, Fetch \/ Compare(c) \/ Confirm(c) \/ Persist(c)
      PROVE  UNCHANGED <<lock, pc, exec, manual, mem, gate>>
    BY <1>3 DEF Fetch, Compare, Confirm, Persist, vars, Counters
<1>4. CASE Fetch
    BY <1>4 DEF Fetch, vars
<1> QED BY <1>1, <1>2, <1>3, <1>4 DEF Reconcile

\* The check seizes a runner only after it made it manual.
LEMMA SeizedKeeps ==
    ASSUME RTypeInv, SeizedInv, [RNext]_rvars
    PROVE  SeizedInv'
<1>t. TypeInv /\ check \in CheckType
    BY DEF RTypeInv
<1>1. CASE Reconcile
    <2>1. ASSUME NEW c \in Codes, Done(c)
          PROVE  check'.at # "seize"
        BY <1>t, <2>1 DEF Done, NoCheck, CheckType
    <2>2. CASE Fetch
        BY <1>t, <2>2 DEF Fetch, CheckType, SeizedInv
    <2>3. ASSUME NEW c \in Codes, Compare(c)
          PROVE  check'.at # "seize"
        BY <1>t, <2>1, <2>3 DEF Compare, Differs, CheckType
    <2>4. ASSUME NEW c \in Codes, Confirm(c)
          PROVE  check'.at # "seize"
        BY <1>t, <2>1, <2>4 DEF Confirm, Inquired, Verdict, CheckType
    <2>5. ASSUME NEW c \in Codes, Flag(c)
          PROVE  SeizedInv'
        <3>1. check.code = c /\ check'.code = check.code
            BY <1>t, <2>5 DEF Flag, CheckType
        <3>2. Manual(c, TRUE)
            BY <2>5 DEF Flag
        <3>3. manual'[c] = TRUE
            BY <1>t, <3>2 DEF Manual, TypeInv, ManualOK
        <3> QED BY <3>1, <3>3 DEF SeizedInv
    <2>6. ASSUME NEW c \in Codes, Seize(c)
          PROVE  check'.at # "seize"
        BY <1>t, <2>6 DEF Seize, CheckType
    <2>7. ASSUME NEW c \in Codes, Persist(c)
          PROVE  check'.at # "seize"
        BY <2>1, <2>7 DEF Persist
    <2> QED BY <1>1, <2>2, <2>3, <2>4, <2>5, <2>6, <2>7 DEF Reconcile, SeizedInv
<1>2. CASE Runners
    <2>1. check' = check
        BY <1>2, SomeStep
    <2>2. PICK c \in Codes : Step(c)
        BY <1>2, SomeStep
    <2>3. \A d \in Codes : manual[d] => manual'[d]
        BY <1>t, <2>2, StepMoves DEF Moves, Alone
    <2> QED BY <2>1, <2>3 DEF SeizedInv
<1>3. CASE UNCHANGED rvars
    BY <1>3 DEF rvars, vars, SeizedInv
<1> QED BY <1>1, <1>2, <1>3 DEF RNext

LEMMA SeizedHolds == RSpec => []SeizedInv
<1>1. RInit => SeizedInv
    BY DEF RInit, NoCheck, SeizedInv
<1> QED BY <1>1, SeizedKeeps, RTypesHold, PTL DEF RSpec

\* Every step of the composition keeps the exclusion of two codes.
LEMMA RStepKeeps ==
    ASSUME TwoCodes, RTypeInv, SeizedInv, ExclusionInv, [RNext]_rvars
    PROVE  /\ ExclusionInv'
           /\ \/ (\A d \in Codes : InEntry(d)' => InEntry(d)) /\ gate' = gate
              \/ (\A d \in Codes : ~InEntry(d)) /\ gate' = gate
              \/ /\ \E d \in Codes : InEntry(d)
                 /\ \A d \in Codes : ~InEntry(d)'
                 /\ gate < MaxTrades /\ gate' = gate + 1
<1>t. TypeInv
    BY DEF RTypeInv
<1>1. CASE \E c \in Codes : Moves(c)
    BY <1>1, <1>t, MovesKeep
<1>2. CASE UNCHANGED <<lock, pc, exec, manual, mem, gate>>
    BY <1>2 DEF ExclusionInv, BuyerInv, EntryExclusive, EndedInv, GateInv, InEntry, Ended
<1>3. CASE Runners
    BY <1>1, <1>3, <1>t, SomeStep, StepMoves
<1>4. CASE UNCHANGED rvars
    BY <1>2, <1>4 DEF rvars, vars
<1> QED BY <1>1, <1>2, <1>3, <1>4, ReconcileMoves DEF RNext

\* The inductive invariant of the composition.
LEMMA ExclusionHolds ==
    ASSUME TwoCodes
    PROVE  RSpec => []ExclusionInv
<1>1. RInit => ExclusionInv
    <2> SUFFICES ASSUME RInit PROVE ExclusionInv
        OBVIOUS
    <2>1. lock.kind = "free" /\ gate = 0
        BY DEF RInit, Init, NoLock, Lock
    <2>2. (\A d \in Codes : ~InEntry(d)) /\ GateInv
        BY InitHolds DEF RInit, IndInv
    <2> QED BY <2>1, <2>2 DEF ExclusionInv, BuyerInv, EntryExclusive, EndedInv
<1>2. RTypeInv /\ SeizedInv /\ ExclusionInv /\ [RNext]_rvars => ExclusionInv'
    BY RStepKeeps
<1> QED BY <1>1, <1>2, RTypesHold, SeizedHolds, PTL DEF RSpec

\* Beside the reconciliation, which may make a runner manual in the middle of an entry and
\* overwrite the Pending lock of the other, at most one of two codes is between taking the
\* lock and counting the trade.  With a third code it would not hold.
THEOREM ReconciledExclusion ==
    ASSUME TwoCodes
    PROVE  RSpec => []EntryExclusive
<1>1. ExclusionInv => EntryExclusive
    BY DEF ExclusionInv
<1> QED BY <1>1, ExclusionHolds, PTL

\* Nor is the daily limit of the trade gate passed.
THEOREM ReconciledGate ==
    ASSUME TwoCodes
    PROVE  RSpec => []GateRespected
<1>1. ExclusionInv => GateRespected
    BY DEF ExclusionInv, GateInv, GateRespected
<1> QED BY <1>1, ExclusionHolds, PTL

\* The runners and the reconciliation together implement the trade slot.
THEOREM ReconciledSlot ==
    ASSUME TwoCodes
    PROVE  RSpec => ImplementsTradeSlot
<1>1. RInit => Slot!Init
    BY InitHolds, OwnerIs DEF RInit, OwnerOf, IndInv, SlotInv, Slot!Init
<1>2. ASSUME RTypeInv, SeizedInv, ExclusionInv, ExclusionInv', [RNext]_rvars
      PROVE  [Slot!Next]_<<SlotOwner, gate>>
    <2>0. EntryExclusive /\ EntryExclusive'
        BY <1>2 DEF ExclusionInv
    <2>1. /\ \A c \in Codes : InEntry(c) => SlotOwner = c /\ SlotOwner # NoCode
          /\ (\A c \in Codes : ~InEntry(c)) => SlotOwner = NoCode
          /\ \A c \in Codes : InEntry(c)' => SlotOwner' = c
          /\ (\A c \in Codes : ~InEntry(c)') => SlotOwner' = NoCode
        BY <2>0, OwnerIs, OwnerWillBe, CodesAssumption DEF OwnerOf
    <2>2. CASE (\A d \in Codes : InEntry(d)' => InEntry(d)) /\ gate' = gate
        <3>1. SlotOwner' = SlotOwner \/ (SlotOwner # NoCode /\ SlotOwner' = NoCode)
            BY <2>1, <2>2
        <3> QED BY <2>2, <3>1 DEF Slot!Next, Slot!GiveUp
    <2>3. CASE (\A d \in Codes : ~InEntry(d)) /\ gate' = gate
        <3>1. SlotOwner = NoCode /\ (SlotOwner' = NoCode \/ SlotOwner' \in Codes)
            BY <2>1, <2>3
        <3> QED BY <2>3, <3>1 DEF Slot!Next, Slot!Take
    <2>4. CASE /\ \E d \in Codes : InEntry(d)
               /\ \A d \in Codes : ~InEntry(d)'
               /\ gate < MaxTrades /\ gate' = gate + 1
        BY <2>1, <2>4 DEF Slot!Next, Slot!Open
    <2> QED BY <1>2, <2>2, <2>3, <2>4, RStepKeeps
<1> QED BY <1>1, <1>2, RTypesHold, SeizedHolds, ExclusionHolds, PTL
    DEF RSpec, ImplementsTradeSlot, Slot!Spec

-----------------------------------------------------------------------------
\* A runner that is not manual is as right as without the reconciliation.
RunnersInv == \A c \in Codes : manual[c] \/ RunnerInv(c)

\* Its own steps keep it so.
LEMMA RunnersKeep ==
    ASSUME TypeInv, RunnersInv, NEW c \in Codes, Step(c)
    PROVE  RunnersInv'
<1>1. Moves(c)
    BY StepMoves
<1>2. \A d \in Codes \ {c} : manual'[d] \/ RunnerInv(d)'
    BY <1>1 DEF RunnersInv, Moves, Alone, RunnerInv
<1>3. CASE manual[c]
    BY <1>1, <1>2, <1>3 DEF RunnersInv, Moves
<1>4. CASE ~manual[c]
    <2>1. RunnerInv(c)
        BY <1>4 DEF RunnersInv
    <2>2. RunnerInv(c)'
        BY <2>1, TaskHarmless, RestoreHarmless, LoopHarmless, EnterHarmless, ExitHarmless, SlotRunner DEF Step
    <2> QED BY <1>2, <2>2 DEF RunnersInv
<1> QED BY <1>3, <1>4

\* No runner is left in its loop with exit_pending set unless an operator was called, also
\* when the check finds it in the middle of an exit and takes the actor's state away.
THEOREM ReconciledExits == RSpec => []NoStrandedExit
<1>1. RInit => RunnersInv
    BY InitHolds DEF RInit, IndInv, RunnersInv
<1>2. ASSUME RTypeInv, SeizedInv, RunnersInv, [RNext]_rvars
      PROVE  RunnersInv'
    <2>t. TypeInv
        BY <1>2 DEF RTypeInv
    <2>1. ASSUME NEW c \in Codes, Moves(c), manual'[c]
          PROVE  RunnersInv'
        BY <1>2, <2>1 DEF RunnersInv, Moves, Alone, RunnerInv
    <2>2. CASE UNCHANGED <<lock, pc, exec, manual, mem, gate>>
        BY <1>2, <2>2 DEF RunnersInv, RunnerInv
    <2>3. CASE Reconcile
        BY <1>2, <2>1, <2>2, <2>3, ReconcileMoves
    <2>4. CASE Runners
        BY <1>2, <2>4, <2>t, SomeStep, RunnersKeep
    <2>5. CASE UNCHANGED rvars
        BY <2>2, <2>5 DEF rvars, vars
    <2> QED BY <1>2, <2>3, <2>4, <2>5 DEF RNext
<1>3. RunnersInv => NoStrandedExit
    <2> SUFFICES ASSUME RunnersInv, NEW c \in Codes, mem[c].exiting, pc[c] \in {"wait", "loop", "off"}
                 PROVE  manual[c]
        BY DEF NoStrandedExit
    <2>1. pc[c] \notin ExitPcs
        BY Phases
    <2> QED BY <2>1 DEF RunnersInv, RunnerInv
<1> QED BY <1>1, <1>2, <1>3, RTypesHold, SeizedHolds, PTL DEF RSpec
=============================================================================
