-------------------------- MODULE LiveRunnerProofs --------------------------
(***************************************************************************)
(* What holds of the live runners for any number of codes, shares, trades   *)
(* and faults: type correctness, whose arithmetic part is that no sell      *)
(* order, take-profit or market, ever promises shares that are not held;    *)
(* the inductive invariant, the safety properties that follow from it, and  *)
(* the refinement of TradeSlot.                                             *)
(***************************************************************************)
EXTENDS LiveRunner, ActorLemmas

-----------------------------------------------------------------------------
\* Types.  Covered: no more shares are on sale than are held.

Covered(a) == a.hold >= a.tpq + a.mkt

LockOK   == lock \in LockType
PcOK     == pc \in [Codes -> Pcs]
ExecOK   == exec \in [Codes -> ExecStates]
ManualOK == manual \in [Codes -> BOOLEAN]
MemOK    == mem \in [Codes -> MemType]
RowOK    == row \in [Codes -> RowType]
AcctOK   == acct \in [Codes -> AcctType] /\ \A c \in Codes : Covered(acct[c])
CountsOK == gate \in Nat /\ orders \in Nat /\ crashes \in Nat
TypeInv  == LockOK /\ PcOK /\ ExecOK /\ ManualOK /\ MemOK /\ RowOK /\ AcctOK /\ CountsOK

\* What the steps write has the type of what they read.
LEMMA ValuesTyped ==
    ASSUME TypeInv, NEW c \in Codes
    PROVE  /\ NoLock \in LockType
           /\ \A k \in LockKinds : Lock(k, c) \in LockType
           /\ Released(c) \in LockType /\ FreedByRestore(c) \in LockType /\ ManualLock(c) \in LockType
           /\ NoRow \in RowType
           /\ \A r \in RowType : ManualRow(r) \in RowType
           /\ \A q \in Nat, b \in BOOLEAN, st \in {"entry_pending", "open", "manual_intervention"} :
                SavedRow(c, st, q, b) \in RowType
           /\ MarkedRow(c, "exit_pending") \in RowType
           /\ NewMem \in MemType
           /\ mem[c] \in MemType /\ row[c] \in RowType
           /\ acct[c] \in AcctType /\ Covered(acct[c])
           /\ manual[c] \in BOOLEAN
           /\ \A e : After(exec[c], e) \in ExecStates
BY AfterTyped, ZenonT(30) DEF TypeInv, LockOK, ExecOK, ManualOK, MemOK, RowOK, AcctOK, LockType, LockKinds,
   NoLock, Lock, Released, FreedByRestore, ManualLock, RowType, NoRow, ManualRow, SavedRow, MarkedRow,
   NewMem, MemType

\* The names of the program counters, states and locks the actions write.
LEMMA NamesTyped ==
    /\ \A p \in {"off", "wait", "loop"} : p \in Pcs
    /\ "restore" \in Pcs /\ "orphanCancel" \in Pcs /\ "restoreCancel" \in Pcs
    /\ "restoreRecheck" \in Pcs /\ "restoreStock" \in Pcs /\ "restoreTp" \in Pcs
    /\ "signal" \in Pcs /\ "armed" \in Pcs /\ "submit" \in Pcs /\ "post" \in Pcs
    /\ "saveRow" \in Pcs /\ "fillWait" \in Pcs /\ "cancel" \in Pcs /\ "verify" \in Pcs
    /\ "hold" \in Pcs /\ "placeTp" \in Pcs /\ "saveOpen" \in Pcs
    /\ "exitCancel" \in Pcs /\ "exitSubmit" \in Pcs /\ "exitMark" \in Pcs /\ "exitVerify" \in Pcs
    /\ "exitRetry" \in Pcs /\ "tpCancel" \in Pcs /\ "tpSell" \in Pcs /\ "tpMark" \in Pcs
    /\ "reverify" \in Pcs
    /\ "off" \in Pcs /\ "wait" \in Pcs /\ "loop" \in Pcs
    /\ "Flat" \in ExecStates /\ "Open" \in ExecStates /\ "Degraded" \in ExecStates
    /\ "EntryPartial" \in ExecStates /\ "ExitPartial" \in ExecStates
    /\ "ManualIntervention" \in ExecStates
    /\ "free" \in LockKinds /\ "pending" \in LockKinds /\ "held" \in LockKinds /\ "manual" \in LockKinds
BY DEF Pcs, RestorePcs, EntryPcs, OpenPcs, ExitPcs, ExecStates, LockKinds

\* A write of a typed value, or none, keeps the variable's type.
LEMMA Writes ==
    ASSUME TypeInv, NEW c \in Codes
    PROVE  /\ lock' \in LockType => LockOK'
           /\ lock' = lock => LockOK'
           /\ pc' = pc => PcOK'
           /\ exec' = exec => ExecOK'
           /\ manual' = manual => ManualOK'
           /\ mem' = mem => MemOK'
           /\ row' = row => RowOK'
           /\ acct' = acct => AcctOK'
           /\ gate' = gate /\ orders' = orders /\ crashes' = crashes => CountsOK'
           /\ \A m \in MemType : Mem(c, m) => MemOK'
           /\ \A p \in Pcs : Goto(c, p) => PcOK'
           /\ \A s \in ExecStates : Exec(c, s) => ExecOK'
           /\ \A b \in BOOLEAN : Manual(c, b) => ManualOK'
           /\ \A r \in RowType : (Row(c, r) => RowOK') /\ (WriteRow(c, r) => RowOK')
           /\ \A a \in AcctType : Covered(a) /\ Acct(c, a) => AcctOK'
BY DEF TypeInv, LockOK, PcOK, ExecOK, ManualOK, MemOK, RowOK, AcctOK, CountsOK,
   Mem, Goto, Exec, Manual, Row, WriteRow, Acct

\* The helpers the actions share.
LEMMA ToManualTyped ==
    ASSUME TypeInv, NEW c \in Codes, NEW p \in Pcs, NEW r \in RowType, ToManual(c, p, r)
    PROVE  LockOK' /\ PcOK' /\ ExecOK' /\ ManualOK' /\ RowOK'
BY ValuesTyped, NamesTyped, Writes DEF ToManual

\* The shared ends of the restore paths keep the types.
LEMMA RestoreEndsTyped ==
    ASSUME TypeInv, NEW c \in Codes
    PROVE  /\ \A q \in Nat, r \in RowType : RestoreManual(c, q, r) => TypeInv'
           /\ \A l \in LockType : RestoreFlat(c, l) => TypeInv'
           /\ \A p \in Pcs : RestoreStep(c, p) => TypeInv'
<1>1. ASSUME NEW q \in Nat, NEW r \in RowType, RestoreManual(c, q, r)
      PROVE  TypeInv'
    <2>1. MemOK'
        BY <1>1, ValuesTyped, Writes DEF RestoreManual, MemType
    <2> QED BY <1>1, <2>1, ToManualTyped, NamesTyped, Writes DEF RestoreManual, TypeInv, Counters
<1>2. ASSUME NEW l \in LockType, RestoreFlat(c, l)
      PROVE  TypeInv'
    BY <1>2, ValuesTyped, NamesTyped, Writes DEF RestoreFlat, TypeInv, Counters
<1>3. ASSUME NEW p \in Pcs, RestoreStep(c, p)
      PROVE  TypeInv'
    BY <1>3, Writes DEF RestoreStep, TypeInv, Counters
<1> QED BY <1>1, <1>2, <1>3

\* Cancelling live orders of a code frees the shares they promised.
LEMMA CancelledTyped ==
    ASSUME NEW a \in AcctType, Covered(a),
           NEW buy \in {0, a.buy}, NEW stray \in 0..a.stray, NEW tpq \in 0..a.tpq
    PROVE  LET b == [a EXCEPT !.buy = buy, !.stray = stray, !.tpq = tpq]
           IN  b \in AcctType /\ Covered(b)
<1> DEFINE b == [a EXCEPT !.buy = buy, !.stray = stray, !.tpq = tpq]
<1>1. /\ a.hold \in Nat /\ a.buy \in Nat /\ a.stray \in Nat /\ a.tpq \in Nat /\ a.mkt \in Nat
    BY DEF AcctType
<1>2. buy \in Nat /\ stray \in Nat /\ tpq \in Nat /\ tpq <= a.tpq
    BY <1>1
<1>3. b \in AcctType
    BY <1>2 DEF AcctType
<1>4. b.hold = a.hold /\ b.tpq = tpq /\ b.mkt = a.mkt
    BY DEF AcctType
<1> HIDE DEF b
<1>5. Covered(b)
    BY <1>1, <1>2, <1>4 DEF Covered
<1> QED BY <1>3, <1>5 DEF b

\* A take-profit order of q free shares is covered by the holdings.
LEMMA PlacedTyped ==
    ASSUME NEW a \in AcctType, NEW q \in Nat, a.hold - a.tpq - a.mkt >= q
    PROVE  LET b == [a EXCEPT !.tpq = @ + q, !.tpf = 0] IN b \in AcctType /\ Covered(b)
<1>1. PICK n \in Nat : n = a.tpq + q
    BY DEF AcctType
<1> DEFINE b == [a EXCEPT !.tpq = n, !.tpf = 0]
<1>2. b \in AcctType
    BY DEF AcctType
<1>3. b.hold = a.hold /\ b.tpq = a.tpq + q /\ b.mkt = a.mkt
    BY <1>1 DEF AcctType
<1>4. b = [a EXCEPT !.tpq = @ + q, !.tpf = 0]
    BY <1>1, Zenon
<1> HIDE DEF b
<1>5. Covered(b)
    BY <1>3 DEF Covered, AcctType
<1> QED BY <1>2, <1>4, <1>5, Zenon

\* Placing, selling and cancelling keep the account's type and its cover.
LEMMA OrdersTyped ==
    ASSUME TypeInv, NEW c \in Codes
    PROVE  /\ CancelAll(c) => AcctOK'
           /\ \A q \in Nat, b \in BOOLEAN : PlaceTp(c, q, b) => AcctOK'
           /\ \A q \in Nat : (Sells(c, q) => AcctOK') /\ (SellsSilently(c, q) => AcctOK')
           /\ Acct(c, [acct[c] EXCEPT !.buy = 0]) => AcctOK'
           /\ Acct(c, [acct[c] EXCEPT !.tpq = 0]) => AcctOK'
<1>0. acct[c] \in AcctType /\ Covered(acct[c])
    BY ValuesTyped
<1>1. CancelAll(c) => AcctOK'
    <2>1. ASSUME NEW buy \in {0, acct[c].buy}, NEW stray \in 0..acct[c].stray,
                 NEW tpq \in 0..acct[c].tpq
          PROVE  LET a == [acct[c] EXCEPT !.buy = buy, !.stray = stray, !.tpq = tpq]
                 IN  a \in AcctType /\ Covered(a)
        BY <1>0, CancelledTyped
    <2>2. CancelAll(c) => \/ acct' = acct
                         \/ \E a \in AcctType : Covered(a) /\ Acct(c, a)
        BY <2>1 DEF CancelAll
    <2> QED BY <2>2, Writes
<1>2. ASSUME NEW q \in Nat, NEW b \in BOOLEAN, PlaceTp(c, q, b)
      PROVE  AcctOK'
    <2> DEFINE a == [acct[c] EXCEPT !.tpq = @ + q, !.tpf = 0]
    <2>1. Sellable(c) >= q => a \in AcctType /\ Covered(a)
        BY <1>0, PlacedTyped DEF Sellable
    <2> HIDE DEF a
    <2>2. (Sellable(c) >= q /\ Acct(c, a)) \/ acct' = acct
        BY <1>2 DEF PlaceTp, a
    <2> QED BY <2>1, <2>2, Writes
<1>3. ASSUME NEW q \in Nat, Sells(c, q)
      PROVE  AcctOK'
    BY <1>3, ValuesTyped, Writes DEF Sells, Sellable, AcctType, Covered
<1>4. \A q \in Nat : SellsSilently(c, q) => AcctOK'
    BY <1>3, Writes DEF SellsSilently
<1>5. Acct(c, [acct[c] EXCEPT !.buy = 0]) => AcctOK'
    BY ValuesTyped, Writes DEF AcctType, Covered
<1>6. Acct(c, [acct[c] EXCEPT !.tpq = 0]) => AcctOK'
    BY ValuesTyped, Writes DEF AcctType, Covered
<1> QED BY <1>1, <1>2, <1>3, <1>4, <1>5, <1>6

\* Orders whose reply is lost add live buys and promise no shares.
LEMMA LostTyped ==
    ASSUME TypeInv, NEW c \in Codes, NEW n \in Nat
    PROVE  Lost(c, n) \in AcctType /\ Covered(Lost(c, n))
BY ValuesTyped, QtyAssumption DEF Lost, AcctType, Covered

\* abort_entry and the retry of poll_and_enter keep the types.
LEMMA EntryEndsTyped ==
    ASSUME TypeInv, NEW c \in Codes, Abort(c) \/ EntryFailed(c)
    PROVE  LockOK' /\ PcOK' /\ ExecOK' /\ ManualOK' /\ MemOK'
<1>1. CASE Abort(c)
    <2>1. MemOK'
        BY <1>1, ValuesTyped, Writes DEF Abort, MemType
    <2> QED BY <1>1, <2>1, ValuesTyped, NamesTyped, Writes DEF Abort
<1>2. CASE EntryFailed(c) /\ ~Abort(c)
    <2>1. MemOK'
        BY <1>2, ValuesTyped, Writes DEF EntryFailed, MemType
    <2> QED BY <1>2, <2>1, ValuesTyped, NamesTyped, Writes DEF EntryFailed
<1> QED BY <1>1, <1>2

\* The beginning and the two ends of an exit keep the types.
LEMMA ExitEndsTyped ==
    ASSUME TypeInv, NEW c \in Codes
    PROVE  /\ BeginExit(c) => TypeInv'
           /\ Finalize(c) => TypeInv'
           /\ \A r \in RowType, m \in MemType : ExitManual(c, r, m) /\ AcctOK' => TypeInv'
<1>1. ASSUME BeginExit(c)
      PROVE  TypeInv'
    <2>1. MemOK'
        BY <1>1, ValuesTyped, Writes DEF BeginExit, MemType
    <2> QED BY <1>1, <2>1, ValuesTyped, NamesTyped, Writes DEF BeginExit, TypeInv, Counters
<1>2. ASSUME Finalize(c)
      PROVE  TypeInv'
    <2>1. MemOK'
        BY <1>2, ValuesTyped, Writes DEF Finalize, MemType
    <2>2. PcOK'
        BY <1>2, NamesTyped, Writes DEF Finalize
    <2> QED BY <1>2, <2>1, <2>2, ValuesTyped, Writes DEF Finalize, TypeInv, Counters
<1>3. ASSUME NEW r \in RowType, NEW m \in MemType, ExitManual(c, r, m), AcctOK'
      PROVE  TypeInv'
    <2>1. MemOK'
        BY <1>3, Writes DEF ExitManual, MemType
    <2> QED BY <1>3, <2>1, ToManualTyped, NamesTyped, Writes DEF ExitManual, TypeInv, Counters
<1> QED BY <1>1, <1>2, <1>3

-----------------------------------------------------------------------------
\* One lemma per part of Next.

\* The initial values are typed.
LEMMA InitTyped == Init => TypeInv
<1> SUFFICES ASSUME Init PROVE TypeInv
    OBVIOUS
<1>1. NoOrders \in AcctType /\ Covered(NoOrders)
    BY DEF NoOrders, AcctType, Covered
<1>2. NewMem \in MemType /\ NoRow \in RowType /\ NoLock \in LockType
    BY DEF NewMem, MemType, NoRow, RowType, NoLock, Lock, LockType, LockKinds
<1>3. "off" \in Pcs /\ "Flat" \in ExecStates
    BY NamesTyped
<1> QED BY <1>1, <1>2, <1>3 DEF Init, TypeInv, LockOK, PcOK, ExecOK, ManualOK, MemOK, RowOK, AcctOK, CountsOK

\* What a crash leaves is typed.
LEMMA CrashTyped ==
    ASSUME TypeInv, Crash
    PROVE  TypeInv'
<1>1. NewMem \in MemType /\ NoLock \in LockType
    BY DEF NewMem, MemType, NoLock, Lock, LockType, LockKinds
<1>2. "off" \in Pcs /\ "Flat" \in ExecStates
    BY NamesTyped
<1> QED BY <1>1, <1>2 DEF Crash, TypeInv, LockOK, PcOK, ExecOK, ManualOK, MemOK, RowOK, AcctOK, CountsOK

\* start_runner and a stop keep the types.
LEMMA TaskTyped ==
    ASSUME TypeInv, NEW c \in Codes, Start(c) \/ Stop(c)
    PROVE  TypeInv'
<1>1. CASE Start(c)
    BY <1>1, ValuesTyped, NamesTyped, Writes DEF Start, TypeInv, Counters
<1>2. CASE Stop(c)
    <2>1. MemOK'
        BY <1>2, ValuesTyped, Writes DEF Stop, MemType
    <2> QED BY <1>2, <2>1, Writes DEF Stop, TypeInv, Counters
<1> QED BY <1>1, <1>2

\* check_and_restore_position keeps the types.
LEMMA RestoreTyped ==
    ASSUME TypeInv, NEW c \in Codes, Restore(c)
    PROVE  TypeInv'
<1> USE RestoreEndsTyped, NamesTyped
<1>0. /\ row[c] \in RowType /\ acct[c] \in AcctType
      /\ row[c].qty \in Nat /\ acct[c].hold \in Nat /\ row[c].man \in BOOLEAN
    BY ValuesTyped DEF RowType, AcctType
<1>1. CASE RestoreOrphan(c)
    BY <1>0, <1>1 DEF RestoreOrphan
<1>2. CASE OrphanCancel(c)
    BY <1>2, OrdersTyped, Writes DEF OrphanCancel, TypeInv, Counters
<1>3. CASE RestoreExit(c)
    BY <1>0, <1>3, ValuesTyped DEF RestoreExit
<1>m. EntryAsManual(c) => TypeInv'
    BY <1>0, ValuesTyped DEF EntryAsManual
<1>4. CASE RestoreEntry(c)
    BY <1>0, <1>4, <1>m DEF RestoreEntry
<1>5. CASE RestoreCancel(c)
    <2>1. CASE RestoreManual(c, 0, row[c])
        BY <1>0, <2>1
    <2>2. CASE ~RestoreManual(c, 0, row[c])
        BY <1>5, <2>2, OrdersTyped, Writes DEF RestoreCancel, TypeInv, Counters
    <2> QED BY <2>1, <2>2
<1>6. CASE RestoreRecheck(c)
    BY <1>0, <1>6, <1>m, ValuesTyped DEF RestoreRecheck
<1>7. CASE RestoreOpen(c)
    <2>1. CASE RestoreStep(c, "restoreTp") \/ RestoreStep(c, "restoreStock")
        BY <2>1
    <2>2. CASE ~(RestoreStep(c, "restoreTp") \/ RestoreStep(c, "restoreStock"))
        BY <1>7, <2>2, OrdersTyped, Writes DEF RestoreOpen, TypeInv, Counters
    <2> QED BY <2>1, <2>2
<1>8. CASE RestoreStock(c)
    BY <1>8, ValuesTyped DEF RestoreStock
<1>9. CASE RestoreTp(c)
    <2>1. PICK known \in BOOLEAN :
             /\ PlaceTp(c, row[c].qty, known)
             /\ IF known THEN WriteRow(c, [row[c] EXCEPT !.tp = TRUE]) ELSE UNCHANGED row
             /\ Mem(c, [mem[c] EXCEPT !.pos = row[c].qty, !.tp = known, !.stop = @ \/ row[c].man])
        BY <1>9 DEF RestoreTp
    <2>2. AcctOK'
        BY <1>0, <2>1, OrdersTyped
    <2>3. RowOK'
        <3>1. [row[c] EXCEPT !.tp = TRUE] \in RowType
            BY <1>0 DEF RowType
        <3> QED BY <2>1, <3>1, Writes
    <2>4. MemOK'
        <3>1. PICK s \in BOOLEAN : s = (mem[c].stop \/ row[c].man)
            OBVIOUS
        <3>2. [mem[c] EXCEPT !.pos = row[c].qty, !.tp = known, !.stop = s] \in MemType
            BY <1>0, ValuesTyped DEF MemType
        <3> QED BY <2>1, <3>1, <3>2, Writes
    <2>5. LockOK' /\ ExecOK' /\ ManualOK' /\ PcOK' /\ CountsOK'
        BY <1>0, <1>9, ValuesTyped, Writes DEF RestoreTp, TypeInv, LockOK, Counters
    <2> QED BY <2>2, <2>3, <2>4, <2>5 DEF TypeInv
<1> QED BY <1>1, <1>2, <1>3, <1>4, <1>5, <1>6, <1>7, <1>8, <1>9 DEF Restore

\* The main loop, polling and the start of an exit keep the types.
LEMMA LoopTyped ==
    ASSUME TypeInv, NEW c \in Codes, Loop(c)
    PROVE  TypeInv'
<1> USE NamesTyped, Writes DEF TypeInv, Counters
<1>0. Cleared(c) \in ExecStates
    BY DEF Cleared, ExecOK
<1>1. CASE WaitStopped(c) \/ WaitOver(c) \/ LoopEnd(c)
    BY <1>1 DEF WaitStopped, WaitOver, LoopEnd
<1>2. CASE LoopStop(c)
    BY <1>2, ExitEndsTyped DEF LoopStop
<1>3. CASE PollDegraded(c) \/ PollIdle(c)
    BY <1>0, <1>3 DEF PollDegraded, PollIdle
<1>4. CASE PollPreempt(c)
    <2>1. [lock EXCEPT !.preempted = TRUE] \in LockType
        BY DEF LockOK, LockType
    <2> QED BY <1>0, <1>4, <2>1 DEF PollPreempt
<1>5. CASE PollAcquire(c)
    BY <1>0, <1>5, ValuesTyped DEF PollAcquire
<1>6. CASE ManageClose(c)
    BY <1>6, ExitEndsTyped DEF ManageClose
<1>7. CASE ManageTakeProfit(c)
    <2>1. PICK q \in 1..acct[c].tpf :
             IF q >= mem[c].pos THEN Finalize(c)
             ELSE /\ Mem(c, [mem[c] EXCEPT !.exiting = TRUE, !.rest = mem[c].pos - q])
                  /\ Exec(c, "ExitPartial") /\ Goto(c, "tpCancel")
                  /\ UNCHANGED <<lock, manual, row, acct, Counters>>
        BY <1>7 DEF ManageTakeProfit
    <2>2. CASE q >= mem[c].pos
        BY <2>1, <2>2, ExitEndsTyped
    <2>3. CASE ~(q >= mem[c].pos)
        <3>1. PICK n \in Nat : n = mem[c].pos - q
            BY <2>3, ValuesTyped DEF MemType, AcctType
        <3>2. [mem[c] EXCEPT !.exiting = TRUE, !.rest = n] \in MemType
            BY ValuesTyped DEF MemType
        <3> QED BY <2>1, <2>3, <3>1, <3>2
    <2> QED BY <2>2, <2>3
<1> QED BY <1>1, <1>2, <1>3, <1>4, <1>5, <1>6, <1>7 DEF Loop

\* poll_and_enter after the lock and execute_entry keep the types.
LEMMA EnterTyped ==
    ASSUME TypeInv, NEW c \in Codes, Enter(c)
    PROVE  TypeInv'
<1> USE NamesTyped DEF Counters
<1>0. /\ row[c] \in RowType /\ mem[c] \in MemType /\ acct[c] \in AcctType
      /\ acct[c].hold \in Nat /\ acct[c].bought \in Nat /\ acct[c].buy \in Nat
      /\ mem[c].pos \in Nat /\ mem[c].base \in Nat /\ mem[c].filled \in Nat
      /\ mem[c].tp \in BOOLEAN /\ Qty \in Nat /\ gate \in Nat /\ orders \in Nat
    BY ValuesTyped, QtyAssumption DEF MemType, AcctType, TypeInv, CountsOK
<1>g. Gained(c) \in Nat
    BY <1>0 DEF Gained, Lesser
<1>f. ASSUME NEW q \in Nat, Mem(c, [mem[c] EXCEPT !.filled = q])
      PROVE  MemOK'
    BY <1>0, <1>f, Writes DEF MemType
<1>s. ASSUME Mem(c, [mem[c] EXCEPT !.stop = TRUE])
      PROVE  MemOK'
    BY <1>0, <1>s, Writes DEF MemType
<1>b. ASSUME Mem(c, [mem[c] EXCEPT !.base = acct[c].hold])
      PROVE  MemOK'
    BY <1>0, <1>b, Writes DEF MemType
<1>1. CASE SignalAbort(c) \/ ArmedAbort(c)
    BY <1>1, EntryEndsTyped, Writes DEF SignalAbort, ArmedAbort, TypeInv
<1>2. CASE SignalArmed(c) \/ ArmedReady(c)
    BY <1>2, ValuesTyped, Writes DEF SignalArmed, ArmedReady, TypeInv
<1>3. CASE SubmitRefused(c)
    BY <1>3, EntryEndsTyped, Writes DEF SubmitRefused, TypeInv
<1>4. CASE SubmitReady(c)
    BY <1>4, <1>b, Writes DEF SubmitReady, TypeInv
<1>5. CASE PostAccepted(c)
    <2>1. PICK lost \in 0..2 :
             /\ orders' = orders + lost + 1
             /\ Acct(c, [Lost(c, lost) EXCEPT !.stray = @ + acct[c].buy, !.buy = Qty, !.bought = 0])
        BY <1>5 DEF PostAccepted
    <2>2. AcctOK'
        <3> DEFINE a == Lost(c, lost)
        <3>1. a \in AcctType /\ Covered(a)
            BY LostTyped
        <3>2. Acct(c, [a EXCEPT !.stray = @ + acct[c].buy, !.buy = Qty, !.bought = 0])
            BY <2>1
        <3> HIDE DEF a
        <3>3. PICK n \in Nat : n = a.stray + acct[c].buy
            BY <1>0, <3>1 DEF AcctType
        <3> DEFINE b == [a EXCEPT !.stray = n, !.buy = Qty, !.bought = 0]
        <3>4. b \in AcctType
            BY <1>0, <3>1 DEF AcctType
        <3>5. Covered(b)
            BY <3>1 DEF Covered, AcctType
        <3>6. Acct(c, b)
            BY <3>2, <3>3
        <3> QED BY <3>4, <3>5, <3>6, Writes
    <2>3. CountsOK'
        BY <1>0, <1>5, <2>1 DEF PostAccepted, TypeInv, CountsOK
    <2> QED BY <1>5, <2>2, <2>3, ValuesTyped, Writes DEF PostAccepted, TypeInv
<1>6. CASE PostFailed(c)
    <2>1. PICK lost \in 0..3 : orders' = orders + lost /\ Acct(c, Lost(c, lost))
        BY <1>6 DEF PostFailed
    <2>2. AcctOK'
        BY <2>1, LostTyped, Writes
    <2>3. CountsOK'
        BY <1>0, <1>6, <2>1 DEF PostFailed, TypeInv, CountsOK
    <2> QED BY <1>6, <2>2, <2>3, EntryEndsTyped, Writes DEF PostFailed, TypeInv
<1>7. CASE SaveRow(c)
    <2>1. ASSUME NEW guard \in BOOLEAN, Mem(c, [mem[c] EXCEPT !.stop = @ \/ guard])
          PROVE  MemOK'
        <3>1. PICK s \in BOOLEAN : s = (mem[c].stop \/ guard)
            BY Zenon
        <3>2. [mem[c] EXCEPT !.stop = s] \in MemType
            BY <1>0 DEF MemType
        <3> QED BY <2>1, <3>1, <3>2, Writes
    <2>2. MemOK'
        BY <1>7, <2>1, <1>s DEF SaveRow
    <2>3. LockOK' /\ PcOK' /\ ExecOK' /\ ManualOK' /\ RowOK'
        BY <1>0, <1>7, ToManualTyped, ValuesTyped, Writes DEF SaveRow
    <2> QED BY <1>7, <2>2, <2>3, Writes DEF SaveRow, TypeInv
<1>8. CASE WaitFilled(c)
    BY <1>0, <1>8, <1>f, Writes DEF WaitFilled, TypeInv
<1>9. CASE WaitBroken(c)
    <2>1. MemOK'
        BY <1>0, <1>9, <1>f DEF WaitBroken
    <2> QED BY <1>9, <2>1, Writes DEF WaitBroken, TypeInv
<1>10. CASE WaitTimedOut(c)
    <2>1. PICK q \in Seen(acct[c].bought), failed \in BOOLEAN :
             LET filled == IF q = 0 /\ ~failed THEN Gained(c) ELSE q
             IN  /\ Mem(c, [mem[c] EXCEPT !.filled = filled])
                 /\ Goto(c, IF filled = Qty THEN "hold" ELSE "cancel")
                 /\ Exec(c, IF filled = Qty THEN exec[c]
                            ELSE IF filled > 0 THEN "EntryPartial"
                            ELSE After(exec[c], Timeout("EntryFill")))
        BY <1>10, Zenon DEF WaitTimedOut
    <2>2. q \in Nat
        BY <1>0 DEF Seen
    <2> DEFINE filled == IF q = 0 /\ ~failed THEN Gained(c) ELSE q
    <2>3. filled \in Nat
        BY <1>g, <2>2
    <2>4. exec[c] \in ExecStates
        BY DEF TypeInv, ExecOK
    <2>5. MemOK' /\ PcOK' /\ ExecOK'
        BY <1>f, <2>1, <2>3, <2>4, ValuesTyped, Writes
    <2> QED BY <1>10, <2>5, Writes DEF WaitTimedOut, TypeInv
<1>11. CASE CancelEntry(c)
    BY <1>11, OrdersTyped, Writes DEF CancelEntry, TypeInv
<1>12. CASE VerifyCancel(c)
    <2>1. PICK q \in Answered(acct[c].bought) :
             LET filled == IF q > mem[c].filled THEN q ELSE mem[c].filled
             IN  IF filled > 0 THEN VerifyFilled(c, filled) /\ UNCHANGED exec
                 ELSE VerifyNothing(c)
        BY <1>12 DEF VerifyCancel
    <2> DEFINE filled == IF q > mem[c].filled THEN q ELSE mem[c].filled
    <2>2. filled \in Nat
        BY <1>0 DEF Answered
    <2>3. ASSUME NEW n \in Nat, VerifyFilled(c, n)
          PROVE  LockOK' /\ PcOK' /\ ManualOK' /\ MemOK' /\ RowOK'
        BY <2>3, <1>f, Writes DEF VerifyFilled
    <2>4. exec[c] \in ExecStates
        BY DEF TypeInv, ExecOK
    <2>5. VerifyNothing(c) => LockOK' /\ PcOK' /\ ExecOK' /\ ManualOK' /\ MemOK' /\ RowOK'
        BY <1>0, <1>g, <1>s, <2>3, <2>4, EntryEndsTyped, ToManualTyped, ValuesTyped, Writes DEF VerifyNothing
    <2>6. LockOK' /\ PcOK' /\ ExecOK' /\ ManualOK' /\ MemOK' /\ RowOK'
        BY <2>1, <2>2, <2>3, <2>5, Writes
    <2> QED BY <1>12, <2>6, Writes DEF VerifyCancel, TypeInv
<1>13. CASE HoldLock(c)
    BY <1>13, ValuesTyped, Writes DEF HoldLock, TypeInv
<1>14. CASE OpenPosition(c)
    <2>1. PICK known \in BOOLEAN :
             /\ PlaceTp(c, mem[c].filled, known)
             /\ Mem(c, [mem[c] EXCEPT !.pos = mem[c].filled, !.tp = known])
        BY <1>14 DEF OpenPosition
    <2>2. [mem[c] EXCEPT !.pos = mem[c].filled, !.tp = known] \in MemType
        BY <1>0 DEF MemType
    <2> QED BY <1>0, <1>14, <2>1, <2>2, OrdersTyped, Writes DEF OpenPosition, TypeInv
<1>15. CASE SaveOpen(c)
    <2>1. [mem[c] EXCEPT !.filled = 0, !.base = 0, !.retried = FALSE] \in MemType
        BY <1>0 DEF MemType
    <2>2. CountsOK'
        BY <1>0, <1>15 DEF SaveOpen, TypeInv, CountsOK
    <2> QED BY <1>0, <1>15, <2>1, <2>2, ValuesTyped, Writes DEF SaveOpen, TypeInv
<1> QED BY <1>1, <1>2, <1>3, <1>4, <1>5, <1>6, <1>7, <1>8, <1>9, <1>10, <1>11, <1>12, <1>13,
           <1>14, <1>15 DEF Enter

\* close_position_market and its verification keep the types.
LEMMA ExitTyped ==
    ASSUME TypeInv, NEW c \in Codes, Exit(c)
    PROVE  TypeInv'
<1> USE NamesTyped DEF Counters
<1>0. /\ row[c] \in RowType /\ mem[c] \in MemType /\ mem[c].pos \in Nat /\ mem[c].rest \in Nat
      /\ acct[c].hold \in Nat
    BY ValuesTyped DEF MemType, AcctType
<1>1. ASSUME NEW from, NEW next \in Pcs, CancelTp(c, from, next)
      PROVE  TypeInv'
    BY <1>1, OrdersTyped, Writes DEF CancelTp, TypeInv
<1>2. ASSUME NEW from, NEW next \in Pcs, Mark(c, from, next)
      PROVE  TypeInv'
    BY <1>2, ValuesTyped, Writes DEF Mark, TypeInv
<1>3. ASSUME NEW from, NEW next \in Pcs, SellRest(c, from, next)
      PROVE  TypeInv'
    <2>1. AcctOK'
        BY <1>0, <1>3, OrdersTyped DEF SellRest
    <2>2. CASE ExitManual(c, row[c], mem[c])
        BY <1>0, <2>1, <2>2, ExitEndsTyped
    <2>3. CASE ~ExitManual(c, row[c], mem[c])
        BY <1>3, <2>1, <2>3, Writes DEF SellRest, TypeInv
    <2> QED BY <2>2, <2>3
<1>4. CASE ExitCancel(c) \/ TpCancel(c)
    BY <1>1, <1>4 DEF ExitCancel, TpCancel
<1>5. CASE ExitMark(c) \/ TpMark(c)
    BY <1>2, <1>5 DEF ExitMark, TpMark
<1>6. CASE ExitRetry(c) \/ TpSell(c)
    BY <1>3, <1>6 DEF ExitRetry, TpSell
<1>7. CASE ExitSubmit(c)
    <2> DEFINE r == [row[c] EXCEPT !.tp = FALSE]
    <2> DEFINE m == [mem[c] EXCEPT !.exiting = FALSE, !.tp = FALSE]
    <2>1. r \in RowType /\ m \in MemType
        BY <1>0 DEF RowType, MemType
    <2>2. AcctOK'
        BY <1>0, <1>7, OrdersTyped DEF ExitSubmit
    <2>3. CASE ExitManual(c, r, m)
        BY <2>1, <2>2, <2>3, ExitEndsTyped
    <2>4. CASE ~ExitManual(c, r, m)
        BY <1>7, <2>2, <2>4, Writes DEF ExitSubmit, TypeInv
    <2> QED BY <2>3, <2>4
<1>8. CASE VerifyTimeout(c)
    <2>1. AcctOK'
        BY <1>8, Writes DEF VerifyTimeout
    <2>2. CASE ExitManual(c, row[c], mem[c])
        BY <1>0, <2>1, <2>2, ExitEndsTyped
    <2>3. CASE ~ExitManual(c, row[c], mem[c])
        BY <1>8, <2>1, <2>3, ValuesTyped, Writes DEF VerifyTimeout, TypeInv
    <2> QED BY <2>2, <2>3
<1>9. CASE ExitVerify(c)
    <2>1. CASE Finalize(c)
        BY <2>1, ExitEndsTyped
    <2>2. CASE ExitManual(c, row[c], mem[c]) /\ UNCHANGED acct
        BY <1>0, <2>2, ExitEndsTyped, Writes
    <2>3. CASE ~Finalize(c) /\ ~(ExitManual(c, row[c], mem[c]) /\ UNCHANGED acct)
        <3>1. [mem[c] EXCEPT !.rest = acct[c].hold] \in MemType
            BY <1>0 DEF MemType
        <3> QED BY <1>9, <2>3, <3>1, Writes DEF ExitVerify, TypeInv
    <2> QED BY <2>1, <2>2, <2>3
<1>10. CASE ExitReverify(c)
    <2>1. CASE Finalize(c)
        BY <2>1, ExitEndsTyped
    <2>2. CASE ExitManual(c, row[c], mem[c]) /\ UNCHANGED acct
        BY <1>0, <2>2, ExitEndsTyped, Writes
    <2> QED BY <1>10, <2>1, <2>2 DEF ExitReverify
<1> QED BY <1>4, <1>5, <1>6, <1>7, <1>8, <1>9, <1>10 DEF Exit

\* A fill takes a share from a live order, and shares are sold only where they are
\* held.
LEMMA BrokerTyped ==
    ASSUME TypeInv, NEW c \in Codes, Broker(c)
    PROVE  TypeInv'
<1> DEFINE a == acct[c]
<1>0. a \in AcctType /\ Covered(a)
    BY ValuesTyped
<1>f. /\ a.hold \in Nat /\ a.buy \in Nat /\ a.bought \in Nat /\ a.stray \in Nat
      /\ a.tpq \in Nat /\ a.tpf \in Nat /\ a.mkt \in Nat
      /\ a.hold >= a.tpq + a.mkt
    BY <1>0 DEF AcctType, Covered
<1>1. ASSUME NEW b \in AcctType, Covered(b), Filled(c, b)
      PROVE  TypeInv'
    BY <1>1, Writes DEF Filled, TypeInv, Counters
<1>2. CASE FillEntry(c)
    <2>1. PICK x, y, z \in Nat : x = a.buy - 1 /\ y = a.bought + 1 /\ z = a.hold + 1
        <3>1. a.buy > 0
            BY <1>2 DEF FillEntry
        <3> HIDE DEF a
        <3> QED BY <1>f, <3>1
    <2> DEFINE b == [a EXCEPT !.buy = x, !.bought = y, !.hold = z]
    <2>2. b \in AcctType
        BY <1>0 DEF AcctType
    <2>3. b.hold - b.tpq - b.mkt >= a.hold - a.tpq - a.mkt
        BY <1>0, <2>1 DEF AcctType
    <2>4. Filled(c, b)
        BY <1>2, <2>1 DEF FillEntry
    <2> HIDE DEF b
    <2> QED BY <1>0, <1>1, <2>2, <2>3, <2>4 DEF Covered, AcctType
<1>3. CASE FillStray(c)
    <2>1. PICK x, y \in Nat : x = a.stray - 1 /\ y = a.hold + 1
        <3>1. a.stray > 0
            BY <1>3 DEF FillStray
        <3> HIDE DEF a
        <3> QED BY <1>f, <3>1
    <2> DEFINE b == [a EXCEPT !.stray = x, !.hold = y]
    <2>2. b \in AcctType
        BY <1>0 DEF AcctType
    <2>3. b.hold - b.tpq - b.mkt >= a.hold - a.tpq - a.mkt
        BY <1>0, <2>1 DEF AcctType
    <2>4. Filled(c, b)
        BY <1>3, <2>1 DEF FillStray
    <2> HIDE DEF b
    <2> QED BY <1>0, <1>1, <2>2, <2>3, <2>4 DEF Covered, AcctType
<1>4. CASE FillTp(c)
    <2>1. PICK x, y, z \in Nat : x = a.tpq - 1 /\ y = a.tpf + 1 /\ z = a.hold - 1
        <3>1. a.tpq > 0
            BY <1>4 DEF FillTp
        <3> HIDE DEF a
        <3> QED BY <1>f, <3>1
    <2> DEFINE b == [a EXCEPT !.tpq = x, !.tpf = y, !.hold = z]
    <2>2. b \in AcctType
        BY <1>0 DEF AcctType
    <2>3. b.hold - b.tpq - b.mkt >= a.hold - a.tpq - a.mkt
        BY <1>0, <2>1 DEF AcctType
    <2>4. Filled(c, b)
        BY <1>4, <2>1 DEF FillTp
    <2> HIDE DEF b
    <2> QED BY <1>0, <1>1, <2>2, <2>3, <2>4 DEF Covered, AcctType
<1>5. CASE FillMarket(c)
    <2>1. PICK x, y \in Nat : x = a.mkt - 1 /\ y = a.hold - 1
        <3>1. a.mkt > 0
            BY <1>5 DEF FillMarket
        <3> HIDE DEF a
        <3> QED BY <1>f, <3>1
    <2> DEFINE b == [a EXCEPT !.mkt = x, !.hold = y]
    <2>2. b \in AcctType
        BY <1>0 DEF AcctType
    <2>3. b.hold - b.tpq - b.mkt >= a.hold - a.tpq - a.mkt
        BY <1>0, <2>1 DEF AcctType
    <2>4. Filled(c, b)
        BY <1>5, <2>1 DEF FillMarket
    <2> HIDE DEF b
    <2> QED BY <1>0, <1>1, <2>2, <2>3, <2>4 DEF Covered, AcctType
<1> QED BY <1>2, <1>3, <1>4, <1>5 DEF Broker

-----------------------------------------------------------------------------
\* The types are inductive, and no code ever promises more shares to its sell orders
\* (the take-profit order and the market sells of live_runner) than it holds.
THEOREM TypesHold == Spec => []TypeInv
<1>1. ASSUME TypeInv, [Next]_vars
      PROVE  TypeInv'
    <2>1. CASE Crash
        BY <1>1, <2>1, CrashTyped
    <2>2. ASSUME NEW c \in Codes,
                 Start(c) \/ Stop(c) \/ Restore(c) \/ Loop(c) \/ Enter(c) \/ Exit(c) \/ Broker(c)
          PROVE  TypeInv'
        BY <1>1, <2>2, TaskTyped, RestoreTyped, LoopTyped, EnterTyped, ExitTyped, BrokerTyped
    <2>3. CASE UNCHANGED vars
        BY <1>1, <2>3 DEF vars, TypeInv, LockOK, PcOK, ExecOK, ManualOK, MemOK, RowOK, AcctOK, CountsOK
    <2> QED BY <1>1, <2>1, <2>2, <2>3 DEF Next
<1> QED BY <1>1, InitTyped, PTL DEF Spec

\* The type invariant of the runners, their lock, rows and account, for every value
\* of the constants.
THEOREM TypeCorrect == Spec => []TypeOK
<1>1. TypeInv => TypeOK
    BY DEF TypeInv, TypeOK, LockOK, PcOK, ExecOK, ManualOK, MemOK, RowOK, AcctOK, CountsOK
<1> QED BY <1>1, TypesHold, PTL

-----------------------------------------------------------------------------
\* Behind the gate check the daily budget has room for the trade to come.
Committed == {"post", "saveRow", "fillWait", "cancel", "verify", "hold", "placeTp", "saveOpen"}

\* A runner by itself.  A manual one is told to stop and is outside every restore,
\* entry and exit; exit_pending is set in an exit or on a manual runner only; there
\* is no position before an entry is filled; and the actor's state follows the
\* position: Open while it is managed, exiting while it is sold.
RunnerInv(c) ==
    /\ manual[c] => mem[c].stop /\ pc[c] \in {"off", "wait", "loop"}
    /\ mem[c].exiting => manual[c] \/ pc[c] \in ExitPcs
    /\ pc[c] \in RestorePcs \cup EntryPcs => mem[c].pos = 0
    /\ pc[c] \in {"wait", "loop"} /\ mem[c].pos > 0 /\ ~manual[c] => exec[c] = "Open"
    /\ pc[c] \in ExitPcs => exec[c] \in {"ExitPending", "ExitPartial"}

\* A ManualHeld lock belongs to a runner that is manual.
ManualInv == lock.kind = "manual" => lock.code \in Codes /\ manual[lock.code]

\* While a code buys, the lock is its own, Pending or Held, or some code's ManualHeld.
SlotInv ==
    /\ \A c \in Codes : InEntry(c) =>
         \/ lock.kind = "manual"
         \/ lock.kind \in {"pending", "held"} /\ lock.code = c
    /\ EntryExclusive

GateInv == gate <= MaxTrades /\ \A c \in Codes : pc[c] \in Committed => gate < MaxTrades

IndInv == (\A c \in Codes : RunnerInv(c)) /\ ManualInv /\ SlotInv /\ GateInv

-----------------------------------------------------------------------------
\* Most steps of a runner are harmless: they change no other runner, give nothing
\* up that is not theirs, and stay inside the entry they are in, if any.

\* Only the runner of c moves.
Alone(c) ==
    \A d \in Codes \ {c} : /\ pc'[d] = pc[d] /\ exec'[d] = exec[d]
                           /\ manual'[d] = manual[d] /\ mem'[d] = mem[d]

Harmless(c) ==
    /\ Alone(c)
    /\ manual[c] => manual'[c]
    /\ \/ lock' \in {lock, Released(c)}
       \/ lock' = FreedByRestore(c) /\ ~manual[c]
       \/ lock' = ManualLock(c) /\ manual'[c]
       \/ lock' = Lock("manual", c) /\ manual'[c] /\ RestoreTp(c)
    /\ InEntry(c)' => InEntry(c) /\ lock' = lock
    /\ gate' = gate
    /\ pc'[c] \in Committed => pc[c] \in Committed \/ gate < MaxTrades

\* The fields of the locks the actions write.
LEMMA LockFields ==
    ASSUME NEW c
    PROVE  /\ \A k : Lock(k, c).kind = k /\ Lock(k, c).code = c
           /\ NoLock.kind = "free"
           /\ Released(c) = lock \/ (lock.kind \in {"pending", "held"} /\ lock.code = c /\ Released(c) = NoLock)
           /\ \/ ManualLock(c) = Lock("manual", c)
              \/ ManualLock(c) = lock /\ lock.kind \in {"held", "manual"} /\ lock.code # c
           /\ FreedByRestore(c) = lock \/ (lock.code = c /\ FreedByRestore(c) = NoLock)
BY DEF Lock, NoLock, Released, ManualLock, FreedByRestore

\* What a step makes of the runner of c can be read back at c, and nowhere else.
LEMMA Reads ==
    ASSUME TypeInv, NEW c \in Codes
    PROVE  /\ \A p : Goto(c, p) => pc'[c] = p /\ \A d \in Codes \ {c} : pc'[d] = pc[d]
           /\ \A s : Exec(c, s) => exec'[c] = s /\ \A d \in Codes \ {c} : exec'[d] = exec[d]
           /\ \A b : Manual(c, b) => manual'[c] = b /\ \A d \in Codes \ {c} : manual'[d] = manual[d]
           /\ \A m : Mem(c, m) => mem'[c] = m /\ \A d \in Codes \ {c} : mem'[d] = mem[d]
BY DEF TypeInv, PcOK, ExecOK, ManualOK, MemOK, Goto, Exec, Manual, Mem

\* The parts of an entry and of the other phases do not overlap.
LEMMA Phases ==
    /\ \A p \in Committed : p \in EntryPcs \cup OpenPcs
    /\ \A p \in EntryPcs \cup OpenPcs \cup RestorePcs \cup ExitPcs : p \notin {"off", "wait", "loop"}
    /\ \A p \in EntryPcs \cup OpenPcs : p \notin RestorePcs \cup ExitPcs
    /\ \A p \in ExitPcs : p \notin RestorePcs
    /\ \A p \in EntryPcs : p \notin OpenPcs
BY DEF Committed, EntryPcs, OpenPcs, RestorePcs, ExitPcs

\* A harmless step that leaves its own runner right keeps the invariant.
LEMMA HarmlessKeeps ==
    ASSUME TypeInv, IndInv, NEW c \in Codes, Harmless(c), RunnerInv(c)'
    PROVE  IndInv'
<1>1. \A d \in Codes : RunnerInv(d)'
    BY DEF IndInv, Harmless, Alone, RunnerInv
<1>2. ManualInv'
    BY LockFields DEF IndInv, ManualInv, Harmless, Alone
<1>3. \A d \in Codes : InEntry(d)' => InEntry(d)
    BY DEF Harmless, Alone, InEntry
<1>4. EntryExclusive'
    BY <1>3 DEF IndInv, SlotInv, EntryExclusive
<1>5. ASSUME NEW d \in Codes, InEntry(d)'
      PROVE  \/ lock'.kind = "manual"
             \/ lock'.kind \in {"pending", "held"} /\ lock'.code = d
    BY <1>3, <1>5, LockFields DEF IndInv, SlotInv, ManualInv, Harmless
<1>6. GateInv'
    BY DEF IndInv, GateInv, Harmless, Alone
<1> QED BY <1>1, <1>2, <1>4, <1>5, <1>6 DEF IndInv, SlotInv

-----------------------------------------------------------------------------
\* The ends that several actions share.

\* trigger_manual_intervention outside an entry, or as the end of one: the runner is
\* manual and told to stop.
LEMMA ToManualHarmless ==
    ASSUME TypeInv, NEW c \in Codes, RunnerInv(c), NEW p \in {"wait", "loop"}, NEW r,
           ToManual(c, p, r), gate' = gate, NEW m, Mem(c, m), m.stop
    PROVE  Harmless(c) /\ RunnerInv(c)'
<1>1. pc'[c] = p /\ exec'[c] = "ManualIntervention" /\ manual'[c] = TRUE /\ mem'[c] = m
    BY Reads DEF ToManual
<1>2. Alone(c)
    BY Reads DEF ToManual, Alone
<1>3. lock' = ManualLock(c)
    BY DEF ToManual
<1>4. p \notin EntryPcs \cup OpenPcs \cup RestorePcs \cup ExitPcs \cup Committed
    BY Phases
<1>5. ~InEntry(c)'
    BY <1>1, <1>4 DEF InEntry
<1>6. Harmless(c)
    BY <1>1, <1>2, <1>3, <1>4, <1>5 DEF Harmless
<1>7. RunnerInv(c)'
    BY <1>1, <1>4 DEF RunnerInv
<1> QED BY <1>6, <1>7

\* abort_entry from inside an entry.
LEMMA AbortHarmless ==
    ASSUME TypeInv, NEW c \in Codes, RunnerInv(c), pc[c] \in EntryPcs, Abort(c), gate' = gate
    PROVE  Harmless(c) /\ RunnerInv(c)'
<1>1. pc'[c] = "loop" /\ manual' = manual /\ mem'[c].pos = mem[c].pos
      /\ mem'[c].exiting = mem[c].exiting
    <2> DEFINE m == [mem[c] EXCEPT !.filled = 0, !.base = 0, !.retried = FALSE]
    <2>1. mem[c] \in MemType
        BY ValuesTyped
    <2>2. m.pos = mem[c].pos /\ m.exiting = mem[c].exiting
        BY <2>1 DEF MemType
    <2>3. Mem(c, m) /\ Goto(c, "loop") /\ UNCHANGED manual
        BY DEF Abort
    <2> HIDE DEF m
    <2> QED BY <2>2, <2>3, Reads
<1>2. Alone(c)
    BY Reads DEF Abort, Alone
<1>3. ~manual[c] /\ ~mem[c].exiting /\ mem[c].pos = 0
    BY Phases DEF RunnerInv
<1>4. "loop" \notin EntryPcs \cup OpenPcs \cup RestorePcs \cup ExitPcs \cup Committed
    BY Phases
<1>5. Harmless(c)
    BY <1>1, <1>2, <1>4 DEF Abort, Harmless, InEntry
<1>6. RunnerInv(c)'
    BY <1>1, <1>3, <1>4 DEF RunnerInv
<1> QED BY <1>5, <1>6

\* Between two steps of the same phase nothing but pc and, perhaps, other fields of
\* mem and exec change; the lock and the trade gate stay.
LEMMA PhaseHarmless ==
    ASSUME TypeInv, NEW c \in Codes, RunnerInv(c), NEW p,
           pc[c] \notin {"off", "wait", "loop"},
           \/ pc[c] \in RestorePcs /\ p \in RestorePcs \cup {"wait"}
           \/ pc[c] \in EntryPcs /\ p \in EntryPcs \cup OpenPcs
           \/ pc[c] \in ExitPcs /\ p \in ExitPcs,
           p \in Committed => pc[c] \in Committed \/ gate < MaxTrades,
           Goto(c, p), Alone(c), manual' = manual, lock' = lock, gate' = gate,
           mem'[c].exiting = mem[c].exiting, p \notin OpenPcs => mem'[c].pos = mem[c].pos,
           p \in ExitPcs => exec'[c] \in {"ExitPending", "ExitPartial"}
    PROVE  Harmless(c) /\ RunnerInv(c)'
<1>1. pc'[c] = p
    BY Reads
<1>2. ~manual[c]
    BY DEF RunnerInv
<1>3. Harmless(c)
    <2>1. InEntry(c)' => InEntry(c)
        BY <1>1, Phases DEF InEntry
    <2> QED BY <1>1, <2>1 DEF Harmless
<1>4. p \in RestorePcs \cup EntryPcs => mem'[c].pos = 0
    BY Phases DEF RunnerInv
<1>5. mem[c].exiting => p \in ExitPcs
    <2>1. mem[c].exiting => pc[c] \in ExitPcs
        BY <1>2 DEF RunnerInv
    <2> QED BY <2>1, Phases
<1>6. p \in {"wait", "loop"} => mem'[c].pos = 0
    BY Phases DEF RunnerInv
<1>7. mem'[c].pos = 0 => ~(mem'[c].pos > 0)
    OBVIOUS
<1>8. RunnerInv(c)'
    BY <1>1, <1>2, <1>4, <1>5, <1>6, <1>7 DEF RunnerInv
<1> QED BY <1>3, <1>8

-----------------------------------------------------------------------------
\* The steps of each phase.

\* A runner inside a restore, an entry or an exit is not manual.
LEMMA NotManual ==
    ASSUME NEW c \in Codes, RunnerInv(c), pc[c] \notin {"off", "wait", "loop"}
    PROVE  ~manual[c]
BY DEF RunnerInv

\* Every end of check_and_restore_position: flat, manual, or Open with the row's
\* position.
LEMMA RestoreHarmless ==
    ASSUME TypeInv, NEW c \in Codes, RunnerInv(c), Restore(c)
    PROVE  Harmless(c) /\ RunnerInv(c)'
<1>0. mem[c] \in MemType
    BY ValuesTyped
<1>r. {"restore", "orphanCancel", "restoreCancel", "restoreRecheck", "restoreStock", "restoreTp"}
        \subseteq RestorePcs
    BY DEF RestorePcs
<1>1. ASSUME NEW q, NEW r, RestoreManual(c, q, r)
      PROVE  Harmless(c) /\ RunnerInv(c)'
    <2> DEFINE m == [mem[c] EXCEPT !.pos = q, !.stop = TRUE]
    <2>1. m.stop = TRUE
        BY <1>0 DEF MemType
    <2>2. ToManual(c, "wait", r) /\ Mem(c, m) /\ gate' = gate
        BY <1>1 DEF RestoreManual, Counters
    <2> HIDE DEF m
    <2> QED BY <2>1, <2>2, ToManualHarmless
<1>2. ASSUME NEW p, pc[c] \in RestorePcs, p \in RestorePcs \cup {"wait"}, Goto(c, p),
             UNCHANGED <<exec, manual, mem, gate>>,
             lock' = lock \/ lock' = Released(c) \/ lock' = FreedByRestore(c)
      PROVE  Harmless(c) /\ RunnerInv(c)'
    <2>1. pc'[c] = p /\ Alone(c)
        BY <1>2, Reads DEF Alone
    <2>2. pc[c] \notin {"off", "wait", "loop"} /\ p \notin EntryPcs \cup OpenPcs \cup ExitPcs \cup Committed
        BY <1>2, Phases
    <2>3. ~manual[c] /\ ~mem[c].exiting /\ mem[c].pos = 0
        BY <1>2, <2>2, NotManual, Phases DEF RunnerInv
    <2>4. Harmless(c)
        BY <1>2, <2>1, <2>2, <2>3 DEF Harmless, InEntry
    <2>5. RunnerInv(c)'
        BY <1>2, <2>1, <2>2, <2>3 DEF RunnerInv
    <2> QED BY <2>4, <2>5
<1>3. CASE RestoreOrphan(c)
    BY <1>1, <1>2, <1>3, <1>r DEF RestoreOrphan, RestoreStep, Counters
<1>4. CASE OrphanCancel(c)
    BY <1>2, <1>4, <1>r DEF OrphanCancel, Counters
<1>5. CASE RestoreExit(c)
    BY <1>1, <1>2, <1>5, <1>r DEF RestoreExit, RestoreFlat, Counters
<1>m. EntryAsManual(c) => Harmless(c) /\ RunnerInv(c)'
    BY <1>1 DEF EntryAsManual
<1>6. CASE RestoreEntry(c)
    BY <1>1, <1>2, <1>6, <1>m, <1>r DEF RestoreEntry, RestoreStep, Counters
<1>7. CASE RestoreCancel(c)
    BY <1>1, <1>2, <1>7, <1>r DEF RestoreCancel, Counters
<1>8. CASE RestoreRecheck(c)
    BY <1>1, <1>2, <1>8, <1>m, <1>r DEF RestoreRecheck, RestoreFlat, Counters
<1>9. CASE RestoreOpen(c)
    BY <1>2, <1>9, <1>r DEF RestoreOpen, RestoreStep, Counters
<1>10. CASE RestoreStock(c)
    BY <1>2, <1>10, <1>r DEF RestoreStock, RestoreStep, RestoreFlat, Counters
<1>11. CASE RestoreTp(c)
    <2>1. PICK known, m :
             m = [mem[c] EXCEPT !.pos = row[c].qty, !.tp = known, !.stop = @ \/ row[c].man] /\ Mem(c, m)
        BY <1>11 DEF RestoreTp
    <2>2. m.exiting = mem[c].exiting /\ (row[c].man => m.stop)
        BY <1>0, <2>1 DEF MemType
    <2>3. ~manual[c] /\ ~mem[c].exiting
        <3>1. pc[c] \in RestorePcs
            BY <1>11, <1>r DEF RestoreTp
        <3> QED BY <3>1, NotManual, Phases DEF RunnerInv
    <2>4. row[c].man \in BOOLEAN
        BY ValuesTyped DEF RowType
    <2>m. manual'[c] = row[c].man
        <3>1. manual'[c] = (manual[c] \/ row[c].man)
            BY <1>11, Reads DEF RestoreTp
        <3> QED BY <2>3, <2>4, <3>1
    <2>5. /\ pc'[c] = "wait" /\ mem'[c] = m /\ gate' = gate
          /\ exec'[c] = IF row[c].man THEN "ManualIntervention" ELSE "Open"
          /\ lock' = IF row[c].man THEN Lock("manual", c) ELSE lock
          /\ Alone(c)
        BY <1>11, <2>1, Reads DEF RestoreTp, Alone, Counters
    <2>6. "wait" \notin EntryPcs \cup OpenPcs \cup RestorePcs \cup ExitPcs \cup Committed
        BY Phases
    <2>7. Harmless(c)
        BY <1>11, <2>3, <2>4, <2>5, <2>6, <2>m DEF Harmless, InEntry
    <2>8. RunnerInv(c)'
        BY <2>2, <2>3, <2>4, <2>5, <2>6, <2>m DEF RunnerInv
    <2> QED BY <2>7, <2>8
<1> QED BY <1>3, <1>4, <1>5, <1>6, <1>7, <1>8, <1>9, <1>10, <1>11 DEF Restore

\* finalize_flat_transition outside an entry.
LEMMA FinalizeHarmless ==
    ASSUME TypeInv, NEW c \in Codes, RunnerInv(c), ~InEntry(c), Finalize(c)
    PROVE  Harmless(c) /\ RunnerInv(c)'
<1> DEFINE m == [mem[c] EXCEPT !.pos = 0, !.tp = FALSE, !.exiting = FALSE, !.rest = 0]
<1>1. m.pos = 0 /\ m.exiting = FALSE /\ m.stop = mem[c].stop
    BY ValuesTyped DEF MemType
<1>2. Mem(c, m) /\ manual' = manual /\ gate' = gate /\ lock' = Released(c)
    BY DEF Finalize, Counters
<1> HIDE DEF m
<1>3. PICK p \in {"loop", "off"} : Goto(c, p)
    BY DEF Finalize
<1>4. pc'[c] = p /\ mem'[c] = m /\ Alone(c)
    BY <1>2, <1>3, Reads DEF Finalize, Alone
<1>5. p \notin EntryPcs \cup OpenPcs \cup RestorePcs \cup ExitPcs \cup Committed
    BY Phases
<1>6. Harmless(c)
    BY <1>2, <1>4, <1>5 DEF Harmless, InEntry
<1>7. RunnerInv(c)'
    BY <1>1, <1>2, <1>4, <1>5 DEF RunnerInv
<1> QED BY <1>6, <1>7

\* close_position_market is entered with the position Open, so its event is accepted.
LEMMA BeginExitHarmless ==
    ASSUME TypeInv, NEW c \in Codes, RunnerInv(c), pc[c] \in {"wait", "loop"}, ~manual[c], BeginExit(c)
    PROVE  Harmless(c) /\ RunnerInv(c)'
<1> DEFINE m == [mem[c] EXCEPT !.exiting = TRUE]
<1>1. mem[c].pos > 0 /\ Mem(c, m) /\ manual' = manual /\ gate' = gate /\ lock' = lock
    BY DEF BeginExit, Counters
<1>2. exec[c] = "Open"
    BY <1>1 DEF RunnerInv
<1>3. exec'[c] = "ExitPending" /\ pc'[c] = "exitCancel" /\ Alone(c)
    BY <1>1, <1>2, ExitRequestedRule, Reads DEF BeginExit, Alone
<1>4. "exitCancel" \in ExitPcs
    BY DEF ExitPcs
<1>5. Harmless(c)
    BY <1>1, <1>3, <1>4, Phases DEF Harmless, InEntry
<1>6. RunnerInv(c)'
    BY <1>1, <1>3, <1>4, Phases DEF RunnerInv
<1> QED BY <1>5, <1>6

\* Starting and stopping a runner, and fills at the broker, touch nobody's entry.
LEMMA TaskHarmless ==
    ASSUME TypeInv, NEW c \in Codes, RunnerInv(c), Start(c) \/ Stop(c) \/ Broker(c)
    PROVE  Harmless(c) /\ RunnerInv(c)'
<1>1. CASE Start(c)
    <2>1. NewMem.pos = 0 /\ NewMem.exiting = FALSE
        BY DEF NewMem
    <2>2. /\ pc'[c] = "restore" /\ mem'[c] = NewMem /\ manual' = manual /\ ~manual[c]
          /\ lock' = lock /\ gate' = gate /\ Alone(c)
        BY <1>1, Reads DEF Start, Alone, Counters
    <2>3. "restore" \in RestorePcs
        BY DEF RestorePcs
    <2>4. Harmless(c)
        BY <2>2, <2>3, Phases DEF Harmless, InEntry
    <2>5. RunnerInv(c)'
        BY <2>1, <2>2, <2>3, Phases DEF RunnerInv
    <2> QED BY <2>4, <2>5
<1>2. CASE Stop(c)
    <2> DEFINE m == [mem[c] EXCEPT !.stop = TRUE]
    <2>1. m.pos = mem[c].pos /\ m.exiting = mem[c].exiting /\ m.stop = TRUE
        BY ValuesTyped DEF MemType
    <2>2. Mem(c, m) /\ UNCHANGED <<lock, pc, exec, manual, gate>>
        BY <1>2 DEF Stop, Counters
    <2> HIDE DEF m
    <2>3. mem'[c] = m /\ Alone(c)
        BY <2>2, Reads DEF Alone
    <2>4. Harmless(c)
        BY <2>2, <2>3 DEF Harmless, InEntry
    <2>5. RunnerInv(c)'
        BY <2>1, <2>2, <2>3 DEF RunnerInv
    <2> QED BY <2>4, <2>5
<1>3. CASE Broker(c)
    <2>1. UNCHANGED <<lock, pc, exec, manual, mem, gate>>
        BY <1>3 DEF Broker, FillEntry, FillStray, FillTp, FillMarket, Filled, Counters
    <2> QED BY <2>1 DEF Harmless, Alone, InEntry, RunnerInv
<1> QED BY <1>1, <1>2, <1>3

\* The steps of the loop that do not touch a free or foreign lock.
LEMMA LoopHarmless ==
    ASSUME TypeInv, NEW c \in Codes, RunnerInv(c), Loop(c), ~PollAcquire(c), ~PollPreempt(c)
    PROVE  Harmless(c) /\ RunnerInv(c)'
<1>0. \A p \in {"off", "wait", "loop"} : p \notin EntryPcs \cup OpenPcs \cup RestorePcs \cup ExitPcs \cup Committed
    BY Phases
<1>1. ASSUME NEW p \in {"off", "loop"}, pc[c] \in {"wait", "loop"}, Goto(c, p),
             UNCHANGED <<lock, exec, manual, mem, gate>>
      PROVE  Harmless(c) /\ RunnerInv(c)'
    <2>1. pc'[c] = p /\ Alone(c)
        BY <1>1, Reads DEF Alone
    <2>2. Harmless(c)
        BY <1>0, <1>1, <2>1 DEF Harmless, InEntry
    <2>3. RunnerInv(c)'
        BY <1>0, <1>1, <2>1 DEF RunnerInv
    <2> QED BY <2>2, <2>3
<1>2. ASSUME NEW s, Flat(c), Exec(c, s), UNCHANGED <<lock, pc, manual, mem, gate>>
      PROVE  Harmless(c) /\ RunnerInv(c)'
    <2>1. Alone(c) /\ pc[c] = "loop" /\ ~(mem[c].pos > 0)
        BY <1>2, Reads DEF Alone, Flat
    <2>2. Harmless(c)
        BY <1>2, <2>1 DEF Harmless, InEntry
    <2>3. RunnerInv(c)'
        BY <1>0, <1>2, <2>1 DEF RunnerInv
    <2> QED BY <2>2, <2>3
<1>3. CASE WaitStopped(c) \/ WaitOver(c) \/ LoopEnd(c)
    BY <1>1, <1>3 DEF WaitStopped, WaitOver, LoopEnd, Counters
<1>4. CASE LoopStop(c)
    BY <1>1, <1>4, BeginExitHarmless DEF LoopStop, Counters
<1>5. CASE PollDegraded(c) \/ PollIdle(c)
    BY <1>2, <1>5 DEF PollDegraded, PollIdle, Counters
<1>6. CASE ManageClose(c)
    BY <1>6, BeginExitHarmless DEF ManageClose, RunnerInv
<1>7. CASE ManageTakeProfit(c)
    <2>1. pc[c] = "loop" /\ ~manual[c] /\ ~InEntry(c)
        BY <1>0, <1>7 DEF ManageTakeProfit, InEntry, RunnerInv
    <2>2. PICK q \in 1..acct[c].tpf :
             IF q >= mem[c].pos THEN Finalize(c)
             ELSE /\ Mem(c, [mem[c] EXCEPT !.exiting = TRUE, !.rest = mem[c].pos - q])
                  /\ Exec(c, "ExitPartial") /\ Goto(c, "tpCancel")
                  /\ UNCHANGED <<lock, manual, row, acct, Counters>>
        BY <1>7 DEF ManageTakeProfit
    <2>3. CASE q >= mem[c].pos
        BY <2>1, <2>2, <2>3, FinalizeHarmless
    <2>4. CASE ~(q >= mem[c].pos)
        <3>1. /\ pc'[c] = "tpCancel" /\ exec'[c] = "ExitPartial" /\ Alone(c)
              /\ UNCHANGED <<lock, manual, gate>>
            BY <2>2, <2>4, Reads DEF Alone, Counters
        <3>2. "tpCancel" \in ExitPcs
            BY DEF ExitPcs
        <3>3. Harmless(c)
            BY <3>1, <3>2, Phases DEF Harmless, InEntry
        <3>4. RunnerInv(c)'
            BY <2>1, <3>1, <3>2, Phases DEF RunnerInv
        <3> QED BY <3>3, <3>4
    <2> QED BY <2>3, <2>4
<1> QED BY <1>3, <1>4, <1>5, <1>6, <1>7 DEF Loop

\* Every step of an exit stays in it, ends flat, or calls the operator: the timeout
\* of the verification always does.
LEMMA ExitHarmless ==
    ASSUME TypeInv, NEW c \in Codes, RunnerInv(c), Exit(c)
    PROVE  Harmless(c) /\ RunnerInv(c)'
<1>0. /\ {"exitCancel", "exitSubmit", "exitMark", "exitVerify", "exitRetry",
           "tpCancel", "tpSell", "tpMark", "reverify"} \subseteq ExitPcs
      /\ mem[c] \in MemType
    BY ValuesTyped DEF ExitPcs
<1>1. pc[c] \in ExitPcs
    BY <1>0 DEF Exit, ExitCancel, TpCancel, CancelTp, ExitSubmit, ExitMark, TpMark, Mark,
                VerifyTimeout, ExitVerify, ExitRetry, TpSell, SellRest, ExitReverify
<1>2. /\ ~InEntry(c) /\ pc[c] \notin {"off", "wait", "loop"}
      /\ exec[c] \in {"ExitPending", "ExitPartial"}
    BY <1>1, Phases DEF InEntry, RunnerInv
<1>3. ASSUME NEW r, NEW m \in MemType, ExitManual(c, r, m)
      PROVE  Harmless(c) /\ RunnerInv(c)'
    <2> DEFINE n == [m EXCEPT !.stop = TRUE, !.rest = 0]
    <2>1. n.stop
        BY DEF MemType
    <2>2. ToManual(c, "loop", r) /\ Mem(c, n) /\ gate' = gate
        BY <1>3 DEF ExitManual, Counters
    <2> HIDE DEF n
    <2> QED BY <2>1, <2>2, ToManualHarmless
<1>4. ASSUME NEW p \in ExitPcs, Goto(c, p), UNCHANGED <<lock, exec, manual, mem, gate>>
      PROVE  Harmless(c) /\ RunnerInv(c)'
    <2>1. Alone(c)
        BY <1>4, Reads DEF Alone
    <2>2. p \notin Committed
        BY Phases
    <2> QED BY <1>1, <1>2, <1>4, <2>1, <2>2, Phases, PhaseHarmless
<1>5. CASE ExitCancel(c) \/ TpCancel(c)
    BY <1>0, <1>4, <1>5 DEF ExitCancel, TpCancel, CancelTp, Counters
<1>6. CASE ExitMark(c) \/ TpMark(c)
    BY <1>0, <1>4, <1>6 DEF ExitMark, TpMark, Mark, Counters
<1>7. CASE ExitRetry(c) \/ TpSell(c)
    BY <1>0, <1>3, <1>4, <1>7 DEF ExitRetry, TpSell, SellRest, Counters
<1>8. CASE ExitSubmit(c)
    <2> DEFINE m == [mem[c] EXCEPT !.exiting = FALSE, !.tp = FALSE]
    <2>1. m \in MemType
        BY <1>0 DEF MemType
    <2> HIDE DEF m
    <2>2. CASE ExitManual(c, [row[c] EXCEPT !.tp = FALSE], m)
        BY <1>3, <2>1, <2>2
    <2>3. CASE ~ExitManual(c, [row[c] EXCEPT !.tp = FALSE], m)
        BY <1>0, <1>4, <1>8, <2>3 DEF ExitSubmit, Counters, m
    <2> QED BY <2>2, <2>3
<1>9. CASE VerifyTimeout(c)
    BY <1>0, <1>2, <1>3, <1>9, ExitTimeoutRule DEF VerifyTimeout
<1>10. CASE ExitVerify(c)
    <2>1. CASE Finalize(c)
        BY <1>2, <2>1, FinalizeHarmless
    <2>2. CASE ExitManual(c, row[c], mem[c])
        BY <1>0, <1>3, <2>2
    <2>3. CASE ~Finalize(c) /\ ~ExitManual(c, row[c], mem[c])
        <3> DEFINE m == [mem[c] EXCEPT !.rest = acct[c].hold]
        <3>1. m.pos = mem[c].pos /\ m.exiting = mem[c].exiting
            BY <1>0 DEF MemType
        <3>2. Mem(c, m) /\ Exec(c, "ExitPartial") /\ Goto(c, "exitRetry") /\ UNCHANGED <<lock, manual, gate>>
            BY <1>10, <2>3 DEF ExitVerify, Counters
        <3> HIDE DEF m
        <3>3. Alone(c) /\ mem'[c] = m /\ exec'[c] = "ExitPartial"
            BY <3>2, Reads DEF Alone
        <3>4. "exitRetry" \in ExitPcs /\ "exitRetry" \notin Committed
            BY <1>0, Phases
        <3> QED BY <1>1, <1>2, <3>1, <3>2, <3>3, <3>4, PhaseHarmless
    <2> QED BY <2>1, <2>2, <2>3
<1>11. CASE ExitReverify(c)
    <2>1. CASE Finalize(c)
        BY <1>2, <2>1, FinalizeHarmless
    <2>2. CASE ExitManual(c, row[c], mem[c])
        BY <1>0, <1>3, <2>2
    <2> QED BY <1>11, <2>1, <2>2 DEF ExitReverify
<1> QED BY <1>5, <1>6, <1>7, <1>8, <1>9, <1>10, <1>11 DEF Exit

\* The steps of an entry that neither hold the lock nor open the trade.
LEMMA EnterHarmless ==
    ASSUME TypeInv, NEW c \in Codes, RunnerInv(c), Enter(c), ~HoldLock(c), ~SaveOpen(c)
    PROVE  Harmless(c) /\ RunnerInv(c)'
<1>0. /\ {"signal", "armed", "submit", "post", "saveRow", "fillWait", "cancel", "verify", "hold"}
           \subseteq EntryPcs
      /\ {"placeTp", "saveOpen"} \subseteq OpenPcs
      /\ mem[c] \in MemType
    BY ValuesTyped DEF EntryPcs, OpenPcs
<1>c. /\ {"post", "saveRow", "fillWait", "cancel", "verify", "hold", "placeTp", "saveOpen"} \subseteq Committed
      /\ "armed" \notin Committed /\ "submit" \notin Committed
    BY DEF Committed
<1>1. ASSUME pc[c] \in EntryPcs, NEW p \in EntryPcs, Goto(c, p), NEW m, mem'[c] = m, Alone(c),
             m.pos = mem[c].pos, m.exiting = mem[c].exiting,
             p \in Committed => pc[c] \in Committed \/ gate < MaxTrades,
             UNCHANGED <<lock, manual, gate>>
      PROVE  Harmless(c) /\ RunnerInv(c)'
    <2>1. pc[c] \notin {"off", "wait", "loop"} /\ p \notin ExitPcs /\ p \notin OpenPcs
        BY <1>1, Phases
    <2> QED BY <1>1, <2>1, PhaseHarmless
<1> DEFINE F(q) == [mem[c] EXCEPT !.filled = q]
           S(q) == [mem[c] EXCEPT !.stop = q]
           R(q) == [mem[c] EXCEPT !.retried = TRUE, !.base = q]
<1>2. ASSUME pc[c] \in EntryPcs, NEW p \in EntryPcs, Goto(c, p),
             p \in Committed => pc[c] \in Committed,
             exec' = exec \/ \E s : Exec(c, s),
             mem' = mem \/ \E q : Mem(c, F(q)) \/ Mem(c, S(q)) \/ Mem(c, R(q)),
             UNCHANGED <<lock, manual, gate>>
      PROVE  Harmless(c) /\ RunnerInv(c)'
    <2>1. \A q : /\ F(q).pos = mem[c].pos /\ F(q).exiting = mem[c].exiting
                 /\ S(q).pos = mem[c].pos /\ S(q).exiting = mem[c].exiting
                 /\ R(q).pos = mem[c].pos /\ R(q).exiting = mem[c].exiting
        BY <1>0 DEF MemType
    <2> HIDE DEF F, S, R
    <2>2. mem'[c].pos = mem[c].pos /\ mem'[c].exiting = mem[c].exiting
          /\ \A d \in Codes \ {c} : mem'[d] = mem[d]
        BY <1>2, <2>1, Reads
    <2>3. Alone(c)
        BY <1>2, <2>2, Reads DEF Alone
    <2> QED BY <1>1, <1>2, <2>2, <2>3
<1>3. ASSUME NEW r, ToManual(c, "loop", r), Mem(c, [mem[c] EXCEPT !.stop = TRUE]), gate' = gate
      PROVE  Harmless(c) /\ RunnerInv(c)'
    <2> DEFINE m == [mem[c] EXCEPT !.stop = TRUE]
    <2>1. m.stop
        BY <1>0 DEF MemType
    <2>2. Mem(c, m)
        BY <1>3
    <2> HIDE DEF m
    <2> QED BY <1>3, <2>1, <2>2, ToManualHarmless
<1>4. ASSUME EntryFailed(c), pc[c] \in {"submit", "post"}, gate' = gate
      PROVE  Harmless(c) /\ RunnerInv(c)'
    <2>1. CASE Abort(c)
        BY <1>0, <1>4, <2>1, AbortHarmless
    <2>2. CASE ~Abort(c)
        BY <1>0, <1>2, <1>4, <1>c, <2>2 DEF EntryFailed
    <2> QED BY <2>1, <2>2
<1>5. CASE SignalAbort(c) \/ ArmedAbort(c)
    BY <1>0, <1>5, AbortHarmless DEF SignalAbort, ArmedAbort, Counters
<1>6. CASE SignalArmed(c) \/ ArmedReady(c)
    BY <1>0, <1>2, <1>6, <1>c DEF SignalArmed, ArmedReady, Counters
<1>7. CASE SubmitRefused(c)
    BY <1>4, <1>7 DEF SubmitRefused, Counters
<1>8. CASE SubmitReady(c)
    <2> DEFINE m == [mem[c] EXCEPT !.base = acct[c].hold]
    <2>1. m.pos = mem[c].pos /\ m.exiting = mem[c].exiting
        BY <1>0 DEF MemType
    <2>2. Mem(c, m) /\ gate < MaxTrades /\ pc[c] = "submit" /\ Goto(c, "post")
          /\ UNCHANGED <<lock, exec, manual, gate>>
        BY <1>8 DEF SubmitReady, Counters
    <2> HIDE DEF m
    <2>3. Alone(c) /\ mem'[c] = m
        BY <2>2, Reads DEF Alone
    <2> QED BY <1>0, <1>1, <2>1, <2>2, <2>3
<1>9. CASE PostAccepted(c)
    BY <1>0, <1>2, <1>9, <1>c DEF PostAccepted
<1>10. CASE PostFailed(c)
    BY <1>4, <1>10 DEF PostFailed
<1>11. CASE SaveRow(c)
    BY <1>0, <1>2, <1>3, <1>11, <1>c DEF SaveRow, Counters
<1>12. CASE WaitFilled(c) \/ WaitBroken(c)
    BY <1>0, <1>2, <1>12, <1>c DEF WaitFilled, WaitBroken, Counters
<1>13. CASE WaitTimedOut(c)
    BY <1>0, <1>2, <1>13, <1>c DEF WaitTimedOut, Counters
<1>14. CASE CancelEntry(c)
    BY <1>0, <1>2, <1>14, <1>c DEF CancelEntry, Counters
<1>15. CASE VerifyCancel(c)
    <2>1. pc[c] = "verify" /\ gate' = gate
        BY <1>15 DEF VerifyCancel, Counters
    <2>2. ASSUME NEW q, VerifyFilled(c, q), \/ exec' = exec
                                          \/ \E s : Exec(c, s)
          PROVE  Harmless(c) /\ RunnerInv(c)'
        BY <1>0, <1>2, <1>c, <2>1, <2>2 DEF VerifyFilled
    <2>3. ASSUME VerifyNothing(c)
          PROVE  Harmless(c) /\ RunnerInv(c)'
        BY <1>0, <1>3, <2>1, <2>2, <2>3, AbortHarmless DEF VerifyNothing
    <2> QED BY <1>15, <2>2, <2>3 DEF VerifyCancel
<1>16. CASE OpenPosition(c)
    <2>1. PICK known, m : m = [mem[c] EXCEPT !.pos = mem[c].filled, !.tp = known] /\ Mem(c, m)
        BY <1>16 DEF OpenPosition
    <2>2. m.exiting = mem[c].exiting
        BY <1>0, <2>1 DEF MemType
    <2>3. pc[c] = "placeTp" /\ Goto(c, "saveOpen") /\ UNCHANGED <<lock, exec, manual, gate>>
        BY <1>16 DEF OpenPosition, Counters
    <2>4. pc'[c] = "saveOpen" /\ mem'[c] = m /\ Alone(c)
        BY <2>1, <2>3, Reads DEF Alone
    <2>5. ~manual[c] /\ ~mem[c].exiting
        BY <1>0, <2>3, NotManual, Phases DEF RunnerInv
    <2>6. Harmless(c)
        BY <1>0, <1>c, <2>3, <2>4 DEF Harmless, InEntry
    <2>7. RunnerInv(c)'
        BY <1>0, <2>2, <2>3, <2>4, <2>5, Phases DEF RunnerInv
    <2> QED BY <2>6, <2>7
<1> QED BY <1>5, <1>6, <1>7, <1>8, <1>9, <1>10, <1>11, <1>12, <1>13, <1>14, <1>15, <1>16 DEF Enter

-----------------------------------------------------------------------------
\* The steps that take, hold and spend the slot.

\* A runner that takes the lock, asks for it, holds it or counts its trade stays right.
LEMMA SlotRunner ==
    ASSUME TypeInv, NEW c \in Codes, RunnerInv(c),
           PollAcquire(c) \/ PollPreempt(c) \/ HoldLock(c) \/ SaveOpen(c)
    PROVE  Alone(c) /\ manual' = manual /\ mem'[c].stop = mem[c].stop /\ RunnerInv(c)'
<1>0. /\ "signal" \in EntryPcs /\ "hold" \in EntryPcs
      /\ "placeTp" \in OpenPcs /\ "saveOpen" \in OpenPcs
    BY DEF EntryPcs, OpenPcs
<1>1. CASE PollAcquire(c)
    <2>1. /\ pc[c] = "loop" /\ ~mem[c].stop /\ mem[c].pos = 0
          /\ pc'[c] = "signal" /\ Alone(c) /\ UNCHANGED <<manual, mem>>
        BY <1>1, Reads DEF PollAcquire, Flat, Alone
    <2>2. ~manual[c] /\ ~mem[c].exiting
        BY <2>1, Phases DEF RunnerInv
    <2> QED BY <1>0, <2>1, <2>2, Phases DEF RunnerInv
<1>2. CASE PollPreempt(c)
    <2>1. Alone(c) /\ UNCHANGED <<pc, manual, mem>> /\ pc[c] = "loop" /\ ~(mem[c].pos > 0)
        BY <1>2, Reads DEF PollPreempt, Alone, Flat
    <2> QED BY <2>1, Phases DEF RunnerInv
<1>3. CASE HoldLock(c)
    <2>1. pc[c] = "hold" /\ pc'[c] = "placeTp" /\ Alone(c) /\ UNCHANGED <<exec, manual, mem>>
        BY <1>3, Reads DEF HoldLock, Alone
    <2>2. ~manual[c] /\ ~mem[c].exiting
        BY <1>0, <2>1, NotManual, Phases DEF RunnerInv
    <2> QED BY <1>0, <2>1, <2>2, Phases DEF RunnerInv
<1>4. CASE SaveOpen(c)
    <2> DEFINE m == [mem[c] EXCEPT !.filled = 0, !.base = 0, !.retried = FALSE]
    <2>1. m.exiting = mem[c].exiting /\ m.stop = mem[c].stop
        BY ValuesTyped DEF MemType
    <2>2. Mem(c, m)
        BY <1>4 DEF SaveOpen
    <2> HIDE DEF m
    <2>3. /\ pc[c] = "saveOpen" /\ pc'[c] = "loop" /\ exec'[c] = "Open" /\ mem'[c] = m
          /\ Alone(c) /\ UNCHANGED manual
        BY <1>4, <2>2, Reads DEF SaveOpen, Alone
    <2>4. ~manual[c] /\ ~mem[c].exiting
        BY <1>0, <2>3, NotManual, Phases DEF RunnerInv
    <2> QED BY <2>1, <2>3, <2>4, Phases DEF RunnerInv
<1> QED BY <1>1, <1>2, <1>3, <1>4

\* The lock is taken only when it is free, and then no code is in an entry.
LEMMA AcquireKeeps ==
    ASSUME TypeInv, IndInv, NEW c \in Codes, PollAcquire(c)
    PROVE  IndInv' /\ (\A d \in Codes : ~InEntry(d)) /\ InEntry(c)' /\ gate' = gate
<1>1. \A d \in Codes : ~InEntry(d)
    BY DEF PollAcquire, IndInv, SlotInv
<1>2. /\ pc'[c] = "signal" /\ Alone(c) /\ UNCHANGED <<manual, mem, gate>>
      /\ lock'.kind = "pending" /\ lock'.code = c
    <2>1. pc'[c] = "signal" /\ Alone(c) /\ UNCHANGED <<manual, mem, gate>>
        BY Reads DEF PollAcquire, Alone, Counters
    <2>2. lock'.kind = "pending" /\ lock'.code = c
        BY DEF PollAcquire, Lock
    <2> QED BY <2>1, <2>2
<1>3. "signal" \in EntryPcs /\ "signal" \notin Committed
    BY DEF EntryPcs, Committed
<1>4. \A d \in Codes : InEntry(d)' <=> d = c
    BY <1>1, <1>2, <1>3 DEF InEntry, Alone
<1>5. \A d \in Codes : RunnerInv(d)'
    <2>1. RunnerInv(c)'
        BY SlotRunner DEF IndInv
    <2>2. \A d \in Codes \ {c} : RunnerInv(d)'
        BY <1>2 DEF Alone, RunnerInv, IndInv
    <2> QED BY <2>1, <2>2
<1>6. ManualInv' /\ SlotInv'
    BY <1>2, <1>4 DEF ManualInv, SlotInv, EntryExclusive
<1>7. GateInv'
    BY <1>2, <1>3 DEF GateInv, Alone, IndInv
<1> QED BY <1>1, <1>2, <1>4, <1>5, <1>6, <1>7 DEF IndInv

\* A request to give way marks the lock and leaves its owner in place.
LEMMA PreemptKeeps ==
    ASSUME TypeInv, IndInv, NEW c \in Codes, PollPreempt(c)
    PROVE  IndInv' /\ (\A d \in Codes : InEntry(d)' <=> InEntry(d)) /\ gate' = gate
<1>1. Alone(c) /\ UNCHANGED <<pc, manual, mem, gate>>
    BY Reads DEF PollPreempt, Alone, Counters
<1>2. lock'.kind = lock.kind /\ lock'.code = lock.code
    BY DEF PollPreempt, TypeInv, LockOK, LockType
<1>3. \A d \in Codes : RunnerInv(d)'
    <2>1. RunnerInv(c)'
        BY SlotRunner DEF IndInv
    <2>2. \A d \in Codes \ {c} : RunnerInv(d)'
        BY <1>1 DEF Alone, RunnerInv, IndInv
    <2> QED BY <2>1, <2>2
<1>4. ManualInv' /\ SlotInv' /\ GateInv'
    BY <1>1, <1>2 DEF IndInv, ManualInv, SlotInv, GateInv, EntryExclusive, InEntry
<1> QED BY <1>1, <1>3, <1>4 DEF IndInv, InEntry

\* Held may overwrite another code's ManualHeld, never another code's Pending or Held.
LEMMA HoldKeeps ==
    ASSUME TypeInv, IndInv, NEW c \in Codes, HoldLock(c)
    PROVE  IndInv' /\ (\A d \in Codes : InEntry(d)' <=> InEntry(d)) /\ gate' = gate
<1>0. "hold" \in EntryPcs /\ "placeTp" \in OpenPcs /\ "hold" \in Committed
    BY DEF EntryPcs, OpenPcs, Committed
<1>1. /\ pc[c] = "hold" /\ pc'[c] = "placeTp" /\ Alone(c) /\ UNCHANGED <<exec, manual, mem, gate>>
      /\ lock'.kind = "held" /\ lock'.code = c
    <2>1. pc[c] = "hold" /\ pc'[c] = "placeTp" /\ Alone(c) /\ UNCHANGED <<exec, manual, mem, gate>>
        BY Reads DEF HoldLock, Alone, Counters
    <2>2. lock'.kind = "held" /\ lock'.code = c
        BY DEF HoldLock, Lock
    <2> QED BY <2>1, <2>2
<1>2. \A d \in Codes : InEntry(d)' <=> InEntry(d)
    BY <1>0, <1>1 DEF InEntry, Alone
<1>3. \A d \in Codes : InEntry(d) => d = c
    BY <1>0, <1>1 DEF IndInv, SlotInv, EntryExclusive, InEntry
<1>4. \A d \in Codes : RunnerInv(d)'
    <2>1. RunnerInv(c)'
        BY SlotRunner DEF IndInv
    <2>2. \A d \in Codes \ {c} : RunnerInv(d)'
        BY <1>1 DEF Alone, RunnerInv, IndInv
    <2> QED BY <2>1, <2>2
<1>5. ManualInv' /\ SlotInv'
    BY <1>1, <1>2, <1>3 DEF ManualInv, SlotInv, EntryExclusive
<1>6. GateInv'
    BY <1>0, <1>1 DEF GateInv, Alone, IndInv
<1> QED BY <1>1, <1>2, <1>4, <1>5, <1>6 DEF IndInv

\* The trade is counted inside the slot, so the room found at the gate is still there.
LEMMA SaveOpenKeeps ==
    ASSUME TypeInv, IndInv, NEW c \in Codes, SaveOpen(c)
    PROVE  /\ IndInv' /\ InEntry(c) /\ (\A d \in Codes : ~InEntry(d)')
           /\ gate < MaxTrades /\ gate' = gate + 1
<1>0. "saveOpen" \in OpenPcs /\ "saveOpen" \in Committed
    BY DEF OpenPcs, Committed
<1>1. /\ pc[c] = "saveOpen" /\ pc'[c] = "loop" /\ Alone(c)
      /\ UNCHANGED <<lock, manual>> /\ gate' = gate + 1
    BY Reads, SlotRunner DEF SaveOpen, IndInv
<1>2. InEntry(c) /\ gate < MaxTrades
    BY <1>0, <1>1 DEF InEntry, IndInv, GateInv
<1>3. \A d \in Codes : ~InEntry(d)'
    BY <1>1, <1>2, Phases DEF InEntry, Alone, IndInv, SlotInv, EntryExclusive
<1>4. \A d \in Codes : RunnerInv(d)'
    <2>1. RunnerInv(c)'
        BY SlotRunner DEF IndInv
    <2>2. \A d \in Codes \ {c} : RunnerInv(d)'
        BY <1>1 DEF Alone, RunnerInv, IndInv
    <2> QED BY <2>1, <2>2
<1>5. ManualInv' /\ SlotInv'
    BY <1>1, <1>3 DEF ManualInv, SlotInv, EntryExclusive, IndInv
<1>6. GateInv'
    <2>1. gate' <= MaxTrades
        BY <1>1, <1>2, LimitsAssumption DEF TypeInv, CountsOK
    <2>2. \A d \in Codes : pc'[d] \notin Committed
        BY <1>3, Phases DEF InEntry
    <2> QED BY <2>1, <2>2 DEF GateInv
<1> QED BY <1>1, <1>2, <1>3, <1>4, <1>5, <1>6 DEF IndInv

\* After a crash nobody is in an entry, and the gate starts again from 0.
LEMMA CrashKeeps ==
    ASSUME TypeInv, Crash
    PROVE  IndInv' /\ (\A d \in Codes : ~InEntry(d)') /\ gate' = 0
<1>1. /\ gate' = 0 /\ lock' = NoLock
      /\ \A d \in Codes : pc'[d] = "off" /\ manual'[d] = FALSE /\ mem'[d] = NewMem
    BY DEF Crash
<1>2. NewMem.pos = 0 /\ NewMem.exiting = FALSE /\ NoLock.kind = "free"
    BY DEF NewMem, NoLock, Lock
<1>3. \A d \in Codes : ~InEntry(d)'
    BY <1>1, Phases DEF InEntry
<1>4. \A d \in Codes : RunnerInv(d)'
    BY <1>1, <1>2, Phases DEF RunnerInv
<1>5. ManualInv' /\ SlotInv' /\ GateInv'
    BY <1>1, <1>2, <1>3, LimitsAssumption, Phases DEF ManualInv, SlotInv, EntryExclusive, GateInv
<1> QED BY <1>1, <1>3, <1>4, <1>5 DEF IndInv

\* Before any runner is started nobody is in an entry and nothing is counted.
LEMMA InitHolds == Init => IndInv /\ (\A d \in Codes : ~InEntry(d)) /\ gate = 0
<1> SUFFICES ASSUME Init PROVE IndInv /\ (\A d \in Codes : ~InEntry(d)) /\ gate = 0
    OBVIOUS
<1>1. /\ gate = 0 /\ lock = NoLock
      /\ \A d \in Codes : pc[d] = "off" /\ manual[d] = FALSE /\ mem[d] = NewMem
    BY DEF Init
<1>2. NewMem.pos = 0 /\ NewMem.exiting = FALSE /\ NoLock.kind = "free"
    BY DEF NewMem, NoLock, Lock
<1>3. \A d \in Codes : ~InEntry(d)
    BY <1>1, Phases DEF InEntry
<1>4. \A d \in Codes : RunnerInv(d)
    BY <1>1, <1>2, Phases DEF RunnerInv
<1>5. ManualInv /\ SlotInv /\ GateInv
    BY <1>1, <1>2, <1>3, LimitsAssumption, Phases DEF ManualInv, SlotInv, EntryExclusive, GateInv
<1> QED BY <1>1, <1>3, <1>4, <1>5 DEF IndInv

\* Every step keeps the invariant, and is one of the moves of the slot.
LEMMA StepKeeps ==
    ASSUME TypeInv, IndInv, Next
    PROVE  /\ IndInv'
           /\ \/ (\A d \in Codes : InEntry(d)' => InEntry(d)) /\ gate' = gate
              \/ (\A d \in Codes : ~InEntry(d)) /\ gate' = gate
              \/ /\ \E d \in Codes : InEntry(d)
                 /\ \A d \in Codes : ~InEntry(d)'
                 /\ gate < MaxTrades /\ gate' = gate + 1
              \/ (\A d \in Codes : ~InEntry(d)') /\ gate' = 0
<1>1. ASSUME NEW c \in Codes, Harmless(c), RunnerInv(c)'
      PROVE  IndInv' /\ (\A d \in Codes : InEntry(d)' => InEntry(d)) /\ gate' = gate
    BY <1>1, HarmlessKeeps DEF Harmless, Alone, InEntry
<1>2. CASE Crash
    BY <1>2, CrashKeeps
<1>3. ASSUME NEW c \in Codes, Start(c) \/ Stop(c) \/ Restore(c) \/ Exit(c) \/ Broker(c)
      PROVE  IndInv' /\ (\A d \in Codes : InEntry(d)' => InEntry(d)) /\ gate' = gate
    BY <1>1, <1>3, TaskHarmless, RestoreHarmless, ExitHarmless DEF IndInv
<1>4. ASSUME NEW c \in Codes, Loop(c), ~PollAcquire(c)
      PROVE  IndInv' /\ (\A d \in Codes : InEntry(d)' => InEntry(d)) /\ gate' = gate
    BY <1>1, <1>4, LoopHarmless, PreemptKeeps DEF IndInv
<1>5. ASSUME NEW c \in Codes, Enter(c), ~SaveOpen(c)
      PROVE  IndInv' /\ (\A d \in Codes : InEntry(d)' => InEntry(d)) /\ gate' = gate
    BY <1>1, <1>5, EnterHarmless, HoldKeeps DEF IndInv
<1> QED BY <1>2, <1>3, <1>4, <1>5, AcquireKeeps, SaveOpenKeeps DEF Next

-----------------------------------------------------------------------------
\* The inductive invariant.
THEOREM Invariant == Spec => []IndInv
<1>1. ASSUME TypeInv, IndInv, [Next]_vars
      PROVE  IndInv'
    <2>1. CASE Next
        BY <1>1, <2>1, StepKeeps
    <2>2. CASE UNCHANGED vars
        BY <1>1, <2>2 DEF vars, IndInv, RunnerInv, ManualInv, SlotInv, GateInv, EntryExclusive, InEntry
    <2> QED BY <1>1, <2>1, <2>2
<1> QED BY <1>1, InitHolds, TypesHold, PTL DEF Spec

\* At most one code is between taking the lock and counting the trade, in poll_and_enter
\* and execute_entry, whatever fails and whoever crashes.
THEOREM EntryIsExclusive == Spec => []EntryExclusive
<1>1. IndInv => EntryExclusive
    BY DEF IndInv, SlotInv
<1> QED BY <1>1, Invariant, PTL

\* The daily limit of the trade gate is never passed, although the check in
\* execute_entry and the count after the fill are not one atomic step.
THEOREM GateIsRespected == Spec => []GateRespected
<1>1. IndInv => GateRespected
    BY DEF IndInv, GateInv, GateRespected
<1> QED BY <1>1, Invariant, PTL

\* No runner waits in its loop with exit_pending set, where manage_position would
\* never look at its position again, unless an operator was called.
THEOREM NoExitStranded == Spec => []NoStrandedExit
<1>1. IndInv => NoStrandedExit
    <2> SUFFICES ASSUME IndInv, NEW c \in Codes, mem[c].exiting, pc[c] \in {"wait", "loop", "off"}
                 PROVE  manual[c]
        BY DEF NoStrandedExit
    <2>1. pc[c] \notin ExitPcs
        BY Phases
    <2> QED BY <2>1 DEF IndInv, RunnerInv
<1> QED BY <1>1, Invariant, PTL

\* While close_position_market verifies a sale, the actor is in a state whose timeout
\* calls the operator, so a verification that runs out of time is never forgotten.
THEOREM ExitTimeoutIsManual == Spec => []ExitTimeoutEscalates
<1>1. IndInv => ExitTimeoutEscalates
    <2> SUFFICES ASSUME IndInv, NEW c \in Codes, pc[c] \in {"exitVerify", "reverify"}
                 PROVE  "EnterManualIntervention" \in CmdsOf(exec[c], Timeout("ExitFill"))
        BY DEF ExitTimeoutEscalates
    <2>1. pc[c] \in ExitPcs
        BY DEF ExitPcs
    <2> QED BY <2>1, ExitTimeoutRule DEF IndInv, RunnerInv
<1> QED BY <1>1, Invariant, PTL

-----------------------------------------------------------------------------
\* The refinement: SlotOwner is the code in an entry.

\* The owner of the slot, as a function of who is in an entry.
OwnerOf == /\ \A c \in Codes : InEntry(c) => SlotOwner = c
           /\ (\A c \in Codes : ~InEntry(c)) => SlotOwner = NoCode

\* With exclusive entries the owner of the slot is determined.
LEMMA OwnerIs == EntryExclusive => OwnerOf
<1> SUFFICES ASSUME EntryExclusive PROVE OwnerOf
    OBVIOUS
<1>1. ASSUME NEW c \in Codes, InEntry(c)
      PROVE  SlotOwner = c
    <2>1. (CHOOSE d \in Codes : InEntry(d)) \in Codes /\ InEntry(CHOOSE d \in Codes : InEntry(d))
        BY <1>1, Zenon
    <2>2. (CHOOSE d \in Codes : InEntry(d)) = c
        BY <1>1, <2>1, Zenon DEF EntryExclusive
    <2> QED BY <1>1, <2>2, Zenon DEF SlotOwner
<1>2. (\A c \in Codes : ~InEntry(c)) => SlotOwner = NoCode
    BY Zenon DEF SlotOwner
<1> QED BY <1>1, <1>2 DEF OwnerOf

\* The same of the next state.
LEMMA OwnerWillBe == EntryExclusive' => OwnerOf'
BY OwnerIs, PTL

\* The lock and the gate of the runners implement a trade slot with a daily budget.
THEOREM Refinement == Spec => ImplementsTradeSlot
<1>1. Init => Slot!Init
    BY InitHolds, OwnerIs DEF OwnerOf, IndInv, SlotInv, Slot!Init
<1>2. ASSUME TypeInv, IndInv, IndInv', [Next]_vars
      PROVE  [Slot!Next]_<<SlotOwner, gate>>
    <2>0. EntryExclusive /\ EntryExclusive'
        BY <1>2 DEF IndInv, SlotInv
    <2>1. /\ \A c \in Codes : InEntry(c) => SlotOwner = c /\ SlotOwner # NoCode
          /\ (\A c \in Codes : ~InEntry(c)) => SlotOwner = NoCode
          /\ \A c \in Codes : InEntry(c)' => SlotOwner' = c
          /\ (\A c \in Codes : ~InEntry(c)') => SlotOwner' = NoCode
        BY <2>0, OwnerIs, OwnerWillBe, CodesAssumption DEF OwnerOf
    <2>2. CASE (\A d \in Codes : InEntry(d)' => InEntry(d)) /\ gate' = gate
        <3>1. SlotOwner' = SlotOwner \/ (SlotOwner # NoCode /\ SlotOwner' = NoCode)
            BY <2>1, <2>2
        <3> QED BY <2>2, <3>1 DEF Slot!Next, Slot!GiveUp
    <2>3. CASE (\A d \in Codes : ~InEntry(d)) /\ gate' = gate
        <3>1. SlotOwner = NoCode /\ (SlotOwner' = NoCode \/ SlotOwner' \in Codes)
            BY <2>1, <2>3
        <3> QED BY <2>3, <3>1 DEF Slot!Next, Slot!Take
    <2>4. CASE /\ \E d \in Codes : InEntry(d)
               /\ \A d \in Codes : ~InEntry(d)'
               /\ gate < MaxTrades /\ gate' = gate + 1
        BY <2>1, <2>4 DEF Slot!Next, Slot!Open
    <2>5. CASE (\A d \in Codes : ~InEntry(d)') /\ gate' = 0
        BY <2>1, <2>5 DEF Slot!Next, Slot!Restart
    <2>6. CASE UNCHANGED vars
        BY <2>6 DEF vars, SlotOwner, InEntry
    <2> QED BY <1>2, <2>2, <2>3, <2>4, <2>5, <2>6, StepKeeps
<1> QED BY <1>1, <1>2, TypesHold, Invariant, PTL DEF Spec, ImplementsTradeSlot, Slot!Spec
-----------------------------------------------------------------------------
(***************************************************************************)
(* The live runners against the broker's account and their rows: what holds *)
(* for any number of codes, shares and trades, but not under every fault.   *)
(* The theorems name the faults they exclude.                               *)
(***************************************************************************)

\* The row can be read and written, and the process does not die.
RowsReliable == "db" \notin Faults /\ "crash" \notin Faults

\* Orders are cancelled and answered, and the process does not die; balance and fill
\* inquiries may fail where an entry is a single share: with more, a failed
\* inquiry can hide the later part of a partial fill.
OrdersAnswered ==
    /\ Faults \subseteq {"query", "db"}
    /\ "query" \in Faults => Qty = 1

-----------------------------------------------------------------------------
\* Rows and the lock.

\* Where a runner has no position and no order with a row.
NoTrade(c) ==
    \/ pc[c] \in {"off", "wait", "restore", "orphanCancel", "signal", "armed", "submit", "post", "saveRow"}
    \/ pc[c] = "loop" /\ mem[c].pos = 0

\* There is a row only for a trade, so a restart of the runner finds none and no restore
\* path that reads one is taken; and a trade has shares.
RowFollows(c) ==
    /\ pc[c] \notin {"restoreEntry", "restoreCancel", "restoreRecheck", "restoreStock", "restoreTp"}
    /\ NoTrade(c) /\ ~manual[c] => row[c].st = "none"
    /\ pc[c] \in {"hold", "placeTp"} => mem[c].filled > 0
    /\ pc[c] = "saveOpen" => mem[c].pos > 0

\* From holding the lock to the end of the exit.
Holding(c) == mem[c].pos > 0 \/ pc[c] \in OpenPcs \cup ExitPcs

\* A position has the lock, and meanwhile no other runner is in an entry, which could
\* end in Held over a ManualHeld lock.
LockFollows(c) ==
    Holding(c) => /\ lock.kind \in {"held", "manual"} /\ lock.code = c
                  /\ \A d \in Codes \ {c} : ~InEntry(d)

TradeInv == \A c \in Codes : RowFollows(c) /\ LockFollows(c)

\* The rest of the state of the other runners stays too.
Apart(c) == \A d \in Codes \ {c} : row'[d] = row[d] /\ acct'[d] = acct[d]

\* Nothing is held after a step that was not before, and the lock of what is held
\* is kept or becomes ManualHeld.
StillHolding(c) == Holding(c)' => Holding(c) /\ lock' \in {lock, ManualLock(c)}

\* What a step makes of the row and the account of c can be read back at c, and nowhere else.
LEMMA Records ==
    ASSUME TypeInv, NEW c \in Codes
    PROVE  /\ \A r : Row(c, r) => row'[c] = r /\ \A d \in Codes \ {c} : row'[d] = row[d]
           /\ \A a : Acct(c, a) => acct'[c] = a /\ \A d \in Codes \ {c} : acct'[d] = acct[d]
           /\ \A r : WriteRow(c, r) => /\ row'[c] = r \/ (row' = row /\ "db" \in Faults)
                                       /\ \A d \in Codes \ {c} : row'[d] = row[d]
BY DEF TypeInv, RowOK, AcctOK, Row, Acct, WriteRow, MayFail

\* No step of a runner reaches another code's row or account.
LEMMA StepsApart ==
    ASSUME TypeInv, NEW c \in Codes,
           Start(c) \/ Stop(c) \/ Restore(c) \/ Loop(c) \/ Enter(c) \/ Exit(c) \/ Broker(c)
    PROVE  Apart(c)
<1> DEFINE RowApart  == \A d \in Codes \ {c} : row'[d] = row[d]
           AcctApart == \A d \in Codes \ {c} : acct'[d] = acct[d]
<1>1. /\ row' = row \/ (\E r : Row(c, r) \/ WriteRow(c, r)) => RowApart
      /\ acct' = acct \/ (\E a : Acct(c, a)) => AcctApart
    BY Records
<1>2. RowApart /\ AcctApart => Apart(c)
    BY DEF Apart
<1> HIDE DEF RowApart, AcctApart
<1>3. CASE Start(c) \/ Stop(c)
    BY <1>1, <1>2, <1>3 DEF Start, Stop
<1>4. /\ \A p, r : ToManual(c, p, r) => RowApart
      /\ \A q, r : RestoreManual(c, q, r) => RowApart /\ AcctApart
      /\ \A l : RestoreFlat(c, l) => RowApart /\ AcctApart
      /\ \A p : RestoreStep(c, p) => RowApart /\ AcctApart
      /\ CancelAll(c) => AcctApart
      /\ \A q, known : PlaceTp(c, q, known) => AcctApart
      /\ \A q : Sells(c, q) \/ SellsSilently(c, q) => AcctApart
    BY <1>1 DEF ToManual, RestoreManual, RestoreFlat, RestoreStep, CancelAll, PlaceTp, Sells, SellsSilently
<1>5. CASE Restore(c)
    BY <1>1, <1>2, <1>4, <1>5 DEF Restore, RestoreOrphan, OrphanCancel, RestoreExit, RestoreEntry,
       EntryAsManual, RestoreCancel, RestoreRecheck, RestoreOpen, RestoreStock, RestoreTp
<1>6. Finalize(c) \/ BeginExit(c) => RowApart /\ AcctApart
    BY <1>1 DEF Finalize, BeginExit
<1>7. CASE Loop(c)
    BY <1>1, <1>2, <1>6, <1>7 DEF Loop, WaitStopped, WaitOver, LoopStop, LoopEnd, PollDegraded,
       PollIdle, PollPreempt, PollAcquire, ManageClose, ManageTakeProfit
<1>8. CASE Enter(c)
    BY <1>1, <1>2, <1>4, <1>8 DEF Enter, SignalAbort, SignalArmed, ArmedAbort, ArmedReady,
       SubmitRefused, SubmitReady, PostAccepted, PostFailed, SaveRow, WaitFilled, WaitBroken,
       WaitTimedOut, CancelEntry, VerifyCancel, VerifyFilled, VerifyNothing, HoldLock, OpenPosition, SaveOpen
<1>9. CASE Exit(c)
    BY <1>1, <1>2, <1>4, <1>6, <1>9 DEF Exit, ExitCancel, TpCancel, CancelTp, ExitSubmit, ExitManual,
       ExitMark, TpMark, Mark, VerifyTimeout, ExitVerify, ExitRetry, TpSell, SellRest, ExitReverify
<1>10. CASE Broker(c)
    BY <1>1, <1>2, <1>10 DEF Broker, FillEntry, FillStray, FillTp, FillMarket, Filled
<1> QED BY <1>3, <1>5, <1>7, <1>8, <1>9, <1>10

-----------------------------------------------------------------------------
\* Each part of the runner keeps RowFollows and gives up nothing that is held.

\* Where the program counters of the actions belong.
LEMMA Places ==
    /\ {"restore", "orphanCancel", "restoreEntry", "restoreCancel", "restoreRecheck", "restoreStock",
        "restoreTp"} = RestorePcs
    /\ {"signal", "armed", "submit", "post", "saveRow", "fillWait", "cancel", "verify", "hold"} = EntryPcs
    /\ {"placeTp", "saveOpen"} = OpenPcs
    /\ {"exitCancel", "exitSubmit", "exitMark", "exitVerify", "exitRetry",
        "tpCancel", "tpSell", "tpMark", "reverify"} = ExitPcs
BY DEF RestorePcs, EntryPcs, OpenPcs, ExitPcs

\* The restore of a runner finds no row, and keeps no position.
LEMMA RestoreTrades ==
    ASSUME RowsReliable, TypeInv, IndInv, TradeInv, NEW c \in Codes, Restore(c)
    PROVE  RowFollows(c)' /\ StillHolding(c)
<1>0. mem[c] \in MemType
    BY ValuesTyped
<1>1. RowFollows(c) /\ ~MayFail("db")
    BY DEF TradeInv, RowsReliable, MayFail
<1>2. /\ pc[c] \in RestorePcs
      /\ pc[c] \in {"restore", "orphanCancel"}
    BY <1>1, Places DEF RowFollows, Restore, RestoreOrphan, OrphanCancel, RestoreExit, RestoreEntry,
       RestoreCancel, RestoreRecheck, RestoreOpen, RestoreStock, RestoreTp
<1>3. ~manual[c] /\ mem[c].pos = 0 /\ row[c].st = "none"
    BY <1>1, <1>2, Phases, NotManual DEF RowFollows, NoTrade, IndInv, RunnerInv
<1>4. RestoreOrphan(c) \/ OrphanCancel(c)
    BY <1>1, <1>2, <1>3 DEF Restore, RestoreExit, RestoreEntry, RestoreCancel, RestoreRecheck,
       RestoreOpen, RestoreStock, RestoreTp
<1>5. CASE RestoreManual(c, 0, row[c])
    <2> DEFINE m == [mem[c] EXCEPT !.pos = 0, !.stop = TRUE]
    <2>1. m.pos = 0
        BY <1>0 DEF MemType
    <2>2. Mem(c, m) /\ ToManual(c, "wait", row[c])
        BY <1>5 DEF RestoreManual
    <2> HIDE DEF m
    <2>3. mem'[c].pos = 0 /\ pc'[c] = "wait" /\ manual'[c] = TRUE
        BY <2>1, <2>2, Reads DEF ToManual
    <2> QED BY <2>3, Places DEF RowFollows, StillHolding, Holding
<1>6. CASE pc'[c] \in {"orphanCancel", "wait"} /\ mem' = mem /\ row' = row /\ manual' = manual
    BY <1>3, <1>6, Places DEF RowFollows, NoTrade, StillHolding, Holding
<1> QED BY <1>4, <1>5, <1>6, Reads DEF RestoreOrphan, OrphanCancel, RestoreStep

\* What finalize_flat_transition and enter_manual_intervention_state leave behind.
LEMMA EndsTrade ==
    ASSUME RowsReliable, TypeInv, NEW c \in Codes
    PROVE  /\ Finalize(c) => /\ pc'[c] \in {"loop", "off"} /\ mem'[c].pos = 0 /\ row'[c].st = "none"
                             /\ RowFollows(c)' /\ StillHolding(c)
           /\ \A p \in {"loop", "wait"} : \A r :
                ToManual(c, p, r) => /\ pc'[c] = p /\ manual'[c] /\ lock' = ManualLock(c)
                                     /\ RowFollows(c)'
<1>1. ASSUME Finalize(c)
      PROVE  /\ pc'[c] \in {"loop", "off"} /\ mem'[c].pos = 0 /\ row'[c].st = "none"
             /\ RowFollows(c)' /\ StillHolding(c)
    <2> DEFINE m == [mem[c] EXCEPT !.pos = 0, !.tp = FALSE, !.exiting = FALSE, !.rest = 0]
    <2>1. m.pos = 0
        BY ValuesTyped DEF MemType
    <2>2. Mem(c, m) /\ WriteRow(c, NoRow) /\ \E p \in {"loop", "off"} : Goto(c, p)
        BY <1>1 DEF Finalize
    <2> HIDE DEF m
    <2>3. mem'[c].pos = 0 /\ pc'[c] \in {"loop", "off"}
        BY <2>1, <2>2, Reads
    <2>4. row'[c].st = "none"
        BY <2>2, Records DEF RowsReliable, NoRow
    <2> QED BY <2>3, <2>4, Places DEF RowFollows, NoTrade, StillHolding, Holding
<1>2. ASSUME NEW p \in {"loop", "wait"}, NEW r, ToManual(c, p, r)
      PROVE  pc'[c] = p /\ manual'[c] /\ lock' = ManualLock(c) /\ RowFollows(c)'
    <2>1. pc'[c] = p /\ manual'[c] = TRUE /\ lock' = ManualLock(c)
        BY <1>2, Reads DEF ToManual
    <2> QED BY <2>1 DEF RowFollows
<1> QED BY <1>1, <1>2

\* Starting, stopping and the broker.
LEMMA TaskTrades ==
    ASSUME TypeInv, IndInv, TradeInv, NEW c \in Codes, Start(c) \/ Stop(c) \/ Broker(c)
    PROVE  RowFollows(c)' /\ StillHolding(c)
<1>0. mem[c] \in MemType /\ RowFollows(c)
    BY ValuesTyped DEF TradeInv
<1>1. CASE Start(c)
    <2>1. pc'[c] = "restore" /\ mem'[c].pos = 0 /\ pc[c] = "off" /\ ~manual[c] /\ row' = row
        BY <1>1, Reads DEF Start, NewMem
    <2> QED BY <1>0, <2>1, Places DEF RowFollows, NoTrade, StillHolding, Holding
<1>2. CASE Stop(c)
    <2> DEFINE m == [mem[c] EXCEPT !.stop = TRUE]
    <2>1. m.pos = mem[c].pos /\ m.filled = mem[c].filled
        BY <1>0 DEF MemType
    <2>2. Mem(c, m) /\ UNCHANGED <<lock, pc, manual, row>>
        BY <1>2 DEF Stop
    <2> HIDE DEF m
    <2>3. mem'[c].pos = mem[c].pos /\ mem'[c].filled = mem[c].filled
        BY <2>1, <2>2, Reads
    <2> QED BY <1>0, <2>2, <2>3 DEF RowFollows, NoTrade, StillHolding, Holding
<1>3. CASE Broker(c)
    <2>1. UNCHANGED <<lock, pc, manual, mem, row>>
        BY <1>3 DEF Broker, FillEntry, FillStray, FillTp, FillMarket, Filled
    <2> QED BY <1>0, <2>1 DEF RowFollows, NoTrade, StillHolding, Holding
<1> QED BY <1>1, <1>2, <1>3

\* The loop: only a position is closed, and a runner without one has no row.
LEMMA LoopTrades ==
    ASSUME RowsReliable, TypeInv, IndInv, TradeInv, NEW c \in Codes, Loop(c)
    PROVE  RowFollows(c)' /\ StillHolding(c)
<1>0. mem[c] \in MemType /\ RowFollows(c)
    BY ValuesTyped DEF TradeInv
<1>1. ASSUME pc[c] \in {"wait", "loop"}, pc'[c] \in {"off", "wait", "loop"}, UNCHANGED <<mem, row, manual>>,
             pc[c] = "wait" \/ mem[c].pos = 0 \/ manual[c]
      PROVE  RowFollows(c)' /\ (lock' = lock => StillHolding(c))
    BY <1>0, <1>1, Places DEF RowFollows, NoTrade, StillHolding, Holding
<1>2. ASSUME pc'[c] \in ExitPcs, lock' = lock, mem[c].pos > 0
      PROVE  RowFollows(c)' /\ StillHolding(c)
    <2>1. pc'[c] \notin RestorePcs \cup EntryPcs \cup OpenPcs \cup {"off", "wait", "loop"}
        BY <1>2, Phases
    <2> QED BY <1>2, <2>1, Places DEF RowFollows, NoTrade, StillHolding, Holding
<1>3. CASE WaitStopped(c) \/ WaitOver(c) \/ LoopEnd(c)
    BY <1>1, <1>3, Reads DEF WaitStopped, WaitOver, LoopEnd
<1>4. BeginExit(c) => RowFollows(c)' /\ StillHolding(c)
    BY <1>2, Places, Reads DEF BeginExit
<1>5. CASE LoopStop(c) /\ ~BeginExit(c)
    <2>1. pc[c] = "loop" /\ (manual[c] \/ mem[c].pos = 0 \/ mem[c].exiting) /\ Goto(c, "off")
          /\ UNCHANGED <<lock, mem, row, manual>>
        BY <1>5 DEF LoopStop
    <2>2. manual[c] \/ mem[c].pos = 0
        BY <2>1, Phases DEF IndInv, RunnerInv
    <2> QED BY <1>1, <2>1, <2>2, Reads
<1>6. CASE PollDegraded(c) \/ PollIdle(c) \/ PollPreempt(c)
    <2>1. pc[c] = "loop" /\ mem[c].pos = 0 /\ UNCHANGED <<pc, mem, row, manual>>
        BY <1>6 DEF PollDegraded, PollIdle, PollPreempt, Flat
    <2> QED BY <1>0, <1>1, <2>1, Places DEF StillHolding, Holding
<1>7. CASE PollAcquire(c)
    <2>1. pc[c] = "loop" /\ mem[c].pos = 0 /\ pc'[c] = "signal" /\ UNCHANGED <<mem, row, manual>>
        BY <1>7, Reads DEF PollAcquire, Flat
    <2> QED BY <1>0, <2>1, Places DEF RowFollows, NoTrade, StillHolding, Holding
<1>8. CASE ManageTakeProfit(c)
    <2>1. mem[c].pos > 0
        BY <1>8 DEF ManageTakeProfit
    <2>2. Finalize(c) \/ (Goto(c, "tpCancel") /\ lock' = lock)
        BY <1>8 DEF ManageTakeProfit
    <2> QED BY <1>2, <2>1, <2>2, EndsTrade, Places, Reads
<1> QED BY <1>3, <1>4, <1>5, <1>6, <1>7, <1>8 DEF Loop, LoopStop, ManageClose

\* An entry: its row exists from the wait for the fill to the end, and it ends with
\* shares that filled, flat and without a row, or manual.
LEMMA EnterTrades ==
    ASSUME RowsReliable, TypeInv, IndInv, TradeInv, NEW c \in Codes, Enter(c), ~HoldLock(c)
    PROVE  RowFollows(c)' /\ StillHolding(c)
<1>0. mem[c] \in MemType /\ acct[c] \in AcctType /\ RowFollows(c)
    BY ValuesTyped DEF TradeInv
<1>p. pc[c] \in EntryPcs \cup OpenPcs
    BY Places DEF Enter, SignalAbort, SignalArmed, ArmedAbort, ArmedReady, SubmitRefused, SubmitReady,
       PostAccepted, PostFailed, SaveRow, WaitFilled, WaitBroken, WaitTimedOut, CancelEntry,
       VerifyCancel, HoldLock, OpenPosition, SaveOpen
<1>m. ~manual[c]
    BY <1>p, Phases, NotManual DEF IndInv
<1>z. pc[c] \in EntryPcs => mem[c].pos = 0
    BY DEF IndInv, RunnerInv
\* Steps of the entry that keep the position at 0 and the lock.
<1>1. ASSUME pc[c] \in EntryPcs, pc'[c] \in EntryPcs, mem'[c].pos = mem[c].pos,
             NoTrade(c)' => row'[c].st = "none", pc'[c] = "hold" => mem'[c].filled > 0
      PROVE  RowFollows(c)' /\ StillHolding(c)
    <2>1. pc'[c] \notin RestorePcs \cup OpenPcs \cup ExitPcs
        BY <1>1, Phases
    <2> QED BY <1>1, <1>z, <2>1, Places DEF RowFollows, StillHolding, Holding
<1>2. ASSUME Abort(c), pc[c] \in EntryPcs, row'[c].st = "none"
      PROVE  RowFollows(c)' /\ StillHolding(c)
    <2> DEFINE m == [mem[c] EXCEPT !.filled = 0, !.base = 0, !.retried = FALSE]
    <2>1. m.pos = mem[c].pos
        BY <1>0 DEF MemType
    <2>2. Mem(c, m) /\ Goto(c, "loop")
        BY <1>2 DEF Abort
    <2> HIDE DEF m
    <2>3. mem'[c].pos = 0 /\ pc'[c] = "loop"
        BY <1>2, <1>z, <2>1, <2>2, Reads
    <2> QED BY <1>2, <2>3, Places DEF RowFollows, StillHolding, Holding
<1>3. ASSUME NEW r, ToManual(c, "loop", r), Mem(c, [mem[c] EXCEPT !.stop = TRUE]), pc[c] \in EntryPcs
      PROVE  RowFollows(c)' /\ StillHolding(c)
    <2> DEFINE m == [mem[c] EXCEPT !.stop = TRUE]
    <2>1. m.pos = mem[c].pos
        BY <1>0 DEF MemType
    <2>2. Mem(c, m)
        BY <1>3
    <2> HIDE DEF m
    <2>3. mem'[c].pos = 0
        BY <1>3, <1>z, <2>1, <2>2, Reads
    <2> QED BY <1>3, <2>3, EndsTrade, Places DEF StillHolding, Holding
<1>4. ASSUME EntryFailed(c), pc[c] \in {"submit", "post"}, row' = row
      PROVE  RowFollows(c)' /\ StillHolding(c)
    <2>1. pc[c] \in EntryPcs /\ row[c].st = "none"
        BY <1>0, <1>4, <1>m, Places DEF RowFollows, NoTrade
    <2>2. CASE Abort(c)
        BY <1>2, <1>4, <2>1, <2>2
    <2>3. CASE ~Abort(c)
        <3> DEFINE m == [mem[c] EXCEPT !.retried = TRUE, !.base = 0]
        <3>1. m.pos = mem[c].pos
            BY <1>0 DEF MemType
        <3>2. Mem(c, m) /\ Goto(c, "submit")
            BY <1>4, <2>3 DEF EntryFailed
        <3> HIDE DEF m
        <3>3. mem'[c].pos = mem[c].pos /\ pc'[c] = "submit"
            BY <3>1, <3>2, Reads
        <3> QED BY <1>1, <1>4, <2>1, <3>3, Places
    <2> QED BY <2>2, <2>3
<1>5. CASE SignalAbort(c) \/ ArmedAbort(c)
    BY <1>0, <1>2, <1>5, <1>m, Places DEF SignalAbort, ArmedAbort, RowFollows, NoTrade
<1>6. CASE SignalArmed(c) \/ ArmedReady(c)
    BY <1>0, <1>1, <1>6, <1>m, Places, Reads DEF SignalArmed, ArmedReady, RowFollows, NoTrade
<1>7. CASE SubmitRefused(c) \/ PostFailed(c)
    BY <1>4, <1>7 DEF SubmitRefused, PostFailed
<1>8. CASE SubmitReady(c)
    <2> DEFINE m == [mem[c] EXCEPT !.base = acct[c].hold]
    <2>1. m.pos = mem[c].pos
        BY <1>0 DEF MemType
    <2>2. pc[c] = "submit" /\ Mem(c, m) /\ Goto(c, "post") /\ row' = row
        BY <1>8 DEF SubmitReady
    <2> HIDE DEF m
    <2>3. mem'[c].pos = mem[c].pos /\ pc'[c] = "post"
        BY <2>1, <2>2, Reads
    <2> QED BY <1>0, <1>1, <1>m, <2>2, <2>3, Places DEF RowFollows, NoTrade
<1>9. CASE PostAccepted(c)
    BY <1>0, <1>1, <1>9, <1>m, Places, Reads DEF PostAccepted, RowFollows, NoTrade
<1>10. CASE SaveRow(c)
    <2>1. ASSUME NEW q, Mem(c, [mem[c] EXCEPT !.stop = q])
          PROVE  mem'[c].pos = mem[c].pos
        <3> DEFINE m == [mem[c] EXCEPT !.stop = q]
        <3>1. m.pos = mem[c].pos
            BY <1>0 DEF MemType
        <3>2. Mem(c, m)
            BY <2>1
        <3> HIDE DEF m
        <3> QED BY <3>1, <3>2, Reads
    <2>2. CASE Goto(c, "fillWait")
        <3>1. mem'[c].pos = mem[c].pos
            BY <1>10, <2>1, <2>2 DEF SaveRow
        <3> QED BY <1>1, <1>10, <2>2, <3>1, Places, Reads DEF SaveRow, NoTrade
    <2> QED BY <1>3, <1>10, <2>2, Places DEF SaveRow
\* The steps that write the filled quantity.
<1>11. ASSUME NEW n, Mem(c, [mem[c] EXCEPT !.filled = n])
       PROVE  mem'[c].pos = mem[c].pos /\ mem'[c].filled = n
    <2> DEFINE m == [mem[c] EXCEPT !.filled = n]
    <2>1. m.pos = mem[c].pos /\ m.filled = n
        BY <1>0 DEF MemType
    <2>2. Mem(c, m)
        BY <1>11
    <2> HIDE DEF m
    <2> QED BY <2>1, <2>2, Reads
<1>q. Qty > 0
    BY QtyAssumption
<1>12. CASE WaitFilled(c)
    BY <1>1, <1>11, <1>12, <1>q, Places, Reads DEF WaitFilled, NoTrade
<1>13. CASE WaitBroken(c)
    BY <1>1, <1>11, <1>13, Places, Reads DEF WaitBroken, NoTrade
<1>14. CASE WaitTimedOut(c)
    <2>1. PICK filled : /\ Mem(c, [mem[c] EXCEPT !.filled = filled])
                        /\ Goto(c, IF filled = Qty THEN "hold" ELSE "cancel")
        BY <1>14 DEF WaitTimedOut
    <2>2. pc'[c] = "cancel" \/ (pc'[c] = "hold" /\ filled = Qty)
        BY <2>1, Reads
    <2> QED BY <1>1, <1>11, <1>14, <1>q, <2>1, <2>2, Places DEF WaitTimedOut, NoTrade
<1>15. CASE CancelEntry(c)
    BY <1>1, <1>15, Places, Reads DEF CancelEntry, NoTrade
<1>16. CASE VerifyCancel(c)
    <2>1. pc[c] = "verify"
        BY <1>16 DEF VerifyCancel
    <2>2. ASSUME NEW q, q > 0, VerifyFilled(c, q)
          PROVE  RowFollows(c)' /\ StillHolding(c)
        BY <1>1, <1>11, <2>1, <2>2, Places, Reads, SMTT(20) DEF VerifyFilled, NoTrade
    <2>3. WriteRow(c, NoRow) => row'[c].st = "none"
        BY Records DEF RowsReliable, NoRow
    <2>4. VerifyNothing(c) => RowFollows(c)' /\ StillHolding(c)
        BY <1>2, <1>3, <2>1, <2>2, <2>3, Places DEF VerifyNothing
    <2> QED BY <1>16, <2>2, <2>4 DEF VerifyCancel
<1>17. CASE OpenPosition(c)
    <2>1. PICK known, m : m = [mem[c] EXCEPT !.pos = mem[c].filled, !.tp = known] /\ Mem(c, m)
        BY <1>17 DEF OpenPosition
    <2>2. m.pos = mem[c].filled
        BY <1>0, <2>1 DEF MemType
    <2>3. pc'[c] = "saveOpen" /\ pc[c] = "placeTp" /\ lock' = lock
        BY <1>17, Reads DEF OpenPosition
    <2>4. mem'[c] = m /\ mem[c].filled > 0
        BY <1>0, <2>1, <2>3, Reads DEF RowFollows
    <2>5. mem'[c].pos > 0
        BY <2>2, <2>4
    <2> QED BY <2>3, <2>5, Places DEF RowFollows, NoTrade, StillHolding, Holding
<1>18. CASE SaveOpen(c)
    <2> DEFINE m == [mem[c] EXCEPT !.filled = 0, !.base = 0, !.retried = FALSE]
    <2>1. m.pos = mem[c].pos
        BY <1>0 DEF MemType
    <2>2. Mem(c, m) /\ Goto(c, "loop") /\ pc[c] = "saveOpen" /\ lock' = lock
        BY <1>18 DEF SaveOpen
    <2> HIDE DEF m
    <2>3. mem'[c].pos > 0 /\ mem[c].pos > 0 /\ pc'[c] = "loop"
        BY <1>0, <2>1, <2>2, Reads DEF RowFollows
    <2> QED BY <2>2, <2>3, Places DEF RowFollows, NoTrade, StillHolding, Holding
<1> QED BY <1>5, <1>6, <1>7, <1>8, <1>9, <1>10, <1>12, <1>13, <1>14, <1>15, <1>16, <1>17, <1>18 DEF Enter

\* An exit keeps its lock until the row is gone or the operator is called.
LEMMA ExitTrades ==
    ASSUME RowsReliable, TypeInv, IndInv, TradeInv, NEW c \in Codes, Exit(c)
    PROVE  RowFollows(c)' /\ StillHolding(c)
<1>0. mem[c] \in MemType /\ RowFollows(c)
    BY ValuesTyped DEF TradeInv
<1>p. pc[c] \in ExitPcs
    BY Places DEF Exit, ExitCancel, TpCancel, CancelTp, ExitSubmit, ExitMark, TpMark, Mark,
       VerifyTimeout, ExitVerify, ExitRetry, TpSell, SellRest, ExitReverify
<1>1. ASSUME pc'[c] \in ExitPcs, lock' = lock
      PROVE  RowFollows(c)' /\ StillHolding(c)
    <2>1. pc'[c] \notin RestorePcs \cup EntryPcs \cup OpenPcs \cup {"off", "wait", "loop"}
        BY <1>1, Phases
    <2> QED BY <1>1, <1>p, <2>1, Places DEF RowFollows, NoTrade, StillHolding, Holding
<1>2. ASSUME NEW r, NEW m, ExitManual(c, r, m)
      PROVE  RowFollows(c)' /\ StillHolding(c)
    BY <1>2, <1>p, EndsTrade DEF ExitManual, StillHolding, Holding
<1>3. CASE ExitCancel(c) \/ TpCancel(c) \/ ExitMark(c) \/ TpMark(c)
    BY <1>1, <1>3, Places, Reads DEF ExitCancel, TpCancel, CancelTp, ExitMark, TpMark, Mark
<1>4. CASE ExitSubmit(c)
    BY <1>1, <1>2, <1>4, Places, Reads DEF ExitSubmit
<1>5. CASE ExitRetry(c) \/ TpSell(c)
    BY <1>1, <1>2, <1>5, Places, Reads DEF ExitRetry, TpSell, SellRest
<1>6. CASE VerifyTimeout(c)
    <2>1. exec[c] \in {"ExitPending", "ExitPartial"}
        BY <1>p DEF IndInv, RunnerInv
    <2> QED BY <1>2, <1>6, <2>1, ExitTimeoutRule DEF VerifyTimeout
<1>7. CASE ExitVerify(c) \/ ExitReverify(c)
    BY <1>1, <1>2, <1>7, EndsTrade, Places, Reads DEF ExitVerify, ExitReverify
<1> QED BY <1>3, <1>4, <1>5, <1>6, <1>7 DEF Exit

-----------------------------------------------------------------------------
\* The lock of a position.

\* A harmless step that keeps what is held keeps everyone's lock.
LEMMA LockStays ==
    ASSUME TypeInv, IndInv, TradeInv, NEW c \in Codes, Harmless(c), StillHolding(c)
    PROVE  \A d \in Codes : LockFollows(d)'
<1>1. \A d \in Codes : InEntry(d)' => InEntry(d)
    BY DEF Harmless, Alone, InEntry
<1>2. LockFollows(c)'
    BY <1>1, LockFields DEF StillHolding, LockFollows, TradeInv
<1>3. ASSUME NEW d \in Codes \ {c}, Holding(d)'
      PROVE  lock'.kind \in {"held", "manual"} /\ lock'.code = d
    <2>1. Holding(d)
        BY <1>3 DEF Holding, Harmless, Alone
    <2>2. lock.kind \in {"held", "manual"} /\ lock.code = d /\ d # c
        BY <2>1 DEF TradeInv, LockFollows
    <2>3. Released(c) = lock /\ FreedByRestore(c) = lock /\ ManualLock(c) = lock
        BY <2>2 DEF Released, FreedByRestore, ManualLock
    <2>4. ~RestoreTp(c)
        BY DEF RestoreTp, TradeInv, RowFollows
    <2> QED BY <2>2, <2>3, <2>4 DEF Harmless
<1>4. ASSUME NEW d \in Codes \ {c}, Holding(d)'
      PROVE  \A e \in Codes \ {d} : ~InEntry(e)'
    <2>1. Holding(d)
        BY <1>4 DEF Holding, Harmless, Alone
    <2> QED BY <1>1, <2>1 DEF TradeInv, LockFollows
<1> QED BY <1>2, <1>3, <1>4 DEF LockFollows

\* Every step keeps the rows and the locks of the trades.
LEMMA TradeStep ==
    ASSUME RowsReliable, TypeInv, IndInv, TradeInv, Next
    PROVE  TradeInv'
<1>1. ~Crash
    BY DEF RowsReliable, Crash, MayFail
<1>2. ASSUME NEW c \in Codes, Alone(c), Apart(c), RowFollows(c)'
      PROVE  \A d \in Codes : RowFollows(d)'
    BY <1>2 DEF Alone, Apart, TradeInv, RowFollows, NoTrade
<1>3. ASSUME NEW c \in Codes, Harmless(c), Apart(c), RowFollows(c)', StillHolding(c)
      PROVE  TradeInv'
    BY <1>2, <1>3, LockStays DEF Harmless, TradeInv
<1>4. ASSUME NEW c \in Codes,
             Start(c) \/ Stop(c) \/ Restore(c) \/ Loop(c) \/ Enter(c) \/ Exit(c) \/ Broker(c)
      PROVE  TradeInv'
    <2>0. Apart(c)
        BY <1>4, StepsApart
    <2>1. CASE Start(c) \/ Stop(c) \/ Broker(c)
        BY <1>3, <2>0, <2>1, TaskTrades, TaskHarmless DEF IndInv
    <2>2. CASE Restore(c)
        BY <1>3, <2>0, <2>2, RestoreTrades, RestoreHarmless DEF IndInv
    <2>3. CASE Exit(c)
        BY <1>3, <2>0, <2>3, ExitTrades, ExitHarmless DEF IndInv
    <2>4. CASE Loop(c) /\ ~PollAcquire(c) /\ ~PollPreempt(c)
        BY <1>3, <2>0, <2>4, LoopTrades, LoopHarmless DEF IndInv
    <2>5. CASE Enter(c) /\ ~HoldLock(c) /\ ~SaveOpen(c)
        BY <1>3, <2>0, <2>5, EnterTrades, EnterHarmless DEF IndInv
    <2>6. CASE PollAcquire(c) \/ PollPreempt(c)
        <3>1. RowFollows(c)' /\ StillHolding(c)
            BY <2>6, LoopTrades DEF Loop
        <3>2. Alone(c)
            BY <2>6, Reads DEF PollAcquire, PollPreempt, Alone
        <3>3. \A d \in Codes : ~Holding(d)
            BY <2>6 DEF PollAcquire, PollPreempt, TradeInv, LockFollows
        <3>4. \A d \in Codes : ~Holding(d)'
            BY <3>1, <3>2, <3>3 DEF StillHolding, Holding, Alone
        <3> QED BY <1>2, <2>0, <3>1, <3>2, <3>4 DEF TradeInv, LockFollows
    <2>7. CASE HoldLock(c)
        <3>1. pc[c] = "hold" /\ pc'[c] = "placeTp" /\ Alone(c) /\ UNCHANGED <<mem, manual, row>>
            BY <2>7, Reads DEF HoldLock, Alone
        <3>2. lock'.kind = "held" /\ lock'.code = c
            BY <2>7 DEF HoldLock, Lock
        <3>3. RowFollows(c)'
            BY <3>1 DEF TradeInv, RowFollows, NoTrade
        <3>4. InEntry(c) /\ \A d \in Codes : InEntry(d)' <=> InEntry(d)
            BY <2>7, <3>1, HoldKeeps, Places DEF InEntry
        <3>5. \A d \in Codes \ {c} : ~InEntry(d) /\ ~Holding(d)
            BY <3>4 DEF IndInv, SlotInv, EntryExclusive, TradeInv, LockFollows
        <3>6. \A d \in Codes \ {c} : ~InEntry(d)' /\ ~Holding(d)'
            BY <3>1, <3>4, <3>5 DEF Holding, Alone
        <3> QED BY <1>2, <2>0, <3>1, <3>2, <3>3, <3>6 DEF TradeInv, LockFollows
    <2>8. CASE SaveOpen(c)
        <3>1. RowFollows(c)' /\ StillHolding(c)
            <4>1. Enter(c) /\ ~HoldLock(c)
                BY <2>8 DEF Enter, SaveOpen, HoldLock
            <4> QED BY <4>1, EnterTrades
        <3>2. Alone(c) /\ lock' = lock
            BY <2>8, Reads DEF SaveOpen, Alone
        <3>3. \A d \in Codes : ~InEntry(d)'
            BY <2>8, SaveOpenKeeps
        <3>4. \A d \in Codes : Holding(d)' => Holding(d)
            BY <3>1, <3>2 DEF StillHolding, Holding, Alone
        <3> QED BY <1>2, <2>0, <3>1, <3>2, <3>3, <3>4 DEF TradeInv, LockFollows
    <2> QED BY <1>4, <2>1, <2>2, <2>3, <2>4, <2>5, <2>6, <2>7, <2>8
<1> QED BY <1>1, <1>4 DEF Next

\* Before any runner is started there is no row and nothing is held.
LEMMA TradeInit == Init => TradeInv
<1>1. Init => \A c \in Codes : pc[c] = "off" /\ mem[c].pos = 0 /\ row[c].st = "none"
    BY DEF Init, NewMem, NoRow
<1> QED BY <1>1, Places DEF TradeInv, RowFollows, LockFollows, NoTrade, Holding

\* While the rows can be read and written and the process lives, a row exists for a trade
\* only, and whoever holds a position has the lock and the entry to itself.
THEOREM TradesHold ==
    ASSUME RowsReliable
    PROVE  Spec => []TradeInv
<1>1. ASSUME TypeInv, IndInv, TradeInv, [Next]_vars
      PROVE  TradeInv'
    <2>1. CASE Next
        BY <1>1, <2>1, TradeStep
    <2>2. CASE UNCHANGED vars
        BY <1>1, <2>2 DEF vars, TradeInv, RowFollows, LockFollows, NoTrade, Holding, InEntry
    <2> QED BY <1>1, <2>1, <2>2
<1> QED BY <1>1, TradeInit, TypesHold, Invariant, PTL DEF Spec

\* A position of a running task is covered by its lock, Held or ManualHeld, so no other code
\* can enter (poll_and_enter, execute_entry, release_lock_if_self_held); failing
\* inquiries, cancels and lost replies do not change that, a lost row does.
THEOREM PositionIsLocked ==
    ASSUME RowsReliable
    PROVE  Spec => []PositionLocked
<1>1. TradeInv => PositionLocked
    BY DEF TradeInv, LockFollows, Holding, PositionLocked
<1> QED BY <1>1, TradesHold, PTL

-----------------------------------------------------------------------------
\* The account.

\* Where a runner that is not manual has nothing at the broker.
Empty(c) ==
    \/ pc[c] \in RestorePcs \cup {"off", "wait", "signal", "armed", "submit", "post"}
    \/ pc[c] = "loop" /\ mem[c].pos = 0

\* From the accepted order to the verified fill.
Buying(c) == pc[c] \in {"saveRow", "fillWait", "cancel", "verify"}

\* A position that is managed is what the account holds, with the fills of its
\* take-profit order; a row that outlived its trade is restored to shares sold long ago.
Managed(c) ==
    /\ acct[c].buy = 0 /\ acct[c].mkt = 0
    /\ mem[c].tp => acct[c].hold = acct[c].tpq /\ acct[c].hold + acct[c].tpf = mem[c].pos
    /\ ~mem[c].tp => /\ acct[c].tpq = 0
                     /\ acct[c].hold = mem[c].pos \/ (acct[c].hold = 0 /\ "db" \in Faults)

\* What the account holds for the runner at each place of its code: nothing it does not
\* know of, all it bought until the fill is verified, all it manages afterwards.
Fits(c) ==
    /\ acct[c].stray = 0
    /\ Empty(c) /\ ~manual[c] => acct[c].hold = 0 /\ acct[c].buy = 0
    /\ Buying(c) \/ pc[c] = "post" => mem[c].base = 0
    /\ Buying(c) => /\ acct[c].hold = acct[c].bought /\ acct[c].hold + acct[c].buy <= Qty
                    /\ acct[c].tpq = 0 /\ acct[c].mkt = 0
    /\ pc[c] \in {"cancel", "verify"} => mem[c].filled <= acct[c].bought
    /\ pc[c] \in {"verify", "hold", "placeTp"} \cup ExitPcs => acct[c].buy = 0
    /\ pc[c] \in {"hold", "placeTp"} => /\ mem[c].filled > 0 /\ acct[c].hold = mem[c].filled
                                        /\ acct[c].tpq = 0 /\ acct[c].mkt = 0
    /\ pc[c] = "saveOpen" => mem[c].pos > 0
    /\ pc[c] = "saveOpen" \/ (pc[c] \in {"wait", "loop"} /\ mem[c].pos > 0 /\ ~manual[c]) => Managed(c)
    /\ Exposed(c) /\ ~manual[c] /\ pc[c] # "saveRow" => row[c].st # "none"

\* What is exposed has the lock or a ManualHeld lock beside it, and is alone.
Sole(c) ==
    Exposed(c) => /\ \/ lock.kind = "manual"
                     \/ lock.kind \in {"pending", "held"} /\ lock.code = c
                  /\ \A d \in Codes \ {c} : ~InEntry(d) /\ ~Exposed(d)

AccountInv == \A c \in Codes : Fits(c) /\ Sole(c)

\* A step that keeps the account of its runner, and exposes nothing outside an entry and
\* nothing while it frees the lock.
Keeps(c) ==
    /\ Fits(c)'
    /\ Exposed(c)' => (Exposed(c) \/ InEntry(c)') /\ lock'.kind # "free"

\* What the requests to the broker change of an account.
LEMMA Books ==
    ASSUME TypeInv, NEW c \in Codes
    PROVE  /\ CancelAll(c) =>
                /\ acct'[c].hold = acct[c].hold /\ acct'[c].bought = acct[c].bought
                /\ acct'[c].buy \in {0, acct[c].buy} /\ acct'[c].stray \in 0..acct[c].stray
                /\ acct'[c].tpq \in 0..acct[c].tpq /\ acct'[c].mkt = acct[c].mkt
           /\ \A q : Sells(c, q) \/ SellsSilently(c, q) =>
                /\ acct'[c].hold = acct[c].hold /\ acct'[c].buy = acct[c].buy
                /\ acct'[c].stray = acct[c].stray
           /\ Acct(c, [acct[c] EXCEPT !.buy = 0]) =>
                /\ acct'[c].hold = acct[c].hold /\ acct'[c].bought = acct[c].bought
                /\ acct'[c].buy = 0 /\ acct'[c].stray = acct[c].stray
                /\ acct'[c].tpq = acct[c].tpq /\ acct'[c].mkt = acct[c].mkt
           /\ Acct(c, [acct[c] EXCEPT !.tpq = 0]) =>
                /\ acct'[c].hold = acct[c].hold /\ acct'[c].buy = acct[c].buy
                /\ acct'[c].stray = acct[c].stray
           /\ \A q \in Nat, known \in BOOLEAN : "reply" \notin Faults /\ PlaceTp(c, q, known) =>
                \/ /\ known /\ Sellable(c) >= q
                   /\ acct'[c].hold = acct[c].hold /\ acct'[c].buy = acct[c].buy
                   /\ acct'[c].stray = acct[c].stray /\ acct'[c].mkt = acct[c].mkt
                   /\ acct'[c].tpq = acct[c].tpq + q /\ acct'[c].tpf = 0
                \/ ~known /\ acct' = acct
<1>0. acct[c] \in AcctType
    BY ValuesTyped
<1>1. CancelAll(c) =>
                /\ acct'[c].hold = acct[c].hold /\ acct'[c].bought = acct[c].bought
                /\ acct'[c].buy \in {0, acct[c].buy} /\ acct'[c].stray \in 0..acct[c].stray
                /\ acct'[c].tpq \in 0..acct[c].tpq /\ acct'[c].mkt = acct[c].mkt
    <2>1. ASSUME NEW buy \in {0, acct[c].buy}, NEW stray \in 0..acct[c].stray,
                 NEW tpq \in 0..acct[c].tpq,
                 Acct(c, [acct[c] EXCEPT !.buy = buy, !.stray = stray, !.tpq = tpq])
          PROVE  /\ acct'[c].hold = acct[c].hold /\ acct'[c].bought = acct[c].bought
                 /\ acct'[c].buy = buy /\ acct'[c].stray = stray /\ acct'[c].tpq = tpq
                 /\ acct'[c].mkt = acct[c].mkt
        <3> DEFINE a == [acct[c] EXCEPT !.buy = buy, !.stray = stray, !.tpq = tpq]
        <3>1. /\ a.hold = acct[c].hold /\ a.bought = acct[c].bought /\ a.buy = buy
              /\ a.stray = stray /\ a.tpq = tpq /\ a.mkt = acct[c].mkt
            BY <1>0 DEF AcctType
        <3>2. Acct(c, a)
            BY <2>1
        <3> HIDE DEF a
        <3> QED BY <3>1, <3>2, Records
    <2>2. CASE acct' = acct
        BY <1>0, <2>2 DEF AcctType
    <2> QED BY <2>1, <2>2 DEF CancelAll
<1>2. \A q : Sells(c, q) \/ SellsSilently(c, q) =>
                /\ acct'[c].hold = acct[c].hold /\ acct'[c].buy = acct[c].buy
                /\ acct'[c].stray = acct[c].stray
    BY <1>0, Records DEF Sells, SellsSilently, AcctType
<1>3. Acct(c, [acct[c] EXCEPT !.buy = 0]) =>
                /\ acct'[c].hold = acct[c].hold /\ acct'[c].bought = acct[c].bought
                /\ acct'[c].buy = 0 /\ acct'[c].stray = acct[c].stray
                /\ acct'[c].tpq = acct[c].tpq /\ acct'[c].mkt = acct[c].mkt
    BY <1>0, Records DEF AcctType
<1>4. Acct(c, [acct[c] EXCEPT !.tpq = 0]) =>
                /\ acct'[c].hold = acct[c].hold /\ acct'[c].buy = acct[c].buy
                /\ acct'[c].stray = acct[c].stray
    BY <1>0, Records DEF AcctType
<1>5. ASSUME NEW q \in Nat, NEW known \in BOOLEAN, "reply" \notin Faults, PlaceTp(c, q, known)
      PROVE  \/ /\ known /\ Sellable(c) >= q
                /\ acct'[c].hold = acct[c].hold /\ acct'[c].buy = acct[c].buy
                /\ acct'[c].stray = acct[c].stray /\ acct'[c].mkt = acct[c].mkt
                /\ acct'[c].tpq = acct[c].tpq + q /\ acct'[c].tpf = 0
             \/ ~known /\ acct' = acct
    <2>1. PICK n \in Nat : n = acct[c].tpq + q
        BY <1>0 DEF AcctType
    <2> DEFINE a == [acct[c] EXCEPT !.tpq = n, !.tpf = 0]
    <2>2. /\ a.hold = acct[c].hold /\ a.buy = acct[c].buy /\ a.stray = acct[c].stray
          /\ a.mkt = acct[c].mkt /\ a.tpq = n /\ a.tpf = 0
        BY <1>0 DEF AcctType
    <2>3. a = [acct[c] EXCEPT !.tpq = @ + q, !.tpf = 0]
        BY <2>1, Zenon
    <2>4. (known /\ Sellable(c) >= q /\ Acct(c, a)) \/ (~known /\ acct' = acct)
        BY <1>5, <2>3, Zenon DEF PlaceTp, MayFail
    <2> HIDE DEF a
    <2> QED BY <2>1, <2>2, <2>4, Records
<1> QED BY <1>1, <1>2, <1>3, <1>4, <1>5

\* What an account is, in numbers.
LEMMA Numbers ==
    ASSUME TypeInv, NEW c \in Codes
    PROVE  /\ acct[c].hold \in Nat /\ acct[c].buy \in Nat /\ acct[c].bought \in Nat /\ acct[c].stray \in Nat
           /\ acct[c].tpq \in Nat /\ acct[c].tpf \in Nat /\ acct[c].mkt \in Nat
           /\ mem[c].pos \in Nat /\ mem[c].filled \in Nat /\ mem[c].base \in Nat /\ row[c].qty \in Nat
           /\ acct[c].hold >= acct[c].tpq + acct[c].mkt
           /\ Qty \in Nat /\ Qty > 0
           /\ Exposed(c) <=> ~(acct[c].hold = 0 /\ acct[c].buy = 0 /\ acct[c].stray = 0)
<1>1. acct[c] \in AcctType /\ Covered(acct[c]) /\ mem[c] \in MemType /\ row[c] \in RowType
    BY ValuesTyped
<1>2. /\ acct[c].hold \in Nat /\ acct[c].buy \in Nat /\ acct[c].bought \in Nat /\ acct[c].stray \in Nat
      /\ acct[c].tpq \in Nat /\ acct[c].tpf \in Nat /\ acct[c].mkt \in Nat
    BY <1>1 DEF AcctType
<1>3. mem[c].pos \in Nat /\ mem[c].filled \in Nat /\ mem[c].base \in Nat /\ row[c].qty \in Nat
    BY <1>1 DEF MemType, RowType
<1> QED BY <1>1, <1>2, <1>3, QtyAssumption DEF Covered, Exposed

\* A step that leaves the account empty.
LEMMA EmptyKeeps ==
    ASSUME NEW c \in Codes, acct'[c].hold = 0, acct'[c].buy = 0, acct'[c].stray = 0,
           pc'[c] \in RestorePcs \cup {"off", "wait", "loop", "signal", "armed", "submit", "post"},
           pc'[c] = "post" => mem'[c].base = 0,
           pc'[c] \in {"wait", "loop"} /\ mem'[c].pos > 0 => manual'[c] \/ Managed(c)'
    PROVE  Keeps(c)
<1>1. /\ pc'[c] \notin {"saveRow", "fillWait", "cancel", "verify", "hold", "placeTp", "saveOpen"}
      /\ pc'[c] \notin ExitPcs
    BY Places
<1>2. ~Exposed(c)'
    BY DEF Exposed
<1> QED BY <1>1, <1>2 DEF Keeps, Fits, Empty, Buying

\* A step that calls the operator, or of a runner that waits for one.
LEMMA ManualKeeps ==
    ASSUME NEW c \in Codes, pc'[c] \in {"off", "wait", "loop"}, manual'[c], acct'[c].stray = 0,
           Exposed(c)' => Exposed(c),
           lock' = ManualLock(c) \/ (lock' = lock /\ Sole(c))
    PROVE  Keeps(c)
<1>1. /\ pc'[c] \notin {"post", "saveRow", "fillWait", "cancel", "verify", "hold", "placeTp", "saveOpen"}
      /\ pc'[c] \notin ExitPcs
    BY Places
<1>2. Exposed(c)' => lock'.kind # "free"
    BY LockFields DEF Sole
<1> QED BY <1>1, <1>2 DEF Keeps, Fits, Buying

\* A step into an exit, or from one place of it to the next.
LEMMA ExitingKeeps ==
    ASSUME NEW c \in Codes, pc'[c] \in ExitPcs, acct'[c].stray = 0, acct'[c].buy = 0,
           Exposed(c)' => Exposed(c) /\ row'[c].st # "none",
           lock' = lock, Sole(c)
    PROVE  Keeps(c)
<1>1. /\ pc'[c] \notin RestorePcs \cup {"off", "wait", "loop", "signal", "armed", "submit", "post"}
      /\ pc'[c] \notin {"saveRow", "fillWait", "cancel", "verify", "hold", "placeTp", "saveOpen"}
    BY Places
<1>2. Exposed(c)' => lock'.kind # "free"
    BY DEF Sole
<1> QED BY <1>1, <1>2 DEF Keeps, Fits, Empty, Buying

\* The faults that OrdersAnswered leaves.
LEMMA NoOther ==
    ASSUME OrdersAnswered
    PROVE  ~MayFail("cancel") /\ ~MayFail("reply") /\ ~MayFail("crash") /\ "reply" \notin Faults
BY DEF OrdersAnswered, MayFail

\* A restore starts from an account without anything of its code.
LEMMA RestoreBooks ==
    ASSUME OrdersAnswered, TypeInv, IndInv, AccountInv, "db" \notin Faults => TradeInv,
           NEW c \in Codes, Restore(c)
    PROVE  Keeps(c)
<1>0. pc[c] \in RestorePcs
    BY Places DEF Restore, RestoreOrphan, OrphanCancel, RestoreExit, RestoreEntry,
       RestoreCancel, RestoreRecheck, RestoreOpen, RestoreStock, RestoreTp
<1>1. /\ ~manual[c] /\ mem[c].pos = 0
      /\ acct[c].hold = 0 /\ acct[c].buy = 0 /\ acct[c].stray = 0 /\ acct[c].tpq = 0 /\ acct[c].mkt = 0
    <2>1. ~manual[c] /\ mem[c].pos = 0
        BY <1>0, Phases, NotManual DEF IndInv, RunnerInv
    <2>2. acct[c].hold = 0 /\ acct[c].buy = 0 /\ acct[c].stray = 0
        BY <1>0, <2>1 DEF AccountInv, Fits, Empty
    <2> QED BY <2>1, <2>2, Numbers
<1>2. ASSUME acct' = acct \/ CancelAll(c) \/ Acct(c, [acct[c] EXCEPT !.tpq = 0])
           \/ Acct(c, [acct[c] EXCEPT !.buy = 0])
      PROVE  acct'[c].hold = 0 /\ acct'[c].buy = 0 /\ acct'[c].stray = 0
    BY <1>1, <1>2, Books
<1>3. ASSUME acct'[c].hold = 0 /\ acct'[c].buy = 0 /\ acct'[c].stray = 0, NEW q, NEW r, RestoreManual(c, q, r)
      PROVE  Keeps(c)
    <2>1. pc'[c] = "wait" /\ manual'[c]
        BY <1>3, Reads DEF RestoreManual, ToManual
    <2> QED BY <1>3, <2>1, EmptyKeeps
<1>4. ASSUME acct'[c].hold = 0 /\ acct'[c].buy = 0 /\ acct'[c].stray = 0,
             NEW p \in RestorePcs \cup {"wait"}, Goto(c, p), mem' = mem
      PROVE  Keeps(c)
    <2>1. pc'[c] = p /\ ~(mem'[c].pos > 0) /\ p # "post"
        BY <1>1, <1>4, Reads, Places
    <2> QED BY <1>4, <2>1, EmptyKeeps
<1>5. CASE RestoreOrphan(c) \/ OrphanCancel(c) \/ RestoreExit(c)
    BY <1>2, <1>3, <1>4, <1>5, Places DEF RestoreOrphan, OrphanCancel, RestoreExit, RestoreStep,
       RestoreFlat, RestoreManual
<1>6. CASE RestoreEntry(c) \/ RestoreCancel(c) \/ RestoreRecheck(c)
    BY <1>2, <1>3, <1>4, <1>6, Places DEF RestoreEntry, RestoreCancel, RestoreRecheck, EntryAsManual,
       RestoreStep, RestoreFlat, RestoreManual
<1>7. CASE RestoreOpen(c) \/ RestoreStock(c)
    BY <1>2, <1>4, <1>7, Places DEF RestoreOpen, RestoreStock, RestoreStep, RestoreFlat
<1>8. CASE RestoreTp(c)
    <2>0. PICK known \in BOOLEAN :
             /\ PlaceTp(c, row[c].qty, known)
             /\ Mem(c, [mem[c] EXCEPT !.pos = row[c].qty, !.tp = known, !.stop = @ \/ row[c].man])
        BY <1>8 DEF RestoreTp
    <2>1. PICK m :
             /\ PlaceTp(c, row[c].qty, known)
             /\ m = [mem[c] EXCEPT !.pos = row[c].qty, !.tp = known, !.stop = @ \/ row[c].man]
             /\ Mem(c, m)
        BY <2>0
    <2>2. m.pos = row[c].qty /\ m.tp = known
        BY <2>1, ValuesTyped DEF MemType
    <2>m. mem'[c] = m
        BY <2>1, Reads
    <2>3. mem'[c].pos = row[c].qty /\ mem'[c].tp = known
        BY <2>2, <2>m
    <2>4. pc'[c] = "wait"
        BY <1>8, Reads DEF RestoreTp
    <2>5. "db" \in Faults
        BY <1>8 DEF RestoreTp, TradeInv, RowFollows
    <2>6. row[c].qty \in Nat
        BY Numbers
    <2>7. CASE ~known
        <3>1. acct' = acct
            BY <2>1, <2>6, <2>7, NoOther, Books
        <3>2. Managed(c)'
            BY <1>1, <2>3, <2>5, <2>7, <3>1 DEF Managed
        <3> QED BY <1>1, <2>4, <3>1, <3>2, EmptyKeeps
    <2>8. CASE known
        <3>1. /\ Sellable(c) >= row[c].qty
              /\ acct'[c].hold = acct[c].hold /\ acct'[c].buy = acct[c].buy
              /\ acct'[c].stray = acct[c].stray
            BY <2>1, <2>6, <2>8, NoOther, Books
        <3>2. ~(row[c].qty > 0)
            BY <1>1, <2>6, <3>1 DEF Sellable
        <3> QED BY <1>1, <2>3, <2>4, <3>1, <3>2, EmptyKeeps
    <2> QED BY <2>7, <2>8
<1> QED BY <1>5, <1>6, <1>7, <1>8 DEF Restore

\* A fill moves shares from an order to the holdings or back and exposes nothing new.
LEMMA BrokerBooks ==
    ASSUME TypeInv, IndInv, AccountInv, NEW c \in Codes, Broker(c)
    PROVE  Keeps(c)
<1>0. acct[c] \in AcctType /\ Fits(c) /\ Sole(c)
    BY ValuesTyped DEF AccountInv
<1>1. UNCHANGED <<lock, pc, manual, mem, row>>
    BY DEF Broker, FillEntry, FillStray, FillTp, FillMarket, Filled
<1>2. ~FillStray(c)
    BY <1>0 DEF FillStray, Fits
<1>n. /\ acct[c].hold \in Nat /\ acct[c].buy \in Nat /\ acct[c].bought \in Nat /\ acct[c].stray \in Nat
      /\ acct[c].tpq \in Nat /\ acct[c].tpf \in Nat /\ acct[c].mkt \in Nat /\ mem[c].pos \in Nat
      /\ mem[c].filled \in Nat /\ Qty \in Nat
      /\ acct[c].hold >= acct[c].tpq + acct[c].mkt
    BY Numbers
<1>3. CASE FillEntry(c)
    <2> DEFINE a == [acct[c] EXCEPT !.buy = @ - 1, !.bought = @ + 1, !.hold = @ + 1]
    <2>1. /\ a.buy = acct[c].buy - 1 /\ a.bought = acct[c].bought + 1 /\ a.hold = acct[c].hold + 1
          /\ a.stray = acct[c].stray /\ a.tpq = acct[c].tpq /\ a.mkt = acct[c].mkt
        BY <1>0 DEF AcctType
    <2>2. Acct(c, a) /\ acct[c].buy > 0
        BY <1>3 DEF FillEntry, Filled
    <2> HIDE DEF a
    <2>3. acct'[c] = a
        BY <2>2, Records
    <2>4. Exposed(c) /\ lock'.kind # "free"
        BY <1>0, <1>1, <2>2 DEF Exposed, Sole
    <2>5. Fits(c)'
        BY <1>0, <1>1, <1>n, <2>1, <2>2, <2>3, <2>4 DEF Fits, Empty, Buying, Managed
    <2> QED BY <2>4, <2>5 DEF Keeps
<1>4. CASE FillTp(c)
    <2> DEFINE a == [acct[c] EXCEPT !.tpq = @ - 1, !.tpf = @ + 1, !.hold = @ - 1]
    <2>1. /\ a.buy = acct[c].buy /\ a.bought = acct[c].bought /\ a.hold = acct[c].hold - 1
          /\ a.stray = acct[c].stray /\ a.tpq = acct[c].tpq - 1 /\ a.tpf = acct[c].tpf + 1
          /\ a.mkt = acct[c].mkt
        BY <1>0 DEF AcctType
    <2>2. Acct(c, a) /\ acct[c].tpq > 0
        BY <1>4 DEF FillTp, Filled
    <2> HIDE DEF a
    <2>3. acct'[c] = a
        BY <2>2, Records
    <2>4. Exposed(c) /\ lock'.kind # "free"
        BY <1>0, <1>1, <1>n, <2>2 DEF Exposed, Sole
    <2>5. Fits(c)'
        BY <1>0, <1>1, <1>n, <2>1, <2>2, <2>3, <2>4 DEF Fits, Empty, Buying, Managed
    <2> QED BY <2>4, <2>5 DEF Keeps
<1>5. CASE FillMarket(c)
    <2> DEFINE a == [acct[c] EXCEPT !.mkt = @ - 1, !.hold = @ - 1]
    <2>1. /\ a.buy = acct[c].buy /\ a.bought = acct[c].bought /\ a.hold = acct[c].hold - 1
          /\ a.stray = acct[c].stray
        BY <1>0 DEF AcctType
    <2>2. Acct(c, a) /\ acct[c].mkt > 0
        BY <1>5 DEF FillMarket, Filled
    <2> HIDE DEF a
    <2>3. acct'[c] = a
        BY <2>2, Records
    <2>4. Exposed(c) /\ lock'.kind # "free"
        BY <1>0, <1>1, <1>n, <2>2 DEF Exposed, Sole
    <2>5. Fits(c)'
        BY <1>0, <1>1, <1>n, <2>1, <2>2, <2>3, <2>4 DEF Fits, Empty, Buying, Managed
    <2> QED BY <2>4, <2>5 DEF Keeps
<1> QED BY <1>2, <1>3, <1>4, <1>5 DEF Broker

\* Starting and stopping a runner move nothing at the broker.
LEMMA TaskBooks ==
    ASSUME TypeInv, IndInv, AccountInv, NEW c \in Codes, Start(c) \/ Stop(c)
    PROVE  Keeps(c)
<1>0. mem[c] \in MemType /\ Fits(c) /\ Sole(c)
    BY ValuesTyped DEF AccountInv
<1>1. CASE Start(c)
    <2>1. pc[c] = "off" /\ ~manual[c] /\ acct' = acct /\ pc'[c] = "restore"
        BY <1>1, Reads DEF Start
    <2>2. acct[c].hold = 0 /\ acct[c].buy = 0 /\ acct[c].stray = 0
        BY <1>0, <2>1 DEF Fits, Empty
    <2> QED BY <2>1, <2>2, Places, EmptyKeeps
<1>2. CASE Stop(c)
    <2> DEFINE m == [mem[c] EXCEPT !.stop = TRUE]
    <2>1. m.pos = mem[c].pos /\ m.filled = mem[c].filled /\ m.base = mem[c].base /\ m.tp = mem[c].tp
        BY <1>0 DEF MemType
    <2>2. Mem(c, m) /\ UNCHANGED <<lock, pc, manual, row, acct>>
        BY <1>2 DEF Stop
    <2> HIDE DEF m
    <2>3. mem'[c] = m
        BY <2>2, Reads
    <2>4. Exposed(c)' => Exposed(c) /\ lock'.kind # "free"
        BY <1>0, <2>2 DEF Exposed, Sole
    <2>5. Fits(c)'
        BY <1>0, <2>1, <2>2, <2>3 DEF Fits, Empty, Buying, Managed, Exposed
    <2> QED BY <2>4, <2>5 DEF Keeps
<1> QED BY <1>1, <1>2

\* finalize_flat_transition follows holdings of zero.
LEMMA FinalizeBooks ==
    ASSUME TypeInv, NEW c \in Codes, Finalize(c),
           acct[c].hold = 0, acct[c].buy = 0, acct[c].stray = 0
    PROVE  Keeps(c)
<1> DEFINE m == [mem[c] EXCEPT !.pos = 0, !.tp = FALSE, !.exiting = FALSE, !.rest = 0]
<1>1. ~(m.pos > 0)
    BY ValuesTyped DEF MemType
<1>2. Mem(c, m) /\ acct' = acct /\ \E p \in {"loop", "off"} : Goto(c, p)
    BY DEF Finalize
<1> HIDE DEF m
<1>3. mem'[c] = m /\ pc'[c] \in {"loop", "off"}
    BY <1>2, Reads
<1> QED BY <1>1, <1>2, <1>3, EmptyKeeps

\* The loop closes what is managed, and drops a position whose take-profit order filled.
LEMMA LoopBooks ==
    ASSUME TypeInv, IndInv, AccountInv, NEW c \in Codes, Loop(c)
    PROVE  /\ Keeps(c)
           /\ mem[c].pos > 0 /\ mem'[c].pos = 0 => acct[c].hold = 0
<1>0. mem[c] \in MemType /\ Fits(c) /\ Sole(c) /\ RunnerInv(c)
    BY ValuesTyped DEF AccountInv, IndInv
<1>p. pc[c] \in {"wait", "loop"}
    BY DEF Loop, WaitStopped, WaitOver, LoopStop, LoopEnd, PollDegraded, PollIdle, PollPreempt,
       PollAcquire, ManageClose, ManageTakeProfit, Flat
<1>n. acct[c].hold \in Nat /\ acct[c].tpf \in Nat /\ acct[c].tpq \in Nat /\ mem[c].pos \in Nat
    BY Numbers
\* A runner that is not manual and has no position, or waits with the position of a row.
<1>e. ASSUME ~manual[c], pc[c] = "wait" \/ mem[c].pos = 0
      PROVE  acct[c].hold = 0 /\ acct[c].buy = 0 /\ acct[c].stray = 0
    BY <1>0, <1>e, <1>p DEF Fits, Empty
<1>1. ASSUME pc'[c] \in {"off", "wait", "loop"}, UNCHANGED <<lock, manual, mem, acct>>,
             manual[c] \/ pc[c] = "wait" \/ mem[c].pos = 0
      PROVE  Keeps(c)
    <2>1. CASE manual[c]
        BY <1>0, <1>1, <2>1, ManualKeeps DEF Fits, Exposed
    <2>2. CASE ~manual[c]
        <3>1. mem[c].pos > 0 => Managed(c)
            BY <1>0, <1>1, <1>p, <2>2 DEF Fits
        <3>2. mem[c].pos > 0 => Managed(c)'
            BY <1>1, <3>1 DEF Managed
        <3>3. acct'[c].hold = 0 /\ acct'[c].buy = 0 /\ acct'[c].stray = 0
            BY <1>1, <1>e, <2>2, <1>n
        <3> QED BY <1>1, <3>2, <3>3, EmptyKeeps
    <2> QED BY <2>1, <2>2
<1>2. ASSUME ~manual[c], mem[c].pos > 0, pc'[c] \in ExitPcs, UNCHANGED <<lock, row, acct>>
      PROVE  Keeps(c)
    <2>1. acct[c].buy = 0 /\ acct[c].stray = 0
        BY <1>0, <1>2, <1>p DEF Fits, Managed
    <2>2. Exposed(c)' => Exposed(c) /\ row'[c].st # "none"
        BY <1>0, <1>2, <1>p DEF Fits, Exposed
    <2> QED BY <1>0, <1>2, <2>1, <2>2, ExitingKeeps
<1>3. CASE WaitStopped(c) \/ WaitOver(c) \/ LoopEnd(c)
    BY <1>0, <1>1, <1>3, <1>n, Reads DEF WaitStopped, WaitOver, LoopEnd, RunnerInv
<1>4. BeginExit(c) /\ ~manual[c] => Keeps(c) /\ ~(mem'[c].pos = 0)
    <2> DEFINE m == [mem[c] EXCEPT !.exiting = TRUE]
    <2>1. m.pos = mem[c].pos
        BY <1>0 DEF MemType
    <2>2. BeginExit(c) => Mem(c, m) /\ mem[c].pos > 0 /\ Goto(c, "exitCancel") /\ UNCHANGED <<lock, row, acct>>
        BY DEF BeginExit
    <2> HIDE DEF m
    <2>3. BeginExit(c) => mem'[c].pos = mem[c].pos /\ mem[c].pos > 0 /\ pc'[c] = "exitCancel"
                          /\ UNCHANGED <<lock, row, acct>>
        BY <2>1, <2>2, Reads
    <2> QED BY <1>2, <1>n, <2>3, Places
<1>5. CASE LoopStop(c) /\ ~(BeginExit(c) /\ ~manual[c])
    <2>1. pc[c] = "loop" /\ (manual[c] \/ mem[c].pos = 0 \/ mem[c].exiting) /\ Goto(c, "off")
          /\ UNCHANGED <<lock, manual, mem, acct>>
        BY <1>5 DEF LoopStop
    <2>2. manual[c] \/ mem[c].pos = 0
        BY <1>0, <2>1, Phases DEF RunnerInv
    <2> QED BY <1>1, <1>n, <2>1, <2>2, Reads
<1>6. CASE PollDegraded(c) \/ PollIdle(c) \/ PollPreempt(c) \/ PollAcquire(c)
    <2>1. pc[c] = "loop" /\ mem[c].pos = 0 /\ ~manual[c] /\ UNCHANGED <<manual, mem, acct>>
        BY <1>0, <1>6 DEF PollDegraded, PollIdle, PollPreempt, PollAcquire, Flat, RunnerInv
    <2>2. pc'[c] \in {"loop", "signal"}
        BY <1>6, <2>1, Reads DEF PollDegraded, PollIdle, PollPreempt, PollAcquire
    <2> QED BY <1>e, <1>n, <2>1, <2>2, EmptyKeeps
<1>7. CASE ManageTakeProfit(c)
    <2>1. pc[c] = "loop" /\ ~manual[c] /\ mem[c].pos > 0 /\ mem[c].tp
        BY <1>0, <1>7 DEF ManageTakeProfit, RunnerInv
    <2>2. /\ acct[c].buy = 0 /\ acct[c].stray = 0
          /\ acct[c].hold + acct[c].tpf = mem[c].pos
        BY <1>0, <2>1 DEF Fits, Managed
    <2>3. PICK q \in 1..acct[c].tpf :
             IF q >= mem[c].pos THEN Finalize(c)
             ELSE /\ Mem(c, [mem[c] EXCEPT !.exiting = TRUE, !.rest = mem[c].pos - q])
                  /\ Exec(c, "ExitPartial") /\ Goto(c, "tpCancel")
                  /\ UNCHANGED <<lock, manual, row, acct, Counters>>
        BY <1>7 DEF ManageTakeProfit
    <2>4. CASE q >= mem[c].pos
        <3>1. acct[c].hold = 0
            BY <1>n, <2>2, <2>4
        <3> QED BY <2>2, <2>3, <2>4, <3>1, FinalizeBooks
    <2>5. CASE ~(q >= mem[c].pos)
        <3> DEFINE m == [mem[c] EXCEPT !.exiting = TRUE, !.rest = mem[c].pos - q]
        <3>1. m.pos = mem[c].pos
            BY <1>0 DEF MemType
        <3>2. Mem(c, m) /\ Goto(c, "tpCancel") /\ UNCHANGED <<lock, row, acct>>
            BY <2>3, <2>5
        <3> HIDE DEF m
        <3>3. mem'[c].pos = mem[c].pos /\ pc'[c] = "tpCancel"
            BY <3>1, <3>2, Reads
        <3> QED BY <1>2, <2>1, <3>2, <3>3, Places
    <2> QED BY <2>4, <2>5
<1>8. CASE BeginExit(c) /\ ~manual[c]
    BY <1>4, <1>8, <1>n
<1>9. ManageClose(c) => BeginExit(c) /\ ~manual[c]
    BY <1>0 DEF ManageClose, RunnerInv
<1>10. LoopStop(c) => (BeginExit(c) /\ ~manual[c]) \/ (LoopStop(c) /\ ~(BeginExit(c) /\ ~manual[c]))
    OBVIOUS
<1> QED BY <1>3, <1>5, <1>6, <1>7, <1>8, <1>9, <1>10 DEF Loop

\* A step to the next place of a buy.
LEMMA BuyingKeeps ==
    ASSUME NEW c \in Codes, pc'[c] \in {"saveRow", "fillWait", "cancel", "verify"},
           lock'.kind # "free", acct'[c].stray = 0, mem'[c].base = 0,
           acct'[c].hold = acct'[c].bought, acct'[c].hold + acct'[c].buy <= Qty,
           acct'[c].tpq = 0, acct'[c].mkt = 0,
           pc'[c] \in {"cancel", "verify"} => mem'[c].filled <= acct'[c].bought,
           pc'[c] = "verify" => acct'[c].buy = 0,
           Exposed(c)' /\ pc'[c] # "saveRow" => row'[c].st # "none"
    PROVE  Keeps(c)
<1>1. pc'[c] \in EntryPcs /\ pc'[c] \notin RestorePcs \cup ExitPcs
    BY Places, Phases
<1> QED BY <1>1 DEF Keeps, Fits, Empty, Buying, InEntry

\* A step to the place where the verified fill becomes a position.
LEMMA FilledKeeps ==
    ASSUME NEW c \in Codes, pc'[c] \in {"hold", "placeTp"},
           lock'.kind # "free", acct'[c].stray = 0, acct'[c].buy = 0,
           mem'[c].filled > 0, acct'[c].hold = mem'[c].filled,
           acct'[c].tpq = 0, acct'[c].mkt = 0, row'[c].st # "none"
    PROVE  Keeps(c)
<1>1. pc'[c] \in EntryPcs \cup OpenPcs /\ pc'[c] \notin RestorePcs \cup ExitPcs
    BY Places, Phases
<1> QED BY <1>1 DEF Keeps, Fits, Empty, Buying, InEntry

\* Before an order is accepted the account stays empty.
LEMMA SignalBooks ==
    ASSUME OrdersAnswered, TypeInv, IndInv, AccountInv, NEW c \in Codes,
           \/ SignalAbort(c) \/ SignalArmed(c) \/ ArmedAbort(c) \/ ArmedReady(c)
           \/ SubmitRefused(c) \/ SubmitReady(c) \/ PostFailed(c)
    PROVE  Keeps(c)
<1>0. mem[c] \in MemType /\ acct[c] \in AcctType /\ Fits(c) /\ RunnerInv(c)
    BY ValuesTyped DEF AccountInv, IndInv
<1>1. pc[c] \in {"signal", "armed", "submit", "post"}
    BY DEF SignalAbort, SignalArmed, ArmedAbort, ArmedReady, SubmitRefused, SubmitReady, PostFailed
<1>2. mem[c].pos = 0 /\ ~manual[c]
    BY <1>0, <1>1, Places DEF RunnerInv
<1>3. acct[c].hold = 0 /\ acct[c].buy = 0 /\ acct[c].stray = 0
    BY <1>0, <1>1, <1>2 DEF Fits, Empty
<1>4. Abort(c) => pc'[c] = "loop" /\ mem'[c].pos = 0
    <2> DEFINE m == [mem[c] EXCEPT !.filled = 0, !.base = 0, !.retried = FALSE]
    <2>1. m.pos = 0
        BY <1>0, <1>2 DEF MemType
    <2>2. Abort(c) => Mem(c, m) /\ Goto(c, "loop")
        BY DEF Abort
    <2> HIDE DEF m
    <2> QED BY <2>1, <2>2, Reads
<1>5. EntryFailed(c) => pc'[c] \in {"loop", "submit"} /\ (pc'[c] = "loop" => mem'[c].pos = 0)
    BY <1>4, Reads DEF EntryFailed
<1>6. CASE SignalAbort(c) \/ ArmedAbort(c)
    BY <1>3, <1>4, <1>6, EmptyKeeps DEF SignalAbort, ArmedAbort
<1>7. CASE SignalArmed(c) \/ ArmedReady(c)
    <2>1. acct' = acct /\ pc'[c] \in {"armed", "submit"}
        BY <1>7, Reads DEF SignalArmed, ArmedReady
    <2> QED BY <1>3, <2>1, EmptyKeeps
<1>8. CASE SubmitRefused(c)
    BY <1>3, <1>5, <1>8, EmptyKeeps DEF SubmitRefused
<1>9. CASE SubmitReady(c)
    <2> DEFINE m == [mem[c] EXCEPT !.base = acct[c].hold]
    <2>1. m.base = 0
        BY <1>0, <1>3 DEF MemType
    <2>2. Mem(c, m) /\ Goto(c, "post") /\ acct' = acct
        BY <1>9 DEF SubmitReady
    <2> HIDE DEF m
    <2>3. mem'[c] = m /\ pc'[c] = "post"
        BY <2>2, Reads
    <2> QED BY <1>3, <2>1, <2>2, <2>3, EmptyKeeps
<1>10. CASE PostFailed(c)
    <2>1. Acct(c, Lost(c, 0)) /\ EntryFailed(c)
        BY <1>10, NoOther DEF PostFailed
    <2> DEFINE a == Lost(c, 0)
    <2>2. a.hold = 0 /\ a.buy = 0 /\ a.stray = 0
        BY <1>0, <1>3, QtyAssumption DEF Lost, AcctType
    <2>3. Acct(c, a)
        BY <2>1
    <2> HIDE DEF a
    <2>4. acct'[c] = a
        BY <2>3, Records
    <2> QED BY <1>5, <2>1, <2>2, <2>4, EmptyKeeps
<1> QED BY <1>6, <1>7, <1>8, <1>9, <1>10

\* What the holdings gained since before the order is what the order filled.
LEMMA GainedIsBought ==
    ASSUME TypeInv, NEW c \in Codes, Fits(c), Buying(c)
    PROVE  Gained(c) = acct[c].bought /\ acct[c].bought = acct[c].hold /\ acct[c].bought <= Qty
BY Numbers DEF Gained, Lesser, Fits

\* From the accepted order to the end of the fill loop and the cancel of the rest.
LEMMA FillBooks ==
    ASSUME OrdersAnswered, TypeInv, IndInv, AccountInv, NEW c \in Codes,
           \/ PostAccepted(c) \/ SaveRow(c) \/ WaitFilled(c) \/ WaitBroken(c)
           \/ WaitTimedOut(c) \/ CancelEntry(c)
    PROVE  Keeps(c)
<1>0. mem[c] \in MemType /\ acct[c] \in AcctType /\ Fits(c) /\ RunnerInv(c)
    BY ValuesTyped DEF AccountInv, IndInv
<1>n. /\ acct[c].hold \in Nat /\ acct[c].buy \in Nat /\ acct[c].bought \in Nat
      /\ Qty \in Nat /\ Qty > 0
      /\ Exposed(c) <=> ~(acct[c].hold = 0 /\ acct[c].buy = 0 /\ acct[c].stray = 0)
    BY Numbers
<1>p. pc[c] = "post" \/ pc[c] \in {"saveRow", "fillWait", "cancel"}
    BY DEF PostAccepted, SaveRow, WaitFilled, WaitBroken, WaitTimedOut, CancelEntry
<1>l. lock.kind # "free" /\ ~manual[c]
    BY <1>0, <1>p, Places DEF IndInv, SlotInv, InEntry, RunnerInv
<1>1. CASE PostAccepted(c)
    <2>1. acct[c].hold = 0 /\ acct[c].buy = 0 /\ acct[c].stray = 0 /\ acct[c].tpq = 0 /\ acct[c].mkt = 0
          /\ mem[c].base = 0
        BY <1>0, <1>1, <1>l, Numbers DEF PostAccepted, Fits, Empty
    <2> DEFINE l == Lost(c, 0)
               a == [l EXCEPT !.stray = @ + acct[c].buy, !.buy = Qty, !.bought = 0]
    <2>p. PICK lost \in 0..2 :
             /\ lost > 0 => MayFail("reply")
             /\ Acct(c, [Lost(c, lost) EXCEPT !.stray = @ + acct[c].buy, !.buy = Qty, !.bought = 0])
        BY <1>1 DEF PostAccepted
    <2>q. lost = 0
        BY <2>p, NoOther
    <2>2. Acct(c, a) /\ Goto(c, "saveRow") /\ UNCHANGED <<lock, mem>>
        BY <1>1, <2>p, <2>q DEF PostAccepted
    <2>3. l \in AcctType /\ l.stray = 0 /\ l.hold = 0 /\ l.tpq = 0 /\ l.mkt = 0
        BY <1>0, <1>n, <2>1 DEF Lost, AcctType
    <2> HIDE DEF l
    <2>4. a.stray = 0 /\ a.hold = 0 /\ a.bought = 0 /\ a.buy = Qty /\ a.tpq = 0 /\ a.mkt = 0
        BY <2>1, <2>3 DEF AcctType
    <2> HIDE DEF a
    <2>5. acct'[c] = a /\ pc'[c] = "saveRow"
        BY <2>2, Records, Reads
    <2> QED BY <1>n, <1>l, <2>1, <2>2, <2>4, <2>5, BuyingKeeps
<1>f. Buying(c) => /\ acct[c].stray = 0 /\ mem[c].base = 0 /\ acct[c].hold = acct[c].bought
                   /\ acct[c].hold + acct[c].buy <= Qty /\ acct[c].tpq = 0 /\ acct[c].mkt = 0
    BY <1>0 DEF Fits
<1>r. Exposed(c) /\ pc[c] # "saveRow" => row[c].st # "none"
    BY <1>0, <1>l DEF Fits
<1>2. CASE SaveRow(c)
    <2>1. pc[c] = "saveRow" /\ acct' = acct
        BY <1>2 DEF SaveRow
    <2>2. CASE ToManual(c, "loop", row[c])
        <3>1. pc'[c] = "loop" /\ manual'[c] /\ lock' = ManualLock(c)
            BY <2>2, Reads DEF ToManual
        <3>2. acct'[c].stray = 0 /\ (Exposed(c)' => Exposed(c))
            BY <1>f, <2>1 DEF Buying, Exposed
        <3> QED BY <3>1, <3>2, ManualKeeps
    <2>3. CASE ~ToManual(c, "loop", row[c])
        <3>0. PICK guard \in BOOLEAN :
                 /\ Mem(c, [mem[c] EXCEPT !.stop = @ \/ guard]) /\ Goto(c, "fillWait")
                 /\ Row(c, SavedRow(c, "entry_pending", Qty, FALSE)) /\ lock' = lock
            BY <1>2, <2>3 DEF SaveRow
        <3>1. PICK m :
                 /\ m = [mem[c] EXCEPT !.stop = @ \/ guard] /\ Mem(c, m) /\ Goto(c, "fillWait")
                 /\ Row(c, SavedRow(c, "entry_pending", Qty, FALSE)) /\ lock' = lock
            BY <3>0
        <3>2. m.base = mem[c].base
            BY <1>0, <3>1 DEF MemType
        <3>3. mem'[c] = m /\ pc'[c] = "fillWait" /\ row'[c].st = "entry_pending"
            BY <3>1, Reads, Records DEF SavedRow
        <3> QED BY <1>f, <1>l, <2>1, <3>1, <3>2, <3>3, BuyingKeeps DEF Buying
    <2> QED BY <2>2, <2>3
\* The count that the runner takes from the fill loop, and where it goes with it.
<1>w. ASSUME NEW q \in Nat, pc[c] = "fillWait", Mem(c, [mem[c] EXCEPT !.filled = q]),
             UNCHANGED <<lock, row, acct>>,
             (q = Qty /\ acct[c].bought = Qty /\ Goto(c, "hold")) \/ (q <= acct[c].bought /\ Goto(c, "cancel"))
      PROVE  Keeps(c)
    <2> DEFINE m == [mem[c] EXCEPT !.filled = q]
    <2>1. m.filled = q /\ m.base = mem[c].base
        BY <1>0 DEF MemType
    <2>2. Mem(c, m)
        BY <1>w
    <2> HIDE DEF m
    <2>3. mem'[c] = m
        BY <2>2, Reads
    <2>4. CASE q <= acct[c].bought /\ Goto(c, "cancel")
        <3>1. pc'[c] = "cancel"
            BY <2>4, Reads
        <3>2. Exposed(c)' => row'[c].st # "none"
            BY <1>r, <1>w DEF Exposed
        <3> QED BY <1>f, <1>l, <1>w, <2>1, <2>3, <2>4, <3>1, <3>2, BuyingKeeps DEF Buying
    <2>5. CASE q = Qty /\ acct[c].bought = Qty /\ Goto(c, "hold")
        <3>1. pc'[c] = "hold"
            BY <2>5, Reads
        <3>2. acct[c].hold = Qty /\ acct[c].buy = 0
            BY <1>f, <1>n, <1>w, <2>5 DEF Buying
        <3>3. row[c].st # "none"
            BY <1>n, <1>r, <1>w, <3>2
        <3> QED BY <1>f, <1>l, <1>n, <1>w, <2>1, <2>3, <2>5, <3>1, <3>2, <3>3, FilledKeeps DEF Buying
    <2> QED BY <1>w, <2>4, <2>5
<1>3. CASE WaitFilled(c)
    BY <1>3, <1>n, <1>w DEF WaitFilled
<1>4. CASE WaitBroken(c)
    <2>1. PICK q \in 0..acct[c].bought : Mem(c, [mem[c] EXCEPT !.filled = q])
        BY <1>4 DEF WaitBroken
    <2> QED BY <1>4, <1>n, <1>w, <2>1 DEF WaitBroken
<1>5. CASE WaitTimedOut(c)
    <2>0. PICK q \in Seen(acct[c].bought), failed \in BOOLEAN :
             LET filled == IF q = 0 /\ ~failed THEN Gained(c) ELSE q
             IN  /\ Mem(c, [mem[c] EXCEPT !.filled = filled])
                 /\ Goto(c, IF filled = Qty THEN "hold" ELSE "cancel")
        BY <1>5 DEF WaitTimedOut
    <2>1. PICK filled :
             /\ filled = (IF q = 0 /\ ~failed THEN Gained(c) ELSE q)
             /\ Mem(c, [mem[c] EXCEPT !.filled = filled])
             /\ Goto(c, IF filled = Qty THEN "hold" ELSE "cancel")
        BY <2>0
    <2>2. pc[c] = "fillWait" /\ UNCHANGED <<lock, row, acct>>
        BY <1>5 DEF WaitTimedOut
    <2>3. Gained(c) = acct[c].bought /\ acct[c].bought <= Qty
        BY <1>0, <2>2, GainedIsBought DEF Buying
    <2>4. q \in Nat /\ q <= acct[c].bought
        BY <1>n DEF Seen
    <2>5. filled \in Nat /\ filled <= acct[c].bought /\ (filled = Qty => acct[c].bought = Qty)
        BY <1>n, <2>1, <2>3, <2>4
    <2> QED BY <1>w, <2>1, <2>2, <2>5
<1>6. CASE CancelEntry(c)
    <2>1. pc[c] = "cancel" /\ pc'[c] = "verify" /\ UNCHANGED <<lock, mem, row>>
        BY <1>6, Reads DEF CancelEntry
    <2>2. Acct(c, [acct[c] EXCEPT !.buy = 0]) \/ (acct[c].buy = 0 /\ CancelAll(c))
        BY <1>6, NoOther DEF CancelEntry
    <2>3. /\ acct'[c].hold = acct[c].hold /\ acct'[c].bought = acct[c].bought /\ acct'[c].buy = 0
          /\ acct'[c].stray = 0 /\ acct'[c].tpq = 0 /\ acct'[c].mkt = 0
        <3>1. acct[c].stray = 0 /\ acct[c].tpq = 0 /\ acct[c].mkt = 0
            BY <1>f, <2>1 DEF Buying
        <3>2. CASE Acct(c, [acct[c] EXCEPT !.buy = 0])
            BY <3>1, <3>2, Books
        <3>3. CASE acct[c].buy = 0 /\ CancelAll(c)
            <4>1. /\ acct'[c].hold = acct[c].hold /\ acct'[c].bought = acct[c].bought
                  /\ acct'[c].buy = 0 /\ acct'[c].stray \in 0..0
                  /\ acct'[c].tpq \in 0..0 /\ acct'[c].mkt = 0
                BY <3>1, <3>3, Books
            <4> QED BY <4>1
        <3> QED BY <2>2, <3>2, <3>3
    <2>4. Exposed(c)' => row'[c].st # "none"
        BY <1>r, <2>1, <2>3 DEF Exposed
    <2>5. mem'[c].filled <= acct'[c].bought
        BY <1>0, <2>1, <2>3 DEF Fits
    <2> QED BY <1>f, <1>l, <1>n, <2>1, <2>3, <2>4, <2>5, BuyingKeeps DEF Buying
<1> QED BY <1>1, <1>2, <1>3, <1>4, <1>5, <1>6

\* The verified fill is all that was bought, or nothing was.
LEMMA VerifyBooks ==
    ASSUME OrdersAnswered, TypeInv, IndInv, AccountInv, NEW c \in Codes, VerifyCancel(c)
    PROVE  Keeps(c)
<1>0. mem[c] \in MemType /\ acct[c] \in AcctType /\ Fits(c) /\ RunnerInv(c)
    BY ValuesTyped DEF AccountInv, IndInv
<1>n. /\ acct[c].hold \in Nat /\ acct[c].bought \in Nat /\ mem[c].filled \in Nat
      /\ Qty \in Nat /\ Qty > 0
      /\ Exposed(c) <=> ~(acct[c].hold = 0 /\ acct[c].buy = 0 /\ acct[c].stray = 0)
    BY Numbers
<1>1. pc[c] = "verify" /\ acct' = acct
    BY DEF VerifyCancel
<1>2. lock.kind # "free" /\ ~manual[c] /\ mem[c].pos = 0
    BY <1>0, <1>1, Places DEF IndInv, SlotInv, InEntry, RunnerInv
<1>3. /\ acct[c].stray = 0 /\ acct[c].buy = 0 /\ acct[c].tpq = 0 /\ acct[c].mkt = 0
      /\ acct[c].hold = acct[c].bought /\ acct[c].bought <= Qty /\ mem[c].filled <= acct[c].bought
      /\ Gained(c) = acct[c].bought
    BY <1>0, <1>1, GainedIsBought DEF Fits, Buying
<1>4. Exposed(c) => row[c].st # "none"
    BY <1>0, <1>1, <1>2 DEF Fits
<1>5. ASSUME NEW q, q = acct[c].bought, q > 0, VerifyFilled(c, q)
      PROVE  Keeps(c)
    <2> DEFINE m == [mem[c] EXCEPT !.filled = q]
    <2>1. m.filled = q
        BY <1>0 DEF MemType
    <2>2. Mem(c, m) /\ Goto(c, "hold") /\ UNCHANGED <<lock, row>>
        BY <1>5 DEF VerifyFilled
    <2> HIDE DEF m
    <2>3. mem'[c] = m /\ pc'[c] = "hold"
        BY <2>2, Reads
    <2>4. row[c].st # "none"
        BY <1>3, <1>4, <1>5, <1>n
    <2> QED BY <1>1, <1>2, <1>3, <1>5, <2>1, <2>2, <2>3, <2>4, FilledKeeps
<1>v. PICK q \in Answered(acct[c].bought) :
         LET filled == IF q > mem[c].filled THEN q ELSE mem[c].filled
         IN  IF filled > 0 THEN VerifyFilled(c, filled) /\ UNCHANGED exec ELSE VerifyNothing(c)
    BY DEF VerifyCancel
<1>6. PICK filled :
         /\ filled = (IF q > mem[c].filled THEN q ELSE mem[c].filled)
         /\ IF filled > 0 THEN VerifyFilled(c, filled) /\ UNCHANGED exec ELSE VerifyNothing(c)
    BY <1>v
<1>7. filled > 0 => filled = acct[c].bought
    <2>1. q \in Nat /\ q <= acct[c].bought /\ filled <= acct[c].bought
        BY <1>3, <1>6, <1>n DEF Answered
    <2>2. CASE "query" \in Faults
        BY <1>3, <1>6, <1>n, <2>1, <2>2 DEF OrdersAnswered
    <2>3. CASE "query" \notin Faults
        <3>1. q = acct[c].bought
            BY <2>3 DEF Answered, MayFail
        <3> QED BY <1>3, <1>6, <1>n, <2>1, <3>1
    <2> QED BY <2>2, <2>3
<1>8. CASE filled > 0
    BY <1>5, <1>6, <1>7, <1>8
<1>9. CASE ~(filled > 0)
    <2>1. VerifyNothing(c)
        BY <1>6, <1>9
    <2>2. CASE Gained(c) > 0 /\ VerifyFilled(c, Gained(c))
        BY <1>3, <1>5, <2>2
    <2>3. CASE Gained(c) = 0 /\ Abort(c)
        <3> DEFINE m == [mem[c] EXCEPT !.filled = 0, !.base = 0, !.retried = FALSE]
        <3>1. m.pos = 0
            BY <1>0, <1>2 DEF MemType
        <3>2. Mem(c, m) /\ Goto(c, "loop")
            BY <2>3 DEF Abort
        <3> HIDE DEF m
        <3>3. pc'[c] = "loop" /\ mem'[c].pos = 0
            BY <3>1, <3>2, Reads
        <3> QED BY <1>1, <1>3, <2>3, <3>3, EmptyKeeps
    <2>4. CASE ToManual(c, "loop", row[c])
        <3>1. pc'[c] = "loop" /\ manual'[c] /\ lock' = ManualLock(c)
            BY <2>4, Reads DEF ToManual
        <3>2. acct'[c].stray = 0 /\ (Exposed(c)' => Exposed(c))
            BY <1>1, <1>3 DEF Exposed
        <3> QED BY <3>1, <3>2, ManualKeeps
    <2> QED BY <2>1, <2>2, <2>3, <2>4 DEF VerifyNothing
<1> QED BY <1>8, <1>9

\* The fill becomes the position.
LEMMA OpenBooks ==
    ASSUME OrdersAnswered, TypeInv, IndInv, AccountInv, NEW c \in Codes,
           HoldLock(c) \/ OpenPosition(c) \/ SaveOpen(c)
    PROVE  Keeps(c) /\ ~(mem[c].pos > 0 /\ mem'[c].pos = 0)
<1>0. mem[c] \in MemType /\ acct[c] \in AcctType /\ Fits(c) /\ Sole(c) /\ RunnerInv(c)
    BY ValuesTyped DEF AccountInv, IndInv
<1>n. /\ acct[c].hold \in Nat /\ mem[c].filled \in Nat /\ mem[c].pos \in Nat
      /\ Exposed(c) <=> ~(acct[c].hold = 0 /\ acct[c].buy = 0 /\ acct[c].stray = 0)
    BY Numbers
<1>p. pc[c] \in {"hold", "placeTp", "saveOpen"}
    BY DEF HoldLock, OpenPosition, SaveOpen
<1>l. lock.kind # "free" /\ ~manual[c]
    BY <1>0, <1>p, Places DEF IndInv, SlotInv, InEntry, RunnerInv
<1>r. Exposed(c) => row[c].st # "none"
    BY <1>0, <1>p, <1>l DEF Fits
<1>1. CASE HoldLock(c)
    <2>1. pc[c] = "hold" /\ pc'[c] = "placeTp" /\ lock' = Lock("held", c) /\ UNCHANGED <<mem, row, acct>>
        BY <1>1, Reads DEF HoldLock
    <2>2. acct[c].stray = 0 /\ acct[c].buy = 0 /\ mem[c].filled > 0 /\ acct[c].hold = mem[c].filled
          /\ acct[c].tpq = 0 /\ acct[c].mkt = 0
        BY <1>0, <2>1 DEF Fits
    <2>3. lock'.kind = "held"
        BY <2>1 DEF Lock
    <2>4. row[c].st # "none"
        BY <1>n, <1>r, <2>2
    <2> QED BY <1>n, <2>1, <2>2, <2>3, <2>4, FilledKeeps
<1>k. ASSUME pc'[c] \in {"saveOpen", "loop"}, mem'[c].pos > 0, Managed(c)', acct'[c].stray = 0,
             Exposed(c)' => Exposed(c) /\ row'[c].st # "none", lock' = lock
      PROVE  Keeps(c)
    <2>1. pc'[c] \notin RestorePcs \cup ExitPcs
        BY <1>k, Places
    <2> QED BY <1>k, <1>l, <2>1 DEF Keeps, Fits, Empty, Buying, Managed
<1>2. CASE OpenPosition(c)
    <2>0. PICK known \in BOOLEAN :
             /\ PlaceTp(c, mem[c].filled, known)
             /\ Mem(c, [mem[c] EXCEPT !.pos = mem[c].filled, !.tp = known])
        BY <1>2 DEF OpenPosition
    <2>1. PICK m :
             /\ m = [mem[c] EXCEPT !.pos = mem[c].filled, !.tp = known]
             /\ PlaceTp(c, mem[c].filled, known) /\ Mem(c, m)
        BY <2>0
    <2>2. m.pos = mem[c].filled /\ m.tp = known
        BY <1>0, <2>1 DEF MemType
    <2>3. pc[c] = "placeTp" /\ UNCHANGED <<lock, row>>
        BY <1>2 DEF OpenPosition
    <2>4. acct[c].stray = 0 /\ acct[c].buy = 0 /\ mem[c].filled > 0 /\ acct[c].hold = mem[c].filled
          /\ acct[c].tpq = 0 /\ acct[c].mkt = 0
        BY <1>0, <2>3 DEF Fits
    <2>5. mem'[c] = m
        BY <2>1, Reads
    <2>6. \/ /\ known /\ acct'[c].hold = acct[c].hold /\ acct'[c].buy = acct[c].buy
             /\ acct'[c].stray = acct[c].stray /\ acct'[c].mkt = acct[c].mkt
             /\ acct'[c].tpq = acct[c].tpq + mem[c].filled /\ acct'[c].tpf = 0
          \/ ~known /\ acct' = acct
        BY <1>n, <2>1, NoOther, Books
    <2>7. Managed(c)' /\ acct'[c].stray = 0
        BY <1>n, <2>2, <2>4, <2>5, <2>6 DEF Managed
    <2>8. Exposed(c) /\ row[c].st # "none"
        BY <1>n, <1>r, <2>4
    <2>9. pc'[c] = "saveOpen"
        BY <1>2, Reads DEF OpenPosition
    <2> QED BY <1>k, <1>n, <2>2, <2>3, <2>4, <2>5, <2>7, <2>8, <2>9
<1>3. CASE SaveOpen(c)
    <2> DEFINE m == [mem[c] EXCEPT !.filled = 0, !.base = 0, !.retried = FALSE]
    <2>1. m.pos = mem[c].pos /\ m.tp = mem[c].tp
        BY <1>0 DEF MemType
    <2>2. pc[c] = "saveOpen" /\ Mem(c, m) /\ Goto(c, "loop") /\ UNCHANGED <<lock, acct>>
          /\ WriteRow(c, SavedRow(c, "open", mem[c].pos, mem[c].tp))
        BY <1>3 DEF SaveOpen
    <2> HIDE DEF m
    <2>3. mem'[c] = m /\ pc'[c] = "loop"
        BY <2>2, Reads
    <2>4. row'[c].st \in {"open", row[c].st}
        BY <2>2, Records DEF SavedRow
    <2>5. mem[c].pos > 0 /\ Managed(c) /\ acct[c].stray = 0
        BY <1>0, <2>2 DEF Fits
    <2>6. Managed(c)'
        BY <2>1, <2>2, <2>3, <2>5 DEF Managed
    <2>7. Exposed(c)' => Exposed(c) /\ row'[c].st # "none"
        BY <1>r, <2>2, <2>4 DEF Exposed
    <2> QED BY <1>k, <1>n, <2>1, <2>2, <2>3, <2>5, <2>6, <2>7
<1> QED BY <1>1, <1>2, <1>3

\* An entry keeps its account from the signal to the trade, and drops no position.
LEMMA EnterBooks ==
    ASSUME OrdersAnswered, TypeInv, IndInv, AccountInv, NEW c \in Codes, Enter(c)
    PROVE  Keeps(c) /\ ~(mem[c].pos > 0 /\ mem'[c].pos = 0)
<1>1. CASE HoldLock(c) \/ OpenPosition(c) \/ SaveOpen(c)
    BY <1>1, OpenBooks
<1>2. CASE ~(HoldLock(c) \/ OpenPosition(c) \/ SaveOpen(c))
    <2>1. pc[c] \in {"signal", "armed", "submit", "post", "saveRow", "fillWait", "cancel", "verify"}
        BY <1>2 DEF Enter, SignalAbort, SignalArmed, ArmedAbort, ArmedReady, SubmitRefused, SubmitReady,
           PostAccepted, PostFailed, SaveRow, WaitFilled, WaitBroken, WaitTimedOut, CancelEntry, VerifyCancel
    <2>2. mem[c].pos = 0
        BY <2>1, Places DEF IndInv, RunnerInv
    <2>3. Keeps(c)
        BY <1>2, SignalBooks, FillBooks, VerifyBooks DEF Enter
    <2> QED BY <2>2, <2>3
<1> QED BY <1>1, <1>2

\* An exit sells what is held, and ends with nothing held or with an operator called.
LEMMA ExitBooks ==
    ASSUME TypeInv, IndInv, AccountInv, NEW c \in Codes, Exit(c)
    PROVE  /\ Keeps(c)
           /\ mem[c].pos > 0 /\ mem'[c].pos = 0 => acct[c].hold = 0
<1>0. mem[c] \in MemType /\ row[c] \in RowType /\ Fits(c) /\ Sole(c)
    BY ValuesTyped DEF AccountInv
<1>p. pc[c] \in ExitPcs
    BY Places DEF Exit, ExitCancel, TpCancel, CancelTp, ExitSubmit, ExitMark, TpMark, Mark,
       VerifyTimeout, ExitVerify, ExitRetry, TpSell, SellRest, ExitReverify
<1>1. acct[c].buy = 0 /\ acct[c].stray = 0 /\ ~manual[c] /\ pc[c] # "saveRow"
    BY <1>0, <1>p, NotManual, Phases, Places DEF IndInv, Fits
<1>2. Exposed(c) => row[c].st # "none"
    BY <1>0, <1>1 DEF Fits
<1>3. ASSUME acct' = acct \/ Acct(c, [acct[c] EXCEPT !.tpq = 0])
           \/ \E q : Sells(c, q) \/ SellsSilently(c, q)
      PROVE  acct'[c].hold = acct[c].hold /\ acct'[c].buy = 0 /\ acct'[c].stray = 0
             /\ (Exposed(c)' => Exposed(c))
    BY <1>1, <1>3, Books DEF Exposed
<1>4. ASSUME acct' = acct \/ Acct(c, [acct[c] EXCEPT !.tpq = 0])
                \/ \E q : Sells(c, q) \/ SellsSilently(c, q),
             pc'[c] \in ExitPcs, lock' = lock, mem'[c].pos = mem[c].pos,
             row[c].st # "none" => row'[c].st # "none"
      PROVE  Keeps(c) /\ ~(mem[c].pos > 0 /\ mem'[c].pos = 0)
    BY <1>0, <1>2, <1>3, <1>4, ExitingKeeps
<1>5. ASSUME acct' = acct \/ \E q : SellsSilently(c, q),
             NEW r, NEW m \in MemType, m.pos = mem[c].pos, ExitManual(c, r, m)
      PROVE  Keeps(c) /\ ~(mem[c].pos > 0 /\ mem'[c].pos = 0)
    <2> DEFINE n == [m EXCEPT !.stop = TRUE, !.rest = 0]
    <2>1. n.pos = mem[c].pos
        BY <1>5 DEF MemType
    <2>2. ToManual(c, "loop", r) /\ Mem(c, n)
        BY <1>5 DEF ExitManual
    <2> HIDE DEF n
    <2>3. mem'[c] = n
        BY <2>2, Reads
    <2>4. pc'[c] = "loop" /\ manual'[c] /\ lock' = ManualLock(c)
        BY <2>2, Reads DEF ToManual
    <2>5. Keeps(c)
        BY <1>3, <1>5, <2>4, ManualKeeps
    <2> QED BY <2>1, <2>3, <2>5
<1>6. CASE ExitCancel(c) \/ TpCancel(c)
    BY <1>4, <1>6, Places, Reads DEF ExitCancel, TpCancel, CancelTp
<1>7. CASE ExitMark(c) \/ TpMark(c)
    <2>1. WriteRow(c, MarkedRow(c, "exit_pending")) /\ pc'[c] \in ExitPcs /\ UNCHANGED <<lock, mem, acct>>
        BY <1>7, Places, Reads DEF ExitMark, TpMark, Mark
    <2>2. row[c].st # "none" => row'[c].st # "none"
        BY <1>0, <2>1, Records DEF MarkedRow, RowType
    <2> QED BY <1>4, <2>1, <2>2
<1>8. CASE ExitRetry(c) \/ TpSell(c)
    BY <1>0, <1>4, <1>5, <1>8, Places, Reads DEF ExitRetry, TpSell, SellRest
<1>9. CASE ExitSubmit(c)
    <2> DEFINE m == [mem[c] EXCEPT !.exiting = FALSE, !.tp = FALSE]
    <2>1. m \in MemType /\ m.pos = mem[c].pos
        BY <1>0 DEF MemType
    <2>2. \/ Sells(c, mem[c].pos) /\ Goto(c, "exitMark") /\ UNCHANGED <<lock, mem, row>>
          \/ SellsSilently(c, mem[c].pos) /\ ExitManual(c, [row[c] EXCEPT !.tp = FALSE], m)
        BY <1>9 DEF ExitSubmit
    <2> HIDE DEF m
    <2>3. CASE SellsSilently(c, mem[c].pos) /\ ExitManual(c, [row[c] EXCEPT !.tp = FALSE], m)
        BY <1>5, <2>1, <2>3
    <2>4. CASE Sells(c, mem[c].pos) /\ Goto(c, "exitMark") /\ UNCHANGED <<lock, mem, row>>
        BY <1>4, <2>4, Places, Reads
    <2> QED BY <2>2, <2>3, <2>4
<1>10. CASE VerifyTimeout(c)
    <2>1. exec[c] \in {"ExitPending", "ExitPartial"}
        BY <1>p DEF IndInv, RunnerInv
    <2> QED BY <1>0, <1>5, <1>10, <2>1, ExitTimeoutRule DEF VerifyTimeout
<1>11. CASE ExitVerify(c) \/ ExitReverify(c)
    <2>1. CASE acct[c].hold = 0 /\ Finalize(c)
        BY <1>1, <2>1, FinalizeBooks
    <2>2. CASE ExitManual(c, row[c], mem[c]) /\ acct' = acct
        BY <1>0, <1>5, <2>2
    <2>3. CASE Mem(c, [mem[c] EXCEPT !.rest = acct[c].hold]) /\ Goto(c, "exitRetry") /\ UNCHANGED <<lock, row, acct>>
        <3> DEFINE m == [mem[c] EXCEPT !.rest = acct[c].hold]
        <3>1. m.pos = mem[c].pos
            BY <1>0 DEF MemType
        <3>2. Mem(c, m)
            BY <2>3
        <3> HIDE DEF m
        <3>3. mem'[c].pos = mem[c].pos /\ pc'[c] = "exitRetry"
            BY <2>3, <3>1, <3>2, Reads
        <3> QED BY <1>4, <2>3, <3>3, Places
    <2> QED BY <1>11, <2>1, <2>2, <2>3 DEF ExitVerify, ExitReverify
<1> QED BY <1>6, <1>7, <1>8, <1>9, <1>10, <1>11 DEF Exit

\* Whatever a runner does, the other runners stay where they are.
LEMMA StepsAlone ==
    ASSUME TypeInv, IndInv, NEW c \in Codes,
           Start(c) \/ Stop(c) \/ Restore(c) \/ Loop(c) \/ Enter(c) \/ Exit(c) \/ Broker(c)
    PROVE  Alone(c)
<1>1. CASE PollAcquire(c) \/ PollPreempt(c) \/ HoldLock(c) \/ SaveOpen(c)
    BY <1>1, Reads DEF PollAcquire, PollPreempt, HoldLock, SaveOpen, Alone
<1>2. CASE ~(PollAcquire(c) \/ PollPreempt(c) \/ HoldLock(c) \/ SaveOpen(c))
    BY <1>2, TaskHarmless, RestoreHarmless, LoopHarmless, EnterHarmless, ExitHarmless DEF IndInv, Harmless
<1> QED BY <1>1, <1>2

\* A harmless step leaves whoever is exposed alone, with its lock.
LEMMA SoleKeeps ==
    ASSUME TypeInv, IndInv, AccountInv, NEW c \in Codes, Harmless(c), Apart(c), Keeps(c)
    PROVE  \A d \in Codes : Sole(d)'
<1>1. \A d \in Codes : InEntry(d)' => InEntry(d)
    BY DEF Harmless, Alone, InEntry
<1>2. \A d \in Codes \ {c} : Exposed(d)' <=> Exposed(d)
    BY DEF Apart, Exposed
<1>3. ASSUME Exposed(c)'
      PROVE  Sole(c)'
    <2>1. CASE Exposed(c)
        <3>1. \/ lock.kind = "manual"
              \/ lock.kind \in {"pending", "held"} /\ lock.code = c
            BY <2>1 DEF AccountInv, Sole
        <3>2. \A d \in Codes \ {c} : ~InEntry(d)' /\ ~Exposed(d)'
            BY <1>1, <1>2, <2>1 DEF AccountInv, Sole
        <3>3. lock'.kind # "free"
            BY <1>3 DEF Keeps
        <3>4. \/ lock'.kind = "manual"
              \/ lock'.kind \in {"pending", "held"} /\ lock'.code = c
            BY <3>1, <3>3, LockFields DEF Harmless
        <3> QED BY <3>2, <3>4 DEF Sole
    <2>2. CASE ~Exposed(c)
        <3>1. InEntry(c) /\ lock' = lock
            BY <1>3, <2>2 DEF Keeps, Harmless
        <3>2. \A d \in Codes \ {c} : ~InEntry(d) /\ ~Exposed(d)
            BY <3>1 DEF AccountInv, Sole, IndInv, SlotInv, EntryExclusive
        <3>3. \/ lock.kind = "manual"
              \/ lock.kind \in {"pending", "held"} /\ lock.code = c
            BY <3>1 DEF IndInv, SlotInv
        <3> QED BY <1>1, <1>2, <3>1, <3>2, <3>3 DEF Sole
    <2> QED BY <2>1, <2>2
<1>4. ASSUME NEW d \in Codes \ {c}, Exposed(d)'
      PROVE  Sole(d)'
    <2>1. /\ \/ lock.kind = "manual"
             \/ lock.kind \in {"pending", "held"} /\ lock.code = d
          /\ \A e \in Codes \ {d} : ~InEntry(e) /\ ~Exposed(e)
        BY <1>2, <1>4 DEF AccountInv, Sole
    <2>2. ~InEntry(c)' /\ ~Exposed(c)'
        BY <1>1, <2>1 DEF Keeps
    <2>3. \A e \in Codes \ {d} : ~InEntry(e)' /\ ~Exposed(e)'
        BY <1>1, <1>2, <2>1, <2>2
    <2>4. Released(c) = lock /\ (~manual[c] => FreedByRestore(c) = lock)
        BY <2>1 DEF Released, FreedByRestore, IndInv, ManualInv
    <2>5. \/ lock'.kind = "manual"
          \/ lock'.kind \in {"pending", "held"} /\ lock'.code = d
        BY <2>1, <2>4, LockFields DEF Harmless
    <2> QED BY <2>3, <2>5 DEF Sole
<1> QED BY <1>3, <1>4 DEF Sole

\* The steps that take, mark, hold and spend the slot move nothing at the broker.
LEMMA SlotSole ==
    ASSUME TypeInv, IndInv, AccountInv, NEW c \in Codes,
           PollAcquire(c) \/ PollPreempt(c) \/ HoldLock(c) \/ SaveOpen(c)
    PROVE  \A d \in Codes : Sole(d)'
<1>1. \A d \in Codes : Exposed(d)' <=> Exposed(d)
    BY DEF PollAcquire, PollPreempt, HoldLock, SaveOpen, Exposed
<1>2. CASE PollAcquire(c)
    <2>1. \A d \in Codes : ~Exposed(d)
        BY <1>2 DEF PollAcquire, AccountInv, Sole
    <2> QED BY <1>1, <2>1 DEF Sole
<1>3. CASE PollPreempt(c)
    <2>1. lock'.kind = lock.kind /\ lock'.code = lock.code
        BY <1>3 DEF PollPreempt, TypeInv, LockOK, LockType
    <2>2. \A d \in Codes : InEntry(d)' <=> InEntry(d)
        BY <1>3 DEF PollPreempt, InEntry
    <2> QED BY <1>1, <2>1, <2>2 DEF Sole, AccountInv
<1>4. CASE HoldLock(c)
    <2>1. lock'.kind = "held" /\ lock'.code = c
        BY <1>4 DEF HoldLock, Lock
    <2>2. InEntry(c) /\ \A d \in Codes : InEntry(d)' <=> InEntry(d)
        BY <1>4, HoldKeeps, Places DEF HoldLock, InEntry
    <2>3. \A d \in Codes \ {c} : ~Exposed(d) /\ ~InEntry(d)
        BY <2>2 DEF AccountInv, Sole, IndInv, SlotInv, EntryExclusive
    <2> QED BY <1>1, <2>1, <2>2, <2>3 DEF Sole
<1>5. CASE SaveOpen(c)
    <2>1. lock' = lock
        BY <1>5 DEF SaveOpen
    <2>2. \A d \in Codes : ~InEntry(d)'
        BY <1>5, SaveOpenKeeps
    <2> QED BY <1>1, <2>1, <2>2 DEF Sole, AccountInv
<1> QED BY <1>2, <1>3, <1>4, <1>5

\* Without failing writes a row exists for a trade only.
RowsKnown == "db" \notin Faults => TradeInv

\* Every step of a runner keeps its account.
LEMMA StepBooks ==
    ASSUME OrdersAnswered, TypeInv, IndInv, AccountInv, RowsKnown, NEW c \in Codes,
           Start(c) \/ Stop(c) \/ Restore(c) \/ Loop(c) \/ Enter(c) \/ Exit(c) \/ Broker(c)
    PROVE  Keeps(c)
BY TaskBooks, RestoreBooks, LoopBooks, EnterBooks, ExitBooks, BrokerBooks DEF RowsKnown

\* Every step keeps every account.
LEMMA AccountStep ==
    ASSUME OrdersAnswered, TypeInv, IndInv, AccountInv, RowsKnown, Next
    PROVE  AccountInv'
<1>1. ~Crash
    BY NoOther DEF Crash
<1>2. ASSUME NEW c \in Codes,
             Start(c) \/ Stop(c) \/ Restore(c) \/ Loop(c) \/ Enter(c) \/ Exit(c) \/ Broker(c)
      PROVE  AccountInv'
    <2>1. Alone(c) /\ Apart(c) /\ Keeps(c)
        BY <1>2, StepsAlone, StepsApart, StepBooks
    <2>2. \A d \in Codes : Fits(d)'
        BY <2>1 DEF Alone, Apart, Keeps, AccountInv, Fits, Empty, Buying, Managed, Exposed
    <2>3. CASE PollAcquire(c) \/ PollPreempt(c) \/ HoldLock(c) \/ SaveOpen(c)
        BY <2>2, <2>3, SlotSole DEF AccountInv
    <2>4. CASE ~(PollAcquire(c) \/ PollPreempt(c) \/ HoldLock(c) \/ SaveOpen(c))
        <3>1. Harmless(c)
            BY <1>2, <2>4, TaskHarmless, RestoreHarmless, LoopHarmless, EnterHarmless, ExitHarmless DEF IndInv
        <3> QED BY <2>1, <2>2, <3>1, SoleKeeps DEF AccountInv
    <2> QED BY <2>3, <2>4
<1> QED BY <1>1, <1>2 DEF Next

\* Before any runner is started the accounts are empty.
LEMMA AccountInit == Init => AccountInv
<1>1. Init => \A c \in Codes : /\ pc[c] = "off" /\ mem[c].pos = 0
                               /\ acct[c].hold = 0 /\ acct[c].buy = 0 /\ acct[c].stray = 0
    BY DEF Init, NewMem, NoOrders
<1>2. "off" \notin ExitPcs
    BY Phases
<1> QED BY <1>1, <1>2 DEF AccountInv, Fits, Sole, Empty, Buying, Exposed

\* Nothing but a step changes the accounts.
LEMMA AccountStutters ==
    ASSUME AccountInv, UNCHANGED vars
    PROVE  AccountInv'
BY DEF vars, AccountInv, Fits, Sole, Empty, Buying, Managed, Exposed, InEntry

\* While orders are cancelled and answered, the account of each code is what its runner
\* takes it for at every point of a restore, an entry, a position and an exit, and the one
\* code that is exposed has the entry to itself.
THEOREM AccountsHold ==
    ASSUME OrdersAnswered
    PROVE  Spec => []AccountInv
<1>1. Spec => []RowsKnown
    <2>1. CASE "db" \in Faults
        <3>1. RowsKnown
            BY <2>1 DEF RowsKnown
        <3> QED BY <3>1, PTL
    <2>2. CASE "db" \notin Faults
        <3>1. RowsReliable
            BY <2>2 DEF RowsReliable, OrdersAnswered
        <3>2. TradeInv => RowsKnown
            BY DEF RowsKnown
        <3>3. Spec => []TradeInv
            BY <3>1, TradesHold
        <3> QED BY <3>2, <3>3, PTL
    <2> QED BY <2>1, <2>2
<1>2. ASSUME TypeInv, IndInv, RowsKnown, AccountInv, [Next]_vars
      PROVE  AccountInv'
    BY <1>2, AccountStep, AccountStutters
<1> QED BY <1>1, <1>2, AccountInit, TypesHold, Invariant, PTL DEF Spec

\* The account never holds, or is buying, both ETFs: the purpose of the position lock
\* (poll_and_enter, execute_entry, finalize_flat_transition), for any number of codes.
THEOREM ExposureIsSingle ==
    ASSUME OrdersAnswered
    PROVE  Spec => []SingleExposure
<1>1. AccountInv => SingleExposure
    BY DEF AccountInv, Sole, SingleExposure
<1> QED BY <1>1, AccountsHold, PTL

\* A runner that looks for signals has nothing at the broker: no holdings it lost, no buy
\* it forgot (abort_entry, finalize_flat_transition, the restore).
THEOREM FlatRunnersAreFlat ==
    ASSUME OrdersAnswered
    PROVE  Spec => []FlatIsFlat
<1>1. ASSUME AccountInv, NEW c \in Codes, Flat(c), ~manual[c]
      PROVE  ~Exposed(c)
    <2>1. Fits(c) /\ Empty(c)
        BY <1>1 DEF AccountInv, Flat, Empty
    <2>2. acct[c].hold = 0 /\ acct[c].buy = 0 /\ acct[c].stray = 0
        BY <1>1, <2>1 DEF Fits
    <2> QED BY <2>2 DEF Exposed
<1>2. AccountInv => FlatIsFlat
    BY <1>1 DEF FlatIsFlat
<1> QED BY <1>2, AccountsHold, PTL

\* What the account holds or is buying has a row to recover it from, unless an operator was
\* called (save_active_position after the entry order, until finalize_flat_transition).
THEOREM ExposureIsRecoverable ==
    ASSUME OrdersAnswered
    PROVE  Spec => []Recoverable
<1>1. AccountInv => Recoverable
    BY DEF AccountInv, Fits, Recoverable
<1> QED BY <1>1, AccountsHold, PTL

\* The position a runner manages is what the account holds of it, with the fills of its
\* take-profit order (execute_entry, manage_position).
THEOREM PositionIsAccounted ==
    ASSUME OrdersAnswered, RowsReliable
    PROVE  Spec => []PositionMatches
<1>1. ASSUME TypeInv, AccountInv, NEW c \in Codes,
             pc[c] = "loop", mem[c].pos > 0, ~mem[c].exiting, ~manual[c]
      PROVE  mem[c].pos = acct[c].hold + (IF mem[c].tp THEN acct[c].tpf ELSE 0)
    <2>1. Managed(c)
        BY <1>1 DEF AccountInv, Fits
    <2>2. acct[c].hold \in Nat
        BY <1>1, Numbers
    <2> QED BY <2>1, <2>2 DEF Managed, RowsReliable
<1>2. TypeInv /\ AccountInv => PositionMatches
    BY <1>1 DEF PositionMatches
<1> QED BY <1>2, AccountsHold, TypesHold, PTL

\* A running task gives up a position only when the broker holds nothing of it: no failed
\* inquiry and no partial fill of the take-profit order is taken for a sale.
THEOREM DroppedWhenSold ==
    ASSUME OrdersAnswered
    PROVE  Spec => DropOnlyWhenSold
<1> DEFINE Drops(c) == mem[c].pos > 0 /\ mem'[c].pos = 0 /\ pc[c] # "off" /\ ~Crash
           Sold == \A c \in Codes : Drops(c) => acct[c].hold = 0
<1>1. ASSUME TypeInv, IndInv, AccountInv, NEW c \in Codes,
             Start(c) \/ Stop(c) \/ Restore(c) \/ Loop(c) \/ Enter(c) \/ Exit(c) \/ Broker(c)
      PROVE  Sold
    <2>1. \A d \in Codes \ {c} : mem'[d] = mem[d]
        BY <1>1, StepsAlone DEF Alone
    <2>2. \A d \in Codes \ {c} : ~Drops(d)
        BY <2>1
    <2>3. CASE Start(c) \/ Restore(c) \/ Broker(c)
        <3>1. CASE Start(c)
            BY <2>2, <3>1 DEF Start
        <3>2. CASE Restore(c)
            <4>1. pc[c] \in RestorePcs
                BY <3>2, Places DEF Restore, RestoreOrphan, OrphanCancel, RestoreExit, RestoreEntry,
                   RestoreCancel, RestoreRecheck, RestoreOpen, RestoreStock, RestoreTp
            <4>2. mem[c].pos = 0
                BY <1>1, <4>1 DEF IndInv, RunnerInv
            <4> QED BY <2>2, <4>2
        <3>3. CASE Broker(c)
            BY <2>2, <3>3 DEF Broker, FillEntry, FillStray, FillTp, FillMarket, Filled
        <3> QED BY <2>3, <3>1, <3>2, <3>3
    <2>4. CASE Stop(c)
        <3> DEFINE m == [mem[c] EXCEPT !.stop = TRUE]
        <3>1. m.pos = mem[c].pos
            BY <1>1, ValuesTyped DEF MemType
        <3>2. Mem(c, m)
            BY <2>4 DEF Stop
        <3> HIDE DEF m
        <3>3. mem'[c].pos = mem[c].pos
            BY <1>1, <3>1, <3>2, Reads
        <3> QED BY <2>2, <3>3
    <2>5. CASE Loop(c) \/ Enter(c) \/ Exit(c)
        BY <1>1, <2>2, <2>5, LoopBooks, EnterBooks, ExitBooks
    <2> QED BY <1>1, <2>3, <2>4, <2>5
<1>2. ASSUME TypeInv, IndInv, AccountInv, [Next]_vars
      PROVE  [Sold]_vars
    BY <1>1, <1>2 DEF Next
<1> HIDE DEF Sold
<1>3. Spec => [][Sold]_vars
    BY <1>2, AccountsHold, TypesHold, Invariant, PTL DEF Spec
<1> QED BY <1>3 DEF DropOnlyWhenSold, Sold

-----------------------------------------------------------------------------
\* The ManualHeld lock.

\* A harmless step leaves a ManualHeld lock with its code, or a restore overtakes it.
LEMMA ManualHarmless ==
    ASSUME TypeInv, IndInv, lock.kind = "manual", NEW c \in Codes, Harmless(c)
    PROVE  \/ lock'.kind = "manual" /\ lock'.code = lock.code
           \/ c # lock.code /\ Overtakes(c)
<1>1. manual[lock.code]
    BY DEF IndInv, ManualInv
<1>2. CASE lock' \in {lock, Released(c)}
    BY <1>2, LockFields
<1>3. CASE lock' = FreedByRestore(c) /\ ~manual[c]
    BY <1>1, <1>3, LockFields
<1>4. CASE lock' = ManualLock(c)
    <2>1. CASE lock.code = c
        BY <1>4, <2>1, LockFields
    <2>2. CASE lock.code # c
        BY <1>4, <2>2 DEF ManualLock
    <2> QED BY <2>1, <2>2
<1>5. CASE lock' = Lock("manual", c) /\ RestoreTp(c)
    <2>1. lock'.kind = "manual" /\ lock'.code = c
        BY <1>5, LockFields
    <2>2. CASE row[c].man
        BY <1>5, <2>1, <2>2 DEF RestoreTp, Overtakes
    <2>3. CASE ~row[c].man
        BY <1>5, <2>3 DEF RestoreTp
    <2> QED BY <2>2, <2>3
<1> QED BY <1>2, <1>3, <1>4, <1>5 DEF Harmless

\* Every step but a crash leaves a ManualHeld lock with its code, or another code overtakes it
\* as the property says.
LEMMA ManualStep ==
    ASSUME TypeInv, IndInv, lock.kind = "manual", Next, ~Crash
    PROVE  \/ lock'.kind = "manual" /\ lock'.code = lock.code
           \/ \E c \in Codes \ {lock.code} : Overtakes(c)
<1>1. PICK c \in Codes :
        Start(c) \/ Stop(c) \/ Restore(c) \/ Loop(c) \/ Enter(c) \/ Exit(c) \/ Broker(c)
    BY DEF Next
<1>2. RunnerInv(c)
    BY DEF IndInv
<1>3. CASE HoldLock(c)
    <2>1. c # lock.code
        <3>1. pc[c] \notin {"off", "wait", "loop"}
            BY <1>3 DEF HoldLock
        <3> QED BY <1>2, <3>1, NotManual DEF IndInv, ManualInv
    <2>2. Overtakes(c)
        BY <1>3 DEF HoldLock, Overtakes
    <2> QED BY <2>1, <2>2
<1>4. CASE SaveOpen(c)
    BY <1>4 DEF SaveOpen
<1>5. CASE ~HoldLock(c) /\ ~SaveOpen(c)
    <2>1. ~PollAcquire(c) /\ ~PollPreempt(c)
        BY DEF PollAcquire, PollPreempt
    <2>2. Harmless(c)
        BY <1>1, <1>2, <1>5, <2>1, TaskHarmless, RestoreHarmless, LoopHarmless, EnterHarmless,
           ExitHarmless DEF IndInv
    <2> QED BY <2>2, ManualHarmless
<1> QED BY <1>3, <1>4, <1>5

\* Under every fault, a ManualHeld lock is never given back while the process lives, by no abort,
\* exit or restore of any runner, and no poll takes it: a position that waits for
\* the operator loses it only to a fill of the entry that ran beside it (HoldLock), or to
\* the restore of another manual row (RestoreTp).
THEOREM ManualLockStays == Spec => ManualHeldStays
<1> DEFINE Stays == lock.kind = "manual" /\ ~Crash =>
                      \/ lock'.kind = "manual" /\ lock'.code = lock.code
                      \/ \E c \in Codes \ {lock.code} : Overtakes(c)
<1>1. ASSUME TypeInv, IndInv, [Next]_vars
      PROVE  [Stays]_vars
    BY <1>1, ManualStep
<1> HIDE DEF Stays
<1>2. Spec => [][Stays]_vars
    BY <1>1, TypesHold, Invariant, PTL DEF Spec
<1> QED BY <1>2 DEF ManualHeldStays, Stays
=============================================================================
