----------------------------- MODULE LiveRunner -----------------------------
(***************************************************************************)
(* The live runners of the two ETFs (src/strategy/live_runner.rs): one task *)
(* per stock code that restores, polls, enters, manages and exits a         *)
(* position, the position lock the tasks share, the daily trade gate, the   *)
(* active_positions row of each code and the broker account they trade on.  *)
(*                                                                         *)
(* Each action is the code between two awaits at which another task, the    *)
(* broker or a crash can intervene.  Prices, times and the strategy's       *)
(* signal are abstracted to a free choice of the branch they select.        *)
(***************************************************************************)
EXTENDS ExecutionActor, FiniteSets

CONSTANTS
    Codes,       \* stock codes, one runner each
    NoCode,      \* the code of a free lock
    Qty,         \* shares an entry orders
    MaxTrades,   \* KIS_MAX_DAILY_TRADES_TOTAL
    Faults,      \* what can fail in this instance, of FaultKinds
    MaxOrders,   \* bound: entry orders that reach the broker
    MaxCrashes   \* bound: process crashes

\* cancel: a cancel request fails; query: a balance or fill inquiry fails;
\* reply: an accepted order's reply is lost; db: a write or read of the row
\* fails; crash: the process dies and is started again.
FaultKinds == {"cancel", "query", "reply", "db", "crash"}

ASSUME CodesAssumption  == NoCode \notin Codes
ASSUME QtyAssumption    == Qty \in Nat \ {0}
ASSUME LimitsAssumption == MaxTrades \in Nat /\ MaxOrders \in Nat /\ MaxCrashes \in Nat
ASSUME FaultsAssumption == Faults \subseteq FaultKinds

VARIABLES
    lock,      \* PositionLockState, shared by the runners
    pc,        \* where each runner's task is
    exec,      \* RunnerState.execution_state
    manual,    \* RunnerState.manual_intervention_required
    mem,       \* the rest of a runner's volatile state
    row,       \* its active_positions row
    acct,      \* the broker's orders and holdings of each code
    gate,      \* GlobalTradeGate.count
    orders,    \* entry orders that reached the broker (bounds the model)
    crashes    \* crashes so far (bounds the model)

vars == <<lock, pc, exec, manual, mem, row, acct, gate, orders, crashes>>

RestorePcs == {"restore", "orphanCancel", "restoreEntry", "restoreCancel",
               "restoreRecheck", "restoreStock", "restoreTp"}
\* From taking the lock as Pending until the lock is Held or released.
EntryPcs   == {"signal", "armed", "submit", "post", "saveRow", "fillWait",
               "cancel", "verify", "hold"}
OpenPcs    == {"placeTp", "saveOpen"}
ExitPcs    == {"exitCancel", "exitSubmit", "exitMark", "exitVerify", "exitRetry",
               "tpCancel", "tpSell", "tpMark", "reverify"}
Pcs        == {"off", "wait", "loop"} \cup RestorePcs \cup EntryPcs \cup OpenPcs \cup ExitPcs

LockKinds  == {"free", "pending", "held", "manual"}
Lock(k, c) == [kind |-> k, code |-> c, preempted |-> FALSE]
NoLock     == Lock("free", NoCode)

\* pos: quantity of current_position, 0 for None; tp: its tp_order_no is known;
\* exiting: exit_pending; filled, base: filled_qty and holding_before of
\* execute_entry; rest: shares a second sell still has to place; retried: the one
\* retry of poll_and_enter is spent.
NewMem == [pos |-> 0, tp |-> FALSE, exiting |-> FALSE, stop |-> FALSE,
           filled |-> 0, base |-> 0, rest |-> 0, retried |-> FALSE]

NoRow == [st |-> "none", man |-> FALSE, qty |-> 0, tp |-> FALSE]

\* hold: shares held; buy: live remainder of the entry order the runner knows,
\* bought: what it filled; stray: live buys no runner knows of; tpq, tpf: live
\* remainder and fill of the take-profit order; mkt: live market sells.
NoOrders == [hold |-> 0, buy |-> 0, bought |-> 0, stray |-> 0,
             tpq |-> 0, tpf |-> 0, mkt |-> 0]

Init ==
    /\ lock = NoLock
    /\ pc = [c \in Codes |-> "off"]
    /\ exec = [c \in Codes |-> "Flat"]
    /\ manual = [c \in Codes |-> FALSE]
    /\ mem = [c \in Codes |-> NewMem]
    /\ row = [c \in Codes |-> NoRow]
    /\ acct = [c \in Codes |-> NoOrders]
    /\ gate = 0 /\ orders = 0 /\ crashes = 0

-----------------------------------------------------------------------------
\* Helpers.

Lesser(a, b) == IF a < b THEN a ELSE b

\* Mutant: a Pending lock is not given back.
MutReleased(c) == IF lock.kind = "held" /\ lock.code = c THEN NoLock ELSE lock

\* release_lock_if_self_held: a ManualHeld lock and another code's lock stay.
Released(c) ==
    IF lock.kind \in {"pending", "held"} /\ lock.code = c THEN NoLock ELSE lock

\* The inline release of the restore paths frees the runner's own lock whatever it is.
FreedByRestore(c) == IF lock.code = c THEN NoLock ELSE lock

\* Mutant: the last runner to be made manual has the lock.
MutManualLock(c) == IF lock.kind = "held" /\ lock.code # c THEN lock ELSE Lock("manual", c)

\* enter_manual_intervention_state: only a Held or ManualHeld of another code stays.
ManualLock(c) ==
    IF lock.kind \in {"held", "manual"} /\ lock.code # c THEN lock ELSE Lock("manual", c)

MayFail(kind) == kind \in Faults

\* What a step makes of the runner and of its account.
Goto(c, next) == pc' = [pc EXCEPT ![c] = next]
Exec(c, s)    == exec' = [exec EXCEPT ![c] = s]
Mem(c, m)     == mem' = [mem EXCEPT ![c] = m]
Acct(c, a)    == acct' = [acct EXCEPT ![c] = a]
Row(c, r)     == row' = [row EXCEPT ![c] = r]
Manual(c, b)  == manual' = [manual EXCEPT ![c] = b]

\* A write of the row that takes effect, or that fails and is only logged.
WriteRow(c, r) == \/ Row(c, r)
                  \/ MayFail("db") /\ UNCHANGED row

\* The ON CONFLICT clause of save_active_position leaves the manual flag alone.
SavedRow(c, st, qty, tp) == [st |-> st, man |-> row[c].man, qty |-> qty, tp |-> tp]

\* The UPDATEs do nothing when the row does not exist.
MarkedRow(c, st) == IF row[c].st = "none" THEN row[c] ELSE [row[c] EXCEPT !.st = st]
ManualRow(r) ==
    IF r.st = "none" THEN r ELSE [r EXCEPT !.st = "manual_intervention", !.man = TRUE]

\* trigger_manual_intervention, with r the row as the caller left it.  The caller
\* says what becomes of mem, where stop is set.
ToManual(c, next, r) ==
    /\ Manual(c, TRUE)
    /\ Exec(c, "ManualIntervention") /\ Goto(c, next)
    /\ lock' = ManualLock(c)
    /\ WriteRow(c, ManualRow(r))

\* Shares not yet promised to a live sell order: what the broker lets one sell.
Sellable(c) == acct[c].hold - acct[c].tpq - acct[c].mkt

Counters == <<gate, orders, crashes>>

-----------------------------------------------------------------------------
\* Start, stop and crash.

\* start_runner: refused while the status of the code is manual; a fresh LiveRunner.
Start(c) ==
    /\ pc[c] = "off" /\ ~manual[c]
    /\ Goto(c, "restore") /\ Exec(c, "Flat")
    /\ Mem(c, NewMem)
    /\ UNCHANGED <<lock, manual, row, acct, Counters>>

Stop(c) ==
    /\ pc[c] # "off" /\ ~mem[c].stop
    /\ Mem(c, [mem[c] EXCEPT !.stop = TRUE])
    /\ UNCHANGED <<lock, pc, exec, manual, row, acct, Counters>>

\* Everything in memory is gone: the lock, the statuses and the trade gate too.
Crash ==
    /\ MayFail("crash") /\ crashes < MaxCrashes
    /\ \E c \in Codes : pc[c] # "off"
    /\ lock' = NoLock /\ gate' = 0 /\ crashes' = crashes + 1
    /\ pc' = [c \in Codes |-> "off"]
    /\ exec' = [c \in Codes |-> "Flat"]
    /\ manual' = [c \in Codes |-> FALSE]
    /\ mem' = [c \in Codes |-> NewMem]
    /\ UNCHANGED <<row, acct, orders>>

-----------------------------------------------------------------------------
\* check_and_restore_position.

\* The manual end of a restore path, with position q and row r.
RestoreManual(c, q, r) ==
    /\ ToManual(c, "wait", r)
    /\ Mem(c, [mem[c] EXCEPT !.pos = q, !.stop = TRUE])
    /\ UNCHANGED <<acct, Counters>>

\* A restore path that ends flat: the row is deleted, the lock is l.
RestoreFlat(c, l) ==
    /\ WriteRow(c, NoRow) /\ lock' = l
    /\ Goto(c, "wait")
    /\ UNCHANGED <<exec, manual, mem, acct, Counters>>

RestoreStep(c, next) ==
    /\ Goto(c, next)
    /\ UNCHANGED <<lock, exec, manual, mem, row, acct, Counters>>

\* safe_orphan_cleanup: no row, or the row cannot be read; balance first.
RestoreOrphan(c) ==
    /\ pc[c] = "restore"
    /\ row[c].st = "none" \/ MayFail("db")
    /\ \/ acct[c].hold = 0 /\ RestoreStep(c, "orphanCancel")
       \/ (acct[c].hold > 0 \/ MayFail("query")) /\ RestoreManual(c, 0, row[c])

\* cancel_all_pending_orders lists the live orders of the code, which may fail, and
\* cancels each on its own: what is left is that of the cancels that failed.  There
\* is one entry order; stray and tpq may be several orders.
CancelAll(c) ==
    \/ \E buy \in {0, acct[c].buy}, stray \in 0..acct[c].stray, tpq \in 0..acct[c].tpq :
         /\ buy + stray + tpq > 0 => MayFail("cancel")
         /\ Acct(c, [acct[c] EXCEPT !.buy = buy, !.stray = stray, !.tpq = tpq])
    \/ MayFail("query") /\ UNCHANGED acct

OrphanCancel(c) ==
    /\ pc[c] = "orphanCancel"
    /\ CancelAll(c)
    /\ Goto(c, "wait")
    /\ UNCHANGED <<lock, exec, manual, mem, row, Counters>>

\* restore_exit_pending_state: flat on 0 holdings, manual otherwise or unknown.
RestoreExit(c) ==
    /\ pc[c] = "restore" /\ row[c].st = "exit_pending"
    /\ \/ acct[c].hold = 0 /\ RestoreFlat(c, FreedByRestore(c))
       \/ acct[c].hold > 0 /\ RestoreManual(c, acct[c].hold, row[c])
       \/ MayFail("query") /\ RestoreManual(c, row[c].qty, row[c])

\* restore_entry_pending_as_manual: the row becomes that of the position held.
EntryAsManual(c) ==
    /\ acct[c].hold > 0
    /\ RestoreManual(c, acct[c].hold, SavedRow(c, "manual_intervention", acct[c].hold, FALSE))

\* restore_entry_pending_state: holdings, cancel, 2 s, holdings again.
RestoreEntry(c) ==
    /\ pc[c] = "restore" /\ row[c].st = "entry_pending"
    /\ \/ acct[c].hold = 0 /\ RestoreStep(c, "restoreCancel")
       \/ EntryAsManual(c)
       \/ MayFail("query") /\ RestoreManual(c, 0, row[c])

RestoreCancel(c) ==
    /\ pc[c] = "restoreCancel"
    /\ \/ /\ acct[c].buy > 0
          /\ Acct(c, [acct[c] EXCEPT !.buy = 0])
          /\ Goto(c, "restoreRecheck")
          /\ UNCHANGED <<lock, exec, manual, mem, row, Counters>>
       \/ (acct[c].buy = 0 \/ MayFail("cancel")) /\ RestoreManual(c, 0, row[c])

RestoreRecheck(c) ==
    /\ pc[c] = "restoreRecheck"
    /\ \/ acct[c].hold = 0 /\ RestoreFlat(c, Released(c))
       \/ EntryAsManual(c)
       \/ MayFail("query") /\ RestoreManual(c, 0, row[c])

\* An open or manual row: cancel the old take-profit order, if one is known.
RestoreOpen(c) ==
    /\ pc[c] = "restore" /\ row[c].st \in {"open", "manual_intervention"}
    /\ \/ ~row[c].tp /\ RestoreStep(c, "restoreTp")
       \/ /\ row[c].tp /\ acct[c].tpq > 0
          /\ Acct(c, [acct[c] EXCEPT !.tpq = 0])
          /\ Goto(c, "restoreTp")
          /\ UNCHANGED <<lock, exec, manual, mem, row, Counters>>
       \/ row[c].tp /\ (acct[c].tpq = 0 \/ MayFail("cancel")) /\ RestoreStep(c, "restoreStock")

\* The cancel failed: check_balance_has_stock, whose errors count as no stock.
RestoreStock(c) ==
    /\ pc[c] = "restoreStock"
    /\ \/ acct[c].hold > 0 /\ RestoreStep(c, "restoreTp")
       \/ (acct[c].hold = 0 \/ MayFail("query")) /\ RestoreFlat(c, FreedByRestore(c))

\* Mutant: shares that are already promised to another sell order are sold again.
MutPlaceTp(c, q, known) ==
    \/ known /\ Acct(c, [acct[c] EXCEPT !.tpq = @ + q, !.tpf = 0])
    \/ ~known /\ UNCHANGED acct

\* place_tp_limit_order: the broker takes it if the shares are free; known iff the
\* runner learns the order number.
PlaceTp(c, q, known) ==
    \/ /\ Sellable(c) >= q
       /\ known \/ MayFail("reply")
       /\ Acct(c, [acct[c] EXCEPT !.tpq = @ + q, !.tpf = 0])
    \/ ~known /\ UNCHANGED acct

\* Place a new take-profit order and take the row's position as it stands; a
\* manual row stops the runner, any other makes it Open without taking the lock.
RestoreTp(c) ==
    /\ pc[c] = "restoreTp"
    /\ \E known \in BOOLEAN :
         /\ PlaceTp(c, row[c].qty, known)
         /\ IF known THEN WriteRow(c, [row[c] EXCEPT !.tp = TRUE]) ELSE UNCHANGED row
         /\ Mem(c, [mem[c] EXCEPT !.pos = row[c].qty, !.tp = known,
                                   !.stop = @ \/ row[c].man])
    /\ Manual(c, manual[c] \/ row[c].man)
    /\ Exec(c, IF row[c].man THEN "ManualIntervention" ELSE "Open")
    /\ lock' = IF row[c].man THEN Lock("manual", c) ELSE lock
    /\ Goto(c, "wait")
    /\ UNCHANGED Counters

Restore(c) ==
    \/ RestoreOrphan(c) \/ OrphanCancel(c) \/ RestoreExit(c) \/ RestoreEntry(c)
    \/ RestoreCancel(c) \/ RestoreRecheck(c) \/ RestoreOpen(c) \/ RestoreStock(c) \/ RestoreTp(c)

-----------------------------------------------------------------------------
\* run: the waits before the loop, and the loop.

\* A stop before the session opens returns without closing a restored position.
WaitStopped(c) ==
    /\ pc[c] = "wait" /\ mem[c].stop
    /\ Goto(c, "off")
    /\ UNCHANGED <<lock, exec, manual, mem, row, acct, Counters>>

WaitOver(c) ==
    /\ pc[c] = "wait" /\ ~mem[c].stop
    /\ Goto(c, "loop")
    /\ UNCHANGED <<lock, exec, manual, mem, row, acct, Counters>>

\* Mutant: the actor is not told of the exit.
MutBeginExit(c) ==
    /\ mem[c].pos > 0 /\ ~mem[c].exiting
    /\ Mem(c, [mem[c] EXCEPT !.exiting = TRUE])
    /\ Goto(c, "exitCancel")
    /\ UNCHANGED <<lock, exec, manual, row, acct, Counters>>

\* close_position_market up to its first await.
BeginExit(c) ==
    /\ mem[c].pos > 0 /\ ~mem[c].exiting
    /\ Mem(c, [mem[c] EXCEPT !.exiting = TRUE])
    /\ Exec(c, After(exec[c], ExitRequested))
    /\ Goto(c, "exitCancel")
    /\ UNCHANGED <<lock, manual, row, acct, Counters>>

\* Stop loss, time stop, a take-profit hit without a take-profit order, the
\* force-exit time, or the leftover of an earlier day right after the open.
ManageClose(c) == pc[c] \in {"wait", "loop"} /\ ~mem[c].stop /\ BeginExit(c)

\* Mutant: a stopped runner waits until its position is gone.
MutLoopStop(c) ==
    /\ pc[c] = "loop" /\ mem[c].stop
    /\ \/ ~manual[c] /\ BeginExit(c)
       \/ /\ mem[c].pos = 0
          /\ Goto(c, "off")
          /\ UNCHANGED <<lock, exec, manual, mem, row, acct, Counters>>

\* classify_main_loop_stop: a manual runner keeps its position and its lock.
LoopStop(c) ==
    /\ pc[c] = "loop" /\ mem[c].stop
    /\ \/ ~manual[c] /\ BeginExit(c)
       \/ /\ manual[c] \/ mem[c].pos = 0 \/ mem[c].exiting
          /\ Goto(c, "off")
          /\ UNCHANGED <<lock, exec, manual, mem, row, acct, Counters>>

\* The entry cutoff, the force-exit time or a daily limit ends a flat runner.
LoopEnd(c) ==
    /\ pc[c] = "loop" /\ ~mem[c].stop /\ mem[c].pos = 0
    /\ Goto(c, "off")
    /\ UNCHANGED <<lock, exec, manual, mem, row, acct, Counters>>

Flat(c) == pc[c] = "loop" /\ ~mem[c].stop /\ mem[c].pos = 0

\* transition_to_degraded: a preflight gate failed; states in progress stay.
PollDegraded(c) ==
    /\ Flat(c) /\ ~manual[c]
    /\ exec[c] \in {"Flat", "SignalArmed", "Open"}
    /\ Exec(c, "Degraded")
    /\ UNCHANGED <<lock, pc, manual, mem, row, acct, Counters>>

\* clear_degraded_if_healthy, with no position.
Cleared(c) == IF exec[c] = "Degraded" /\ ~manual[c] THEN "Flat" ELSE exec[c]

\* A healthy poll that finds no signal.
PollIdle(c) ==
    /\ Flat(c) /\ Cleared(c) # exec[c]
    /\ Exec(c, Cleared(c))
    /\ UNCHANGED <<lock, pc, manual, mem, row, acct, Counters>>

\* A signal while the other code is Pending asks it to give way.
PollPreempt(c) ==
    /\ Flat(c)
    /\ lock.kind = "pending" /\ lock.code # c /\ ~lock.preempted
    /\ lock' = [lock EXCEPT !.preempted = TRUE]
    /\ Exec(c, Cleared(c))
    /\ UNCHANGED <<pc, manual, mem, row, acct, Counters>>

\* Mutant: a preempted lock is taken over before its owner has given up.
MutPollAcquire(c) ==
    /\ Flat(c)
    /\ lock.kind = "free" \/ lock.preempted
    /\ lock' = Lock("pending", c)
    /\ Exec(c, Cleared(c)) /\ Goto(c, "signal")
    /\ UNCHANGED <<manual, mem, row, acct, Counters>>

\* A signal while the lock is Free takes it; Held and ManualHeld block.
PollAcquire(c) ==
    /\ Flat(c)
    /\ lock.kind = "free"
    /\ lock' = Lock("pending", c)
    /\ Exec(c, Cleared(c)) /\ Goto(c, "signal")
    /\ UNCHANGED <<manual, mem, row, acct, Counters>>

-----------------------------------------------------------------------------
\* poll_and_enter after the lock, and execute_entry.

\* abort_entry: release the runner's own lock and go back to Flat.
Abort(c) ==
    /\ lock' = Released(c) /\ Exec(c, "Flat") /\ Goto(c, "loop")
    /\ Mem(c, [mem[c] EXCEPT !.filled = 0, !.base = 0, !.retried = FALSE])
    /\ UNCHANGED manual

\* VI halt, no price, or drift: before the signal is dispatched.
SignalAbort(c) == pc[c] = "signal" /\ Abort(c) /\ UNCHANGED <<row, acct, Counters>>

SignalArmed(c) ==
    /\ pc[c] = "signal"
    /\ Exec(c, After(exec[c], SignalTriggered)) /\ Goto(c, "armed")
    /\ UNCHANGED <<lock, manual, mem, row, acct, Counters>>

\* armed_wait_for_entry: Ready, or any other outcome.
ArmedAbort(c) == pc[c] = "armed" /\ Abort(c) /\ UNCHANGED <<row, acct, Counters>>

ArmedReady(c) ==
    /\ pc[c] = "armed" /\ Goto(c, "submit")
    /\ UNCHANGED <<lock, exec, manual, mem, row, acct, Counters>>

\* execute_entry failed before an order was accepted: a retryable error is
\* tried once more, every other one gives the lock back.
EntryFailed(c) ==
    \/ Abort(c)
    \/ /\ ~mem[c].retried
       /\ Mem(c, [mem[c] EXCEPT !.retried = TRUE, !.base = 0])
       /\ Goto(c, "submit")
       /\ UNCHANGED <<lock, exec, manual>>

\* The gate, the entry deadline, price, cash and balance checks refuse.
SubmitRefused(c) == pc[c] = "submit" /\ EntryFailed(c) /\ UNCHANGED <<row, acct, Counters>>

\* Mutant: the trade gate is not asked.
MutSubmitReady(c) ==
    /\ pc[c] = "submit"
    /\ Mem(c, [mem[c] EXCEPT !.base = acct[c].hold])
    /\ Goto(c, "post")
    /\ UNCHANGED <<lock, exec, manual, row, acct, Counters>>

\* They let it through; holding_before is read.
SubmitReady(c) ==
    /\ pc[c] = "submit" /\ gate < MaxTrades
    /\ Mem(c, [mem[c] EXCEPT !.base = acct[c].hold])
    /\ Goto(c, "post")
    /\ UNCHANGED <<lock, exec, manual, row, acct, Counters>>

\* The order POST.  KisHttpClient.execute sends it up to three times when the
\* reply is missing, so lost orders that reached the broker become strays.
Lost(c, lost) == [acct[c] EXCEPT !.stray = @ + lost * Qty]

PostAccepted(c) ==
    /\ pc[c] = "post"
    /\ \E lost \in 0..2 :
         /\ lost > 0 => MayFail("reply")
         /\ orders + lost + 1 <= MaxOrders
         /\ orders' = orders + lost + 1
         /\ Acct(c, [Lost(c, lost) EXCEPT !.stray = @ + acct[c].buy, !.buy = Qty, !.bought = 0])
    /\ Exec(c, After(exec[c], EntryAccepted)) /\ Goto(c, "saveRow")
    /\ UNCHANGED <<lock, manual, mem, row, gate, crashes>>

\* Rejected, or no reply to the last attempt.
PostFailed(c) ==
    /\ pc[c] = "post"
    /\ \E lost \in 0..3 :
         /\ lost > 0 => MayFail("reply")
         /\ orders + lost <= MaxOrders
         /\ orders' = orders + lost
         /\ Acct(c, Lost(c, lost))
    /\ EntryFailed(c)
    /\ UNCHANGED <<row, gate, crashes>>

\* Mutant: a failed write of the row is only logged.
MutSaveRow(c) ==
    /\ pc[c] = "saveRow"
    /\ WriteRow(c, SavedRow(c, "entry_pending", Qty, FALSE))
    /\ Goto(c, "fillWait")
    /\ UNCHANGED <<lock, exec, manual, mem, acct, Counters>>

\* The entry_pending row, three tries; without it the runner goes manual.  The
\* repeat guard (track_order_and_guard_repeat) may stop the runner at its third order.
SaveRow(c) ==
    /\ pc[c] = "saveRow"
    /\ \/ /\ Row(c, SavedRow(c, "entry_pending", Qty, FALSE))
          /\ \E guard \in BOOLEAN : /\ guard => orders >= 3
                                  /\ Mem(c, [mem[c] EXCEPT !.stop = @ \/ guard])
          /\ Goto(c, "fillWait")
          /\ UNCHANGED <<lock, exec, manual>>
       \/ /\ MayFail("db")
          /\ ToManual(c, "loop", row[c])
          /\ Mem(c, [mem[c] EXCEPT !.stop = TRUE])
    /\ UNCHANGED <<acct, Counters>>

\* What a runner knows of an order that filled q shares after it inquired: q, or,
\* when the inquiry fails, the count of an earlier notice; and what one inquiry
\* answers: q or nothing.
Seen(q)     == IF MayFail("query") THEN 0..q ELSE {q}
Answered(q) == IF MayFail("query") THEN {0, q} ELSE {q}

\* The fill loop ends because a notice or an inquiry reports the whole order,
WaitFilled(c) ==
    /\ pc[c] = "fillWait" /\ acct[c].bought = Qty
    /\ Mem(c, [mem[c] EXCEPT !.filled = Qty])
    /\ Goto(c, "hold")
    /\ UNCHANGED <<lock, exec, manual, row, acct, Counters>>

\* because of a stop, a preemption or the 15:20 deadline, with the count of the
\* last notice or inquiry,
WaitBroken(c) ==
    /\ pc[c] = "fillWait"
    /\ \E q \in 0..acct[c].bought : q < Qty /\ Mem(c, [mem[c] EXCEPT !.filled = q])
    /\ Goto(c, "cancel")
    /\ UNCHANGED <<lock, exec, manual, row, acct, Counters>>

\* or because the fill timeout ran out: inquire once more, then compare the
\* holdings with holding_before.
Gained(c) == IF acct[c].hold > mem[c].base THEN Lesser(acct[c].hold - mem[c].base, Qty) ELSE 0

WaitTimedOut(c) ==
    /\ pc[c] = "fillWait"
    /\ \E q \in Seen(acct[c].bought), failed \in BOOLEAN :
         /\ failed => MayFail("query")
         /\ LET filled == IF q = 0 /\ ~failed THEN Gained(c) ELSE q
            IN  /\ Mem(c, [mem[c] EXCEPT !.filled = filled])
                /\ Goto(c, IF filled = Qty THEN "hold" ELSE "cancel")
                /\ Exec(c, IF filled = Qty THEN exec[c]
                           ELSE IF filled > 0 THEN "EntryPartial"
                           ELSE After(exec[c], Timeout("EntryFill")))
    /\ UNCHANGED <<lock, manual, row, acct, Counters>>

\* Cancel the rest: cancel_tp_order, and if that fails cancel_all_pending_orders,
\* whose failure is only logged.
CancelEntry(c) ==
    /\ pc[c] = "cancel"
    /\ \/ acct[c].buy > 0 /\ Acct(c, [acct[c] EXCEPT !.buy = 0])
       \/ (acct[c].buy = 0 \/ MayFail("cancel")) /\ CancelAll(c)
    /\ Goto(c, "verify")
    /\ UNCHANGED <<lock, exec, manual, mem, row, Counters>>

VerifyFilled(c, q) ==
    /\ Mem(c, [mem[c] EXCEPT !.filled = q])
    /\ Goto(c, "hold")
    /\ UNCHANGED <<lock, manual, row>>

VerifyNothing(c) ==
    \/ /\ Gained(c) > 0 /\ VerifyFilled(c, Gained(c))
       /\ Exec(c, IF Gained(c) < Qty THEN "EntryPartial" ELSE exec[c])
    \/ Gained(c) = 0 /\ Abort(c) /\ WriteRow(c, NoRow)
    \/ /\ MayFail("query") /\ ToManual(c, "loop", row[c])
       /\ Mem(c, [mem[c] EXCEPT !.stop = TRUE])

\* Mutant: no answer to the inquiry is taken as no fill.
MutVerifyCancel(c) ==
    /\ pc[c] = "verify"
    /\ \E q \in Answered(acct[c].bought) :
         LET filled == IF q > mem[c].filled THEN q ELSE mem[c].filled
         IN  IF filled > 0 THEN VerifyFilled(c, filled) /\ UNCHANGED exec
             ELSE Abort(c) /\ WriteRow(c, NoRow)
    /\ UNCHANGED <<acct, Counters>>

\* Inquire again; only if nothing filled, compare the holdings: a gain is a fill
\* after all, no gain gives the entry up, an unknown balance is manual.
VerifyCancel(c) ==
    /\ pc[c] = "verify"
    /\ \E q \in Answered(acct[c].bought) :
         LET filled == IF q > mem[c].filled THEN q ELSE mem[c].filled
         IN  IF filled > 0 THEN VerifyFilled(c, filled) /\ UNCHANGED exec
             ELSE VerifyNothing(c)
    /\ UNCHANGED <<acct, Counters>>

\* Mutant: a preempted lock is left as it is.
MutHoldLock(c) ==
    /\ pc[c] = "hold"
    /\ lock' = IF lock.preempted THEN lock ELSE Lock("held", c)
    /\ Goto(c, "placeTp")
    /\ UNCHANGED <<exec, manual, mem, row, acct, Counters>>

\* The entry is filled: the lock becomes Held, whatever it was.
HoldLock(c) ==
    /\ pc[c] = "hold"
    /\ lock' = Lock("held", c)
    /\ Goto(c, "placeTp")
    /\ UNCHANGED <<exec, manual, mem, row, acct, Counters>>

\* Mutant: the position takes the ordered quantity.
MutOpenPosition(c) ==
    /\ pc[c] = "placeTp"
    /\ \E known \in BOOLEAN :
         /\ PlaceTp(c, mem[c].filled, known)
         /\ Mem(c, [mem[c] EXCEPT !.pos = Qty, !.tp = known])
    /\ Goto(c, "saveOpen")
    /\ UNCHANGED <<lock, exec, manual, row, Counters>>

\* The take-profit order and the position in memory, of the shares that filled.
OpenPosition(c) ==
    /\ pc[c] = "placeTp"
    /\ \E known \in BOOLEAN :
         /\ PlaceTp(c, mem[c].filled, known)
         /\ Mem(c, [mem[c] EXCEPT !.pos = mem[c].filled, !.tp = known])
    /\ Goto(c, "saveOpen")
    /\ UNCHANGED <<lock, exec, manual, row, Counters>>

\* The open row, the trade gate, the execution state.
SaveOpen(c) ==
    /\ pc[c] = "saveOpen"
    /\ WriteRow(c, SavedRow(c, "open", mem[c].pos, mem[c].tp))
    /\ gate' = gate + 1
    /\ Exec(c, "Open") /\ Goto(c, "loop")
    /\ Mem(c, [mem[c] EXCEPT !.filled = 0, !.base = 0, !.retried = FALSE])
    /\ UNCHANGED <<lock, manual, acct, orders, crashes>>

Enter(c) ==
    \/ SignalAbort(c) \/ SignalArmed(c) \/ ArmedAbort(c) \/ ArmedReady(c)
    \/ SubmitRefused(c) \/ SubmitReady(c) \/ PostAccepted(c) \/ PostFailed(c)
    \/ SaveRow(c) \/ WaitFilled(c) \/ WaitBroken(c) \/ WaitTimedOut(c)
    \/ CancelEntry(c) \/ VerifyCancel(c) \/ HoldLock(c) \/ OpenPosition(c) \/ SaveOpen(c)

-----------------------------------------------------------------------------
\* Exits.

\* finalize_flat_transition.  A flat runner goes on polling, or its loop ends.
Finalize(c) ==
    /\ Mem(c, [mem[c] EXCEPT !.pos = 0, !.tp = FALSE, !.exiting = FALSE, !.rest = 0])
    /\ Exec(c, After(exec[c], Balance(0)))
    /\ WriteRow(c, NoRow)
    /\ lock' = Released(c)
    /\ \E next \in {"loop", "off"} : Goto(c, next)
    /\ UNCHANGED <<manual, acct, Counters>>

\* manage_position at the take-profit price: fetch_fill_detail reports q shares.
\* The notice it prefers counts one execution, so q may fall short of the total.
ManageTakeProfit(c) ==
    /\ pc[c] = "loop" /\ ~mem[c].stop /\ mem[c].pos > 0 /\ ~mem[c].exiting /\ mem[c].tp
    /\ \E q \in 1..acct[c].tpf :
         IF q >= mem[c].pos THEN Finalize(c)
         ELSE /\ Mem(c, [mem[c] EXCEPT !.exiting = TRUE, !.rest = mem[c].pos - q])
              /\ Exec(c, "ExitPartial") /\ Goto(c, "tpCancel")
              /\ UNCHANGED <<lock, manual, row, acct, Counters>>

\* Cancel the known take-profit order; a failure is only logged.
CancelTp(c, from, next) ==
    /\ pc[c] = from
    /\ \/ mem[c].tp /\ Acct(c, [acct[c] EXCEPT !.tpq = 0])
       \/ (~mem[c].tp \/ acct[c].tpq = 0 \/ MayFail("cancel")) /\ UNCHANGED acct
    /\ Goto(c, next)
    /\ UNCHANGED <<lock, exec, manual, mem, row, Counters>>

ExitCancel(c) == CancelTp(c, "exitCancel", "exitSubmit")
TpCancel(c)   == CancelTp(c, "tpCancel", "tpSell")

\* A market sell of q shares that the broker takes, with or without a reply.
Sells(c, q) == Sellable(c) >= q /\ Acct(c, [acct[c] EXCEPT !.mkt = @ + q])
SellsSilently(c, q) == UNCHANGED acct \/ (MayFail("reply") /\ Sells(c, q))

ExitManual(c, r, m) ==
    /\ ToManual(c, "loop", r)
    /\ Mem(c, [m EXCEPT !.stop = TRUE, !.rest = 0])
    /\ UNCHANGED Counters

\* Mutant: a refused market order leaves the runner with exit_pending set.
MutExitSubmit(c) ==
    /\ pc[c] = "exitSubmit"
    /\ \/ Sells(c, mem[c].pos) /\ Goto(c, "exitMark")
       \/ SellsSilently(c, mem[c].pos) /\ Goto(c, "loop")
    /\ UNCHANGED <<lock, exec, manual, mem, row, Counters>>

\* The market order of close_position_market.  When it is refused or its reply
\* is lost, the take-profit order is already gone: manual, exit_pending cleared.
ExitSubmit(c) ==
    /\ pc[c] = "exitSubmit"
    /\ \/ /\ Sells(c, mem[c].pos) /\ Goto(c, "exitMark")
          /\ UNCHANGED <<lock, exec, manual, mem, row, Counters>>
       \/ /\ SellsSilently(c, mem[c].pos)
          /\ ExitManual(c, [row[c] EXCEPT !.tp = FALSE],
                           [mem[c] EXCEPT !.exiting = FALSE, !.tp = FALSE])

\* mark_active_position_exit_pending.
Mark(c, from, next) ==
    /\ pc[c] = from
    /\ WriteRow(c, MarkedRow(c, "exit_pending"))
    /\ Goto(c, next)
    /\ UNCHANGED <<lock, exec, manual, mem, acct, Counters>>

ExitMark(c) == Mark(c, "exitMark", "exitVerify")
TpMark(c)   == Mark(c, "tpMark", "reverify")

\* verify_exit_completion_with_actor_timeout ran out of time: the actor decides,
\* and only its EnterManualIntervention command makes the runner manual.  (The stop
\* and best price that command saves first are columns this row does not have.)
VerifyTimeout(c) ==
    /\ pc[c] \in {"exitVerify", "reverify"}
    /\ IF "EnterManualIntervention" \in CmdsOf(exec[c], Timeout("ExitFill"))
       THEN ExitManual(c, row[c], mem[c])
       ELSE /\ Exec(c, After(exec[c], Timeout("ExitFill"))) /\ Goto(c, "loop")
            /\ UNCHANGED <<lock, manual, mem, row, Counters>>
    /\ UNCHANGED acct

\* Mutant: an unanswered balance inquiry counts as no holdings, as in the restore.
MutExitVerify(c) ==
    /\ pc[c] = "exitVerify"
    /\ acct[c].hold = 0 \/ MayFail("query")
    /\ Finalize(c)

\* The holdings decide: 0 is flat, some are sold once more (handle_exit_remaining),
\* unknown is manual.
ExitVerify(c) ==
    /\ pc[c] = "exitVerify"
    /\ \/ acct[c].hold = 0 /\ Finalize(c)
       \/ /\ acct[c].hold > 0
          /\ Mem(c, [mem[c] EXCEPT !.rest = acct[c].hold])
          /\ Exec(c, "ExitPartial") /\ Goto(c, "exitRetry")
          /\ UNCHANGED <<lock, manual, row, acct, Counters>>
       \/ MayFail("query") /\ ExitManual(c, row[c], mem[c]) /\ UNCHANGED acct

\* place_market_sell of the rest, after a first sell or after a partial take-profit.
SellRest(c, from, next) ==
    /\ pc[c] = from
    /\ \/ /\ Sells(c, mem[c].rest) /\ Goto(c, next)
          /\ UNCHANGED <<lock, exec, manual, mem, row, Counters>>
       \/ SellsSilently(c, mem[c].rest) /\ ExitManual(c, row[c], mem[c])

ExitRetry(c) == SellRest(c, "exitRetry", "reverify")
TpSell(c)    == SellRest(c, "tpSell", "tpMark")

\* The second verification has no further try: flat on 0 holdings, else manual.
ExitReverify(c) ==
    /\ pc[c] = "reverify"
    /\ \/ acct[c].hold = 0 /\ Finalize(c)
       \/ /\ acct[c].hold > 0 \/ MayFail("query")
          /\ ExitManual(c, row[c], mem[c]) /\ UNCHANGED acct

Exit(c) ==
    \/ ExitCancel(c) \/ TpCancel(c) \/ ExitSubmit(c) \/ ExitMark(c) \/ TpMark(c)
    \/ VerifyTimeout(c) \/ ExitVerify(c) \/ ExitRetry(c) \/ TpSell(c) \/ ExitReverify(c)

-----------------------------------------------------------------------------
\* The broker: live orders fill one share at a time.

Filled(c, a) ==
    /\ Acct(c, a)
    /\ UNCHANGED <<lock, pc, exec, manual, mem, row, Counters>>

FillEntry(c) ==
    /\ acct[c].buy > 0
    /\ Filled(c, [acct[c] EXCEPT !.buy = @ - 1, !.bought = @ + 1, !.hold = @ + 1])

FillStray(c) ==
    /\ acct[c].stray > 0
    /\ Filled(c, [acct[c] EXCEPT !.stray = @ - 1, !.hold = @ + 1])

FillTp(c) ==
    /\ acct[c].tpq > 0
    /\ Filled(c, [acct[c] EXCEPT !.tpq = @ - 1, !.tpf = @ + 1, !.hold = @ - 1])

FillMarket(c) ==
    /\ acct[c].mkt > 0
    /\ Filled(c, [acct[c] EXCEPT !.mkt = @ - 1, !.hold = @ - 1])

Broker(c) == FillEntry(c) \/ FillStray(c) \/ FillTp(c) \/ FillMarket(c)

-----------------------------------------------------------------------------
Loop(c) ==
    \/ WaitStopped(c) \/ WaitOver(c) \/ LoopStop(c) \/ LoopEnd(c)
    \/ PollDegraded(c) \/ PollIdle(c) \/ PollPreempt(c) \/ PollAcquire(c)
    \/ ManageClose(c) \/ ManageTakeProfit(c)

Next ==
    \/ Crash
    \/ \E c \in Codes : Start(c) \/ Stop(c) \/ Restore(c) \/ Loop(c) \/ Enter(c)
                        \/ Exit(c) \/ Broker(c)

Spec == Init /\ [][Next]_vars

\* A task that is not waiting for the market goes on: every await inside a
\* restore, an entry or an exit has a timeout, and a stop wakes the waits.
Progress(c) == Restore(c) \/ Enter(c) \/ Exit(c) \/ LoopStop(c) \/ WaitStopped(c)

FairSpec == Spec /\ \A c \in Codes : WF_vars(Progress(c))

-----------------------------------------------------------------------------
\* Properties.

LockType == [kind : LockKinds, code : Codes \cup {NoCode}, preempted : BOOLEAN]
MemType  == [pos : Nat, tp : BOOLEAN, exiting : BOOLEAN, stop : BOOLEAN,
             filled : Nat, base : Nat, rest : Nat, retried : BOOLEAN]
RowType  == [st : {"none", "entry_pending", "open", "exit_pending", "manual_intervention"},
             man : BOOLEAN, qty : Nat, tp : BOOLEAN]
AcctType == [hold : Nat, buy : Nat, bought : Nat, stray : Nat, tpq : Nat, tpf : Nat, mkt : Nat]

\* Quantities never go below zero: no sell order, filled or live, exceeds the holdings
\* it sells, and no count that a runner derives from the account is negative.
TypeOK ==
    /\ lock \in LockType
    /\ pc \in [Codes -> Pcs]
    /\ exec \in [Codes -> ExecStates]
    /\ manual \in [Codes -> BOOLEAN]
    /\ mem \in [Codes -> MemType]
    /\ row \in [Codes -> RowType]
    /\ acct \in [Codes -> AcctType]
    /\ gate \in Nat /\ orders \in Nat /\ crashes \in Nat

\* The entry, from taking the lock to the counted trade, is a critical section of
\* the two tasks, whatever fails: poll_and_enter, execute_entry and the lock.
InEntry(c) == pc[c] \in EntryPcs \cup OpenPcs
EntryExclusive == \A a, b \in Codes : InEntry(a) /\ InEntry(b) => a = b

\* The purpose of the lock: the account never holds, or is buying, both ETFs.
Exposed(c) == acct[c].hold > 0 \/ acct[c].buy > 0 \/ acct[c].stray > 0
SingleExposure == \A a, b \in Codes : Exposed(a) /\ Exposed(b) => a = b

\* The lock and the gate implement one trade slot with a daily budget.
SlotOwner == IF \E c \in Codes : InEntry(c) THEN CHOOSE c \in Codes : InEntry(c) ELSE NoCode
Slot == INSTANCE TradeSlot WITH owner <- SlotOwner, trades <- gate
ImplementsTradeSlot == Slot!Spec

\* A position in memory is covered by the lock: no other runner can enter.
PositionLocked ==
    \A c \in Codes : mem[c].pos > 0 /\ pc[c] # "off" =>
        lock.kind \in {"held", "manual"} /\ lock.code = c

\* A runner that looks for signals has nothing at the broker.
FlatIsFlat == \A c \in Codes : Flat(c) /\ ~manual[c] => ~Exposed(c)

\* A running task drops a position only when the broker holds nothing of it.
DropOnlyWhenSold ==
    [][\A c \in Codes : mem[c].pos > 0 /\ mem'[c].pos = 0 /\ pc[c] # "off" /\ ~Crash
            => acct[c].hold = 0]_vars

\* No runner is left in its loop with exit_pending set: manage_position would
\* skip the position for ever.
NoStrandedExit ==
    \A c \in Codes : mem[c].exiting /\ pc[c] \in {"wait", "loop", "off"} => manual[c]

\* While an exit is verified the actor's state is one whose timeout is manual.
ExitTimeoutEscalates ==
    \A c \in Codes : pc[c] \in {"exitVerify", "reverify"} =>
        "EnterManualIntervention" \in CmdsOf(exec[c], Timeout("ExitFill"))

\* The daily gate is never passed.
GateRespected == gate <= MaxTrades

\* Whatever the account holds or is buying has a row to recover it from, unless
\* an operator was called; the window between the order and its row is known.
Recoverable ==
    \A c \in Codes : Exposed(c) /\ ~manual[c] /\ pc[c] # "saveRow" => row[c].st # "none"

\* The position a runner manages is what the account still holds of it, with the fills
\* of the take-profit order it knows (plan, invariant 5: a mismatch calls the operator).
PositionMatches ==
    \A c \in Codes : pc[c] = "loop" /\ mem[c].pos > 0 /\ ~mem[c].exiting /\ ~manual[c] =>
        mem[c].pos = acct[c].hold + (IF mem[c].tp THEN acct[c].tpf ELSE 0)

\* The row of a position goes only when the account holds none of it.
RowKeptWhileHeld ==
    [][\A c \in Codes : row[c].st # "none" /\ row'[c].st = "none" => acct[c].hold = 0]_vars

\* Whatever fails, a ManualHeld lock is never given back and no poll takes it: while the
\* process lives it goes only to another code, by the fill of an entry that was under way
\* before it or by the restore of a row that is manual itself.
Overtakes(c) == \/ pc[c] = "hold" /\ lock' = Lock("held", c)
                \/ pc[c] = "restoreTp" /\ row[c].man /\ lock' = Lock("manual", c)
ManualHeldStays ==
    [][lock.kind = "manual" /\ ~Crash =>
         \/ lock'.kind = "manual" /\ lock'.code = lock.code
         \/ \E c \in Codes \ {lock.code} : Overtakes(c)]_vars

\* An exit ends flat or with an operator called.
ExitResolves == \A c \in Codes : mem[c].exiting ~> (~mem[c].exiting \/ manual[c])

\* A stopped runner ends.
StopEnds == \A c \in Codes : (mem[c].stop /\ pc[c] # "off") ~> pc[c] = "off"

\* A pending lock is given up or becomes a position.
PendingResolves ==
    \A c \in Codes : (lock.kind = "pending" /\ lock.code = c)
                        ~> ~(lock.kind = "pending" /\ lock.code = c)
=============================================================================
