--------------------------- MODULE Reconciliation ---------------------------
(***************************************************************************)
(* The reconciliation of StrategyManager (src/presentation/routes/          *)
(* strategy.rs) beside the live runners: once a minute it compares the      *)
(* quantity each runner manages with the holdings the broker reports,       *)
(* confirms a difference, and makes a runner that still differs manual.     *)
(*                                                                         *)
(* It reads the runner once, before the inquiries of the confirmation, and  *)
(* acts on that reading after them; the runner goes on in the meantime.     *)
(***************************************************************************)
EXTENDS LiveRunner

CONSTANT Attempts   \* reconcile_confirm_attempts

ASSUME AttemptsAssumption == Attempts \in Nat \ {0}

VARIABLES
    check,    \* reconcile_once in progress
    streak    \* reconcile_inconclusive_streaks of each code

rvars == <<vars, check, streak>>

Limit == 3  \* consecutive checks without an answer that call the operator

\* at: the next await of reconcile_once; left: runners of the snapshot still to
\* check; kis: the holdings of the first inquiry; code, own: the runner under
\* check and its quantity as read; tries: inquiries left; seen: the last quantity
\* that a confirmation answered, if any did.
NoCheck == [at |-> "idle", left |-> {}, kis |-> [c \in Codes |-> 0],
            code |-> NoCode, own |-> 0, tries |-> 0, seen |-> {}]

RInit ==
    /\ Init
    /\ check = NoCheck
    /\ streak = [c \in Codes |-> 0]

-----------------------------------------------------------------------------
Running == {c \in Codes : pc[c] # "off"}

\* Code c is dealt with: the next runner of the snapshot, or the end of the check.
Done(c) ==
    check' = IF check.left \subseteq {c} THEN NoCheck
             ELSE [NoCheck EXCEPT !.at = "compare", !.left = check.left \ {c}, !.kis = check.kis]

Streak(c, n) == streak' = [streak EXCEPT ![c] = n]

\* The first inquiry, for all codes at once, and the snapshot of the runners.  A
\* check whose first inquiry fails does nothing.
Fetch ==
    /\ check.at = "idle" /\ Running # {}
    /\ check' = [check EXCEPT !.at = "compare", !.left = Running,
                              !.kis = [c \in Codes |-> acct[c].hold]]
    /\ UNCHANGED <<vars, streak>>

\* A manual runner is skipped, and one whose lock says that an entry is under way
\* or the operator has it (should_skip_reconcile_for_lock).
Skipped(c) == manual[c] \/ (lock.kind \in {"pending", "manual"} /\ lock.code = c)

Differs(c) ==
    /\ check' = [check EXCEPT !.at = "confirm", !.code = c, !.own = mem[c].pos,
                              !.tries = Attempts]
    /\ UNCHANGED streak

\* The one reading of the runner.  A runner that became flat less than ten seconds
\* ago is let off before the lock is looked at; one that agrees with the first
\* inquiry is let off too.
Compare(c) ==
    /\ check.at = "compare" /\ c \in check.left
    /\ \/ Skipped(c) /\ Done(c) /\ UNCHANGED streak
       \/ /\ ~manual[c] /\ exec[c] = "Flat"
          /\ Done(c) /\ Streak(c, 0)
       \/ /\ ~Skipped(c) /\ mem[c].pos = check.kis[c]
          /\ Done(c) /\ Streak(c, 0)
       \/ /\ ~Skipped(c) /\ mem[c].pos # check.kis[c]
          /\ Differs(c)
    /\ UNCHANGED vars

\* Mutant: the third check in a row without an answer does not count as the third.
MutLimit(c, seen) ==
    IF seen # {} \/ streak[c] + 1 > Limit
    THEN /\ check' = [check EXCEPT !.at = "flag", !.tries = 0, !.seen = seen]
         /\ Streak(c, 0)
    ELSE Done(c) /\ Streak(c, streak[c] + 1)

\* Mutant: a check without an answer does not count.
MutVerdict(c, seen) ==
    IF seen # {}
    THEN /\ check' = [check EXCEPT !.at = "flag", !.tries = 0, !.seen = seen]
         /\ Streak(c, 0)
    ELSE Done(c) /\ Streak(c, 0)

\* The last inquiry is over without agreement, seen being what was answered: a
\* mismatch; or nothing was answered, and that for the third time in a row.
Verdict(c, seen) ==
    IF seen # {} \/ streak[c] + 1 >= Limit
    THEN /\ check' = [check EXCEPT !.at = "flag", !.tries = 0, !.seen = seen]
         /\ Streak(c, 0)
    ELSE Done(c) /\ Streak(c, streak[c] + 1)

Inquired(c, seen) ==
    IF check.tries > 1
    THEN /\ check' = [check EXCEPT !.tries = @ - 1, !.seen = seen]
         /\ UNCHANGED streak
    ELSE Verdict(c, seen)

\* confirm_reconcile_qty_with: the holdings agree with the reading, or they do
\* not, or the inquiry fails.
Confirm(c) ==
    /\ check.at = "confirm" /\ check.code = c
    /\ \/ acct[c].hold = check.own /\ Done(c) /\ Streak(c, 0)
       \/ acct[c].hold # check.own /\ Inquired(c, {acct[c].hold})
       \/ MayFail("query") /\ Inquired(c, check.seen)
    /\ UNCHANGED vars

\* enter_manual_intervention_state: the state of the runner first,
Flag(c) ==
    /\ check.at = "flag" /\ check.code = c
    /\ Manual(c, TRUE) /\ Exec(c, "ManualIntervention")
    /\ check' = [check EXCEPT !.at = "seize"]
    /\ UNCHANGED <<lock, pc, mem, row, acct, Counters, streak>>

\* Mutant: the stop flag is not set.
MutSeize(c) ==
    /\ check.at = "seize" /\ check.code = c
    /\ lock' = ManualLock(c)
    /\ check' = [check EXCEPT !.at = "persist"]
    /\ UNCHANGED <<pc, exec, manual, mem, row, acct, Counters, streak>>

\* then the lock and the stop flag,
Seize(c) ==
    /\ check.at = "seize" /\ check.code = c
    /\ lock' = ManualLock(c)
    /\ Mem(c, [mem[c] EXCEPT !.stop = TRUE])
    /\ check' = [check EXCEPT !.at = "persist"]
    /\ UNCHANGED <<pc, exec, manual, row, acct, Counters, streak>>

\* and persist_manual_flag_or_log last.
Persist(c) ==
    /\ check.at = "persist" /\ check.code = c
    /\ WriteRow(c, ManualRow(row[c]))
    /\ Done(c)
    /\ UNCHANGED <<lock, pc, exec, manual, mem, acct, Counters, streak>>

Reconcile ==
    Fetch \/ \E c \in Codes : Compare(c) \/ Confirm(c) \/ Flag(c) \/ Seize(c) \/ Persist(c)

-----------------------------------------------------------------------------
\* The runners go on at any time.  A code whose runner is being checked is not
\* started anew, so that the handle of the snapshot is that of its runner; a
\* crash ends the manager too and is left to LiveRunner.
Runners ==
    /\ \E c \in Codes : \/ Start(c) /\ check.code # c /\ c \notin check.left
                        \/ Stop(c) \/ Restore(c) \/ Loop(c) \/ Enter(c) \/ Exit(c) \/ Broker(c)
    /\ UNCHANGED <<check, streak>>

RNext == Reconcile \/ Runners

RSpec == RInit /\ [][RNext]_rvars

\* The check is a task of its own with a time limit on every inquiry; its weak
\* fairness says besides that the first inquiry does not fail for ever.
RFairSpec ==
    /\ RSpec
    /\ WF_rvars(Reconcile)
    /\ \A c \in Codes : WF_rvars(Progress(c) /\ UNCHANGED <<check, streak>>)

-----------------------------------------------------------------------------
\* Properties.

CheckType == [at : {"idle", "compare", "confirm", "flag", "seize", "persist"},
              left : SUBSET Codes, kis : [Codes -> Nat], code : Codes \cup {NoCode},
              own : Nat, tries : 0..Attempts, seen : SUBSET Nat]

\* Types, and a streak that reaches the limit has called the operator.
RTypeOK ==
    /\ TypeOK
    /\ check \in CheckType
    /\ streak \in [Codes -> 0..(Limit - 1)]

\* A position that does not match the account is not left to its runner for ever,
\* even if no confirmation is ever answered (reconcile_once).
Unmatched(c) ==
    /\ pc[c] = "loop" /\ mem[c].pos > 0 /\ mem[c].pos # acct[c].hold
    /\ ~mem[c].exiting /\ ~mem[c].stop /\ ~manual[c]
MismatchFound == \A c \in Codes : []<>~Unmatched(c)

\* A runner made manual ends, wherever in an entry or an exit the check found it.
ManualEnds == \A c \in Codes : manual[c] ~> pc[c] = "off"

\* A mismatch that stops a runner is one between what the runner and the account
\* have at that moment, not between the account and an earlier reading.
StoppedOnlyOnMismatch ==
    [][\A c \in Codes : check.at = "confirm" /\ check.code = c /\ check'.at = "flag"
            => mem[c].pos # acct[c].hold \/ check'.seen = {}]_rvars
=============================================================================
