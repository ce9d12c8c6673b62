--------------------------- MODULE ExecutionActor ---------------------------
(***************************************************************************)
(* The execution state machine of one stock: the pure rule table           *)
(* apply_execution_event, the shadow check is_actor_allowed_transition and  *)
(* the timeout table next_timeout_for (src/strategy/execution_actor.rs).    *)
(*                                                                         *)
(* A rule is a record [to, cmds]; Apply returns the set of the rules that   *)
(* fit, and the empty set is the code's Err(InvalidTransition).             *)
(***************************************************************************)
EXTENDS Naturals

ExecStates == {"Flat", "SignalArmed", "EntryPending", "EntryPartial", "Open",
               "ExitPending", "ExitPartial", "ManualIntervention", "Degraded"}

TimeoutPhases == {"EntrySubmit", "EntryFill", "ExitFill"}

Commands == {"SubmitExitOrder", "CancelOrder", "ReconcileBalance",
             "EnterManualIntervention", "PersistState"}

\* The events.  qty is the filled, final or held quantity the event carries.
Event(k, q, t, p) == [kind |-> k, qty |-> q, target |-> t, phase |-> p]
Plain(kind)      == Event(kind, 0, 0, "none")
SignalTriggered  == Plain("SignalTriggered")
EntryAccepted    == Plain("EntryOrderAccepted")
ExitRequested    == Plain("ExitRequested")
ExitAccepted     == Plain("ExitOrderAccepted")
ManualRequired   == Plain("ManualInterventionRequired")
Notice(q, t)     == Event("ExecutionNoticeReceived", q, t, "none")
Query(q, t)      == Event("ExecutionQueryResolved", q, t, "none")
Balance(q)       == Event("BalanceReconciled", q, 0, "none")
Timeout(p)       == Event("TimeoutExpired", 0, 0, p)

\* Every event that carries a quantity of at most `max'.
EventsUpTo(max) ==
    {SignalTriggered, EntryAccepted, ExitRequested, ExitAccepted, ManualRequired}
    \cup {Timeout(p) : p \in TimeoutPhases}
    \cup {Balance(q) : q \in 0..max}
    \cup {Notice(q, t) : q \in 0..max, t \in 1..max}
    \cup {Query(q, t) : q \in 0..max, t \in 1..max}

Go(s, cmds) == {[to |-> s, cmds |-> cmds]}
Invalid     == {}
GoManual    == Go("ManualIntervention", {"EnterManualIntervention", "PersistState"})
GoOpen      == Go("Open", {"PersistState"})

\* Mutants of the rules below: what a plausible slip in the table would do.
\* A full sell fill taken as the end of the position, without asking the balance.
MutExitPendingEager(e) ==
    CASE e.kind = "ExecutionNoticeReceived" /\ e.qty >= e.target -> Go("Flat", {"PersistState"})
      [] e.kind = "BalanceReconciled" -> Go(IF e.qty = 0 THEN "Flat" ELSE "ExitPartial", {})
      [] e = Timeout("ExitFill") -> GoManual
      [] OTHER -> Invalid
\* The timeout rule of ExitPartial forgotten.
MutExitPartialNoTimeout(e) ==
    IF e.kind = "BalanceReconciled"
    THEN Go(IF e.qty = 0 THEN "Flat" ELSE "ExitPartial", {}) ELSE Invalid
\* A balance answer opens the position whatever it holds.
MutEntryPendingBalance(e) ==
    CASE e.kind = "BalanceReconciled" -> GoOpen
      [] e = Timeout("EntryFill") -> Go("Flat", {"CancelOrder", "ReconcileBalance"})
      [] OTHER -> Invalid

FromFlat(e) ==
    IF e = SignalTriggered THEN Go("SignalArmed", {}) ELSE Invalid

FromSignalArmed(e) ==
    CASE e = EntryAccepted          -> Go("EntryPending", {"PersistState"})
      [] e = Timeout("EntrySubmit") -> Go("Flat", {})
      [] OTHER                      -> Invalid

FromEntryPending(e) ==
    CASE e.kind = "ExecutionNoticeReceived" ->
           IF e.qty = 0 THEN Go("EntryPending", {})
           ELSE IF e.qty >= e.target THEN GoOpen ELSE Go("EntryPartial", {})
      [] e.kind = "ExecutionQueryResolved" ->
           IF e.qty >= e.target THEN GoOpen
           ELSE IF e.qty = 0 THEN Go("Flat", {}) ELSE Go("EntryPartial", {})
      [] e.kind = "BalanceReconciled" ->
           IF e.qty > 0 THEN GoOpen ELSE Go("EntryPending", {})
      [] e = Timeout("EntryFill") -> Go("Flat", {"CancelOrder", "ReconcileBalance"})
      [] OTHER -> Invalid

FromEntryPartial(e) ==
    CASE e.kind = "ExecutionNoticeReceived" ->
           IF e.qty >= e.target THEN GoOpen ELSE Go("EntryPartial", {})
      [] e.kind = "BalanceReconciled" ->
           IF e.qty > 0 THEN GoOpen ELSE Go("EntryPartial", {})
      [] e = Timeout("EntryFill") -> GoManual
      [] OTHER -> Invalid

FromOpen(e) ==
    IF e = ExitRequested THEN Go("ExitPending", {"SubmitExitOrder"}) ELSE Invalid

FromExitPending(e) ==
    CASE e = ExitAccepted -> Go("ExitPending", {})
      [] e.kind = "ExecutionNoticeReceived" ->
           IF e.qty >= e.target THEN Go("ExitPending", {"ReconcileBalance"})
           ELSE Go(IF e.qty > 0 THEN "ExitPartial" ELSE "ExitPending", {})
      [] e.kind = "BalanceReconciled" ->
           IF e.qty = 0 THEN Go("Flat", {"PersistState"}) ELSE Go("ExitPartial", {})
      [] e = Timeout("ExitFill") -> GoManual
      [] OTHER -> Invalid

FromExitPartial(e) ==
    CASE e.kind = "BalanceReconciled" ->
           IF e.qty = 0 THEN Go("Flat", {"PersistState"}) ELSE Go("ExitPartial", {})
      [] e = Timeout("ExitFill") -> GoManual
      [] OTHER -> Invalid

FromDegraded(e) ==
    IF e = SignalTriggered THEN Go("Degraded", {}) ELSE Invalid

\* ManualIntervention absorbs every event; every other state accepts a manual
\* request; the rest is the state's own rules.
Apply(s, e) ==
    CASE s = "ManualIntervention" -> Go(s, {})
      [] s # "ManualIntervention" /\ e = ManualRequired -> GoManual
      [] OTHER ->
           CASE s = "Flat"         -> FromFlat(e)
             [] s = "SignalArmed"  -> FromSignalArmed(e)
             [] s = "EntryPending" -> FromEntryPending(e)
             [] s = "EntryPartial" -> FromEntryPartial(e)
             [] s = "Open"         -> FromOpen(e)
             [] s = "ExitPending"  -> FromExitPending(e)
             [] s = "ExitPartial"  -> FromExitPartial(e)
             [] s = "Degraded"     -> FromDegraded(e)

\* Mutant: the sample with a partial fill left out of the list.
MutShadowSamples ==
    {SignalTriggered, EntryAccepted, ExitRequested, ExitAccepted, ManualRequired,
     Notice(10, 10), Notice(0, 10), Query(10, 10), Query(0, 10), Balance(5), Balance(0)}
    \cup {Timeout(p) : p \in TimeoutPhases}

\* The fifteen sample events of the shadow check.
ShadowSamples ==
    {SignalTriggered, EntryAccepted, ExitRequested, ExitAccepted, ManualRequired,
     Notice(10, 10), Notice(3, 10), Notice(0, 10), Query(10, 10), Query(0, 10),
     Balance(5), Balance(0)}
    \cup {Timeout(p) : p \in TimeoutPhases}

Explained(prev, new) == \E e \in ShadowSamples : \E r \in Apply(prev, e) : r.to = new

ActorAllows(prev, new) ==
    \/ prev = new
    \/ prev = "Degraded" /\ new \in {"Open", "Flat", "SignalArmed"}
    \/ prev \in {"Flat", "SignalArmed", "Open"} /\ new = "Degraded"
    \/ prev = "Flat" /\ new = "EntryPartial"
    \/ Explained(prev, new)

\* The phase whose timeout runs in a state; "none" where next_timeout_for is None.
NextTimeoutFor(s) ==
    CASE s = "SignalArmed"                     -> "EntrySubmit"
      [] s \in {"EntryPending", "EntryPartial"} -> "EntryFill"
      [] s \in {"ExitPending", "ExitPartial"}   -> "ExitFill"
      [] OTHER                                  -> "none"

\* What a caller that dispatches e in state s ends up in: an invalid
\* transition is logged and leaves the state alone (dispatch_execution_event).
After(s, e)  == IF Apply(s, e) = {} THEN s ELSE (CHOOSE r \in Apply(s, e) : TRUE).to
CmdsOf(s, e) == IF Apply(s, e) = {} THEN {} ELSE (CHOOSE r \in Apply(s, e) : TRUE).cmds
=============================================================================
