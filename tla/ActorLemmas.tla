----------------------------- MODULE ActorLemmas -----------------------------
(***************************************************************************)
(* Facts about the rule table of ExecutionActor, for every event.           *)
(***************************************************************************)
EXTENDS ExecutionActor, TLAPS

\* Every rule leads to an execution state and issues known commands
\* (apply_execution_event returns an ExecutionState and ExecutionCommands).
LEMMA RulesTyped ==
    ASSUME NEW s \in ExecStates, NEW e
    PROVE  Apply(s, e) \subseteq [to : ExecStates, cmds : SUBSET Commands]
<1> DEFINE R == [to : ExecStates, cmds : SUBSET Commands]
<1>1. \A t \in ExecStates, C \in SUBSET Commands : Go(t, C) \subseteq R
    BY DEF Go
<1>2. Invalid \subseteq R /\ GoManual \subseteq R /\ GoOpen \subseteq R
    BY <1>1 DEF Invalid, GoManual, GoOpen, ExecStates, Commands
<1>3. /\ FromFlat(e) \subseteq R
      /\ FromSignalArmed(e) \subseteq R
      /\ FromOpen(e) \subseteq R
      /\ FromDegraded(e) \subseteq R
    BY <1>1, <1>2 DEF FromFlat, FromSignalArmed, FromOpen, FromDegraded, ExecStates, Commands
<1>4. FromEntryPending(e) \subseteq R /\ FromEntryPartial(e) \subseteq R
    BY <1>1, <1>2 DEF FromEntryPending, FromEntryPartial, ExecStates, Commands
<1>5. FromExitPending(e) \subseteq R /\ FromExitPartial(e) \subseteq R
    BY <1>1, <1>2 DEF FromExitPending, FromExitPartial, ExecStates, Commands
<1> HIDE DEF R
<1>6. Go(s, {}) \subseteq R
    BY <1>1
<1>7. Apply(s, e) \subseteq R
    BY <1>2, <1>3, <1>4, <1>5, <1>6 DEF Apply, ExecStates
<1> QED BY <1>7 DEF R

\* Dispatching an event never leaves the execution states.
LEMMA AfterTyped ==
    ASSUME NEW s \in ExecStates, NEW e
    PROVE  After(s, e) \in ExecStates
BY RulesTyped DEF After

\* Where one rule fits, a dispatch takes it.
LEMMA SingleRule ==
    ASSUME NEW s, NEW e, NEW r, Apply(s, e) = {r}
    PROVE  After(s, e) = r.to /\ CmdsOf(s, e) = r.cmds
<1>1. (CHOOSE x \in {r} : TRUE) = r
    <2>1. \E x \in {r} : TRUE
        OBVIOUS
    <2>2. (CHOOSE x \in {r} : TRUE) \in {r}
        BY <2>1, Zenon
    <2> QED BY <2>2
<1>2. Apply(s, e) # {}
    OBVIOUS
<1> QED BY <1>1, <1>2, Zenon DEF After, CmdsOf

\* A dispatch in s that fits the rules Go(t, C) ends in t and issues C.
LEMMA GoRule ==
    ASSUME NEW s, NEW e, NEW t, NEW C, Apply(s, e) = Go(t, C)
    PROVE  After(s, e) = t /\ CmdsOf(s, e) = C
<1> DEFINE r == [to |-> t, cmds |-> C]
<1>1. Apply(s, e) = {r}
    BY DEF Go
<1>2. r.to = t /\ r.cmds = C
    OBVIOUS
<1> HIDE DEF r
<1> QED BY <1>1, <1>2, SingleRule, Zenon

\* An exit that is requested while the actor is Open is pending.
LEMMA ExitRequestedRule == After("Open", ExitRequested) = "ExitPending"
<1>1. Apply("Open", ExitRequested) = Go("ExitPending", {"SubmitExitOrder"})
    BY DEF Apply, FromOpen, ExitRequested, ManualRequired, Plain, Event
<1> QED BY <1>1, GoRule

\* In both exit states the fill timeout calls for an operator.
LEMMA ExitTimeoutRule ==
    ASSUME NEW s \in {"ExitPending", "ExitPartial"}
    PROVE  "EnterManualIntervention" \in CmdsOf(s, Timeout("ExitFill"))
<1>1. Apply(s, Timeout("ExitFill")) = Go("ManualIntervention", {"EnterManualIntervention", "PersistState"})
    BY DEF Apply, FromExitPending, FromExitPartial, GoManual, Timeout, ManualRequired, ExitAccepted, Plain, Event
<1>2. CmdsOf(s, Timeout("ExitFill")) = {"EnterManualIntervention", "PersistState"}
    BY <1>1, GoRule
<1> QED BY <1>2
=============================================================================
