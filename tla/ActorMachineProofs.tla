-------------------------- MODULE ActorMachineProofs --------------------------
(***************************************************************************)
(* The promises of the rule table, for events of any quantity.              *)
(***************************************************************************)
EXTENDS ActorMachine, ActorLemmas

TypeInv == state \in ExecStates /\ prev \in ExecStates

\* The events that carry a quantity, and the kinds of those that do not.
LEMMA EventShapes ==
    ASSUME NEW e \in Events
    PROVE  \/ \E q \in Nat : e = Event("BalanceReconciled", q, 0, "none")
           \/ \E q \in Nat, t \in Nat \ {0} : e = Event("ExecutionNoticeReceived", q, t, "none")
           \/ \E q \in Nat, t \in Nat \ {0} : e = Event("ExecutionQueryResolved", q, t, "none")
           \/ \E k \in {"SignalTriggered", "EntryOrderAccepted", "ExitRequested",
                        "ExitOrderAccepted", "ManualInterventionRequired", "TimeoutExpired"},
                 p \in {"none", "EntrySubmit", "EntryFill", "ExitFill"} : e = Event(k, 0, 0, p)
<1>1. \A q : Balance(q) = Event("BalanceReconciled", q, 0, "none")
    BY DEF Balance, Plain, Event
<1>2. \A q, t : Notice(q, t) = Event("ExecutionNoticeReceived", q, t, "none")
    BY DEF Notice, Plain, Event
<1>3. \A q, t : Query(q, t) = Event("ExecutionQueryResolved", q, t, "none")
    BY DEF Query, Plain, Event
<1>4. \A p : Timeout(p) = Event("TimeoutExpired", 0, 0, p)
    BY DEF Timeout, Plain, Event
<1>5. /\ SignalTriggered = Event("SignalTriggered", 0, 0, "none")
      /\ EntryAccepted = Event("EntryOrderAccepted", 0, 0, "none")
      /\ ExitRequested = Event("ExitRequested", 0, 0, "none")
      /\ ExitAccepted = Event("ExitOrderAccepted", 0, 0, "none")
      /\ ManualRequired = Event("ManualInterventionRequired", 0, 0, "none")
    BY DEF SignalTriggered, EntryAccepted, ExitRequested, ExitAccepted, ManualRequired, Plain, Event
<1>6. \/ e \in {SignalTriggered, EntryAccepted, ExitRequested, ExitAccepted, ManualRequired}
      \/ \E p \in TimeoutPhases : e = Timeout(p)
      \/ \E q \in 0..MaxQty : e = Balance(q)
      \/ \E q \in 0..MaxQty, t \in 1..MaxQty : e = Notice(q, t) \/ e = Query(q, t)
    BY DEF Events, EventsUpTo
<1>7. 0..MaxQty \subseteq Nat /\ 1..MaxQty \subseteq Nat \ {0}
    BY MaxQtyAssumption
<1> QED BY <1>1, <1>2, <1>3, <1>4, <1>5, <1>6, <1>7 DEF TimeoutPhases

\* What one delivered event e does from state s.
LEMMA FlatNeedsBalance ==
    ASSUME NEW s \in {"Open", "ExitPending", "ExitPartial"}, NEW e \in Events,
           After(s, e) = "Flat"
    PROVE  e = Balance(0)
<1>1. s \in ExecStates
    BY DEF ExecStates
<1>2. PICK r \in Apply(s, e) : r.to = "Flat"
    BY <1>1 DEF After
<1>3. e.kind = "BalanceReconciled" /\ e.qty = 0
    BY <1>2 DEF Apply, FromOpen, FromExitPending, FromExitPartial, Go, GoManual, Invalid
<1>4. e = Event("BalanceReconciled", 0, 0, "none")
    BY <1>3, EventShapes DEF Event
<1> QED BY <1>4 DEF Balance, Plain, Event

\* The rule table raises an entry to Open on an event that carries a fill, never
\* otherwise.
LEMMA OpenNeedsFill ==
    ASSUME NEW s \in ExecStates \ {"Open", "ManualIntervention"}, NEW e \in Events,
           After(s, e) = "Open"
    PROVE  e.qty > 0
<1>1. PICK r \in Apply(s, e) : r.to = "Open"
    BY DEF After
<1>2. /\ e.target > 0 \/ e.kind \notin {"ExecutionNoticeReceived", "ExecutionQueryResolved"}
      /\ e.qty \in Nat /\ e.target \in Nat
    BY EventShapes DEF Event
<1> QED BY <1>1, <1>2 DEF Apply, FromFlat, FromSignalArmed, FromEntryPending, FromEntryPartial,
       FromExitPending, FromExitPartial, FromDegraded, Go, GoManual, GoOpen, Invalid, ExecStates

\* The machine keeps to the execution states, the events and the sample quantities.
LEMMA TypeCorrect == Spec => []TypeInv
<1>1. Init => TypeInv
    BY DEF Init, TypeInv, ExecStates
<1>2. TypeInv /\ [Next]_vars => TypeInv'
    BY AfterTyped DEF TypeInv, Next, TimerFires, Deliver, vars
<1> QED BY <1>1, <1>2, PTL DEF Spec

\* Whatever quantities the events carry, an exit becomes Flat only on a balance of 0.
THEOREM FlatSafe == Spec => []FlatOnlyOnZeroHoldings
<1>1. Init => FlatOnlyOnZeroHoldings
    BY DEF Init, FlatOnlyOnZeroHoldings
<1>2. TypeInv /\ FlatOnlyOnZeroHoldings /\ [Next]_vars => FlatOnlyOnZeroHoldings'
    <2> SUFFICES ASSUME TypeInv, FlatOnlyOnZeroHoldings, [Next]_vars
                 PROVE  FlatOnlyOnZeroHoldings'
        OBVIOUS
    <2>1. ASSUME NEW e \in Events, Deliver(e)
          PROVE  FlatOnlyOnZeroHoldings'
        BY <2>1, FlatNeedsBalance DEF Deliver, FlatOnlyOnZeroHoldings
    <2>2. CASE TimerFires
        <3>1. Timeout(NextTimeoutFor(state)) \in Events
            BY <2>2 DEF TimerFires, NextTimeoutFor, Events, EventsUpTo, TimeoutPhases
        <3> QED BY <2>1, <2>2, <3>1 DEF TimerFires
    <2>3. CASE UNCHANGED vars
        BY <2>3 DEF vars, FlatOnlyOnZeroHoldings
    <2> QED BY <2>1, <2>2, <2>3 DEF Next
<1> QED BY <1>1, <1>2, TypeCorrect, PTL DEF Spec

\* Whatever quantities the events carry, an entry becomes Open only on a fill.
THEOREM OpenSafe == Spec => []OpenOnlyOnFill
<1>1. Init => OpenOnlyOnFill
    BY DEF Init, OpenOnlyOnFill
<1>2. TypeInv /\ OpenOnlyOnFill /\ [Next]_vars => OpenOnlyOnFill'
    <2> SUFFICES ASSUME TypeInv, OpenOnlyOnFill, [Next]_vars
                 PROVE  OpenOnlyOnFill'
        OBVIOUS
    <2>1. ASSUME NEW e \in Events, Deliver(e)
          PROVE  OpenOnlyOnFill'
        BY <2>1, OpenNeedsFill DEF Deliver, OpenOnlyOnFill, TypeInv
    <2>2. CASE TimerFires
        <3>1. Timeout(NextTimeoutFor(state)) \in Events
            BY <2>2 DEF TimerFires, NextTimeoutFor, Events, EventsUpTo, TimeoutPhases
        <3> QED BY <2>1, <2>2, <3>1 DEF TimerFires
    <2>3. CASE UNCHANGED vars
        BY <2>3 DEF vars, OpenOnlyOnFill
    <2> QED BY <2>1, <2>2, <2>3 DEF Next
<1> QED BY <1>1, <1>2, TypeCorrect, PTL DEF Spec

\* The moves of the rule table that change the state.
Moves ==
    {<<"Flat", "SignalArmed">>, <<"SignalArmed", "EntryPending">>, <<"SignalArmed", "Flat">>,
     <<"EntryPending", "Open">>, <<"EntryPending", "EntryPartial">>, <<"EntryPending", "Flat">>,
     <<"EntryPartial", "Open">>, <<"Open", "ExitPending">>, <<"ExitPending", "ExitPartial">>,
     <<"ExitPending", "Flat">>, <<"ExitPartial", "Flat">>}

\* A dispatch that changes the state takes a rule of the table.
LEMMA AfterMoves ==
    ASSUME NEW s \in ExecStates, NEW e \in Events
    PROVE  After(s, e) = s \/ <<s, After(s, e)>> \in Moves
             \/ (s # "ManualIntervention" /\ After(s, e) = "ManualIntervention")
<1>1. CASE Apply(s, e) = {}
    BY <1>1 DEF After
<1>2. CASE Apply(s, e) # {}
    <2>1. PICK r \in Apply(s, e) : After(s, e) = r.to
        BY <1>2 DEF After
    <2> QED BY <2>1 DEF Apply, FromFlat, FromSignalArmed, FromEntryPending, FromEntryPartial,
           FromOpen, FromExitPending, FromExitPartial, FromDegraded, Go, GoManual, GoOpen, Invalid,
           ExecStates, Moves
<1> QED BY <1>1, <1>2

\* One of the fifteen samples explains each move.
LEMMA MovesExplained ==
    /\ \A m \in Moves : Explained(m[1], m[2])
    /\ \A s \in ExecStates \ {"ManualIntervention"} : Explained(s, "ManualIntervention")
<1> DEFINE Events2 == {SignalTriggered, EntryAccepted, ExitRequested, ManualRequired,
                      Notice(10, 10), Notice(3, 10), Query(0, 10), Balance(5), Balance(0),
                      Timeout("EntrySubmit")}
<1>1. ASSUME NEW s, NEW t, NEW e \in ShadowSamples, NEW C, Apply(s, e) = Go(t, C)
      PROVE  Explained(s, t)
    <2>1. [to |-> t, cmds |-> C] \in Apply(s, e)
        BY <1>1 DEF Go
    <2> QED BY <2>1 DEF Explained
<1>2. Events2 \subseteq ShadowSamples
    BY DEF ShadowSamples, TimeoutPhases
<1> HIDE DEF Events2
<1>3. /\ Apply("Flat", SignalTriggered) = Go("SignalArmed", {})
      /\ Apply("SignalArmed", EntryAccepted) = Go("EntryPending", {"PersistState"})
      /\ Apply("SignalArmed", Timeout("EntrySubmit")) = Go("Flat", {})
      /\ Apply("Open", ExitRequested) = Go("ExitPending", {"SubmitExitOrder"})
    BY DEF Apply, FromFlat, FromSignalArmed, FromOpen, SignalTriggered, EntryAccepted, ExitRequested,
           ManualRequired, Timeout, Plain, Event
<1>0. \A p : Timeout(p).kind = "TimeoutExpired"
    BY DEF Timeout, Event
<1>4. /\ Apply("EntryPending", Notice(10, 10)) = Go("Open", {"PersistState"})
      /\ Apply("EntryPending", Notice(3, 10)) = Go("EntryPartial", {})
      /\ Apply("EntryPending", Query(0, 10)) = Go("Flat", {})
      /\ Apply("EntryPartial", Notice(10, 10)) = Go("Open", {"PersistState"})
    <2>1. \A q, t : Notice(q, t) # ManualRequired /\ Query(q, t) # ManualRequired
        BY DEF Notice, Query, ManualRequired, Plain, Event
    <2>2. \A q, t : /\ Notice(q, t).kind = "ExecutionNoticeReceived"
                    /\ Notice(q, t).qty = q /\ Notice(q, t).target = t
        BY DEF Notice, Event
    <2>3. \A q, t : /\ Query(q, t).kind = "ExecutionQueryResolved"
                    /\ Query(q, t).qty = q /\ Query(q, t).target = t
        BY DEF Query, Event
    <2>4. \A e : e # ManualRequired => /\ Apply("EntryPending", e) = FromEntryPending(e)
                                       /\ Apply("EntryPartial", e) = FromEntryPartial(e)
        BY DEF Apply
    <2>5. /\ FromEntryPending(Notice(10, 10)) = GoOpen
          /\ FromEntryPending(Notice(3, 10)) = Go("EntryPartial", {})
          /\ FromEntryPartial(Notice(10, 10)) = GoOpen
        BY <1>0, <2>2 DEF FromEntryPending, FromEntryPartial
    <2>6. FromEntryPending(Query(0, 10)) = Go("Flat", {})
        BY <1>0, <2>3 DEF FromEntryPending
    <2> QED BY <2>1, <2>4, <2>5, <2>6 DEF GoOpen
<1>5. /\ Apply("ExitPending", Balance(5)) = Go("ExitPartial", {})
      /\ Apply("ExitPending", Balance(0)) = Go("Flat", {"PersistState"})
      /\ Apply("ExitPartial", Balance(0)) = Go("Flat", {"PersistState"})
    <2>1. \A q : Balance(q) # ManualRequired /\ Balance(q) # ExitAccepted
        BY DEF Balance, ExitAccepted, ManualRequired, Plain, Event
    <2>2. \A q : Balance(q).kind = "BalanceReconciled" /\ Balance(q).qty = q
        BY DEF Balance, Event
    <2>3. \A q : /\ Apply("ExitPending", Balance(q)) = FromExitPending(Balance(q))
                 /\ Apply("ExitPartial", Balance(q)) = FromExitPartial(Balance(q))
        BY <2>1 DEF Apply
    <2>4. /\ FromExitPending(Balance(5)) = Go("ExitPartial", {})
          /\ FromExitPending(Balance(0)) = Go("Flat", {"PersistState"})
          /\ FromExitPartial(Balance(0)) = Go("Flat", {"PersistState"})
        BY <1>0, <2>1, <2>2 DEF FromExitPending, FromExitPartial
    <2> QED BY <2>3, <2>4
<1>6. \A s \in ExecStates \ {"ManualIntervention"} :
        Apply(s, ManualRequired) = Go("ManualIntervention", {"EnterManualIntervention", "PersistState"})
    BY DEF Apply, GoManual
<1>7. /\ Explained("Flat", "SignalArmed") /\ Explained("SignalArmed", "EntryPending")
      /\ Explained("SignalArmed", "Flat") /\ Explained("Open", "ExitPending")
    BY <1>1, <1>2, <1>3 DEF Events2
<1>8. /\ Explained("EntryPending", "Open") /\ Explained("EntryPending", "EntryPartial")
      /\ Explained("EntryPending", "Flat") /\ Explained("EntryPartial", "Open")
    BY <1>1, <1>2, <1>4 DEF Events2
<1>9. /\ Explained("ExitPending", "ExitPartial") /\ Explained("ExitPending", "Flat")
      /\ Explained("ExitPartial", "Flat")
    BY <1>1, <1>2, <1>5 DEF Events2
<1>10. \A s \in ExecStates \ {"ManualIntervention"} : Explained(s, "ManualIntervention")
    BY <1>1, <1>2, <1>6 DEF Events2
<1> QED BY <1>7, <1>8, <1>9, <1>10 DEF Moves

\* The fifteen samples of is_actor_allowed_transition accept every move of the rule
\* table, whatever quantity the event that caused it carried.
THEOREM ShadowSafe == Spec => []ShadowComplete
<1>1. Init => ShadowComplete
    BY DEF Init, ShadowComplete, ActorAllows
<1>2. TypeInv /\ ShadowComplete /\ [Next]_vars => ShadowComplete'
    <2> SUFFICES ASSUME TypeInv, ShadowComplete, [Next]_vars
                 PROVE  ShadowComplete'
        OBVIOUS
    <2>1. ASSUME NEW e \in Events, Deliver(e)
          PROVE  ShadowComplete'
        <3>1. state' = After(state, e) /\ prev' = state
            BY <2>1 DEF Deliver
        <3>2. state' = prev' \/ Explained(prev', state')
            BY <3>1, AfterMoves, MovesExplained DEF TypeInv
        <3> QED BY <3>2 DEF ShadowComplete, ActorAllows
    <2>2. CASE TimerFires
        <3>1. Timeout(NextTimeoutFor(state)) \in Events
            BY <2>2 DEF TimerFires, NextTimeoutFor, Events, EventsUpTo, TimeoutPhases
        <3> QED BY <2>1, <2>2, <3>1 DEF TimerFires
    <2>3. CASE UNCHANGED vars
        BY <2>3 DEF vars, ShadowComplete
    <2> QED BY <2>1, <2>2, <2>3 DEF Next
<1> QED BY <1>1, <1>2, TypeCorrect, PTL DEF Spec
=============================================================================
