---------------------------- MODULE ActorMachine ----------------------------
(***************************************************************************)
(* ExecutionActor driven by any sequence of events: what the rule table     *)
(* promises whatever order notices, queries, balances and timeouts come in. *)
(***************************************************************************)
EXTENDS ExecutionActor

CONSTANT MaxQty      \* largest quantity an event carries
ASSUME MaxQtyAssumption == MaxQty \in Nat \ {0}

VARIABLES state,     \* the execution state
          prev,      \* the state before the last event
          last       \* the last event
vars == <<state, prev, last>>

Events == EventsUpTo(MaxQty)

Init == state = "Flat" /\ prev = "Flat" /\ last = Balance(0)

Deliver(e) ==
    /\ state' = After(state, e)
    /\ prev' = state
    /\ last' = e

\* The timer next_timeout_for sets for the current state.
TimerFires == NextTimeoutFor(state) # "none" /\ Deliver(Timeout(NextTimeoutFor(state)))

Next == TimerFires \/ \E e \in Events : Deliver(e)

\* A timer that was set fires: tokio::time::sleep returns.
Spec == Init /\ [][Next]_vars /\ WF_vars(TimerFires)

-----------------------------------------------------------------------------
\* Every step the rules can take is one the shadow check accepts: its fifteen
\* samples stand for every event (is_actor_allowed_transition).
ShadowComplete == ActorAllows(prev, state)

\* An exit ends in Flat only on a balance answer of 0 holdings, never on a fill
\* notice, however large, or a timeout (invariant 2 of the execution plan).
FlatOnlyOnZeroHoldings ==
    state = "Flat" /\ prev \in {"Open", "ExitPending", "ExitPartial"} => last = Balance(0)

\* An entry opens only on an event that reports a bought quantity (invariant 1).
OpenOnlyOnFill ==
    state = "Open" /\ prev \notin {"Open", "ManualIntervention"} => last.qty > 0

\* No state with a timer traps the position: whatever else arrives, the timers
\* lead out of the in-flight states, and out of an unfinished exit into
\* ManualIntervention or Flat (next_timeout_for agrees with the rules).
InFlightDrains == (NextTimeoutFor(state) # "none") ~> (NextTimeoutFor(state) = "none")
=============================================================================
