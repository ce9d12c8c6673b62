------------------------------- MODULE Server -------------------------------
(***************************************************************************)
(* The strategy manager (presentation/routes/strategy.rs) and what main.rs  *)
(* does with it: requests to start and stop a code's runner, the runners'   *)
(* tasks and the tasks that copy their state to the status page, the check  *)
(* of the fill notices at the start, and the shutdown.  What a runner does  *)
(* while it runs is LiveRunner's.                                           *)
(***************************************************************************)
EXTENDS Token, SequencesExt

CONSTANTS
    Codes,
    Requests,   \* requests that may be in flight at once
    CodeOf,     \* the code a request is about
    Allowed,    \* allowed_codes, {} for all
    Blocked,    \* block_starts_reason is set
    MaxProbes,  \* attempts of the notification check, 15
    MaxRuns     \* bound on runners started

ASSUME RequestsAssumption == CodeOf \in [Requests -> Codes] /\ Requests = Callers
ASSUME AllowedAssumption  == Allowed \subseteq Codes /\ Blocked \in BOOLEAN
ASSUME ProbesAssumption   == MaxProbes \in Nat

VARIABLES
    health, probes, keyed,  \* notification_health, attempts, and whether the AES key came
    status,     \* statuses: [active, manual] of each code
    handle,     \* runners: the run of each code, 0 for none
    runs,       \* runs in the order of their start: [code, at, told, manual, shot, sync]
    step,       \* where a request is in start_runner
    begun,      \* the run a request has started
    process     \* "up" | "stopping"

check == <<health, probes, keyed>>
manager == <<status, handle, runs>>
serverVars == <<tokenVars, check, manager, step, begun, process>>

RunIds == 1..Len(runs)
Tell(ids) == [i \in RunIds |-> IF i \in ids THEN [runs[i] EXCEPT !.told = TRUE] ELSE runs[i]]
Handles == {handle[c] : c \in Codes} \ {0}

--------------------------------------------------------------------------
\* The check of the fill notices.

KeyArrives ==
    /\ ~keyed /\ keyed' = TRUE
    /\ UNCHANGED <<tokenVars, health, probes, manager, step, begun, process>>

\* A failure is for good, and stops the runners there are.
Probe ==
    /\ health = "Pending" /\ probes < MaxProbes
    /\ probes' = probes + 1
    /\ health' = IF keyed THEN "Ready" ELSE IF probes + 1 = MaxProbes THEN "Failed" ELSE health
    /\ runs' = IF health' = "Failed" THEN Tell(Handles) ELSE runs
    /\ UNCHANGED <<tokenVars, keyed, status, handle, step, begun, process>>

--------------------------------------------------------------------------
\* start_runner.  A refusal changes no more than a message.

At(r, here, there) == step[r] = here /\ step' = [step EXCEPT ![r] = there]

Ask(r) ==
    /\ At(r, "none", "admitted")
    /\ ~Blocked /\ (Allowed = {} \/ CodeOf[r] \in Allowed)
    /\ health = "Ready" /\ ~status[CodeOf[r]].manual
    /\ UNCHANGED <<tokenVars, check, manager, begun, process>>

Claim(r) ==
    /\ At(r, "admitted", IF handle[CodeOf[r]] = 0 THEN "price" ELSE "none")
    /\ UNCHANGED <<tokenVars, check, manager, begun, process>>

\* A price that cannot be had ends the request; an order size that cannot be asked
\* for is worked out from the cash, and none ends it.
PriceAnswered(r) ==
    /\ Leave(r) /\ At(r, "price", IF phase[r] = "have" THEN "size" ELSE "none")
    /\ UNCHANGED <<valid, issued, lapses, check, manager, begun, process>>
PriceRefused(r) ==
    /\ Leave(r) /\ At(r, "price", "none")
    /\ UNCHANGED <<valid, issued, lapses, check, manager, begun, process>>
Sized(r, affordable) ==
    /\ Leave(r) /\ At(r, "size", IF affordable THEN "spawn" ELSE "none")
    /\ UNCHANGED <<valid, issued, lapses, check, manager, begun, process>>

NewRun(c) == [code |-> c, at |-> "run", told |-> FALSE, manual |-> FALSE, shot |-> FALSE,
              sync |-> TRUE]

Spawn(r) ==
    /\ Len(runs) < MaxRuns
    /\ At(r, "spawn", "spawned")
    /\ runs' = Append(runs, NewRun(CodeOf[r]))
    /\ handle' = [handle EXCEPT ![CodeOf[r]] = Len(runs) + 1]
    /\ begun' = [begun EXCEPT ![r] = Len(runs) + 1]
    /\ UNCHANGED <<tokenVars, check, status, process>>

\* The rest of the handler, or of auto_start_all.
Started(r) ==
    /\ At(r, "spawned", "none")
    /\ status' = [status EXCEPT ![CodeOf[r]].active = TRUE]
    /\ begun' = [begun EXCEPT ![r] = 0]
    /\ UNCHANGED <<tokenVars, check, handle, runs, process>>

Stop(c) ==
    /\ runs' = Tell({handle[c]})
    /\ status' = [status EXCEPT ![c].active = FALSE]
    /\ UNCHANGED <<tokenVars, check, handle, step, begun, process>>

--------------------------------------------------------------------------
\* A runner's task.

Flagged(i) ==
    /\ runs[i].at = "run" /\ ~runs[i].manual
    /\ runs' = [runs EXCEPT ![i].manual = TRUE]
    /\ UNCHANGED <<tokenVars, check, status, handle, step, begun, process>>

\* A run outlasts the few instructions between its start and the answer to the
\* request: it asks the broker for its first orders in that time.
Leaves(i) ==
    /\ runs[i].at = "run" /\ \A r \in Requests : begun[r] # i
    /\ runs' = [runs EXCEPT ![i].at = "left", ![i].shot = runs[i].manual]
    /\ UNCHANGED <<tokenVars, check, status, handle, step, begun, process>>

MutReports(i) ==
    /\ runs[i].at = "left"
    /\ runs' = [runs EXCEPT ![i].at = "reported"]
    /\ status' = [status EXCEPT ![runs[i].code].active = @ /\ runs[i].shot,
                                ![runs[i].code].manual = @ \/ runs[i].shot]
    /\ UNCHANGED <<tokenVars, check, handle, step, begun, process>>
Reports(i) ==
    /\ runs[i].at = "left"
    /\ runs' = [runs EXCEPT ![i].at = "reported"]
    /\ status' = [status EXCEPT ![runs[i].code].active = FALSE,
                                ![runs[i].code].manual = @ \/ runs[i].shot]
    /\ UNCHANGED <<tokenVars, check, handle, step, begun, process>>

\* By its code, whosever the handle is.
Unlists(i) ==
    /\ runs[i].at = "reported"
    /\ runs' = [runs EXCEPT ![i].at = "over"]
    /\ handle' = [handle EXCEPT ![runs[i].code] = 0]
    /\ UNCHANGED <<tokenVars, check, status, step, begun, process>>

--------------------------------------------------------------------------
\* Every 3 s the state of a run is copied to the page, until the code is not
\* active and the run has left nothing to the operator.

MutDone(i) == runs[i].at = "over" /\ handle[runs[i].code] = 0 /\ ~runs[i].manual
Done(i) == ~status[runs[i].code].active /\ ~runs[i].manual

Copies(i) ==
    /\ runs[i].sync
    /\ runs' = [runs EXCEPT ![i].sync = ~Done(i)]
    /\ status' = IF Done(i) THEN status
                 ELSE [status EXCEPT ![runs[i].code].manual = runs[i].manual]
    /\ UNCHANGED <<tokenVars, check, handle, step, begun, process>>

--------------------------------------------------------------------------
\* A signal stops all runners there are.  The process ends when they have, or 40 s
\* later: a run that is cut off is LiveRunner's crash.

Shutdown ==
    /\ process = "up" /\ process' = "stopping"
    /\ runs' = Tell(Handles)
    /\ UNCHANGED <<tokenVars, check, status, handle, step, begun>>
\* Other tasks ask the broker as these do.
Broker ==
    /\ \/ Lapse
       \/ \E r \in Requests : step[r] \in {"price", "size"} /\ GetToken(r)
    /\ UNCHANGED <<check, manager, step, begun, process>>

Init ==
    /\ TokenInit
    /\ health = "Pending" /\ probes = 0 /\ keyed = FALSE
    /\ status = [c \in Codes |-> [active |-> FALSE, manual |-> FALSE]]
    /\ handle = [c \in Codes |-> 0] /\ runs = <<>>
    /\ step = [r \in Requests |-> "none"] /\ begun = [r \in Requests |-> 0]
    /\ process = "up"

Next ==
    \/ KeyArrives \/ Probe \/ Shutdown \/ Broker
    \/ \E r \in Requests : \/ Ask(r) \/ Claim(r) \/ PriceAnswered(r) \/ PriceRefused(r)
                           \/ Spawn(r) \/ Started(r)
                           \/ \E affordable \in BOOLEAN : Sized(r, affordable)
    \/ \E c \in Codes : Stop(c)
    \/ \E i \in RunIds : Flagged(i) \/ Leaves(i) \/ Reports(i) \/ Unlists(i) \/ Copies(i)

Spec == Init /\ [][Next]_serverVars
--------------------------------------------------------------------------
\* A runner is started only when its code has none (strategy.rs:687, no zombie
\* tasks): every run that goes on has its handle, and a stop reaches it.
StopReaches == \A i \in RunIds : runs[i].at = "run" => handle[runs[i].code] = i

\* The page shows a code active only while a run of it goes on (strategy.rs:838 and
\* 1553: the answer to a start, a stop and the end of a run each write the flag).
Running(c) == \E i \in RunIds : runs[i].code = c /\ runs[i].at \in {"run", "left"}
ShownRunning == \A c \in Codes : status[c].active => Running(c)

\* A code whose last run left a position to the operator is shown so until the
\* process ends, whatever tasks of earlier runs still copy (strategy.rs:909-914).
LastRun(i) == \A j \in RunIds : runs[j].code = runs[i].code => j <= i
ManualShown ==
    \A i \in RunIds : LastRun(i) /\ runs[i].at \in {"reported", "over"} /\ runs[i].shot
                        => status[runs[i].code].manual

\* However many tasks find the token expired, it is replaced once (auth.rs:76-85).
OneIssue == issued <= lapses + 1
=============================================================================
