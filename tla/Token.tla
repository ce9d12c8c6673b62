------------------------------- MODULE Token -------------------------------
(***************************************************************************)
(* The access token all calls to the broker share                           *)
(* (infrastructure/kis_client/auth.rs): a caller looks under the read lock, *)
(* and one that finds no valid token takes the write lock and looks again.  *)
(***************************************************************************)
EXTENDS Integers, FiniteSets

CONSTANTS
    Callers,    \* tasks that call the broker
    MaxLapses   \* bound on expiries

VARIABLES
    valid,      \* is_valid of the token, FALSE when there is none
    phase,      \* where a caller is in get_token
    issued,     \* tokens the broker has issued
    lapses      \* tokens that have come within 30 minutes of their expiry

tokenVars == <<valid, phase, issued, lapses>>

TokenInit ==
    /\ valid = FALSE /\ issued = 0 /\ lapses = 0
    /\ phase = [x \in Callers |-> "out"]

\* The write lock is held over the whole request for a token.
Locked == \E x \in Callers : phase[x] = "issuing"

Look(x) ==
    /\ phase[x] = "out" /\ ~Locked
    /\ phase' = [phase EXCEPT ![x] = IF valid THEN "have" ELSE "lapsed"]
    /\ UNCHANGED <<valid, issued, lapses>>

MutLookAgain(x) ==
    /\ phase[x] = "lapsed" /\ ~Locked
    /\ phase' = [phase EXCEPT ![x] = "issuing"]
    /\ UNCHANGED <<valid, issued, lapses>>
LookAgain(x) ==
    /\ phase[x] = "lapsed" /\ ~Locked
    /\ phase' = [phase EXCEPT ![x] = IF valid THEN "have" ELSE "issuing"]
    /\ UNCHANGED <<valid, issued, lapses>>

Issue(x) ==
    /\ phase[x] = "issuing"
    /\ phase' = [phase EXCEPT ![x] = "have"]
    /\ valid' = TRUE /\ issued' = issued + 1
    /\ UNCHANGED lapses

\* No answer, or one that cannot be read: the caller's attempt failed.
IssueFails(x) ==
    /\ phase[x] = "issuing"
    /\ phase' = [phase EXCEPT ![x] = "failed"]
    /\ UNCHANGED <<valid, issued, lapses>>

Leave(x) == phase[x] \in {"have", "failed"} /\ phase' = [phase EXCEPT ![x] = "out"]

Lapse ==
    /\ valid /\ lapses < MaxLapses
    /\ valid' = FALSE /\ lapses' = lapses + 1
    /\ UNCHANGED <<phase, issued>>

GetToken(x) == Look(x) \/ LookAgain(x) \/ Issue(x) \/ IssueFails(x)
=============================================================================
