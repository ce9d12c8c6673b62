----------------------------- MODULE Connection -----------------------------
(***************************************************************************)
(* The WebSocket client's loop (infrastructure/websocket/connection.rs):    *)
(* connect, restore the subscriptions, wait for their answers, listen, and  *)
(* try again after a failure, MaxRetries times in a row.                    *)
(***************************************************************************)
EXTENDS Integers

CONSTANT MaxRetries     \* KIS_WS_MAX_RETRIES

ASSUME RetriesAssumption == MaxRetries \in Nat

VARIABLES
    conn,       \* "connect" | "confirm" | "listen" | "backoff" | "over"
    subscribed, \* the exchange sends this connection its ticks
    retries,    \* retry_count
    terminated,
    streak      \* connections in a row that were not fully confirmed

link == <<conn, subscribed, retries, terminated, streak>>

LinkInit ==
    /\ conn = "connect" /\ subscribed = FALSE
    /\ retries = 0 /\ terminated = FALSE /\ streak = 0
Relinked ==
    /\ conn' = "connect" /\ subscribed' = FALSE
    /\ retries' = 0 /\ terminated' = FALSE /\ streak' = 0

\* The error arm of run: one more retry, or the end.
Fail ==
    /\ retries' = retries + 1
    /\ conn' = IF retries + 1 > MaxRetries THEN "over" ELSE "backoff"
    /\ terminated' = (retries + 1 > MaxRetries)
    /\ subscribed' = FALSE

\* Approval key, connection and the sending of the subscriptions.
Connect ==
    /\ conn = "connect"
    /\ conn' = "confirm"
    /\ UNCHANGED <<subscribed, retries, terminated, streak>>
ConnectFails == conn = "connect" /\ Fail /\ streak' = streak + 1

MutConfirmed ==
    /\ conn = "confirm"
    /\ conn' = "listen" /\ subscribed' = TRUE /\ streak' = 0
    /\ UNCHANGED <<terminated, retries>>
Confirmed ==
    /\ conn = "confirm"
    /\ conn' = "listen" /\ subscribed' = TRUE /\ streak' = 0
    /\ retries' = 0
    /\ UNCHANGED terminated

\* Some subscription is refused or not answered in 5 s: it is listened to anyway,
\* and the retries are kept.
Unconfirmed(heard) ==
    /\ conn = "confirm"
    /\ conn' = "listen" /\ subscribed' = heard /\ streak' = streak + 1
    /\ UNCHANGED <<retries, terminated>>

\* A Close frame or the end of the stream is no error, and nothing is retried.
Closed ==
    /\ conn = "listen"
    /\ conn' = "over" /\ subscribed' = FALSE
    /\ UNCHANGED <<retries, terminated, streak>>
Broken == conn = "listen" /\ Fail /\ UNCHANGED streak

Resume ==
    /\ conn = "backoff"
    /\ conn' = "connect"
    /\ UNCHANGED <<subscribed, retries, terminated, streak>>
=============================================================================
