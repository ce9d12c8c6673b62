----------------------------- MODULE TradeSlot -----------------------------
(***************************************************************************)
(* What the position lock and the daily trade gate promise together: one    *)
(* slot, in which at most one stock code is buying, and a budget of trades  *)
(* that is spent only from inside the slot.  A restart empties both.        *)
(***************************************************************************)
EXTENDS Naturals

CONSTANTS Codes, NoCode, MaxTrades

VARIABLES owner,    \* the code that is buying, or NoCode
          trades    \* trades opened so far

Init == owner = NoCode /\ trades = 0

Take == owner = NoCode /\ owner' \in Codes /\ UNCHANGED trades

GiveUp == owner # NoCode /\ owner' = NoCode /\ UNCHANGED trades

Open == owner # NoCode /\ trades < MaxTrades /\ owner' = NoCode /\ trades' = trades + 1

Restart == owner' = NoCode /\ trades' = 0

Next == Take \/ GiveUp \/ Open \/ Restart

Spec == Init /\ [][Next]_<<owner, trades>>
=============================================================================
