----------------------------- MODULE LiveTrade -----------------------------
(***************************************************************************)
(* The prices a runner trades by (strategy/live_runner.rs): ticks and the   *)
(* REST quote, the preflight gates, the armed watch before an entry, and    *)
(* the stop of an open trade, which two tasks move - the price listener on  *)
(* every tick, the runner every few seconds - and which the database is     *)
(* told of by writes nobody waits for.                                      *)
(*                                                                         *)
(* Orders are in LiveRunner: here an entry is filled or not, and a close    *)
(* succeeds.  Trades are long, the only side the configuration allows.      *)
(***************************************************************************)
EXTENDS PositionManager, FiniteSets

CONSTANTS
    Prices,         \* prices the market can have
    Signals,        \* gaps found one after the other: [t, price, risk]
    RrPct,          \* rr_ratio in percent
    MaxDrift,       \* max_entry_drift_pct, here in units of price
    MaxAge,         \* bound: candles a trade is old, at least TimeStop
    MaxWrites,      \* bound: trailing writes in flight
    MaxRounds,      \* armed_watch_budget_ms in rounds
    UpdatesFail,    \* whether a trailing update of the row can fail
    MaxCrashes      \* bound

ASSUME PricesAssumption == Prices \subseteq Nat \ {0}
ASSUME SignalsAssumption == Signals \subseteq [t : Nat, price : Nat, risk : Nat]

NoPrice == 0
None    == [n |-> 0]
PMs     == [best : Int, sl : Int, reached : BOOLEAN]

VARIABLES
    market,     \* the price the exchange trades at
    latest,     \* latest_price: [p, fresh], fresh for 30 s
    quote,      \* latest_quote and last_quote_sanity_issue: "none" | "ok" | "wide" | "invalid"
    heard,      \* a tick between the listener's two locks, or NoPrice
    pc,         \* the runner: "poll" | "armed" | "manage" | "decide" | "ended"
    sig,        \* the signal being watched
    round,      \* rounds of the armed watch
    search,     \* search_after
    traded,     \* the last exit the trades table knows of
    degraded,   \* RunnerState.degraded
    seen,       \* the price a decision is made on
    trades,     \* trades entered
    pos,        \* current_position or None
    age,        \* candles since its entry
    tpDone,     \* the take-profit order has filled at the exchange
    row,        \* active_positions or None
    writes,     \* trailing updates on their way to the row
    crashes

feed   == <<market, latest, quote, heard>>
watch  == <<sig, round, search, traded, degraded>>
held   == <<pos, age, tpDone>>
store  == <<row, writes>>
vars   == <<feed, pc, watch, seen, trades, held, store, crashes>>

Open == pos # None
Tp(p) == p.entry + (p.risk * RrPct) \div 100
Original(p) == p.entry - p.risk

--------------------------------------------------------------------------
\* The market and what the runner hears of it.

Healthy == latest.fresh /\ quote = "ok"

\* A take-profit order the price goes through is filled.
Move(p) ==
    /\ market' = p
    /\ tpDone' = (tpDone \/ (Open /\ pos.tpOrder /\ p > Tp(pos)))
    /\ UNCHANGED <<latest, quote, heard, pc, watch, seen, trades, pos, age, store, crashes>>

FillTp ==
    /\ Open /\ pos.tpOrder /\ ~tpDone /\ market >= Tp(pos)
    /\ tpDone' = TRUE
    /\ UNCHANGED <<feed, pc, watch, seen, trades, pos, age, store, crashes>>

\* The listener takes a tick: first the price, later the position.
Tick ==
    /\ heard = NoPrice
    /\ latest' = [p |-> market, fresh |-> TRUE] /\ heard' = market
    /\ UNCHANGED <<market, quote, pc, watch, seen, trades, held, store, crashes>>

GoStale ==
    /\ latest.fresh
    /\ latest' = [latest EXCEPT !.fresh = FALSE]
    /\ UNCHANGED <<market, quote, heard, pc, watch, seen, trades, held, store, crashes>>

\* Quotes matter to the preflight only, that is while no position is open.
Quote(q) ==
    /\ ~Open /\ q # quote
    /\ ~(quote = "invalid" /\ q = "none")
    /\ quote' = q
    /\ UNCHANGED <<market, latest, heard, pc, watch, seen, trades, held, store, crashes>>

\* Works from the stop of the entry each time.
MutMoved(p, price) ==
    UpdateBestAndTrailing("Long", p.entry, p.risk, price, Fresh(p.entry, Original(p)))
Moved(p, price) == UpdateBestAndTrailing("Long", p.entry, p.risk, price, p.pm)

\* Sets the stop behind the best price without looking where it stands.
MutListened(p, price) ==
    LET pm == Moved(p, price)
    IN  [p EXCEPT !.pm.best = pm.best, !.pm.reached = pm.reached,
                  !.pm.sl = IF pm.reached THEN pm.best - Dist(p.risk, TrailingPct) ELSE @]
Listened(p, price) ==
    LET pm == Moved(p, price)
    IN  [p EXCEPT !.pm = pm, !.hit = @ \/ IsSlHit("Long", pm.sl, price)]

Listen ==
    /\ heard # NoPrice
    /\ heard' = NoPrice
    /\ pos' = IF Open THEN Listened(pos, heard) ELSE pos
    /\ UNCHANGED <<market, latest, quote, pc, watch, seen, trades, age, tpDone, store, crashes>>

--------------------------------------------------------------------------
\* The search for an entry.

\* poll_and_enter's preflight: an unhealthy market degrades the runner.
PollUnhealthy ==
    /\ pc = "poll" /\ ~Healthy
    /\ degraded' = TRUE
    /\ UNCHANGED <<feed, pc, sig, round, search, traded, seen, trades, held, store, crashes>>

PollHealthy ==
    /\ pc = "poll" /\ Healthy
    /\ degraded' = FALSE
    /\ UNCHANGED <<feed, pc, sig, round, search, traded, seen, trades, held, store, crashes>>

\* A price: the latest tick, or the REST quote once that is 30 s old.
Current == IF latest.fresh THEN latest.p ELSE market

\* A signal found in a healthy poll; only a price that ran away is too far here,
\* in the armed watch one on either side.
Arm(s) ==
    /\ pc = "poll" /\ Healthy /\ s.t > search
    /\ degraded' = FALSE
    /\ IF Current - s.price > MaxDrift
         THEN search' = s.t /\ UNCHANGED <<pc, sig>>
         ELSE pc' = "armed" /\ sig' = s /\ UNCHANGED search
    /\ UNCHANGED <<feed, round, traded, seen, trades, held, store, crashes>>

Forget(advance) ==
    /\ pc' = "poll" /\ round' = 0 /\ search' = IF advance THEN sig.t ELSE search
    /\ UNCHANGED <<feed, sig, traded, degraded, seen, trades, held, store, crashes>>

\* A round of armed_wait_for_entry: the gates, the drift, the budget.
Drifted(s) == Current - s.price > MaxDrift \/ s.price - Current > MaxDrift

WatchUnhealthy == pc = "armed" /\ ~Healthy /\ Forget(FALSE)
WatchDrifted   == pc = "armed" /\ Healthy /\ Drifted(sig) /\ Forget(TRUE)
\* The submit timeout, or the entry cutoff (which also gives the signal up).
WatchTimeout(advance) == pc = "armed" /\ Forget(advance)
WatchOn ==
    /\ pc = "armed" /\ Healthy /\ ~Drifted(sig) /\ round < MaxRounds
    /\ round' = round + 1
    /\ UNCHANGED <<feed, pc, sig, search, traded, degraded, seen, trades, held, store, crashes>>

\* The order's limit is the signal's price or, under MarketableLimit, the best quote
\* and some ticks, so any price may be paid; the stop keeps the signal's risk.  The
\* take-profit order may be refused.  Minutes after the last trade its updates of
\* the row are over.
Entered(n, s, paid, placed) ==
    [n |-> n, entry |-> paid, risk |-> s.risk, pm |-> Fresh(paid, paid - s.risk),
     tpOrder |-> placed, hit |-> FALSE]

WatchFilled(paid, placed) ==
    /\ pc = "armed" /\ Healthy /\ ~Drifted(sig) /\ round = MaxRounds
    /\ writes = {}
    /\ trades' = trades + 1 /\ pc' = "saving" /\ round' = 0
    /\ pos' = Entered(trades + 1, sig, paid, placed)
    /\ UNCHANGED <<feed, sig, search, traded, degraded, seen, age, tpDone, store, crashes>>
WatchUnfilled == pc = "armed" /\ Healthy /\ ~Drifted(sig) /\ round = MaxRounds /\ Forget(TRUE)

\* The row is written once the position is already in the listener's hands,
\* with the values of the entry.
SaveRow ==
    /\ pc = "saving"
    /\ row' = [n |-> pos.n, entry |-> pos.entry, risk |-> pos.risk,
               pm |-> Fresh(pos.entry, Original(pos))]
    /\ pc' = "manage"
    /\ UNCHANGED <<feed, watch, seen, trades, held, writes, crashes>>

--------------------------------------------------------------------------
\* The open position (manage_position).

\* The price is read before the state is locked.
ReadPrice ==
    /\ pc = "manage"
    /\ seen' = Current /\ pc' = "decide"
    /\ UNCHANGED <<feed, watch, trades, held, store, crashes>>

Changed(p, pm) == pm.sl # p.pm.sl \/ pm.reached # p.pm.reached

\* finalize_flat_transition.  The search goes on after the exit, here already after
\* the signal, which lets more signals be found.
Close ==
    /\ pc' = "poll" /\ pos' = None /\ row' = None /\ age' = 0 /\ tpDone' = FALSE
    /\ search' = sig.t /\ traded' = sig.t
Stay(p) ==
    /\ pc' = "manage" /\ pos' = p
    /\ UNCHANGED <<row, age, tpDone, search, traded>>

TpHit == IsTpHit("Long", Tp(pos), seen)

\* With an order the take-profit is the exchange's; without one it is sold at market.
DecideTp ==
    /\ pc = "decide" /\ TpHit /\ seen' = NoPrice
    /\ IF tpDone \/ ~pos.tpOrder THEN Close ELSE Stay(pos)
    /\ UNCHANGED <<feed, sig, round, degraded, trades, writes, crashes>>

\* The inquiry for the order's fill is not answered.
DecideTpUnknown ==
    /\ pc = "decide" /\ TpHit /\ pos.tpOrder /\ seen' = NoPrice
    /\ Stay(pos)
    /\ UNCHANGED <<feed, sig, round, degraded, trades, writes, crashes>>

Breached(pm) == pos.hit \/ IsSlHit("Long", pm.sl, seen)

\* Looks at the price it read only, and misses the tick the listener saw.
MutDecideStop(pm) ==
    IF IsSlHit("Long", pm.sl, seen) \/ TimeStopBreached(age, pm)
      THEN Close ELSE Stay([pos EXCEPT !.pm = pm])
DecideStop(pm) ==
    IF Breached(pm) \/ TimeStopBreached(age, pm)
      THEN Close ELSE Stay([pos EXCEPT !.pm = pm])

Decide ==
    /\ pc = "decide" /\ ~TpHit /\ seen' = NoPrice
    /\ LET pm == Moved(pos, seen)
           told == {[n |-> pos.n, pm |-> pm] : x \in {y \in {pos} : Changed(y, pm)}}
       IN  DecideStop(pm) /\ writes' = writes \cup told
    /\ Cardinality(writes') <= MaxWrites
    /\ UNCHANGED <<feed, sig, round, degraded, trades, crashes>>

\* A detached update reaches the database, in any order, and finds a row or not.
Land(w) ==
    /\ row' = IF row = None THEN None ELSE [row EXCEPT !.n = w.n, !.pm = w.pm]
    /\ writes' = writes \ {w}
    /\ UNCHANGED <<feed, pc, watch, seen, trades, held, crashes>>

\* One that fails is not tried again.
Lose(w) ==
    /\ UpdatesFail
    /\ writes' = writes \ {w}
    /\ UNCHANGED <<feed, pc, watch, seen, trades, held, row, crashes>>

Grow ==
    /\ Open /\ age < MaxAge
    /\ age' = age + 1
    /\ UNCHANGED <<feed, pc, watch, seen, trades, pos, tpDone, store, crashes>>

\* Past force_exit an open position is closed and the loop ends.
EndOfDay ==
    /\ pc \in {"poll", "manage"}
    /\ pc' = "ended" /\ pos' = None /\ age' = 0 /\ tpDone' = FALSE
    /\ row' = IF Open THEN None ELSE row
    /\ UNCHANGED <<feed, watch, seen, trades, writes, crashes>>

\* The process dies and the next one restores what the row says, with a new
\* take-profit order.  An entry that has no row of its own yet is in LiveRunner.
\* Starts the trade anew at its entry.
MutRestored(placed) == Entered(row.n, row, row.entry, placed)
Restored(placed) ==
    [n |-> row.n, entry |-> row.entry, risk |-> row.risk, pm |-> row.pm,
     tpOrder |-> placed, hit |-> FALSE]
Crash(placed) ==
    /\ crashes < MaxCrashes /\ pc \in {"poll", "armed", "manage", "decide"}
    /\ crashes' = crashes + 1
    /\ pos' = IF row = None THEN None ELSE Restored(placed)
    /\ pc' = IF row = None THEN "poll" ELSE "manage"
    /\ latest' = [p |-> NoPrice, fresh |-> FALSE] /\ quote' = "none" /\ heard' = NoPrice
    /\ seen' = NoPrice /\ search' = traded /\ degraded' = FALSE /\ round' = 0
    /\ tpDone' = FALSE /\ writes' = {}
    /\ UNCHANGED <<market, sig, traded, trades, age, row>>

--------------------------------------------------------------------------
Init ==
    /\ market \in Prices /\ latest = [p |-> NoPrice, fresh |-> FALSE]
    /\ quote = "none" /\ heard = NoPrice
    /\ pc = "poll" /\ sig \in Signals /\ round = 0 /\ search = 0 /\ traded = 0 /\ degraded = FALSE
    /\ seen = NoPrice /\ trades = 0 /\ pos = None /\ age = 0 /\ tpDone = FALSE
    /\ row = None /\ writes = {} /\ crashes = 0

Watch ==
    \/ WatchUnhealthy \/ WatchDrifted \/ WatchOn \/ WatchUnfilled
    \/ \E advance \in BOOLEAN : WatchTimeout(advance)
    \/ \E paid \in Prices, placed \in BOOLEAN : WatchFilled(paid, placed)

Manage == ReadPrice \/ DecideTp \/ Decide

Next ==
    \/ \E p \in Prices : Move(p)
    \/ \E q \in {"none", "ok", "wide", "invalid"} : Quote(q)
    \/ FillTp \/ Tick \/ GoStale \/ Listen
    \/ PollUnhealthy \/ PollHealthy
    \/ \E s \in Signals : Arm(s)
    \/ Watch \/ SaveRow
    \/ Manage \/ DecideTpUnknown \/ Grow \/ EndOfDay
    \/ \E w \in writes : Land(w) \/ Lose(w)
    \/ \E placed \in BOOLEAN : Crash(placed)

Spec == Init /\ [][Next]_vars

\* The tasks run on, a tick counts as recent for 30 s, and the exchange fills an
\* order that the market stands at time and again, of which an inquiry tells.
FairSpec ==
    /\ Spec
    /\ WF_vars(Listen) /\ WF_vars(GoStale) /\ WF_vars(SaveRow)
    /\ WF_vars(ReadPrice) /\ WF_vars(Decide)
    /\ WF_vars(\E w \in writes : Land(w) \/ Lose(w))
    /\ SF_vars(FillTp) /\ SF_vars(DecideTp)
--------------------------------------------------------------------------
TypeOK ==
    /\ market \in Prices /\ latest \in [p : Nat, fresh : BOOLEAN]
    /\ quote \in {"none", "ok", "wide", "invalid"} /\ heard \in Nat /\ seen \in Nat
    /\ pc \in {"poll", "armed", "saving", "manage", "decide", "ended"}
    /\ sig \in Signals /\ round \in Nat /\ search \in Nat /\ traded \in Nat
    /\ degraded \in BOOLEAN /\ trades \in Nat /\ age \in Nat /\ tpDone \in BOOLEAN
    /\ pos \in {None} \cup [n : Nat, entry : Int, risk : Nat, pm : PMs,
                             tpOrder : BOOLEAN, hit : BOOLEAN]
    /\ row \in {None} \cup [n : Nat, entry : Int, risk : Nat, pm : PMs]
    /\ writes \subseteq [n : Nat, pm : PMs] /\ crashes \in Nat

\* What the two tasks make of the prices they see, in whatever order, is one
\* function of the best one: until the break-even distance the stop of the entry,
\* then the entry price or the best price less the trailing distance, the higher.
Trails(entry, risk, pm) ==
    LET behind == pm.best - Dist(risk, TrailingPct)
    IN  /\ pm.best >= entry
        /\ ~pm.reached => /\ pm.sl = entry - risk
                          /\ pm.best - entry < Dist(risk, BreakevenPct) \/ pm.best = entry
        /\ pm.reached  => /\ pm.sl = IF behind > entry THEN behind ELSE entry
                          /\ pm.best - entry >= Dist(risk, BreakevenPct)
StopFollowsBest == Open => Trails(pos.entry, pos.risk, pos.pm)

NotAhead(pm, later) ==
    /\ pm.best <= later.best /\ pm.sl <= later.sl
    /\ pm.reached => later.reached

\* The row never claims more than the trade reached: a restart is never given a
\* stop nearer to the market than the one it had (update_position_trailing).
RowNotAhead ==
    Open /\ row # None => (row.n = pos.n => NotAhead(row.pm, pos.pm))

\* While the process lives, neither task loosens the stop of a trade.
StopOnlyTightens ==
    [][Open /\ Open' /\ pos'.n = pos.n /\ crashes' = crashes => pos'.pm.sl >= pos.pm.sl]_vars

\* A stop that a tick went through ends the trade although the price came back
\* before the runner looked (sl_triggered_tick), unless a restart forgets it.
BreachEnds == (Open /\ pos.hit) ~> (Open => ~pos.hit)
=============================================================================
