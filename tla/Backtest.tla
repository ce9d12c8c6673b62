------------------------------ MODULE Backtest ------------------------------
(***************************************************************************)
(* The simulated trading day (strategy/backtest.rs, orb_fvg.rs and          *)
(* parity/parity_backtest.rs): the legacy path, the parity path with its    *)
(* execution policies and stages, and the path that trades two codes under  *)
(* one position lock.                                                       *)
(*                                                                         *)
(* The state is the day so far: a step appends the candles of one slot for  *)
(* both codes.  The simulations are functions of the day, so that what one  *)
(* says of a morning can be compared with what it says of the whole day.    *)
(***************************************************************************)
EXTENDS PositionManager, SignalEngine

CONSTANTS
    Bars,         \* pairs of bars (one per code), a bar being the candles of a slot
    Starts,       \* the days' beginnings, pairs of the minutes of the two codes
    Width,        \* minutes in a slot
    MaxBars,      \* bound: slots of a day
    Stages,       \* the ends of the opening range of each stage, in order
    RrPct,        \* rr_ratio in percent
    ForceExit,    \* force_exit, a time
    MaxTrades,    \* max_daily_trades
    MaxLossBp     \* max_daily_loss_pct in 1/10000, negative

\* Prices are positive, and a candle's lie between its low and its high.
Priced(c) == /\ {c.o, c.h, c.l, c.c} \subseteq Nat \ {0}
             /\ c.l <= c.o /\ c.o <= c.h /\ c.l <= c.c /\ c.c <= c.h
Slot   == {bar \in Seq({c \in [o : Nat, h : Nat, l : Nat, c : Nat] : Priced(c)}) : Len(bar) = Width}
Candle == {c \in [t : Nat, o : Nat, h : Nat, l : Nat, c : Nat] : Priced(c)}
\* The minutes of a day from its first on, in whole slots.
Day    == {ms \in Seq(Candle) : Len(ms) % Width = 0 /\ \A j \in DOMAIN ms : ms[j].t = j - 1}

ASSUME DayAssumption == Bars \subseteq Slot \X Slot /\ Starts \subseteq Day \X Day
ASSUME WidthAssumption == Width \in Nat \ {0}
\* The stages end after whole slots, and the limits are numbers.
ASSUME StagesAssumption == Stages \in Seq({n \in Nat : n % Width = 0})
ASSUME LimitsAssumption == MaxTrades \in Nat /\ MaxLossBp \in Int

VARIABLE day      \* the minutes of the two codes so far, day[1] and day[2]

\* The minutes of a bar that follows those of ms.  A bar is a sequence of [o, h, l, c].
Stamped(ms, bar) ==
    [j \in DOMAIN bar |-> [t |-> Len(ms) + j - 1, o |-> bar[j].o, h |-> bar[j].h,
                           l |-> bar[j].l, c |-> bar[j].c]]
With(ms, bar) == ms \o Stamped(ms, bar)

\* The five-minute rows of the database: what the collectors aggregate.  Day assumes that
\* no minute is missing; the code takes the rows there are.
Rows(ms) == Aggregate(ms, Width)

\* Index of the first candle from i on that starts at t or later, after the last if none.
IndexAt(cs, i, t) == Min({n \in i..Len(cs) : cs[n].t >= t} \cup {Len(cs) + 1})
Rest(cs, i) == SubSeq(cs, i, Len(cs))

\* The code filters by time; its candles are in the order of time (get_minute_ohlcv).
Before(cs, t) == SubSeq(cs, 1, IndexAt(cs, 1, t) - 1)
From(cs, t)   == Rest(cs, IndexAt(cs, 1, t))
After(cs, t)  == From(cs, t + 1)

OpeningRange(cs) == [high |-> Max({c.h : c \in ToSet(cs)}), low |-> Min({c.l : c \in ToSet(cs)})]

--------------------------------------------------------------------------
\* Entry plans and fills (execution_policy.rs, conversions.rs).

Intended(policy, g) ==
    CASE policy = "LegacyMid" -> (g.top + g.bottom) \div 2
      [] OTHER -> IF g.side = "Long" THEN g.top ELSE g.bottom

Plan(policy, g) ==
    LET entry == Intended(policy, g)
        gain  == (Risk(entry, g.anchor) * RrPct) \div 100
    IN  [side |-> g.side, entry |-> entry, sl |-> g.anchor,
         tp |-> IF g.side = "Long" THEN entry + gain ELSE entry - gain]

\* The middle of the gap is taken as filled at once; an edge of the gap is
\* filled by a candle of the order's lifetime, the minute of the signal, that
\* trades at it; the marketable policy has no simulator and is refused.
Fills(policy, plan, c) ==
    CASE policy = "LegacyMid" -> TRUE
      [] policy = "Passive"   -> c.l <= plan.entry /\ plan.entry <= c.h
      [] policy = "Marketable" -> FALSE

--------------------------------------------------------------------------
\* The exit of a trade (simulate_exit, simulate_exit_with_pm).

Trade(plan, at, exit, t, why) ==
    [side |-> plan.side, entry |-> plan.entry, exit |-> exit, sl |-> plan.sl,
     tp |-> plan.tp, tin |-> at, tout |-> t, why |-> why]

Pnl(tr) == (Gain(tr.side, tr.exit, tr.entry) * 10000) \div tr.entry

\* What the first n trades earned.
Earned(trades) ==
    LET e[n \in 0..Len(trades)] == IF n = 0 THEN 0 ELSE e[n-1] + Pnl(trades[n]) IN e

\* A trade in the simulation: how it is managed, and how it ended, a set of at most one.
Entered(plan) == [pm |-> Fresh(plan.entry, plan.sl), trade |-> {}]

\* One candle: a gap through the stop, the take-profit order, the stop moved by the
\* candle's best price, the stop, the time stop, the day's end.
Managed(plan, at, cs, i, m) ==
    LET c    == cs[i]
        good == IF plan.side = "Long" THEN c.h ELSE c.l
        bad  == IF plan.side = "Long" THEN c.l ELSE c.h
        next == UpdateBestAndTrailing(plan.side, plan.entry, Risk(plan.entry, plan.sl), good, m.pm)
        Ends(exit, why) == [pm |-> next, trade |-> {Trade(plan, at, exit, c.t, why)}]
    IN  IF m.trade # {} THEN m
        ELSE IF OpenGapBreach(plan.side, m.pm.sl, c.o) THEN Ends(c.o, GapExitReason(m.pm))
        ELSE IF IsTpHit(plan.side, plan.tp, good) THEN Ends(plan.tp, "TakeProfit")
        ELSE IF IsSlHit(plan.side, next.sl, bad)
             THEN Ends(next.sl, SlExitReason(plan.side, next, plan.sl, plan.entry))
        ELSE IF TimeStopBreached(i, next) THEN Ends(c.c, "TimeStop")
        ELSE IF c.t >= ForceExit \/ i = Len(cs) THEN Ends(c.c, "EndOfDay")
        ELSE [pm |-> next, trade |-> {}]

Exits(plan, at, cs) ==
    LET m[n \in 0..Len(cs)] == IF n = 0 THEN Entered(plan) ELSE Managed(plan, at, cs, n, m[n-1]) IN m

\* A set of at most one trade: none when no candle follows the entry.
SimulateExit(plan, at, cs) == Exits(plan, at, cs)[Len(cs)].trade

--------------------------------------------------------------------------
\* The limits of a day, and what a trade leaves behind.

NoTrades == [n |-> 0, pnl |-> 0, side |-> "any", after |-> -1, from |-> 1, out |-> <<>>]

MutMayTrade(st) == st.n < MaxTrades
MayTrade(st) == st.n < MaxTrades /\ st.pnl > MaxLossBp

Accepted(st, tr) ==
    [st EXCEPT !.n = @ + 1, !.pnl = @ + Pnl(tr),
               !.side = IF Pnl(tr) > 0 THEN tr.side ELSE "any",
               !.after = tr.tout, !.out = Append(@, tr)]

Config(or, side) == [or |-> or, side |-> side]

--------------------------------------------------------------------------
\* The legacy path: scan_and_trade takes any side; the callers drop a trade
\* against the confirmed side and search on from its exit.

\* The element of a set of one.
Only(s) == CHOOSE x \in s : TRUE

Candidates(cs, d) ==
    UNION {SimulateExit(Plan("LegacyMid", g), cs[d.idx].t, Rest(cs, d.idx + 1)) : g \in d.gap}
ScanAndTrade(cs, or) == Candidates(cs, DetectNext(cs, Config(or, "any")))
ScanFrom(v, i) == IF i > Len(v.cs) THEN {} ELSE ScanAndTrade(Rest(v.cs, i), v.or)

\* next_valid_candidate: the trade found at the search position, within the day's limits.
Found(v, st) == IF MayTrade(st) THEN ScanFrom(v, st.from) ELSE {}
Against(st, tr) == ~SideOk([side |-> st.side], tr.side)
Dropped(cs, st, tr) == [st EXCEPT !.from = AtLeast(IndexAt(cs, @, tr.tout), @ + 1)]

MutTaken(cs, st, tr) == [Accepted(st, tr) EXCEPT !.from = IndexAt(cs, @, tr.tout + 1)]
\* accept_trade: the search goes on at the candle of the exit.
Taken(cs, st, tr) == [Accepted(st, tr) EXCEPT !.from = IndexAt(cs, @, tr.tout)]

\* A round of a loop that breaks when it finds nothing: the loops run for as many
\* rounds as there are candles, and a round after the break changes nothing.
Onward(next, st) == IF next = {} THEN st ELSE Only(next)

\* OrbFvgStrategy::run_day and run_solo are the same loop.
SoloNext(v, st) ==
    {IF Against(st, tr) THEN Dropped(v.cs, st, tr) ELSE Taken(v.cs, st, tr) : tr \in Found(v, st)}
SoloRound(v, st) == Onward(SoloNext(v, st), st)
SoloRounds(v) ==
    LET r[n \in 0..Len(v.cs)] == IF n = 0 THEN NoTrades ELSE SoloRound(v, r[n-1]) IN r
Solo(v) == SoloRounds(v)[Len(v.cs)].out

\* The scanned candles and the opening range of a stage, if it has both.
Prepared(scanned, opening) ==
    IF scanned = <<>> \/ opening = <<>> THEN {}
    ELSE {[cs |-> scanned, or |-> OpeningRange(opening)]}
View(cs, orEnd) == Prepared(From(cs, orEnd), Before(cs, orEnd))

LegacyDay(cs, orEnd) ==
    IF View(cs, orEnd) = {} THEN <<>> ELSE Solo(Only(View(cs, orEnd)))
LegacyRuns(cs) == [s \in DOMAIN Stages |-> LegacyDay(cs, Stages[s])]

\* The stage that enters first, the earlier one of two that enter together;
\* entry[s] is the set of the time stage s enters at.
FirstStage(entry) ==
    {s \in DOMAIN entry : entry[s] # {} /\ \A r \in DOMAIN entry : \A t \in entry[s], u \in entry[r] :
                              t < u \/ (t = u /\ s <= r)}

\* The stage that earns most.
MutFirstRun(runs) ==
    LET All(s) == Earned(runs[s])[Len(runs[s])]
    IN  runs[Min({s \in DOMAIN runs : \A r \in DOMAIN runs : All(s) >= All(r)})]

\* run_day_multi_stage: the day of the stage whose first trade enters first.
FirstRun(runs) ==
    LET first == FirstStage([s \in DOMAIN runs |-> {runs[s][n].tin : n \in DOMAIN runs[s] \cap {1}}])
    IN  IF first = {} THEN <<>> ELSE runs[Only(first)]
LegacyStages(cs) == FirstRun(LegacyRuns(cs))

--------------------------------------------------------------------------
\* The parity path on one stage (ParityDayRunner::run_day).

\* The state after a signal: none when the trade has no candle to end at.
AfterSignal(policy, cs, st, at, plan) ==
    IF ~Fills(policy, plan, cs[at]) THEN {[st EXCEPT !.from = at + 1]}
    ELSE {[Accepted(st, tr) EXCEPT !.from = AtLeast(IndexAt(cs, at, tr.tout), at + 1)] :
             tr \in SimulateExit(plan, cs[at].t, Rest(cs, at + 1))}
AfterNext(policy, cs, st, d) ==
    UNION {AfterSignal(policy, cs, st, st.from + d.idx - 1, Plan(policy, g)) : g \in d.gap}

ParityNext(policy, v, st) ==
    IF ~MayTrade(st) \/ st.from > Len(v.cs) THEN {}
    ELSE AfterNext(policy, v.cs, st, DetectNext(Rest(v.cs, st.from), Config(v.or, st.side)))
ParityRound(policy, v, st) == Onward(ParityNext(policy, v, st), st)
ParityRounds(policy, v) ==
    LET r[n \in 0..Len(v.cs)] == IF n = 0 THEN NoTrades ELSE ParityRound(policy, v, r[n-1]) IN r

ParityTrades(policy, v) == ParityRounds(policy, v)[Len(v.cs)].out
ParityDay(policy, cs, orEnd) ==
    IF View(cs, orEnd) = {} THEN <<>> ELSE ParityTrades(policy, Only(View(cs, orEnd)))

--------------------------------------------------------------------------
\* The parity path over all stages (run_day_live_like), on minutes.

PreparedStages(ms) == {s \in DOMAIN Stages : View(ms, Stages[s]) # {}}

\* next_stage_candidate: what each stage finds after the search time.
StageSignal(s, cs, d) ==
    {[stage |-> s, gap |-> g, t |-> cs[d.idx].t, rest |-> Rest(cs, d.idx + 1)] : g \in d.gap}
StageDetects(s, cs, or, side) ==
    IF Len(cs) < 3 THEN {} ELSE StageSignal(s, cs, DetectNext(cs, Config(or, side)))
StageFinds(ms, s, st) ==
    StageDetects(s, After(Aggregate(From(ms, Stages[s]), Width), st.after),
                 OpeningRange(Before(ms, Stages[s])), st.side)

\* The earliest signal, of the first stage when two are as early.
Earliest(found) ==
    {x \in found : \A y \in found : x.t < y.t \/ (x.t = y.t /\ x.stage <= y.stage)}

\* resolve_signal_time_1m: the first minute of the slot that is inside the gap.
SignalMinute(ms, x) ==
    ms[Min({n \in DOMAIN ms : /\ ms[n].t \div Width = x.t \div Width
                              /\ ms[n].t >= x.t /\ Retraced(x.gap, ms[n])})]

AfterEarliest(policy, st, x, plan, minute) ==
    IF ~Fills(policy, plan, minute) THEN {[st EXCEPT !.after = AtLeast(@, x.t)]}
    ELSE {Accepted(st, tr) : tr \in SimulateExit(plan, minute.t, x.rest)}

LiveLikeNext(policy, ms, st) ==
    LET found == IF MayTrade(st) THEN UNION {StageFinds(ms, s, st) : s \in PreparedStages(ms)}
                 ELSE {}
    IN  UNION {AfterEarliest(policy, st, x, Plan(policy, x.gap), SignalMinute(ms, x)) :
                  x \in Earliest(found)}
LiveLikeRound(policy, ms, st) == Onward(LiveLikeNext(policy, ms, st), st)
LiveLikeRounds(policy, ms) ==
    LET r[n \in 0..Len(ms)] == IF n = 0 THEN NoTrades ELSE LiveLikeRound(policy, ms, r[n-1]) IN r

LiveLikeDay(policy, ms) == LiveLikeRounds(policy, ms)[Len(ms)].out

--------------------------------------------------------------------------
\* Two codes under one lock (simulate_day_locked).

\* pick_strategy_for_day: the stage whose dry run enters first.
FirstEntry(cs, orEnd) ==
    UNION {{tr.tin : tr \in ScanAndTrade(v.cs, v.or)} : v \in View(cs, orEnd)}
Picked(cs) ==
    UNION {View(cs, Stages[s]) :
              s \in FirstStage([s \in DOMAIN Stages |-> FirstEntry(cs, Stages[s])])}

MutSynced(cs, st, unlock) == st
\* sync_search_to: past the candles up to the release of the lock.
Synced(cs, st, unlock) == [st EXCEPT !.from = AtLeast(@, IndexAt(cs, 1, unlock + 1))]

\* The candidate that enters first, the first code's when two enter together.
Entries(found) == UNION {{[code |-> k, trade |-> tr] : tr \in found[k]} : k \in 1..2}
FirstOf(found) ==
    {x \in Entries(found) : \A y \in Entries(found) :
        \/ x.trade.tin < y.trade.tin
        \/ x.trade.tin = y.trade.tin /\ x.code <= y.code}

\* What the loop keeps: the state of each code, when the lock was last released, and the
\* trades in the order the lock was given.
Unlocked == [st |-> [k \in 1..2 |-> NoTrades], unlock |-> -1, out |-> <<>>]

Given(v, s, x) ==
    [st |-> [s.st EXCEPT ![x.code] = Taken(v[x.code].cs, @, x.trade)],
     unlock |-> x.trade.tout, out |-> Append(s.out, x)]

\* v[k] is the view of code k.  A candidate against its code's side is dropped in a round
\* of its own, before the lock is given.
LockedNext(v, s) ==
    LET st      == [k \in 1..2 |-> Synced(v[k].cs, s.st[k], s.unlock)]
        found   == [k \in 1..2 |-> Found(v[k], st[k])]
        against == {k \in 1..2 : \E tr \in found[k] : Against(st[k], tr)}
    IN  IF against # {}
        THEN {[s EXCEPT !.st = [k \in 1..2 |-> IF k \in against
                                               THEN Dropped(v[k].cs, st[k], Only(found[k]))
                                               ELSE st[k]]]}
        ELSE {Given(v, [s EXCEPT !.st = st], x) : x \in FirstOf(found)}
LockedRound(v, s) == Onward(LockedNext(v, s), s)
LockedRounds(v) ==
    LET r[n \in 0..(Len(v[1].cs) + Len(v[2].cs))] ==
            IF n = 0 THEN Unlocked ELSE LockedRound(v, r[n-1])
    IN  r
LockedTrades(v) == LockedRounds(v)[Len(v[1].cs) + Len(v[2].cs)].out

Alone(k, trades) == [n \in DOMAIN trades |-> [code |-> k, trade |-> trades[n]]]

\* A code that signals at no time of the day leaves the other one to itself.
LockedViews(picked) ==
    LET v == [k \in 1..2 |-> Only(picked[k])]
    IN  CASE picked[1] # {} /\ picked[2] # {} ->
                 LockedTrades(v)
          [] picked[1] # {} /\ picked[2] = {} -> Alone(1, Solo(v[1]))
          [] picked[1] = {} /\ picked[2] # {} -> Alone(2, Solo(v[2]))
          [] OTHER -> <<>>
LockedDay(csA, csB) == LockedViews(<<Picked(csA), Picked(csB)>>)

--------------------------------------------------------------------------
Init == day \in Starts
NextBar ==
    /\ Len(day[1]) < MaxBars * Width
    /\ \E b \in Bars : day' = <<With(day[1], b[1]), With(day[2], b[2])>>
Next == NextBar
Spec == Init /\ [][Next]_day
--------------------------------------------------------------------------
\* The trades of each simulation of a day.
Legacy(ms)   == LegacyStages(Rows(ms))
Passive(ms)  == LiveLikeDay("Passive", ms)
Locked       == LockedDay(Rows(day[1]), Rows(day[2]))

\* A trade whose exit is not just the end of the candles.
Settled(tr) == tr.why # "EndOfDay" \/ tr.tout >= ForceExit

\* Each settled trade of an early simulation is, at its place, a trade of a late one.
Stands(early, late) ==
    \A n \in DOMAIN early : Settled(early[n]) => n \in DOMAIN late /\ late[n] = early[n]

\* Under the position lock no two trades of the two codes overlap: each one
\* enters after the exit of the one before it (simulate_day_locked).
OneAtATime ==
    \A trades \in {Locked} :
        \A n \in 2..Len(trades) : trades[n-1].trade.tout < trades[n].trade.tin

\* With the legacy entry policy the parity runner finds the very trades of the
\* legacy path: the two loops differ in the policy only (parity_backtest.rs:5-7).
LegacyParity ==
    \A s \in DOMAIN Stages :
        ParityDay("LegacyMid", Rows(day[1]), Stages[s]) = LegacyDay(Rows(day[1]), Stages[s])

\* A stop that ends a trade trades at a price its candle traded at, and once the
\* stop was moved it is no worse than the entry price, except when the candle
\* already opened beyond it (update_best_and_trailing comes before is_sl_hit).
\* Not so for a risk whose break-even distance is cut off to zero: that stop is
\* moved to the entry price by the first candle, wherever the candle trades.
HonestStops ==
    \A tr \in ToSet(Legacy(day[1])) \cup ToSet(Passive(day[1])) :
        LET c == CHOOSE x \in ToSet(Rows(day[1])) : x.t = tr.tout
        IN  /\ tr.why \in {"StopLoss", "BreakevenStop", "TrailingStop"}
            /\ Dist(Risk(tr.entry, tr.sl), BreakevenPct) > 0
            => /\ c.l <= tr.exit /\ tr.exit <= c.h
               /\ tr.why # "StopLoss" /\ tr.exit # c.o => Gain(tr.side, tr.exit, tr.entry) >= 0

\* No trade follows one that used up the number or the losses of a day.
LimitsKept ==
    \A trades \in {Legacy(day[1]), Passive(day[1])} :
        /\ Len(trades) <= MaxTrades
        /\ \A n \in 1..Len(trades)-1 : Earned(trades)[n] > MaxLossBp

\* What a simulation says of the trades of a morning does not depend on the
\* afternoon: no stage is chosen and no trade is changed by candles that came
\* after it (backtest.rs:660 "no choice after the fact").
NoHindsight ==
    LET morning == SubSeq(day[1], 1, Len(day[1]) - Width)
    IN  Stands(Legacy(morning), Legacy(day[1])) /\ Stands(Passive(morning), Passive(day[1]))
=============================================================================
