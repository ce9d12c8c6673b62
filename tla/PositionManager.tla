-------------------------- MODULE PositionManager --------------------------
(***************************************************************************)
(* The exit rules every trade is held to, live or simulated                 *)
(* (strategy/parity/position_manager.rs): the best price seen, the stop     *)
(* that follows it, and the tests that end a trade.  Prices are integers;   *)
(* distances are percentages of the risk, cut off to an integer as the      *)
(* code's `as i64` does, so that a small risk has a distance of zero.       *)
(***************************************************************************)
EXTENDS Integers

CONSTANTS
    TrailingPct,    \* PositionManagerConfig.trailing_r in percent
    BreakevenPct,   \* PositionManagerConfig.breakeven_r in percent
    TimeStop        \* PositionManagerConfig.time_stop_candles

ASSUME PctAssumption == TrailingPct \in Nat /\ BreakevenPct \in Nat
ASSUME TimeStopAssumption == TimeStop \in Nat

Sides == {"Long", "Short"}

\* How much better price p is than price q for a position of this side.
Gain(side, p, q) == IF side = "Long" THEN p - q ELSE q - p

\* The price that is d worse than p.
Behind(side, p, d) == IF side = "Long" THEN p - d ELSE p + d

Dist(risk, pct) == (risk * pct) \div 100

Risk(entry, sl) == IF entry >= sl THEN entry - sl ELSE sl - entry

\* A trade as it is managed: the best price, the stop, and whether the
\* distance of the break-even stop was reached.
Fresh(entry, sl) == [best |-> entry, sl |-> sl, reached |-> FALSE]

Best(side, pm, price) == IF Gain(side, price, pm.best) > 0 THEN price ELSE pm.best

\* Follows the price wherever it goes.
MutTrailed(side, stop, best, risk) == Behind(side, best, Dist(risk, TrailingPct))
\* The stop once the break-even distance is reached: at the entry price or
\* better, and moved only when that improves it.
Trailed(side, stop, best, risk) ==
    LET new == Behind(side, best, Dist(risk, TrailingPct))
    IN  IF Gain(side, new, stop) > 0 THEN new ELSE stop

UpdateBestAndTrailing(side, entry, risk, price, pm) ==
    LET best    == Best(side, pm, price)
        newly   == ~pm.reached /\ Gain(side, best, entry) >= Dist(risk, BreakevenPct)
        reached == pm.reached \/ newly
        stop    == IF newly THEN entry ELSE pm.sl
    IN  [best    |-> best,
         sl      |-> IF reached THEN Trailed(side, stop, best, risk) ELSE stop,
         reached |-> reached]

IsTpHit(side, tp, price)   == Gain(side, price, tp) >= 0
IsSlHit(side, sl, price)   == Gain(side, price, sl) <= 0
OpenGapBreach(side, sl, open) == IsSlHit(side, sl, open)

SlExitReason(side, pm, originalSl, entry) ==
    IF pm.reached /\ Gain(side, pm.sl, originalSl) > 0
    THEN IF pm.sl = entry THEN "BreakevenStop" ELSE "TrailingStop"
    ELSE "StopLoss"

GapExitReason(pm) == IF pm.reached THEN "TrailingStop" ELSE "StopLoss"

TimeStopBreached(elapsed, pm) == ~pm.reached /\ elapsed >= TimeStop
=============================================================================
