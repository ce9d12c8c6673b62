---------------------------- MODULE SignalEngine ----------------------------
(***************************************************************************)
(* The signal search (strategy/parity/signal_engine.rs) over candles of     *)
(* five minutes: a fair value gap between the first and the third of three  *)
(* candles whose middle one leaves the opening range, then the first candle *)
(* that comes back into the gap.                                            *)
(***************************************************************************)
EXTENDS Integers, Sequences, SequencesExt, FiniteSetsExt

CONSTANTS
    Expiry,         \* fvg_expiry_candles
    Cutoff,         \* entry_cutoff, a time
    MinBreakout,    \* min_or_breakout_pct, in 1/1000
    LongOnly        \* long_only

\* A candle [t, o, h, l, c]; t is the minute it starts at.
AtLeast(x, y) == IF x >= y THEN x ELSE y
Abs(x) == AtLeast(x, -x)

Merge(a, b) == [a EXCEPT !.h = AtLeast(@, b.h), !.l = -AtLeast(-@, -b.l), !.c = b.c]

\* candle::aggregate: neighbours in the same slot become one candle.  Groups(cs, width)[n]
\* is what the first n candles make.
Grouped(out, c, width) ==
    IF out # <<>> /\ c.t \div width = out[Len(out)].t \div width
    THEN [out EXCEPT ![Len(out)] = Merge(@, c)]
    ELSE Append(out, c)
Groups(cs, width) ==
    LET g[n \in 0..Len(cs)] == IF n = 0 THEN <<>> ELSE Grouped(g[n-1], cs[n], width) IN g
Aggregate(cs, width) == Groups(cs, width)[Len(cs)]

ContainsPrice(gap, p) == gap.bottom <= p /\ p <= gap.top

BodyOk(a, b) == Abs(b.c - b.o) * 100 >= AtLeast(a.h - a.l, 1) * 30

\* The close leaves the opening range by the required share of it.
BreaksHigh(b, or) == b.c > or.high /\ (b.c - or.high) * 1000 >= or.high * MinBreakout
BreaksLow(b, or)  == b.c < or.low  /\ (or.low - b.c) * 1000 >= or.low * MinBreakout

SideOk(cfg, side) == cfg.side \in {"any", side}

\* The gap that candles a, b and c form, as a set of at most one.
FormedGap(a, b, c, cfg) ==
    LET bull == /\ b.c > b.o /\ a.h < c.l /\ BodyOk(a, b)
                /\ BreaksHigh(b, cfg.or) /\ SideOk(cfg, "Long")
        bear == /\ ~LongOnly /\ b.c < b.o /\ a.l > c.h /\ BodyOk(a, b)
                /\ BreaksLow(b, cfg.or) /\ SideOk(cfg, "Short")
    IN  IF bull THEN {[side |-> "Long", top |-> c.l, bottom |-> a.h, anchor |-> a.l]}
        ELSE IF bear THEN {[side |-> "Short", top |-> a.l, bottom |-> c.h, anchor |-> a.h]}
        ELSE {}

NoSignal == [idx |-> 0, gap |-> {}]

Retraced(gap, c) == ContainsPrice(gap, IF gap.side = "Long" THEN c.l ELSE c.h)

\* The search: the pending gap and the candle it was formed at, the candle that came back
\* into it (0: none yet), and whether the loop has ended.
Searching == [gap |-> {}, at |-> 0, idx |-> 0, over |-> FALSE]

\* One candle of detect_next_fvg_signal.
Search(cs, i, s, cfg) ==
    LET live == IF i - s.at > Expiry THEN {} ELSE s.gap
        new  == IF live = {} /\ i > 2 THEN FormedGap(cs[i-2], cs[i-1], cs[i], cfg) ELSE {}
    IN  IF s.over THEN s
        ELSE IF cs[i].t >= Cutoff THEN [s EXCEPT !.over = TRUE]
        ELSE IF new # {} THEN [s EXCEPT !.gap = new, !.at = i]
        ELSE IF \E g \in live : Retraced(g, cs[i])
             THEN [s EXCEPT !.gap = live, !.idx = i, !.over = TRUE]
        ELSE [s EXCEPT !.gap = live]
Searched(cs, cfg) ==
    LET s[n \in 0..Len(cs)] == IF n = 0 THEN Searching ELSE Search(cs, n, s[n-1], cfg) IN s

DetectNext(cs, cfg) ==
    LET s == Searched(cs, cfg)[Len(cs)]
    IN  IF s.idx = 0 THEN NoSignal ELSE [idx |-> s.idx, gap |-> s.gap]
=============================================================================
