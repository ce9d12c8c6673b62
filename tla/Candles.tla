------------------------------ MODULE Candles ------------------------------
(***************************************************************************)
(* The candles a runner reads (infrastructure/websocket/candle_aggregator   *)
(* and the canonical merge of strategy/live_runner.rs).  Minutes are        *)
(* counted; a candle is its minute, its high and its low.  The bars of one  *)
(* minute are a list, in the order the code keeps them; those of a whole    *)
(* bucket, which only a backfill brings, are a set with one bar a bucket.   *)
(***************************************************************************)
EXTENDS Integers, FiniteSets, SequencesExt

CONSTANTS
    Open, Close,    \* 09:00 and 15:30, the first and last minute of trading
    Bucket          \* 5, the minutes of a bucket

ASSUME HoursAssumption  == Open \in Nat \ {0} /\ Close \in Nat /\ Open <= Close
ASSUME BucketAssumption == Bucket \in Nat \ {0}

BucketOf(t) == (t - Open) \div Bucket
NoBar == [t |-> 0, hi |-> 0, lo |-> 0]

Span(t, s) == [t |-> t, hi |-> Max({b.hi : b \in s}), lo |-> Min({b.lo : b \in s})]
Within(a, b) == a.hi <= b.hi /\ a.lo >= b.lo

\* PartialCandle::new and update.
Begun(t, p) == [t |-> t, hi |-> p, lo |-> p]
Grown(bar, p) == [bar EXCEPT !.hi = IF p > @ THEN p ELSE @, !.lo = IF p < @ THEN p ELSE @]

\* One bar for each minute, the later one.
MutPushed(ws, bar) == Append(SelectSeq(ws, LAMBDA b : b.t # bar.t), bar)
\* A bar is added at the end of the list, whatever the list holds.
Pushed(ws, bar) == Append(ws, bar)

\* By time, bars of the same time as they stood.
Before(ws, i) == {j \in DOMAIN ws : ws[j].t < ws[i].t \/ (ws[j].t = ws[i].t /\ j <= i)}
Sorted(ws) == [k \in DOMAIN ws |-> ws[CHOOSE i \in DOMAIN ws : Cardinality(Before(ws, i)) = k]]

\* A bar of the new ones takes the place of an old one of its time.
Replaced(old, new) == new \cup {b \in old : \A n \in new : n.t # b.t}

\* A backfill of the minutes: the bars that are there win.
Supplemented(ws, back, new) ==
    Sorted(ws \o SetToSeq({n \in new : \A b \in Range(ws) \cup back : b.t # n.t}))

\* candle::aggregate joins neighbours of one bucket, under the time of the first.
Joined(ws, i, j) == \A k \in i..j : BucketOf(ws[k].t) = BucketOf(ws[i].t)
Starts(ws) == {i \in DOMAIN ws : i > 1 => ~Joined(ws, i - 1, i)}
Group(ws, i) == Span(ws[i].t, {ws[j] : j \in {k \in i..Len(ws) : Joined(ws, i, k)}})

MutFinished(ws, now) == Starts(ws)
\* aggregate_completed_bars drops the last group while its bucket still runs.
Finished(ws, now) ==
    {i \in Starts(ws) : Group(ws, i).t + Bucket > now => \E j \in Starts(ws) : j > i}

\* fetch_canonical_5m_candles: a finished bucket's backfill, and a group of minutes
\* where no bar has its time yet.
Canonical(ws, back, now) ==
    LET five == {b \in back : b.t + Bucket <= now}
        done == Finished(ws, now)
    IN  five \cup {Group(ws, i) : i \in
                    {k \in done : /\ \A b \in five : b.t # ws[k].t
                                  /\ \A j \in done : j < k => ws[j].t # ws[k].t}}
=============================================================================
