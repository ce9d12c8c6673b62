-------------------------------- MODULE Feed --------------------------------
(***************************************************************************)
(* From the exchange to the candles: trades travel as ticks over the        *)
(* connection to the aggregator, which makes candles of them and saves      *)
(* them; backfills come from Yahoo or Naver; a watchdog ends a process that *)
(* hears nothing (main.rs), and a supervisor starts it again.  One code.    *)
(***************************************************************************)
EXTENDS Connection, Candles

CONSTANTS
    Prices,         \* prices trades are made at
    OrMinutes,      \* 15, the minutes of the opening range
    OrCutoff,       \* 30, the minutes after the open up to which a refresh counts
    StaleTick,      \* ws_stale_tick_secs, in minutes
    NeverTick,      \* the 600 s after the open in which no tick at all is accepted
    Schedule,       \* minutes at which the opening range is refreshed
    MaxTries,       \* attempts of a refresh, 20
    YahooPartial,   \* whether Yahoo's answer has the bucket that still runs
    LastMinute, MaxTraded, MaxWire, MaxRestarts   \* bounds

ASSUME PricesAssumption == Prices \subseteq Nat \ {0}
ASSUME OpeningAssumption == OrMinutes \in Nat /\ OrCutoff \in Nat
ASSUME LimitsAssumption == StaleTick \in Nat /\ NeverTick \in Nat /\ MaxTries \in Nat

Never == 0
Minutes == Open..Close

VARIABLES
    now,        \* the minute
    boot,       \* the minute the process was started in
    watched,    \* the watchdog has looked in this minute
    lastTick,   \* last_tick_epoch_secs, or Never
    quiet,      \* minutes of trading this process has gone through without a tick
    wire,       \* ticks on their way: [t, p]
    partial,    \* the candle that is being built, or NoBar
    ws, back,   \* completed: the minutes and the backfilled buckets
    db1, db5,   \* minute_ohlcv: bars by minute and by bucket
    stage, tries, tried,    \* the refresh: its number, its attempts, the minute of the last
    real,       \* what was traded: by minute [hi, lo, last], hi = 0 for nothing
    heard,      \* what this process heard: by minute a bar
    traded, restarts

clock    == <<now, boot, watched, quiet>>
candles  == <<partial, ws, back>>
database == <<db1, db5>>
refresh  == <<stage, tries, tried>>
feedVars == <<link, clock, lastTick, wire, candles, database, refresh, real, heard, traded, restarts>>

Trading(t) == Open <= t /\ t <= Close
Traded == {t \in Minutes : real[t].hi > 0}

--------------------------------------------------------------------------
\* The exchange, and the client.

Trade(p) ==
    /\ Trading(now) /\ traded < MaxTraded /\ Len(wire) < MaxWire
    /\ traded' = traded + 1
    /\ real' = [real EXCEPT ![now] =
                  IF @.hi = 0 THEN [hi |-> p, lo |-> p, last |-> p]
                  ELSE [hi |-> IF p > @.hi THEN p ELSE @.hi,
                        lo |-> IF p < @.lo THEN p ELSE @.lo, last |-> p]]
    /\ wire' = IF subscribed THEN Append(wire, [t |-> now, p |-> p]) ELSE wire
    /\ UNCHANGED <<link, clock, lastTick, candles, database, refresh, heard, restarts>>

Up(change) == change /\ UNCHANGED <<clock, lastTick, wire, candles, database, refresh,
                                    real, heard, traded, restarts>>
\* What was on its way on a connection is lost with it.
Down(change) == change /\ wire' = <<>>
                /\ UNCHANGED <<clock, lastTick, candles, database, refresh, real, heard,
                               traded, restarts>>

Client ==
    \/ Up(Connect) \/ Up(ConnectFails) \/ Up(Confirmed) \/ Up(Resume)
    \/ \E h \in BOOLEAN : Up(Unconfirmed(h))
    \/ Down(Closed) \/ Down(Broken)

--------------------------------------------------------------------------
\* The aggregator.

\* A finished candle goes to the list and to the database, which may refuse it.
Finish(saved) ==
    /\ ws' = Pushed(ws, partial)
    /\ db1' = IF saved THEN Replaced(db1, {partial}) ELSE db1

Stamp == lastTick' = now /\ quiet' = 0

\* A tick of the minute that is being built, or of another one, later or not.
Receive(saved) ==
    /\ conn = "listen" /\ wire # <<>>
    /\ LET tick == Head(wire)
       IN  /\ IF partial # NoBar /\ partial.t # tick.t
                THEN Finish(saved) ELSE UNCHANGED <<ws, db1>>
           /\ partial' = IF partial.t = tick.t THEN Grown(partial, tick.p)
                                               ELSE Begun(tick.t, tick.p)
           /\ heard' = [heard EXCEPT ![tick.t] =
                          IF @ = NoBar THEN Begun(tick.t, tick.p) ELSE Grown(@, tick.p)]
    /\ wire' = Tail(wire) /\ Stamp
    /\ UNCHANGED <<link, now, boot, watched, back, db5, refresh, real, traded, restarts>>

\* The channel overflowed before the aggregator read the tick.
Lag ==
    /\ conn = "listen" /\ wire # <<>>
    /\ wire' = Tail(wire) /\ Stamp
    /\ UNCHANGED <<link, now, boot, watched, candles, database, refresh, real, heard,
                   traded, restarts>>

\* 60 s without a message close the candle.
Silence(saved) ==
    /\ partial # NoBar /\ lastTick < now
    /\ Finish(saved) /\ partial' = NoBar
    /\ UNCHANGED <<link, clock, lastTick, wire, back, db5, refresh, real, heard, traded, restarts>>

--------------------------------------------------------------------------
\* Backfills.

BucketBar(t) ==
    LET ms == {m \in Traded : BucketOf(m) = BucketOf(t)}
    IN  Span(Open + Bucket * BucketOf(t), {real[m] : m \in ms})
YahooBars ==
    {b \in {BucketBar(t) : t \in Traded} : YahooPartial \/ b.t + Bucket <= now}

\* Yahoo's bars are not had, saved and not read back, or had.
YahooAnswer == {"none", "saved", "had"}

\* One attempt at a scheduled refresh, a minute after the one before.  It counts only if it
\* replaced a bar of the opening.
Refresh(yahoo) ==
    /\ stage <= Len(Schedule) /\ now >= Schedule[stage] /\ tried # now
    /\ yahoo = "none" \/ YahooBars # {}
    /\ LET rows == Replaced(db5, YahooBars)
           done == /\ yahoo = "had"
                   /\ \E b \in rows, e \in back : e.t = b.t /\ b.t <= Open + OrCutoff
           over == done \/ tries + 1 = MaxTries
       IN  /\ db5' = IF yahoo = "none" THEN db5 ELSE rows
           /\ back' = IF yahoo = "had" THEN Replaced(back, rows) ELSE back
           /\ ws' = IF yahoo = "had" THEN Sorted(ws) ELSE ws
           /\ stage' = IF over THEN stage + 1 ELSE stage
           /\ tries' = IF over THEN 0 ELSE tries + 1
           /\ tried' = IF over THEN Never ELSE now
    /\ UNCHANGED <<link, clock, lastTick, wire, partial, db1, real, heard, traded, restarts>>

HasOrData(s) == \E b \in s : b.t < Open + OrMinutes

\* Closing prices only, and in the database over whatever is there.
NaverBars == {[t |-> m, hi |-> real[m].last, lo |-> real[m].last] : m \in Traded}

\* preload_from_db and backfill_or at the start of a process: the preload may fail, and
\* without Yahoo's bars Naver answers or not.
Preloaded(loaded) == IF loaded THEN Sorted(SetToSeq(db1)) ELSE <<>>

StartCandles(loaded, yahoo) ==
    LET rows == Preloaded(loaded)
    IN  \/ /\ HasOrData(Range(rows))
           /\ ws' = rows /\ back' = {} /\ UNCHANGED database
        \/ /\ ~HasOrData(Range(rows)) /\ yahoo = "had" /\ YahooBars # {}
           /\ db5' = Replaced(db5, YahooBars) /\ back' = db5'
           /\ ws' = rows /\ UNCHANGED db1
        \/ /\ ~HasOrData(Range(rows)) /\ yahoo # "had"
           /\ db5' = IF yahoo = "saved" THEN Replaced(db5, YahooBars) ELSE db5
           /\ back' = {}
           /\ \/ ws' = Supplemented(rows, {}, NaverBars) /\ db1' = Replaced(db1, NaverBars)
              \/ ws' = rows /\ UNCHANGED db1

--------------------------------------------------------------------------
\* The watchdog.

MutSilentTooLong == lastTick # Never /\ now - lastTick > StaleTick
SilentTooLong ==
    \/ lastTick # Never /\ now - lastTick > StaleTick
    \/ lastTick = Never /\ now - Open > NeverTick
Critical == terminated \/ (Trading(now) /\ SilentTooLong)

\* It leaves a process its first minute.
Watch ==
    /\ ~watched /\ (now > boot => ~Critical)
    /\ watched' = TRUE
    /\ UNCHANGED <<link, now, boot, quiet, lastTick, wire, candles, database, refresh, real,
                   heard, traded, restarts>>

\* The process dies, by the watchdog or otherwise, and the next one starts.
Restart(loaded, yahoo) ==
    /\ restarts < MaxRestarts
    /\ restarts' = restarts + 1
    /\ boot' = now /\ watched' = FALSE /\ lastTick' = Never /\ quiet' = 0
    /\ wire' = <<>> /\ partial' = NoBar /\ Relinked
    /\ StartCandles(loaded, yahoo)
    /\ stage' = 1 /\ tries' = 0 /\ tried' = Never
    /\ heard' = [t \in Minutes |-> NoBar]
    /\ UNCHANGED <<now, real, traded>>

\* The watchdog looks every 10 s.
Minute ==
    /\ watched /\ now < LastMinute
    /\ now' = now + 1 /\ watched' = FALSE
    /\ quiet' = IF Trading(now) THEN quiet + 1 ELSE quiet
    /\ UNCHANGED <<link, boot, lastTick, wire, candles, database, refresh, real, heard,
                   traded, restarts>>

--------------------------------------------------------------------------
Init ==
    /\ LinkInit
    /\ now = Open - 1 /\ boot = now /\ watched = FALSE /\ lastTick = Never /\ quiet = 0
    /\ wire = <<>> /\ partial = NoBar /\ ws = <<>> /\ back = {} /\ db1 = {} /\ db5 = {}
    /\ stage = 1 /\ tries = 0 /\ tried = Never
    /\ real = [t \in Minutes |-> [hi |-> 0, lo |-> 0, last |-> 0]]
    /\ heard = [t \in Minutes |-> NoBar]
    /\ traded = 0 /\ restarts = 0

Next ==
    \/ \E p \in Prices : Trade(p)
    \/ Client \/ Lag \/ Watch \/ Minute
    \/ \E saved \in BOOLEAN : Receive(saved) \/ Silence(saved)
    \/ \E yahoo \in YahooAnswer : Refresh(yahoo)
    \/ \E loaded \in BOOLEAN, yahoo \in YahooAnswer : Restart(loaded, yahoo)

Spec == Init /\ [][Next]_feedVars
--------------------------------------------------------------------------
\* Until it is ended a process never goes through more minutes of trading without
\* a tick than the watchdog's limits allow (main.rs:979-984, a zombie process that
\* makes no candles), whatever became of its connection.
Patience == (IF NeverTick > StaleTick THEN NeverTick ELSE StaleTick) + 1
DeadFeedNoticed == quiet <= Patience

\* The client gives up only after a run of connections none of which was fully
\* confirmed (connection.rs:437-439), however many there were on the day.
RetriesEarned == terminated => streak >= MaxRetries

\* Of every minute the candles and the one being built span what the process
\* heard, and none of them shows a price that was not traded in its time.
Spans(t, s) == heard[t] = NoBar \/ (s # {} /\ Within(heard[t], Span(t, s)))
BucketReal(b) == Within(b, BucketBar(b.t))
CandlesFaithful ==
    /\ \A t \in Minutes : Spans(t, {b \in Range(ws) \cup {partial} : b.t = t})
    /\ \A b \in (Range(ws) \cup {partial}) \ {NoBar} : Within(b, real[b.t])
    /\ \A b \in back : BucketReal(b)

\* The runner never reads a candle of a bucket that is not over
\* (live_runner.rs:2333-2337).
NotAhead == \A b \in Canonical(ws, back, now) : now >= Open + Bucket * (BucketOf(b.t) + 1)
=============================================================================
