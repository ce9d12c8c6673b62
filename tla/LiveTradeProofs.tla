-------------------------- MODULE LiveTradeProofs --------------------------
(***************************************************************************)
(* Proofs about LiveTrade: whatever prices come, in whatever order the two  *)
(* tasks and the detached writes act, the stop of a trade is a function of  *)
(* the best price, the row is never ahead of it, and it is not loosened.    *)
(***************************************************************************)
EXTENDS LiveTrade, TLAPS

\* Where the runner stands, a position and a row exist or not.
Placed ==
    /\ pc \in {"poll", "armed", "ended"} => pos = None /\ row = None
    /\ pc = "saving" => pos # None /\ row = None /\ writes = {}
    /\ pc \in {"manage", "decide"} => pos # None /\ row # None

SameTrade == pos # None /\ row # None => row.entry = pos.entry /\ row.risk = pos.risk

\* A write in flight is of the trade whose row it finds, and was true of it once.
WritesFit ==
    \A w \in writes :
        /\ row # None => Trails(row.entry, row.risk, w.pm)
        /\ pos # None => (w.n = pos.n => NotAhead(w.pm, pos.pm))

RowFits == row # None => Trails(row.entry, row.risk, row.pm)

Inv == TypeOK /\ StopFollowsBest /\ RowNotAhead /\ Placed /\ SameTrade /\ WritesFit /\ RowFits

--------------------------------------------------------------------------
\* A distance is an integer.
LEMMA DistType ==
    ASSUME NEW risk \in Nat, NEW pct \in Nat
    PROVE  Dist(risk, pct) \in Int
  BY Z3 DEF Dist

\* update_best_and_trailing keeps the rule of the stop, and only improves a trade.
LEMMA Following ==
    ASSUME NEW entry \in Int, NEW risk \in Nat, NEW price \in Int, NEW pm \in PMs,
           Trails(entry, risk, pm)
    PROVE  LET new == UpdateBestAndTrailing("Long", entry, risk, price, pm)
           IN  new \in PMs /\ Trails(entry, risk, new) /\ NotAhead(pm, new)
  <1> DEFINE new == UpdateBestAndTrailing("Long", entry, risk, price, pm)
             d == Dist(risk, TrailingPct)
             e == Dist(risk, BreakevenPct)
             best == IF price > pm.best THEN price ELSE pm.best
             newly == ~pm.reached /\ best - entry >= e
             reached == pm.reached \/ newly
             stop == IF newly THEN entry ELSE pm.sl
             sl == IF reached THEN IF best - d > stop THEN best - d ELSE stop ELSE stop
  <1>1. d \in Int /\ e \in Int
    BY DistType, PctAssumption
  <1>2. pm.best \in Int /\ pm.sl \in Int /\ pm.reached \in BOOLEAN
    BY DEF PMs
  <1>3. pm = [best |-> pm.best, sl |-> pm.sl, reached |-> pm.reached]
    BY DEF PMs
  <1>4. \A p, q \in Int : (p - q > 0) = (p > q)
    BY Z3
  <1> HIDE DEF d, e
  <1>5. new = [best |-> best, sl |-> sl, reached |-> reached]
    BY <1>1, <1>2, Z3 DEF UpdateBestAndTrailing, Best, Gain, Trailed, Behind, d, e
  <1>6. /\ pm.best >= entry
        /\ ~pm.reached => pm.sl = entry - risk /\ (pm.best - entry < e \/ pm.best = entry)
        /\ pm.reached  => /\ pm.sl = IF pm.best - d > entry THEN pm.best - d ELSE entry
                          /\ pm.best - entry >= e
    BY DEF Trails, d, e
  <1>7. best \in Int /\ sl \in Int /\ reached \in BOOLEAN
    BY <1>1, <1>2
  <1>8. best >= entry /\ best >= pm.best
    BY <1>2, <1>6
  <1>9. ~reached => sl = entry - risk /\ (best - entry < e \/ best = entry)
    BY <1>1, <1>2, <1>6, <1>7
  <1>10. reached => /\ sl = IF best - d > entry THEN best - d ELSE entry
                    /\ best - entry >= e
    BY <1>1, <1>2, <1>6, <1>7, <1>8
  <1>11. sl >= pm.sl
    BY <1>1, <1>2, <1>6, <1>7, <1>8
  <1> HIDE DEF best, reached, sl, new
  <1>12. new.best = best /\ new.sl = sl /\ new.reached = reached
    BY <1>5
  <1>13. new \in PMs
    BY <1>5, <1>7 DEF PMs
  <1>14. Trails(entry, risk, new)
    BY <1>8, <1>9, <1>10, <1>12 DEF Trails, d, e
  <1>15. NotAhead(pm, new)
    <2>1. pm.reached => reached
      BY <1>2 DEF reached
    <2> QED BY <1>8, <1>11, <1>12, <2>1 DEF NotAhead
  <1> QED BY <1>13, <1>14, <1>15 DEF new

\* A trade that has just been entered follows the rule.
LEMMA FreshTrails ==
    ASSUME NEW entry \in Int, NEW risk \in Nat
    PROVE  Fresh(entry, entry - risk) \in PMs /\ Trails(entry, risk, Fresh(entry, entry - risk))
  <1> DEFINE f == Fresh(entry, entry - risk)
             sl == entry - risk
             reached == FALSE
  <1>1. f = [best |-> entry, sl |-> sl, reached |-> reached]
    BY DEF Fresh
  <1>2. sl \in Int /\ reached \in BOOLEAN /\ sl = entry - risk /\ ~reached
    OBVIOUS
  <1> HIDE DEF f, sl, reached
  <1>3. f \in PMs
    BY <1>1, <1>2 DEF PMs
  <1>4. Trails(entry, risk, f)
    BY <1>1, <1>2 DEF Trails
  <1> QED BY <1>2, <1>3, <1>4 DEF f, sl

\* Being no further is transitive.
LEMMA NotAheadTransitive ==
    ASSUME NEW a \in PMs, NEW b \in PMs, NEW c \in PMs, NotAhead(a, b), NotAhead(b, c)
    PROVE  NotAhead(a, c)
  BY DEF NotAhead, PMs
--------------------------------------------------------------------------
\* The records of the state have their types.

LEMMA LatestType ==
    ASSUME NEW p \in Nat, NEW b \in BOOLEAN
    PROVE  [p |-> p, fresh |-> b] \in [p : Nat, fresh : BOOLEAN]
  OBVIOUS

Positions == [n : Nat, entry : Int, risk : Nat, pm : PMs, tpOrder : BOOLEAN, hit : BOOLEAN]
Rows      == [n : Nat, entry : Int, risk : Nat, pm : PMs]

LEMMA PositionType ==
    ASSUME NEW n \in Nat, NEW entry \in Int, NEW risk \in Nat, NEW pm \in PMs,
           NEW placed \in BOOLEAN, NEW hit \in BOOLEAN
    PROVE  LET p == [n |-> n, entry |-> entry, risk |-> risk, pm |-> pm,
                     tpOrder |-> placed, hit |-> hit]
           IN  p \in Positions /\ p # None
  BY DEF Positions, None

\* A new position, one that was restored, and one that was heard of a price.
LEMMA EnteredType ==
    ASSUME NEW n \in Nat, NEW s \in Signals, NEW paid \in Prices, NEW placed \in BOOLEAN
    PROVE  LET p == Entered(n, s, paid, placed)
           IN  /\ p \in Positions /\ p # None
               /\ p.n = n /\ p.entry = paid /\ p.risk = s.risk
               /\ p.pm = Fresh(paid, paid - s.risk)
  <1>1. paid \in Nat /\ paid \in Int /\ s.risk \in Nat
    BY PricesAssumption, SignalsAssumption
  <1>2. Fresh(paid, paid - s.risk) \in PMs
    BY <1>1, FreshTrails
  <1> DEFINE pm == Fresh(paid, paid - s.risk)
             hit == FALSE
  <1> HIDE DEF pm
  <1>3. hit \in BOOLEAN
    OBVIOUS
  <1> HIDE DEF hit
  <1>4. [n |-> n, entry |-> paid, risk |-> s.risk, pm |-> pm, tpOrder |-> placed, hit |-> hit]
          = Entered(n, s, paid, placed)
    BY DEF Entered, pm, hit
  <1> QED BY <1>1, <1>2, <1>3, <1>4, PositionType DEF pm

LEMMA RestoredType ==
    ASSUME row \in Rows, NEW placed \in BOOLEAN
    PROVE  LET p == Restored(placed)
           IN  /\ p \in Positions /\ p # None
               /\ p.n = row.n /\ p.entry = row.entry /\ p.risk = row.risk /\ p.pm = row.pm
  <1> DEFINE hit == FALSE
  <1>1. hit \in BOOLEAN
    OBVIOUS
  <1> HIDE DEF hit
  <1>2. [n |-> row.n, entry |-> row.entry, risk |-> row.risk, pm |-> row.pm,
         tpOrder |-> placed, hit |-> hit] = Restored(placed)
    BY DEF Restored, hit
  <1>3. row.n \in Nat /\ row.entry \in Int /\ row.risk \in Nat /\ row.pm \in PMs
    BY DEF Rows
  <1> QED BY <1>1, <1>2, <1>3, PositionType

LEMMA MovedType ==
    ASSUME NEW p \in Positions, NEW price \in Int, Trails(p.entry, p.risk, p.pm)
    PROVE  /\ Moved(p, price) \in PMs
           /\ Trails(p.entry, p.risk, Moved(p, price)) /\ NotAhead(p.pm, Moved(p, price))
  BY Following DEF Moved, Positions

LEMMA ListenedType ==
    ASSUME NEW p \in Positions, NEW price \in Int, Trails(p.entry, p.risk, p.pm)
    PROVE  LET q == Listened(p, price)
           IN  /\ q \in Positions /\ q # None
               /\ q.n = p.n /\ q.entry = p.entry /\ q.risk = p.risk /\ q.pm = Moved(p, price)
  <1> DEFINE pm == Moved(p, price)
             hit == p.hit \/ IsSlHit("Long", pm.sl, price)
  <1>1. pm \in PMs
    BY MovedType
  <1>2. Listened(p, price) = [p EXCEPT !.pm = pm, !.hit = hit]
    BY DEF Listened
  <1>3. hit \in BOOLEAN
    BY DEF Positions
  <1> HIDE DEF pm, hit
  <1> QED BY <1>1, <1>2, <1>3 DEF Positions, None, pm

\* A trade that stays open takes over what the price made of it.
LEMMA StayedType ==
    ASSUME NEW p \in Positions, NEW pm \in PMs
    PROVE  LET q == [p EXCEPT !.pm = pm]
           IN  /\ q \in Positions /\ q # None
               /\ q.n = p.n /\ q.entry = p.entry /\ q.risk = p.risk /\ q.pm = pm
  BY DEF Positions, None

LEMMA TypedParts ==
    ASSUME TypeOK
    PROVE  /\ pos # None => pos \in Positions
           /\ row # None => row \in Rows
  BY DEF TypeOK, Positions, Rows

LEMMA CurrentType == TypeOK => Current \in Nat
  BY PricesAssumption DEF TypeOK, Current

--------------------------------------------------------------------------
\* What does not touch the trade, its row or a write keeps all but the types.

Walks == \/ pc' = pc
         \/ pc \in {"poll", "armed"} /\ pc' \in {"poll", "armed"}
         \/ pc \in {"manage", "decide"} /\ pc' \in {"manage", "decide"}

Rest == StopFollowsBest /\ RowNotAhead /\ Placed /\ SameTrade /\ WritesFit /\ RowFits

LEMMA Quiet ==
    ASSUME Inv, UNCHANGED <<pos, row, writes>>, Walks
    PROVE  Rest'
  <1>1. StopFollowsBest' /\ RowNotAhead' /\ SameTrade' /\ WritesFit' /\ RowFits'
    BY DEF Inv, StopFollowsBest, RowNotAhead, SameTrade, WritesFit, RowFits, Open
  <1>2. Placed'
    BY DEF Inv, Placed, Walks
  <1> QED BY <1>1, <1>2 DEF Rest

--------------------------------------------------------------------------
\* The price listener.

LEMMA ListenStep ==
    ASSUME Inv, Listen
    PROVE  Inv'
  <1>1. heard \in Int /\ UNCHANGED <<row, writes, pc>>
    BY DEF Inv, TypeOK, Listen, store
  <1>2. CASE pos = None
    <2>1. pos' = pos
      BY <1>2 DEF Listen, Open
    <2>2. Rest'
      BY <1>1, <2>1, Quiet DEF Walks
    <2>3. TypeOK'
      BY <1>1, <2>1 DEF Inv, TypeOK, Listen, store, watch, NoPrice
    <2> QED BY <2>2, <2>3 DEF Inv, Rest
  <1>3. CASE pos # None
    <2> DEFINE q == Listened(pos, heard)
    <2>1. pos' = q
      BY <1>3 DEF Listen, Open
    <2>2. pos \in Positions /\ Trails(pos.entry, pos.risk, pos.pm)
      BY <1>3, TypedParts DEF Inv, StopFollowsBest, Open
    <2>3. /\ q \in Positions /\ q # None
          /\ q.n = pos.n /\ q.entry = pos.entry /\ q.risk = pos.risk
          /\ q.pm = Moved(pos, heard)
      BY <1>1, <2>2, ListenedType
    <2>4. /\ Moved(pos, heard) \in PMs
          /\ Trails(pos.entry, pos.risk, Moved(pos, heard))
          /\ NotAhead(pos.pm, Moved(pos, heard))
      BY <1>1, <2>2, MovedType
    <2> HIDE DEF q
    <2>5. TypeOK'
      BY <1>1, <2>1, <2>3 DEF Inv, TypeOK, Listen, store, watch, NoPrice, Positions
    <2>6. StopFollowsBest'
      BY <2>1, <2>3, <2>4 DEF StopFollowsBest
    <2>7. RowNotAhead'
      <3> SUFFICES ASSUME row # None, row.n = pos.n
                   PROVE  NotAhead(row.pm, q.pm)
        BY <1>1, <2>1, <2>3 DEF RowNotAhead
      <3>1. NotAhead(row.pm, pos.pm)
        BY <1>3 DEF Inv, RowNotAhead, Open
      <3>2. row.pm \in PMs /\ pos.pm \in PMs
        BY <2>2, TypedParts DEF Inv, Rows, Positions
      <3> QED BY <2>3, <2>4, <3>1, <3>2, NotAheadTransitive
    <2>8. Placed' /\ SameTrade' /\ RowFits'
      BY <1>1, <1>3, <2>1, <2>3 DEF Inv, Placed, SameTrade, RowFits
    <2>9. WritesFit'
      <3> SUFFICES ASSUME NEW w \in writes
                   PROVE  /\ row # None => Trails(row.entry, row.risk, w.pm)
                          /\ w.n = q.n => NotAhead(w.pm, q.pm)
        BY <1>1, <2>1 DEF WritesFit
      <3>1. w.pm \in PMs /\ pos.pm \in PMs
        BY <2>2 DEF Inv, TypeOK, Positions
      <3>2. row # None => Trails(row.entry, row.risk, w.pm)
        BY DEF Inv, WritesFit
      <3>3. w.n = pos.n => NotAhead(w.pm, pos.pm)
        BY <1>3 DEF Inv, WritesFit
      <3> QED BY <2>3, <2>4, <3>1, <3>2, <3>3, NotAheadTransitive
    <2> QED BY <2>5, <2>6, <2>7, <2>8, <2>9 DEF Inv
  <1> QED BY <1>2, <1>3

--------------------------------------------------------------------------
\* The market, the search and the watch.

LEMMA MarketStep ==
    ASSUME Inv,
           \/ \E p \in Prices : Move(p)
           \/ \E q \in {"none", "ok", "wide", "invalid"} : Quote(q)
           \/ FillTp \/ Tick \/ GoStale \/ Grow
    PROVE  Inv'
  <1> USE DEF feed, watch, held, store
  <1>1. UNCHANGED <<pos, row, writes, pc>>
    BY DEF Move, Quote, FillTp, Tick, GoStale, Grow
  <1>2. Rest'
    BY <1>1, Quiet DEF Walks
  <1>3. TypeOK'
    <2>1. CASE \E p \in Prices : Move(p)
      BY <2>1 DEF Inv, TypeOK, Move
    <2>2. CASE \E q \in {"none", "ok", "wide", "invalid"} : Quote(q)
      BY <2>2 DEF Inv, TypeOK, Quote
    <2>3. CASE FillTp
      BY <2>3 DEF Inv, TypeOK, FillTp
    <2>4. CASE Tick
      <3>1. market \in Nat
        BY PricesAssumption DEF Inv, TypeOK
      <3>2. latest' \in [p : Nat, fresh : BOOLEAN]
        BY <2>4, <3>1, LatestType, Zenon DEF Tick
      <3> QED BY <2>4, <3>1, <3>2 DEF Inv, TypeOK, Tick
    <2>5. CASE GoStale
      <3> DEFINE fresh == FALSE
      <3>1. latest' = [latest EXCEPT !.fresh = fresh] /\ fresh \in BOOLEAN
        BY <2>5 DEF GoStale
      <3> HIDE DEF fresh
      <3>2. latest' \in [p : Nat, fresh : BOOLEAN]
        BY <3>1 DEF Inv, TypeOK
      <3> QED BY <2>5, <3>2 DEF Inv, TypeOK, GoStale
    <2>6. CASE Grow
      BY <2>6 DEF Inv, TypeOK, Grow
    <2> QED BY <2>1, <2>2, <2>3, <2>4, <2>5, <2>6
  <1> QED BY <1>2, <1>3 DEF Inv, Rest

LEMMA SearchStep ==
    ASSUME Inv,
           \/ PollUnhealthy \/ PollHealthy \/ \E s \in Signals : Arm(s)
           \/ WatchUnhealthy \/ WatchDrifted \/ WatchOn \/ WatchUnfilled
           \/ \E advance \in BOOLEAN : WatchTimeout(advance)
    PROVE  Inv'
  <1> USE DEF feed, watch, held, store
  <1>1. UNCHANGED <<pos, row, writes>> /\ Walks
    BY DEF PollUnhealthy, PollHealthy, Arm, WatchUnhealthy, WatchDrifted, WatchOn,
           WatchUnfilled, WatchTimeout, Forget, Walks
  <1>2. Rest'
    BY <1>1, Quiet
  <1>3. TypeOK'
    <2>1. CASE PollUnhealthy \/ PollHealthy
      BY <2>1 DEF Inv, TypeOK, PollUnhealthy, PollHealthy
    <2>2. CASE \E s \in Signals : Arm(s)
      BY <2>2, SignalsAssumption DEF Inv, TypeOK, Arm
    <2>3. CASE \E advance \in BOOLEAN : Forget(advance)
      BY <2>3, SignalsAssumption DEF Inv, TypeOK, Forget
    <2>4. CASE WatchOn
      BY <2>4 DEF Inv, TypeOK, WatchOn
    <2> QED BY <2>1, <2>2, <2>3, <2>4 DEF WatchUnhealthy, WatchDrifted, WatchUnfilled, WatchTimeout
  <1> QED BY <1>2, <1>3 DEF Inv, Rest

\* The entry, and its row.
LEMMA EnterStep ==
    ASSUME Inv, NEW paid \in Prices, NEW placed \in BOOLEAN, WatchFilled(paid, placed)
    PROVE  Inv'
  <1> USE DEF feed, watch, store
  <1> DEFINE p == Entered(trades + 1, sig, paid, placed)
  <1>1. /\ pos' = p /\ pc' = "saving" /\ writes' = {} /\ writes = {}
        /\ row = None /\ row' = None
    BY DEF WatchFilled, Inv, Placed
  <1>2. trades + 1 \in Nat /\ sig \in Signals
    BY DEF Inv, TypeOK
  <1>3. /\ p \in Positions /\ p # None /\ p.entry = paid /\ p.risk = sig.risk
        /\ p.pm = Fresh(paid, paid - sig.risk)
    BY <1>2, EnteredType
  <1> HIDE DEF p
  <1>4. Trails(p.entry, p.risk, p.pm)
    <2>1. paid \in Int /\ sig.risk \in Nat
      BY <1>2, PricesAssumption, SignalsAssumption
    <2>2. Trails(paid, sig.risk, Fresh(paid, paid - sig.risk))
      BY <2>1, FreshTrails
    <2> QED BY <1>3, <2>2
  <1>5. TypeOK'
    BY <1>1, <1>2, <1>3 DEF Inv, TypeOK, WatchFilled, Positions
  <1>6. StopFollowsBest' /\ RowNotAhead' /\ Placed' /\ SameTrade' /\ WritesFit' /\ RowFits'
    BY <1>1, <1>3, <1>4
       DEF StopFollowsBest, RowNotAhead, Placed, SameTrade, WritesFit, RowFits, Open
  <1> QED BY <1>5, <1>6 DEF Inv

LEMMA SaveStep ==
    ASSUME Inv, SaveRow
    PROVE  Inv'
  <1> USE DEF feed, watch, held
  <1> DEFINE f == Fresh(pos.entry, pos.entry - pos.risk)
  <1>1. /\ pos' = pos /\ pos # None /\ pc' = "manage" /\ writes' = {}
        /\ row' = [n |-> pos.n, entry |-> pos.entry, risk |-> pos.risk, pm |-> f]
    BY DEF SaveRow, Inv, Placed, Original
  <1>2. pos \in Positions /\ Trails(pos.entry, pos.risk, pos.pm)
    BY <1>1, TypedParts DEF Inv, StopFollowsBest, Open
  <1>3. pos.n \in Nat /\ pos.entry \in Int /\ pos.risk \in Nat /\ pos.pm \in PMs
    BY <1>2 DEF Positions
  <1>4. f \in PMs /\ Trails(pos.entry, pos.risk, f)
    BY <1>3, FreshTrails
  <1>5. NotAhead(f, pos.pm)
    <2>1. f.best = pos.entry /\ f.sl = pos.entry - pos.risk /\ ~f.reached
      BY DEF Fresh
    <2>2. pos.pm.best \in Int /\ pos.pm.sl \in Int /\ pos.pm.reached \in BOOLEAN
      BY <1>3 DEF PMs
    <2>3. Dist(pos.risk, TrailingPct) \in Int
      BY <1>3, DistType, PctAssumption
    <2> HIDE DEF f
    <2> QED BY <1>2, <1>3, <2>1, <2>2, <2>3 DEF NotAhead, Trails
  <1> HIDE DEF f
  <1>6. /\ row' \in Rows /\ row' # None
        /\ row'.n = pos.n /\ row'.entry = pos.entry /\ row'.risk = pos.risk /\ row'.pm = f
    BY <1>1, <1>3, <1>4 DEF Rows, None
  <1>7. TypeOK'
    BY <1>1, <1>6 DEF Inv, TypeOK, SaveRow, Rows
  <1>8. StopFollowsBest' /\ RowNotAhead' /\ Placed' /\ SameTrade' /\ WritesFit' /\ RowFits'
    BY <1>1, <1>2, <1>4, <1>5, <1>6
       DEF StopFollowsBest, RowNotAhead, Placed, SameTrade, WritesFit, RowFits, Open
  <1> QED BY <1>7, <1>8 DEF Inv

--------------------------------------------------------------------------
\* The open position.

\* A trade that ends leaves neither a position nor a row.
LEMMA CloseStep ==
    ASSUME Close
    PROVE  Rest'
  <1>1. pos' = None /\ row' = None /\ pc' = "poll"
    BY DEF Close
  <1> QED BY <1>1 DEF Rest, StopFollowsBest, RowNotAhead, Placed, SameTrade, WritesFit, RowFits, Open

LEMMA ReadStep ==
    ASSUME Inv, ReadPrice
    PROVE  Inv'
  <1> USE DEF feed, watch, held, store
  <1>1. Rest'
    BY Quiet DEF ReadPrice, Walks
  <1>2. TypeOK'
    BY CurrentType DEF Inv, TypeOK, ReadPrice
  <1> QED BY <1>1, <1>2 DEF Inv, Rest

LEMMA TakeProfitStep ==
    ASSUME Inv, DecideTp \/ DecideTpUnknown
    PROVE  Inv'
  <1> USE DEF feed
  <1>1. CASE Close /\ DecideTp
    <2>1. TypeOK'
      BY <1>1, SignalsAssumption DEF Inv, TypeOK, Close, DecideTp, NoPrice
    <2> QED BY <1>1, <2>1, CloseStep DEF Inv, Rest
  <1>2. CASE Stay(pos)
    <2>1. TypeOK'
      BY <1>2 DEF Inv, TypeOK, Stay, DecideTp, DecideTpUnknown, NoPrice
    <2>2. Rest'
      BY <1>2, Quiet DEF Stay, DecideTp, DecideTpUnknown, Walks
    <2> QED BY <2>1, <2>2 DEF Inv, Rest
  <1> QED BY <1>1, <1>2 DEF DecideTp, DecideTpUnknown

LEMMA DecideStep ==
    ASSUME Inv, Decide
    PROVE  Inv'
  <1> USE DEF feed
  <1> DEFINE pm == Moved(pos, seen)
             q == [pos EXCEPT !.pm = pm]
             told == {[n |-> pos.n, pm |-> pm] : x \in {y \in {pos} : Changed(y, pm)}}
  <1>1. pos # None /\ row # None /\ pc = "decide" /\ seen \in Int
    BY DEF Inv, TypeOK, Placed, Decide
  <1>2. pos \in Positions /\ row \in Rows /\ Trails(pos.entry, pos.risk, pos.pm)
    BY <1>1, TypedParts DEF Inv, StopFollowsBest, Open
  <1>3. pm \in PMs /\ Trails(pos.entry, pos.risk, pm) /\ NotAhead(pos.pm, pm)
    BY <1>1, <1>2, MovedType
  <1>4. DecideStop(pm) /\ writes' = writes \cup told
    BY DEF Decide
  <1>5. \A w \in told : w = [n |-> pos.n, pm |-> pm]
    OBVIOUS
  <1> HIDE DEF pm, told
  <1>6. /\ q \in Positions /\ q # None
        /\ q.n = pos.n /\ q.entry = pos.entry /\ q.risk = pos.risk /\ q.pm = pm
    BY <1>2, <1>3, StayedType
  <1> HIDE DEF q
  <1>7. writes' \subseteq [n : Nat, pm : PMs]
    BY <1>2, <1>3, <1>4, <1>5 DEF Inv, TypeOK, Positions
  <1>8. CASE Close
    <2>1. TypeOK'
      BY <1>7, <1>8, SignalsAssumption DEF Inv, TypeOK, Close, Decide, NoPrice
    <2> QED BY <1>8, <2>1, CloseStep DEF Inv, Rest
  <1>9. CASE Stay(q)
    <2>1. pos' = q /\ row' = row /\ pc' = "manage"
      BY <1>9 DEF Stay
    <2>2. TypeOK'
      BY <1>6, <1>7, <1>9, <2>1 DEF Inv, TypeOK, Stay, Decide, NoPrice, Positions
    <2>3. StopFollowsBest' /\ Placed' /\ SameTrade' /\ RowFits'
      BY <1>1, <1>3, <1>6, <2>1
         DEF Inv, StopFollowsBest, Placed, SameTrade, RowFits, Open
    <2>4. RowNotAhead'
      <3> SUFFICES ASSUME row.n = pos.n
                   PROVE  NotAhead(row.pm, pm)
        BY <1>6, <2>1 DEF RowNotAhead
      <3>1. NotAhead(row.pm, pos.pm)
        BY <1>1 DEF Inv, RowNotAhead, Open
      <3>2. row.pm \in PMs /\ pos.pm \in PMs
        BY <1>2 DEF Rows, Positions
      <3> QED BY <1>3, <3>1, <3>2, NotAheadTransitive
    <2>5. WritesFit'
      <3> SUFFICES ASSUME NEW w \in writes \cup told
                   PROVE  /\ Trails(row.entry, row.risk, w.pm)
                          /\ w.n = pos.n => NotAhead(w.pm, pm)
        BY <1>4, <1>6, <2>1 DEF WritesFit
      <3>1. CASE w \in writes
        <4>1. w.pm \in PMs /\ pos.pm \in PMs
          BY <1>2, <3>1 DEF Inv, TypeOK, Positions
        <4>2. Trails(row.entry, row.risk, w.pm)
          BY <1>1, <3>1 DEF Inv, WritesFit
        <4>3. w.n = pos.n => NotAhead(w.pm, pos.pm)
          BY <1>1, <3>1 DEF Inv, WritesFit
        <4> QED BY <1>3, <4>1, <4>2, <4>3, NotAheadTransitive
      <3>2. CASE w \in told
        <4>1. w.pm = pm
          BY <1>5, <3>2
        <4>2. row.entry = pos.entry /\ row.risk = pos.risk
          BY <1>1 DEF Inv, SameTrade
        <4> QED BY <1>3, <4>1, <4>2 DEF NotAhead, PMs
      <3> QED BY <3>1, <3>2
    <2> QED BY <2>2, <2>3, <2>4, <2>5 DEF Inv
  <1> QED BY <1>4, <1>8, <1>9 DEF DecideStop, q

--------------------------------------------------------------------------
\* Writes in flight, the end of the day, and a restart.

LEMMA LandStep ==
    ASSUME Inv, NEW w \in writes, Land(w)
    PROVE  Inv'
  <1> USE DEF feed, watch, held
  <1>1. UNCHANGED <<pos, pc>> /\ writes' = writes \ {w} /\ w.n \in Nat /\ w.pm \in PMs
    BY DEF Land, Inv, TypeOK
  <1>2. CASE row = None
    <2>1. row' = None
      BY <1>2 DEF Land
    <2>2. TypeOK'
      BY <1>1, <2>1 DEF Inv, TypeOK, Land
    <2>3. StopFollowsBest' /\ RowNotAhead' /\ Placed' /\ SameTrade' /\ WritesFit' /\ RowFits'
      BY <1>1, <1>2, <2>1
         DEF Inv, StopFollowsBest, RowNotAhead, Placed, SameTrade, WritesFit, RowFits, Open
    <2> QED BY <2>2, <2>3 DEF Inv
  <1>3. CASE row # None
    <2>1. row \in Rows /\ row' = [row EXCEPT !.n = w.n, !.pm = w.pm]
      BY <1>3, TypedParts DEF Land, Inv
    <2>2. /\ row' \in Rows /\ row' # None
          /\ row'.n = w.n /\ row'.entry = row.entry /\ row'.risk = row.risk /\ row'.pm = w.pm
      BY <1>1, <2>1 DEF Rows, None
    <2>3. TypeOK'
      BY <1>1, <2>2 DEF Inv, TypeOK, Land, Rows
    <2>4. StopFollowsBest' /\ RowNotAhead'
      BY <1>1, <2>2 DEF Inv, StopFollowsBest, RowNotAhead, WritesFit, Open
    <2>5. Placed'
      BY <1>1, <1>3, <2>2 DEF Inv, Placed
    <2>6. SameTrade' /\ WritesFit' /\ RowFits'
      BY <1>1, <1>3, <2>2 DEF Inv, SameTrade, WritesFit, RowFits
    <2> QED BY <2>3, <2>4, <2>5, <2>6 DEF Inv
  <1> QED BY <1>2, <1>3

LEMMA LoseStep ==
    ASSUME Inv, NEW w \in writes, Lose(w)
    PROVE  Inv'
  <1> USE DEF feed, watch, held
  <1>1. TypeOK'
    BY DEF Inv, TypeOK, Lose
  <1>2. StopFollowsBest' /\ RowNotAhead' /\ Placed' /\ SameTrade' /\ WritesFit' /\ RowFits'
    BY DEF Inv, Lose, StopFollowsBest, RowNotAhead, Placed, SameTrade, WritesFit, RowFits, Open
  <1> QED BY <1>1, <1>2 DEF Inv

LEMMA EndStep ==
    ASSUME Inv, EndOfDay
    PROVE  Inv'
  <1> USE DEF feed, watch
  <1>1. pos' = None /\ row' = None /\ pc' = "ended"
    BY DEF EndOfDay, Inv, Placed, Open
  <1>2. TypeOK'
    BY <1>1 DEF Inv, TypeOK, EndOfDay
  <1>3. Rest'
    BY <1>1 DEF Rest, StopFollowsBest, RowNotAhead, Placed, SameTrade, WritesFit, RowFits, Open
  <1> QED BY <1>2, <1>3 DEF Inv, Rest

LEMMA CrashStep ==
    ASSUME Inv, NEW placed \in BOOLEAN, Crash(placed)
    PROVE  Inv'
  <1>1. /\ row' = row /\ writes' = {} /\ market' = market /\ sig' = sig
        /\ traded' = traded /\ trades' = trades /\ age' = age /\ crashes' = crashes + 1
        /\ quote' = "none" /\ heard' = 0 /\ seen' = 0 /\ round' = 0 /\ search' = traded
        /\ degraded' = FALSE /\ tpDone' = FALSE
    BY DEF Crash, NoPrice
  <1>2. latest' \in [p : Nat, fresh : BOOLEAN]
    <2>1. latest' = [p |-> 0, fresh |-> FALSE]
      BY DEF Crash, NoPrice
    <2> QED BY <2>1, LatestType, Zenon
  <1>3. /\ market' \in Prices /\ quote' \in {"none", "ok", "wide", "invalid"}
        /\ heard' \in Nat /\ seen' \in Nat /\ sig' \in Signals
        /\ round' \in Nat /\ search' \in Nat /\ traded' \in Nat
    BY <1>1 DEF Inv, TypeOK
  <1>4. degraded' \in BOOLEAN /\ tpDone' \in BOOLEAN /\ trades' \in Nat /\ age' \in Nat
    BY <1>1 DEF Inv, TypeOK
  <1>5. /\ row' \in {None} \cup Rows /\ crashes' \in Nat
        /\ writes' \subseteq [n : Nat, pm : PMs]
    BY <1>1 DEF Inv, TypeOK, Rows
  <1>6. CASE row = None
    <2>1. pos' = None /\ pc' = "poll"
      BY <1>6 DEF Crash
    <2>2. TypeOK'
      BY <1>2, <1>3, <1>4, <1>5, <2>1 DEF TypeOK, Rows
    <2>3. Rest'
      BY <1>1, <1>6, <2>1
         DEF Rest, StopFollowsBest, RowNotAhead, Placed, SameTrade, WritesFit, RowFits, Open
    <2> QED BY <2>2, <2>3 DEF Inv, Rest
  <1>7. CASE row # None
    <2> DEFINE p == Restored(placed)
    <2>1. pos' = p /\ pc' = "manage"
      BY <1>7 DEF Crash
    <2>2. row \in Rows /\ Trails(row.entry, row.risk, row.pm)
      BY <1>7, TypedParts DEF Inv, RowFits
    <2>3. /\ p \in Positions /\ p # None
          /\ p.n = row.n /\ p.entry = row.entry /\ p.risk = row.risk /\ p.pm = row.pm
      BY <2>2, RestoredType
    <2> HIDE DEF p
    <2>4. TypeOK'
      BY <1>2, <1>3, <1>4, <1>5, <2>1, <2>3 DEF TypeOK, Rows, Positions
    <2>5. NotAhead(row.pm, row.pm)
      BY <2>2 DEF NotAhead, Rows, PMs
    <2>6. Rest'
      BY <1>1, <1>7, <2>1, <2>2, <2>3, <2>5
         DEF Rest, StopFollowsBest, RowNotAhead, Placed, SameTrade, WritesFit, RowFits, Open
    <2> QED BY <2>4, <2>6 DEF Inv, Rest
  <1> QED BY <1>6, <1>7

--------------------------------------------------------------------------
LEMMA Initial == Init => Inv
  <1> SUFFICES ASSUME Init PROVE Inv
    OBVIOUS
  <1>1. latest \in [p : Nat, fresh : BOOLEAN]
    <2>1. latest = [p |-> 0, fresh |-> FALSE]
      BY DEF Init, NoPrice
    <2> QED BY <2>1, LatestType, Zenon
  <1>2. TypeOK
    BY <1>1 DEF Init, TypeOK, NoPrice
  <1>3. StopFollowsBest /\ RowNotAhead /\ Placed /\ SameTrade /\ WritesFit /\ RowFits
    BY DEF Init, StopFollowsBest, RowNotAhead, Placed, SameTrade, WritesFit, RowFits, Open
  <1> QED BY <1>2, <1>3 DEF Inv

LEMMA Step == Inv /\ [Next]_vars => Inv'
  <1> SUFFICES ASSUME Inv, [Next]_vars PROVE Inv'
    OBVIOUS
  <1>1. CASE \/ \E p \in Prices : Move(p)
             \/ \E q \in {"none", "ok", "wide", "invalid"} : Quote(q)
             \/ FillTp \/ Tick \/ GoStale \/ Grow
    BY <1>1, MarketStep
  <1>2. CASE \/ PollUnhealthy \/ PollHealthy \/ \E s \in Signals : Arm(s)
             \/ WatchUnhealthy \/ WatchDrifted \/ WatchOn \/ WatchUnfilled
             \/ \E advance \in BOOLEAN : WatchTimeout(advance)
    BY <1>2, SearchStep
  <1>3. CASE \E paid \in Prices, placed \in BOOLEAN : WatchFilled(paid, placed)
    BY <1>3, EnterStep
  <1>4. CASE Listen
    BY <1>4, ListenStep
  <1>5. CASE SaveRow
    BY <1>5, SaveStep
  <1>6. CASE ReadPrice \/ DecideTp \/ DecideTpUnknown \/ Decide
    BY <1>6, ReadStep, TakeProfitStep, DecideStep
  <1>7. CASE \E w \in writes : Land(w) \/ Lose(w)
    BY <1>7, LandStep, LoseStep
  <1>8. CASE EndOfDay
    BY <1>8, EndStep
  <1>9. CASE \E placed \in BOOLEAN : Crash(placed)
    BY <1>9, CrashStep
  <1>10. CASE UNCHANGED vars
    <2> USE DEF vars, feed, watch, held, store
    <2>1. Rest'
      BY <1>10, Quiet DEF Walks
    <2>2. TypeOK'
      BY <1>10 DEF Inv, TypeOK
    <2> QED BY <2>1, <2>2 DEF Inv, Rest
  <1> QED BY <1>1, <1>2, <1>3, <1>4, <1>5, <1>6, <1>7, <1>8, <1>9, <1>10 DEF Next, Watch, Manage

\* The state has its types (live_runner.rs, RunnerState and the locals of the tasks).
THEOREM Types == Spec => []TypeOK
  <1>1. Inv => TypeOK
    BY DEF Inv
  <1> QED BY <1>1, Initial, Step, PTL DEF Spec

\* Whatever the prices, the signals and the percentages, in every order of listener,
\* runner, writes and restarts, the stop is the one its best price calls for.
THEOREM TheStopFollowsTheBest == Spec => []StopFollowsBest
  <1>1. Inv => StopFollowsBest
    BY DEF Inv
  <1> QED BY <1>1, Initial, Step, PTL DEF Spec

\* The row of a trade is never ahead of it, however its writes land or are lost.
THEOREM TheRowIsNotAhead == Spec => []RowNotAhead
  <1>1. Inv => RowNotAhead
    BY DEF Inv
  <1> QED BY <1>1, Initial, Step, PTL DEF Spec

\* A step of the process never loosens the stop of a trade it keeps.
LEMMA Tightens ==
    Inv /\ [Next]_vars =>
      [Open /\ Open' /\ pos'.n = pos.n /\ crashes' = crashes => pos'.pm.sl >= pos.pm.sl]_vars
  <1> SUFFICES ASSUME Inv, [Next]_vars, Open, Open', crashes' = crashes
               PROVE  pos'.pm.sl >= pos.pm.sl
    OBVIOUS
  <1>1. pos \in Positions /\ Trails(pos.entry, pos.risk, pos.pm) /\ pos.pm.sl \in Int
    <2>1. pos \in Positions /\ Trails(pos.entry, pos.risk, pos.pm)
      BY TypedParts DEF Inv, StopFollowsBest, Open
    <2> QED BY <2>1 DEF Positions, PMs
  <1>2. CASE pos' = pos
    BY <1>1, <1>2
  <1>3. CASE Listen
    <2>1. heard \in Int /\ pos' = Listened(pos, heard)
      BY <1>3 DEF Inv, TypeOK, Listen
    <2>2. pos'.pm = Moved(pos, heard)
      BY <1>1, <2>1, ListenedType
    <2>3. NotAhead(pos.pm, Moved(pos, heard))
      BY <1>1, <2>1, MovedType
    <2> QED BY <2>2, <2>3 DEF NotAhead
  <1>4. CASE Decide
    <2> DEFINE pm == Moved(pos, seen)
    <2>1. seen \in Int /\ DecideStop(pm)
      BY <1>4 DEF Inv, TypeOK, Decide
    <2>2. pm \in PMs /\ NotAhead(pos.pm, pm)
      BY <1>1, <2>1, MovedType
    <2> HIDE DEF pm
    <2>3. pos' = [pos EXCEPT !.pm = pm]
      BY <2>1 DEF DecideStop, Stay, Close, Open
    <2>4. pos'.pm = pm
      BY <1>1, <2>2, <2>3, StayedType
    <2> QED BY <2>2, <2>4 DEF NotAhead
  <1>5. CASE \E paid \in Prices, placed \in BOOLEAN : WatchFilled(paid, placed)
    BY <1>5 DEF WatchFilled, Inv, Placed, Open
  <1>6. CASE \E placed \in BOOLEAN : Crash(placed)
    <2>1. crashes' = crashes + 1 /\ crashes \in Nat
      BY <1>6 DEF Crash, Inv, TypeOK
    <2> QED BY <2>1
  <1>7. CASE DecideTp \/ DecideTpUnknown \/ EndOfDay
    <2>1. pos' = pos
      BY <1>7 DEF DecideTp, DecideTpUnknown, EndOfDay, Close, Stay, Open
    <2> QED BY <2>1, <1>2
  <1> QED
    BY <1>2, <1>3, <1>4, <1>5, <1>6, <1>7
       DEF Next, Watch, Manage, vars, held, Move, Quote, FillTp, Tick, GoStale, PollUnhealthy,
           PollHealthy, Arm, WatchUnhealthy, WatchDrifted, WatchOn, WatchUnfilled, WatchTimeout,
           Forget, SaveRow, ReadPrice, Grow, Land, Lose

\* Neither task loosens the stop of a trade (update_best_and_trailing, called by both).
THEOREM TheStopOnlyTightens == Spec => StopOnlyTightens
  BY Initial, Step, Tightens, PTL DEF Spec, StopOnlyTightens
=============================================================================
