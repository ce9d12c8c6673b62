----------------------------- MODULE FeedProofs -----------------------------
(***************************************************************************)
(* Proofs about Feed, for any hours, buckets, prices and limits: a process  *)
(* that hears nothing is ended within the watchdog's limits, the client     *)
(* gives up only after a run of connections that were not confirmed, and    *)
(* the candles are faithful to the trades and never ahead of the clock.     *)
(***************************************************************************)
EXTENDS Feed, FiniteSetTheorems, SequenceTheorems, TLAPS

Limit == IF NeverTick > StaleTick THEN NeverTick ELSE StaleTick

\* The silence is not longer than the time since the last tick, or since the open
\* or the start of the process when there was none, and the watchdog has seen it.
SilenceInv ==
    /\ now \in Int /\ boot \in Int /\ quiet \in Nat /\ lastTick \in Int
    /\ boot <= now
    /\ now = boot \/ now <= Open => quiet = 0
    /\ lastTick # Never => quiet <= now - lastTick
    /\ lastTick = Never => quiet = 0 \/ quiet <= now - Open
    /\ quiet <= Limit + 1
Seen == watched /\ Trading(now) => quiet <= Limit
FeedInv == SilenceInv /\ Seen

\* The retries counted are failures in a row, and one break of a connection that
\* was listened to.
LinkInv ==
    /\ retries \in Nat /\ streak \in Nat
    /\ conn \in {"connect", "confirm", "listen", "backoff", "over"}
    /\ conn = "listen" => retries <= streak
    /\ conn \in {"connect", "confirm", "backoff"} => retries <= streak + 1
    /\ terminated => conn = "over" /\ streak >= MaxRetries

LEMMA LimitType == Limit \in Nat /\ StaleTick <= Limit /\ NeverTick <= Limit /\ Patience = Limit + 1
  BY LimitsAssumption DEF Limit, Patience

--------------------------------------------------------------------------
\* The watchdog.

\* A tick, and the start of a process, end the silence.
LEMMA SilenceEnds ==
    ASSUME FeedInv, now' = now, quiet' = 0, lastTick' \in {now, Never}, boot' \in {boot, now}
    PROVE  FeedInv'
  <1>1. SilenceInv'
    <2>1. now \in Int /\ boot \in Int /\ boot <= now
      BY DEF FeedInv, SilenceInv
    <2>2. lastTick' \in Int /\ boot' \in Int /\ boot' <= now'
      BY <2>1 DEF Never
    <2>3. lastTick' # Never => 0 <= now' - lastTick'
      <3>1. CASE lastTick' = now
        BY <2>1, <3>1
      <3> QED
        BY <3>1
    <2>4. 0 <= Limit' + 1
      BY LimitType DEF Limit
    <2> QED
      BY <2>1, <2>2, <2>3, <2>4 DEF SilenceInv
  <1>2. Seen'
    BY LimitType DEF Seen, Limit
  <1> QED
    BY <1>1, <1>2 DEF FeedInv

LEMMA WatchStep == FeedInv /\ Watch => FeedInv'
  <1> SUFFICES ASSUME FeedInv, Watch PROVE FeedInv'
    OBVIOUS
  <1>1. UNCHANGED <<now, boot, quiet, lastTick>>
    BY DEF Watch
  <1>2. SilenceInv'
    BY <1>1 DEF FeedInv, SilenceInv, Limit
  <1>3. ASSUME Trading(now) PROVE quiet <= Limit
    <2>1. now > boot => ~SilentTooLong
      BY <1>3 DEF Watch, Critical
    <2> QED
      BY <2>1, LimitType, LimitsAssumption, HoursAssumption
      DEF FeedInv, SilenceInv, SilentTooLong, Never
  <1> QED
    BY <1>1, <1>2, <1>3 DEF FeedInv, Seen, Trading, Limit

LEMMA MinuteStep == FeedInv /\ Minute => FeedInv'
  <1> SUFFICES ASSUME FeedInv, Minute PROVE FeedInv'
    OBVIOUS
  <1>1. now' = now + 1 /\ boot' = boot /\ lastTick' = lastTick
    BY DEF Minute
  <1>2. quiet' = IF Trading(now) THEN quiet + 1 ELSE quiet
    BY DEF Minute
  <1>3. Trading(now) => quiet <= Limit
    BY DEF Minute, FeedInv, Seen
  <1>4. ~watched'
    BY DEF Minute
  <1>5. SilenceInv'
    BY <1>1, <1>2, <1>3, LimitType, HoursAssumption DEF FeedInv, SilenceInv, Never, Trading, Limit
  <1> QED
    BY <1>4, <1>5 DEF FeedInv, Seen

LEMMA FeedStep == FeedInv /\ [Next]_feedVars => FeedInv'
  <1> SUFFICES ASSUME FeedInv, [Next]_feedVars PROVE FeedInv'
    OBVIOUS
  <1>1. CASE UNCHANGED <<clock, lastTick>>
    BY <1>1 DEF FeedInv, SilenceInv, Seen, Trading, Limit, clock
  <1>2. CASE \E p \in Prices : Trade(p)
    BY <1>1, <1>2 DEF Trade
  <1>3. CASE Client
    BY <1>1, <1>3 DEF Client, Up, Down
  <1>4. CASE Lag \/ \E saved \in BOOLEAN : Receive(saved)
    BY <1>4, SilenceEnds DEF Lag, Receive, Stamp
  <1>5. CASE \E saved \in BOOLEAN : Silence(saved)
    BY <1>1, <1>5 DEF Silence
  <1>6. CASE \E yahoo \in YahooAnswer : Refresh(yahoo)
    BY <1>1, <1>6 DEF Refresh
  <1>7. CASE \E loaded \in BOOLEAN, yahoo \in YahooAnswer : Restart(loaded, yahoo)
    BY <1>7, SilenceEnds DEF Restart
  <1>8. CASE UNCHANGED feedVars
    BY <1>1, <1>8 DEF feedVars
  <1> QED
    BY <1>2, <1>3, <1>4, <1>5, <1>6, <1>7, <1>8, WatchStep, MinuteStep DEF Next

\* Whatever becomes of the connection, a process does not go through more minutes of
\* trading without a tick than the watchdog's limits allow.
THEOREM SilenceIsEnded == Spec => []DeadFeedNoticed
  <1>1. Init => FeedInv
    BY LimitType, HoursAssumption DEF Init, FeedInv, SilenceInv, Seen, Never, Trading, Limit
  <1>2. FeedInv => DeadFeedNoticed
    BY LimitType DEF FeedInv, SilenceInv, DeadFeedNoticed
  <1> QED
    BY <1>1, <1>2, FeedStep, PTL DEF Spec
--------------------------------------------------------------------------
\* The client.

\* One more retry, from a connection whose retries are known.
LEMMA FailStep ==
    ASSUME LinkInv, Fail, streak' \in Nat, retries <= streak', streak' >= streak
    PROVE  LinkInv'
  <1>1. retries' = retries + 1 /\ retries' \in Nat
    BY DEF Fail, LinkInv
  <1>2. conn' = IF retries + 1 > MaxRetries THEN "over" ELSE "backoff"
    BY DEF Fail
  <1>3. terminated' => retries + 1 > MaxRetries
    BY Zenon DEF Fail
  <1>4. terminated' => conn' = "over" /\ streak' >= MaxRetries
    BY <1>2, <1>3, RetriesAssumption DEF LinkInv
  <1>5. conn' # "listen" /\ conn' \in {"connect", "confirm", "listen", "backoff", "over"}
    BY <1>2
  <1>6. retries' <= streak' + 1
    <2>1. retries \in Nat
      BY DEF LinkInv
    <2>2. \A m, n \in Nat : m <= n => m + 1 <= n + 1
      OBVIOUS
    <2>3. retries + 1 <= streak' + 1
      BY <2>1, <2>2
    <2> QED
      BY <1>1, <2>3, Zenon
  <1>7. retries' \in Nat /\ streak' \in Nat
    BY <1>1
  <1>8. (conn = "listen" => retries <= streak)'
    BY <1>5
  <1>9. (conn \in {"connect", "confirm", "backoff"} => retries <= streak + 1)'
    BY <1>6
  <1>10. (terminated => conn = "over" /\ streak >= MaxRetries)'
    BY <1>4, Zenon
  <1> QED
    BY <1>5, <1>7, <1>8, <1>9, <1>10, Zenon DEF LinkInv

LEMMA ClientStep == LinkInv /\ Client => LinkInv'
  <1> SUFFICES ASSUME LinkInv, Client PROVE LinkInv'
    OBVIOUS
  <1>1. CASE Connect \/ Resume
    BY <1>1 DEF LinkInv, Connect, Resume
  <1>2. CASE ConnectFails
    BY <1>2, FailStep DEF LinkInv, ConnectFails
  <1>3. CASE Confirmed
    BY <1>3 DEF LinkInv, Confirmed
  <1>4. CASE \E h \in BOOLEAN : Unconfirmed(h)
    BY <1>4 DEF LinkInv, Unconfirmed
  <1>5. CASE Closed
    BY <1>5 DEF LinkInv, Closed
  <1>6. CASE Broken
    BY <1>6, FailStep DEF LinkInv, Broken
  <1> QED
    BY <1>1, <1>2, <1>3, <1>4, <1>5, <1>6 DEF Client, Up, Down

LEMMA LinkStep == LinkInv /\ [Next]_feedVars => LinkInv'
  <1> SUFFICES ASSUME LinkInv, [Next]_feedVars PROVE LinkInv'
    OBVIOUS
  <1>1. CASE UNCHANGED link
    BY <1>1 DEF LinkInv, link
  <1>2. CASE \E loaded \in BOOLEAN, yahoo \in YahooAnswer : Restart(loaded, yahoo)
    BY <1>2, RetriesAssumption DEF Restart, Relinked, LinkInv
  <1>3. CASE \/ \E p \in Prices : Trade(p)
             \/ Lag \/ Watch \/ Minute
             \/ \E saved \in BOOLEAN : Receive(saved) \/ Silence(saved)
             \/ \E yahoo \in YahooAnswer : Refresh(yahoo)
             \/ UNCHANGED feedVars
    BY <1>1, <1>3 DEF Trade, Lag, Watch, Minute, Receive, Silence, Refresh, feedVars
  <1> QED
    BY <1>2, <1>3, ClientStep DEF Next

\* The client gives up after MaxRetries connections in a row that were not confirmed,
\* never for breaks of connections that were.
THEOREM GivesUpLate == Spec => []RetriesEarned
  <1>1. Init => LinkInv
    BY RetriesAssumption DEF Init, LinkInit, LinkInv
  <1>2. LinkInv => RetriesEarned
    BY DEF LinkInv, RetriesEarned
  <1> QED
    BY <1>1, <1>2, LinkStep, PTL DEF Spec
--------------------------------------------------------------------------
\* Numbers, sets and spans.

\* Quotients and multiples of a size.
LEMMA Division ==
    ASSUME NEW a \in Nat, NEW b \in Nat \ {0}
    PROVE  /\ a \div b \in Nat /\ b * (a \div b) <= a /\ a < b * (a \div b) + b
           /\ b * (a \div b) \in Nat
  OBVIOUS

LEMMA Products ==
    ASSUME NEW b \in Nat \ {0}, NEW m \in Nat, NEW n \in Nat, m < n
    PROVE  b * m + b <= b * n
  OBVIOUS

LEMMA Multiple ==
    ASSUME NEW b \in Nat \ {0}, NEW m \in Nat
    PROVE  (b * m) \div b = m
  OBVIOUS

\* Every set of numbers has a least one: induction, without a predicate as a parameter.
LEMMA LeastNumber ==
    ASSUME NEW S \in SUBSET Nat, S # {}
    PROVE  \E x \in S : \A y \in S : x <= y
  <1>1. PICK x \in S : \A y \in S : ~(<<y, x>> \in OpToRel(<, Nat))
    BY WFMin, NatLessThanWellFounded
  <1>2. \A y \in S : ~(y < x)
    BY <1>1 DEF OpToRel
  <1> QED BY <1>2

\* A finite set of numbers has a largest and a smallest element: otherwise take one with
\* the fewest elements that has none, and remove an element.
LEMMA Extremes ==
    ASSUME NEW S \in SUBSET Int, IsFiniteSet(S), S # {}
    PROVE  /\ Max(S) \in S /\ \A x \in S : x <= Max(S)
           /\ Min(S) \in S /\ \A x \in S : Min(S) <= x
<1> DEFINE Bounded(T) == \E x, y \in T : \A z \in T : x <= z /\ z <= y
           Sizes == {n \in Nat : \E T \in SUBSET Int :
                        IsFiniteSet(T) /\ T # {} /\ Cardinality(T) = n /\ ~Bounded(T)}
<1>1. Sizes = {}
  <2> SUFFICES ASSUME Sizes # {} PROVE FALSE
    OBVIOUS
  <2>1. PICK n \in Sizes : \A k \in Sizes : n <= k
    BY LeastNumber
  <2>2. PICK T \in SUBSET Int : IsFiniteSet(T) /\ T # {} /\ Cardinality(T) = n /\ ~Bounded(T)
    BY <2>1
  <2>3. PICK x \in T : TRUE
    BY <2>2
  <2>4. IsFiniteSet(T \ {x}) /\ Cardinality(T \ {x}) = n - 1
    BY <2>2, <2>3, FS_RemoveElement
  <2>5. n - 1 \in Nat
    BY <2>4, FS_CardinalityType
  <2>6. Bounded(T \ {x})
    <3>1. T # {x}
      <4> SUFFICES ASSUME T = {x} PROVE Bounded(T)
        BY <2>2
      <4>1. x \in T /\ \A z \in T : x <= z /\ z <= x
        BY <2>3
      <4> QED BY <4>1
    <3>2. n - 1 \notin Sizes
      BY <2>1, <2>5
    <3> HIDE DEF Bounded
    <3> QED BY <2>2, <2>3, <2>4, <2>5, <3>1, <3>2
  <2>7. PICK y, z \in T \ {x} : \A w \in T \ {x} : y <= w /\ w <= z
    BY <2>6
  <2>8. PICK a \in T : a <= x /\ a <= y
    <3>1. CASE x <= y
      BY <2>3, <3>1
    <3>2. CASE ~(x <= y)
      BY <2>3, <2>7, <3>2
    <3> QED BY <3>1, <3>2
  <2>9. PICK b \in T : x <= b /\ z <= b
    <3>1. CASE z <= x
      BY <2>3, <3>1
    <3>2. CASE ~(z <= x)
      BY <2>3, <2>7, <3>2
    <3> QED BY <3>1, <3>2
  <2>10. \A w \in T : a <= w /\ w <= b
    <3> TAKE w \in T
    <3>1. CASE w = x
      BY <2>8, <2>9, <3>1
    <3>2. CASE w # x
      BY <2>7, <2>8, <2>9, <3>2
    <3> QED BY <3>1, <3>2
  <2> QED BY <2>2, <2>8, <2>9, <2>10
<1>2. Cardinality(S) \in Nat
  BY FS_CardinalityType
<1>3. Bounded(S)
  BY <1>1, <1>2
<1>4. PICK x, y \in S : \A z \in S : x <= z /\ z <= y
  BY <1>3
<1>5. Max(S) \in S /\ \A z \in S : Max(S) >= z
  BY <1>4, Zenon DEF Max
<1>6. Min(S) \in S /\ \A z \in S : Min(S) <= z
  BY <1>4 DEF Min
<1> QED BY <1>5, <1>6

\* What the name of a span promises.
LEMMA SpanOf ==
    ASSUME NEW s, IsFiniteSet(s), s # {}, \A b \in s : b.hi \in Nat /\ b.lo \in Nat, NEW t
    PROVE  /\ Span(t, s).t = t
           /\ \E b \in s : Span(t, s).hi = b.hi
           /\ \E b \in s : Span(t, s).lo = b.lo
           /\ \A b \in s : b.hi <= Span(t, s).hi /\ Span(t, s).lo <= b.lo
<1> DEFINE H == {b.hi : b \in s}
           L == {b.lo : b \in s}
<1>1. IsFiniteSet(H) /\ H # {} /\ H \in SUBSET Int
  <2>1. [b \in s |-> b.hi] \in Surjection(s, H)
    BY DEF Surjection
  <2> QED BY <2>1, FS_Surjection
<1>2. IsFiniteSet(L) /\ L # {} /\ L \in SUBSET Int
  <2>1. [b \in s |-> b.lo] \in Surjection(s, L)
    BY DEF Surjection
  <2> QED BY <2>1, FS_Surjection
<1>3. Max(H) \in H /\ \A x \in H : x <= Max(H)
  BY <1>1, Extremes
<1>4. Min(L) \in L /\ \A x \in L : Min(L) <= x
  BY <1>2, Extremes
<1>5. Span(t, s).t = t /\ Span(t, s).hi = Max(H) /\ Span(t, s).lo = Min(L)
  BY DEF Span
<1> HIDE DEF Span
<1> QED BY <1>3, <1>4, <1>5

--------------------------------------------------------------------------
\* Lists of bars.

Bars == [t : Minutes, hi : Nat, lo : Nat]
Ordered(s) == \A i, j \in DOMAIN s : i <= j => s[i].t <= s[j].t

\* A set as a list has elements of the set only.
LEMMA SetAsList ==
    ASSUME NEW S, IsFiniteSet(S)
    PROVE  SetToSeq(S) \in Seq(S) /\ Range(SetToSeq(S)) \subseteq S
<1>1. Cardinality(S) \in Nat /\ ExistsBijection(1..Cardinality(S), S)
  BY FS_CardinalityType
<1>2. PICK f \in [1..Cardinality(S) -> S] : IsInjective(f)
  BY <1>1 DEF ExistsBijection, Bijection, Injection, IsInjective
<1>3. SetToSeq(S) \in [1..Cardinality(S) -> S]
  BY <1>2, Zenon DEF SetToSeq
<1> QED BY <1>1, <1>3 DEF Range

\* Sorting keeps the bars and puts them in order: their places are the numbers up to the
\* length, each once.
LEMMA SortedList ==
    ASSUME NEW s \in Seq(Bars)
    PROVE  Sorted(s) \in Seq(Bars) /\ Range(Sorted(s)) = Range(s) /\ Ordered(Sorted(s))
<1> DEFINE D == 1..Len(s)
           place == [i \in D |-> Cardinality(Before(s, i))]
           At(k) == CHOOSE i \in D : place[i] = k
<1>1. DOMAIN s = D /\ Len(s) \in Nat /\ \A i \in D : s[i] \in Bars /\ s[i].t \in Int
  <2>1. DOMAIN s = D /\ Len(s) \in Nat /\ \A i \in D : s[i] \in Bars
    OBVIOUS
  <2>2. \A b \in Bars : b.t \in Int
    BY HoursAssumption DEF Bars, Minutes
  <2> QED BY <2>1, <2>2
<1>2. IsFiniteSet(D) /\ Cardinality(D) = Len(s)
  <2>1. Len(s) \in Nat
    OBVIOUS
  <2>2. IsFiniteSet(1..Len(s)) /\ Cardinality(1..Len(s)) = IF 1 > Len(s) THEN 0 ELSE Len(s) - 1 + 1
    BY <2>1, FS_Interval
  <2> QED BY <2>1, <2>2
<1>3. \A i \in D : Before(s, i) \in SUBSET D /\ i \in Before(s, i)
  BY <1>1 DEF Before
<1>4. \A i \in D : IsFiniteSet(Before(s, i)) /\ place[i] \in D
  <2> TAKE i \in D
  <2>1. IsFiniteSet(Before(s, i)) /\ Cardinality(Before(s, i)) <= Len(s)
    BY <1>2, <1>3, FS_Subset
  <2>2. Cardinality(Before(s, i)) \in Nat /\ Cardinality(Before(s, i)) # 0
    BY <1>3, <2>1, FS_CardinalityType, FS_EmptySet
  <2> QED BY <1>1, <2>1, <2>2
<1>5. \A i, j \in D : s[i].t < s[j].t \/ (s[i].t = s[j].t /\ i < j) => place[i] < place[j]
  <2> SUFFICES ASSUME NEW i \in D, NEW j \in D, s[i].t < s[j].t \/ (s[i].t = s[j].t /\ i < j)
               PROVE  place[i] < place[j]
    OBVIOUS
  <2>1. Before(s, i) \subseteq Before(s, j)
    BY <1>1 DEF Before
  <2>2. j \in Before(s, j) \ Before(s, i)
    BY <1>1 DEF Before
  <2>3. Cardinality(Before(s, i)) <= Cardinality(Before(s, j))
        /\ Cardinality(Before(s, i)) # Cardinality(Before(s, j))
    BY <1>4, <2>1, <2>2, FS_Subset
  <2>4. place[i] \in Nat /\ place[j] \in Nat
    BY <1>1, <1>4
  <2> QED BY <2>3, <2>4
<1>6. \A i, j \in D : place[i] = place[j] => i = j
  <2> SUFFICES ASSUME NEW i \in D, NEW j \in D, i # j PROVE place[i] # place[j]
    OBVIOUS
  <2>1. place[i] \in Int /\ place[j] \in Int /\ i \in Int /\ j \in Int /\ s[i].t \in Int /\ s[j].t \in Int
    BY <1>1, <1>4
  <2>2. place[i] < place[j] \/ place[j] < place[i]
    <3> HIDE DEF place
    <3>1. \/ s[i].t < s[j].t \/ (s[i].t = s[j].t /\ i < j)
          \/ s[j].t < s[i].t \/ (s[j].t = s[i].t /\ j < i)
      BY <2>1
    <3> QED BY <1>5, <3>1
  <2> QED BY <2>1, <2>2
<1>7. place \in Injection(D, D)
  BY <1>4, <1>6 DEF Injection, IsInjective
<1>8. place \in Surjection(D, D)
  BY <1>2, <1>7, FS_Injection
<1>9. \A k \in D : At(k) \in D /\ place[At(k)] = k
  BY <1>8 DEF Surjection
<1>10. \A i \in D : At(place[i]) = i
  BY <1>4, <1>6, <1>9
<1>11. \A k \in D : Sorted(s)[k] = s[At(k)]
  BY <1>1 DEF Sorted
<1>12. Sorted(s) = [k \in D |-> Sorted(s)[k]]
  BY <1>1 DEF Sorted
<1> HIDE DEF place, At
<1>13. Sorted(s) \in [D -> Bars]
  BY <1>1, <1>9, <1>11, <1>12
<1>14. Sorted(s) \in Seq(Bars) /\ DOMAIN Sorted(s) = D
  BY <1>1, <1>13
<1>15. Range(Sorted(s)) = Range(s)
  BY <1>1, <1>4, <1>9, <1>10, <1>11, <1>14 DEF Range
<1>16. Ordered(Sorted(s))
  <2> SUFFICES ASSUME NEW k \in D, NEW l \in D, k <= l
               PROVE  s[At(k)].t <= s[At(l)].t
    BY <1>11, <1>14 DEF Ordered
  <2>1. At(k) \in D /\ At(l) \in D /\ place[At(k)] = k /\ place[At(l)] = l
    BY <1>9
  <2>2. ~(place[At(l)] < place[At(k)])
    BY <2>1
  <2> QED BY <1>1, <1>5, <2>1, <2>2
<1> QED BY <1>14, <1>15, <1>16

\* A list without its first element, and one with a last element more.
LEMMA RestOf ==
    ASSUME NEW S, NEW s \in Seq(S), s # <<>>
    PROVE  /\ Tail(s) \in Seq(S) /\ Range(Tail(s)) \subseteq Range(s) /\ Head(s) \in Range(s)
           /\ Ordered(s) => Ordered(Tail(s)) /\ \A x \in Range(Tail(s)) : Head(s).t <= x.t
<1>1. Len(s) \in Nat /\ Len(s) > 0 /\ DOMAIN s = 1..Len(s) /\ Head(s) = s[1]
  OBVIOUS
<1>2. Tail(s) \in Seq(S) /\ DOMAIN Tail(s) = 1..(Len(s) - 1) /\ \A i \in 1..(Len(s) - 1) : Tail(s)[i] = s[i + 1]
  OBVIOUS
<1>3. \A i \in 1..(Len(s) - 1) : i + 1 \in 1..Len(s)
  BY <1>1
<1>4. Range(Tail(s)) \subseteq Range(s) /\ Head(s) \in Range(s)
  BY <1>1, <1>2, <1>3 DEF Range
<1>5. ASSUME Ordered(s)
      PROVE  Ordered(Tail(s)) /\ \A x \in Range(Tail(s)) : Head(s).t <= x.t
  <2>1. Ordered(Tail(s))
    BY <1>1, <1>2, <1>3, <1>5 DEF Ordered
  <2>2. \A i \in 1..(Len(s) - 1) : s[1].t <= s[i + 1].t
    BY <1>1, <1>3, <1>5 DEF Ordered
  <2>3. \A x \in Range(Tail(s)) : \E i \in 1..(Len(s) - 1) : x = s[i + 1]
    BY <1>2 DEF Range
  <2> QED BY <1>1, <2>1, <2>2, <2>3
<1> QED BY <1>2, <1>4, <1>5

LEMMA Longer ==
    ASSUME NEW S, NEW s \in Seq(S), NEW x \in S
    PROVE  /\ Append(s, x) \in Seq(S) /\ Range(Append(s, x)) = Range(s) \cup {x}
           /\ Ordered(s) /\ (\A y \in Range(s) : y.t <= x.t) /\ x.t \in Int => Ordered(Append(s, x))
<1>1. Len(s) \in Nat /\ DOMAIN s = 1..Len(s)
  OBVIOUS
<1>2. /\ Append(s, x) \in Seq(S) /\ DOMAIN Append(s, x) = 1..(Len(s) + 1)
      /\ \A i \in 1..Len(s) : Append(s, x)[i] = s[i]
      /\ Append(s, x)[Len(s) + 1] = x
  OBVIOUS
<1>3. \A i \in 1..(Len(s) + 1) : i \in 1..Len(s) \/ i = Len(s) + 1
  BY <1>1
<1>4. 1..Len(s) \subseteq 1..(Len(s) + 1) /\ Len(s) + 1 \in 1..(Len(s) + 1)
  BY <1>1
<1>5. Range(Append(s, x)) = Range(s) \cup {x}
  BY <1>1, <1>2, <1>3, <1>4 DEF Range
<1>6. ASSUME Ordered(s), \A y \in Range(s) : y.t <= x.t, x.t \in Int
      PROVE  Ordered(Append(s, x))
  <2> SUFFICES ASSUME NEW i \in 1..(Len(s) + 1), NEW j \in 1..(Len(s) + 1), i <= j
               PROVE  Append(s, x)[i].t <= Append(s, x)[j].t
    BY <1>2 DEF Ordered
  <2>1. CASE j \in 1..Len(s)
    <3>1. i \in 1..Len(s)
      BY <1>1, <2>1
    <3> QED BY <1>1, <1>2, <1>6, <2>1, <3>1 DEF Ordered
  <2>2. CASE j = Len(s) + 1 /\ i \in 1..Len(s)
    <3>1. s[i] \in Range(s)
      BY <1>1, <2>2 DEF Range
    <3> QED BY <1>2, <1>6, <2>2, <3>1
  <2>3. CASE j = Len(s) + 1 /\ i = Len(s) + 1
    BY <1>2, <1>6, <2>3
  <2> QED BY <1>3, <2>1, <2>2, <2>3
<1> QED BY <1>2, <1>5, <1>6

--------------------------------------------------------------------------
\* Buckets of minutes.

\* A minute lies in its bucket, and the start of a bucket is a minute of it.
LEMMA Buckets ==
    ASSUME NEW m \in Minutes
    PROVE  /\ BucketOf(m) \in Nat
           /\ Open + Bucket * BucketOf(m) \in Minutes
           /\ Open + Bucket * BucketOf(m) <= m
           /\ m < Open + Bucket * BucketOf(m) + Bucket
           /\ BucketOf(Open + Bucket * BucketOf(m)) = BucketOf(m)
<1>1. m - Open \in Nat /\ Bucket \in Nat \ {0} /\ Open \in Nat /\ Close \in Nat /\ m \in Nat /\ m <= Close
  BY HoursAssumption, BucketAssumption DEF Minutes
<1> DEFINE k == (m - Open) \div Bucket
<1>2. /\ k \in Nat /\ Bucket * k \in Nat
      /\ Bucket * k <= m - Open /\ m - Open < Bucket * k + Bucket
  BY <1>1, Division
<1>3. (Bucket * k) \div Bucket = k
  BY <1>1, <1>2, Multiple
<1>4. BucketOf(m) = k
  BY DEF BucketOf
<1> HIDE DEF k
<1>5. Open + Bucket * k - Open = Bucket * k
  BY <1>1, <1>2
<1>6. BucketOf(Open + Bucket * k) = k
  <2> DEFINE start == Open + Bucket * k
  <2>1. start - Open = Bucket * k
    BY <1>1, <1>2
  <2> HIDE DEF start
  <2>2. (start - Open) \div Bucket = k
    BY <1>3, <2>1
  <2>3. BucketOf(start) = k
    BY <2>2 DEF BucketOf
  <2> QED BY <2>3 DEF start
<1>7. Open + Bucket * k \in Minutes
  BY <1>1, <1>2 DEF Minutes
<1> QED BY <1>1, <1>2, <1>4, <1>6, <1>7

\* Later minutes are in the same bucket or a later one, which is not before the end of it.
LEMMA BucketsFollow ==
    ASSUME NEW l \in Minutes, NEW m \in Minutes, l <= m
    PROVE  /\ BucketOf(l) <= BucketOf(m)
           /\ BucketOf(l) # BucketOf(m) => Open + Bucket * (BucketOf(l) + 1) <= m
<1> DEFINE j == BucketOf(l)
           k == BucketOf(m)
<1>1. l \in Nat /\ m \in Nat /\ Open \in Nat /\ Bucket \in Nat \ {0}
  BY HoursAssumption, BucketAssumption DEF Minutes
<1>2. j \in Nat /\ k \in Nat /\ Open + Bucket * j <= l /\ l < Open + Bucket * j + Bucket
      /\ Open + Bucket * k <= m /\ m < Open + Bucket * k + Bucket
  BY Buckets
<1> HIDE DEF j, k
<1>3. Bucket * j \in Nat /\ Bucket * k \in Nat
  BY <1>1, <1>2
<1>4. k < j => Bucket * k + Bucket <= Bucket * j
  BY <1>1, <1>2, Products
<1>5. j <= k
  BY <1>1, <1>2, <1>3, <1>4
<1>6. j < k => Bucket * j + Bucket <= Bucket * k
  BY <1>1, <1>2, Products
<1>7. Bucket * (j + 1) = Bucket * j + Bucket
  BY <1>1, <1>2
<1>8. j # k => Open + Bucket * (j + 1) <= m
  BY <1>1, <1>2, <1>3, <1>5, <1>6, <1>7
<1> QED BY <1>5, <1>8 DEF j, k

\* In a list in order that is not ahead of the clock, a group that a later one follows
\* belongs to a bucket that is over.
LEMMA FinishedIsOver ==
    ASSUME ws \in Seq(Bars), now \in Int, Ordered(ws), \A i \in DOMAIN ws : ws[i].t <= now,
           NEW i \in Finished(ws, now)
    PROVE  ws[i].t \in Minutes /\ now >= Open + Bucket * (BucketOf(ws[i].t) + 1)
<1> DEFINE t(k) == ws[k].t
<1>1. DOMAIN ws = 1..Len(ws) /\ Len(ws) \in Nat /\ \A k \in DOMAIN ws : t(k) \in Minutes
  <2>1. DOMAIN ws = 1..Len(ws) /\ Len(ws) \in Nat /\ \A k \in DOMAIN ws : ws[k] \in Bars
    OBVIOUS
  <2>2. \A b \in Bars : b.t \in Minutes
    BY DEF Bars
  <2> QED BY <2>1, <2>2
<1>2. i \in DOMAIN ws /\ (t(i) + Bucket > now => \E j \in Starts(ws) : j > i)
  BY DEF Finished, Starts, Group, Span
<1>3. t(i) \in Int /\ Open \in Int /\ Bucket \in Nat \ {0} /\ BucketOf(t(i)) \in Nat
  BY <1>1, <1>2, Buckets, HoursAssumption, BucketAssumption DEF Minutes
<1>4. CASE t(i) + Bucket <= now
  <2>1. Open + Bucket * BucketOf(t(i)) <= t(i)
    BY <1>1, <1>2, Buckets
  <2>2. Bucket * (BucketOf(t(i)) + 1) = Bucket * BucketOf(t(i)) + Bucket /\ Bucket * BucketOf(t(i)) \in Nat
    BY <1>3
  <2> HIDE DEF t
  <2>3. Open + Bucket * (BucketOf(t(i)) + 1) <= now
    BY <1>3, <1>4, <2>1, <2>2, SMTT(20)
  <2> QED BY <1>1, <1>2, <2>3 DEF t
<1>5. CASE t(i) + Bucket > now
  <2>1. PICK j \in Starts(ws) : j > i
    BY <1>2, <1>5
  <2>2. j \in DOMAIN ws /\ j - 1 \in DOMAIN ws /\ i <= j - 1 /\ ~Joined(ws, j - 1, j)
    BY <1>1, <1>2, <2>1 DEF Starts
  <2>3. BucketOf(t(j)) # BucketOf(t(j - 1))
    BY <1>1, <2>2 DEF Joined
  <2>4. t(i) <= t(j - 1) /\ t(j - 1) <= t(j) /\ t(j) <= now
    BY <1>1, <1>2, <2>2 DEF Ordered
  <2>5. BucketOf(t(i)) <= BucketOf(t(j - 1)) /\ BucketOf(t(j - 1)) <= BucketOf(t(j))
    BY <1>1, <1>2, <2>2, <2>4, BucketsFollow
  <2>6. BucketOf(t(i)) # BucketOf(t(j)) /\ t(i) <= t(j)
    <3>1. \A k \in {i, j - 1, j} : BucketOf(t(k)) \in Nat /\ t(k) \in Int
      <4>1. \A k \in {i, j - 1, j} : t(k) \in Minutes
        BY <1>1, <1>2, <2>2
      <4>2. \A m \in Minutes : BucketOf(m) \in Nat
        BY Buckets
      <4> HIDE DEF t
      <4> QED BY <4>1, <4>2, HoursAssumption DEF Minutes
    <3> HIDE DEF t
    <3> QED BY <2>3, <2>4, <2>5, <3>1
  <2>7. Open + Bucket * (BucketOf(t(i)) + 1) <= t(j)
    BY <1>1, <1>2, <2>2, <2>6, BucketsFollow
  <2>8. t(j) \in Int /\ Open + Bucket * (BucketOf(t(i)) + 1) \in Int
    BY <1>1, <1>3, <2>2, HoursAssumption DEF Minutes
  <2> HIDE DEF t
  <2>9. Open + Bucket * (BucketOf(t(i)) + 1) <= now
    BY <2>4, <2>7, <2>8
  <2> QED BY <1>1, <1>2, <2>9 DEF t
<1>6. t(i) + Bucket <= now \/ t(i) + Bucket > now
  BY <1>3
<1> QED BY <1>4, <1>5, <1>6

--------------------------------------------------------------------------
\* The candles: the invariant, and what follows from it.

Ticks  == [t : Minutes, p : Prices]
Trades == [hi : Nat, lo : Nat, last : Nat]

\* The candles made of ticks: finished, stored, and being built.
Listed == Range(ws) \cup ({partial} \ {NoBar})
Kept   == Listed \cup db1

Typed ==
    /\ now \in Int
    /\ wire \in Seq(Ticks) /\ ws \in Seq(Bars) /\ partial \in Bars \cup {NoBar}
    /\ back \in SUBSET Bars /\ db1 \in SUBSET Bars /\ db5 \in SUBSET Bars /\ IsFiniteSet(db1)
    /\ real \in [Minutes -> Trades] /\ heard \in [Minutes -> Bars \cup {NoBar}]

\* Ticks arrive in their order, so the lists are in order too, and none is ahead of the clock.
InOrder ==
    /\ Ordered(ws) /\ Ordered(wire)
    /\ \A b \in Kept : b.t <= now
    /\ \A tick \in Range(wire) : tick.t <= now /\ \A b \in Listed : b.t <= tick.t
    /\ partial # NoBar => \A b \in Range(ws) : b.t <= partial.t
    /\ \A m \in Traded : m <= now

\* Whatever is kept of a minute was traded in it.
Genuine ==
    /\ \A m \in Traded : 0 < real[m].lo /\ real[m].lo <= real[m].last /\ real[m].last <= real[m].hi
    /\ \A b \in Kept : b.t \in Traded /\ Within(b, real[b.t])
    /\ \A tick \in Range(wire) :
          tick.t \in Traded /\ real[tick.t].lo <= tick.p /\ tick.p <= real[tick.t].hi

\* Whatever was heard of a minute is in a bar of it.
Complete ==
    \A m \in Minutes : heard[m] # NoBar =>
        /\ \E b \in Listed : b.t = m /\ heard[m].hi <= b.hi
        /\ \E b \in Listed : b.t = m /\ b.lo <= heard[m].lo

\* A backfilled bar starts with its bucket, and its prices were traded in it.
Backed(b) ==
    /\ b.t = Open + Bucket * BucketOf(b.t)
    /\ \E m \in Traded : BucketOf(m) = BucketOf(b.t) /\ b.hi <= real[m].hi
    /\ \E m \in Traded : BucketOf(m) = BucketOf(b.t) /\ real[m].lo <= b.lo
Backfilled == \A b \in back \cup db5 : Backed(b)

CandleInv == Typed /\ InOrder /\ Genuine /\ Complete /\ Backfilled

\* Minutes are numbers, and the empty bar is of none of them.
LEMMA MinuteNumbers == /\ \A m \in Minutes : m \in Nat /\ m # 0
                       /\ \A b \in Bars : b.t \in Minutes /\ b.hi \in Nat /\ b.lo \in Nat /\ b # NoBar
                       /\ NoBar.t = 0 /\ 0 \notin Minutes
<1>1. \A m \in Minutes : m \in Nat /\ m # 0
  BY HoursAssumption DEF Minutes
<1>2. \A b \in Bars : b.t \in Minutes /\ b.hi \in Nat /\ b.lo \in Nat
  BY DEF Bars
<1>3. NoBar.t = 0
  BY DEF NoBar
<1> QED BY <1>1, <1>2, <1>3

\* The list and the bar that is being built, and the bars of a list.
LEMMA ListFacts ==
    ASSUME Typed
    PROVE  /\ \A b \in Range(ws) \cup Listed \cup Kept : b \in Bars
           /\ DOMAIN ws = 1..Len(ws) /\ \A i \in DOMAIN ws : ws[i] \in Range(ws)
           /\ DOMAIN wire = 1..Len(wire) /\ \A i \in DOMAIN wire : wire[i] \in Range(wire)
           /\ Range(wire) \subseteq Ticks /\ Range(ws) \subseteq Listed /\ Listed \subseteq Kept
<1>1. ws \in Seq(Bars) /\ wire \in Seq(Ticks) /\ partial \in Bars \cup {NoBar} /\ db1 \subseteq Bars
  BY DEF Typed
<1>2. DOMAIN ws = 1..Len(ws) /\ \A i \in DOMAIN ws : ws[i] \in Bars /\ ws[i] \in Range(ws)
  BY <1>1 DEF Range
<1>3. DOMAIN wire = 1..Len(wire) /\ \A i \in DOMAIN wire : wire[i] \in Ticks /\ wire[i] \in Range(wire)
  BY <1>1 DEF Range
<1>4. Range(ws) \subseteq Bars /\ Range(wire) \subseteq Ticks
  BY <1>2, <1>3 DEF Range
<1> QED BY <1>1, <1>2, <1>3, <1>4 DEF Listed, Kept

\* A finished bucket's backfill and a finished group are both of a bucket that is over.
LEMMA InvGivesNotAhead == Typed /\ InOrder /\ Backfilled => NotAhead
<1> SUFFICES ASSUME Typed, InOrder, Backfilled, NEW b \in Canonical(ws, back, now)
             PROVE  now >= Open + Bucket * (BucketOf(b.t) + 1)
  BY DEF NotAhead
<1>1. CASE b \in back /\ b.t + Bucket <= now
  <2>1. b.t = Open + Bucket * BucketOf(b.t) /\ b.t \in Minutes /\ now \in Int
    BY <1>1, MinuteNumbers DEF Backfilled, Backed, Typed
  <2>2. BucketOf(b.t) \in Nat
    BY <2>1, Buckets
  <2> DEFINE k == BucketOf(b.t)
             m == b.t
  <2>3. Bucket * (k + 1) = Bucket * k + Bucket /\ Bucket * k \in Nat /\ Open \in Nat /\ Bucket \in Nat
    BY <2>2, BucketAssumption, HoursAssumption
  <2>4. m = Open + Bucket * k /\ m + Bucket <= now /\ now \in Int
    BY <1>1, <2>1
  <2> HIDE DEF k, m
  <2>5. now >= Open + Bucket * (k + 1)
    BY <2>3, <2>4
  <2> QED BY <2>5 DEF k
<1>2. CASE \E i \in Finished(ws, now) : b = Group(ws, i)
  <2>1. PICK i \in Finished(ws, now) : b = Group(ws, i)
    BY <1>2
  <2>2. b.t = ws[i].t
    BY <2>1 DEF Group, Span
  <2>3. ws \in Seq(Bars) /\ now \in Int /\ Ordered(ws) /\ \A j \in DOMAIN ws : ws[j].t <= now
    BY ListFacts DEF Typed, InOrder
  <2> QED BY <2>2, <2>3, FinishedIsOver
<1> QED BY <1>1, <1>2 DEF Canonical

\* The bars of a bucket in what was traded.
LEMMA BucketBarOf ==
    ASSUME Typed, NEW n, BucketOf(n) \in Nat, \E m \in Traded : BucketOf(m) = BucketOf(n)
    PROVE  LET k == BucketOf(n) IN
           /\ BucketBar(n).t = Open + Bucket * k
           /\ \E m \in Traded : BucketOf(m) = k /\ BucketBar(n).hi = real[m].hi
           /\ \E m \in Traded : BucketOf(m) = k /\ BucketBar(n).lo = real[m].lo
           /\ \A m \in Traded : BucketOf(m) = k => real[m].hi <= BucketBar(n).hi /\ BucketBar(n).lo <= real[m].lo
<1> DEFINE k == BucketOf(n)
           ms == {m \in Traded : BucketOf(m) = k}
           s == {real[m] : m \in ms}
<1>1. ms \in SUBSET Minutes /\ IsFiniteSet(Minutes)
  BY FS_Interval, HoursAssumption DEF Minutes, Traded
<1>2. IsFiniteSet(ms) /\ \A m \in ms : real[m] \in Trades
  BY <1>1, FS_Subset DEF Typed
<1>3. IsFiniteSet(s)
  <2>1. [m \in ms |-> real[m]] \in Surjection(ms, s)
    BY DEF Surjection
  <2> QED BY <1>2, <2>1, FS_Surjection
<1>4. s # {} /\ \A b \in s : b.hi \in Nat /\ b.lo \in Nat
  BY <1>2 DEF Trades
<1>5. BucketBar(n) = Span(Open + Bucket * k, s)
  BY DEF BucketBar
<1> DEFINE bar == Span(Open + Bucket * k, s)
<1>6. /\ bar.t = Open + Bucket * k
      /\ \E b \in s : bar.hi = b.hi
      /\ \E b \in s : bar.lo = b.lo
      /\ \A b \in s : b.hi <= bar.hi /\ bar.lo <= b.lo
  BY <1>3, <1>4, SpanOf
<1> HIDE DEF bar
<1> QED BY <1>5, <1>6 DEF bar

\* Bars that bound what was heard bound the span, and prices that were traded bound the bars.
LEMMA InvGivesFaithful == CandleInv => CandlesFaithful
<1> SUFFICES ASSUME CandleInv PROVE CandlesFaithful
  OBVIOUS
<1>0. Typed /\ InOrder /\ Genuine /\ Complete /\ Backfilled
  BY DEF CandleInv
<1>1. ASSUME NEW m \in Minutes
      PROVE  Spans(m, {b \in Range(ws) \cup {partial} : b.t = m})
  <2> DEFINE s == {b \in Range(ws) \cup {partial} : b.t = m}
  <2>1. s = {b \in Listed : b.t = m}
    BY MinuteNumbers DEF Listed
  <2>2. SUFFICES ASSUME heard[m] # NoBar PROVE s # {} /\ Within(heard[m], Span(m, s))
    BY DEF Spans
  <2>3. PICK a, b \in s : heard[m].hi <= a.hi /\ b.lo <= heard[m].lo
    BY <1>0, <2>1, <2>2 DEF Complete
  <2>4. IsFiniteSet(s)
    <3>1. IsFiniteSet(1..Len(ws)) /\ Range(ws) = {ws[i] : i \in 1..Len(ws)}
      BY <1>0, ListFacts, FS_Interval DEF Typed, Range
    <3>2. [i \in 1..Len(ws) |-> ws[i]] \in Surjection(1..Len(ws), Range(ws))
      BY <3>1 DEF Surjection
    <3>3. IsFiniteSet(Range(ws))
      BY <3>1, <3>2, FS_Surjection
    <3>4. IsFiniteSet(Range(ws) \cup {partial})
      BY <3>3, FS_AddElement
    <3>5. s \in SUBSET (Range(ws) \cup {partial})
      OBVIOUS
    <3> QED BY <3>4, <3>5, FS_Subset
  <2>5. \A c \in s : c.hi \in Nat /\ c.lo \in Nat
    BY <1>0, <2>1, ListFacts, MinuteNumbers
  <2> HIDE DEF s
  <2>6. \A c \in s : c.hi <= Span(m, s).hi /\ Span(m, s).lo <= c.lo
    BY <2>3, <2>4, <2>5, SpanOf
  <2>7. Span(m, s).hi \in Nat /\ Span(m, s).lo \in Nat
    <3>1. \E c \in s : Span(m, s).hi = c.hi
      BY <2>3, <2>4, <2>5, SpanOf
    <3>2. \E c \in s : Span(m, s).lo = c.lo
      BY <2>3, <2>4, <2>5, SpanOf
    <3> QED BY <2>5, <3>1, <3>2
  <2>8. heard[m].hi \in Nat /\ heard[m].lo \in Nat
    BY <1>0, <2>2, MinuteNumbers DEF Typed
  <2> QED BY <2>3, <2>5, <2>6, <2>7, <2>8 DEF Within
<1>2. ASSUME NEW b \in (Range(ws) \cup {partial}) \ {NoBar}
      PROVE  Within(b, real[b.t])
  <2>1. b \in Kept
    BY DEF Kept, Listed
  <2> QED BY <1>0, <2>1 DEF Genuine
<1>3. ASSUME NEW b \in back
      PROVE  BucketReal(b)
  <2>1. Backed(b) /\ b \in Bars
    BY <1>0 DEF Backfilled, Typed
  <2>2. BucketOf(b.t) \in Nat
    BY <2>1, MinuteNumbers, Buckets
  <2>3. PICK l, m \in Traded : /\ BucketOf(l) = BucketOf(b.t) /\ b.hi <= real[l].hi
                               /\ BucketOf(m) = BucketOf(b.t) /\ real[m].lo <= b.lo
    BY <2>1 DEF Backed
  <2> DEFINE bar == BucketBar(b.t)
  <2>4. /\ real[l].hi <= bar.hi /\ bar.lo <= real[m].lo
        /\ \E n \in Traded : bar.hi = real[n].hi
        /\ \E n \in Traded : bar.lo = real[n].lo
    BY <1>0, <2>2, <2>3, BucketBarOf
  <2>5. \A n \in Traded : real[n].hi \in Nat /\ real[n].lo \in Nat
    BY <1>0 DEF Typed, Traded, Trades
  <2> HIDE DEF bar
  <2>6. b.hi \in Nat /\ b.lo \in Nat /\ bar.hi \in Nat /\ bar.lo \in Nat
    BY <2>1, <2>4, <2>5, MinuteNumbers
  <2>7. b.hi <= bar.hi /\ b.lo >= bar.lo
    BY <2>3, <2>4, <2>5, <2>6
  <2> QED BY <2>7 DEF BucketReal, Within, bar
<1> QED BY <1>1, <1>2, <1>3 DEF CandlesFaithful

--------------------------------------------------------------------------
\* The steps.

\* The candles do not change, ticks may be lost, time may pass.
LEMMA CandlesStay ==
    ASSUME CandleInv, UNCHANGED <<candles, database, real, heard>>, now' \in Int, now <= now',
           wire' = wire \/ wire' = <<>> \/ (wire # <<>> /\ wire' = Tail(wire))
    PROVE  CandleInv'
<1>0. Typed /\ InOrder /\ Genuine /\ Complete /\ Backfilled
  BY DEF CandleInv
<1>1. UNCHANGED <<ws, partial, back, db1, db5>> /\ UNCHANGED <<real, heard>>
  BY DEF candles, database
<1>2. Listed' = Listed /\ Kept' = Kept /\ Traded' = Traded
  BY <1>1 DEF Listed, Kept, Traded
<1>3. wire \in Seq(Ticks) /\ now \in Int
  BY <1>0 DEF Typed
<1>4. wire' \in Seq(Ticks) /\ Range(wire') \subseteq Range(wire) /\ (Ordered(wire) => Ordered(wire'))
  <2>1. CASE wire' = <<>>
    <3>1. wire' \in Seq(Ticks) /\ DOMAIN wire' = {}
      BY <2>1
    <3> QED BY <3>1 DEF Range, Ordered
  <2>2. CASE wire # <<>> /\ wire' = Tail(wire)
    BY <1>3, <2>2, RestOf
  <2> QED BY <1>3, <2>1, <2>2
<1>5. Typed'
  BY <1>0, <1>1, <1>4 DEF Typed
<1>6. InOrder'
  <2>1. \A b \in Kept : b.t \in Int /\ b.t <= now
    BY <1>0, ListFacts, MinuteNumbers DEF InOrder
  <2>2. \A tick \in Range(wire) : tick.t \in Int /\ tick.t <= now
    BY <1>0, ListFacts, MinuteNumbers DEF InOrder, Ticks
  <2>3. \A m \in Traded : m \in Int /\ m <= now
    BY <1>0, MinuteNumbers DEF InOrder, Traded
  <2>4. \A n \in Int : n <= now => n <= now'
    BY <1>3
  <2>5. /\ \A b \in Kept : b.t <= now'
        /\ \A tick \in Range(wire') : tick.t <= now'
        /\ \A m \in Traded : m <= now'
    BY <1>4, <2>1, <2>2, <2>3, <2>4
  <2>6. Ordered(ws) /\ Ordered(wire') /\ (partial # NoBar => \A b \in Range(ws) : b.t <= partial.t)
        /\ \A tick \in Range(wire') : \A b \in Listed : b.t <= tick.t
    BY <1>0, <1>4 DEF InOrder
  <2> QED BY <1>1, <1>2, <2>5, <2>6 DEF InOrder
<1>7. Genuine'
  BY <1>0, <1>1, <1>2, <1>4 DEF Genuine
<1>8. Complete'
  BY <1>0, <1>1, <1>2 DEF Complete
<1>9. Backfilled'
  BY <1>0, <1>1, <1>2 DEF Backfilled, Backed
<1> QED BY <1>5, <1>6, <1>7, <1>8, <1>9 DEF CandleInv

\* A trade widens what was traded in its minute, which is the latest there is.
LEMMA TradeStep ==
    ASSUME CandleInv, NEW p \in Prices, Trade(p)
    PROVE  CandleInv'
<1>0. Typed /\ InOrder /\ Genuine /\ Complete /\ Backfilled
  BY DEF CandleInv
<1>1. UNCHANGED <<ws, partial, back, db1, db5, heard, now>> /\ now \in Minutes
  BY <1>0 DEF Trade, candles, database, clock, Trading, Minutes, Typed
<1>2. p \in Nat /\ p > 0
  BY PricesAssumption
<1> DEFINE old == real[now]
           new == IF old.hi = 0 THEN [hi |-> p, lo |-> p, last |-> p]
                  ELSE [hi |-> IF p > old.hi THEN p ELSE old.hi,
                        lo |-> IF p < old.lo THEN p ELSE old.lo, last |-> p]
<1>3. real' = [real EXCEPT ![now] = new]
  BY DEF Trade
<1>4. old \in Trades /\ (old.hi > 0 => now \in Traded)
  BY <1>0, <1>1 DEF Typed, Traded
<1>5. old.hi > 0 => 0 < old.lo /\ old.lo <= old.hi
  BY <1>0, <1>4 DEF Genuine, Trades
<1>6. /\ new \in Trades /\ 0 < new.lo /\ new.lo <= new.last /\ new.last <= new.hi
      /\ new.lo <= p /\ p <= new.hi /\ new.hi > 0
      /\ old.hi > 0 => old.hi <= new.hi /\ new.lo <= old.lo
  BY <1>2, <1>4, <1>5 DEF Trades
<1> HIDE DEF new, old
<1>7. /\ real' \in [Minutes -> Trades] /\ real'[now] = new
      /\ \A m \in Minutes : m # now => real'[m] = real[m]
  BY <1>0, <1>1, <1>3, <1>6 DEF Typed
<1>8. Traded' = Traded \cup {now} /\ now \in Traded' /\ Traded' \subseteq Minutes
  BY <1>1, <1>6, <1>7 DEF Traded
<1>9. \A m \in Traded : real[m].hi \in Nat /\ real[m].lo \in Nat
                        /\ real[m].hi <= real'[m].hi /\ real'[m].lo <= real[m].lo
                        /\ real'[m].hi \in Nat /\ real'[m].lo \in Nat
  <2> TAKE m \in Traded
  <2>1. m \in Minutes /\ real[m] \in Trades /\ real'[m] \in Trades /\ real[m].hi > 0
    BY <1>0, <1>7 DEF Traded, Typed
  <2>2. real[m].hi <= real'[m].hi /\ real'[m].lo <= real[m].lo
    BY <1>6, <1>7, <2>1 DEF old, Trades
  <2> QED BY <2>1, <2>2 DEF Trades
<1>10. /\ wire' = wire \/ wire' = Append(wire, [t |-> now, p |-> p])
       /\ [t |-> now, p |-> p] \in Ticks
  BY <1>1 DEF Trade, Ticks
<1> DEFINE x == [t |-> now, p |-> p]
<1>t. x.t = now /\ x.p = p /\ x \in Ticks
  BY <1>10
<1> HIDE DEF x
<1>11. /\ wire' \in Seq(Ticks) /\ Range(wire') \subseteq Range(wire) \cup {x} /\ Ordered(wire')
  <2>1. \A y \in Range(wire) : y.t <= x.t
    BY <1>0, <1>t DEF InOrder
  <2>2. x.t \in Int /\ wire \in Seq(Ticks) /\ Ordered(wire)
    BY <1>0, <1>t DEF Typed, InOrder
  <2>3. wire' = wire \/ wire' = Append(wire, x)
    BY <1>10 DEF x
  <2>4. CASE wire' = Append(wire, x)
    <3>1. /\ Append(wire, x) \in Seq(Ticks) /\ Range(Append(wire, x)) = Range(wire) \cup {x}
          /\ Ordered(Append(wire, x))
      BY <1>t, <2>1, <2>2, Longer
    <3> QED BY <2>4, <3>1
  <2>5. CASE wire' = wire
    BY <2>2, <2>5
  <2> QED BY <2>3, <2>4, <2>5
<1>12. Listed' = Listed /\ Kept' = Kept
  BY <1>1 DEF Listed, Kept
<1>13. Typed'
  BY <1>0, <1>1, <1>7, <1>11 DEF Typed
<1>14. InOrder'
  <2>1. \A m \in Traded' : m <= now
    BY <1>0, <1>8 DEF InOrder, Typed
  <2>2. \A tick \in Range(wire') : tick.t <= now /\ \A b \in Listed : b.t <= tick.t
    <3>1. \A b \in Listed : b.t <= x.t
      BY <1>0, <1>t, ListFacts DEF InOrder
    <3> QED BY <1>0, <1>t, <1>11, <3>1 DEF InOrder, Typed
  <2>3. Ordered(ws) /\ Ordered(wire') /\ (partial # NoBar => \A b \in Range(ws) : b.t <= partial.t)
        /\ \A b \in Kept : b.t <= now
    BY <1>0, <1>11 DEF InOrder
  <2> QED BY <1>1, <1>12, <2>1, <2>2, <2>3 DEF InOrder
<1>15. Genuine'
  <2>1. \A m \in Traded' : 0 < real'[m].lo /\ real'[m].lo <= real'[m].last /\ real'[m].last <= real'[m].hi
    BY <1>0, <1>6, <1>7, <1>8 DEF Genuine
  <2>2. \A b \in Kept : b.t \in Traded' /\ Within(b, real'[b.t])
    <3> TAKE b \in Kept
    <3>1. b.t \in Traded /\ Within(b, real[b.t]) /\ b \in Bars
      BY <1>0, ListFacts DEF Genuine
    <3> QED BY <1>8, <1>9, <3>1, MinuteNumbers DEF Within
  <2>3. \A tick \in Range(wire') : tick.t \in Traded' /\ real'[tick.t].lo <= tick.p /\ tick.p <= real'[tick.t].hi
    <3> TAKE tick \in Range(wire')
    <3>1. CASE tick = x
      BY <1>6, <1>7, <1>8, <1>t, <3>1
    <3>2. CASE tick \in Range(wire)
      <4>1. tick \in Ticks /\ tick.t \in Traded /\ real[tick.t].lo <= tick.p /\ tick.p <= real[tick.t].hi
        BY <1>0, <3>2, ListFacts DEF Genuine
      <4>2. tick.p \in Nat
        BY <4>1, PricesAssumption DEF Ticks
      <4> QED BY <1>8, <1>9, <4>1, <4>2
    <3> QED BY <1>11, <3>1, <3>2
  <2> QED BY <1>12, <2>1, <2>2, <2>3 DEF Genuine
<1>16. Complete'
  BY <1>0, <1>1, <1>12 DEF Complete
<1>17. Backfilled'
  <2> SUFFICES ASSUME NEW b \in back \cup db5 PROVE Backed(b)'
    BY <1>1 DEF Backfilled
  <2>1. Backed(b) /\ b \in Bars
    BY <1>0 DEF Backfilled, Typed
  <2>2. PICK l \in Traded : BucketOf(l) = BucketOf(b.t) /\ b.hi <= real[l].hi
    BY <2>1 DEF Backed
  <2>3. PICK m \in Traded : BucketOf(m) = BucketOf(b.t) /\ real[m].lo <= b.lo
    BY <2>1 DEF Backed
  <2>4. b.hi <= real'[l].hi /\ real'[m].lo <= b.lo
    BY <1>9, <2>1, <2>2, <2>3, MinuteNumbers
  <2> QED BY <1>8, <2>1, <2>2, <2>3, <2>4 DEF Backed
<1> QED BY <1>13, <1>14, <1>15, <1>16, <1>17 DEF CandleInv

\* Replacing adds the new bars and nothing else.
LEMMA ReplacedIn ==
    ASSUME NEW old, NEW new
    PROVE  Replaced(old, new) \subseteq old \cup new
  BY DEF Replaced

\* A bar with a price more spans what it spanned, and the price.
LEMMA GrownSpans ==
    ASSUME NEW bar \in Bars, NEW p \in Nat
    PROVE  /\ Grown(bar, p) \in Bars /\ Grown(bar, p).t = bar.t
           /\ bar.hi <= Grown(bar, p).hi /\ Grown(bar, p).lo <= bar.lo
           /\ p <= Grown(bar, p).hi /\ Grown(bar, p).lo <= p
           /\ Grown(bar, p).hi \in {bar.hi, p} /\ Grown(bar, p).lo \in {bar.lo, p}
<1>1. bar.t \in Minutes /\ bar.hi \in Nat /\ bar.lo \in Nat
  BY DEF Bars
<1>2. /\ Grown(bar, p) \in [t : Minutes, hi : Nat, lo : Nat]
      /\ Grown(bar, p).t = bar.t
      /\ Grown(bar, p).hi = IF p > bar.hi THEN p ELSE bar.hi
      /\ Grown(bar, p).lo = IF p < bar.lo THEN p ELSE bar.lo
  BY DEF Grown, Bars
<1> HIDE DEF Grown
<1> QED BY <1>1, <1>2 DEF Bars

\* The part of the invariant about the bars that are kept, from what one step adds.
LEMMA BarsStay ==
    ASSUME CandleInv, UNCHANGED <<now, real>>,
           ws' \in Seq(Bars), Ordered(ws'), partial' \in Bars \cup {NoBar},
           wire' \in Seq(Ticks), Ordered(wire'), Range(wire') \subseteq Range(wire),
           db1' \in SUBSET Bars, IsFiniteSet(db1'), db5' \in SUBSET Bars, back' \in SUBSET Bars,
           heard' \in [Minutes -> Bars \cup {NoBar}],
           \A b \in Kept' : b.t <= now /\ b.t \in Traded /\ Within(b, real[b.t]),
           \A tick \in Range(wire') : \A b \in Listed' : b.t <= tick.t,
           partial' # NoBar => \A b \in Range(ws') : b.t <= partial'.t,
           \A b \in (back' \cup db5') \ (back \cup db5) : Backed(b),
           Complete'
    PROVE  CandleInv'
<1>0. Typed /\ InOrder /\ Genuine /\ Complete /\ Backfilled
  BY DEF CandleInv
<1>1. Traded' = Traded
  BY DEF Traded
<1>2. Typed'
  BY <1>0 DEF Typed
<1>3. InOrder'
  BY <1>0, <1>1 DEF InOrder
<1>4. Genuine'
  BY <1>0, <1>1 DEF Genuine
<1>5. Backfilled'
  BY <1>0, <1>1 DEF Backfilled, Backed
<1> QED BY <1>2, <1>3, <1>4, <1>5 DEF CandleInv

\* The bar that is being built goes to the list and perhaps to the database.
LEMMA Finishes ==
    ASSUME CandleInv, partial # NoBar, NEW saved \in BOOLEAN, Finish(saved)
    PROVE  /\ ws' \in Seq(Bars) /\ Ordered(ws') /\ Range(ws') = Listed
           /\ db1' \in SUBSET Bars /\ IsFiniteSet(db1') /\ db1' \subseteq Kept
<1>0. Typed /\ InOrder
  BY DEF CandleInv
<1>1. ws \in Seq(Bars) /\ partial \in Bars /\ ws' = Append(ws, partial) /\ partial.t \in Int
  BY <1>0, MinuteNumbers DEF Typed, Finish, Pushed
<1>2. ws' \in Seq(Bars) /\ Range(ws') = Range(ws) \cup {partial}
  BY <1>1, Longer
<1>3. Ordered(ws')
  BY <1>0, <1>1, Longer DEF InOrder
<1>4. Listed = Range(ws) \cup {partial}
  BY DEF Listed
<1>5. db1' \subseteq db1 \cup {partial}
  BY ReplacedIn DEF Finish
<1>6. IsFiniteSet(db1 \cup {partial}) /\ db1 \subseteq Bars
  BY <1>0, FS_AddElement DEF Typed
<1>7. IsFiniteSet(db1')
  BY <1>5, <1>6, FS_Subset
<1> QED BY <1>1, <1>2, <1>3, <1>4, <1>5, <1>6, <1>7 DEF Kept

\* The idle close moves the bar from one place to another.
LEMMA SilenceStep ==
    ASSUME CandleInv, NEW saved \in BOOLEAN, Silence(saved)
    PROVE  CandleInv'
<1>0. Typed /\ InOrder /\ Genuine /\ Complete /\ Backfilled
  BY DEF CandleInv
<1>1. UNCHANGED <<now, real, wire, back, db5, heard>> /\ partial # NoBar /\ partial' = NoBar /\ Finish(saved)
  BY DEF Silence, clock
<1>2. /\ ws' \in Seq(Bars) /\ Ordered(ws') /\ Range(ws') = Listed
      /\ db1' \in SUBSET Bars /\ IsFiniteSet(db1') /\ db1' \subseteq Kept
  BY <1>1, Finishes
<1>3. Listed' = Listed /\ Kept' \subseteq Kept
  BY <1>1, <1>2 DEF Listed, Kept
<1>4. Complete'
  BY <1>0, <1>1, <1>3 DEF Complete
<1>5. \A b \in Kept' : b.t <= now /\ b.t \in Traded /\ Within(b, real[b.t])
  BY <1>0, <1>3 DEF InOrder, Genuine
<1>6. \A tick \in Range(wire') : \A b \in Listed' : b.t <= tick.t
  BY <1>0, <1>1, <1>3 DEF InOrder
<1>7. wire' \in Seq(Ticks) /\ Ordered(wire') /\ Range(wire') \subseteq Range(wire)
      /\ db5' \in SUBSET Bars /\ back' \in SUBSET Bars /\ heard' \in [Minutes -> Bars \cup {NoBar}]
  BY <1>0, <1>1 DEF Typed, InOrder
<1> QED BY <1>1, <1>2, <1>4, <1>5, <1>6, <1>7, BarsStay

\* A tick is of the last minute that is listed or of a later one.  It widens the bar of its
\* minute or begins one, and what was heard of it widens by no more.
LEMMA ReceiveStep ==
    ASSUME CandleInv, NEW saved \in BOOLEAN, Receive(saved)
    PROVE  CandleInv'
<1> DEFINE tick == Head(wire)
           m == tick.t
           p == tick.p
<1>0. Typed /\ InOrder /\ Genuine /\ Complete /\ Backfilled
  BY DEF CandleInv
<1>1. /\ UNCHANGED <<now, real, back, db5>> /\ wire # <<>> /\ wire' = Tail(wire)
      /\ IF partial # NoBar /\ partial.t # m THEN Finish(saved) ELSE UNCHANGED <<ws, db1>>
      /\ partial' = IF partial.t = m THEN Grown(partial, p) ELSE Begun(m, p)
      /\ heard' = [heard EXCEPT ![m] = IF @ = NoBar THEN Begun(m, p) ELSE Grown(@, p)]
  BY DEF Receive
<1>2. /\ wire' \in Seq(Ticks) /\ Ordered(wire') /\ Range(wire') \subseteq Range(wire)
      /\ tick \in Range(wire) /\ \A x \in Range(wire') : m <= x.t
  BY <1>0, <1>1, RestOf DEF Typed, InOrder
<1>3. /\ m \in Minutes /\ p \in Nat /\ m <= now /\ m \in Traded /\ real[m].lo <= p /\ p <= real[m].hi
      /\ \A b \in Listed : b.t <= m
  BY <1>0, <1>2, ListFacts, PricesAssumption DEF InOrder, Genuine, Ticks
<1> HIDE DEF tick, m, p
<1>4. Begun(m, p) \in Bars /\ Begun(m, p).t = m /\ Begun(m, p).hi = p /\ Begun(m, p).lo = p
  BY <1>3 DEF Begun, Bars
<1>5. partial.t = m => partial \in Bars /\ partial \in Listed /\ partial # NoBar
  BY <1>0, <1>3, MinuteNumbers DEF Typed, Listed
<1>6. /\ partial' \in Bars /\ partial'.t = m /\ partial' # NoBar
      /\ p <= partial'.hi /\ partial'.lo <= p
      /\ partial.t = m => partial.hi <= partial'.hi /\ partial'.lo <= partial.lo
  <2>1. CASE partial.t = m
    <3>1. partial \in Bars /\ partial' = Grown(partial, p)
      BY <1>1, <1>5, <2>1
    <3>2. partial'.t = m
      BY <1>3, <2>1, <3>1, GrownSpans
    <3> QED BY <1>3, <2>1, <3>1, <3>2, GrownSpans, MinuteNumbers
  <2>2. CASE partial.t # m
    <3>1. partial' = Begun(m, p)
      BY <1>1, <2>2
    <3>2. partial' # NoBar
      BY <1>3, <1>4, <3>1, MinuteNumbers
    <3> QED BY <1>3, <1>4, <2>2, <3>1, <3>2
  <2> QED BY <2>1, <2>2
<1>7. Within(partial', real[m])
  <2>1. CASE partial.t = m
    <3>1. Within(partial, real[m])
      BY <1>0, <1>5, <2>1 DEF Genuine, Kept
    <3>2. partial'.hi \in {partial.hi, p} /\ partial'.lo \in {partial.lo, p}
      BY <1>1, <1>3, <1>5, <2>1, GrownSpans
    <3>3. partial.hi <= real[m].hi /\ real[m].lo <= partial.lo
      BY <3>1 DEF Within
    <3>4. partial'.hi <= real[m].hi /\ real[m].lo <= partial'.lo
      BY <1>3, <3>2, <3>3
    <3> QED BY <3>4 DEF Within
  <2>2. CASE partial.t # m
    BY <1>1, <1>3, <1>4, <2>2 DEF Within
  <2> QED BY <2>1, <2>2
<1>8. /\ ws' \in Seq(Bars) /\ Ordered(ws') /\ Range(ws') \subseteq Listed /\ Range(ws) \subseteq Range(ws')
      /\ partial # NoBar /\ partial.t # m => partial \in Range(ws')
      /\ db1' \in SUBSET Bars /\ IsFiniteSet(db1') /\ db1' \subseteq Kept
  <2>1. CASE partial # NoBar /\ partial.t # m
    <3>1. Finish(saved)
      BY <1>1, <2>1
    <3>2. /\ ws' \in Seq(Bars) /\ Ordered(ws') /\ Range(ws') = Listed
          /\ db1' \in SUBSET Bars /\ IsFiniteSet(db1') /\ db1' \subseteq Kept
      BY <2>1, <3>1, Finishes
    <3> QED BY <2>1, <3>2 DEF Listed
  <2>2. CASE ~(partial # NoBar /\ partial.t # m)
    <3>1. ws' = ws /\ db1' = db1
      BY <1>1, <2>2
    <3> QED BY <1>0, <2>2, <3>1 DEF Typed, InOrder, Listed, Kept
  <2> QED BY <2>1, <2>2
<1>9. Listed' = Range(ws') \cup {partial'}
  BY <1>6 DEF Listed
<1>10. Complete'
  <2>1. \A b \in Listed : \E c \in Listed' : c.t = b.t /\ b.hi <= c.hi /\ c.lo <= b.lo
    <3> TAKE b \in Listed
    <3>1. b \in Bars
      BY <1>0, ListFacts
    <3>2. CASE b = partial /\ partial.t = m
      <4>1. partial' \in Listed' /\ partial'.t = b.t /\ b.hi <= partial'.hi /\ partial'.lo <= b.lo
        BY <1>6, <1>9, <3>2
      <4> QED BY <4>1
    <3>3. CASE ~(b = partial /\ partial.t = m)
      <4>1. b \in Range(ws')
        BY <1>8, <3>3 DEF Listed
      <4>2. b.hi <= b.hi /\ b.lo <= b.lo
        BY <3>1, MinuteNumbers
      <4> QED BY <1>9, <4>1, <4>2
    <3> QED BY <3>2, <3>3
  <2>2. \A b \in Listed' : b \in Bars
    BY <1>0, <1>6, <1>8, <1>9, ListFacts
  <2>3. heard' \in [Minutes -> Bars \cup {NoBar}]
    <3>1. heard \in [Minutes -> Bars \cup {NoBar}]
      BY <1>0 DEF Typed
    <3>2. heard[m] # NoBar => Grown(heard[m], p) \in Bars
      BY <1>3, <3>1, GrownSpans
    <3> QED BY <1>1, <1>3, <1>4, <3>1, <3>2
  <2> SUFFICES ASSUME NEW n \in Minutes, heard'[n] # NoBar
               PROVE  /\ \E b \in Listed' : b.t = n /\ heard'[n].hi <= b.hi
                      /\ \E b \in Listed' : b.t = n /\ b.lo <= heard'[n].lo
    BY DEF Complete
  <2>4. CASE heard[n] = NoBar /\ n = m
    <3>1. heard'[n] = Begun(m, p)
      BY <1>0, <1>1, <1>3, <2>4 DEF Typed
    <3> QED BY <1>4, <1>6, <1>9, <2>4, <3>1
  <2>5. CASE heard[n] # NoBar
    <3>1. PICK a, b \in Listed : a.t = n /\ heard[n].hi <= a.hi /\ b.t = n /\ b.lo <= heard[n].lo
      BY <1>0, <2>5 DEF Complete
    <3>2. PICK c, d \in Listed' : c.t = n /\ a.hi <= c.hi /\ d.t = n /\ d.lo <= b.lo
      BY <2>1, <3>1
    <3>3. heard[n] \in Bars /\ a \in Bars /\ b \in Bars /\ c \in Bars /\ d \in Bars
      BY <1>0, <2>2, <2>5, ListFacts DEF Typed
    <3>4. heard[n].hi <= c.hi /\ d.lo <= heard[n].lo
      BY <3>1, <3>2, <3>3, MinuteNumbers
    <3>5. CASE n # m
      <4>1. heard'[n] = heard[n]
        BY <1>0, <1>1, <2>5, <3>5 DEF Typed
      <4> QED BY <3>2, <3>4, <4>1
    <3>6. CASE n = m
      <4>1. heard'[n] = Grown(heard[n], p)
        BY <1>0, <1>1, <2>5, <3>6 DEF Typed
      <4>2. heard'[n].hi \in {heard[n].hi, p} /\ heard'[n].lo \in {heard[n].lo, p}
        BY <1>3, <3>3, <4>1, GrownSpans
      <4>3. partial' \in Listed' /\ partial'.t = n
        BY <1>6, <1>9, <3>6
      <4> QED BY <1>6, <3>2, <3>4, <4>2, <4>3
    <3> QED BY <3>5, <3>6
  <2>6. CASE heard[n] = NoBar /\ n # m
    BY <1>0, <1>1, <2>6 DEF Typed
  <2> QED BY <2>4, <2>5, <2>6
<1>11. \A b \in Kept' : b.t <= now /\ b.t \in Traded /\ Within(b, real[b.t])
  <2>1. Kept' \subseteq Kept \cup {partial'}
    BY <1>8, <1>9 DEF Kept
  <2> QED BY <1>0, <1>3, <1>6, <1>7, <2>1 DEF InOrder, Genuine
<1>12. \A x \in Range(wire') : \A b \in Listed' : b.t <= x.t
  <2>1. \A x \in Range(wire') : \A b \in Listed : b.t <= x.t
    BY <1>0, <1>2 DEF InOrder
  <2> QED BY <1>2, <1>6, <1>8, <1>9, <2>1
<1>13. \A b \in Range(ws') : b.t <= partial'.t
  BY <1>3, <1>6, <1>8
<1>14. db5' \in SUBSET Bars /\ back' \in SUBSET Bars /\ heard' \in [Minutes -> Bars \cup {NoBar}]
  BY <1>0, <1>1, <1>3, <1>4, GrownSpans DEF Typed
<1> QED BY <1>1, <1>2, <1>6, <1>8, <1>10, <1>11, <1>12, <1>13, <1>14, BarsStay

\* What Yahoo answers: bars of whole buckets, in which something was traded.
LEMMA YahooAnswers ==
    ASSUME Typed, Genuine
    PROVE  YahooBars \in SUBSET Bars /\ \A b \in YahooBars : Backed(b)
<1> SUFFICES ASSUME NEW n \in Traded PROVE BucketBar(n) \in Bars /\ Backed(BucketBar(n))
  BY DEF YahooBars
<1> DEFINE k == BucketOf(n)
           bar == BucketBar(n)
<1>1. n \in Minutes /\ k \in Nat /\ Open + Bucket * k \in Minutes /\ BucketOf(Open + Bucket * k) = k
  BY Buckets DEF Traded
<1>2. /\ bar.t = Open + Bucket * k
      /\ \E m \in Traded : BucketOf(m) = k /\ bar.hi = real[m].hi
      /\ \E m \in Traded : BucketOf(m) = k /\ bar.lo = real[m].lo
  BY <1>1, BucketBarOf
<1>3. \A m \in Traded : real[m].hi \in Nat /\ real[m].lo \in Nat
  BY DEF Typed, Traded, Trades
<1>4. bar = [t |-> bar.t, hi |-> bar.hi, lo |-> bar.lo]
  BY DEF BucketBar, Span
<1> HIDE DEF bar
<1>5. bar \in Bars
  BY <1>1, <1>2, <1>3, <1>4 DEF Bars
<1>6. bar.t = Open + Bucket * BucketOf(bar.t) /\ BucketOf(bar.t) = k
  BY <1>1, <1>2
<1>7. /\ \E m \in Traded : BucketOf(m) = BucketOf(bar.t) /\ bar.hi <= real[m].hi
      /\ \E m \in Traded : BucketOf(m) = BucketOf(bar.t) /\ real[m].lo <= bar.lo
  BY <1>2, <1>3, <1>6
<1>8. Backed(bar)
  BY <1>6, <1>7, Zenon DEF Backed
<1> QED BY <1>5, <1>8 DEF bar

\* What Naver answers: a bar for each minute in which something was traded.
LEMMA NaverAnswers ==
    ASSUME Typed, Genuine
    PROVE  /\ NaverBars \in SUBSET Bars /\ IsFiniteSet(NaverBars)
           /\ \A b \in NaverBars : b.t \in Traded /\ Within(b, real[b.t])
<1> DEFINE bar(m) == [t |-> m, hi |-> real[m].last, lo |-> real[m].last]
<1>1. Traded \in SUBSET Minutes /\ IsFiniteSet(Minutes)
  BY FS_Interval, HoursAssumption DEF Minutes, Traded
<1>2. IsFiniteSet(Traded)
  BY <1>1, FS_Subset
<1>3. NaverBars = {bar(m) : m \in Traded}
  BY DEF NaverBars
<1>4. [m \in Traded |-> bar(m)] \in Surjection(Traded, NaverBars)
  BY <1>3 DEF Surjection
<1>5. IsFiniteSet(NaverBars)
  BY <1>2, <1>4, FS_Surjection
<1>6. \A m \in Traded : bar(m) \in Bars /\ bar(m).t = m /\ Within(bar(m), real[m])
  BY <1>1 DEF Typed, Trades, Genuine, Within, Bars
<1> QED BY <1>1, <1>3, <1>5, <1>6

\* A refresh sorts the list and brings bars of Yahoo's.
LEMMA RefreshStep ==
    ASSUME CandleInv, NEW yahoo \in YahooAnswer, Refresh(yahoo)
    PROVE  CandleInv'
<1>0. Typed /\ InOrder /\ Genuine /\ Complete /\ Backfilled
  BY DEF CandleInv
<1>1. /\ UNCHANGED <<now, wire, partial, db1, real, heard>>
      /\ db5' = db5 \/ db5' = Replaced(db5, YahooBars)
      /\ back' = back \/ back' = Replaced(back, Replaced(db5, YahooBars))
      /\ ws' = ws \/ ws' = Sorted(ws)
  BY DEF Refresh, clock
<1>2. YahooBars \in SUBSET Bars /\ \A b \in YahooBars : Backed(b)
  BY <1>0, YahooAnswers
<1>3. db5' \subseteq db5 \cup YahooBars /\ back' \subseteq back \cup db5 \cup YahooBars
  BY <1>1, ReplacedIn
<1>4. ws' \in Seq(Bars) /\ Ordered(ws') /\ Range(ws') = Range(ws)
  BY <1>0, <1>1, SortedList DEF Typed, InOrder
<1>5. Listed' = Listed /\ Kept' = Kept
  BY <1>1, <1>4 DEF Listed, Kept
<1>6. Complete'
  BY <1>0, <1>1, <1>5 DEF Complete
<1>7. \A b \in Kept' : b.t <= now /\ b.t \in Traded /\ Within(b, real[b.t])
  BY <1>0, <1>5 DEF InOrder, Genuine
<1>8. /\ \A tick \in Range(wire') : \A b \in Listed' : b.t <= tick.t
      /\ partial' # NoBar => \A b \in Range(ws') : b.t <= partial'.t
  BY <1>0, <1>1, <1>4, <1>5 DEF InOrder
<1>9. /\ wire' \in Seq(Ticks) /\ Ordered(wire') /\ Range(wire') \subseteq Range(wire)
      /\ partial' \in Bars \cup {NoBar} /\ db1' \in SUBSET Bars /\ IsFiniteSet(db1')
      /\ db5' \in SUBSET Bars /\ back' \in SUBSET Bars /\ heard' \in [Minutes -> Bars \cup {NoBar}]
  BY <1>0, <1>1, <1>2, <1>3 DEF Typed, InOrder
<1>10. \A b \in (back' \cup db5') \ (back \cup db5) : Backed(b)
  BY <1>2, <1>3
<1> QED BY <1>1, <1>4, <1>6, <1>7, <1>8, <1>9, <1>10, BarsStay

\* A process starts with stored and with backfilled bars, in order.
LEMMA Starting ==
    ASSUME CandleInv, NEW loaded \in BOOLEAN, NEW yahoo \in YahooAnswer,
           StartCandles(loaded, yahoo)
    PROVE  /\ ws' \in Seq(Bars) /\ Ordered(ws') /\ Range(ws') \subseteq db1 \cup NaverBars
           /\ db1' \subseteq db1 \cup NaverBars
           /\ db5' \subseteq db5 \cup YahooBars /\ back' \subseteq db5 \cup YahooBars
<1>0. Typed /\ Genuine
  BY DEF CandleInv
<1> DEFINE rows == Preloaded(loaded)
<1>1. db1 \in SUBSET Bars /\ IsFiniteSet(db1)
  BY <1>0 DEF Typed
<1>2. SetToSeq(db1) \in Seq(db1) /\ Range(SetToSeq(db1)) \subseteq db1
  BY <1>1, SetAsList
<1>3. SetToSeq(db1) \in Seq(Bars)
  BY <1>1, <1>2
<1>4. rows \in Seq(Bars) /\ Ordered(rows) /\ Range(rows) \subseteq db1
  <2>1. CASE loaded
    BY <1>2, <1>3, <2>1, SortedList DEF Preloaded
  <2>2. CASE ~loaded
    BY <2>2 DEF Preloaded, Ordered, Range
  <2> QED BY <2>1, <2>2
<1> HIDE DEF rows
<1>5. CASE ws' = rows /\ back' = {} /\ UNCHANGED database
  BY <1>4, <1>5 DEF database
<1>6. CASE ws' = rows /\ db5' = Replaced(db5, YahooBars) /\ back' = db5' /\ db1' = db1
  BY <1>4, <1>6, ReplacedIn
<1>7. CASE /\ ws' = Supplemented(rows, {}, NaverBars) /\ back' = {}
           /\ db1' = Replaced(db1, NaverBars)
           /\ db5' = db5 \/ db5' = Replaced(db5, YahooBars)
  <2> DEFINE new == {n \in NaverBars : \A b \in Range(rows) \cup {} : b.t # n.t}
  <2>1. new \in SUBSET NaverBars /\ NaverBars \in SUBSET Bars /\ IsFiniteSet(NaverBars)
    BY <1>0, NaverAnswers
  <2>2. IsFiniteSet(new)
    BY <2>1, FS_Subset
  <2>3. SetToSeq(new) \in Seq(new) /\ Range(SetToSeq(new)) \subseteq new
    BY <2>2, SetAsList
  <2>4. SetToSeq(new) \in Seq(Bars)
    BY <2>1, <2>3
  <2>5. ws' = Sorted(rows \o SetToSeq(new))
    BY <1>7 DEF Supplemented
  <2> HIDE DEF new
  <2>6. rows \o SetToSeq(new) \in Seq(Bars)
        /\ Range(rows \o SetToSeq(new)) = Range(rows) \cup Range(SetToSeq(new))
    BY <1>4, <2>4, RangeConcatenation
  <2>7. ws' \in Seq(Bars) /\ Ordered(ws') /\ Range(ws') = Range(rows \o SetToSeq(new))
    BY <2>5, <2>6, SortedList
  <2>8. Range(ws') \subseteq db1 \cup NaverBars
    BY <1>4, <2>1, <2>3, <2>6, <2>7
  <2> QED BY <1>7, <2>7, <2>8, ReplacedIn
<1>8. CASE /\ ws' = rows /\ back' = {} /\ db1' = db1
           /\ db5' = db5 \/ db5' = Replaced(db5, YahooBars)
  BY <1>4, <1>8, ReplacedIn
<1> QED BY <1>5, <1>6, <1>7, <1>8 DEF StartCandles, rows

\* A restart forgets the ticks on their way and what was heard.
LEMMA RestartStep ==
    ASSUME CandleInv, NEW loaded \in BOOLEAN, NEW yahoo \in YahooAnswer,
           Restart(loaded, yahoo)
    PROVE  CandleInv'
<1>0. Typed /\ InOrder /\ Genuine /\ Complete /\ Backfilled
  BY DEF CandleInv
<1>1. /\ UNCHANGED <<now, real>> /\ wire' = <<>> /\ partial' = NoBar /\ StartCandles(loaded, yahoo)
      /\ heard' = [m \in Minutes |-> NoBar]
  BY DEF Restart
<1>2. /\ ws' \in Seq(Bars) /\ Ordered(ws') /\ Range(ws') \subseteq db1 \cup NaverBars
      /\ db1' \subseteq db1 \cup NaverBars
      /\ db5' \subseteq db5 \cup YahooBars /\ back' \subseteq db5 \cup YahooBars
  BY <1>1, Starting
<1>3. YahooBars \in SUBSET Bars /\ \A b \in YahooBars : Backed(b)
  BY <1>0, YahooAnswers
<1>4. /\ NaverBars \in SUBSET Bars /\ IsFiniteSet(NaverBars)
      /\ \A b \in NaverBars : b.t \in Traded /\ Within(b, real[b.t])
  BY <1>0, NaverAnswers
<1>5. db1 \in SUBSET Bars /\ db5 \in SUBSET Bars /\ IsFiniteSet(db1)
  BY <1>0 DEF Typed
<1>6. IsFiniteSet(db1') /\ db1' \in SUBSET Bars
  <2>1. IsFiniteSet(db1 \cup NaverBars)
    BY <1>4, <1>5, FS_Union
  <2> QED BY <1>2, <1>4, <1>5, <2>1, FS_Subset
<1>7. Kept' \subseteq db1 \cup NaverBars
  BY <1>1, <1>2 DEF Kept, Listed
<1>8. \A b \in Kept' : b.t <= now /\ b.t \in Traded /\ Within(b, real[b.t])
  <2>1. \A b \in NaverBars : b.t <= now
    BY <1>0, <1>4 DEF InOrder
  <2>2. db1 \subseteq Kept
    BY DEF Kept
  <2> QED BY <1>0, <1>4, <1>7, <2>1, <2>2 DEF InOrder, Genuine
<1>9. wire' \in Seq(Ticks) /\ Ordered(wire') /\ Range(wire') = {}
  <2>1. wire' \in Seq(Ticks) /\ DOMAIN wire' = {}
    BY <1>1
  <2> QED BY <2>1 DEF Ordered, Range
<1>10. heard' \in [Minutes -> Bars \cup {NoBar}] /\ Complete'
  BY <1>1 DEF Complete
<1>11. db5' \in SUBSET Bars /\ back' \in SUBSET Bars
  BY <1>2, <1>3, <1>5
<1>12. \A b \in (back' \cup db5') \ (back \cup db5) : Backed(b)
  BY <1>2, <1>3
<1> QED BY <1>1, <1>2, <1>6, <1>8, <1>9, <1>10, <1>11, <1>12, BarsStay

LEMMA CandleStep == CandleInv /\ [Next]_feedVars => CandleInv'
<1> SUFFICES ASSUME CandleInv, [Next]_feedVars PROVE CandleInv'
  OBVIOUS
<1>0. now \in Int /\ now <= now
  BY DEF CandleInv, Typed
<1>1. CASE Client
  BY <1>0, <1>1, CandlesStay DEF Client, Up, Down, clock
<1>2. CASE Lag
  BY <1>0, <1>2, CandlesStay DEF Lag
<1>3. CASE Watch
  BY <1>0, <1>3, CandlesStay DEF Watch
<1>4. CASE Minute
  BY <1>0, <1>4, CandlesStay DEF Minute
<1>5. CASE UNCHANGED feedVars
  BY <1>0, <1>5, CandlesStay DEF feedVars, clock
<1> QED
  BY <1>1, <1>2, <1>3, <1>4, <1>5, TradeStep, ReceiveStep, SilenceStep, RefreshStep, RestartStep DEF Next

LEMMA CandleStart == Init => CandleInv
<1> SUFFICES ASSUME Init PROVE CandleInv
  OBVIOUS
<1>1. /\ now = Open - 1 /\ wire = <<>> /\ partial = NoBar /\ ws = <<>> /\ back = {} /\ db1 = {} /\ db5 = {}
      /\ real = [m \in Minutes |-> [hi |-> 0, lo |-> 0, last |-> 0]]
      /\ heard = [m \in Minutes |-> NoBar]
  BY DEF Init
<1>2. Range(ws) = {} /\ Range(wire) = {} /\ Traded = {} /\ DOMAIN ws = {} /\ DOMAIN wire = {}
  <2>1. DOMAIN ws = {} /\ DOMAIN wire = {}
    BY <1>1
  <2>2. Traded = {}
    BY <1>1 DEF Traded
  <2> QED BY <2>1, <2>2 DEF Range
<1>3. Listed = {} /\ Kept = {}
  BY <1>1, <1>2 DEF Listed, Kept
<1>4. Typed
  <2>1. real \in [Minutes -> Trades]
    BY <1>1 DEF Trades
  <2>2. ws \in Seq(Bars) /\ wire \in Seq(Ticks)
    BY <1>1
  <2>3. now \in Int
    BY <1>1, HoursAssumption
  <2> QED BY <1>1, <2>1, <2>2, <2>3, FS_EmptySet DEF Typed
<1> QED
  BY <1>1, <1>2, <1>3, <1>4 DEF CandleInv, InOrder, Genuine, Complete, Backfilled, Ordered

\* Of every minute the candles span what the process heard, and no candle shows a price that
\* was not traded in its time, whatever late, idle or repeated closes, backfills, refreshes
\* and restarts make of the lists (candle_aggregator.rs).
THEOREM CandlesAreFaithful == Spec => []CandlesFaithful
<1> QED BY CandleStart, CandleStep, InvGivesFaithful, PTL DEF Spec

\* No candle of a bucket that still runs reaches the runner, from the list or from a
\* backfill (fetch_canonical_5m_candles, aggregate_completed_bars).
THEOREM NothingIsAhead == Spec => []NotAhead
<1>1. CandleInv => NotAhead
  BY InvGivesNotAhead DEF CandleInv
<1> QED BY <1>1, CandleStart, CandleStep, PTL DEF Spec
=============================================================================
