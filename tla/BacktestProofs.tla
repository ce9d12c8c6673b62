--------------------------- MODULE BacktestProofs ---------------------------
(***************************************************************************)
(* Proofs about Backtest, for any days, stages and limits.  A simulation is *)
(* a function of the day that is defined by recursion on the rounds of a    *)
(* loop: each one is first shown to exist, which gives its equations, and   *)
(* then followed by an invariant of its rounds.                             *)
(***************************************************************************)
EXTENDS Backtest, SequenceTheorems, WellFoundedInduction, TLAPS

--------------------------------------------------------------------------
\* Numbers.

\* Every set of numbers has a least one.
LEMMA LeastNumber ==
    ASSUME NEW S \in SUBSET Nat, S # {}
    PROVE  /\ Min(S) \in S
           /\ \A y \in S : Min(S) <= y
  <1>1. PICK x \in S : \A y \in S : ~(<<y, x>> \in OpToRel(<, Nat))
    BY WFMin, NatLessThanWellFounded
  <1>2. \A y \in S : ~(y < x)
    BY <1>1 DEF OpToRel
  <1>3. x \in S /\ \A y \in S : x <= y
    BY <1>2
  <1> QED BY <1>3 DEF Min

\* Induction on the rounds of a loop, for a set in place of a predicate.
LEMMA Induction ==
    ASSUME NEW N \in Nat, NEW S, 0 \in S,
           \A n \in 1..N : n - 1 \in S => n \in S
    PROVE  \A n \in 0..N : n \in S
  <1> DEFINE Bad == {n \in 0..N : n \notin S}
  <1> SUFFICES ASSUME Bad # {} PROVE FALSE
    OBVIOUS
  <1>1. Bad \in SUBSET Nat
    OBVIOUS
  <1>2. Min(Bad) \in Bad /\ \A y \in Bad : Min(Bad) <= y
    BY <1>1, LeastNumber
  <1> QED BY <1>2

\* A slot boundary separates the minutes before it from it.
LEMMA Boundary ==
    ASSUME NEW w \in Nat \ {0}, NEW s \in Nat, s % w = 0, NEW a \in Nat, a < s
    PROVE  a \div w # s \div w
  <1>1. s = w * (s \div w) + (s % w)
    OBVIOUS
  <1>2. a = w * (a \div w) + (a % w) /\ (a % w) \in 0..(w - 1)
    OBVIOUS
  <1> QED BY <1>1, <1>2

\* A share of a distance is not negative.
LEMMA Shares ==
    ASSUME NEW risk \in Nat, NEW pct \in Nat
    PROVE  Dist(risk, pct) \in Nat
  <1>1. risk * pct \in Nat
    OBVIOUS
  <1> QED BY <1>1 DEF Dist

--------------------------------------------------------------------------
\* Candles in the order of time.

Timed(cs) == /\ cs \in Seq(Candle)
             /\ \A m, n \in 1..Len(cs) : m < n => cs[m].t < cs[n].t

LEMMA CandleFacts ==
    ASSUME NEW c \in Candle
    PROVE  /\ c.t \in Nat
           /\ c.o \in Nat \ {0} /\ c.h \in Nat \ {0} /\ c.l \in Nat \ {0} /\ c.c \in Nat \ {0}
           /\ c.l <= c.o /\ c.o <= c.h /\ c.l <= c.c /\ c.c <= c.h
  BY DEF Candle, Priced

LEMMA IndexAtFacts ==
    ASSUME NEW cs, Timed(cs), NEW i \in Nat \ {0}, NEW t \in Int
    PROVE  /\ IndexAt(cs, i, t) \in 1..(Len(cs) + 1)
           /\ i <= Len(cs) + 1 => i <= IndexAt(cs, i, t)
           /\ IndexAt(cs, i, t) <= Len(cs) =>
                  i <= IndexAt(cs, i, t) /\ cs[IndexAt(cs, i, t)].t >= t
           /\ \A m \in i..Len(cs) : m < IndexAt(cs, i, t) => cs[m].t < t
  <1> DEFINE S == {n \in i..Len(cs) : cs[n].t >= t} \cup {Len(cs) + 1}
  <1>1. Len(cs) \in Nat /\ \A n \in 1..Len(cs) : cs[n] \in Candle
    BY DEF Timed
  <1>2. \A n \in 1..Len(cs) : cs[n].t \in Nat
    BY <1>1, CandleFacts
  <1>3. S \in SUBSET Nat /\ S # {}
    BY <1>1
  <1>4. Min(S) \in S /\ \A y \in S : Min(S) <= y
    BY <1>3, LeastNumber
  <1>5. IndexAt(cs, i, t) = Min(S)
    BY DEF IndexAt
  <1> HIDE DEF S
  <1>6. Min(S) \in 1..(Len(cs) + 1)
    BY <1>1, <1>4 DEF S
  <1>7. i <= Len(cs) + 1 => i <= Min(S)
    BY <1>1, <1>4 DEF S
  <1>8. Min(S) <= Len(cs) => i <= Min(S) /\ cs[Min(S)].t >= t
    BY <1>1, <1>4 DEF S
  <1>9. ASSUME NEW m \in i..Len(cs), m < Min(S) PROVE cs[m].t < t
    BY <1>1, <1>2, <1>4, <1>6, <1>9 DEF S
  <1> QED BY <1>5, <1>6, <1>7, <1>8, <1>9

\* The candle that starts at t is where the search for t ends.
LEMMA IndexAtExact ==
    ASSUME NEW cs, Timed(cs), NEW i \in Nat \ {0}, NEW k \in i..Len(cs)
    PROVE  IndexAt(cs, i, cs[k].t) = k
  <1> DEFINE x == IndexAt(cs, i, cs[k].t)
  <1>1. Len(cs) \in Nat /\ \A n \in 1..Len(cs) : cs[n].t \in Nat
    BY CandleFacts DEF Timed
  <1>2. cs[k].t \in Int /\ k \in 1..Len(cs)
    BY <1>1
  <1>3. /\ x \in 1..(Len(cs) + 1)
        /\ x <= Len(cs) => i <= x /\ cs[x].t >= cs[k].t
        /\ \A m \in i..Len(cs) : m < x => cs[m].t < cs[k].t
    BY <1>2, IndexAtFacts
  <1> HIDE DEF x
  <1>4. ~(k < x)
    BY <1>2, <1>3
  <1>5. ~(x < k)
    BY <1>1, <1>2, <1>3 DEF Timed
  <1>6. x = k
    BY <1>2, <1>3, <1>4, <1>5
  <1> QED BY <1>6 DEF x

LEMMA SubTimed ==
    ASSUME NEW cs, Timed(cs), NEW i \in Nat \ {0}, NEW j \in Int, j <= Len(cs)
    PROVE  /\ Timed(SubSeq(cs, i, j))
           /\ Len(SubSeq(cs, i, j)) = IF i <= j THEN j - i + 1 ELSE 0
           /\ \A n \in 1..Len(SubSeq(cs, i, j)) : SubSeq(cs, i, j)[n] = cs[i + n - 1]
  <1> DEFINE s == SubSeq(cs, i, j)
  <1>1. Len(cs) \in Nat /\ \A n \in 1..Len(cs) : cs[n] \in Candle
    BY DEF Timed
  <1>2. \A n \in i..j : cs[n] \in Candle
    BY <1>1
  <1>3. /\ s \in Seq(Candle)
        /\ Len(s) = IF i <= j THEN j - i + 1 ELSE 0
        /\ \A n \in 1..(j - i + 1) : s[n] = cs[i + n - 1]
    BY <1>2, SubSeqProperties
  <1> HIDE DEF s
  <1>4. \A n \in 1..Len(s) : s[n] = cs[i + n - 1] /\ i + n - 1 \in 1..Len(cs)
    BY <1>1, <1>3
  <1>5. \A m, n \in 1..Len(s) : m < n => s[m].t < s[n].t
    <2> SUFFICES ASSUME NEW m \in 1..Len(s), NEW n \in 1..Len(s), m < n PROVE s[m].t < s[n].t
      OBVIOUS
    <2>1. i + m - 1 < i + n - 1 /\ i + m - 1 \in 1..Len(cs) /\ i + n - 1 \in 1..Len(cs)
      BY <1>3, <1>4
    <2>2. cs[i + m - 1].t < cs[i + n - 1].t
      BY <2>1 DEF Timed
    <2> QED BY <2>2, <1>4
  <1> QED BY <1>3, <1>4, <1>5 DEF Timed, s

LEMMA RestTimed ==
    ASSUME NEW cs, Timed(cs), NEW i \in Nat \ {0}
    PROVE  /\ Timed(Rest(cs, i))
           /\ Len(Rest(cs, i)) = IF i <= Len(cs) THEN Len(cs) - i + 1 ELSE 0
           /\ \A n \in 1..Len(Rest(cs, i)) : /\ i + n - 1 \in i..Len(cs)
                                             /\ Rest(cs, i)[n] = cs[i + n - 1]
  <1>1. Len(cs) \in Nat
    BY DEF Timed
  <1> QED BY <1>1, SubTimed DEF Rest

\* What is left of what is left.
LEMMA RestOfRest ==
    ASSUME NEW cs, Timed(cs), NEW i \in Nat \ {0}, NEW j \in Nat \ {0}, i <= Len(cs) + 1
    PROVE  Rest(Rest(cs, i), j) = Rest(cs, i + j - 1)
  <1>1. i + j - 1 \in Nat \ {0} /\ Len(cs) \in Nat
    BY DEF Timed
  <1>2. /\ Timed(Rest(cs, i))
        /\ Len(Rest(cs, i)) = Len(cs) - i + 1
        /\ \A n \in 1..Len(Rest(cs, i)) : Rest(cs, i)[n] = cs[i + n - 1]
    BY <1>1, RestTimed
  <1> DEFINE a == Rest(Rest(cs, i), j)
             b == Rest(cs, i + j - 1)
  <1>3. /\ Timed(a)
        /\ Len(a) = IF j <= Len(Rest(cs, i)) THEN Len(Rest(cs, i)) - j + 1 ELSE 0
        /\ \A n \in 1..Len(a) : /\ j + n - 1 \in j..Len(Rest(cs, i))
                                /\ a[n] = Rest(cs, i)[j + n - 1]
    BY <1>2, RestTimed
  <1>4. /\ Timed(b)
        /\ Len(b) = IF i + j - 1 <= Len(cs) THEN Len(cs) - (i + j - 1) + 1 ELSE 0
        /\ \A n \in 1..Len(b) : b[n] = cs[(i + j - 1) + n - 1]
    BY <1>1, RestTimed
  <1> HIDE DEF a, b
  <1>5. Len(a) = Len(b)
    BY <1>1, <1>2, <1>3, <1>4
  <1>6. ASSUME NEW n \in 1..Len(a) PROVE a[n] = b[n]
    <2>1. a[n] = cs[i + (j + n - 1) - 1]
      BY <1>1, <1>2, <1>3
    <2>2. b[n] = cs[(i + j - 1) + n - 1]
      BY <1>4, <1>5
    <2>3. i + (j + n - 1) - 1 = (i + j - 1) + n - 1
      BY <1>3 DEF Timed
    <2> QED BY <2>1, <2>2, <2>3
  <1>7. a = b
    BY <1>3, <1>4, <1>5, <1>6, SeqEqual DEF Timed
  <1> QED BY <1>7 DEF a, b
--------------------------------------------------------------------------
\* The recursive functions, by their equations.  The rounds up to each one exist: those up
\* to the one before it, and one more.

LEMMA GroupsDef ==
    ASSUME NEW cs, NEW w, Len(cs) \in Nat
    PROVE  LET f == Groups(cs, w)
           IN  /\ f[0] = <<>>
               /\ \A n \in 1..Len(cs) : f[n] = Grouped(f[n-1], cs[n], w)
  <1> DEFINE N == Len(cs)
             f == Groups(cs, w)
             Step(x, n) == Grouped(x, cs[n], w)
             Upto(m) == \E g : g = [n \in 0..m |-> IF n = 0 THEN <<>> ELSE Step(g[n-1], n)]
             S == {m \in 0..N : Upto(m)}
  <1>1. Upto(0)
    <2> WITNESS [n \in 0..0 |-> <<>>]
    <2> QED OBVIOUS
  <1>2. ASSUME NEW m \in 1..N, Upto(m - 1) PROVE Upto(m)
    <2> HIDE DEF N, Step
    <2>1. PICK g : g = [n \in 0..(m - 1) |-> IF n = 0 THEN <<>> ELSE Step(g[n-1], n)]
      BY <1>2
    <2> DEFINE h == [n \in 0..m |-> IF n < m THEN g[n] ELSE Step(g[m-1], m)]
    <2>2. m \in Nat /\ 0 < m
      BY DEF N
    <2>3. \A n \in 0..m : h[n] = IF n = 0 THEN <<>> ELSE Step(h[n-1], n)
      BY <2>1, <2>2
    <2>4. h = [n \in 0..m |-> IF n = 0 THEN <<>> ELSE Step(h[n-1], n)]
      BY <2>3
    <2> QED BY <2>4
  <1>3. N \in Nat
    OBVIOUS
  <1> HIDE DEF N, Upto, Step, f
  <1>4. 0 \in S /\ \A m \in 1..N : m - 1 \in S => m \in S
    BY <1>1, <1>2, <1>3
  <1> HIDE DEF S
  <1>5. \A m \in 0..N : m \in S
    BY <1>3, <1>4, Induction
  <1>6. N \in S
    BY <1>3, <1>5
  <1>7. f = [n \in 0..N |-> IF n = 0 THEN <<>> ELSE Step(f[n-1], n)]
    BY <1>6 DEF S, Upto, N, Step, f, Groups
  <1>8. f[0] = <<>> /\ \A n \in 1..N : f[n] = Step(f[n-1], n)
    BY <1>3, <1>7
  <1> QED BY <1>8 DEF N, Step, f

LEMMA SearchedDef ==
    ASSUME NEW cs, NEW cfg, Len(cs) \in Nat
    PROVE  LET f == Searched(cs, cfg)
           IN  /\ f[0] = Searching
               /\ \A n \in 1..Len(cs) : f[n] = Search(cs, n, f[n-1], cfg)
  <1> DEFINE N == Len(cs)
             f == Searched(cs, cfg)
             Step(x, n) == Search(cs, n, x, cfg)
             Upto(m) == \E g : g = [n \in 0..m |-> IF n = 0 THEN Searching ELSE Step(g[n-1], n)]
             S == {m \in 0..N : Upto(m)}
  <1>1. Upto(0)
    <2> WITNESS [n \in 0..0 |-> Searching]
    <2> QED OBVIOUS
  <1>2. ASSUME NEW m \in 1..N, Upto(m - 1) PROVE Upto(m)
    <2> HIDE DEF N, Step
    <2>1. PICK g : g = [n \in 0..(m - 1) |-> IF n = 0 THEN Searching ELSE Step(g[n-1], n)]
      BY <1>2
    <2> DEFINE h == [n \in 0..m |-> IF n < m THEN g[n] ELSE Step(g[m-1], m)]
    <2>2. m \in Nat /\ 0 < m
      BY DEF N
    <2>3. \A n \in 0..m : h[n] = IF n = 0 THEN Searching ELSE Step(h[n-1], n)
      BY <2>1, <2>2
    <2>4. h = [n \in 0..m |-> IF n = 0 THEN Searching ELSE Step(h[n-1], n)]
      BY <2>3
    <2> QED BY <2>4
  <1>3. N \in Nat
    OBVIOUS
  <1> HIDE DEF N, Upto, Step, f
  <1>4. 0 \in S /\ \A m \in 1..N : m - 1 \in S => m \in S
    BY <1>1, <1>2, <1>3
  <1> HIDE DEF S
  <1>5. \A m \in 0..N : m \in S
    BY <1>3, <1>4, Induction
  <1>6. N \in S
    BY <1>3, <1>5
  <1>7. f = [n \in 0..N |-> IF n = 0 THEN Searching ELSE Step(f[n-1], n)]
    BY <1>6 DEF S, Upto, N, Step, f, Searched
  <1>8. f[0] = Searching /\ \A n \in 1..N : f[n] = Step(f[n-1], n)
    BY <1>3, <1>7
  <1> QED BY <1>8 DEF N, Step, f

LEMMA ExitsDef ==
    ASSUME NEW plan, NEW at, NEW cs, Len(cs) \in Nat
    PROVE  LET f == Exits(plan, at, cs)
           IN  /\ f[0] = Entered(plan)
               /\ \A n \in 1..Len(cs) : f[n] = Managed(plan, at, cs, n, f[n-1])
  <1> DEFINE N == Len(cs)
             f == Exits(plan, at, cs)
             Step(x, n) == Managed(plan, at, cs, n, x)
             Upto(m) == \E g : g = [n \in 0..m |-> IF n = 0 THEN Entered(plan) ELSE Step(g[n-1], n)]
             S == {m \in 0..N : Upto(m)}
  <1>1. Upto(0)
    <2> WITNESS [n \in 0..0 |-> Entered(plan)]
    <2> QED OBVIOUS
  <1>2. ASSUME NEW m \in 1..N, Upto(m - 1) PROVE Upto(m)
    <2> HIDE DEF N, Step
    <2>1. PICK g : g = [n \in 0..(m - 1) |-> IF n = 0 THEN Entered(plan) ELSE Step(g[n-1], n)]
      BY <1>2
    <2> DEFINE h == [n \in 0..m |-> IF n < m THEN g[n] ELSE Step(g[m-1], m)]
    <2>2. m \in Nat /\ 0 < m
      BY DEF N
    <2>3. \A n \in 0..m : h[n] = IF n = 0 THEN Entered(plan) ELSE Step(h[n-1], n)
      BY <2>1, <2>2
    <2>4. h = [n \in 0..m |-> IF n = 0 THEN Entered(plan) ELSE Step(h[n-1], n)]
      BY <2>3
    <2> QED BY <2>4
  <1>3. N \in Nat
    OBVIOUS
  <1> HIDE DEF N, Upto, Step, f
  <1>4. 0 \in S /\ \A m \in 1..N : m - 1 \in S => m \in S
    BY <1>1, <1>2, <1>3
  <1> HIDE DEF S
  <1>5. \A m \in 0..N : m \in S
    BY <1>3, <1>4, Induction
  <1>6. N \in S
    BY <1>3, <1>5
  <1>7. f = [n \in 0..N |-> IF n = 0 THEN Entered(plan) ELSE Step(f[n-1], n)]
    BY <1>6 DEF S, Upto, N, Step, f, Exits
  <1>8. f[0] = Entered(plan) /\ \A n \in 1..N : f[n] = Step(f[n-1], n)
    BY <1>3, <1>7
  <1> QED BY <1>8 DEF N, Step, f

LEMMA EarnedDef ==
    ASSUME NEW trades, Len(trades) \in Nat
    PROVE  LET f == Earned(trades)
           IN  /\ f[0] = 0
               /\ \A n \in 1..Len(trades) : f[n] = f[n-1] + Pnl(trades[n])
  <1> DEFINE N == Len(trades)
             f == Earned(trades)
             Step(x, n) == x + Pnl(trades[n])
             Upto(m) == \E g : g = [n \in 0..m |-> IF n = 0 THEN 0 ELSE Step(g[n-1], n)]
             S == {m \in 0..N : Upto(m)}
  <1>1. Upto(0)
    <2> WITNESS [n \in 0..0 |-> 0]
    <2> QED OBVIOUS
  <1>2. ASSUME NEW m \in 1..N, Upto(m - 1) PROVE Upto(m)
    <2> HIDE DEF N, Step
    <2>1. PICK g : g = [n \in 0..(m - 1) |-> IF n = 0 THEN 0 ELSE Step(g[n-1], n)]
      BY <1>2
    <2> DEFINE h == [n \in 0..m |-> IF n < m THEN g[n] ELSE Step(g[m-1], m)]
    <2>2. m \in Nat /\ 0 < m
      BY DEF N
    <2>3. \A n \in 0..m : h[n] = IF n = 0 THEN 0 ELSE Step(h[n-1], n)
      BY <2>1, <2>2
    <2>4. h = [n \in 0..m |-> IF n = 0 THEN 0 ELSE Step(h[n-1], n)]
      BY <2>3
    <2> QED BY <2>4
  <1>3. N \in Nat
    OBVIOUS
  <1> HIDE DEF N, Upto, Step, f
  <1>4. 0 \in S /\ \A m \in 1..N : m - 1 \in S => m \in S
    BY <1>1, <1>2, <1>3
  <1> HIDE DEF S
  <1>5. \A m \in 0..N : m \in S
    BY <1>3, <1>4, Induction
  <1>6. N \in S
    BY <1>3, <1>5
  <1>7. f = [n \in 0..N |-> IF n = 0 THEN 0 ELSE Step(f[n-1], n)]
    BY <1>6 DEF S, Upto, N, Step, f, Earned
  <1>8. f[0] = 0 /\ \A n \in 1..N : f[n] = Step(f[n-1], n)
    BY <1>3, <1>7
  <1> QED BY <1>8 DEF N, Step, f

LEMMA SoloRoundsDef ==
    ASSUME NEW v, Len(v.cs) \in Nat
    PROVE  LET f == SoloRounds(v)
           IN  /\ f[0] = NoTrades
               /\ \A n \in 1..Len(v.cs) : f[n] = SoloRound(v, f[n-1])
  <1> DEFINE N == Len(v.cs)
             f == SoloRounds(v)
             Step(x, n) == SoloRound(v, x)
             Upto(m) == \E g : g = [n \in 0..m |-> IF n = 0 THEN NoTrades ELSE Step(g[n-1], n)]
             S == {m \in 0..N : Upto(m)}
  <1>1. Upto(0)
    <2> WITNESS [n \in 0..0 |-> NoTrades]
    <2> QED OBVIOUS
  <1>2. ASSUME NEW m \in 1..N, Upto(m - 1) PROVE Upto(m)
    <2> HIDE DEF N, Step
    <2>1. PICK g : g = [n \in 0..(m - 1) |-> IF n = 0 THEN NoTrades ELSE Step(g[n-1], n)]
      BY <1>2
    <2> DEFINE h == [n \in 0..m |-> IF n < m THEN g[n] ELSE Step(g[m-1], m)]
    <2>2. m \in Nat /\ 0 < m
      BY DEF N
    <2>3. \A n \in 0..m : h[n] = IF n = 0 THEN NoTrades ELSE Step(h[n-1], n)
      BY <2>1, <2>2
    <2>4. h = [n \in 0..m |-> IF n = 0 THEN NoTrades ELSE Step(h[n-1], n)]
      BY <2>3
    <2> QED BY <2>4
  <1>3. N \in Nat
    OBVIOUS
  <1> HIDE DEF N, Upto, Step, f
  <1>4. 0 \in S /\ \A m \in 1..N : m - 1 \in S => m \in S
    BY <1>1, <1>2, <1>3
  <1> HIDE DEF S
  <1>5. \A m \in 0..N : m \in S
    BY <1>3, <1>4, Induction
  <1>6. N \in S
    BY <1>3, <1>5
  <1>7. f = [n \in 0..N |-> IF n = 0 THEN NoTrades ELSE Step(f[n-1], n)]
    BY <1>6 DEF S, Upto, N, Step, f, SoloRounds
  <1>8. f[0] = NoTrades /\ \A n \in 1..N : f[n] = Step(f[n-1], n)
    BY <1>3, <1>7
  <1> QED BY <1>8 DEF N, Step, f

LEMMA ParityRoundsDef ==
    ASSUME NEW policy, NEW v, Len(v.cs) \in Nat
    PROVE  LET f == ParityRounds(policy, v)
           IN  /\ f[0] = NoTrades
               /\ \A n \in 1..Len(v.cs) : f[n] = ParityRound(policy, v, f[n-1])
  <1> DEFINE N == Len(v.cs)
             f == ParityRounds(policy, v)
             Step(x, n) == ParityRound(policy, v, x)
             Upto(m) == \E g : g = [n \in 0..m |-> IF n = 0 THEN NoTrades ELSE Step(g[n-1], n)]
             S == {m \in 0..N : Upto(m)}
  <1>1. Upto(0)
    <2> WITNESS [n \in 0..0 |-> NoTrades]
    <2> QED OBVIOUS
  <1>2. ASSUME NEW m \in 1..N, Upto(m - 1) PROVE Upto(m)
    <2> HIDE DEF N, Step
    <2>1. PICK g : g = [n \in 0..(m - 1) |-> IF n = 0 THEN NoTrades ELSE Step(g[n-1], n)]
      BY <1>2
    <2> DEFINE h == [n \in 0..m |-> IF n < m THEN g[n] ELSE Step(g[m-1], m)]
    <2>2. m \in Nat /\ 0 < m
      BY DEF N
    <2>3. \A n \in 0..m : h[n] = IF n = 0 THEN NoTrades ELSE Step(h[n-1], n)
      BY <2>1, <2>2
    <2>4. h = [n \in 0..m |-> IF n = 0 THEN NoTrades ELSE Step(h[n-1], n)]
      BY <2>3
    <2> QED BY <2>4
  <1>3. N \in Nat
    OBVIOUS
  <1> HIDE DEF N, Upto, Step, f
  <1>4. 0 \in S /\ \A m \in 1..N : m - 1 \in S => m \in S
    BY <1>1, <1>2, <1>3
  <1> HIDE DEF S
  <1>5. \A m \in 0..N : m \in S
    BY <1>3, <1>4, Induction
  <1>6. N \in S
    BY <1>3, <1>5
  <1>7. f = [n \in 0..N |-> IF n = 0 THEN NoTrades ELSE Step(f[n-1], n)]
    BY <1>6 DEF S, Upto, N, Step, f, ParityRounds
  <1>8. f[0] = NoTrades /\ \A n \in 1..N : f[n] = Step(f[n-1], n)
    BY <1>3, <1>7
  <1> QED BY <1>8 DEF N, Step, f

LEMMA LiveLikeRoundsDef ==
    ASSUME NEW policy, NEW ms, Len(ms) \in Nat
    PROVE  LET f == LiveLikeRounds(policy, ms)
           IN  /\ f[0] = NoTrades
               /\ \A n \in 1..Len(ms) : f[n] = LiveLikeRound(policy, ms, f[n-1])
  <1> DEFINE N == Len(ms)
             f == LiveLikeRounds(policy, ms)
             Step(x, n) == LiveLikeRound(policy, ms, x)
             Upto(m) == \E g : g = [n \in 0..m |-> IF n = 0 THEN NoTrades ELSE Step(g[n-1], n)]
             S == {m \in 0..N : Upto(m)}
  <1>1. Upto(0)
    <2> WITNESS [n \in 0..0 |-> NoTrades]
    <2> QED OBVIOUS
  <1>2. ASSUME NEW m \in 1..N, Upto(m - 1) PROVE Upto(m)
    <2> HIDE DEF N, Step
    <2>1. PICK g : g = [n \in 0..(m - 1) |-> IF n = 0 THEN NoTrades ELSE Step(g[n-1], n)]
      BY <1>2
    <2> DEFINE h == [n \in 0..m |-> IF n < m THEN g[n] ELSE Step(g[m-1], m)]
    <2>2. m \in Nat /\ 0 < m
      BY DEF N
    <2>3. \A n \in 0..m : h[n] = IF n = 0 THEN NoTrades ELSE Step(h[n-1], n)
      BY <2>1, <2>2
    <2>4. h = [n \in 0..m |-> IF n = 0 THEN NoTrades ELSE Step(h[n-1], n)]
      BY <2>3
    <2> QED BY <2>4
  <1>3. N \in Nat
    OBVIOUS
  <1> HIDE DEF N, Upto, Step, f
  <1>4. 0 \in S /\ \A m \in 1..N : m - 1 \in S => m \in S
    BY <1>1, <1>2, <1>3
  <1> HIDE DEF S
  <1>5. \A m \in 0..N : m \in S
    BY <1>3, <1>4, Induction
  <1>6. N \in S
    BY <1>3, <1>5
  <1>7. f = [n \in 0..N |-> IF n = 0 THEN NoTrades ELSE Step(f[n-1], n)]
    BY <1>6 DEF S, Upto, N, Step, f, LiveLikeRounds
  <1>8. f[0] = NoTrades /\ \A n \in 1..N : f[n] = Step(f[n-1], n)
    BY <1>3, <1>7
  <1> QED BY <1>8 DEF N, Step, f

LEMMA LockedRoundsDef ==
    ASSUME NEW v, Len(v[1].cs) + Len(v[2].cs) \in Nat
    PROVE  LET f == LockedRounds(v)
           IN  /\ f[0] = Unlocked
               /\ \A n \in 1..(Len(v[1].cs) + Len(v[2].cs)) : f[n] = LockedRound(v, f[n-1])
  <1> DEFINE N == Len(v[1].cs) + Len(v[2].cs)
             f == LockedRounds(v)
             Step(x, n) == LockedRound(v, x)
             Upto(m) == \E g : g = [n \in 0..m |-> IF n = 0 THEN Unlocked ELSE Step(g[n-1], n)]
             S == {m \in 0..N : Upto(m)}
  <1>1. Upto(0)
    <2> WITNESS [n \in 0..0 |-> Unlocked]
    <2> QED OBVIOUS
  <1>2. ASSUME NEW m \in 1..N, Upto(m - 1) PROVE Upto(m)
    <2> HIDE DEF N, Step
    <2>1. PICK g : g = [n \in 0..(m - 1) |-> IF n = 0 THEN Unlocked ELSE Step(g[n-1], n)]
      BY <1>2
    <2> DEFINE h == [n \in 0..m |-> IF n < m THEN g[n] ELSE Step(g[m-1], m)]
    <2>2. m \in Nat /\ 0 < m
      BY DEF N
    <2>3. \A n \in 0..m : h[n] = IF n = 0 THEN Unlocked ELSE Step(h[n-1], n)
      BY <2>1, <2>2
    <2>4. h = [n \in 0..m |-> IF n = 0 THEN Unlocked ELSE Step(h[n-1], n)]
      BY <2>3
    <2> QED BY <2>4
  <1>3. N \in Nat
    OBVIOUS
  <1> HIDE DEF N, Upto, Step, f
  <1>4. 0 \in S /\ \A m \in 1..N : m - 1 \in S => m \in S
    BY <1>1, <1>2, <1>3
  <1> HIDE DEF S
  <1>5. \A m \in 0..N : m \in S
    BY <1>3, <1>4, Induction
  <1>6. N \in S
    BY <1>3, <1>5
  <1>7. f = [n \in 0..N |-> IF n = 0 THEN Unlocked ELSE Step(f[n-1], n)]
    BY <1>6 DEF S, Upto, N, Step, f, LockedRounds
  <1>8. f[0] = Unlocked /\ \A n \in 1..N : f[n] = Step(f[n-1], n)
    BY <1>3, <1>7
  <1> QED BY <1>8 DEF N, Step, f

--------------------------------------------------------------------------
\* The rows of a day.

LEMMA MergeFacts ==
    ASSUME NEW a \in Candle, NEW b \in Candle
    PROVE  Merge(a, b) \in Candle /\ Merge(a, b).t = a.t
  <1> DEFINE m == Merge(a, b)
  <1>1. m = [a EXCEPT !.h = AtLeast(a.h, b.h), !.l = -AtLeast(-a.l, -b.l), !.c = b.c]
    BY DEF Merge
  <1>2. a \in [t : Nat, o : Nat, h : Nat, l : Nat, c : Nat]
    BY DEF Candle
  <1>3. /\ m.t = a.t /\ m.o = a.o /\ m.h = AtLeast(a.h, b.h) /\ m.l = -AtLeast(-a.l, -b.l)
        /\ m.c = b.c /\ m = [t |-> m.t, o |-> m.o, h |-> m.h, l |-> m.l, c |-> m.c]
    BY <1>1, <1>2
  <1> HIDE DEF m
  <1>4. /\ m.h \in Nat \ {0} /\ m.h >= a.h /\ m.h >= b.h
        /\ m.l \in Nat \ {0} /\ m.l <= a.l /\ m.l <= b.l
    BY <1>3, CandleFacts DEF AtLeast
  <1>5. m.t \in Nat /\ m.o \in Nat \ {0} /\ m.c \in Nat \ {0}
    BY <1>3, CandleFacts
  <1>6. m.l <= m.o /\ m.o <= m.h /\ m.l <= m.c /\ m.c <= m.h
    BY <1>3, <1>4, <1>5, CandleFacts
  <1>7. m \in Candle
    BY <1>3, <1>4, <1>5, <1>6 DEF Candle, Priced
  <1> QED BY <1>3, <1>7 DEF m

LEMMA EmptyTimed == Timed(<<>>)
  BY DEF Timed

LEMMA GroupedTimed ==
    ASSUME NEW out, Timed(out), NEW c \in Candle, NEW w,
           out # <<>> => out[Len(out)].t < c.t
    PROVE  LET x == Grouped(out, c, w)
           IN  Timed(x) /\ x # <<>> /\ x[Len(x)].t <= c.t
  <1> DEFINE x == Grouped(out, c, w)
  <1>1. /\ Len(out) \in Nat /\ out \in Seq(Candle)
        /\ \A n \in 1..Len(out) : out[n] \in Candle /\ out[n].t \in Nat
        /\ c.t \in Nat
    BY CandleFacts DEF Timed
  <1>2. CASE out # <<>> /\ c.t \div w = out[Len(out)].t \div w
    <2>1. Len(out) \in 1..Len(out)
      BY <1>1, <1>2
    <2> DEFINE b == Merge(out[Len(out)], c)
    <2>2. b \in Candle /\ b.t = out[Len(out)].t
      BY <1>1, <2>1, MergeFacts
    <2>3. x = [out EXCEPT ![Len(out)] = b]
      BY <1>2 DEF Grouped
    <2> HIDE DEF b
    <2>4. /\ x \in Seq(Candle) /\ Len(x) = Len(out)
          /\ \A n \in 1..Len(x) : x[n].t = out[n].t
      BY <1>1, <2>1, <2>2, <2>3
    <2> HIDE DEF x
    <2>5. Timed(x)
      BY <2>4 DEF Timed
    <2>6. x[Len(x)].t <= c.t
      BY <1>1, <1>2, <2>1, <2>4
    <2> QED BY <2>1, <2>4, <2>5, <2>6 DEF x
  <1>3. CASE ~(out # <<>> /\ c.t \div w = out[Len(out)].t \div w)
    <2>1. x = Append(out, c)
      BY <1>3 DEF Grouped
    <2> HIDE DEF x
    <2>2. /\ x \in Seq(Candle) /\ Len(x) = Len(out) + 1 /\ x[Len(x)] = c
          /\ \A n \in 1..Len(out) : x[n] = out[n]
      BY <1>1, <2>1, AppendProperties
    <2>3. ASSUME NEW m \in 1..Len(x), NEW n \in 1..Len(x), m < n PROVE x[m].t < x[n].t
      <3>1. CASE n <= Len(out)
        BY <1>1, <2>2, <2>3, <3>1 DEF Timed
      <3>2. CASE n = Len(x)
        <4>1. m \in 1..Len(out) /\ x[m] = out[m] /\ out # <<>>
          BY <1>1, <2>2, <2>3, <3>2
        <4>2. out[m].t <= out[Len(out)].t
          BY <1>1, <4>1 DEF Timed
        <4> QED BY <1>1, <2>2, <3>2, <4>1, <4>2
      <3> QED BY <1>1, <2>2, <3>1, <3>2
    <2> QED BY <1>1, <2>2, <2>3 DEF Timed, x
  <1> QED BY <1>2, <1>3

\* What the first candles make is in the order of time, and not ahead of them.
LEMMA GroupsTimed ==
    ASSUME NEW cs, Timed(cs), NEW w
    PROVE  LET g == Groups(cs, w)
           IN  \A n \in 0..Len(cs) :
                   Timed(g[n]) /\ (n = 0 <=> g[n] = <<>>) /\ (n > 0 => g[n][Len(g[n])].t <= cs[n].t)
  <1> DEFINE N == Len(cs)
             g == Groups(cs, w)
             S == {n \in 0..N : /\ Timed(g[n]) /\ (n = 0 <=> g[n] = <<>>)
                                /\ n > 0 => g[n][Len(g[n])].t <= cs[n].t}
  <1>1. N \in Nat /\ \A n \in 1..N : cs[n] \in Candle /\ cs[n].t \in Nat
    BY CandleFacts DEF Timed
  <1>2. g[0] = <<>> /\ \A n \in 1..N : g[n] = Grouped(g[n-1], cs[n], w)
    BY <1>1, GroupsDef
  <1>3. \A m, n \in 1..N : m < n => cs[m].t < cs[n].t
    BY DEF Timed
  <1> HIDE DEF g, N
  <1>4. 0 \in S
    BY <1>1, <1>2, EmptyTimed
  <1>5. ASSUME NEW n \in 1..N, n - 1 \in S PROVE n \in S
    <2>1. Timed(g[n-1]) /\ (n - 1 = 0 <=> g[n-1] = <<>>)
      BY <1>5
    <2>2. ASSUME g[n-1] # <<>> PROVE g[n-1][Len(g[n-1])].t < cs[n].t
      <3>1. n - 1 \in 1..N /\ n - 1 < n
        BY <1>1, <2>1, <2>2
      <3>2. g[n-1][Len(g[n-1])].t <= cs[n-1].t
        BY <1>1, <1>5, <3>1
      <3>3. cs[n-1].t < cs[n].t
        BY <1>3, <3>1
      <3>4. Len(g[n-1]) \in 1..Len(g[n-1]) /\ g[n-1][Len(g[n-1])] \in Candle
        BY <2>1, <2>2 DEF Timed
      <3> QED BY <1>1, <3>1, <3>2, <3>3, <3>4, CandleFacts
    <2>3. g[n] = Grouped(g[n-1], cs[n], w) /\ cs[n] \in Candle
      BY <1>1, <1>2
    <2>4. Timed(g[n]) /\ g[n] # <<>> /\ g[n][Len(g[n])].t <= cs[n].t
      BY <2>1, <2>2, <2>3, GroupedTimed
    <2> QED BY <1>1, <2>4
  <1> HIDE DEF S
  <1>6. \A n \in 0..N : n \in S
    BY <1>1, <1>4, <1>5, Induction
  <1> QED BY <1>6 DEF S, g, N

LEMMA AggregateTimed ==
    ASSUME NEW cs, Timed(cs), NEW w
    PROVE  Timed(Aggregate(cs, w))
  <1>1. Len(cs) \in 0..Len(cs)
    BY DEF Timed
  <1> QED BY <1>1, GroupsTimed DEF Aggregate

LEMMA Concat ==
    ASSUME NEW p \in Seq(Candle), NEW q \in Seq(Candle)
    PROVE  /\ p \o q \in Seq(Candle)
           /\ Len(p \o q) = Len(p) + Len(q)
           /\ \A i \in 1..(Len(p) + Len(q)) :
                  (p \o q)[i] = IF i <= Len(p) THEN p[i] ELSE q[i - Len(p)]
  BY ConcatProperties

\* Grouping goes on after a part that is complete.
LEMMA GroupedAfter ==
    ASSUME NEW p \in Seq(Candle), NEW q \in Seq(Candle), NEW c \in Candle, NEW w,
           q # <<>> \/ p = <<>> \/ c.t \div w # p[Len(p)].t \div w
    PROVE  Grouped(p \o q, c, w) = p \o Grouped(q, c, w)
  <1>1. /\ p \o q \in Seq(Candle) /\ Len(p \o q) = Len(p) + Len(q) /\ Len(p) \in Nat /\ Len(q) \in Nat
        /\ \A i \in 1..(Len(p) + Len(q)) : (p \o q)[i] = IF i <= Len(p) THEN p[i] ELSE q[i - Len(p)]
    BY ConcatProperties
  <1>2. Append(p \o q, c) = p \o Append(q, c)
    OBVIOUS
  <1>3. CASE q = <<>>
    <2>1. p \o q = p
      BY <1>3
    <2> QED BY <1>2, <1>3, <2>1 DEF Grouped
  <1>4. CASE q # <<>>
    <2>1. Len(q) \in 1..Len(q) /\ p \o q # <<>> /\ (p \o q)[Len(p \o q)] = q[Len(q)]
      BY <1>1, <1>4
    <2>2. CASE c.t \div w # q[Len(q)].t \div w
      BY <1>2, <2>1, <2>2 DEF Grouped
    <2>3. CASE c.t \div w = q[Len(q)].t \div w
      <3> DEFINE b == Merge(q[Len(q)], c)
                 x == [q EXCEPT ![Len(q)] = b]
                 y == [p \o q EXCEPT ![Len(p \o q)] = b]
      <3>1. b \in Candle
        BY <2>1, MergeFacts
      <3>2. Grouped(q, c, w) = x /\ Grouped(p \o q, c, w) = y
        BY <1>4, <2>1, <2>3 DEF Grouped
      <3> HIDE DEF b
      <3>3. x \in Seq(Candle) /\ Len(x) = Len(q)
        BY <2>1, <3>1
      <3>4. y \in Seq(Candle) /\ Len(y) = Len(p) + Len(q)
        BY <1>1, <2>1, <3>1
      <3>5. /\ p \o x \in Seq(Candle) /\ Len(p \o x) = Len(p) + Len(q)
            /\ \A i \in 1..(Len(p) + Len(q)) : (p \o x)[i] = IF i <= Len(p) THEN p[i] ELSE x[i - Len(p)]
        BY <3>3, ConcatProperties
      <3>6. ASSUME NEW i \in 1..(Len(p) + Len(q)) PROVE (p \o x)[i] = y[i]
        <4>1. y[i] = IF i = Len(p) + Len(q) THEN b ELSE (p \o q)[i]
          <5> DEFINE r == p \o q
          <5>1. r \in Seq(Candle) /\ Len(r) = Len(p) + Len(q)
            BY <1>1
          <5> HIDE DEF r
          <5>2. [r EXCEPT ![Len(r)] = b][i] = IF i = Len(p) + Len(q) THEN b ELSE r[i]
            BY <1>1, <5>1
          <5> QED BY <5>2 DEF r
        <4>2. i > Len(p) => i - Len(p) \in 1..Len(q)
          BY <1>1
        <4>3. i > Len(p) => x[i - Len(p)] = IF i - Len(p) = Len(q) THEN b ELSE q[i - Len(p)]
          BY <4>2
        <4> QED BY <1>1, <2>1, <3>5, <4>1, <4>2, <4>3
      <3>7. p \o x = y
        BY <3>4, <3>5, <3>6, SeqEqual
      <3> QED BY <3>2, <3>7
    <2> QED BY <2>2, <2>3
  <1> QED BY <1>3, <1>4

\* The rows of the minutes from a slot's boundary on are rows of the day.
LEMMA RowsFrom ==
    ASSUME NEW ms \in Day, NEW s \in Nat, s % Width = 0
    PROVE  /\ Timed(From(ms, s))
           /\ \A x \in ToSet(Aggregate(From(ms, s), Width)) : x \in ToSet(Rows(ms))
           /\ Aggregate(From(ms, s), Width) # <<>> =>
                  Last(Aggregate(From(ms, s), Width)) = Last(Rows(ms))
  <1> DEFINE N == Len(ms)
             r == From(ms, s)
             g == Groups(ms, Width)
             h == Groups(r, Width)
  <1>1. Timed(ms) /\ N \in Nat /\ \A n \in 1..N : ms[n] \in Candle /\ ms[n].t = n - 1
    BY DEF Timed, Day
  <1>2. CASE s >= N
    <2>1. IndexAt(ms, 1, s) = N + 1
      <3>1. /\ IndexAt(ms, 1, s) \in 1..(N + 1)
            /\ IndexAt(ms, 1, s) <= N => ms[IndexAt(ms, 1, s)].t >= s
        BY <1>1, IndexAtFacts
      <3> QED BY <1>1, <1>2, <3>1
    <2>2. Timed(r) /\ Len(r) = 0
      BY <1>1, <2>1, RestTimed DEF From
    <2>3. h[0] = <<>>
      BY <2>2, GroupsDef
    <2>4. Aggregate(r, Width) = <<>> /\ ToSet(Aggregate(r, Width)) = {}
      BY <2>2, <2>3 DEF Aggregate, ToSet
    <2> QED BY <2>2, <2>4
  <1> SUFFICES ASSUME s < N
               PROVE  /\ Timed(r)
                      /\ \A x \in ToSet(Aggregate(r, Width)) : x \in ToSet(Rows(ms))
                      /\ Aggregate(r, Width) # <<>> => Last(Aggregate(r, Width)) = Last(Rows(ms))
    BY <1>1, <1>2
  <1>3. s < N
    OBVIOUS
  <1>4. IndexAt(ms, 1, s) = s + 1
    <2>1. s + 1 \in 1..N /\ ms[s + 1].t = s
      BY <1>1, <1>3
    <2> QED BY <1>1, <2>1, IndexAtExact
  <1>5. /\ Timed(r) /\ Len(r) = N - s
        /\ \A n \in 1..Len(r) : r[n] = ms[s + n]
    <2> DEFINE j == s + 1
    <2>1. j \in Nat \ {0} /\ j <= N /\ Timed(ms) /\ r = Rest(ms, j)
      BY <1>1, <1>3, <1>4 DEF From
    <2> HIDE DEF j, r
    <2>2. /\ Timed(r) /\ Len(r) = IF j <= Len(ms) THEN Len(ms) - j + 1 ELSE 0
          /\ \A n \in 1..Len(r) : j + n - 1 \in j..Len(ms) /\ r[n] = ms[j + n - 1]
      BY <2>1, RestTimed
    <2>3. Len(r) = N - s
      BY <1>1, <2>1, <2>2 DEF j
    <2>4. \A n \in 1..Len(r) : j + n - 1 = s + n
      BY DEF j
    <2> QED BY <2>2, <2>3, <2>4
  <1>6. /\ g[0] = <<>> /\ \A n \in 1..N : g[n] = Grouped(g[n-1], ms[n], Width)
        /\ h[0] = <<>> /\ \A n \in 1..Len(r) : h[n] = Grouped(h[n-1], r[n], Width)
    <2> HIDE DEF r
    <2>1. Len(ms) \in Nat /\ Len(r) \in Nat
      BY <1>1, <1>3, <1>5
    <2>2. g[0] = <<>> /\ \A n \in 1..N : g[n] = Grouped(g[n-1], ms[n], Width)
      BY <2>1, GroupsDef
    <2>3. h[0] = <<>> /\ \A n \in 1..Len(r) : h[n] = Grouped(h[n-1], r[n], Width)
      BY <2>1, GroupsDef
    <2> QED BY <2>2, <2>3
  <1>7. /\ \A n \in 0..N : /\ Timed(g[n]) /\ (n = 0 <=> g[n] = <<>>)
                           /\ n > 0 => g[n][Len(g[n])].t <= ms[n].t
        /\ \A n \in 0..Len(r) : Timed(h[n]) /\ (n = 0 <=> h[n] = <<>>)
    <2> HIDE DEF r
    <2>1. \A n \in 0..N : /\ Timed(g[n]) /\ (n = 0 <=> g[n] = <<>>)
                          /\ n > 0 => g[n][Len(g[n])].t <= ms[n].t
      BY <1>1, GroupsTimed
    <2>2. Timed(r)
      BY <1>5
    <2>3. \A n \in 0..Len(r) : Timed(h[n]) /\ (n = 0 <=> h[n] = <<>>)
      BY <2>2, GroupsTimed
    <2> QED BY <2>1, <2>3
  <1> DEFINE S == {n \in 0..Len(r) : g[s + n] = g[s] \o h[n]}
  <1> HIDE DEF g, h, r, N
  <1>8. 0 \in S
    <2>1. g[s + 0] = g[s] /\ g[s] \in Seq(Candle)
      BY <1>3, <1>1, <1>7 DEF Timed
    <2>2. g[s] \o <<>> = g[s]
      BY <2>1
    <2>3. 0 \in 0..Len(r) /\ h[0] = <<>>
      BY <1>1, <1>3, <1>5, <1>6
    <2>4. g[s + 0] = g[s] \o h[0]
      BY <2>1, <2>2, <2>3
    <2> QED BY <2>3, <2>4
  <1>9. ASSUME NEW n \in 1..Len(r), n - 1 \in S PROVE n \in S
    <2>1. /\ s + n \in 1..N /\ s + (n - 1) = (s + n) - 1 /\ r[n] = ms[s + n]
          /\ ms[s + n] \in Candle /\ ms[s + n].t = s + n - 1 /\ n - 1 \in 0..Len(r)
      BY <1>1, <1>3, <1>5
    <2>2. g[s + n] = Grouped(g[s] \o h[n-1], r[n], Width) /\ h[n] = Grouped(h[n-1], r[n], Width)
      BY <1>6, <1>9, <2>1
    <2>3. g[s] \in Seq(Candle) /\ h[n-1] \in Seq(Candle)
      BY <1>1, <1>3, <1>7, <2>1 DEF Timed
    <2>4. h[n-1] # <<>> \/ g[s] = <<>> \/ r[n].t \div Width # g[s][Len(g[s])].t \div Width
      <3> SUFFICES ASSUME h[n-1] = <<>>, g[s] # <<>>
                   PROVE  r[n].t \div Width # g[s][Len(g[s])].t \div Width
        OBVIOUS
      <3>1. n = 1 /\ s > 0 /\ r[n].t = s
        <4>1. n - 1 = 0
          BY <1>7, <2>1
        <4>2. s \in 0..N
          BY <1>1, <1>3
        <4>3. s # 0
          BY <1>7, <4>2
        <4>4. r[n].t = s + n - 1
          BY <2>1
        <4>5. n \in Int
          OBVIOUS
        <4> QED BY <4>1, <4>3, <4>4, <4>5
      <3>2. g[s][Len(g[s])].t <= s - 1
        BY <1>1, <1>3, <1>7, <3>1
      <3>3. g[s][Len(g[s])].t \in Nat
        BY <2>3, CandleFacts
      <3>4. g[s][Len(g[s])].t < s
        BY <3>2, <3>3
      <3> QED BY <3>1, <3>3, <3>4, Boundary, WidthAssumption
    <2>5. Grouped(g[s] \o h[n-1], r[n], Width) = g[s] \o Grouped(h[n-1], r[n], Width)
      <3> DEFINE p == g[s]
                 q == h[n-1]
                 c == r[n]
      <3>1. /\ c \in Candle /\ p \in Seq(Candle) /\ q \in Seq(Candle)
            /\ q # <<>> \/ p = <<>> \/ c.t \div Width # p[Len(p)].t \div Width
        BY <2>1, <2>3, <2>4
      <3> HIDE DEF p, q, c
      <3>2. Grouped(p \o q, c, Width) = p \o Grouped(q, c, Width)
        BY <3>1, GroupedAfter
      <3> QED BY <3>2 DEF p, q, c
    <2>6. g[s + n] = g[s] \o h[n]
      BY <2>2, <2>5
    <2>7. n \in 0..Len(r)
      BY <1>1, <1>3, <1>5
    <2> QED BY <2>6, <2>7
  <1> HIDE DEF S
  <1>10. \A n \in 0..Len(r) : n \in S
    <2>1. Len(r) \in Nat
      BY <1>1, <1>3, <1>5
    <2> QED BY <1>8, <1>9, <2>1, Induction
  <1>11. g[N] = g[s] \o h[Len(r)]
    <2>1. Len(r) \in 0..Len(r) /\ s + Len(r) = N
      BY <1>1, <1>3, <1>5
    <2> QED BY <1>10, <2>1 DEF S
  <1>12. ASSUME NEW x \in ToSet(h[Len(r)]) PROVE x \in ToSet(g[N])
    <2> DEFINE p == g[s]
               q == h[Len(r)]
    <2>1. p \in Seq(Candle) /\ q \in Seq(Candle) /\ g[N] = p \o q /\ x \in ToSet(q)
      BY <1>1, <1>3, <1>5, <1>7, <1>11, <1>12 DEF Timed
    <2> HIDE DEF p, q
    <2>2. PICK i \in 1..Len(q) : x = q[i]
      BY <2>1 DEF ToSet
    <2>3. /\ p \o q \in Seq(Candle) /\ Len(p \o q) = Len(p) + Len(q) /\ Len(p) \in Nat /\ Len(q) \in Nat
          /\ \A j \in 1..(Len(p) + Len(q)) : (p \o q)[j] = IF j <= Len(p) THEN p[j] ELSE q[j - Len(p)]
      BY <2>1, Concat
    <2>4. Len(p) + i \in 1..Len(p \o q) /\ (p \o q)[Len(p) + i] = x
      BY <2>2, <2>3
    <2> DEFINE u == p \o q
               j == Len(p) + i
    <2>5. u \in Seq(Candle) /\ j \in 1..Len(u) /\ x = u[j] /\ g[N] = u
      BY <2>1, <2>3, <2>4
    <2> HIDE DEF u, j
    <2>6. x \in ToSet(u)
      BY <2>5 DEF ToSet
    <2> QED BY <2>5, <2>6
  <1>13. h[Len(r)] # <<>> => Last(h[Len(r)]) = Last(g[N])
    <2> DEFINE p == g[s]
               q == h[Len(r)]
    <2>1. p \in Seq(Candle) /\ q \in Seq(Candle) /\ g[N] = p \o q
      BY <1>1, <1>3, <1>5, <1>7, <1>11 DEF Timed
    <2> HIDE DEF p, q
    <2> DEFINE u == p \o q
    <2>2. /\ Len(u) = Len(p) + Len(q) /\ Len(p) \in Nat /\ Len(q) \in Nat
          /\ \A j \in 1..(Len(p) + Len(q)) : u[j] = IF j <= Len(p) THEN p[j] ELSE q[j - Len(p)]
      BY <2>1, Concat
    <2> HIDE DEF u
    <2>3. ASSUME q # <<>> PROVE u[Len(u)] = q[Len(q)]
      <3>1. Len(q) > 0
        BY <2>1, <2>3
      <3>2. Len(u) \in 1..(Len(p) + Len(q)) /\ ~(Len(u) <= Len(p)) /\ Len(u) - Len(p) = Len(q)
        BY <2>2, <3>1
      <3> QED BY <2>2, <3>2
    <2> QED BY <2>1, <2>3 DEF Last, q
  <1> QED BY <1>5, <1>12, <1>13 DEF Aggregate, Rows, g, h, r, N

LEMMA RowsTimed ==
    ASSUME NEW ms \in Day
    PROVE  Timed(ms) /\ Timed(Rows(ms))
  <1>1. Timed(ms)
    BY DEF Timed, Day
  <1> QED BY <1>1, AggregateTimed DEF Rows

LEMMA WholeSlots ==
    ASSUME NEW w \in Nat \ {0}, NEW a \in Nat, a % w = 0
    PROVE  (a + w) % w = 0 /\ (a >= w => (a - w) % w = 0)
  <1>1. ASSUME NEW x \in Nat, NEW k \in Int, x = w * k PROVE x % w = 0
    <2> DEFINE q == x \div w
               r == x % w
    <2>1. x = w * q + r /\ r \in 0..(w - 1) /\ q \in Int
      OBVIOUS
    <2> HIDE DEF q, r
    <2>2. w * (k - q) = r
      BY <1>1, <2>1
    <2>3. k - q <= 0
      <3> SUFFICES ASSUME k - q >= 1 PROVE FALSE
        BY <2>1
      <3>1. w * (k - q) >= w
        BY <2>1
      <3> QED BY <2>1, <2>2, <3>1
    <2>4. k - q >= 0
      <3> SUFFICES ASSUME k - q <= -1 PROVE FALSE
        BY <2>1
      <3>1. w * (k - q) <= -w
        BY <2>1
      <3> QED BY <2>1, <2>2, <3>1
    <2>5. r = 0
      BY <2>1, <2>2, <2>3, <2>4
    <2> QED BY <2>5 DEF r
  <1> DEFINE m == a \div w
  <1>2. a = w * m /\ m \in Int
    <2>1. a = w * (a \div w) + (a % w) /\ a \div w \in Int
      OBVIOUS
    <2> QED BY <2>1
  <1> HIDE DEF m
  <1>3. a + w = w * (m + 1) /\ a + w \in Nat /\ m + 1 \in Int
    BY <1>2
  <1>4. a - w = w * (m - 1) /\ m - 1 \in Int
    BY <1>2
  <1>5. (a + w) % w = 0
    BY <1>1, <1>3
  <1>6. ASSUME a >= w PROVE (a - w) % w = 0
    <2> DEFINE x == a - w
    <2>1. x \in Nat /\ x = w * (m - 1)
      BY <1>4, <1>6
    <2> HIDE DEF x
    <2>2. x % w = 0
      BY <1>1, <1>4, <2>1
    <2> QED BY <2>2 DEF x
  <1> QED BY <1>5, <1>6

\* A bar goes on where the minutes before it end.
LEMMA WithDay ==
    ASSUME NEW ms \in Day, NEW bar \in Slot
    PROVE  With(ms, bar) \in Day
  <1> DEFINE b == Stamped(ms, bar)
  <1>1. /\ ms \in Seq(Candle) /\ Len(ms) \in Nat /\ \A j \in 1..Len(ms) : ms[j].t = j - 1
        /\ Len(ms) % Width = 0 /\ Len(bar) = Width /\ Len(bar) \in Nat /\ DOMAIN bar = 1..Len(bar)
        /\ \A j \in 1..Len(bar) : bar[j] \in [o : Nat, h : Nat, l : Nat, c : Nat] /\ Priced(bar[j])
    BY DEF Day, Slot
  <1>2. b = [j \in 1..Len(bar) |-> [t |-> Len(ms) + j - 1, o |-> bar[j].o, h |-> bar[j].h,
                                     l |-> bar[j].l, c |-> bar[j].c]]
    BY <1>1 DEF Stamped
  <1>3. ASSUME NEW j \in 1..Len(bar) PROVE b[j] \in Candle /\ b[j].t = Len(ms) + j - 1
    <2>1. Len(ms) + j - 1 \in Nat
      BY <1>1
    <2>2. /\ b[j] \in [t : Nat, o : Nat, h : Nat, l : Nat, c : Nat]
          /\ b[j].o = bar[j].o /\ b[j].h = bar[j].h /\ b[j].l = bar[j].l /\ b[j].c = bar[j].c
          /\ b[j].t = Len(ms) + j - 1
      BY <1>1, <1>2, <2>1
    <2> QED BY <1>1, <2>2 DEF Candle, Priced
  <1>4. b \in Seq(Candle) /\ Len(b) = Len(bar)
    BY <1>1, <1>2, <1>3
  <1>5. /\ ms \o b \in Seq(Candle) /\ Len(ms \o b) = Len(ms) + Len(b)
        /\ \A j \in 1..(Len(ms) + Len(b)) : (ms \o b)[j] = IF j <= Len(ms) THEN ms[j] ELSE b[j - Len(ms)]
    BY <1>1, <1>4, Concat
  <1>6. ASSUME NEW j \in 1..Len(ms \o b) PROVE (ms \o b)[j].t = j - 1
    BY <1>1, <1>3, <1>4, <1>5
  <1>7. ms \o b \in Day
    <2>1. DOMAIN (ms \o b) = 1..Len(ms \o b)
      BY <1>5
    <2>2. Len(ms \o b) % Width = 0
      <3>1. (Len(ms) + Width) % Width = 0
        BY <1>1, WholeSlots, WidthAssumption
      <3> QED BY <1>1, <1>4, <1>5, <3>1
    <2> QED BY <1>5, <1>6, <2>1, <2>2 DEF Day
  <1> QED BY <1>7 DEF With, b

DayInv == day \in Day \X Day

\* The minutes of both codes are candles of consecutive minutes on every day.
THEOREM DayInvariant == Spec => []DayInv
<1>1. Init => DayInv
  BY DayAssumption DEF Init, DayInv
<1>2. DayInv /\ [Next]_day => DayInv'
  <2> SUFFICES ASSUME DayInv, [Next]_day PROVE DayInv'
    OBVIOUS
  <2>1. CASE NextBar
    <3>1. PICK b \in Bars : day' = <<With(day[1], b[1]), With(day[2], b[2])>>
      BY <2>1 DEF NextBar
    <3>2. b[1] \in Slot /\ b[2] \in Slot /\ day[1] \in Day /\ day[2] \in Day
      BY <3>1, DayAssumption DEF DayInv
    <3>3. With(day[1], b[1]) \in Day /\ With(day[2], b[2]) \in Day
      BY <3>2, WithDay
    <3> QED BY <3>1, <3>3 DEF DayInv
  <2>2. CASE UNCHANGED day
    BY <2>2 DEF DayInv
  <2> QED BY <2>1, <2>2 DEF Next
<1> QED BY <1>1, <1>2, PTL DEF Spec
--------------------------------------------------------------------------
\* The search for a signal.

GapOk(g, cfg) ==
    /\ g.side \in Sides /\ g.top \in Nat \ {0} /\ g.bottom \in Nat \ {0} /\ g.anchor \in Nat \ {0}
    /\ g.bottom < g.top /\ SideOk(cfg, g.side) /\ (LongOnly => g.side = "Long")
OneGap(gap, cfg) == \A g, h \in gap : g = h /\ GapOk(g, cfg)

LEMMA FormedFacts ==
    ASSUME NEW a \in Candle, NEW b \in Candle, NEW c \in Candle, NEW cfg
    PROVE  OneGap(FormedGap(a, b, c, cfg), cfg)
  <1> DEFINE up   == [side |-> "Long", top |-> c.l, bottom |-> a.h, anchor |-> a.l]
             down == [side |-> "Short", top |-> a.l, bottom |-> c.h, anchor |-> a.h]
             gap  == FormedGap(a, b, c, cfg)
  <1>1. \/ gap = {up} /\ a.h < c.l /\ SideOk(cfg, "Long")
        \/ gap = {down} /\ a.l > c.h /\ ~LongOnly /\ SideOk(cfg, "Short")
        \/ gap = {}
    BY DEF FormedGap
  <1>2. a.h < c.l /\ SideOk(cfg, "Long") => GapOk(up, cfg)
    BY CandleFacts DEF GapOk, Sides
  <1>3. a.l > c.h /\ ~LongOnly /\ SideOk(cfg, "Short") => GapOk(down, cfg)
    BY CandleFacts DEF GapOk, Sides
  <1> HIDE DEF up, down, gap
  <1>4. OneGap(gap, cfg)
    BY <1>1, <1>2, <1>3 DEF OneGap
  <1> QED BY <1>4 DEF gap

\* A gap takes three candles, and the candle that comes back is a later one.
SearchOk(s, n, cfg) ==
    /\ s.at \in 0..n /\ OneGap(s.gap, cfg) /\ (s.gap # {} => s.at >= 3)
    /\ s.idx = 0 \/ (s.over /\ s.idx \in 4..n /\ s.gap # {})

LEMMA SearchStep ==
    ASSUME NEW cs, Timed(cs), NEW cfg, NEW n \in 1..Len(cs),
           NEW s, s = [gap |-> s.gap, at |-> s.at, idx |-> s.idx, over |-> s.over],
           SearchOk(s, n - 1, cfg)
    PROVE  LET t == Search(cs, n, s, cfg)
           IN  SearchOk(t, n, cfg) /\ t = [gap |-> t.gap, at |-> t.at, idx |-> t.idx, over |-> t.over]
  <1> DEFINE live == IF n - s.at > Expiry THEN {} ELSE s.gap
             new  == IF live = {} /\ n > 2 THEN FormedGap(cs[n-2], cs[n-1], cs[n], cfg) ELSE {}
             t    == Search(cs, n, s, cfg)
  <1>1. \/ t = s
        \/ ~s.over /\ t = [s EXCEPT !.over = TRUE]
        \/ ~s.over /\ t = [s EXCEPT !.gap = new, !.at = n] /\ new # {}
        \/ ~s.over /\ t = [s EXCEPT !.gap = live, !.idx = n, !.over = TRUE] /\ live # {}
        \/ ~s.over /\ t = [s EXCEPT !.gap = live]
    BY DEF Search
  <1>2. n \in Nat /\ n >= 1 /\ \A i \in 1..n : cs[i] \in Candle
    BY DEF Timed
  <1>3. OneGap(live, cfg) /\ (live # {} => s.at >= 3)
    BY DEF SearchOk, OneGap
  <1>4. OneGap(new, cfg) /\ (new # {} => n >= 3)
    <2>1. CASE live = {} /\ n > 2
      <3>1. cs[n-2] \in Candle /\ cs[n-1] \in Candle /\ cs[n] \in Candle
        BY <1>2, <2>1
      <3> QED BY <1>2, <2>1, <3>1, FormedFacts
    <2>2. CASE ~(live = {} /\ n > 2)
      BY <2>2 DEF OneGap
    <2> QED BY <2>1, <2>2
  <1> HIDE DEF live, new, t
  <1>5. /\ s.at \in 0..(n - 1) /\ OneGap(s.gap, cfg) /\ (s.gap # {} => s.at >= 3)
        /\ s.idx = 0 \/ (s.over /\ s.idx \in 4..(n - 1) /\ s.gap # {})
    BY DEF SearchOk
  <1>6. t = [gap |-> t.gap, at |-> t.at, idx |-> t.idx, over |-> t.over]
    BY <1>1
  <1>7. SearchOk(t, n, cfg)
    <2>1. CASE t = s
      BY <1>2, <1>5, <2>1 DEF SearchOk
    <2>2. CASE ~s.over /\ t = [s EXCEPT !.over = TRUE]
      <3>1. t.at = s.at /\ t.gap = s.gap /\ t.idx = s.idx
        BY <2>2
      <3> QED BY <1>2, <1>5, <2>2, <3>1 DEF SearchOk
    <2>3. CASE ~s.over /\ t = [s EXCEPT !.gap = new, !.at = n] /\ new # {}
      <3>1. t.at = n /\ t.gap = new /\ t.idx = s.idx
        BY <2>3
      <3> QED BY <1>2, <1>4, <1>5, <2>3, <3>1 DEF SearchOk
    <2>4. CASE ~s.over /\ t = [s EXCEPT !.gap = live, !.idx = n, !.over = TRUE] /\ live # {}
      <3>1. t.at = s.at /\ t.gap = live /\ t.idx = n /\ t.over = TRUE
        BY <2>4
      <3> QED BY <1>2, <1>3, <1>5, <2>4, <3>1 DEF SearchOk
    <2>5. CASE ~s.over /\ t = [s EXCEPT !.gap = live]
      <3>1. t.at = s.at /\ t.gap = live /\ t.idx = s.idx
        BY <2>5
      <3> QED BY <1>2, <1>3, <1>5, <2>5, <3>1 DEF SearchOk
    <2> QED BY <1>1, <2>1, <2>2, <2>3, <2>4, <2>5
  <1> QED BY <1>6, <1>7 DEF t

LEMMA SearchedOk ==
    ASSUME NEW cs, Timed(cs), NEW cfg
    PROVE  \A n \in 0..Len(cs) :
               LET s == Searched(cs, cfg)[n]
               IN  SearchOk(s, n, cfg) /\ s = [gap |-> s.gap, at |-> s.at, idx |-> s.idx, over |-> s.over]
  <1> DEFINE N == Len(cs)
             s == Searched(cs, cfg)
             Record(x) == x = [gap |-> x.gap, at |-> x.at, idx |-> x.idx, over |-> x.over]
             S == {n \in 0..N : SearchOk(s[n], n, cfg) /\ Record(s[n])}
  <1>1. N \in Nat
    BY DEF Timed
  <1>2. s[0] = Searching /\ \A n \in 1..N : s[n] = Search(cs, n, s[n-1], cfg)
    BY <1>1, SearchedDef
  <1>3. Record(Searching) /\ SearchOk(Searching, 0, cfg)
    BY DEF Searching, SearchOk, OneGap
  <1>4. ASSUME NEW n \in 1..N, SearchOk(s[n-1], n - 1, cfg), Record(s[n-1])
        PROVE  SearchOk(s[n], n, cfg) /\ Record(s[n])
    <2>1. s[n] = Search(cs, n, s[n-1], cfg)
      BY <1>2
    <2> QED BY <1>4, <2>1, SearchStep
  <1> HIDE DEF s, N, Record
  <1>5. 0 \in S
    BY <1>1, <1>2, <1>3
  <1>6. \A n \in 1..N : n - 1 \in S => n \in S
    BY <1>1, <1>4
  <1> HIDE DEF S
  <1>7. \A n \in 0..N : n \in S
    BY <1>1, <1>5, <1>6, Induction
  <1>8. \A n \in 0..N : SearchOk(s[n], n, cfg) /\ Record(s[n])
    BY <1>7 DEF S
  <1> QED BY <1>8 DEF s, N, Record

LEMMA DetectFacts ==
    ASSUME NEW cs, Timed(cs), NEW cfg
    PROVE  LET d == DetectNext(cs, cfg)
           IN  OneGap(d.gap, cfg) /\ (d.gap # {} => d.idx \in 4..Len(cs))
  <1> DEFINE N == Len(cs)
             s == Searched(cs, cfg)
  <1>1. N \in Nat
    BY DEF Timed
  <1>8. SearchOk(s[N], N, cfg)
    <2>1. Len(cs) \in 0..Len(cs)
      BY <1>1
    <2>2. SearchOk(Searched(cs, cfg)[Len(cs)], Len(cs), cfg)
      BY <2>1, SearchedOk
    <2> QED BY <2>2
  <1> HIDE DEF s, N
  <1> DEFINE d == DetectNext(cs, cfg)
  <1>9. d = IF s[N].idx = 0 THEN NoSignal ELSE [idx |-> s[N].idx, gap |-> s[N].gap]
    BY DEF DetectNext, s, N
  <1> HIDE DEF d
  <1>10. CASE s[N].idx = 0
    BY <1>9, <1>10 DEF NoSignal, OneGap, d
  <1>11. CASE s[N].idx # 0
    BY <1>8, <1>9, <1>11 DEF SearchOk, d, N
  <1> QED BY <1>10, <1>11

--------------------------------------------------------------------------
\* The exit of a trade.

\* The candle i of cs ends the trade of a plan entered at a time.
EndsAt(tr, plan, at, c) ==
    /\ tr.side = plan.side /\ tr.entry = plan.entry /\ tr.sl = plan.sl
    /\ tr.tin = at /\ tr.tout = c.t

LEMMA ExitFacts ==
    ASSUME NEW plan, NEW at, NEW cs, Timed(cs)
    PROVE  \A tr \in SimulateExit(plan, at, cs) : \E i \in 1..Len(cs) : EndsAt(tr, plan, at, cs[i])
  <1> DEFINE N == Len(cs)
             m == Exits(plan, at, cs)
             Ended(x) == \A tr \in x.trade : \E i \in 1..N : EndsAt(tr, plan, at, cs[i])
             S == {n \in 0..N : Ended(m[n])}
  <1>1. N \in Nat
    BY DEF Timed
  <1>2. m[0] = Entered(plan) /\ \A n \in 1..N : m[n] = Managed(plan, at, cs, n, m[n-1])
    BY <1>1, ExitsDef
  <1>3. Ended(m[0])
    BY <1>2 DEF Entered
  <1>4. ASSUME NEW n \in 1..N, Ended(m[n-1]) PROVE Ended(m[n])
    <2> DEFINE r == Managed(plan, at, cs, n, m[n-1])
    <2>1. \/ r = m[n-1]
          \/ \E next, exit, why : r = [pm |-> next, trade |-> {Trade(plan, at, exit, cs[n].t, why)}]
          \/ \E next : r = [pm |-> next, trade |-> {}]
      BY DEF Managed
    <2>2. ASSUME NEW next, NEW exit, NEW why,
                 r = [pm |-> next, trade |-> {Trade(plan, at, exit, cs[n].t, why)}]
          PROVE  Ended(r)
      <3>1. EndsAt(Trade(plan, at, exit, cs[n].t, why), plan, at, cs[n])
        BY DEF EndsAt, Trade
      <3>2. r.trade = {Trade(plan, at, exit, cs[n].t, why)}
        BY <2>2
      <3> HIDE DEF r
      <3> QED BY <3>1, <3>2
    <2>3. ASSUME NEW next, r = [pm |-> next, trade |-> {}] PROVE Ended(r)
      BY <2>3
    <2>4. m[n] = r
      BY <1>2
    <2> HIDE DEF r
    <2> QED BY <1>4, <2>1, <2>2, <2>3, <2>4
  <1> HIDE DEF m, N, Ended
  <1>5. 0 \in S /\ \A n \in 1..N : n - 1 \in S => n \in S
    BY <1>1, <1>3, <1>4
  <1> HIDE DEF S
  <1>6. \A n \in 0..N : n \in S
    BY <1>1, <1>5, Induction
  <1>7. Ended(m[N])
    BY <1>1, <1>6 DEF S
  <1> QED BY <1>7 DEF Ended, SimulateExit, m, N
\* The stop of a trade as it is managed: the original one before the break-even distance is
\* reached, at the entry and at the trailing distance from the best price or better after it.
PmOk(side, entry, sl, pm) ==
    /\ pm.best \in Int /\ pm.sl \in Int /\ pm.reached \in BOOLEAN
    /\ Gain(side, pm.best, entry) >= 0
    /\ ~pm.reached => /\ pm.sl = sl
                      /\ Gain(side, pm.best, entry) < Dist(Risk(entry, sl), BreakevenPct)
    /\ pm.reached => /\ Gain(side, pm.sl, entry) >= 0
                     /\ Gain(side, pm.sl, Behind(side, pm.best, Dist(Risk(entry, sl), TrailingPct))) >= 0

\* A candle moves the stop to a price that its best price passed.
LEMMA UpdateFacts ==
    ASSUME NEW side \in Sides, NEW entry \in Int, NEW sl \in Int, NEW price \in Int, NEW pm,
           PmOk(side, entry, sl, pm), Dist(Risk(entry, sl), BreakevenPct) > 0
    PROVE  LET next == UpdateBestAndTrailing(side, entry, Risk(entry, sl), price, pm)
           IN  /\ PmOk(side, entry, sl, next)
               /\ next.sl # pm.sl => Gain(side, price, next.sl) >= 0
  <1> DEFINE risk  == Risk(entry, sl)
             be    == Dist(risk, BreakevenPct)
             trail == Dist(risk, TrailingPct)
             best  == Best(side, pm, price)
             newly == ~pm.reached /\ Gain(side, best, entry) >= be
             reached == pm.reached \/ newly
             stop  == IF newly THEN entry ELSE pm.sl
             moved == Trailed(side, stop, best, risk)
             next  == UpdateBestAndTrailing(side, entry, risk, price, pm)
  <1> SUFFICES /\ PmOk(side, entry, sl, next)
               /\ next.sl # pm.sl => Gain(side, price, next.sl) >= 0
    OBVIOUS
  <1>1. be \in Nat /\ trail \in Nat /\ be > 0
    <2>1. risk \in Nat
      BY DEF Risk
    <2> QED BY <2>1, Shares, PctAssumption
  <1>2. next = [best |-> best, sl |-> IF reached THEN moved ELSE stop, reached |-> reached]
    BY DEF UpdateBestAndTrailing
  <1> DEFINE Kept(q) ==
        /\ q.best \in Int /\ q.sl \in Int /\ q.reached \in BOOLEAN
        /\ Gain(side, q.best, entry) >= 0
        /\ ~q.reached => q.sl = sl /\ Gain(side, q.best, entry) < be
        /\ q.reached => Gain(side, q.sl, entry) >= 0 /\ Gain(side, q.sl, Behind(side, q.best, trail)) >= 0
  <1>3. Kept(pm) /\ (Kept(next) => PmOk(side, entry, sl, next))
    BY DEF PmOk
  <1>4. moved = IF Gain(side, Behind(side, best, trail), stop) > 0 THEN Behind(side, best, trail) ELSE stop
    BY DEF Trailed
  <1>5. best = IF Gain(side, price, pm.best) > 0 THEN price ELSE pm.best
    BY DEF Best
  <1> HIDE DEF risk, be, trail, best, moved, next
  <1>6. next.best = best /\ next.reached = reached /\ next.sl = IF reached THEN moved ELSE stop
    BY <1>2
  <1>7. CASE side = "Long"
    <2>1. /\ best \in Int /\ best >= pm.best /\ best >= entry /\ best >= price
          /\ best = price \/ best = pm.best
      BY <1>3, <1>5, <1>7 DEF Gain
    <2>2. CASE ~reached
      <3>1. next.sl = pm.sl /\ ~pm.reached /\ ~newly /\ Gain(side, best, entry) < be
        BY <1>1, <1>6, <1>7, <2>1, <2>2 DEF Gain
      <3> QED BY <1>3, <1>6, <1>7, <2>1, <2>2, <3>1 DEF Gain
    <2>3. CASE reached
      <3>1. stop \in Int /\ stop >= entry /\ (stop = entry \/ stop = pm.sl) /\ (newly => best = price)
        BY <1>1, <1>3, <1>7, <2>1, <2>3 DEF Gain
      <3>2. next.sl \in Int /\ next.sl >= stop /\ next.sl >= best - trail
            /\ (next.sl = stop \/ next.sl = best - trail)
        BY <1>1, <1>4, <1>6, <1>7, <2>1, <2>3, <3>1 DEF Gain, Behind
      <3>3. PmOk(side, entry, sl, next)
        <4>1. next.reached = TRUE
          BY <1>6, <2>3
        <4> QED BY <1>1, <1>3, <1>6, <1>7, <2>1, <3>1, <3>2, <4>1 DEF Gain, Behind
      <3>4. next.sl # pm.sl => price >= next.sl
        BY <1>1, <1>3, <1>5, <1>7, <2>1, <2>3, <3>1, <3>2 DEF Gain, Behind
      <3> QED BY <1>7, <3>2, <3>3, <3>4 DEF Gain
    <2> QED BY <2>2, <2>3
  <1>8. CASE side = "Short"
    <2>1. /\ best \in Int /\ best <= pm.best /\ best <= entry /\ best <= price
          /\ best = price \/ best = pm.best
      BY <1>3, <1>5, <1>8 DEF Gain
    <2>2. CASE ~reached
      <3>1. next.sl = pm.sl /\ ~pm.reached /\ ~newly /\ Gain(side, best, entry) < be
        BY <1>1, <1>6, <1>8, <2>1, <2>2 DEF Gain
      <3> QED BY <1>3, <1>6, <1>8, <2>1, <2>2, <3>1 DEF Gain
    <2>3. CASE reached
      <3>1. stop \in Int /\ stop <= entry /\ (stop = entry \/ stop = pm.sl) /\ (newly => best = price)
        BY <1>1, <1>3, <1>8, <2>1, <2>3 DEF Gain
      <3>2. next.sl \in Int /\ next.sl <= stop /\ next.sl <= best + trail
            /\ (next.sl = stop \/ next.sl = best + trail)
        BY <1>1, <1>4, <1>6, <1>8, <2>1, <2>3, <3>1 DEF Gain, Behind
      <3>3. PmOk(side, entry, sl, next)
        <4>1. next.reached = TRUE
          BY <1>6, <2>3
        <4> QED BY <1>1, <1>3, <1>6, <1>8, <2>1, <3>1, <3>2, <4>1 DEF Gain, Behind
      <3>4. next.sl # pm.sl => price <= next.sl
        BY <1>1, <1>3, <1>5, <1>8, <2>1, <2>3, <3>1, <3>2 DEF Gain, Behind
      <3> QED BY <1>8, <3>2, <3>3, <3>4 DEF Gain
    <2> QED BY <2>2, <2>3
  <1> QED BY <1>7, <1>8 DEF Sides

\* A stop ends a trade at a price of its candle, and a stop that was moved does not lose
\* unless the candle opened beyond it.
HonestEnd(tr, c) ==
    tr.why \in {"StopLoss", "BreakevenStop", "TrailingStop"} =>
        /\ c.l <= tr.exit /\ tr.exit <= c.h
        /\ tr.why # "StopLoss" /\ tr.exit # c.o => Gain(tr.side, tr.exit, tr.entry) >= 0

\* One candle.
LEMMA ManagedStep ==
    ASSUME NEW plan, plan.side \in Sides, plan.entry \in Int, plan.sl \in Int,
           Dist(Risk(plan.entry, plan.sl), BreakevenPct) > 0,
           NEW at, NEW cs, Timed(cs), NEW n \in 1..Len(cs),
           NEW m, m.trade = {}, PmOk(plan.side, plan.entry, plan.sl, m.pm)
    PROVE  LET r == Managed(plan, at, cs, n, m)
           IN  /\ PmOk(plan.side, plan.entry, plan.sl, r.pm)
               /\ \A tr \in r.trade : tr.tout = cs[n].t /\ HonestEnd(tr, cs[n])
  <1> DEFINE c    == cs[n]
             good == IF plan.side = "Long" THEN c.h ELSE c.l
             bad  == IF plan.side = "Long" THEN c.l ELSE c.h
             next == UpdateBestAndTrailing(plan.side, plan.entry, Risk(plan.entry, plan.sl), good, m.pm)
             Ends(exit, why) == [pm |-> next, trade |-> {Trade(plan, at, exit, c.t, why)}]
             r    == Managed(plan, at, cs, n, m)
             Good(tr) == tr.tout = c.t /\ HonestEnd(tr, c)
  <1> SUFFICES PmOk(plan.side, plan.entry, plan.sl, r.pm) /\ \A tr \in r.trade : Good(tr)
    OBVIOUS
  <1>1. /\ c \in Candle /\ c.o \in Int /\ c.h \in Int /\ c.l \in Int
        /\ c.l <= c.o /\ c.o <= c.h /\ good \in Int
    BY CandleFacts DEF Timed
  <1>2. /\ PmOk(plan.side, plan.entry, plan.sl, next)
        /\ next.sl # m.pm.sl => Gain(plan.side, good, next.sl) >= 0
    BY <1>1, UpdateFacts
  <1>3. \/ OpenGapBreach(plan.side, m.pm.sl, c.o) /\ r = Ends(c.o, GapExitReason(m.pm))
        \/ \E exit : r = Ends(exit, "TakeProfit")
        \/ /\ ~OpenGapBreach(plan.side, m.pm.sl, c.o) /\ IsSlHit(plan.side, next.sl, bad)
           /\ r = Ends(next.sl, SlExitReason(plan.side, next, plan.sl, plan.entry))
        \/ \E exit : r = Ends(exit, "TimeStop")
        \/ \E exit : r = Ends(exit, "EndOfDay")
        \/ r = [pm |-> next, trade |-> {}]
    BY DEF Managed
  <1> HIDE DEF next, r, good, bad, c
  <1>4. ASSUME NEW exit, NEW why, r = Ends(exit, why), Good(Trade(plan, at, exit, c.t, why))
        PROVE  PmOk(plan.side, plan.entry, plan.sl, r.pm) /\ \A tr \in r.trade : Good(tr)
    <2>1. r.pm = next /\ r.trade = {Trade(plan, at, exit, c.t, why)}
      BY <1>4
    <2> QED BY <1>2, <1>4, <2>1
  <1>5. \A exit, why : LET tr == Trade(plan, at, exit, c.t, why)
                       IN  /\ tr.tout = c.t /\ tr.exit = exit /\ tr.why = why /\ tr.side = plan.side
                           /\ tr.entry = plan.entry
    BY DEF Trade
  <1>6. CASE OpenGapBreach(plan.side, m.pm.sl, c.o) /\ r = Ends(c.o, GapExitReason(m.pm))
    <2>1. Good(Trade(plan, at, c.o, c.t, GapExitReason(m.pm)))
      BY <1>1, <1>5 DEF HonestEnd
    <2> QED BY <1>4, <1>6, <2>1
  <1>7. CASE /\ ~OpenGapBreach(plan.side, m.pm.sl, c.o) /\ IsSlHit(plan.side, next.sl, bad)
             /\ r = Ends(next.sl, SlExitReason(plan.side, next, plan.sl, plan.entry))
    <2> DEFINE why == SlExitReason(plan.side, next, plan.sl, plan.entry)
    <2>1. next.sl \in Int /\ m.pm.sl \in Int /\ (next.reached => Gain(plan.side, next.sl, plan.entry) >= 0)
      BY <1>2 DEF PmOk
    <2>2. c.l <= next.sl /\ next.sl <= c.h
      <3>1. CASE plan.side = "Long"
        BY <1>1, <1>2, <1>7, <2>1, <3>1 DEF OpenGapBreach, IsSlHit, Gain, good, bad
      <3>2. CASE plan.side = "Short"
        BY <1>1, <1>2, <1>7, <2>1, <3>2 DEF OpenGapBreach, IsSlHit, Gain, good, bad
      <3> QED BY <3>1, <3>2 DEF Sides
    <2>3. why # "StopLoss" => Gain(plan.side, next.sl, plan.entry) >= 0
      BY <2>1 DEF SlExitReason
    <2> HIDE DEF why
    <2>4. Good(Trade(plan, at, next.sl, c.t, why))
      BY <1>5, <2>2, <2>3 DEF HonestEnd
    <2> QED BY <1>4, <1>7, <2>4 DEF why
  <1>8. CASE \E exit : r = Ends(exit, "TakeProfit")
    <2>1. \A exit : Good(Trade(plan, at, exit, c.t, "TakeProfit"))
      BY <1>5 DEF HonestEnd
    <2> QED BY <1>4, <1>8, <2>1
  <1>9. CASE \E exit : r = Ends(exit, "TimeStop")
    <2>1. \A exit : Good(Trade(plan, at, exit, c.t, "TimeStop"))
      BY <1>5 DEF HonestEnd
    <2> QED BY <1>4, <1>9, <2>1
  <1>10. CASE \E exit : r = Ends(exit, "EndOfDay")
    <2>1. \A exit : Good(Trade(plan, at, exit, c.t, "EndOfDay"))
      BY <1>5 DEF HonestEnd
    <2> QED BY <1>4, <1>10, <2>1
  <1>11. CASE r = [pm |-> next, trade |-> {}]
    BY <1>2, <1>11
  <1> QED BY <1>3, <1>6, <1>7, <1>8, <1>9, <1>10, <1>11

LEMMA HonestExit ==
    ASSUME NEW plan, plan.side \in Sides, plan.entry \in Int, plan.sl \in Int,
           Dist(Risk(plan.entry, plan.sl), BreakevenPct) > 0,
           NEW at, NEW cs, Timed(cs)
    PROVE  \A tr \in SimulateExit(plan, at, cs) :
               \E i \in 1..Len(cs) : tr.tout = cs[i].t /\ HonestEnd(tr, cs[i])
  <1> DEFINE N == Len(cs)
             m == Exits(plan, at, cs)
             Good(tr) == \E i \in 1..N : tr.tout = cs[i].t /\ HonestEnd(tr, cs[i])
             Ok(x) == (x.trade = {} => PmOk(plan.side, plan.entry, plan.sl, x.pm)) /\ \A tr \in x.trade : Good(tr)
             S == {n \in 0..N : Ok(m[n])}
  <1>1. N \in Nat
    BY DEF Timed
  <1>2. m[0] = Entered(plan) /\ \A n \in 1..N : m[n] = Managed(plan, at, cs, n, m[n-1])
    BY <1>1, ExitsDef
  <1>3. Ok(m[0])
    <2>1. PmOk(plan.side, plan.entry, plan.sl, Fresh(plan.entry, plan.sl))
      BY DEF PmOk, Fresh, Gain, Sides
    <2> QED BY <1>2, <2>1 DEF Entered
  <1>4. ASSUME NEW n \in 1..N, Ok(m[n-1]) PROVE Ok(m[n])
    <2>1. m[n] = Managed(plan, at, cs, n, m[n-1])
      BY <1>2
    <2>2. CASE m[n-1].trade # {}
      <3>1. m[n] = m[n-1]
        BY <2>1, <2>2 DEF Managed
      <3> QED BY <1>4, <3>1
    <2>3. CASE m[n-1].trade = {}
      <3> DEFINE x == m[n-1]
                 y == m[n]
      <3>1. /\ x.trade = {} /\ PmOk(plan.side, plan.entry, plan.sl, x.pm)
            /\ y = Managed(plan, at, cs, n, x)
        BY <1>4, <2>1, <2>3
      <3> HIDE DEF x, y
      <3>2. /\ PmOk(plan.side, plan.entry, plan.sl, y.pm)
            /\ \A tr \in y.trade : tr.tout = cs[n].t /\ HonestEnd(tr, cs[n])
        BY <3>1, ManagedStep
      <3> QED BY <3>2 DEF y
    <2> QED BY <2>2, <2>3
  <1> HIDE DEF m, N, Ok
  <1>5. 0 \in S /\ \A n \in 1..N : n - 1 \in S => n \in S
    BY <1>1, <1>3, <1>4
  <1> HIDE DEF S
  <1>6. \A n \in 0..N : n \in S
    BY <1>1, <1>5, Induction
  <1>7. Ok(m[N])
    BY <1>1, <1>6 DEF S
  <1> QED BY <1>7 DEF Ok, SimulateExit, m, N
--------------------------------------------------------------------------
\* The trades of a day.

IsSequence(s) == s \in Seq(ToSet(s))

LEMMA Appended ==
    ASSUME NEW s, IsSequence(s), NEW x
    PROVE  /\ IsSequence(Append(s, x)) /\ Len(s) \in Nat /\ Len(Append(s, x)) = Len(s) + 1
           /\ \A n \in 1..Len(s) : Append(s, x)[n] = s[n]
           /\ Append(s, x)[Len(s) + 1] = x
  <1> DEFINE S == ToSet(s) \cup {x}
             t == Append(s, x)
  <1>1. s \in Seq(S)
    BY DEF IsSequence
  <1> HIDE DEF S
  <1>2. /\ t \in Seq(S) /\ Len(s) \in Nat /\ Len(t) = Len(s) + 1
        /\ \A n \in 1..Len(s) : t[n] = s[n]
        /\ t[Len(s) + 1] = x
    BY <1>1, AppendProperties DEF S
  <1> HIDE DEF t
  <1>3. IsSequence(t)
    BY <1>2 DEF IsSequence, ToSet
  <1> QED BY <1>2, <1>3 DEF t

LEMMA EmptySequence == IsSequence(<<>>) /\ Len(<<>>) = 0
  BY DEF IsSequence

\* A trade adds to what the trades before it earned.
LEMMA EarnedAppend ==
    ASSUME NEW s, IsSequence(s), NEW x
    PROVE  /\ \A n \in 0..Len(s) : Earned(Append(s, x))[n] = Earned(s)[n]
           /\ Earned(Append(s, x))[Len(s) + 1] = Earned(s)[Len(s)] + Pnl(x)
  <1> DEFINE t == Append(s, x)
             N == Len(s)
             e == Earned(s)
             f == Earned(t)
             S == {n \in 0..N : f[n] = e[n]}
  <1>1. /\ N \in Nat /\ Len(t) = N + 1 /\ t[N + 1] = x
        /\ \A n \in 1..N : t[n] = s[n]
    BY Appended
  <1>2. /\ e[0] = 0 /\ \A n \in 1..N : e[n] = e[n-1] + Pnl(s[n])
        /\ f[0] = 0 /\ \A n \in 1..(N + 1) : f[n] = f[n-1] + Pnl(t[n])
    <2>1. Len(t) \in Nat
      BY <1>1
    <2>2. e[0] = 0 /\ \A n \in 1..N : e[n] = e[n-1] + Pnl(s[n])
      BY <1>1, EarnedDef
    <2> HIDE DEF t
    <2>3. f[0] = 0 /\ \A n \in 1..Len(t) : f[n] = f[n-1] + Pnl(t[n])
      BY <2>1, EarnedDef
    <2> QED BY <1>1, <2>2, <2>3 DEF t
  <1> HIDE DEF t, N, e, f
  <1>3. 0 \in S /\ \A n \in 1..N : n - 1 \in S => n \in S
    BY <1>1, <1>2
  <1> HIDE DEF S
  <1>4. \A n \in 0..N : n \in S
    BY <1>1, <1>3, Induction
  <1>5. \A n \in 0..N : f[n] = e[n]
    BY <1>4 DEF S
  <1>6. f[N + 1] = e[N] + Pnl(x)
    <2>1. N + 1 \in 1..(N + 1) /\ (N + 1) - 1 = N /\ N \in 0..N
      BY <1>1
    <2>2. f[N + 1] = f[N] + Pnl(t[N + 1])
      BY <1>2, <2>1
    <2> QED BY <1>1, <1>5, <2>1, <2>2
  <1> QED BY <1>5, <1>6 DEF t, N, e, f

\* What HonestStops says of a trade that a candle ends.
Honest(tr, c) == Dist(Risk(tr.entry, tr.sl), BreakevenPct) > 0 => HonestEnd(tr, c)
HonestIn(tr, X) == \E c \in X : tr.tout = c.t /\ Honest(tr, c)

LEMMA PlanFacts ==
    ASSUME NEW policy, NEW g, NEW cfg, GapOk(g, cfg)
    PROVE  LET p == Plan(policy, g)
           IN  p.side = g.side /\ p.side \in Sides /\ p.entry \in Int /\ p.sl \in Int
  <1>1. Intended(policy, g) \in Int
    <2>1. (g.top + g.bottom) \div 2 \in Int
      BY DEF GapOk
    <2>2. g.top \in Int /\ g.bottom \in Int
      BY DEF GapOk
    <2> QED BY <2>1, <2>2 DEF Intended
  <1>2. LET p == Plan(policy, g)
        IN  p.side = g.side /\ p.entry = Intended(policy, g) /\ p.sl = g.anchor
    BY DEF Plan
  <1>3. g.side \in Sides /\ g.anchor \in Int
    BY DEF GapOk
  <1> QED BY <1>1, <1>2, <1>3

\* A trade is ended by one of the candles it is simulated over.
LEMMA Simulated ==
    ASSUME NEW policy, NEW g, NEW cfg, GapOk(g, cfg), NEW at, NEW cs, Timed(cs),
           NEW tr \in SimulateExit(Plan(policy, g), at, cs)
    PROVE  /\ tr.side = g.side /\ tr.tin = at
           /\ \E i \in 1..Len(cs) : tr.tout = cs[i].t /\ Honest(tr, cs[i])
  <1> DEFINE p == Plan(policy, g)
  <1>1. p.side = g.side /\ p.side \in Sides /\ p.entry \in Int /\ p.sl \in Int
    BY PlanFacts
  <1> HIDE DEF p
  <1>2. tr \in SimulateExit(p, at, cs)
    BY DEF p
  <1>3. PICK i \in 1..Len(cs) : EndsAt(tr, p, at, cs[i])
    BY <1>2, ExitFacts
  <1>4. /\ tr.side = p.side /\ tr.entry = p.entry /\ tr.sl = p.sl /\ tr.tin = at /\ tr.tout = cs[i].t
    BY <1>3 DEF EndsAt
  <1>5. CASE Dist(Risk(p.entry, p.sl), BreakevenPct) > 0
    <2>1. \E j \in 1..Len(cs) : tr.tout = cs[j].t /\ HonestEnd(tr, cs[j])
      BY <1>1, <1>2, <1>5, HonestExit
    <2> QED BY <1>1, <1>4, <2>1 DEF Honest
  <1>6. CASE ~(Dist(Risk(p.entry, p.sl), BreakevenPct) > 0)
    BY <1>1, <1>4, <1>6 DEF Honest
  <1> QED BY <1>5, <1>6

\* The candles of a trade: it is entered at the candle a, and ended by the candle b.
TradeOf(tr, cs, a, b) ==
    /\ tr.side \in Sides /\ (LongOnly => tr.side = "Long")
    /\ tr.tin = cs[a].t /\ tr.tout = cs[b].t /\ Honest(tr, cs[b])

\* The search finds a trade behind the place it starts at.
LEMMA Scanned ==
    ASSUME NEW v, Timed(v.cs), NEW from \in Nat \ {0}, NEW tr \in ScanFrom(v, from)
    PROVE  \E a, b \in 1..Len(v.cs) : from < a /\ a < b /\ TradeOf(tr, v.cs, a, b)
  <1> DEFINE cs  == v.cs
             r   == Rest(cs, from)
             cfg == Config(v.or, "any")
             d   == DetectNext(r, cfg)
  <1>1. from <= Len(cs) /\ Len(cs) \in Nat /\ tr \in Candidates(r, d)
    BY DEF ScanFrom, ScanAndTrade, Timed
  <1>2. PICK g \in d.gap : tr \in SimulateExit(Plan("LegacyMid", g), r[d.idx].t, Rest(r, d.idx + 1))
    BY <1>1 DEF Candidates
  <1>3. /\ Timed(r) /\ Len(r) = Len(cs) - from + 1
        /\ \A n \in 1..Len(r) : r[n] = cs[from + n - 1]
    BY <1>1, RestTimed
  <1> HIDE DEF r
  <1>4. OneGap(d.gap, cfg) /\ d.idx \in 4..Len(r)
    BY <1>2, <1>3, DetectFacts
  <1> HIDE DEF d, cfg
  <1>5. GapOk(g, cfg)
    BY <1>4 DEF OneGap
  <1> DEFINE k == d.idx
             e == Rest(r, k + 1)
  <1>6. k \in 4..Len(r) /\ tr \in SimulateExit(Plan("LegacyMid", g), r[k].t, e)
    BY <1>2, <1>4
  <1> HIDE DEF k
  <1>7. /\ Timed(e)
        /\ \A n \in 1..Len(e) : /\ (k + 1) + n - 1 \in (k + 1)..Len(r)
                                /\ e[n] = r[(k + 1) + n - 1]
    <2> DEFINE j == k + 1
    <2>1. j \in Nat \ {0} /\ Timed(r)
      BY <1>3, <1>6
    <2> HIDE DEF j
    <2>2. /\ Timed(Rest(r, j))
          /\ \A n \in 1..Len(Rest(r, j)) : /\ j + n - 1 \in j..Len(r)
                                          /\ Rest(r, j)[n] = r[j + n - 1]
      BY <2>1, RestTimed
    <2> QED BY <2>2 DEF j
  <1> HIDE DEF e
  <1>8. /\ tr.side = g.side /\ tr.tin = r[k].t
        /\ \E i \in 1..Len(e) : tr.tout = e[i].t /\ Honest(tr, e[i])
    BY <1>5, <1>6, <1>7, Simulated
  <1>9. PICK i \in 1..Len(e) : tr.tout = e[i].t /\ Honest(tr, e[i])
    BY <1>8
  <1> DEFINE n == (k + 1) + i - 1
             a == from + k - 1
             b == from + n - 1
  <1>10. /\ k \in 1..Len(r) /\ n \in 1..Len(r) /\ k < n /\ k >= 4
         /\ Len(r) = Len(cs) - from + 1 /\ e[i] = r[n]
    BY <1>1, <1>3, <1>6, <1>7, <1>9
  <1>11. r[k] = cs[a] /\ e[i] = cs[b]
    BY <1>3, <1>10
  <1> HIDE DEF n
  <1>13. a \in 1..Len(cs) /\ b \in 1..Len(cs) /\ from < a /\ a < b
    BY <1>1, <1>10
  <1>12. TradeOf(tr, cs, a, b)
    BY <1>5, <1>8, <1>9, <1>11 DEF TradeOf, GapOk
  <1> QED BY <1>12, <1>13
--------------------------------------------------------------------------
\* The state of a simulation.

TradesOk(out, X) ==
    /\ IsSequence(out) /\ Len(out) <= MaxTrades
    /\ \A m \in 1..(Len(out) - 1) : Earned(out)[m] > MaxLossBp
    /\ \A m \in 1..Len(out) : HonestIn(out[m], X)

IsState(st) == st = [n |-> st.n, pnl |-> st.pnl, side |-> st.side, after |-> st.after,
                     from |-> st.from, out |-> st.out]

\* Its counters are those of the trades, which end at candles of X.
StateOk(st, X) ==
    /\ IsState(st) /\ st.n = Len(st.out) /\ st.pnl = Earned(st.out)[Len(st.out)]
    /\ TradesOk(st.out, X)

LEMMA NoTradesOk ==
    ASSUME NEW X
    PROVE  StateOk(NoTrades, X) /\ TradesOk(<<>>, X)
  <1>1. TradesOk(<<>>, X)
    BY EmptySequence, LimitsAssumption DEF TradesOk
  <1>2. Earned(<<>>)[0] = 0
    BY EmptySequence, EarnedDef
  <1>3. IsState(NoTrades) /\ NoTrades.out = <<>> /\ NoTrades.n = 0 /\ NoTrades.pnl = 0
    BY DEF IsState, NoTrades
  <1> QED BY <1>1, <1>2, <1>3, EmptySequence DEF StateOk

\* A trade is accepted within the limits.
LEMMA AcceptedOk ==
    ASSUME NEW X, NEW st, StateOk(st, X), MayTrade(st), NEW tr, HonestIn(tr, X)
    PROVE  LET s == Accepted(st, tr)
           IN  /\ StateOk(s, X) /\ s.out = Append(st.out, tr) /\ s.from = st.from /\ s.after = tr.tout
               /\ s.side = IF Pnl(tr) > 0 THEN tr.side ELSE "any"
  <1> DEFINE s == Accepted(st, tr)
             N == Len(st.out)
  <1>1. /\ s.n = st.n + 1 /\ s.pnl = st.pnl + Pnl(tr) /\ s.out = Append(st.out, tr)
        /\ s.from = st.from /\ s.after = tr.tout /\ IsState(s)
        /\ s.side = IF Pnl(tr) > 0 THEN tr.side ELSE "any"
    <2>1. IsState(st)
      BY DEF StateOk
    <2> DEFINE gain == Pnl(tr)
               side == IF Pnl(tr) > 0 THEN tr.side ELSE "any"
    <2>2. s = [st EXCEPT !.n = st.n + 1, !.pnl = st.pnl + gain, !.side = side,
                         !.after = tr.tout, !.out = Append(st.out, tr)]
      BY DEF Accepted
    <2> HIDE DEF gain, side, s
    <2>3. s = [n |-> st.n + 1, pnl |-> st.pnl + gain, side |-> side, after |-> tr.tout,
               from |-> st.from, out |-> Append(st.out, tr)]
      BY <2>1, <2>2 DEF IsState
    <2>4. /\ s.n = st.n + 1 /\ s.pnl = st.pnl + gain /\ s.out = Append(st.out, tr)
          /\ s.from = st.from /\ s.after = tr.tout /\ IsState(s) /\ s.side = side
      BY <2>3 DEF IsState
    <2> QED BY <2>4 DEF gain, side
  <1>2. /\ IsSequence(st.out) /\ N <= MaxTrades /\ st.n = N /\ st.pnl = Earned(st.out)[N]
        /\ \A m \in 1..(N - 1) : Earned(st.out)[m] > MaxLossBp
        /\ \A m \in 1..N : HonestIn(st.out[m], X)
    BY DEF StateOk, TradesOk
  <1>3. st.n < MaxTrades /\ st.pnl > MaxLossBp
    BY DEF MayTrade
  <1> HIDE DEF s, N
  <1>4. /\ IsSequence(s.out) /\ N \in Nat /\ Len(s.out) = N + 1
        /\ \A n \in 1..N : s.out[n] = st.out[n]
        /\ s.out[N + 1] = tr
    BY <1>1, <1>2, Appended DEF N
  <1>5. /\ \A n \in 0..N : Earned(s.out)[n] = Earned(st.out)[n]
        /\ Earned(s.out)[N + 1] = Earned(st.out)[N] + Pnl(tr)
    BY <1>1, <1>2, EarnedAppend DEF N
  <1>6. Len(s.out) <= MaxTrades
    BY <1>2, <1>3, <1>4, LimitsAssumption
  <1>7. ASSUME NEW m \in 1..(Len(s.out) - 1) PROVE Earned(s.out)[m] > MaxLossBp
    <2>1. m \in 1..N
      BY <1>4
    <2>2. Earned(s.out)[m] = Earned(st.out)[m]
      BY <1>4, <1>5, <2>1
    <2>3. CASE m = N
      BY <1>2, <1>3, <2>2, <2>3
    <2>4. CASE m # N
      BY <1>2, <1>4, <2>1, <2>2, <2>4
    <2> QED BY <2>3, <2>4
  <1>8. ASSUME NEW m \in 1..Len(s.out) PROVE HonestIn(s.out[m], X)
    <2>1. CASE m = N + 1
      BY <1>4, <2>1
    <2>2. CASE m # N + 1
      BY <1>2, <1>4, <2>2
    <2> QED BY <2>1, <2>2
  <1>9. StateOk(s, X)
    BY <1>1, <1>2, <1>4, <1>5, <1>6, <1>7, <1>8 DEF StateOk, TradesOk
  <1> QED BY <1>1, <1>9 DEF s

\* The other parts of the state are not about its trades.
LEMMA MovedOk ==
    ASSUME NEW X, NEW st, StateOk(st, X),
           NEW s, IsState(s), s.n = st.n, s.pnl = st.pnl, s.out = st.out
    PROVE  StateOk(s, X)
  BY DEF StateOk

\* Each trade is entered after the exit of the one before it.
Ordered(out) ==
    /\ \A m \in 1..Len(out) : out[m].tin \in Int /\ out[m].tout \in Int
    /\ \A m \in 2..Len(out) : out[m-1].tout < out[m].tin

LEMMA OrderedAppend ==
    ASSUME NEW s, IsSequence(s), Ordered(s), NEW tr, tr.tin \in Int, tr.tout \in Int,
           s # <<>> => s[Len(s)].tout < tr.tin
    PROVE  Ordered(Append(s, tr))
  <1> DEFINE t == Append(s, tr)
             N == Len(s)
  <1>1. /\ N \in Nat /\ Len(t) = N + 1 /\ t[N + 1] = tr
        /\ \A n \in 1..N : t[n] = s[n]
    BY Appended
  <1>2. /\ \A m \in 1..N : s[m].tin \in Int /\ s[m].tout \in Int
        /\ \A m \in 2..N : s[m-1].tout < s[m].tin
    BY DEF Ordered
  <1>3. N > 0 => s[N].tout < tr.tin
    BY DEF IsSequence
  <1> HIDE DEF t, N
  <1>4. ASSUME NEW m \in 1..Len(t) PROVE t[m].tin \in Int /\ t[m].tout \in Int
    <2>1. CASE m = N + 1
      BY <1>1, <2>1
    <2>2. CASE m # N + 1
      BY <1>1, <1>2, <2>2
    <2> QED BY <2>1, <2>2
  <1>5. ASSUME NEW m \in 2..Len(t) PROVE t[m-1].tout < t[m].tin
    <2>1. CASE m = N + 1
      <3>1. N > 0 /\ t[m-1] = s[N] /\ t[m] = tr
        BY <1>1, <2>1
      <3> QED BY <1>3, <3>1
    <2>2. CASE m # N + 1
      <3>1. m \in 2..N /\ t[m-1] = s[m-1] /\ t[m] = s[m]
        BY <1>1, <2>2
      <3> QED BY <1>2, <3>1
    <2> QED BY <2>1, <2>2
  <1> QED BY <1>4, <1>5 DEF Ordered, t

\* The legacy loop: the search goes on from the exit of the last trade or later.
SoloOk(v, st) ==
    /\ StateOk(st, ToSet(v.cs)) /\ Ordered(st.out) /\ st.from \in Nat \ {0}
    /\ st.out # <<>> => \A k \in st.from..Len(v.cs) : st.out[Len(st.out)].tout <= v.cs[k].t

\* A trade found by a state's search, under the candidate's candles a and b.
LEMMA FoundFacts ==
    ASSUME NEW v, Timed(v.cs), NEW st, st.from \in Nat \ {0}, NEW tr \in Found(v, st)
    PROVE  /\ MayTrade(st) /\ HonestIn(tr, ToSet(v.cs)) /\ (LongOnly => tr.side = "Long")
           /\ tr.tin \in Int /\ tr.tout \in Int
           /\ \E a, b \in 1..Len(v.cs) : /\ st.from < a /\ a < b
                                         /\ tr.tin = v.cs[a].t /\ tr.tout = v.cs[b].t
  <1>1. MayTrade(st) /\ tr \in ScanFrom(v, st.from)
    BY DEF Found
  <1>2. PICK a, b \in 1..Len(v.cs) : st.from < a /\ a < b /\ TradeOf(tr, v.cs, a, b)
    BY <1>1, Scanned
  <1>3. v.cs[a] \in Candle /\ v.cs[b] \in Candle /\ v.cs[b] \in ToSet(v.cs)
    BY DEF Timed, ToSet
  <1>4. v.cs[a].t \in Int /\ v.cs[b].t \in Int
    BY <1>3, CandleFacts
  <1>5. /\ tr.tin = v.cs[a].t /\ tr.tout = v.cs[b].t /\ Honest(tr, v.cs[b])
        /\ (LongOnly => tr.side = "Long")
    BY <1>2 DEF TradeOf
  <1> QED BY <1>1, <1>2, <1>3, <1>4, <1>5 DEF HonestIn

LEMMA SoloStep ==
    ASSUME NEW v, Timed(v.cs), NEW st, SoloOk(v, st)
    PROVE  SoloOk(v, SoloRound(v, st))
  <1> DEFINE cs == v.cs
             X  == ToSet(cs)
  <1>1. /\ StateOk(st, X) /\ Ordered(st.out) /\ st.from \in Nat \ {0}
        /\ st.out # <<>> => \A k \in st.from..Len(cs) : st.out[Len(st.out)].tout <= cs[k].t
    BY DEF SoloOk
  <1>2. CASE SoloNext(v, st) = {}
    BY <1>2 DEF SoloRound, Onward
  <1>3. CASE SoloNext(v, st) # {}
    <2>1. SoloRound(v, st) \in SoloNext(v, st)
      BY <1>3 DEF SoloRound, Onward, Only
    <2>2. PICK tr \in Found(v, st) :
              SoloRound(v, st) = IF Against(st, tr) THEN Dropped(cs, st, tr) ELSE Taken(cs, st, tr)
      BY <2>1 DEF SoloNext
    <2>3. MayTrade(st) /\ HonestIn(tr, X) /\ tr.tin \in Int /\ tr.tout \in Int
      BY <1>1, FoundFacts
    <2>4. PICK a, b \in 1..Len(cs) : st.from < a /\ a < b /\ tr.tin = cs[a].t /\ tr.tout = cs[b].t
      BY <1>1, FoundFacts
    <2>5. Len(cs) \in Nat /\ \A k \in 1..Len(cs) : cs[k].t \in Int
      BY CandleFacts DEF Timed
    <2> DEFINE i == IndexAt(cs, st.from, tr.tout)
    <2>6. i \in 1..(Len(cs) + 1) /\ (i <= Len(cs) => st.from <= i /\ cs[i].t >= tr.tout)
      BY <1>1, <2>3, IndexAtFacts
    <2> HIDE DEF i
    <2>7. CASE Against(st, tr)
      <3> DEFINE j == AtLeast(i, st.from + 1)
                 s == [st EXCEPT !.from = j]
      <3>1. SoloRound(v, st) = s
        BY <2>2, <2>7 DEF Dropped, i
      <3>2. j \in Nat \ {0} /\ j >= st.from
        BY <1>1, <2>5, <2>6 DEF AtLeast
      <3> HIDE DEF j
      <3>3. StateOk(s, X) /\ s.from = j /\ s.out = st.out
        <4>1. IsState(st)
          BY <1>1 DEF StateOk
        <4>2. IsState(s) /\ s.n = st.n /\ s.pnl = st.pnl /\ s.out = st.out /\ s.from = j
          BY <4>1 DEF IsState
        <4> HIDE DEF s, X
        <4> QED BY <1>1, <4>2, MovedOk
      <3> HIDE DEF s
      <3>4. st.out # <<>> => \A k \in j..Len(cs) : st.out[Len(st.out)].tout <= cs[k].t
        BY <1>1, <2>5, <3>2
      <3>5. SoloOk(v, s)
        BY <1>1, <3>2, <3>3, <3>4 DEF SoloOk
      <3> QED BY <3>1, <3>5
    <2>8. CASE ~Against(st, tr)
      <3> DEFINE u == Accepted(st, tr)
                 s == [u EXCEPT !.from = i]
      <3>1. StateOk(u, X) /\ u.out = Append(st.out, tr) /\ u.from = st.from
        BY <1>1, <2>3, AcceptedOk
      <3>2. SoloRound(v, st) = s
        BY <2>2, <2>8, <3>1 DEF Taken, i
      <3> HIDE DEF u
      <3>3. StateOk(s, X) /\ s.from = i /\ s.out = Append(st.out, tr)
        <4>1. IsState(u)
          BY <3>1 DEF StateOk
        <4>2. IsState(s) /\ s.n = u.n /\ s.pnl = u.pnl /\ s.out = u.out /\ s.from = i
          BY <4>1 DEF IsState
        <4> HIDE DEF s, X
        <4> QED BY <3>1, <4>2, MovedOk
      <3> HIDE DEF s
      <3>4. IsSequence(st.out)
        BY <1>1 DEF StateOk, TradesOk
      <3>5. ASSUME st.out # <<>> PROVE st.out[Len(st.out)].tout < tr.tin
        <4>1. st.from \in 1..Len(cs) /\ st.from \in st.from..Len(cs)
          BY <1>1, <2>4, <2>5
        <4>2. st.out[Len(st.out)].tout <= cs[st.from].t
          BY <1>1, <3>5, <4>1
        <4>3. cs[st.from].t < cs[a].t
          BY <2>4, <4>1 DEF Timed
        <4>4. st.out[Len(st.out)].tout \in Int
          <5>1. Len(st.out) \in 1..Len(st.out)
            BY <3>4, <3>5 DEF IsSequence
          <5> QED BY <1>1, <5>1 DEF Ordered
        <4> QED BY <2>4, <2>5, <4>1, <4>2, <4>3, <4>4
      <3>6. Ordered(s.out)
        BY <1>1, <2>3, <3>3, <3>4, <3>5, OrderedAppend
      <3>7. s.out[Len(s.out)] = tr
        BY <3>3, <3>4, Appended
      <3>8. ASSUME NEW k \in s.from..Len(cs) PROVE tr.tout <= cs[k].t
        <4>1. i \in 1..Len(cs) /\ k \in 1..Len(cs) /\ i <= k
          BY <2>5, <2>6, <3>3, <3>8
        <4>2. cs[i].t <= cs[k].t
          BY <2>5, <4>1 DEF Timed
        <4> QED BY <2>3, <2>5, <2>6, <4>1, <4>2
      <3>9. SoloOk(v, s)
        BY <2>6, <3>3, <3>6, <3>7, <3>8 DEF SoloOk
      <3> QED BY <3>2, <3>9
    <2> QED BY <2>7, <2>8
  <1> QED BY <1>2, <1>3

LEMMA SoloRoundsOk ==
    ASSUME NEW v, Timed(v.cs)
    PROVE  \A n \in 0..Len(v.cs) : SoloOk(v, SoloRounds(v)[n])
  <1> DEFINE N == Len(v.cs)
             r == SoloRounds(v)
             S == {n \in 0..N : SoloOk(v, r[n])}
  <1>1. N \in Nat
    BY DEF Timed
  <1>2. r[0] = NoTrades /\ \A n \in 1..N : r[n] = SoloRound(v, r[n-1])
    BY <1>1, SoloRoundsDef
  <1>3. SoloOk(v, NoTrades)
    <2>1. NoTrades.out = <<>> /\ NoTrades.from = 1
      BY DEF NoTrades
    <2>2. Ordered(<<>>)
      BY DEF Ordered
    <2> QED BY <2>1, <2>2, NoTradesOk DEF SoloOk
  <1> HIDE DEF r, N
  <1>4. 0 \in S /\ \A n \in 1..N : n - 1 \in S => n \in S
    BY <1>1, <1>2, <1>3, SoloStep
  <1> HIDE DEF S
  <1>5. \A n \in 0..N : n \in S
    BY <1>1, <1>4, Induction
  <1> QED BY <1>5 DEF S, r, N

LEMMA SoloFacts ==
    ASSUME NEW v, Timed(v.cs)
    PROVE  TradesOk(Solo(v), ToSet(v.cs)) /\ Ordered(Solo(v))
  <1>1. Len(v.cs) \in 0..Len(v.cs)
    BY DEF Timed
  <1>2. SoloOk(v, SoloRounds(v)[Len(v.cs)])
    BY <1>1, SoloRoundsOk
  <1> QED BY <1>2 DEF SoloOk, StateOk, Solo
--------------------------------------------------------------------------
\* The legacy day.

LEMMA FromTimed ==
    ASSUME NEW cs, Timed(cs), NEW t \in Int
    PROVE  Timed(From(cs, t)) /\ ToSet(From(cs, t)) \subseteq ToSet(cs)
  <1> DEFINE i == IndexAt(cs, 1, t)
             r == From(cs, t)
  <1>1. i \in Nat \ {0} /\ Len(cs) \in Nat /\ DOMAIN cs = 1..Len(cs)
    <2>1. i \in 1..(Len(cs) + 1)
      BY IndexAtFacts
    <2> HIDE DEF i
    <2> QED BY <2>1 DEF Timed
  <1> HIDE DEF i
  <1>2. /\ Timed(r)
        /\ \A n \in 1..Len(r) : i + n - 1 \in i..Len(cs) /\ r[n] = cs[i + n - 1]
    BY <1>1, RestTimed DEF From, i
  <1> HIDE DEF r
  <1>3. ASSUME NEW x \in ToSet(r) PROVE x \in ToSet(cs)
    <2>1. PICK n \in 1..Len(r) : x = r[n]
      BY <1>2 DEF ToSet, Timed
    <2>2. i + n - 1 \in 1..Len(cs) /\ x = cs[i + n - 1]
      BY <1>1, <1>2, <2>1
    <2> QED BY <1>1, <2>2 DEF ToSet
  <1> QED BY <1>2, <1>3 DEF r

LEMMA TradesMono ==
    ASSUME NEW out, NEW X, NEW Y, TradesOk(out, X), X \subseteq Y
    PROVE  TradesOk(out, Y)
  BY DEF TradesOk, HonestIn

LEMMA StageFacts ==
    ASSUME NEW s \in DOMAIN Stages
    PROVE  Stages[s] \in Nat /\ Stages[s] % Width = 0
  BY StagesAssumption

LEMMA ViewFacts ==
    ASSUME NEW cs, Timed(cs), NEW t \in Int, NEW v \in View(cs, t)
    PROVE  v.cs = From(cs, t) /\ Timed(v.cs) /\ ToSet(v.cs) \subseteq ToSet(cs)
  <1>1. v.cs = From(cs, t)
    BY DEF View, Prepared
  <1> QED BY <1>1, FromTimed

LEMMA LegacyFacts ==
    ASSUME NEW ms \in Day
    PROVE  TradesOk(Legacy(ms), ToSet(Rows(ms)))
  <1> DEFINE cs == Rows(ms)
             runs == LegacyRuns(cs)
             X == ToSet(cs)
  <1>1. Timed(cs)
    BY RowsTimed
  <1> HIDE DEF cs
  <1>2. ASSUME NEW s \in DOMAIN Stages PROVE TradesOk(LegacyDay(cs, Stages[s]), X)
    <2> DEFINE t == Stages[s]
               v == Only(View(cs, t))
    <2>1. t \in Int
      BY StageFacts
    <2>2. CASE View(cs, t) = {}
      BY <2>2, NoTradesOk DEF LegacyDay
    <2>3. CASE View(cs, t) # {}
      <3>1. v \in View(cs, t) /\ LegacyDay(cs, t) = Solo(v)
        BY <2>3 DEF LegacyDay, Only
      <3> HIDE DEF v, t
      <3>2. Timed(v.cs) /\ ToSet(v.cs) \subseteq X
        BY <1>1, <2>1, <3>1, ViewFacts
      <3>3. TradesOk(Solo(v), ToSet(v.cs))
        BY <3>2, SoloFacts
      <3> HIDE DEF X
      <3>4. TradesOk(LegacyDay(cs, t), X)
        BY <3>1, <3>2, <3>3, TradesMono
      <3> QED BY <3>4 DEF t
    <2> QED BY <2>2, <2>3
  <1>3. DOMAIN runs = DOMAIN Stages /\ \A s \in DOMAIN Stages : TradesOk(runs[s], X)
    BY <1>2 DEF LegacyRuns
  <1> HIDE DEF runs, X
  <1>4. TradesOk(FirstRun(runs), X)
    <2> DEFINE entry == [s \in DOMAIN runs |-> {runs[s][n].tin : n \in DOMAIN runs[s] \cap {1}}]
               first == FirstStage(entry)
    <2>1. first \subseteq DOMAIN runs
      BY DEF FirstStage
    <2>2. FirstRun(runs) = IF first = {} THEN <<>> ELSE runs[Only(first)]
      BY DEF FirstRun
    <2> HIDE DEF first
    <2>3. CASE first = {}
      BY <2>2, <2>3, NoTradesOk
    <2>4. CASE first # {}
      <3>1. Only(first) \in first
        BY <2>4 DEF Only
      <3> QED BY <1>3, <2>1, <2>2, <2>4, <3>1
    <2> QED BY <2>3, <2>4
  <1> QED BY <1>4 DEF Legacy, LegacyStages, runs, cs, X

--------------------------------------------------------------------------
\* The parity path over all stages.

LEMMA StageFindsFacts ==
    ASSUME NEW ms \in Day, NEW s \in DOMAIN Stages, NEW st, st.after \in Int,
           NEW x \in StageFinds(ms, s, st)
    PROVE  /\ \E cfg : GapOk(x.gap, cfg)
           /\ x.t \in Int /\ Timed(x.rest) /\ ToSet(x.rest) \subseteq ToSet(Rows(ms))
  <1> DEFINE t   == Stages[s]
             agg == Aggregate(From(ms, t), Width)
             cs  == After(agg, st.after)
             cfg == Config(OpeningRange(Before(ms, t)), st.side)
             d   == DetectNext(cs, cfg)
  <1>1. t \in Nat /\ t % Width = 0 /\ t \in Int
    BY StageFacts
  <1> HIDE DEF t
  <1>2. Timed(From(ms, t)) /\ ToSet(agg) \subseteq ToSet(Rows(ms))
    BY <1>1, RowsFrom
  <1>3. Timed(agg)
    BY <1>2, AggregateTimed
  <1> HIDE DEF agg
  <1>4. Timed(cs) /\ ToSet(cs) \subseteq ToSet(agg)
    <2>1. st.after + 1 \in Int
      OBVIOUS
    <2> QED BY <1>3, <2>1, FromTimed DEF After
  <1>5. x \in StageSignal(s, cs, d)
    BY DEF StageFinds, StageDetects, t, agg
  <1> HIDE DEF cs, cfg
  <1>6. OneGap(d.gap, cfg) /\ (d.gap # {} => d.idx \in 4..Len(cs))
    BY <1>4, DetectFacts
  <1> HIDE DEF d
  <1>7. PICK g \in d.gap : x = [stage |-> s, gap |-> g, t |-> cs[d.idx].t, rest |-> Rest(cs, d.idx + 1)]
    BY <1>5 DEF StageSignal
  <1> DEFINE k == d.idx
             j == k + 1
             e == Rest(cs, j)
  <1>8. k \in 1..Len(cs) /\ j \in Nat \ {0}
    BY <1>6, <1>7
  <1>9. GapOk(x.gap, cfg) /\ x.t = cs[k].t /\ x.rest = e
    BY <1>6, <1>7 DEF OneGap
  <1> HIDE DEF k, j
  <1>10. x.t \in Int
    BY <1>4, <1>8, <1>9, CandleFacts DEF Timed
  <1>11. /\ Timed(e)
         /\ \A n \in 1..Len(e) : j + n - 1 \in j..Len(cs) /\ e[n] = cs[j + n - 1]
    BY <1>4, <1>8, RestTimed
  <1> HIDE DEF e
  <1>12. ToSet(e) \subseteq ToSet(cs)
    <2> SUFFICES ASSUME NEW y \in ToSet(e) PROVE y \in ToSet(cs)
      OBVIOUS
    <2>1. PICK n \in 1..Len(e) : y = e[n]
      BY <1>11 DEF ToSet, Timed
    <2>2. j + n - 1 \in 1..Len(cs) /\ y = cs[j + n - 1]
      BY <1>8, <1>11, <2>1
    <2>3. DOMAIN cs = 1..Len(cs)
      BY <1>4 DEF Timed
    <2> QED BY <2>2, <2>3 DEF ToSet
  <1> QED BY <1>2, <1>4, <1>9, <1>10, <1>11, <1>12

LiveLikeOk(ms, st) == StateOk(st, ToSet(Rows(ms))) /\ st.after \in Int

LEMMA LiveLikeStep ==
    ASSUME NEW policy, NEW ms \in Day, NEW st, LiveLikeOk(ms, st)
    PROVE  LiveLikeOk(ms, LiveLikeRound(policy, ms, st))
  <1> DEFINE X == ToSet(Rows(ms))
             found == IF MayTrade(st) THEN UNION {StageFinds(ms, s, st) : s \in PreparedStages(ms)} ELSE {}
  <1>1. StateOk(st, X) /\ st.after \in Int /\ IsState(st)
    BY DEF LiveLikeOk, StateOk
  <1>2. CASE LiveLikeNext(policy, ms, st) = {}
    BY <1>2 DEF LiveLikeRound, Onward
  <1>3. CASE LiveLikeNext(policy, ms, st) # {}
    <2> DEFINE q == LiveLikeRound(policy, ms, st)
    <2>1. q \in LiveLikeNext(policy, ms, st)
      BY <1>3 DEF LiveLikeRound, Onward, Only
    <2> HIDE DEF q
    <2>2. PICK x \in Earliest(found) : q \in AfterEarliest(policy, st, x, Plan(policy, x.gap), SignalMinute(ms, x))
      BY <2>1 DEF LiveLikeNext
    <2>3. MayTrade(st) /\ \E s \in DOMAIN Stages : x \in StageFinds(ms, s, st)
      BY DEF Earliest, PreparedStages
    <2> HIDE DEF found, X
    <2>4. PICK cfg : GapOk(x.gap, cfg)
      BY <1>1, <2>3, StageFindsFacts
    <2>5. x.t \in Int /\ Timed(x.rest) /\ ToSet(x.rest) \subseteq X
      BY <1>1, <2>3, StageFindsFacts DEF X
    <2> DEFINE plan == Plan(policy, x.gap)
               minute == SignalMinute(ms, x)
    <2>6. CASE ~Fills(policy, plan, minute)
      <3> DEFINE t == AtLeast(st.after, x.t)
      <3>1. q = [st EXCEPT !.after = t]
        BY <2>2, <2>6 DEF AfterEarliest
      <3>2. t \in Int
        BY <1>1, <2>5 DEF AtLeast
      <3> HIDE DEF t
      <3>3. IsState(q) /\ q.n = st.n /\ q.pnl = st.pnl /\ q.out = st.out /\ q.after = t
        BY <1>1, <3>1 DEF IsState
      <3>4. StateOk(q, X)
        BY <1>1, <3>3, MovedOk
      <3> QED BY <3>2, <3>3, <3>4 DEF LiveLikeOk, X, q
    <2>7. CASE Fills(policy, plan, minute)
      <3>1. PICK tr \in SimulateExit(plan, minute.t, x.rest) : q = Accepted(st, tr)
        BY <2>2, <2>7 DEF AfterEarliest
      <3>2. PICK i \in 1..Len(x.rest) : tr.tout = x.rest[i].t /\ Honest(tr, x.rest[i])
        BY <2>4, <2>5, <3>1, Simulated
      <3>3. x.rest[i] \in ToSet(x.rest) /\ x.rest[i] \in Candle
        BY <2>5, <3>2 DEF Timed, ToSet
      <3>4. HonestIn(tr, X) /\ tr.tout \in Int
        BY <2>5, <3>2, <3>3, CandleFacts DEF HonestIn
      <3>5. StateOk(q, X) /\ q.after = tr.tout
        BY <1>1, <2>3, <3>1, <3>4, AcceptedOk
      <3> QED BY <3>4, <3>5 DEF LiveLikeOk, X, q
    <2> QED BY <2>6, <2>7
  <1> QED BY <1>2, <1>3

LEMMA PassiveFacts ==
    ASSUME NEW ms \in Day
    PROVE  TradesOk(Passive(ms), ToSet(Rows(ms)))
  <1> DEFINE N == Len(ms)
             r == LiveLikeRounds("Passive", ms)
             S == {n \in 0..N : LiveLikeOk(ms, r[n])}
  <1>1. N \in Nat
    BY DEF Day
  <1>2. r[0] = NoTrades /\ \A n \in 1..N : r[n] = LiveLikeRound("Passive", ms, r[n-1])
    BY <1>1, LiveLikeRoundsDef
  <1>3. LiveLikeOk(ms, NoTrades)
    <2>1. NoTrades.after = -1
      BY DEF NoTrades
    <2> QED BY <2>1, NoTradesOk DEF LiveLikeOk
  <1> HIDE DEF r, N
  <1>4. 0 \in S /\ \A n \in 1..N : n - 1 \in S => n \in S
    BY <1>1, <1>2, <1>3, LiveLikeStep
  <1> HIDE DEF S
  <1>5. \A n \in 0..N : n \in S
    BY <1>1, <1>4, Induction
  <1>6. LiveLikeOk(ms, r[N])
    BY <1>1, <1>5 DEF S
  <1>7. Passive(ms) = r[N].out
    BY DEF Passive, LiveLikeDay, r, N
  <1> QED BY <1>6, <1>7 DEF LiveLikeOk, StateOk

--------------------------------------------------------------------------

\* No path trades on after the number or the losses of a day are used up: the counters a
\* simulation compares with the limits are those of the trades it has made (accept_trade).
THEOREM LimitsAreKept == Spec => []LimitsKept
<1>1. DayInv => LimitsKept
  <2> SUFFICES ASSUME DayInv PROVE LimitsKept
    OBVIOUS
  <2>1. day[1] \in Day
    BY DEF DayInv
  <2>2. \E X : TradesOk(Legacy(day[1]), X)
    BY <2>1, LegacyFacts
  <2>3. \E X : TradesOk(Passive(day[1]), X)
    BY <2>1, PassiveFacts
  <2> QED BY <2>2, <2>3 DEF LimitsKept, TradesOk
<1> QED BY <1>1, DayInvariant, PTL

\* A simulated stop is a price of the candle it is filled by, and a stop that was moved
\* does not lose unless the candle opened beyond it (simulate_exit).
THEOREM StopsAreHonest == Spec => []HonestStops
<1>1. DayInv => HonestStops
  <2> SUFFICES ASSUME DayInv PROVE HonestStops
    OBVIOUS
  <2> DEFINE rows == Rows(day[1])
             X    == ToSet(rows)
             At(tr) == CHOOSE x \in X : x.t = tr.tout
  <2>1. day[1] \in Day
    BY DEF DayInv
  <2>2. Timed(rows)
    BY <2>1, RowsTimed
  <2>3. TradesOk(Legacy(day[1]), X) /\ TradesOk(Passive(day[1]), X)
    BY <2>1, LegacyFacts, PassiveFacts
  <2> HIDE DEF rows
  <2>4. \A x, y \in X : x.t = y.t => x = y
    <3> SUFFICES ASSUME NEW i \in 1..Len(rows), NEW j \in 1..Len(rows), rows[i].t = rows[j].t
                 PROVE  rows[i] = rows[j]
      BY <2>2 DEF Timed, ToSet
    <3>1. rows[i].t \in Nat /\ rows[j].t \in Nat
      BY <2>2, CandleFacts DEF Timed
    <3>2. ~(i < j) /\ ~(j < i)
      BY <2>2, <3>1 DEF Timed
    <3>3. i = j
      BY <2>2, <3>2 DEF Timed
    <3> QED BY <3>3
  <2> HIDE DEF X
  <2>5. ASSUME NEW tr, HonestIn(tr, X) PROVE Honest(tr, At(tr))
    <3>1. PICK c \in X : tr.tout = c.t /\ Honest(tr, c)
      BY <2>5 DEF HonestIn
    <3>2. At(tr) \in X /\ At(tr).t = tr.tout
      BY <3>1
    <3>3. At(tr) = c
      BY <2>4, <3>1, <3>2
    <3> QED BY <3>1, <3>3
  <2>6. ASSUME NEW out, TradesOk(out, X), NEW tr \in ToSet(out) PROVE HonestIn(tr, X)
    <3>1. DOMAIN out = 1..Len(out)
      BY <2>6 DEF TradesOk, IsSequence
    <3>2. PICK i \in 1..Len(out) : tr = out[i]
      BY <2>6, <3>1 DEF ToSet
    <3> QED BY <2>6, <3>2 DEF TradesOk
  <2>7. ASSUME NEW tr \in ToSet(Legacy(day[1])) \cup ToSet(Passive(day[1])) PROVE Honest(tr, At(tr))
    BY <2>3, <2>5, <2>6
  <2> QED BY <2>7 DEF HonestStops, Honest, HonestEnd, X, rows
<1> QED BY <1>1, DayInvariant, PTL
--------------------------------------------------------------------------
\* Two codes under one lock.

\* The trades of the two codes, without the codes.
Bare(out) == [n \in 1..Len(out) |-> out[n].trade]

LEMMA BareAppend ==
    ASSUME NEW out, IsSequence(out), NEW x
    PROVE  /\ IsSequence(Bare(out)) /\ Len(Bare(out)) = Len(out)
           /\ Bare(Append(out, x)) = Append(Bare(out), x.trade)
  <1> DEFINE t == Append(out, x)
             a == Bare(out)
             b == Bare(t)
             c == Append(a, x.trade)
             T == {out[n].trade : n \in 1..Len(out)} \cup {x.trade}
  <1>1. /\ Len(out) \in Nat /\ Len(t) = Len(out) + 1 /\ t[Len(out) + 1] = x
        /\ \A n \in 1..Len(out) : t[n] = out[n]
    BY Appended
  <1> HIDE DEF t
  <1>2. a \in Seq(T) /\ Len(a) = Len(out) /\ \A n \in 1..Len(out) : a[n] = out[n].trade
    BY <1>1 DEF Bare
  <1>3. /\ b \in Seq(T) /\ Len(b) = Len(out) + 1 /\ b[Len(out) + 1] = x.trade
        /\ \A n \in 1..Len(out) : b[n] = out[n].trade
    BY <1>1 DEF Bare
  <1> HIDE DEF a, b
  <1>4. IsSequence(a)
    BY <1>2 DEF IsSequence, ToSet
  <1>5. x.trade \in T
    OBVIOUS
  <1> HIDE DEF T
  <1>6. /\ c \in Seq(T) /\ Len(c) = Len(out) + 1 /\ c[Len(out) + 1] = x.trade
        /\ \A n \in 1..Len(out) : c[n] = a[n]
    BY <1>2, <1>5, AppendProperties
  <1> HIDE DEF c
  <1>7. \A n \in 1..Len(b) : b[n] = c[n]
    BY <1>1, <1>2, <1>3, <1>6
  <1>8. b = c
    BY <1>3, <1>6, <1>7, SeqEqual
  <1> QED BY <1>2, <1>4, <1>8 DEF a, b, c, t

SearchState(st) == IsState(st) /\ st.from \in Nat \ {0}

\* The lock was last released by the last trade, and each code searches from a candle.
LockedOk(s) ==
    /\ s = [st |-> s.st, unlock |-> s.unlock, out |-> s.out]
    /\ \A k \in 1..2 : SearchState(s.st[k])
    /\ s.unlock \in Int /\ IsSequence(s.out) /\ Ordered(Bare(s.out))
    /\ s.out # <<>> => s.out[Len(s.out)].trade.tout = s.unlock

LEMMA MovedState ==
    ASSUME NEW st, IsState(st), NEW x \in Nat \ {0}
    PROVE  SearchState([st EXCEPT !.from = x])
  BY DEF IsState, SearchState

LEMMA SyncedFacts ==
    ASSUME NEW cs, Timed(cs), NEW st, SearchState(st), NEW unlock \in Int
    PROVE  LET s == Synced(cs, st, unlock)
           IN  SearchState(s) /\ \A k \in 1..Len(cs) : s.from <= k => unlock < cs[k].t
  <1> DEFINE i == IndexAt(cs, 1, unlock + 1)
             j == AtLeast(st.from, i)
             s == [st EXCEPT !.from = j]
  <1>1. unlock + 1 \in Int
    OBVIOUS
  <1>2. i \in 1..(Len(cs) + 1) /\ (i <= Len(cs) => cs[i].t >= unlock + 1)
    <2> DEFINE t == unlock + 1
    <2>1. t \in Int
      BY <1>1
    <2>2. i = IndexAt(cs, 1, t)
      OBVIOUS
    <2> HIDE DEF t, i
    <2> DEFINE one == 1
    <2>3. one \in Nat \ {0} /\ i = IndexAt(cs, one, t)
      BY <2>2
    <2> HIDE DEF one
    <2>4. /\ IndexAt(cs, one, t) \in 1..(Len(cs) + 1)
          /\ IndexAt(cs, one, t) <= Len(cs) => cs[IndexAt(cs, one, t)].t >= t
      BY <2>1, <2>3, IndexAtFacts
    <2> QED BY <2>3, <2>4 DEF t
  <1>3. Len(cs) \in Nat /\ \A k \in 1..Len(cs) : cs[k].t \in Int
    BY CandleFacts DEF Timed
  <1>4. Synced(cs, st, unlock) = s
    BY DEF Synced
  <1> HIDE DEF i
  <1>5. j \in Nat \ {0} /\ j >= i
    BY <1>2, <1>3 DEF AtLeast, SearchState
  <1> HIDE DEF j
  <1>6. SearchState(s) /\ s.from = j
    BY <1>5, MovedState DEF SearchState, IsState
  <1> HIDE DEF s
  <1>7. ASSUME NEW k \in 1..Len(cs), j <= k PROVE unlock < cs[k].t
    <2>1. i \in 1..Len(cs) /\ i <= k
      BY <1>2, <1>3, <1>5, <1>7
    <2>2. cs[i].t <= cs[k].t
      BY <1>3, <2>1 DEF Timed
    <2> QED BY <1>2, <1>3, <2>1, <2>2
  <1> QED BY <1>4, <1>6, <1>7

LEMMA AcceptedState ==
    ASSUME NEW st, IsState(st), NEW tr
    PROVE  IsState(Accepted(st, tr)) /\ Accepted(st, tr).from = st.from
  <1> DEFINE gain == Pnl(tr)
             side == IF Pnl(tr) > 0 THEN tr.side ELSE "any"
             u    == Accepted(st, tr)
  <1>1. u = [st EXCEPT !.n = st.n + 1, !.pnl = st.pnl + gain, !.side = side,
                       !.after = tr.tout, !.out = Append(st.out, tr)]
    BY DEF Accepted
  <1> HIDE DEF gain, side, u
  <1>2. u = [n |-> st.n + 1, pnl |-> st.pnl + gain, side |-> side, after |-> tr.tout,
             from |-> st.from, out |-> Append(st.out, tr)]
    BY <1>1 DEF IsState
  <1>3. IsState(u) /\ u.from = st.from
    BY <1>2 DEF IsState
  <1> QED BY <1>3 DEF u

LEMMA TakenState ==
    ASSUME NEW cs, Timed(cs), NEW st, SearchState(st), NEW tr, tr.tout \in Int
    PROVE  SearchState(Taken(cs, st, tr)) /\ SearchState(Dropped(cs, st, tr))
  <1> DEFINE u == Accepted(st, tr)
             i == IndexAt(cs, st.from, tr.tout)
             j == AtLeast(i, st.from + 1)
  <1>1. st.from \in Nat \ {0} /\ IsState(st) /\ Len(cs) \in Nat
    BY DEF SearchState, Timed
  <1>2. i \in 1..(Len(cs) + 1)
    BY <1>1, IndexAtFacts
  <1>3. IsState(u) /\ u.from = st.from
    BY <1>1, AcceptedState
  <1>4. Taken(cs, st, tr) = [u EXCEPT !.from = i]
    BY <1>3 DEF Taken
  <1>5. Dropped(cs, st, tr) = [st EXCEPT !.from = j]
    BY DEF Dropped
  <1> HIDE DEF u, i
  <1>6. i \in Nat \ {0} /\ j \in Nat \ {0}
    BY <1>1, <1>2 DEF AtLeast
  <1> HIDE DEF j
  <1> QED BY <1>1, <1>3, <1>4, <1>5, <1>6, MovedState

LEMMA LockedStep ==
    ASSUME NEW v, \A k \in 1..2 : Timed(v[k].cs), NEW s, LockedOk(s)
    PROVE  LockedOk(LockedRound(v, s))
  <1> DEFINE st      == [k \in 1..2 |-> Synced(v[k].cs, s.st[k], s.unlock)]
             found   == [k \in 1..2 |-> Found(v[k], st[k])]
             against == {k \in 1..2 : \E tr \in found[k] : Against(st[k], tr)}
             q       == LockedRound(v, s)
  <1>1. /\ s = [st |-> s.st, unlock |-> s.unlock, out |-> s.out]
        /\ \A k \in 1..2 : SearchState(s.st[k])
        /\ s.unlock \in Int /\ IsSequence(s.out) /\ Ordered(Bare(s.out))
        /\ s.out # <<>> => s.out[Len(s.out)].trade.tout = s.unlock
    BY DEF LockedOk
  <1>2. ASSUME NEW k \in 1..2
        PROVE  /\ SearchState(st[k])
               /\ \A n \in 1..Len(v[k].cs) : st[k].from <= n => s.unlock < v[k].cs[n].t
    <2>1. st[k] = Synced(v[k].cs, s.st[k], s.unlock)
      OBVIOUS
    <2> HIDE DEF st
    <2> DEFINE cs == v[k].cs
               x  == s.st[k]
    <2>2. Timed(cs) /\ SearchState(x)
      BY <1>1
    <2> HIDE DEF cs, x
    <2>3. LET y == Synced(cs, x, s.unlock)
          IN  SearchState(y) /\ \A n \in 1..Len(cs) : y.from <= n => s.unlock < cs[n].t
      BY <1>1, <2>2, SyncedFacts
    <2> QED BY <2>1, <2>3 DEF cs, x
  <1> HIDE DEF st
  <1>3. ASSUME NEW k \in 1..2, NEW tr \in found[k]
        PROVE  tr.tin \in Int /\ tr.tout \in Int /\ s.unlock < tr.tin
    <2> DEFINE w == v[k]
               y == st[k]
    <2>1. tr \in Found(w, y) /\ Timed(w.cs) /\ y.from \in Nat \ {0}
      BY <1>2 DEF SearchState
    <2>2. \A n \in 1..Len(w.cs) : y.from <= n => s.unlock < w.cs[n].t
      BY <1>2
    <2> HIDE DEF w, y
    <2>3. tr.tin \in Int /\ tr.tout \in Int
      BY <2>1, FoundFacts
    <2>4. PICK a, b \in 1..Len(w.cs) : y.from < a /\ tr.tin = w.cs[a].t
      BY <2>1, FoundFacts
    <2>5. y.from <= a
      BY <2>1, <2>4
    <2> QED BY <2>2, <2>3, <2>4, <2>5
  <1>4. q = IF LockedNext(v, s) = {} THEN s ELSE Only(LockedNext(v, s))
    BY DEF LockedRound, Onward
  <1>5. CASE LockedNext(v, s) = {}
    BY <1>4, <1>5
  <1>6. CASE LockedNext(v, s) # {}
    <2> HIDE DEF q
    <2>1. q \in LockedNext(v, s)
      BY <1>4, <1>6 DEF Only
    <2>2. CASE against # {}
      <3> DEFINE next == [k \in 1..2 |-> IF k \in against THEN Dropped(v[k].cs, st[k], Only(found[k])) ELSE st[k]]
      <3>1. q = [s EXCEPT !.st = next]
        BY <2>1, <2>2 DEF LockedNext, st
      <3>2. ASSUME NEW k \in 1..2 PROVE SearchState(next[k])
        <4>1. CASE k \notin against
          BY <1>2, <4>1
        <4>2. CASE k \in against
          <5> DEFINE tr == Only(found[k])
          <5>1. tr \in found[k]
            BY <4>2 DEF Only
          <5>2. Timed(v[k].cs) /\ SearchState(st[k]) /\ tr.tout \in Int
            BY <1>2, <1>3, <5>1
          <5> HIDE DEF tr
          <5>3. SearchState(Dropped(v[k].cs, st[k], tr))
            BY <5>2, TakenState
          <5> QED BY <4>2, <5>3 DEF tr
        <4> QED BY <4>1, <4>2
      <3> HIDE DEF next
      <3>3. q = [st |-> next, unlock |-> s.unlock, out |-> s.out]
        BY <1>1, <3>1
      <3>4. LockedOk(q)
        BY <1>1, <3>2, <3>3 DEF LockedOk
      <3> QED BY <3>4 DEF q
    <2>3. CASE against = {}
      <3>1. PICK x \in FirstOf(found) : q = Given(v, [s EXCEPT !.st = st], x)
        BY <2>1, <2>3 DEF LockedNext, st
      <3>2. PICK k \in 1..2 : \E tr \in found[k] : x = [code |-> k, trade |-> tr]
        BY DEF FirstOf, Entries
      <3>3. PICK tr \in found[k] : x = [code |-> k, trade |-> tr]
        BY <3>2
      <3> DEFINE next == [st EXCEPT ![k] = Taken(v[k].cs, st[k], tr)]
                 out  == Append(s.out, x)
      <3>4. q = [st |-> next, unlock |-> tr.tout, out |-> out]
        <4>1. [s EXCEPT !.st = st] = [st |-> st, unlock |-> s.unlock, out |-> s.out]
          BY <1>1
        <4>2. x.code = k /\ x.trade = tr
          BY <3>3
        <4> QED BY <3>1, <4>1, <4>2 DEF Given
      <3>5. tr.tin \in Int /\ tr.tout \in Int /\ s.unlock < tr.tin
        BY <1>3, <3>3
      <3>6. \A i \in 1..2 : SearchState(next[i])
        <4>1. Timed(v[k].cs) /\ SearchState(st[k])
          BY <1>2
        <4>2. SearchState(Taken(v[k].cs, st[k], tr))
          BY <3>5, <4>1, TakenState
        <4>3. \A i \in 1..2 : next[i] = IF i = k THEN Taken(v[k].cs, st[k], tr) ELSE st[i]
          BY DEF st
        <4> QED BY <1>2, <4>2, <4>3
      <3>7. /\ IsSequence(Bare(s.out)) /\ Len(Bare(s.out)) = Len(s.out)
            /\ Bare(out) = Append(Bare(s.out), tr)
        <4>1. x.trade = tr
          BY <3>3
        <4> QED BY <1>1, <4>1, BareAppend
      <3>8. /\ IsSequence(out) /\ Len(out) = Len(s.out) + 1 /\ out[Len(s.out) + 1] = x
            /\ Len(s.out) \in Nat
        BY <1>1, Appended
      <3>9. ASSUME Bare(s.out) # <<>> PROVE Bare(s.out)[Len(Bare(s.out))].tout < tr.tin
        <4>1. Len(s.out) \in 1..Len(s.out)
          BY <3>7, <3>8, <3>9 DEF IsSequence
        <4>2. s.out # <<>>
          BY <4>1
        <4>3. Bare(s.out)[Len(s.out)] = s.out[Len(s.out)].trade
          BY <4>1 DEF Bare
        <4> QED BY <1>1, <3>5, <3>7, <4>2, <4>3
      <3>10. Ordered(Bare(out))
        <4> DEFINE b == Bare(s.out)
        <4>1. IsSequence(b) /\ Ordered(b) /\ (b # <<>> => b[Len(b)].tout < tr.tin)
          BY <1>1, <3>7, <3>9
        <4> HIDE DEF b
        <4>2. Ordered(Append(b, tr))
          BY <3>5, <4>1, OrderedAppend
        <4> QED BY <3>7, <4>2 DEF b
      <3>11. out[Len(out)].trade.tout = tr.tout
        BY <3>3, <3>8
      <3> HIDE DEF next, out
      <3>12. LockedOk(q)
        BY <3>4, <3>5, <3>6, <3>8, <3>10, <3>11 DEF LockedOk
      <3> QED BY <3>12 DEF q
    <2> QED BY <2>2, <2>3
  <1> QED BY <1>5, <1>6

LEMMA LockedFacts ==
    ASSUME NEW v, \A k \in 1..2 : Timed(v[k].cs)
    PROVE  IsSequence(LockedTrades(v)) /\ Ordered(Bare(LockedTrades(v)))
  <1> DEFINE N == Len(v[1].cs) + Len(v[2].cs)
             r == LockedRounds(v)
             S == {n \in 0..N : LockedOk(r[n])}
  <1>1. N \in Nat
    <2>1. Timed(v[1].cs) /\ Timed(v[2].cs)
      OBVIOUS
    <2> DEFINE a == v[1].cs
               b == v[2].cs
    <2>2. a \in Seq(Candle) /\ b \in Seq(Candle)
      BY <2>1 DEF Timed
    <2> HIDE DEF a, b
    <2>3. Len(a) \in Nat /\ Len(b) \in Nat
      BY <2>2
    <2>4. Len(a) + Len(b) \in Nat
      BY <2>3
    <2> QED BY <2>4 DEF a, b
  <1>2. r[0] = Unlocked /\ \A n \in 1..N : r[n] = LockedRound(v, r[n-1])
    <2> HIDE DEF r
    <2>1. LET f == LockedRounds(v)
          IN  f[0] = Unlocked /\ \A n \in 1..(Len(v[1].cs) + Len(v[2].cs)) : f[n] = LockedRound(v, f[n-1])
      BY <1>1, LockedRoundsDef
    <2> QED BY <2>1 DEF r
  <1>3. LockedOk(Unlocked)
    <2>1. SearchState(NoTrades)
      BY DEF SearchState, IsState, NoTrades
    <2>2. Bare(<<>>) = <<>> /\ Ordered(<<>>)
      BY DEF Bare, Ordered
    <2> QED BY <2>1, <2>2, EmptySequence DEF LockedOk, Unlocked
  <1> HIDE DEF r, N
  <1>4. 0 \in S /\ \A n \in 1..N : n - 1 \in S => n \in S
    BY <1>1, <1>2, <1>3, LockedStep
  <1> HIDE DEF S
  <1>5. \A n \in 0..N : n \in S
    BY <1>1, <1>4, Induction
  <1>6. LockedOk(r[N])
    BY <1>1, <1>5 DEF S
  <1>7. LockedTrades(v) = r[N].out
    BY DEF LockedTrades, r, N
  <1> QED BY <1>6, <1>7 DEF LockedOk

\* The trades of the lock, one code or both: no two overlap.
Apart(out) == \A n \in 2..Len(out) : out[n-1].trade.tout < out[n].trade.tin

LEMMA AloneApart ==
    ASSUME NEW v, Timed(v.cs), NEW k
    PROVE  Apart(Alone(k, Solo(v)))
  <1> DEFINE s == Solo(v)
             a == Alone(k, s)
  <1>1. IsSequence(s) /\ Ordered(s)
    BY SoloFacts DEF TradesOk
  <1> HIDE DEF s
  <1>2. DOMAIN s = 1..Len(s) /\ Len(s) \in Nat
    BY <1>1 DEF IsSequence
  <1>3. Len(a) = Len(s) /\ \A n \in 1..Len(s) : a[n].trade = s[n]
    BY <1>2 DEF Alone
  <1> HIDE DEF a
  <1>4. ASSUME NEW n \in 2..Len(a) PROVE a[n-1].trade.tout < a[n].trade.tin
    <2>1. n - 1 \in 1..Len(s) /\ n \in 1..Len(s) /\ n \in 2..Len(s)
      BY <1>2, <1>3
    <2> QED BY <1>1, <1>3, <2>1 DEF Ordered
  <1> QED BY <1>4 DEF Apart, a, s

LEMMA PickedFacts ==
    ASSUME NEW ms \in Day, NEW v \in Picked(Rows(ms))
    PROVE  Timed(v.cs)
  <1> DEFINE cs == Rows(ms)
  <1>1. PICK s \in DOMAIN Stages : v \in View(cs, Stages[s])
    BY DEF Picked, FirstStage
  <1>2. Timed(cs) /\ Stages[s] \in Int
    BY RowsTimed, StageFacts
  <1> HIDE DEF cs
  <1> QED BY <1>1, <1>2, ViewFacts

\* Under the position lock the trades of the two codes follow one another: a code whose
\* search was moved past the release of the lock enters after it (sync_search_to).
THEOREM OneTradeAtATime == Spec => []OneAtATime
<1>1. DayInv => OneAtATime
  <2> SUFFICES ASSUME DayInv PROVE Apart(Locked)
    BY DEF OneAtATime, Apart
  <2> DEFINE picked == <<Picked(Rows(day[1])), Picked(Rows(day[2]))>>
             v      == [k \in 1..2 |-> Only(picked[k])]
  <2>1. Locked = LockedViews(picked)
    BY DEF Locked, LockedDay
  <2>2. \A k \in 1..2 : day[k] \in Day /\ picked[k] = Picked(Rows(day[k]))
    BY DEF DayInv
  <2> HIDE DEF picked
  <2>3. ASSUME NEW k \in 1..2, picked[k] # {} PROVE Timed(v[k].cs)
    <3>1. v[k] \in Picked(Rows(day[k])) /\ day[k] \in Day
      BY <2>2, <2>3 DEF Only
    <3> QED BY <3>1, PickedFacts
  <2>4. CASE picked[1] # {} /\ picked[2] # {}
    <3> DEFINE out == LockedTrades(v)
    <3>1. Locked = out
      BY <2>1, <2>4 DEF LockedViews
    <3>2. IsSequence(out) /\ Ordered(Bare(out))
      <4>1. \A k \in 1..2 : Timed(v[k].cs)
        BY <2>3, <2>4
      <4> HIDE DEF v
      <4> QED BY <4>1, LockedFacts
    <3> HIDE DEF out
    <3>3. /\ Len(out) \in Nat /\ Len(Bare(out)) = Len(out)
          /\ \A n \in 1..Len(out) : Bare(out)[n] = out[n].trade
      BY <3>2 DEF IsSequence, Bare
    <3>4. ASSUME NEW n \in 2..Len(out) PROVE out[n-1].trade.tout < out[n].trade.tin
      <4>1. n - 1 \in 1..Len(out) /\ n \in 1..Len(out) /\ n \in 2..Len(Bare(out))
        BY <3>3
      <4> QED BY <3>2, <3>3, <4>1 DEF Ordered
    <3> QED BY <3>1, <3>4 DEF Apart
  <2>5. CASE picked[1] # {} /\ picked[2] = {}
    <3>1. Locked = Alone(1, Solo(v[1])) /\ Timed(v[1].cs)
      BY <2>1, <2>3, <2>5 DEF LockedViews
    <3> HIDE DEF v
    <3> QED BY <3>1, AloneApart
  <2>6. CASE picked[1] = {} /\ picked[2] # {}
    <3>1. Locked = Alone(2, Solo(v[2])) /\ Timed(v[2].cs)
      BY <2>1, <2>3, <2>6 DEF LockedViews
    <3> HIDE DEF v
    <3> QED BY <3>1, AloneApart
  <2>7. CASE picked[1] = {} /\ picked[2] = {}
    <3>1. Locked = <<>>
      BY <2>1, <2>7 DEF LockedViews
    <3> QED BY <3>1 DEF Apart
  <2> QED BY <2>4, <2>5, <2>6, <2>7
<1> QED BY <1>1, DayInvariant, PTL
--------------------------------------------------------------------------
\* The parity runner with the legacy entry.  When only gaps upwards are traded, the side
\* that the parity path searches for and the side that the legacy path drops trades
\* against make no difference: there is one side.

LEMMA SearchSame ==
    ASSUME LongOnly, NEW side \in {"any", "Long"}, NEW or, NEW cs, NEW n, NEW s
    PROVE  Search(cs, n, s, Config(or, side)) = Search(cs, n, s, Config(or, "any"))
  <1>1. ASSUME NEW a, NEW b, NEW c
        PROVE  FormedGap(a, b, c, Config(or, side)) = FormedGap(a, b, c, Config(or, "any"))
    <2>1. SideOk(Config(or, side), "Long") /\ SideOk(Config(or, "any"), "Long")
      BY DEF SideOk, Config
    <2>2. Config(or, side).or = or /\ Config(or, "any").or = or
      BY DEF Config
    <2> QED BY <2>1, <2>2 DEF FormedGap
  <1> DEFINE p == Config(or, side)
             q == Config(or, "any")
  <1>2. FormedGap(cs[n-2], cs[n-1], cs[n], p) = FormedGap(cs[n-2], cs[n-1], cs[n], q)
    BY <1>1
  <1> HIDE DEF p, q
  <1>3. Search(cs, n, s, p) = Search(cs, n, s, q)
    BY <1>2 DEF Search
  <1> QED BY <1>3 DEF p, q

LEMMA DetectSame ==
    ASSUME LongOnly, NEW side \in {"any", "Long"}, NEW or, NEW cs, Timed(cs)
    PROVE  DetectNext(cs, Config(or, side)) = DetectNext(cs, Config(or, "any"))
  <1> DEFINE N == Len(cs)
             p == Config(or, side)
             q == Config(or, "any")
             a == Searched(cs, p)
             b == Searched(cs, q)
             S == {n \in 0..N : a[n] = b[n]}
  <1>1. N \in Nat
    BY DEF Timed
  <1>2. a[0] = Searching /\ \A n \in 1..N : a[n] = Search(cs, n, a[n-1], p)
    BY <1>1, SearchedDef
  <1>3. b[0] = Searching /\ \A n \in 1..N : b[n] = Search(cs, n, b[n-1], q)
    BY <1>1, SearchedDef
  <1>4. \A n, s : Search(cs, n, s, p) = Search(cs, n, s, q)
    BY SearchSame
  <1> HIDE DEF a, b, p, q, N
  <1>5. 0 \in S /\ \A n \in 1..N : n - 1 \in S => n \in S
    BY <1>1, <1>2, <1>3, <1>4
  <1> HIDE DEF S
  <1>6. \A n \in 0..N : n \in S
    BY <1>1, <1>5, Induction
  <1>7. a[N] = b[N]
    BY <1>1, <1>6 DEF S
  <1>8. DetectNext(cs, p) = DetectNext(cs, q)
    BY <1>7 DEF DetectNext, a, b, N
  <1> QED BY <1>8 DEF p, q

\* The trades of a plan made at the candle that starts the rest, and where the search goes
\* on after one: at the candle of its exit, which is behind the signal's candle.
LEMMA AfterExit ==
    ASSUME LongOnly, NEW cs, Timed(cs), NEW st, SearchState(st), st.side \in {"any", "Long"},
           NEW at \in st.from..Len(cs), NEW g, NEW cfg, GapOk(g, cfg),
           NEW tr \in SimulateExit(Plan("LegacyMid", g), cs[at].t, Rest(cs, at + 1))
    PROVE  /\ ~Against(st, tr)
           /\ Taken(cs, st, tr) =
                [Accepted(st, tr) EXCEPT !.from = AtLeast(IndexAt(cs, at, tr.tout), at + 1)]
  <1> DEFINE j == at + 1
             r == Rest(cs, j)
  <1>1. st.from \in Nat \ {0} /\ IsState(st) /\ Len(cs) \in Nat /\ \A k \in 1..Len(cs) : cs[k].t \in Int
    BY CandleFacts DEF SearchState, Timed
  <1>2. at \in Nat \ {0} /\ j \in Nat \ {0} /\ j > at
    BY <1>1
  <1> HIDE DEF j
  <1>3. Timed(r) /\ \A n \in 1..Len(r) : j + n - 1 \in j..Len(cs) /\ r[n] = cs[j + n - 1]
    BY <1>2, RestTimed
  <1> HIDE DEF r
  <1>4. tr \in SimulateExit(Plan("LegacyMid", g), cs[at].t, r)
    BY DEF r, j
  <1>5. tr.side = g.side /\ \E i \in 1..Len(r) : tr.tout = r[i].t
    BY <1>3, <1>4, Simulated
  <1>6. PICK i \in 1..Len(r) : tr.tout = r[i].t
    BY <1>5
  <1> DEFINE b == j + i - 1
  <1>7. b \in j..Len(cs) /\ tr.tout = cs[b].t
    BY <1>3, <1>6
  <1> HIDE DEF b
  <1>8. b \in at..Len(cs) /\ b \in st.from..Len(cs) /\ b >= j /\ b \in Int
    BY <1>1, <1>2, <1>7
  <1>9. IndexAt(cs, at, tr.tout) = b /\ IndexAt(cs, st.from, tr.tout) = b
    BY <1>1, <1>2, <1>7, <1>8, IndexAtExact
  <1>10. AtLeast(IndexAt(cs, at, tr.tout), j) = b
    BY <1>2, <1>8, <1>9 DEF AtLeast
  <1>11. Accepted(st, tr).from = st.from
    BY <1>1, AcceptedState
  <1>12. Taken(cs, st, tr) = [Accepted(st, tr) EXCEPT !.from = b]
    <2> DEFINE u == Accepted(st, tr)
    <2>1. Taken(cs, st, tr) = [u EXCEPT !.from = IndexAt(cs, u.from, tr.tout)]
      BY DEF Taken
    <2> HIDE DEF u
    <2>2. u.from = st.from
      BY <1>11 DEF u
    <2> QED BY <1>9, <2>1, <2>2 DEF u
  <1>13. ~Against(st, tr)
    BY <1>5 DEF Against, SideOk, GapOk
  <1> QED BY <1>10, <1>12, <1>13 DEF j

\* The states of the two loops, in which the search may be for gaps upwards only.
ParityOk(st) == SearchState(st) /\ st.side \in {"any", "Long"}

LEMMA SameNext ==
    ASSUME LongOnly, NEW v, Timed(v.cs), NEW st, ParityOk(st)
    PROVE  SoloNext(v, st) = ParityNext("LegacyMid", v, st)
  <1> DEFINE cs == v.cs
             r  == Rest(cs, st.from)
             d  == DetectNext(r, Config(v.or, "any"))
  <1>1. Timed(cs) /\ Len(cs) \in Nat /\ SearchState(st) /\ st.side \in {"any", "Long"} /\ st.from \in Nat \ {0}
    BY DEF ParityOk, SearchState, Timed
  <1>2. CASE ~MayTrade(st) \/ st.from > Len(cs)
    <2>1. Found(v, st) = {}
      BY <1>2 DEF Found, ScanFrom
    <2>2. SoloNext(v, st) = {}
      BY <2>1 DEF SoloNext
    <2> QED BY <1>2, <2>2 DEF ParityNext
  <1>3. CASE MayTrade(st) /\ st.from \in 1..Len(cs)
    <2> DEFINE at   == st.from + d.idx - 1
               E(g) == SimulateExit(Plan("LegacyMid", g), cs[at].t, Rest(cs, at + 1))
               A(tr) == IF Against(st, tr) THEN Dropped(cs, st, tr) ELSE Taken(cs, st, tr)
               B(tr) == [Accepted(st, tr) EXCEPT !.from = AtLeast(IndexAt(cs, at, tr.tout), at + 1)]
    <2>1. Timed(r) /\ Len(r) = Len(cs) - st.from + 1 /\ \A n \in 1..Len(r) : r[n] = cs[st.from + n - 1]
      <3> DEFINE i == st.from
      <3>1. i \in Nat \ {0} /\ i <= Len(cs)
        BY <1>1, <1>3
      <3> HIDE DEF cs, i
      <3>2. /\ Timed(Rest(cs, i))
            /\ Len(Rest(cs, i)) = IF i <= Len(cs) THEN Len(cs) - i + 1 ELSE 0
            /\ \A n \in 1..Len(Rest(cs, i)) : Rest(cs, i)[n] = cs[i + n - 1]
        BY <1>1, <3>1, RestTimed
      <3> QED BY <3>1, <3>2 DEF i
    <2>2. DetectNext(r, Config(v.or, st.side)) = d
      <3> HIDE DEF r
      <3> QED BY <1>1, <2>1, DetectSame
    <2>3. OneGap(d.gap, Config(v.or, "any")) /\ (d.gap # {} => d.idx \in 4..Len(r))
      <3> HIDE DEF r
      <3> QED BY <2>1, DetectFacts
    <2>4. ASSUME NEW g \in d.gap
          PROVE  /\ SimulateExit(Plan("LegacyMid", g), r[d.idx].t, Rest(r, d.idx + 1)) = E(g)
                 /\ AfterSignal("LegacyMid", cs, st, at, Plan("LegacyMid", g)) = {B(tr) : tr \in E(g)}
                 /\ \A tr \in E(g) : A(tr) = B(tr)
      <3> DEFINE k == d.idx
                 j == k + 1
      <3>1. k \in 4..Len(r)
        BY <2>3
      <3> HIDE DEF k
      <3>2. r[k] = cs[st.from + k - 1] /\ j \in Nat \ {0}
        BY <2>1, <3>1
      <3>3. Rest(r, j) = Rest(cs, st.from + j - 1)
        <4> HIDE DEF j
        <4> QED BY <1>1, <1>3, <3>2, RestOfRest
      <3>4. st.from + j - 1 = (st.from + k - 1) + 1
        <4>1. k \in Int /\ st.from \in Int
          BY <1>1, <3>1
        <4> HIDE DEF cs, r
        <4> QED BY <4>1
      <3>5. at = st.from + k - 1
        BY DEF k
      <3>6. at \in st.from..Len(cs)
        BY <1>1, <1>3, <2>1, <3>1, <3>5
      <3>7. Rest(r, d.idx + 1) = Rest(cs, at + 1) /\ r[d.idx] = cs[at]
        BY <3>2, <3>3, <3>4, <3>5 DEF k
      <3>8. GapOk(g, Config(v.or, "any"))
        BY <2>3 DEF OneGap
      <3> HIDE DEF r, d, cs
      <3>9. SimulateExit(Plan("LegacyMid", g), r[d.idx].t, Rest(r, d.idx + 1)) = E(g)
        BY <3>7
      <3>10. AfterSignal("LegacyMid", cs, st, at, Plan("LegacyMid", g)) = {B(tr) : tr \in E(g)}
        BY DEF AfterSignal, Fills
      <3>11. ASSUME NEW tr \in E(g) PROVE A(tr) = B(tr)
        <4> HIDE DEF at
        <4>1. ~Against(st, tr) /\ Taken(cs, st, tr) = B(tr)
          BY <1>1, <3>6, <3>8, AfterExit
        <4> QED BY <4>1
      <3> QED BY <3>9, <3>10, <3>11
    <2>5. Found(v, st) = UNION {SimulateExit(Plan("LegacyMid", g), r[d.idx].t, Rest(r, d.idx + 1)) : g \in d.gap}
      BY <1>1, <1>3 DEF Found, ScanFrom, ScanAndTrade, Candidates
    <2>6. SoloNext(v, st) = {A(tr) : tr \in Found(v, st)}
      BY DEF SoloNext
    <2>7. ParityNext("LegacyMid", v, st) =
              UNION {AfterSignal("LegacyMid", cs, st, at, Plan("LegacyMid", g)) : g \in d.gap}
      BY <1>1, <1>3, <2>2 DEF ParityNext, AfterNext
    <2> HIDE DEF at, E, A, B, d, r, cs
    <2>8. Found(v, st) = UNION {E(g) : g \in d.gap}
      BY <2>4, <2>5
    <2>9. ParityNext("LegacyMid", v, st) = UNION {{A(tr) : tr \in E(g)} : g \in d.gap}
      <3>1. \A g \in d.gap : {B(tr) : tr \in E(g)} = {A(tr) : tr \in E(g)}
        BY <2>4
      <3>2. \A g \in d.gap : AfterSignal("LegacyMid", cs, st, at, Plan("LegacyMid", g)) = {A(tr) : tr \in E(g)}
        BY <2>4, <3>1
      <3> QED BY <2>7, <3>2
    <2> QED BY <2>6, <2>8, <2>9
  <1> QED BY <1>1, <1>2, <1>3

LEMMA ParityStep ==
    ASSUME LongOnly, NEW v, Timed(v.cs), NEW st, ParityOk(st)
    PROVE  ParityRound("LegacyMid", v, st) = SoloRound(v, st) /\ ParityOk(SoloRound(v, st))
  <1>1. ParityRound("LegacyMid", v, st) = SoloRound(v, st)
    BY SameNext DEF ParityRound, SoloRound
  <1>2. CASE SoloNext(v, st) = {}
    BY <1>1, <1>2 DEF SoloRound, Onward
  <1>3. CASE SoloNext(v, st) # {}
    <2>1. SoloRound(v, st) \in SoloNext(v, st)
      BY <1>3 DEF SoloRound, Onward, Only
    <2>2. PICK tr \in Found(v, st) :
              SoloRound(v, st) = IF Against(st, tr) THEN Dropped(v.cs, st, tr) ELSE Taken(v.cs, st, tr)
      BY <2>1 DEF SoloNext
    <2>3. SearchState(st) /\ st.from \in Nat \ {0} /\ IsState(st) /\ st.side \in {"any", "Long"}
      BY DEF ParityOk, SearchState
    <2>4. tr.tout \in Int /\ tr.side = "Long"
      BY <2>3, FoundFacts
    <2>5. SearchState(Dropped(v.cs, st, tr)) /\ SearchState(Taken(v.cs, st, tr))
      BY <2>3, <2>4, TakenState
    <2>6. Dropped(v.cs, st, tr).side = st.side
      BY <2>3 DEF Dropped, IsState
    <2>7. Taken(v.cs, st, tr).side \in {"any", "Long"}
      <3> DEFINE u == Accepted(st, tr)
      <3>1. u.side \in {"any", "Long"} /\ IsState(u)
        <4>1. u.side = IF Pnl(tr) > 0 THEN tr.side ELSE "any"
          BY <2>3 DEF Accepted, IsState
        <4> QED BY <2>3, <2>4, <4>1, AcceptedState
      <3>2. Taken(v.cs, st, tr) = [u EXCEPT !.from = IndexAt(v.cs, u.from, tr.tout)]
        BY DEF Taken
      <3> HIDE DEF u
      <3> QED BY <3>1, <3>2 DEF IsState
    <2> QED BY <1>1, <2>2, <2>3, <2>5, <2>6, <2>7 DEF ParityOk
  <1> QED BY <1>2, <1>3

LEMMA SameTrades ==
    ASSUME LongOnly, NEW v, Timed(v.cs)
    PROVE  ParityTrades("LegacyMid", v) = Solo(v)
  <1> DEFINE N == Len(v.cs)
             a == ParityRounds("LegacyMid", v)
             b == SoloRounds(v)
             S == {n \in 0..N : a[n] = b[n] /\ ParityOk(b[n])}
  <1>1. N \in Nat
    BY DEF Timed
  <1>2. a[0] = NoTrades /\ \A n \in 1..N : a[n] = ParityRound("LegacyMid", v, a[n-1])
    BY <1>1, ParityRoundsDef
  <1>3. b[0] = NoTrades /\ \A n \in 1..N : b[n] = SoloRound(v, b[n-1])
    BY <1>1, SoloRoundsDef
  <1>4. ParityOk(NoTrades)
    BY DEF NoTrades, ParityOk, SearchState, IsState
  <1> HIDE DEF a, b, N
  <1>5. 0 \in S
    BY <1>1, <1>2, <1>3, <1>4
  <1>6. ASSUME NEW n \in 1..N, n - 1 \in S PROVE n \in S
    <2> DEFINE st == b[n-1]
    <2>1. a[n-1] = st /\ ParityOk(st) /\ n \in 0..N
      BY <1>1, <1>6
    <2>2. a[n] = ParityRound("LegacyMid", v, st) /\ b[n] = SoloRound(v, st)
      BY <1>2, <1>3, <2>1
    <2> HIDE DEF st
    <2>3. ParityRound("LegacyMid", v, st) = SoloRound(v, st) /\ ParityOk(SoloRound(v, st))
      BY <2>1, ParityStep
    <2> QED BY <2>1, <2>2, <2>3
  <1> HIDE DEF S
  <1>7. \A n \in 0..N : n \in S
    BY <1>1, <1>5, <1>6, Induction
  <1>8. a[N] = b[N]
    BY <1>1, <1>7 DEF S
  <1> QED BY <1>8 DEF ParityTrades, Solo, a, b, N

\* With the legacy entry policy the parity runner finds the very trades of the legacy path,
\* when only gaps upwards are traded (the default of OrbFvgConfig, orb_fvg.rs:64).
THEOREM ParityWithLegacy ==
    ASSUME LongOnly
    PROVE  Spec => []LegacyParity
<1>1. DayInv => LegacyParity
  <2> SUFFICES ASSUME DayInv, NEW s \in DOMAIN Stages
               PROVE  ParityDay("LegacyMid", Rows(day[1]), Stages[s]) = LegacyDay(Rows(day[1]), Stages[s])
    BY DEF LegacyParity
  <2> DEFINE cs == Rows(day[1])
             t  == Stages[s]
             v  == Only(View(cs, t))
  <2>1. day[1] \in Day
    BY DEF DayInv
  <2>2. Timed(cs) /\ t \in Int
    BY <2>1, RowsTimed, StageFacts
  <2> HIDE DEF cs, t
  <2>3. CASE View(cs, t) = {}
    BY <2>3 DEF ParityDay, LegacyDay, cs, t
  <2>4. CASE View(cs, t) # {}
    <3>1. v \in View(cs, t)
      BY <2>4 DEF Only
    <3>2. ParityDay("LegacyMid", cs, t) = ParityTrades("LegacyMid", v) /\ LegacyDay(cs, t) = Solo(v)
      BY <2>4 DEF ParityDay, LegacyDay
    <3> HIDE DEF v
    <3>3. Timed(v.cs)
      BY <2>2, <3>1, ViewFacts
    <3>4. ParityTrades("LegacyMid", v) = Solo(v)
      BY <3>3, SameTrades
    <3> QED BY <3>2, <3>4 DEF cs, t
  <2> QED BY <2>3, <2>4
<1> QED BY <1>1, DayInvariant, PTL
--------------------------------------------------------------------------
\* Earlier and later.  p is what the candles c were at the time T.

Early(p, c, T) ==
    /\ Timed(p) /\ Timed(c) /\ Len(p) <= Len(c)
    /\ \A n \in 1..Len(p) : p[n] = c[n] /\ p[n].t < T
    /\ \A n \in 1..Len(c) : n > Len(p) => c[n].t >= T

LEMMA TimedFacts ==
    ASSUME NEW cs, Timed(cs)
    PROVE  /\ cs \in Seq(Candle) /\ Len(cs) \in Nat /\ DOMAIN cs = 1..Len(cs)
           /\ \A n \in 1..Len(cs) : cs[n] \in Candle /\ cs[n].t \in Nat
           /\ \A m, n \in 1..Len(cs) : m <= n => cs[m].t <= cs[n].t
  <1>1. cs \in Seq(Candle) /\ Len(cs) \in Nat /\ DOMAIN cs = 1..Len(cs)
    BY DEF Timed
  <1>2. \A n \in 1..Len(cs) : cs[n] \in Candle /\ cs[n].t \in Nat
    BY <1>1, CandleFacts
  <1>3. ASSUME NEW m \in 1..Len(cs), NEW n \in 1..Len(cs), m <= n PROVE cs[m].t <= cs[n].t
    <2>1. CASE m = n
      BY <1>2, <2>1
    <2>2. CASE m < n
      BY <1>2, <2>2 DEF Timed
    <2> QED BY <1>3, <2>1, <2>2
  <1> QED BY <1>1, <1>2, <1>3

\* What no later candle came after is what it was.
LEMMA EarlySame ==
    ASSUME NEW p, NEW c, NEW T, Early(p, c, T), Len(p) = Len(c)
    PROVE  p = c
  <1>1. p \in Seq(Candle) /\ c \in Seq(Candle) /\ \A n \in 1..Len(p) : p[n] = c[n]
    BY DEF Early, Timed
  <1> QED BY <1>1, SeqEqual

LEMMA EarlyIndex ==
    ASSUME NEW p, NEW c, NEW T \in Int, Early(p, c, T), NEW i \in Nat \ {0}, i <= Len(p) + 1, NEW t \in Int
    PROVE  /\ IndexAt(p, i, t) <= Len(p) => IndexAt(c, i, t) = IndexAt(p, i, t)
           /\ IndexAt(p, i, t) > Len(p) => IndexAt(c, i, t) > Len(p)
  <1> DEFINE x == IndexAt(p, i, t)
             y == IndexAt(c, i, t)
  <1>1. /\ Timed(p) /\ Timed(c) /\ Len(p) <= Len(c) /\ Len(p) \in Nat /\ Len(c) \in Nat
        /\ \A n \in 1..Len(p) : p[n] = c[n] /\ p[n].t \in Nat
    BY TimedFacts DEF Early
  <1>2. /\ x \in 1..(Len(p) + 1) /\ i <= x
        /\ x <= Len(p) => p[x].t >= t
        /\ \A m \in i..Len(p) : m < x => p[m].t < t
    BY <1>1, IndexAtFacts
  <1>3. /\ y \in 1..(Len(c) + 1) /\ i <= y
        /\ y <= Len(c) => c[y].t >= t
        /\ \A m \in i..Len(c) : m < y => c[m].t < t
    <2>1. i <= Len(c) + 1
      BY <1>1
    <2>2. /\ y \in 1..(Len(c) + 1)
          /\ i <= Len(c) + 1 => i <= y
          /\ y <= Len(c) => i <= y /\ c[y].t >= t
          /\ \A m \in i..Len(c) : m < y => c[m].t < t
      BY <1>1, IndexAtFacts
    <2> HIDE DEF y
    <2> QED BY <2>1, <2>2
  <1> HIDE DEF x, y
  <1>4. ASSUME x <= Len(p) PROVE y = x
    <2>1. ~(x < y)
      <3> SUFFICES ASSUME x < y PROVE FALSE
        OBVIOUS
      <3>1. x \in i..Len(c) /\ x \in 1..Len(p)
        BY <1>1, <1>2, <1>4
      <3>2. c[x].t < t /\ p[x].t >= t /\ p[x] = c[x] /\ p[x].t \in Nat
        BY <1>1, <1>2, <1>3, <1>4, <3>1
      <3> QED BY <3>2
    <2>2. ~(y < x)
      <3> SUFFICES ASSUME y < x PROVE FALSE
        OBVIOUS
      <3>1. y \in i..Len(p) /\ y \in 1..Len(p) /\ y <= Len(c)
        BY <1>1, <1>2, <1>3, <1>4
      <3>2. p[y].t < t /\ c[y].t >= t /\ p[y] = c[y] /\ p[y].t \in Nat
        BY <1>1, <1>2, <1>3, <3>1
      <3> QED BY <3>2
    <2> QED BY <1>2, <1>3, <2>1, <2>2
  <1>5. ASSUME x > Len(p) PROVE y > Len(p)
    <2> SUFFICES ASSUME y <= Len(p) PROVE FALSE
      BY <1>1, <1>3
    <2>1. y \in i..Len(p) /\ y < x /\ y \in 1..Len(p) /\ y <= Len(c)
      BY <1>1, <1>2, <1>3, <1>5
    <2>2. p[y].t < t /\ c[y].t >= t /\ p[y] = c[y] /\ p[y].t \in Nat
      BY <1>1, <1>2, <1>3, <2>1
    <2> QED BY <2>2
  <1> QED BY <1>4, <1>5 DEF x, y

LEMMA EarlyRest ==
    ASSUME NEW p, NEW c, NEW T \in Int, Early(p, c, T), NEW i \in Nat \ {0}
    PROVE  Early(Rest(p, i), Rest(c, i), T)
  <1> DEFINE a == Rest(p, i)
             b == Rest(c, i)
  <1>1. /\ Timed(p) /\ Timed(c) /\ Len(p) <= Len(c) /\ Len(p) \in Nat /\ Len(c) \in Nat
        /\ \A n \in 1..Len(p) : p[n] = c[n] /\ p[n].t < T
        /\ \A n \in 1..Len(c) : n > Len(p) => c[n].t >= T
    BY TimedFacts DEF Early
  <1>2. /\ Timed(a) /\ Len(a) = IF i <= Len(p) THEN Len(p) - i + 1 ELSE 0
        /\ \A n \in 1..Len(a) : i + n - 1 \in i..Len(p) /\ a[n] = p[i + n - 1]
    BY <1>1, RestTimed
  <1>3. /\ Timed(b) /\ Len(b) = IF i <= Len(c) THEN Len(c) - i + 1 ELSE 0
        /\ \A n \in 1..Len(b) : i + n - 1 \in i..Len(c) /\ b[n] = c[i + n - 1]
    BY <1>1, RestTimed
  <1> HIDE DEF a, b
  <1>4. Len(a) <= Len(b)
    BY <1>1, <1>2, <1>3
  <1>5. ASSUME NEW n \in 1..Len(a) PROVE a[n] = b[n] /\ a[n].t < T
    <2>1. i + n - 1 \in i..Len(p)
      BY <1>2
    <2>2. i + n - 1 \in 1..Len(p)
      BY <1>1, <2>1
    <2>3. Len(a) \in Nat /\ Len(b) \in Nat
      BY <1>2, <1>3, TimedFacts
    <2>4. n \in 1..Len(b)
      BY <1>4, <2>3
    <2> QED BY <1>1, <1>2, <1>3, <2>2, <2>4
  <1>6. ASSUME NEW n \in 1..Len(b), n > Len(a) PROVE b[n].t >= T
    <2>1. i + n - 1 \in 1..Len(c) /\ i + n - 1 > Len(p)
      BY <1>1, <1>2, <1>3, <1>6
    <2> QED BY <1>1, <1>3, <2>1
  <1> QED BY <1>2, <1>3, <1>4, <1>5, <1>6 DEF Early, a, b

LEMMA EarlyFrom ==
    ASSUME NEW p, NEW c, NEW T \in Int, Early(p, c, T), NEW t \in Int
    PROVE  /\ Early(From(p, t), From(c, t), T)
           /\ From(p, t) # <<>> => Before(p, t) = Before(c, t)
  <1> DEFINE x == IndexAt(p, 1, t)
             y == IndexAt(c, 1, t)
  <1>1. /\ Timed(p) /\ Timed(c) /\ Len(p) <= Len(c) /\ Len(p) \in Nat /\ Len(c) \in Nat
        /\ \A n \in 1..Len(p) : p[n] = c[n]
        /\ \A n \in 1..Len(c) : n > Len(p) => c[n].t >= T
    BY TimedFacts DEF Early
  <1>2. x \in 1..(Len(p) + 1) /\ y \in 1..(Len(c) + 1)
    <2> DEFINE i == 1
    <2>1. i \in Nat \ {0}
      OBVIOUS
    <2> HIDE DEF i
    <2>2. IndexAt(p, i, t) \in 1..(Len(p) + 1) /\ IndexAt(c, i, t) \in 1..(Len(c) + 1)
      BY <1>1, <2>1, IndexAtFacts
    <2> QED BY <2>2 DEF i
  <1>3. (x <= Len(p) => y = x) /\ (x > Len(p) => y > Len(p))
    <2> DEFINE i == 1
    <2>1. i \in Nat \ {0} /\ i <= Len(p) + 1
      BY <1>1
    <2> HIDE DEF i
    <2>2. /\ IndexAt(p, i, t) <= Len(p) => IndexAt(c, i, t) = IndexAt(p, i, t)
          /\ IndexAt(p, i, t) > Len(p) => IndexAt(c, i, t) > Len(p)
      BY <2>1, EarlyIndex
    <2> QED BY <2>2 DEF i
  <1>4. From(p, t) = Rest(p, x) /\ From(c, t) = Rest(c, y)
    BY DEF From
  <1>5. Before(p, t) = SubSeq(p, 1, x - 1) /\ Before(c, t) = SubSeq(c, 1, y - 1)
    BY DEF Before
  <1> HIDE DEF x, y
  <1>6. CASE x <= Len(p)
    <2>1. Early(Rest(p, x), Rest(c, x), T)
      BY <1>1, <1>2, EarlyRest
    <2> DEFINE k == x - 1
               a == SubSeq(p, 1, k)
               b == SubSeq(c, 1, k)
    <2>2. k \in Nat /\ k <= Len(p) /\ k <= Len(c)
      BY <1>1, <1>2, <1>6
    <2> HIDE DEF k
    <2>3. a = b
      <3> DEFINE i == 1
      <3>1. i \in Nat \ {0} /\ k \in Int
        BY <2>2
      <3> HIDE DEF i
      <3>2. /\ Timed(SubSeq(p, i, k)) /\ Len(SubSeq(p, i, k)) = IF i <= k THEN k - i + 1 ELSE 0
            /\ \A n \in 1..Len(SubSeq(p, i, k)) : SubSeq(p, i, k)[n] = p[i + n - 1]
        BY <1>1, <2>2, <3>1, SubTimed
      <3>3. /\ Timed(SubSeq(c, i, k)) /\ Len(SubSeq(c, i, k)) = IF i <= k THEN k - i + 1 ELSE 0
            /\ \A n \in 1..Len(SubSeq(c, i, k)) : SubSeq(c, i, k)[n] = c[i + n - 1]
        BY <1>1, <2>2, <3>1, SubTimed
      <3>4. Timed(a) /\ Len(a) = k /\ Timed(b) /\ Len(b) = k
        BY <2>2, <3>2, <3>3 DEF i
      <3>5. \A n \in 1..k : a[n] = p[n] /\ b[n] = c[n]
        BY <2>2, <3>2, <3>3, <3>4 DEF i
      <3>6. \A n \in 1..k : a[n] = b[n]
        BY <1>1, <2>2, <3>5
      <3> HIDE DEF a, b
      <3> QED BY <3>4, <3>6, SeqEqual DEF Timed
    <2> QED BY <1>3, <1>4, <1>5, <1>6, <2>1, <2>3 DEF k
  <1>7. CASE x > Len(p)
    <2> DEFINE a == Rest(p, x)
               b == Rest(c, y)
    <2>1. Timed(a) /\ Len(a) = 0
      BY <1>1, <1>2, <1>7, RestTimed
    <2>2. /\ Timed(b)
          /\ \A n \in 1..Len(b) : y + n - 1 \in y..Len(c) /\ b[n] = c[y + n - 1]
      BY <1>1, <1>2, RestTimed
    <2>3. Len(b) \in Nat
      BY <2>2, TimedFacts
    <2> HIDE DEF a, b
    <2>4. ASSUME NEW n \in 1..Len(b) PROVE b[n].t >= T
      <3>1. y + n - 1 \in 1..Len(c) /\ y + n - 1 > Len(p)
        BY <1>1, <1>2, <1>3, <1>7, <2>2, <2>3
      <3> QED BY <1>1, <2>2, <3>1
    <2>5. a = <<>>
      BY <2>1 DEF Timed
    <2>6. Early(a, b, T)
      BY <2>1, <2>2, <2>3, <2>4 DEF Early
    <2> QED BY <1>4, <2>5, <2>6 DEF a, b
  <1> QED BY <1>1, <1>2, <1>6, <1>7
--------------------------------------------------------------------------
\* A search and an exit look at no candle behind the one they end at.

\* The search over the earlier candles is that over the first of the later ones.
LEMMA EarlySearched ==
    ASSUME NEW p, NEW c, NEW T, Early(p, c, T), NEW cfg
    PROVE  \A n \in 0..Len(p) : Searched(c, cfg)[n] = Searched(p, cfg)[n]
  <1> DEFINE M == Len(p)
             a == Searched(p, cfg)
             b == Searched(c, cfg)
             S == {n \in 0..M : b[n] = a[n]}
  <1>1. M \in Nat /\ Len(c) \in Nat /\ M <= Len(c) /\ \A n \in 1..M : p[n] = c[n]
    BY TimedFacts DEF Early
  <1>2. a[0] = Searching /\ \A n \in 1..M : a[n] = Search(p, n, a[n-1], cfg)
    BY <1>1, SearchedDef
  <1>3. b[0] = Searching /\ \A n \in 1..Len(c) : b[n] = Search(c, n, b[n-1], cfg)
    BY <1>1, SearchedDef
  <1>4. ASSUME NEW n \in 1..M, NEW s PROVE Search(c, n, s, cfg) = Search(p, n, s, cfg)
    <2>1. c[n] = p[n]
      BY <1>1
    <2>2. n > 2 => c[n-1] = p[n-1] /\ c[n-2] = p[n-2]
      BY <1>1
    <2>3. n > 2 => FormedGap(c[n-2], c[n-1], c[n], cfg) = FormedGap(p[n-2], p[n-1], p[n], cfg)
      BY <2>1, <2>2
    <2> QED BY <2>1, <2>3 DEF Search
  <1> HIDE DEF a, b, M
  <1>5. 0 \in S
    BY <1>1, <1>2, <1>3
  <1>6. ASSUME NEW n \in 1..M, n - 1 \in S PROVE n \in S
    <2>1. b[n-1] = a[n-1] /\ n \in 1..Len(c) /\ n \in 0..M
      BY <1>1, <1>6
    <2>2. b[n] = Search(c, n, b[n-1], cfg) /\ a[n] = Search(p, n, a[n-1], cfg)
      BY <1>2, <1>3, <2>1
    <2> QED BY <1>4, <2>1, <2>2
  <1> HIDE DEF S
  <1>7. \A n \in 0..M : n \in S
    BY <1>1, <1>5, <1>6, Induction
  <1> QED BY <1>7 DEF S, a, b, M

\* A signal found early is found later as well, and one found only later is at a later candle.
LEMMA EarlyDetect ==
    ASSUME NEW p, NEW c, NEW T, Early(p, c, T), NEW cfg
    PROVE  LET d == DetectNext(p, cfg)
               e == DetectNext(c, cfg)
           IN  /\ d.gap # {} => e = d
               /\ d.gap = {} => (e.gap = {} \/ e.idx \in (Len(p) + 1)..Len(c))
  <1> DEFINE M == Len(p)
             N == Len(c)
             a == Searched(p, cfg)
             b == Searched(c, cfg)
             d == DetectNext(p, cfg)
             e == DetectNext(c, cfg)
  <1>1. M \in Nat /\ N \in Nat /\ M <= N /\ Timed(p) /\ Timed(c)
    BY TimedFacts DEF Early
  <1>2. b[M] = a[M]
    <2>1. M \in 0..M
      BY <1>1
    <2> QED BY <2>1, EarlySearched
  <1>3. \A n \in 1..N : b[n] = Search(c, n, b[n-1], cfg)
    BY <1>1, SearchedDef
  <1>4. \A n \in 0..N : /\ b[n] = [gap |-> b[n].gap, at |-> b[n].at, idx |-> b[n].idx, over |-> b[n].over]
                        /\ SearchOk(b[n], n, cfg)
    BY <1>1, SearchedOk
  <1>5. d = IF a[M].idx = 0 THEN NoSignal ELSE [idx |-> a[M].idx, gap |-> a[M].gap]
    BY DEF DetectNext
  <1>6. e = IF b[N].idx = 0 THEN NoSignal ELSE [idx |-> b[N].idx, gap |-> b[N].gap]
    BY DEF DetectNext
  <1>7. e.gap # {} => e.idx \in 4..N
    BY <1>1, DetectFacts
  <1> HIDE DEF a, b, d, e, M, N
  <1> DEFINE L == N - M
  <1>8. L \in Nat /\ M + L = N /\ \A k \in 0..L : M + k \in 0..N
    BY <1>1
  <1>9. \A k \in 1..L : M + k \in 1..N /\ M + (k - 1) = (M + k) - 1 /\ k - 1 \in 0..L /\ M + (k - 1) \in 0..N
    BY <1>1
  <1> HIDE DEF L
  <1>10. CASE a[M].idx # 0
    <2> DEFINE S == {k \in 0..L : b[M + k] = b[M]}
    <2>1. b[M].over
      <3>1. SearchOk(b[M], M, cfg)
        <4>1. M \in 0..N
          BY <1>1
        <4> QED BY <1>4, <4>1
      <3> QED BY <1>2, <1>10, <3>1 DEF SearchOk
    <2>2. 0 \in S
      BY <1>1, <1>8
    <2>3. ASSUME NEW k \in 1..L, k - 1 \in S PROVE k \in S
      <3>1. b[M + k] = Search(c, M + k, b[M + (k - 1)], cfg)
        BY <1>3, <1>9
      <3>2. b[M + (k - 1)] = b[M]
        BY <2>3
      <3>3. Search(c, M + k, b[M], cfg) = b[M]
        BY <2>1 DEF Search
      <3>4. k \in 0..L
        BY <1>8
      <3> QED BY <3>1, <3>2, <3>3, <3>4
    <2> HIDE DEF S
    <2>4. \A k \in 0..L : k \in S
      BY <1>8, <2>2, <2>3, Induction
    <2>5. b[N] = b[M]
      BY <1>8, <2>4 DEF S
    <2>6. e = d
      BY <1>2, <1>5, <1>6, <1>10, <2>5
    <2>7. d.gap # {}
      <3>1. SearchOk(b[M], M, cfg)
        <4>1. M \in 0..N
          BY <1>1
        <4> QED BY <1>4, <4>1
      <3> QED BY <1>2, <1>5, <1>10, <3>1 DEF SearchOk
    <2> QED BY <2>6, <2>7 DEF d, e
  <1>11. CASE a[M].idx = 0
    <2> DEFINE S == {k \in 0..L : b[M + k].idx = 0 \/ b[M + k].idx > M}
    <2>1. d.gap = {}
      BY <1>5, <1>11 DEF NoSignal
    <2>2. 0 \in S
      BY <1>1, <1>2, <1>8, <1>11
    <2>3. ASSUME NEW k \in 1..L, k - 1 \in S PROVE k \in S
      <3> DEFINE x == b[M + (k - 1)]
                 n == M + k
      <3>1. b[n] = Search(c, n, x, cfg)
        BY <1>3, <1>9
      <3>2. x.idx = 0 \/ x.idx > M
        BY <2>3
      <3>3. x = [gap |-> x.gap, at |-> x.at, idx |-> x.idx, over |-> x.over]
        BY <1>4, <1>9
      <3>4. n > M
        BY <1>1, <1>8
      <3> HIDE DEF x, n
      <3>5. Search(c, n, x, cfg).idx \in {x.idx, n}
        BY <3>3 DEF Search
      <3>6. k \in 0..L
        BY <1>8
      <3> QED BY <3>1, <3>2, <3>4, <3>5, <3>6 DEF n
    <2> HIDE DEF S
    <2>4. \A k \in 0..L : k \in S
      BY <1>8, <2>2, <2>3, Induction
    <2>5. b[N].idx = 0 \/ b[N].idx > M
      BY <1>8, <2>4 DEF S
    <2>6. e.gap = {} \/ e.idx > M
      BY <1>6, <2>5 DEF NoSignal
    <2>7. e.gap = {} \/ e.idx \in (M + 1)..N
      BY <1>1, <1>7, <2>6
    <2> QED BY <2>1, <2>7 DEF d, e, M, N
  <1> QED BY <1>10, <1>11

\* A candle that is not the last one ends a trade or not whatever follows it.  Only the
\* last candle can end a trade because no candle follows, and that trade is not settled.
LEMMA EarlyManaged ==
    ASSUME NEW plan, NEW at, NEW p, NEW c, NEW n, p[n] = c[n], NEW m,
           n # Len(c)
    PROVE  \/ Managed(plan, at, c, n, m) = Managed(plan, at, p, n, m)
           \/ /\ n = Len(p)
              /\ \A tr \in Managed(plan, at, p, n, m).trade : ~Settled(tr) /\ tr.tout = p[n].t
  <1> DEFINE x    == p[n]
             good == IF plan.side = "Long" THEN x.h ELSE x.l
             bad  == IF plan.side = "Long" THEN x.l ELSE x.h
             next == UpdateBestAndTrailing(plan.side, plan.entry, Risk(plan.entry, plan.sl), good, m.pm)
             Ends(exit, why) == [pm |-> next, trade |-> {Trade(plan, at, exit, x.t, why)}]
             R(ends) == IF m.trade # {} THEN m
                        ELSE IF OpenGapBreach(plan.side, m.pm.sl, x.o) THEN Ends(x.o, GapExitReason(m.pm))
                        ELSE IF IsTpHit(plan.side, plan.tp, good) THEN Ends(plan.tp, "TakeProfit")
                        ELSE IF IsSlHit(plan.side, next.sl, bad)
                             THEN Ends(next.sl, SlExitReason(plan.side, next, plan.sl, plan.entry))
                        ELSE IF TimeStopBreached(n, next) THEN Ends(x.c, "TimeStop")
                        ELSE IF x.t >= ForceExit \/ ends THEN Ends(x.c, "EndOfDay")
                        ELSE [pm |-> next, trade |-> {}]
  <1>1. Managed(plan, at, p, n, m) = R(n = Len(p))
    BY DEF Managed
  <1>2. Managed(plan, at, c, n, m) = R(FALSE)
    BY DEF Managed
  <1>3. R(TRUE) = R(FALSE) \/ (R(TRUE) = Ends(x.c, "EndOfDay") /\ ~(x.t >= ForceExit))
    <2> HIDE DEF next, good, bad, x, Ends
    <2> QED OBVIOUS
  <1>4. ASSUME ~(x.t >= ForceExit)
        PROVE  \A tr \in Ends(x.c, "EndOfDay").trade : ~Settled(tr) /\ tr.tout = x.t
    <2> HIDE DEF next, good, bad, x
    <2>1. Ends(x.c, "EndOfDay").trade = {Trade(plan, at, x.c, x.t, "EndOfDay")}
      OBVIOUS
    <2>2. Trade(plan, at, x.c, x.t, "EndOfDay").why = "EndOfDay" /\ Trade(plan, at, x.c, x.t, "EndOfDay").tout = x.t
      BY DEF Trade
    <2> HIDE DEF Ends
    <2> QED BY <1>4, <2>1, <2>2 DEF Settled
  <1>5. CASE n = Len(p)
    <2>1. Managed(plan, at, p, n, m) = R(TRUE)
      BY <1>1, <1>5
    <2> HIDE DEF R, Ends, next, good, bad
    <2> QED BY <1>2, <1>3, <1>4, <1>5, <2>1
  <1>6. CASE n # Len(p)
    <2>1. Managed(plan, at, p, n, m) = R(FALSE)
      BY <1>1, <1>6
    <2> QED BY <1>2, <2>1
  <1> QED BY <1>5, <1>6

\* Once a trade has ended nothing changes it.
LEMMA ExitStays ==
    ASSUME NEW plan, NEW at, NEW cs, Timed(cs), NEW k \in 0..Len(cs),
           Exits(plan, at, cs)[k].trade # {}
    PROVE  Exits(plan, at, cs)[Len(cs)] = Exits(plan, at, cs)[k]
  <1> DEFINE N == Len(cs)
             m == Exits(plan, at, cs)
             L == N - k
             S == {j \in 0..L : m[k + j] = m[k]}
  <1>1. N \in Nat /\ k \in Nat /\ k <= N
    BY TimedFacts
  <1>2. \A n \in 1..N : m[n] = Managed(plan, at, cs, n, m[n-1])
    BY <1>1, ExitsDef
  <1>3. m[k].trade # {}
    OBVIOUS
  <1> HIDE DEF N, m
  <1>4. L \in Nat /\ k + L = N
    BY <1>1
  <1>5. \A j \in 1..L : k + j \in 1..N /\ (k + j) - 1 = k + (j - 1) /\ j \in 0..L
    BY <1>1
  <1> HIDE DEF L
  <1>6. 0 \in S
    BY <1>1, <1>4
  <1>7. ASSUME NEW j \in 1..L, j - 1 \in S PROVE j \in S
    <2>1. m[k + j] = Managed(plan, at, cs, k + j, m[k + (j - 1)])
      BY <1>2, <1>5
    <2>2. m[k + (j - 1)] = m[k]
      BY <1>7
    <2>3. Managed(plan, at, cs, k + j, m[k]) = m[k]
      BY <1>3 DEF Managed
    <2> QED BY <1>5, <2>1, <2>2, <2>3
  <1> HIDE DEF S
  <1>8. \A j \in 0..L : j \in S
    BY <1>4, <1>6, <1>7, Induction
  <1> QED BY <1>4, <1>8 DEF S, m, N

\* A trade that has a candle after its entry ends.
LEMMA ExitExists ==
    ASSUME NEW plan, NEW at, NEW cs, Timed(cs), cs # <<>>
    PROVE  SimulateExit(plan, at, cs) # {}
  <1> DEFINE N == Len(cs)
             m == Exits(plan, at, cs)
             x == m[N-1]
  <1>1. N \in Nat /\ N \in 1..N
    BY TimedFacts
  <1>2. m[N] = Managed(plan, at, cs, N, x)
    BY <1>1, ExitsDef
  <1> HIDE DEF x
  <1>3. Managed(plan, at, cs, N, x).trade # {}
    BY DEF Managed
  <1> QED BY <1>2, <1>3 DEF SimulateExit

LEMMA EarlyExit ==
    ASSUME NEW plan, NEW at, NEW p, NEW c, NEW T, Early(p, c, T), NEW tr \in SimulateExit(plan, at, p)
    PROVE  \/ SimulateExit(plan, at, c) = SimulateExit(plan, at, p)
           \/ ~Settled(tr) /\ tr.tout = Last(p).t
  <1> DEFINE M == Len(p)
             N == Len(c)
             a == Exits(plan, at, p)
             b == Exits(plan, at, c)
             L == M - 1
             S == {n \in 0..L : b[n] = a[n]}
  <1>1. M \in Nat /\ N \in Nat /\ M <= N /\ Timed(p) /\ Timed(c) /\ \A n \in 1..M : p[n] = c[n]
    BY TimedFacts DEF Early
  <1>2. CASE M = N
    BY <1>2, EarlySame
  <1>3. CASE M # N
    <2>1. a[0] = Entered(plan) /\ \A n \in 1..M : a[n] = Managed(plan, at, p, n, a[n-1])
      BY <1>1, ExitsDef
    <2>2. b[0] = Entered(plan) /\ \A n \in 1..N : b[n] = Managed(plan, at, c, n, b[n-1])
      BY <1>1, ExitsDef
    <2>3. tr \in a[M].trade
      BY DEF SimulateExit
    <2>4. ASSUME NEW n \in 1..M, NEW m
          PROVE  \/ Managed(plan, at, c, n, m) = Managed(plan, at, p, n, m)
                 \/ /\ n = M
                    /\ \A x \in Managed(plan, at, p, n, m).trade : ~Settled(x) /\ x.tout = p[n].t
      <3>1. p[n] = c[n] /\ n # Len(c)
        BY <1>1, <1>3
      <3>2. \/ Managed(plan, at, c, n, m) = Managed(plan, at, p, n, m)
            \/ /\ n = Len(p)
               /\ \A tr2 \in Managed(plan, at, p, n, m).trade : ~Settled(tr2) /\ tr2.tout = p[n].t
        <4> HIDE DEF M, N, a, b
        <4> QED BY ONLY <3>1, EarlyManaged
      <3> QED BY <3>2
    <2> HIDE DEF a, b, M, N
    <2>5. M > 0
      BY <1>1, <2>1, <2>3 DEF Entered
    <2>6. L \in Nat /\ \A n \in 1..L : n \in 1..M /\ n \in 1..N /\ n # M /\ n \in 0..L
      BY <1>1, <2>5
    <2>7. 0 \in S
      BY <2>1, <2>2, <2>6
    <2>8. \A n \in 1..L : n - 1 \in S => n \in S
      BY <2>1, <2>2, <2>4, <2>6
    <2> HIDE DEF S
    <2>9. \A n \in 0..L : n \in S
      BY <2>6, <2>7, <2>8, Induction
    <2>10. b[M-1] = a[M-1]
      BY <2>6, <2>9 DEF S
    <2>11. M \in 1..M /\ M \in 1..N /\ M \in 0..N
      BY <1>1, <2>5
    <2>12. CASE b[M] = a[M]
      <3>1. b[M].trade # {}
        BY <2>3, <2>12
      <3>2. b[N] = b[M]
        BY <1>1, <2>11, <3>1, ExitStays DEF b, N
      <3> QED BY <2>12, <3>2 DEF SimulateExit, a, b, M, N
    <2>13. CASE b[M] # a[M]
      <3>1. a[M] = Managed(plan, at, p, M, a[M-1]) /\ b[M] = Managed(plan, at, c, M, a[M-1])
        BY <2>1, <2>2, <2>10, <2>11
      <3>2. ~Settled(tr) /\ tr.tout = p[M].t
        BY <2>3, <2>4, <2>11, <2>13, <3>1
      <3> QED BY <3>2 DEF Last, M
    <2> QED BY <2>12, <2>13
  <1> QED BY <1>2, <1>3
--------------------------------------------------------------------------
\* The loop over the signals of one stage, in the morning and at the end of the day.

LEMMA LastRest ==
    ASSUME NEW cs, Timed(cs), NEW i \in Nat \ {0}, i <= Len(cs)
    PROVE  Rest(cs, i) # <<>> /\ Last(Rest(cs, i)) = Last(cs)
  <1>1. Len(cs) \in Nat
    BY TimedFacts
  <1>2. /\ Len(Rest(cs, i)) = Len(cs) - i + 1
        /\ \A n \in 1..Len(Rest(cs, i)) : Rest(cs, i)[n] = cs[i + n - 1]
    BY RestTimed
  <1>3. Len(Rest(cs, i)) > 0 /\ i + Len(Rest(cs, i)) - 1 = Len(cs)
    BY <1>1, <1>2
  <1>4. Len(Rest(cs, i)) \in 1..Len(Rest(cs, i))
    BY <1>1, <1>2, <1>3
  <1>5. Rest(cs, i)[Len(Rest(cs, i))] = cs[Len(cs)]
    BY <1>2, <1>3, <1>4
  <1>6. Rest(cs, i) # <<>>
    BY <1>3, EmptySequence
  <1> QED BY <1>5, <1>6 DEF Last

\* No trade without a candle after its entry, and one with a candle after it.
LEMMA NoExit ==
    ASSUME NEW plan, NEW at
    PROVE  SimulateExit(plan, at, <<>>) = {}
  <1>1. Len(<<>>) = 0 /\ Len(<<>>) \in Nat
    BY EmptySequence
  <1>2. Exits(plan, at, <<>>)[0] = Entered(plan)
    BY <1>1, ExitsDef
  <1> QED BY <1>1, <1>2 DEF SimulateExit, Entered

\* The trade of a signal that was found early.
LEMMA EarlyCandidate ==
    ASSUME NEW p, NEW c, NEW T \in Int, Early(p, c, T), NEW i \in 1..Len(p), NEW plan
    PROVE  LET x == SimulateExit(plan, p[i].t, Rest(p, i + 1))
               y == SimulateExit(plan, c[i].t, Rest(c, i + 1))
           IN  /\ i = Len(p) => x = {}
               /\ i < Len(p) => x # {} /\ y # {} /\ p[i].t < p[i + 1].t
               /\ \A tr \in x \cup y : tr.tin = p[i].t
               /\ y = x \/ \A tr \in x : ~Settled(tr) /\ tr.tout = Last(p).t
  <1> DEFINE P == Rest(p, i + 1)
             C == Rest(c, i + 1)
             at == p[i].t
             x == SimulateExit(plan, at, P)
             y == SimulateExit(plan, at, C)
  <1>1. Len(p) \in Nat /\ Len(c) \in Nat /\ Len(p) <= Len(c) /\ Timed(p) /\ Timed(c)
    BY TimedFacts DEF Early
  <1>2. c[i].t = at
    BY DEF Early
  <1>3. i + 1 \in Nat \ {0}
    BY <1>1
  <1>4. Early(P, C, T) /\ Timed(P) /\ Timed(C)
    BY <1>1, <1>3, EarlyRest, RestTimed
  <1>5. ASSUME i = Len(p) PROVE x = {}
    <2>1. Len(P) = 0
      BY <1>1, <1>3, <1>5, RestTimed
    <2>2. P = <<>>
      BY <1>4, <2>1 DEF Timed
    <2> QED BY <2>2, NoExit
  <1>6. ASSUME i < Len(p) PROVE x # {} /\ y # {} /\ at < p[i + 1].t /\ Last(P) = Last(p)
    <2>1. i + 1 <= Len(p) /\ i + 1 <= Len(c)
      BY <1>1, <1>6
    <2>2. P # <<>> /\ C # <<>> /\ Last(P) = Last(p)
      BY <1>1, <1>3, <2>1, LastRest
    <2>3. i + 1 \in 1..Len(p) /\ i < i + 1
      BY <1>1, <2>1
    <2>4. at < p[i + 1].t
      BY <1>1, <2>3 DEF Timed
    <2>5. x # {}
      BY <1>4, <2>2, ExitExists
    <2>6. y # {}
      BY <1>4, <2>2, ExitExists
    <2> QED BY <2>2, <2>4, <2>5, <2>6
  <1>7. \A tr \in x : tr.tin = at
    BY <1>4, ExitFacts DEF EndsAt
  <1>8. \A tr \in y : tr.tin = at
    BY <1>4, ExitFacts DEF EndsAt
  <1>9. \A tr \in x : y = x \/ (~Settled(tr) /\ tr.tout = Last(P).t)
    BY <1>4, EarlyExit
  <1> HIDE DEF P, C, at, x, y
  <1>10. i < Len(p) \/ i = Len(p)
    BY <1>1
  <1>11. y = x \/ \A tr \in x : ~Settled(tr) /\ tr.tout = Last(p).t
    BY <1>5, <1>6, <1>9, <1>10
  <1>12. SimulateExit(plan, c[i].t, Rest(c, i + 1)) = y /\ SimulateExit(plan, p[i].t, Rest(p, i + 1)) = x
    BY <1>2 DEF P, C, at, x, y
  <1> QED BY <1>5, <1>6, <1>7, <1>8, <1>11, <1>12 DEF at

\* What the search from a place finds early: nothing, or the later trade, or one that was
\* not settled.  What it finds only later enters no earlier than the last early candle.
Sooner(x, y, p) ==
    /\ x = {} => \A tr \in y : \A k \in 1..Len(p) : p[k].t <= tr.tin
    /\ x # {} => /\ y # {}
                 /\ \A a \in x, b \in y : a.tin = b.tin
                 /\ \A tr \in x : \E k \in 1..Len(p) : tr.tin < p[k].t
    /\ y = x \/ \A tr \in x : ~Settled(tr) /\ tr.tout = Last(p).t

LEMMA EarlyScan ==
    ASSUME NEW p, NEW c, NEW T \in Int, Early(p.cs, c.cs, T), p.or = c.or, NEW from \in Nat \ {0}
    PROVE  Sooner(ScanFrom(p, from), ScanFrom(c, from), p.cs)
  <1> DEFINE P == Rest(p.cs, from)
             C == Rest(c.cs, from)
             cfg == Config(p.or, "any")
             d == DetectNext(P, cfg)
             e == DetectNext(C, cfg)
             x == ScanFrom(p, from)
             y == ScanFrom(c, from)
  <1>1. /\ Len(p.cs) \in Nat /\ Len(c.cs) \in Nat /\ Len(p.cs) <= Len(c.cs)
        /\ Timed(p.cs) /\ Timed(c.cs)
    BY TimedFacts DEF Early
  <1>2. /\ \A k \in 1..Len(p.cs) : p.cs[k].t \in Nat /\ p.cs[k].t < T
        /\ \A k \in 1..Len(c.cs) : c.cs[k].t \in Nat /\ (k > Len(p.cs) => c.cs[k].t >= T)
        /\ \A m, n \in 1..Len(p.cs) : m <= n => p.cs[m].t <= p.cs[n].t
    BY <1>1, TimedFacts DEF Early
  <1>3. Early(P, C, T) /\ Timed(P) /\ Timed(C)
    BY <1>1, EarlyRest, RestTimed
  <1>4. CASE from > Len(p.cs)
    <2>1. x = {}
      BY <1>4 DEF ScanFrom
    <2>2. ASSUME NEW tr \in y, NEW k \in 1..Len(p.cs) PROVE p.cs[k].t <= tr.tin
      <3>1. \E a, b \in 1..Len(c.cs) : from < a /\ a < b /\ TradeOf(tr, c.cs, a, b)
        BY <1>1, <2>2, Scanned
      <3>2. PICK a \in 1..Len(c.cs) : from < a /\ tr.tin = c.cs[a].t
        BY <3>1 DEF TradeOf
      <3>3. c.cs[a].t >= T
        BY <1>1, <1>2, <1>4, <3>2
      <3> QED BY <1>2, <3>2, <3>3
    <2> HIDE DEF x, y
    <2>3. Sooner(x, y, p.cs)
      BY <2>1, <2>2 DEF Sooner
    <2> QED BY <2>3 DEF x, y
  <1>5. CASE from <= Len(p.cs)
    <2>1. x = Candidates(P, d) /\ y = Candidates(C, e)
      BY <1>1, <1>5 DEF ScanFrom, ScanAndTrade
    <2>2. /\ d.gap # {} => e = d
          /\ d.gap = {} => (e.gap = {} \/ e.idx \in (Len(P) + 1)..Len(C))
      BY <1>3, EarlyDetect
    <2>3. OneGap(d.gap, cfg) /\ (d.gap # {} => d.idx \in 4..Len(P))
      BY <1>3, DetectFacts
    <2>4. /\ Len(P) = Len(p.cs) - from + 1
          /\ \A n \in 1..Len(P) : from + n - 1 \in from..Len(p.cs) /\ P[n] = p.cs[from + n - 1]
      BY <1>1, <1>5, RestTimed
    <2>5. Len(P) = Len(p.cs) - from + 1
      BY <2>4
    <2>6. \A n \in 1..Len(P) : from + n - 1 \in from..Len(p.cs) /\ P[n] = p.cs[from + n - 1]
      BY <2>4
    <2>7. /\ Last(P) = Last(p.cs)
          /\ \A n \in 1..Len(P) : P[n].t \in Nat
          /\ \A n \in 1..Len(C) : C[n].t \in Nat /\ (n > Len(P) => C[n].t >= T)
          /\ Len(C) \in Nat
      BY <1>1, <1>3, <1>5, LastRest, TimedFacts DEF Early
    <2> HIDE DEF P, C, d, e, x, y, cfg
    <2>8. CASE d.gap = {}
      <3>1. x = {}
        BY <2>1, <2>8 DEF Candidates
      <3>2. ASSUME NEW tr \in y, NEW k \in 1..Len(p.cs) PROVE p.cs[k].t <= tr.tin
        <4>1. PICK g \in e.gap :
                  tr \in SimulateExit(Plan("LegacyMid", g), C[e.idx].t, Rest(C, e.idx + 1))
          BY <2>1, <3>2 DEF Candidates
        <4>2. e.idx \in (Len(P) + 1)..Len(C)
          BY <2>2, <2>8, <4>1
        <4>3. e.idx \in 1..Len(C) /\ e.idx > Len(P) /\ e.idx + 1 \in Nat \ {0}
          BY <1>1, <1>5, <2>5, <4>2
        <4>4. Timed(Rest(C, e.idx + 1))
          BY <1>3, <4>3, RestTimed
        <4>5. tr.tin = C[e.idx].t
          BY <4>1, <4>4, ExitFacts DEF EndsAt
        <4>6. C[e.idx].t >= T /\ C[e.idx].t \in Nat
          BY <2>7, <4>3
        <4> QED BY <1>2, <4>5, <4>6
      <3>3. Sooner(x, y, p.cs)
        BY <3>1, <3>2 DEF Sooner
      <3> QED BY <3>3 DEF x, y
    <2>9. CASE d.gap # {}
      <3>1. PICK g : d.gap = {g}
        <4>1. PICK h \in d.gap : TRUE
          BY <2>9
        <4>2. \A k \in d.gap : k = h
          BY <2>3 DEF OneGap
        <4> QED BY <4>1, <4>2
      <3> DEFINE i == d.idx
                 plan == Plan("LegacyMid", g)
      <3>2. i \in 1..Len(P) /\ i >= 1
        BY <1>1, <2>3, <2>5, <2>9
      <3>3. x = SimulateExit(plan, P[i].t, Rest(P, i + 1)) /\ y = SimulateExit(plan, C[i].t, Rest(C, i + 1))
        BY <2>1, <2>2, <2>9, <3>1 DEF Candidates
      <3> HIDE DEF i, plan
      <3>4. /\ i = Len(P) => x = {}
            /\ i < Len(P) => x # {} /\ y # {} /\ P[i].t < P[i + 1].t
            /\ \A tr \in x \cup y : tr.tin = P[i].t
            /\ y = x \/ \A tr \in x : ~Settled(tr) /\ tr.tout = Last(P).t
        <4> DEFINE X == SimulateExit(plan, P[i].t, Rest(P, i + 1))
                   Y == SimulateExit(plan, C[i].t, Rest(C, i + 1))
        <4>1. /\ i = Len(P) => X = {}
              /\ i < Len(P) => X # {} /\ Y # {} /\ P[i].t < P[i + 1].t
              /\ \A tr \in X \cup Y : tr.tin = P[i].t
              /\ Y = X \/ \A tr \in X : ~Settled(tr) /\ tr.tout = Last(P).t
          BY ONLY <1>3, <3>2, EarlyCandidate, T \in Int
        <4>2. x = X /\ y = Y
          BY <3>3
        <4> HIDE DEF X, Y
        <4> QED BY <4>1, <4>2
      <3>5. Len(P) \in Nat /\ i \in Nat /\ (i = Len(P) \/ i < Len(P))
        BY <1>1, <1>5, <2>5, <3>2
      <3>6. ASSUME x = {}, NEW tr \in y, NEW k \in 1..Len(p.cs) PROVE p.cs[k].t <= tr.tin
        <4>1. i = Len(P)
          BY <3>4, <3>6, <3>5
        <4>2. P[i] = p.cs[Len(p.cs)] /\ Len(p.cs) \in 1..Len(p.cs)
          <5>1. from + i - 1 = Len(p.cs) /\ Len(p.cs) \in 1..Len(p.cs)
            BY <1>1, <1>5, <2>5, <3>2, <4>1
          <5>2. P[i] = p.cs[from + i - 1]
            BY <2>6, <3>2
          <5> QED BY <5>1, <5>2
        <4> QED BY <1>1, <1>2, <3>4, <3>6, <4>2
      <3>7. ASSUME NEW tr \in x PROVE \E k \in 1..Len(p.cs) : tr.tin < p.cs[k].t
        <4>1. i < Len(P)
          BY <3>4, <3>7, <3>5
        <4>2. i + 1 \in 1..Len(P)
          BY <1>1, <2>5, <3>2, <4>1
        <4>3. from + (i + 1) - 1 \in 1..Len(p.cs) /\ P[i + 1] = p.cs[from + (i + 1) - 1]
          <5> DEFINE k == i + 1
          <5>1. k \in 1..Len(P)
            BY <4>2
          <5> HIDE DEF k
          <5>2. from + k - 1 \in from..Len(p.cs) /\ P[k] = p.cs[from + k - 1]
            BY <2>6, <5>1
          <5>3. from..Len(p.cs) \subseteq 1..Len(p.cs)
            BY <1>1
          <5> QED BY <5>2, <5>3 DEF k
        <4>4. tr.tin < P[i + 1].t
          BY <3>4, <3>7, <4>1
        <4> QED BY <4>3, <4>4
      <3>8. x # {} => y # {} /\ \A a \in x, b \in y : a.tin = b.tin
        <4>1. ASSUME x # {} PROVE i < Len(P)
          BY <3>4, <3>5, <4>1
        <4> QED BY <3>4, <4>1
      <3>9. Sooner(x, y, p.cs)
        BY <2>7, <3>4, <3>6, <3>7, <3>8 DEF Sooner
      <3> QED BY <3>9 DEF x, y
    <2> QED BY <2>8, <2>9
  <1> QED BY <1>1, <1>4, <1>5

--------------------------------------------------------------------------
\* Two runs of a loop over trades, the early one of which stops first.

LEMMA StandsGrow ==
    ASSUME NEW e, NEW s, IsSequence(s), NEW tr, Stands(e, s)
    PROVE  Stands(e, Append(s, tr))
  <1>1. /\ Len(s) \in Nat /\ Len(Append(s, tr)) = Len(s) + 1
        /\ DOMAIN s = 1..Len(s) /\ DOMAIN Append(s, tr) = 1..(Len(s) + 1)
        /\ \A n \in 1..Len(s) : Append(s, tr)[n] = s[n]
    BY Appended DEF IsSequence
  <1>2. ASSUME NEW n \in DOMAIN e, Settled(e[n])
        PROVE  n \in DOMAIN Append(s, tr) /\ Append(s, tr)[n] = e[n]
    <2>1. n \in DOMAIN s /\ s[n] = e[n]
      BY <1>2 DEF Stands
    <2> QED BY <1>1, <2>1
  <1> QED BY <1>2 DEF Stands

LEMMA StandsEnd ==
    ASSUME NEW s, IsSequence(s), NEW tr, ~Settled(tr)
    PROVE  Stands(Append(s, tr), s)
  <1>1. /\ Len(s) \in Nat
        /\ DOMAIN s = 1..Len(s) /\ DOMAIN Append(s, tr) = 1..(Len(s) + 1)
        /\ \A n \in 1..Len(s) : Append(s, tr)[n] = s[n]
        /\ Append(s, tr)[Len(s) + 1] = tr
    BY Appended DEF IsSequence
  <1>2. ASSUME NEW n \in DOMAIN Append(s, tr), Settled(Append(s, tr)[n])
        PROVE  n \in DOMAIN s /\ s[n] = Append(s, tr)[n]
    <2>1. n # Len(s) + 1
      BY <1>1, <1>2
    <2>2. n \in 1..Len(s)
      BY <1>1, <2>1
    <2> QED BY <1>1, <2>2
  <1> QED BY <1>2 DEF Stands

\* What a round does to the trades: nothing, or one more.
Grows(s, t) == t.out = s.out \/ \E tr : t.out = Append(s.out, tr)
\* The last round of an early run: nothing, or a trade that is not settled.
Stops(s, t) == t.out = s.out \/ \E tr : ~Settled(tr) /\ t.out = Append(s.out, tr)

\* While the runs agree either the next round of both is the same, or it is the last one of
\* the early run (D) and whatever it adds is not settled.
LEMMA TwoRuns ==
    ASSUME NEW M \in Nat, NEW N \in Nat, M <= N, NEW a, NEW b, NEW D,
           \A n \in 0..N : IsSequence(b[n].out),
           \A n \in 1..N : Grows(b[n-1], b[n]),
           a[0] = b[0],
           \A n \in 1..M : n - 1 \in D => n \in D /\ a[n] = a[n-1],
           \A n \in 1..M : a[n-1] = b[n-1] => a[n] = b[n] \/ (n \in D /\ Stops(a[n-1], a[n]))
    PROVE  Stands(a[M].out, b[N].out)
  <1> DEFINE S == {n \in 0..M : Stands(a[n].out, b[n].out) /\ (a[n] = b[n] \/ n \in D)}
  <1>1. 0 \in S
    BY DEF Stands
  <1>2. ASSUME NEW e, NEW n \in 1..N, Stands(e, b[n-1].out) PROVE Stands(e, b[n].out)
    <2>1. IsSequence(b[n-1].out)
      OBVIOUS
    <2>2. b[n].out = b[n-1].out \/ \E tr : b[n].out = Append(b[n-1].out, tr)
      BY DEF Grows
    <2> QED BY <1>2, <2>1, <2>2, StandsGrow
  <1>3. ASSUME NEW n \in 1..M, n - 1 \in S PROVE n \in S
    <2> DEFINE m == n - 1
    <2>1. m \in 0..M /\ n \in 1..N /\ n \in 0..M /\ m \in 0..N
      OBVIOUS
    <2>2. Stands(a[m].out, b[m].out) /\ (a[m] = b[m] \/ m \in D)
      BY <1>3
    <2>3. m \in D => n \in D /\ a[n] = a[m]
      OBVIOUS
    <2>4. a[m] = b[m] => a[n] = b[n] \/ (n \in D /\ Stops(a[m], a[n]))
      OBVIOUS
    <2>5. \A e : Stands(e, b[m].out) => Stands(e, b[n].out)
      BY <1>2, <2>1
    <2>6. IsSequence(b[m].out)
      BY <2>1
    <2> HIDE DEF m
    <2>7. CASE m \in D
      <3>1. n \in D /\ a[n] = a[m]
        BY <2>3, <2>7
      <3> QED BY <2>1, <2>2, <2>5, <3>1
    <2>8. CASE a[n] = b[n]
      <3>1. Stands(a[n].out, b[n].out)
        BY <2>8 DEF Stands
      <3> QED BY <2>1, <2>8, <3>1
    <2>9. CASE a[m] = b[m] /\ n \in D /\ Stops(a[m], a[n])
      <3>1. Stands(a[n].out, b[m].out)
        <4>1. CASE a[n].out = a[m].out
          BY <2>2, <4>1
        <4>2. ASSUME NEW tr, ~Settled(tr), a[n].out = Append(a[m].out, tr)
              PROVE  Stands(a[n].out, b[m].out)
          <5>1. a[n].out = Append(b[m].out, tr)
            BY <2>9, <4>2
          <5> QED BY <2>6, <4>2, <5>1, StandsEnd
        <4> QED BY <2>9, <4>1, <4>2 DEF Stops
      <3> QED BY <2>1, <2>5, <2>9, <3>1
    <2> QED BY <2>2, <2>4, <2>7, <2>8, <2>9
  <1> HIDE DEF S
  <1>4. \A n \in 0..M : n \in S
    BY <1>1, <1>3, Induction
  <1> DEFINE L == N - M
             R == {k \in 0..L : Stands(a[M].out, b[M + k].out)}
  <1>5. L \in Nat /\ M + L = N /\ M + 0 = M /\ \A k \in 1..L : M + k \in 1..N /\ (M + k) - 1 = M + (k - 1) /\ k \in 0..L
    OBVIOUS
  <1> HIDE DEF L
  <1>6. 0 \in R
    <2>1. M \in S
      BY <1>4
    <2> QED BY <1>5, <2>1 DEF S
  <1>7. ASSUME NEW k \in 1..L, k - 1 \in R PROVE k \in R
    <2>1. Stands(a[M].out, b[(M + k) - 1].out)
      BY <1>5, <1>7
    <2> DEFINE j == M + k
    <2>2. j \in 1..N
      BY <1>5
    <2> HIDE DEF j
    <2>3. Stands(a[M].out, b[j].out)
      BY <1>2, <2>1, <2>2 DEF j
    <2> QED BY <1>5, <2>3 DEF j
  <1> HIDE DEF R
  <1>8. \A k \in 0..L : k \in R
    BY <1>5, <1>6, <1>7, Induction
  <1>9. L \in R
    BY <1>5, <1>8
  <1> QED BY <1>5, <1>9 DEF R

--------------------------------------------------------------------------
\* The loop over the signals of one stage.

LEMMA EarlyRound ==
    ASSUME NEW p, NEW c, NEW T \in Int, Early(p.cs, c.cs, T), p.or = c.or, NEW st, SearchState(st)
    PROVE  \/ SoloRound(p, st) = SoloRound(c, st)
           \/ Found(p, SoloRound(p, st)) = {} /\ Stops(st, SoloRound(p, st))
  <1> DEFINE x == Found(p, st)
             y == Found(c, st)
             a == SoloRound(p, st)
             b == SoloRound(c, st)
  <1>1. Timed(p.cs) /\ Timed(c.cs) /\ Len(p.cs) \in Nat /\ Len(c.cs) \in Nat /\ Len(p.cs) <= Len(c.cs)
    BY TimedFacts DEF Early
  <1>2. st.from \in Nat \ {0} /\ IsState(st)
    BY DEF SearchState
  <1>3. y = x \/ x = {} \/ \A tr \in x : ~Settled(tr) /\ tr.tout = Last(p.cs).t
    <2>1. CASE MayTrade(st)
      <3>1. x = ScanFrom(p, st.from) /\ y = ScanFrom(c, st.from)
        BY <2>1 DEF Found
      <3>2. Sooner(ScanFrom(p, st.from), ScanFrom(c, st.from), p.cs)
        BY <1>2, EarlyScan
      <3> QED BY <3>1, <3>2 DEF Sooner
    <2>2. CASE ~MayTrade(st)
      BY <2>2 DEF Found
    <2> QED BY <2>1, <2>2
  <1>4. ASSUME NEW tr \in x
        PROVE  \E k \in 1..Len(p.cs) : /\ st.from < k /\ tr.tout = p.cs[k].t
                                       /\ IndexAt(p.cs, st.from, tr.tout) = k
                                       /\ IndexAt(c.cs, st.from, tr.tout) = k
    <2>1. PICK k \in 1..Len(p.cs) : st.from < k /\ tr.tout = p.cs[k].t
      <3>1. \E i, j \in 1..Len(p.cs) : st.from < i /\ i < j /\ tr.tout = p.cs[j].t
        BY <1>1, <1>2, FoundFacts
      <3>2. PICK j \in 1..Len(p.cs) : \E i \in 1..Len(p.cs) : st.from < i /\ i < j /\ tr.tout = p.cs[j].t
        BY <3>1
      <3> QED BY <1>1, <1>2, <3>2
    <2>2. k \in st.from..Len(p.cs) /\ k \in st.from..Len(c.cs) /\ c.cs[k] = p.cs[k]
      BY <1>1, <1>2, <2>1 DEF Early
    <2>3. IndexAt(p.cs, st.from, p.cs[k].t) = k
      BY <1>1, <1>2, <2>2, IndexAtExact
    <2>4. IndexAt(c.cs, st.from, c.cs[k].t) = k
      BY <1>1, <1>2, <2>2, IndexAtExact
    <2> QED BY <2>1, <2>2, <2>3, <2>4
  <1>5. CASE x = {}
    <2>1. SoloNext(p, st) = {}
      BY <1>5 DEF SoloNext
    <2>2. a = st
      BY <2>1 DEF SoloRound, Onward
    <2> QED BY <1>5, <2>2 DEF Stops
  <1>6. CASE y = x
    <2>1. ASSUME NEW tr \in x
          PROVE  Dropped(p.cs, st, tr) = Dropped(c.cs, st, tr) /\ Taken(p.cs, st, tr) = Taken(c.cs, st, tr)
      <3>1. IndexAt(p.cs, st.from, tr.tout) = IndexAt(c.cs, st.from, tr.tout)
        BY <1>4
      <3>2. Accepted(st, tr).from = st.from
        BY <1>2, AcceptedState
      <3> QED BY <3>1, <3>2 DEF Dropped, Taken
    <2>2. SoloNext(p, st) = SoloNext(c, st)
      <3> HIDE DEF x, y
      <3>1. SoloNext(p, st) = {IF Against(st, tr) THEN Dropped(p.cs, st, tr) ELSE Taken(p.cs, st, tr) : tr \in x}
        BY DEF SoloNext, x
      <3>2. SoloNext(c, st) = {IF Against(st, tr) THEN Dropped(c.cs, st, tr) ELSE Taken(c.cs, st, tr) : tr \in x}
        BY <1>6 DEF SoloNext, y
      <3> QED BY <2>1, <3>1, <3>2
    <2> QED BY <2>2 DEF SoloRound
  <1>7. CASE x # {} /\ \A tr \in x : ~Settled(tr) /\ tr.tout = Last(p.cs).t
    <2>1. a \in SoloNext(p, st)
      BY <1>7 DEF SoloRound, Onward, Only, SoloNext
    <2>2. PICK tr \in x : a = IF Against(st, tr) THEN Dropped(p.cs, st, tr) ELSE Taken(p.cs, st, tr)
      BY <2>1 DEF SoloNext
    <2>3. ~Settled(tr)
      BY <1>7
    <2>4. PICK k \in 1..Len(p.cs) : /\ st.from < k /\ tr.tout = p.cs[k].t
                                    /\ IndexAt(p.cs, st.from, tr.tout) = k
      BY <1>4
    <2>5. k = Len(p.cs)
      <3>1. tr.tout = p.cs[Len(p.cs)].t /\ Len(p.cs) \in 1..Len(p.cs)
        BY <1>1, <1>7, <2>4 DEF Last
      <3>2. p.cs[k].t \in Nat /\ p.cs[Len(p.cs)].t \in Nat
        BY <1>1, <2>4, <3>1, TimedFacts
      <3>3. k < Len(p.cs) => p.cs[k].t < p.cs[Len(p.cs)].t
        BY <1>1, <3>1 DEF Timed
      <3>4. ~(k < Len(p.cs))
        BY <2>4, <3>1, <3>2, <3>3
      <3> QED BY <1>1, <3>4
    <2> HIDE DEF a, x
    <2>6. a.from = Len(p.cs) /\ Stops(st, a)
      <3>1. CASE Against(st, tr)
        <4>1. a = [st EXCEPT !.from = AtLeast(IndexAt(p.cs, st.from, tr.tout), st.from + 1)]
          BY <2>2, <3>1 DEF Dropped
        <4>2. AtLeast(k, st.from + 1) = k
          BY <1>1, <1>2, <2>4 DEF AtLeast
        <4>3. a = [st EXCEPT !.from = Len(p.cs)]
          BY <2>4, <2>5, <4>1, <4>2
        <4> HIDE DEF Stops
        <4>4. a.from = Len(p.cs) /\ a.out = st.out
          BY <1>2, <4>3 DEF IsState
        <4> QED BY <4>4 DEF Stops
      <3>2. CASE ~Against(st, tr)
        <4> DEFINE s == Accepted(st, tr)
        <4>1. IsState(s) /\ s.from = st.from
          BY <1>2, AcceptedState
        <4>2. s.out = Append(st.out, tr)
          BY <1>2 DEF IsState, Accepted
        <4>3. a = [s EXCEPT !.from = IndexAt(p.cs, s.from, tr.tout)]
          BY <2>2, <3>2 DEF Taken
        <4> HIDE DEF s
        <4>4. a = [s EXCEPT !.from = Len(p.cs)]
          BY <2>4, <2>5, <4>1, <4>3
        <4>5. a.from = Len(p.cs) /\ a.out = s.out
          BY <4>1, <4>4 DEF IsState
        <4> QED BY <2>3, <4>2, <4>5 DEF Stops
      <3> QED BY <3>1, <3>2
    <2>7. Found(p, a) = {}
      <3> SUFFICES ASSUME NEW u \in Found(p, a) PROVE FALSE
        OBVIOUS
      <3>1. a.from \in Nat \ {0}
        BY <1>1, <2>4, <2>6
      <3>2. \E i, j \in 1..Len(p.cs) : a.from < i /\ i < j
        BY <1>1, <3>1, FoundFacts
      <3> QED BY <1>1, <2>6, <3>2
    <2> QED BY <2>6, <2>7 DEF a
  <1> QED BY <1>3, <1>5, <1>6, <1>7

LEMMA SoloGrows ==
    ASSUME NEW v, NEW st, IsState(st)
    PROVE  Grows(st, SoloRound(v, st))
  <1> DEFINE b == SoloRound(v, st)
  <1>1. CASE SoloNext(v, st) = {}
    BY <1>1 DEF SoloRound, Onward, Grows
  <1>2. CASE SoloNext(v, st) # {}
    <2>1. b \in SoloNext(v, st)
      BY <1>2 DEF SoloRound, Onward, Only
    <2>2. PICK tr \in Found(v, st) : b = IF Against(st, tr) THEN Dropped(v.cs, st, tr) ELSE Taken(v.cs, st, tr)
      BY <2>1 DEF SoloNext
    <2> HIDE DEF b
    <2>3. CASE Against(st, tr)
      <3>1. b = [st EXCEPT !.from = AtLeast(IndexAt(v.cs, st.from, tr.tout), st.from + 1)]
        BY <2>2, <2>3 DEF Dropped
      <3>2. b.out = st.out
        BY <3>1 DEF IsState
      <3> QED BY <3>2 DEF Grows, b
    <2>4. CASE ~Against(st, tr)
      <3> DEFINE s == Accepted(st, tr)
                 i == IndexAt(v.cs, s.from, tr.tout)
      <3>1. IsState(s)
        BY AcceptedState
      <3>2. s.out = Append(st.out, tr)
        BY DEF IsState, Accepted
      <3>3. b = [s EXCEPT !.from = i]
        BY <2>2, <2>4 DEF Taken
      <3> HIDE DEF s, i
      <3>4. b.out = s.out
        BY <3>1, <3>3 DEF IsState
      <3> QED BY <3>2, <3>4 DEF Grows, b
    <2> QED BY <2>3, <2>4
  <1> QED BY <1>1, <1>2

\* Of the trades of a stage the settled ones stand.
LEMMA EarlySolo ==
    ASSUME NEW p, NEW c, NEW T \in Int, Early(p.cs, c.cs, T), p.or = c.or
    PROVE  Stands(Solo(p), Solo(c))
  <1> DEFINE M == Len(p.cs)
             N == Len(c.cs)
             a == SoloRounds(p)
             b == SoloRounds(c)
             D == {n \in 0..M : Found(p, a[n]) = {}}
  <1>1. M \in Nat /\ N \in Nat /\ M <= N /\ Timed(c.cs)
    BY TimedFacts DEF Early
  <1>2. a[0] = NoTrades /\ \A n \in 1..M : a[n] = SoloRound(p, a[n-1])
    BY <1>1, SoloRoundsDef
  <1>3. b[0] = NoTrades /\ \A n \in 1..N : b[n] = SoloRound(c, b[n-1])
    BY <1>1, SoloRoundsDef
  <1>4. \A n \in 0..N : SoloOk(c, b[n])
    BY <1>1, SoloRoundsOk
  <1>5. Solo(p) = a[M].out /\ Solo(c) = b[N].out
    BY DEF Solo
  <1> HIDE DEF a, b, M, N
  <1>6. \A n \in 0..N : SearchState(b[n]) /\ IsState(b[n]) /\ IsSequence(b[n].out)
    BY <1>4 DEF SoloOk, StateOk, TradesOk, SearchState
  <1>7. ASSUME NEW n \in 1..N PROVE Grows(b[n-1], b[n])
    <2>1. n - 1 \in 0..N
      BY <1>1
    <2>2. IsState(b[n-1]) /\ b[n] = SoloRound(c, b[n-1])
      BY <1>3, <1>6, <2>1
    <2> QED BY <2>2, SoloGrows
  <1>8. ASSUME NEW n \in 1..M, n - 1 \in D PROVE n \in D /\ a[n] = a[n-1]
    <2>1. Found(p, a[n-1]) = {} /\ a[n] = SoloRound(p, a[n-1]) /\ n \in 0..M
      BY <1>1, <1>2, <1>8
    <2>2. SoloRound(p, a[n-1]) = a[n-1]
      BY <2>1 DEF SoloRound, SoloNext, Onward
    <2> QED BY <2>1, <2>2
  <1>9. ASSUME NEW n \in 1..M, a[n-1] = b[n-1]
        PROVE  a[n] = b[n] \/ (n \in D /\ Stops(a[n-1], a[n]))
    <2>1. n - 1 \in 0..N /\ n \in 1..N /\ n \in 0..M
      BY <1>1
    <2>2. a[n] = SoloRound(p, a[n-1]) /\ b[n] = SoloRound(c, a[n-1]) /\ SearchState(a[n-1])
      BY <1>2, <1>3, <1>6, <1>9, <2>1
    <2>3. \/ SoloRound(p, a[n-1]) = SoloRound(c, a[n-1])
          \/ Found(p, SoloRound(p, a[n-1])) = {} /\ Stops(a[n-1], SoloRound(p, a[n-1]))
      <3> DEFINE st == a[n-1]
      <3>1. SearchState(st)
        BY <2>2
      <3> HIDE DEF st
      <3>2. \/ SoloRound(p, st) = SoloRound(c, st)
            \/ Found(p, SoloRound(p, st)) = {} /\ Stops(st, SoloRound(p, st))
        BY <3>1, EarlyRound
      <3> QED BY <3>2 DEF st
    <2> QED BY <2>1, <2>2, <2>3
  <1> HIDE DEF D
  <1>10. Stands(a[M].out, b[N].out)
    BY <1>1, <1>2, <1>3, <1>6, <1>7, <1>8, <1>9, TwoRuns
  <1> QED BY <1>5, <1>10

--------------------------------------------------------------------------
\* The rows of a morning are the first rows of its day.

LEMMA Cancel ==
    ASSUME NEW w \in Nat \ {0}, NEW x \in Int, NEW y \in Int, w * x < w * y
    PROVE  x < y
  <1> SUFFICES ASSUME y <= x PROVE FALSE
    OBVIOUS
  <1> DEFINE d == x - y
  <1>1. d \in Nat /\ x = y + d
    OBVIOUS
  <1> HIDE DEF d
  <1>2. w * x = w * y + w * d
    BY <1>1
  <1>3. w * d \in Nat
    BY <1>1
  <1>4. w * x \in Int /\ w * y \in Int
    OBVIOUS
  <1> QED BY <1>2, <1>3, <1>4

\* A slot boundary separates the minutes before it from those after it.
LEMMA Separated ==
    ASSUME NEW w \in Nat \ {0}, NEW s \in Nat, s % w = 0, NEW a \in Nat, a < s, NEW b \in Nat, s <= b
    PROVE  a \div w # b \div w
  <1> SUFFICES ASSUME a \div w = b \div w PROVE FALSE
    OBVIOUS
  <1> DEFINE q == a \div w
             k == s \div w
  <1>1. q \in Int /\ k \in Int /\ q + 1 \in Int
    OBVIOUS
  <1>2. s = w * k
    OBVIOUS
  <1>3. a = w * q + (a % w) /\ (a % w) \in 0..(w - 1)
    OBVIOUS
  <1>4. b = w * q + (b % w) /\ (b % w) \in 0..(w - 1)
    OBVIOUS
  <1> HIDE DEF q, k
  <1>5. w * (q + 1) = w * q + w /\ w * q \in Int /\ w * k \in Int
    BY <1>1
  <1>6. w * q < w * k /\ w * k < w * (q + 1)
    BY <1>2, <1>3, <1>4, <1>5
  <1>7. q < k /\ k < q + 1
    BY <1>1, <1>6, Cancel
  <1> QED BY <1>1, <1>7

\* A candle of a later slot changes none of the groups before it.
LateGroups(A, out, T) ==
    /\ Timed(out) /\ Len(A) <= Len(out)
    /\ \A i \in 1..Len(A) : out[i] = A[i] /\ A[i].t < T
    /\ \A i \in 1..Len(out) : i > Len(A) => out[i].t >= T

LEMMA LateGroup ==
    ASSUME NEW w \in Nat \ {0}, NEW T \in Nat, T % w = 0, NEW A, Timed(A),
           NEW out, LateGroups(A, out, T), NEW x \in Candle, x.t >= T,
           Timed(Grouped(out, x, w))
    PROVE  LateGroups(A, Grouped(out, x, w), T)
  <1> DEFINE y == Grouped(out, x, w)
             L == Len(out)
  <1>1. /\ L \in Nat /\ Len(A) \in Nat /\ out \in Seq(Candle) /\ Len(A) <= L
        /\ \A i \in 1..L : out[i] \in Candle /\ out[i].t \in Nat
        /\ x.t \in Nat
    BY TimedFacts, CandleFacts DEF LateGroups
  <1>2. CASE out # <<>> /\ x.t \div w = out[L].t \div w
    <2>1. L \in 1..L
      BY <1>1, <1>2
    <2>2. ~(out[L].t < T)
      BY <1>1, <1>2, <2>1, Separated
    <2>3. L > Len(A)
      <3>1. L # Len(A)
        BY <1>1, <2>1, <2>2 DEF LateGroups
      <3> QED BY <1>1, <3>1
    <2> DEFINE b == Merge(out[L], x)
    <2>4. b.t = out[L].t
      BY <1>1, <2>1, MergeFacts
    <2>5. y = [out EXCEPT ![L] = b]
      BY <1>2 DEF Grouped
    <2> HIDE DEF b, y
    <2>6. /\ Len(y) = L
          /\ \A i \in 1..L : y[i].t = out[i].t /\ (i # L => y[i] = out[i])
      BY <1>1, <2>1, <2>4, <2>5
    <2>7. \A i \in 1..Len(A) : y[i] = A[i] /\ A[i].t < T
      BY <1>1, <2>3, <2>6 DEF LateGroups
    <2>8. \A i \in 1..Len(y) : i > Len(A) => y[i].t >= T
      BY <1>1, <2>6 DEF LateGroups
    <2>9. Len(A) <= Len(y)
      BY <1>1, <2>6
    <2>10. LateGroups(A, y, T)
      <3>1. Timed(y)
        BY DEF y
      <3> QED BY <2>7, <2>8, <2>9, <3>1 DEF LateGroups
    <2> QED BY <2>10 DEF y
  <1>3. CASE ~(out # <<>> /\ x.t \div w = out[L].t \div w)
    <2>1. y = Append(out, x)
      BY <1>3 DEF Grouped
    <2> HIDE DEF y
    <2>2. /\ Len(y) = L + 1 /\ y[L + 1] = x
          /\ \A i \in 1..L : y[i] = out[i]
      BY <1>1, <2>1, AppendProperties
    <2> HIDE DEF L
    <2>3. \A i \in 1..Len(A) : y[i] = A[i] /\ A[i].t < T
      BY <1>1, <2>2 DEF LateGroups, L
    <2>4. ASSUME NEW i \in 1..Len(y), i > Len(A) PROVE y[i].t >= T
      <3>1. CASE i = L + 1
        BY <2>2, <3>1
      <3>2. CASE i # L + 1
        <4>1. i \in 1..L
          BY <1>1, <2>2, <2>4, <3>2
        <4> QED BY <2>2, <2>4, <4>1 DEF LateGroups, L
      <3> QED BY <3>1, <3>2
    <2>5. Len(A) <= Len(y)
      BY <1>1, <2>2
    <2>6. LateGroups(A, y, T)
      <3>1. Timed(y)
        BY DEF y
      <3> QED BY <2>3, <2>4, <2>5, <3>1 DEF LateGroups
    <2> QED BY <2>6 DEF y
  <1> QED BY <1>2, <1>3

LEMMA EarlyAggregate ==
    ASSUME NEW w \in Nat \ {0}, NEW T \in Nat, T % w = 0, NEW p, NEW c, Early(p, c, T)
    PROVE  Early(Aggregate(p, w), Aggregate(c, w), T)
  <1> DEFINE M == Len(p)
             N == Len(c)
             a == Groups(p, w)
             b == Groups(c, w)
             S == {n \in 0..M : b[n] = a[n]}
  <1>1. M \in Nat /\ N \in Nat /\ M <= N /\ Timed(p) /\ Timed(c)
    BY TimedFacts DEF Early
  <1>2. \A n \in 1..M : p[n] = c[n] /\ p[n].t < T /\ p[n].t \in Nat
    BY <1>1, TimedFacts DEF Early
  <1>3. \A n \in 1..N : c[n] \in Candle /\ c[n].t \in Nat /\ (n > M => c[n].t >= T)
    BY <1>1, TimedFacts DEF Early
  <1>4. a[0] = <<>> /\ \A n \in 1..M : a[n] = Grouped(a[n-1], p[n], w)
    BY <1>1, GroupsDef
  <1>5. b[0] = <<>> /\ \A n \in 1..N : b[n] = Grouped(b[n-1], c[n], w)
    BY <1>1, GroupsDef
  <1>6. \A n \in 0..M : Timed(a[n]) /\ (n = 0 <=> a[n] = <<>>) /\ (n > 0 => a[n][Len(a[n])].t <= p[n].t)
    BY <1>1, GroupsTimed
  <1>7. \A n \in 0..N : Timed(b[n])
    BY <1>1, GroupsTimed
  <1>8. Aggregate(p, w) = a[M] /\ Aggregate(c, w) = b[N]
    BY DEF Aggregate
  <1> HIDE DEF a, b, M, N
  <1>9. 0 \in S
    BY <1>1, <1>4, <1>5
  <1>10. ASSUME NEW n \in 1..M, n - 1 \in S PROVE n \in S
    <2>1. n \in 1..N /\ n \in 0..M /\ b[n-1] = a[n-1] /\ p[n] = c[n]
      BY <1>1, <1>2, <1>10
    <2>2. b[n] = Grouped(b[n-1], c[n], w) /\ a[n] = Grouped(a[n-1], p[n], w)
      BY <1>4, <1>5, <2>1
    <2> QED BY <2>1, <2>2
  <1> HIDE DEF S
  <1>11. \A n \in 0..M : n \in S
    BY <1>1, <1>9, <1>10, Induction
  <1> DEFINE A == a[M]
  <1>12. b[M] = A /\ Timed(A)
    <2>1. M \in 0..M
      BY <1>1
    <2> QED BY <1>6, <1>11, <2>1 DEF S
  <1>13. \A i \in 1..Len(A) : A[i].t < T
    <2> SUFFICES ASSUME NEW i \in 1..Len(A) PROVE A[i].t < T
      OBVIOUS
    <2>1. Len(A) \in Nat /\ A # <<>>
      BY <1>12, TimedFacts, EmptySequence
    <2>2. M > 0 /\ M \in 1..M /\ M \in 0..M
      BY <1>1, <1>4, <2>1
    <2>3. A[Len(A)].t <= p[M].t /\ p[M].t < T /\ p[M].t \in Nat
      BY <1>2, <1>6, <2>2
    <2> HIDE DEF A
    <2>4. A[i].t <= A[Len(A)].t /\ A[i].t \in Nat /\ A[Len(A)].t \in Nat
      BY <1>12, <2>1, TimedFacts
    <2> QED BY <2>3, <2>4
  <1> HIDE DEF A
  <1> DEFINE L == N - M
             R == {k \in 0..L : LateGroups(A, b[M + k], T)}
  <1>14. L \in Nat /\ M + L = N /\ M + 0 = M
    BY <1>1
  <1>15. \A k \in 1..L : M + k \in 1..N /\ M + k \in 0..N /\ M + k > M /\ (M + k) - 1 = M + (k - 1) /\ k \in 0..L
    BY <1>1
  <1> HIDE DEF L
  <1>16. 0 \in R
    <2>1. LateGroups(A, A, T)
      <3>1. Len(A) \in Nat
        BY <1>12, TimedFacts
      <3> QED BY <1>12, <1>13, <3>1 DEF LateGroups
    <2> QED BY <1>12, <1>14, <2>1
  <1>17. ASSUME NEW k \in 1..L, k - 1 \in R PROVE k \in R
    <2> DEFINE n == M + k
               out == b[M + (k - 1)]
    <2>1. b[n] = Grouped(out, c[n], w) /\ c[n] \in Candle /\ c[n].t >= T /\ Timed(b[n])
      BY <1>3, <1>5, <1>7, <1>15
    <2>2. LateGroups(A, out, T)
      BY <1>17
    <2> HIDE DEF n, out
    <2>3. LateGroups(A, b[n], T)
      BY <1>12, <2>1, <2>2, LateGroup
    <2> QED BY <1>15, <2>3 DEF n
  <1> HIDE DEF R
  <1>18. \A k \in 0..L : k \in R
    BY <1>14, <1>16, <1>17, Induction
  <1>19. L \in R
    BY <1>14, <1>18
  <1>20. LateGroups(A, b[N], T)
    BY <1>14, <1>19 DEF R
  <1>21. Early(A, b[N], T)
    BY <1>12, <1>20 DEF LateGroups, Early
  <1> QED BY <1>8, <1>21 DEF A

\* A day without its last slot.
Morning(ms) == SubSeq(ms, 1, Len(ms) - Width)

LEMMA MorningFacts ==
    ASSUME NEW ms \in Day
    PROVE  /\ Morning(ms) \in Day
           /\ Len(Morning(ms)) \in Nat /\ Len(Morning(ms)) % Width = 0
           /\ Early(Morning(ms), ms, Len(Morning(ms)))
  <1> DEFINE p == Morning(ms)
             T == Len(p)
             j == Len(ms) - Width
  <1>1. /\ Timed(ms) /\ Len(ms) \in Nat /\ Len(ms) % Width = 0
        /\ DOMAIN ms = 1..Len(ms) /\ \A n \in 1..Len(ms) : ms[n].t = n - 1
    BY RowsTimed, TimedFacts DEF Day
  <1>2. Width \in Nat \ {0}
    BY WidthAssumption
  <1>3. /\ Timed(p) /\ Len(p) = IF 1 <= j THEN j - 1 + 1 ELSE 0
        /\ \A n \in 1..Len(p) : p[n] = ms[1 + n - 1]
    BY <1>1, <1>2, SubTimed DEF Morning
  <1> HIDE DEF p
  <1>4. T \in Nat /\ T <= Len(ms) /\ \A n \in 1..T : p[n] = ms[n]
    <2>1. T \in Nat /\ T <= Len(ms)
      <3> DEFINE N == Len(ms)
      <3>1. N \in Nat /\ T = IF 1 <= N - Width THEN N - Width - 1 + 1 ELSE 0
        BY <1>1, <1>3
      <3> HIDE DEF N, T
      <3>2. CASE 1 <= N - Width
        BY <1>2, <3>1, <3>2 DEF N
      <3>3. CASE ~(1 <= N - Width)
        BY <1>2, <3>1, <3>3 DEF N
      <3> QED BY <3>2, <3>3
    <2>2. \A n \in 1..T : 1 + n - 1 = n
      BY <2>1
    <2> QED BY <1>3, <2>1, <2>2
  <1>5. T % Width = 0
    <2>1. CASE 1 <= j
      <3>1. T = Len(ms) - Width /\ Len(ms) >= Width
        BY <1>1, <1>2, <1>3, <2>1
      <3> QED BY <1>1, <1>2, <3>1, WholeSlots
    <2>2. CASE ~(1 <= j)
      <3>1. T = 0
        BY <1>3, <2>2
      <3> QED BY <1>2, <3>1
    <2> QED BY <2>1, <2>2
  <1>6. p \in Day
    <2>1. p \in Seq(Candle) /\ DOMAIN p = 1..T
      BY <1>3, TimedFacts
    <2>2. \A n \in DOMAIN p : p[n].t = n - 1
      BY <1>1, <1>4, <2>1
    <2> QED BY <1>5, <2>1, <2>2 DEF Day
  <1>7. Early(p, ms, T)
    <2>1. \A n \in 1..T : p[n] = ms[n] /\ p[n].t < T
      BY <1>1, <1>4
    <2>2. \A n \in 1..Len(ms) : n > T => ms[n].t >= T
      BY <1>1, <1>4
    <2> QED BY <1>1, <1>3, <1>4, <2>1, <2>2 DEF Early
  <1> QED BY <1>4, <1>5, <1>6, <1>7 DEF p

LEMMA EarlyRows ==
    ASSUME NEW ms \in Day
    PROVE  Early(Rows(Morning(ms)), Rows(ms), Len(Morning(ms)))
  <1>1. Width \in Nat \ {0}
    BY WidthAssumption
  <1> DEFINE T == Len(Morning(ms))
             p == Morning(ms)
  <1>2. T \in Nat /\ T % Width = 0 /\ Early(p, ms, T)
    BY MorningFacts
  <1> HIDE DEF T, p
  <1>3. Early(Aggregate(p, Width), Aggregate(ms, Width), T)
    BY <1>1, <1>2, EarlyAggregate
  <1> QED BY <1>3 DEF Rows, T, p

--------------------------------------------------------------------------
\* The legacy path over all stages.

Enters(out) == {out[n].tin : n \in DOMAIN out \cap {1}}

\* The first trade of a stage is the one its first search finds.
LEMMA FirstTrade ==
    ASSUME NEW v, Timed(v.cs)
    PROVE  \/ Found(v, NoTrades) = {} /\ Enters(Solo(v)) = {}
           \/ \E tr \in Found(v, NoTrades) : Enters(Solo(v)) = {tr.tin}
  <1> DEFINE N == Len(v.cs)
             r == SoloRounds(v)
  <1>1. N \in Nat
    BY TimedFacts
  <1>2. r[0] = NoTrades /\ \A n \in 1..N : r[n] = SoloRound(v, r[n-1])
    BY <1>1, SoloRoundsDef
  <1>3. Solo(v) = r[N].out
    BY DEF Solo
  <1>4. \A n \in 0..N : IsState(r[n]) /\ IsSequence(r[n].out)
    BY SoloRoundsOk DEF SoloOk, StateOk, TradesOk
  <1> HIDE DEF r
  <1>5. CASE Found(v, NoTrades) = {}
    <2> HIDE DEF N
    <2> DEFINE S == {n \in 0..N : r[n] = NoTrades}
    <2>1. SoloRound(v, NoTrades) = NoTrades
      BY <1>5 DEF SoloRound, SoloNext, Onward
    <2>2. 0 \in S
      BY <1>1, <1>2
    <2>3. \A n \in 1..N : n - 1 \in S => n \in S
      BY <1>1, <1>2, <2>1
    <2> HIDE DEF S
    <2>4. \A n \in 0..N : n \in S
      BY <1>1, <2>2, <2>3, Induction
    <2>5. r[N] = NoTrades
      BY <1>1, <2>4 DEF S
    <2>6. Solo(v) = <<>>
      BY <1>3, <2>5 DEF NoTrades
    <2>7. Enters(Solo(v)) = {}
      BY <2>6 DEF Enters
    <2> QED BY <1>5, <2>7
  <1>6. CASE Found(v, NoTrades) # {}
    <2>1. SoloNext(v, NoTrades) # {}
      BY <1>6 DEF SoloNext
    <2>2. r[1] \in SoloNext(v, NoTrades) /\ N >= 1
      <3>1. ASSUME N = 0 PROVE FALSE
        <4>1. NoTrades.from = 1
          BY DEF NoTrades
        <4>2. 1 > Len(v.cs)
          BY <3>1
        <4>3. Found(v, NoTrades) = {}
          BY <4>1, <4>2 DEF Found, ScanFrom
        <4> QED BY <1>6, <4>3
      <3>2. 1 \in 1..N /\ 1 - 1 = 0
        BY <1>1, <3>1
      <3>3. r[1] = SoloRound(v, NoTrades)
        BY <1>2, <3>2
      <3> QED BY <1>1, <2>1, <3>2, <3>3 DEF SoloRound, Onward, Only
    <2>3. PICK tr \in Found(v, NoTrades) :
              r[1] = IF Against(NoTrades, tr) THEN Dropped(v.cs, NoTrades, tr) ELSE Taken(v.cs, NoTrades, tr)
      BY <2>2 DEF SoloNext
    <2>4. ~Against(NoTrades, tr)
      BY DEF Against, SideOk, NoTrades
    <2>5. r[1].out = <<tr>>
      <3> DEFINE s == Accepted(NoTrades, tr)
                 i == IndexAt(v.cs, s.from, tr.tout)
      <3>1. IsState(NoTrades) /\ NoTrades.out = <<>>
        BY DEF IsState, NoTrades
      <3>2. IsState(s)
        BY <3>1, AcceptedState
      <3>3. s.out = Append(<<>>, tr)
        BY <3>1 DEF Accepted, IsState
      <3>4. r[1] = [s EXCEPT !.from = i]
        BY <2>3, <2>4 DEF Taken
      <3> HIDE DEF s, i
      <3>5. r[1].out = s.out
        BY <3>2, <3>4 DEF IsState
      <3> QED BY <3>3, <3>5
    <2> HIDE DEF N
    <2> DEFINE L == N - 1
               S == {k \in 0..L : Len(r[k + 1].out) >= 1 /\ r[k + 1].out[1] = tr}
    <2>6. L \in Nat /\ L + 1 = N /\ \A k \in 1..L : k + 1 \in 1..N /\ k + 1 \in 0..N /\ k \in 0..N /\ (k + 1) - 1 = (k - 1) + 1 /\ k \in 0..L
      BY <1>1, <2>2
    <2> HIDE DEF L
    <2>7. 0 \in S
      <3>1. 0 + 1 = 1 /\ 0 \in 0..L
        BY <2>6
      <3>2. Len(<<tr>>) >= 1 /\ <<tr>>[1] = tr
        OBVIOUS
      <3>3. r[0 + 1].out = <<tr>>
        BY <2>5, <3>1
      <3> QED BY <3>1, <3>2, <3>3
    <2>8. ASSUME NEW k \in 1..L, k - 1 \in S PROVE k \in S
      <3> DEFINE s == r[(k - 1) + 1]
                 t == r[k + 1]
      <3>1. t = SoloRound(v, s) /\ IsState(s) /\ IsSequence(s.out)
        <4>1. (k - 1) + 1 \in 0..N
          BY <2>6
        <4>2. t = SoloRound(v, r[(k + 1) - 1])
          BY <1>2, <2>6
        <4> QED BY <1>4, <2>6, <4>1, <4>2
      <3>2. Len(s.out) >= 1 /\ s.out[1] = tr
        BY <2>8
      <3> HIDE DEF s, t
      <3>3. Grows(s, t)
        BY <3>1, SoloGrows
      <3>4. Len(t.out) >= 1 /\ t.out[1] = tr
        <4>1. CASE t.out = s.out
          BY <3>2, <4>1
        <4>2. ASSUME NEW x, t.out = Append(s.out, x) PROVE Len(t.out) >= 1 /\ t.out[1] = tr
          BY <3>1, <3>2, <4>2, Appended
        <4> QED BY <3>3, <4>1, <4>2 DEF Grows
      <3> QED BY <2>6, <3>4 DEF t
    <2> HIDE DEF S
    <2>9. \A k \in 0..L : k \in S
      BY <2>6, <2>7, <2>8, Induction
    <2>10. L \in S
      BY <2>6, <2>9
    <2>11. Len(r[N].out) >= 1 /\ r[N].out[1] = tr
      BY <2>6, <2>10 DEF S
    <2>12. 1 \in DOMAIN r[N].out
      <3>1. DOMAIN r[N].out = 1..Len(r[N].out) /\ Len(r[N].out) \in Nat
        BY <1>1, <1>4 DEF IsSequence
      <3> QED BY <2>11, <3>1
    <2>13. Enters(r[N].out) = {tr.tin}
      BY <2>11, <2>12 DEF Enters
    <2> QED BY <1>3, <2>13
  <1> QED BY <1>5, <1>6

\* How the entry of a stage compares with that of the morning.
SameEntry(x, y, p) ==
    /\ x \subseteq Int /\ y \subseteq Int
    /\ x # {} => y = x
    /\ x = {} => \A u \in y : \A k \in 1..Len(p) : p[k].t <= u
    /\ \A t \in x : \E k \in 1..Len(p) : t < p[k].t

LEMMA EarlyEntry ==
    ASSUME NEW p, NEW c, NEW T \in Int, Early(p.cs, c.cs, T), p.or = c.or
    PROVE  SameEntry(Enters(Solo(p)), Enters(Solo(c)), p.cs)
  <1> DEFINE x == Found(p, NoTrades)
             y == Found(c, NoTrades)
             ex == Enters(Solo(p))
             ey == Enters(Solo(c))
  <1>1. NoTrades.from = 1 /\ Timed(p.cs) /\ Timed(c.cs)
    BY DEF NoTrades, Early
  <1>2. (ex = {} /\ x = {}) \/ \E tr \in x : ex = {tr.tin}
    BY <1>1, FirstTrade
  <1>3. (ey = {} /\ y = {}) \/ \E tr \in y : ey = {tr.tin}
    BY <1>1, FirstTrade
  <1>4. Sooner(x, y, p.cs) \/ (x = {} /\ y = {})
    <2>1. CASE MayTrade(NoTrades)
      <3>1. x = ScanFrom(p, 1) /\ y = ScanFrom(c, 1)
        BY <1>1, <2>1 DEF Found
      <3>2. Sooner(ScanFrom(p, 1), ScanFrom(c, 1), p.cs)
        BY EarlyScan
      <3> QED BY <3>1, <3>2
    <2>2. CASE ~MayTrade(NoTrades)
      BY <2>2 DEF Found
    <2> QED BY <2>1, <2>2
  <1>5. \A tr \in x : tr.tin \in Int
    BY <1>1, FoundFacts
  <1>6. \A tr \in y : tr.tin \in Int
    BY <1>1, FoundFacts
  <1> HIDE DEF x, y, ex, ey
  <1>7. SameEntry(ex, ey, p.cs)
    <2>1. CASE x = {} /\ y = {}
      <3>1. ex = {} /\ ey = {}
        BY <1>2, <1>3, <2>1
      <3> QED BY <3>1 DEF SameEntry
    <2>2. CASE Sooner(x, y, p.cs)
      <3>1. ex \subseteq Int /\ ey \subseteq Int
        BY <1>2, <1>3, <1>5, <1>6
      <3>2. CASE x = {}
        <4>1. ex = {}
          BY <1>2, <3>2
        <4>2. \A u \in ey : \A k \in 1..Len(p.cs) : p.cs[k].t <= u
          BY <1>3, <2>2, <3>2 DEF Sooner
        <4> QED BY <3>1, <4>1, <4>2 DEF SameEntry
      <3>3. CASE x # {}
        <4>1. PICK a \in x : ex = {a.tin}
          BY <1>2, <3>3
        <4>2. y # {} /\ \A i \in x, j \in y : i.tin = j.tin
          BY <2>2, <3>3 DEF Sooner
        <4>3. PICK b \in y : ey = {b.tin}
          BY <1>3, <4>2
        <4>4. ex = ey
          BY <4>1, <4>2, <4>3
        <4>5. \E k \in 1..Len(p.cs) : a.tin < p.cs[k].t
          BY <2>2, <3>3 DEF Sooner
        <4> QED BY <3>1, <4>1, <4>4, <4>5 DEF SameEntry
      <3> QED BY <3>2, <3>3
    <2> QED BY <1>4, <2>1, <2>2
  <1> QED BY <1>7 DEF ex, ey

\* A stage is prepared early, or all it scans is late.
LEMMA EarlyView ==
    ASSUME NEW p, NEW c, NEW T \in Int, Early(p, c, T), NEW t \in Int
    PROVE  \/ View(p, t) = {} /\ View(c, t) = {}
           \/ /\ View(p, t) = {} /\ From(p, t) = <<>>
              /\ \E w : /\ View(c, t) = {w} /\ Timed(w.cs)
                        /\ \A k \in 1..Len(w.cs) : w.cs[k].t >= T
           \/ \E v, w : /\ View(p, t) = {v} /\ View(c, t) = {w}
                        /\ v.cs = From(p, t) /\ w.cs = From(c, t) /\ v.or = w.or
                        /\ v.or = OpeningRange(Before(p, t))
  <1> DEFINE P == From(p, t)
             C == From(c, t)
  <1>1. Early(P, C, T) /\ (P # <<>> => Before(p, t) = Before(c, t))
    BY EarlyFrom
  <1>2. \A x, y : View(x, y) = IF From(x, y) = <<>> \/ Before(x, y) = <<>> THEN {}
                               ELSE {[cs |-> From(x, y), or |-> OpeningRange(Before(x, y))]}
    BY DEF View, Prepared
  <1>3. CASE P = <<>>
    <2>1. View(p, t) = {}
      BY <1>2, <1>3
    <2>2. CASE View(c, t) = {}
      BY <2>1, <2>2
    <2>3. CASE View(c, t) # {}
      <3> DEFINE w == [cs |-> C, or |-> OpeningRange(Before(c, t))]
      <3>1. View(c, t) = {w} /\ w.cs = C
        BY <1>2, <2>3
      <3>2. Timed(C) /\ \A k \in 1..Len(C) : C[k].t >= T
        <4>1. Len(P) = 0
          BY <1>3, EmptySequence
        <4> HIDE DEF P, C
        <4>2. Timed(C) /\ Len(C) \in Nat /\ \A k \in 1..Len(C) : k > 0 => C[k].t >= T
          BY <1>1, <4>1, TimedFacts DEF Early
        <4> QED BY <4>2
      <3> HIDE DEF w
      <3> QED BY <1>3, <2>1, <3>1, <3>2
    <2> QED BY <2>2, <2>3
  <1>4. CASE P # <<>>
    <2>1. Before(p, t) = Before(c, t)
      BY <1>1, <1>4
    <2>2. C # <<>>
      <3> HIDE DEF P, C
      <3>1. Len(P) # 0 /\ Len(P) \in Nat /\ Len(C) \in Nat /\ Len(P) <= Len(C)
        BY <1>1, <1>4, TimedFacts DEF Early
      <3> QED BY <3>1, EmptySequence
    <2>3. CASE Before(p, t) = <<>>
      BY <1>2, <2>1, <2>3
    <2>4. CASE Before(p, t) # <<>>
      <3> DEFINE o == OpeningRange(Before(p, t))
                 v == [cs |-> P, or |-> o]
                 w == [cs |-> C, or |-> o]
      <3>1. View(p, t) = {v}
        BY <1>2, <1>4, <2>4
      <3>2. View(c, t) = {w}
        BY <1>2, <2>1, <2>2, <2>4
      <3>3. v.cs = P /\ w.cs = C /\ v.or = o /\ w.or = o
        OBVIOUS
      <3> HIDE DEF v, w
      <3> QED BY <3>1, <3>2, <3>3
    <2> QED BY <2>3, <2>4
  <1> QED BY <1>3, <1>4

LEMMA EarlyStage ==
    ASSUME NEW p, NEW c, NEW T \in Int, Early(p, c, T), NEW t \in Int
    PROVE  /\ Stands(LegacyDay(p, t), LegacyDay(c, t))
           /\ SameEntry(Enters(LegacyDay(p, t)), Enters(LegacyDay(c, t)), p)
  <1>1. Timed(p) /\ Len(p) \in Nat /\ \A k \in 1..Len(p) : p[k].t \in Nat /\ p[k].t < T
    BY TimedFacts DEF Early
  <1>2. \A x, v : View(x, t) = {v} => LegacyDay(x, t) = Solo(v)
    BY DEF LegacyDay, Only
  <1>3. \A x : View(x, t) = {} => LegacyDay(x, t) = <<>>
    BY DEF LegacyDay
  <1>4. Enters(<<>>) = {} /\ \A x : Stands(<<>>, x)
    BY DEF Enters, Stands
  <1>5. CASE View(p, t) = {} /\ View(c, t) = {}
    <2>1. LegacyDay(p, t) = <<>> /\ LegacyDay(c, t) = <<>>
      BY <1>3, <1>5
    <2> QED BY <1>4, <2>1 DEF SameEntry
  <1>6. ASSUME NEW w, View(p, t) = {}, View(c, t) = {w}, Timed(w.cs), \A k \in 1..Len(w.cs) : w.cs[k].t >= T
        PROVE  /\ Stands(LegacyDay(p, t), LegacyDay(c, t))
               /\ SameEntry(Enters(LegacyDay(p, t)), Enters(LegacyDay(c, t)), p)
    <2>1. LegacyDay(p, t) = <<>> /\ LegacyDay(c, t) = Solo(w)
      BY <1>2, <1>3, <1>6
    <2>2. \A u \in Enters(Solo(w)) : u \in Int /\ u >= T
      <3>1. NoTrades.from \in Nat \ {0}
        BY DEF NoTrades
      <3>2. ASSUME NEW tr \in Found(w, NoTrades) PROVE tr.tin \in Int /\ tr.tin >= T
        <4>1. tr.tin \in Int /\ \E a, b \in 1..Len(w.cs) : tr.tin = w.cs[a].t
          BY <1>6, <3>1, <3>2, FoundFacts
        <4> QED BY <1>6, <4>1
      <3> QED BY <1>6, <3>2, FirstTrade
    <2>3. \A u \in Enters(Solo(w)) : \A k \in 1..Len(p) : p[k].t <= u
      BY <1>1, <2>2
    <2>4. Enters(Solo(w)) \subseteq Int
      BY <2>2
    <2> QED BY <1>4, <2>1, <2>3, <2>4 DEF SameEntry
  <1>7. ASSUME NEW v, NEW w, View(p, t) = {v}, View(c, t) = {w},
               v.cs = From(p, t), w.cs = From(c, t), v.or = w.or
        PROVE  /\ Stands(LegacyDay(p, t), LegacyDay(c, t))
               /\ SameEntry(Enters(LegacyDay(p, t)), Enters(LegacyDay(c, t)), p)
    <2>1. LegacyDay(p, t) = Solo(v) /\ LegacyDay(c, t) = Solo(w)
      BY <1>2, <1>7
    <2>2. Early(v.cs, w.cs, T)
      BY <1>7, EarlyFrom
    <2>3. Stands(Solo(v), Solo(w))
      BY <1>7, <2>2, EarlySolo
    <2>4. SameEntry(Enters(Solo(v)), Enters(Solo(w)), v.cs)
      BY <1>7, <2>2, EarlyEntry
    <2> DEFINE ex == Enters(Solo(v))
               ey == Enters(Solo(w))
    <2>5. SameEntry(ex, ey, v.cs)
      BY <2>4
    <2> HIDE DEF ex, ey
    <2>6. \A k \in 1..Len(v.cs) : v.cs[k] \in ToSet(p)
      <3>1. Timed(v.cs) /\ ToSet(v.cs) \subseteq ToSet(p)
        BY <1>1, <1>7, FromTimed
      <3>2. DOMAIN v.cs = 1..Len(v.cs)
        BY <3>1, TimedFacts
      <3>3. \A k \in 1..Len(v.cs) : v.cs[k] \in ToSet(v.cs)
        BY <3>2 DEF ToSet
      <3> QED BY <3>1, <3>3
    <2>7. DOMAIN p = 1..Len(p)
      BY <1>1, TimedFacts
    <2>8. ASSUME NEW u \in ex PROVE \E k \in 1..Len(p) : u < p[k].t
      <3>1. PICK j \in 1..Len(v.cs) : u < v.cs[j].t
        BY <2>5, <2>8 DEF SameEntry
      <3>2. PICK k \in 1..Len(p) : v.cs[j] = p[k]
        BY <2>6, <2>7, <3>1 DEF ToSet
      <3> QED BY <3>1, <3>2
    <2>9. ASSUME ex = {}, NEW u \in ey, NEW k \in 1..Len(p) PROVE p[k].t <= u
      <3>1. ex \subseteq Int /\ ey \subseteq Int /\ \A j \in 1..Len(v.cs) : v.cs[j].t <= u
        BY <2>5, <2>9 DEF SameEntry
      <3>2. v.cs # <<>>
        BY <1>7 DEF View, Prepared
      <3>3. v.cs = Rest(p, IndexAt(p, 1, t))
        BY <1>7 DEF From
      <3> DEFINE i == IndexAt(p, 1, t)
      <3>4. i \in 1..(Len(p) + 1) /\ i \in Nat \ {0}
        <4> DEFINE one == 1
        <4>1. one \in Nat \ {0}
          OBVIOUS
        <4> HIDE DEF one
        <4>2. IndexAt(p, one, t) \in 1..(Len(p) + 1)
          BY <1>1, <4>1, IndexAtFacts
        <4> QED BY <1>1, <4>2 DEF one
      <3> HIDE DEF i
      <3>5. Len(v.cs) = IF i <= Len(p) THEN Len(p) - i + 1 ELSE 0
        BY <1>1, <3>3, <3>4, RestTimed DEF i
      <3>6. Timed(v.cs)
        BY <1>1, <1>7, FromTimed
      <3>7. Len(v.cs) # 0
        BY <3>2, <3>6 DEF Timed
      <3>8. i <= Len(p)
        BY <3>5, <3>7
      <3>9. Last(v.cs) = Last(p)
        BY <1>1, <3>3, <3>4, <3>8, LastRest DEF i
      <3>10. Len(v.cs) \in 1..Len(v.cs) /\ Len(p) \in 1..Len(p)
        BY <1>1, <3>4, <3>5, <3>8
      <3>11. p[Len(p)].t <= u
        BY <3>1, <3>9, <3>10 DEF Last
      <3>12. p[k].t <= p[Len(p)].t /\ p[k].t \in Nat /\ p[Len(p)].t \in Nat
        BY <1>1, <3>10, TimedFacts
      <3> QED BY <3>1, <3>11, <3>12
    <2>10. SameEntry(ex, ey, p)
      BY <2>5, <2>8, <2>9 DEF SameEntry
    <2> QED BY <2>1, <2>3, <2>10 DEF ex, ey
  <1> QED BY <1>5, <1>6, <1>7, EarlyView

\* The stage that enters first in the morning is the one that enters first on its day.
LEMMA FirstStays ==
    ASSUME NEW N \in Nat, NEW x, NEW y, DOMAIN x = 1..N, DOMAIN y = 1..N, NEW p,
           \A s \in 1..N : SameEntry(x[s], y[s], p),
           \A k \in 1..Len(p) : p[k].t \in Int,
           NEW s \in FirstStage(x)
    PROVE  FirstStage(y) = {s}
  <1>1. /\ s \in 1..N /\ x[s] # {}
        /\ \A r \in 1..N : \A t \in x[s], u \in x[r] : t < u \/ (t = u /\ s <= r)
    BY DEF FirstStage
  <1>2. y[s] = x[s]
    BY <1>1 DEF SameEntry
  <1>3. \A r \in 1..N : x[r] \subseteq Int /\ y[r] \subseteq Int
    BY DEF SameEntry
  <1>4. ASSUME NEW r \in 1..N, NEW t \in y[s], NEW u \in y[r] PROVE t < u \/ (t = u /\ s <= r)
    <2>1. CASE x[r] # {}
      <3>1. y[r] = x[r]
        BY <2>1 DEF SameEntry
      <3> QED BY <1>1, <1>2, <1>4, <3>1
    <2>2. CASE x[r] = {}
      <3>1. PICK k \in 1..Len(p) : t < p[k].t
        BY <1>1, <1>2, <1>4 DEF SameEntry
      <3>2. p[k].t <= u
        BY <1>4, <2>2, <3>1 DEF SameEntry
      <3>3. t \in Int /\ u \in Int /\ p[k].t \in Int
        BY <1>1, <1>3, <1>4
      <3> QED BY <3>1, <3>2, <3>3
    <2> QED BY <2>1, <2>2
  <1>5. s \in FirstStage(y)
    BY <1>1, <1>2, <1>4 DEF FirstStage
  <1>6. ASSUME NEW r \in FirstStage(y) PROVE r = s
    <2>1. /\ r \in 1..N /\ y[r] # {}
          /\ \A q \in 1..N : \A t \in y[r], u \in y[q] : t < u \/ (t = u /\ r <= q)
      BY <1>6 DEF FirstStage
    <2>2. PICK u \in y[r] : TRUE
      BY <2>1
    <2>3. PICK t \in y[s] : TRUE
      BY <1>1, <1>2
    <2>4. t \in Int /\ u \in Int
      BY <1>1, <1>3, <2>1, <2>2, <2>3
    <2>5. t < u \/ (t = u /\ s <= r)
      BY <1>4, <2>1, <2>2, <2>3
    <2>6. u < t \/ (u = t /\ r <= s)
      BY <1>1, <2>1, <2>2, <2>3
    <2> QED BY <1>1, <2>1, <2>4, <2>5, <2>6
  <1> QED BY <1>5, <1>6

LEMMA EarlyLegacy ==
    ASSUME NEW ms \in Day
    PROVE  Stands(Legacy(Morning(ms)), Legacy(ms))
  <1> DEFINE p == Rows(Morning(ms))
             c == Rows(ms)
             T == Len(Morning(ms))
             rp == LegacyRuns(p)
             rc == LegacyRuns(c)
             x == [s \in DOMAIN rp |-> Enters(rp[s])]
             y == [s \in DOMAIN rc |-> Enters(rc[s])]
             N == Len(Stages)
  <1>1. T \in Int /\ Early(p, c, T)
    BY MorningFacts, EarlyRows
  <1>2. N \in Nat /\ DOMAIN Stages = 1..N
    BY StagesAssumption
  <1>3. DOMAIN rp = 1..N /\ DOMAIN rc = 1..N
    BY <1>2 DEF LegacyRuns
  <1>4. \A s \in 1..N : rp[s] = LegacyDay(p, Stages[s]) /\ rc[s] = LegacyDay(c, Stages[s])
    BY <1>2 DEF LegacyRuns
  <1>5. Legacy(Morning(ms)) = FirstRun(rp) /\ Legacy(ms) = FirstRun(rc)
    BY DEF Legacy, LegacyStages
  <1>6. /\ FirstRun(rp) = IF FirstStage(x) = {} THEN <<>> ELSE rp[Only(FirstStage(x))]
        /\ FirstRun(rc) = IF FirstStage(y) = {} THEN <<>> ELSE rc[Only(FirstStage(y))]
    BY DEF FirstRun, Enters
  <1> HIDE DEF p, c, T
  <1>7. ASSUME NEW s \in 1..N
        PROVE  /\ Stands(rp[s], rc[s])
               /\ SameEntry(Enters(rp[s]), Enters(rc[s]), p)
    <2> DEFINE t == Stages[s]
    <2>1. t \in Int
      BY <1>2, StageFacts
    <2> HIDE DEF t
    <2>2. /\ Stands(LegacyDay(p, t), LegacyDay(c, t))
          /\ SameEntry(Enters(LegacyDay(p, t)), Enters(LegacyDay(c, t)), p)
      BY <1>1, <2>1, EarlyStage
    <2> QED BY <1>4, <2>2 DEF t
  <1> HIDE DEF rp, rc, N
  <1>8. \A s \in 1..N : x[s] = Enters(rp[s]) /\ y[s] = Enters(rc[s])
    BY <1>3
  <1>9. DOMAIN x = 1..N /\ DOMAIN y = 1..N
    BY <1>3
  <1> HIDE DEF x, y
  <1>10. CASE FirstStage(x) = {}
    <2>1. FirstRun(rp) = <<>>
      BY <1>6, <1>10
    <2>2. Stands(FirstRun(rp), FirstRun(rc))
      BY <2>1 DEF Stands
    <2> QED BY <1>5, <2>2
  <1>11. CASE FirstStage(x) # {}
    <2> DEFINE s == Only(FirstStage(x))
    <2>1. s \in FirstStage(x)
      BY <1>11 DEF Only
    <2> HIDE DEF s
    <2>2. s \in 1..N
      BY <1>9, <2>1 DEF FirstStage
    <2>3. \A k \in 1..Len(p) : p[k].t \in Int
      BY <1>1, TimedFacts DEF Early
    <2>4. \A r \in 1..N : SameEntry(x[r], y[r], p)
      BY <1>7, <1>8
    <2>5. FirstStage(y) = {s}
      BY <1>2, <1>9, <2>1, <2>3, <2>4, FirstStays, SMTT(30)
    <2>6. Only(FirstStage(y)) = s
      BY <2>5 DEF Only
    <2>7. FirstRun(rp) = rp[s] /\ FirstRun(rc) = rc[s]
      BY <1>6, <1>11, <2>5, <2>6 DEF s
    <2> QED BY <1>5, <1>7, <2>2, <2>7
  <1> QED BY <1>10, <1>11

--------------------------------------------------------------------------
\* The minutes of a row: one of them has its low, and one its high.

InSlot(x, row, w) == x.t \div w = row.t \div w /\ x.t >= row.t
Extremes(cs, n, row, w) ==
    /\ \E m \in 1..n : InSlot(cs[m], row, w) /\ cs[m].l = row.l
    /\ \E m \in 1..n : InSlot(cs[m], row, w) /\ cs[m].h = row.h

LEMMA MergedExtremes ==
    ASSUME NEW w, NEW cs, NEW n \in Nat, NEW a \in Candle, Extremes(cs, n, a, w),
           cs[n + 1] \in Candle, InSlot(cs[n + 1], a, w)
    PROVE  Extremes(cs, n + 1, Merge(a, cs[n + 1]), w)
  <1> DEFINE c == cs[n + 1]
             b == Merge(a, c)
  <1>1. b.t = a.t
    BY MergeFacts
  <1>2. b = [a EXCEPT !.h = AtLeast(a.h, c.h), !.l = -AtLeast(-a.l, -c.l), !.c = c.c]
    BY DEF Merge
  <1>3. a \in [t : Nat, o : Nat, h : Nat, l : Nat, c : Nat]
    BY DEF Candle
  <1>4. b.h = AtLeast(a.h, c.h) /\ b.l = -AtLeast(-a.l, -c.l)
    BY <1>2, <1>3
  <1>5. a.h \in Nat /\ a.l \in Nat /\ c.h \in Nat /\ c.l \in Nat
    BY CandleFacts
  <1> HIDE DEF b
  <1>6. b.h \in {a.h, c.h}
    BY <1>4 DEF AtLeast
  <1>7. b.l \in {a.l, c.l}
    BY <1>4, <1>5 DEF AtLeast
  <1>8. n + 1 \in 1..(n + 1) /\ \A m \in 1..n : m \in 1..(n + 1)
    OBVIOUS
  <1>9. \A x : InSlot(x, a, w) => InSlot(x, b, w)
    BY <1>1 DEF InSlot
  <1>10. \E m \in 1..(n + 1) : InSlot(cs[m], b, w) /\ cs[m].l = b.l
    <2>1. CASE b.l = c.l
      BY <1>8, <1>9, <2>1
    <2>2. CASE b.l = a.l
      BY <1>8, <1>9, <2>2 DEF Extremes
    <2> QED BY <1>7, <2>1, <2>2
  <1>11. \E m \in 1..(n + 1) : InSlot(cs[m], b, w) /\ cs[m].h = b.h
    <2>1. CASE b.h = c.h
      BY <1>8, <1>9, <2>1
    <2>2. CASE b.h = a.h
      BY <1>8, <1>9, <2>2 DEF Extremes
    <2> QED BY <1>6, <2>1, <2>2
  <1>12. Extremes(cs, n + 1, b, w)
    BY <1>10, <1>11 DEF Extremes
  <1> QED BY <1>12 DEF b

LEMMA RowExtremes ==
    ASSUME NEW cs, Timed(cs), NEW w
    PROVE  \A i \in 1..Len(Aggregate(cs, w)) : Extremes(cs, Len(cs), Aggregate(cs, w)[i], w)
  <1> DEFINE N == Len(cs)
             g == Groups(cs, w)
             S == {n \in 0..N : \A i \in 1..Len(g[n]) : Extremes(cs, n, g[n][i], w)}
  <1>1. N \in Nat /\ \A n \in 1..N : cs[n] \in Candle /\ cs[n].t \in Nat
    BY TimedFacts
  <1>2. g[0] = <<>> /\ \A n \in 1..N : g[n] = Grouped(g[n-1], cs[n], w)
    BY <1>1, GroupsDef
  <1>3. \A n \in 0..N : Timed(g[n]) /\ (n = 0 <=> g[n] = <<>>) /\ (n > 0 => g[n][Len(g[n])].t <= cs[n].t)
    BY GroupsTimed
  <1>4. \A m, n \in 1..N : m <= n => cs[m].t <= cs[n].t
    BY TimedFacts
  <1>5. Aggregate(cs, w) = g[N]
    BY DEF Aggregate
  <1> HIDE DEF g, N
  <1>6. 0 \in S
    BY <1>1, <1>2
  <1>7. ASSUME NEW n \in 1..N, n - 1 \in S PROVE n \in S
    <2> DEFINE k == n - 1
               out == g[k]
               x == g[n]
               L == Len(out)
    <2>1. k \in Nat /\ k \in 0..N /\ n = k + 1 /\ n \in 0..N
      BY <1>1
    <2>2. x = Grouped(out, cs[n], w) /\ Timed(out) /\ cs[n] \in Candle /\ cs[n].t \in Nat
      BY <1>1, <1>2, <1>3, <2>1
    <2>3. \A i \in 1..Len(out) : Extremes(cs, k, out[i], w)
      BY <1>7
    <2>4. out # <<>> => out[L].t <= cs[n].t
      <3>1. CASE k = 0
        BY <1>3, <2>1, <3>1
      <3>2. CASE k > 0
        <4>1. k \in 1..N /\ k <= n
          BY <1>1, <2>1, <3>2
        <4>2. out[L].t <= cs[k].t /\ cs[k].t <= cs[n].t /\ cs[k].t \in Nat
          BY <1>1, <1>3, <1>4, <2>1, <3>2, <4>1
        <4> HIDE DEF k, out
        <4>3. ASSUME out # <<>> PROVE out[L].t \in Nat
          <5>1. L \in Nat /\ L # 0
            BY <2>2, <4>3, TimedFacts, EmptySequence
          <5> QED BY <2>2, <5>1, TimedFacts
        <4> QED BY <2>2, <4>2, <4>3
      <3> QED BY <2>1, <3>1, <3>2
    <2> HIDE DEF k, out, x
    <2>5. L \in Nat /\ out \in Seq(Candle) /\ \A i \in 1..L : out[i] \in Candle /\ out[i].t \in Nat
      BY <2>2, TimedFacts
    <2>6. \A row : Extremes(cs, k, row, w) => Extremes(cs, n, row, w)
      <3>1. \A m \in 1..k : m \in 1..n
        BY <2>1
      <3> QED BY <3>1 DEF Extremes
    <2>7. CASE out # <<>> /\ cs[n].t \div w = out[L].t \div w
      <3>1. L \in 1..L
        BY <2>5, <2>7
      <3> DEFINE b == Merge(out[L], cs[n])
      <3>2. x = [out EXCEPT ![L] = b]
        BY <2>2, <2>7 DEF Grouped
      <3>3. Extremes(cs, n, b, w)
        <4>1. InSlot(cs[n], out[L], w)
          BY <2>2, <2>4, <2>5, <2>7, <3>1 DEF InSlot
        <4>2. Extremes(cs, k, out[L], w) /\ out[L] \in Candle
          BY <2>3, <2>5, <3>1
        <4> DEFINE a == out[L]
        <4>3. Extremes(cs, k, a, w) /\ a \in Candle /\ cs[k + 1] \in Candle /\ InSlot(cs[k + 1], a, w)
          BY <2>1, <2>2, <4>1, <4>2
        <4> HIDE DEF a
        <4>4. Extremes(cs, k + 1, Merge(a, cs[k + 1]), w)
          BY <2>1, <4>3, MergedExtremes
        <4> QED BY <2>1, <4>4 DEF a
      <3> HIDE DEF b
      <3>4. Len(x) = L /\ \A i \in 1..L : x[i] = IF i = L THEN b ELSE out[i]
        BY <2>5, <3>1, <3>2
      <3>5. \A i \in 1..Len(x) : Extremes(cs, n, x[i], w)
        BY <2>3, <2>6, <3>3, <3>4
      <3> QED BY <2>1, <3>5 DEF x
    <2>8. CASE ~(out # <<>> /\ cs[n].t \div w = out[L].t \div w)
      <3>1. x = Append(out, cs[n])
        BY <2>2, <2>8 DEF Grouped
      <3>2. Len(x) = L + 1 /\ x[L + 1] = cs[n] /\ \A i \in 1..L : x[i] = out[i]
        BY <2>2, <2>5, <3>1, AppendProperties
      <3>3. Extremes(cs, n, cs[n], w)
        <4>1. n \in 1..n /\ InSlot(cs[n], cs[n], w)
          BY <2>1, <2>2 DEF InSlot
        <4> QED BY <4>1 DEF Extremes
      <3>4. ASSUME NEW i \in 1..Len(x) PROVE Extremes(cs, n, x[i], w)
        <4>1. CASE i = L + 1
          BY <3>2, <3>3, <4>1
        <4>2. CASE i # L + 1
          <5>1. i \in 1..L
            BY <2>5, <3>2, <4>2
          <5> QED BY <2>3, <2>6, <3>2, <5>1
        <4> QED BY <4>1, <4>2
      <3> QED BY <2>1, <3>4 DEF x
    <2> QED BY <2>7, <2>8
  <1> HIDE DEF S
  <1>8. \A n \in 0..N : n \in S
    BY <1>1, <1>6, <1>7, Induction
  <1>9. N \in S
    BY <1>1, <1>8
  <1> QED BY <1>5, <1>9 DEF S, N

--------------------------------------------------------------------------
\* What a stage finds in the morning and at the end of the day.

\* The candle of a signal came back into the gap.
LEMMA RetracedAt ==
    ASSUME NEW cs, Timed(cs), NEW cfg
    PROVE  LET d == DetectNext(cs, cfg) IN \A g \in d.gap : Retraced(g, cs[d.idx])
  <1> DEFINE N == Len(cs)
             a == Searched(cs, cfg)
             S == {n \in 0..N : a[n].idx # 0 => \A g \in a[n].gap : Retraced(g, cs[a[n].idx])}
  <1>1. N \in Nat
    BY TimedFacts
  <1>2. a[0] = Searching /\ \A n \in 1..N : a[n] = Search(cs, n, a[n-1], cfg)
    BY <1>1, SearchedDef
  <1>3. \A n \in 0..N : /\ a[n] = [gap |-> a[n].gap, at |-> a[n].at, idx |-> a[n].idx, over |-> a[n].over]
                        /\ SearchOk(a[n], n, cfg)
    BY SearchedOk
  <1>4. DetectNext(cs, cfg) = IF a[N].idx = 0 THEN NoSignal ELSE [idx |-> a[N].idx, gap |-> a[N].gap]
    BY DEF DetectNext
  <1> HIDE DEF a, N
  <1>5. 0 \in S
    BY <1>1, <1>2 DEF Searching
  <1>6. ASSUME NEW n \in 1..N, n - 1 \in S PROVE n \in S
    <2> DEFINE s == a[n-1]
               x == a[n]
    <2>1. n - 1 \in 0..N /\ n \in 0..N
      BY <1>1
    <2>2. /\ s = [gap |-> s.gap, at |-> s.at, idx |-> s.idx, over |-> s.over]
          /\ OneGap(s.gap, cfg) /\ (s.idx = 0 \/ s.over)
      BY <1>3, <2>1 DEF SearchOk
    <2>3. s.idx # 0 => \A g \in s.gap : Retraced(g, cs[s.idx])
      BY <1>6
    <2>4. x = Search(cs, n, s, cfg)
      BY <1>2
    <2> HIDE DEF s, x
    <2> DEFINE live == IF n - s.at > Expiry THEN {} ELSE s.gap
               new == IF live = {} /\ n > 2 THEN FormedGap(cs[n-2], cs[n-1], cs[n], cfg) ELSE {}
    <2>5. x = IF s.over THEN s
              ELSE IF cs[n].t >= Cutoff THEN [s EXCEPT !.over = TRUE]
              ELSE IF new # {} THEN [s EXCEPT !.gap = new, !.at = n]
              ELSE IF \E g \in live : Retraced(g, cs[n])
                   THEN [s EXCEPT !.gap = live, !.idx = n, !.over = TRUE]
              ELSE [s EXCEPT !.gap = live]
      BY <2>4 DEF Search
    <2>6. \A g, h \in live : g = h
      BY <2>2 DEF OneGap
    <2> HIDE DEF new, live
    <2>7. CASE s.over
      BY <2>1, <2>3, <2>5, <2>7 DEF x
    <2>8. CASE ~s.over
      <3>1. s.idx = 0
        BY <2>2, <2>8
      <3>2. x.idx = 0 \/ (x.idx = n /\ x.gap = live /\ \E g \in live : Retraced(g, cs[n]))
        BY <2>2, <2>5, <2>8, <3>1
      <3>3. x.idx # 0 => \A g \in x.gap : Retraced(g, cs[x.idx])
        BY <2>6, <3>2
      <3> QED BY <2>1, <3>3 DEF x
    <2> QED BY <2>7, <2>8
  <1> HIDE DEF S
  <1>7. \A n \in 0..N : n \in S
    BY <1>1, <1>5, <1>6, Induction
  <1>8. N \in S
    BY <1>1, <1>7
  <1> QED BY <1>4, <1>8 DEF S, NoSignal

Alike(X) == \A x, y \in X : x = y

\* A signal as it is found early and late.
Twin(x, y, T) ==
    /\ x.stage = y.stage /\ x.gap = y.gap /\ x.t = y.t
    /\ x.t \in Nat /\ x.t < T /\ Early(x.rest, y.rest, T)

SignalAt(x, A) ==
    \E i \in 1..Len(A) : x.t = A[i].t /\ x.rest = Rest(A, i + 1) /\ Retraced(x.gap, A[i])

LEMMA DetectsFacts ==
    ASSUME NEW s, NEW A, Timed(A), NEW or, NEW side
    PROVE  /\ Alike(StageDetects(s, A, or, side))
           /\ \A x \in StageDetects(s, A, or, side) : x.stage = s /\ SignalAt(x, A)
  <1> DEFINE cfg == Config(or, side)
             d == DetectNext(A, cfg)
             xs == StageDetects(s, A, or, side)
  <1>1. OneGap(d.gap, cfg) /\ (d.gap # {} => d.idx \in 4..Len(A))
    BY DetectFacts
  <1>2. \A g \in d.gap : Retraced(g, A[d.idx])
    BY RetracedAt
  <1>3. xs = IF Len(A) < 3 THEN {} ELSE
             {[stage |-> s, gap |-> g, t |-> A[d.idx].t, rest |-> Rest(A, d.idx + 1)] : g \in d.gap}
    BY DEF StageDetects, StageSignal
  <1>4. Len(A) \in Nat
    BY TimedFacts
  <1> HIDE DEF d, cfg, xs
  <1>5. Alike(xs)
    BY <1>1, <1>3 DEF OneGap, Alike
  <1>6. ASSUME NEW x \in xs PROVE x.stage = s /\ SignalAt(x, A)
    <2>1. PICK g \in d.gap : x = [stage |-> s, gap |-> g, t |-> A[d.idx].t, rest |-> Rest(A, d.idx + 1)]
      BY <1>3, <1>6
    <2>2. d.idx \in 1..Len(A)
      BY <1>1, <1>4, <2>1
    <2>3. x.stage = s /\ x.t = A[d.idx].t /\ x.rest = Rest(A, d.idx + 1) /\ x.gap = g
      BY <2>1
    <2> QED BY <1>2, <2>1, <2>2, <2>3 DEF SignalAt
  <1> QED BY <1>5, <1>6 DEF xs

LEMMA DetectTwins ==
    ASSUME NEW s, NEW A, NEW B, NEW T \in Int, Early(A, B, T), NEW or, NEW side
    PROVE  /\ \A x \in StageDetects(s, A, or, side) : \E y \in StageDetects(s, B, or, side) : Twin(x, y, T)
           /\ \A y \in StageDetects(s, B, or, side) :
                  y.t >= T \/ \E x \in StageDetects(s, A, or, side) : Twin(x, y, T)
  <1> DEFINE cfg == Config(or, side)
             d == DetectNext(A, cfg)
             e == DetectNext(B, cfg)
             xs == StageDetects(s, A, or, side)
             ys == StageDetects(s, B, or, side)
  <1>1. /\ Timed(A) /\ Timed(B) /\ Len(A) \in Nat /\ Len(B) \in Nat /\ Len(A) <= Len(B)
        /\ \A i \in 1..Len(A) : A[i] = B[i] /\ A[i].t < T /\ A[i].t \in Nat
        /\ \A i \in 1..Len(B) : i > Len(A) => B[i].t >= T
    BY TimedFacts DEF Early
  <1>2. /\ d.gap # {} => e = d
        /\ d.gap = {} => (e.gap = {} \/ e.idx \in (Len(A) + 1)..Len(B))
    BY EarlyDetect
  <1>3. OneGap(d.gap, cfg) /\ (d.gap # {} => d.idx \in 4..Len(A))
    BY <1>1, DetectFacts
  <1>4. xs = IF Len(A) < 3 THEN {} ELSE
             {[stage |-> s, gap |-> g, t |-> A[d.idx].t, rest |-> Rest(A, d.idx + 1)] : g \in d.gap}
    BY DEF StageDetects, StageSignal
  <1>5. ys = IF Len(B) < 3 THEN {} ELSE
             {[stage |-> s, gap |-> g, t |-> B[e.idx].t, rest |-> Rest(B, e.idx + 1)] : g \in e.gap}
    BY DEF StageDetects, StageSignal
  <1> HIDE DEF d, e, cfg, xs, ys
  <1>6. CASE d.gap = {}
    <2>1. xs = {}
      BY <1>4, <1>6
    <2>2. ASSUME NEW y \in ys PROVE y.t >= T
      <3>1. PICK g \in e.gap : y = [stage |-> s, gap |-> g, t |-> B[e.idx].t, rest |-> Rest(B, e.idx + 1)]
        BY <1>5, <2>2
      <3>2. e.idx \in 1..Len(B) /\ e.idx > Len(A)
        BY <1>1, <1>2, <1>6, <3>1
      <3> QED BY <1>1, <3>1, <3>2
    <2> QED BY <2>1, <2>2 DEF xs, ys
  <1>7. CASE d.gap # {}
    <2>1. d.idx \in 4..Len(A) /\ e = d /\ ~(Len(A) < 3) /\ ~(Len(B) < 3)
      BY <1>1, <1>2, <1>3, <1>7
    <2>2. PICK g : d.gap = {g}
      BY <1>3, <1>7 DEF OneGap
    <2> DEFINE i == d.idx
               x == [stage |-> s, gap |-> g, t |-> A[i].t, rest |-> Rest(A, i + 1)]
               y == [stage |-> s, gap |-> g, t |-> B[i].t, rest |-> Rest(B, i + 1)]
    <2>3. xs = {x} /\ ys = {y}
      BY <1>4, <1>5, <2>1, <2>2
    <2>4. i \in 1..Len(A) /\ i + 1 \in Nat \ {0}
      BY <1>1, <2>1
    <2>5. Early(Rest(A, i + 1), Rest(B, i + 1), T)
      BY <1>1, <2>4, EarlyRest
    <2>6. Twin(x, y, T)
      BY <1>1, <2>4, <2>5 DEF Twin
    <2> HIDE DEF x, y
    <2> QED BY <2>3, <2>6 DEF xs, ys
  <1> QED BY <1>6, <1>7

\* The rows of a stage after a time.
StageRows(ms, s, after) == After(Aggregate(From(ms, Stages[s]), Width), after)

LEMMA StageRowsFacts ==
    ASSUME NEW ms \in Day, NEW s \in DOMAIN Stages, NEW after \in Int
    PROVE  LET A == StageRows(ms, s, after)
           IN  /\ Timed(A)
               /\ A # <<>> => Last(A) = Last(Rows(ms))
               /\ \A i \in 1..Len(A) : A[i].t > after
               /\ \A i \in 1..Len(A) : Extremes(ms, Len(ms), A[i], Width)
  <1> DEFINE t == Stages[s]
             q == From(ms, t)
             R == Aggregate(q, Width)
             A == StageRows(ms, s, after)
             k == after + 1
             i0 == IndexAt(R, 1, k)
  <1>1. t \in Nat /\ t % Width = 0 /\ k \in Int
    BY StageFacts
  <1>2. /\ Timed(q)
        /\ R # <<>> => Last(R) = Last(Rows(ms))
    BY <1>1, RowsFrom
  <1>3. Timed(R)
    BY <1>2, AggregateTimed
  <1>4. A = Rest(R, i0)
    BY DEF StageRows, After, From
  <1>5. Timed(ms) /\ ToSet(q) \subseteq ToSet(ms)
    <2>1. Timed(ms)
      BY RowsTimed
    <2> QED BY <1>1, <2>1, FromTimed
  <1>6. \A i \in 1..Len(R) : Extremes(q, Len(q), R[i], Width)
    BY <1>2, RowExtremes
  <1> HIDE DEF A, R, q, k, t
  <1>7. /\ i0 \in 1..(Len(R) + 1)
        /\ i0 <= Len(R) => R[i0].t >= k
    <2> DEFINE one == 1
    <2>1. one \in Nat \ {0}
      OBVIOUS
    <2> HIDE DEF one
    <2>2. /\ IndexAt(R, one, k) \in 1..(Len(R) + 1)
          /\ IndexAt(R, one, k) <= Len(R) => R[IndexAt(R, one, k)].t >= k
      BY <1>1, <1>3, <2>1, IndexAtFacts
    <2> QED BY <2>2 DEF one
  <1> HIDE DEF i0
  <1>8. Len(R) \in Nat /\ i0 \in Nat \ {0}
    BY <1>3, <1>7, TimedFacts
  <1>9. /\ Timed(A) /\ Len(A) = IF i0 <= Len(R) THEN Len(R) - i0 + 1 ELSE 0
        /\ \A i \in 1..Len(A) : i0 + i - 1 \in i0..Len(R) /\ A[i] = R[i0 + i - 1]
    BY <1>3, <1>4, <1>8, RestTimed
  <1>10. ASSUME A # <<>> PROVE Last(A) = Last(Rows(ms))
    <2>1. Len(A) # 0
      BY <1>9, <1>10 DEF Timed
    <2>2. i0 <= Len(R)
      BY <1>9, <2>1
    <2>3. Last(A) = Last(R)
      BY <1>3, <1>4, <1>8, <2>2, LastRest
    <2>4. R # <<>>
      <3>1. Len(R) # 0
        BY <1>8, <2>2
      <3> QED BY <3>1, EmptySequence
    <2> QED BY <1>2, <2>3, <2>4
  <1>11. ASSUME NEW i \in 1..Len(A) PROVE A[i].t > after
    <2> DEFINE j == i0 + i - 1
    <2>1. i0 <= Len(R) /\ j \in 1..Len(R) /\ i0 \in 1..Len(R) /\ i0 <= j /\ A[i] = R[j]
      BY <1>8, <1>9
    <2> HIDE DEF j
    <2>2. R[i0].t >= k /\ R[i0].t <= R[j].t /\ R[i0].t \in Nat /\ R[j].t \in Nat
      BY <1>3, <1>7, <2>1, TimedFacts
    <2>3. R[j].t >= k
      BY <1>1, <2>2
    <2> QED BY <2>1, <2>2, <2>3 DEF k
  <1>12. ASSUME NEW i \in 1..Len(A) PROVE Extremes(ms, Len(ms), A[i], Width)
    <2> DEFINE row == A[i]
    <2>1. i0 + i - 1 \in 1..Len(R)
      BY <1>8, <1>9
    <2>2. Extremes(q, Len(q), row, Width)
      BY <1>6, <1>9, <2>1
    <2> HIDE DEF row
    <2>3. \A m \in 1..Len(q) : \E n \in 1..Len(ms) : q[m] = ms[n]
      <3>1. DOMAIN q = 1..Len(q) /\ DOMAIN ms = 1..Len(ms)
        BY <1>2, <1>5, TimedFacts
      <3> QED BY <1>5, <3>1 DEF ToSet
    <2>4. \E n \in 1..Len(ms) : InSlot(ms[n], row, Width) /\ ms[n].l = row.l
      <3>1. PICK m \in 1..Len(q) : InSlot(q[m], row, Width) /\ q[m].l = row.l
        BY <2>2 DEF Extremes
      <3> QED BY <2>3, <3>1
    <2>5. \E n \in 1..Len(ms) : InSlot(ms[n], row, Width) /\ ms[n].h = row.h
      <3>1. PICK m \in 1..Len(q) : InSlot(q[m], row, Width) /\ q[m].h = row.h
        BY <2>2 DEF Extremes
      <3> QED BY <2>3, <3>1
    <2>6. Extremes(ms, Len(ms), row, Width)
      BY <2>4, <2>5 DEF Extremes
    <2> QED BY <2>6 DEF row
  <1> QED BY <1>9, <1>10, <1>11, <1>12 DEF A

\* What all the stages find.
LiveFound(ms, st) ==
    IF MayTrade(st) THEN UNION {StageFinds(ms, s, st) : s \in PreparedStages(ms)} ELSE {}

LEMMA LiveFoundAt ==
    ASSUME NEW ms \in Day, NEW st, st.after \in Int, NEW x \in LiveFound(ms, st)
    PROVE  /\ MayTrade(st) /\ x.stage \in DOMAIN Stages
           /\ x \in StageFinds(ms, x.stage, st) /\ SignalAt(x, StageRows(ms, x.stage, st.after))
  <1>1. PICK s \in PreparedStages(ms) : x \in StageFinds(ms, s, st)
    BY DEF LiveFound
  <1>2. s \in DOMAIN Stages
    BY DEF PreparedStages
  <1> DEFINE A == StageRows(ms, s, st.after)
             or == OpeningRange(Before(ms, Stages[s]))
  <1>3. StageFinds(ms, s, st) = StageDetects(s, A, or, st.side)
    BY DEF StageFinds, StageRows
  <1>4. Timed(A)
    BY <1>2, StageRowsFacts
  <1> HIDE DEF A, or
  <1>5. x.stage = s /\ SignalAt(x, A)
    BY <1>1, <1>3, <1>4, DetectsFacts
  <1>6. MayTrade(st)
    BY DEF LiveFound
  <1> QED BY <1>1, <1>2, <1>5, <1>6 DEF A

LEMMA LiveFoundOnce ==
    ASSUME NEW ms \in Day, NEW st, st.after \in Int,
           NEW x \in LiveFound(ms, st), NEW y \in LiveFound(ms, st), x.stage = y.stage
    PROVE  x = y
  <1> DEFINE s == x.stage
             A == StageRows(ms, s, st.after)
             or == OpeningRange(Before(ms, Stages[s]))
  <1>1. s \in DOMAIN Stages /\ x \in StageFinds(ms, s, st) /\ y \in StageFinds(ms, s, st)
    BY LiveFoundAt
  <1> HIDE DEF s
  <1>2. StageFinds(ms, s, st) = StageDetects(s, A, or, st.side)
    BY DEF StageFinds, StageRows
  <1>3. Timed(A)
    BY <1>1, StageRowsFacts
  <1> HIDE DEF A, or
  <1> QED BY <1>1, <1>2, <1>3, DetectsFacts DEF Alike

\* A stage finds in the morning what it finds on the day, or finds it only later.
LEMMA StageTwins ==
    ASSUME NEW ms \in Day, NEW s \in DOMAIN Stages, NEW st, st.after \in Int
    PROVE  LET p == Morning(ms)
               T == Len(Morning(ms))
               X == StageFinds(p, s, st)
               Y == StageFinds(ms, s, st)
           IN  /\ s \in PreparedStages(p) => /\ s \in PreparedStages(ms)
                                             /\ \A x \in X : \E y \in Y : Twin(x, y, T)
                                             /\ \A y \in Y : y.t >= T \/ \E x \in X : Twin(x, y, T)
               /\ s \in PreparedStages(ms) /\ s \notin PreparedStages(p) => \A y \in Y : y.t >= T
  <1> DEFINE p == Morning(ms)
             T == Len(p)
             t == Stages[s]
             X == StageFinds(p, s, st)
             Y == StageFinds(ms, s, st)
             A == StageRows(p, s, st.after)
             B == StageRows(ms, s, st.after)
  <1>1. T \in Nat /\ T \in Int /\ T % Width = 0 /\ Early(p, ms, T) /\ p \in Day
    BY MorningFacts
  <1>2. t \in Int
    BY StageFacts
  <1>3. /\ Early(From(p, t), From(ms, t), T)
        /\ From(p, t) # <<>> => Before(p, t) = Before(ms, t)
    BY <1>1, <1>2, EarlyFrom
  <1>4. Early(A, B, T)
    <2> DEFINE q == From(p, t)
               r == From(ms, t)
               k == st.after + 1
    <2>1. Width \in Nat \ {0} /\ Early(q, r, T) /\ k \in Int
      BY <1>3, WidthAssumption
    <2> HIDE DEF q, r, k
    <2>2. Early(Aggregate(q, Width), Aggregate(r, Width), T)
      BY <1>1, <2>1, EarlyAggregate
    <2>3. Early(From(Aggregate(q, Width), k), From(Aggregate(r, Width), k), T)
      BY <1>1, <2>1, <2>2, EarlyFrom
    <2> QED BY <2>3 DEF StageRows, After, q, r, k
  <1>5. /\ X = StageDetects(s, A, OpeningRange(Before(p, t)), st.side)
        /\ Y = StageDetects(s, B, OpeningRange(Before(ms, t)), st.side)
    BY DEF StageFinds, StageRows
  <1>6. s \in PreparedStages(p) <=> View(p, t) # {}
    BY DEF PreparedStages
  <1>7. s \in PreparedStages(ms) <=> View(ms, t) # {}
    BY DEF PreparedStages
  <1> HIDE DEF p, t, X, Y, T
  <1>8. \/ View(p, t) = {} /\ View(ms, t) = {}
        \/ View(p, t) = {} /\ From(p, t) = <<>>
        \/ View(p, t) # {} /\ View(ms, t) # {}
    <2>1. \/ View(p, t) = {} /\ View(ms, t) = {}
          \/ /\ View(p, t) = {} /\ From(p, t) = <<>>
             /\ \E w : /\ View(ms, t) = {w} /\ Timed(w.cs)
                       /\ \A k \in 1..Len(w.cs) : w.cs[k].t >= T
          \/ \E v, w : /\ View(p, t) = {v} /\ View(ms, t) = {w}
                       /\ v.cs = From(p, t) /\ w.cs = From(ms, t) /\ v.or = w.or
                       /\ v.or = OpeningRange(Before(p, t))
      BY <1>1, <1>2, EarlyView
    <2> DEFINE a == View(p, t)
               b == View(ms, t)
               e == From(p, t) = <<>>
    <2>2. (a = {} /\ b = {}) \/ (a = {} /\ e) \/ \E v, w : a = {v} /\ b = {w}
      BY <2>1
    <2> HIDE DEF a, b, e
    <2>3. (a = {} /\ b = {}) \/ (a = {} /\ e) \/ (a # {} /\ b # {})
      BY <2>2
    <2> QED BY <2>3 DEF a, b, e
  <1>9. ASSUME View(p, t) # {}
        PROVE  /\ \A x \in X : \E y \in Y : Twin(x, y, T)
               /\ \A y \in Y : y.t >= T \/ \E x \in X : Twin(x, y, T)
    <2>1. Before(p, t) = Before(ms, t)
      <3>1. From(p, t) # <<>>
        BY <1>9 DEF View, Prepared
      <3> QED BY <1>3, <3>1
    <2> DEFINE or == OpeningRange(Before(p, t))
               side == st.side
    <2>2. X = StageDetects(s, A, or, side) /\ Y = StageDetects(s, B, or, side)
      BY <1>5, <2>1
    <2> HIDE DEF or, side, A, B
    <2> QED BY <1>1, <1>4, <2>2, DetectTwins
  <1>10. ASSUME From(p, t) = <<>>, NEW y \in Y PROVE y.t >= T
    <2>1. Timed(B)
      BY StageRowsFacts
    <2>2. SignalAt(y, B)
      <3> DEFINE or == OpeningRange(Before(ms, t))
                 side == st.side
      <3>1. y \in StageDetects(s, B, or, side)
        BY <1>5, <1>10
      <3> HIDE DEF or, side, B
      <3> QED BY <2>1, <3>1, DetectsFacts
    <2>3. Len(A) = 0
      <3>1. Timed(A)
        BY <1>1, StageRowsFacts
      <3>2. Aggregate(<<>>, Width) = <<>>
        <4>1. Len(<<>>) = 0 /\ Len(<<>>) \in Nat
          BY EmptySequence
        <4>2. Groups(<<>>, Width)[0] = <<>>
          BY <4>1, GroupsDef
        <4> QED BY <4>1, <4>2 DEF Aggregate
      <3>3. A = From(<<>>, st.after + 1)
        BY <1>10, <3>2 DEF StageRows, After, t
      <3>4. ToSet(A) \subseteq ToSet(<<>>)
        <4> DEFINE k == st.after + 1
        <4>1. k \in Int
          OBVIOUS
        <4> HIDE DEF k
        <4>2. ToSet(From(<<>>, k)) \subseteq ToSet(<<>>)
          BY <4>1, EmptyTimed, FromTimed
        <4> QED BY <3>3, <4>2 DEF k
      <3> HIDE DEF A
      <3>5. ToSet(A) = {}
        BY <3>4 DEF ToSet
      <3>6. DOMAIN A = 1..Len(A) /\ Len(A) \in Nat
        BY <3>1, TimedFacts
      <3>7. 1 \notin DOMAIN A
        BY <3>5 DEF ToSet
      <3> QED BY <3>6, <3>7
    <2> HIDE DEF A, B
    <2>4. PICK i \in 1..Len(B) : y.t = B[i].t
      BY <2>2 DEF SignalAt
    <2>5. B[i].t >= T
      BY <1>4, <2>3, <2>4 DEF Early
    <2> QED BY <2>4, <2>5
  <1> QED BY <1>6, <1>7, <1>8, <1>9, <1>10 DEF p, t, X, Y, T

LEMMA LiveTwins ==
    ASSUME NEW ms \in Day, NEW st, st.after \in Int
    PROVE  LET p == Morning(ms)
               T == Len(Morning(ms))
           IN  /\ \A x \in LiveFound(p, st) : \E y \in LiveFound(ms, st) : Twin(x, y, T)
               /\ \A y \in LiveFound(ms, st) :
                      y.t >= T \/ \E x \in LiveFound(p, st) : Twin(x, y, T)
  <1> DEFINE p == Morning(ms)
             T == Len(p)
             X(s) == StageFinds(p, s, st)
             Y(s) == StageFinds(ms, s, st)
  <1>1. p \in Day
    BY MorningFacts
  <1>2. \A s \in DOMAIN Stages :
            /\ s \in PreparedStages(p) => /\ s \in PreparedStages(ms)
                                          /\ \A x \in X(s) : \E y \in Y(s) : Twin(x, y, T)
                                          /\ \A y \in Y(s) : y.t >= T \/ \E x \in X(s) : Twin(x, y, T)
            /\ s \in PreparedStages(ms) /\ s \notin PreparedStages(p) => \A y \in Y(s) : y.t >= T
    BY StageTwins
  <1>3. PreparedStages(p) \subseteq DOMAIN Stages /\ PreparedStages(ms) \subseteq DOMAIN Stages
    BY DEF PreparedStages
  <1>4. LiveFound(p, st) = IF MayTrade(st) THEN UNION {X(s) : s \in PreparedStages(p)} ELSE {}
    BY DEF LiveFound
  <1>5. LiveFound(ms, st) = IF MayTrade(st) THEN UNION {Y(s) : s \in PreparedStages(ms)} ELSE {}
    BY DEF LiveFound
  <1> HIDE DEF p, X, Y, T
  <1>6. CASE MayTrade(st)
    <2>1. ASSUME NEW x \in LiveFound(p, st) PROVE \E y \in LiveFound(ms, st) : Twin(x, y, T)
      <3>1. PICK s \in PreparedStages(p) : x \in X(s)
        BY <1>4, <1>6, <2>1
      <3>2. s \in PreparedStages(ms) /\ \E y \in Y(s) : Twin(x, y, T)
        BY <1>2, <1>3, <3>1
      <3> QED BY <1>5, <1>6, <3>2
    <2>2. ASSUME NEW y \in LiveFound(ms, st), ~(y.t >= T) PROVE \E x \in LiveFound(p, st) : Twin(x, y, T)
      <3>1. PICK s \in PreparedStages(ms) : y \in Y(s)
        BY <1>5, <1>6, <2>2
      <3>2. s \in PreparedStages(p)
        BY <1>2, <1>3, <2>2, <3>1
      <3>3. \E x \in X(s) : Twin(x, y, T)
        BY <1>2, <1>3, <2>2, <3>1, <3>2
      <3> QED BY <1>4, <1>6, <3>2, <3>3
    <2> QED BY <2>1, <2>2 DEF p, T
  <1>7. CASE ~MayTrade(st)
    <2>1. LiveFound(p, st) = {} /\ LiveFound(ms, st) = {}
      BY <1>4, <1>5, <1>7
    <2> QED BY <2>1 DEF p, T
  <1> QED BY <1>6, <1>7

--------------------------------------------------------------------------
\* The loop over the signals of all stages, in the morning and at the end of the day.

\* The signals found early and late: one of a stage, and the early ones are found late too,
\* before all the others.
Twinned(X, Y, T) ==
    /\ \A a \in X \cup Y : a.t \in Nat /\ a.stage \in Nat
    /\ \A a, b \in X : a.stage = b.stage => a = b
    /\ \A a, b \in Y : a.stage = b.stage => a = b
    /\ \A a \in X : \E b \in Y : Twin(a, b, T)
    /\ \A b \in Y : b.t >= T \/ \E a \in X : Twin(a, b, T)

\* The first of the signals found early is the first of all.
LEMMA FirstTwin ==
    ASSUME NEW X, NEW Y, NEW T \in Int, Twinned(X, Y, T), NEW x \in Earliest(X)
    PROVE  /\ Earliest(X) = {x}
           /\ \E y : Earliest(Y) = {y} /\ Twin(x, y, T)
  <1>1. /\ \A a \in X : a.t \in Nat /\ a.stage \in Nat
        /\ \A b \in Y : b.t \in Nat /\ b.stage \in Nat
        /\ \A a, b \in X : a.stage = b.stage => a = b
        /\ \A a, b \in Y : a.stage = b.stage => a = b
        /\ \A a \in X : \E b \in Y : Twin(a, b, T)
        /\ \A b \in Y : b.t >= T \/ \E a \in X : Twin(a, b, T)
    BY DEF Twinned
  <1>2. x \in X /\ \A a \in X : x.t < a.t \/ (x.t = a.t /\ x.stage <= a.stage)
    BY DEF Earliest
  <1>3. ASSUME NEW a \in Earliest(X) PROVE a = x
    <2>1. a \in X /\ (a.t < x.t \/ (a.t = x.t /\ a.stage <= x.stage))
      BY <1>2 DEF Earliest
    <2>2. x.t < a.t \/ (x.t = a.t /\ x.stage <= a.stage)
      BY <1>2, <2>1
    <2>3. x.t \in Nat /\ a.t \in Nat /\ x.stage \in Nat /\ a.stage \in Nat
      BY <1>1, <1>2, <2>1
    <2>4. x.stage = a.stage
      BY <2>1, <2>2, <2>3
    <2> QED BY <1>1, <1>2, <2>1, <2>4
  <1>4. PICK y \in Y : Twin(x, y, T)
    BY <1>1, <1>2
  <1>5. x.t = y.t /\ x.stage = y.stage /\ y.t < T /\ y.t \in Nat /\ y.stage \in Nat
    BY <1>1, <1>4 DEF Twin
  <1>6. ASSUME NEW b \in Y PROVE y.t < b.t \/ (y.t = b.t /\ y.stage <= b.stage)
    <2>1. b.t \in Nat /\ (b.t >= T \/ \E a \in X : Twin(a, b, T))
      BY <1>1
    <2>2. CASE b.t >= T
      BY <1>5, <2>1, <2>2
    <2>3. CASE \E a \in X : Twin(a, b, T)
      <3>1. PICK a \in X : Twin(a, b, T)
        BY <2>3
      <3>2. a.t = b.t /\ a.stage = b.stage
        BY <3>1 DEF Twin
      <3> QED BY <1>2, <1>5, <3>1, <3>2
    <2> QED BY <2>1, <2>2, <2>3
  <1>7. y \in Earliest(Y)
    BY <1>6 DEF Earliest
  <1>8. ASSUME NEW b \in Earliest(Y) PROVE b = y
    <2>1. b \in Y /\ (b.t < y.t \/ (b.t = y.t /\ b.stage <= y.stage))
      BY <1>4 DEF Earliest
    <2>2. y.t < b.t \/ (y.t = b.t /\ y.stage <= b.stage)
      BY <1>6, <2>1
    <2>3. b.t \in Nat /\ b.stage \in Nat
      BY <1>1, <2>1
    <2>4. b.stage = y.stage
      BY <1>5, <2>1, <2>2, <2>3
    <2> QED BY <1>1, <2>1, <2>4
  <1> QED BY <1>2, <1>3, <1>4, <1>7, <1>8

LEMMA FoundNumbers ==
    ASSUME NEW ms \in Day, NEW st, st.after \in Int, NEW x \in LiveFound(ms, st)
    PROVE  x.t \in Nat /\ x.stage \in Nat
  <1> DEFINE A == StageRows(ms, x.stage, st.after)
  <1>1. x.stage \in DOMAIN Stages /\ SignalAt(x, A)
    BY LiveFoundAt
  <1>2. Timed(A)
    BY <1>1, StageRowsFacts
  <1> HIDE DEF A
  <1>3. x.t \in Nat
    BY <1>1, <1>2, TimedFacts DEF SignalAt
  <1> QED BY <1>1, <1>3, StagesAssumption

LEMMA EarliestTwin ==
    ASSUME NEW ms \in Day, NEW st, st.after \in Int, NEW x \in Earliest(LiveFound(Morning(ms), st))
    PROVE  /\ Earliest(LiveFound(Morning(ms), st)) = {x}
           /\ \E y : Earliest(LiveFound(ms, st)) = {y} /\ Twin(x, y, Len(Morning(ms)))
  <1> DEFINE p == Morning(ms)
             T == Len(p)
             X == LiveFound(p, st)
             Y == LiveFound(ms, st)
  <1>1. p \in Day /\ T \in Int
    BY MorningFacts
  <1>2. /\ \A a \in X : \E b \in Y : Twin(a, b, T)
        /\ \A b \in Y : b.t >= T \/ \E a \in X : Twin(a, b, T)
    BY LiveTwins
  <1> HIDE DEF p, T
  <1>3. \A a \in X : a.t \in Nat /\ a.stage \in Nat
    BY <1>1, FoundNumbers
  <1>4. \A a \in Y : a.t \in Nat /\ a.stage \in Nat
    BY FoundNumbers
  <1>5. \A a, b \in X : a.stage = b.stage => a = b
    BY <1>1, LiveFoundOnce
  <1>6. \A a, b \in Y : a.stage = b.stage => a = b
    BY LiveFoundOnce
  <1>7. x \in Earliest(X)
    BY DEF p
  <1> HIDE DEF X, Y
  <1>8. Twinned(X, Y, T)
    BY <1>2, <1>3, <1>4, <1>5, <1>6 DEF Twinned
  <1>9. Earliest(X) = {x} /\ \E y : Earliest(Y) = {y} /\ Twin(x, y, T)
    BY <1>1, <1>7, <1>8, FirstTwin
  <1> QED BY <1>9 DEF X, Y, p, T

\* The minute of a signal found early is a minute of the morning.
LEMMA SameMinute ==
    ASSUME NEW ms \in Day, NEW st, st.after \in Int, NEW x \in LiveFound(Morning(ms), st),
           NEW y, Twin(x, y, Len(Morning(ms)))
    PROVE  SignalMinute(Morning(ms), x) = SignalMinute(ms, y)
  <1> DEFINE p == Morning(ms)
             T == Len(p)
             A == StageRows(p, x.stage, st.after)
             Hit(c) == c.t \div Width = x.t \div Width /\ c.t >= x.t /\ Retraced(x.gap, c)
             S == {n \in DOMAIN p : Hit(p[n])}
             R == {n \in DOMAIN ms : Hit(ms[n])}
  <1>1. p \in Day /\ T \in Nat /\ T % Width = 0 /\ Early(p, ms, T)
    BY MorningFacts
  <1>2. /\ DOMAIN p = 1..Len(p) /\ DOMAIN ms = 1..Len(ms) /\ Len(p) \in Nat /\ Len(ms) \in Nat
        /\ Len(p) <= Len(ms) /\ \A n \in 1..Len(p) : p[n] = ms[n]
        /\ \A n \in 1..Len(ms) : ms[n].t \in Nat /\ (n > Len(p) => ms[n].t >= T)
    BY <1>1, TimedFacts DEF Early
  <1>3. x.stage \in DOMAIN Stages /\ SignalAt(x, A)
    BY <1>1, LiveFoundAt
  <1>4. x.t = y.t /\ x.gap = y.gap /\ x.t \in Nat /\ x.t < T
    BY DEF Twin
  <1>5. \A i \in 1..Len(A) : Extremes(p, Len(p), A[i], Width)
    BY <1>1, <1>3, StageRowsFacts
  <1>6. SignalMinute(p, x) = p[Min(S)] /\ SignalMinute(ms, y) = ms[Min(R)]
    BY <1>4 DEF SignalMinute
  <1> HIDE DEF p, T, A
  <1>7. ASSUME NEW n \in 1..Len(ms), n > Len(p) PROVE ~(ms[n].t \div Width = x.t \div Width)
    <2> DEFINE a == x.t
               b == ms[n].t
    <2>1. a \in Nat /\ b \in Nat /\ a < T /\ T <= b
      BY <1>1, <1>2, <1>4, <1>7
    <2> HIDE DEF a, b
    <2>2. a \div Width # b \div Width
      BY <1>1, <2>1, WidthAssumption, Separated
    <2> QED BY <2>2 DEF a, b
  <1>8. S = R
    <2>1. ASSUME NEW n \in R PROVE n \in S
      <3>1. n \in 1..Len(ms) /\ ~(n > Len(p))
        BY <1>2, <1>7, <2>1
      <3> HIDE DEF Hit
      <3>2. n \in 1..Len(p) /\ p[n] = ms[n]
        BY <1>2, <3>1
      <3> QED BY <1>2, <2>1, <3>2
    <2>2. ASSUME NEW n \in S PROVE n \in R
      <3> HIDE DEF Hit
      <3>1. n \in 1..Len(ms) /\ p[n] = ms[n]
        BY <1>2, <2>2
      <3> QED BY <1>2, <2>2, <3>1
    <2> QED BY <2>1, <2>2
  <1>9. S # {}
    <2>1. PICK i \in 1..Len(A) : x.t = A[i].t /\ Retraced(x.gap, A[i])
      BY <1>3 DEF SignalAt
    <2> DEFINE row == A[i]
               good == IF x.gap.side = "Long" THEN row.l ELSE row.h
    <2>2. \E m \in 1..Len(p) : InSlot(p[m], row, Width) /\ good = (IF x.gap.side = "Long" THEN p[m].l ELSE p[m].h)
      <3>1. Extremes(p, Len(p), row, Width)
        BY <1>5
      <3> HIDE DEF row
      <3> QED BY <3>1 DEF Extremes
    <2>3. ContainsPrice(x.gap, good)
      BY <2>1 DEF Retraced
    <2>4. x.t = row.t
      BY <2>1
    <2> HIDE DEF row, good
    <2>5. PICK m \in 1..Len(p) : InSlot(p[m], row, Width) /\ good = (IF x.gap.side = "Long" THEN p[m].l ELSE p[m].h)
      BY <2>2
    <2>6. Retraced(x.gap, p[m])
      BY <2>3, <2>5 DEF Retraced
    <2>7. Hit(p[m])
      BY <2>4, <2>5, <2>6 DEF InSlot
    <2> QED BY <1>2, <2>7
  <1> HIDE DEF Hit
  <1>10. S \in SUBSET Nat
    BY <1>2
  <1>11. Min(S) \in 1..Len(p)
    <2>1. S \subseteq 1..Len(p)
      BY <1>2
    <2> HIDE DEF S
    <2> QED BY <1>9, <1>10, <2>1, LeastNumber
  <1> HIDE DEF S, R
  <1>12. SignalMinute(p, x) = SignalMinute(ms, y)
    BY <1>2, <1>6, <1>8, <1>11
  <1> QED BY <1>12 DEF p

\* After the last row there is nothing to find.
LEMMA NothingLeft ==
    ASSUME NEW ms \in Day, NEW st, st.after \in Int, st.after = Last(Rows(ms)).t
    PROVE  LiveFound(ms, st) = {}
  <1> SUFFICES ASSUME NEW x \in LiveFound(ms, st) PROVE FALSE
    OBVIOUS
  <1> DEFINE A == StageRows(ms, x.stage, st.after)
             N == Len(A)
  <1>1. x.stage \in DOMAIN Stages /\ SignalAt(x, A)
    BY LiveFoundAt
  <1>2. /\ Timed(A) /\ (A # <<>> => Last(A) = Last(Rows(ms)))
        /\ \A i \in 1..N : A[i].t > st.after
    BY <1>1, StageRowsFacts
  <1> HIDE DEF A
  <1>3. N \in Nat /\ N # 0 /\ \A i \in 1..N : A[i].t \in Nat
    BY <1>1, <1>2, TimedFacts DEF SignalAt
  <1>4. A # <<>>
    BY <1>3, EmptySequence
  <1>5. Last(A) = A[N]
    BY DEF Last
  <1>6. N \in 1..N
    BY <1>3
  <1>7. A[N].t = st.after
    BY <1>2, <1>4, <1>5
  <1>8. A[N].t > st.after /\ A[N].t \in Nat
    BY <1>2, <1>3, <1>6
  <1> HIDE DEF N
  <1> QED BY <1>7, <1>8

\* The candles left to a signal end with the last row.
LEMMA LeftEnd ==
    ASSUME NEW ms \in Day, NEW st, st.after \in Int, NEW x \in LiveFound(ms, st), x.rest # <<>>
    PROVE  Timed(x.rest) /\ Last(x.rest) = Last(Rows(ms))
  <1> DEFINE A == StageRows(ms, x.stage, st.after)
  <1>1. x.stage \in DOMAIN Stages /\ SignalAt(x, A)
    BY LiveFoundAt
  <1>2. Timed(A) /\ (A # <<>> => Last(A) = Last(Rows(ms)))
    BY <1>1, StageRowsFacts
  <1> HIDE DEF A
  <1>3. PICK i \in 1..Len(A) : x.rest = Rest(A, i + 1)
    BY <1>1 DEF SignalAt
  <1>4. Len(A) \in Nat /\ i \in Nat \ {0}
    BY <1>2, TimedFacts
  <1> DEFINE k == i + 1
  <1>5. k \in Nat \ {0} /\ x.rest = Rest(A, k)
    BY <1>3, <1>4
  <1> HIDE DEF k
  <1>6. Timed(x.rest) /\ Len(x.rest) = IF k <= Len(A) THEN Len(A) - k + 1 ELSE 0
    BY <1>2, <1>5, RestTimed
  <1>7. Len(x.rest) # 0
    BY <1>6 DEF Timed
  <1>8. k <= Len(A)
    BY <1>6, <1>7
  <1>9. Last(x.rest) = Last(A)
    BY <1>2, <1>5, <1>8, LastRest
  <1>10. A # <<>>
    <2>1. Len(A) # 0
      BY <1>4, <1>5, <1>8
    <2> QED BY <2>1, EmptySequence
  <1> QED BY <1>2, <1>6, <1>9, <1>10

LEMMA EarlyLiveRound ==
    ASSUME NEW policy, NEW ms \in Day, NEW st, IsState(st), st.after \in Int
    PROVE  \/ LiveLikeRound(policy, Morning(ms), st) = LiveLikeRound(policy, ms, st)
           \/ /\ LiveLikeNext(policy, Morning(ms), LiveLikeRound(policy, Morning(ms), st)) = {}
              /\ Stops(st, LiveLikeRound(policy, Morning(ms), st))
  <1> DEFINE p == Morning(ms)
             X == Earliest(LiveFound(p, st))
             Y == Earliest(LiveFound(ms, st))
             q == LiveLikeRound(policy, p, st)
  <1>1. p \in Day
    BY MorningFacts
  <1>2. \A m, s : LiveLikeNext(policy, m, s) =
            UNION {AfterEarliest(policy, s, x, Plan(policy, x.gap), SignalMinute(m, x)) : x \in Earliest(LiveFound(m, s))}
    BY DEF LiveLikeNext, LiveFound
  <1>3. LiveLikeNext(policy, p, st) = {} => q = st
    BY DEF LiveLikeRound, Onward
  <1>4. CASE LiveLikeNext(policy, p, st) = {}
    BY <1>3, <1>4 DEF Stops
  <1>5. CASE LiveLikeNext(policy, p, st) # {}
    <2>1. X # {}
      BY <1>2, <1>5
    <2>2. PICK x : x \in X
      BY <2>1
    <2>3. x \in LiveFound(p, st)
      BY <2>2 DEF Earliest
    <2>4. X = {x} /\ \E y : Y = {y} /\ Twin(x, y, Len(p))
      BY <2>2, EarliestTwin
    <2>5. PICK y : Y = {y} /\ Twin(x, y, Len(p))
      BY <2>4
    <2>6. SignalMinute(p, x) = SignalMinute(ms, y)
      BY <2>3, <2>5, SameMinute
    <2> DEFINE plan == Plan(policy, x.gap)
               minute == SignalMinute(p, x)
               E(cs) == SimulateExit(plan, minute.t, cs)
    <2>7. x.gap = y.gap /\ x.t = y.t /\ Early(x.rest, y.rest, Len(p))
      BY <2>5 DEF Twin
    <2>8. LiveLikeNext(policy, p, st) = AfterEarliest(policy, st, x, plan, minute)
      <3>1. UNION {AfterEarliest(policy, st, z, Plan(policy, z.gap), SignalMinute(p, z)) : z \in {x}}
              = AfterEarliest(policy, st, x, plan, minute)
        OBVIOUS
      <3> HIDE DEF plan, minute
      <3> QED BY <1>2, <2>4, <3>1
    <2>9. LiveLikeNext(policy, ms, st) = AfterEarliest(policy, st, y, plan, minute)
      <3>1. UNION {AfterEarliest(policy, st, z, Plan(policy, z.gap), SignalMinute(ms, z)) : z \in {y}}
              = AfterEarliest(policy, st, y, Plan(policy, y.gap), SignalMinute(ms, y))
        OBVIOUS
      <3>2. Plan(policy, y.gap) = plan /\ SignalMinute(ms, y) = minute
        BY <2>6, <2>7
      <3> HIDE DEF plan, minute
      <3> QED BY <1>2, <2>5, <3>1, <3>2
    <2>10. LiveLikeNext(policy, p, st) = LiveLikeNext(policy, ms, st) => q = LiveLikeRound(policy, ms, st)
      BY DEF LiveLikeRound
    <2> HIDE DEF plan, minute, X, Y, p
    <2>11. CASE ~Fills(policy, plan, minute)
      <3>1. AfterEarliest(policy, st, x, plan, minute) = AfterEarliest(policy, st, y, plan, minute)
        BY <2>7, <2>11 DEF AfterEarliest
      <3> QED BY <2>8, <2>9, <2>10, <3>1 DEF p
    <2>12. CASE Fills(policy, plan, minute)
      <3>1. /\ LiveLikeNext(policy, p, st) = {Accepted(st, tr) : tr \in E(x.rest)}
            /\ LiveLikeNext(policy, ms, st) = {Accepted(st, tr) : tr \in E(y.rest)}
        BY <2>8, <2>9, <2>12 DEF AfterEarliest
      <3>2. CASE E(x.rest) = E(y.rest)
        <4>1. LiveLikeNext(policy, p, st) = LiveLikeNext(policy, ms, st)
          BY <3>1, <3>2
        <4> QED BY <2>10, <4>1 DEF p
      <3>3. CASE E(x.rest) # E(y.rest)
        <4>1. q \in LiveLikeNext(policy, p, st)
          BY <1>5 DEF LiveLikeRound, Onward, Only
        <4>2. PICK tr \in E(x.rest) : q = Accepted(st, tr)
          BY <3>1, <4>1
        <4>3. ~Settled(tr) /\ tr.tout = Last(x.rest).t
          <5>1. tr \in SimulateExit(plan, minute.t, x.rest)
            BY <4>2
          <5> DEFINE at == minute.t
                     c == x.rest
                     d == y.rest
          <5>2. Early(c, d, Len(p)) /\ tr \in SimulateExit(plan, at, c) /\ SimulateExit(plan, at, d) # SimulateExit(plan, at, c)
            BY <2>7, <3>3, <5>1
          <5> HIDE DEF at, c, d, E
          <5>3. ~Settled(tr) /\ tr.tout = Last(c).t
            BY <5>2, EarlyExit
          <5> QED BY <5>3 DEF c
        <4>4. x.rest # <<>>
          <5>1. x.rest = <<>> => E(x.rest) = {}
            BY NoExit
          <5> QED BY <4>2, <5>1
        <4>5. Timed(x.rest) /\ Last(x.rest) = Last(Rows(p))
          BY <1>1, <2>3, <4>4, LeftEnd
        <4>6. Last(x.rest).t \in Int
          <5> DEFINE c == x.rest
          <5>1. Timed(c) /\ c # <<>>
            BY <4>4, <4>5
          <5> HIDE DEF c
          <5>2. Len(c) # 0 /\ Len(c) \in Nat
            BY <5>1 DEF Timed
          <5>3. c[Len(c)].t \in Nat
            BY <5>1, <5>2, TimedFacts
          <5>4. Last(c).t \in Int
            BY <5>3 DEF Last
          <5> QED BY <5>4 DEF c
        <4> HIDE DEF q, E
        <4>7. q.after = tr.tout /\ q.out = Append(st.out, tr)
          BY <4>2 DEF Accepted, IsState
        <4>8. LiveFound(p, q) = {}
          <5>1. q.after \in Int /\ q.after = Last(Rows(p)).t
            BY <4>3, <4>5, <4>6, <4>7
          <5> QED BY <1>1, <5>1, NothingLeft
        <4>9. LiveLikeNext(policy, p, q) = {}
          <5>1. Earliest(LiveFound(p, q)) = {}
            BY <4>8 DEF Earliest
          <5> QED BY <1>2, <5>1
        <4>10. Stops(st, q)
          BY <4>3, <4>7 DEF Stops
        <4> QED BY <4>9, <4>10 DEF q, p
      <3> QED BY <3>2, <3>3
    <2> QED BY <2>11, <2>12
  <1> QED BY <1>4, <1>5

LEMMA LiveLikeGrows ==
    ASSUME NEW policy, NEW ms, NEW st, IsState(st)
    PROVE  Grows(st, LiveLikeRound(policy, ms, st))
  <1> DEFINE q == LiveLikeRound(policy, ms, st)
  <1>1. CASE LiveLikeNext(policy, ms, st) = {}
    BY <1>1 DEF LiveLikeRound, Onward, Grows
  <1>2. CASE LiveLikeNext(policy, ms, st) # {}
    <2>1. q \in LiveLikeNext(policy, ms, st)
      BY <1>2 DEF LiveLikeRound, Onward, Only
    <2> HIDE DEF q
    <2>2. \E x : q \in AfterEarliest(policy, st, x, Plan(policy, x.gap), SignalMinute(ms, x))
      BY <2>1 DEF LiveLikeNext
    <2>3. PICK x : q \in AfterEarliest(policy, st, x, Plan(policy, x.gap), SignalMinute(ms, x))
      BY <2>2
    <2> DEFINE plan == Plan(policy, x.gap)
               minute == SignalMinute(ms, x)
    <2>4. q \in AfterEarliest(policy, st, x, plan, minute)
      BY <2>3
    <2> HIDE DEF plan, minute
    <2>5. \/ q = [st EXCEPT !.after = AtLeast(st.after, x.t)]
          \/ \E tr : q = Accepted(st, tr)
      BY <2>4 DEF AfterEarliest
    <2>6. q.out = st.out \/ \E tr : q.out = Append(st.out, tr)
      BY <2>5 DEF Accepted, IsState
    <2> QED BY <2>6 DEF Grows, q
  <1> QED BY <1>1, <1>2

\* Of the trades of all stages the settled ones stand.
LEMMA EarlyPassive ==
    ASSUME NEW ms \in Day
    PROVE  Stands(Passive(Morning(ms)), Passive(ms))
  <1> DEFINE p == Morning(ms)
             M == Len(p)
             N == Len(ms)
             a == LiveLikeRounds("Passive", p)
             b == LiveLikeRounds("Passive", ms)
             D == {n \in 0..M : LiveLikeNext("Passive", p, a[n]) = {}}
  <1>1. M \in Nat /\ N \in Nat /\ M <= N
    BY MorningFacts, TimedFacts DEF Early
  <1>2. a[0] = NoTrades /\ \A n \in 1..M : a[n] = LiveLikeRound("Passive", p, a[n-1])
    BY <1>1, LiveLikeRoundsDef
  <1>3. b[0] = NoTrades /\ \A n \in 1..N : b[n] = LiveLikeRound("Passive", ms, b[n-1])
    BY <1>1, LiveLikeRoundsDef
  <1>4. Passive(p) = a[M].out /\ Passive(ms) = b[N].out
    BY DEF Passive, LiveLikeDay
  <1> HIDE DEF a, b, M, N
  <1>5. \A n \in 0..N : LiveLikeOk(ms, b[n])
    <2> DEFINE S == {n \in 0..N : LiveLikeOk(ms, b[n])}
    <2>1. LiveLikeOk(ms, NoTrades)
      <3>1. NoTrades.after = -1
        BY DEF NoTrades
      <3> QED BY <3>1, NoTradesOk DEF LiveLikeOk
    <2>2. 0 \in S /\ \A n \in 1..N : n - 1 \in S => n \in S
      BY <1>1, <1>3, <2>1, LiveLikeStep
    <2> HIDE DEF S
    <2>3. \A n \in 0..N : n \in S
      BY <1>1, <2>2, Induction
    <2> QED BY <2>3 DEF S
  <1>6. \A n \in 0..N : IsState(b[n]) /\ b[n].after \in Int /\ IsSequence(b[n].out)
    BY <1>5 DEF LiveLikeOk, StateOk, TradesOk
  <1>7. ASSUME NEW n \in 1..N PROVE Grows(b[n-1], b[n])
    <2>1. n - 1 \in 0..N
      BY <1>1
    <2> QED BY <1>3, <1>6, <2>1, LiveLikeGrows
  <1>8. ASSUME NEW n \in 1..M, n - 1 \in D PROVE n \in D /\ a[n] = a[n-1]
    <2>1. n \in 0..M /\ LiveLikeNext("Passive", p, a[n-1]) = {} /\ a[n] = LiveLikeRound("Passive", p, a[n-1])
      BY <1>1, <1>2, <1>8
    <2>2. a[n] = a[n-1]
      BY <2>1 DEF LiveLikeRound, Onward
    <2> QED BY <2>1, <2>2
  <1>9. ASSUME NEW n \in 1..M, a[n-1] = b[n-1]
        PROVE  a[n] = b[n] \/ (n \in D /\ Stops(a[n-1], a[n]))
    <2> DEFINE st == b[n-1]
    <2>1. n \in 0..M /\ n \in 1..N /\ n - 1 \in 0..N
      BY <1>1
    <2>2. a[n] = LiveLikeRound("Passive", p, st) /\ b[n] = LiveLikeRound("Passive", ms, st) /\ a[n-1] = st
      BY <1>2, <1>3, <1>9, <2>1
    <2>3. IsState(st) /\ st.after \in Int
      BY <1>6, <2>1
    <2> HIDE DEF st, D
    <2>4. \/ LiveLikeRound("Passive", p, st) = LiveLikeRound("Passive", ms, st)
          \/ /\ LiveLikeNext("Passive", p, LiveLikeRound("Passive", p, st)) = {}
             /\ Stops(st, LiveLikeRound("Passive", p, st))
      BY <2>3, EarlyLiveRound
    <2>5. a[n] = b[n] \/ (LiveLikeNext("Passive", p, a[n]) = {} /\ Stops(a[n-1], a[n]))
      BY <2>2, <2>4
    <2> QED BY <2>1, <2>5 DEF D
  <1> HIDE DEF D
  <1>10. Stands(a[M].out, b[N].out)
    BY <1>1, <1>2, <1>3, <1>6, <1>7, <1>8, <1>9, TwoRuns
  <1> QED BY <1>4, <1>10

--------------------------------------------------------------------------

\* What a simulation says of the settled trades of a morning stands at the end of the day,
\* whatever candles follow: neither path makes a choice after the fact (backtest.rs:660).
\* The last trade of the morning may end with its candles; that one is not settled.
THEOREM NothingInHindsight == Spec => []NoHindsight
<1>1. DayInv => NoHindsight
  <2> SUFFICES ASSUME DayInv PROVE NoHindsight
    OBVIOUS
  <2>1. day[1] \in Day
    BY DEF DayInv
  <2>2. Stands(Legacy(Morning(day[1])), Legacy(day[1])) /\ Stands(Passive(Morning(day[1])), Passive(day[1]))
    BY <2>1, EarlyLegacy, EarlyPassive
  <2> QED BY <2>2 DEF NoHindsight, Morning
<1> QED BY <1>1, DayInvariant, PTL
=============================================================================
