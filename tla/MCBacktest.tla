----------------------------- MODULE MCBacktest -----------------------------
\* Days of two-minute slots around one opening range: quiet below it (Low), out
\* of it (Up), above it (Top), back into the gap (Dip), to the take-profit (Peak).
EXTENDS Backtest

Bar(a, b, c, d, e, f) ==
    <<[o |-> a, h |-> AtLeast(a, b), l |-> c, c |-> b], [o |-> b, h |-> d, l |-> e, c |-> f]>>
Low  == Bar(999, 1000, 998, 1000, 999, 999)
Up   == Bar(1000, 1004, 1000, 1011, 1004, 1010)
Top  == Bar(1010, 1008, 1006, 1012, 1008, 1011)
Dip  == Bar(1011, 1007, 1007, 1007, 1002, 1005)
Peak == Bar(1006, 1010, 1005, 1019, 1010, 1018)

Hover == Bar(1004, 1003, 1001, 1004, 1002, 1003)
Sag  == Bar(1004, 1005, 1003, 1005, 1002, 1004)

MCBars   == {<<Low, Top>>, <<Up, Dip>>, <<Top, Low>>, <<Dip, Up>>, <<Peak, Low>>, <<Sag, Dip>>, <<Hover, Hover>>}
\* The first code stopped out while the second has a gap open; both in the gap at
\* once; the first code late; the first code out at its entry price.
Opened(bars) ==
    LET Code(k) == FoldLeft(LAMBDA ms, b : With(ms, b[k]), <<>>, bars) IN <<Code(1), Code(2)>>
MCStarts == {Opened(bars) : bars \in
            {<< <<Low, Low>>, <<Low, Top>>, <<Up, Dip>>, <<Top, Low>>, <<Dip, Up>>, <<Low, Top>> >>,
             << <<Low, Low>>, <<Low, Low>>, <<Up, Up>>, <<Top, Top>>, <<Dip, Hover>>, <<Hover, Dip>> >>,
             << <<Low, Low>>, <<Top, Low>>, <<Low, Up>>, <<Up, Top>>, <<Top, Dip>>, <<Dip, Hover>> >>,
             << <<Low, Low>>, <<Low, Top>>, <<Up, Low>>, <<Top, Up>>, <<Dip, Top>>, <<Sag, Dip>> >>}}
MCStages == <<2, 4>>
MCLoss   == -45
=============================================================================
