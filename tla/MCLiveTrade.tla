---------------------------- MODULE MCLiveTrade ----------------------------
\* Risk 4: break-even at 2 above the entry, the stop 3 behind the best price, the
\* take-profit 9 above the entry, which is 100 or 95.
EXTENDS LiveTrade
MCPrices  == {95, 100, 102, 106}
MCSignals == {[t |-> 1, price |-> 100, risk |-> 4]}
=============================================================================
