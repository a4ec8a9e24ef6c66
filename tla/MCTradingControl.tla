--------------------------- MODULE MCTradingControl ---------------------------
(* Instances of TradingControl for TLC. *)
EXTENDS TradingControl, TLC

CONSTANTS i1, i2, c1, c2

\* One share is held and wanted.
KeepOne == [i \in Instruments |-> 1]

RefreshNone == {[i \in Instruments |-> NoTarget]}
RefreshOne == {KeepOne}

\* One name is held, both are wanted.
HeldFirst == [i \in Instruments |-> IF i = i1 THEN 1 ELSE 0]

NoRefresh == {}

SellButtons == {"sell", "sell_all"}
OnlySell == {"sell"}
OnlySellAll == {"sell_all"}
SellAndPause == {"sell", "pause"}
SellPauseFreeze == {"sell", "pause", "freeze"}
SellAndFreeze == {"sell", "freeze"}

Symmetric == Permutations({c1, c2})
===============================================================================
