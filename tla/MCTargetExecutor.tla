--------------------------- MODULE MCTargetExecutor ---------------------------
(***************************************************************************)
(* A small instance of TargetExecutor: one holding to sell and one stock   *)
(* to buy that the starting cash does not cover, so buys wait for sells.   *)
(***************************************************************************)
EXTENDS TargetExecutor, TLC

\* Map 1 rotates out of 1 into 2; maps 2 and 3 have the same count and total.
Rotate   == (1 :> 0) @@ (2 :> 2)
Split    == (1 :> 1) @@ (2 :> 1)
OnlyTwo  == (1 :> NoTarget) @@ (2 :> 2)

MCMaps   == {Rotate, Split, OnlyTwo}
FewMaps  == {Rotate, Split}

\* Two stocks to buy with the cash for one.
BuyBoth  == {(1 :> 1) @@ (2 :> 1)}
HeldNone == (1 :> 0) @@ (2 :> 0)

\* One stock, bought up and then sold out the same day.
UpThenOut == {(1 :> 2), (1 :> 0)}
HeldOne   == (1 :> 1)

MCPrice  == [i \in Instruments |-> 1]
MCHeld   == (1 :> 2) @@ (2 :> 0)
===============================================================================
