----------------------------- MODULE PositionWork -----------------------------
(***************************************************************************)
(* What the executor promises about an account, told without orders, cash, *)
(* reports or latches: work is started on an instrument only when none is  *)
(* under way there, it aims at (or short of) a target that was asked for,  *)
(* and until it ends the holding only moves towards that aim.              *)
(*                                                                         *)
(* held: the broker's holdings.  aim: what the holding will be if all the  *)
(* work under way on the instrument succeeds; aim = held when there is     *)
(* none.                                                                   *)
(***************************************************************************)
EXTENDS Integers

CONSTANTS Instruments, Goals, InitHeld   \* Goals[i]: the targets ever asked for i

VARIABLES held, aim

vars == <<held, aim>>

Init == held = InitHeld /\ aim = InitHeld

Between(a, x, b) == (a <= x /\ x <= b) \/ (b <= x /\ x <= a)

\* A buy aims at a target exactly; a sell may stop short of one.
Start(i) ==
    /\ aim[i] = held[i]
    /\ held'[i] = held[i]
    /\ \/ aim'[i] > held[i] /\ aim'[i] \in Goals[i]
       \/ aim'[i] < held[i] /\ \E g \in Goals[i] : g <= aim'[i]

\* Some of the work is done, and some of the rest may be given up.
Progress(i) ==
    /\ Between(held[i], held'[i], aim[i])
    /\ Between(held'[i], aim'[i], aim[i])

\* One cycle or one restart may touch several instruments.
Next ==
    /\ held' \in [Instruments -> Nat] /\ aim' \in [Instruments -> Nat]
    /\ \A i \in Instruments : Start(i) \/ Progress(i)

Spec == Init /\ [][Next]_vars
===============================================================================
