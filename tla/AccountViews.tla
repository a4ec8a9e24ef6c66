----------------------------- MODULE AccountViews -----------------------------
(***************************************************************************)
(* One account, read two ways: the value a plan is sized on                *)
(* (src/strategies/target_quantities.py) and the asset panel of the        *)
(* control server.  Both read the info of the last account event, which    *)
(* lags the account and may lack fields.                                   *)
(*                                                                         *)
(* Every share is worth Price; the cash of a sell is there at once, while  *)
(* total_asset counts it twice until it is settled.  What the planner may  *)
(* invest of the value is not modelled: it takes off a buffer, takes the   *)
(* holdings' value instead for one account, and raises what is not above   *)
(* the holdings (model_prediction_targets.py:974-986).                     *)
(***************************************************************************)
EXTENDS Integers

CONSTANTS
    Price,
    Shares,       \* shares that there are to hold (bound)
    Unsettled,    \* greatest amount not settled (bound)
    Fields,       \* the sets of fields that an event may come with
    InitialCash   \* config.initial_cash

VARIABLES
    cash, frozen, held, unsettled,  \* the account
    info,       \* the last event's: the fields it has, each with its value
    equity      \* nautilus' portfolio equity, Missing without one

account == <<cash, frozen, held, unsettled>>
vars == <<account, info, equity>>

Missing == -1
NoInfo  == [f \in {} |-> 0]

Init ==
    /\ held \in 0 .. Shares /\ cash = (Shares - held) * Price
    /\ frozen = 0 /\ unsettled = 0
    /\ info = NoInfo /\ equity = Missing

Worth == cash + frozen + held * Price

-----------------------------------------------------------------------------
(* The account *)

SendBuy ==
    /\ cash >= Price
    /\ cash' = cash - Price /\ frozen' = frozen + Price
    /\ UNCHANGED <<held, unsettled, info, equity>>

FillBuy ==
    /\ frozen >= Price
    /\ frozen' = frozen - Price /\ held' = held + 1
    /\ UNCHANGED <<cash, unsettled, info, equity>>

CancelBuy ==
    /\ frozen >= Price
    /\ frozen' = frozen - Price /\ cash' = cash + Price
    /\ UNCHANGED <<held, unsettled, info, equity>>

FillSell ==
    /\ held > 0 /\ unsettled < Unsettled
    /\ held' = held - 1 /\ cash' = cash + Price /\ unsettled' = unsettled + Price
    /\ UNCHANGED <<frozen, info, equity>>

Settle ==
    /\ unsettled' = 0
    /\ UNCHANGED <<cash, frozen, held, info, equity>>

\* An account event: the broker's numbers of this moment, in some of the fields; the value
\* of the holdings may come as 0.
Publish(fields, value) ==
    /\ info' = [f \in fields |->
                  CASE f = "cash" -> cash
                    [] f = "available_cash" -> cash
                    [] f = "frozen_cash" -> frozen
                    [] f = "market_value" -> value
                    [] f = "total_asset" -> cash + frozen + value + unsettled]
    /\ equity' = IF equity = Missing THEN Worth ELSE equity
    /\ UNCHANGED account

Restart ==
    /\ info' = NoInfo /\ equity' = Missing
    /\ UNCHANGED account

-----------------------------------------------------------------------------
(* The readers *)

Has(f) == f \in DOMAIN info

\* _info_decimal: the first of the fields that is there
Field(f, other) == IF Has(f) THEN info[f] ELSE IF Has(other) THEN info[other] ELSE Missing

Cash   == Field("available_cash", "cash")
Frozen == IF Has("frozen_cash") THEN info["frozen_cash"] ELSE 0

ComponentsWithoutFrozen ==     \* mutant of Components: what is frozen for orders is not counted
    IF Has("market_value") /\ Cash # Missing THEN info["market_value"] + Cash ELSE Missing

\* _broker_total_asset_from_components: from one event, or not at all
Components ==
    IF Has("market_value") /\ Cash # Missing
      THEN info["market_value"] + Cash + Frozen
      ELSE Missing

PortfolioValue ==
    IF Components > 0 THEN Components
    ELSE IF equity # Missing THEN equity ELSE InitialCash

\* The page rebuilds the total when the broker's value of the holdings is missing or 0.
PageRebuilt == ~Has("market_value") \/ info["market_value"] < 1

PageTotal ==
    IF PageRebuilt /\ Field("cash", "available_cash") # Missing
      THEN Field("cash", "available_cash") + Frozen + held * Price
      ELSE IF Has("total_asset") THEN info["total_asset"] ELSE Missing

Next ==
    \/ SendBuy \/ FillBuy \/ CancelBuy \/ FillSell \/ Settle
    \/ \E fields \in Fields, value \in {held * Price, 0} : Publish(fields, value)
    \/ Restart

Spec == Init /\ [][Next]_vars

-----------------------------------------------------------------------------
(* Properties *)

\* Types of the account: all that is ever bought is paid for from what there was.
TypeOK ==
    /\ held \in 0 .. Shares /\ cash >= 0 /\ frozen >= 0 /\ unsettled >= 0
    /\ Worth = Shares * Price
    /\ DOMAIN info \subseteq {"cash", "available_cash", "frozen_cash", "market_value", "total_asset"}

\* "The true investable asset": whatever orders were sent, filled and cancelled since the
\* last event, and whatever has not been settled, the total a plan starts from is what the
\* account is worth, if the event tells what is frozen and a real value of the holdings.
SizedOnWorth ==
    (Has("frozen_cash") /\ Components # Missing /\ info["market_value"] # 0) =>
        PortfolioValue = Worth

\* A total that the page rebuilds from an event that tells what the account has now is
\* what the account is worth.
PageTellsWorth ==
    (PageRebuilt /\ Has("frozen_cash") /\ Frozen = frozen
        /\ Field("cash", "available_cash") = cash) => PageTotal = Worth

\* "Recompute total asset from the settled components ... matching the QMT UI invariant
\* 总资产 = 总市值 + 可用金额 + 冻结金额" (target_quantities.py:3157): a plan is sized on what
\* the account is worth, whatever the broker says of the value of the holdings.
SizedOnTotalAsset ==
    Has("frozen_cash") /\ Components # Missing => PortfolioValue = Worth
===============================================================================
