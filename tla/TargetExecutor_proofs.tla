------------------------ MODULE TargetExecutor_proofs ------------------------
(***************************************************************************)
(* Proofs about TargetExecutor, for any set of instruments, prices, target *)
(* maps and holdings.                                                      *)
(***************************************************************************)
EXTENDS TargetExecutor, SumTheorems

\* The smaller and the larger of two integers, as FiniteSetsExt defines them.
LEMMA MinOfTwo ==
    ASSUME NEW a \in Int, NEW b \in Int
    PROVE  Min({a, b}) \in {a, b} /\ Min({a, b}) <= a /\ Min({a, b}) <= b
<1>1. \E x \in {a, b} : \A y \in {a, b} : x =< y
    <2>1. CASE a <= b
        BY <2>1
    <2>2. CASE b <= a
        BY <2>2
    <2> QED
        BY <2>1, <2>2
<1> QED
    BY <1>1 DEF Min

LEMMA MaxOfTwo ==
    ASSUME NEW a \in Int, NEW b \in Int
    PROVE  Max({a, b}) \in {a, b} /\ Max({a, b}) >= a /\ Max({a, b}) >= b
<1>1. \E x \in {a, b} : \A y \in {a, b} : x >= y
    <2>1. CASE a <= b
        BY <2>1
    <2>2. CASE b <= a
        BY <2>2
    <2> QED
        BY <2>1, <2>2
<1> QED
    BY <1>1 DEF Max

\* What the memory a cycle starts from asks for.
LEMMA DesiredType ==
    ASSUME TypeOK, NEW m \in Memory, NEW i \in Instruments
    PROVE  Desired(m)[i] \in Nat \cup {NoTarget}
BY DEF TypeOK, Memory, Desired

\* A sell is never larger than the excess over the target (_clamp_sell_quantity).
LEMMA SellQuantityBound ==
    ASSUME TypeOK, NEW m \in Memory, NEW i \in Instruments,
           Desired(m)[i] # NoTarget
    PROVE  SellQuantity(m, i) \in Int /\ SellQuantity(m, i) <= pos[i] - Desired(m)[i]
<1>1. Desired(m)[i] \in Nat
    BY DesiredType
<1>2. pos[i] \in Int /\ SellableBase(i) \in Int
    BY DEF TypeOK, SellableBase, NoReport
<1>3. Max({0, SellableBase(i)}) \in Int
    <2>1. 0 \in Int /\ SellableBase(i) \in Int
        BY <1>2
    <2>2. Max({0, SellableBase(i)}) \in {0, SellableBase(i)}
        BY <2>1, MaxOfTwo
    <2> QED
        BY <2>1, <2>2
<1>4. pos[i] - Desired(m)[i] \in Int
    BY <1>1, <1>2
<1>5. Min({pos[i] - Desired(m)[i], Max({0, SellableBase(i)})})
        \in {pos[i] - Desired(m)[i], Max({0, SellableBase(i)})}
      /\ Min({pos[i] - Desired(m)[i], Max({0, SellableBase(i)})}) <= pos[i] - Desired(m)[i]
    BY <1>3, <1>4, MinOfTwo
<1> QED
    BY <1>3, <1>4, <1>5 DEF SellQuantity

\* An order a cycle sends is well formed.
LEMMA NewOrderType ==
    ASSUME NEW side \in {"BUY", "SELL"}, NEW q \in Nat, NEW g \in Nat
    PROVE  NewOrder(side, q, g) \in Order
BY DEF NewOrder, Order

(***************************************************************************)
(* The inductive invariant.  Once reconciled, the cache differs from the   *)
(* broker's books only by fills that wait in the event queue: this is what *)
(* makes an order computed from pos safe for held.                         *)
(***************************************************************************)
CacheFollowsBroker ==
    reconciled => \A i \in Instruments : held[i] = pos[i] + late[i]

IInv == TypeOK /\ NeverOvershoots /\ CacheFollowsBroker

\* The state before the first target: types hold and nothing is at work.
LEMMA InitEstablishes == Init => IInv
<1> SUFFICES ASSUME Init PROVE IInv
    OBVIOUS
<1>1. TypeOK
    <2>1. mem \in Memory
        BY DEF Init, FreshMemory, Memory, NoTargets, Versions
    <2>2. pos \in [Instruments -> Int] /\ held \in [Instruments -> Nat]
          /\ avail \in [Instruments -> Nat]
        BY ConfigAssumption DEF Init
    <2>3. ord \in [Instruments -> Order \cup {NoOrder}]
        BY DEF Init
    <2>4. /\ late \in [Instruments -> Int] /\ todayBuy \in [Instruments -> Nat]
          /\ unreleased \in [Instruments -> Nat] /\ denied \subseteq Instruments
          /\ canUse \in [Instruments -> Nat \cup {NoReport}]
        BY DEF Init
    <2> QED
        BY <2>1, <2>2, <2>3, <2>4, ConfigAssumption DEF Init, TypeOK
<1>2. NeverOvershoots
    BY DEF Init, NeverOvershoots, NoOrder
<1>3. CacheFollowsBroker
    BY DEF Init, CacheFollowsBroker
<1> QED
    BY <1>1, <1>2, <1>3 DEF IInv

\* A cycle's orders, whatever it starts from: an order is kept, cancelled, or new
\* and computed from pos.
LEMMA CycleOrders ==
    ASSUME TypeOK, NEW m \in Memory, NEW timedOut \in SUBSET OpenOrders,
           NEW atLimit \in SUBSET Instruments, NEW unpriced \in SUBSET Instruments,
           Cycle(m, timedOut, atLimit, unpriced), NEW i \in Instruments
    PROVE  \/ ord'[i] = ord[i]
           \/ ord[i].st = "open" /\ ord'[i] = [ord[i] EXCEPT !.st = "pcancel"]
           \/ /\ ord[i].st = "none" /\ Desired(m)[i] \in Nat
              /\ \E q \in Nat \ {0} :
                    \/ /\ ord'[i] = NewOrder("SELL", q, Desired(m)[i])
                       /\ q <= pos[i] - Desired(m)[i]
                    \/ /\ ord'[i] = NewOrder("BUY", q, Desired(m)[i])
                       /\ q = Desired(m)[i] - pos[i]
<1> DEFINE o == [j \in Instruments |->
                   IF j \in timedOut THEN [ord[j] EXCEPT !.st = "pcancel"] ELSE ord[j]]
           intents == {j \in Instruments \ (m.frozen \cup unpriced) :
                         ~Active(o, j) /\ HasIntent(m, j)}
           tradable == intents \ atLimit
           offered == {j \in tradable : pos[j] > Desired(m)[j] /\ j \notin m.exhausted}
           sells == {j \in offered : SellQuantity(m, j) > 0}
           buys  == {j \in tradable : pos[j] < Desired(m)[j]}
<1>1. PICK S \in SUBSET buys :
        ord' = [j \in Instruments |->
                  IF j \in sells THEN NewOrder("SELL", SellQuantity(m, j), Desired(m)[j])
                  ELSE IF j \in S THEN NewOrder("BUY", Desired(m)[j] - pos[j], Desired(m)[j])
                  ELSE o[j]]
    BY DEF Cycle
<1>2. pos[i] \in Int /\ ord[i] \in Order \cup {NoOrder}
    BY DEF TypeOK
<1>3. i \in timedOut => ord[i].st = "open"
    BY DEF OpenOrders
<1>4. ASSUME i \in tradable
      PROVE  ord[i].st = "none" /\ Desired(m)[i] \in Nat
    <2>1. ~Active(o, i) /\ HasIntent(m, i)
        BY <1>4
    <2>2. i \notin timedOut
        <3>1. i \in timedOut => o[i].st = "pcancel"
            BY <1>2, <1>3 DEF Order, NoOrder
        <3> QED
            BY <2>1, <3>1 DEF Active
    <2>3. ord[i].st = "none"
        BY <2>1, <2>2 DEF Active
    <2>4. Desired(m)[i] \in Nat
        BY <2>1, DesiredType DEF HasIntent
    <2> QED
        BY <2>3, <2>4
<1>5. CASE i \in sells
    <2>1. SellQuantity(m, i) \in Nat \ {0} /\ SellQuantity(m, i) <= pos[i] - Desired(m)[i]
        BY <1>4, <1>5, SellQuantityBound DEF NoTarget
    <2> QED
        BY <1>1, <1>4, <1>5, <2>1
<1>6. CASE i \notin sells /\ i \in S
    <2>1. Desired(m)[i] - pos[i] \in Nat \ {0}
        BY <1>2, <1>4, <1>6
    <2> QED
        BY <1>1, <1>4, <1>6, <2>1
<1>7. CASE i \notin sells /\ i \notin S
    BY <1>1, <1>3, <1>7
<1> QED
    BY <1>5, <1>6, <1>7

\* A cycle keeps the invariant when the cache shows what the broker holds.
LEMMA CycleKeeps ==
    ASSUME IInv, NEW m \in Memory, NEW timedOut \in SUBSET OpenOrders,
           NEW atLimit \in SUBSET Instruments, NEW unpriced \in SUBSET Instruments,
           m.version \in Versions, \A i \in Instruments : held[i] = pos[i],
           Cycle(m, timedOut, atLimit, unpriced)
    PROVE  IInv'
<1> USE DEF IInv
<1>1. UNCHANGED <<pos, late, cash, canUse, todayBuy, reconciled, recentSellCancel,
                  held, vcash, avail, unreleased, denied>>
    BY DEF Cycle, venueVars
<1>2. mem' \in Memory
    <2>1. \A p : \A n \in Memory : MarkAchieved(n, p) \in Memory
        BY DEF MarkAchieved, Memory
    <2>2. \E F, D, I, X \in SUBSET Instruments :
            mem' = MarkAchieved([m EXCEPT !.frozen = F, !.deferred = D,
                                          !.insufficient = I, !.exhausted = X], ord')
        BY DEF Cycle, Memory
    <2>3. PICK F, D, I, X \in SUBSET Instruments :
            mem' = MarkAchieved([m EXCEPT !.frozen = F, !.deferred = D,
                                          !.insufficient = I, !.exhausted = X], ord')
        BY <2>2
    <2>4. [m EXCEPT !.frozen = F, !.deferred = D,
                    !.insufficient = I, !.exhausted = X] \in Memory
        BY DEF Memory
    <2> QED
        BY <2>1, <2>3, <2>4
<1>3. DOMAIN ord' = Instruments /\ ord' = [i \in Instruments |-> ord'[i]]
    BY DEF Cycle
<1> DEFINE Sound(o, i) ==
             /\ o \in Order \cup {NoOrder}
             /\ o.side = "BUY"  => held[i] + o.leaves <= o.goal
             /\ o.side = "SELL" => held[i] - o.leaves >= o.goal
<1>4. ASSUME NEW i \in Instruments
      PROVE  Sound(ord'[i], i)
    <2>1. ord[i] \in Order \cup {NoOrder} /\ pos[i] \in Int /\ held[i] \in Nat
        BY DEF TypeOK
    <2>2. CASE ord'[i] = ord[i]
        BY <2>1, <2>2 DEF NeverOvershoots
    <2>3. CASE ord[i].st = "open" /\ ord'[i] = [ord[i] EXCEPT !.st = "pcancel"]
        BY <2>1, <2>3 DEF NeverOvershoots, Order, NoOrder
    <2>4. ASSUME NEW q \in Nat \ {0}, NEW g \in Nat,
                 ord'[i] = NewOrder("SELL", q, g), q <= pos[i] - g
          PROVE  Sound(ord'[i], i)
        BY <2>1, <2>4, NewOrderType DEF NewOrder
    <2>5. ASSUME NEW q \in Nat \ {0}, NEW g \in Nat,
                 ord'[i] = NewOrder("BUY", q, g), q = g - pos[i]
          PROVE  Sound(ord'[i], i)
        BY <2>1, <2>5, NewOrderType DEF NewOrder
    <2> QED
        BY <2>2, <2>3, <2>4, <2>5, CycleOrders
<1>5. TypeOK'
    BY <1>1, <1>2, <1>3, <1>4 DEF TypeOK
<1>6. NeverOvershoots'
    BY <1>1, <1>4 DEF NeverOvershoots
<1>7. CacheFollowsBroker'
    BY <1>1 DEF CacheFollowsBroker
<1> QED
    BY <1>5, <1>6, <1>7

\* In force when a cycle may run: the queue is drained, so the cache is right.
LEMMA ReadyMeansAligned ==
    ASSUME IInv, RacingFillQueued, NEW m, CanConverge(m)
    PROVE  \A i \in Instruments : held[i] = pos[i]
<1>1. \A i \in Instruments : late[i] = 0 /\ held[i] = pos[i] + late[i]
    BY DEF CanConverge, QueueDrained, IInv, CacheFollowsBroker
<1>2. \A i \in Instruments : pos[i] \in Int
    BY DEF IInv, TypeOK
<1> QED
    BY <1>1, <1>2

\* Whatever a convergence or a target update does to orders, the invariant survives.
LEMMA ConvergenceKeeps ==
    ASSUME IInv, RacingFillQueued, NEW m \in Memory, CanConverge(m), ConvergeSomehow(m)
    PROVE  IInv'
<1>1. PICK timedOut \in SUBSET OpenOrders, atLimit \in SUBSET Instruments,
           unpriced \in SUBSET Instruments : Cycle(m, timedOut, atLimit, unpriced)
    BY DEF ConvergeSomehow
<1>2. m.version \in Versions
    BY DEF Memory
<1> QED
    BY <1>1, <1>2, CycleKeeps, ReadyMeansAligned

LEMMA AcceptedType ==
    ASSUME TypeOK, NEW t \in TargetMaps
    PROVE  Accepted(t) \in Memory
<1>1. /\ mem \in Memory /\ t \in [Instruments -> Nat \cup {NoTarget}]
      /\ Version(t) \in Versions
    BY ConfigAssumption DEF TypeOK, Versions
<1> QED
    BY <1>1 DEF Accepted, Memory

LEMMA TargetUpdateKeeps ==
    ASSUME IInv, RacingFillQueued, NEW t \in TargetMaps, UpdateTarget(t)
    PROVE  IInv'
<1>1. Accepted(t) \in Memory
    BY AcceptedType DEF IInv
<1>2. CASE CanConverge(Accepted(t)) /\ ConvergeSomehow(Accepted(t))
    BY <1>1, <1>2, ConvergenceKeeps
<1>3. CASE mem' = Accepted(t) /\ UNCHANGED <<cacheVars, recentSellCancel, venueVars>>
    BY <1>1, <1>3 DEF IInv, TypeOK, NeverOvershoots, CacheFollowsBroker,
                      cacheVars, venueVars
<1> QED
    BY <1>2, <1>3 DEF UpdateTarget

\* Order events.  Releasing latches keeps the memory well formed.
LEMMA ReleasedByType ==
    ASSUME mem \in Memory, NEW i \in Instruments, NEW side
    PROVE  ReleasedBy(i, side) \in Memory
BY DEF ReleasedBy, Memory

LEMMA AcceptKeeps ==
    ASSUME IInv, NEW i \in Instruments, Accept(i)
    PROVE  IInv'
<1> USE DEF IInv
<1>1. ord[i] \in Order /\ Price[i] \in Nat /\ vcash \in Nat /\ avail[i] \in Nat
    <2>1. ord[i] \in Order
        BY DEF TypeOK, Accept, NoOrder
    <2>2. Price[i] \in Nat
        BY ConfigAssumption
    <2> QED
        BY <2>1, <2>2 DEF TypeOK
<1>2. ord[i].leaves * Price[i] \in Nat
    BY <1>1 DEF Order
<1>3. vcash' \in Nat /\ avail' \in [Instruments -> Nat]
    BY <1>1, <1>2 DEF Accept, TypeOK, Order
<1>4. ord' = [ord EXCEPT ![i] = [ord[i] EXCEPT !.st = "open"]]
    BY DEF Accept
<1>5. [ord[i] EXCEPT !.st = "open"] \in Order
    BY <1>1 DEF Order
<1>6. TypeOK'
    BY <1>3, <1>4, <1>5 DEF Accept, TypeOK, strategyVars
<1>7. NeverOvershoots'
    BY <1>1, <1>4 DEF Accept, NeverOvershoots, TypeOK, Order
<1>8. CacheFollowsBroker'
    BY DEF Accept, CacheFollowsBroker
<1> QED
    BY <1>6, <1>7, <1>8

LEMMA FillKeeps ==
    ASSUME IInv, NEW i \in Instruments, NEW q \in 1 .. ord[i].leaves, Fill(i, q)
    PROVE  IInv'
<1> USE DEF IInv
<1>1. ord[i] \in Order /\ Price[i] \in Nat /\ vcash \in Nat /\ held[i] \in Nat
      /\ pos[i] \in Int /\ q \in Nat /\ q <= ord[i].leaves
    <2>1. ord[i] \in Order
        BY DEF TypeOK, Fill, NoOrder
    <2>2. Price[i] \in Nat
        BY ConfigAssumption
    <2> QED
        BY <2>1, <2>2 DEF TypeOK, Order
<1>2. Sign(i) \in {1, 0 - 1} /\ (Sign(i) = 1 <=> ord[i].side = "BUY")
    BY <1>1 DEF Sign, Order
<1>3. held[i] + Sign(i) * q \in Nat /\ pos[i] + Sign(i) * q \in Int
    <2>1. CASE ord[i].side = "BUY"
        BY <1>1, <1>2, <2>1
    <2>2. CASE ord[i].side = "SELL"
        BY <1>1, <1>2, <2>2 DEF NeverOvershoots, Order
    <2> QED
        BY <1>1, <2>1, <2>2 DEF Order
<1>4. vcash' \in Nat /\ todayBuy' \in [Instruments -> Nat]
    <2>1. q * Price[i] \in Nat
        BY <1>1
    <2> QED
        BY <1>1, <2>1 DEF Fill, TypeOK
<1>5. ord' = [ord EXCEPT ![i] = IF q = ord[i].leaves THEN NoOrder
                                ELSE [ord[i] EXCEPT !.leaves = ord[i].leaves - q]]
    BY DEF Fill
<1>6. ord' \in [Instruments -> Order \cup {NoOrder}]
    BY <1>1, <1>5 DEF TypeOK, Order
<1>7. held' \in [Instruments -> Nat] /\ pos' \in [Instruments -> Int]
    BY <1>3 DEF Fill, TypeOK
<1>8. mem' \in Memory
    BY ReleasedByType DEF Fill, TypeOK
<1>9. TypeOK'
    BY <1>4, <1>6, <1>7, <1>8 DEF Fill, TypeOK
<1>10. NeverOvershoots'
    <2>1. ASSUME NEW j \in Instruments, j # i
          PROVE  ord'[j] = ord[j] /\ held'[j] = held[j]
        BY <1>5, <2>1 DEF Fill, TypeOK
    <2>2. /\ ord'[i].side = "BUY" => held'[i] + ord'[i].leaves <= ord'[i].goal
          /\ ord'[i].side = "SELL" => held'[i] - ord'[i].leaves >= ord'[i].goal
        <3>1. held'[i] = held[i] + Sign(i) * q
            BY DEF Fill, TypeOK
        <3>2. CASE q = ord[i].leaves
            BY <1>5, <3>2 DEF TypeOK, NoOrder
        <3>3. CASE q # ord[i].leaves
            <4>1. ord'[i] = [ord[i] EXCEPT !.leaves = ord[i].leaves - q]
                BY <1>5, <3>3 DEF TypeOK
            <4> QED
                BY <1>1, <1>2, <3>1, <4>1 DEF NeverOvershoots, Order
        <3> QED
            BY <3>2, <3>3
    <2> QED
        BY <2>1, <2>2 DEF NeverOvershoots
<1>11. CacheFollowsBroker'
    BY <1>1, <1>2 DEF Fill, CacheFollowsBroker, TypeOK
<1> QED
    BY <1>9, <1>10, <1>11

LEMMA CancelConfirmedKeeps ==
    ASSUME IInv, NEW i \in Instruments, NEW r \in 0 .. ord[i].leaves,
           CancelConfirmed(i, r)
    PROVE  IInv'
<1> USE DEF IInv
<1>1. ord[i] \in Order /\ Price[i] \in Nat /\ vcash \in Nat /\ held[i] \in Nat
      /\ r \in Nat /\ r <= ord[i].leaves /\ unreleased[i] \in Nat
    <2>1. ord[i] \in Order
        BY DEF TypeOK, CancelConfirmed, NoOrder
    <2>2. Price[i] \in Nat
        BY ConfigAssumption
    <2> QED
        BY <2>1, <2>2 DEF TypeOK, Order
<1>2. r * Price[i] \in Nat /\ ord[i].leaves - r \in Nat
      /\ (ord[i].leaves - r) * Price[i] \in Nat
    BY <1>1 DEF Order
<1>3. Sign(i) \in {1, 0 - 1} /\ Sign(i) * r \in Int /\ held[i] + Sign(i) * r \in Nat
    <2>1. CASE ord[i].side = "BUY"
        BY <1>1, <2>1 DEF Sign
    <2>2. CASE ord[i].side = "SELL"
        BY <1>1, <2>2 DEF Sign, NeverOvershoots, Order
    <2> QED
        BY <1>1, <2>1, <2>2 DEF Order
<1>4. vcash' \in Nat /\ unreleased' \in [Instruments -> Nat]
      /\ recentSellCancel' \subseteq Instruments
    BY <1>1, <1>2 DEF CancelConfirmed, TypeOK
<1>5. held' \in [Instruments -> Nat] /\ late' \in [Instruments -> Int]
      /\ ord' \in [Instruments -> Order \cup {NoOrder}]
    BY <1>3 DEF CancelConfirmed, TypeOK
<1>6. TypeOK'
    BY <1>4, <1>5 DEF CancelConfirmed, TypeOK
<1>7. NeverOvershoots'
    BY DEF CancelConfirmed, NeverOvershoots, TypeOK, NoOrder
<1>8. CacheFollowsBroker'
    BY <1>3 DEF CancelConfirmed, CacheFollowsBroker, TypeOK
<1> QED
    BY <1>6, <1>7, <1>8

LEMMA LateFillKeeps ==
    ASSUME IInv, NEW i \in Instruments, LateFill(i)
    PROVE  IInv'
<1> USE DEF IInv
<1>1. late[i] \in Int /\ pos[i] \in Int /\ todayBuy[i] \in Nat
    BY DEF TypeOK
<1>2. Max({0, late[i]}) \in Nat
    <2>1. 0 \in Int /\ late[i] \in Int
        BY <1>1
    <2>2. Max({0, late[i]}) \in {0, late[i]} /\ Max({0, late[i]}) >= 0
        BY <2>1, MaxOfTwo
    <2> QED
        BY <2>1, <2>2
<1>3. todayBuy' \in [Instruments -> Nat]
    BY <1>1, <1>2 DEF LateFill, TypeOK
<1>4. mem' \in Memory
    BY ReleasedByType DEF LateFill, TypeOK
<1>5. TypeOK'
    BY <1>1, <1>3, <1>4 DEF LateFill, TypeOK, venueVars
<1>6. NeverOvershoots'
    BY DEF LateFill, NeverOvershoots, venueVars
<1>7. CacheFollowsBroker'
    BY <1>1 DEF LateFill, CacheFollowsBroker, TypeOK, venueVars
<1> QED
    BY <1>5, <1>6, <1>7

LEMMA NotAcceptedKeeps ==
    ASSUME IInv, NEW i \in Instruments,
           RejectInsufficientFunds(i) \/ DenySellable(i) \/ RejectOther(i)
    PROVE  IInv'
<1> USE DEF IInv
<1>1. /\ ord' = [ord EXCEPT ![i] = NoOrder]
      /\ UNCHANGED <<pos, late, cash, canUse, todayBuy, reconciled, recentSellCancel,
                     held, vcash, avail, unreleased>>
      /\ denied' = denied \/ denied' = denied \cup {i}
    BY DEF RejectInsufficientFunds, DenySellable, RejectOther, Dropped, venueVars
<1>2. mem' \in Memory
    <2>1. mem \in Memory
        BY DEF TypeOK
    <2>2. CASE RejectInsufficientFunds(i)
        BY <2>1, <2>2 DEF RejectInsufficientFunds, Memory
    <2>3. CASE DenySellable(i)
        BY <2>1, <2>3 DEF DenySellable, Memory
    <2>4. CASE RejectOther(i)
        BY <2>1, <2>4 DEF RejectOther, Memory
    <2> QED
        BY <2>2, <2>3, <2>4
<1>3. TypeOK'
    BY <1>1, <1>2 DEF TypeOK
<1>4. NeverOvershoots'
    BY <1>1 DEF NeverOvershoots, NoOrder, TypeOK
<1>5. CacheFollowsBroker'
    BY <1>1 DEF CacheFollowsBroker
<1> QED
    BY <1>3, <1>4, <1>5

LEMMA ReportsKeep ==
    ASSUME IInv,
           \/ AccountReport \/ MassStatus \/ NewDay
           \/ \E i \in Instruments : ReleaseFreeze(i) \/ RetryWindowEnds(i) \/ DenialReplayed(i)
    PROVE  IInv'
<1> USE DEF IInv
<1>1. CASE AccountReport
    BY <1>1 DEF AccountReport, TypeOK, NeverOvershoots, CacheFollowsBroker,
                strategyVars, venueVars
<1>2. CASE MassStatus
    <2>1. canUse' \in [Instruments -> Nat \cup {NoReport}] /\ pos' \in [Instruments -> Int]
        BY <1>2 DEF MassStatus, TypeOK
    <2>2. TypeOK'
        BY <1>2, <2>1 DEF MassStatus, TypeOK, strategyVars, venueVars
    <2>3. NeverOvershoots'
        BY <1>2 DEF MassStatus, NeverOvershoots, venueVars
    <2>4. CacheFollowsBroker'
        BY <1>2 DEF MassStatus, CacheFollowsBroker, venueVars, TypeOK
    <2> QED
        BY <2>2, <2>3, <2>4
<1>3. CASE NewDay
    <2>1. mem' \in Memory
        BY <1>3 DEF NewDay, TypeOK, Memory
    <2> QED
        BY <1>3, <2>1 DEF NewDay, TypeOK, NeverOvershoots, CacheFollowsBroker
<1>4. ASSUME NEW i \in Instruments, ReleaseFreeze(i)
      PROVE  IInv'
    <2>1. avail' \in [Instruments -> Nat] /\ unreleased' \in [Instruments -> Nat]
        BY <1>4 DEF ReleaseFreeze, TypeOK
    <2> QED
        BY <1>4, <2>1 DEF ReleaseFreeze, TypeOK, NeverOvershoots, CacheFollowsBroker,
                          strategyVars, cacheVars
<1>5. ASSUME NEW i \in Instruments, RetryWindowEnds(i)
      PROVE  IInv'
    BY <1>5 DEF RetryWindowEnds, TypeOK, NeverOvershoots, CacheFollowsBroker,
                cacheVars, venueVars
<1>6. ASSUME NEW i \in Instruments, DenialReplayed(i)
      PROVE  IInv'
    <2>1. mem' \in Memory
        BY <1>6 DEF DenialReplayed, TypeOK, Memory
    <2> QED
        BY <1>6, <2>1 DEF DenialReplayed, TypeOK, NeverOvershoots, CacheFollowsBroker,
                          cacheVars, venueVars
<1> QED
    BY <1>1, <1>2, <1>3, <1>4, <1>5, <1>6

LEMMA RestartKeeps ==
    ASSUME IInv, NEW rebuilt, NEW reached, Restart(rebuilt, reached)
    PROVE  IInv'
<1> USE DEF IInv
<1>1. mem' \in Memory
    BY DEF Restart, FreshMemory, Memory, NoTargets, Versions
<1>2. ASSUME NEW i \in Instruments
      PROVE  /\ ord'[i] \in Order \cup {NoOrder}
             /\ \/ ord'[i] = NoOrder
                \/ /\ ord'[i].side = ord[i].side /\ ord'[i].leaves = ord[i].leaves
                   /\ ord'[i].goal = ord[i].goal
    <2>1. ord[i] \in Order \cup {NoOrder}
        BY DEF TypeOK
    <2> QED
        BY <2>1 DEF Restart, Order, NoOrder
<1>3. ord' \in [Instruments -> Order \cup {NoOrder}]
    BY <1>2 DEF Restart
<1>4. pos' \in [Instruments -> Int] /\ todayBuy' \in [Instruments -> Nat]
    BY DEF Restart, TypeOK
<1>5. TypeOK'
    <2>1. /\ late' \in [Instruments -> Int] /\ cash' \in Nat \cup {NoCash}
        BY DEF Restart
    <2>3. canUse' \in [Instruments -> Nat \cup {NoReport}]
        BY DEF Restart
    <2>4. reconciled' \in BOOLEAN /\ recentSellCancel' \subseteq Instruments
        BY DEF Restart
    <2>2. UNCHANGED <<held, vcash, avail, unreleased, denied>>
        BY DEF Restart, venueVars
    <2> QED
        BY <1>1, <1>3, <1>4, <2>1, <2>2, <2>3, <2>4 DEF TypeOK
<1>6. NeverOvershoots'
    BY <1>2 DEF Restart, NeverOvershoots, NoOrder, venueVars
<1>7. CacheFollowsBroker'
    BY DEF Restart, CacheFollowsBroker
<1> QED
    BY <1>5, <1>6, <1>7

\* The invariant is inductive.
LEMMA NextKeeps ==
    ASSUME IInv, RacingFillQueued, [Next]_vars
    PROVE  IInv'
<1>1. CASE Converge
    BY <1>1, ConvergenceKeeps DEF Converge, IInv, TypeOK
<1>2. CASE \E t \in TargetMaps : UpdateTarget(t)
    BY <1>2, TargetUpdateKeeps
<1>3. CASE AccountReport \/ MassStatus \/ NewDay
           \/ \E i \in Instruments : ReleaseFreeze(i) \/ RetryWindowEnds(i) \/ DenialReplayed(i)
    BY <1>3, ReportsKeep
<1>4. CASE \E i \in Instruments :
              RejectInsufficientFunds(i) \/ DenySellable(i) \/ RejectOther(i)
    BY <1>4, NotAcceptedKeeps
<1>5. CASE \E i \in Instruments : Accept(i)
    BY <1>5, AcceptKeeps
<1>6. CASE \E i \in Instruments : LateFill(i)
    BY <1>6, LateFillKeeps
<1>7. CASE \E i \in Instruments : \E q \in 1 .. ord[i].leaves : Fill(i, q)
    BY <1>7, FillKeeps
<1>8. CASE \E i \in Instruments : \E r \in 0 .. ord[i].leaves : CancelConfirmed(i, r)
    BY <1>8, CancelConfirmedKeeps
<1>9. CASE \E rebuilt, reached : Restart(rebuilt, reached)
    BY <1>9, RestartKeeps
<1>10. CASE UNCHANGED vars
    BY <1>10 DEF IInv, TypeOK, NeverOvershoots, CacheFollowsBroker, vars,
                 strategyVars, cacheVars, venueVars
<1> QED
    BY <1>1, <1>2, <1>3, <1>4, <1>5, <1>6, <1>7, <1>8, <1>9, <1>10
       DEF Next, StrategyNext, VenueNext

\* The executor never carries a holding past the target it works for, for any number
\* of instruments and shares, provided a fill racing a cancel is enqueued behind it.
THEOREM ExecutorSafe ==
    ASSUME RacingFillQueued
    PROVE  Spec => [](TypeOK /\ NeverOvershoots)
<1>1. Init => IInv
    BY InitEstablishes
<1>2. IInv /\ [Next]_vars => IInv'
    BY NextKeeps
<1>3. IInv => TypeOK /\ NeverOvershoots
    BY DEF IInv
<1> QED
    BY <1>1, <1>2, <1>3, PTL DEF Spec

\* Only a cycle sends orders: the timer's, or the one a new target starts.
LEMMA OnlyCyclesSend ==
    ASSUME TypeOK, [Next]_vars, NEW i \in NewlySent
    PROVE  \E m \in Memory : CanConverge(m) /\ ConvergeSomehow(m)
<1>1. ord[i].st = "none" /\ ord'[i].st = "new" /\ i \in Instruments
    BY DEF NewlySent
<1>2. CASE Converge
    BY <1>2 DEF Converge, TypeOK
<1>3. CASE \E t \in TargetMaps : CanConverge(Accepted(t)) /\ ConvergeSomehow(Accepted(t))
    BY <1>3, AcceptedType
<1>4. CASE ord' = ord
    BY <1>1, <1>4
<1>5. CASE \E j \in Instruments : ord' = [ord EXCEPT ![j] = NoOrder]
    BY <1>1, <1>5 DEF NoOrder, TypeOK
<1>6. CASE \E j \in Instruments : Accept(j)
    BY <1>1, <1>6 DEF Accept, TypeOK
<1>7. CASE \E j \in Instruments : \E q \in 1 .. ord[j].leaves : Fill(j, q)
  <2>1. PICK j \in Instruments : \E q \in 1 .. ord[j].leaves : Fill(j, q)
      BY <1>7
  <2>2. ord[j] \in Order \cup {NoOrder} /\ ord \in [Instruments -> Order \cup {NoOrder}]
      BY DEF TypeOK
  <2> QED
      BY <1>1, <2>1, <2>2 DEF Fill, Order, NoOrder
<1>8. CASE \E rebuilt, reached : Restart(rebuilt, reached)
    BY <1>1, <1>8 DEF Restart, NoOrder
<1> QED
    BY <1>2, <1>3, <1>4, <1>5, <1>6, <1>7, <1>8
       DEF Next, StrategyNext, VenueNext, vars, cacheVars, UpdateTarget,
           RetryWindowEnds, DenialReplayed, NewDay, LateFill, ReleaseFreeze, AccountReport,
           MassStatus, RejectInsufficientFunds, DenySellable, RejectOther, Dropped,
           CancelConfirmed

\* An order is computed only from the position the broker really holds, at every
\* step of every behaviour: restarts and racing fills never mislead a cycle.
THEOREM ExecutorSeesRealPosition ==
    ASSUME RacingFillQueued
    PROVE  Spec => OrdersFromRealPosition
<1>1. ASSUME IInv, [Next]_vars, NEW i \in NewlySent
      PROVE  pos[i] = held[i]
    BY <1>1, OnlyCyclesSend, ReadyMeansAligned DEF NewlySent, IInv
<1>2. IInv /\ [Next]_vars => [\A i \in NewlySent : pos[i] = held[i]]_vars
    BY <1>1
<1>3. Init => IInv
    BY InitEstablishes
<1>4. IInv /\ [Next]_vars => IInv'
    BY NextKeeps
<1> QED
    BY <1>2, <1>3, <1>4, PTL DEF Spec, OrdersFromRealPosition

(***************************************************************************)
(* The cash of the buys.  A cycle offers its candidates the budget one     *)
(* after another, so the last buy it sends has been compared with the sum  *)
(* of all the others; with the open buys, which the budget has already     *)
(* set aside, they are the reserve of the orders the cycle leaves.         *)
(***************************************************************************)
\* What the open buys are worth, as a sum of a function.
OpenBuys(o) == {i \in Instruments : o[i].side = "BUY" /\ o[i].st \in {"new", "open"}}
Notional(o) == [i \in Instruments |-> o[i].leaves * Price[i]]

LEMMA ReservedIsSum ==
    ASSUME NEW o
    PROVE  ReservedBuyCash(o) = SumFunctionOnSet(Notional(o), OpenBuys(o))
<1> DEFINE B == OpenBuys(o)
           Is(h) == h = [s \in SUBSET B |->
                            IF s = {} THEN 0
                            ELSE LET x == CHOOSE x \in s : TRUE
                                 IN  o[x].leaves * Price[x] + h[s \ {x}]]
<1>1. B \subseteq Instruments /\ IsFiniteSet(B)
    BY InstrumentsAssumption, FS_Subset DEF OpenBuys
<1>2. \A h : Is(h) <=> IsSum(h, Notional(o), B)
  <2> SUFFICES ASSUME NEW h, NEW s \in SUBSET B
               PROVE  (IF s = {} THEN 0
                       ELSE LET x == CHOOSE x \in s : TRUE
                            IN  o[x].leaves * Price[x] + h[s \ {x}]) = Folded(Notional(o), h, s)
      BY DEF IsSum
  <2> QED
      BY <1>1 DEF Folded, Notional
<1>3. Is(CHOOSE h : Is(h))
  <2> HIDE DEF Is
  <2>1. \E h : IsSum(h, Notional(o), B)
      BY <1>1, SumExists
  <2> QED BY <1>2, <2>1
<1>4. (CHOOSE h : Is(h))[B] = SumFunctionOnSet(Notional(o), B)
  <2> HIDE DEF Is, B
  <2> DEFINE g == CHOOSE h : Is(h)
  <2>1. IsSum(g, Notional(o), B)
      BY <1>2, <1>3
  <2> HIDE DEF g
  <2>2. g[B] = SumFunctionOnSet(Notional(o), B)
      BY <2>1, <1>1, SumOfIteration
  <2> QED BY <2>2 DEF g
<1> QED
    BY <1>4 DEF ReservedBuyCash, MapThenSumSet, MapThenFoldSet, OpenBuys

\* What the buys of a cycle cost, the same way.
Costs(m) == [j \in Instruments |-> Cost(m, j)]

LEMMA CostIsSum ==
    ASSUME NEW m, NEW S \in SUBSET Instruments
    PROVE  MapThenSumSet(LAMBDA j : Cost(m, j), S) = SumFunctionOnSet(Costs(m), S)
<1> DEFINE Is(h) == h = [s \in SUBSET S |->
                            IF s = {} THEN 0
                            ELSE LET x == CHOOSE x \in s : TRUE
                                 IN  Cost(m, x) + h[s \ {x}]]
<1>1. IsFiniteSet(S)
    BY InstrumentsAssumption, FS_Subset
<1>2. \A h : Is(h) <=> IsSum(h, Costs(m), S)
  <2> SUFFICES ASSUME NEW h, NEW s \in SUBSET S
               PROVE  (IF s = {} THEN 0
                       ELSE LET x == CHOOSE x \in s : TRUE
                            IN  Cost(m, x) + h[s \ {x}]) = Folded(Costs(m), h, s)
      BY DEF IsSum
  <2> QED
      BY DEF Folded, Costs
<1>3. (CHOOSE h : Is(h))[S] = SumFunctionOnSet(Costs(m), S)
  <2> HIDE DEF Is
  <2>1. \E h : IsSum(h, Costs(m), S)
      BY <1>1, SumExists
  <2> DEFINE g == CHOOSE h : Is(h)
  <2>2. IsSum(g, Costs(m), S)
      BY <1>2, <2>1
  <2> HIDE DEF g
  <2>3. g[S] = SumFunctionOnSet(Costs(m), S)
      BY <2>2, <1>1, SumOfIteration
  <2> QED
      BY <2>3 DEF g
<1> QED
    BY <1>3 DEF MapThenSumSet, MapThenFoldSet

\* The cash walk takes its candidates in an order, so one of the buys sent is the last.
LEMMA LastBuy ==
    ASSUME TypeOK, NEW m \in Memory, NEW S \in SUBSET Instruments, S # {},
           \A j \in S : Desired(m)[j] \in Nat
    PROVE  \E i \in S : {j \in S : Before(m, j, i)} = S \ {i}
<1> DEFINE LastOf(T, i) == i \in T /\ \A j \in T \ {i} : Before(m, j, i)
           P == {T \in SUBSET S : T = {} \/ \E i \in T : LastOf(T, i)}
<1>0. IsFiniteSet(S) /\ S \subseteq Nat
    BY InstrumentsAssumption, FS_Subset
<1>1. {} \in P
    OBVIOUS
<1>2. ASSUME NEW T \in SUBSET S, NEW x \in S \ T, T \in P PROVE T \cup {x} \in P
  <2>1. CASE T = {}
    <3>1. LastOf(T \cup {x}, x)
        BY <2>1
    <3> QED
        BY <3>1
  <2>2. CASE T # {}
    <3>1. PICK i \in T : LastOf(T, i)
        BY <1>2, <2>2
    <3>2. CASE Before(m, x, i)
      <4>1. LastOf(T \cup {x}, i)
          BY <3>1, <3>2
      <4> QED
          BY <4>1
    <3>3. CASE ~Before(m, x, i)
      <4>1. Before(m, i, x)
          BY <3>3, <1>0 DEF Before
      <4>2. ASSUME NEW j \in T \ {i} PROVE Before(m, j, x)
        <5>1. Before(m, j, i)
            BY <3>1
        <5> QED
            BY <5>1, <4>1, <1>0 DEF Before
      <4>3. LastOf(T \cup {x}, x)
          BY <4>1, <4>2
      <4> QED
          BY <4>3
    <3> QED
        BY <3>2, <3>3
  <2> QED
      BY <2>1, <2>2
<1>3. S \in P
  <2> HIDE DEF P
  <2> QED BY <1>0, <1>1, <1>2, SubsetInductive
<1>4. PICK i \in S : LastOf(S, i)
    BY <1>3
<1>5. ~Before(m, i, i)
    BY <1>0 DEF Before
<1> QED
    BY <1>4, <1>5

\* Arithmetic of the budget.
LEMMA BudgetArithmetic ==
    ASSUME NEW c \in Nat, NEW p \in 0 .. 100, NEW reserved \in Int, NEW spent \in Nat \ {0},
           spent <= Max({0, (c * (100 - p)) \div 100 - reserved})
    PROVE  (spent + reserved) * 100 <= c * (100 - p)
<1> DEFINE n == c * (100 - p)
<1>1. n \in Int
    OBVIOUS
<1> HIDE DEF n
<1>2. n \div 100 \in Int /\ (n \div 100) * 100 <= n
    BY <1>1
<1>3. Max({0, n \div 100 - reserved}) \in {0, n \div 100 - reserved}
  <2> DEFINE k == n \div 100 - reserved
  <2>1. k \in Int /\ 0 \in Int
      BY <1>2
  <2> HIDE DEF k
  <2>2. Max({0, k}) \in {0, k}
      BY <2>1, MaxOfTwo
  <2> QED
      BY <2>2 DEF k
<1>4. spent + reserved <= n \div 100
    BY <1>2, <1>3 DEF n
<1> QED
    BY <1>2, <1>4 DEF n

\* The buys a cycle sends and the open ones it leaves fit in the cash less the buffer.
LEMMA CycleWithinCash ==
    ASSUME TypeOK, NEW m \in Memory, NEW timedOut \in SUBSET OpenOrders,
           NEW atLimit \in SUBSET Instruments, NEW unpriced \in SUBSET Instruments,
           Cycle(m, timedOut, atLimit, unpriced),
           NEW sent \in NewlySent, ord'[sent].side = "BUY"
    PROVE  ReservedBuyCash(ord') * 100 <= cash * (100 - BufferPercent)
<1> DEFINE o == [j \in Instruments |->
                   IF j \in timedOut THEN [ord[j] EXCEPT !.st = "pcancel"] ELSE ord[j]]
           intents == {j \in Instruments \ (m.frozen \cup unpriced) :
                         ~Active(o, j) /\ HasIntent(m, j)}
           tradable == intents \ atLimit
           offered == {j \in tradable : pos[j] > Desired(m)[j] /\ j \notin m.exhausted}
           sells == {j \in offered : SellQuantity(m, j) > 0}
           buys  == {j \in tradable : pos[j] < Desired(m)[j]}
<1>1. PICK S \in SUBSET buys :
        /\ CashAdmits(m, o, buys, S)
        /\ ord' = [j \in Instruments |->
                  IF j \in sells THEN NewOrder("SELL", SellQuantity(m, j), Desired(m)[j])
                  ELSE IF j \in S THEN NewOrder("BUY", Desired(m)[j] - pos[j], Desired(m)[j])
                  ELSE o[j]]
    BY DEF Cycle
<1>2. \A j \in Instruments :
         /\ pos[j] \in Int /\ Price[j] \in Nat \ {0}
         /\ ord[j] \in Order \cup {NoOrder} /\ o[j] \in Order \cup {NoOrder}
  <2>1. \A j \in Instruments : pos[j] \in Int /\ ord[j] \in Order \cup {NoOrder}
      BY DEF TypeOK
  <2>2. \A j \in timedOut : ord[j].st = "open"
      BY DEF OpenOrders
  <2>3. \A j \in Instruments : o[j] \in Order \cup {NoOrder}
      BY <2>1, <2>2 DEF Order, NoOrder
  <2> QED
      BY <2>1, <2>3, ConfigAssumption
<1>3. ASSUME NEW j \in S
      PROVE  /\ j \in Instruments /\ j \notin sells /\ o[j].st = "none"
             /\ Desired(m)[j] \in Nat /\ Desired(m)[j] - pos[j] \in Nat \ {0}
  <2>1. j \in Instruments /\ ~Active(o, j) /\ HasIntent(m, j) /\ pos[j] < Desired(m)[j]
      OBVIOUS
  <2>2. Desired(m)[j] \in Nat
      BY <2>1, DesiredType DEF HasIntent
  <2> DEFINE d == Desired(m)[j]
             p == pos[j]
  <2>3. ~(p > d) /\ d - p \in Nat \ {0}
    <3>1. d \in Nat /\ p \in Int /\ p < d
        BY <2>1, <2>2, <1>2
    <3> HIDE DEF d, p
    <3> QED
        BY <3>1
  <2>4. j \notin sells
      BY <2>3
  <2>5. o[j].st = "none"
      BY <2>1 DEF Active
  <2> QED
      BY <2>1, <2>2, <2>3, <2>4, <2>5
<1>4. sent \in S
  <2>1. sent \in Instruments /\ ord[sent].st = "none" /\ ord'[sent].st = "new"
      BY DEF NewlySent
  <2>2. sent \notin sells
      BY <1>1, <2>1 DEF NewOrder
  <2>3. o[sent].st # "new"
      BY <1>2, <2>1 DEF Order, NoOrder
  <2> QED
      BY <1>1, <2>1, <2>2, <2>3
<1> DEFINE spent == SumFunctionOnSet(Costs(m), S)
           reserved == SumFunctionOnSet(Notional(o), OpenBuys(o))
<1>5. IsFiniteSet(S) /\ S \subseteq Instruments
  <2>1. S \subseteq Instruments
      OBVIOUS
  <2> QED
      BY <2>1, InstrumentsAssumption, FS_Subset
<1>6. \A j \in S : Costs(m)[j] \in Nat \ {0} /\ Costs(m)[j] = (Desired(m)[j] - pos[j]) * Price[j]
  <2>1. \A a, b \in Nat \ {0} : a * b \in Nat \ {0}
      OBVIOUS
  <2> QED
      BY <1>2, <1>3, <2>1 DEF Costs, Cost
<1>7. spent \in Nat \ {0} /\ spent <= Budget(o) /\ cash # NoCash
  <2>1. PICK i \in S : {j \in S : Before(m, j, i)} = S \ {i}
      BY <1>3, <1>4, <1>5, LastBuy
  <2>2. /\ Cost(m, i) + MapThenSumSet(LAMBDA j : Cost(m, j), S \ {i}) <= Budget(o)
        /\ cash # NoCash
      BY <1>1, <2>1 DEF CashAdmits
  <2>3. MapThenSumSet(LAMBDA j : Cost(m, j), S \ {i}) = SumFunctionOnSet(Costs(m), S \ {i})
      BY <1>5, CostIsSum
  <2>4. Costs(m)[i] = Cost(m, i)
      BY <1>5 DEF Costs
  <2>5. spent = Costs(m)[i] + SumFunctionOnSet(Costs(m), S \ {i})
      BY <1>5, <1>6, SumRemove
  <2>6. SumFunctionOnSet(Costs(m), S \ {i}) \in Nat
      BY <1>5, <1>6, FS_Subset, SumNat
  <2>7. Costs(m)[i] \in Nat \ {0}
      BY <1>6
  <2> HIDE DEF spent
  <2> QED
      BY <2>2, <2>3, <2>4, <2>5, <2>6, <2>7
<1>8. ReservedBuyCash(o) = reserved
    BY ReservedIsSum
<1>9. OpenBuys(ord') = S \cup OpenBuys(o) /\ S \cap OpenBuys(o) = {}
  <2>1. S \cap OpenBuys(o) = {}
      BY <1>3 DEF OpenBuys
  <2>2. ASSUME NEW j \in Instruments
        PROVE  j \in OpenBuys(ord') <=> j \in S \cup OpenBuys(o)
    <3>1. CASE j \in sells
      <4>1. ord'[j].side = "SELL"
          BY <1>1, <3>1 DEF NewOrder
      <4>2. o[j].st = "none"
          BY <3>1, <1>2 DEF Active
      <4> QED
          BY <4>1, <4>2, <1>3, <3>1 DEF OpenBuys
    <3>2. CASE j \in S
      <4>1. ord'[j].side = "BUY" /\ ord'[j].st = "new"
          BY <1>1, <1>3, <3>2 DEF NewOrder
      <4> QED
          BY <4>1, <3>2 DEF OpenBuys
    <3>3. CASE j \notin sells /\ j \notin S
      <4>1. ord'[j] = o[j]
          BY <1>1, <3>3
      <4> QED
          BY <4>1, <3>3 DEF OpenBuys
    <3> QED
        BY <3>1, <3>2, <3>3
  <2>3. OpenBuys(ord') \subseteq Instruments /\ OpenBuys(o) \subseteq Instruments
      BY DEF OpenBuys
  <2> QED
      BY <2>1, <2>2, <2>3, <1>5
<1>10. \A j \in S : Notional(ord')[j] = Costs(m)[j]
  <2> TAKE j \in S
  <2>1. ord'[j].leaves = Desired(m)[j] - pos[j]
      BY <1>1, <1>3 DEF NewOrder
  <2> QED
      BY <2>1, <1>6, <1>5 DEF Notional
<1>11. \A j \in OpenBuys(o) : Notional(ord')[j] = Notional(o)[j] /\ Notional(o)[j] \in Nat
  <2> TAKE j \in OpenBuys(o)
  <2>1. j \in Instruments /\ o[j].st \in {"new", "open"}
      BY DEF OpenBuys
  <2>2. j \notin S
      BY <1>9
  <2>3. j \notin sells
      BY <2>1 DEF Active
  <2>4. ord'[j] = o[j]
      BY <1>1, <2>1, <2>2, <2>3
  <2>5. o[j].leaves \in Nat /\ Price[j] \in Nat
    <3>1. o[j] \in Order \cup {NoOrder} /\ Price[j] \in Nat
        BY <2>1, <1>2
    <3> HIDE DEF o
    <3> QED
        BY <3>1 DEF Order, NoOrder
  <2> HIDE DEF o
  <2>6. Notional(ord')[j] = Notional(o)[j] /\ Notional(o)[j] = o[j].leaves * Price[j]
      BY <2>1, <2>4 DEF Notional
  <2> QED
      BY <2>5, <2>6
<1>12. IsFiniteSet(OpenBuys(o))
    BY InstrumentsAssumption, FS_Subset DEF OpenBuys
<1>13. ReservedBuyCash(ord') = spent + reserved /\ reserved \in Int
  <2> HIDE DEF o
  <2>1. ReservedBuyCash(ord') = SumFunctionOnSet(Notional(ord'), OpenBuys(ord'))
      BY ReservedIsSum
  <2>2. \A j \in S \cup OpenBuys(o) : Notional(ord')[j] \in Int
      BY <1>6, <1>10, <1>11
  <2>3. SumFunctionOnSet(Notional(ord'), S \cup OpenBuys(o))
          = SumFunctionOnSet(Notional(ord'), S) + SumFunctionOnSet(Notional(ord'), OpenBuys(o))
      BY <2>2, <1>5, <1>9, <1>12, SumUnion
  <2>4. SumFunctionOnSet(Notional(ord'), S) = spent
      BY <1>5, <1>6, <1>10, SumSame
  <2>5. SumFunctionOnSet(Notional(ord'), OpenBuys(o)) = reserved
      BY <1>11, <1>12, SumSame
  <2>6. reserved \in Int
      BY <1>11, <1>12, SumInt
  <2> QED
      BY <2>1, <2>3, <2>4, <2>5, <2>6, <1>9
<1>14. (spent + reserved) * 100 <= cash * (100 - BufferPercent)
  <2>1. cash \in Nat
      BY <1>7 DEF TypeOK
  <2>2. BufferPercent \in 0 .. 100
      BY ConfigAssumption
  <2>3. spent <= Max({0, (cash * (100 - BufferPercent)) \div 100 - reserved})
      BY <1>7, <1>8 DEF Budget
  <2> HIDE DEF spent, reserved, o
  <2> QED
      BY <1>7, <1>13, <2>1, <2>2, <2>3, BudgetArithmetic
<1> QED
    BY <1>13, <1>14

\* Whenever a cycle sends buys, all the buys then at work that no cancel is asked for, older
\* ones included, fit in the cash last reported less the buffer (_submit_buys_within_cash).
THEOREM ExecutorBuysWithinCash ==
    ASSUME RacingFillQueued
    PROVE  Spec => BuysWithinCash
<1> DEFINE Fits == (\E i \in NewlySent : ord'[i].side = "BUY")
                     => ReservedBuyCash(ord') * 100 <= cash * (100 - BufferPercent)
<1>1. ASSUME IInv, [Next]_vars PROVE Fits
  <2> SUFFICES ASSUME NEW i \in NewlySent, ord'[i].side = "BUY"
               PROVE  ReservedBuyCash(ord') * 100 <= cash * (100 - BufferPercent)
      OBVIOUS
  <2>1. TypeOK
      BY <1>1 DEF IInv
  <2>2. PICK m \in Memory : ConvergeSomehow(m)
      BY <1>1, <2>1, OnlyCyclesSend
  <2>3. PICK timedOut \in SUBSET OpenOrders, atLimit \in SUBSET Instruments,
             unpriced \in SUBSET Instruments : Cycle(m, timedOut, atLimit, unpriced)
      BY <2>2 DEF ConvergeSomehow
  <2> QED
      BY <2>1, <2>3, CycleWithinCash
<1>2. IInv /\ [Next]_vars => [Fits]_vars
    BY <1>1
<1>3. Init => IInv
    BY InitEstablishes
<1>4. IInv /\ [Next]_vars => IInv'
    BY NextKeeps
<1> QED
    BY <1>2, <1>3, <1>4, PTL DEF Spec, BuysWithinCash

(***************************************************************************)
(* What a target that counts as achieved means.  The version is marked at  *)
(* the end of a cycle, when nothing is at work, and from then on nothing   *)
(* moves until another target comes: AchievedAtRest.                       *)
(***************************************************************************)
AchievedAtRest ==
    mem.version \in mem.achieved =>
        \A i \in Instruments :
            /\ ord[i].st = "none" /\ late[i] = 0 /\ held[i] = pos[i]
            /\ i \notin mem.frozen /\ Desired(mem)[i] # NoTarget => pos[i] = Desired(mem)[i]

TargetsWereGiven == mem.targets \in TargetMaps \cup {NoTargets}

PlanInv == IInv /\ AchievedAtRest /\ TargetsWereGiven

\* What a cycle makes of the memory: the map and its version stay, and the version is
\* marked only if the cycle has seen the target reached.
LEMMA CycleMarks ==
    ASSUME NEW m \in Memory, NEW timedOut, NEW atLimit, NEW unpriced,
           Cycle(m, timedOut, atLimit, unpriced), m.version \notin m.achieved
    PROVE  /\ mem'.targets = m.targets /\ mem'.version = m.version
           /\ mem'.version \in mem'.achieved =>
                \A i \in Instruments :
                    /\ ord'[i].st = "none"
                    /\ i \notin mem'.frozen /\ Desired(m)[i] # NoTarget
                         => pos[i] = Desired(m)[i]
<1>1. PICK F, D, I, X \in SUBSET Instruments :
        mem' = MarkAchieved([m EXCEPT !.frozen = F, !.deferred = D,
                                      !.insufficient = I, !.exhausted = X], ord')
    BY DEF Cycle, Memory
<1> DEFINE n == [m EXCEPT !.frozen = F, !.deferred = D, !.insufficient = I, !.exhausted = X]
<1>2. /\ n.targets = m.targets /\ n.version = m.version /\ n.achieved = m.achieved
      /\ n.frozen = F
    BY DEF Memory
<1>3. Desired(n) = Desired(m)
    BY <1>2 DEF Desired
<1>4. CASE Achieved(n, ord')
    <2>1. mem' = [n EXCEPT !.achieved = @ \cup {n.version}]
        BY <1>1, <1>4 DEF MarkAchieved
    <2>2. /\ mem'.targets = m.targets /\ mem'.version = m.version /\ mem'.frozen = F
        BY <2>1, <1>2 DEF Memory
    <2> QED
        BY <2>2, <1>2, <1>3, <1>4 DEF Achieved, Active
<1>5. CASE ~Achieved(n, ord')
    BY <1>1, <1>2, <1>5 DEF MarkAchieved
<1> QED
    BY <1>4, <1>5

LEMMA CyclePlanKeeps ==
    ASSUME PlanInv, RacingFillQueued, NEW m \in Memory,
           m.targets \in TargetMaps \cup {NoTargets}, CanConverge(m), ConvergeSomehow(m)
    PROVE  AchievedAtRest' /\ TargetsWereGiven'
<1>1. PICK timedOut, atLimit, unpriced : Cycle(m, timedOut, atLimit, unpriced)
    BY DEF ConvergeSomehow
<1>2. UNCHANGED <<pos, late, held>>
    BY <1>1 DEF Cycle, venueVars
<1>3. m.version \notin m.achieved
    BY DEF CanConverge
<1>4. \A i \in Instruments : late[i] = 0 /\ held[i] = pos[i]
    BY ReadyMeansAligned DEF CanConverge, QueueDrained, PlanInv
<1>5. /\ mem'.targets = m.targets /\ mem'.version = m.version
      /\ mem'.version \in mem'.achieved =>
           \A i \in Instruments :
               /\ ord'[i].st = "none"
               /\ i \notin mem'.frozen /\ Desired(m)[i] # NoTarget
                    => pos[i] = Desired(m)[i]
    BY <1>1, <1>3, CycleMarks
<1>6. Desired(mem)' = Desired(m)
    BY <1>2, <1>5 DEF Desired
<1> QED
    BY <1>2, <1>4, <1>5, <1>6 DEF AchievedAtRest, TargetsWereGiven

\* An event about an order at work, or about a fill not applied yet, finds no achieved
\* target; one that concerns neither leaves holdings and orders as they are.
LEMMA EventsKeepPlan ==
    ASSUME PlanInv, NEW i \in Instruments,
           \/ Accept(i) \/ LateFill(i)
           \/ RejectInsufficientFunds(i) \/ DenySellable(i) \/ RejectOther(i)
           \/ \E q \in 1 .. ord[i].leaves : Fill(i, q)
           \/ \E r \in 0 .. ord[i].leaves : CancelConfirmed(i, r)
    PROVE  AchievedAtRest' /\ TargetsWereGiven'
<1>1. mem \in Memory
    BY DEF PlanInv, IInv, TypeOK
<1>2. ord[i].st # "none" \/ late[i] # 0
    BY DEF Accept, LateFill, RejectInsufficientFunds, DenySellable, RejectOther, Fill,
           CancelConfirmed
<1>3. mem.version \notin mem.achieved
    BY <1>2 DEF PlanInv, AchievedAtRest
<1>4. /\ mem'.version = mem.version /\ mem'.achieved = mem.achieved
      /\ mem'.targets = mem.targets
    BY <1>1 DEF Accept, LateFill, RejectInsufficientFunds, DenySellable, RejectOther, Fill,
                CancelConfirmed, ReleasedBy, Memory, strategyVars
<1> QED
    BY <1>3, <1>4 DEF PlanInv, AchievedAtRest, TargetsWereGiven

LEMMA ReportsKeepPlan ==
    ASSUME PlanInv,
           \/ AccountReport \/ MassStatus \/ NewDay \/ UNCHANGED vars
           \/ \E i \in Instruments : ReleaseFreeze(i) \/ RetryWindowEnds(i) \/ DenialReplayed(i)
    PROVE  AchievedAtRest' /\ TargetsWereGiven'
<1>1. mem \in Memory
    BY DEF PlanInv, IInv, TypeOK
<1>2. /\ mem'.version = mem.version /\ mem'.achieved = mem.achieved
      /\ mem'.targets = mem.targets /\ mem'.frozen = mem.frozen
    BY <1>1 DEF AccountReport, MassStatus, NewDay, ReleaseFreeze, RetryWindowEnds,
                DenialReplayed,
                Memory,
                strategyVars, vars
<1>3. UNCHANGED <<ord, late, held>> /\ (pos' = pos \/ pos' = held)
    BY DEF AccountReport, MassStatus, NewDay, ReleaseFreeze, RetryWindowEnds, DenialReplayed,
           vars, cacheVars, venueVars
<1>4. ASSUME mem.version \in mem.achieved, NEW i \in Instruments
      PROVE  pos'[i] = pos[i] /\ Desired(mem)'[i] = Desired(mem)[i]
    <2>1. pos'[i] = pos[i]
        BY <1>3, <1>4 DEF PlanInv, AchievedAtRest
    <2> QED
        BY <2>1, <1>2 DEF Desired
<1>5. AchievedAtRest'
    <2> SUFFICES ASSUME mem'.version \in mem'.achieved, NEW i \in Instruments
                 PROVE  /\ ord'[i].st = "none" /\ late'[i] = 0 /\ held'[i] = pos'[i]
                        /\ i \notin mem'.frozen /\ Desired(mem)'[i] # NoTarget
                             => pos'[i] = Desired(mem)'[i]
        BY DEF AchievedAtRest
    <2>1. mem.version \in mem.achieved
        BY <1>2
    <2>2. pos'[i] = pos[i] /\ Desired(mem)'[i] = Desired(mem)[i]
        BY <2>1, <1>4
    <2> QED
        BY <1>2, <1>3, <2>1, <2>2 DEF PlanInv, AchievedAtRest
<1> QED
    BY <1>2, <1>5 DEF PlanInv, TargetsWereGiven

LEMMA PlanNextKeeps ==
    ASSUME PlanInv, RacingFillQueued, [Next]_vars
    PROVE  PlanInv'
<1> SUFFICES AchievedAtRest' /\ TargetsWereGiven'
    BY NextKeeps DEF PlanInv
<1>2. mem \in Memory
    BY DEF PlanInv, IInv, TypeOK
<1>3. CASE Converge
    BY <1>2, <1>3, CyclePlanKeeps DEF Converge, PlanInv, TargetsWereGiven
<1>4. ASSUME NEW t \in TargetMaps, UpdateTarget(t)
      PROVE  AchievedAtRest' /\ TargetsWereGiven'
    <2>1. /\ Accepted(t) \in Memory /\ Accepted(t).targets = t
          /\ Accepted(t).version \notin Accepted(t).achieved
        <3>1. t \in [Instruments -> Nat \cup {NoTarget}] /\ Version(t) \in Versions
            BY ConfigAssumption DEF Versions
        <3> QED
            BY <1>2, <3>1 DEF Accepted, Memory
    <2>2. CASE CanConverge(Accepted(t)) /\ ConvergeSomehow(Accepted(t))
        BY <2>1, <2>2, CyclePlanKeeps
    <2>3. CASE mem' = Accepted(t)
        BY <2>1, <2>3 DEF AchievedAtRest, TargetsWereGiven
    <2> QED
        BY <1>4, <2>2, <2>3 DEF UpdateTarget
<1>5. CASE \E rebuilt, reached : Restart(rebuilt, reached)
    BY <1>5 DEF Restart, FreshMemory, AchievedAtRest, TargetsWereGiven
<1>6. CASE \/ AccountReport \/ MassStatus \/ NewDay \/ UNCHANGED vars
           \/ \E i \in Instruments : ReleaseFreeze(i) \/ RetryWindowEnds(i) \/ DenialReplayed(i)
    BY <1>6, ReportsKeepPlan
<1>7. CASE \E i \in Instruments :
             \/ Accept(i) \/ LateFill(i)
             \/ RejectInsufficientFunds(i) \/ DenySellable(i) \/ RejectOther(i)
             \/ \E q \in 1 .. ord[i].leaves : Fill(i, q)
             \/ \E r \in 0 .. ord[i].leaves : CancelConfirmed(i, r)
    BY <1>7, EventsKeepPlan
<1> QED
    BY <1>3, <1>4, <1>5, <1>6, <1>7 DEF Next, StrategyNext, VenueNext

LEMMA InitEstablishesPlan == Init => PlanInv
BY InitEstablishes DEF Init, FreshMemory, PlanInv, AchievedAtRest, TargetsWereGiven

\* A version marked achieved ends all trading for it, and then the broker's holdings are
\* the ones it asks for, save those frozen at a price limit.
THEOREM AchievedMeansHeld ==
    ASSUME RacingFillQueued
    PROVE  Spec => []AchievedIsOnTarget
<1>1. Init => PlanInv
    BY InitEstablishesPlan
<1>2. PlanInv /\ [Next]_vars => PlanInv'
    BY PlanNextKeeps
<1>3. PlanInv => AchievedIsOnTarget
    BY DEF PlanInv, AchievedAtRest, AchievedIsOnTarget
<1> QED
    BY <1>1, <1>2, <1>3, PTL DEF Spec

(***************************************************************************)
(* The refinement of PositionWork.  An order at work is work on its        *)
(* instrument: what is held and what is left of the order make the aim.    *)
(***************************************************************************)
Aim == [i \in Instruments |-> held[i] + Signed(ord[i])]

LEMMA SignedValue ==
    ASSUME NEW o \in Order \cup {NoOrder}
    PROVE  /\ o.side = "BUY" => Signed(o) = o.leaves /\ o.leaves \in Nat
           /\ o.side = "SELL" => Signed(o) = 0 - o.leaves /\ o.leaves \in Nat
           /\ o.side \notin {"BUY", "SELL"} => Signed(o) = 0
           /\ o.st = "none" => Signed(o) = 0 /\ o = NoOrder
           /\ Signed(o) \in Int
<1>1. CASE o.side = "BUY"
    BY <1>1 DEF Signed, Order, NoOrder
<1>2. CASE o.side = "SELL"
    BY <1>2 DEF Signed, Order, NoOrder
<1>3. CASE o.side \notin {"BUY", "SELL"}
    BY <1>3 DEF Signed, Order, NoOrder
<1> QED
    BY <1>1, <1>2, <1>3

\* Nothing is sold that is not held: the aim is a number of shares.
LEMMA AimType ==
    ASSUME IInv
    PROVE  Aim \in [Instruments -> Nat]
<1>1. ASSUME NEW i \in Instruments
      PROVE  held[i] + Signed(ord[i]) \in Nat
    <2>1. ord[i] \in Order \cup {NoOrder} /\ held[i] \in Nat
        BY DEF IInv, TypeOK
    <2>2. ord[i].side \in {"BUY", "SELL"} => ord[i].goal \in Nat
        BY <2>1 DEF Order, NoOrder
    <2> QED
        BY <2>1, <2>2, SignedValue DEF IInv, NeverOvershoots
<1> QED
    BY <1>1 DEF Aim

\* Every target a cycle works for was asked for, or is the exit of a name not on the map.
LEMMA DesiredIsGoal ==
    ASSUME NEW m \in Memory, m.targets \in TargetMaps \cup {NoTargets},
           NEW i \in Instruments, Desired(m)[i] \in Nat
    PROVE  Desired(m)[i] \in Goals[i]
BY DEF Desired, Goals, NoTargets, NoTarget

\* An instrument that keeps its holding and what is left of its order does no work.
LEMMA StillProgress ==
    ASSUME IInv, IInv', NEW i \in Instruments, held'[i] = held[i],
           Signed(ord'[i]) = Signed(ord[i])
    PROVE  Work!Progress(i)
<1>1. held[i] \in Nat /\ Signed(ord[i]) \in Int
    BY SignedValue DEF IInv, TypeOK
<1> QED
    BY <1>1 DEF Work!Progress, Work!Between

\* So does one that gives up what is left.
LEMMA GivenUpProgress ==
    ASSUME IInv, IInv', NEW i \in Instruments, held'[i] = held[i], Signed(ord'[i]) = 0
    PROVE  Work!Progress(i)
<1>1. held[i] \in Nat /\ Signed(ord[i]) \in Int
    BY SignedValue DEF IInv, TypeOK
<1> QED
    BY <1>1 DEF Work!Progress, Work!Between

\* A cycle starts work where there is none, towards a target that was asked for.
LEMMA CycleStarts ==
    ASSUME IInv, IInv', RacingFillQueued, NEW m \in Memory,
           m.targets \in TargetMaps \cup {NoTargets}, CanConverge(m), ConvergeSomehow(m),
           NEW i \in Instruments
    PROVE  Work!Start(i) \/ Work!Progress(i)
<1>1. PICK timedOut \in SUBSET OpenOrders, atLimit \in SUBSET Instruments,
           unpriced \in SUBSET Instruments : Cycle(m, timedOut, atLimit, unpriced)
    BY DEF ConvergeSomehow
<1>2. TypeOK
    BY DEF IInv
<1>3. held[i] = pos[i] /\ held[i] \in Nat /\ held' = held
    BY <1>1, ReadyMeansAligned DEF IInv, TypeOK, Cycle, venueVars
<1>4. ord[i] \in Order \cup {NoOrder} /\ ord'[i] \in Order \cup {NoOrder}
    BY DEF IInv, TypeOK
<1>5. CASE ord'[i] = ord[i]
    BY <1>3, <1>5, StillProgress
<1>6. CASE ord[i].st = "open" /\ ord'[i] = [ord[i] EXCEPT !.st = "pcancel"]
    <2>1. ord[i] \in Order
        BY <1>4, <1>6 DEF NoOrder
    <2>2. ord'[i].side = ord[i].side /\ ord'[i].leaves = ord[i].leaves
          /\ ord[i].side \in {"BUY", "SELL"}
        BY <2>1, <1>6 DEF Order
    <2>3. Signed(ord'[i]) = Signed(ord[i])
        BY <2>2, <1>4, SignedValue
    <2> QED
        BY <1>3, <2>3, StillProgress
<1>7. ASSUME ord[i].st = "none", Desired(m)[i] \in Nat, NEW q \in Nat \ {0},
             \/ ord'[i] = NewOrder("SELL", q, Desired(m)[i]) /\ q <= pos[i] - Desired(m)[i]
             \/ ord'[i] = NewOrder("BUY", q, Desired(m)[i]) /\ q = Desired(m)[i] - pos[i]
      PROVE  Work!Start(i)
    <2>1. Signed(ord[i]) = 0
        BY <1>4, <1>7, SignedValue
    <2>2. Desired(m)[i] \in Goals[i]
        BY <1>7, DesiredIsGoal
    <2>3. CASE ord'[i] = NewOrder("SELL", q, Desired(m)[i]) /\ q <= pos[i] - Desired(m)[i]
        <3>1. Signed(ord'[i]) = 0 - q
            BY <1>4, <2>3, SignedValue DEF NewOrder
        <3>2. held'[i] + Signed(ord'[i]) < held[i]
              /\ Desired(m)[i] <= held'[i] + Signed(ord'[i])
            BY <1>3, <1>7, <2>3, <3>1
        <3> QED
            BY <1>3, <2>1, <2>2, <3>2 DEF Work!Start
    <2>4. CASE ord'[i] = NewOrder("BUY", q, Desired(m)[i]) /\ q = Desired(m)[i] - pos[i]
        <3>1. Signed(ord'[i]) = q
            BY <1>4, <2>4, SignedValue DEF NewOrder
        <3>2. held'[i] + Signed(ord'[i]) > held[i]
              /\ Desired(m)[i] = held'[i] + Signed(ord'[i])
            BY <1>3, <1>7, <2>4, <3>1
        <3> QED
            BY <1>3, <2>1, <2>2, <3>2 DEF Work!Start
    <2> QED
        BY <1>7, <2>3, <2>4
<1> QED
    BY <1>1, <1>2, <1>5, <1>6, <1>7, CycleOrders

\* The broker's fills and cancels only do the work that is there, or give it up.
LEMMA VenueProgress ==
    ASSUME IInv, IInv', NEW j \in Instruments,
           \/ \E q \in 1 .. ord[j].leaves : Fill(j, q)
           \/ \E r \in 0 .. ord[j].leaves : CancelConfirmed(j, r),
           NEW i \in Instruments
    PROVE  Work!Progress(i)
<1>1. ord[j] \in Order /\ held[j] \in Nat /\ ord'[j] \in Order \cup {NoOrder}
      /\ ord \in [Instruments -> Order \cup {NoOrder}] /\ held \in [Instruments -> Nat]
    <2>1. ord[j] \in Order
        BY DEF IInv, TypeOK, Fill, CancelConfirmed, NoOrder
    <2> QED
        BY <2>1 DEF IInv, TypeOK
<1>2. CASE i # j
    <2>1. held'[i] = held[i] /\ ord'[i] = ord[i]
        BY <1>1, <1>2 DEF Fill, CancelConfirmed
    <2> QED
        BY <2>1, StillProgress
<1>3. CASE i = j
    <2>1. \E q \in 0 .. ord[j].leaves :
            /\ held'[j] = held[j] + Sign(j) * q
            /\ \/ ord'[j] = NoOrder
               \/ ord'[j].side = ord[j].side /\ ord'[j].leaves = ord[j].leaves - q
        <3>1. ASSUME NEW q \in 1 .. ord[j].leaves, Fill(j, q)
              PROVE  /\ held'[j] = held[j] + Sign(j) * q
                     /\ \/ ord'[j] = NoOrder
                        \/ ord'[j].side = ord[j].side /\ ord'[j].leaves = ord[j].leaves - q
            BY <1>1, <3>1 DEF Fill, Order
        <3>2. ASSUME NEW r \in 0 .. ord[j].leaves, CancelConfirmed(j, r)
              PROVE  held'[j] = held[j] + Sign(j) * r /\ ord'[j] = NoOrder
            BY <1>1, <3>2 DEF CancelConfirmed
        <3>3. ord[j].leaves \in Nat
            BY <1>1 DEF Order
        <3> QED
            BY <3>1, <3>2, <3>3
    <2>2. PICK q \in 0 .. ord[j].leaves :
            /\ held'[j] = held[j] + Sign(j) * q
            /\ \/ ord'[j] = NoOrder
               \/ ord'[j].side = ord[j].side /\ ord'[j].leaves = ord[j].leaves - q
        BY <2>1
    <2>3. Signed(NoOrder) = 0
        BY DEF Signed, NoOrder
    <2>4. q \in Nat /\ ord[j].leaves \in Nat /\ q <= ord[j].leaves
        BY <1>1 DEF Order
    <2>5. CASE ord[j].side = "BUY"
        <3>1. held'[j] = held[j] + q /\ Signed(ord[j]) = ord[j].leaves
            BY <1>1, <2>2, <2>4, <2>5, SignedValue DEF Sign
        <3>2. Signed(ord'[j]) = 0 \/ Signed(ord'[j]) = ord[j].leaves - q
            BY <1>1, <2>2, <2>3, <2>5, SignedValue
        <3> QED
            BY <1>1, <1>3, <2>4, <3>1, <3>2 DEF Work!Progress, Work!Between
    <2>6. CASE ord[j].side = "SELL"
        <3>1. held'[j] = held[j] - q /\ Signed(ord[j]) = 0 - ord[j].leaves
            BY <1>1, <2>2, <2>4, <2>6, SignedValue DEF Sign
        <3>2. Signed(ord'[j]) = 0 \/ Signed(ord'[j]) = 0 - (ord[j].leaves - q)
            BY <1>1, <2>2, <2>3, <2>6, SignedValue
        <3> QED
            BY <1>1, <1>3, <2>4, <3>1, <3>2 DEF Work!Progress, Work!Between
    <2> QED
        BY <1>1, <2>5, <2>6 DEF Order
<1> QED
    BY <1>2, <1>3

\* A step that fills nothing leaves each order as it is, or without what was left of it.
LEMMA OtherProgress ==
    ASSUME IInv, IInv', held' = held, NEW i \in Instruments,
           \/ ord'[i] = ord[i] \/ ord'[i] = NoOrder
           \/ ord'[i].side = ord[i].side /\ ord'[i].leaves = ord[i].leaves
    PROVE  Work!Progress(i)
<1>1. ord[i] \in Order \cup {NoOrder} /\ ord'[i] \in Order \cup {NoOrder}
    BY DEF IInv, TypeOK
<1>2. Signed(NoOrder) = 0
    BY DEF Signed, NoOrder
<1>3. CASE ord'[i] = NoOrder
    BY <1>2, <1>3, GivenUpProgress
<1>4. CASE ord'[i] # NoOrder
    <2>1. Signed(ord'[i]) = Signed(ord[i])
        BY <1>1, <1>4, SignedValue
    <2> QED
        BY <2>1, StillProgress
<1> QED
    BY <1>3, <1>4


LEMMA StepRefines ==
    ASSUME PlanInv, PlanInv', RacingFillQueued, Next
    PROVE  Work!Next
<1> USE DEF PlanInv
<1>1. Aim \in [Instruments -> Nat] /\ held' \in [Instruments -> Nat]
    BY AimType DEF IInv, TypeOK
<1>2. \A i \in Instruments : held'[i] + Signed(ord'[i]) \in Nat
    <2> SUFFICES ASSUME NEW i \in Instruments
                 PROVE  held'[i] + Signed(ord'[i]) \in Nat
        OBVIOUS
    <2>1. ord'[i] \in Order \cup {NoOrder} /\ held'[i] \in Nat
        BY DEF IInv, TypeOK
    <2>2. ord'[i].side \in {"BUY", "SELL"} => ord'[i].goal \in Nat
        BY <2>1 DEF Order, NoOrder
    <2> QED
        BY <2>1, <2>2, SignedValue DEF IInv, NeverOvershoots
<1>3. ASSUME NEW i \in Instruments
      PROVE  Work!Start(i) \/ Work!Progress(i)
    <2>1. mem \in Memory /\ ord \in [Instruments -> Order \cup {NoOrder}]
        BY DEF IInv, TypeOK
    <2>2. CASE Converge
        BY <2>1, <2>2, CycleStarts DEF Converge, TargetsWereGiven
    <2>3. ASSUME NEW t \in TargetMaps, UpdateTarget(t)
          PROVE  Work!Start(i) \/ Work!Progress(i)
        <3>1. Accepted(t) \in Memory /\ Accepted(t).targets = t
            <4>1. t \in [Instruments -> Nat \cup {NoTarget}] /\ Version(t) \in Versions
                BY ConfigAssumption DEF Versions
            <4> QED
                BY <2>1, <4>1 DEF Accepted, Memory
        <3>2. CASE CanConverge(Accepted(t)) /\ ConvergeSomehow(Accepted(t))
            BY <3>1, <3>2, CycleStarts
        <3>3. CASE UNCHANGED <<cacheVars, recentSellCancel, venueVars>>
            BY <3>3, OtherProgress DEF cacheVars, venueVars
        <3> QED
            BY <2>3, <3>2, <3>3 DEF UpdateTarget
    <2>4. ASSUME NEW j \in Instruments,
                 \/ \E q \in 1 .. ord[j].leaves : Fill(j, q)
                 \/ \E r \in 0 .. ord[j].leaves : CancelConfirmed(j, r)
          PROVE  Work!Progress(i)
        BY <2>4, VenueProgress
    <2>5. ASSUME NEW j \in Instruments, Accept(j)
          PROVE  Work!Progress(i)
        <3>1. ord[j] \in Order
            BY <2>1, <2>5 DEF Accept, NoOrder
        <3>2. held' = held /\ ord' = [ord EXCEPT ![j].st = "open"]
            BY <2>5 DEF Accept
        <3>3. ord'[i] = ord[i]
              \/ (ord'[i].side = ord[i].side /\ ord'[i].leaves = ord[i].leaves)
            BY <2>1, <3>1, <3>2 DEF Order
        <3> QED
            BY <3>2, <3>3, OtherProgress
    <2>6. ASSUME NEW j \in Instruments,
                 RejectInsufficientFunds(j) \/ DenySellable(j) \/ RejectOther(j)
          PROVE  Work!Progress(i)
        <3>1. held' = held /\ (ord'[i] = ord[i] \/ ord'[i] = NoOrder)
            BY <2>1, <2>6 DEF RejectInsufficientFunds, DenySellable, RejectOther, Dropped,
                              venueVars
        <3> QED
            BY <3>1, OtherProgress
    <2>7. ASSUME NEW rebuilt, NEW reached, Restart(rebuilt, reached)
          PROVE  Work!Progress(i)
        <3>1. held' = held
            BY <2>7 DEF Restart, venueVars
        <3>2. \/ ord'[i] = NoOrder \/ ord'[i] = ord[i]
              \/ ord[i].st = "pcancel" /\ ord'[i] = [ord[i] EXCEPT !.st = "open"]
            BY <2>7 DEF Restart
        <3>3. \/ ord'[i] = ord[i] \/ ord'[i] = NoOrder
              \/ ord'[i].side = ord[i].side /\ ord'[i].leaves = ord[i].leaves
            BY <2>1, <3>2 DEF Order, NoOrder
        <3> QED
            BY <3>1, <3>3, OtherProgress
    <2>8. CASE \/ AccountReport \/ MassStatus \/ NewDay
               \/ \E j \in Instruments :
                     ReleaseFreeze(j) \/ RetryWindowEnds(j) \/ DenialReplayed(j) \/ LateFill(j)
        <3>1. held' = held /\ ord' = ord
            BY <2>8 DEF AccountReport, MassStatus, NewDay, ReleaseFreeze, RetryWindowEnds,
                        DenialReplayed, LateFill, strategyVars, cacheVars, venueVars
        <3> QED
            BY <3>1, OtherProgress
    <2> QED
        BY <2>2, <2>3, <2>4, <2>5, <2>6, <2>7, <2>8 DEF Next, StrategyNext, VenueNext
<1> QED
    BY <1>1, <1>2, <1>3 DEF Work!Next, Aim

\* At most one wave of work per instrument, towards a target that was asked for and never
\* past it, through cancels, racing fills, rejections and restarts: every step of the
\* executor is a step of PositionWork or leaves its state as it is.
THEOREM ExecutorRefinesWork ==
    ASSUME RacingFillQueued
    PROVE  Spec => ImplementsPositionWork
<1>1. Init => PlanInv
    BY InitEstablishesPlan
<1>2. PlanInv /\ [Next]_vars => PlanInv'
    BY PlanNextKeeps
<1>3. Init => Work!Init
    <2> SUFFICES ASSUME Init PROVE Work!Init
        OBVIOUS
    <2>1. \A i \in Instruments : held[i] + Signed(ord[i]) = InitHeld[i]
        <3>1. Signed(NoOrder) = 0
            BY DEF Signed, NoOrder
        <3> QED
            BY <3>1, ConfigAssumption DEF Init
    <2>2. held = InitHeld /\ InitHeld = [i \in Instruments |-> InitHeld[i]]
        BY ConfigAssumption DEF Init
    <2> QED
        BY <2>1, <2>2 DEF Work!Init
<1>4. PlanInv /\ PlanInv' /\ [Next]_vars => [Work!Next]_(Work!vars)
    <2>1. ASSUME UNCHANGED vars PROVE UNCHANGED Work!vars
        BY <2>1 DEF vars, cacheVars, venueVars, Work!vars
    <2> QED
        BY <2>1, StepRefines
<1> QED
    BY <1>1, <1>2, <1>3, <1>4, PTL DEF Spec, ImplementsPositionWork, Work!Spec
==============================================================================
