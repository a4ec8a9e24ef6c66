----------------------------- MODULE Planning_proofs -----------------------------
(***************************************************************************)
(* Why what is decided for a day is right, component by component: the     *)
(* content of a plan, the signals it is made from, and the stops of a      *)
(* holding.  Each has an inductive invariant, the lemmas that its steps    *)
(* keep it, and at the end one theorem for each property that the run of   *)
(* MCPlanning checks.                                                      *)
(***************************************************************************)
EXTENDS MCPlanning, FiniteSetTheorems, WellFoundedInduction, TLAPS

-----------------------------------------------------------------------------
(* The day.  It follows one plan, the stored one, through restarts, refreshes  *)
(* and failures.  The inductive invariant adds that the map in force is never  *)
(* of a later day, and that what was followed is what is stored.               *)

Clean(mishaps) == mishaps \cap {"load", "write", "frozen"} = {}

FollowedIsStored == Clean(excused) => \A m \in followed : m # Empty /\ m = Stored

IInv == TypeOK /\ target.day <= day /\ InForceIsStored /\ FollowedIsStored

Target  == [day : 0..Days, map : Maps, kind : Kinds, exits : SUBSET Stocks]
Rows    == [{"before", "continuous"} -> Maps]
Mishaps == {"load", "write", "frozen"}

-----------------------------------------------------------------------------
(* Maps and rows *)

LEMMA MapsMembers ==
    ASSUME NEW m
    PROVE  m \in Maps <=> DOMAIN m \subseteq Stocks /\ m \in [DOMAIN m -> 0..MaxShares]
<1>1. ASSUME m \in Maps PROVE DOMAIN m \subseteq Stocks /\ m \in [DOMAIN m -> 0..MaxShares]
    BY <1>1 DEF Maps
<1>2. ASSUME DOMAIN m \subseteq Stocks, m \in [DOMAIN m -> 0..MaxShares] PROVE m \in Maps
    BY <1>2 DEF Maps
<1> QED
    BY <1>1, <1>2

LEMMA EmptyIsMap == Empty \in Maps
<1>1. DOMAIN Empty \subseteq Stocks /\ Empty \in [DOMAIN Empty -> 0..MaxShares]
    BY DEF Empty
<1> QED
    BY <1>1, MapsMembers

LEMMA NoRowsType == NoRows \in Rows
<1>1. NoRows = [t \in {"before", "continuous"} |-> Empty]
    BY DEF NoRows
<1> QED
    BY <1>1, EmptyIsMap DEF Rows

LEMMA NoTargetType == NoTarget \in Target /\ NoTarget.kind = "none" /\ NoTarget.day = 0
BY EmptyIsMap, DailyAssumption DEF NoTarget, Target, Kinds

LEMMA StoredType == ASSUME TypeOK PROVE Stored \in Maps
BY DEF TypeOK, Stored

\* The merge of a plan into stored rows is a map again.
LEMMA UpsertedType ==
    ASSUME TypeOK, NEW type \in {"before", "continuous"}, NEW m \in Maps
    PROVE  Upserted(type, m) \in Rows
<1> DEFINE r == rows[type]
           merged == [s \in DOMAIN m \cup DOMAIN r |-> IF s \in DOMAIN m THEN m[s] ELSE r[s]]
<1>1. r \in Maps /\ rows \in Rows
    BY DEF TypeOK, Rows
<1>2. /\ DOMAIN m \subseteq Stocks /\ m \in [DOMAIN m -> 0..MaxShares]
      /\ DOMAIN r \subseteq Stocks /\ r \in [DOMAIN r -> 0..MaxShares]
    BY <1>1, MapsMembers
<1>3. DOMAIN merged \subseteq Stocks /\ merged \in [DOMAIN merged -> 0..MaxShares]
    BY <1>2
<1>4. merged \in Maps
    <2> HIDE DEF merged
    <2> QED
        BY <1>3, MapsMembers
<1>5. Upserted(type, m) = [rows EXCEPT ![type] = merged]
    BY DEF Upserted
<1> HIDE DEF merged
<1> QED
    BY <1>1, <1>4, <1>5 DEF Rows

\* Where nothing is stored, what is written is what a start then loads.
LEMMA FreshRows ==
    ASSUME TypeOK, Stored = Empty, NEW type \in {"before", "continuous"}, NEW m \in Maps,
           rows' = Upserted(type, m)
    PROVE  Stored' = m
<1>1. rows["before"] = Empty /\ rows["continuous"] = Empty
    BY DEF Stored
<1>2. DOMAIN m \cup DOMAIN rows[type] = DOMAIN m
    BY <1>1 DEF Empty
<1>3. m = [s \in DOMAIN m |-> m[s]]
    BY MapsMembers
<1> DEFINE merged == [s \in DOMAIN m \cup DOMAIN rows[type] |->
                          IF s \in DOMAIN m THEN m[s] ELSE rows[type][s]]
<1>4. merged = m
    <2>1. [s \in DOMAIN m |-> IF s \in DOMAIN m THEN m[s] ELSE rows[type][s]]
            = [s \in DOMAIN m |-> m[s]]
        OBVIOUS
    <2> QED
        BY <1>2, <1>3, <2>1
<1>5. rows' = [rows EXCEPT ![type] = merged]
    BY DEF Upserted
<1> HIDE DEF merged
<1>6. rows \in [{"before", "continuous"} -> Maps]
    BY DEF TypeOK
<1> QED
    BY <1>1, <1>4, <1>5, <1>6 DEF Stored

LEMMA PlanType ==
    ASSUME TypeOK, NEW m \in Maps
    PROVE  PlanOf(m) \in Target /\ PlanOf(m).day = day /\ PlanOf(m).map = m
BY DEF TypeOK, PlanOf, Target, Kinds

\* A safety plan names held stocks only.
LEMMA SafetyType ==
    ASSUME TypeOK, NEW cache \in [Stocks -> 0..MaxShares], NEW sure,
           NEW t \in SafetyPlans(cache, sure)
    PROVE  t \in Target /\ t.kind \in {"safety", "blind"} /\ t.day = day
<1>1. PICK exits \in SUBSET {s \in Stocks : cache[s] > 0} : t = SafetyPlan(cache, exits, sure)
    BY DEF SafetyPlans
<1> DEFINE m == [s \in {u \in Stocks : cache[u] > 0} |-> IF s \in exits THEN 0 ELSE cache[s]]
<1>2. DOMAIN m \subseteq Stocks /\ m \in [DOMAIN m -> 0..MaxShares]
    BY DailyAssumption
<1>3. m \in Maps
    <2> HIDE DEF m
    <2> QED
        BY <1>2, MapsMembers
<1> DEFINE k == IF sure \/ cache = held THEN "safety" ELSE "blind"
<1>4. t = [day |-> day, kind |-> k, exits |-> exits, map |-> m] /\ k \in {"safety", "blind"}
    BY <1>1 DEF SafetyPlan
<1> HIDE DEF m, k
<1> QED
    BY <1>3, <1>4 DEF TypeOK, Target, Kinds

-----------------------------------------------------------------------------
(* What a target decision may do *)

\* The outcome of _ensure_daily_target and of _process_trading_day, from the target old.
Settled(old) ==
    /\ target' \in Target /\ target'.day <= day
    /\ rows' \in Rows /\ made' \subseteq Plans
    /\ followed' \subseteq Maps /\ excused' \subseteq Mishaps
    /\ Clean(excused') =>
           /\ Clean(excused)
           /\ rows' = rows \/ Stored = Empty
           /\ \/ target' = old /\ rows' = rows
              \/ target'.kind \in {"safety", "blind"} /\ rows' = rows
              \/ Stored' = target'.map
           /\ \/ followed' = followed
              \/ /\ target'.map # Empty /\ Stored' = target'.map
                 /\ followed' = followed \cup {target'.map}

LEMMA SettledKeeps ==
    ASSUME IInv, NEW old \in {target, NoTarget}, Settled(old), day' = day
    PROVE  InForceIsStored' /\ FollowedIsStored'
<1>1. NoTarget.kind = "none"
    BY NoTargetType
<1>2. rows' = rows => Stored' = Stored
    BY DEF Stored
<1>3. InForceIsStored'
    BY <1>1, <1>2 DEF IInv, InForceIsStored, Settled, Clean
<1>4. Clean(excused') /\ Stored = Empty => followed = {}
    BY DEF IInv, FollowedIsStored, Settled
<1>5. ASSUME Clean(excused'), NEW m \in followed' PROVE m # Empty /\ m = Stored'
    <2>1. CASE followed' = followed
        BY <1>2, <1>4, <1>5, <2>1 DEF IInv, FollowedIsStored, Settled
    <2>2. CASE followed' # followed
        BY <1>2, <1>4, <1>5, <2>2 DEF IInv, FollowedIsStored, Settled
    <2> QED
        BY <2>1, <2>2
<1>6. FollowedIsStored'
    BY <1>5 DEF FollowedIsStored
<1> QED
    BY <1>3, <1>6

\* The update itself: a freeze keeps the old target, and is a mishap.
LEMMA PutOutcome ==
    ASSUME NEW new \in Target, NEW old \in Target, Put(new, old), TypeOK, old.day <= day,
           new.day = day
    PROVE  /\ target' \in Target /\ target'.day <= day
           /\ followed' \subseteq Maps
           /\ ~frozen => target' = new
           /\ followed' = followed \/ (/\ target'.map # Empty /\ target'.kind = "plan"
                                       /\ followed' = followed \cup {target'.map})
BY DailyAssumption DEF Put, InForce, Follow, TypeOK, Target

LEMMA MishapOutcome ==
    ASSUME TypeOK, NEW names \in SUBSET Mishaps, Mishap(names)
    PROVE  /\ excused' \subseteq Mishaps
           /\ Clean(excused') => Clean(excused) /\ Clean(names)
BY DEF TypeOK, Mishap, Mishaps, Clean

\* A stored plan is applied: at the recorder's, or at the strategy's.
LEMMA StoredSettles ==
    ASSUME TypeOK, NEW old \in Target, old.day <= day,
           Put(PlanOf(Stored), old), Mishap(Skip), UNCHANGED <<rows, made>>
    PROVE  Settled(old)
<1>1. PlanOf(Stored) \in Target /\ PlanOf(Stored).day = day /\ PlanOf(Stored).map = Stored
    BY StoredType, PlanType
<1>2. Skip \in SUBSET Mishaps /\ (Clean(Skip) => ~frozen)
    BY DEF Skip, Mishaps, Clean
<1>3. Stored' = Stored
    BY DEF Stored
<1>4. rows' \in Rows /\ made' \subseteq Plans
    BY DEF TypeOK, Rows
<1> QED
    BY <1>1, <1>2, <1>3, <1>4, PutOutcome, MishapOutcome DEF Settled

\* A new plan is stored and applied.
LEMMA NewPlanSettles ==
    ASSUME TypeOK, NEW old \in Target, old.day <= day, NEW m \in Plans,
           NEW type \in {"before", "continuous"}, NEW names \in SUBSET Mishaps,
           Clean(names) => Stored = Empty /\ ~frozen,
           made' = made \cup {m}, Put(PlanOf(m), old), Mishap(names),
           rows' = Upserted(type, m) \/ (rows' = rows /\ "write" \in names)
    PROVE  Settled(old)
<1>1. m \in Maps
    BY DailyAssumption
<1>2. PlanOf(m) \in Target /\ PlanOf(m).day = day /\ PlanOf(m).map = m
    BY <1>1, PlanType
<1>3. rows' \in Rows /\ made' \subseteq Plans
    BY <1>1, UpsertedType DEF TypeOK, Rows
<1>4. Clean(names) => Stored' = m
    <2> SUFFICES ASSUME Clean(names) PROVE Stored' = m
        OBVIOUS
    <2>1. rows' = Upserted(type, m)
        BY DEF Clean
    <2> QED
        BY <1>1, <2>1, FreshRows
<1> QED
    BY <1>2, <1>3, <1>4, PutOutcome, MishapOutcome DEF Settled

\* The degraded plan is applied and not stored.
LEMMA SafetySettles ==
    ASSUME TypeOK, NEW old \in Target, old.day <= day,
           NEW cache \in [Stocks -> 0..MaxShares], NEW sure, NEW t \in SafetyPlans(cache, sure),
           NEW names \in SUBSET Mishaps, Clean(names) => ~frozen,
           Put(t, old), Mishap(names), UNCHANGED <<rows, made>>
    PROVE  Settled(old)
<1>1. t \in Target /\ t.kind \in {"safety", "blind"} /\ t.day = day
    BY SafetyType
<1>2. rows' \in Rows /\ made' \subseteq Plans
    BY DEF TypeOK, Rows
<1> QED
    BY <1>1, <1>2, PutOutcome, MishapOutcome DEF Settled

\* The recorder before the open, or at a start.
LEMMA EnsureSettles ==
    ASSUME TypeOK, NEW old \in Target, old.day <= day, NEW type \in {"before", "continuous"},
           NEW cache \in [Stocks -> 0..MaxShares], NEW sure, NEW haveSignals,
           Ensure(type, old, cache, sure, haveSignals)
    PROVE  Settled(old)
<1>1. /\ Skip \in SUBSET Mishaps /\ (Clean(Skip) => ~frozen)
      /\ LoadMishap \in SUBSET Mishaps /\ (Clean(LoadMishap) => Stored = Empty)
    BY DEF Skip, LoadMishap, Mishaps, Clean
<1>2. CASE LoadTarget(old)
    BY <1>2, StoredSettles DEF LoadTarget
<1>3. CASE GeneratePlan(type, old, haveSignals)
    <2>1. PICK m \in Plans :
              /\ made' = made \cup {m} /\ Put(PlanOf(m), old)
              /\ \/ rows' = Upserted(type, m) /\ Mishap(LoadMishap \cup Skip)
                 \/ Mishap(LoadMishap \cup Skip \cup {"write"}) /\ UNCHANGED rows
        BY <1>3 DEF GeneratePlan
    <2>2. /\ LoadMishap \cup Skip \in SUBSET Mishaps
          /\ LoadMishap \cup Skip \cup {"write"} \in SUBSET Mishaps
          /\ Clean(LoadMishap \cup Skip) => Stored = Empty /\ ~frozen
          /\ Clean(LoadMishap \cup Skip \cup {"write"}) => Stored = Empty /\ ~frozen
        BY <1>1 DEF Clean, Mishaps
    <2>3. CASE rows' = Upserted(type, m) /\ Mishap(LoadMishap \cup Skip)
        BY <2>1, <2>2, <2>3, NewPlanSettles
    <2>4. CASE Mishap(LoadMishap \cup Skip \cup {"write"}) /\ UNCHANGED rows
        BY <2>1, <2>2, <2>4, NewPlanSettles
    <2> QED
        BY <2>1, <2>3, <2>4
<1>4. CASE GenerateSafety(old, cache, sure, haveSignals)
    <2>1. PICK t \in SafetyPlans(cache, sure) : Put(t, old)
        BY <1>4 DEF GenerateSafety
    <2>2. LoadMishap \cup Skip \in SUBSET Mishaps /\ (Clean(LoadMishap \cup Skip) => ~frozen)
        BY <1>1 DEF Clean
    <2>3. Mishap(LoadMishap \cup Skip) /\ UNCHANGED <<rows, made>>
        BY <1>4 DEF GenerateSafety
    <2> QED
        BY <2>1, <2>2, <2>3, SafetySettles
<1>5. CASE GenerateRaises(old)
    <2>1. /\ target' = old /\ Mishap(LoadMishap) /\ rows' = rows /\ made' = made
          /\ followed' = followed
        BY <1>5 DEF GenerateRaises
    <2> QED
        BY <1>1, <2>1, MishapOutcome DEF Settled, TypeOK, Rows
<1> QED
    BY <1>2, <1>3, <1>4, <1>5 DEF Ensure

\* The strategy at the open, or after a refresh.
LEMMA ProcessSettles ==
    ASSUME TypeOK, target.day <= day, Process
    PROVE  Settled(target) /\ processed' \in Outcomes
<1>0. processed' \in Outcomes
    BY DEF Process, ProcessLoaded, ProcessPlan, ProcessSafety, Marked, Outcomes
<1>1. Skip \in SUBSET Mishaps /\ (Clean(Skip) => ~frozen)
    BY DEF Skip, Mishaps, Clean
<1>2. target \in Target
    BY DEF TypeOK, Target
<1>3. CASE ProcessLoaded
    BY <1>0, <1>2, <1>3, StoredSettles DEF ProcessLoaded
<1>4. CASE ProcessPlan
    <2>1. PICK m \in Plans :
              /\ made' = made \cup {m}
              /\ \/ rows' = Upserted("continuous", m) /\ Put(PlanOf(m), target) /\ Mishap(Skip)
                 \/ UNCHANGED <<target, followed, rows, excused>>
        BY <1>4 DEF ProcessPlan, ApplyUnstored
    <2>2. Stored = Empty
        BY <1>4 DEF ProcessPlan
    <2>3. CASE rows' = Upserted("continuous", m) /\ Put(PlanOf(m), target) /\ Mishap(Skip)
        BY <1>0, <1>1, <1>2, <2>1, <2>2, <2>3, NewPlanSettles
    <2>4. CASE UNCHANGED <<target, followed, rows, excused>>
        <3>1. made' \subseteq Plans /\ rows' \in Rows /\ followed' \subseteq Maps
            BY <2>1, <2>4 DEF TypeOK, Rows
        <3>2. excused' \subseteq Mishaps
            BY <2>4 DEF TypeOK, Mishaps
        <3> QED
            BY <1>0, <1>2, <2>4, <3>1, <3>2 DEF Settled
    <2> QED
        BY <2>1, <2>3, <2>4
<1>5. CASE ProcessSafety
    <2>1. PICK t \in SafetyPlans(seen, reconciled) : Put(t, target)
        BY <1>5 DEF ProcessSafety
    <2>2. Mishap(Skip) /\ UNCHANGED <<rows, made>>
        BY <1>5 DEF ProcessSafety
    <2>3. seen \in [Stocks -> 0..MaxShares]
        BY DEF TypeOK
    <2> QED
        BY <1>0, <1>1, <1>2, <2>1, <2>2, <2>3, SafetySettles
<1> QED
    BY <1>3, <1>4, <1>5 DEF Process

\* A step that decides keeps the invariant, whatever it does to the flags.
LEMMA DecisionKeeps ==
    ASSUME IInv, NEW old \in {target, NoTarget}, Settled(old), UNCHANGED <<day, at>>,
           up' \in BOOLEAN, applied' \in BOOLEAN, processed' \in Outcomes,
           signals' \in BOOLEAN, reconciled' \in BOOLEAN, UNCHANGED <<frozen, held>>,
           seen' \in [Stocks -> 0..MaxShares]
    PROVE  IInv'
<1>1. TypeOK'
    BY DEF IInv, TypeOK, Settled, Target, Rows, Mishaps
<1>2. InForceIsStored' /\ FollowedIsStored'
    BY SettledKeeps
<1>3. (target.day <= day)'
    BY DEF Settled
<1> QED
    BY <1>1, <1>2, <1>3 DEF IInv

\* A step that leaves target, rows and what was followed alone, on the same day.
LEMMA AloneKeeps ==
    ASSUME IInv, TypeOK', UNCHANGED <<day, target, rows, followed, excused>>
    PROVE  IInv'
<1>1. Stored' = Stored
    BY DEF Stored
<1> QED
    BY <1>1 DEF IInv, InForceIsStored, FollowedIsStored

-----------------------------------------------------------------------------
(* The actions *)

LEMMA InitIInv == Init => IInv
<1> SUFFICES ASSUME Init PROVE IInv
    OBVIOUS
<1>1. target \in Target /\ target.kind = "none" /\ target.day = 0
    BY NoTargetType DEF Init
<1>2. rows \in Rows
    BY NoRowsType DEF Init
<1>3. TypeOK
    <2>1. day \in 1..Days /\ at \in Times
        BY DailyAssumption DEF Init, Times
    <2>2. /\ up \in BOOLEAN /\ applied \in BOOLEAN /\ processed \in Outcomes
          /\ signals \in BOOLEAN /\ frozen \in BOOLEAN /\ reconciled \in BOOLEAN
          /\ held \in [Stocks -> 0..MaxShares] /\ seen \in [Stocks -> 0..MaxShares]
        BY DEF Init, Outcomes
    <2>3. made \subseteq Plans /\ followed \subseteq Maps /\ excused \subseteq Mishaps
        BY DEF Init
    <2> QED
        BY <1>1, <1>2, <2>1, <2>2, <2>3 DEF TypeOK, Target, Rows, Mishaps
<1>4. InForceIsStored /\ FollowedIsStored
    BY <1>1 DEF Init, InForceIsStored, FollowedIsStored
<1> QED
    BY <1>1, <1>3, <1>4 DEF IInv, Init

LEMMA TimersKeep ==
    ASSUME IInv, BeforeTimer \/ TimerProcesses \/ Refresh
    PROVE  IInv'
<1>1. /\ TypeOK /\ target \in Target /\ target.day <= day
      /\ seen \in [Stocks -> 0..MaxShares]
      /\ up \in BOOLEAN /\ applied \in BOOLEAN /\ processed \in Outcomes
      /\ signals \in BOOLEAN /\ reconciled \in BOOLEAN
    BY DEF IInv, TypeOK, Target
<1>2. CASE BeforeTimer
    <2>1. Ensure("before", target, seen, reconciled, signals)
        BY <1>2 DEF BeforeTimer
    <2>2. Settled(target)
        BY <1>1, <2>1, EnsureSettles
    <2> QED
        BY <1>1, <1>2, <2>2, DecisionKeeps DEF BeforeTimer, node, book
<1>3. ASSUME Process, UNCHANGED <<node, frozen, book>>, applied' = applied, signals' \in BOOLEAN
      PROVE  IInv'
    <2>1. Settled(target) /\ processed' \in Outcomes
        BY <1>1, <1>3, ProcessSettles
    <2> QED
        BY <1>1, <1>3, <2>1, DecisionKeeps DEF node, book
<1>4. ASSUME UNCHANGED <<node, frozen, book, target, rows, made, followed, excused>>,
             applied' = applied, signals' \in BOOLEAN, processed' \in Outcomes
      PROVE  IInv'
    <2>1. TypeOK'
        BY <1>1, <1>4 DEF TypeOK, node, book
    <2> QED
        BY <1>4, <2>1, AloneKeeps DEF node
<1>5. CASE TimerProcesses
    <2>1. signals' \in BOOLEAN /\ UNCHANGED <<node, applied, frozen, book>>
        BY <1>1, <1>5 DEF TimerProcesses
    <2>2. \/ Process
          \/ processed' \in Outcomes /\ UNCHANGED <<target, rows, made, followed, excused>>
        BY <1>1, <1>5 DEF TimerProcesses, ProcessRaises, AfterRaise
    <2> QED
        BY <1>3, <1>4, <2>1, <2>2
<1>6. CASE Refresh
    <2>1. signals' \in BOOLEAN /\ UNCHANGED <<node, applied, frozen, book>>
        BY <1>1, <1>6 DEF Refresh
    <2>2. \/ Process
          \/ processed' \in Outcomes /\ UNCHANGED <<target, rows, made, followed, excused>>
        BY <1>6 DEF Refresh, ProcessRaises, AfterRaise, Outcomes
    <2> QED
        BY <1>3, <1>4, <2>1, <2>2
<1> QED
    BY <1>2, <1>5, <1>6

LEMMA StopKeeps == ASSUME IInv, Stop PROVE IInv'
<1>1. target' \in Target /\ target'.kind = "none" /\ target'.day = 0
    BY NoTargetType DEF Stop
<1>2. TypeOK'
    BY <1>1 DEF IInv, TypeOK, Target, Stop, book, Outcomes
<1>3. Stored' = Stored
    BY DEF Stop, Stored
<1> QED
    BY <1>1, <1>2, <1>3 DEF IInv, TypeOK, InForceIsStored, FollowedIsStored, Stop

LEMMA StartKeeps == ASSUME IInv, Start PROVE IInv'
<1>1. seen' \in [Stocks -> 0..MaxShares]
    BY DEF IInv, TypeOK, Start, CacheAtStart
<1>2. /\ up' \in BOOLEAN /\ signals' \in BOOLEAN /\ reconciled' \in BOOLEAN
      /\ UNCHANGED <<day, at, processed, frozen, held>> /\ processed \in Outcomes
      /\ target \in Target /\ target.day <= day
    BY DEF IInv, TypeOK, Target, Start
<1>3. CASE at = "early"
    <2>1. UNCHANGED <<applied, target, rows, made, followed, excused>>
        BY <1>3 DEF Start
    <2>2. TypeOK'
        BY <1>1, <1>2, <2>1 DEF IInv, TypeOK
    <2> QED
        BY <1>2, <2>1, <2>2, AloneKeeps
<1>4. CASE at # "early"
    <2>1. applied' = TRUE
          /\ Ensure(IF at = "before" THEN "before" ELSE "continuous", target, seen', FALSE,
                    signals')
        BY <1>4 DEF Start
    <2>2. Settled(target)
        BY <1>1, <1>2, <2>1, EnsureSettles DEF IInv
    <2> QED
        BY <1>1, <1>2, <2>1, <2>2, DecisionKeeps
<1> QED
    BY <1>3, <1>4

LEMMA BookKeeps ==
    ASSUME IInv, Reconcile \/ Freeze \/ \E s \in Stocks : Trade(s)
    PROVE  IInv'
<1>1. UNCHANGED <<day, target, rows, followed, excused>>
    BY DEF Reconcile, Freeze, Trade, node
<1>2. CASE Reconcile \/ Freeze
    <2>1. TypeOK'
        BY <1>2 DEF IInv, TypeOK, Reconcile, Freeze, node, book
    <2> QED
        BY <1>1, <2>1, AloneKeeps
<1>3. ASSUME NEW s \in Stocks, Trade(s) PROVE IInv'
    <2>1. target.map \in Maps
        BY DEF IInv, TypeOK
    <2>2. Desired(s) \in 0..MaxShares
        BY <2>1, MapsMembers, DailyAssumption DEF Desired
    <2>3. TypeOK'
        BY <1>3, <2>2 DEF IInv, TypeOK, Trade, node
    <2> QED
        BY <1>1, <2>3, AloneKeeps
<1> QED
    BY <1>2, <1>3

\* At the open, the plan in force is followed: it is the stored one.
LEMMA ClockKeeps == ASSUME IInv, Clock PROVE IInv'
<1>1. at' \in Times /\ UNCHANGED <<day, target, rows, excused>>
    BY DEF IInv, TypeOK, Times, Clock
<1>2. Stored' = Stored
    BY <1>1 DEF Stored
<1>3. followed' \subseteq Maps
    BY DEF IInv, TypeOK, Clock
<1>4. TypeOK'
    BY <1>1, <1>3 DEF IInv, TypeOK, Clock, book
<1>5. InForceIsStored'
    BY <1>1, <1>2 DEF IInv, InForceIsStored
<1>6. \/ followed' = followed
      \/ /\ target.day = day /\ target.kind = "plan" /\ target.map # Empty
         /\ followed' = {target.map}
    BY DEF Clock
<1>7. FollowedIsStored'
    BY <1>1, <1>2, <1>6 DEF IInv, InForceIsStored, FollowedIsStored, Clean
<1> QED
    BY <1>1, <1>4, <1>5, <1>7 DEF IInv

LEMMA NextDayKeeps == ASSUME IInv, NextDay PROVE IInv'
<1>1. /\ day' = day + 1 /\ day' \in 1..Days /\ target' = target /\ target.day <= day
      /\ day \in Nat /\ target.day \in Nat
    BY DailyAssumption DEF IInv, TypeOK, NextDay
<1>2. target'.day # day' /\ target'.day <= day'
    BY <1>1
<1>3. rows' \in Rows
    BY NoRowsType DEF NextDay
<1>4. TypeOK'
    BY <1>1, <1>3 DEF IInv, TypeOK, Times, Rows, NextDay, book, Outcomes
<1>5. InForceIsStored' /\ FollowedIsStored'
    BY <1>2 DEF InForceIsStored, FollowedIsStored, NextDay
<1> QED
    BY <1>2, <1>4, <1>5 DEF IInv

LEMMA NextKeeps == ASSUME IInv, [Next]_vars PROVE IInv'
<1>1. CASE BeforeTimer \/ TimerProcesses \/ Refresh
    BY <1>1, TimersKeep
<1>2. CASE Stop
    BY <1>2, StopKeeps
<1>3. CASE Start
    BY <1>3, StartKeeps
<1>4. CASE Reconcile \/ Freeze \/ \E s \in Stocks : Trade(s)
    BY <1>4, BookKeeps
<1>5. CASE Clock
    BY <1>5, ClockKeeps
<1>6. CASE NextDay
    BY <1>6, NextDayKeeps
<1>7. CASE UNCHANGED vars
    <2>1. TypeOK'
        BY <1>7 DEF vars, IInv, TypeOK
    <2> QED
        BY <1>7, <2>1, AloneKeeps DEF vars
<1> QED
    BY <1>1, <1>2, <1>3, <1>4, <1>5, <1>6, <1>7 DEF Next

\* Whatever restarts, refreshes, freezes and failures a day sees, and whatever the risk
\* manager answers each time it is asked: a plan of today in force is the stored one, and
\* trading follows no second one, but for a read or a write that failed the recorder or
\* an update that met a freeze (SnapshotRecorder._ensure_daily_target and
\* TargetModelPredictionsStrategy._process_trading_day).
THEOREM DaySafe == Spec => [](TypeOK /\ InForceIsStored /\ OneFrozenPlan)
<1>1. Init => IInv
    BY InitIInv
<1>2. IInv /\ [Next]_vars => IInv'
    BY NextKeeps
<1>3. IInv => TypeOK /\ InForceIsStored /\ OneFrozenPlan
    BY DEF IInv, FollowedIsStored, OneFrozenPlan, Clean
<1> QED
    BY <1>1, <1>2, <1>3, PTL DEF Spec

-----------------------------------------------------------------------------
(* A safety plan keeps what is held.  It is made from the cache, which says what *)
(* the account holds once the mass status has come, and from then on only a      *)
(* forced exit finds a difference to trade.                                      *)

SafetyInv == (reconciled => seen = held) /\ SafetyKeepsHoldings

\* The map in force after a step that may only keep it, drop it, take over a plan, or take
\* over a safety plan made from the cache given.
Replaced(old, cache, sure) ==
    \/ target' = old
    \/ target'.kind # "safety"
    \/ target' \in SafetyPlans(cache, sure)

LEMMA PutReplaces ==
    ASSUME NEW old, NEW cache, NEW sure, NEW new, Put(new, old),
           new.kind = "plan" \/ new \in SafetyPlans(cache, sure)
    PROVE  Replaced(old, cache, sure)
BY DEF Put, InForce, Replaced

LEMMA EnsureReplaces ==
    ASSUME NEW type, NEW old, NEW cache, NEW sure, NEW haveSignals,
           Ensure(type, old, cache, sure, haveSignals)
    PROVE  Replaced(old, cache, sure)
<1>1. \A m : PlanOf(m).kind = "plan"
    BY DEF PlanOf
<1>2. CASE LoadTarget(old)
    BY <1>1, <1>2, PutReplaces DEF LoadTarget
<1>3. CASE GeneratePlan(type, old, haveSignals)
    BY <1>1, <1>3, PutReplaces DEF GeneratePlan
<1>4. CASE GenerateSafety(old, cache, sure, haveSignals)
    BY <1>4, PutReplaces DEF GenerateSafety
<1>5. CASE GenerateRaises(old)
    BY <1>5 DEF GenerateRaises, Replaced
<1> QED
    BY <1>2, <1>3, <1>4, <1>5 DEF Ensure

LEMMA ProcessReplaces ==
    ASSUME Process \/ ProcessRaises
    PROVE  Replaced(target, seen, reconciled)
<1>1. \A m : PlanOf(m).kind = "plan"
    BY DEF PlanOf
<1>2. CASE ProcessLoaded
    BY <1>1, <1>2, PutReplaces DEF ProcessLoaded
<1>3. CASE ProcessPlan
    <2>1. PICK m \in Plans : Put(PlanOf(m), target) \/ ApplyUnstored(m)
        BY <1>3 DEF ProcessPlan
    <2> QED
        BY <1>1, <2>1, PutReplaces DEF ApplyUnstored, Replaced
<1>4. CASE ProcessSafety
    BY <1>4, PutReplaces DEF ProcessSafety
<1>5. CASE ProcessRaises
    BY <1>5 DEF ProcessRaises, Replaced
<1> QED
    BY <1>2, <1>3, <1>4, <1>5 DEF Process

\* A safety plan that is not blind was made from what is held, and asks for just that, but
\* for its exits.
LEMMA SafetyPlanKeeps ==
    ASSUME TypeOK, NEW cache, NEW sure, sure => cache = held,
           NEW t \in SafetyPlans(cache, sure), t.kind = "safety", NEW s \in Stocks \ t.exits
    PROVE  (IF s \in DOMAIN t.map THEN t.map[s] ELSE 0) = held[s]
<1>1. PICK exits \in SUBSET {u \in Stocks : cache[u] > 0} : t = SafetyPlan(cache, exits, sure)
    BY DEF SafetyPlans
<1>2. /\ t.exits = exits
      /\ t.kind = IF sure \/ cache = held THEN "safety" ELSE "blind"
      /\ t.map = [u \in {v \in Stocks : cache[v] > 0} |-> IF u \in exits THEN 0 ELSE cache[u]]
    BY <1>1 DEF SafetyPlan
<1>3. cache = held
    BY <1>2
<1>4. held[s] \in Nat /\ held[s] > 0 <=> held[s] # 0
    BY DailyAssumption DEF TypeOK
<1> QED
    BY <1>2, <1>3, <1>4

LEMMA ReplacedKeepsSafety ==
    ASSUME TypeOK, SafetyInv, UNCHANGED <<day, held>>, reconciled' => seen' = held',
           NEW cache, NEW sure, sure => cache = held,
           \/ Replaced(target, cache, sure) \/ Replaced(NoTarget, cache, sure)
    PROVE  SafetyInv'
<1>1. CASE target' = target
    BY <1>1 DEF SafetyInv, SafetyKeepsHoldings, Desired
<1>2. CASE target'.kind # "safety"
    BY <1>2 DEF SafetyInv, SafetyKeepsHoldings
<1>3. CASE target' \in SafetyPlans(cache, sure)
    BY <1>3, SafetyPlanKeeps DEF SafetyInv, SafetyKeepsHoldings, Desired
<1>4. CASE target' = NoTarget
    BY <1>4 DEF NoTarget, SafetyInv, SafetyKeepsHoldings
<1> QED
    BY <1>1, <1>2, <1>3, <1>4 DEF Replaced

LEMMA NextKeepsSafety ==
    ASSUME IInv, SafetyInv, [Next]_vars
    PROVE  SafetyInv'
<1> USE DEF IInv
<1>1. reconciled => seen = held
    BY DEF SafetyInv
<1>2. CASE BeforeTimer \/ TimerProcesses \/ Refresh
    <2>1. /\ UNCHANGED <<day, held>> /\ (reconciled' => seen' = held')
          /\ Replaced(target, seen, reconciled)
        <3>1. CASE BeforeTimer
            BY <1>1, <3>1, EnsureReplaces DEF BeforeTimer, node, book
        <3>2. CASE TimerProcesses
            BY <1>1, <3>2, ProcessReplaces DEF TimerProcesses, node, book
        <3>3. CASE Refresh
            BY <1>1, <3>3, ProcessReplaces DEF Refresh, node, book, Replaced
        <3> QED
            BY <1>2, <3>1, <3>2, <3>3
    <2> QED
        BY <1>1, <2>1, ReplacedKeepsSafety
<1>3. CASE Stop \/ Reconcile \/ Freeze \/ Clock \/ UNCHANGED vars
    <2>1. /\ UNCHANGED <<day, held>> /\ (reconciled' => seen' = held')
          /\ target' = target \/ target' = NoTarget
        BY <1>1, <1>3 DEF Stop, Reconcile, Freeze, Clock, vars, node, book
    <2>2. Replaced(target, held, TRUE) \/ Replaced(NoTarget, held, TRUE)
        BY <2>1 DEF Replaced
    <2> QED
        BY <2>1, <2>2, ReplacedKeepsSafety
<1>4. CASE Start
    <2>1. UNCHANGED <<day, held>> /\ ~reconciled'
        BY <1>4 DEF Start
    <2>2. Replaced(target, seen', FALSE)
        BY <1>4, <2>1, EnsureReplaces DEF Start, Replaced
    <2> QED
        BY <2>1, <2>2, ReplacedKeepsSafety
<1>5. ASSUME NEW s \in Stocks, Trade(s) PROVE SafetyInv'
    BY <1>5 DEF Trade, SafetyInv, SafetyKeepsHoldings, Desired, TypeOK, node
<1>6. CASE NextDay
    <2>1. target' = target /\ day' = day + 1 /\ UNCHANGED <<held, seen, reconciled>>
        BY <1>6 DEF NextDay, book
    <2>2. target'.day # day'
        <3>1. target.day \in Nat /\ day \in Nat /\ target.day <= day
            BY DailyAssumption DEF TypeOK
        <3> QED
            BY <2>1, <3>1
    <2> QED
        BY <1>1, <2>1, <2>2 DEF SafetyInv, SafetyKeepsHoldings
<1> QED
    BY <1>2, <1>3, <1>4, <1>5, <1>6 DEF Next

\* Under a safety plan trading sells nothing but forced exits, however often the node
\* restarts with a cache that lags and makes another: but for a plan that was made before
\* the first mass status from a cache that did not show what is held (_local_safety_plan).
THEOREM SafetySafe == Spec => []SafetyKeepsHoldings
<1>1. Init => IInv /\ SafetyInv
    BY InitIInv DEF Init, NoTarget, SafetyInv, SafetyKeepsHoldings
<1>2. IInv /\ SafetyInv /\ [Next]_vars => (IInv /\ SafetyInv)'
    BY NextKeeps, NextKeepsSafety
<1>3. SafetyInv => SafetyKeepsHoldings
    BY DEF SafetyInv
<1> QED
    BY <1>1, <1>2, <1>3, PTL DEF Spec

-----------------------------------------------------------------------------
(* The content of a plan *)

ContentAssumption == MaxAttempts \in Nat \ {0} /\ Shares \in Nat

\* While the risk manager is asked, what is suspended and priced is offered whole and is
\* no exit; and its holding does not change.
SuspendedOffered ==
    stage = "post" =>
        \A s \in PlanStocks :
            TP!Is(s, "suspended") /\ TP!Is(s, "close") /\ contents_held[s] > 0 =>
                s \in contents_frozen /\ s \notin forced /\ offered[s] = contents_held[s]

\* An exit is neither offered nor, where the exits are authoritative, a candidate.
ExitsLeft ==
    stage = "post" /\ authoritative => forced \cap candidates = {}

ContentInv ==
    /\ TP!TypeOK /\ forced \subseteq PlanStocks
    /\ SuspendedOffered /\ ExitsLeft /\ TP!SuspendedKept /\ TP!NoBuyBack

LEMMA ContentStarts ==
    ASSUME ContentAssumption, TP!Init
    PROVE  ContentInv
<1>1. Shares + 1 \in 0 .. Shares + 1 /\ 0 \in 0 .. Shares /\ 0 \in 0 .. MaxAttempts - 1
    BY DEF ContentAssumption
<1> QED
    BY <1>1 DEF TP!Init, TP!Nothing, TP!Unnamed, ContentInv, TP!TypeOK, SuspendedOffered,
        ExitsLeft, TP!SuspendedKept, TP!NoBuyBack, TP!Ready

LEMMA BuildKeeps ==
    ASSUME ContentAssumption, ContentInv, NEW missing \in BOOLEAN, TP!Build(missing)
    PROVE  ContentInv'
<1>1. /\ stage' = "post" /\ UNCHANGED <<contents_held, attempt, targets, flags, authoritative>>
      /\ forced' = {s \in PlanStocks : TP!ForcedExit(s)}
      /\ contents_frozen' = {s \in PlanStocks : TP!Frozen(s)}
      /\ offered' = [s \in PlanStocks |-> IF TP!Offered(s) THEN contents_held[s] ELSE 0]
      /\ authoritative => \A s \in candidates' : s \notin forced'
    BY DEF TP!Build, TP!Candidate, TP!inputs
<1>2. \A s \in forced' : offered'[s] = 0
    BY <1>1 DEF TP!ForcedExit, TP!Offered, TP!Frozen
<1>3. offered' \in [PlanStocks -> 0 .. Shares]
    <2>1. \A s \in PlanStocks : contents_held[s] \in 0 .. Shares /\ 0 \in 0 .. Shares
        BY DEF ContentAssumption, ContentInv, TP!TypeOK
    <2> QED
        BY <1>1, <2>1
<1>4. TP!TypeOK' /\ forced' \subseteq PlanStocks
    BY <1>1, <1>2, <1>3 DEF ContentInv, TP!TypeOK, TP!Unnamed
<1>5. SuspendedOffered'
    BY <1>1 DEF SuspendedOffered, TP!Is, TP!ForcedExit, TP!Offered, TP!Frozen
<1>6. ExitsLeft' /\ TP!SuspendedKept' /\ TP!NoBuyBack'
    BY <1>1 DEF ExitsLeft, TP!SuspendedKept, TP!NoBuyBack, TP!Ready
<1> QED
    BY <1>4, <1>5, <1>6 DEF ContentInv

\* The plans are of the right type.
LEMMA PlanTypes ==
    ASSUME ContentAssumption, ContentInv
    PROVE  /\ TP!SafetyPlan \in [PlanStocks -> 0 .. TP!Unnamed]
           /\ \A map \in [PlanStocks -> 0 .. TP!Unnamed] :
                TP!Overridden(map) \in [PlanStocks -> 0 .. TP!Unnamed]
           /\ TP!Nothing \in [PlanStocks -> 0 .. TP!Unnamed]
           /\ \A named \in TP!Answers : TP!Answered(named) \in [PlanStocks -> 0 .. TP!Unnamed]
<1>1. 0 \in 0 .. TP!Unnamed /\ TP!Unnamed \in 0 .. TP!Unnamed
    BY DEF ContentAssumption, TP!Unnamed
<1>2. \A s \in PlanStocks : contents_held[s] \in 0 .. TP!Unnamed
    BY DEF ContentAssumption, ContentInv, TP!TypeOK, TP!Unnamed
<1>3. TP!SafetyPlan \in [PlanStocks -> 0 .. TP!Unnamed]
    BY <1>1, <1>2 DEF TP!SafetyPlan
<1>4. TP!Nothing \in [PlanStocks -> 0 .. TP!Unnamed]
    BY <1>1 DEF TP!Nothing
<1>5. \A map \in [PlanStocks -> 0 .. TP!Unnamed] :
        TP!Overridden(map) \in [PlanStocks -> 0 .. TP!Unnamed]
    BY <1>1 DEF TP!Overridden
<1>6. \A named \in TP!Answers : TP!Answered(named) \in [PlanStocks -> 0 .. TP!Unnamed]
    BY <1>1 DEF TP!Answers, TP!Answered
<1> QED
    BY <1>3, <1>4, <1>5, <1>6

\* What is suspended and priced
Kept == {s \in PlanStocks :
            TP!Is(s, "suspended") /\ TP!Is(s, "close") /\ contents_held[s] > 0}

LEMMA DoneKeeps ==
    ASSUME ContentAssumption, ContentInv, NEW map \in [PlanStocks -> 0 .. TP!Unnamed],
           NEW safe \in BOOLEAN, TP!Done(map, safe),
           \A s \in Kept : map[s] = contents_held[s],
           authoritative \/ safe => \A s \in forced : map[s] \in {0, TP!Unnamed}
    PROVE  ContentInv'
<1>1. /\ stage' = "done" /\ targets' = map /\ degraded' = safe
      /\ UNCHANGED <<flags, authoritative, contents_held, attempt, offered, forced>>
    BY DEF TP!Done, TP!inputs, TP!request
<1>2. TP!TypeOK' /\ forced' \subseteq PlanStocks
    BY <1>1 DEF ContentInv, TP!TypeOK, TP!Unnamed
<1>3. TP!SuspendedKept'
    BY <1>1 DEF TP!SuspendedKept, TP!Is, Kept
<1>4. TP!NoBuyBack'
    BY <1>1 DEF TP!NoBuyBack, TP!Unnamed
<1>5. SuspendedOffered' /\ ExitsLeft'
    BY <1>1 DEF SuspendedOffered, ExitsLeft
<1> QED
    BY <1>2, <1>3, <1>4, <1>5 DEF ContentInv

\* The local plan sells exits only, and no exit is suspended.
LEMMA SafetyEnds ==
    ASSUME ContentAssumption, ContentInv, stage = "post", TP!Done(TP!SafetyPlan, TRUE)
    PROVE  ContentInv'
<1>1. \A s \in Kept : TP!SafetyPlan[s] = contents_held[s]
    BY DEF Kept, ContentInv, SuspendedOffered, TP!SafetyPlan
<1>2. \A s \in forced : TP!SafetyPlan[s] \in {0, TP!Unnamed}
    BY DEF ContentInv, TP!SafetyPlan
<1>3. TP!SafetyPlan \in [PlanStocks -> 0 .. TP!Unnamed]
    BY PlanTypes
<1> DEFINE plain == TP!SafetyPlan
<1> HIDE DEF plain
<1>4. plain = TP!SafetyPlan
    BY DEF plain
<1> QED
    BY <1>1, <1>2, <1>3, <1>4, DoneKeeps

\* A plan of the risk manager: it leaves what is offered as frozen.
LEMMA FullEnds ==
    ASSUME ContentAssumption, ContentInv, stage = "post",
           NEW map \in [PlanStocks -> 0 .. TP!Unnamed], TP!Done(TP!Overridden(map), FALSE),
           \A s \in Kept : map[s] = contents_held[s]
    PROVE  ContentInv'
<1> DEFINE sent == TP!Overridden(map)
<1>1. \A s \in Kept : sent[s] = contents_held[s]
    BY DEF Kept, ContentInv, SuspendedOffered, TP!Overridden
<1>2. authoritative => \A s \in forced : sent[s] \in {0, TP!Unnamed}
    BY DEF ContentInv, TP!Overridden
<1>3. sent \in [PlanStocks -> 0 .. TP!Unnamed]
    BY PlanTypes
<1>4. TP!Done(sent, FALSE)
    OBVIOUS
<1> HIDE DEF sent
<1> QED
    BY <1>1, <1>2, <1>3, <1>4, DoneKeeps

LEMMA ContentKeeps ==
    ASSUME ContentAssumption, ContentInv, [TP!Next]_(TP!vars)
    PROVE  ContentInv'
<1>1. CASE \E missing \in BOOLEAN : TP!Build(missing)
    BY <1>1, BuildKeeps
<1>2. CASE TP!MissingSignals \/ TP!LastPostFails \/ TP!Refused
    BY <1>2, SafetyEnds DEF TP!MissingSignals, TP!LastPostFails, TP!Refused, TP!MayPost
<1>3. CASE TP!NothingAsked
    <2>1. stage = "post" /\ TP!InRequest = {} /\ TP!Done(TP!Overridden(TP!Nothing), FALSE)
        BY <1>3 DEF TP!NothingAsked
    <2>2. Kept = {}
        BY <2>1 DEF Kept, ContentInv, SuspendedOffered, TP!InRequest
    <2>3. TP!Nothing \in [PlanStocks -> 0 .. TP!Unnamed]
        BY PlanTypes
    <2> QED
        BY <2>1, <2>2, <2>3, FullEnds
<1>4. ASSUME NEW named \in TP!Answers, TP!Answer(named)
      PROVE  ContentInv'
    <2>1. stage = "post" /\ TP!Done(TP!Overridden(TP!Answered(named)), FALSE)
        BY <1>4 DEF TP!Answer, TP!MayPost
    <2>2. \A s \in Kept : TP!Answered(named)[s] = contents_held[s]
        BY <2>1 DEF Kept, ContentInv, SuspendedOffered, TP!Answers, TP!Answered, TP!InRequest
    <2>3. TP!Answered(named) \in [PlanStocks -> 0 .. TP!Unnamed]
        BY PlanTypes
    <2> QED
        BY <2>1, <2>2, <2>3, FullEnds
<1>5. CASE TP!PostFails
    <2>1. /\ stage = "post" /\ attempt' \in 0 .. MaxAttempts - 1
          /\ UNCHANGED <<stage, flags, authoritative, contents_held, offered, contents_frozen,
                         candidates, forced, targets, degraded>>
        BY <1>5 DEF TP!PostFails, TP!MayPost, TP!request, TP!inputs, ContentAssumption,
            ContentInv, TP!TypeOK
    <2> QED
        BY <2>1 DEF ContentInv, TP!TypeOK, TP!Unnamed, SuspendedOffered, ExitsLeft,
            TP!SuspendedKept, TP!NoBuyBack, TP!Ready, TP!Is
<1>6. ASSUME NEW s \in PlanStocks, NEW shares \in 0 .. Shares, TP!HoldingsChange(s, shares)
      PROVE  ContentInv'
    <2>1. /\ stage = "post" /\ ~TP!Is(s, "suspended")
          /\ contents_held' = [contents_held EXCEPT ![s] = shares]
          /\ UNCHANGED <<stage, attempt, flags, authoritative, offered, contents_frozen,
                         candidates, forced, targets, degraded>>
        BY <1>6 DEF TP!HoldingsChange, TP!request, TP!inputs
    <2>2. TP!TypeOK' /\ forced' \subseteq PlanStocks
        BY <2>1 DEF ContentInv, TP!TypeOK, TP!Unnamed
    <2>3. SuspendedOffered'
        BY <2>1 DEF ContentInv, TP!TypeOK, SuspendedOffered, TP!Is
    <2>4. ExitsLeft' /\ TP!SuspendedKept' /\ TP!NoBuyBack'
        BY <2>1 DEF ContentInv, ExitsLeft, TP!SuspendedKept, TP!NoBuyBack, TP!Ready
    <2> QED
        BY <2>2, <2>3, <2>4 DEF ContentInv
<1>7. CASE UNCHANGED TP!vars
    BY <1>7 DEF TP!vars, TP!inputs, TP!request, ContentInv, TP!TypeOK, TP!Unnamed,
        SuspendedOffered, ExitsLeft, TP!SuspendedKept, TP!NoBuyBack, TP!Ready, TP!Is
<1> QED
    BY <1>1, <1>2, <1>3, <1>4, <1>5, <1>6, <1>7 DEF TP!Next

LEMMA ContentHolds == ContentInv => TP!TypeOK /\ TP!SuspendedKept /\ TP!NoBuyBack
BY DEF ContentInv

-----------------------------------------------------------------------------
(* The signals of a day *)

SignalAssumption == SignalDays \in Nat /\ SignalDays >= 2 /\ Restarts \in Nat

SignalTypes ==
    /\ trading \subseteq SD!Dates /\ loading_day \in SD!Dates
    /\ phase \in {"morning", "session", "night"}
    /\ DOMAIN predicted \subseteq trading /\ DOMAIN context \subseteq DOMAIN predicted
    /\ \A d \in DOMAIN context : context[d] \subseteq SD!Signals(d)
    /\ SD!Cardinality(loading_held) <= 1
    /\ loadedOn \in 0 .. loading_day /\ starts \in 0 .. Restarts
    /\ SignalDays \in trading

\* The trading day whose signals a plan of today is made from.
Needed(d) == SD!Previous(SD!LiveTradingDay(d))

\* What was loaded today has all the signals of that day, or none of them.
LoadIsWhole ==
    loadedOn = loading_day =>
        (Needed(loading_day) \in DOMAIN context =>
            context[Needed(loading_day)] = SD!Signals(Needed(loading_day)))

\* A full plan is of a day that has been predicted.
PlanIsOfPredicted ==
    loading_plan.kind = "full" => loading_plan.of \in DOMAIN predicted

SignalInv == SignalTypes /\ LoadIsWhole /\ PlanIsOfPredicted /\ SD!PlanSeesAllSignals

LEMMA SignalStarts ==
    ASSUME SignalAssumption, SD!Init
    PROVE  SignalInv
<1> USE DEF SignalAssumption, SD!Init
<1>1. /\ trading \subseteq SD!Dates /\ loading_day \in SD!Dates
      /\ 1 \in trading /\ SignalDays \in trading
    BY DEF SD!Dates
<1>2. DOMAIN predicted = {1} /\ DOMAIN context = {}
    OBVIOUS
<1>3. SD!Cardinality(loading_held) <= 1
    <2>1. \A S : SD!Cardinality(S) = Cardinality(S)
        BY Zenon DEF SD!Cardinality, Cardinality
    <2> QED
        BY <2>1, FS_EmptySet
<1>4. loadedOn \in 0 .. loading_day /\ starts \in 0 .. Restarts
    OBVIOUS
<1>5. SignalTypes
    BY <1>1, <1>2, <1>3, <1>4 DEF SignalTypes
<1> QED
    BY <1>2, <1>5 DEF SignalInv, LoadIsWhole, PlanIsOfPredicted, SD!PlanSeesAllSignals, SD!NoPlan

\* The greatest and the least of a set, once it is known what they are
LEMMA LatestIs ==
    ASSUME NEW S, S \subseteq Int, NEW m \in S, \A x \in S : x <= m
    PROVE  SD!Latest(S) = m
<1>1. SD!Max(S) \in S /\ \A x \in S : SD!Max(S) >= x
    BY DEF SD!Max
<1> DEFINE top == SD!Max(S)
<1>2. top \in Int /\ top >= m /\ top <= m
    BY <1>1
<1> HIDE DEF top
<1>3. top = m
    BY <1>2
<1>4. SD!Latest(S) = top
    BY DEF SD!Latest, top
<1> QED
    BY <1>3, <1>4

LEMMA EarliestIs ==
    ASSUME NEW S, S \subseteq Int, NEW m \in S, \A x \in S : m <= x
    PROVE  SD!Earliest(S) = m
<1>1. SD!Min(S) \in S /\ \A x \in S : SD!Min(S) <= x
    BY DEF SD!Min
<1> DEFINE low == SD!Min(S)
<1>2. low \in Int /\ low >= m /\ low <= m
    BY <1>1
<1> HIDE DEF low
<1>3. low = m
    BY <1>2
<1>4. SD!Earliest(S) = low
    BY DEF SD!Earliest, low
<1> QED
    BY <1>3, <1>4

LEMMA DatesAreNumbers ==
    ASSUME SignalTypes
    PROVE  trading \subseteq Int /\ DOMAIN predicted \subseteq Int
<1>1. SD!Dates \subseteq Int
    BY DEF SD!Dates
<1> QED
    BY <1>1 DEF SignalTypes

\* On a trading day the next one is today.
LEMMA NeededOnTradingDay ==
    ASSUME SignalTypes, loading_day \in trading
    PROVE  Needed(loading_day) = SD!Previous(loading_day)
<1> DEFINE S == {t \in trading : t >= loading_day}
<1>0. trading \subseteq Int /\ loading_day \in Int
    BY DatesAreNumbers
<1>1. loading_day >= loading_day
    BY <1>0
<1>2. S \subseteq Int /\ loading_day \in S
    BY <1>0, <1>1
<1>3. \A x \in S : loading_day <= x
    BY <1>0
<1>4. SD!Earliest(S) = loading_day
    BY <1>2, <1>3, EarliestIs
<1> QED
    BY <1>4 DEF Needed, SD!LiveTradingDay

\* If the day that is needed has been predicted, it is the one that chooses the universe.
LEMMA UniverseIsOfNeeded ==
    ASSUME SignalTypes, Needed(loading_day) \in DOMAIN predicted
    PROVE  SD!SubscriptionDay(DOMAIN predicted, loading_day) = Needed(loading_day)
<1> DEFINE S == {s \in DOMAIN predicted : s <= Needed(loading_day)}
<1>0. DOMAIN predicted \subseteq Int
    BY DatesAreNumbers
<1>1. S \subseteq Int /\ Needed(loading_day) \in S /\ \A x \in S : x <= Needed(loading_day)
    BY <1>0
<1>2. SD!Latest(S) = Needed(loading_day) /\ S # {}
    BY <1>1, LatestIs
<1> QED
    BY <1>2 DEF SD!SubscriptionDay, Needed

\* A load takes all the signals of the day that is needed, whatever else it takes.
LEMMA LoadTakesAll ==
    ASSUME SignalTypes, NEW extra, SD!Load(extra), predicted' = predicted, trading' = trading,
           loading_day' = loading_day
    PROVE  /\ DOMAIN context' \subseteq DOMAIN predicted
           /\ \A d \in DOMAIN context' : context'[d] \subseteq SD!Signals(d)
           /\ LoadIsWhole'
<1> DEFINE codes == SD!Codes(extra)
<1>1. context' = SD!Filtered(codes) /\ loadedOn' = loading_day
    BY DEF SD!Load
<1>2. /\ DOMAIN context' \subseteq DOMAIN predicted
      /\ \A d \in DOMAIN context' : context'[d] = SD!Signals(d) \cap codes
    BY <1>1 DEF SD!Filtered
<1>3. Needed(loading_day)' = Needed(loading_day) /\ \A d : SD!Signals(d)' = SD!Signals(d)
    BY DEF Needed, SD!Previous, SD!LiveTradingDay, SD!Signals
<1>4. ASSUME Needed(loading_day) \in DOMAIN context'
      PROVE  context'[Needed(loading_day)] = SD!Signals(Needed(loading_day))
    <2>1. SD!Signals(Needed(loading_day)) \subseteq codes
        BY <1>2, <1>4, UniverseIsOfNeeded DEF SD!Codes
    <2> QED
        BY <1>2, <1>4, <2>1
<1>5. LoadIsWhole'
    BY <1>3, <1>4 DEF LoadIsWhole
<1> QED
    BY <1>2, <1>5

LEMMA PublishKeeps ==
    ASSUME SignalAssumption, SignalInv, SD!Publish
    PROVE  SignalInv'
<1>1. PICK d \in (trading \ DOMAIN predicted) \cap 1 .. loading_day, ranking \in Rankings :
        /\ predicted' = [x \in DOMAIN predicted \cup {d} |->
                            IF x = d THEN ranking ELSE predicted[x]]
        /\ UNCHANGED <<trading, loading_day, phase, context, loading_held, loadedOn, refreshed,
                       loading_plan, starts>>
    BY DEF SD!Publish
<1>2. /\ DOMAIN predicted' = DOMAIN predicted \cup {d} /\ d \in trading
      /\ \A x \in DOMAIN predicted : predicted'[x] = predicted[x]
    BY <1>1
<1>3. \A x \in DOMAIN predicted : SD!Signals(x)' = SD!Signals(x)
    BY <1>2 DEF SD!Signals
<1>4. SignalTypes'
    BY <1>1, <1>2, <1>3 DEF SignalInv, SignalTypes
<1>5. Needed(loading_day)' = Needed(loading_day)
    BY <1>1 DEF Needed, SD!Previous, SD!LiveTradingDay
<1>6. LoadIsWhole'
    BY <1>1, <1>3, <1>5 DEF SignalInv, SignalTypes, LoadIsWhole
<1>7. PlanIsOfPredicted' /\ SD!PlanSeesAllSignals'
    BY <1>1, <1>2, <1>3 DEF SignalInv, PlanIsOfPredicted, SD!PlanSeesAllSignals
<1> QED
    BY <1>4, <1>6, <1>7 DEF SignalInv

LEMMA PassKeeps ==
    ASSUME SignalAssumption, SignalInv, SD!Pass
    PROVE  SignalInv'
<1>1. /\ UNCHANGED <<trading, predicted, context, loading_held, loadedOn, starts>>
      /\ phase' \in {"morning", "session", "night"}
      /\ \/ loading_day' = loading_day /\ loading_plan' = loading_plan
         \/ loading_day < SignalDays /\ loading_day' = loading_day + 1 /\ loading_plan' = SD!NoPlan
    BY DEF SD!Pass
<1>2. \A d : SD!Signals(d)' = SD!Signals(d)
    BY <1>1 DEF SD!Signals
<1>3. loading_day' \in SD!Dates /\ loadedOn' \in 0 .. loading_day'
    BY <1>1 DEF SignalAssumption, SignalInv, SignalTypes, SD!Dates
<1>4. SignalTypes'
    BY <1>1, <1>2, <1>3 DEF SignalInv, SignalTypes
<1>5. LoadIsWhole'
    <2>1. CASE loading_day' = loading_day
        <3>1. Needed(loading_day)' = Needed(loading_day)
            BY <1>1, <2>1 DEF Needed, SD!Previous, SD!LiveTradingDay
        <3> QED
            BY <1>1, <1>2, <2>1, <3>1 DEF SignalInv, LoadIsWhole
    <2>2. CASE loading_day' = loading_day + 1
        <3>1. loadedOn' # loading_day'
            BY <1>1, <2>2 DEF SignalInv, SignalTypes, SD!Dates
        <3> QED
            BY <3>1 DEF LoadIsWhole
    <2> QED
        BY <1>1, <2>1, <2>2
<1>6. PlanIsOfPredicted' /\ SD!PlanSeesAllSignals'
    BY <1>1, <1>2 DEF SignalInv, PlanIsOfPredicted, SD!PlanSeesAllSignals, SD!NoPlan
<1> QED
    BY <1>4, <1>5, <1>6 DEF SignalInv

\* Both at the start of the process and in the morning.
LEMMA LoadKeeps ==
    ASSUME SignalAssumption, SignalInv, NEW extra, SD!Load(extra),
           UNCHANGED <<trading, loading_day, phase, predicted, loading_held, loading_plan>>,
           starts' \in 0 .. Restarts
    PROVE  SignalInv'
<1>1. \A d : SD!Signals(d)' = SD!Signals(d)
    BY DEF SD!Signals
<1>2. loadedOn' = loading_day /\ loading_day \in SD!Dates
    BY DEF SD!Load, SignalInv, SignalTypes
<1>3. loadedOn' \in 0 .. loading_day'
    BY <1>2 DEF SD!Dates, SignalAssumption
<1>4. SignalTypes' /\ LoadIsWhole'
    BY <1>1, <1>3, LoadTakesAll DEF SignalInv, SignalTypes
<1>5. PlanIsOfPredicted' /\ SD!PlanSeesAllSignals'
    BY <1>1 DEF SignalInv, PlanIsOfPredicted, SD!PlanSeesAllSignals
<1> QED
    BY <1>4, <1>5 DEF SignalInv

LEMMA PlanKeeps ==
    ASSUME SignalAssumption, SignalInv, SD!Plan
    PROVE  SignalInv'
<1> DEFINE of == SD!Previous(loading_day)
<1>1. /\ loading_day \in trading
      /\ UNCHANGED <<trading, loading_day, phase, predicted, context, loadedOn, starts>>
      /\ loading_plan' =
           IF of \in DOMAIN context
             THEN [kind |-> "full", of |-> of, from |-> context[of], loaded |-> loadedOn]
             ELSE [SD!NoPlan EXCEPT !.kind = "degraded", !.of = of, !.loaded = loadedOn]
      /\ SD!Cardinality(loading_held') <= 1
    BY DEF SD!Plan, SD!calendar
<1>2. \A d : SD!Signals(d)' = SD!Signals(d)
    BY <1>1 DEF SD!Signals
<1>3. Needed(loading_day)' = Needed(loading_day) /\ Needed(loading_day) = of
    BY <1>1, NeededOnTradingDay DEF SignalInv, Needed, SD!Previous, SD!LiveTradingDay
<1>4. SignalTypes'
    BY <1>1, <1>2 DEF SignalInv, SignalTypes
<1>5. LoadIsWhole'
    BY <1>1, <1>2, <1>3 DEF SignalInv, LoadIsWhole
<1>6. CASE of \in DOMAIN context
    <2>1. loading_plan'.kind = "full" /\ loading_plan'.of = of /\ loading_plan'.from = context[of]
          /\ loading_plan'.loaded = loadedOn
        BY <1>1, <1>6
    <2>2. loadedOn = loading_day => context[of] = SD!Signals(of)
        BY <1>3, <1>6 DEF SignalInv, LoadIsWhole
    <2>3. PlanIsOfPredicted' /\ SD!PlanSeesAllSignals'
        BY <1>1, <1>2, <1>6, <2>1, <2>2 DEF SignalInv, SignalTypes, PlanIsOfPredicted,
            SD!PlanSeesAllSignals
    <2> QED
        BY <1>4, <1>5, <2>3 DEF SignalInv
<1>7. CASE of \notin DOMAIN context
    <2>1. loading_plan'.kind = "degraded"
        BY <1>1, <1>7 DEF SD!NoPlan
    <2> QED
        BY <1>4, <1>5, <2>1 DEF SignalInv, PlanIsOfPredicted, SD!PlanSeesAllSignals
<1> QED
    BY <1>6, <1>7

LEMMA SignalKeeps ==
    ASSUME SignalAssumption, SignalInv, [SD!Next]_(SD!vars)
    PROVE  SignalInv'
<1>1. CASE SD!Start
    <2>1. PICK seeded \in {loading_held, {}} : SD!Load(seeded)
        BY <1>1 DEF SD!Start
    <2>2. starts' \in 0 .. Restarts
        BY <1>1 DEF SD!Start, SignalAssumption, SignalInv, SignalTypes
    <2> QED
        BY <1>1, <2>1, <2>2, LoadKeeps DEF SD!Start, SD!calendar
<1>2. ASSUME UNCHANGED <<SD!calendar, context, loading_held, loadedOn, loading_plan, starts>>
      PROVE  SignalInv'
    BY <1>2 DEF SD!calendar, SignalInv, SignalTypes, LoadIsWhole, PlanIsOfPredicted,
        SD!PlanSeesAllSignals, SD!Signals, Needed, SD!Previous, SD!LiveTradingDay
<1>3. CASE SD!Refresh
    <2>1. CASE SD!Load(loading_held)
        <3>1. starts' \in 0 .. Restarts
            BY <1>3 DEF SD!Refresh, SignalInv, SignalTypes
        <3> QED
            BY <1>3, <2>1, <3>1, LoadKeeps DEF SD!Refresh, SD!calendar
    <2>2. CASE UNCHANGED <<context, loadedOn>>
        BY <1>2, <1>3, <2>2 DEF SD!Refresh
    <2> QED
        BY <1>3, <2>1, <2>2 DEF SD!Refresh
<1> QED
    BY <1>1, <1>2, <1>3, PublishKeeps, PassKeeps, PlanKeeps DEF SD!Next, SD!vars

LEMMA SignalHolds == SignalInv => SD!TypeOK /\ SD!PlanSeesAllSignals
BY DEF SignalInv, SignalTypes, SD!TypeOK

-----------------------------------------------------------------------------
(* The stops of a holding *)

StopAssumption ==
    /\ StopDays \in Nat \ {0}
    /\ Prices \subseteq Nat /\ \A p \in Prices : p > 0 /\ p % 2 = 0
    /\ Prices # {} => \E top \in Prices : \A p \in Prices : p <= top

Quoted == Prices \cup {0}

StopTypes ==
    /\ stops_day \in 1 .. StopDays /\ stops_stage \in {"plan", "trade", "close"}
    /\ stops_held \in BOOLEAN /\ exDay \in 0 .. StopDays /\ open \in Quoted
    /\ entry \in 0 .. stops_day /\ cost \in Nat /\ (stops_held => entry > 0 /\ cost > 0)
    /\ stops_stage # "close" => entry < stops_day
    /\ close \in [1 .. StopDays -> Quoted]
    /\ pos \in [entry_price : Nat, high_price : Nat] /\ pos.high_price >= pos.entry_price
    /\ seedOf \in 0 .. entry

\* What the process tracks of the present holding, if it was made of that: its cost, and a
\* mark that is the cost or a close the holding has seen.
TracksHolding ==
    stops_held /\ seedOf = entry =>
        /\ pos.entry_price = cost /\ pos.high_price >= cost
        /\ \/ pos.high_price = cost
           \/ \E d \in TR!SpanDays : close[d] = pos.high_price

\* The plan of the day was made from the position that is tracked, or from the exit price
\* where there is none; and if the start of the span was there no close is above the mark.
PlanIsOfPosition ==
    TR!Judged =>
        /\ plan.stop = TR!AtLoss(TR!ExitPrice(open), TR!CostPrice(pos, TR!ExitPrice(open)))
        /\ plan.shadow = TR!Shadow(TR!ExitPrice(open), TR!CostPrice(pos, TR!ExitPrice(open)),
                                   plan.span, plan.events)
        /\ plan.trailing = (pos.entry_price > 0 /\ TR!Triggered(pos, plan.span))
        /\ plan.span /\ pos.entry_price > 0 =>
              \A d \in TR!SpanDays : close[d] <= pos.high_price

StopInv == StopTypes /\ TracksHolding /\ PlanIsOfPosition

LEMMA QuotedAreNumbers == ASSUME StopAssumption PROVE Quoted \subseteq Nat /\ 0 \in Quoted
<1>1. Prices \subseteq Nat
    BY Zenon DEF StopAssumption
<1> QED
    BY <1>1 DEF Quoted

\* A set of naturals has a least element, and one with a bound a greatest.
LEMMA LeastNat ==
    ASSUME NEW T, T \subseteq Nat, T # {}
    PROVE  \E x \in T : \A y \in T : x <= y
<1> DEFINE R == OpToRel(<, Nat)
<1>1. IsWellFoundedOn(R, Nat)
    BY NatLessThanWellFounded
<1>2. PICK x \in T : \A y \in T : <<y, x>> \notin R
    BY <1>1, WFMin
<1>3. \A y \in T : ~ (y < x)
    BY <1>2 DEF OpToRel
<1> QED
    BY <1>3

LEMMA GreatestNat ==
    ASSUME NEW S, NEW n \in Nat, S \subseteq 0 .. n, S # {}
    PROVE  \E x \in S : \A y \in S : y <= x
<1> DEFINE T == {n - x : x \in S}
<1>0. T \subseteq Nat /\ T # {}
    <2>1. \A x \in S : n - x \in Nat
        OBVIOUS
    <2> QED
        BY <2>1
<1>1. PICK t \in T : \A y \in T : t <= y
    BY <1>0, LeastNat
<1>2. PICK x \in S : t = n - x
    OBVIOUS
<1>3. \A y \in S : n - y \in T
    OBVIOUS
<1> HIDE DEF T
<1> QED BY <1>1, <1>2, <1>3


\* A set of prices with a bound has a greatest one.
LEMMA StopMax ==
    ASSUME NEW n \in Nat, NEW S, S \subseteq 0 .. n, S # {}
    PROVE  TR!Max(S) \in S /\ \A k \in S : k <= TR!Max(S)
<1>1. PICK x \in S : \A y \in S : y <= x
    BY GreatestNat
<1>2. \A y \in S : x >= y
    BY <1>1
<1>3. TR!Max(S) \in S /\ \A y \in S : TR!Max(S) >= y
    BY <1>2 DEF TR!Max
<1> QED
    BY <1>3

\* The highest of the closes of the span and of a price
LEMMA PeakOfSpan ==
    ASSUME StopAssumption, StopTypes, entry > 0, NEW price \in Nat
    PROVE  LET S == {close[d] : d \in TR!SpanDays} \cup {price} IN
           /\ TR!Max(S) \in Nat /\ TR!Max(S) >= price
           /\ \A d \in TR!SpanDays : close[d] <= TR!Max(S)
           /\ TR!Max(S) = price \/ \E d \in TR!SpanDays : close[d] = TR!Max(S)
<1> DEFINE S == {close[d] : d \in TR!SpanDays} \cup {price}
<1>1. PICK top \in Nat : \A p \in Quoted : p \in Nat /\ p <= top
    <2>1. CASE Prices = {}
        BY <2>1 DEF Quoted
    <2>2. CASE Prices # {}
        <3>1. PICK top \in Prices : \A p \in Prices : p <= top
            BY <2>2 DEF StopAssumption
        <3>2. top \in Nat /\ \A p \in Quoted : p \in Nat /\ p <= top
            BY <3>1 DEF StopAssumption, Quoted
        <3> QED
            BY <3>2
    <2> QED
        BY <2>1, <2>2
<1>2. \A d \in TR!SpanDays : close[d] \in Quoted
    <2>1. \A d \in TR!SpanDays : d \in 1 .. StopDays
        BY DEF StopTypes, StopAssumption, TR!SpanDays
    <2> QED
        BY <2>1 DEF StopTypes
<1>3. \A d \in TR!SpanDays : close[d] \in 0 .. top + price
    BY <1>1, <1>2
<1>4. price \in 0 .. top + price /\ top + price \in Nat
    OBVIOUS
<1>5. S \subseteq 0 .. top + price /\ S # {} /\ price \in S
    BY <1>3, <1>4
<1>6. TR!Max(S) \in S /\ \A k \in S : k <= TR!Max(S)
    BY <1>4, <1>5, StopMax
<1>7. /\ TR!Max(S) \in Nat /\ TR!Max(S) >= price
      /\ \A d \in TR!SpanDays : close[d] <= TR!Max(S)
    BY <1>5, <1>6
<1>8. TR!Max(S) = price \/ \E d \in TR!SpanDays : close[d] = TR!Max(S)
    BY <1>6
<1> QED
    BY <1>7, <1>8

LEMMA FactorIs ==
    ASSUME StopTypes, NEW d \in Nat
    PROVE  TR!Factor(d) = IF exDay # 0 /\ exDay <= d THEN 2 ELSE 1
BY DEF StopTypes, TR!Factor

LEMMA StopsStart ==
    ASSUME StopAssumption, TR!Init
    PROVE  StopInv
<1>0. StopDays \in Nat /\ 1 <= StopDays
    BY DEF StopAssumption
<1>1. /\ stops_day \in 1 .. StopDays /\ stops_stage \in {"plan", "trade", "close"}
      /\ stops_held \in BOOLEAN /\ exDay \in 0 .. StopDays /\ open \in Quoted
      /\ entry \in 0 .. stops_day /\ cost \in Nat /\ (stops_held => entry > 0 /\ cost > 0)
      /\ stops_stage # "close" => entry < stops_day
    <2>1. stops_day = 1 /\ entry = 0 /\ cost = 0 /\ ~stops_held /\ open = 0 /\ stops_stage = "plan"
          /\ exDay \in 0 .. StopDays
        BY DEF TR!Init
    <2>2. stops_day \in 1 .. StopDays /\ entry \in 0 .. stops_day /\ entry < stops_day
        BY <1>0, <2>1
    <2>3. open \in Quoted /\ cost \in Nat
        BY <2>1, QuotedAreNumbers
    <2>4. exDay \in 0 .. StopDays
        BY <2>1
    <2>5. stops_stage \in {"plan", "trade", "close"}
        BY <2>1
    <2>6. stops_held \in BOOLEAN
        BY DEF TR!Init
    <2> QED
        BY Zenon, <2>1, <2>2, <2>3, <2>4, <2>5, <2>6
<1>2. close \in [1 .. StopDays -> Quoted]
    BY DEF TR!Init, Quoted
<1>3. pos \in [entry_price : Nat, high_price : Nat] /\ pos.high_price >= pos.entry_price
    BY DEF TR!Init, TR!NoPos
<1>4. seedOf \in 0 .. entry
    BY DEF TR!Init
<1>5. StopTypes
    BY <1>1, <1>2, <1>3, <1>4 DEF StopTypes
<1> QED
    BY <1>5 DEF TR!Init, StopInv, TracksHolding, PlanIsOfPosition, TR!Judged

-----------------------------------------------------------------------------
\* The last close is a price as it is quoted, or 0.
LEMMA LastCloseIs ==
    ASSUME StopAssumption, StopTypes
    PROVE  TR!LastClose \in Nat
<1> DEFINE days == {d \in 1 .. stops_day - 1 : close[d] > 0}
<1>1. CASE days = {}
    BY <1>1 DEF TR!LastClose
<1>2. CASE days # {}
    <2>1. stops_day \in Nat /\ StopDays \in Nat /\ stops_day <= StopDays
        BY DEF StopTypes, StopAssumption
    <2>2. days \subseteq 0 .. StopDays /\ days \subseteq 1 .. StopDays
        BY <2>1
    <2>3. TR!Max(days) \in days
        BY <1>2, <2>1, <2>2, StopMax
    <2> HIDE DEF days
    <2>4. TR!Max(days) \in 1 .. StopDays
        BY <2>2, <2>3
    <2> DEFINE last == TR!Max(days)
    <2>5. close[last] \in Nat
        BY <2>4, QuotedAreNumbers DEF StopTypes
    <2>6. TR!Factor(last) \in {1, 2}
        BY DEF TR!Factor
    <2> HIDE DEF last
    <2>7. TR!Raw(close[last], last) \in Nat
        BY <2>5, <2>6 DEF TR!Raw
    <2>8. TR!LastClose = TR!Raw(close[last], last)
        BY <1>2 DEF TR!LastClose, days, last
    <2> QED
        BY <2>7, <2>8
<1> QED
    BY <1>1, <1>2

\* What the plan does to the mark of a holding.  A position that is made without the average
\* price is made of the last close.
LEMMA RaisedIs ==
    ASSUME StopAssumption, StopTypes, TracksHolding, stops_held, NEW span \in BOOLEAN,
           NEW avg \in BOOLEAN
    PROVE  LET p == TR!Raised(TR!Seeded(avg), span) IN
           /\ p \in [entry_price : Nat, high_price : Nat] /\ p.high_price >= p.entry_price
           /\ pos = TR!NoPos /\ avg => p.entry_price = cost
           /\ pos # TR!NoPos => p.entry_price = pos.entry_price
           /\ span => \A d \in TR!SpanDays : close[d] <= p.high_price
           /\ (pos = TR!NoPos /\ avg) \/ (pos # TR!NoPos /\ seedOf = entry) =>
                \/ p.high_price = cost
                \/ \E d \in TR!SpanDays : close[d] = p.high_price
<1> DEFINE p == TR!Raised(TR!Seeded(avg), span)
           peak == TR!SpanPeak(entry)
           traced == (pos = TR!NoPos /\ avg) \/ (pos # TR!NoPos /\ seedOf = entry)
<1>0. cost \in Nat /\ entry > 0
    BY DEF StopTypes
<1>1. PICK q \in [entry_price : Nat, high_price : Nat] :
        /\ q = TR!Seeded(avg) /\ q.high_price >= q.entry_price
        /\ pos = TR!NoPos /\ avg => q.entry_price = cost /\ q.high_price = cost
        /\ pos # TR!NoPos => q = pos
    <2>1. CASE pos = TR!NoPos
        <3> DEFINE seed_px == TR!SeedPrice(avg)
                   q == [entry_price |-> seed_px, high_price |-> seed_px]
        <3>1. seed_px \in Nat /\ (avg => seed_px = cost)
            BY <1>0, LastCloseIs DEF TR!SeedPrice
        <3>2. TR!Seeded(avg) = q
            BY <2>1 DEF TR!Seeded
        <3> HIDE DEF seed_px
        <3>3. q \in [entry_price : Nat, high_price : Nat] /\ q.high_price >= q.entry_price
            BY <3>1
        <3> QED
            BY <2>1, <3>1, <3>2, <3>3
    <2>2. CASE pos # TR!NoPos
        <3>1. TR!Seeded(avg) = pos
            BY <2>2 DEF TR!Seeded
        <3> QED
            BY <2>2, <3>1 DEF StopTypes
    <2> QED
        BY <2>1, <2>2
<1>2. traced => q.high_price = cost \/ \E d \in TR!SpanDays : close[d] = q.high_price
    BY <1>1 DEF TracksHolding
<1>3. p = [q EXCEPT !.high_price = IF span THEN TR!Max({q.high_price, peak})
                                   ELSE q.high_price]
    BY <1>1 DEF TR!Raised
<1>4. CASE ~span
    <2>1. p = q
        BY <1>3, <1>4
    <2> QED
        BY <1>1, <1>2, <1>4, <2>1
<1>5. CASE span
    <2>1. /\ peak \in Nat /\ peak >= 0 /\ \A d \in TR!SpanDays : close[d] <= peak
          /\ peak = 0 \/ \E d \in TR!SpanDays : close[d] = peak
        BY <1>0, PeakOfSpan DEF TR!SpanPeak, TR!SpanDays
    <2> HIDE DEF peak
    <2> DEFINE high == TR!Max({q.high_price, peak})
    <2>2. q.high_price \in Nat /\ q.entry_price \in Nat
        BY <1>1
    <2>3. high \in {q.high_price, peak} /\ high >= q.high_price /\ high >= peak
        <3>1. {q.high_price, peak} \subseteq 0 .. q.high_price + peak
            BY <2>1, <2>2
        <3>2. q.high_price + peak \in Nat
            BY <2>1, <2>2
        <3>3. high \in {q.high_price, peak} /\ \A k \in {q.high_price, peak} : k <= high
            BY <3>1, <3>2, StopMax
        <3> QED
            BY <3>3, <2>1, <2>2
    <2>4. high \in Nat
        BY <2>1, <2>2, <2>3
    <2> HIDE DEF high
    <2>5. p.entry_price = q.entry_price /\ p.high_price = high
          /\ p \in [entry_price : Nat, high_price : Nat]
        BY <1>1, <1>3, <1>5, <2>4 DEF high
    <2>6. p.high_price >= p.entry_price
        BY <1>1, <2>2, <2>3, <2>4, <2>5
    <2>7. \A d \in TR!SpanDays : close[d] <= p.high_price
        <3>1. TAKE d \in TR!SpanDays
        <3>2. close[d] \in Nat
            <4>1. d \in 1 .. StopDays
                BY <1>0 DEF StopTypes, StopAssumption, TR!SpanDays
            <4>2. close[d] \in Quoted
                BY <4>1 DEF StopTypes
            <4> QED
                BY <4>2, QuotedAreNumbers
        <3> QED
            BY <2>1, <2>3, <2>4, <2>5, <3>2
    <2>8. ASSUME traced
          PROVE  p.high_price = cost \/ \E d \in TR!SpanDays : close[d] = p.high_price
        <3>1. CASE high = q.high_price
            BY <1>2, <2>5, <2>8, <3>1
        <3>2. CASE high = peak /\ peak # 0
            BY <2>1, <2>5, <3>2
        <3>3. CASE high = peak /\ peak = 0
            <4>1. high = q.high_price
                BY <2>2, <2>3, <3>3
            <4> QED
                BY <3>1, <4>1
        <3> QED
            BY <2>3, <3>1, <3>2, <3>3
    <2> QED
        BY <1>1, <2>5, <2>6, <2>7, <2>8
<1> QED
    BY <1>4, <1>5

\* The plan of the day judges the position as it leaves it.
LEMMA StopPlanKeeps ==
    ASSUME StopAssumption, StopInv, NEW price \in Quoted, NEW found \in TR!Found,
           TR!Plan(price, found)
    PROVE  StopInv'
<1> DEFINE p == TR!Raised(TR!Seeded(found.avg), found.span)
<1>0. StopTypes /\ TracksHolding /\ found.avg \in BOOLEAN /\ found.span \in BOOLEAN
    BY DEF StopInv, TR!Found
<1>1. /\ stops_stage = "plan" /\ stops_stage' = "trade" /\ open' = price
      /\ stops_day' = stops_day /\ close' = close /\ exDay' = exDay
      /\ stops_held' = stops_held /\ entry' = entry /\ cost' = cost
      /\ pos' = IF stops_held /\ p.entry_price > 0 THEN p ELSE pos
      /\ seedOf' = IF stops_held /\ pos = TR!NoPos
                     THEN IF found.avg THEN entry ELSE 0 ELSE seedOf
    BY DEF TR!Plan, TR!account
<1>2. /\ TR!SpanDays' = TR!SpanDays
      /\ \A d : TR!Factor(d)' = TR!Factor(d)
    BY <1>1 DEF TR!SpanDays, TR!Factor
<1>3. CASE ~stops_held
    <2>1. StopTypes'
        BY <1>0, <1>1, <1>3 DEF StopTypes
    <2> QED
        BY <1>1, <1>3, <2>1 DEF StopInv, TracksHolding, PlanIsOfPosition, TR!Judged
<1>4. CASE stops_held
    <2>1. /\ p \in [entry_price : Nat, high_price : Nat] /\ p.high_price >= p.entry_price
          /\ pos = TR!NoPos /\ found.avg => p.entry_price = cost
          /\ pos # TR!NoPos => p.entry_price = pos.entry_price
          /\ found.span => \A d \in TR!SpanDays : close[d] <= p.high_price
          /\ (pos = TR!NoPos /\ found.avg) \/ (pos # TR!NoPos /\ seedOf = entry) =>
                \/ p.high_price = cost
                \/ \E d \in TR!SpanDays : close[d] = p.high_price
        BY <1>0, <1>4, RaisedIs
    <2> HIDE DEF p
    <2>2. /\ pos' = IF p.entry_price > 0 THEN p ELSE pos
          /\ p.entry_price \in Nat /\ pos.entry_price \in Nat
        BY <1>0, <1>1, <1>4, <2>1 DEF StopTypes
    <2>3. /\ entry > 0 /\ cost > 0 /\ entry \in Nat /\ cost \in Nat
          /\ seedOf \in Nat /\ seedOf <= entry
        BY <1>0, <1>4 DEF StopTypes
    <2>4. seedOf' \in 0 .. entry
        BY <1>1, <2>3
    <2>5. pos'.entry_price = p.entry_price
        <3>1. pos = TR!NoPos => pos.entry_price = 0
            BY DEF TR!NoPos
        <3> QED
            BY <2>1, <2>2, <3>1
    <2>6. StopTypes'
        <3>1. pos' \in [entry_price : Nat, high_price : Nat] /\ pos'.high_price >= pos'.entry_price
            BY <1>0, <2>1, <2>2 DEF StopTypes
        <3> QED
            BY <1>0, <1>1, <1>4, <2>4, <3>1 DEF StopTypes
    <2>7. TracksHolding'
        <3>1. ASSUME seedOf' = entry
              PROVE  /\ p.entry_price = cost
                     /\ \/ p.high_price = cost
                        \/ \E d \in TR!SpanDays : close[d] = p.high_price
            <4>1. CASE pos = TR!NoPos
                <5>1. found.avg
                    BY <1>0, <1>1, <1>4, <2>3, <3>1, <4>1
                <5> QED
                    BY <2>1, <4>1, <5>1
            <4>2. CASE pos # TR!NoPos
                <5>1. seedOf = entry
                    BY <1>1, <3>1, <4>2
                <5> QED
                    BY <1>0, <1>4, <2>1, <4>2, <5>1 DEF TracksHolding
            <4> QED
                BY <4>1, <4>2
        <3>2. seedOf' = entry => pos' = p
            BY <2>2, <2>3, <3>1
        <3> QED
            BY <1>1, <1>2, <2>1, <3>1, <3>2 DEF TracksHolding
    <2>8. PlanIsOfPosition'
        <3> DEFINE exit == TR!ExitPrice(price)
        <3>1. /\ plan'.span = found.span /\ plan'.events = found.events
              /\ plan'.stop = TR!AtLoss(exit, TR!CostPrice(p, exit))
              /\ plan'.shadow = TR!Shadow(exit, TR!CostPrice(p, exit), found.span, found.events)
              /\ plan'.trailing = (p.entry_price > 0 /\ TR!Triggered(p, found.span))
            BY <1>4 DEF TR!Plan, p
        <3>2. TR!ExitPrice(open)' = exit
            BY <1>1 DEF TR!ExitPrice, TR!LastClose, TR!Raw, TR!Factor
        <3>3. (pos.entry_price > 0 /\ TR!Triggered(pos, plan.span))' =
              (p.entry_price > 0 /\ TR!Triggered(p, found.span))
            <4>1. CASE p.entry_price > 0
                <5>1. TR!Triggered(pos, plan.span)' = TR!Triggered(p, found.span)
                    BY <1>1, <1>2, <2>2, <3>1, <4>1 DEF TR!Triggered, TR!AdjustedCost,
                        TR!PrevClose
                <5> QED
                    BY <2>5, <4>1, <5>1
            <4>2. CASE ~ (p.entry_price > 0)
                BY <2>5, <4>2
            <4> QED
                BY <4>1, <4>2
        <3> HIDE DEF exit
        <3>4. TR!CostPrice(pos, TR!ExitPrice(open))' = TR!CostPrice(p, exit)
            BY <2>5, <3>2 DEF TR!CostPrice
        <3>5. TR!Shadow(TR!ExitPrice(open), TR!CostPrice(pos, TR!ExitPrice(open)),
                        plan.span, plan.events)' =
              TR!Shadow(exit, TR!CostPrice(p, exit), found.span, found.events)
            BY <1>1, <3>1, <3>2, <3>4 DEF TR!Shadow, TR!ExEvents, TR!AtLoss
        <3>6. TR!AtLoss(TR!ExitPrice(open), TR!CostPrice(pos, TR!ExitPrice(open)))' =
              TR!AtLoss(exit, TR!CostPrice(p, exit))
            BY <3>2, <3>4 DEF TR!AtLoss
        <3>7. plan'.span /\ pos'.entry_price > 0 =>
                \A d \in TR!SpanDays' : close'[d] <= pos'.high_price
            BY <1>1, <1>2, <2>1, <2>2, <2>5, <3>1
        <3> QED
            BY <3>1, <3>3, <3>5, <3>6, <3>7 DEF PlanIsOfPosition
    <2> QED
        BY <2>6, <2>7, <2>8 DEF StopInv
<1> QED
    BY <1>3, <1>4

-----------------------------------------------------------------------------
\* The other steps
LEMMA StopsKeep ==
    ASSUME StopAssumption, StopInv, [TR!Next]_(TR!vars)
    PROVE  StopInv'
<1>0. StopTypes /\ TracksHolding /\ PlanIsOfPosition
    BY DEF StopInv
<1>1. ASSUME NEW price \in Quoted, TR!Close(price)
      PROVE  StopInv'
    <2>1. /\ stops_stage = "close" /\ stops_stage' = "plan" /\ stops_day < StopDays
          /\ stops_day' = stops_day + 1 /\ close' = [close EXCEPT ![stops_day] = price]
          /\ open' = 0 /\ exDay' = exDay /\ stops_held' = stops_held /\ entry' = entry
          /\ cost' = cost /\ pos' = pos /\ seedOf' = seedOf
        BY <1>1 DEF TR!Close, TR!account
    <2>2. stops_day \in Nat /\ StopDays \in Nat /\ entry \in 0 .. stops_day
        BY <1>0 DEF StopTypes, StopAssumption
    <2>3. stops_day' \in 1 .. StopDays /\ entry' \in 0 .. stops_day' /\ entry' < stops_day'
        BY <1>0, <2>1, <2>2 DEF StopTypes
    <2>4. close' \in [1 .. StopDays -> Quoted] /\ open' \in Quoted
        BY <1>0, <2>1, QuotedAreNumbers DEF StopTypes
    <2>5. StopTypes'
        BY Zenon, <1>0, <2>1, <2>3, <2>4 DEF StopTypes
    <2>6. ASSUME stops_held, seedOf = entry, pos.high_price # cost
          PROVE  \E d \in TR!SpanDays' : close'[d] = pos.high_price
        <3>1. PICK d \in TR!SpanDays : close[d] = pos.high_price
            BY <1>0, <2>6 DEF TracksHolding
        <3>2. d \in entry .. stops_day - 2 /\ d \in entry .. stops_day' - 2 /\ d # stops_day
            BY <2>1, <2>2, <3>1 DEF TR!SpanDays
        <3>3. close'[d] = close[d]
            <4>1. d \in 1 .. StopDays \/ entry = 0
                BY <2>1, <2>2, <3>2
            <4>2. entry # 0
                BY <1>0, <2>6 DEF StopTypes
            <4> QED
                BY <1>0, <2>1, <3>2, <4>1, <4>2 DEF StopTypes
        <3>4. d \in TR!SpanDays'
            BY <2>1, <3>2 DEF TR!SpanDays
        <3> QED
            BY <3>1, <3>3, <3>4
    <2>7. TracksHolding'
        BY <1>0, <2>1, <2>6 DEF TracksHolding
    <2>8. PlanIsOfPosition'
        BY <2>1 DEF PlanIsOfPosition, TR!Judged
    <2> QED
        BY <2>5, <2>7, <2>8 DEF StopInv
<1>2. CASE TR!Sell
    <2>1. StopTypes'
        BY <1>0, <1>2 DEF TR!Sell, TR!market, StopTypes
    <2> QED
        BY <1>2, <2>1 DEF TR!Sell, StopInv, TracksHolding, PlanIsOfPosition, TR!Judged
<1>3. CASE TR!Buy
    <2>1. /\ stops_stage = "trade" /\ stops_stage' = "close" /\ stops_held' = TRUE
          /\ open \in Quoted /\ open > 0 /\ entry' = stops_day /\ cost' = TR!Raw(open, stops_day)
          /\ stops_day' = stops_day /\ close' = close /\ open' = open /\ exDay' = exDay
          /\ pos' = pos /\ seedOf' = seedOf
        BY <1>0, <1>3 DEF TR!Buy, TR!market, StopTypes
    <2>2. seedOf \in 0 .. entry /\ entry < stops_day /\ stops_day \in Nat /\ entry \in Nat
        BY <1>0, <2>1 DEF StopTypes, StopAssumption
    <2>3. open \in Nat /\ open % 2 = 0
        BY <2>1 DEF Quoted, StopAssumption
    <2>4. cost' \in Nat /\ cost' > 0
        <3>1. TR!Factor(stops_day) \in {1, 2}
            BY DEF TR!Factor
        <3> QED
            BY <2>1, <2>3, <3>1 DEF TR!Raw
    <2>5. entry' \in 0 .. stops_day' /\ seedOf' \in 0 .. entry' /\ seedOf' # entry' /\ entry' > 0
        BY <2>1, <2>2
    <2>6. StopTypes'
        BY Zenon, <1>0, <2>1, <2>4, <2>5 DEF StopTypes
    <2> QED
        BY <2>1, <2>5, <2>6 DEF StopInv, TracksHolding, PlanIsOfPosition, TR!Judged
<1>4. CASE TR!Hold
    <2>1. StopTypes'
        BY <1>0, <1>4 DEF TR!Hold, TR!market, TR!account, StopTypes
    <2>2. TracksHolding'
        BY <1>0, <1>4 DEF TR!Hold, TR!market, TR!account, TracksHolding, TR!SpanDays
    <2> QED
        BY <1>4, <2>1, <2>2 DEF TR!Hold, StopInv, PlanIsOfPosition, TR!Judged
<1>5. CASE TR!Restart
    <2>1. pos' = TR!NoPos /\ seedOf' = 0 /\ stops_stage = "plan"
          /\ UNCHANGED <<stops_day, stops_stage, open, close, exDay, stops_held, entry, cost, plan>>
        BY <1>5 DEF TR!Restart, TR!market, TR!account
    <2>2. pos' \in [entry_price : Nat, high_price : Nat] /\ pos'.high_price >= pos'.entry_price
        BY <2>1 DEF TR!NoPos
    <2>3. seedOf' \in 0 .. entry'
        BY <1>0, <2>1 DEF StopTypes
    <2>4. StopTypes'
        BY Zenon, <1>0, <2>1, <2>2, <2>3 DEF StopTypes
    <2>5. stops_held => entry # 0
        BY <1>0 DEF StopTypes
    <2> QED
        BY <2>1, <2>4, <2>5 DEF StopInv, TracksHolding, PlanIsOfPosition, TR!Judged
<1>6. CASE UNCHANGED TR!vars
    <2> USE <1>6 DEF TR!vars, TR!market, TR!account
    <2>1. StopTypes'
        BY <1>0 DEF StopTypes
    <2>2. TracksHolding'
        BY <1>0 DEF TracksHolding, TR!SpanDays
    <2>3. PlanIsOfPosition'
        BY <1>0 DEF PlanIsOfPosition, TR!Judged, TR!SpanDays, TR!AtLoss, TR!ExitPrice, TR!Raw,
            TR!Factor, TR!Shadow, TR!ExEvents, TR!Triggered, TR!AdjustedCost, TR!PrevClose,
            TR!CostPrice, TR!LastClose
    <2> QED
        BY <2>1, <2>2, <2>3 DEF StopInv
<1>7. CASE \E price \in Quoted : TR!Close(price) \/ \E found \in TR!Found : TR!Plan(price, found)
    BY <1>1, <1>7, StopPlanKeeps
<1> QED
    BY <1>2, <1>3, <1>4, <1>5, <1>6, <1>7 DEF TR!Next, Quoted

-----------------------------------------------------------------------------
\* With the holding tracked and its start known, the mark is the highest of the closes of the
\* span and the cost; without the start it is at most that.
LEMMA MarkIsPeak ==
    ASSUME StopAssumption, StopInv, TR!Judged, seedOf = entry
    PROVE  LET peak == TR!Max({close[d] : d \in TR!SpanDays} \cup {cost}) IN
           /\ peak \in Nat /\ pos.high_price <= peak
           /\ plan.span => pos.high_price = peak
<1> DEFINE peak == TR!Max({close[d] : d \in TR!SpanDays} \cup {cost})
<1>1. StopTypes /\ stops_held /\ entry > 0 /\ cost \in Nat /\ pos.high_price \in Nat
    BY DEF StopInv, StopTypes, TR!Judged
<1>2. /\ peak \in Nat /\ peak >= cost /\ \A d \in TR!SpanDays : close[d] <= peak
      /\ peak = cost \/ \E d \in TR!SpanDays : close[d] = peak
    BY <1>1, PeakOfSpan DEF TR!SpanDays
<1> HIDE DEF peak
<1>3. /\ pos.high_price >= cost
      /\ pos.high_price = cost \/ \E d \in TR!SpanDays : close[d] = pos.high_price
    BY <1>1 DEF StopInv, TracksHolding
<1>4. pos.high_price <= peak
    BY <1>1, <1>2, <1>3
<1>5. ASSUME plan.span
      PROVE  peak <= pos.high_price
    <2>1. \A d \in TR!SpanDays : close[d] <= pos.high_price
        <3>1. pos.entry_price > 0
            BY <1>1 DEF StopInv, StopTypes, TracksHolding
        <3> QED
            BY <1>5, <3>1 DEF StopInv, PlanIsOfPosition
    <2> QED
        BY <1>1, <1>2, <1>3, <2>1
<1>6. plan.span => pos.high_price = peak
    BY <1>1, <1>2, <1>4, <1>5
<1> QED
    BY <1>2, <1>4, <1>6 DEF peak

LEMMA HeldFacts ==
    ASSUME StopAssumption, StopInv, TR!Judged, seedOf = entry
    PROVE  /\ entry \in Nat /\ entry > 0 /\ stops_day \in Nat /\ entry < stops_day
           /\ stops_day <= StopDays /\ StopDays \in Nat
           /\ cost \in Nat /\ cost > 0 /\ pos.entry_price = cost
           /\ pos.high_price \in Nat /\ pos.high_price >= cost
           /\ TR!Factor(entry) \in {1, 2}
           /\ \A d \in 1 .. StopDays : close[d] \in Nat
<1>1. StopTypes /\ stops_held /\ stops_stage = "trade"
    BY DEF StopInv, TR!Judged
<1>2. pos.entry_price = cost /\ pos.high_price >= cost
    BY <1>1 DEF StopInv, TracksHolding
<1>3. \A d \in 1 .. StopDays : close[d] \in Nat
    BY <1>1, QuotedAreNumbers DEF StopTypes
<1>4. StopDays \in Nat
    BY DEF StopAssumption
<1>5. TR!Factor(entry) \in {1, 2}
    BY DEF TR!Factor
<1>6. /\ entry \in Nat /\ entry > 0 /\ stops_day \in Nat /\ entry < stops_day
      /\ stops_day <= StopDays /\ cost \in Nat /\ cost > 0 /\ pos.high_price \in Nat
    BY <1>1, <1>4 DEF StopTypes
<1> QED
    BY <1>2, <1>3, <1>4, <1>5, <1>6

\* A stop fires on what happened to the holding.
LEMMA ExitsAreReal ==
    ASSUME StopAssumption, StopInv
    PROVE  TR!ExitIsReal
<1> SUFFICES ASSUME TR!Judged, seedOf = entry
             PROVE  (plan.trailing => TR!PeakIsReal) /\ (plan.stop => TR!LossIsReal)
    BY DEF TR!ExitIsReal
<1> DEFINE peak == TR!Max({close[d] : d \in TR!SpanDays} \cup {cost})
<1>1. peak \in Nat /\ pos.high_price <= peak
    BY MarkIsPeak
<1>2. TR!PeakIsReal <=> 4 * close[stops_day - 1] <= 3 * peak /\ 4 * peak >= 5 * TR!Paid
    BY DEF TR!PeakIsReal
<1> HIDE DEF peak
<1>3. ASSUME plan.trailing
      PROVE  TR!PeakIsReal
    <2>1. TR!Triggered(pos, plan.span)
        BY <1>3 DEF StopInv, PlanIsOfPosition
    <2> DEFINE paid == TR!AdjustedCost(pos, plan.span)
    <2>2. /\ paid > 0 /\ 4 * pos.high_price >= 5 * paid
          /\ 4 * close[stops_day - 1] <= 3 * pos.high_price
        BY <2>1 DEF TR!Triggered, TR!PrevClose
    <2>3. paid = TR!Paid
        BY <2>2, HeldFacts DEF TR!AdjustedCost, TR!Paid
    <2>4. TR!Paid \in Nat
        BY HeldFacts DEF TR!Paid
    <2>5. close[stops_day - 1] \in Nat
        BY HeldFacts
    <2>6. pos.high_price \in Nat
        BY HeldFacts
    <2> HIDE DEF paid
    <2>7. 4 * close[stops_day - 1] <= 3 * peak /\ 4 * peak >= 5 * TR!Paid
        BY <1>1, <2>2, <2>3, <2>4, <2>5, <2>6
    <2> QED
        BY <1>2, <2>7
<1>4. ASSUME plan.stop
      PROVE  TR!LossIsReal
    <2>1. TR!AtLoss(TR!ExitPrice(open), TR!CostPrice(pos, TR!ExitPrice(open)))
        BY <1>4 DEF StopInv, PlanIsOfPosition
    <2>2. TR!CostPrice(pos, TR!ExitPrice(open)) = cost
        BY HeldFacts DEF TR!CostPrice
    <2> QED
        BY <2>1, <2>2 DEF TR!AtLoss, TR!LossIsReal
<1> QED
    BY <1>3, <1>4

\* A fall from the peak of the span is caught.
LEMMA FallsAreCaught ==
    ASSUME StopAssumption, StopInv
    PROVE  TR!FallIsCaught
<1> SUFFICES ASSUME TR!Judged, seedOf = entry, plan.span,
                    \A d \in entry .. stops_day - 1 : close[d] > 0, TR!PeakIsReal
             PROVE  plan.trailing
    BY DEF TR!FallIsCaught
<1> DEFINE peak == TR!Max({close[d] : d \in TR!SpanDays} \cup {cost})
<1>1. peak \in Nat /\ pos.high_price = peak
    BY MarkIsPeak
<1>2. 4 * close[stops_day - 1] <= 3 * peak /\ 4 * peak >= 5 * TR!Paid
    BY DEF TR!PeakIsReal
<1> HIDE DEF peak
<1>3. close[stops_day - 1] > 0 /\ close[entry] > 0
    BY HeldFacts
<1>4. TR!AdjustedCost(pos, plan.span) = TR!Paid
    BY <1>3, HeldFacts DEF TR!AdjustedCost, TR!Paid
<1>5. TR!Paid > 0
    BY HeldFacts DEF TR!Paid
<1>6. pos.high_price > 0
    BY HeldFacts
<1>7. TR!Triggered(pos, plan.span)
    BY <1>1, <1>2, <1>3, <1>4, <1>5, <1>6 DEF TR!Triggered, TR!PrevClose
<1>8. pos.entry_price > 0
    BY HeldFacts
<1> QED
    BY <1>7, <1>8 DEF StopInv, PlanIsOfPosition

\* The shadow decision with the dividends loaded: no event, one between the purchase and
\* today, or one before both.
LEMMA LoadedShadow ==
    ASSUME StopAssumption, StopInv, TR!Judged, seedOf = entry, plan.span, plan.events, open > 0
    PROVE  plan.shadow <=> 4 * open <= 3 * TR!Paid
<1>1. open \in Nat /\ open % 2 = 0
    BY DEF StopInv, StopTypes, Quoted, StopAssumption
<1>2. plan.shadow = TR!AtLoss(TR!ExitPrice(open) * TR!ExEvents(TRUE, TRUE), cost)
    <2>1. TR!CostPrice(pos, TR!ExitPrice(open)) = cost
        BY HeldFacts DEF TR!CostPrice
    <2> QED
        BY <2>1 DEF StopInv, PlanIsOfPosition, TR!Shadow, TR!ExEvents
<1>3. TR!ExitPrice(open) = open \div TR!Factor(stops_day)
    BY DEF TR!ExitPrice, TR!Raw
<1>4. exDay \in Nat
    BY DEF StopInv, StopTypes
<1>5. cost \in Nat /\ cost > 0 /\ entry \in Nat /\ stops_day \in Nat /\ entry < stops_day
    BY HeldFacts
<1>6. PICK half \in Nat : open = 2 * half
    BY <1>1
<1>7. (2 * half) \div 2 = half /\ (2 * half) \div 1 = 2 * half
    BY <1>6
<1>8. CASE exDay = 0 \/ exDay > stops_day
    <2>1. TR!Factor(stops_day) = 1 /\ TR!Factor(entry) = 1 /\ TR!ExEvents(TRUE, TRUE) = 1
        BY <1>4, <1>5, <1>8 DEF TR!Factor, TR!ExEvents
    <2>2. TR!ExitPrice(open) * TR!ExEvents(TRUE, TRUE) = open
        <3>1. TR!ExitPrice(open) = open
            BY <1>3, <1>6, <1>7, <2>1
        <3>2. open * 1 = open
            BY <1>1
        <3> QED
            BY Zenon, <2>1, <3>1, <3>2
    <2>3. plan.shadow = TR!AtLoss(open, cost)
        BY Zenon, <1>2, <2>2
    <2>4. TR!Paid = cost
        BY <1>5, <2>1 DEF TR!Paid
    <2> QED
        BY <1>5, <2>3, <2>4 DEF TR!AtLoss
<1>9. CASE entry < exDay /\ exDay <= stops_day
    <2>1. TR!Factor(stops_day) = 2 /\ TR!Factor(entry) = 1 /\ TR!ExEvents(TRUE, TRUE) = 2
        BY <1>4, <1>5, <1>9 DEF TR!Factor, TR!ExEvents
    <2>2. TR!ExitPrice(open) * TR!ExEvents(TRUE, TRUE) = half * 2
        BY <1>3, <1>6, <1>7, <2>1
    <2>3. plan.shadow = TR!AtLoss(half * 2, cost)
        BY Zenon, <1>2, <2>2
    <2>4. TR!Paid = cost
        BY <1>5, <2>1 DEF TR!Paid
    <2>5. half * 2 = open
        BY <1>6
    <2> QED
        BY <1>5, <2>3, <2>4, <2>5 DEF TR!AtLoss
<1>10. CASE exDay # 0 /\ exDay <= entry
    <2>1. TR!Factor(stops_day) = 2 /\ TR!Factor(entry) = 2 /\ TR!ExEvents(TRUE, TRUE) = 1
        BY <1>4, <1>5, <1>10 DEF TR!Factor, TR!ExEvents
    <2>2. TR!ExitPrice(open) * TR!ExEvents(TRUE, TRUE) = half
        <3>1. TR!ExitPrice(open) = half
            BY <1>3, <1>6, <1>7, <2>1
        <3>2. half * 1 = half
            BY <1>6
        <3> QED
            BY Zenon, <2>1, <3>1, <3>2
    <2>3. plan.shadow = TR!AtLoss(half, cost)
        BY Zenon, <1>2, <2>2
    <2>4. TR!Paid = cost * 2
        BY <1>5, <2>1 DEF TR!Paid
    <2>5. half > 0 /\ (4 * half <= 3 * cost <=> 4 * open <= 3 * (cost * 2))
        BY <1>5, <1>6
    <2> QED
        BY <1>5, <2>3, <2>4, <2>5 DEF TR!AtLoss
<1> QED
    BY <1>4, <1>5, <1>8, <1>9, <1>10


\* The shadow decision departs from the applied one only where an ex-event lies between.
LEMMA ShadowsAreAdjusted ==
    ASSUME StopAssumption, StopInv
    PROVE  TR!ShadowIsAdjusted
<1> SUFFICES ASSUME TR!Judged, seedOf = entry
             PROVE  /\ plan.span /\ plan.events /\ open > 0 =>
                          (plan.shadow <=> 4 * open <= 3 * TR!Paid)
                    /\ plan.shadow # plan.stop => entry < exDay /\ exDay <= stops_day
    BY DEF TR!ShadowIsAdjusted
<1>1. ASSUME ~ (entry < exDay /\ exDay <= stops_day)
      PROVE  plan.shadow = plan.stop
    <2> DEFINE exit == TR!ExitPrice(open)
    <2>1. TR!ExEvents(plan.span, plan.events) = 1
        BY <1>1 DEF TR!ExEvents
    <2>2. exit \in Nat
        <3>1. open \in Nat /\ TR!Factor(stops_day) \in {1, 2}
            BY QuotedAreNumbers DEF StopInv, StopTypes, TR!Factor
        <3>2. open \div TR!Factor(stops_day) \in Nat
            BY <3>1
        <3> QED
            BY <3>2, LastCloseIs DEF StopInv, TR!ExitPrice, TR!Raw
    <2> HIDE DEF exit
    <2>3. exit * 1 = exit
        BY <2>2
    <2> QED
        BY <2>1, <2>3 DEF StopInv, PlanIsOfPosition, TR!Shadow, exit
<1> QED
    BY <1>1, LoadedShadow

LEMMA StopsHold ==
    ASSUME StopAssumption, StopInv
    PROVE  TR!TypeOK /\ TR!ExitIsReal /\ TR!FallIsCaught /\ TR!ShadowIsAdjusted
<1>1. TR!TypeOK
    BY DEF StopInv, StopTypes, TR!TypeOK, Quoted
<1> QED
    BY <1>1, ExitsAreReal, FallsAreCaught, ShadowsAreAdjusted

-----------------------------------------------------------------------------
(* The components side by side *)

LEMMA Assumed == ContentAssumption /\ SignalAssumption /\ StopAssumption
BY PlanningAssumption DEF ContentAssumption, SignalAssumption, StopAssumption

\* A behaviour starts as one of the component that runs; the day starts in all of them.
LEMMA PartStarts ==
    ASSUME PartsInit
    PROVE  /\ Init
           /\ part = "contents" => TP!Init
           /\ part = "stops" => TR!Init
           /\ part = "loading" => SD!Init
    BY DEF PartsInit

\* A step is one of the component that runs, and leaves the others as they are.
LEMMA PartSteps ==
    ASSUME [PartsNext]_partsVars
    PROVE  /\ part' = part
           /\ [Next]_vars
           /\ part = "contents" => [TP!Next]_(TP!vars)
           /\ part = "stops" => [TR!Next]_(TR!vars)
           /\ part = "loading" => [SD!Next]_(SD!vars)
<1>1. CASE UNCHANGED partsVars
    <2>1. /\ part' = part /\ UNCHANGED vars /\ UNCHANGED contents
          /\ UNCHANGED stops /\ UNCHANGED loading
        BY <1>1 DEF partsVars
    <2>2. UNCHANGED TP!vars
        BY <2>1 DEF contents, TP!vars, TP!inputs, TP!request
    <2>3. UNCHANGED TR!vars
        BY <2>1 DEF stops, TR!vars, TR!market, TR!account
    <2>4. UNCHANGED SD!vars
        BY <2>1 DEF loading, SD!vars, SD!calendar
    <2> QED
        BY Zenon, <2>1, <2>2, <2>3, <2>4
<1>2. CASE PartsNext
    BY <1>2 DEF PartsNext
<1> QED
    BY <1>1, <1>2

ContentPart == part = "contents" => ContentInv

\* For every set of stocks, whatever is known of them, however often the data fail, whatever
\* the risk manager answers and whatever is traded meanwhile: a suspended holding with a
\* price is kept, and what a local exit leaves is not bought back by the plan
\* (_build_current_holdings, _local_safety_plan, _apply_forced_exit_overrides).
THEOREM LocalRulesAreKept ==
    PartsSpec => []LocalRulesHold
<1>1. PartsInit => ContentPart
    BY PartStarts, Assumed, ContentStarts DEF ContentPart
<1>2. ContentPart /\ [PartsNext]_partsVars => ContentPart'
    BY PartSteps, Assumed, ContentKeeps DEF ContentPart
<1>3. ContentPart => LocalRulesHold
    BY Assumed, ContentHolds DEF ContentPart, LocalRulesHold
<1> QED
    BY <1>1, <1>2, <1>3, PTL DEF PartsSpec

SignalPart == part = "loading" => SignalInv

\* For every calendar and whatever the model predicts, by day or late: a full plan of data
\* that were loaded the same day has all the signals of the trading day before, and the
\* universe leaves none of them out (subscription_signal_date, signal_config).
THEOREM SignalsAreAllSeen ==
    PartsSpec => []PlanSeesAllSignals
<1>1. PartsInit => SignalPart
    BY PartStarts, Assumed, SignalStarts DEF SignalPart
<1>2. SignalPart /\ [PartsNext]_partsVars => SignalPart'
    BY PartSteps, Assumed, SignalKeeps DEF SignalPart
<1>3. SignalPart => PlanSeesAllSignals
    BY Assumed, SignalHolds DEF SignalPart, PlanSeesAllSignals
<1> QED
    BY <1>1, <1>2, <1>3, PTL DEF PartsSpec

StopPart == part = "stops" => StopInv

\* For every course of prices, ex-event, purchase, sale and restart, over any number of days,
\* and whether or not the rows, the span, the dividends and the average price are found: a
\* stop of a holding that is tracked has a fall of that holding behind it, in prices on one
\* basis, a fall from its peak is not missed, and the shadow decision is the adjusted one
\* where the dividends were loaded and differs for an ex-event only (_update_trailing_state,
\* _raise_high_price_to_span_peak, _stop_cost_ratio).
THEOREM StopsTellTheTruth ==
    PartsSpec => []StopsAreTrue
<1>1. PartsInit => StopPart
    BY PartStarts, Assumed, StopsStart DEF StopPart
<1>2. StopPart /\ [PartsNext]_partsVars => StopPart'
    BY PartSteps, Assumed, StopsKeep DEF StopPart
<1>3. StopPart => StopsAreTrue
    BY Assumed, StopsHold DEF StopPart, StopsAreTrue
<1> QED
    BY <1>1, <1>2, <1>3, PTL DEF PartsSpec

PlanningInv == IInv /\ ContentPart /\ SignalPart /\ StopPart

\* The types of the four components are kept.
THEOREM PlanningTypes ==
    PartsSpec => []TypesOK
<1>1. PartsInit => PlanningInv
    BY PartStarts, Assumed, InitIInv, ContentStarts, SignalStarts, StopsStart
    DEF PlanningInv, ContentPart, SignalPart, StopPart
<1>2. PlanningInv /\ [PartsNext]_partsVars => PlanningInv'
    BY PartSteps, Assumed, NextKeeps, ContentKeeps, SignalKeeps, StopsKeep
    DEF PlanningInv, ContentPart, SignalPart, StopPart
<1>3. PlanningInv => TypesOK
    BY Assumed, ContentHolds, SignalHolds, StopsHold
    DEF PlanningInv, ContentPart, SignalPart, StopPart, IInv, TypesOK
<1> QED
    BY <1>1, <1>2, <1>3, PTL DEF PartsSpec
=================================================================================
