-------------------------- MODULE Ordering_proofs --------------------------
(***************************************************************************)
(* Why a quantity is cut as well as it can be, and why the orders of a     *)
(* target are never more than it asks for: slices and multiples, what      *)
(* NotionalOrderSplitter returns against every way to cut, the prices an   *)
(* order can have, and the invariant of the orders on their way.           *)
(***************************************************************************)
EXTENDS MCServices, SumTheorems, SequenceTheorems

-----------------------------------------------------------------------------
(* Multiples and slices *)

\* A product divided by a factor leaves the other and no remainder.
LEMMA QuotientOfProduct ==
    ASSUME NEW q \in Nat, NEW k \in Nat \ {0}
    PROVE  (q * k) \div k = q /\ (q * k) % k = 0
<1>1. (q * k) \div k = q
    OBVIOUS
<1> DEFINE s == q * k
<1>2. s \in Nat
    OBVIOUS
<1> HIDE DEF s
<1>3. s = (k * (s \div k)) + (s % k)
    BY <1>2
<1>4. s % k \in Int /\ k * (s \div k) = s
    BY <1>1, <1>2 DEF s
<1>5. s % k = 0
    BY <1>2, <1>3, <1>4
<1> QED
    BY <1>1, <1>5 DEF s

LEMMA Quotient ==
    ASSUME NEW t \in Nat, NEW k \in Nat \ {0}
    PROVE  /\ t \div k \in Nat /\ t % k \in Nat /\ t % k < k
           /\ t = (t \div k) * k + (t % k)
OBVIOUS

\* The sum and the difference of multiples are multiples.
LEMMA MultiplesAddUp ==
    ASSUME NEW a \in Nat, NEW b \in Nat, NEW k \in Nat \ {0}, a % k = 0, b % k = 0
    PROVE  (a + b) % k = 0 /\ (a >= b => (a - b) % k = 0)
<1> DEFINE x == a \div k
           y == b \div k
<1>1. x \in Nat /\ y \in Nat /\ a = x * k /\ b = y * k
    BY Quotient
<1> HIDE DEF x, y
<1>2. a + b = (x + y) * k /\ a - b = (x - y) * k
    BY <1>1
<1>3. (a + b) % k = 0
    BY <1>1, <1>2, QuotientOfProduct
<1>4. ASSUME a >= b PROVE (a - b) % k = 0
  <2>1. x >= y
    <3> SUFFICES ASSUME x < y PROVE FALSE
        BY <1>1
    <3>1. y * k = x * k + (y - x) * k /\ y - x \in Nat \ {0}
        BY <1>1
    <3>2. (y - x) * k \in Nat \ {0}
        BY <3>1
    <3>3. x * k \in Nat
        BY <1>1
    <3> QED
        BY <1>1, <1>4, <3>1, <3>2, <3>3
  <2>2. x - y \in Nat
      BY <1>1, <2>1
  <2> QED
      BY <1>2, <2>2, QuotientOfProduct
<1> QED
    BY <1>3, <1>4

LEMMA MultipleOfMultiple ==
    ASSUME NEW a \in Nat, NEW n \in Nat, NEW k \in Nat \ {0}, a % k = 0
    PROVE  (n * a) % k = 0
<1> DEFINE x == a \div k
<1>1. x \in Nat /\ a = x * k
    BY Quotient
<1> HIDE DEF x
<1>2. n * a = (n * x) * k /\ n * x \in Nat
    BY <1>1
<1> QED
    BY <1>2, QuotientOfProduct

\* Rounding down gives the greatest multiple that is not above.
LEMMA RoundedDown ==
    ASSUME NEW t \in Nat, NEW k \in Nat \ {0}
    PROVE  LET d == (t \div k) * k
           IN  /\ d \in Nat /\ d <= t /\ d % k = 0
               /\ t % k = 0 => d = t
               /\ \A m \in Nat : m % k = 0 /\ m <= t => m <= d
<1> DEFINE d == (t \div k) * k
<1>1. t \div k \in Nat /\ t % k \in Nat /\ t % k < k /\ t = d + (t % k)
    BY Quotient
<1>2. d \in Nat /\ d % k = 0
    BY <1>1, QuotientOfProduct
<1>3. ASSUME NEW m \in Nat, m % k = 0, m <= t PROVE m <= d
  <2> SUFFICES ASSUME m > d PROVE FALSE
      BY <1>2
  <2>1. (m - d) % k = 0
      BY <1>2, <1>3, MultiplesAddUp
  <2>2. m - d \in Nat \ {0} /\ m - d < k
    <3> HIDE DEF d
    <3> QED BY <1>1, <1>2, <1>3
  <2>3. \A e \in Nat : e < k => e % k = e
      OBVIOUS
  <2> HIDE DEF d
  <2> QED
      BY <2>1, <2>2, <2>3
<1>4. d <= t /\ (t % k = 0 => d = t)
  <2> HIDE DEF d
  <2>1. d \in Nat /\ t % k \in Nat /\ t = d + (t % k)
      BY <1>1, <1>2
  <2> QED BY <2>1
<1> HIDE DEF d
<1> QED
    BY <1>2, <1>3, <1>4 DEF d

\* Products, with what the solver needs of them.
LEMMA ProductGrows ==
    ASSUME NEW a \in Nat, NEW b \in Nat, NEW c \in Nat, a <= b
    PROVE  a * c \in Nat /\ a * c <= b * c /\ (c > 0 => a <= a * c) /\ c * a = a * c
<1>1. b * c = a * c + (b - a) * c /\ c * a = a * c
    OBVIOUS
<1>2. \A x, y \in Nat : x * y \in Nat
    OBVIOUS
<1>3. (b - a) * c \in Nat /\ a * c \in Nat
    BY <1>2
<1>4. ASSUME c > 0 PROVE a <= a * c
  <2>1. a * c = a + a * (c - 1)
      OBVIOUS
  <2>2. a * (c - 1) \in Nat
      BY <1>2, <1>4
  <2> QED
      BY <2>1, <2>2
<1> QED
    BY <1>1, <1>3, <1>4

\* t is the sum of orders of legal sizes, as Reachable has it.
Legal(t, min, inc, top, n) == t % inc = 0 /\ n * min <= t /\ t <= n * top

LEMMA LegalTops ==
    ASSUME NEW n \in Nat, NEW min \in Nat \ {0}, NEW inc \in Nat \ {0}, NEW top \in Nat,
           min <= top, top % inc = 0
    PROVE  n * top \in Nat /\ n <= n * top /\ Legal(n * top, min, inc, top, n)
<1>1. n * min <= n * top /\ n * top \in Nat /\ n <= n * top
    BY ProductGrows
<1>2. (n * top) % inc = 0
    BY MultipleOfMultiple
<1> QED
    BY <1>1, <1>2 DEF Legal

LEMMA LegalRest ==
    ASSUME NEW n \in Nat, NEW rest \in Nat, NEW min \in Nat \ {0}, NEW inc \in Nat \ {0},
           NEW top \in Nat, min <= top, top % inc = 0, rest % inc = 0, rest <= top,
           min - rest <= n * (top - min)
    PROVE  n + 1 <= n * top + rest /\ Legal(n * top + rest, min, inc, top, n + 1)
<1>1. n * top \in Nat /\ n <= n * top /\ n * min \in Nat
    BY ProductGrows, LegalTops
<1>2. n * (top - min) = n * top - n * min /\ (n + 1) * min = n * min + min
      /\ (n + 1) * top = n * top + top
    OBVIOUS
<1>3. (n * top) % inc = 0
    BY MultipleOfMultiple
<1>4. (n * top + rest) % inc = 0
    BY <1>1, <1>3, MultiplesAddUp
<1>5. n + 1 <= (n + 1) * min
    BY ProductGrows
<1> DEFINE u == n * top
           v == n * min
           w == (n + 1) * min
           x == (n + 1) * top
<1>6. u \in Nat /\ v \in Nat /\ w = v + min /\ x = u + top /\ min - rest <= u - v
    BY <1>1, <1>2
<1>7. w <= u + rest /\ u + rest <= x
  <2> HIDE DEF u, v, w, x
  <2> QED BY <1>6
<1>8. n + 1 <= u + rest
    BY <1>5, <1>6, <1>7
<1> QED
    BY <1>4, <1>7, <1>8 DEF Legal

\* No legal orders add up to more than n full ones and less than n + 1 minima.
LEMMA LegalGap ==
    ASSUME NEW t \in Nat, NEW n \in Nat, NEW min \in Nat \ {0}, NEW inc \in Nat \ {0},
           NEW top \in Nat, NEW k \in Nat, Legal(t, min, inc, top, k), n * top < t
    PROVE  (n + 1) * min <= t
<1>1. n + 1 <= k
  <2> SUFFICES ASSUME k <= n PROVE FALSE
      OBVIOUS
  <2>1. k * top <= n * top /\ k * top \in Nat /\ n * top \in Nat
      BY ProductGrows
  <2> QED
      BY <2>1 DEF Legal
<1>2. (n + 1) * min <= k * min /\ k * min \in Nat /\ (n + 1) * min \in Nat
    BY <1>1, ProductGrows
<1> QED
    BY <1>2 DEF Legal

\* Without a legal size there is nothing but nothing.
LEMMA LegalNone ==
    ASSUME NEW t \in Nat, NEW min \in Nat \ {0}, NEW inc \in Nat \ {0},
           NEW top \in Nat, NEW k \in Nat, Legal(t, min, inc, top, k), top < min \/ t < min
    PROVE  t = 0
<1>1. CASE k = 0
    BY <1>1 DEF Legal
<1>2. CASE k > 0
  <2>1. k * min = (k - 1) * min + min /\ (k - 1) * min \in Nat
      BY <1>2, ProductGrows
  <2>2. k * min = k * top + k * (min - top)
      OBVIOUS
  <2>3. CASE top < min
    <3>1. k * (min - top) >= k /\ k * (min - top) \in Nat
        BY <2>3, ProductGrows
    <3>2. k * top \in Nat
        BY ProductGrows
    <3> QED
        BY <1>2, <2>2, <3>1, <3>2 DEF Legal
  <2>4. CASE t < min
      BY <2>1, <2>4 DEF Legal
  <2> QED
      BY <2>3, <2>4
<1> QED
    BY <1>1, <1>2

-----------------------------------------------------------------------------
(* Sums of slices, and what is tradable *)

\* The sum of a sequence is known when its partial sums are.
PartialSums(F, s, n) ==
    /\ n \in Nat /\ Len(s) = n
    /\ F = [k \in 0 .. n |-> F[k]]
    /\ F[0] = 0 /\ \A k \in 1 .. n : F[k] = F[k - 1] + s[k]

LEMMA SumOfIs ==
    ASSUME NEW s, NEW n, NEW F, PartialSums(F, s, n)
    PROVE  LO!SumOf(s) = F[n]
<1>0. /\ n \in Nat /\ Len(s) = n /\ F = [k \in 0 .. n |-> F[k]]
      /\ F[0] = 0 /\ \A k \in 1 .. n : F[k] = F[k - 1] + s[k]
    BY DEF PartialSums
<1> DEFINE Is(u) == u = [k \in 0 .. n |-> IF k = 0 THEN 0 ELSE u[k - 1] + s[k]]
           u == CHOOSE u : Is(u)
<1>1. Is(F)
  <2>1. ASSUME NEW k \in 0 .. n PROVE F[k] = IF k = 0 THEN 0 ELSE F[k - 1] + s[k]
    <3>1. k = 0 \/ k \in 1 .. n
        BY <1>0
    <3>2. k \in 1 .. n => k # 0
        OBVIOUS
    <3> QED
        BY <1>0, <3>1, <3>2
  <2> QED
      BY <1>0, <2>1
<1>2. Is(u)
  <2> HIDE DEF Is
  <2> QED BY <1>1
<1> HIDE DEF u
<1> DEFINE N == {k \in Nat : k <= n => u[k] = F[k]}
<1>3. 0 \in N
    BY <1>0, <1>2
<1>4. ASSUME NEW k \in Nat, k \in N PROVE k + 1 \in N
  <2> SUFFICES ASSUME k + 1 <= n PROVE u[k + 1] = F[k + 1]
      OBVIOUS
  <2>1. k + 1 \in 1 .. n /\ (k + 1) - 1 = k
      BY <1>0
  <2> DEFINE j == k + 1
  <2>3. j \in 0 .. n /\ j # 0 /\ j \in 1 .. n /\ j - 1 = k
      BY <1>0, <2>1
  <2> HIDE DEF j
  <2>4. u[j] = u[j - 1] + s[j]
      BY <1>2, <2>3
  <2>5. F[j] = F[j - 1] + s[j]
      BY <1>0, <2>3
  <2>2. u[k + 1] = u[k] + s[k + 1] /\ F[k + 1] = F[k] + s[k + 1]
      BY <2>3, <2>4, <2>5 DEF j
  <2>6. u[k] = F[k]
      BY <1>0, <1>4
  <2> QED
      BY <2>2, <2>6
<1>5. n \in N
  <2> HIDE DEF N
  <2> QED BY <1>0, <1>3, <1>4, NatInductive
<1>6. u[n] = F[n]
    BY <1>0, <1>5
<1> QED
    BY <1>0, <1>6 DEF u, LO!SumOf

RulesGiven == rules \in OrderRules

LEMMA RulesAre ==
    ASSUME RulesGiven
    PROVE  /\ rules.min \in Nat \ {0} /\ rules.max \in Nat /\ rules.inc \in Nat \ {0}
           /\ rules.odd \in BOOLEAN
           /\ rules.min <= rules.max /\ rules.min % rules.inc = 0 /\ rules.max % rules.inc = 0
BY OrderingAssumption DEF RulesGiven

\* The greatest multiple of the increment that an order may have at this price.
Full(price) == LO!RoundDown(LO!Maximum(price))

LEMMA SmallerOf ==
    ASSUME NEW a \in Int, NEW b \in Int
    PROVE  LO!Min({a, b}) = IF a <= b THEN a ELSE b
<1> DEFINE c == IF a <= b THEN a ELSE b
<1>1. c \in {a, b} /\ \A y \in {a, b} : c <= y
    OBVIOUS
<1>2. \A x \in {a, b} : (\A y \in {a, b} : x <= y) => x = c
    OBVIOUS
<1> HIDE DEF c
<1>3. LO!Min({a, b}) = c
    BY <1>1, <1>2 DEF LO!Min
<1> QED
    BY <1>3 DEF c

LEMMA LargerOf ==
    ASSUME NEW a \in Int, NEW b \in Int
    PROVE  LO!Max({a, b}) = IF a >= b THEN a ELSE b
<1> DEFINE c == IF a >= b THEN a ELSE b
<1>1. c \in {a, b} /\ \A y \in {a, b} : c >= y
    OBVIOUS
<1>2. \A x \in {a, b} : (\A y \in {a, b} : x >= y) => x = c
    OBVIOUS
<1> HIDE DEF c
<1>3. LO!Max({a, b}) = c
    BY <1>1, <1>2 DEF LO!Max
<1> QED
    BY <1>3 DEF c

LEMMA RoundDownIs ==
    ASSUME RulesGiven, NEW t \in Nat
    PROVE  /\ LO!RoundDown(t) \in Nat /\ LO!RoundDown(t) <= t
           /\ LO!RoundDown(t) % rules.inc = 0
           /\ t % rules.inc = 0 => LO!RoundDown(t) = t
           /\ \A m \in Nat : m % rules.inc = 0 /\ m <= t => m <= LO!RoundDown(t)
<1>1. rules.inc \in Nat \ {0}
    BY RulesAre
<1> QED
    BY <1>1, RoundedDown DEF LO!RoundDown

LEMMA MaximumIs ==
    ASSUME RulesGiven, NEW price \in Nat \ {0}
    PROVE  LO!Maximum(price) \in Nat /\ LO!Maximum(price) <= rules.max
<1>1. rules.max \in Nat /\ Notional \in Nat
    BY RulesAre, OrderingAssumption
<1>2. Notional \div price \in Nat
    BY <1>1, Quotient
<1>3. LO!Min({rules.max, Notional \div price})
        = IF rules.max <= Notional \div price THEN rules.max ELSE Notional \div price
    BY <1>1, <1>2, SmallerOf
<1> QED
    BY <1>1, <1>2, <1>3 DEF LO!Maximum

LEMMA FullIs ==
    ASSUME RulesGiven, NEW price \in Nat \ {0}
    PROVE  /\ Full(price) \in Nat /\ Full(price) <= LO!Maximum(price)
           /\ Full(price) <= rules.max /\ Full(price) % rules.inc = 0
           /\ \A m \in Nat : m % rules.inc = 0 /\ m <= LO!Maximum(price) => m <= Full(price)
<1>1. LO!Maximum(price) \in Nat /\ LO!Maximum(price) <= rules.max /\ rules.max \in Nat
    BY MaximumIs, RulesAre
<1>2. /\ Full(price) \in Nat /\ Full(price) <= LO!Maximum(price) /\ Full(price) % rules.inc = 0
      /\ \A m \in Nat : m % rules.inc = 0 /\ m <= LO!Maximum(price) => m <= Full(price)
    BY <1>1, RoundDownIs DEF Full
<1> QED
    BY <1>1, <1>2

\* A slice that an exchange takes at this price.
LEMMA LegalSlice ==
    ASSUME RulesGiven, NEW price \in Nat \ {0}, NEW odd \in BOOLEAN, NEW v \in Nat,
           v <= Full(price), (v >= rules.min /\ v % rules.inc = 0) \/ (odd /\ v > 0)
    PROVE  v \in Nat \ {0} /\ v <= LO!Maximum(price) /\ LO!Valid(v, odd)
<1>1. Full(price) \in Nat /\ Full(price) <= LO!Maximum(price) /\ LO!Maximum(price) <= rules.max
      /\ LO!Maximum(price) \in Nat /\ rules.max \in Nat /\ rules.min \in Nat \ {0}
    BY FullIs, MaximumIs, RulesAre
<1> QED
    BY <1>1 DEF LO!Valid

-----------------------------------------------------------------------------
(* What the splitter returns, case by case *)

\* Slices s, n of them, with the partial sums F, each legal at this price.
Cuts(s, n, F, price, odd) ==
    /\ n \in Nat /\ Len(s) = n /\ s \in [1 .. n -> Nat \ {0}]
    /\ F = [k \in 0 .. n |-> F[k]]
    /\ F[0] = 0 /\ \A k \in 1 .. n : F[k] = F[k - 1] + s[k]
    /\ \A k \in 1 .. n : s[k] <= LO!Maximum(price) /\ LO!Valid(s[k], odd /\ k = n)

LEMMA LenOf ==
    ASSUME NEW n \in Nat, NEW s, s = [k \in 1 .. n |-> s[k]]
    PROVE  Len(s) = n
OBVIOUS

LEMMA Nothing ==
    ASSUME NEW price, NEW odd
    PROVE  Cuts(<<>>, 0, [k \in 0 .. 0 |-> 0], price, odd)
<1>1. Len(<<>>) = 0 /\ <<>> \in [1 .. 0 -> Nat \ {0}]
    OBVIOUS
<1>2. \A k \in 1 .. 0 : FALSE
    OBVIOUS
<1> QED
    BY <1>1, <1>2 DEF Cuts

\* n full slices.
LEMMA Tops ==
    ASSUME RulesGiven, NEW price \in Nat \ {0}, NEW odd \in BOOLEAN, NEW n \in Nat,
           Full(price) >= rules.min
    PROVE  Cuts([k \in 1 .. n |-> Full(price)], n, [k \in 0 .. n |-> k * Full(price)], price, odd)
<1> DEFINE top == Full(price)
           s == [k \in 1 .. n |-> top]
           F == [k \in 0 .. n |-> k * top]
<1>1. top \in Nat /\ top % rules.inc = 0 /\ top <= Full(price)
    BY FullIs
<1>2. \A b \in BOOLEAN : top \in Nat \ {0} /\ top <= LO!Maximum(price) /\ LO!Valid(top, b)
    BY <1>1, LegalSlice
<1> HIDE DEF top
<1>3. Len(s) = n /\ s \in [1 .. n -> Nat \ {0}]
    BY <1>2, LenOf
<1>4. F[0] = 0
    BY <1>1
<1>5. ASSUME NEW k \in 1 .. n PROVE F[k] = F[k - 1] + s[k]
  <2>1. k - 1 \in 0 .. n /\ k \in 0 .. n
      OBVIOUS
  <2>2. k * top = (k - 1) * top + top
      BY <1>1
  <2> QED
      BY <2>1, <2>2
<1>6. F = [k \in 0 .. n |-> F[k]]
    OBVIOUS
<1>7. \A k \in 1 .. n : s[k] <= LO!Maximum(price) /\ LO!Valid(s[k], odd /\ k = n)
    BY <1>2
<1> HIDE DEF s, F
<1>8. Cuts(s, n, F, price, odd)
    BY <1>3, <1>4, <1>5, <1>6, <1>7 DEF Cuts
<1> QED
    BY <1>8 DEF s, F, top

\* n full slices and a smaller one.
LEMMA TopsAndRest ==
    ASSUME RulesGiven, NEW price \in Nat \ {0}, NEW odd \in BOOLEAN, NEW n \in Nat,
           Full(price) >= rules.min, NEW rest \in Nat \ {0}, rest <= Full(price),
           (rest >= rules.min /\ rest % rules.inc = 0) \/ odd
    PROVE  Cuts([k \in 1 .. n + 1 |-> IF k <= n THEN Full(price) ELSE rest], n + 1,
                [k \in 0 .. n + 1 |-> IF k <= n THEN k * Full(price) ELSE n * Full(price) + rest],
                price, odd)
<1> DEFINE top == Full(price)
           m == n + 1
           s == [k \in 1 .. m |-> IF k <= n THEN top ELSE rest]
           F == [k \in 0 .. m |-> IF k <= n THEN k * top ELSE n * top + rest]
<1>1. top \in Nat /\ top % rules.inc = 0 /\ top <= Full(price)
    BY FullIs
<1>2. \A b \in BOOLEAN : top \in Nat \ {0} /\ top <= LO!Maximum(price) /\ LO!Valid(top, b)
    BY <1>1, LegalSlice
<1>3. rest <= LO!Maximum(price) /\ LO!Valid(rest, odd)
    BY LegalSlice
<1> HIDE DEF top
<1>4. Len(s) = m /\ s \in [1 .. m -> Nat \ {0}] /\ m \in Nat
  <2>1. m \in Nat /\ s = [k \in 1 .. m |-> s[k]] /\ \A k \in 1 .. m : s[k] \in Nat \ {0}
      BY <1>2
  <2> HIDE DEF s
  <2> QED BY <2>1, LenOf
<1>5. F[0] = 0
    BY <1>1
<1>6. ASSUME NEW k \in 1 .. m PROVE F[k] = F[k - 1] + s[k]
  <2>1. k - 1 \in 0 .. m /\ k \in 0 .. m /\ k - 1 <= n
      OBVIOUS
  <2>2. CASE k <= n
    <3>1. k * top = (k - 1) * top + top
        BY <1>1
    <3> QED
        BY <2>1, <2>2, <3>1
  <2>3. CASE k = m
    <3>1. ~(k <= n) /\ k - 1 = n
        BY <2>3
    <3> QED
        BY <2>1, <3>1
  <2> QED
      BY <2>2, <2>3
<1>7. F = [k \in 0 .. m |-> F[k]]
    OBVIOUS
<1>8. ASSUME NEW k \in 1 .. m PROVE s[k] <= LO!Maximum(price) /\ LO!Valid(s[k], odd /\ k = m)
  <2>1. CASE k <= n
      BY <1>2, <2>1
  <2>2. CASE k = m
    <3>1. s[k] = rest
        BY <2>2
    <3> QED
        BY <3>1, <1>3, <2>2
  <2> QED
      BY <2>1, <2>2
<1> HIDE DEF s, F, m
<1>9. Cuts(s, m, F, price, odd)
    BY <1>4, <1>5, <1>6, <1>7, <1>8 DEF Cuts
<1> QED
    BY <1>9 DEF s, F, top, m

\* How many of the needed shares the slices up to k give.
GivenBy(k, n, give, needed) ==
    IF needed - (n - k) * give > 0 THEN needed - (n - k) * give ELSE 0

LEMMA MovedIs ==
    ASSUME NEW n \in Nat, NEW needed \in Nat \ {0}, NEW k \in 1 .. n, NEW top,
           NEW give \in Nat, give = LO!RoundDown(top - rules.min),
           NEW moved, moved = LO!Moved(n, top, needed)[k]
    PROVE  /\ moved \in Nat /\ moved <= give
           /\ moved = GivenBy(k, n, give, needed) - GivenBy(k - 1, n, give, needed)
           /\ \/ moved = 0
              \/ moved = give
              \/ (moved = GivenBy(k, n, give, needed) /\ moved > 0)
<1> DEFINE a == needed - (n - k) * give
           b == needed - (n - (k - 1)) * give
<1>1. a \in Int /\ b = a - give
  <2>1. (n - (k - 1)) * give = (n - k) * give + give
      OBVIOUS
  <2>2. (n - k) * give \in Int
      OBVIOUS
  <2> QED
      BY <2>1, <2>2
<1>2. moved = LO!Max({0, LO!Min({give, a})})
    BY DEF LO!Moved
<1>3. GivenBy(k, n, give, needed) = (IF a > 0 THEN a ELSE 0)
      /\ GivenBy(k - 1, n, give, needed) = IF b > 0 THEN b ELSE 0
    BY DEF GivenBy
<1> HIDE DEF a, b
<1> DEFINE c == IF give <= a THEN give ELSE a
<1>4. LO!Min({give, a}) = c /\ c \in Int
    BY <1>1, SmallerOf
<1>5. moved = IF 0 >= c THEN 0 ELSE c
  <2> HIDE DEF c
  <2> QED BY <1>2, <1>4, LargerOf
<1>6. /\ moved \in Nat /\ moved <= give
      /\ moved = (IF a > 0 THEN a ELSE 0) - (IF b > 0 THEN b ELSE 0)
      /\ moved = 0 \/ moved = give \/ (moved = a /\ moved > 0)
  <2>1. CASE a <= 0
      BY <1>1, <1>5, <2>1
  <2>2. CASE a > 0 /\ a <= give
      BY <1>1, <1>5, <2>2
  <2>3. CASE a > give
      BY <1>1, <1>5, <2>3
  <2> QED
      BY <1>1, <2>1, <2>2, <2>3
<1>7. moved = a /\ moved > 0 => moved = GivenBy(k, n, give, needed)
    BY <1>1, <1>3
<1> QED
    BY <1>3, <1>6, <1>7

\* The shares a remainder below the minimum needs, in whole increments.
Needed(rest) == ((rules.min - rest + rules.inc - 1) \div rules.inc) * rules.inc

LEMMA NeededIs ==
    ASSUME RulesGiven, NEW rest \in Nat \ {0}, rest < rules.min
    PROVE  /\ Needed(rest) \in Nat \ {0} /\ Needed(rest) % rules.inc = 0
           /\ rest + Needed(rest) >= rules.min /\ rest + Needed(rest) < rules.min + rules.inc
           /\ rest % rules.inc = 0 => rest + Needed(rest) = rules.min
<1> DEFINE t == rules.min - rest
           i == rules.inc
           u == t + i - 1
           d == (u \div i) * i
<1>1. t \in Nat \ {0} /\ i \in Nat \ {0} /\ rules.min \in Nat /\ rules.min % i = 0
    BY RulesAre
<1>2. u \in Nat
    BY <1>1
<1>3. d = Needed(rest)
    BY DEF Needed
<1>4. d \in Nat /\ d <= u /\ d % i = 0
  <2> HIDE DEF u, i
  <2> QED BY <1>1, <1>2, RoundedDown
<1>5. d >= t
  <2> HIDE DEF i, t
  <2>1. u \div i \in Nat /\ u % i \in Nat /\ u % i < i /\ u = d + (u % i)
    <3> HIDE DEF u
    <3> QED BY <1>1, <1>2, Quotient
  <2> DEFINE r == u % i
  <2> HIDE DEF d, r
  <2> QED BY <2>1, <1>1, <1>4 DEF r
<1>6. ASSUME rest % i = 0 PROVE d = t
  <2>1. t % i = 0
      BY <1>1, <1>6, MultiplesAddUp
  <2>2. (d - t) % i = 0
      BY <1>1, <1>4, <1>5, <2>1, MultiplesAddUp
  <2>3. d - t \in Nat /\ d - t < i
    <3> HIDE DEF d, t, i
    <3> QED BY <1>1, <1>4, <1>5
  <2>4. \A e \in Nat : e < i => e % i = e
      BY <1>1
  <2>5. d - t = 0
      BY <2>2, <2>3, <2>4
  <2> HIDE DEF d, t
  <2> QED
      BY <2>5, <1>1, <1>4
<1>7. d <= t + i - 1 /\ d > 0
    BY <1>1, <1>4, <1>5
<1> HIDE DEF d
<1> QED
    BY <1>1, <1>3, <1>4, <1>5, <1>6, <1>7

\* The remainder topped up to the minimum.
ToppedSums(n, rest, price) ==
    [k \in 0 .. n + 1 |->
        IF k <= n THEN k * Full(price) - GivenBy(k, n, Full(price) - rules.min, Needed(rest))
        ELSE n * Full(price) + rest]

\* Full slices that give what the remainder lacks are legal, and so is the remainder.
LEMMA ToppedUp ==
    ASSUME RulesGiven, NEW price \in Nat \ {0}, NEW odd \in BOOLEAN, NEW n \in Nat,
           Full(price) >= rules.min, NEW rest \in Nat \ {0}, rest < rules.min,
           n * (Full(price) - rules.min) >= Needed(rest),
           odd \/ rest % rules.inc = 0
    PROVE  Cuts(LO!Topped(n, Full(price), rest), n + 1, ToppedSums(n, rest, price), price, odd)
<1> DEFINE top == Full(price)
           give == top - rules.min
           needed == Needed(rest)
           i == rules.inc
           m == n + 1
           moved == LO!Moved(n, top, needed)
           s == [k \in 1 .. m |-> IF k <= n THEN top - moved[k] ELSE rest + needed]
           F == [k \in 0 .. m |-> IF k <= n THEN k * top - GivenBy(k, n, give, needed)
                                  ELSE n * top + rest]
<1>1. /\ top \in Nat /\ top % i = 0 /\ top <= LO!Maximum(price) /\ i \in Nat \ {0}
      /\ rules.min \in Nat \ {0} /\ rules.min % i = 0
    BY FullIs, RulesAre
<1>2. give \in Nat /\ give % i = 0
  <2>1. top >= rules.min
      OBVIOUS
  <2> DEFINE least == rules.min
  <2> HIDE DEF top, i, least
  <2>2. top - least \in Nat /\ (top - least) % i = 0
      BY <1>1, <2>1, MultiplesAddUp DEF least
  <2> QED
      BY <2>2 DEF least
<1>3. give = LO!RoundDown(top - rules.min)
    BY <1>2, RoundDownIs
<1>4. /\ needed \in Nat \ {0} /\ needed % i = 0
      /\ rest + needed >= rules.min /\ rest + needed < rules.min + i
      /\ rest % i = 0 => rest + needed = rules.min
    BY NeededIs
<1>5. s = LO!Topped(n, top, rest)
    BY <1>3, <1>4 DEF LO!Topped, Needed
<1> HIDE DEF needed
<1>6. rest + needed <= top
  <2>1. give >= i
    <3> HIDE DEF give
    <3>1. give # 0
        BY <1>4 DEF give, needed
    <3>2. \A e \in Nat : e < i => e % i = e
        BY <1>1
    <3> QED
        BY <1>1, <1>2, <3>1, <3>2
  <2> QED
      BY <1>1, <1>4, <2>1
<1>7. \A k \in 1 .. n : /\ moved[k] \in Nat /\ moved[k] <= give
                        /\ moved[k] = GivenBy(k, n, give, needed) - GivenBy(k - 1, n, give, needed)
                        /\ moved[k] % i = 0
  <2> TAKE k \in 1 .. n
  <2>1. /\ moved[k] \in Nat /\ moved[k] <= give
        /\ moved[k] = GivenBy(k, n, give, needed) - GivenBy(k - 1, n, give, needed)
        /\ \/ moved[k] = 0
           \/ moved[k] = give
           \/ (moved[k] = GivenBy(k, n, give, needed) /\ moved[k] > 0)
    <3> DEFINE v == moved[k]
    <3>1. v = LO!Moved(n, top, needed)[k]
        OBVIOUS
    <3>2. give \in Nat /\ needed \in Nat \ {0} /\ give = LO!RoundDown(top - rules.min)
        BY <1>2, <1>3, <1>4
    <3> HIDE DEF v, give, top, moved
    <3>3. /\ v \in Nat /\ v <= give
          /\ v = GivenBy(k, n, give, needed) - GivenBy(k - 1, n, give, needed)
          /\ \/ v = 0
             \/ v = give
             \/ (v = GivenBy(k, n, give, needed) /\ v > 0)
        BY <3>1, <3>2, MovedIs
    <3> QED BY <3>3 DEF v
  <2>2. moved[k] % i = 0
    <3>1. CASE moved[k] = 0
        BY <1>1, <3>1
    <3>2. CASE moved[k] = give
        BY <1>2, <3>2
    <3>3. CASE moved[k] = GivenBy(k, n, give, needed) /\ moved[k] > 0
      <4> DEFINE w == (n - k) * give
      <4>1. n - k \in Nat
          OBVIOUS
      <4>2. w \in Nat /\ w % i = 0
        <5>1. give \in Nat /\ give % i = 0 /\ i \in Nat \ {0}
            BY <1>1, <1>2
        <5> DEFINE v == n - k
        <5> HIDE DEF give, v, i
        <5>2. v \in Nat
            BY <4>1 DEF v
        <5>3. v * give \in Nat
            BY <5>1, <5>2
        <5>4. (v * give) % i = 0
            BY <5>1, <5>2, MultipleOfMultiple, ZenonT(60)
        <5> QED BY <5>3, <5>4 DEF v
      <4> HIDE DEF w
      <4>3. moved[k] = needed - w /\ needed >= w
        <5>1. GivenBy(k, n, give, needed) = IF needed - w > 0 THEN needed - w ELSE 0
            BY DEF GivenBy, w
        <5> HIDE DEF moved, give
        <5> QED BY <3>3, <5>1, <4>2, <1>4
      <4>4. (needed - w) % i = 0
        <5> HIDE DEF top, i, needed, moved
        <5> QED BY <4>2, <4>3, <1>1, <1>4, MultiplesAddUp, ZenonT(60)
      <4> QED
          BY <4>3, <4>4
    <3> QED
        BY <2>1, <3>1, <3>2, <3>3
  <2> QED
      BY <2>1, <2>2
<1> HIDE DEF moved
<1>8. ASSUME NEW k \in 1 .. m
      PROVE  /\ s[k] \in Nat \ {0} /\ s[k] <= LO!Maximum(price)
             /\ LO!Valid(s[k], odd /\ k = m)
  <2>1. CASE k <= n
    <3>1. moved[k] \in Nat /\ moved[k] <= top - rules.min /\ moved[k] % i = 0
        BY <1>7, <2>1
    <3>2. s[k] = top - moved[k]
        BY <2>1
    <3> HIDE DEF s
    <3>3. s[k] \in Nat /\ s[k] <= top /\ s[k] >= rules.min
      <4> HIDE DEF top, give
      <4> QED BY <3>1, <3>2, <1>1
    <3>4. s[k] % i = 0
      <4> HIDE DEF top
      <4>1. top >= moved[k]
          BY <3>1, <1>1
      <4>2. (top - moved[k]) % i = 0
        <5> HIDE DEF i, needed
        <5> QED BY <3>1, <4>1, <1>1, MultiplesAddUp, ZenonT(60)
      <4> QED BY <3>2, <4>2
    <3> QED
        BY <3>3, <3>4, LegalSlice
  <2>2. CASE k = m
    <3>1. s[k] = rest + needed
        BY <2>2
    <3> HIDE DEF s
    <3>2. s[k] \in Nat /\ s[k] <= top /\ s[k] >= rules.min
        BY <3>1, <1>1, <1>4, <1>6
    <3>3. odd \/ s[k] % i = 0
        BY <3>1, <1>1, <1>4
    <3>4. s[k] \in Nat \ {0} /\ s[k] <= LO!Maximum(price) /\ LO!Valid(s[k], odd)
        BY <3>2, <3>3, <1>1, LegalSlice
    <3> QED
        BY <3>4, <2>2
  <2> QED
      BY <2>1, <2>2
<1>9. Len(s) = m /\ s \in [1 .. m -> Nat \ {0}] /\ m \in Nat
  <2>1. m \in Nat /\ s = [k \in 1 .. m |-> s[k]] /\ \A k \in 1 .. m : s[k] \in Nat \ {0}
      BY <1>8
  <2> HIDE DEF s
  <2> QED BY <2>1, LenOf
<1>10. F[0] = 0
  <2> DEFINE w == n * give
  <2>1. needed - (n - 0) * give <= 0
    <3>1. w >= needed /\ (n - 0) * give = w
        BY DEF needed
    <3>2. w \in Nat
      <4> HIDE DEF give
      <4> QED BY <1>2, ProductGrows
    <3> HIDE DEF w
    <3>3. needed - w <= 0
        BY <3>1, <3>2, <1>4
    <3> QED
        BY <3>1, <3>3
  <2>2. GivenBy(0, n, give, needed) = 0
    <3> HIDE DEF give
    <3>1. needed - (n - 0) * give \in Int
        BY <1>2, <1>4
    <3> QED BY <2>1, <3>1 DEF GivenBy
  <2> QED
      BY <2>2, <1>1
<1>11. ASSUME NEW k \in 1 .. m PROVE F[k] = F[k - 1] + s[k]
  <2>1. k - 1 \in 0 .. m /\ k \in 0 .. m /\ k - 1 <= n
      OBVIOUS
  <2>2. \A j \in 0 .. n : GivenBy(j, n, give, needed) \in Int
    <3> HIDE DEF give
    <3> QED BY <1>2, <1>4 DEF GivenBy
  <2>3. CASE k <= n
    <3>1. k * top = (k - 1) * top + top /\ (k - 1) * top \in Int
        BY <1>1
    <3>2. F[k] = k * top - GivenBy(k, n, give, needed)
          /\ F[k - 1] = (k - 1) * top - GivenBy(k - 1, n, give, needed)
          /\ s[k] = top - moved[k]
        BY <2>1, <2>3
    <3>3. moved[k] = GivenBy(k, n, give, needed) - GivenBy(k - 1, n, give, needed)
          /\ moved[k] \in Nat
        BY <1>7, <2>3
    <3>4. GivenBy(k, n, give, needed) \in Int /\ GivenBy(k - 1, n, give, needed) \in Int
        BY <2>1, <2>2, <2>3
    <3> DEFINE x == k * top
               y == (k - 1) * top
               gk == GivenBy(k, n, give, needed)
               gj == GivenBy(k - 1, n, give, needed)
    <3> HIDE DEF x, y, gk, gj, F, s, top
    <3> QED
        BY <3>1, <3>2, <3>3, <3>4, <1>1 DEF x, y, gk, gj
  <2>4. CASE k = m
    <3>1. ~(k <= n) /\ k - 1 = n
        BY <2>4
    <3>2. F[k] = n * top + rest /\ s[k] = rest + needed
        BY <2>1, <3>1
    <3>3. F[k - 1] = n * top - GivenBy(n, n, give, needed)
        BY <2>1, <3>1
    <3>4. GivenBy(n, n, give, needed) = needed
      <4> HIDE DEF give
      <4>1. (n - n) * give = 0
          BY <1>2
      <4> QED BY <4>1, <1>4 DEF GivenBy
    <3>5. n * top \in Nat
        BY <1>1, ProductGrows
    <3> DEFINE x == n * top
    <3> HIDE DEF x, F, s
    <3> QED
        BY <3>2, <3>3, <3>4, <3>5, <1>4 DEF x
  <2> QED
      BY <2>3, <2>4
<1>12. F = [k \in 0 .. m |-> F[k]]
    OBVIOUS
<1>13. F = ToppedSums(n, rest, price)
    BY DEF ToppedSums, needed
<1> HIDE DEF s, F, m
<1>14. Cuts(s, m, F, price, odd)
    BY <1>8, <1>9, <1>10, <1>11, <1>12 DEF Cuts
<1>15. m = n + 1 /\ top = Full(price)
    BY DEF m, top
<1> HIDE DEF top
<1> QED
    BY <1>5, <1>13, <1>14, <1>15

-----------------------------------------------------------------------------
(* Full slices *)

\* The splitter's sum of slices is the last of the partial sums.
LEMMA CutsSum ==
    ASSUME NEW s, NEW n, NEW F, NEW price, NEW odd, Cuts(s, n, F, price, odd)
    PROVE  LO!SumOf(s) = F[n]
<1>1. PartialSums(F, s, n)
    BY DEF Cuts, PartialSums
<1> QED
    BY <1>1, SumOfIs

\* A quantity that is a legal slice is cut into itself.
LEMMA Whole ==
    ASSUME NEW price, NEW odd \in BOOLEAN, NEW q \in Nat \ {0},
           q <= LO!Maximum(price), LO!Valid(q, odd)
    PROVE  Cuts(<<q>>, 1, [k \in 0 .. 1 |-> k * q], price, odd)
<1>1. Len(<<q>>) = 1 /\ <<q>> \in [1 .. 1 -> Nat \ {0}] /\ <<q>>[1] = q
    OBVIOUS
<1>2. \A k \in 1 .. 1 : k = 1 /\ k - 1 = 0
    OBVIOUS
<1> DEFINE F == [k \in 0 .. 1 |-> k * q]
           s == <<q>>
<1>3. F[0] = 0 /\ F[1] = q /\ F = [k \in 0 .. 1 |-> F[k]]
    OBVIOUS
<1> HIDE DEF F, s
<1>4. Len(s) = 1 /\ s \in [1 .. 1 -> Nat \ {0}] /\ s[1] = q
    BY <1>1 DEF s
<1>5. \A k \in 1 .. 1 : s[k] <= LO!Maximum(price) /\ LO!Valid(s[k], odd /\ k = 1)
    BY <1>2, <1>4
<1>6. \A k \in 1 .. 1 : F[k] = F[k - 1] + s[k]
    BY <1>2, <1>3, <1>4
<1>7. Cuts(s, 1, F, price, odd)
    BY <1>3, <1>4, <1>5, <1>6 DEF Cuts
<1> QED
    BY <1>7 DEF F, s

\* The sums that MostTradable takes the greatest of.
Tradable(quantity, price, odd) ==
    {t \in 0 .. quantity :
       \/ LO!Reachable(t, Full(price))
       \/ odd /\ t = quantity
            /\ \E r \in 1 .. LO!Maximum(price) : r <= t /\ LO!Reachable(t - r, Full(price))}

\* The reference definition is the greatest of the tradable quantities.
LEMMA GreatestIs ==
    ASSUME NEW quantity \in Nat, NEW price, NEW odd,
           NEW m \in Tradable(quantity, price, odd),
           \A t \in Tradable(quantity, price, odd) : t <= m
    PROVE  LO!MostTradable(quantity, price, odd) = m
<1> DEFINE T == Tradable(quantity, price, odd)
<1>1. LO!MostTradable(quantity, price, odd) = LO!Max(T)
    BY DEF LO!MostTradable, Tradable, Full
<1>2. T \subseteq Nat
    BY DEF Tradable
<1> HIDE DEF T
<1>3. m \in T /\ \A t \in T : t <= m
    BY DEF T
<1>4. \A x \in T : (\A y \in T : x >= y) => x = m
    BY <1>2, <1>3
<1>5. \A y \in T : m >= y
    BY <1>2, <1>3
<1>6. LO!Max(T) = m
    BY <1>3, <1>4, <1>5 DEF LO!Max
<1> QED
    BY <1>1, <1>6

LEMMA ReachableWith ==
    ASSUME RulesGiven, NEW t \in Nat, NEW n \in Nat, NEW top \in Nat, n <= OrderShares,
           Legal(t, rules.min, rules.inc, top, n)
    PROVE  LO!Reachable(t, top)
<1>1. n \in 0 .. OrderShares
    BY OrderingAssumption
<1> QED
    BY <1>1 DEF LO!Reachable, Legal

LEMMA ReachableBy ==
    ASSUME NEW t \in Nat, NEW top \in Nat, LO!Reachable(t, top)
    PROVE  \E n \in Nat : Legal(t, rules.min, rules.inc, top, n)
<1>1. 0 .. OrderShares \subseteq Nat
    OBVIOUS
<1> QED
    BY <1>1 DEF LO!Reachable, Legal

\* Nothing is what can be traded when no order may be of any size.
LEMMA NothingTradable ==
    ASSUME RulesGiven, NEW price \in Nat \ {0}, NEW odd \in BOOLEAN,
           NEW quantity \in Nat \ {0}, ~(quantity <= LO!Maximum(price) /\ LO!Valid(quantity, odd)),
           \/ Full(price) < rules.min
           \/ ~odd /\ LO!RoundDown(quantity) < rules.min
    PROVE  LO!MostTradable(quantity, price, odd) = 0
<1> DEFINE top == Full(price)
<1>1. /\ top \in Nat /\ rules.min \in Nat \ {0} /\ rules.inc \in Nat \ {0} /\ rules.max \in Nat
      /\ LO!Maximum(price) \in Nat /\ LO!Maximum(price) <= rules.max
    BY FullIs, RulesAre, MaximumIs
<1> HIDE DEF top
<1>2. ASSUME NEW t \in 0 .. quantity, LO!Reachable(t, top), top < rules.min \/ ~odd PROVE t = 0
  <2>1. t \in Nat /\ t <= quantity
      OBVIOUS
  <2>2. PICK k \in Nat : Legal(t, rules.min, rules.inc, top, k)
      BY <1>1, <1>2, <2>1, ReachableBy
  <2>3. top < rules.min \/ t < rules.min
    <3>1. CASE top < rules.min
        BY <3>1
    <3>2. CASE ~odd /\ LO!RoundDown(quantity) < rules.min
      <4>1. t % rules.inc = 0
          BY <2>2 DEF Legal
      <4>2. t <= LO!RoundDown(quantity) /\ LO!RoundDown(quantity) \in Nat
          BY <2>1, <4>1, RoundDownIs
      <4> QED
          BY <2>1, <3>2, <4>2, <1>1
    <3> QED
        BY <3>1, <3>2 DEF top
  <2> QED
      BY <1>1, <2>1, <2>2, <2>3, LegalNone
<1>3. ASSUME NEW t \in Tradable(quantity, price, odd) PROVE t = 0
  <2>1. CASE LO!Reachable(t, top) /\ (top < rules.min \/ ~odd)
      BY <2>1, <1>2 DEF Tradable
  <2>2. CASE odd /\ t = quantity
             /\ \E r \in 1 .. LO!Maximum(price) : r <= t /\ LO!Reachable(t - r, top)
    <3>1. PICK r \in 1 .. LO!Maximum(price) : r <= t /\ LO!Reachable(t - r, top)
        BY <2>2
    <3>2. t - r \in 0 .. quantity /\ t \in Nat
        BY <2>2, <3>1, <1>1
    <3>3. top < rules.min
        BY <2>2 DEF top
    <3>4. t - r = 0
        BY <3>1, <3>2, <3>3, <1>2
    <3>5. quantity <= LO!Maximum(price)
        BY <2>2, <3>1, <3>2, <3>4, <1>1
    <3>6. LO!Valid(quantity, odd)
        BY <2>2, <3>5, <1>1 DEF LO!Valid
    <3> QED
        BY <3>5, <3>6
  <2> QED
      BY <2>1, <2>2 DEF Tradable, top
<1>4. 0 \in Tradable(quantity, price, odd)
  <2>1. Legal(0, rules.min, rules.inc, top, 0)
    <3>1. 0 % rules.inc = 0 /\ 0 * rules.min <= 0 /\ 0 <= 0 * top
        BY <1>1
    <3> QED BY <3>1 DEF Legal
  <2>2. LO!Reachable(0, top)
      BY <2>1, <1>1, OrderingAssumption, ReachableWith
  <2> QED
      BY <2>2 DEF Tradable, top
<1> QED
    BY <1>3, <1>4, GreatestIs

\* Everything can be traded when legal orders add up to it.
LEMMA EverythingTradable ==
    ASSUME NEW quantity \in Nat, NEW price, NEW odd,
           quantity \in Tradable(quantity, price, odd)
    PROVE  LO!MostTradable(quantity, price, odd) = quantity
<1>1. \A t \in Tradable(quantity, price, odd) : t <= quantity
    BY DEF Tradable
<1> QED
    BY <1>1, GreatestIs

-----------------------------------------------------------------------------
(* What is divided, and the remainder *)

\* What the splitter divides among full slices.
Divided(quantity, odd) == IF odd THEN quantity ELSE LO!RoundDown(quantity)

LEMMA DividedIs ==
    ASSUME RulesGiven, NEW price \in Nat \ {0}, NEW odd \in BOOLEAN,
           NEW quantity \in Nat, Full(price) >= rules.min,
           NEW n \in Nat, NEW rest \in Nat, Divided(quantity, odd) = n * Full(price) + rest
    PROVE  /\ Divided(quantity, odd) \in 0 .. quantity
           /\ odd => Divided(quantity, odd) = quantity
           /\ ~odd => /\ Divided(quantity, odd) % rules.inc = 0 /\ rest % rules.inc = 0
                      /\ \A t \in Tradable(quantity, price, odd) :
                            t \in Nat /\ t <= Divided(quantity, odd)
                            /\ LO!Reachable(t, Full(price))
           /\ n * Full(price) \in Nat /\ (n * Full(price)) % rules.inc = 0
<1> DEFINE q == Divided(quantity, odd)
           top == Full(price)
           w == n * top
<1>1. top \in Nat /\ top % rules.inc = 0 /\ rules.inc \in Nat \ {0}
    BY FullIs, RulesAre
<1>2. w \in Nat /\ w % rules.inc = 0
  <2> HIDE DEF top
  <2>1. (n * top) % rules.inc = 0
      BY <1>1, MultipleOfMultiple
  <2>2. n * top \in Nat
      BY <1>1, ProductGrows
  <2> QED BY <2>1, <2>2
<1>3. q \in 0 .. quantity /\ (odd => q = quantity)
    BY RoundDownIs DEF Divided
<1>4. ASSUME ~odd PROVE q % rules.inc = 0
    BY <1>4, RoundDownIs DEF Divided
<1>5. ASSUME ~odd PROVE rest % rules.inc = 0
  <2>1. q = w + rest /\ q \in Nat
      BY <1>3
  <2> HIDE DEF q, w
  <2>2. rest = q - w /\ q >= w
      BY <2>1, <1>2
  <2> QED
      BY <1>1, <1>2, <1>4, <1>5, <2>1, <2>2, MultiplesAddUp
<1>6. ASSUME ~odd, NEW t \in Tradable(quantity, price, odd)
      PROVE  t \in Nat /\ t <= q /\ LO!Reachable(t, top)
  <2>1. t \in Nat /\ t <= quantity /\ LO!Reachable(t, top)
      BY <1>6 DEF Tradable
  <2>2. t % rules.inc = 0
      BY <2>1 DEF LO!Reachable
  <2> QED
      BY <1>6, <2>1, <2>2, RoundDownIs DEF Divided
<1> HIDE DEF q, top, w
<1>7. /\ q \in 0 .. quantity /\ (odd => q = quantity)
      /\ ~odd => /\ q % rules.inc = 0 /\ rest % rules.inc = 0
                 /\ \A t \in Tradable(quantity, price, odd) :
                       t \in Nat /\ t <= q /\ LO!Reachable(t, top)
    BY <1>3, <1>4, <1>5, <1>6
<1> QED
    BY <1>2, <1>7 DEF q, top, w

\* All that is divided can be traded, when its remainder can be.
LEMMA DividedTradable ==
    ASSUME RulesGiven, NEW price \in Nat \ {0}, NEW odd \in BOOLEAN,
           NEW quantity \in Nat \ {0}, quantity <= OrderShares, Full(price) >= rules.min,
           NEW n \in Nat, NEW rest \in Nat, rest < Full(price),
           Divided(quantity, odd) = n * Full(price) + rest,
           odd \/ rest = 0 \/ rules.min - rest <= n * (Full(price) - rules.min)
    PROVE  LO!MostTradable(quantity, price, odd) = Divided(quantity, odd)
<1> DEFINE q == Divided(quantity, odd)
           top == Full(price)
           w == n * top
<1>1. /\ q \in Nat /\ q <= quantity /\ (odd => q = quantity)
      /\ ~odd => rest % rules.inc = 0 /\ \A t \in Tradable(quantity, price, odd) : t <= q
      /\ w \in Nat
    BY DividedIs
<1>2. /\ top \in Nat /\ top % rules.inc = 0 /\ rules.inc \in Nat \ {0}
      /\ rules.min \in Nat \ {0} /\ top >= rules.min /\ OrderShares \in Nat
      /\ LO!Maximum(price) \in Nat /\ top <= LO!Maximum(price)
    BY FullIs, RulesAre, MaximumIs, OrderingAssumption
<1>3. LO!Reachable(w, top)
  <2>1. q = w + rest
      OBVIOUS
  <2> HIDE DEF q
  <2>2. n <= w /\ Legal(w, rules.min, rules.inc, top, n)
    <3> HIDE DEF top
    <3> QED BY <1>2, LegalTops
  <2> HIDE DEF w
  <2>3. n <= OrderShares
      BY <2>1, <2>2, <1>1, <1>2
  <2> QED
      BY <1>1, <1>2, <2>2, <2>3, ReachableWith
<1>4. CASE odd
  <2>1. q = quantity /\ q = w + rest
      BY <1>1, <1>4
  <2> HIDE DEF w, q, top
  <2>2. CASE rest = 0
    <3>1. w = quantity
        BY <1>1, <2>1, <2>2
    <3>2. quantity \in Tradable(quantity, price, odd)
        BY <3>1, <1>3 DEF Tradable, top
    <3> QED
        BY <3>2, <2>1, EverythingTradable DEF q
  <2>3. CASE rest > 0
    <3>1. quantity - rest = w /\ rest <= quantity /\ rest < top
        BY <1>1, <2>1 DEF top
    <3>2. rest \in 1 .. LO!Maximum(price)
        BY <3>1, <1>2, <2>3
    <3>3. quantity \in 0 .. quantity
        OBVIOUS
    <3>4. quantity \in Tradable(quantity, price, odd)
        BY <3>1, <3>2, <3>3, <1>3, <1>4 DEF Tradable, top
    <3> QED
        BY <3>4, <2>1, EverythingTradable DEF q
  <2> QED
      BY <2>2, <2>3
<1>5. CASE ~odd
  <2>1. LO!Reachable(q, top)
    <3>1. CASE rest = 0
      <4>1. q = w + rest
          OBVIOUS
      <4> HIDE DEF w, q, top
      <4>2. q = w
          BY <4>1, <3>1, <1>1
      <4> QED
          BY <4>2, <1>3
    <3>2. CASE rules.min - rest <= n * (top - rules.min)
      <4>1. n + 1 <= q /\ Legal(q, rules.min, rules.inc, top, n + 1)
        <5>1. rest % rules.inc = 0 /\ rest <= top /\ q = n * top + rest
            BY <1>1, <1>2, <1>5
        <5> HIDE DEF top, q
        <5> QED BY <1>2, <3>2, <5>1, LegalRest
      <4> HIDE DEF top, q
      <4>2. n + 1 <= OrderShares /\ n + 1 \in Nat
          BY <4>1, <1>1, <1>2
      <4> QED
          BY <1>1, <1>2, <4>1, <4>2, ReachableWith
    <3> QED
        BY <3>1, <3>2, <1>5
  <2>2. q \in Tradable(quantity, price, odd)
    <3> HIDE DEF q, top
    <3> QED BY <1>1, <2>1 DEF Tradable, top
  <2> HIDE DEF q
  <2>3. LO!MostTradable(quantity, price, odd) = q
      BY <1>1, <1>5, <2>2, GreatestIs
  <2> QED
      BY <2>3 DEF q
<1> QED
    BY <1>4, <1>5

\* Only the full slices can be traded, when they cannot spare what the remainder needs.
LEMMA FullsTradable ==
    ASSUME RulesGiven, NEW price \in Nat \ {0}, NEW odd \in BOOLEAN, ~odd,
           NEW quantity \in Nat \ {0}, quantity <= OrderShares, Full(price) >= rules.min,
           NEW n \in Nat, NEW rest \in Nat,
           Divided(quantity, odd) = n * Full(price) + rest,
           n * (Full(price) - rules.min) < rules.min - rest
    PROVE  LO!MostTradable(quantity, price, odd) = n * Full(price)
<1> DEFINE q == Divided(quantity, odd)
           top == Full(price)
           w == n * top
<1>1. /\ q \in Nat /\ q <= quantity
      /\ \A t \in Tradable(quantity, price, odd) :
            t \in Nat /\ t <= q /\ LO!Reachable(t, top)
      /\ w \in Nat
    BY DividedIs
<1>2. /\ top \in Nat /\ top % rules.inc = 0 /\ rules.inc \in Nat \ {0}
      /\ rules.min \in Nat \ {0} /\ top >= rules.min /\ OrderShares \in Nat
    BY FullIs, RulesAre, OrderingAssumption
<1>3. q = w + rest
    OBVIOUS
<1>4. n <= w /\ Legal(w, rules.min, rules.inc, top, n)
  <2> HIDE DEF top
  <2> QED BY <1>2, LegalTops
<1>5. LO!Reachable(w, top)
  <2> HIDE DEF q, w, top
  <2>1. n <= OrderShares
      BY <1>1, <1>2, <1>3, <1>4
  <2> QED
      BY <1>1, <1>2, <1>4, <2>1, ReachableWith
<1>6. w \in Tradable(quantity, price, odd)
  <2> HIDE DEF q, w, top
  <2>1. w \in 0 .. quantity
      BY <1>1, <1>3
  <2> QED
      BY <2>1, <1>5 DEF Tradable, top
<1>7. ASSUME NEW t \in Tradable(quantity, price, odd) PROVE t <= w
  <2>1. t \in Nat /\ t <= q /\ LO!Reachable(t, top)
      BY <1>1
  <2> SUFFICES ASSUME w < t PROVE FALSE
      BY <1>1, <2>1
  <2>2. PICK k \in Nat : Legal(t, rules.min, rules.inc, top, k)
    <3> HIDE DEF top
    <3> QED BY <1>2, <2>1, ReachableBy
  <2>3. (n + 1) * rules.min <= t
    <3> HIDE DEF top
    <3> QED BY <1>2, <2>1, <2>2, LegalGap DEF w
  <2> DEFINE x == n * rules.min
  <2>4. (n + 1) * rules.min = x + rules.min /\ n * (top - rules.min) = w - x
    <3> HIDE DEF top
    <3> QED BY <1>2 DEF w
  <2>5. x \in Nat
      BY <1>2, ProductGrows
  <2>6. n * (top - rules.min) < rules.min - rest
      OBVIOUS
  <2>7. w - x < rules.min - rest /\ x + rules.min <= t
      BY <2>3, <2>4, <2>6
  <2> HIDE DEF x, w, q
  <2> QED
      BY <2>1, <2>5, <2>7, <1>1, <1>2, <1>3
<1> HIDE DEF w
<1>8. LO!MostTradable(quantity, price, odd) = w
    BY <1>6, <1>7, GreatestIs
<1> QED
    BY <1>8 DEF w

-----------------------------------------------------------------------------
(* The splitter against every way to cut *)

\* Legal slices that add up to the most that can be traded.
Best(s, quantity, price, odd) ==
    \E n, F : /\ Cuts(s, n, F, price, odd)
              /\ F[n] = LO!MostTradable(quantity, price, odd)
              /\ F[n] \in 0 .. quantity

\* The slices and the remainder, of a quantity that is divided.
Topped(q, price) ==
    LO!Topped(q \div Full(price), Full(price), q % Full(price))

\* NotionalOrderSplitter.split by cases: one slice, none, full ones, full ones and a remainder.
LEMMA SplitCases ==
    ASSUME NEW quantity, NEW price, NEW odd
    PROVE  LO!Split(quantity, price, odd) =
             LET q   == Divided(quantity, odd)
                 cut == Topped(q, price)
             IN  IF quantity <= LO!Maximum(price) /\ LO!Valid(quantity, odd) THEN <<quantity>>
                 ELSE IF Full(price) < rules.min \/ q < rules.min THEN <<>>
                 ELSE IF q % Full(price) = 0 THEN [k \in 1 .. q \div Full(price) |-> Full(price)]
                 ELSE IF LO!Valid(cut[Len(cut)], odd) THEN cut ELSE SubSeq(cut, 1, Len(cut) - 1)
BY DEF LO!Split, LO!Last, LO!Front, Divided, Topped, Full

LEMMA FrontOf ==
    ASSUME NEW n \in Nat, NEW top, NEW rest
    PROVE  LET s == [k \in 1 .. n + 1 |-> IF k <= n THEN top ELSE rest]
           IN  Len(s) = n + 1 /\ s[n + 1] = rest /\ SubSeq(s, 1, n) = [k \in 1 .. n |-> top]
<1> DEFINE s == [k \in 1 .. n + 1 |-> IF k <= n THEN top ELSE rest]
           t == [k \in 1 .. n |-> top]
<1>1. Len(s) = n + 1 /\ s[n + 1] = rest
    OBVIOUS
<1>2. SubSeq(s, 1, n) = [k \in 1 .. n |-> s[k]]
    OBVIOUS
<1>3. \A k \in 1 .. n : s[k] = top
    OBVIOUS
<1> HIDE DEF s
<1>4. SubSeq(s, 1, n) = t
    BY <1>2, <1>3
<1> QED
    BY <1>1, <1>4 DEF s

\* Nothing more than all of it can be traded.
LEMMA WholeIsBest ==
    ASSUME RulesGiven, NEW price \in Nat \ {0}, NEW odd \in BOOLEAN,
           NEW quantity \in Nat \ {0}, quantity <= OrderShares,
           quantity <= LO!Maximum(price), LO!Valid(quantity, odd)
    PROVE  Best(<<quantity>>, quantity, price, odd)
<1> DEFINE F == [k \in 0 .. 1 |-> k * quantity]
<1>1. Cuts(<<quantity>>, 1, F, price, odd)
    BY Whole
<1>2. F[1] = quantity
    OBVIOUS
<1>3. /\ Full(price) \in Nat /\ rules.inc \in Nat \ {0} /\ rules.min \in Nat \ {0}
      /\ OrderShares \in Nat /\ LO!Maximum(price) \in Nat
    BY FullIs, RulesAre, MaximumIs, OrderingAssumption
<1>4. quantity \in Tradable(quantity, price, odd)
  <2>1. quantity \in 0 .. quantity
      OBVIOUS
  <2>2. CASE odd
    <3>1. quantity \in 1 .. LO!Maximum(price) /\ quantity <= quantity /\ quantity - quantity = 0
        BY <1>3
    <3>2. Legal(0, rules.min, rules.inc, Full(price), 0)
      <4>1. 0 % rules.inc = 0 /\ 0 * rules.min <= 0 /\ 0 <= 0 * Full(price)
          BY <1>3
      <4> QED BY <4>1 DEF Legal
    <3>3. LO!Reachable(0, Full(price))
        BY <1>3, <3>2, ReachableWith
    <3> QED
        BY <2>1, <2>2, <3>1, <3>3 DEF Tradable
  <2>3. CASE ~odd
    <3>1. quantity >= rules.min /\ quantity % rules.inc = 0
        BY <2>3 DEF LO!Valid
    <3>2. quantity <= Full(price)
        BY <3>1, FullIs
    <3>3. Legal(quantity, rules.min, rules.inc, Full(price), 1)
        BY <1>3, <3>1, <3>2 DEF Legal
    <3>4. 1 <= OrderShares
        BY <1>3
    <3>5. LO!Reachable(quantity, Full(price))
        BY <1>3, <3>3, <3>4, ReachableWith
    <3> QED
        BY <2>1, <3>5 DEF Tradable
  <2> QED
      BY <2>2, <2>3
<1>5. LO!MostTradable(quantity, price, odd) = quantity
    BY <1>4, EverythingTradable
<1> HIDE DEF F
<1>6. F[1] \in 0 .. quantity
    BY <1>2
<1> QED
    BY <1>1, <1>2, <1>5, <1>6 DEF Best

\* Where no slice is returned, no legal order could trade anything.
LEMMA NothingIsBest ==
    ASSUME RulesGiven, NEW price \in Nat \ {0}, NEW odd \in BOOLEAN,
           NEW quantity \in Nat \ {0}, ~(quantity <= LO!Maximum(price) /\ LO!Valid(quantity, odd)),
           Full(price) < rules.min \/ Divided(quantity, odd) < rules.min
    PROVE  Best(<<>>, quantity, price, odd)
<1>1. Full(price) < rules.min \/ (~odd /\ LO!RoundDown(quantity) < rules.min)
  <2>1. CASE odd /\ Full(price) >= rules.min
    <3>1. quantity < rules.min
        BY <2>1, FullIs, RulesAre DEF Divided
    <3>2. quantity <= LO!Maximum(price) /\ quantity <= rules.max
        BY <2>1, <3>1, FullIs, RulesAre, MaximumIs
    <3> QED
        BY <2>1, <3>2 DEF LO!Valid
  <2> QED
      BY <2>1, FullIs, RulesAre DEF Divided
<1>2. LO!MostTradable(quantity, price, odd) = 0
    BY <1>1, NothingTradable
<1> DEFINE F == [k \in 0 .. 0 |-> 0]
<1>3. Cuts(<<>>, 0, F, price, odd)
    BY Nothing
<1>4. F[0] = 0
    OBVIOUS
<1> HIDE DEF F
<1>5. F[0] \in 0 .. quantity
    BY <1>4
<1> QED
    BY <1>2, <1>3, <1>4, <1>5 DEF Best

\* Where the quantity is divided, what is left over could not be traded by any legal orders.
LEMMA DividedIsBest ==
    ASSUME RulesGiven, NEW price \in Nat \ {0}, NEW odd \in BOOLEAN,
           NEW quantity \in Nat \ {0}, quantity <= OrderShares,
           ~(quantity <= LO!Maximum(price) /\ LO!Valid(quantity, odd)),
           Full(price) >= rules.min, Divided(quantity, odd) >= rules.min
    PROVE  Best(LO!Split(quantity, price, odd), quantity, price, odd)
<1> DEFINE top  == Full(price)
           q    == Divided(quantity, odd)
           n    == q \div top
           rest == q % top
           cut  == Topped(q, price)
           s    == LO!Split(quantity, price, odd)
           give == top - rules.min
<1>1. /\ top \in Nat \ {0} /\ top % rules.inc = 0 /\ rules.inc \in Nat \ {0}
      /\ rules.min \in Nat \ {0} /\ top >= rules.min /\ top <= rules.max /\ rules.max \in Nat
      /\ top <= LO!Maximum(price) /\ LO!Maximum(price) \in Nat
    BY FullIs, RulesAre, MaximumIs
<1>2. q \in Nat
    BY RoundDownIs DEF Divided
<1>3. n \in Nat /\ rest \in Nat /\ rest < top /\ q = n * top + rest
  <2> HIDE DEF q, top
  <2> QED BY <1>1, <1>2, Quotient
<1>4. s = IF rest = 0 THEN [k \in 1 .. n |-> top]
          ELSE IF LO!Valid(cut[Len(cut)], odd) THEN cut ELSE SubSeq(cut, 1, Len(cut) - 1)
  <2>1. ~(quantity <= LO!Maximum(price) /\ LO!Valid(quantity, odd))
        /\ ~(Full(price) < rules.min \/ q < rules.min)
      BY <1>1, <1>2
  <2> HIDE DEF q
  <2>2. s = IF q % Full(price) = 0 THEN [k \in 1 .. q \div Full(price) |-> Full(price)]
            ELSE IF LO!Valid(cut[Len(cut)], odd) THEN cut ELSE SubSeq(cut, 1, Len(cut) - 1)
      BY <2>1, SplitCases DEF q
  <2> QED
      BY <2>2
<1>5. cut = LO!Topped(n, top, rest)
    BY DEF Topped
<1>6. /\ q \in 0 .. quantity
      /\ ~odd => rest % rules.inc = 0
      /\ n * top \in Nat
  <2>1. Full(price) >= rules.min /\ Divided(quantity, odd) = n * Full(price) + rest
      BY <1>3
  <2> HIDE DEF n, rest
  <2> QED BY <1>3, <2>1, DividedIs
<1>7. give \in Nat /\ give % rules.inc = 0 /\ give = LO!RoundDown(top - rules.min)
  <2>1. give \in Nat
      BY <1>1
  <2>2. give % rules.inc = 0
      BY <1>1, RulesAre, MultiplesAddUp
  <2> QED
      BY <2>1, <2>2, RoundDownIs
\* The cases, with what the slices add up to.
<1> HIDE DEF n, rest, cut, s, top, q
<1> SUFFICES Best(s, quantity, price, odd)
    BY DEF s
<1>8. ASSUME odd \/ rest = 0 \/ rules.min - rest <= n * give
      PROVE  LO!MostTradable(quantity, price, odd) = q
  <2>1. rest < Full(price) /\ Divided(quantity, odd) = n * Full(price) + rest
        /\ (odd \/ rest = 0 \/ rules.min - rest <= n * (Full(price) - rules.min))
      BY <1>3, <1>8 DEF top, q
  <2> QED
      BY <1>3, <2>1, DividedTradable DEF q
<1>9. CASE rest = 0
  <2> DEFINE F == [k \in 0 .. n |-> k * top]
  <2>1. Cuts(s, n, F, price, odd)
    <3>1. Cuts([k \in 1 .. n |-> Full(price)], n, [k \in 0 .. n |-> k * Full(price)], price, odd)
        BY <1>3, Tops
    <3> QED
        BY <1>4, <1>9, <3>1 DEF top
  <2>2. F[n] = q
      BY <1>1, <1>3, <1>6, <1>9
  <2> HIDE DEF F
  <2> QED
      BY <2>1, <2>2, <1>6, <1>8, <1>9 DEF Best
<1>10. CASE rest > 0 /\ rest < rules.min /\ n * give >= Needed(rest)
  <2> DEFINE m == n + 1
             F == ToppedSums(n, rest, price)
  <2>1. rest \in Nat \ {0}
      BY <1>3, <1>10
  <2>2. odd \/ rest % rules.inc = 0
      BY <1>6
  <2>3. Cuts(cut, m, F, price, odd)
    <3>1. n * (Full(price) - rules.min) >= Needed(rest)
        BY <1>10 DEF top
    <3>2. Cuts(LO!Topped(n, Full(price), rest), n + 1, ToppedSums(n, rest, price), price, odd)
        BY <1>3, <1>10, <2>1, <2>2, <3>1, ToppedUp
    <3> QED
        BY <1>5, <3>2 DEF top
  <2>4. F[m] = q /\ m \in Nat \ {0}
    <3>1. n + 1 \in 0 .. n + 1 /\ ~(n + 1 <= n) /\ n + 1 \in Nat \ {0}
        BY <1>3
    <3> QED
        BY <1>3, <3>1 DEF ToppedSums, top
  <2> HIDE DEF F, m
  <2>5. s = cut
    <3>1. Len(cut) = m /\ \A k \in 1 .. m : LO!Valid(cut[k], odd /\ k = m)
        BY <2>3 DEF Cuts
    <3>2. m \in 1 .. m
        BY <2>4
    <3>3. LO!Valid(cut[m], odd)
        BY <3>1, <3>2
    <3> QED
        BY <1>4, <1>10, <3>1, <3>3
  <2>6. LO!MostTradable(quantity, price, odd) = q
    <3>1. Needed(rest) >= rules.min - rest /\ Needed(rest) \in Nat
        BY <1>1, <1>10, <2>1, NeededIs
    <3>2. n * give \in Nat
      <4> HIDE DEF give
      <4> QED BY <1>3, <1>7, ProductGrows
    <3>3. rules.min - rest <= n * give
      <4> DEFINE w == n * give
      <4>1. w \in Nat /\ w >= Needed(rest)
          BY <1>10, <3>2
      <4> HIDE DEF w
      <4>2. rules.min - rest <= w
          BY <1>1, <2>1, <3>1, <4>1
      <4> QED
          BY <4>2 DEF w
    <3> QED
        BY <3>3, <1>8
  <2> QED
      BY <2>3, <2>4, <2>5, <2>6, <1>6 DEF Best
<1>11. CASE rest > 0 /\ ~(rest < rules.min /\ n * give >= Needed(rest))
  <2> DEFINE m == n + 1
             c == [k \in 1 .. m |-> IF k <= n THEN top ELSE rest]
             F == [k \in 0 .. m |-> IF k <= n THEN k * top ELSE n * top + rest]
             G == [k \in 0 .. n |-> k * top]
  <2>1. cut = c
    <3>1. ~(rest < rules.min /\ n * LO!RoundDown(top - rules.min) >= Needed(rest))
        BY <1>7, <1>11
    <3> QED
        BY <1>5, <3>1 DEF LO!Topped, Needed
  <2>2. m \in Nat /\ m - 1 = n
      BY <1>3
  <2>3. Len(cut) = m /\ cut[m] = rest /\ SubSeq(cut, 1, Len(cut) - 1) = [k \in 1 .. n |-> top]
      BY <1>3, <2>1, <2>2, FrontOf
  <2>4. rest \in Nat \ {0} /\ rest <= top
      BY <1>1, <1>3, <1>11
  <2>5. LO!Valid(rest, odd) <=> (rest >= rules.min \/ odd)
    <3>1. rest > 0 /\ rest <= rules.max
        BY <2>4, <1>1
    <3>2. odd \/ rest % rules.inc = 0
        BY <1>6
    <3> QED
        BY <3>1, <3>2 DEF LO!Valid
  <2>6. CASE rest >= rules.min \/ odd
    <3>1. s = cut
        BY <1>4, <1>11, <2>3, <2>5, <2>6
    <3>2. Cuts(cut, m, F, price, odd)
      <4>1. rest <= Full(price) /\ ((rest >= rules.min /\ rest % rules.inc = 0) \/ odd)
          BY <2>4, <2>6, <1>6 DEF top
      <4>2. Cuts([k \in 1 .. n + 1 |-> IF k <= n THEN Full(price) ELSE rest], n + 1,
                 [k \in 0 .. n + 1 |-> IF k <= n THEN k * Full(price)
                                       ELSE n * Full(price) + rest],
                 price, odd)
          BY <1>3, <2>4, <4>1, TopsAndRest
      <4> QED
          BY <2>1, <4>2 DEF top
    <3>3. F[m] = q
      <4>1. m \in 0 .. m /\ ~(m <= n)
          BY <1>3
      <4> QED
          BY <4>1, <1>3
    <3>4. LO!MostTradable(quantity, price, odd) = q
      <4>1. n * give \in Nat
        <5> HIDE DEF give
        <5> QED BY <1>3, <1>7, ProductGrows
      <4>2. odd \/ rules.min - rest <= 0
          BY <2>4, <2>6, <1>1
      <4>3. odd \/ rules.min - rest <= n * give
        <5> DEFINE w == n * give
        <5>1. w \in Nat
            BY <4>1
        <5> HIDE DEF w
        <5>2. odd \/ rules.min - rest <= w
            BY <4>2, <5>1, <1>1, <1>3
        <5> QED
            BY <5>2 DEF w
      <4> QED
          BY <4>3, <1>8
    <3> HIDE DEF F, m
    <3> QED
        BY <3>1, <3>2, <3>3, <3>4, <1>6 DEF Best
  <2>7. CASE ~(rest >= rules.min \/ odd)
    <3>1. s = [k \in 1 .. n |-> top]
        BY <1>4, <1>11, <2>3, <2>5, <2>7
    <3>2. Cuts(s, n, G, price, odd)
      <4>1. Cuts([k \in 1 .. n |-> Full(price)], n, [k \in 0 .. n |-> k * Full(price)], price, odd)
          BY <1>3, Tops
      <4> QED
          BY <3>1, <4>1 DEF top
    <3>3. G[n] = n * top
        BY <1>3
    <3>4. n * give < rules.min - rest
      <4>1. Needed(rest) = rules.min - rest /\ Needed(rest) \in Nat
        <5>1. rest < rules.min /\ rest % rules.inc = 0
            BY <2>4, <2>7, <1>1, <1>6
        <5>2. rest + Needed(rest) = rules.min /\ Needed(rest) \in Nat
            BY <2>4, <5>1, NeededIs
        <5> QED
            BY <5>2, <2>4, <1>1
      <4>2. n * give \in Nat
        <5> HIDE DEF give
        <5> QED BY <1>3, <1>7, ProductGrows
      <4> DEFINE w == n * give
      <4>3. w \in Nat /\ ~(w >= Needed(rest))
          BY <4>2, <1>11, <2>7, <2>4, <1>1
      <4> HIDE DEF w
      <4>4. w < rules.min - rest
          BY <4>1, <4>3
      <4> QED
          BY <4>4 DEF w
    <3>5. LO!MostTradable(quantity, price, odd) = n * top
      <4>1. Divided(quantity, odd) = n * Full(price) + rest
            /\ n * (Full(price) - rules.min) < rules.min - rest
          BY <3>4, <1>3 DEF top, q
      <4> QED
          BY <1>3, <2>7, <4>1, FullsTradable DEF top
    <3>6. n * top \in 0 .. quantity
      <4> DEFINE w == n * top
      <4>1. w \in Nat /\ q = w + rest
          BY <1>3, <1>6
      <4> HIDE DEF w
      <4>2. w \in 0 .. quantity
          BY <4>1, <1>3, <1>6
      <4> QED
          BY <4>2 DEF w
    <3> HIDE DEF G
    <3> QED
        BY <3>2, <3>3, <3>5, <3>6 DEF Best
  <2> QED
      BY <2>6, <2>7
<1>12. rest = 0 \/ rest > 0
    BY <1>3
<1> HIDE DEF give
<1> QED
    BY <1>9, <1>10, <1>11, <1>12, Zenon

\* The splitter's slices are legal and add up to the most that can be traded.
LEMMA SplitBest ==
    ASSUME RulesGiven, NEW price \in Nat \ {0}, NEW odd \in BOOLEAN,
           NEW quantity \in Nat \ {0}, quantity <= OrderShares
    PROVE  Best(LO!Split(quantity, price, odd), quantity, price, odd)
<1>1. CASE quantity <= LO!Maximum(price) /\ LO!Valid(quantity, odd)
  <2>1. LO!Split(quantity, price, odd) = <<quantity>>
      BY <1>1, SplitCases
  <2> QED
      BY <1>1, <2>1, WholeIsBest
<1>2. CASE ~(quantity <= LO!Maximum(price) /\ LO!Valid(quantity, odd))
           /\ (Full(price) < rules.min \/ Divided(quantity, odd) < rules.min)
  <2>1. LO!Split(quantity, price, odd) = <<>>
      BY <1>2, SplitCases
  <2> QED
      BY <1>2, <2>1, NothingIsBest
<1>3. CASE ~(quantity <= LO!Maximum(price) /\ LO!Valid(quantity, odd))
           /\ ~(Full(price) < rules.min \/ Divided(quantity, odd) < rules.min)
  <2>1. Full(price) >= rules.min /\ Divided(quantity, odd) >= rules.min
      BY <1>3, FullIs, RulesAre, RoundDownIs DEF Divided
  <2> QED
      BY <1>3, <2>1, DividedIsBest
<1> QED
    BY <1>1, <1>2, <1>3

-----------------------------------------------------------------------------
(* The price *)

PricingGiven == side \in {"BUY", "SELL"} /\ ladder \in Ladders /\ cancels \in Nat

\* The walk through the book ends on one of its levels.
LEMMA LevelIs ==
    ASSUME PricingGiven, ladder # <<>>, NEW quantity
    PROVE  LO!Walked(quantity) \in Int
<1> DEFINE covers(k) == LO!SumOf([j \in 1 .. k |-> ladder[j][2]]) >= quantity
           L == {k \in 1 .. Len(ladder) : covers(k)} \cup {Len(ladder)}
<1>1. ladder \in Seq(Int \X Nat)
    BY OrderingAssumption DEF PricingGiven
<1>2. Len(ladder) \in Nat \ {0}
    BY <1>1, PricingGiven
<1> HIDE DEF covers
<1>3. L \subseteq 1 .. Len(ladder) /\ L # {}
    BY <1>2
<1> HIDE DEF L
<1>4. L \subseteq Nat
    BY <1>2, <1>3
<1>5. \E n \in L : \A m \in L : n <= m
    BY <1>3, <1>4, LeastNat
<1>6. LO!Min(L) \in L
    BY <1>5 DEF LO!Min
<1>7. ladder[LO!Min(L)][1] \in Int
  <2> DEFINE l == LO!Min(L)
  <2>1. l \in 1 .. Len(ladder)
      BY <1>3, <1>6
  <2> HIDE DEF l
  <2>2. ladder[l] \in Int \X Nat
      BY <1>1, <2>1
  <2>3. \A p \in Int \X Nat : p[1] \in Int
      OBVIOUS
  <2> QED
      BY <2>2, <2>3 DEF l
<1>8. LO!Walked(quantity) = Open + ladder[LO!Min(L)][1]
    BY DEF LO!Walked, L, covers
<1> QED
    BY <1>7, <1>8, OrderingAssumption

LEMMA BaseOffsetIs ==
    ASSUME NEW offset \in Int
    PROVE  LO!BaseOffset(offset) \in Int /\ LO!BaseOffset(offset) >= 1
BY LargerOf DEF LO!BaseOffset

\* A limit price is a price: the cap is above the open, and the day's lower limit above 0.
LEMMA PriceIsPositive ==
    ASSUME PricingGiven, NEW quantity, NEW mult \in Nat
    PROVE  LO!LimitPrice(quantity, mult) \in Nat \ {0}
<1> DEFINE offset == Offset * (IF cancels < Threshold THEN mult ELSE 1)
           base   == Open + LO!Sign * LO!BaseOffset(offset)
           steps  == cancels - Threshold + 1
           walked == LO!Walked(quantity) + LO!Sign * steps
           price  == IF cancels < Threshold \/ ladder = <<>> THEN base
                     ELSE LO!MoreAggressive(base, walked)
           capped == IF side = "BUY" THEN LO!Min({price, LO!MaxBuyPrice}) ELSE price
<1>1. /\ Open \in Nat /\ Offset \in Nat /\ CapOffset \in Nat /\ Band \in Nat /\ Band < Open
      /\ Threshold \in Int /\ cancels \in Nat
    BY OrderingAssumption DEF PricingGiven
<1>2. LO!Sign = IF side = "BUY" THEN 1 ELSE -1
    BY DEF LO!Sign
<1>3. offset \in Int
    BY <1>1
<1>4. LO!BaseOffset(offset) \in Int /\ LO!BaseOffset(offset) >= 1
  <2> HIDE DEF offset
  <2> QED BY <1>3, BaseOffsetIs
<1>5. base \in Int /\ (side = "BUY" => base > 0)
  <2> DEFINE b == LO!BaseOffset(offset)
  <2>1. b \in Int /\ b >= 1
      BY <1>4
  <2>2. base = Open + LO!Sign * b
      OBVIOUS
  <2> HIDE DEF b, base, offset
  <2>3. CASE side = "BUY"
    <3>1. LO!Sign * b = b
        BY <1>2, <2>1, <2>3
    <3> QED BY <1>1, <2>1, <2>2, <3>1
  <2>4. CASE side # "BUY"
    <3>1. LO!Sign * b = -b
        BY <1>2, <2>1, <2>4
    <3> QED BY <1>1, <2>1, <2>2, <2>4, <3>1
  <2> QED BY <2>3, <2>4
<1>6. LO!MaxBuyPrice \in Int /\ LO!MaxBuyPrice > 0
    BY <1>1, BaseOffsetIs DEF LO!MaxBuyPrice
<1>7. ladder # <<>> => walked \in Int
  <2>1. steps \in Int
      BY <1>1
  <2> HIDE DEF steps
  <2>2. LO!Sign * steps \in Int
      BY <1>2, <2>1
  <2> QED
      BY <2>2, LevelIs
<1> HIDE DEF base, walked, offset
<1>8. price \in Int /\ (side = "BUY" => price > 0)
    BY <1>5, <1>7, LargerOf, SmallerOf DEF LO!MoreAggressive
<1> HIDE DEF price
<1>9. capped \in Int /\ (side = "BUY" => capped > 0)
    BY <1>6, <1>8, SmallerOf
<1>10. capped = LO!Asked(quantity, mult)
    BY DEF LO!Asked, capped, price, walked, base, offset
<1> HIDE DEF capped
<1>11. CASE side = "BUY"
  <2>1. LO!LimitPrice(quantity, mult) = LO!Min({capped, Open + Band})
    <3>1. LO!Sign * Band = Band
        BY <1>1, <1>2, <1>11
    <3> QED
        BY <1>10, <1>11, <3>1 DEF LO!LimitPrice, LO!LessAggressive
  <2> QED
      BY <1>1, <1>9, <1>11, <2>1, SmallerOf
<1>12. CASE side # "BUY"
  <2>1. LO!LimitPrice(quantity, mult) = LO!Max({capped, Open - Band})
    <3>1. Open + LO!Sign * Band = Open - Band
        BY <1>1, <1>2, <1>12
    <3> QED
        BY <1>10, <1>12, <3>1 DEF LO!LimitPrice, LO!LessAggressive
  <2> QED
      BY <1>1, <1>9, <2>1, LargerOf
<1> QED
    BY <1>11, <1>12

-----------------------------------------------------------------------------
(* The orders *)

Orders == [no : Nat, left : Nat \ {0}, filled : Nat, price : Nat \ {0}, late : BOOLEAN]

Left == [o \in Orders |-> o.left]

\* The shares on their way.
OnTheWay(s) == SumFunctionOnSet(Left, s)

Late(s) == {o \in s : o.late}

\* A finite set of orders that their numbers tell apart.
Numbered(s) ==
    /\ IsFiniteSet(s) /\ s \subseteq Orders
    /\ \A o, p \in s : o.no = p.no => o = p

LEMMA OrderLeft ==
    ASSUME NEW s, s \subseteq Orders
    PROVE  \A o \in s : Left[o] = o.left /\ Left[o] \in Nat \ {0}
BY DEF Left, Orders

\* Every order on its way has a share, at least.
LEMMA OnTheWayIs ==
    ASSUME NEW s, Numbered(s)
    PROVE  OnTheWay(s) \in Nat /\ Cardinality(s) \in Nat /\ Cardinality(s) <= OnTheWay(s)
<1>1. IsFiniteSet(s) /\ \A o \in s : Left[o] \in Nat \ {0}
    BY OrderLeft DEF Numbered
<1>2. \A o \in s : Left[o] \in Nat
    BY <1>1
<1>3. OnTheWay(s) \in Nat
    BY <1>1, <1>2, SumNat DEF OnTheWay
<1>4. Cardinality(s) <= OnTheWay(s)
    BY <1>1, SumCount DEF OnTheWay
<1> QED
    BY <1>1, <1>3, <1>4, FS_CardinalityType

\* An order that goes takes its shares with it.
LEMMA OneLess ==
    ASSUME NEW s, Numbered(s), NEW o \in s
    PROVE  /\ Numbered(s \ {o})
           /\ OnTheWay(s) = o.left + OnTheWay(s \ {o})
           /\ o.left \in Nat \ {0} /\ OnTheWay(s \ {o}) \in Nat
<1>1. IsFiniteSet(s) /\ \A p \in s : Left[p] = p.left /\ Left[p] \in Nat \ {0}
    BY OrderLeft DEF Numbered
<1>2. \A p \in s : Left[p] \in Int
    BY <1>1
<1>3. OnTheWay(s) = Left[o] + OnTheWay(s \ {o})
    BY <1>1, <1>2, SumRemove DEF OnTheWay
<1>4. Numbered(s \ {o})
  <2>1. IsFiniteSet(s \ {o})
      BY <1>1, FS_RemoveElement
  <2> QED
      BY <2>1 DEF Numbered
<1> QED
    BY <1>1, <1>3, <1>4, OnTheWayIs

\* An order that comes adds its shares.
LEMMA OneMore ==
    ASSUME NEW s, Numbered(s), NEW o \in Orders, \A p \in s : p.no # o.no
    PROVE  Numbered(s \cup {o}) /\ OnTheWay(s \cup {o}) = o.left + OnTheWay(s)
<1>1. IsFiniteSet(s) /\ o \notin s
    BY DEF Numbered
<1>2. \A p \in s \cup {o} : Left[p] = p.left /\ Left[p] \in Nat \ {0}
    BY OrderLeft DEF Numbered
<1>3. \A p \in s \cup {o} : Left[p] \in Int
    BY <1>2
<1>4. OnTheWay(s \cup {o}) = Left[o] + OnTheWay(s)
    BY <1>1, <1>3, SumAdd DEF OnTheWay
<1>5. Numbered(s \cup {o})
  <2>1. IsFiniteSet(s \cup {o})
      BY <1>1, FS_AddElement
  <2> QED
      BY <2>1 DEF Numbered
<1> QED
    BY <1>2, <1>4, <1>5

\* One order changes and keeps its number.
LEMMA OneChanged ==
    ASSUME NEW s, Numbered(s), NEW o \in s, NEW p \in Orders, p.no = o.no
    PROVE  /\ Numbered((s \ {o}) \cup {p})
           /\ OnTheWay((s \ {o}) \cup {p}) = p.left - o.left + OnTheWay(s)
<1>1. /\ Numbered(s \ {o})
      /\ OnTheWay(s) = o.left + OnTheWay(s \ {o})
      /\ o.left \in Nat \ {0} /\ OnTheWay(s \ {o}) \in Nat
    BY OneLess
<1>2. \A x \in s \ {o} : x.no # p.no
    BY DEF Numbered
<1>3. Numbered((s \ {o}) \cup {p}) /\ OnTheWay((s \ {o}) \cup {p}) = p.left + OnTheWay(s \ {o})
    BY <1>1, <1>2, OneMore
<1>4. p.left \in Nat
    BY DEF Orders
<1> QED
    BY <1>1, <1>3, <1>4

\* The orders late: fewer when one is gone or no longer late, never more than all.
LEMMA LateIs ==
    ASSUME NEW s, Numbered(s)
    PROVE  /\ IsFiniteSet(Late(s)) /\ Cardinality(Late(s)) \in Nat
           /\ Cardinality(Late(s)) <= Cardinality(s)
           /\ \A t : Late(t) \subseteq Late(s) =>
                  Cardinality(Late(t)) \in Nat /\ Cardinality(Late(t)) <= Cardinality(Late(s))
<1>1. IsFiniteSet(s) /\ Late(s) \in SUBSET s
    BY DEF Numbered, Late
<1>2. IsFiniteSet(Late(s)) /\ Cardinality(Late(s)) <= Cardinality(s)
    BY <1>1, FS_Subset
<1>3. ASSUME NEW t, Late(t) \subseteq Late(s)
      PROVE  Cardinality(Late(t)) \in Nat /\ Cardinality(Late(t)) <= Cardinality(Late(s))
  <2>1. IsFiniteSet(Late(t)) /\ Cardinality(Late(t)) <= Cardinality(Late(s))
      BY <1>2, <1>3, FS_Subset
  <2> QED
      BY <2>1, FS_CardinalityType
<1> QED
    BY <1>2, <1>3, FS_CardinalityType

\* The sum that the type invariant takes is this one.
LEMMA SumOfLeft ==
    ASSUME NEW s, Numbered(s)
    PROVE  LO!MapThenSumSet(LAMBDA o : o.left, s) = OnTheWay(s)
<1> DEFINE Is(h) == h = [t \in SUBSET s |->
                            IF t = {} THEN 0
                            ELSE LET x == CHOOSE x \in t : TRUE
                                 IN  x.left + h[t \ {x}]]
<1>1. IsFiniteSet(s)
    BY DEF Numbered
<1>2. \A h : Is(h) <=> IsSum(h, Left, s)
  <2> SUFFICES ASSUME NEW h, NEW t \in SUBSET s
               PROVE  (IF t = {} THEN 0
                       ELSE LET x == CHOOSE x \in t : TRUE
                            IN  x.left + h[t \ {x}]) = Folded(Left, h, t)
      BY DEF IsSum
  <2>1. CASE t = {}
      BY <2>1 DEF Folded
  <2>2. CASE t # {}
    <3> DEFINE x == CHOOSE x \in t : TRUE
    <3>1. x \in t
        BY <2>2
    <3>2. Left[x] = x.left
        BY <3>1, OrderLeft DEF Numbered
    <3> HIDE DEF x
    <3> QED BY <2>2, <3>2 DEF Folded, x
  <2> QED
      BY <2>1, <2>2
<1>3. (CHOOSE h : Is(h))[s] = OnTheWay(s)
  <2> HIDE DEF Is
  <2>1. \E h : IsSum(h, Left, s)
      BY <1>1, SumExists
  <2> DEFINE g == CHOOSE h : Is(h)
  <2>2. IsSum(g, Left, s)
      BY <1>2, <2>1
  <2> HIDE DEF g
  <2>3. g[s] = OnTheWay(s)
      BY <2>2, <1>1, SumOfIteration DEF OnTheWay
  <2> QED
      BY <2>3 DEF g
<1> QED
    BY <1>3 DEF LO!MapThenSumSet, LO!MapThenFoldSet

-----------------------------------------------------------------------------
(* What is so of the orders all the time *)

OrderingTypes ==
    /\ side \in {"BUY", "SELL"} /\ rules \in OrderRules /\ ladder \in Ladders
    /\ target \in 0 .. OrderShares /\ position \in 0 .. OrderShares /\ cancels \in Nat

\* No more is on its way than what is wanted.
WithinWanted == OnTheWay(orders) <= LO!Wanted

\* A cancel has been counted on, one for each order that is late.
CancelsCounted == cancels + Cardinality(Late(orders)) <= Cancels + OrderShares

OrderingInv == OrderingTypes /\ Numbered(orders) /\ WithinWanted /\ CancelsCounted

LEMMA WantedIs ==
    ASSUME OrderingTypes
    PROVE  /\ LO!Wanted \in Int /\ LO!Wanted <= OrderShares
           /\ side = "BUY" => LO!Wanted = target - position
           /\ side = "SELL" => LO!Wanted = position - target
<1>1. target \in Int /\ position \in Int /\ OrderShares \in Nat
      /\ target \in 0 .. OrderShares /\ position \in 0 .. OrderShares
      /\ side \in {"BUY", "SELL"}
    BY OrderingAssumption DEF OrderingTypes
<1>2. CASE side = "BUY"
  <2>1. LO!Wanted = target - position
      BY <1>1, <1>2 DEF LO!Wanted, LO!Sign
  <2> QED
      BY <1>1, <1>2, <2>1
<1>3. CASE side = "SELL"
  <2>1. LO!Wanted = position - target
      BY <1>1, <1>3 DEF LO!Wanted, LO!Sign
  <2> QED
      BY <1>1, <1>3, <2>1
<1> QED
    BY <1>1, <1>2, <1>3

LEMMA OrderingTyped ==
    ASSUME OrderingInv
    PROVE  LO!TypeOK
<1>1. Numbered(orders)
    BY DEF OrderingInv
<1>2. position \in 0 .. OrderShares
    BY DEF OrderingInv, OrderingTypes
<1>3. \A o \in orders : o.left > 0 /\ o.filled >= 0 /\ o.price > 0
    BY <1>1 DEF Numbered, Orders
<1>4. cancels \in 0 .. Cancels + OrderShares
    BY <1>1, LateIs, OrderingAssumption DEF OrderingInv, OrderingTypes, CancelsCounted
<1>5. LO!MapThenSumSet(LAMBDA o : o.left, orders) <= LO!Wanted
    BY <1>1, SumOfLeft DEF OrderingInv, WithinWanted
<1> QED
    BY <1>2, <1>3, <1>4, <1>5 DEF LO!TypeOK

-----------------------------------------------------------------------------
(* The steps *)

LEMMA OrderingStarts ==
    ASSUME LO!Init
    PROVE  OrderingInv
<1>1. OrderShares \in Nat /\ Cancels \in Nat
    BY OrderingAssumption
<1>2. OrderingTypes
    BY <1>1 DEF LO!Init, OrderingTypes
<1>3. orders = {} /\ cancels = 0
    BY DEF LO!Init
<1>4. Numbered({})
    BY FS_EmptySet DEF Numbered
<1>5. OnTheWay({}) = 0
    BY SumEmpty DEF OnTheWay
<1>6. Cardinality(Late({})) = 0
  <2>1. Late({}) = {}
      BY DEF Late
  <2> QED
      BY <2>1, FS_EmptySet
<1>7. LO!Wanted >= 0
  <2>1. target \in Int /\ position \in Int
      BY <1>2 DEF OrderingTypes
  <2>2. CASE side = "BUY"
    <3>1. LO!Wanted = target - position /\ target > position
        BY <1>2, <2>2, WantedIs DEF LO!Init
    <3> QED
        BY <2>1, <3>1
  <2>3. CASE side = "SELL"
    <3>1. LO!Wanted = position - target /\ target < position
        BY <1>2, <2>3, WantedIs DEF LO!Init
    <3> QED
        BY <2>1, <3>1
  <2> QED
      BY <1>2, <2>2, <2>3 DEF OrderingTypes
<1>8. WithinWanted
    BY <1>3, <1>5, <1>7 DEF WithinWanted
<1>9. CancelsCounted
    BY <1>1, <1>3, <1>6 DEF CancelsCounted
<1> QED
    BY <1>2, <1>3, <1>4, <1>8, <1>9 DEF OrderingInv

\* The order that a slice makes.
Fresh(s, k, price) == [no |-> k, left |-> s[k], filled |-> 0, price |-> price, late |-> FALSE]

\* The orders sent add up to the slices.
LEMMA SentOrders ==
    ASSUME NEW s, NEW n, NEW F, NEW at, NEW odd, Cuts(s, n, F, at, odd), NEW price \in Nat \ {0}
    PROVE  LET fresh == {Fresh(s, k, price) : k \in 1 .. n}
           IN  Numbered(fresh) /\ OnTheWay(fresh) = F[n] /\ Late(fresh) = {}
<1> DEFINE Upto(k) == {Fresh(s, j, price) : j \in 1 .. k}
           N == {k \in Nat : k <= n => Numbered(Upto(k)) /\ OnTheWay(Upto(k)) = F[k]}
<1>1. /\ n \in Nat /\ s \in [1 .. n -> Nat \ {0}]
      /\ F[0] = 0 /\ \A k \in 1 .. n : F[k] = F[k - 1] + s[k]
    BY DEF Cuts
<1>2. \A k \in 1 .. n : /\ Fresh(s, k, price) \in Orders
                        /\ Fresh(s, k, price).no = k /\ Fresh(s, k, price).left = s[k]
                        /\ Fresh(s, k, price).late = FALSE
    BY <1>1 DEF Fresh, Orders
<1>3. 0 \in N
  <2>1. Upto(0) = {}
      OBVIOUS
  <2>2. Numbered({}) /\ OnTheWay({}) = 0
      BY FS_EmptySet, SumEmpty DEF Numbered, OnTheWay
  <2> HIDE DEF Upto
  <2> QED
      BY <2>1, <2>2, <1>1
<1>4. ASSUME NEW k \in Nat, k \in N PROVE k + 1 \in N
  <2> SUFFICES ASSUME k + 1 <= n
               PROVE  Numbered(Upto(k + 1)) /\ OnTheWay(Upto(k + 1)) = F[k + 1]
      OBVIOUS
  <2> DEFINE o == Fresh(s, k + 1, price)
  <2>1. Numbered(Upto(k)) /\ OnTheWay(Upto(k)) = F[k]
      BY <1>4, <1>1
  <2>2. k + 1 \in 1 .. n /\ (k + 1) - 1 = k /\ 1 .. k \subseteq 1 .. n
      BY <1>1
  <2>3. 1 .. k + 1 = (1 .. k) \cup {k + 1}
      OBVIOUS
  <2>4. Upto(k + 1) = Upto(k) \cup {o}
      BY <2>3
  <2>5. o \in Orders /\ o.no = k + 1 /\ o.left = s[k + 1]
      BY <1>2, <2>2
  <2>6. \A p \in Upto(k) : p.no # o.no
    <3> TAKE p \in Upto(k)
    <3>1. PICK j \in 1 .. k : p = Fresh(s, j, price)
        OBVIOUS
    <3>2. p.no = j /\ j # k + 1
        BY <3>1, <2>2, <1>2
    <3> QED
        BY <3>2, <2>5
  <2> HIDE DEF Upto, o
  <2>7. Numbered(Upto(k) \cup {o}) /\ OnTheWay(Upto(k) \cup {o}) = o.left + OnTheWay(Upto(k))
      BY <2>1, <2>5, <2>6, OneMore
  <2>8. F[k + 1] = F[k] + s[k + 1]
    <3> DEFINE j == k + 1
    <3>1. j \in 1 .. n /\ j - 1 = k
        BY <2>2
    <3> HIDE DEF j
    <3>2. F[j] = F[k] + s[j]
        BY <1>1, <3>1
    <3> QED
        BY <3>2 DEF j
  <2>9. OnTheWay(Upto(k)) \in Nat /\ s[k + 1] \in Nat
      BY <2>1, <2>2, <1>1, OnTheWayIs
  <2>10. Numbered(Upto(k + 1)) /\ OnTheWay(Upto(k + 1)) = s[k + 1] + F[k]
      BY <2>1, <2>4, <2>5, <2>7
  <2> DEFINE x == s[k + 1]
             y == F[k]
             z == F[k + 1]
  <2>11. x \in Nat /\ y \in Nat /\ z = y + x
      BY <2>1, <2>8, <2>9
  <2> HIDE DEF x, y, z
  <2>12. x + y = z
      BY <2>11
  <2> QED
      BY <2>10, <2>12 DEF x, y, z
<1>5. n \in N
  <2> HIDE DEF N
  <2> QED BY <1>1, <1>3, <1>4, NatInductive
<1>6. Numbered(Upto(n)) /\ OnTheWay(Upto(n)) = F[n]
    BY <1>1, <1>5
<1>7. Late(Upto(n)) = {}
    BY <1>2 DEF Late
<1> QED
    BY <1>6, <1>7

\* Slices are sent only while nothing is on its way, and are no more than what is wanted.
LEMMA SendKeeps ==
    ASSUME OrderingInv, NEW mult \in 1 .. 2, LO!Send(mult)
    PROVE  OrderingInv'
<1> DEFINE wanted == LO!Wanted
           price  == LO!LimitPrice(wanted, mult)
           odd    == side = "SELL" /\ rules.odd /\ wanted = position
           slices == LO!Split(wanted, price, odd)
<1>1. OrderingTypes /\ Cancels \in Nat /\ OrderShares \in Nat
    BY OrderingAssumption DEF OrderingInv
<1>2. wanted \in Nat \ {0} /\ wanted <= OrderShares
    BY <1>1, WantedIs DEF LO!Send
<1>3. price \in Nat \ {0}
  <2>1. PricingGiven /\ mult \in Nat
      BY <1>1 DEF OrderingTypes, PricingGiven
  <2> QED
      BY <2>1, PriceIsPositive
<1>4. odd \in BOOLEAN /\ RulesGiven
  <2>1. RulesGiven
      BY <1>1 DEF OrderingTypes, RulesGiven
  <2> QED
      BY <2>1, RulesAre
<1>5. orders' = {Fresh(slices, k, price) : k \in DOMAIN slices}
    BY DEF LO!Send, Fresh
<1>6. UNCHANGED <<side, rules, ladder, target, position, cancels>>
    BY DEF LO!Send, LO!instrument
<1> HIDE DEF odd, price, slices
<1>7. Best(slices, wanted, price, odd)
  <2> HIDE DEF wanted
  <2>1. Best(LO!Split(wanted, price, odd), wanted, price, odd)
      BY <1>2, <1>3, <1>4, SplitBest
  <2> QED
      BY <2>1 DEF slices, wanted
<1> HIDE DEF wanted
<1>8. PICK n, F : Cuts(slices, n, F, price, odd) /\ F[n] \in 0 .. wanted
    BY <1>7 DEF Best
<1>9. DOMAIN slices = 1 .. n
    BY <1>8 DEF Cuts
<1>10. Numbered(orders') /\ OnTheWay(orders') = F[n] /\ Late(orders') = {}
  <2> DEFINE fresh == {Fresh(slices, k, price) : k \in 1 .. n}
  <2>1. Numbered(fresh) /\ OnTheWay(fresh) = F[n] /\ Late(fresh) = {}
      BY <1>3, <1>8, SentOrders
  <2>2. orders' = fresh
      BY <1>5, <1>9
  <2> HIDE DEF fresh
  <2> QED
      BY <2>1, <2>2
<1>11. OrderingTypes'
    BY <1>1, <1>6 DEF OrderingTypes
<1>12. Numbered(orders)'
    BY <1>10 DEF Numbered
<1>13. WithinWanted'
  <2>1. OnTheWay(orders)' = OnTheWay(orders')
      BY DEF OnTheWay
  <2>2. LO!Wanted' = wanted
      BY <1>6 DEF wanted, LO!Wanted, LO!Sign
  <2>3. F[n] <= wanted
      BY <1>2, <1>8
  <2> QED
      BY <1>10, <2>1, <2>2, <2>3 DEF WithinWanted
<1>14. CancelsCounted'
  <2>1. cancels + Cardinality(Late(orders)) <= Cancels + OrderShares
      BY DEF OrderingInv, CancelsCounted
  <2>2. Cardinality(Late(orders)) \in Nat /\ cancels \in Nat
      BY <1>1, LateIs DEF OrderingInv, OrderingTypes
  <2>3. Cardinality(Late(orders')) = 0
      BY <1>10, FS_EmptySet
  <2> QED
      BY <2>1, <2>2, <2>3, <1>1, <1>6 DEF CancelsCounted, Late
<1> QED
    BY <1>11, <1>12, <1>13, <1>14 DEF OrderingInv

\* The steps that leave the orders alone.
LEMMA QuietKeeps ==
    ASSUME OrderingInv,
           UNCHANGED <<side, rules, ladder, target, position, orders, cancels>>
    PROVE  OrderingInv'
BY DEF OrderingInv, OrderingTypes, Numbered, WithinWanted, CancelsCounted, OnTheWay, Late,
    LO!Wanted, LO!Sign

LEMMA AgeKeeps ==
    ASSUME OrderingInv, NEW o \in orders, LO!Age(o)
    PROVE  OrderingInv'
<1> DEFINE p == [o EXCEPT !.late = TRUE]
           s == (orders \ {o}) \cup {p}
<1>1. /\ OrderingTypes /\ Numbered(orders) /\ OnTheWay(orders) <= LO!Wanted
      /\ Cancels \in Nat /\ OrderShares \in Nat
    BY OrderingAssumption DEF OrderingInv, WithinWanted
<1>2. /\ orders' = s /\ cancels < Cancels /\ cancels' = cancels
      /\ UNCHANGED <<side, rules, ladder, target, position>>
    BY DEF LO!Age, LO!instrument
<1>3. o \in Orders
    BY <1>1 DEF Numbered
<1>4. p \in Orders /\ p.no = o.no /\ p.left = o.left
    BY <1>3 DEF Orders
<1> HIDE DEF p
<1>5. Numbered(s) /\ OnTheWay(s) = p.left - o.left + OnTheWay(orders)
    BY <1>1, <1>4, OneChanged
<1>6. OnTheWay(s) = OnTheWay(orders)
  <2>1. o.left \in Nat /\ OnTheWay(orders) \in Nat
      BY <1>1, <1>3, OnTheWayIs DEF Orders
  <2> QED
      BY <1>4, <1>5, <2>1
<1> HIDE DEF s
<1>7. OrderingTypes' /\ LO!Wanted' = LO!Wanted
    BY <1>1, <1>2 DEF OrderingTypes, LO!Wanted, LO!Sign
<1>8. WithinWanted'
  <2>1. OnTheWay(orders)' = OnTheWay(s)
      BY <1>2 DEF OnTheWay
  <2> QED
      BY <1>1, <1>6, <1>7, <2>1 DEF WithinWanted
<1>9. CancelsCounted'
  <2>1. Cardinality(Late(s)) \in Nat /\ Cardinality(Late(s)) <= Cardinality(s)
      BY <1>5, LateIs
  <2>2. Cardinality(s) \in Nat /\ Cardinality(s) <= OnTheWay(s) /\ OnTheWay(s) \in Nat
      BY <1>5, OnTheWayIs
  <2>3. LO!Wanted \in Int /\ LO!Wanted <= OrderShares
      BY <1>1, WantedIs
  <2>4. Late(orders)' = Late(s)
      BY <1>2 DEF Late
  <2>5. cancels \in Nat
      BY <1>1 DEF OrderingTypes
  <2>6. cancels + Cardinality(Late(s)) <= Cancels + OrderShares
      BY <2>1, <2>2, <2>3, <2>5, <1>1, <1>2, <1>6
  <2> QED
      BY <1>2, <2>4, <2>6 DEF CancelsCounted
<1>10. Numbered(orders)'
    BY <1>2, <1>5 DEF Numbered
<1> QED
    BY <1>7, <1>8, <1>9, <1>10 DEF OrderingInv

\* A cancel takes a late order out, and counts it.
LEMMA TimeoutKeeps ==
    ASSUME OrderingInv, NEW o \in orders, LO!Timeout(o)
    PROVE  OrderingInv'
<1> DEFINE s == orders \ {o}
<1>1. /\ OrderingTypes /\ Numbered(orders) /\ OnTheWay(orders) <= LO!Wanted
      /\ cancels + Cardinality(Late(orders)) <= Cancels + OrderShares
      /\ Cancels \in Nat /\ OrderShares \in Nat
    BY OrderingAssumption DEF OrderingInv, WithinWanted, CancelsCounted
<1>2. /\ orders' = s /\ o.late /\ cancels' = cancels + 1
      /\ UNCHANGED <<side, rules, ladder, target, position>>
    BY DEF LO!Timeout, LO!Counted, LO!instrument
<1>3. Numbered(s) /\ OnTheWay(s) <= OnTheWay(orders)
  <2>1. /\ Numbered(s) /\ OnTheWay(orders) = o.left + OnTheWay(s)
        /\ o.left \in Nat \ {0} /\ OnTheWay(s) \in Nat
      BY <1>1, OneLess
  <2> HIDE DEF s
  <2> QED
      BY <2>1
<1>4. Cardinality(Late(orders)) = Cardinality(Late(s)) + 1
  <2>1. o \in Late(orders) /\ Late(s) = Late(orders) \ {o}
      BY <1>2 DEF Late
  <2>2. IsFiniteSet(Late(orders)) /\ Cardinality(Late(orders)) \in Nat
      BY <1>1, LateIs
  <2>3. Cardinality(Late(orders) \ {o}) = Cardinality(Late(orders)) - 1
      BY <2>1, <2>2, FS_RemoveElement
  <2> DEFINE c == Cardinality(Late(orders))
  <2>4. Cardinality(Late(s)) = c - 1 /\ c \in Nat
      BY <2>1, <2>2, <2>3
  <2> HIDE DEF c, s
  <2>5. c = Cardinality(Late(s)) + 1
      BY <2>4
  <2> QED
      BY <2>5 DEF c
<1>5. OnTheWay(s) \in Nat /\ OnTheWay(orders) \in Nat /\ LO!Wanted \in Int
      /\ Cardinality(Late(s)) \in Nat
    BY <1>1, <1>3, OnTheWayIs, WantedIs, LateIs
<1> HIDE DEF s
<1>6. OrderingTypes' /\ LO!Wanted' = LO!Wanted
    BY <1>1, <1>2 DEF OrderingTypes, LO!Wanted, LO!Sign
<1>7. WithinWanted'
  <2>1. OnTheWay(orders)' = OnTheWay(s)
      BY <1>2 DEF OnTheWay
  <2> QED
      BY <1>1, <1>3, <1>5, <1>6, <2>1 DEF WithinWanted
<1>8. CancelsCounted'
  <2>1. Late(orders)' = Late(s)
      BY <1>2 DEF Late
  <2>2. cancels \in Nat
      BY <1>1 DEF OrderingTypes
  <2>3. (cancels + 1) + Cardinality(Late(s)) <= Cancels + OrderShares
      BY <1>1, <1>4, <1>5, <2>2
  <2> QED
      BY <1>2, <2>1, <2>3 DEF CancelsCounted
<1>9. Numbered(orders)'
    BY <1>2, <1>3 DEF Numbered
<1> QED
    BY <1>6, <1>7, <1>8, <1>9 DEF OrderingInv

\* A fill takes from what is on its way what it takes from what is wanted.
LEMMA OrderFillKeeps ==
    ASSUME OrderingInv, NEW o \in orders, NEW q \in 1 .. OrderShares, LO!Fill(o, q)
    PROVE  OrderingInv'
<1> DEFINE p == [o EXCEPT !.left = @ - q, !.filled = @ + q, !.late = FALSE]
           s == (orders \ {o}) \cup (IF q = o.left THEN {} ELSE {p})
           all == OnTheWay(orders)
<1>1. /\ OrderingTypes /\ Numbered(orders) /\ all <= LO!Wanted
      /\ cancels + Cardinality(Late(orders)) <= Cancels + OrderShares
      /\ Cancels \in Nat /\ OrderShares \in Nat
    BY OrderingAssumption DEF OrderingInv, WithinWanted, CancelsCounted
<1>2. /\ orders' = s /\ q <= o.left /\ position' = position + LO!Sign * q
      /\ UNCHANGED <<side, rules, ladder, target, cancels>>
    BY DEF LO!Fill, LO!instrument
<1>3. o \in Orders /\ q \in Nat /\ q > 0
    BY <1>1 DEF Numbered
<1>4. /\ Numbered(orders \ {o}) /\ all = o.left + OnTheWay(orders \ {o})
      /\ o.left \in Nat \ {0} /\ OnTheWay(orders \ {o}) \in Nat
    BY <1>1, OneLess
<1>5. Numbered(s) /\ OnTheWay(s) = all - q
  <2>1. CASE q = o.left
    <3>1. s = orders \ {o}
        BY <2>1
    <3> HIDE DEF s, all
    <3> QED
        BY <2>1, <3>1, <1>3, <1>4
  <2>2. CASE q # o.left
    <3>1. p \in Orders /\ p.no = o.no /\ p.left = o.left - q
      <4>1. o.left - q \in Nat \ {0} /\ o.filled + q \in Nat
        <5>1. o.left \in Nat /\ o.filled \in Nat
            BY <1>3 DEF Orders
        <5> QED
            BY <5>1, <2>2, <1>2, <1>3
      <4> DEFINE l == o.left - q
                 f == o.filled + q
      <4>2. p = [o EXCEPT !.left = l, !.filled = f, !.late = FALSE]
          OBVIOUS
      <4>3. l \in Nat \ {0} /\ f \in Nat
          BY <4>1
      <4> HIDE DEF p, l, f
      <4>4. p \in Orders /\ p.no = o.no /\ p.left = l
          BY <4>2, <4>3, <1>3 DEF Orders
      <4> QED
          BY <4>4 DEF l
    <3>2. s = (orders \ {o}) \cup {p}
        BY <2>2
    <3> HIDE DEF p, s
    <3>3. Numbered((orders \ {o}) \cup {p})
          /\ OnTheWay((orders \ {o}) \cup {p}) = p.left - o.left + OnTheWay(orders)
        BY <1>1, <3>1, OneChanged
    <3>4. Numbered(s) /\ OnTheWay(s) = p.left - o.left + all
        BY <3>2, <3>3
    <3> HIDE DEF all
    <3> QED
        BY <3>1, <3>4, <1>3, <1>4
  <2> QED
      BY <2>1, <2>2
<1>6. Cardinality(Late(s)) \in Nat /\ Cardinality(Late(s)) <= Cardinality(Late(orders))
  <2>1. p.late = FALSE
      BY <1>3 DEF Orders
  <2>2. Late(s) \subseteq Late(orders)
    <3> HIDE DEF p
    <3> QED BY <2>1 DEF Late
  <2> HIDE DEF s
  <2> QED
      BY <1>1, <2>2, LateIs
<1> HIDE DEF s, p
<1>7. q <= all /\ all \in Nat
  <2> HIDE DEF all
  <2> QED BY <1>2, <1>3, <1>4
<1> HIDE DEF all
<1>8. OrderingTypes' /\ LO!Wanted' = LO!Wanted - q
  <2>1. /\ target \in Int /\ position \in Int
        /\ target \in 0 .. OrderShares /\ position \in 0 .. OrderShares
        /\ side \in {"BUY", "SELL"}
      BY <1>1 DEF OrderingTypes
  <2>2. CASE side = "BUY"
    <3>1. LO!Wanted = target - position
        BY <1>1, <2>2, WantedIs
    <3>2. position' = position + q
      <4>1. LO!Sign * q = q
          BY <1>3, <2>2 DEF LO!Sign
      <4> QED BY <1>2, <4>1
    <3>3. position' \in 0 .. OrderShares
        BY <1>1, <1>3, <1>7, <2>1, <3>1, <3>2
    <3>4. OrderingTypes'
        BY <1>1, <1>2, <3>3 DEF OrderingTypes
    <3>5. LO!Wanted' = target - position'
        BY <1>2, <2>1, <2>2, <3>3 DEF LO!Wanted, LO!Sign
    <3> QED
        BY <1>3, <2>1, <3>1, <3>2, <3>4, <3>5
  <2>3. CASE side = "SELL"
    <3>1. LO!Wanted = position - target
        BY <1>1, <2>3, WantedIs
    <3>2. position' = position - q
      <4>1. LO!Sign * q = -q
          BY <1>3, <2>3 DEF LO!Sign
      <4> QED BY <1>2, <1>3, <2>1, <4>1
    <3>3. position' \in 0 .. OrderShares
        BY <1>1, <1>3, <1>7, <2>1, <3>1, <3>2
    <3>4. OrderingTypes'
        BY <1>1, <1>2, <3>3 DEF OrderingTypes
    <3>5. LO!Wanted' = position' - target
        BY <1>2, <2>1, <2>3, <3>3 DEF LO!Wanted, LO!Sign
    <3> QED
        BY <1>3, <2>1, <3>1, <3>2, <3>4, <3>5
  <2> QED
      BY <2>1, <2>2, <2>3
<1>9. WithinWanted'
  <2>1. OnTheWay(orders)' = OnTheWay(s)
      BY <1>2 DEF OnTheWay
  <2>2. LO!Wanted \in Int
      BY <1>1, WantedIs
  <2> QED
      BY <1>1, <1>3, <1>5, <1>7, <1>8, <2>1, <2>2 DEF WithinWanted
<1>10. CancelsCounted'
  <2>1. Late(orders)' = Late(s)
      BY <1>2 DEF Late
  <2>2. cancels \in Nat /\ Cardinality(Late(orders)) \in Nat
      BY <1>1, LateIs DEF OrderingTypes
  <2>3. cancels + Cardinality(Late(s)) <= Cancels + OrderShares
      BY <1>1, <1>6, <2>2
  <2> QED
      BY <1>2, <2>1, <2>3 DEF CancelsCounted
<1>11. Numbered(orders)'
    BY <1>2, <1>5 DEF Numbered
<1> QED
    BY <1>8, <1>9, <1>10, <1>11 DEF OrderingInv

LEMMA OrderingKeeps ==
    ASSUME OrderingInv, [LO!Next]_(LO!vars)
    PROVE  OrderingInv'
<1>1. CASE LO!SendAny
    BY <1>1, SendKeeps DEF LO!SendAny
<1>2. CASE LO!AgeAny
    BY <1>2, AgeKeeps DEF LO!AgeAny
<1>3. CASE LO!TimeoutAny
    BY <1>3, TimeoutKeeps DEF LO!TimeoutAny
<1>4. CASE \E o \in orders, q \in 1 .. OrderShares : LO!Fill(o, q)
    BY <1>4, OrderFillKeeps
<1>5. CASE LO!Freeze \/ LO!NewMap \/ LO!MoveLimit
  <2>1. UNCHANGED <<side, rules, ladder, target, position, orders, cancels>>
      BY <1>5 DEF LO!Freeze, LO!NewMap, LO!MoveLimit, LO!instrument
  <2> QED
      BY <2>1, QuietKeeps
<1>6. CASE UNCHANGED LO!vars
  <2>1. UNCHANGED <<side, rules, ladder, target, position, orders, cancels>>
      BY <1>6 DEF LO!vars, LO!instrument
  <2> QED
      BY <2>1, QuietKeeps
<1> QED
    BY <1>1, <1>2, <1>3, <1>4, <1>5, <1>6 DEF LO!Next

LEMMA OrderingHolds ==
    ASSUME OrderingInv
    PROVE  LO!SplitIsBest
<1> DEFINE wanted == LO!Wanted
           price  == LO!LimitPrice(wanted, 1)
           odd    == side = "SELL" /\ rules.odd /\ wanted = position
           slices == LO!Split(wanted, price, odd)
<1> SUFFICES ASSUME wanted > 0
             PROVE  /\ LO!SumOf(slices) = LO!MostTradable(wanted, price, odd)
                    /\ \A k \in DOMAIN slices :
                         /\ slices[k] <= LO!Maximum(price)
                         /\ LO!Valid(slices[k], odd /\ k = Len(slices))
    BY DEF LO!SplitIsBest
<1>1. OrderingTypes
    BY DEF OrderingInv
<1>2. wanted \in Nat \ {0} /\ wanted <= OrderShares
    BY <1>1, WantedIs
<1>3. price \in Nat \ {0}
  <2>1. PricingGiven
      BY <1>1 DEF OrderingTypes, PricingGiven
  <2> QED
      BY <2>1, PriceIsPositive
<1>4. odd \in BOOLEAN /\ RulesGiven
  <2>1. RulesGiven
      BY <1>1 DEF OrderingTypes, RulesGiven
  <2> QED
      BY <2>1, RulesAre
<1> HIDE DEF wanted, price, odd
<1>5. Best(slices, wanted, price, odd)
    BY <1>2, <1>3, <1>4, SplitBest
<1> HIDE DEF slices
<1>6. PICK n, F : Cuts(slices, n, F, price, odd) /\ F[n] = LO!MostTradable(wanted, price, odd)
    BY <1>5 DEF Best
<1>7. LO!SumOf(slices) = F[n]
    BY <1>6, CutsSum
<1>8. DOMAIN slices = 1 .. n /\ Len(slices) = n
    BY <1>6 DEF Cuts
<1>9. \A k \in 1 .. n : slices[k] <= LO!Maximum(price) /\ LO!Valid(slices[k], odd /\ k = n)
    BY <1>6 DEF Cuts
<1> QED
    BY <1>6, <1>7, <1>8, <1>9
=============================================================================
