--------------------------- MODULE RepricingProofs ---------------------------
(***************************************************************************)
(* Proofs about Calculator and Repricing: for every strategy, product and  *)
(* competitor price, a price that goes into a plan breaks a limit only     *)
(* where a stronger one forbids it.  The lemmas follow Constrain step by   *)
(* step; the specification adds that a strategy's limits agree, whatever   *)
(* patches race on it.                                                     *)
(***************************************************************************)
EXTENDS Repricing, FiniteSetTheorems, WellFoundedInduction, TLAPS

-----------------------------------------------------------------------------
(* Rounding and percentages.                                               *)

\* roundMoney keeps the order of prices.
LEMMA RoundMonotone ==
    ASSUME NEW a \in Int, NEW b \in Int, a <= b
    PROVE  RoundMoney(a) \in Int /\ RoundMoney(b) \in Int
                                 /\ RoundMoney(a) <= RoundMoney(b)
<1>1. (a + 100) \div 200 <= (b + 100) \div 200
  OBVIOUS
<1>2. QED
  BY <1>1 DEF RoundMoney, Kopeck

\* roundMoney leaves an amount in kopecks alone.
LEMMA RoundExact ==
    ASSUME NEW c \in Nat, c % Kopeck = 0
    PROVE  RoundMoney(c) = c
<1>1. (c + 100) \div 200 = c \div 200 /\ (c \div 200) * 200 = c
  BY DEF Kopeck
<1>2. QED
  BY <1>1 DEF RoundMoney, Kopeck

\* A percentage of an amount is an amount.
LEMMA PercentNat ==
    ASSUME NEW v \in Nat, NEW n \in Nat
    PROVE  Percent(v, n) \in Nat
<1>1. v * n \in Nat
  OBVIOUS
<1>2. \A x \in Nat : x \div 100 \in Nat
  OBVIOUS
<1>3. QED
  BY <1>1, <1>2 DEF Percent

LEMMA PercentInt ==
    ASSUME NEW v \in Int, NEW n \in Int
    PROVE  Percent(v, n) \in Int
<1>1. v * n \in Int
  OBVIOUS
<1>2. \A x \in Int : x \div 100 \in Int
  OBVIOUS
<1>3. QED
  BY <1>1, <1>2 DEF Percent

-----------------------------------------------------------------------------
(* One constraint.                                                         *)

PriceAndHit == [price : Int, hit : Constraints]

LEMMA BareType ==
    ASSUME NEW v \in Int
    PROVE  Bare(v) \in PriceAndHit /\ Bare(v).price = v
  BY DEF Bare, PriceAndHit, Constraints

\* What a raise does to the price.
LEMMA RaiseLifts ==
    ASSUME NEW r \in PriceAndHit, NEW low \in Optional(Int), NEW why \in Constraints
    PROVE  /\ Raise(r, low, why) \in PriceAndHit
           /\ Raise(r, low, why).price >= r.price
           /\ low # NoValue => Raise(r, low, why).price >= low
           /\ \/ Raise(r, low, why).price = r.price
              \/ low # NoValue /\ Raise(r, low, why).price = low
<1>1. r.price \in Int /\ r.hit \in Constraints
  BY DEF PriceAndHit
<1>2. CASE low # NoValue /\ r.price < low
  <2>1. low \in Int
    BY <1>2 DEF Optional
  <2>2. Raise(r, low, why) = [price |-> low, hit |-> why]
    BY <1>2 DEF Raise
  <2>3. QED
    BY <1>1, <1>2, <2>1, <2>2 DEF PriceAndHit
<1>3. CASE ~(low # NoValue /\ r.price < low)
  <2>1. Raise(r, low, why) = r
    BY <1>3 DEF Raise
  <2>2. QED
    BY <1>1, <1>3, <2>1 DEF Optional
<1>4. QED
  BY <1>2, <1>3

LEMMA LowerDrops ==
    ASSUME NEW r \in PriceAndHit, NEW high \in Optional(Int), NEW why \in Constraints
    PROVE  /\ Lower(r, high, why) \in PriceAndHit
           /\ Lower(r, high, why).price <= r.price
           /\ high # NoValue => Lower(r, high, why).price <= high
           /\ \/ Lower(r, high, why).price = r.price
              \/ high # NoValue /\ Lower(r, high, why).price = high
<1>1. r.price \in Int /\ r.hit \in Constraints
  BY DEF PriceAndHit
<1>2. CASE high # NoValue /\ r.price > high
  <2>1. high \in Int
    BY <1>2 DEF Optional
  <2>2. Lower(r, high, why) = [price |-> high, hit |-> why]
    BY <1>2 DEF Lower
  <2>3. QED
    BY <1>1, <1>2, <2>1, <2>2 DEF PriceAndHit
<1>3. CASE ~(high # NoValue /\ r.price > high)
  <2>1. Lower(r, high, why) = r
    BY <1>3 DEF Lower
  <2>2. QED
    BY <1>1, <1>3, <2>1 DEF Optional
<1>4. QED
  BY <1>2, <1>3

-----------------------------------------------------------------------------
(* The bounds.                                                             *)

\* The cost, when it counts, is an amount in kopecks.
LEMMA CostType ==
    ASSUME NEW p \in ProductType
    PROVE  /\ Cost(p) \in Optional(Nat)
           /\ Cost(p) # NoValue => Cost(p) % Kopeck = 0
<1>1. CASE p.cost = NoValue
  BY <1>1 DEF Cost, Optional
<1>2. CASE p.cost # NoValue
  <2>1. p.cost \in Nat /\ p.cost % Kopeck = 0
    BY <1>2 DEF ProductType, Optional, Money
  <2>2. QED
    BY <2>1 DEF Cost, Optional
<1>3. QED
  BY <1>1, <1>2

\* Types of the bounds; the band is not empty.
LEMMA BoundTypes ==
    ASSUME NEW p \in ProductType, NEW k \in LimitsType
    PROVE  /\ Cost(p) \in Optional(Nat)
           /\ Cost(p) # NoValue => Cost(p) % Kopeck = 0
           /\ Top(p, k) \in Optional(Int)
           /\ Bottom(p, k) \in Optional(Int)
           /\ k.change = NoValue <=> Top(p, k) = NoValue
           /\ k.change = NoValue <=> Bottom(p, k) = NoValue
           /\ k.change # NoValue => Bottom(p, k) <= Top(p, k)
           /\ k.min \in Optional(Int)
           /\ k.max \in Optional(Int)
<1>1. Cost(p) \in Optional(Nat) /\ (Cost(p) # NoValue => Cost(p) % Kopeck = 0)
  BY CostType
<1>2. CASE k.change = NoValue
  <2>1. Top(p, k) = NoValue /\ Bottom(p, k) = NoValue
    BY <1>2 DEF Top, Bottom
  <2>2. k.min \in Optional(Int) /\ k.max \in Optional(Int)
    BY DEF LimitsType, Optional
  <2>3. QED
    BY <1>1, <1>2, <2>1, <2>2 DEF Optional
<1>3. CASE k.change # NoValue
  <2>1. k.change \in Nat /\ p.current \in Nat
    BY <1>3 DEF LimitsType, Optional, ProductType, Money
  <2> DEFINE d == Percent(p.current, k.change)
  <2>2. d \in Nat
    BY <2>1, PercentNat
  <2>3. Top(p, k) = p.current + d /\ Bottom(p, k) = p.current - d
    BY <1>3 DEF Top, Bottom
  <2> HIDE DEF d
  <2>4. /\ Top(p, k) \in Int
        /\ Bottom(p, k) \in Int
        /\ Bottom(p, k) <= Top(p, k)
    BY <2>1, <2>2, <2>3
  <2>5. Top(p, k) # NoValue /\ Bottom(p, k) # NoValue
    BY <2>4, NoValueAssumption
  <2>6. k.min \in Optional(Int) /\ k.max \in Optional(Int)
    BY DEF LimitsType, Optional
  <2>7. QED
    BY <1>1, <1>3, <2>4, <2>5, <2>6 DEF Optional
<1>4. QED
  BY <1>2, <1>3

\* The profit floor is at least the cost and both profits.
LEMMA ProfitFloorBounds ==
    ASSUME NEW c \in Nat, NEW k \in LimitsType
    PROVE  /\ ProfitFloor(c, k) \in PriceAndHit
           /\ WithPct(c, k) \in Optional(Int)
           /\ WithAbs(c, k) \in Optional(Int)
           /\ WithPct(c, k) # NoValue => ProfitFloor(c, k).price >= WithPct(c, k)
           /\ WithAbs(c, k) # NoValue => ProfitFloor(c, k).price >= WithAbs(c, k)
<1>1. WithPct(c, k) \in Optional(Int)
  <2>1. CASE k.profitPct = NoValue
    BY <2>1 DEF WithPct, Optional
  <2>2. CASE k.profitPct # NoValue
    <3>1. k.profitPct \in Nat
      BY <2>2 DEF LimitsType, Optional
    <3>2. Percent(c, k.profitPct) \in Nat
      BY <3>1, PercentNat
    <3>3. QED
      BY <2>2, <3>2 DEF WithPct, Optional
  <2>3. QED
    BY <2>1, <2>2
<1>2. WithAbs(c, k) \in Optional(Int)
  BY DEF WithAbs, Optional, LimitsType
<1> DEFINE r0 == Bare(c)
           r1 == Raise(r0, WithPct(c, k), "min_profit_pct")
           r2 == Raise(r1, WithAbs(c, k), "min_profit_abs")
<1>3. ProfitFloor(c, k) = r2
  BY DEF ProfitFloor
<1>4. r0 \in PriceAndHit
  BY BareType
<1> HIDE DEF r0
<1>5. r1 \in PriceAndHit /\ (WithPct(c, k) # NoValue => r1.price >= WithPct(c, k))
  BY <1>1, <1>4, RaiseLifts DEF Constraints
<1> HIDE DEF r1
<1>6. /\ r2 \in PriceAndHit /\ r2.price >= r1.price
      /\ WithAbs(c, k) # NoValue => r2.price >= WithAbs(c, k)
  BY <1>2, <1>5, RaiseLifts DEF Constraints
<1> HIDE DEF r2
<1>7. WithPct(c, k) # NoValue => r2.price >= WithPct(c, k)
  BY <1>1, <1>5, <1>6 DEF Optional, PriceAndHit
<1>8. QED
  BY <1>1, <1>2, <1>3, <1>6, <1>7

-----------------------------------------------------------------------------
(* The chain of constraints.                                               *)

\* Steps 2 and 3 leave the price at the cost and the profits, or above.
LEMMA CostAndProfitLifts ==
    ASSUME NEW r \in PriceAndHit, NEW p \in ProductType, NEW k \in LimitsType
    PROVE  /\ CostAndProfit(r, p, k) \in PriceAndHit
           /\ Cost(p) # NoValue =>
                \A low \in {WithPct(Cost(p), k), WithAbs(Cost(p), k)} :
                    low # NoValue =>
                        low \in Int /\ CostAndProfit(r, p, k).price >= low
<1>1. CASE Cost(p) = NoValue
  BY <1>1 DEF CostAndProfit
<1>2. CASE Cost(p) # NoValue
  <2> DEFINE c == Cost(p)
             least == ProfitFloor(c, k)
             r1 == Raise(r, c, "cost_price_floor")
             r2 == Raise(r1, least.price, least.hit)
  <2>1. CostAndProfit(r, p, k) = r2
    BY <1>2 DEF CostAndProfit
  <2>2. c \in Nat /\ c \in Optional(Int)
    BY <1>2, BoundTypes DEF Optional
  <2> HIDE DEF c
  <2>3. /\ least \in PriceAndHit
        /\ WithPct(c, k) \in Optional(Int)
        /\ WithAbs(c, k) \in Optional(Int)
        /\ WithPct(c, k) # NoValue => least.price >= WithPct(c, k)
        /\ WithAbs(c, k) # NoValue => least.price >= WithAbs(c, k)
    BY <2>2, ProfitFloorBounds
  <2>4. r1 \in PriceAndHit
    BY <2>2, RaiseLifts DEF Constraints
  <2> HIDE DEF least, r1
  <2>5. least.price \in Int /\ least.hit \in Constraints
    BY <2>3 DEF PriceAndHit
  <2>6. least.price \in Optional(Int) /\ least.price # NoValue
    BY <2>5, NoValueAssumption DEF Optional
  <2>7. r2 \in PriceAndHit /\ r2.price >= least.price
    BY <2>4, <2>5, <2>6, RaiseLifts
  <2> HIDE DEF r2
  <2>8. r2.price \in Int
    BY <2>7 DEF PriceAndHit
  <2>9. ASSUME NEW low \in {WithPct(c, k), WithAbs(c, k)}, low # NoValue
        PROVE  low \in Int /\ r2.price >= low
    BY <2>3, <2>5, <2>7, <2>8, <2>9 DEF Optional
  <2>10. QED
    BY <2>1, <2>7, <2>9 DEF c
<1>3. QED
  BY <1>1, <1>2

\* Before rounding, a bound gives way only to a stronger one.
LEMMA ConstrainYieldsInOrder ==
    ASSUME NEW t \in Int, NEW p \in ProductType, NEW k \in LimitsType,
           Ordered(k),
           NEW y, y = Constrain(t, p, k).price
    PROVE  /\ Constrain(t, p, k) \in PriceAndHit
           /\ Cost(p) # NoValue => y >= Cost(p)
           /\ k.change # NoValue =>
                 y >= Bottom(p, k) /\ (y <= Top(p, k) \/ Beyond(Cost(p), Top(p, k)))
           /\ k.min # NoValue => y >= k.min \/ Beyond(k.min, Top(p, k))
           /\ k.max # NoValue =>
                 y <= k.max \/ Beyond(Cost(p), k.max) \/ Beyond(Bottom(p, k), k.max)
           /\ Cost(p) # NoValue =>
                 \A low \in {WithPct(Cost(p), k), WithAbs(Cost(p), k)} :
                     low # NoValue =>
                         /\ low \in Int
                         /\ \/ y >= low
                            \/ Beyond(low, k.max)
                            \/ Beyond(low, Top(p, k))
<1> DEFINE c == Cost(p)
           top == Top(p, k)
           bottom == Bottom(p, k)
           lows == {WithPct(c, k), WithAbs(c, k)}
           r1 == Bare(t)
           r2 == CostAndProfit(r1, p, k)
           r3 == Lower(r2, k.max, "max_price")
           r4 == Raise(r3, k.min, "min_price")
           r5 == Lower(r4, top, "max_change_pct")
           r6 == Raise(r5, bottom, "max_change_pct")
           r7 == Raise(r6, c, "cost_price_floor")
<1>0. Constrain(t, p, k) = r7
  BY DEF Constrain, MinMax, Band
<1>1. /\ c \in Optional(Int)
      /\ top \in Optional(Int) /\ bottom \in Optional(Int)
      /\ k.change = NoValue <=> top = NoValue
      /\ k.change = NoValue <=> bottom = NoValue
      /\ k.change # NoValue => bottom <= top
      /\ k.min \in Optional(Int) /\ k.max \in Optional(Int)
  BY BoundTypes DEF Optional
<1>2. r1 \in PriceAndHit
  BY BareType
<1> HIDE DEF r1
<1>3. /\ r2 \in PriceAndHit
      /\ c # NoValue =>
            \A low \in lows : low # NoValue => low \in Int /\ r2.price >= low
  BY <1>2, CostAndProfitLifts
<1> HIDE DEF r2, c, top, bottom, lows
<1>4. /\ r3 \in PriceAndHit
      /\ r3.price <= r2.price
      /\ k.max # NoValue => r3.price <= k.max
      /\ r3.price = r2.price \/ (k.max # NoValue /\ r3.price = k.max)
  BY <1>1, <1>3, LowerDrops DEF Constraints
<1> HIDE DEF r3
<1>5. /\ r4 \in PriceAndHit
      /\ r4.price >= r3.price
      /\ k.min # NoValue => r4.price >= k.min
      /\ r4.price = r3.price \/ (k.min # NoValue /\ r4.price = k.min)
  BY <1>1, <1>4, RaiseLifts DEF Constraints
<1> HIDE DEF r4
<1>6. /\ r5 \in PriceAndHit
      /\ r5.price <= r4.price
      /\ top # NoValue => r5.price <= top
      /\ r5.price = r4.price \/ (top # NoValue /\ r5.price = top)
  BY <1>1, <1>5, LowerDrops DEF Constraints
<1> HIDE DEF r5
<1>7. /\ r6 \in PriceAndHit
      /\ r6.price >= r5.price
      /\ bottom # NoValue => r6.price >= bottom
      /\ r6.price = r5.price \/ (bottom # NoValue /\ r6.price = bottom)
  BY <1>1, <1>6, RaiseLifts DEF Constraints
<1> HIDE DEF r6
<1>8. /\ r7 \in PriceAndHit
      /\ r7.price >= r6.price
      /\ c # NoValue => r7.price >= c
      /\ r7.price = r6.price \/ (c # NoValue /\ r7.price = c)
  BY <1>1, <1>7, RaiseLifts DEF Constraints
<1> HIDE DEF r7
<1> DEFINE y2 == r2.price  y3 == r3.price  y4 == r4.price
           y5 == r5.price  y6 == r6.price  y7 == r7.price
<1>9. /\ y2 \in Int /\ y3 \in Int /\ y4 \in Int
      /\ y5 \in Int /\ y6 \in Int /\ y7 \in Int
  BY <1>3, <1>4, <1>5, <1>6, <1>7, <1>8 DEF PriceAndHit
<1>10. /\ y3 <= y2 /\ (k.max # NoValue => y3 <= k.max)
       /\ y3 = y2 \/ (k.max # NoValue /\ y3 = k.max)
       /\ y4 >= y3 /\ (k.min # NoValue => y4 >= k.min)
       /\ y4 = y3 \/ (k.min # NoValue /\ y4 = k.min)
       /\ y5 <= y4 /\ (top # NoValue => y5 <= top)
       /\ y5 = y4 \/ (top # NoValue /\ y5 = top)
       /\ y6 >= y5 /\ (bottom # NoValue => y6 >= bottom)
       /\ y6 = y5 \/ (bottom # NoValue /\ y6 = bottom)
       /\ y7 >= y6 /\ (c # NoValue => y7 >= c)
       /\ y7 = y6 \/ (c # NoValue /\ y7 = c)
  BY <1>4, <1>5, <1>6, <1>7, <1>8
<1>11. c # NoValue => \A low \in lows : low # NoValue => low \in Int /\ y2 >= low
  BY <1>3
<1> HIDE DEF y2, y3, y4, y5, y6, y7
<1>12. ASSUME k.change # NoValue
       PROVE  y7 >= bottom /\ (y7 <= top \/ Beyond(c, top))
  <2>1. top \in Int /\ bottom \in Int /\ bottom <= top /\ top # NoValue
                                     /\ bottom # NoValue
    BY <1>1, <1>12 DEF Optional
  <2>2. y6 <= top /\ y6 >= bottom
    BY <1>9, <1>10, <2>1
  <2>3. QED
    BY <1>1, <1>9, <1>10, <2>1, <2>2 DEF Beyond, Optional
<1>13. ASSUME k.min # NoValue
       PROVE  y7 >= k.min \/ Beyond(k.min, top)
  <2>1. k.min \in Int
    BY <1>1, <1>13 DEF Optional
  <2>2. QED
    BY <1>1, <1>9, <1>10, <1>13, <2>1 DEF Beyond, Optional
<1>14. ASSUME k.max # NoValue
       PROVE  y7 <= k.max \/ Beyond(c, k.max) \/ Beyond(bottom, k.max)
  <2>1. k.max \in Int
    BY <1>1, <1>14 DEF Optional
  <2>2. y4 <= k.max
    BY <1>1, <1>9, <1>10, <1>14, <2>1 DEF Ordered, Optional
  <2>3. y5 <= k.max
    BY <1>9, <1>10, <2>1, <2>2
  <2>4. QED
    BY <1>1, <1>9, <1>10, <1>14, <2>1, <2>3 DEF Beyond, Optional
<1>15. ASSUME c # NoValue, NEW low \in lows, low # NoValue
       PROVE  low \in Int /\ (y7 >= low \/ Beyond(low, k.max) \/ Beyond(low, top))
  <2>1. low \in Int /\ y2 >= low
    BY <1>11, <1>15
  <2>2. y3 >= low \/ Beyond(low, k.max)
    BY <1>1, <1>9, <1>10, <1>15, <2>1 DEF Beyond, Optional
  <2>3. y3 >= low => y5 >= low \/ Beyond(low, top)
    BY <1>1, <1>9, <1>10, <1>15, <2>1 DEF Beyond, Optional
  <2>4. y5 >= low => y7 >= low
    BY <1>9, <1>10, <2>1
  <2>5. QED
    BY <2>1, <2>2, <2>3, <2>4
<1>16. c # NoValue => y7 >= c
  BY <1>10
<1>17. y = y7
  BY <1>0 DEF y7
<1>18. QED
  BY <1>0, <1>8, <1>12, <1>13, <1>14, <1>15, <1>16, <1>17 DEF c, top, bottom, lows

-----------------------------------------------------------------------------
(* What the name of the constraint says of the price.                      *)

\* The price r.price is the one that r.hit announces; t is the target.
Explains(r, t, p, k) ==
    /\ r.hit \in Constraints \ {"min_interval_minutes"}
    /\ r.hit = "none" => r.price = t
    /\ r.hit = "cost_price_floor" => r.price = Cost(p)
    /\ r.hit = "min_profit_pct" => r.price = WithPct(Cost(p), k)
    /\ r.hit = "min_profit_abs" => r.price = WithAbs(Cost(p), k)
    /\ r.hit = "min_price" => r.price = k.min
    /\ r.hit = "max_price" => r.price = k.max
    /\ r.hit = "max_change_pct" => r.price \in {Top(p, k), Bottom(p, k)}

\* A raise and a lowering keep the price or take their bound and its name.
LEMMA RaiseSteps ==
    ASSUME NEW r, NEW low, NEW why
    PROVE  \/ Raise(r, low, why) = r
           \/ /\ low # NoValue /\ r.price < low
              /\ Raise(r, low, why) = [price |-> low, hit |-> why]
  BY DEF Raise

LEMMA LowerSteps ==
    ASSUME NEW r, NEW high, NEW why
    PROVE  \/ Lower(r, high, why) = r
           \/ /\ high # NoValue /\ r.price > high
              /\ Lower(r, high, why) = [price |-> high, hit |-> why]
  BY DEF Lower

\* The profit floor is the cost or one of the profits, under its name.
LEMMA ProfitFloorNames ==
    ASSUME NEW c \in Nat, NEW k \in LimitsType,
           NEW least, least = ProfitFloor(c, k)
    PROVE  \/ least.hit = "none" /\ least.price = c
           \/ /\ least.hit = "min_profit_pct" /\ WithPct(c, k) # NoValue
              /\ least.price = WithPct(c, k)
           \/ /\ least.hit = "min_profit_abs" /\ WithAbs(c, k) # NoValue
              /\ least.price = WithAbs(c, k)
<1> DEFINE r0 == Bare(c)
           r1 == Raise(r0, WithPct(c, k), "min_profit_pct")
<1>1. least = Raise(r1, WithAbs(c, k), "min_profit_abs")
  BY DEF ProfitFloor
<1>2. r0.hit = "none" /\ r0.price = c
  BY DEF Bare
<1> HIDE DEF r0
<1>3. \/ r1 = r0
      \/ /\ WithPct(c, k) # NoValue
         /\ r1 = [price |-> WithPct(c, k), hit |-> "min_profit_pct"]
  BY RaiseSteps
<1> HIDE DEF r1
<1>4. \/ least = r1
      \/ /\ WithAbs(c, k) # NoValue
         /\ least = [price |-> WithAbs(c, k), hit |-> "min_profit_abs"]
  BY <1>1, RaiseSteps
<1>5. QED
  BY <1>2, <1>3, <1>4

\* The first two steps, in the cases the later lemmas need: the price of r, or
\* a higher one, which is the cost or a profit.
LEMMA CostAndProfitSteps ==
    ASSUME NEW r \in PriceAndHit, NEW p \in ProductType, NEW k \in LimitsType,
           NEW s, s = CostAndProfit(r, p, k), NEW c, c = Cost(p)
    PROVE  \/ s = r
           \/ /\ c # NoValue /\ s.price > r.price
              /\ \/ s.hit = "cost_price_floor" /\ s.price = c
                 \/ /\ s.hit = "min_profit_pct" /\ WithPct(c, k) # NoValue
                    /\ s.price = WithPct(c, k)
                 \/ /\ s.hit = "min_profit_abs" /\ WithAbs(c, k) # NoValue
                    /\ s.price = WithAbs(c, k)
<1>1. CASE c = NoValue
  BY <1>1 DEF CostAndProfit
<1>2. CASE c # NoValue
  <2> DEFINE least == ProfitFloor(c, k)
             r1 == Raise(r, c, "cost_price_floor")
  <2>1. s = Raise(r1, least.price, least.hit)
    BY <1>2 DEF CostAndProfit
  <2>2. c \in Nat /\ c \in Optional(Int)
    BY <1>2, CostType DEF Optional
  <2>3. /\ least \in PriceAndHit
        /\ \/ least.hit = "none" /\ least.price = c
           \/ /\ least.hit = "min_profit_pct" /\ WithPct(c, k) # NoValue
              /\ least.price = WithPct(c, k)
           \/ /\ least.hit = "min_profit_abs" /\ WithAbs(c, k) # NoValue
              /\ least.price = WithAbs(c, k)
    BY <2>2, ProfitFloorBounds, ProfitFloorNames
  <2>4. /\ r1 \in PriceAndHit /\ r1.price >= c /\ r1.price >= r.price
        /\ r1 = r \/ (r.price < c /\ r1 = [price |-> c, hit |-> "cost_price_floor"])
    <3>1. "cost_price_floor" \in Constraints
      BY DEF Constraints
    <3>2. r1 \in PriceAndHit /\ r1.price >= c /\ r1.price >= r.price
      BY <1>2, <2>2, <3>1, RaiseLifts
    <3>3. r1 = r \/ (r.price < c /\ r1 = [price |-> c, hit |-> "cost_price_floor"])
      BY RaiseSteps
    <3>4. QED
      BY <3>2, <3>3
  <2> HIDE DEF least, r1
  <2>5. /\ r.price \in Int /\ r1.price \in Int /\ least.price \in Int
    BY <2>3, <2>4 DEF PriceAndHit
  <2>6. \/ s = r1
        \/ /\ r1.price < least.price
           /\ s = [price |-> least.price, hit |-> least.hit]
    BY <2>1, RaiseSteps
  <2>7. CASE s = r1
    BY <1>2, <2>2, <2>4, <2>5, <2>7
  <2>8. CASE r1.price < least.price /\ s = [price |-> least.price, hit |-> least.hit]
    <3>1. s.price = least.price /\ s.hit = least.hit
      BY <2>8
    <3>2. s.price > r.price /\ least.price # c
      BY <2>2, <2>4, <2>5, <2>8, <3>1
    <3>3. QED
      BY <1>2, <2>3, <3>1, <3>2
  <2>9. QED
    BY <2>6, <2>7, <2>8
<1>3. QED
  BY <1>1, <1>2

\* The chain never parts the price from the name it carries.
LEMMA ConstrainExplains ==
    ASSUME NEW t \in Int, NEW p \in ProductType, NEW k \in LimitsType
    PROVE  Explains(Constrain(t, p, k), t, p, k)
<1> DEFINE r1 == Bare(t)
           r2 == CostAndProfit(r1, p, k)
           r3 == Lower(r2, k.max, "max_price")
           r4 == Raise(r3, k.min, "min_price")
           r5 == Lower(r4, Top(p, k), "max_change_pct")
           r6 == Raise(r5, Bottom(p, k), "max_change_pct")
           r7 == Raise(r6, Cost(p), "cost_price_floor")
<1>0. Constrain(t, p, k) = r7
  BY DEF Constrain, MinMax, Band
<1>1. r1 \in PriceAndHit /\ Explains(r1, t, p, k)
  BY BareType DEF Bare, Explains, Constraints
<1> HIDE DEF r1
<1>2. Explains(r2, t, p, k)
  BY <1>1, CostAndProfitSteps DEF Explains, Constraints
<1> HIDE DEF r2
<1>3. r3 = r2 \/ r3 = [price |-> k.max, hit |-> "max_price"]
  BY LowerSteps
<1>4. Explains(r3, t, p, k)
  BY <1>2, <1>3 DEF Explains, Constraints
<1> HIDE DEF r3
<1>5. r4 = r3 \/ r4 = [price |-> k.min, hit |-> "min_price"]
  BY RaiseSteps
<1>6. Explains(r4, t, p, k)
  BY <1>4, <1>5 DEF Explains, Constraints
<1> HIDE DEF r4
<1>7. r5 = r4 \/ r5 = [price |-> Top(p, k), hit |-> "max_change_pct"]
  BY LowerSteps
<1>8. Explains(r5, t, p, k)
  BY <1>6, <1>7 DEF Explains, Constraints
<1> HIDE DEF r5
<1>9. r6 = r5 \/ r6 = [price |-> Bottom(p, k), hit |-> "max_change_pct"]
  BY RaiseSteps
<1>10. Explains(r6, t, p, k)
  BY <1>8, <1>9 DEF Explains, Constraints
<1> HIDE DEF r6
<1>11. r7 = r6 \/ r7 = [price |-> Cost(p), hit |-> "cost_price_floor"]
  BY RaiseSteps
<1>12. Explains(r7, t, p, k)
  BY <1>10, <1>11 DEF Explains, Constraints
<1>13. QED
  BY <1>0, <1>12

-----------------------------------------------------------------------------
(* The nearest admissible price.                                           *)

\* A price the chain may reach when the bounds leave room: the target, a lower
\* bound above it, or an upper bound below it.
Near(y, t, lows, highs) ==
    \/ y = t
    \/ y > t /\ y \in lows
    \/ y < t /\ y \in highs

\* Every bound is a number.
LEMMA BoundsAreAmounts ==
    ASSUME NEW p \in ProductType, NEW k \in LimitsType
    PROVE  Lows(p, k) \subseteq Int /\ Highs(p, k) \subseteq Int
<1>1. /\ Cost(p) \in Optional(Nat)
      /\ Top(p, k) \in Optional(Int) /\ Bottom(p, k) \in Optional(Int)
      /\ k.min \in Optional(Int) /\ k.max \in Optional(Int)
  BY BoundTypes
<1>2. Cost(p) # NoValue =>
        /\ WithPct(Cost(p), k) \in Optional(Int)
        /\ WithAbs(Cost(p), k) \in Optional(Int)
  BY <1>1, ProfitFloorBounds DEF Optional
<1>3. ASSUME NEW x \in Lows(p, k)
      PROVE  x \in Int
  <2>1. x # NoValue
    BY DEF Lows
  <2>2. \/ x \in {Cost(p), k.min, Bottom(p, k)}
        \/ Cost(p) # NoValue /\ x \in {WithPct(Cost(p), k), WithAbs(Cost(p), k)}
    BY DEF Lows
  <2>3. QED
    BY <1>1, <1>2, <2>1, <2>2 DEF Optional
<1>4. Highs(p, k) \subseteq Int
  BY <1>1 DEF Highs, Optional
<1>5. QED
  BY <1>3, <1>4

\* Where each lower bound fits under each upper one, a raise to a lower bound
\* and a lowering to an upper one keep the price near.
LEMMA NearSteps ==
    ASSUME NEW t \in Int, NEW lows \in SUBSET Int, NEW highs \in SUBSET Int,
           \A low \in lows, high \in highs : low <= high,
           NEW x \in Int, NEW y, Near(x, t, lows, highs),
           y = x \/ (y \in lows /\ y > x) \/ (y \in highs /\ y < x)
    PROVE  Near(y, t, lows, highs) /\ y \in Int
<1>1. CASE y = x
  BY <1>1
<1>2. CASE y \in lows /\ y > x
  <2>1. y \in Int
    BY <1>2
  <2>2. ~(x \in highs)
    BY <1>2, <2>1
  <2>3. y > t
    BY <1>2, <2>1, <2>2 DEF Near
  <2>4. QED
    BY <1>2, <2>1, <2>3 DEF Near
<1>3. CASE y \in highs /\ y < x
  <2>1. y \in Int
    BY <1>3
  <2>2. ~(x \in lows)
    BY <1>3, <2>1
  <2>3. y < t
    BY <1>3, <2>1, <2>2 DEF Near
  <2>4. QED
    BY <1>3, <2>1, <2>3 DEF Near
<1>4. QED
  BY <1>1, <1>2, <1>3

\* Where the bounds leave room, the chain ends near the target.
LEMMA ConstrainNear ==
    ASSUME NEW t \in Int, NEW p \in ProductType, NEW k \in LimitsType,
           \A low \in Lows(p, k), high \in Highs(p, k) : low <= high
    PROVE  Near(Constrain(t, p, k).price, t, Lows(p, k), Highs(p, k))
<1> DEFINE lows == Lows(p, k)
           highs == Highs(p, k)
           r1 == Bare(t)
           r2 == CostAndProfit(r1, p, k)
           r3 == Lower(r2, k.max, "max_price")
           r4 == Raise(r3, k.min, "min_price")
           r5 == Lower(r4, Top(p, k), "max_change_pct")
           r6 == Raise(r5, Bottom(p, k), "max_change_pct")
           r7 == Raise(r6, Cost(p), "cost_price_floor")
<1>0. Constrain(t, p, k) = r7
  BY DEF Constrain, MinMax, Band
<1>1. lows \in SUBSET Int /\ highs \in SUBSET Int
  BY BoundsAreAmounts
<1>2. /\ \A b \in {Cost(p), k.min, Bottom(p, k)} : b # NoValue => b \in lows
      /\ Cost(p) # NoValue =>
            \A b \in {WithPct(Cost(p), k), WithAbs(Cost(p), k)} :
                b # NoValue => b \in lows
      /\ \A b \in {k.max, Top(p, k)} : b # NoValue => b \in highs
  BY DEF Lows, Highs
<1>3. \A low \in lows, high \in highs : low <= high
  OBVIOUS
<1> HIDE DEF lows, highs
<1>4. r1 \in PriceAndHit /\ r1.price \in Int /\ Near(r1.price, t, lows, highs)
  BY BareType DEF Near
<1> HIDE DEF r1
<1>5. \/ r2.price = r1.price
      \/ r2.price \in lows /\ r2.price > r1.price
  BY <1>2, <1>4, CostAndProfitSteps
<1>6. r2.price \in Int /\ Near(r2.price, t, lows, highs)
  BY <1>1, <1>3, <1>4, <1>5, NearSteps
<1> HIDE DEF r2
<1>7. r3.price = r2.price \/ (r3.price \in highs /\ r3.price < r2.price)
  <2>1. r3 = r2 \/ (k.max # NoValue /\ r2.price > k.max /\ r3.price = k.max)
    BY LowerSteps
  <2>2. QED
    BY <1>1, <1>2, <1>6, <2>1
<1>8. r3.price \in Int /\ Near(r3.price, t, lows, highs)
  BY <1>1, <1>3, <1>6, <1>7, NearSteps
<1> HIDE DEF r3
<1>9. r4.price = r3.price \/ (r4.price \in lows /\ r4.price > r3.price)
  <2>1. r4 = r3 \/ (k.min # NoValue /\ r3.price < k.min /\ r4.price = k.min)
    BY RaiseSteps
  <2>2. QED
    BY <1>1, <1>2, <1>8, <2>1
<1>10. r4.price \in Int /\ Near(r4.price, t, lows, highs)
  BY <1>1, <1>3, <1>8, <1>9, NearSteps
<1> HIDE DEF r4
<1>11. r5.price = r4.price \/ (r5.price \in highs /\ r5.price < r4.price)
  <2>1. r5 = r4 \/ (Top(p, k) # NoValue /\ r4.price > Top(p, k)
                        /\ r5.price = Top(p, k))
    BY LowerSteps
  <2>2. QED
    BY <1>1, <1>2, <1>10, <2>1
<1>12. r5.price \in Int /\ Near(r5.price, t, lows, highs)
  BY <1>1, <1>3, <1>10, <1>11, NearSteps
<1> HIDE DEF r5
<1>13. r6.price = r5.price \/ (r6.price \in lows /\ r6.price > r5.price)
  <2>1. r6 = r5 \/ (Bottom(p, k) # NoValue /\ r5.price < Bottom(p, k)
                        /\ r6.price = Bottom(p, k))
    BY RaiseSteps
  <2>2. QED
    BY <1>1, <1>2, <1>12, <2>1
<1>14. r6.price \in Int /\ Near(r6.price, t, lows, highs)
  BY <1>1, <1>3, <1>12, <1>13, NearSteps
<1> HIDE DEF r6
<1>15. r7.price = r6.price \/ (r7.price \in lows /\ r7.price > r6.price)
  <2>1. r7 = r6 \/ (Cost(p) # NoValue /\ r6.price < Cost(p) /\ r7.price = Cost(p))
    BY RaiseSteps
  <2>2. QED
    BY <1>1, <1>2, <1>14, <2>1
<1>16. Near(r7.price, t, lows, highs)
  BY <1>1, <1>3, <1>14, <1>15, NearSteps
<1>17. QED
  BY <1>0, <1>16 DEF lows, highs

\* Where the bounds leave room, the chain's price keeps them all.
LEMMA ConstrainAdmissible ==
    ASSUME NEW t \in Int, NEW p \in ProductType, NEW k \in LimitsType, Ordered(k),
           \A low \in Lows(p, k), high \in Highs(p, k) : low <= high
    PROVE  Admissible(Constrain(t, p, k).price, p, k)
<1> DEFINE y == Constrain(t, p, k).price
           c == Cost(p)
           top == Top(p, k)
           bottom == Bottom(p, k)
<1>1. /\ c # NoValue => y >= c
      /\ k.change # NoValue => y >= bottom /\ (y <= top \/ Beyond(c, top))
      /\ k.min # NoValue => y >= k.min \/ Beyond(k.min, top)
      /\ k.max # NoValue =>
            y <= k.max \/ Beyond(c, k.max) \/ Beyond(bottom, k.max)
      /\ c # NoValue =>
            \A low \in {WithPct(c, k), WithAbs(c, k)} :
                low # NoValue => y >= low \/ Beyond(low, k.max) \/ Beyond(low, top)
  BY ConstrainYieldsInOrder
<1>2. Lows(p, k) \subseteq Int /\ Highs(p, k) \subseteq Int
  BY BoundsAreAmounts
<1>3. ASSUME NEW low \in Lows(p, k), NEW high
      PROVE  ~(high \in {k.max, top} /\ Beyond(low, high))
  <2>1. CASE high \in {k.max, top} /\ high # NoValue
    <3>1. high \in Highs(p, k)
      BY <2>1 DEF Highs
    <3>2. low <= high /\ low \in Int /\ high \in Int
      BY <1>2, <3>1
    <3>3. QED
      BY <3>2 DEF Beyond
  <2>2. CASE ~(high \in {k.max, top} /\ high # NoValue)
    BY <2>2 DEF Beyond
  <2>3. QED
    BY <2>1, <2>2
<1>4. k.change = NoValue <=> top = NoValue
  BY BoundTypes
<1>5. k.change = NoValue <=> bottom = NoValue
  BY BoundTypes
<1>6. /\ \A b \in {c, k.min, bottom} : b # NoValue => b \in Lows(p, k)
      /\ c # NoValue =>
            \A b \in {WithPct(c, k), WithAbs(c, k)} : b # NoValue => b \in Lows(p, k)
  BY DEF Lows
<1>7. \A low \in Lows(p, k) :
        \/ low \in {c, k.min, bottom} /\ low # NoValue
        \/ c # NoValue /\ low # NoValue /\ low \in {WithPct(c, k), WithAbs(c, k)}
  BY DEF Lows
<1>8. \A high \in Highs(p, k) : high \in {k.max, top} /\ high # NoValue
  BY DEF Highs
<1> HIDE DEF y, c, top, bottom
<1>9. ASSUME NEW low \in Lows(p, k)
      PROVE  y >= low
  <2>1. CASE low = c
    BY <1>1, <1>7, <2>1
  <2>2. CASE low = k.min
    <3>1. low # NoValue /\ ~Beyond(low, top)
      BY <1>3, <1>7
    <3>2. QED
      BY <1>1, <2>2, <3>1
  <2>3. CASE low = bottom
    BY <1>1, <1>5, <1>7, <2>3
  <2>4. CASE c # NoValue /\ low # NoValue /\ low \in {WithPct(c, k), WithAbs(c, k)}
    <3>1. ~Beyond(low, k.max) /\ ~Beyond(low, top)
      BY <1>3
    <3>2. QED
      BY <1>1, <2>4, <3>1
  <2>5. QED
    BY <1>7, <2>1, <2>2, <2>3, <2>4
<1>10. ASSUME NEW high \in Highs(p, k)
       PROVE  y <= high
  <2>1. ~Beyond(c, high) /\ ~Beyond(bottom, high)
    BY <1>3, <1>6, <1>8 DEF Beyond
  <2>2. QED
    BY <1>1, <1>4, <1>8, <2>1
<1>11. QED
  BY <1>9, <1>10 DEF Admissible, y

-----------------------------------------------------------------------------
(* Rounding, the last step.                                                *)

\* The price of a plan keeps each limit unless a stronger one forbids it.
LEMMA PricedYieldsInOrder ==
    ASSUME NEW t \in Int, NEW p \in ProductType, NEW k \in LimitsType, Ordered(k)
    PROVE  BrokenOnlyByStronger(Priced(t, p, k), p, k)
<1> DEFINE c == Cost(p)
           top == Top(p, k)
           bottom == Bottom(p, k)
           lows == {WithPct(c, k), WithAbs(c, k)}
           y == Constrain(t, p, k).price
           f == RoundMoney(y)
<1>1. /\ y \in Int
      /\ c # NoValue => y >= c
      /\ k.change # NoValue => y >= bottom /\ (y <= top \/ Beyond(c, top))
      /\ k.min # NoValue => y >= k.min \/ Beyond(k.min, top)
      /\ k.max # NoValue =>
            y <= k.max \/ Beyond(c, k.max) \/ Beyond(bottom, k.max)
      /\ c # NoValue =>
            \A low \in lows : low # NoValue =>
                /\ low \in Int
                /\ y >= low \/ Beyond(low, k.max) \/ Beyond(low, top)
  BY ConstrainYieldsInOrder DEF PriceAndHit
<1>2. /\ c \in Optional(Nat)
      /\ c # NoValue => c % Kopeck = 0
      /\ k.change # NoValue => top \in Int /\ bottom \in Int
      /\ k.min \in Optional(Int) /\ k.max \in Optional(Int)
  BY BoundTypes DEF Optional
<1>3. Priced(t, p, k).final = f
  BY DEF Priced
<1> HIDE DEF c, top, bottom, lows, y
<1>4. ASSUME c # NoValue
      PROVE  f >= c
  <2>1. c \in Nat /\ c % Kopeck = 0 /\ c <= y
    BY <1>1, <1>2, <1>4 DEF Optional
  <2>2. RoundMoney(c) = c
    BY <2>1, RoundExact
  <2>3. RoundMoney(c) \in Int /\ f \in Int /\ RoundMoney(c) <= f
    BY <1>1, <2>1, RoundMonotone
  <2>4. QED
    BY <2>2, <2>3
<1>5. ASSUME k.change # NoValue
      PROVE  f >= RoundMoney(bottom) /\ (f <= RoundMoney(top) \/ Beyond(c, top))
  <2>1. top \in Int /\ bottom \in Int /\ bottom <= y
    BY <1>1, <1>2, <1>5
  <2>2. f >= RoundMoney(bottom)
    BY <1>1, <2>1, RoundMonotone
  <2>3. y <= top => f <= RoundMoney(top)
    BY <1>1, <2>1, RoundMonotone
  <2>4. QED
    BY <1>1, <1>5, <2>2, <2>3
<1>6. ASSUME k.min # NoValue
      PROVE  f >= RoundMoney(k.min) \/ Beyond(k.min, top)
  <2>1. k.min \in Int
    BY <1>2, <1>6 DEF Optional
  <2>2. y >= k.min => f >= RoundMoney(k.min)
    BY <1>1, <2>1, RoundMonotone
  <2>3. QED
    BY <1>1, <1>6, <2>2
<1>7. ASSUME k.max # NoValue
      PROVE  f <= RoundMoney(k.max) \/ Beyond(c, k.max) \/ Beyond(bottom, k.max)
  <2>1. k.max \in Int
    BY <1>2, <1>7 DEF Optional
  <2>2. y <= k.max => f <= RoundMoney(k.max)
    BY <1>1, <2>1, RoundMonotone
  <2>3. QED
    BY <1>1, <1>7, <2>2
<1>8. ASSUME c # NoValue, NEW low \in lows, low # NoValue
      PROVE  f >= RoundMoney(low) \/ Beyond(low, k.max) \/ Beyond(low, top)
  <2>1. low \in Int
    BY <1>1, <1>8
  <2>2. y >= low => f >= RoundMoney(low)
    BY <1>1, <2>1, RoundMonotone
  <2>3. QED
    BY <1>1, <1>8, <2>2
<1>9. QED
  <2> HIDE DEF f
  <2>1. c # NoValue => \A low \in lows \ {NoValue} :
            f >= RoundMoney(low) \/ Beyond(low, k.max) \/ Beyond(low, top)
    BY <1>8
  <2>2. QED
    BY <1>3, <1>4, <1>5, <1>6, <1>7, <2>1
       DEF BrokenOnlyByStronger, c, top, bottom, lows

-----------------------------------------------------------------------------
(* The median of a list of any length.  What holds of every list is shown   *)
(* without induction over it: a list has a highest element because the       *)
(* numbers of elements above each of its elements have a least one.          *)

\* A set of natural numbers has a least element.
LEMMA LeastNumber ==
    ASSUME NEW T \in SUBSET Nat, T # {}
    PROVE  \E x \in T : \A y \in T : x <= y
<1>1. PICK x \in T : \A y \in T : ~(<<y, x>> \in OpToRel(<, Nat))
  BY NatLessThanWellFounded, WFMin
<1>2. \A y \in T : ~(y < x)
  BY <1>1 DEF OpToRel
<1>3. QED
  BY <1>2

\* The positions of a list are finitely many, and so is any part of them.
LEMMA Positions ==
    ASSUME NEW list \in Seq(Nat), NEW I \in SUBSET DOMAIN list
    PROVE  /\ IsFiniteSet(I)
           /\ Cardinality(I) \in Nat
           /\ Cardinality(DOMAIN list) = Len(list)
<1>1. DOMAIN list = 1..Len(list) /\ Len(list) \in Nat
  OBVIOUS
<1>2. IsFiniteSet(DOMAIN list) /\ Cardinality(DOMAIN list) = Len(list)
  <2> DEFINE n == Len(list)
  <2>1. n \in Nat /\ 1 \in Int /\ n \in Int
    BY <1>1
  <2> HIDE DEF n
  <2>2. IsFiniteSet(1..n) /\ Cardinality(1..n) = IF 1 > n THEN 0 ELSE n - 1 + 1
    BY <2>1, FS_Interval
  <2>3. IsFiniteSet(1..n) /\ Cardinality(1..n) = n
    BY <2>1, <2>2
  <2>4. QED
    BY <1>1, <2>3 DEF n
<1>3. IsFiniteSet(I)
  BY <1>2, FS_Subset
<1>4. QED
  BY <1>2, <1>3, FS_CardinalityType

\* Among any of its positions, a list is highest at one.
LEMMA Highest ==
    ASSUME NEW list \in Seq(Nat), NEW I \in SUBSET DOMAIN list, I # {}
    PROVE  \E m \in I : \A i \in I : list[i] <= list[m]
<1> DEFINE over(m) == {i \in I : list[i] > list[m]}
           counts == {Cardinality(over(m)) : m \in I}
<1>1. \A m \in I : IsFiniteSet(over(m)) /\ Cardinality(over(m)) \in Nat
  <2> SUFFICES ASSUME NEW m \in I
               PROVE  IsFiniteSet(over(m)) /\ Cardinality(over(m)) \in Nat
    OBVIOUS
  <2>1. over(m) \in SUBSET DOMAIN list
    OBVIOUS
  <2>2. QED
    BY <2>1, Positions
<1>2. PICK m \in I : \A j \in I : Cardinality(over(m)) <= Cardinality(over(j))
  <2>1. counts \in SUBSET Nat /\ counts # {}
    BY <1>1
  <2>2. PICK x \in counts : \A y \in counts : x <= y
    BY <2>1, LeastNumber
  <2> HIDE DEF over
  <2>3. PICK m \in I : x = Cardinality(over(m))
    BY <2>2
  <2>4. \A j \in I : x <= Cardinality(over(j))
    BY <2>2
  <2>5. QED
    BY <2>3, <2>4
<1>3. ASSUME NEW j \in I, list[j] > list[m]
      PROVE  FALSE
  <2>1. list[j] \in Nat /\ list[m] \in Nat
    OBVIOUS
  <2>2. over(j) \subseteq over(m) /\ j \in over(m) /\ j \notin over(j)
    BY <1>3, <2>1
  <2>3. IsFiniteSet(over(m)) /\ over(j) \in SUBSET over(m) /\ over(j) # over(m)
    BY <1>1, <2>2
  <2>4. /\ Cardinality(over(j)) <= Cardinality(over(m))
        /\ Cardinality(over(j)) # Cardinality(over(m))
    BY <2>3, FS_Subset
  <2>5. Cardinality(over(m)) <= Cardinality(over(j))
    BY <1>2
  <2>6. Cardinality(over(m)) \in Nat /\ Cardinality(over(j)) \in Nat
    BY <1>1
  <2>7. QED
    BY <2>4, <2>5, <2>6
<1>4. \A j \in I : list[j] <= list[m]
  <2>1. \A j \in I : list[j] \in Nat /\ list[m] \in Nat
    OBVIOUS
  <2>2. QED
    BY <1>3, <2>1
<1>5. QED
  BY <1>4

UpTo(list, v) == {i \in DOMAIN list : list[i] <= v}

\* The n-th smallest element: n elements are up to it, fewer up to any below it.
LEMMA NthSmallest ==
    ASSUME NEW list \in Seq(Nat), NEW n \in 1..Len(list),
           NEW v, v = Nth(list, n)
    PROVE  /\ v \in Nat
           /\ \E i \in DOMAIN list : v = list[i]
           /\ Cardinality(UpTo(list, v)) >= n
           /\ \A i \in DOMAIN list :
                list[i] < v => Cardinality(UpTo(list, list[i])) < n
<1> DEFINE values == {list[i] : i \in DOMAIN list}
           Fits(x) == /\ Cardinality(UpTo(list, x)) >= n
                      /\ \A i \in DOMAIN list :
                            list[i] < x => Cardinality(UpTo(list, list[i])) < n
           enough == {x \in values : Cardinality(UpTo(list, x)) >= n}
<1>1. v = CHOOSE x \in values : Fits(x)
  BY DEF Nth, UpTo
<1>2. values \in SUBSET Nat
  OBVIOUS
<1>3. \A x : UpTo(list, x) \in SUBSET DOMAIN list
  BY DEF UpTo
<1>4. \A x : Cardinality(UpTo(list, x)) \in Nat
  BY <1>3, Positions
<1>5. enough # {}
  <2>1. DOMAIN list \in SUBSET DOMAIN list /\ DOMAIN list # {} /\ n <= Len(list)
    <3>1. DOMAIN list = 1..Len(list) /\ Len(list) \in Nat
      OBVIOUS
    <3>2. n \in DOMAIN list
      BY <3>1
    <3>3. QED
      BY <3>1, <3>2
  <2>2. PICK m \in DOMAIN list : \A i \in DOMAIN list : list[i] <= list[m]
    BY <2>1, Highest
  <2>3. UpTo(list, list[m]) = DOMAIN list
    BY <2>2 DEF UpTo
  <2>4. Cardinality(UpTo(list, list[m])) = Len(list)
    BY <2>3, Positions
  <2>5. QED
    BY <2>1, <2>4
<1>6. PICK x \in enough : \A y \in enough : x <= y
  BY <1>2, <1>5, LeastNumber
<1>7. Fits(x)
  <2>1. ASSUME NEW i \in DOMAIN list, list[i] < x
        PROVE  Cardinality(UpTo(list, list[i])) < n
    <3>1. list[i] \in values /\ list[i] \in Nat /\ x \in Nat
      BY <1>2, <1>6
    <3>2. list[i] \notin enough
      BY <1>6, <2>1, <3>1
    <3>3. QED
      BY <1>4, <3>1, <3>2
  <2>2. QED
    BY <1>6, <2>1
<1> HIDE DEF Fits
<1>8. v \in values /\ Fits(v)
  BY <1>1, <1>6, <1>7
<1>9. QED
  BY <1>2, <1>8 DEF Fits

\* At least half of a list is not below the upper of its middle elements, and
\* the median is not above it.
LEMMA MedianSplits ==
    ASSUME NEW list \in Seq(Nat), list # <<>>,
           NEW b, b = Nth(list, Len(list) \div 2 + 1)
    PROVE  /\ b \in Nat
           /\ Median(list) \in Nat /\ Median(list) <= b
           /\ 2 * Cardinality({i \in DOMAIN list : list[i] >= b}) >= Len(list)
<1> DEFINE n == Len(list)
           a == Nth(list, (n + 1) \div 2)
           below == {i \in DOMAIN list : list[i] < b}
           above == {i \in DOMAIN list : list[i] >= b}
<1>1. n \in Nat /\ n >= 1
  OBVIOUS
<1>2. /\ (n + 1) \div 2 \in 1..n /\ n \div 2 + 1 \in 1..n
      /\ (n + 1) \div 2 <= n \div 2 + 1
      /\ n \div 2 \in Nat /\ 2 * (n \div 2) <= n
  BY <1>1
<1>3. /\ b \in Nat
      /\ \E i \in DOMAIN list : b = list[i]
      /\ Cardinality(UpTo(list, b)) >= n \div 2 + 1
      /\ \A i \in DOMAIN list :
            list[i] < b => Cardinality(UpTo(list, list[i])) < n \div 2 + 1
  BY <1>2, NthSmallest
<1>4. /\ a \in Nat
      /\ \A i \in DOMAIN list :
            list[i] < a => Cardinality(UpTo(list, list[i])) < (n + 1) \div 2
  BY <1>2, NthSmallest
<1>5. Median(list) = (a + b) \div 2
  BY DEF Median
<1>6. \A x : UpTo(list, x) \in SUBSET DOMAIN list
  BY DEF UpTo
<1>7. \A x : Cardinality(UpTo(list, x)) \in Nat
  BY <1>6, Positions
<1> HIDE DEF a, n
<1>8. a <= b
  <2>1. ASSUME b < a
        PROVE  Cardinality(UpTo(list, b)) < (n + 1) \div 2
    BY <1>3, <1>4, <2>1
  <2>2. QED
    BY <1>1, <1>2, <1>3, <1>4, <1>7, <2>1
<1>9. Median(list) \in Nat /\ Median(list) <= b
  BY <1>3, <1>4, <1>5, <1>8
<1>10. Cardinality(below) \in Nat /\ Cardinality(below) <= n \div 2
  <2>1. below \in SUBSET DOMAIN list
    OBVIOUS
  <2>2. CASE below = {}
    <3>1. Cardinality(below) = 0
      BY <2>2, FS_EmptySet
    <3> HIDE DEF below
    <3>2. QED
      BY <1>2, <3>1
  <2>3. CASE below # {}
    <3>1. PICK m \in below : \A i \in below : list[i] <= list[m]
      BY <2>1, <2>3, Highest
    <3>2. below = UpTo(list, list[m])
      BY <1>3, <3>1, SMTT(30) DEF UpTo
    <3>3. Cardinality(below) < n \div 2 + 1
      BY <1>3, <3>1, <3>2
    <3>4. Cardinality(below) \in Nat
      BY <1>7, <3>2
    <3> HIDE DEF below
    <3>5. QED
      BY <1>2, <3>3, <3>4
  <2>4. QED
    BY <2>2, <2>3
<1>11. Cardinality(above) = n - Cardinality(below)
  <2>1. above = DOMAIN list \ below /\ DOMAIN list \cap below = below
    BY <1>3, SMTT(30)
  <2>2. IsFiniteSet(DOMAIN list) /\ Cardinality(DOMAIN list) = n
    BY Positions DEF n
  <2>3. QED
    BY <2>1, <2>2, FS_Difference
<1>12. 2 * Cardinality(above) >= n
  BY <1>1, <1>2, <1>10, <1>11
<1>13. QED
  BY <1>3, <1>9, <1>12 DEF n

\* A percentage up to 100 of an amount is not above it.
LEMMA PercentBelow ==
    ASSUME NEW v \in Nat, NEW n \in 0..100
    PROVE  Percent(v, n) \in Nat /\ Percent(v, n) <= v
<1>1. v * n \in Nat /\ v * n <= v * 100
  OBVIOUS
<1>2. \A x \in Nat : x <= v * 100 => x \div 100 <= v /\ x \div 100 \in Nat
  OBVIOUS
<1>3. QED
  BY <1>1, <1>2 DEF Percent

-----------------------------------------------------------------------------
(* The result of Calculate.                                                *)

\* The median and the minimum of a single price are that price.
LEMMA OnlyRival ==
    ASSUME NEW v \in Int
    PROVE  Median(<<v>>) = v /\ MinPrice(<<v>>) = v
<1> DEFINE list == <<v>>
<1>1. /\ Len(list) = 1
      /\ DOMAIN list = {1}
      /\ list[1] = v
  OBVIOUS
<1>2. Nth(list, 1) = v
  <2>1. {i \in DOMAIN list : list[i] <= v} = {1}
    BY <1>1
  <2>2. Cardinality({1}) = 1
    BY FS_Singleton
  <2>3. {list[i] : i \in DOMAIN list} = {v}
    BY <1>1
  <2>4. /\ Cardinality({i \in DOMAIN list : list[i] <= v}) >= 1
        /\ \A i \in DOMAIN list : ~(list[i] < v)
    BY <1>1, <2>1, <2>2
  <2> HIDE DEF list
  <2>5. QED
    BY <2>3, <2>4 DEF Nth
<1>3. (1 + 1) \div 2 = 1 /\ 1 \div 2 + 1 = 1 /\ (v + v) \div 2 = v
  OBVIOUS
<1> HIDE DEF list
<1>4. Median(list) = v
  BY <1>1, <1>2, <1>3 DEF Median
<1>5. MinPrice(list) = v
  BY <1>2 DEF MinPrice
<1>6. QED
  BY <1>4, <1>5 DEF list

\* The formula gives a number or nothing.
LEMMA TargetType ==
    ASSUME NEW s \in StrategyType, NEW p \in ProductType, NEW f \in FreshPrices
    PROVE  Target(s, p, Rivals(f)) \in Optional(Int)
<1> DEFINE rivals == Rivals(f)
<1>1. Param(s) \in Int
  BY DEF Param, StrategyType, Params
<1>2. Cost(p) # NoValue => Cost(p) \in Int
  BY CostType DEF Optional
<1>3. rivals # <<>> => Median(rivals) \in Int /\ MinPrice(rivals) \in Int
  <2>1. CASE f = NoValue
    BY <2>1 DEF Rivals
  <2>2. CASE f # NoValue
    <3>1. f \in Int /\ rivals = <<f>>
      BY <2>2, RepricingAssumption DEF Rivals
    <3>2. QED
      BY <3>1, OnlyRival
  <2>3. QED
    BY <2>1, <2>2
<1> HIDE DEF rivals
<1>4. s.type \in Types
  BY DEF StrategyType
<1>5. CASE s.type = "fixed"
  BY <1>1, <1>5 DEF Target, Optional
<1>6. CASE s.type = "below_median_pct" /\ rivals # <<>>
  <2>1. Percent(Median(rivals), 100 - Param(s)) \in Int
    BY <1>1, <1>3, <1>6, PercentInt
  <2>2. QED
    BY <1>6, <2>1 DEF Target, Optional, rivals
<1>7. CASE s.type = "min_competitor_plus_step" /\ rivals # <<>>
  <2>1. MinPrice(rivals) + Param(s) \in Int
    BY <1>1, <1>3, <1>7
  <2>2. QED
    BY <1>7, <2>1 DEF Target, Optional, rivals
<1>8. CASE s.type = "min_margin_pct" /\ Cost(p) # NoValue
  <2>1. Cost(p) + Percent(Cost(p), Param(s)) \in Int
    BY <1>1, <1>2, <1>8, PercentInt
  <2>2. QED
    BY <1>8, <2>1 DEF Target, Optional
<1>9. CASE \/ s.type \in {"below_median_pct", "min_competitor_plus_step"}
                /\ rivals = <<>>
           \/ s.type = "min_margin_pct" /\ Cost(p) = NoValue
  BY <1>9 DEF Target, Optional, rivals
<1>10. QED
  BY <1>4, <1>5, <1>6, <1>7, <1>8, <1>9 DEF Types

\* What a recalculation stores: a price chosen by Priced, or a skip.
LEMMA CalculateType ==
    ASSUME NEW s \in StrategyType, NEW p \in ProductType, NEW f \in FreshPrices,
           Ordered(s.limits)
    PROVE  /\ Calculate(s, p, Rivals(f)) \in ResultType
           /\ Calculate(s, p, Rivals(f)).status = "pending" =>
                 \E t \in Int : Calculate(s, p, Rivals(f)) = Priced(t, p, s.limits)
<1> DEFINE t == Target(s, p, Rivals(f))
           back == FallbackPrice(s, p)
<1>1. t \in Optional(Int)
  BY TargetType
<1>2. s.limits \in LimitsType /\ p.current \in Int
  BY DEF StrategyType, ProductType, Money
<1>3. \A v \in Int : RoundMoney(v) \in Int
  BY RoundMonotone
<1>4. \A v \in Int : Skipped(v) \in ResultType /\ Skipped(v).status = "skipped"
  BY DEF Skipped, ResultType, Constraints
<1>5. CASE Refused(s, p)
  BY <1>4, <1>5 DEF Calculate
<1>6. CASE ~Refused(s, p) /\ t = NoValue
  <2>1. back \in Int
    BY <1>2 DEF FallbackPrice, LimitsType, Optional
  <2> HIDE DEF back
  <2>2. AboveCost(back, p) \in Int
    <3>1. Bare(back) \in PriceAndHit
      BY <2>1, BareType
    <3>2. Cost(p) \in Optional(Int)
      BY CostType DEF Optional
    <3>3. Raise(Bare(back), Cost(p), "cost_price_floor") \in PriceAndHit
      BY <3>1, <3>2, RaiseLifts DEF Constraints
    <3>4. QED
      BY <3>3 DEF AboveCost, PriceAndHit
  <2>3. Calculate(s, p, Rivals(f)) = Skipped(RoundMoney(AboveCost(back, p)))
    BY <1>6 DEF Calculate, back
  <2>4. QED
    BY <1>3, <1>4, <2>2, <2>3
<1>7. CASE ~Refused(s, p) /\ t # NoValue
  <2>1. t \in Int
    BY <1>1, <1>7 DEF Optional
  <2>2. Calculate(s, p, Rivals(f)) = Priced(t, p, s.limits)
    BY <1>7 DEF Calculate
  <2> HIDE DEF t
  <2>3. Constrain(t, p, s.limits) \in PriceAndHit
    BY <1>2, <2>1, ConstrainYieldsInOrder
  <2>4. Priced(t, p, s.limits) \in ResultType
    BY <1>3, <2>1, <2>3 DEF Priced, ResultType, PriceAndHit
  <2>5. QED
    BY <2>1, <2>2, <2>4
<1>8. QED
  BY <1>5, <1>6, <1>7

-----------------------------------------------------------------------------
(* The specification.                                                      *)

RepricingInv == RepricingTypeOK /\ LimitsAgree

LEMMA RepricingInit == Init => RepricingInv
<1> SUFFICES ASSUME Init PROVE RepricingInv
  OBVIOUS
<1> USE DEF Init
<1>1. strategy \in StrategyType /\ Ordered(strategy.limits)
  BY RepricingAssumption DEF Creatable, ValidLimits, Ordered
<1>2. product \in ProductType
  BY RepricingAssumption DEF ProductType, Money, Optional
<1>3. item \in ResultType
  BY DEF NoResult, ResultType, Constraints
<1>4. QED
  BY <1>1, <1>2, <1>3 DEF RepricingInv, RepricingTypeOK, LimitsAgree, Optional

\* A patch, written over a row, gives a row whose limits agree.
LEMMA PatchedType ==
    ASSUME NEW s \in StrategyType, Ordered(s.limits), NEW patch \in PatchType,
           patch.limits # NoValue => Ordered(patch.limits)
    PROVE  Patched(s, patch) \in StrategyType /\ Ordered(Patched(s, patch).limits)
<1> DEFINE new == Patched(s, patch)
<1>1. new.type \in Types /\ new.params \in Params
  BY DEF Patched, StrategyType, PatchType, Optional
<1>2. new.limits \in LimitsType /\ Ordered(new.limits)
  BY DEF Patched, StrategyType, PatchType, Optional
<1>3. new.fallback \in Fallbacks /\ new.enabled \in BOOLEAN
  BY DEF Patched, StrategyType, PatchType, Optional
<1>4. new = [type |-> new.type, params |-> new.params, limits |-> new.limits,
             fallback |-> new.fallback, enabled |-> new.enabled]
  BY DEF Patched
<1> HIDE DEF new
<1>5. new \in StrategyType
  BY <1>1, <1>2, <1>3, <1>4 DEF StrategyType
<1>6. QED
  BY <1>2, <1>5 DEF new

LEMMA RepricingNext == RepricingInv /\ [Next]_vars => RepricingInv'
<1> SUFFICES ASSUME RepricingInv, [Next]_vars PROVE RepricingInv'
  OBVIOUS
<1> USE DEF RepricingInv, RepricingTypeOK, LimitsAgree
<1>1. ASSUME NEW e \in Editors, NEW patch \in Patches, BeginUpdate(e, patch)
      PROVE  RepricingInv'
  <2>1. patch \in PatchType /\ (patch.limits # NoValue => Ordered(patch.limits))
    BY <1>1, RepricingAssumption DEF BeginUpdate, ValidLimits, Ordered
  <2>2. edit' \in [Editors -> Optional(PatchType)]
    BY <1>1, <2>1 DEF BeginUpdate, Optional
  <2>3. \A d \in Editors : edit'[d] = IF d = e THEN patch ELSE edit[d]
    BY <1>1 DEF BeginUpdate
  <2>4. QED
    BY <1>1, <2>1, <2>2, <2>3 DEF BeginUpdate
<1>2. ASSUME NEW e \in Editors, EndUpdate(e)
      PROVE  RepricingInv'
  <2>1. edit[e] \in PatchType /\ (edit[e].limits # NoValue => Ordered(edit[e].limits))
    BY <1>2 DEF EndUpdate, Optional
  <2>2. edit' \in [Editors -> Optional(PatchType)]
    BY <1>2 DEF EndUpdate, Optional
  <2>3. \A d \in Editors : edit'[d] = IF d = e THEN NoValue ELSE edit[d]
    BY <1>2 DEF EndUpdate
  <2>4. CASE strategy = NoValue
    BY <1>2, <2>2, <2>3, <2>4 DEF EndUpdate
  <2>5. CASE strategy # NoValue
    <3>1. strategy \in StrategyType /\ Ordered(strategy.limits)
      BY <2>5 DEF Optional
    <3>2. strategy' \in StrategyType /\ Ordered(strategy'.limits)
      BY <1>2, <2>1, <2>5, <3>1, PatchedType DEF EndUpdate
    <3>3. QED
      BY <1>2, <2>2, <2>3, <3>2 DEF EndUpdate, Optional
  <2>6. QED
    BY <2>4, <2>5
<1>3. CASE DeleteStrategy
  BY <1>3 DEF DeleteStrategy, Optional
<1>4. CASE SoftDelete
  BY <1>4 DEF SoftDelete, ProductType
<1>5. ASSUME NEW c \in Costs, PatchCost(c)
      PROVE  RepricingInv'
  <2>1. c \in Optional(Money)
    BY RepricingAssumption DEF Optional, Money
  <2>2. QED
    BY <1>5, <2>1 DEF PatchCost, ProductType
<1>6. ASSUME NEW m \in MarketPrices, Sync(m)
      PROVE  RepricingInv'
  <2>1. m \in Money
    BY RepricingAssumption DEF Money
  <2>2. QED
    BY <1>6, <2>1 DEF Sync, ProductType
<1>7. CASE LoadProduct
  BY <1>7 DEF LoadProduct, Optional
<1>8. CASE SkipInterval
  <2>1. loaded \in ProductType
    BY <1>8 DEF SkipInterval, Optional
  <2>2. item' \in ResultType
    BY <1>8, <2>1
       DEF SkipInterval, Skipped, ResultType, Constraints, ProductType, Money
  <2>3. QED
    BY <1>8, <2>2 DEF SkipInterval, Optional
<1>9. CASE LeftOut
  BY <1>9 DEF LeftOut, Optional
<1>10. CASE SendPrice
  <2>1. offer \in OfferType
    BY <1>10 DEF SendPrice, Optional
  <2>2. Conveyed(offer.final) \in Int
    BY <2>1 DEF Conveyed, Ruble, OfferType
  <2>3. offer' \in OfferType
    BY <1>10, <2>1 DEF SendPrice, OfferType
  <2>4. QED
    BY <1>10, <2>2, <2>3 DEF SendPrice, Optional
<1>11. ASSUME NEW f \in FreshPrices, Recalculate(f)
       PROVE  RepricingInv'
  <2>1. loaded \in ProductType /\ strategy \in StrategyType /\ Ordered(strategy.limits)
    BY <1>11 DEF Recalculate, Optional
  <2>2. item' \in ResultType
    BY <1>11, <2>1, CalculateType DEF Recalculate
  <2>3. offer' \in Optional(OfferType) /\ sent' \in Optional(Int)
    BY <1>11, <2>2 DEF Recalculate, Optional, OfferType, ResultType
  <2>4. QED
    BY <1>11, <2>2, <2>3 DEF Recalculate, Optional
<1>12. CASE IntervalPasses
  <2>1. offer' \in OfferType
    BY <1>12 DEF IntervalPasses, Optional, OfferType
  <2>2. QED
    BY <1>12, <2>1 DEF IntervalPasses, Optional
<1>13. CASE UNCHANGED vars
  BY <1>13 DEF vars
<1>14. QED
  BY <1>1, <1>2, <1>3, <1>4, <1>5, <1>6, <1>7, <1>8, <1>9, <1>10, <1>11, <1>12,
     <1>13
     DEF Next, Editing, Catalog, Pricing

LEMMA RepricingInvariant == Spec => []RepricingInv
  BY RepricingInit, RepricingNext, PTL DEF Spec

\* The rows keep their types, whatever the requests and their order.
THEOREM RepricingTypeCorrect == Spec => []RepricingTypeOK
<1>1. RepricingInv => RepricingTypeOK
  BY DEF RepricingInv
<1>2. QED
  BY <1>1, RepricingInvariant, PTL

\* strategy.Update: no race of patches stores a min_price above the max_price.
THEOREM LimitsAlwaysAgree == Spec => []LimitsAgree
<1>1. RepricingInv => LimitsAgree
  BY DEF RepricingInv
<1>2. QED
  BY <1>1, RepricingInvariant, PTL

\* pricing.Calculate: for every strategy, product, cost and competitor price,
\* the price of a plan breaks a limit only where a stronger one forbids it.
THEOREM PricesYieldInOrder == Spec => LimitsYieldInOrder
<1>1. ASSUME RepricingInv, NEW f \in FreshPrices,
             Recalculate(f), item'.status = "pending"
      PROVE  BrokenOnlyByStronger(item', loaded, strategy.limits)
  <2>1. loaded \in ProductType /\ strategy \in StrategyType /\ Ordered(strategy.limits)
    BY <1>1 DEF RepricingInv, RepricingTypeOK, LimitsAgree, Recalculate, Optional
  <2>2. item' = Calculate(strategy, loaded, Rivals(f))
    BY <1>1 DEF Recalculate
  <2>3. PICK t \in Int : item' = Priced(t, loaded, strategy.limits)
    BY <1>1, <2>1, <2>2, CalculateType
  <2>4. strategy.limits \in LimitsType
    BY <2>1 DEF StrategyType
  <2>5. QED
    BY <2>1, <2>3, <2>4, PricedYieldsInOrder
<1>2. RepricingInv => [\A f \in FreshPrices :
        Recalculate(f) /\ item'.status = "pending"
            => BrokenOnlyByStronger(item', loaded, strategy.limits)]_vars
  BY <1>1
<1>3. QED
  BY <1>2, RepricingInvariant, PTL DEF LimitsYieldInOrder

\* A recalculation that prices a product prices its target.
LEMMA RecalculatePrices ==
    ASSUME RepricingInv, NEW f \in FreshPrices,
           Recalculate(f), item'.status = "pending"
    PROVE  LET t == Target(strategy, loaded, Rivals(f)) IN
           /\ loaded \in ProductType
           /\ strategy.limits \in LimitsType /\ Ordered(strategy.limits)
           /\ t \in Int
           /\ item' = Priced(t, loaded, strategy.limits)
<1> DEFINE t == Target(strategy, loaded, Rivals(f))
<1>1. loaded \in ProductType /\ strategy \in StrategyType /\ Ordered(strategy.limits)
  BY DEF RepricingInv, RepricingTypeOK, LimitsAgree, Recalculate, Optional
<1>2. item' = Calculate(strategy, loaded, Rivals(f))
  BY DEF Recalculate
<1>3. t \in Optional(Int)
  BY <1>1, TargetType
<1>4. strategy.limits \in LimitsType
  BY <1>1 DEF StrategyType
<1> HIDE DEF t
<1>5. ~Refused(strategy, loaded) /\ t # NoValue
  BY <1>2 DEF Calculate, Skipped, t
<1>6. item' = Priced(t, loaded, strategy.limits)
  BY <1>2, <1>5 DEF Calculate, t
<1>7. QED
  BY <1>1, <1>3, <1>4, <1>5, <1>6 DEF Optional, t

\* PriceResult.ConstraintHit: the limit shown to the user is the one that set
\* the price, and a price no limit set is the strategy's target.
THEOREM NamedLimitSetThePrice == Spec => HitExplainsPrice
<1>1. ASSUME RepricingInv, NEW f \in FreshPrices,
             Recalculate(f), item'.status = "pending",
             NEW t, t = Target(strategy, loaded, Rivals(f))
      PROVE  \E x \in Named(item'.hit, t, loaded, strategy.limits) :
                item'.final = RoundMoney(x)
  <2> DEFINE k == strategy.limits
             r == Constrain(t, loaded, k)
  <2>1. /\ loaded \in ProductType /\ k \in LimitsType /\ t \in Int
        /\ item' = Priced(t, loaded, k)
    BY <1>1, RecalculatePrices
  <2>2. Explains(r, t, loaded, k)
    BY <2>1, ConstrainExplains
  <2>3. item'.hit = r.hit /\ item'.final = RoundMoney(r.price)
    BY <2>1 DEF Priced
  <2> HIDE DEF r
  <2>4. r.price \in Named(r.hit, t, loaded, k)
    BY <2>2 DEF Explains, Constraints, Named
  <2>5. QED
    BY <2>3, <2>4
<1>2. RepricingInv => [\A f \in FreshPrices :
        Recalculate(f) /\ item'.status = "pending" =>
            LET target == Target(strategy, loaded, Rivals(f)) IN
            \E x \in Named(item'.hit, target, loaded, strategy.limits) :
                item'.final = RoundMoney(x)]_vars
  BY <1>1
<1>3. QED
  BY <1>2, RepricingInvariant, PTL DEF HitExplainsPrice

\* pricing.Calculate: when some price keeps every limit, the price of the plan
\* keeps them all, and none that does lies between it and the target.
THEOREM NearestPriceIsChosen == Spec => NearestAdmissible
<1>1. ASSUME RepricingInv, NEW f \in FreshPrices,
             Recalculate(f), item'.status = "pending",
             NEW target, target = Target(strategy, loaded, Rivals(f)),
             NEW good, good = Choices(target, loaded, strategy.limits), good # {}
      PROVE  \E x \in good :
                /\ item'.final = RoundMoney(x)
                /\ x > target => \A y \in good : y >= x
                /\ x < target => \A y \in good : y <= x
  <2> DEFINE k == strategy.limits
             lows == Lows(loaded, k)
             highs == Highs(loaded, k)
             x == Constrain(target, loaded, k).price
  <2>1. /\ loaded \in ProductType /\ k \in LimitsType /\ Ordered(k)
        /\ target \in Int
        /\ item' = Priced(target, loaded, k)
    BY <1>1, RecalculatePrices
  <2>2. item'.final = RoundMoney(x)
    BY <2>1 DEF Priced
  <2>3. lows \subseteq Int /\ highs \subseteq Int
    BY <2>1, BoundsAreAmounts
  <2>4. good = {y \in lows \cup highs \cup {target} : Admissible(y, loaded, k)}
    BY <1>1 DEF Choices
  <2>5. \A low \in lows, high \in highs : low <= high
    <3>1. PICK g \in lows \cup highs \cup {target} : Admissible(g, loaded, k)
      BY <1>1, <2>4
    <3>2. g \in Int
      BY <2>1, <2>3, <3>1
    <3>3. QED
      BY <2>3, <3>1, <3>2 DEF Admissible
  <2>6. Near(x, target, lows, highs) /\ Admissible(x, loaded, k)
    BY <2>1, <2>5, ConstrainNear, ConstrainAdmissible
  <2> HIDE DEF k, x
  <2>7. x \in good
    BY <2>4, <2>6 DEF Near
  <2>8. x > target => \A y \in good : y >= x
    <3>1. x > target => x \in lows
      BY <2>1, <2>3, <2>6 DEF Near
    <3>2. QED
      BY <2>4, <3>1 DEF Admissible
  <2>9. x < target => \A y \in good : y <= x
    <3>1. x < target => x \in highs
      BY <2>1, <2>3, <2>6 DEF Near
    <3>2. QED
      BY <2>4, <3>1 DEF Admissible
  <2>10. QED
    BY <2>2, <2>7, <2>8, <2>9
<1>2. RepricingInv => [\A f \in FreshPrices :
        LET target == Target(strategy, loaded, Rivals(f))
            good   == Choices(target, loaded, strategy.limits)
        IN  Recalculate(f) /\ item'.status = "pending" /\ good # {}
              => \E x \in good :
                    /\ item'.final = RoundMoney(x)
                    /\ x > target => \A y \in good : y >= x
                    /\ x < target => \A y \in good : y <= x]_vars
  BY <1>1
<1>3. QED
  BY <1>2, RepricingInvariant, PTL DEF NearestAdmissible

\* pricing.Simulate: for every list of competitor prices, whatever its length and
\* its order, at least half of them are not below the target of below_median_pct.
THEOREM TargetUndercutsHalf == Spec => []UndercutsHalf
<1>1. RepricingInv => UndercutsHalf
  <2> SUFFICES ASSUME RepricingInv,
                      strategy # NoValue, strategy.type = "below_median_pct",
                      ValidParams(strategy.type, strategy.params),
                      NEW rivals \in ManualPrices, NEW c \in Costs,
                      NEW r, r = Simulated(c, rivals), r.status = "pending"
               PROVE  2 * Cardinality({i \in DOMAIN rivals :
                                        RoundMoney(rivals[i]) >= r.target})
                        >= Len(rivals)
    BY DEF UndercutsHalf
  <2> DEFINE p == [product EXCEPT !.cost = c]
             t == Target(strategy, p, rivals)
             b == Nth(rivals, Len(rivals) \div 2 + 1)
             upper == {i \in DOMAIN rivals : rivals[i] >= b}
             above == {i \in DOMAIN rivals : RoundMoney(rivals[i]) >= r.target}
  <2>1. rivals \in Seq(Nat)
    BY RepricingAssumption
  <2>2. r = Calculate(strategy, p, rivals)
    BY DEF Simulated
  <2> HIDE DEF p
  <2>3. t # NoValue /\ r = Priced(t, p, strategy.limits)
    BY <2>2 DEF Calculate, Skipped
  <2>4. r.target = RoundMoney(t)
    BY <2>3 DEF Priced
  <2>5. rivals # <<>> /\ t = Percent(Median(rivals), 100 - Param(strategy))
    BY <2>3 DEF Target
  <2>6. Param(strategy) \in 0..100
    <3>1. strategy \in StrategyType
      BY DEF RepricingInv, RepricingTypeOK, Optional
    <3>2. Param([type |-> strategy.type, params |-> strategy.params])
            = Param(strategy)
      BY DEF Param
    <3>3. QED
      BY <3>2 DEF ValidParams
  <2>7. /\ b \in Nat
        /\ Median(rivals) \in Nat /\ Median(rivals) <= b
        /\ 2 * Cardinality(upper) >= Len(rivals)
    BY <2>1, <2>5, MedianSplits
  <2> HIDE DEF t, b
  <2>8. t \in Nat /\ t <= b
    <3>1. 100 - Param(strategy) \in 0..100
      BY <2>6
    <3>2. t \in Nat /\ t <= Median(rivals)
      BY <2>5, <2>7, <3>1, PercentBelow
    <3>3. QED
      BY <2>7, <3>2
  <2>9. upper \in SUBSET above
    <3> SUFFICES ASSUME NEW i \in DOMAIN rivals, rivals[i] >= b
                 PROVE  RoundMoney(rivals[i]) >= r.target
      OBVIOUS
    <3>1. rivals[i] \in Nat
      BY <2>1
    <3>2. rivals[i] \in Int /\ t \in Int /\ t <= rivals[i]
      BY <2>7, <2>8, <3>1
    <3>3. RoundMoney(t) \in Int /\ RoundMoney(rivals[i]) \in Int
            /\ RoundMoney(t) <= RoundMoney(rivals[i])
      BY <3>2, RoundMonotone
    <3>4. QED
      BY <2>4, <3>3
  <2>10. /\ IsFiniteSet(above) /\ Cardinality(above) \in Nat
         /\ Cardinality(upper) \in Nat
    <3>1. above \in SUBSET DOMAIN rivals /\ upper \in SUBSET DOMAIN rivals
      OBVIOUS
    <3>2. QED
      BY <2>1, <3>1, Positions
  <2>11. Cardinality(upper) <= Cardinality(above)
    BY <2>9, <2>10, FS_Subset
  <2>12. Len(rivals) \in Nat
    BY <2>1
  <2> HIDE DEF upper
  <2>13. 2 * Cardinality(above) >= Len(rivals)
    <3> HIDE DEF above
    <3>1. QED
      BY <2>7, <2>10, <2>11, <2>12
  <2>14. QED
    BY <2>13
<1>2. QED
  BY <1>1, RepricingInvariant, PTL
=============================================================================
