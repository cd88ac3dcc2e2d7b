----------------------------- MODULE Calculator -----------------------------
(***************************************************************************)
(* The price of one product under one strategy (service/pricing/           *)
(* calculator.go): the formula of the strategy, its fallback, and the      *)
(* chain of constraints.  Money is counted in units of 1/200 kopeck, so    *)
(* that halves (a median, a rounding) and whole percentages of a price in  *)
(* kopecks are exact; the binary error of the code's float64 is left out.  *)
(*                                                                         *)
(* A product p has status, current and cost; a strategy s has type, params *)
(* (the key of the JSON document and its value), limits, fallback and      *)
(* enabled.  NoValue stands for a nil pointer.                             *)
(***************************************************************************)
EXTENDS Integers, Sequences, FiniteSets

CONSTANT NoValue

ASSUME NoValueAssumption == NoValue \notin Int

Kopeck == 200
Ruble  == 20000

\* math.Round(v * 100) / 100, for v >= 0.
RoundMoney(v) == ((v + 100) \div Kopeck) * Kopeck

Percent(v, n) == (v * n) \div 100

\* costPriceOrNil: zero counts as not set.
Cost(p) == IF p.cost # NoValue /\ p.cost > 0 THEN p.cost ELSE NoValue

-----------------------------------------------------------------------------
(* The constraints.                                                        *)

\* Names of constraint_hit.
Constraints == {"none", "cost_price_floor", "min_profit_pct", "min_profit_abs",
                "min_price", "max_price", "max_change_pct",
                "min_interval_minutes"}

\* A price that no constraint has moved.
Bare(v) == [price |-> v, hit |-> "none"]

\* Mutant of Raise: the name of the constraint is not recorded.
RaiseUnnamed(r, low, why) ==
    IF low # NoValue /\ r.price < low THEN [r EXCEPT !.price = low] ELSE r

\* "if bound != nil && final < *bound": the price moves and the bound is named.
Raise(r, low, why) ==
    IF low # NoValue /\ r.price < low THEN [price |-> low, hit |-> why] ELSE r

Lower(r, high, why) ==
    IF high # NoValue /\ r.price > high THEN [price |-> high, hit |-> why] ELSE r

\* cost * (1 + pct/100) and cost + abs.
WithPct(cost, k) ==
    IF k.profitPct = NoValue THEN NoValue ELSE cost + Percent(cost, k.profitPct)
WithAbs(cost, k) ==
    IF k.profitAbs = NoValue THEN NoValue ELSE cost + k.profitAbs

\* Mutant of ProfitFloor: the absolute profit replaces the relative one.
LastProfitWins(cost, k) ==
    IF WithAbs(cost, k) = NoValue
    THEN Raise(Bare(cost), WithPct(cost, k), "min_profit_pct")
    ELSE Raise(Bare(cost), WithAbs(cost, k), "min_profit_abs")

\* The stricter of the two, never less than the cost itself.
ProfitFloor(cost, k) ==
    Raise(Raise(Bare(cost), WithPct(cost, k), "min_profit_pct"),
          WithAbs(cost, k), "min_profit_abs")

\* The band of max_change_pct around the current price.
Top(p, k) ==
    IF k.change = NoValue THEN NoValue
    ELSE p.current + Percent(p.current, k.change)
Bottom(p, k) ==
    IF k.change = NoValue THEN NoValue
    ELSE p.current - Percent(p.current, k.change)

CostAndProfit(r, p, k) ==
    IF Cost(p) = NoValue THEN r
    ELSE LET least == ProfitFloor(Cost(p), k)
         IN  Raise(Raise(r, Cost(p), "cost_price_floor"), least.price, least.hit)

MinMax(r, k) == Raise(Lower(r, k.max, "max_price"), k.min, "min_price")

Band(r, p, k) ==
    Raise(Lower(r, Top(p, k), "max_change_pct"), Bottom(p, k), "max_change_pct")

\* Mutant of Constrain: the cost is not defended after the band.
NoSecondFloor(target, p, k) ==
    Band(MinMax(CostAndProfit(Bare(target), p, k), k), p, k)

\* Steps 2 to 6, in the order of the code.
Constrain(target, p, k) ==
    Raise(Band(MinMax(CostAndProfit(Bare(target), p, k), k), p, k),
          Cost(p), "cost_price_floor")

-----------------------------------------------------------------------------
(* The formula.                                                            *)

\* The n-th smallest of a list.
Nth(list, n) ==
    LET upTo(v) == Cardinality({i \in DOMAIN list : list[i] <= v}) IN
    CHOOSE v \in {list[i] : i \in DOMAIN list} :
        /\ upTo(v) >= n
        /\ \A i \in DOMAIN list : list[i] < v => upTo(list[i]) < n

\* Mutant of Median: the list is not sorted first.
MiddleOfList(list) ==
    LET n == Len(list)
    IN  (list[(n + 1) \div 2] + list[n \div 2 + 1]) \div 2

Median(list) ==
    LET n == Len(list)
    IN  (Nth(list, (n + 1) \div 2) + Nth(list, n \div 2 + 1)) \div 2

MinPrice(list) == Nth(list, 1)

\* json.Unmarshal into the parameters of s.type: a document written for
\* another type has none of its fields, which stay 0.
Param(s) == IF s.params.key = s.type THEN s.params.value ELSE 0

\* computeTarget; NoValue when the formula cannot be applied.
Target(s, p, rivals) ==
    CASE s.type = "fixed" -> Param(s)
      [] s.type = "below_median_pct" ->
            IF rivals = <<>> THEN NoValue
            ELSE Percent(Median(rivals), 100 - Param(s))
      [] s.type = "min_competitor_plus_step" ->
            IF rivals = <<>> THEN NoValue ELSE MinPrice(rivals) + Param(s)
      [] s.type = "min_margin_pct" ->
            IF Cost(p) = NoValue THEN NoValue
            ELSE Cost(p) + Percent(Cost(p), Param(s))

\* applyFallback; set_fixed and set_min fall through to the next policy when
\* they lack a price.
FallbackPrice(s, p) ==
    LET k     == s.limits
        fixed == s.fallback = "set_fixed" /\ k.fixed # NoValue /\ k.fixed > 0
        least == s.fallback \in {"set_fixed", "set_min"} /\ k.min # NoValue
    IN  IF fixed THEN k.fixed ELSE IF least THEN k.min ELSE p.current

AboveCost(v, p) == Raise(Bare(v), Cost(p), "cost_price_floor").price

-----------------------------------------------------------------------------
Skipped(final) ==
    [status |-> "skipped", target |-> 0, final |-> final, hit |-> "none"]

\* A currency other than the rouble is refused like an archived product.
Refused(s, p) == p.status = "archived" \/ p.current <= 0 \/ ~s.enabled

Priced(target, p, k) ==
    LET r == Constrain(target, p, k) IN
    [status |-> "pending", target |-> RoundMoney(target),
     final  |-> RoundMoney(r.price), hit |-> r.hit]

Calculate(s, p, rivals) ==
    IF Refused(s, p) THEN Skipped(0)
    ELSE IF Target(s, p, rivals) = NoValue
         THEN Skipped(RoundMoney(AboveCost(FallbackPrice(s, p), p)))
         ELSE Priced(Target(s, p, rivals), p, s.limits)
=============================================================================
