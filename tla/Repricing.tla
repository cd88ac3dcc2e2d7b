------------------------------ MODULE Repricing ------------------------------
(***************************************************************************)
(* One product, the strategy assigned to it, and the prices calculated and *)
(* sent for it: the strategy editor (service/strategy), the patches of the *)
(* product (service/product, UpsertImported), the recalculation of the     *)
(* product (pricing.calculateItemForProduct), the simulation, and what the *)
(* marketplace's client makes of the price (integration).  A recalculation *)
(* reads the product first and the strategy later, and an update of the    *)
(* strategy reads its type before it writes: other steps come in between.  *)
(* When a plan is recalculated or sent, and the statements that fail, are  *)
(* PlanFlow's subject; here a plan may come at any time and reads succeed. *)
(***************************************************************************)
EXTENDS Calculator

CONSTANTS
    Editors,       \* concurrent PATCH requests on the strategy
    Requests,      \* bodies of POST /strategies
    Patches,       \* bodies of PATCH /strategies/:id, NoValue for an absent field
    Costs,         \* cost prices the user may enter, NoValue to clear it
    MarketPrices,  \* prices the marketplace may report for the product
    FreshPrices,   \* latest fresh competitor price, NoValue when there is none
    ManualPrices,  \* lists of competitor prices given to a simulation
    Marketplace    \* of the shop: "wildberries" or "ozon"

Types     == {"fixed", "below_median_pct", "min_competitor_plus_step",
              "min_margin_pct"}
Fallbacks == {"keep_current", "set_fixed", "set_min"}

Optional(S) == S \cup {NoValue}
Params      == [key : Types, value : Int]
LimitsType  == [min : Optional(Nat), max : Optional(Nat),
                profitPct : Optional(Nat), profitAbs : Optional(Nat),
                change : Optional(Nat), fixed : Optional(Nat),
                interval : Optional(1..1440)]
StrategyType == [type : Types, params : Params, limits : LimitsType,
                 fallback : Fallbacks, enabled : BOOLEAN]
PatchType    == [type : Optional(Types), params : Optional(Params),
                 limits : Optional(LimitsType),
                 fallback : Optional(Fallbacks), enabled : Optional(BOOLEAN)]
\* Columns of NUMERIC(12, 2).
Money == {v \in Nat : v % Kopeck = 0}

ASSUME RepricingAssumption ==
    /\ Requests \subseteq StrategyType
    /\ Patches \subseteq PatchType
    /\ \A c \in Costs : c # NoValue => c \in Nat /\ c % Kopeck = 0
    /\ \A m \in MarketPrices : m \in Nat /\ m % Kopeck = 0
    /\ \A f \in FreshPrices : f # NoValue => f \in Nat /\ f % Kopeck = 0 /\ f > 0
    /\ ManualPrices \subseteq Seq(Nat \ {0})
    /\ Marketplace \in {"wildberries", "ozon"}

VARIABLES
    strategy,   \* the row of strategies, NoValue once deleted
    product,    \* status, current_price and cost_price of the row of products
    edit,       \* what a PATCH that has passed validation will write
    loaded,     \* the product as a recalculation has read it
    item,       \* the row of price_plan_items of the last recalculation
    offer,      \* the product's latest row with a price; its age says whether
                \* min_interval_minutes have passed since it was inserted
    sent        \* the price sent for that row, NoValue before

vars == <<strategy, product, edit, loaded, item, offer, sent>>

NoResult == [status |-> "none", target |-> 0, final |-> 0, hit |-> "none"]

-----------------------------------------------------------------------------
(* The strategy.                                                           *)

\* validateParams, on the value Calculate will see under that type.
ValidParams(type, params) ==
    LET v == Param([type |-> type, params |-> params]) IN
    CASE type = "fixed" -> v > 0
      [] type = "below_median_pct" -> v \in 0..100
      [] OTHER -> v >= 0

\* Mutant of ValidLimits: the two limits are not compared.
LimitsUnrelated(k) == k.fixed # NoValue => k.fixed > 0

\* validateConstraints; the signs are in LimitsType.
ValidLimits(k) ==
    /\ k.min # NoValue /\ k.max # NoValue => k.min <= k.max
    /\ k.fixed # NoValue => k.fixed > 0

\* Create lets a request through when its parts are valid.
Creatable(s) == ValidParams(s.type, s.params) /\ ValidLimits(s.limits)

Init ==
    /\ strategy \in {s \in Requests : Creatable(s)}
    /\ \E m \in MarketPrices :
         product = [status |-> "active", current |-> m, cost |-> NoValue]
    /\ edit   = [e \in Editors |-> NoValue]
    /\ loaded = NoValue
    /\ item   = NoResult
    /\ offer  = NoValue
    /\ sent   = NoValue

\* Update up to its statement.  Parameters are validated when the patch has
\* them, against its own type or else the stored one.
BeginUpdate(e, patch) ==
    /\ strategy # NoValue
    /\ edit[e] = NoValue
    /\ LET type == IF patch.type # NoValue THEN patch.type ELSE strategy.type
       IN  patch.params # NoValue => ValidParams(type, patch.params)
    /\ patch.limits # NoValue => ValidLimits(patch.limits)
    /\ edit' = [edit EXCEPT ![e] = patch]
    /\ UNCHANGED <<strategy, product, loaded, item, offer, sent>>

\* Mutant of Patched: an absent field is written as NULL.
PatchReplaces(s, patch) == patch

\* UPDATE strategies SET ... = CASE WHEN $n IS NOT NULL ...
Patched(s, patch) ==
    [type     |-> IF patch.type     # NoValue THEN patch.type     ELSE s.type,
     params   |-> IF patch.params   # NoValue THEN patch.params   ELSE s.params,
     limits   |-> IF patch.limits   # NoValue THEN patch.limits   ELSE s.limits,
     fallback |-> IF patch.fallback # NoValue THEN patch.fallback ELSE s.fallback,
     enabled  |-> IF patch.enabled  # NoValue THEN patch.enabled  ELSE s.enabled]

EndUpdate(e) ==
    /\ edit[e] # NoValue
    /\ strategy' = IF strategy = NoValue THEN NoValue
                   ELSE Patched(strategy, edit[e])
    /\ edit' = [edit EXCEPT ![e] = NoValue]
    /\ UNCHANGED <<product, loaded, item, offer, sent>>

DeleteStrategy ==
    /\ strategy # NoValue
    /\ strategy' = NoValue
    /\ UNCHANGED <<product, edit, loaded, item, offer, sent>>

-----------------------------------------------------------------------------
(* The product.                                                            *)

\* PatchPrices and BulkPatch; Calculate does not read the product's own
\* min_price and max_price.
PatchCost(c) ==
    /\ product' = [product EXCEPT !.cost = c]
    /\ UNCHANGED <<strategy, edit, loaded, item, offer, sent>>

SoftDelete ==
    /\ product.status = "active"
    /\ product' = [product EXCEPT !.status = "archived"]
    /\ UNCHANGED <<strategy, edit, loaded, item, offer, sent>>

\* UpsertImported, from an import or from the sync before a recalculation.
Sync(m) ==
    /\ product' = [product EXCEPT !.current = m, !.status = "active"]
    /\ UNCHANGED <<strategy, edit, loaded, item, offer, sent>>

-----------------------------------------------------------------------------
(* Calculating and sending.                                                *)

LoadProduct ==
    /\ loaded = NoValue
    /\ loaded' = product
    /\ UNCHANGED <<strategy, product, edit, item, offer, sent>>

\* competitorPricesForProduct
Rivals(f) == IF f = NoValue THEN <<>> ELSE <<f>>

\* LatestItemCreatedAt: rows 'pending' (or 'applied', which no row is any more).
LatestPriced(o) == o # NoValue /\ o.status = "pending"

\* min_interval_minutes has not passed since the product's latest row.
TooSoon ==
    strategy.limits.interval # NoValue /\ LatestPriced(offer) /\ offer.age = "young"

\* The row that calculateItemForProduct returns goes into a plan.
Recalculate(f) ==
    /\ loaded # NoValue
    /\ strategy # NoValue
    /\ ~TooSoon
    /\ item'   = Calculate(strategy, loaded, Rivals(f))
    /\ loaded' = NoValue
    /\ IF item'.status = "pending"
       THEN /\ offer' = [final |-> item'.final, status |-> "pending", age |-> "young"]
            /\ sent'  = NoValue
       ELSE UNCHANGED <<offer, sent>>
    /\ UNCHANGED <<strategy, product, edit>>

SkipInterval ==
    /\ loaded # NoValue
    /\ strategy # NoValue
    /\ TooSoon
    /\ item'   = [Skipped(loaded.current) EXCEPT !.hit = "min_interval_minutes"]
    /\ loaded' = NoValue
    /\ UNCHANGED <<strategy, product, edit, offer, sent>>

IntervalPasses ==
    /\ offer # NoValue
    /\ offer.age = "young"
    /\ offer' = [offer EXCEPT !.age = "old"]
    /\ UNCHANGED <<strategy, product, edit, loaded, item, sent>>

\* A product without strategy is left out of the plan.
LeftOut ==
    /\ loaded # NoValue
    /\ strategy = NoValue
    /\ loaded' = NoValue
    /\ UNCHANGED <<strategy, product, edit, item, offer, sent>>

\* Simulate reads the row and the product, may replace the cost, and takes any
\* list of competitor prices; it writes nothing.
Simulated(c, rivals) ==
    Calculate(strategy, [product EXCEPT !.cost = c], rivals)

\* int(u.NewPrice) for Wildberries; "%.0f", to even, for Ozon.
Conveyed(v) ==
    LET whole == v \div Ruble
        twice == 2 * (v % Ruble)
        up    == twice > Ruble \/ (twice = Ruble /\ whole % 2 = 1)
    IN  Ruble * (IF Marketplace = "ozon" /\ up THEN whole + 1 ELSE whole)

SendPrice ==
    /\ offer # NoValue
    /\ offer.status = "pending"
    /\ sent'  = Conveyed(offer.final)
    /\ offer' = [offer EXCEPT !.status = "dispatched"]
    /\ UNCHANGED <<strategy, product, edit, loaded, item>>

-----------------------------------------------------------------------------
Editing ==
    \/ \E e \in Editors :
          EndUpdate(e) \/ (\E patch \in Patches : BeginUpdate(e, patch))
    \/ DeleteStrategy

Catalog ==
    \/ SoftDelete
    \/ \E c \in Costs : PatchCost(c)
    \/ \E m \in MarketPrices : Sync(m)

Pricing ==
    \/ LoadProduct \/ SkipInterval \/ LeftOut \/ SendPrice \/ IntervalPasses
    \/ \E f \in FreshPrices : Recalculate(f)

Next == Editing \/ Catalog \/ Pricing

Spec == Init /\ [][Next]_vars

-----------------------------------------------------------------------------
(* Properties.                                                             *)

ProductType == [status : {"active", "archived"}, current : Money,
                cost : Optional(Money)]
ResultType  == [status : {"none", "pending", "skipped"},
                target : Int, final : Int, hit : Constraints]
OfferType   == [final : Int, status : {"pending", "dispatched"},
                age : {"young", "old"}]

\* Types of the rows, of the patches in progress and of the plan's item.
RepricingTypeOK ==
    /\ strategy \in Optional(StrategyType)
    /\ product \in ProductType
    /\ edit \in [Editors -> Optional(PatchType)]
    /\ loaded \in Optional(ProductType)
    /\ item \in ResultType
    /\ offer \in Optional(OfferType)
    /\ sent \in Optional(Int)

Ordered(k) == k.min # NoValue /\ k.max # NoValue => k.min <= k.max

\* strategy.Create and Update: no request and no race of patches stores a
\* min_price above the max_price, which Calculate relies on.
LimitsAgree ==
    /\ strategy # NoValue => Ordered(strategy.limits)
    /\ \A e \in Editors :
         edit[e] # NoValue =>
            (edit[e].limits # NoValue => Ordered(edit[e].limits))

\* x > y, when both are set.
Beyond(x, y) == x # NoValue /\ y # NoValue /\ x > y

\* The price r.final and the limits of the strategy, from the strongest to the
\* weakest: a limit is broken only when a stronger one contradicts it.
BrokenOnlyByStronger(r, p, k) ==
    LET c == Cost(p)
        top == Top(p, k)
        bottom == Bottom(p, k)
    IN
    /\ c # NoValue => r.final >= c
    /\ k.change # NoValue =>
        /\ r.final >= RoundMoney(bottom)
        /\ r.final <= RoundMoney(top) \/ Beyond(c, top)
    /\ k.min # NoValue => r.final >= RoundMoney(k.min) \/ Beyond(k.min, top)
    /\ k.max # NoValue =>
        r.final <= RoundMoney(k.max) \/ Beyond(c, k.max) \/ Beyond(bottom, k.max)
    /\ c # NoValue => \A low \in {WithPct(c, k), WithAbs(c, k)} \ {NoValue} :
        r.final >= RoundMoney(low) \/ Beyond(low, k.max) \/ Beyond(low, top)

\* Calculate, steps 2 to 7: every price that goes into a plan keeps each of the
\* strategy's limits unless a stronger one forbids it: the cost first, then
\* max_change_pct, min_price, max_price, the profits.
LimitsYieldInOrder ==
    [][\A f \in FreshPrices :
        Recalculate(f) /\ item'.status = "pending"
            => BrokenOnlyByStronger(item', loaded, strategy.limits)]_vars

\* Simulate, below_median_pct: whatever list of prices the user tries, in
\* whatever order, the target is not above more than half of them, to the
\* kopeck.  The exception is a percentage that no request validated for this
\* type: Update does not look at the stored parameters when the type changes.
UndercutsHalf ==
    strategy # NoValue /\ strategy.type = "below_median_pct"
                       /\ ValidParams(strategy.type, strategy.params) =>
        \A rivals \in ManualPrices, c \in Costs :
            LET r == Simulated(c, rivals)
                above == {i \in DOMAIN rivals : RoundMoney(rivals[i]) >= r.target}
            IN  r.status = "pending" => 2 * Cardinality(above) >= Len(rivals)

\* The bounds in force on a price.
Lows(p, k) ==
    ({Cost(p), k.min, Bottom(p, k)}
        \cup (IF Cost(p) = NoValue THEN {}
              ELSE {WithPct(Cost(p), k), WithAbs(Cost(p), k)})) \ {NoValue}
Highs(p, k) == {k.max, Top(p, k)} \ {NoValue}

Admissible(x, p, k) ==
    /\ \A low \in Lows(p, k) : x >= low
    /\ \A high \in Highs(p, k) : x <= high

\* The bounds, and the target, that keep every bound.
Choices(target, p, k) ==
    {x \in Lows(p, k) \cup Highs(p, k) \cup {target} : Admissible(x, p, k)}

\* When some price satisfies all the limits, the one chosen does, and it is
\* the nearest to the target: the order of the steps does not matter.
NearestAdmissible ==
    [][\A f \in FreshPrices :
        LET target == Target(strategy, loaded, Rivals(f))
            good   == Choices(target, loaded, strategy.limits)
        IN  Recalculate(f) /\ item'.status = "pending" /\ good # {}
              => \E x \in good :
                    /\ item'.final = RoundMoney(x)
                    /\ x > target => \A y \in good : y >= x
                    /\ x < target => \A y \in good : y <= x]_vars

\* The prices that the name of a constraint may stand for.
Named(hit, target, p, k) ==
    CASE hit = "none" -> {target}
      [] hit = "cost_price_floor" -> {Cost(p)}
      [] hit = "min_profit_pct" -> {WithPct(Cost(p), k)}
      [] hit = "min_profit_abs" -> {WithAbs(Cost(p), k)}
      [] hit = "min_price" -> {k.min}
      [] hit = "max_price" -> {k.max}
      [] hit = "max_change_pct" -> {Top(p, k), Bottom(p, k)}

\* constraint_hit tells the user which limit set the price: the price is that
\* limit's, and without a limit it is the target.
HitExplainsPrice ==
    [][\A f \in FreshPrices :
        Recalculate(f) /\ item'.status = "pending" =>
            LET target == Target(strategy, loaded, Rivals(f)) IN
            \E x \in Named(item'.hit, target, loaded, strategy.limits) :
                item'.final = RoundMoney(x)]_vars
=============================================================================
