----------------------------- MODULE MCRepricing -----------------------------
(* Small instances of Repricing for TLC.  Prices are written in roubles and *)
(* kopecks: Rub(70, 50) is 70.50.                                           *)
EXTENDS Repricing

Rub(r, k) == r * Ruble + k * Kopeck

NoLimits == [min |-> NoValue, max |-> NoValue, profitPct |-> NoValue,
             profitAbs |-> NoValue, change |-> NoValue, fixed |-> NoValue,
             interval |-> NoValue]

With(type, value, limits, fallback) ==
    [type |-> type, params |-> [key |-> type, value |-> value],
     limits |-> limits, fallback |-> fallback, enabled |-> TRUE]

\* Every combination of the limits, with two widths of each conflict.
LimitSets ==
    {[NoLimits EXCEPT !.min = a, !.max = b, !.profitPct = c, !.profitAbs = d,
                      !.change = e, !.interval = i] :
        a \in {NoValue, Rub(90, 0)}, b \in {NoValue, Rub(75, 0), Rub(110, 0)},
        c \in {NoValue, 20}, d \in {NoValue, Rub(20, 0)}, e \in {NoValue, 10},
        i \in {NoValue}}

\* One target below, one between and one above the limits, from each formula.
Formulas == {<<"fixed", Rub(50, 0)>>, <<"below_median_pct", 5>>,
             <<"min_competitor_plus_step", Rub(60, 0)>>, <<"min_margin_pct", 30>>}

RuleRequests ==
    {With(f[1], f[2], k, "set_min") : f \in Formulas, k \in LimitSets}

AllCosts     == {NoValue, Rub(80, 55), Rub(130, 0)}
Reported     == {Rub(100, 0)}
FreshOnes    == {NoValue, Rub(85, 3)}
ManualLists  ==
    UNION {[1..n -> {Rub(85, 3), Rub(90, 0), Rub(101, 0)}] : n \in 1..3}
        \cup [1..4 -> {Rub(85, 3), Rub(101, 0)}]

NoPatch == [type |-> NoValue, params |-> NoValue, limits |-> NoValue,
            fallback |-> NoValue, enabled |-> NoValue]

\* What the editors send: the type and the switch alone, the parameters alone,
\* limits in order, limits that contradict each other.
EditRequests ==
    {With("min_competitor_plus_step", Rub(5, 0), NoLimits, "set_fixed")}
EditPatches ==
    {[NoPatch EXCEPT !.type = "fixed", !.enabled = FALSE],
     [NoPatch EXCEPT !.params = [key |-> "fixed", value |-> Rub(50, 0)]],
     [NoPatch EXCEPT !.limits = [NoLimits EXCEPT !.min = Rub(60, 0), !.interval = 60]],
     [NoPatch EXCEPT !.limits = [NoLimits EXCEPT !.min = Rub(60, 0), !.max = Rub(55, 0)]]}

AllRequests == RuleRequests \cup EditRequests

\* Two questions share the run.  A strategy of RuleRequests (the only ones with
\* that fallback) is asked what it chooses: it is not edited, and what follows
\* its first price does not matter.  One of EditRequests is edited and followed
\* to the price sent, for a product without a cost.
AsksForPrice == strategy # NoValue /\ strategy.fallback = "set_min"

OneQuestion ==
    IF AsksForPrice
    THEN offer = NoValue /\ edit' = edit /\ strategy' = strategy
    ELSE sent = NoValue /\ product'.cost = NoValue
=============================================================================
