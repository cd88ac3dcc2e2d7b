------------------------------ MODULE MCCatalog -----------------------------
(* A small instance of Catalog for TLC: two imports of one shop.            *)
EXTENDS Catalog, TLC

CONSTANTS i1, i2, k1, k2

ImportKind     == [j \in Jobs |-> "sku_import"]
ImportPriority == [j \in Jobs |-> 0]
MCMax          == (i1 :> 2) @@ (i2 :> 1)

Item(k)    == [sku |-> k, ok |-> TRUE]
BadItem(k) == [sku |-> k, ok |-> FALSE]

\* An empty shop, a clean listing, and one with a bad row, a duplicate and a
\* row over the limit.
MCListings == {<<>>, <<Item(k1), Item(k2)>>,
               <<BadItem(k1), Item(k1), Item(k1), Item(k2)>>}

MCNewProducts == {[status |-> "archived", min |-> NoVal, max |-> NoVal],
                  [status |-> "active", min |-> 2, max |-> 1]}

\* Two patches of two products: one bound of the first in each, in contradiction;
\* of the second, both bounds in one and one bound cleared in the other.
MCPatches == {(k1 :> ("min" :> 2)) @@ (k2 :> (("min" :> 1) @@ ("max" :> 2))),
              (k1 :> ("max" :> 1)) @@ (k2 :> ("min" :> NoVal))}

\* Two imports, or one import among the edits of two clients.
MCBudgets == {[imports |-> 2, edits |-> 0], [imports |-> 1, edits |-> 2]}

SlotSymmetry == Permutations(Slots)
=============================================================================
