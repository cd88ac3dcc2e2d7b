----------------------------- MODULE MCJobQueue -----------------------------
(* Small instances of JobQueue for TLC.                                    *)
EXTENDS JobQueueRefinement, TLC

CONSTANTS j1, j2, j3

\* One job of each shape: no attempts guard (import), a permanent error
\* (dispatch), neither (notification).
MixedKind ==
    (j1 :> "sku_import") @@ (j2 :> "price_dispatch") @@ (j3 :> "notification")
MixedPriority == (j1 :> 0) @@ (j2 :> 100) @@ (j3 :> 0)
MixedMax      == (j1 :> 1) @@ (j2 :> 2) @@ (j3 :> 2)
=============================================================================
