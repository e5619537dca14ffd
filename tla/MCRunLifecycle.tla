--------------------------- MODULE MCRunLifecycle ---------------------------
(* Two pipelines; a resource known under two keys and one of its own.      *)
EXTENDS RunLifecycle, TLC

CONSTANTS k1, k2, k3, shared, own

SharedObject == (k1 :> shared) @@ (k2 :> shared) @@ (k3 :> own)

\* Every combination of consumers; nobody asks for the result of the last pipeline.
MCPlans == {plans \in [Pipelines -> Specs] : "result" \notin plans[N].readers}

SameObject == Permutations({k1, k2})
=============================================================================
