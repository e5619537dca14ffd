--------------------------- MODULE MCTargetLocks ---------------------------
EXTENDS TargetLocks
CONSTANTS p1, p2, r1

\* Two tasks with one or two tables in common, which agree on how each of them is
\* published, over every set of existing tables.
AgreedLayouts ==
    {[targets |-> [p \in {p1, p2} |-> IF p = p1 THEN {1, 2} ELSE second],
      refill |-> [p \in {p1, p2} |-> stable],
      existing |-> existing] :
        second \in {{1, 2}, {2}}, stable \in SUBSET {1, 2}, existing \in SUBSET {1, 2}}
=============================================================================
