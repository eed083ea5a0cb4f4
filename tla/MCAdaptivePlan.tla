-------------------------- MODULE MCAdaptivePlan --------------------------
EXTENDS AdaptivePlan, TLC

CONSTANTS left, right
MCRegions == <<left, right>>
MCInitial == [r \in {left, right} |-> IF r = left THEN 1 ELSE 0]
Executors == Permutations(Executor)
=============================================================================
