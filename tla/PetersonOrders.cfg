CONSTANT Rounds = 2
SPECIFICATION Spec
INVARIANT MutualExclusion
CHECK_DEADLOCK FALSE
