CONSTANTS
    Calls = {c1, c2}
    N = 3
    CounterSize = 4
    MaxDuration = 7
    Second = 2
    Policies <- MCPolicies
    Answers <- MCAnswers
    MaxTime = 5
SPECIFICATION Spec
CHECK_DEADLOCK FALSE
SYMMETRY CallSymmetry
INVARIANTS
    RotationBalanced
PROPERTIES
    RetryAfterHonored
    BackoffGrows
