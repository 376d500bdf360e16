CONSTANTS
    Calls = {c1}
    N = 1
    CounterSize = 4
    MaxDuration = 7
    Second = 2
    Policies <- OverflowPolicies
    Answers <- OverflowAnswers
    MaxTime = 12
SPECIFICATION Spec
CHECK_DEADLOCK FALSE
PROPERTIES
    BackoffAlwaysGrows
