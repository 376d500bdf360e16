CONSTANTS
    Hosts <- MCHosts
    LowerOf <- MCLowerOf
    ASCIIOf <- MCASCIIOf
    MaxAllowed = 3
    MaxPolicies = 2
    MaxHops = 2
SPECIFICATION Spec
CHECK_DEADLOCK FALSE
INVARIANTS
    SensitiveStaysAtOrigin
