CONSTANTS
    Octets = 3
    Bits = 3
    Configs <- ShippedConfigs
SPECIFICATION Spec
INVARIANT ReverseAlwaysResolves
CHECK_DEADLOCK FALSE
