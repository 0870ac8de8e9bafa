CONSTANTS
    Octets = 3
    Bits = 3
    Configs <- MCConfigs
SPECIFICATION Spec
INVARIANTS
    TypeOK
    ReverseResolves
    OrganizationFollowed
    RobotsServed
    UncaughtExplained
    ZoneNamesSound
    UsbPolicy
CHECK_DEADLOCK FALSE
