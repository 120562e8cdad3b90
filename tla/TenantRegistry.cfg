\* Two requests at a time, every kind of fault.
CONSTANTS
    c1 = c1
    c2 = c2
    Calls <- TwoCalls
    Names = {"primary", "ci"}
    MaxTenants = 2
    MaxKeys = 2
    Faults = {"db", "crash"}
SPECIFICATION FairSpec
CHECK_DEADLOCK FALSE
INVARIANTS
    TenantsComplete
    CreationsNeverConflict
    ShownKeysExist
    EffectsScoped
PROPERTIES
    ImplementsDirectory
    NoBlindReactivation
    RevocationTakesHold
    CreationEnds
