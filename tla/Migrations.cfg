\* All paths between the four versions.
SPECIFICATION Spec
INVARIANTS
    EveryStepApplies
    DeletionIsNeverBlocked
    VersionTellsSchema
