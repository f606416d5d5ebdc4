SPECIFICATION FairSpec
CONSTANTS
    Devices = {d1}
    Callers = {e1, e2}
    Site = Site
    NoTarget = NoTarget
    NoRefresh = NoRefresh
INVARIANTS TypeOK BlockRepairIsExact RepairsNeverOverclaim
PROPERTIES BlockIsReported
