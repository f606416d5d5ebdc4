SPECIFICATION Spec
CONSTANTS
    Devices = {d1}
    Callers = {e1}
    Site = Site
    NoTarget = NoTarget
    NoRefresh = NoRefresh
INVARIANTS RepairsInStep
