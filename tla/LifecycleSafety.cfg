SPECIFICATION Spec
CONSTANTS
    Devices = {d1, d2}
    Accounts = {a1, a2}
    Options = {o1, o2}
    Writers = {w1}
    NoEntry = NoEntry
    NoRuntime = NoRuntime
    UserFlows = {f1}
    ReauthFlows = {r1}
    NoFlow = NoFlow
    MaxChanges = 1
INVARIANTS TypeOK RuntimeCatchesUp
PROPERTIES EditsKeepOtherFields StoredDevicesWereLive ControlsKept NewAccountIsUsed
