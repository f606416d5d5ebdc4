SPECIFICATION Spec
CONSTANTS
    Devices = {d1}
    Accounts = {a1}
    Options = {o1, o2}
    Writers = {w1, w2}
    NoEntry = NoEntry
    NoRuntime = NoRuntime
    UserFlows = {f1}
    ReauthFlows = {}
    NoFlow = NoFlow
    MaxChanges = 0
INVARIANTS SerializedPerEntry
