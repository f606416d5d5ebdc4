SPECIFICATION Spec
SYMMETRY Symmetry
CONSTANTS
    Devices = {d1, d2}
    Writers = {w1, w2}
    Controls = {mode}
    Companions = {}
    Stables = {}
    Values = {v1, v2}
    Invalid = Invalid
    NoOne = NoOne
    NoCall = NoCall
    NoObject = NoObject
    Unknown = Unknown
    MaxEdits = 1
    MaxLate = 1
    Cancellable = TRUE
PROPERTIES BlockedStaysSilent
