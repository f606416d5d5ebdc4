SPECIFICATION Spec
SYMMETRY Symmetry
CONSTANTS
    Devices = {d1}
    Writers = {w1, w2}
    Controls = {brightness, mode}
    Companions = {config}
    Stables = {firmware}
    Values = {v1, v2}
    Invalid = Invalid
    NoOne = NoOne
    NoCall = NoCall
    NoObject = NoObject
    Unknown = Unknown
    MaxEdits = 0
    MaxLate = 0
    Cancellable = TRUE
INVARIANTS UnprovenIsBlocked
