SPECIFICATION Spec
SYMMETRY Symmetry
CONSTANTS
    Devices = {d1}
    Writers = {w1, w2}
    Controls = {brightness, mode}
    Companions = {config}
    Stables = {firmware}
    Values = {v1, v2}
    Invalid = Invalid
    NoOne = NoOne
    NoCall = NoCall
    NoObject = NoObject
    Unknown = Unknown
    MaxEdits = 1
    MaxLate = 0
    Cancellable = FALSE
INVARIANTS TypeOK SnapshotCurrent ClaimsHold UnprovenIsBlocked NoWriteOverUnproven NoFalseAlarm
PROPERTIES ImplementsVerifiedWrite
