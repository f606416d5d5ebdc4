SPECIFICATION Spec
SYMMETRY Symmetry
CONSTANTS
    Devices = {d1}
    Painters = {p1, p2}
    Controls = {mode}
    Companions = {}
    Stables = {}
    Values = {v1, v2}
    Invalid = Invalid
    Slots = {vlan, speed}
    Channels = {r}
    MaxChannel = 2
    Factory <- FactoryBlack
    Absent = Absent
    NoOne = NoOne
    NoCall = NoCall
    NoObject = NoObject
    NoPalette = NoPalette
    Unknown = Unknown
    MaxEdits = 1
    KeysVanish = FALSE
    Cancellable = FALSE
INVARIANTS TypeOK SnapshotsCurrent PaletteClaimsHold UnprovenSiteIsBlocked NoFalseAlarm
PROPERTIES ImplementsVerifiedWrite
