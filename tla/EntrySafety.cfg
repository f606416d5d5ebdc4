SPECIFICATION FairSpec
CONSTANTS
    Devices = {d1}
    Writers = {w1}
    Painters = {p1}
    Controls = {mode}
    Companions = {}
    Stables = {}
    Values = {v1, v2}
    Invalid = Invalid
    Slots = {vlan}
    Channels = {r}
    MaxChannel = 1
    Factory <- FactoryBlack
    Absent = Absent
    NoOne = NoOne
    NoCall = NoCall
    NoObject = NoObject
    NoPalette = NoPalette
    Unknown = Unknown
    MaxEdits = 1
    MaxLate = 0
    KeysVanish = TRUE
    Cancellable = TRUE
INVARIANTS DeviceOutcomesHold SnapshotsCurrentAcross NoCrossAlarm
PROPERTIES EveryCallEnds BlockedSiteStaysSilent
