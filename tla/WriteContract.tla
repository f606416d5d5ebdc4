---------------------------- MODULE WriteContract ----------------------------
(***************************************************************************)
(* What a switch object must look like to be read and to be written, field *)
(* by field (compatibility.py, models.py), what a PUT carries and what is  *)
(* compared after it (brightness.py, color.py), and what the user is told  *)
(* of it (coordinator.py, write_readiness.py, repairs.py).  A write is one *)
(* step here: its interleavings are DeviceControl and ColorControl.  What  *)
(* is left is the time between the refresh an entity decides on and the    *)
(* write: the controller changes the objects, the version and whether it   *)
(* returns a switch at all.                                                *)
(***************************************************************************)
EXTENDS Naturals, FiniteSets

CONSTANTS
    Devices,   \* the selected switches
    Shapes,    \* objects a switch may start with
    Gone,      \* a switch the controller does not return
    MaxEdits   \* bound: changes made by the controller in a behaviour

(***************************************************************************)
(* Objects.  A nested object that is missing, or is not a mapping, is one  *)
(* whose fields are all absent.                                            *)
(***************************************************************************)

\* mode stands for behavior as well: both are one of two words
Controls == {"brightness", "mode"}
EtherWriteFields == Controls \cup {"led_mode"}
EtherFields == EtherWriteFields \cup {"ether_extra"}
\* ip stands for the six address fields
NetworkWriteFields == {"type", "ip", "bonding_enabled"}
NetworkFields == NetworkWriteFields \cup {"network_extra"}
LcmFields == {"lcm_brightness", "lcm_orientation_override"}
Night == "lcm_night_mode_enabled"
TopLevelFields == LcmFields \cup {"name"}
\* identity stands for type, _id, model and version
StableFields == {"identity", "lcm_brightness", "flowctrl_enabled"}
Fields == EtherFields \cup NetworkFields \cup TopLevelFields \cup StableFields
              \cup {Night}

\* the values some check accepts; other fields are only copied and compared
Confirmed(g) ==
    CASE g \in Controls -> {"low", "high"}
      [] g = "led_mode" -> {"etherlighting"}
      [] g = "type" -> {"dhcp", "static"}
      [] g \in {"bonding_enabled", Night} -> {"on", "off"}
      [] g = "identity" -> {"usw"}
      [] OTHER -> {"v", "w"}
\* a field that is only copied has no odd value
Possible(g) ==
    Confirmed(g) \cup {"absent"} \cup (IF Confirmed(g) = {"v", "w"} THEN {} ELSE {"odd"})
Values == {"low", "high", "etherlighting", "dhcp", "static", "on", "off", "usw", "v", "w",
           "absent", "odd"}
Objects == {o \in [Fields -> Values] : \A g \in Fields : o[g] \in Possible(g)}

Present(o, g) == o[g] # "absent"

ASSUME ShapesAreObjects == Shapes \subseteq Objects
ASSUME DevicesAreFinite == IsFiniteSet(Devices)
ASSUME GoneIsNoObject == Gone \notin [Fields -> Values]
ASSUME BoundIsNatural == MaxEdits \in Nat

VARIABLES
    \* the controller: its switches, its Network version, how often they changed
    live, version, edits,
    \* the services' block lists
    blockedDevices, siteBlocked,
    \* the coordinator's data: its last successful refresh
    data

controllerVars == <<live, version, edits>>
serviceVars == <<blockedDevices, siteBlocked>>
vars == <<live, version, edits, blockedDevices, siteBlocked, data>>

Versions == {"supported", "old", "unreadable"}
\* readable, writable: the devices with a control that is read_supported, write_ready;
\* colors: the color metadata was read, with a witness
Data == [version : Versions, returned : SUBSET Devices, readable : SUBSET Devices,
         writable : SUBSET Devices, blocked : SUBSET Devices,
         colors : BOOLEAN, siteBlocked : BOOLEAN]

(***************************************************************************)
(* Contracts.                                                              *)
(***************************************************************************)

\* network_version_is_supported: parsed, and not below the minimum
Supported(v) == v = "supported"

\* brightness_, behavior_ and mode_read_contract_is_supported
Readable(o, c) == o["identity"] \in Confirmed("identity") /\ o[c] \in Confirmed(c)

\* mutant of NetworkFieldsOf: a DHCP object is reduced to the required fields
NetworkFieldsBare(o) ==
    IF o["type"] = "dhcp" THEN {"type", "bonding_enabled"} ELSE NetworkWriteFields
\* network_write_fields
NetworkFieldsOf(o) ==
    IF o["type"] = "dhcp"
    THEN {g \in NetworkWriteFields : g \in {"type", "bonding_enabled"} \/ Present(o, g)}
    ELSE NetworkWriteFields

HasLcm(o) == \E g \in LcmFields : Present(o, g)

\* top_level_write_fields
TopLevelOf(o) ==
    IF HasLcm(o) \/ Present(o, Night) THEN TopLevelFields ELSE TopLevelFields \ LcmFields

SparseNetwork(o) == \E g \in NetworkWriteFields : \lnot Present(o, g)

\* mutant of WriteContract: the LCD group is not looked at
WriteContractWithoutLcm(o) ==
    /\ \A c \in Controls : Readable(o, c)
    /\ o["led_mode"] = "etherlighting"
    /\ SparseNetwork(o) => o["type"] = "dhcp" /\ o["bonding_enabled"] \in {"on", "off"}
    /\ Present(o, "name")
\* device_contract_mismatches is empty
WriteContract(o) ==
    /\ \A c \in Controls : Readable(o, c)
    /\ o["led_mode"] = "etherlighting"
    /\ SparseNetwork(o) => o["type"] = "dhcp" /\ o["bonding_enabled"] \in {"on", "off"}
    /\ \A g \in NetworkFieldsOf(o) \cup TopLevelOf(o) : Present(o, g)
    /\ o[Night] # "odd"

(***************************************************************************)
(* The PUT and its verification.                                           *)
(***************************************************************************)

SentFields(o) ==
    EtherWriteFields \cup NetworkFieldsOf(o) \cup TopLevelOf(o)
        \cup (IF HasLcm(o) THEN {Night} ELSE {})

\* build_etherlighting_write_payload: the present values, the UI's default for an
\* absent night mode, one new control
BuildPayload(o, c, v) ==
    [g \in SentFields(o) |->
        IF g = c THEN v ELSE IF g = Night /\ \lnot Present(o, g) THEN "off" ELSE o[g]]

\* what the controller holds after it stored p: nested objects are replaced, or their
\* unsent fields are kept
Stored(o, p, replaces) ==
    [g \in Fields |->
        IF g \in DOMAIN p THEN p[g]
        ELSE IF replaces /\ g \in EtherFields \cup NetworkFields THEN "absent"
        ELSE o[g]]

\* mutant of Preserved: config_network is not compared
PreservedWithoutNetwork(before, after, c) ==
    \A g \in (EtherFields \cup StableFields \cup TopLevelOf(before) \cup {Night}) \ {c} :
        Present(before, g) => after[g] = before[g]
\* _configuration_preserved
Preserved(before, after, c) ==
    /\ \A g \in (EtherFields \cup StableFields \cup TopLevelOf(before) \cup {Night}) \ {c} :
          Present(before, g) => after[g] = before[g]
    /\ \A g \in NetworkFields : after[g] = before[g]

\* _device_preserved: ether_lighting is compared as a whole
DevicePreserved(before, after) ==
    /\ \A g \in EtherFields \cup NetworkFields : after[g] = before[g]
    /\ \A g \in StableFields \cup TopLevelOf(before) \cup {Night} :
          Present(before, g) => after[g] = before[g]

(***************************************************************************)
(* The coordinator's data and what is derived from it.                     *)
(***************************************************************************)

Returned == {d \in Devices : live[d] # Gone}

\* runtime_contract_is_supported
Writable(d) == d \in Returned /\ Supported(version) /\ WriteContract(live[d])

\* _diagnostic_device and _async_read_colors; the color metadata may be unavailable
Projection(metadata) ==
    [version |-> version,
     returned |-> Returned,
     readable |-> {d \in Returned : Supported(version)
                                      /\ \E c \in Controls : Readable(live[d], c)},
     writable |-> {d \in Devices : Writable(d)},
     blocked |-> blockedDevices,
     colors |-> metadata /\ \E d \in Devices : Writable(d),
     siteBlocked |-> siteBlocked]

\* _runtime_read_contract_reason
ReadReason ==
    IF \lnot Supported(data.version) THEN "unsupported_network_api_generation"
    ELSE IF data.returned # Devices THEN "selected_devices_not_returned"
    ELSE IF data.readable = {} THEN "selected_devices_read_contract_mismatch"
    ELSE "read_contract_supported"

\* mutant of ControllerStatus: a switch that is returned is online
StatusByReturn == IF data.returned # {} THEN "online" ELSE "unsupported"
\* _controller_status
ControllerStatus ==
    IF data.readable # {} THEN "online"
    ELSE IF ReadReason = "selected_devices_not_returned" THEN ReadReason
    ELSE "unsupported"

\* the Repairs of async_sync_repairs that follow from the data alone
Repairs ==
    {i \in {"network_version_unconfirmed", "unsupported_combination",
            "write_contract_incomplete", "selected_devices_not_returned", "write_blocked"} :
        \/ i = "network_version_unconfirmed" /\ \lnot Supported(data.version)
        \/ i = "unsupported_combination" /\ ControllerStatus = "unsupported"
        \/ /\ i = "write_contract_incomplete"
           /\ Cardinality(data.readable) > Cardinality(data.writable)
        \/ /\ i = "selected_devices_not_returned"
           /\ ReadReason = "selected_devices_not_returned"
        \/ /\ i = "write_blocked"
           /\ \/ data.returned \cap data.blocked # {}
              \/ data.colors /\ data.siteBlocked}

\* mutant of EffectiveWriteReady: blocks are not considered
EffectiveWithBlocked == data.writable # {}
\* effective_write_ready
EffectiveWriteReady ==
    \/ data.writable \ data.blocked # {}
    \/ (data.colors /\ \lnot data.siteBlocked)

(***************************************************************************)
(* The steps.                                                              *)
(***************************************************************************)
Init ==
    /\ live \in [Devices -> Shapes \cup {Gone}]
    /\ version \in {"supported", "old"}
    /\ edits = 0
    /\ blockedDevices = {} /\ siteBlocked = FALSE
    /\ data = Projection(TRUE)

\* a successful refresh
Refresh ==
    /\ \E metadata \in BOOLEAN : data' = Projection(metadata)
    /\ UNCHANGED <<controllerVars, serviceVars>>

\* the controller or its operator changes one field of a switch
Edit(d, g, v) ==
    /\ edits < MaxEdits
    /\ live[d] # Gone
    /\ v \in Possible(g) \ {live[d][g]}
    /\ live' = [live EXCEPT ![d] = [live[d] EXCEPT ![g] = v]]
    /\ edits' = edits + 1
    /\ UNCHANGED <<version, serviceVars, data>>

\* a switch is forgotten by the controller
Forget(d) ==
    /\ edits < MaxEdits
    /\ live[d] # Gone
    /\ live' = [live EXCEPT ![d] = Gone]
    /\ edits' = edits + 1
    /\ UNCHANGED <<version, serviceVars, data>>

\* the controller is updated, or its version can no longer be parsed
VersionChanges(v) ==
    /\ edits < MaxEdits
    /\ v # version
    /\ version' = v
    /\ edits' = edits + 1
    /\ UNCHANGED <<live, serviceVars, data>>

\* number, switch and select: _ensure_write_ready with the last refresh
EntityAdmits(d) == d \in data.writable
\* the Device service's own checks with what it reads itself
ServiceAdmits(d) == d \notin blockedDevices /\ Writable(d)

\* light: a color of the last refresh is ready and not blocked
LightAdmits(d) == data.colors /\ \lnot data.siteBlocked /\ d \in data.writable
\* the color service's checks
ColorServiceAdmits(d) == \lnot siteBlocked /\ Writable(d)

\* mutant of Blocking: the block is filed under the control
BlockingControl(d, c) == blockedDevices \cup {c}
\* the block list after an indeterminate write of control c
Blocking(d, c) == blockedDevices \cup {d}

\* the PUT is stored and the switch read back
Write(d, c, v, replaces) ==
    LET before == live[d]
        after == Stored(before, BuildPayload(before, c, v), replaces)
        proven == Preserved(before, after, c)
    IN  /\ EntityAdmits(d) /\ ServiceAdmits(d)
        /\ v # before[c]
        /\ live' = [live EXCEPT ![d] = after]
        /\ blockedDevices' = IF proven THEN blockedDevices ELSE Blocking(d, c)
        /\ UNCHANGED <<version, edits, siteBlocked, data>>

\* the PUT is not stored: the old value is read back, or the read fails
WriteLost(d, c, v, answered) ==
    /\ EntityAdmits(d) /\ ServiceAdmits(d)
    /\ v # live[d][c]
    /\ blockedDevices' = IF answered THEN blockedDevices ELSE Blocking(d, c)
    /\ UNCHANGED <<controllerVars, siteBlocked, data>>

\* a color write's refresh PUT to its witness is stored and the witness read back
RefreshWitness(d, replaces) ==
    LET before == live[d]
        after == Stored(before, BuildPayload(before, "mode", before["mode"]), replaces)
        proven == DevicePreserved(before, after)
    IN  /\ LightAdmits(d) /\ ColorServiceAdmits(d)
        /\ live' = [live EXCEPT ![d] = after]
        /\ siteBlocked' = \lnot proven
        /\ UNCHANGED <<version, edits, blockedDevices, data>>

Next ==
    \/ Refresh
    \/ \E d \in Devices :
          \/ \E g \in Fields : \E v \in Possible(g) : Edit(d, g, v)
          \/ Forget(d)
          \/ \E c \in Controls : \E v \in Confirmed(c), b \in BOOLEAN :
                Write(d, c, v, b) \/ WriteLost(d, c, v, b)
          \/ \E b \in BOOLEAN : RefreshWitness(d, b)
    \/ \E v \in Versions : VersionChanges(v)

Spec == Init /\ [][Next]_vars
-----------------------------------------------------------------------------
\* Every variable keeps its type.
TypeOK ==
    /\ live \in [Devices -> Objects \cup {Gone}]
    /\ version \in Versions
    /\ edits \in 0..MaxEdits
    /\ blockedDevices \subseteq Devices
    /\ siteBlocked \in BOOLEAN
    /\ data \in Data

\* Whatever object meets the write contract can be written: every field of its PUT has
\* a value, night mode a boolean one, and none of the object's is left out that the
\* controller would lose by replacing a nested object (network_write_fields,
\* top_level_write_fields, UI_DEFAULTED_TOP_LEVEL_FIELDS).
PayloadComplete ==
    \A d \in Devices : live[d] # Gone /\ WriteContract(live[d]) =>
        \A c \in Controls : \A v \in Confirmed(c) :
            LET p == BuildPayload(live[d], c, v)
            IN  /\ \A g \in DOMAIN p : p[g] # "absent"
                /\ Night \in DOMAIN p => p[Night] \in {"on", "off"}
                /\ \A g \in EtherWriteFields \cup NetworkWriteFields \cup TopLevelFields :
                       Present(live[d], g) => g \in DOMAIN p

Blocks == <<blockedDevices, siteBlocked>>

\* A PUT after which nothing is blocked changed one control of one switch at most, the
\* default of an absent night mode apart, also if the controller replaces nested objects
\* that have fields the integration does not know (_configuration_preserved).
AppliedChangesOneField ==
    [][edits' = edits /\ Blocks' = Blocks =>
          \A d \in Devices : live'[d] # live[d] =>
              \E c \in Controls : \A g \in Fields \ {c} :
                  \/ live'[d][g] = live[d][g]
                  \/ g = Night /\ live[d][g] = "absent"]_vars

\* A PUT the controller stored as sent is verified, whatever shape the switch has, if
\* it has no fields the PUT cannot carry: no switch is blocked by its own contract.
FaithfulIsVerified ==
    [][live' # live /\ Blocks' # Blocks =>
          \E d \in Devices, g \in {"ether_extra", "network_extra"} :
              live'[d] # live[d] /\ Present(live[d], g)]_vars

\* While the refresh is current, the readiness shown by the write capability sensor is
\* the truth: ready exactly if some write of some entity would be sent.
ReadinessIsHonest ==
    data = Projection(data.colors) =>
        (EffectiveWriteReady
            <=> \E d \in Devices : \/ EntityAdmits(d) /\ ServiceAdmits(d)
                                   \/ LightAdmits(d) /\ ColorServiceAdmits(d))

\* When no switch can be written, a Repair tells the user why; and the Repair about
\* read-only switches is there exactly if a switch can be read and not written.
UnwritableIsReported ==
    /\ data.writable \ data.blocked = {} => Repairs # {}
    /\ "write_contract_incomplete" \in Repairs <=> data.readable \ data.writable # {}
=============================================================================
