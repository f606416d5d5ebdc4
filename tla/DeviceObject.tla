---------------------------- MODULE DeviceObject ----------------------------
(***************************************************************************)
(* A switch as the Network API returns it, reduced to what the services    *)
(* tell apart: the fields the integration changes, the fields its PUT must *)
(* carry along, the fields it only compares, and for each whether it holds *)
(* a confirmed value.  Shared by the two services that write devices.      *)
(***************************************************************************)

CONSTANTS
    Controls,     \* brightness, behavior, mode
    Companions,   \* the other fields the UI's PUT carries (led_mode, config_network, ...)
    Stables,      \* compared but never written (STABLE_DEVICE_FIELDS)
    Values,       \* confirmed values of a field
    Invalid       \* an absent field, or a written one without a confirmed value

ASSUME FieldsDisjoint ==
    /\ Controls \cap Companions = {}
    /\ Controls \cap Stables = {}
    /\ Companions \cap Stables = {}
ASSUME InvalidFresh == Invalid \notin Values

WriteFields == Controls \cup Companions
Fields == WriteFields \cup Stables
Object == [Fields -> Values \cup {Invalid}]
Payload == [WriteFields -> Values]

\* device_write_contract_is_supported: every control and companion readable
ContractHolds(o) == \A g \in WriteFields : o[g] # Invalid

\* build_etherlighting_write_payload: the confirmed object with one new field
BuildPayload(o, f, v) == [g \in WriteFields |-> IF g = f THEN v ELSE o[g]]

\* what the controller holds once it stored the fields S of payload p
Stored(o, p, S) == [g \in Fields |-> IF g \in S THEN p[g] ELSE o[g]]

\* mutant of Preserved: only the ether_lighting controls are compared
PreservedControlsOnly(before, after, f) ==
    \A g \in Controls \ {f} : after[g] = before[g]
\* mutant of Preserved: the changed field is compared as well
PreservedEveryField(before, after, f) == \A g \in Fields : after[g] = before[g]
\* _configuration_preserved: whatever was there before, except f, is unchanged
Preserved(before, after, f) ==
    \A g \in Fields \ {f} : before[g] # Invalid => after[g] = before[g]

\* build_etherlighting_refresh_payload: the same PUT with nothing changed
BuildRefresh(o) == [g \in WriteFields |-> o[g]]

\* _device_preserved: nothing that was there before has changed
DevicePreserved(before, after) ==
    \A g \in Fields : before[g] # Invalid => after[g] = before[g]
=============================================================================
