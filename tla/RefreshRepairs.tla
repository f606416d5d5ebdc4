--------------------------- MODULE RefreshRepairs ---------------------------
(***************************************************************************)
(* What the user is told: the coordinator's refresh (coordinator.py) turns *)
(* the controller's answers and the write services' block lists and error  *)
(* codes into a snapshot, and async_sync_repairs (repairs.py) turns the    *)
(* snapshot and the category of the last refresh error into Repairs.  A    *)
(* refresh awaits two groups of reads; entities that finish a write        *)
(* (entity.py) change the services' state and sync the Repairs at any time *)
(* in between.  The writes themselves are DeviceControl and ColorControl.  *)
(***************************************************************************)
EXTENDS Naturals

CONSTANTS
    Devices,    \* the selected switches
    Callers,    \* coroutines of entities that write
    Site,       \* target of a color write
    NoTarget,   \* an idle caller
    NoRefresh   \* no device read in hand

ASSUME TargetsFresh ==
    /\ Site \notin Devices
    /\ NoTarget \notin Devices \cup {Site}

VARIABLES
    \* the services' attributes
    blockedDevices, siteBlocked, lastErrorCode, colorErrorCode,
    \* the coordinator: its attributes, where its refresh stands, the devices it
    \* just projected
    data, lastUpdateSuccess, lastRefreshError, refreshPc, projected,
    \* Home Assistant's issue registry
    issues,
    \* the entities: where each stands, what it writes
    pc, target,
    \* history: what the finished refreshes say of credentials and schema, whether
    \* an outcome was settled since the running refresh, and the one behind `data`, began
    authKnownBad, schemaKnownBad, disturbed, quiet

serviceVars == <<blockedDevices, siteBlocked, lastErrorCode, colorErrorCode>>
coordinatorVars == <<data, lastUpdateSuccess, lastRefreshError, refreshPc, projected>>
callerVars == <<pc, target>>
knownVars == <<authKnownBad, schemaKnownBad>>
vars == <<serviceVars, coordinatorVars, issues, callerVars, knownVars, disturbed, quiet>>

Codes == {"none", "write_not_applied", "write_verification_failed"}
Statuses == {"not_applicable", "unavailable", "ready"}
\* the Repairs that depend on more than one refresh or on writes; the others
\* restate the contract fields of the last snapshot and are left out
Issues == {"authentication_failed", "api_schema_mismatch", "write_unverified",
           "write_blocked", "color_metadata_unavailable", "selected_devices_not_returned"}

\* _safe_refresh_error_category; transport_*, response and unknown are "other"
ErrorCategories == {"authentication", "permission", "schema", "other"}

Projection == [returned : SUBSET Devices, blocked : SUBSET Devices]
Data == [returned : SUBSET Devices, blocked : SUBSET Devices, colors : Statuses,
         colorBlocked : BOOLEAN, lastError : Codes]

(***************************************************************************)
(* async_sync_repairs                                                      *)
(***************************************************************************)

AuthErrors == {"authentication", "permission"}
\* mutant of AuthSettlingErrors: a schema error leaves the credentials in doubt
AuthSettlingOnlyAuth == AuthErrors
AuthSettlingErrors == AuthErrors \cup {"schema"}
SchemaSettlingErrors == {"schema"}

\* mutant of WriteBlocked: blocked sites are not reported
WriteBlockedDevices(d) == d.blocked # {}
\* write_blocked: any device or any color of the snapshot
WriteBlocked(d) == d.blocked # {} \/ d.colorBlocked

\* an issue that only some refresh results settle
Kept(issue, settles, active) == IF settles THEN active ELSE issue \in issues

\* the registry after a sync with snapshot d and refresh error err; an unsupported
\* Network version, which goes before a switch not returned, is in WriteContract
Synced(d, err) ==
    {i \in Issues :
        CASE i = "authentication_failed" ->
                Kept(i, err = "none" \/ err \in AuthSettlingErrors, err \in AuthErrors)
          [] i = "api_schema_mismatch" ->
                Kept(i, err = "none" \/ err \in SchemaSettlingErrors, err = "schema")
          [] i = "write_unverified" -> d.lastError = "write_verification_failed"
          [] i = "write_blocked" -> WriteBlocked(d)
          [] i = "color_metadata_unavailable" -> d.colors = "unavailable"
          [] i = "selected_devices_not_returned" -> d.returned # Devices}

(***************************************************************************)
(* Initial state: the entry is set up, its first refresh has succeeded.    *)
(***************************************************************************)
Init ==
    /\ blockedDevices = {} /\ siteBlocked = FALSE
    /\ lastErrorCode = "none" /\ colorErrorCode = "none"
    /\ data \in [returned : SUBSET Devices, blocked : {{}}, colors : Statuses,
                 colorBlocked : {FALSE}, lastError : {"none"}]
    /\ data.returned = {} => data.colors = "not_applicable"
    /\ lastUpdateSuccess = TRUE
    /\ lastRefreshError = "none"
    /\ refreshPc = "idle"
    /\ projected = NoRefresh
    /\ issues = Synced(data, "none")
    /\ pc = [e \in Callers |-> "idle"]
    /\ target = [e \in Callers |-> NoTarget]
    /\ authKnownBad = FALSE /\ schemaKnownBad = FALSE
    /\ disturbed = FALSE
    /\ quiet = TRUE

(***************************************************************************)
(* The refresh: _async_update_data, _async_read_data, _async_read_colors.  *)
(***************************************************************************)

\* a refresh begins and forgets the error of the one before
StartRefresh ==
    /\ refreshPc = "idle"
    /\ refreshPc' = "devices"
    /\ lastRefreshError' = "none"
    /\ disturbed' = FALSE
    /\ UNCHANGED <<serviceVars, data, lastUpdateSuccess, projected, issues, target,
                   knownVars, quiet>>

\* the poll interval has passed; after an authentication failure Home Assistant polls
\* no more until a requested refresh succeeds, which here it may
Poll == StartRefresh /\ UNCHANGED pc

\* mutant of Projected: the block list as the last snapshot had it
ProjectedFromData(returned) ==
    [returned |-> returned, blocked |-> data.blocked \cap returned]
\* _diagnostic_device for every selected device the controller returned
Projected(returned) ==
    [returned |-> returned, blocked |-> blockedDevices \cap returned]

\* version and devices are read and projected; a witness leads on to the colors
ReadDevices(returned) ==
    /\ refreshPc = "devices"
    /\ returned # {}
    /\ projected' = Projected(returned)
    /\ refreshPc' = "colors"
    /\ UNCHANGED <<serviceVars, data, lastUpdateSuccess, lastRefreshError,
                   issues, callerVars, knownVars, disturbed, quiet>>

\* callers that wait for the refresh go on
Released == [e \in Callers |-> IF pc[e] = "refreshing" THEN "syncing" ELSE pc[e]]

\* mutant of LastError: both codes are stored, not the first one set
LastErrorPair == <<colorErrorCode, lastErrorCode>>
\* the color service's code hides the Device service's
LastError == IF colorErrorCode # "none" THEN colorErrorCode ELSE lastErrorCode

\* a refresh succeeds with projection p: the data is replaced, the listener syncs
Succeed(p, status) ==
    /\ data' = [returned |-> p.returned, blocked |-> p.blocked, colors |-> status,
                colorBlocked |-> status = "ready" /\ siteBlocked,
                lastError |-> LastError]
    /\ lastUpdateSuccess' = TRUE
    /\ refreshPc' = "idle"
    /\ projected' = NoRefresh
    /\ issues' = Synced(data', lastRefreshError)
    /\ pc' = Released
    /\ authKnownBad' = FALSE /\ schemaKnownBad' = FALSE
    /\ quiet' = ~disturbed
    /\ UNCHANGED <<serviceVars, lastRefreshError, target, disturbed>>

\* no returned device can be a witness: colors are not applicable
FinishWithoutColors(returned) ==
    /\ refreshPc = "devices"
    /\ Succeed(Projected(returned), "not_applicable")

\* settings and labels are read, or fail for a reason other than authentication
FinishWithColors(status) ==
    /\ refreshPc = "colors"
    /\ Succeed(projected, status)

\* a refresh fails: the old data stays, the failure listener syncs
Fail(category) ==
    /\ lastRefreshError' = category
    /\ lastUpdateSuccess' = FALSE
    /\ refreshPc' = "idle"
    /\ projected' = NoRefresh
    /\ issues' = Synced(data, category)
    /\ pc' = Released
    /\ authKnownBad' = (category \in AuthErrors \/ (authKnownBad /\ category = "other"))
    /\ schemaKnownBad' = (category = "schema" \/ schemaKnownBad)
    /\ UNCHANGED <<serviceVars, data, target, disturbed, quiet>>

\* the version or device read fails
FailDevices(category) == refreshPc = "devices" /\ Fail(category)

\* color metadata is optional, but not when authentication is lost
FailColors == refreshPc = "colors" /\ Fail("authentication")

(***************************************************************************)
(* The entities: async_finish_verified_write.                              *)
(***************************************************************************)

\* a control or color of an available entity is set
StartWrite(e) ==
    /\ pc[e] = "idle"
    /\ lastUpdateSuccess
    /\ \/ \E d \in data.returned : target' = [target EXCEPT ![e] = d]
       \/ /\ data.colors = "ready"
          /\ ~data.colorBlocked
          /\ target' = [target EXCEPT ![e] = Site]
    /\ pc' = [pc EXCEPT ![e] = "writing"]
    /\ UNCHANGED <<serviceVars, coordinatorVars, issues, knownVars, disturbed, quiet>>

\* the service refuses (a block the snapshot did not show) or fails before it wrote
WriteRaises(e) ==
    /\ pc[e] = "writing"
    /\ pc' = [pc EXCEPT ![e] = "idle"]
    /\ target' = [target EXCEPT ![e] = NoTarget]
    /\ UNCHANGED <<serviceVars, coordinatorVars, issues, knownVars, disturbed, quiet>>

\* the service settles an outcome: its error code, and a block when indeterminate
WriteSettles(e, code) ==
    /\ pc[e] = "writing"
    /\ \/ /\ target[e] \in Devices \ blockedDevices
          /\ lastErrorCode' = code
          /\ blockedDevices' = IF code = "write_verification_failed"
                               THEN blockedDevices \cup {target[e]} ELSE blockedDevices
          /\ UNCHANGED <<siteBlocked, colorErrorCode>>
       \/ /\ target[e] = Site
          /\ ~siteBlocked
          /\ colorErrorCode' = code
          /\ siteBlocked' = (code = "write_verification_failed")
          /\ UNCHANGED <<blockedDevices, lastErrorCode>>
    /\ pc' = [pc EXCEPT ![e] = "requesting"]
    /\ disturbed' = TRUE
    /\ quiet' = FALSE
    /\ UNCHANGED <<coordinatorVars, issues, target, knownVars>>

\* async_request_refresh runs a refresh the entity waits for
RequestRefresh(e) ==
    /\ pc[e] = "requesting"
    /\ StartRefresh
    /\ pc' = [pc EXCEPT ![e] = "refreshing"]

\* async_request_refresh returns at once: Home Assistant's debouncer drops a request
\* while a refresh is running and postpones it while it cools down from another
SkipRefresh(e) ==
    /\ pc[e] = "requesting"
    /\ pc' = [pc EXCEPT ![e] = "syncing"]
    /\ UNCHANGED <<serviceVars, coordinatorVars, issues, target, knownVars, disturbed,
                   quiet>>

\* the entity syncs the Repairs with whatever data and error the coordinator has
SyncAfterWrite(e) ==
    /\ pc[e] = "syncing"
    /\ issues' = Synced(data, lastRefreshError)
    /\ pc' = [pc EXCEPT ![e] = "idle"]
    /\ target' = [target EXCEPT ![e] = NoTarget]
    /\ UNCHANGED <<serviceVars, coordinatorVars, knownVars, disturbed, quiet>>

ReadStep ==
    \/ \E r \in SUBSET Devices : ReadDevices(r) \/ FinishWithoutColors(r)
    \/ \E status \in {"ready", "unavailable"} : FinishWithColors(status)
    \/ \E c \in ErrorCategories : FailDevices(c)
    \/ FailColors

EntityStep(e) ==
    \/ StartWrite(e) \/ WriteRaises(e)
    \/ \E code \in Codes : WriteSettles(e, code)
    \/ RequestRefresh(e) \/ SkipRefresh(e) \/ SyncAfterWrite(e)

Next == Poll \/ ReadStep \/ \E e \in Callers : EntityStep(e)

Spec == Init /\ [][Next]_vars

\* the poll timer fires, requests end by their timeout
FairSpec == Spec /\ WF_vars(Poll) /\ WF_vars(ReadStep)

(***************************************************************************)
(* Properties.                                                             *)
(***************************************************************************)

\* Every variable stays in its set.
TypeOK ==
    /\ blockedDevices \subseteq Devices
    /\ siteBlocked \in BOOLEAN
    /\ lastErrorCode \in Codes
    /\ colorErrorCode \in Codes
    /\ data \in Data
    /\ lastUpdateSuccess \in BOOLEAN
    /\ lastRefreshError \in ErrorCategories \cup {"none"}
    /\ refreshPc \in {"idle", "devices", "colors"}
    /\ projected \in Projection \cup {NoRefresh}
    /\ issues \subseteq Issues
    /\ pc \in [Callers -> {"idle", "writing", "requesting", "refreshing", "syncing"}]
    /\ target \in [Callers -> Devices \cup {Site, NoTarget}]
    /\ authKnownBad \in BOOLEAN
    /\ schemaKnownBad \in BOOLEAN
    /\ disturbed \in BOOLEAN
    /\ quiet \in BOOLEAN

\* When no outcome was settled since the refresh behind the data began, the block
\* Repair is up exactly when a switch of the snapshot is blocked, or the site is
\* and its colors were read: neither failed refreshes nor the syncs of entities
\* that wrote during one take it back or bring back an old one.
BlockRepairIsExact ==
    quiet => ("write_blocked" \in issues <=>
                 \/ blockedDevices \cap data.returned # {}
                 \/ siteBlocked /\ data.colors = "ready")

\* The authentication and schema Repairs never outlive their cause: when one is
\* up, the last refresh that settled the question found it broken
\* (_AUTH_SETTLING_ERRORS, _SCHEMA_SETTLING_ERRORS).
RepairsNeverOverclaim ==
    /\ "authentication_failed" \in issues => authKnownBad
    /\ "api_schema_mismatch" \in issues => schemaKnownBad

\* README.md: the authentication and schema Repairs stay in step across
\* consecutive failed refreshes, keeping their last known state after a failure
\* that settles neither (repairs.py).
RepairsInStep ==
    /\ "authentication_failed" \in issues <=> authKnownBad
    /\ "api_schema_mismatch" \in issues <=> schemaKnownBad

\* a refresh that reads every selected switch
ReadsAll == ReadDevices(Devices)

\* If the controller serves complete refreshes again and again, a blocked switch
\* is reported by the block Repair, whatever refresh the block fell into.
BlockIsReported ==
    ([]<><<ReadsAll>>_vars /\ []<><<FinishWithColors("ready")>>_vars) =>
        \A d \in Devices : d \in blockedDevices ~> "write_blocked" \in issues
=============================================================================
