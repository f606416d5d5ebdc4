--------------------------- MODULE DeviceControl ---------------------------
(***************************************************************************)
(* The Device control service (brightness.py): one confirmed field of one  *)
(* switch is read, modified and written once as part of a whole-object     *)
(* PUT, read back and classified.  Writers are the coroutines of Home      *)
(* Assistant entities that call the service; they interleave at every      *)
(* await and share the service's write lock and block list.  The           *)
(* controller stores the objects; its operator edits them at any time.     *)
(***************************************************************************)
EXTENDS Naturals, FiniteSets, DeviceObject

CONSTANTS
    Devices,      \* adopted switches the config entry controls
    Writers,      \* coroutines that may call the service
    NoOne,        \* the free lock
    NoCall,       \* no call in progress
    NoObject,     \* no snapshot read yet
    Unknown,      \* nothing is asserted of a field
    MaxEdits,     \* bound: operator edits in a behaviour
    MaxLate,      \* bound: PUTs still travelling after their caller timed out
    Cancellable   \* may Home Assistant cancel a running call?

Call == [device : Devices, field : Controls, requested : Values \cup {Invalid}]

ASSUME SentinelsFresh ==
    /\ Unknown \notin Values \cup {Invalid}
    /\ NoOne \notin Writers
    /\ NoCall \notin Call
    /\ NoObject \notin Object
ASSUME BoundsAreNaturals == MaxEdits \in Nat /\ MaxLate \in Nat
ASSUME CancellableIsBoolean == Cancellable \in BOOLEAN

VARIABLES
    \* the controller and what is on its way to it
    dev, edits, late,
    \* the service object
    writeLock, blockedDevices, lastErrorCode,
    \* the coroutines: where each stands, its arguments, its `current` local
    pc, call, current,
    \* history, read by no action of the code: whether nothing has disturbed
    \* the call since its snapshot, the devices a PUT was sent to and no outcome
    \* settled, and what the settled outcomes say of every field
    calm, unproven, claim

controllerVars == <<dev, edits, late>>
serviceVars == <<writeLock, blockedDevices, lastErrorCode>>
writerVars == <<pc, call, current>>
historyVars == <<calm, unproven, claim>>
vars == <<dev, edits, late, writeLock, blockedDevices, lastErrorCode,
          pc, call, current, calm, unproven, claim>>

PcStates == {"idle", "queued", "version", "current", "put", "verify",
             "relogin", "classify"}
ErrorCodes == {"none", "write_not_applied", "write_verification_failed"}

\* what an outcome "field f is v and the rest is preserved" says of each field
Asserted(before, f, v) ==
    [g \in Fields |-> IF g = f THEN v
                      ELSE IF before[g] = Invalid THEN Unknown ELSE before[g]]

(***************************************************************************)
(* The coroutine's bookkeeping.                                            *)
(***************************************************************************)

\* mutant of LockFree: the read-modify-write is not serialized
LockFreeAlways(w) == w \in Writers
\* asyncio.Lock admits w
LockFree(w) == writeLock = NoOne

\* mutant of IsWriteBlocked: the block list is never consulted
NeverBlocked(d) == FALSE
IsWriteBlocked(d) == d \in blockedDevices

\* mutant of Leave: an exception path that skips the lock's release
LeaveLocked(w) ==
    /\ writeLock' = writeLock
    /\ pc' = [pc EXCEPT ![w] = "idle"]
    /\ call' = [call EXCEPT ![w] = NoCall]
    /\ current' = [current EXCEPT ![w] = NoObject]
    /\ calm' = [calm EXCEPT ![w] = TRUE]
\* the coroutine returns or raises: `async with` releases the lock
Leave(w) ==
    /\ writeLock' = NoOne
    /\ pc' = [pc EXCEPT ![w] = "idle"]
    /\ call' = [call EXCEPT ![w] = NoCall]
    /\ current' = [current EXCEPT ![w] = NoObject]
    /\ calm' = [calm EXCEPT ![w] = TRUE]

Goto(w, label) == pc' = [pc EXCEPT ![w] = label]

\* a request failed: an authentication or permission error logs in again first
Failed(w) == \E label \in {"classify", "relogin"} : Goto(w, label)

\* APPLIED or NOT_APPLIED: field f of the call's device is v, the rest preserved
Settle(w, v, code) ==
    LET d == call[w].device
    IN  /\ Leave(w)
        /\ lastErrorCode' = code
        /\ unproven' = unproven \ {d}
        /\ claim' = [claim EXCEPT ![d] = Asserted(current[w], call[w].field, v)]
        /\ UNCHANGED blockedDevices

\* mutant of Indeterminate: the outcome is reported and nothing is blocked
IndeterminateUnblocked(w) ==
    /\ Leave(w)
    /\ lastErrorCode' = "write_verification_failed"
    /\ UNCHANGED <<blockedDevices, unproven, claim>>
\* mutant of Indeterminate: the block is filed under the field, not the device
IndeterminateWrongKey(w) ==
    /\ Leave(w)
    /\ lastErrorCode' = "write_verification_failed"
    /\ blockedDevices' = blockedDevices \cup {call[w].field}
    /\ UNCHANGED <<unproven, claim>>
\* INDETERMINATE: the device is blocked until the runtime is rebuilt
Indeterminate(w) ==
    /\ Leave(w)
    /\ lastErrorCode' = "write_verification_failed"
    /\ blockedDevices' = blockedDevices \cup {call[w].device}
    /\ UNCHANGED <<unproven, claim>>

(***************************************************************************)
(* Initial state: a runtime just built, before any call.                   *)
(***************************************************************************)
Init ==
    /\ dev \in [Devices -> [Fields -> Values]]
    /\ edits = 0
    /\ late = {}
    /\ writeLock = NoOne
    /\ blockedDevices = {}
    /\ lastErrorCode = "none"
    /\ pc = [w \in Writers |-> "idle"]
    /\ call = [w \in Writers |-> NoCall]
    /\ current = [w \in Writers |-> NoObject]
    /\ calm = [w \in Writers |-> TRUE]
    /\ unproven = {}
    /\ claim = [d \in Devices |-> [g \in Fields |-> Unknown]]

(***************************************************************************)
(* The service's steps, one per await.                                     *)
(***************************************************************************)

\* an entity calls async_set_brightness / _behavior / _mode
Request(w) ==
    /\ pc[w] = "idle"
    /\ \E c \in Call : call' = [call EXCEPT ![w] = c]
    /\ Goto(w, "queued")
    /\ UNCHANGED <<controllerVars, serviceVars, current, historyVars>>

\* the lock is taken and given back: blocked device or invalid argument
Refuse(w) ==
    /\ pc[w] = "queued"
    /\ LockFree(w)
    /\ IsWriteBlocked(call[w].device) \/ call[w].requested = Invalid
    /\ Leave(w)
    /\ UNCHANGED <<controllerVars, blockedDevices, lastErrorCode, unproven, claim>>

\* the lock is taken and the call goes on to its first request
Begin(w) ==
    /\ pc[w] = "queued"
    /\ LockFree(w)
    /\ ~IsWriteBlocked(call[w].device)
    /\ call[w].requested # Invalid
    /\ writeLock' = w
    /\ Goto(w, "version")
    /\ UNCHANGED <<controllerVars, blockedDevices, lastErrorCode, call, current,
                   historyVars>>

\* authentication is ensured and the Network version read and supported
ReadVersion(w) ==
    /\ pc[w] = "version"
    /\ Goto(w, "current")
    /\ UNCHANGED <<controllerVars, serviceVars, call, current, historyVars>>

\* a request before the PUT fails, or the version is unsupported: the error
\* leaves the service, nothing is recorded
RaiseBeforePut(w) ==
    /\ pc[w] \in {"version", "current"}
    /\ Leave(w)
    /\ UNCHANGED <<controllerVars, blockedDevices, lastErrorCode, unproven, claim>>

\* the device is read but a contract field is missing or unconfirmed
ReadUnsupported(w) ==
    /\ pc[w] = "current"
    /\ ~ContractHolds(dev[call[w].device])
    /\ Leave(w)
    /\ UNCHANGED <<controllerVars, blockedDevices, lastErrorCode, unproven, claim>>

\* the device already has the requested value: APPLIED without a write
ReadNoOp(w) ==
    LET d == call[w].device
        f == call[w].field
    IN  /\ pc[w] = "current"
        /\ ContractHolds(dev[d])
        /\ dev[d][f] = call[w].requested
        /\ Leave(w)
        /\ lastErrorCode' = "none"
        /\ claim' = [claim EXCEPT ![d][f] = call[w].requested]
        /\ UNCHANGED <<controllerVars, blockedDevices, unproven>>

\* the device is read; this object is what the PUT will be built from
ReadCurrent(w) ==
    LET d == call[w].device
    IN  /\ pc[w] = "current"
        /\ ContractHolds(dev[d])
        /\ dev[d][call[w].field] # call[w].requested
        /\ current' = [current EXCEPT ![w] = dev[d]]
        /\ calm' = [calm EXCEPT ![w] = TRUE]
        /\ Goto(w, "put")
        /\ UNCHANGED <<controllerVars, serviceVars, call, unproven, claim>>

PayloadOf(w) == BuildPayload(current[w], call[w].field, call[w].requested)

\* the PUT is sent and the controller stores the fields S of its payload
Sent(w, S) ==
    LET d == call[w].device
    IN  /\ dev' = [dev EXCEPT ![d] = Stored(dev[d], PayloadOf(w), S)]
        /\ unproven' = unproven \cup {d}
        /\ claim' = [claim EXCEPT ![d][call[w].field] = Unknown]

\* the reply confirms the requested value, whatever the controller stored
PutConfirmed(w) ==
    /\ pc[w] = "put"
    /\ \E S \in SUBSET WriteFields :
          /\ Sent(w, S)
          /\ calm' = [calm EXCEPT ![w] = calm[w] /\ S = WriteFields]
    /\ Goto(w, "verify")
    /\ UNCHANGED <<edits, late, serviceVars, call, current>>

\* the PUT raises: refused, answered unexpectedly, or lost in either direction
PutFails(w) ==
    /\ pc[w] = "put"
    /\ \E S \in SUBSET WriteFields : Sent(w, S)
    /\ calm' = [calm EXCEPT ![w] = FALSE]
    /\ Failed(w)
    /\ UNCHANGED <<edits, late, serviceVars, call, current>>

\* the PUT times out at the client while the controller has yet to handle it
PutTimesOut(w) ==
    /\ pc[w] = "put"
    /\ Cardinality(late) < MaxLate
    /\ late' = late \cup {[device |-> call[w].device, payload |-> PayloadOf(w)]}
    /\ Sent(w, {})
    /\ calm' = [calm EXCEPT ![w] = FALSE]
    /\ Goto(w, "classify")
    /\ UNCHANGED <<edits, serviceVars, call, current>>

\* the independent read confirms value and preservation: APPLIED
VerifyConfirms(w) ==
    LET d == call[w].device
        f == call[w].field
    IN  /\ pc[w] = "verify"
        /\ dev[d][f] = call[w].requested
        /\ Preserved(current[w], dev[d], f)
        /\ Settle(w, call[w].requested, "none")
        /\ UNCHANGED controllerVars

\* the independent read shows something else
VerifyMismatch(w) ==
    LET d == call[w].device
        f == call[w].field
    IN  /\ pc[w] = "verify"
        /\ dev[d][f] # call[w].requested \/ ~Preserved(current[w], dev[d], f)
        /\ Goto(w, "classify")
        /\ UNCHANGED <<controllerVars, serviceVars, call, current, historyVars>>

\* the independent read raises
VerifyFails(w) ==
    /\ pc[w] = "verify"
    /\ Failed(w)
    /\ calm' = [calm EXCEPT ![w] = FALSE]
    /\ UNCHANGED <<controllerVars, serviceVars, call, current, unproven, claim>>

\* the classification's fresh login succeeds
Relogin(w) ==
    /\ pc[w] = "relogin"
    /\ Goto(w, "classify")
    /\ UNCHANGED <<controllerVars, serviceVars, call, current, historyVars>>

\* the classifying read shows the requested value and nothing else changed
ClassifyApplied(w) ==
    LET d == call[w].device
        f == call[w].field
    IN  /\ pc[w] = "classify"
        /\ dev[d][f] = call[w].requested
        /\ Preserved(current[w], dev[d], f)
        /\ Settle(w, call[w].requested, "none")
        /\ UNCHANGED controllerVars

\* the classifying read shows the old value and nothing else changed
ClassifyNotApplied(w) ==
    LET d == call[w].device
        f == call[w].field
    IN  /\ pc[w] = "classify"
        /\ dev[d][f] = current[w][f]
        /\ Preserved(current[w], dev[d], f)
        /\ Settle(w, current[w][f], "write_not_applied")
        /\ UNCHANGED controllerVars

\* neither can be proven
ClassifyIndeterminate(w) ==
    LET d == call[w].device
        f == call[w].field
    IN  /\ pc[w] = "classify"
        /\ \/ dev[d][f] \notin {call[w].requested, current[w][f]}
           \/ ~Preserved(current[w], dev[d], f)
        /\ Indeterminate(w)
        /\ UNCHANGED controllerVars

\* the classification's login or read raises
ClassifyFails(w) ==
    /\ pc[w] \in {"relogin", "classify"}
    /\ Indeterminate(w)
    /\ UNCHANGED controllerVars

\* Home Assistant cancels the call while it waits; CancelledError passes every
\* except clause of the service, so nothing is classified
Cancel(w) ==
    /\ Cancellable
    /\ pc[w] \notin {"idle", "queued", "put"}
    /\ Leave(w)
    /\ UNCHANGED <<controllerVars, blockedDevices, lastErrorCode, unproven, claim>>

\* a call cancelled while it waits for the lock does not hold it
CancelQueued(w) ==
    /\ Cancellable
    /\ pc[w] = "queued"
    /\ Goto(w, "idle")
    /\ call' = [call EXCEPT ![w] = NoCall]
    /\ UNCHANGED <<controllerVars, serviceVars, current, historyVars>>

\* a call cancelled during its PUT, which the controller may have stored
CancelPut(w) ==
    /\ Cancellable
    /\ pc[w] = "put"
    /\ \E S \in {{}, WriteFields} : Sent(w, S)
    /\ Leave(w)
    /\ UNCHANGED <<edits, late, blockedDevices, lastErrorCode>>

(***************************************************************************)
(* The controller's own steps.                                             *)
(***************************************************************************)

\* the calls on device d are disturbed
Disturb(d) ==
    calm' = [w \in Writers |-> calm[w] /\ (call[w] = NoCall \/ call[w].device # d)]

\* the operator, or the controller itself, changes one field
Edit(d) ==
    /\ edits < MaxEdits
    /\ edits' = edits + 1
    /\ \E g \in Fields, v \in Values \cup {Invalid} :
          /\ v # dev[d][g]
          /\ dev' = [dev EXCEPT ![d][g] = v]
          /\ claim' = [claim EXCEPT ![d][g] = Unknown]
    /\ Disturb(d)
    /\ UNCHANGED <<late, serviceVars, writerVars, unproven>>

\* the controller gets to a PUT whose caller gave up waiting
ApplyLate ==
    \E r \in late :
        /\ late' = late \ {r}
        /\ dev' = [dev EXCEPT ![r.device] =
                       Stored(dev[r.device], r.payload, WriteFields)]
        /\ Disturb(r.device)
        /\ UNCHANGED <<edits, serviceVars, writerVars, unproven, claim>>

Acquire(w) == Refuse(w) \/ Begin(w)

Progress(w) ==
    \/ ReadVersion(w) \/ RaiseBeforePut(w)
    \/ ReadUnsupported(w) \/ ReadNoOp(w) \/ ReadCurrent(w)
    \/ PutConfirmed(w) \/ PutFails(w) \/ PutTimesOut(w)
    \/ VerifyConfirms(w) \/ VerifyMismatch(w) \/ VerifyFails(w)
    \/ Relogin(w)
    \/ ClassifyApplied(w) \/ ClassifyNotApplied(w)
    \/ ClassifyIndeterminate(w) \/ ClassifyFails(w)

WriterNext(w) ==
    \/ Request(w) \/ Acquire(w) \/ Progress(w)
    \/ Cancel(w) \/ CancelQueued(w) \/ CancelPut(w)

Next ==
    \/ \E w \in Writers : WriterNext(w)
    \/ \E d \in Devices : Edit(d)
    \/ ApplyLate

Spec == Init /\ [][Next]_vars

(***************************************************************************)
(* Properties.                                                             *)
(***************************************************************************)

\* Every variable stays in its set (the type invariant of the service's
\* attributes, its coroutines' locals and the controller's objects).
TypeOK ==
    /\ dev \in [Devices -> Object]
    /\ edits \in 0..MaxEdits
    /\ late \subseteq [device : Devices, payload : Payload]
    /\ writeLock \in Writers \cup {NoOne}
    /\ blockedDevices \subseteq Devices
    /\ lastErrorCode \in ErrorCodes
    /\ pc \in [Writers -> PcStates]
    /\ call \in [Writers -> Call \cup {NoCall}]
    /\ current \in [Writers -> Object \cup {NoObject}]
    /\ calm \in [Writers -> BOOLEAN]
    /\ unproven \subseteq Devices
    /\ claim \in [Devices -> [Fields -> Values \cup {Invalid, Unknown}]]

\* The object a PUT is about to be built from is still what the controller
\* holds, unless someone outside the integration changed it: no other entity's
\* write slips in between the read and the PUT (_async_set_value's lock).
SnapshotCurrent ==
    \A w \in Writers :
        pc[w] = "put" /\ calm[w] => dev[call[w].device] = current[w]

\* What the last settled outcome said of a field is still true, until the
\* operator edits that field: applied and not_applied outcomes are true, and no
\* later whole-object PUT of the integration takes an earlier one back
\* (_async_set_value_locked, _classify_after_failure).
ClaimsHold ==
    \A d \in Devices, g \in Fields :
        claim[d][g] # Unknown => dev[d][g] = claim[d][g]

\* A device that a PUT was sent to and whose outcome was not proven is blocked,
\* or the call that sent it is still verifying: no way out of the service
\* leaves an ambiguous write behind unblocked (_classify_after_failure).
UnprovenIsBlocked ==
    \A d \in unproven :
        \/ d \in blockedDevices
        \/ \E w \in Writers : /\ pc[w] \in {"verify", "relogin", "classify"}
                              /\ call[w].device = d

\* No call that is about to write targets a device with an unproven write: a
\* queued entity action cannot follow an ambiguous one on the same switch.
NoWriteOverUnproven ==
    \A w \in Writers : pc[w] = "put" => call[w].device \notin unproven

\* A call is handed to the classification only after a fault, a deviating
\* controller or an outside edit: an undisturbed write is confirmed by its
\* verifying read, never reported or blocked by mistake (_configuration_preserved
\* accepts exactly what build_etherlighting_write_payload changes).
NoFalseAlarm ==
    \A w \in Writers : pc[w] \in {"relogin", "classify"} => ~calm[w]

\* A blocked device changes only by the operator's hand or by a PUT sent before
\* the block: calls already queued when the block falls do not write either.
BlockedStaysSilent ==
    [][\A d \in blockedDevices :
          dev'[d] # dev[d] => edits' # edits \/ late' # late]_vars

\* The service keeps the promise of VerifiedWrite, if no call is cancelled and no
\* PUT outlives its caller: of all switches at most one is in doubt, it ends settled
\* or blocked, blocked switches are not written, and no call takes back what an
\* earlier outcome claimed (DeviceControlService as its callers see it).
Promise == INSTANCE VerifiedWrite WITH
    Resources <- Devices, Targets <- Fields, Contents <- Values \cup {Invalid},
    value <- dev, outside <- edits, blocked <- blockedDevices,
    doubt <- unproven \ blockedDevices
ImplementsVerifiedWrite == Promise!Spec
=============================================================================
