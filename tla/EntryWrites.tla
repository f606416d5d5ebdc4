---------------------------- MODULE EntryWrites ----------------------------
(***************************************************************************)
(* The write side of one config entry: the Device control service and the  *)
(* color service built by async_setup_entry over the same controller and   *)
(* around the same write lock.  A color write ends with a PUT to a switch, *)
(* so the two services meet in the switch objects as well as in the lock.  *)
(* PUTs that outlive their caller are left to DeviceControl.               *)
(***************************************************************************)
EXTENDS Naturals, FiniteSets

CONSTANTS
    Devices, Controls, Companions, Stables, Values, Invalid,
    Writers, Painters,
    Slots, Channels, MaxChannel, Factory, Absent,
    NoOne, NoCall, NoObject, NoPalette, Unknown,
    MaxEdits, MaxLate, KeysVanish, Cancellable

ASSUME CallersDisjoint == Writers \cap Painters = {}

VARIABLES
    dev, edits, late, palette,
    writeLock,
    \* DeviceControlService and its callers
    blockedDevices, lastErrorCode, pc, call, current, calm, unproven, claim,
    \* EtherlightingColorService and its callers
    siteBlocked, colorErrorCode, paintPc, paintCall, witness, paintCurrent, seen,
    paintCalm, touched, siteUnproven, siteClaim

D == INSTANCE DeviceControl
C == INSTANCE ColorControl WITH pc <- paintPc, call <- paintCall,
                                current <- paintCurrent, calm <- paintCalm

\* what either service assumes of its constants
ASSUME EntryFields ==
    /\ Controls \cap Companions = {} /\ Controls \cap Stables = {}
    /\ Companions \cap Stables = {} /\ Invalid \notin Values
ASSUME EntrySentinels ==
    /\ Unknown \notin Values \cup {Invalid} /\ Unknown \notin C!Color \cup {Absent}
    /\ NoOne \notin Writers \cup Painters
    /\ NoCall \notin D!Call /\ NoCall \notin C!ColorCall
    /\ NoObject \notin D!Object /\ NoPalette \notin C!Palette
    /\ Absent \notin C!Color /\ Factory \subseteq C!Color
ASSUME EntryBounds ==
    /\ MaxEdits \in Nat /\ MaxLate \in Nat /\ MaxChannel \in Nat
    /\ KeysVanish \in BOOLEAN /\ Cancellable \in BOOLEAN

deviceOnly == <<late, blockedDevices, lastErrorCode, pc, call, current, calm, unproven,
                claim>>
colorOnly == <<palette, siteBlocked, colorErrorCode, paintPc, paintCall, witness,
               paintCurrent, seen, paintCalm, touched, siteUnproven, siteClaim>>
vars == <<dev, edits, writeLock, deviceOnly, colorOnly>>

Init == D!Init /\ C!Init

\* a step of a number, select or switch entity's call
DeviceStep(w) == D!WriterNext(w) /\ UNCHANGED colorOnly

\* a step of a color light's call; its refresh PUT is not the Device service's,
\* whose block list and bookkeeping it neither reads nor changes
ColorStep(w) == (C!PainterNext(w) \/ C!Faults(w)) /\ UNCHANGED deviceOnly

\* the operator changes a switch or a color
EditDevice(d) ==
    /\ D!Edit(d)
    /\ C!Disturb(d)
    /\ UNCHANGED <<palette, siteBlocked, colorErrorCode, paintPc, paintCall, witness,
                   paintCurrent, seen, touched, siteUnproven, siteClaim>>

EditPalette(s) == C!EditPalette(s) /\ UNCHANGED deviceOnly

Next ==
    \/ \E w \in Writers : DeviceStep(w)
    \/ \E w \in Painters : ColorStep(w)
    \/ \E d \in Devices : EditDevice(d)
    \/ \E s \in Slots : EditPalette(s)

Spec == Init /\ [][Next]_vars

\* every request ends by its 15 s timeout, and asyncio.Lock wakes its waiters in
\* order, so no waiter of either service is passed over for ever
Fairness ==
    /\ \A w \in Writers : /\ WF_vars(D!Progress(w) /\ UNCHANGED colorOnly)
                          /\ SF_vars(D!Acquire(w) /\ UNCHANGED colorOnly)
    /\ \A w \in Painters : /\ WF_vars((C!Progress(w) \/ C!KeyErrors(w)) /\ UNCHANGED deviceOnly)
                           /\ SF_vars(C!Acquire(w) /\ UNCHANGED deviceOnly)
FairSpec == Spec /\ Fairness

(***************************************************************************)
(* Properties.                                                             *)
(***************************************************************************)

\* A settled Device outcome survives color writes: the refresh PUT carries the
\* witness as it is, never as it was before a concurrent control write.
DeviceOutcomesHold == D!ClaimsHold

\* Neither service's snapshot goes stale through the other: between a call's
\* read and the write built from it no call of the other kind writes.
SnapshotsCurrentAcross == D!SnapshotCurrent /\ C!SnapshotsCurrent

\* A control write is not disturbed by a color write, nor the reverse: without
\* faults and outside edits both are confirmed by their verifying reads.
NoCrossAlarm == D!NoFalseAlarm /\ C!NoFalseAlarm

\* Every control write and every color write ends: neither service keeps the lock
\* they share, on any way out, an exception it does not catch and a cancellation
\* included.
EveryCallEnds ==
    /\ \A w \in Writers : pc[w] # "idle" ~> pc[w] = "idle"
    /\ \A w \in Painters : paintPc[w] # "idle" ~> paintPc[w] = "idle"

\* A blocked site's palette changes only by the operator's hand, whichever service
\* holds the lock and whoever was cancelled (async_set_color's _blocked_sites).
BlockedSiteStaysSilent == [][C!SiteStaysSilent]_vars
=============================================================================
