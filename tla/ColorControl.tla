---------------------------- MODULE ColorControl ----------------------------
(***************************************************************************)
(* The site color service (color.py): one color of the site's palette is   *)
(* changed by posting both complete override arrays, followed by a no-op   *)
(* Device PUT to a witness switch; both resources are read back and the    *)
(* write is classified.  Painters are the coroutines of the color light    *)
(* entities; the operator edits palette and switches at any time.          *)
(***************************************************************************)
EXTENDS Integers, DeviceObject

CONSTANTS
    Devices, Painters,
    Slots,         \* (category, key) of the palette: a VLAN or a link speed
    Channels,      \* the color channels: r, g, b
    MaxChannel,    \* bound: a channel's largest value (255)
    Factory,       \* the colors the controller starts with
    Absent,        \* no entry for a slot in an array
    NoOne, NoCall, NoObject, NoPalette, Unknown,
    MaxEdits,      \* bound: operator edits in a behaviour
    KeysVanish,    \* may a slot disappear from the defaults (a VLAN is deleted)?
    Cancellable    \* may Home Assistant cancel a running call?

Color == [Channels -> 0..MaxChannel]
Mapping == [Slots -> Color \cup {Absent}]
Palette == [defaults : Mapping, overrides : Mapping]
ColorCall == [device : Devices, slot : Slots, requested : Color \cup {Absent}]

ASSUME FactoryColors == Factory \subseteq Color
ASSUME ColorSentinelsFresh ==
    /\ Absent \notin Color
    /\ Unknown \notin Color \cup {Absent}
    /\ NoOne \notin Painters
    /\ NoCall \notin ColorCall
    /\ NoObject \notin Object
    /\ NoPalette \notin Palette
ASSUME ColorBounds ==
    /\ MaxChannel \in Nat
    /\ MaxEdits \in Nat
    /\ KeysVanish \in BOOLEAN
    /\ Cancellable \in BOOLEAN

VARIABLES
    \* the controller
    dev, palette, edits,
    \* the service object; writeLock is the entry's, shared with DeviceControl
    writeLock, siteBlocked, colorErrorCode,
    \* the coroutines: place, arguments, `witness`, `current`, the settings last read
    pc, call, witness, current, seen,
    \* history: calls nothing has disturbed since their snapshots, slots edited
    \* since `seen` was read, whether a POST was sent that no outcome settled,
    \* what settled outcomes say of each slot
    calm, touched, siteUnproven, siteClaim

controllerVars == <<dev, palette, edits>>
serviceVars == <<writeLock, siteBlocked, colorErrorCode>>
painterVars == <<pc, call, witness, current, seen>>
historyVars == <<calm, touched, siteUnproven, siteClaim>>
siteHistory == <<siteUnproven, siteClaim>>
vars == <<controllerVars, serviceVars, painterVars, historyVars>>

PcStates == {"idle", "queued", "version", "witness", "settings", "post", "refresh",
             "vsettings", "vdevice", "relogin", "csettings", "cdevice"}
ErrorCodes == {"none", "write_not_applied", "write_verification_failed"}

(***************************************************************************)
(* Data: colors and palettes.                                              *)
(***************************************************************************)

\* what the controller may make of a color: itself, or one channel a step off
Normalized(a) ==
    {a} \cup {b \in Color : \E c \in Channels :
                 /\ a[c] - b[c] \in {-1, 1}
                 /\ \A e \in Channels \ {c} : a[e] = b[e]}

\* mutant of Equivalent: the controller's normalization is not allowed for
EquivalentExactly(a, b) == a = b
\* _colors_equivalent: equal, or one channel off by one
Equivalent(a, b) ==
    \A c \in Channels : /\ a[c] - b[c] \in -1..1
                        /\ a[c] # b[c] => \A e \in Channels \ {c} : a[e] = b[e]

\* the slot is among the confirmed defaults: effective_color raises otherwise
HasKey(p, s) == p.defaults[s] # Absent

\* effective_color: the override, or else the default
Effective(p, s) == IF p.overrides[s] # Absent THEN p.overrides[s] ELSE p.defaults[s]

\* mutant of SettingsPreserved: the overrides are not compared
SettingsPreservedDefaultsOnly(before, after, s) == after.defaults = before.defaults
\* _settings_preserved: defaults and all other overrides, hence all other colors
SettingsPreserved(before, after, s) ==
    /\ after.defaults = before.defaults
    /\ \A t \in Slots \ {s} : after.overrides[t] = before.overrides[t]

\* _replace_override: the complete array with one entry replaced or appended
ReplaceOverride(overrides, s, c) == [overrides EXCEPT ![s] = c]

(***************************************************************************)
(* The coroutine's bookkeeping.                                            *)
(***************************************************************************)

Goto(w, label) == pc' = [pc EXCEPT ![w] = label]
Failed(w) == \E label \in {"csettings", "relogin"} : Goto(w, label)

\* mutant of LockFree: colors take a lock of their own, or none
LockFreeAlways(w) == w \in Painters
LockFree(w) == writeLock = NoOne

\* mutant of IsWriteBlocked: the block is never consulted
NeverBlocked == FALSE
IsWriteBlocked == siteBlocked

\* the coroutine returns or raises and the lock is released
Leave(w) ==
    /\ writeLock' = NoOne
    /\ Goto(w, "idle")
    /\ call' = [call EXCEPT ![w] = NoCall]
    /\ witness' = [witness EXCEPT ![w] = NoObject]
    /\ current' = [current EXCEPT ![w] = NoPalette]
    /\ seen' = [seen EXCEPT ![w] = NoPalette]
    /\ calm' = [calm EXCEPT ![w] = TRUE]
    /\ touched' = [touched EXCEPT ![w] = {}]

\* what an outcome says of slot t: the written one is as the last settings read
\* showed it, the others are as they were before the write
Asserted(w, t) ==
    LET p == IF t = call[w].slot THEN seen[w] ELSE current[w]
    IN  IF t \in touched[w] \/ ~HasKey(p, t) THEN Unknown ELSE Effective(p, t)

\* APPLIED or NOT_APPLIED
Settle(w, code) ==
    /\ Leave(w)
    /\ colorErrorCode' = code
    /\ siteUnproven' = FALSE
    /\ siteClaim' = [t \in Slots |-> Asserted(w, t)]
    /\ UNCHANGED siteBlocked

\* mutant of Indeterminate: the outcome is reported and nothing is blocked
IndeterminateUnblocked(w) ==
    /\ Leave(w)
    /\ colorErrorCode' = "write_verification_failed"
    /\ UNCHANGED <<siteBlocked, siteHistory>>
\* mutant of Indeterminate: the block is filed under the color, not the site
IndeterminateWrongKey(w) ==
    /\ Leave(w)
    /\ colorErrorCode' = "write_verification_failed"
    /\ siteBlocked' = call[w].slot
    /\ UNCHANGED siteHistory
\* INDETERMINATE: the site is blocked until the runtime is rebuilt
Indeterminate(w) ==
    /\ Leave(w)
    /\ colorErrorCode' = "write_verification_failed"
    /\ siteBlocked' = TRUE
    /\ UNCHANGED siteHistory

(***************************************************************************)
(* Initial state.                                                          *)
(***************************************************************************)
Init ==
    /\ dev \in [Devices -> [Fields -> Values]]
    /\ palette \in [defaults : [Slots -> Factory], overrides : [Slots -> {Absent}]]
    /\ edits = 0
    /\ writeLock = NoOne
    /\ siteBlocked = FALSE
    /\ colorErrorCode = "none"
    /\ pc = [w \in Painters |-> "idle"]
    /\ call = [w \in Painters |-> NoCall]
    /\ witness = [w \in Painters |-> NoObject]
    /\ current = [w \in Painters |-> NoPalette]
    /\ seen = [w \in Painters |-> NoPalette]
    /\ calm = [w \in Painters |-> TRUE]
    /\ touched = [w \in Painters |-> {}]
    /\ siteUnproven = FALSE
    /\ siteClaim = [s \in Slots |-> Unknown]

(***************************************************************************)
(* The service's steps, one per await.                                     *)
(***************************************************************************)

\* a color light calls async_set_color with the witness the coordinator chose
Request(w) ==
    /\ pc[w] = "idle"
    /\ \E c \in ColorCall : call' = [call EXCEPT ![w] = c]
    /\ Goto(w, "queued")
    /\ UNCHANGED <<controllerVars, serviceVars, witness, current, seen, historyVars>>

\* blocked site or malformed color: the lock is taken and given back
Refuse(w) ==
    /\ pc[w] = "queued"
    /\ LockFree(w)
    /\ IsWriteBlocked \/ call[w].requested = Absent
    /\ Leave(w)
    /\ UNCHANGED <<controllerVars, siteBlocked, colorErrorCode, siteHistory>>

Begin(w) ==
    /\ pc[w] = "queued"
    /\ LockFree(w)
    /\ ~IsWriteBlocked
    /\ call[w].requested # Absent
    /\ writeLock' = w
    /\ Goto(w, "version")
    /\ UNCHANGED <<controllerVars, siteBlocked, colorErrorCode, call, witness, current,
                   seen, historyVars>>

\* authentication is ensured and the Network version read
ReadVersion(w) ==
    /\ pc[w] = "version"
    /\ Goto(w, "witness")
    /\ UNCHANGED <<controllerVars, serviceVars, call, witness, current, seen, historyVars>>

\* the witness switch is read and its complete contract holds
ReadWitness(w) ==
    LET o == dev[call[w].device]
    IN  /\ pc[w] = "witness"
        /\ ContractHolds(o)
        /\ witness' = [witness EXCEPT ![w] = o]
        /\ calm' = [calm EXCEPT ![w] = TRUE]
        /\ Goto(w, "settings")
        /\ UNCHANGED <<controllerVars, serviceVars, call, current, seen,
                       touched, siteHistory>>

\* a read before the POST raises, the contract does not hold, the version is
\* unsupported, or the slot is gone: the error leaves the service
RaiseBeforePost(w) ==
    /\ pc[w] \in {"version", "witness", "settings"}
    /\ Leave(w)
    /\ UNCHANGED <<controllerVars, siteBlocked, colorErrorCode, siteHistory>>

\* the color is already the requested one: APPLIED without a write
ReadNoOp(w) ==
    LET s == call[w].slot
    IN  /\ pc[w] = "settings"
        /\ HasKey(palette, s)
        /\ Effective(palette, s) = call[w].requested
        /\ Leave(w)
        /\ colorErrorCode' = "none"
        /\ siteClaim' = [siteClaim EXCEPT ![s] = call[w].requested]
        /\ UNCHANGED <<controllerVars, siteBlocked, siteUnproven>>

\* the palette is read that the POST will be built from
ReadSettings(w) ==
    LET s == call[w].slot
    IN  /\ pc[w] = "settings"
        /\ HasKey(palette, s)
        /\ Effective(palette, s) # call[w].requested
        /\ current' = [current EXCEPT ![w] = palette]
        /\ Goto(w, "post")
        /\ UNCHANGED <<controllerVars, serviceVars, call, witness, seen, historyVars>>

\* the POST is sent; the controller stores its arrays' entries T, the changed
\* color possibly one channel step away
Posted(w, T) ==
    LET s == call[w].slot
        sent == ReplaceOverride(current[w].overrides, s, call[w].requested)
    IN  /\ \E c \in Normalized(call[w].requested) :
              palette' = [palette EXCEPT !.overrides =
                  [t \in Slots |-> IF t \notin T THEN palette.overrides[t]
                                   ELSE IF t = s THEN c ELSE sent[t]]]
        /\ siteUnproven' = TRUE
        /\ siteClaim' = [siteClaim EXCEPT ![s] = Unknown]

\* the reply shows the requested color and the preserved rest, whatever is stored
PostConfirmed(w) ==
    /\ pc[w] = "post"
    /\ \E T \in SUBSET Slots :
          /\ Posted(w, T)
          /\ calm' = [calm EXCEPT ![w] = calm[w] /\ T = Slots]
    /\ Goto(w, "refresh")
    /\ UNCHANGED <<dev, edits, serviceVars, call, witness, current, seen, touched>>

\* the POST raises, or its reply differs
PostFails(w) ==
    /\ pc[w] = "post"
    /\ \E T \in SUBSET Slots : Posted(w, T)
    /\ calm' = [calm EXCEPT ![w] = FALSE]
    /\ Failed(w)
    /\ UNCHANGED <<dev, edits, serviceVars, call, witness, current, seen, touched>>

\* the reply's defaults no longer have the slot: effective_color raises a
\* KeyError, which none of the except clauses catches
PostKeyError(w) ==
    /\ pc[w] = "post"
    /\ ~HasKey(palette, call[w].slot)
    /\ \E T \in SUBSET Slots : Posted(w, T)
    /\ Leave(w)
    /\ UNCHANGED <<dev, edits, siteBlocked, colorErrorCode>>

\* the no-op PUT to the witness: the controller stores its fields S
Refreshed(w, S) ==
    LET d == call[w].device
    IN  dev' = [dev EXCEPT ![d] = Stored(dev[d], BuildRefresh(witness[w]), S)]

RefreshConfirmed(w) ==
    /\ pc[w] = "refresh"
    /\ \E S \in SUBSET WriteFields : Refreshed(w, S)
    /\ Goto(w, "vsettings")
    /\ UNCHANGED <<palette, edits, serviceVars, call, witness, current, seen, calm,
                   touched, siteHistory>>

\* the PUT raises, or its reply is not the witness's lighting
RefreshFails(w) ==
    /\ pc[w] = "refresh"
    /\ \E S \in SUBSET WriteFields : Refreshed(w, S)
    /\ calm' = [calm EXCEPT ![w] = FALSE]
    /\ Failed(w)
    /\ UNCHANGED <<palette, edits, serviceVars, call, witness, current, seen, touched,
                   siteHistory>>

\* the palette is read for the verification or the classification
ReadBack(w) ==
    /\ seen' = [seen EXCEPT ![w] = palette]
    /\ touched' = [touched EXCEPT ![w] = {}]
    /\ UNCHANGED <<controllerVars, serviceVars, call, witness, current, calm, siteHistory>>

VerifySettings(w) == pc[w] = "vsettings" /\ Goto(w, "vdevice") /\ ReadBack(w)
ClassifySettings(w) == pc[w] = "csettings" /\ Goto(w, "cdevice") /\ ReadBack(w)

\* one of the verifying reads raises
VerifyFails(w) ==
    /\ pc[w] \in {"vsettings", "vdevice"}
    /\ Failed(w)
    /\ calm' = [calm EXCEPT ![w] = FALSE]
    /\ UNCHANGED <<controllerVars, serviceVars, call, witness, current, seen, touched,
                   siteHistory>>

\* everything but the slot's color is as it was
Preserves(w) ==
    /\ SettingsPreserved(current[w], seen[w], call[w].slot)
    /\ DevicePreserved(witness[w], dev[call[w].device])
\* the read-back palette has the slot with the requested color, give or take a step
ShowsRequested(w) ==
    /\ HasKey(seen[w], call[w].slot)
    /\ Equivalent(call[w].requested, Effective(seen[w], call[w].slot))
ShowsOriginal(w) ==
    /\ HasKey(seen[w], call[w].slot)
    /\ Effective(seen[w], call[w].slot) = Effective(current[w], call[w].slot)

\* the witness is read back and both resources confirm the write: APPLIED
VerifyConfirms(w) ==
    /\ pc[w] = "vdevice"
    /\ ShowsRequested(w) /\ Preserves(w)
    /\ Settle(w, "none")
    /\ UNCHANGED controllerVars

VerifyMismatch(w) ==
    /\ pc[w] = "vdevice"
    /\ HasKey(seen[w], call[w].slot)
    /\ ~(ShowsRequested(w) /\ Preserves(w))
    /\ Goto(w, "csettings")
    /\ UNCHANGED <<controllerVars, serviceVars, call, witness, current, seen, historyVars>>

\* the read-back palette has lost the slot: the KeyError leaves the service
VerifyKeyError(w) ==
    /\ pc[w] = "vdevice"
    /\ ~HasKey(seen[w], call[w].slot)
    /\ Leave(w)
    /\ UNCHANGED <<controllerVars, siteBlocked, colorErrorCode, siteHistory>>

Relogin(w) ==
    /\ pc[w] = "relogin"
    /\ Goto(w, "csettings")
    /\ UNCHANGED <<controllerVars, serviceVars, call, witness, current, seen, historyVars>>

ClassifyApplied(w) ==
    /\ pc[w] = "cdevice"
    /\ Preserves(w) /\ ShowsRequested(w)
    /\ Settle(w, "none")
    /\ UNCHANGED controllerVars

ClassifyNotApplied(w) ==
    /\ pc[w] = "cdevice"
    /\ Preserves(w) /\ ~ShowsRequested(w) /\ ShowsOriginal(w)
    /\ Settle(w, "write_not_applied")
    /\ UNCHANGED controllerVars

ClassifyIndeterminate(w) ==
    /\ pc[w] = "cdevice"
    /\ ~(Preserves(w) /\ (ShowsRequested(w) \/ ShowsOriginal(w)))
    /\ Indeterminate(w)
    /\ UNCHANGED controllerVars

\* the classification's login or one of its reads raises
ClassifyFails(w) ==
    /\ pc[w] \in {"relogin", "csettings", "cdevice"}
    /\ Indeterminate(w)
    /\ UNCHANGED controllerVars

\* Home Assistant cancels the call while it waits; a request in flight may be lost
Cancel(w) ==
    /\ Cancellable
    /\ pc[w] \notin {"idle", "queued"}
    /\ \/ pc[w] = "post" /\ Posted(w, Slots) /\ UNCHANGED dev
       \/ pc[w] = "refresh" /\ Refreshed(w, WriteFields) /\ UNCHANGED <<palette, siteHistory>>
       \/ UNCHANGED <<dev, palette, siteHistory>>
    /\ Leave(w)
    /\ UNCHANGED <<edits, siteBlocked, colorErrorCode>>

CancelQueued(w) ==
    /\ Cancellable
    /\ pc[w] = "queued"
    /\ Goto(w, "idle")
    /\ call' = [call EXCEPT ![w] = NoCall]
    /\ UNCHANGED <<controllerVars, serviceVars, witness, current, seen, historyVars>>

(***************************************************************************)
(* The operator's steps.                                                   *)
(***************************************************************************)

\* a color is chosen or reset in the Network UI, or a VLAN is deleted
EditPalette(s) ==
    /\ edits < MaxEdits
    /\ edits' = edits + 1
    /\ \/ \E c \in Color \cup {Absent} :
             /\ c # palette.overrides[s]
             /\ palette' = [palette EXCEPT !.overrides[s] = c]
       \/ /\ KeysVanish
          /\ HasKey(palette, s)
          /\ palette' = [palette EXCEPT !.defaults[s] = Absent, !.overrides[s] = Absent]
    /\ siteClaim' = [siteClaim EXCEPT ![s] = Unknown]
    /\ touched' = [w \in Painters |-> IF seen[w] = NoPalette THEN {}
                                      ELSE touched[w] \cup {s}]
    /\ calm' = [w \in Painters |-> calm[w] /\ call[w] = NoCall]
    /\ UNCHANGED <<dev, serviceVars, painterVars, siteUnproven>>

\* the calls whose witness is d are disturbed
Disturb(d) ==
    calm' = [w \in Painters |-> calm[w] /\ (call[w] = NoCall \/ call[w].device # d)]

\* a field of a switch changes
EditDevice(d) ==
    /\ edits < MaxEdits
    /\ edits' = edits + 1
    /\ \E g \in Fields, v \in Values \cup {Invalid} :
          v # dev[d][g] /\ dev' = [dev EXCEPT ![d][g] = v]
    /\ Disturb(d)
    /\ UNCHANGED <<palette, serviceVars, painterVars, touched, siteHistory>>

Acquire(w) == Refuse(w) \/ Begin(w)

Progress(w) ==
    \/ ReadVersion(w) \/ ReadWitness(w) \/ RaiseBeforePost(w)
    \/ ReadNoOp(w) \/ ReadSettings(w)
    \/ PostConfirmed(w) \/ PostFails(w)
    \/ RefreshConfirmed(w) \/ RefreshFails(w)
    \/ VerifySettings(w) \/ VerifyFails(w)
    \/ VerifyConfirms(w) \/ VerifyMismatch(w)
    \/ Relogin(w) \/ ClassifySettings(w)
    \/ ClassifyApplied(w) \/ ClassifyNotApplied(w)
    \/ ClassifyIndeterminate(w) \/ ClassifyFails(w)

PainterNext(w) == Request(w) \/ Acquire(w) \/ Progress(w)

Next ==
    \/ \E w \in Painters : PainterNext(w)
    \/ \E s \in Slots : EditPalette(s)
    \/ \E d \in Devices : EditDevice(d)

Spec == Init /\ [][Next]_vars

\* ways out of a call by an exception that the service does not catch
KeyErrors(w) == PostKeyError(w) \/ VerifyKeyError(w)
Faults(w) == KeyErrors(w) \/ Cancel(w) \/ CancelQueued(w)

FaultyNext == Next \/ \E w \in Painters : Faults(w)
FaultySpec == Init /\ [][FaultyNext]_vars

(***************************************************************************)
(* Properties.                                                             *)
(***************************************************************************)

\* Every variable stays in its set (service attributes, coroutine locals,
\* controller resources).
TypeOK ==
    /\ dev \in [Devices -> Object]
    /\ palette \in Palette
    /\ edits \in 0..MaxEdits
    /\ writeLock \in Painters \cup {NoOne}
    /\ siteBlocked \in BOOLEAN
    /\ colorErrorCode \in ErrorCodes
    /\ pc \in [Painters -> PcStates]
    /\ call \in [Painters -> ColorCall \cup {NoCall}]
    /\ witness \in [Painters -> Object \cup {NoObject}]
    /\ current \in [Painters -> Palette \cup {NoPalette}]
    /\ seen \in [Painters -> Palette \cup {NoPalette}]
    /\ calm \in [Painters -> BOOLEAN]
    /\ touched \in [Painters -> SUBSET Slots]
    /\ siteUnproven \in BOOLEAN
    /\ siteClaim \in [Slots -> Color \cup {Unknown}]

\* What the service is about to send back whole, the override arrays and then
\* the witness's fields, is still what the controller holds unless someone
\* outside the integration changed it (async_set_color's lock).
SnapshotsCurrent ==
    \A w \in Painters : calm[w] =>
        /\ pc[w] = "post" => current[w] = palette
        /\ pc[w] \in {"post", "refresh"} => witness[w] = dev[call[w].device]

\* What the last settled color write said of the palette is still true until the
\* operator edits the slot: outcomes are true for the changed color and for all
\* the others, and no later POST of both arrays takes an earlier change back.
PaletteClaimsHold ==
    \A s \in Slots : siteClaim[s] # Unknown =>
        HasKey(palette, s) /\ Effective(palette, s) = siteClaim[s]

\* A site to which a POST was sent and whose outcome was not proven is blocked,
\* or the call that sent it is still on its way to an outcome.
UnprovenSiteIsBlocked ==
    siteUnproven =>
        \/ siteBlocked
        \/ \E w \in Painters : pc[w] \in {"refresh", "vsettings", "vdevice", "relogin",
                                          "csettings", "cdevice"}

\* A color write that no fault and no outside edit disturbs is confirmed by its
\* verifying reads, also when the controller normalizes the color by one step.
NoFalseAlarm ==
    \A w \in Painters : pc[w] \in {"relogin", "csettings", "cdevice"} => ~calm[w]

\* a step on a blocked site's palette is the operator's
SiteStaysSilent == siteBlocked /\ palette' # palette => edits' # edits

\* The service keeps the promise of VerifiedWrite for the one palette of the site, if
\* no call is cancelled and no slot vanishes under it (EtherlightingColorService as its
\* callers see it).
Site == {"site"}
Promise == INSTANCE VerifiedWrite WITH
    Resources <- Site, Targets <- Slots, Contents <- Color,
    value <- [r \in Site |-> [s \in Slots |-> Effective(palette, s)]],
    outside <- edits,
    blocked <- IF siteBlocked THEN Site ELSE {},
    doubt <- IF siteUnproven /\ ~siteBlocked THEN Site ELSE {},
    claim <- [r \in Site |-> siteClaim]
ImplementsVerifiedWrite == Promise!Spec
=============================================================================
