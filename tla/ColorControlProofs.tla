------------------------- MODULE ColorControlProofs -------------------------
(***************************************************************************)
(* Proofs about ColorControl, for every set of painters, slots, channels,  *)
(* switches and fields.  They are about FaultySpec, the service with the   *)
(* ways out it does not handle, wherever that is enough.                   *)
(***************************************************************************)
EXTENDS ColorControl, TLAPS

Holding == {"version", "witness", "settings", "post", "refresh", "vsettings", "vdevice",
            "relogin", "csettings", "cdevice"}
Witnessed == Holding \ {"version", "witness"}
Posting == Witnessed \ {"settings"}
Writing == Posting \ {"post"}      \* the POST was sent and is not settled
ReadBackAt == {"vdevice", "cdevice"}

\* a call has arguments, and past its validation a color
CallInv ==
    \A w \in Painters :
        /\ pc[w] # "idle" => call[w] \in ColorCall
        /\ pc[w] \in Holding => call[w].requested \in Color

\* the snapshots of witness and palette, and the palette read back
SnapshotInv ==
    \A w \in Painters :
        /\ pc[w] \in Witnessed => witness[w] \in Object /\ ContractHolds(witness[w])
        /\ pc[w] \in Posting => current[w] \in Palette /\ HasKey(current[w], call[w].slot)
        /\ pc[w] \in ReadBackAt => seen[w] \in Palette

Base == TypeOK /\ CallInv /\ SnapshotInv

\* the coroutine past the lock's acquisition owns the lock, on a site not blocked
LockInv == \A w \in Painters : pc[w] \in Holding => writeLock = w /\ ~siteBlocked

Core == Base /\ LockInv

\* p is the palette before with the slot repainted, give or take a step
Repainted(before, p, s, c) ==
    /\ SettingsPreserved(before, p, s)
    /\ p.overrides[s] \in Normalized(c)

\* what an undisturbed call finds at the controller, step by step
CalmInv ==
    \A w \in Painters : calm[w] =>
        /\ pc[w] \in Witnessed => witness[w] = dev[call[w].device]
        /\ pc[w] = "post" => current[w] = palette
        /\ pc[w] \in {"refresh", "vsettings"} =>
              Repainted(current[w], palette, call[w].slot, call[w].requested)
        /\ pc[w] = "vdevice" =>
              Repainted(current[w], seen[w], call[w].slot, call[w].requested)
        /\ pc[w] \notin {"relogin", "csettings", "cdevice"}

\* palettes p and q agree on slot t
Agree(p, q, t) == p.overrides[t] = q.overrides[t] /\ p.defaults[t] = q.defaults[t]

\* the arrays about to be posted carry what is claimed
PostKeepsClaims ==
    \A w \in Painters : pc[w] = "post" =>
        \A t \in Slots : siteClaim[t] # Unknown =>
            /\ current[w].defaults[t] = palette.defaults[t]
            /\ Effective(current[w], t) = siteClaim[t]

\* the palette read back is the controller's, but for slots edited since
SeenIsCurrent ==
    \A w \in Painters : pc[w] \in ReadBackAt =>
        \A t \in Slots \ touched[w] : Agree(seen[w], palette, t)

ClaimInv == PaletteClaimsHold /\ PostKeepsClaims /\ SeenIsCurrent

\* a step of a painter, on a way the service handles or not
Step(w) == PainterNext(w) \/ Faults(w)

-----------------------------------------------------------------------------
(* What the operators on colors, palettes and objects return.               *)

LEMMA NormalizedFacts ==
    ASSUME NEW a \in Color, NEW b \in Normalized(a)
    PROVE  b \in Color /\ Equivalent(a, b)
<1>1. b \in Color
  BY DEF Normalized
<1>2. CASE a = b
  <2>1. \A c \in Channels : a[c] \in Int
    BY ColorBounds DEF Color
  <2> QED
    BY <1>2, <2>1 DEF Equivalent
<1>3. CASE \E c \in Channels : /\ a[c] - b[c] \in {-1, 1}
                             /\ \A e \in Channels \ {c} : a[e] = b[e]
  <2> PICK c \in Channels : /\ a[c] - b[c] \in {-1, 1}
                            /\ \A e \in Channels \ {c} : a[e] = b[e]
    BY <1>3
  <2>1. \A e \in Channels : a[e] \in Int /\ b[e] \in Int
    BY <1>1, ColorBounds DEF Color
  <2> QED
    BY <1>1, <2>1 DEF Equivalent
<1> QED
  BY <1>1, <1>2, <1>3 DEF Normalized

LEMMA EffectiveType ==
    ASSUME NEW p \in Palette, NEW s \in Slots, HasKey(p, s)
    PROVE  Effective(p, s) \in Color
BY DEF Palette, Mapping, HasKey, Effective

\* Storing any part of the no-op PUT leaves an object, and the same one where the
\* witness is what is stored.
LEMMA RefreshFacts ==
    ASSUME NEW o \in Object, NEW x \in Object, ContractHolds(o), NEW S \in SUBSET WriteFields
    PROVE  /\ Stored(x, BuildRefresh(o), S) \in Object
           /\ x = o => Stored(x, BuildRefresh(o), S) = x
BY DEF Stored, BuildRefresh, Object, Fields, ContractHolds

\* What the coroutine w, past its snapshots, works on.
LEMMA CallFacts ==
    ASSUME Base, NEW w \in Painters, pc[w] \in Holding
    PROVE  /\ call[w] \in ColorCall /\ call[w] # NoCall
           /\ call[w].device \in Devices
           /\ call[w].slot \in Slots
           /\ call[w].requested \in Color
           /\ pc[w] \in Witnessed => witness[w] \in Object /\ ContractHolds(witness[w])
           /\ pc[w] \in Posting => current[w] \in Palette /\ HasKey(current[w], call[w].slot)
<1>1. call[w] \in ColorCall /\ call[w].requested \in Color
  BY DEF Base, CallInv, Holding
<1> QED
  BY <1>1, ColorSentinelsFresh DEF Base, SnapshotInv, ColorCall

-----------------------------------------------------------------------------
(* Types, arguments and snapshots.                                          *)

LEMMA InitBase == Init => Base
<1> SUFFICES ASSUME Init PROVE Base
  OBVIOUS
<1>1. dev \in [Devices -> Object]
  BY DEF Init, Object
<1>2. palette \in Palette
  BY FactoryColors DEF Init, Palette, Mapping
<1>3. calm \in [Painters -> BOOLEAN]
  BY DEF Init
<1>4. TypeOK
  <2>1. /\ edits \in 0..MaxEdits
        /\ pc \in [Painters -> PcStates] /\ colorErrorCode \in ErrorCodes
    BY ColorBounds DEF Init, PcStates, ErrorCodes
  <2> QED
    BY <1>1, <1>2, <1>3, <2>1 DEF Init, TypeOK
<1>5. CallInv /\ SnapshotInv
  BY DEF Init, CallInv, SnapshotInv, Holding, Witnessed, Posting, ReadBackAt
<1> QED
  BY <1>4, <1>5 DEF Base

\* Leaving the service keeps the bookkeeping of the coroutines typed.
LEMMA LeaveBase ==
    ASSUME Base, NEW w \in Painters, Leave(w), dev' \in [Devices -> Object],
           palette' \in Palette, edits' \in 0..MaxEdits, siteBlocked' \in BOOLEAN,
           colorErrorCode' \in ErrorCodes, siteUnproven' \in BOOLEAN,
           siteClaim' \in [Slots -> Color \cup {Unknown}]
    PROVE  Base'
<1>1. TypeOK'
  BY DEF Base, TypeOK, Leave, Goto, PcStates
<1>2. CallInv'
  BY DEF Base, TypeOK, CallInv, Leave, Goto, Holding
<1>3. SnapshotInv'
  BY DEF Base, TypeOK, SnapshotInv, Leave, Goto, Holding, Witnessed, Posting, ReadBackAt,
     ContractHolds, HasKey
<1> QED
  BY <1>1, <1>2, <1>3 DEF Base

\* A call arrives, or gets the lock.
LEMMA EntryBase ==
    ASSUME Base, NEW w \in Painters, Request(w) \/ Begin(w) \/ CancelQueued(w)
    PROVE  Base'
<1> USE DEF Base, Request, Begin, CancelQueued, Goto, controllerVars, serviceVars, historyVars
<1>1. TypeOK'
  BY DEF TypeOK, PcStates
<1>2. CallInv'
  BY DEF TypeOK, CallInv, Holding, ColorCall
<1>3. SnapshotInv'
  BY DEF TypeOK, SnapshotInv, Holding, Witnessed, Posting, ReadBackAt, ContractHolds, HasKey
<1> QED
  BY <1>1, <1>2, <1>3

\* Steps that move a coroutine on without a new snapshot.
LEMMA MoveBase ==
    ASSUME Base, NEW w \in Painters,
           \/ ReadVersion(w) \/ VerifyFails(w) \/ VerifyMismatch(w) \/ Relogin(w)
    PROVE  Base'
<1>1. \E label \in Holding \ (ReadBackAt \cup {"version", "settings", "post"}) :
          /\ Goto(w, label)
          /\ label \in Witnessed => pc[w] \in Posting
          /\ pc[w] \in Holding
  BY DEF ReadVersion, VerifyFails, VerifyMismatch, Relogin, Failed, Goto, Holding, Witnessed,
     Posting, ReadBackAt
<1>2. /\ calm' \in [Painters -> BOOLEAN]
      /\ UNCHANGED <<controllerVars, serviceVars, call, witness, current, seen, touched,
                     siteHistory>>
  BY DEF ReadVersion, VerifyFails, VerifyMismatch, Relogin, historyVars, siteHistory,
     Base, TypeOK
<1> USE DEF Base
<1>3. TypeOK'
  <2>1. pc' \in [Painters -> PcStates]
    BY <1>1 DEF Goto, TypeOK, PcStates, Holding
  <2> QED
    BY <1>2, <2>1 DEF TypeOK, controllerVars, serviceVars, siteHistory
<1> USE <1>1, <1>2 DEF Goto
<1>4. CallInv'
  BY DEF TypeOK, CallInv, Holding
<1>5. SnapshotInv'
  BY DEF TypeOK, SnapshotInv, Holding, Witnessed, Posting, ReadBackAt, ContractHolds, HasKey
<1> QED
  BY <1>3, <1>4, <1>5

\* The reads that become snapshots, or are read back.
LEMMA ReadBase ==
    ASSUME Base, NEW w \in Painters,
           \/ ReadWitness(w) \/ ReadSettings(w) \/ VerifySettings(w) \/ ClassifySettings(w)
    PROVE  Base'
<1>1. pc[w] \in Holding
  BY DEF ReadWitness, ReadSettings, VerifySettings, ClassifySettings, Holding
<1>2. dev[call[w].device] \in Object
  BY <1>1, CallFacts DEF Base, TypeOK
<1> USE <1>1, <1>2 DEF Base, ReadWitness, ReadSettings, VerifySettings, ClassifySettings,
     ReadBack, Goto, controllerVars, serviceVars, historyVars, siteHistory
<1>3. TypeOK'
  <2>1. calm' \in [Painters -> BOOLEAN]
    BY DEF TypeOK
  <2>2. pc' \in [Painters -> PcStates]
    BY DEF TypeOK, PcStates
  <2> QED
    BY <2>1, <2>2 DEF TypeOK
<1>4. CallInv'
  BY DEF TypeOK, CallInv, Holding
<1>5. SnapshotInv'
  BY DEF TypeOK, SnapshotInv, Holding, Witnessed, Posting, ReadBackAt, ContractHolds, HasKey
<1> QED
  BY <1>3, <1>4, <1>5

\* What every POST does to the controller and the history.
LEMMA PostedFacts ==
    ASSUME Base, NEW w \in Painters, pc[w] = "post", NEW T \in SUBSET Slots, Posted(w, T)
    PROVE  /\ palette' \in Palette
           /\ palette'.defaults = palette.defaults
           /\ \A t \in Slots : palette'.overrides[t] = palette.overrides[t]
                  \/ /\ t = call[w].slot
                     /\ palette'.overrides[t] \in Normalized(call[w].requested)
                  \/ /\ t # call[w].slot
                     /\ palette'.overrides[t] = current[w].overrides[t]
           /\ T = Slots =>
                  /\ palette'.overrides[call[w].slot] \in Normalized(call[w].requested)
                  /\ \A t \in Slots \ {call[w].slot} :
                        palette'.overrides[t] = current[w].overrides[t]
           /\ siteUnproven' = TRUE
           /\ siteClaim' = [siteClaim EXCEPT ![call[w].slot] = Unknown]
<1>1. /\ call[w].slot \in Slots /\ call[w].requested \in Color
      /\ current[w] \in Palette
  BY CallFacts DEF Holding, Witnessed, Posting
<1>2. PICK c \in Normalized(call[w].requested) :
         palette' = [palette EXCEPT !.overrides =
            [t \in Slots |-> IF t \notin T THEN palette.overrides[t]
                 ELSE IF t = call[w].slot THEN c
                 ELSE ReplaceOverride(current[w].overrides, call[w].slot,
                                      call[w].requested)[t]]]
  BY DEF Posted
<1>3. c \in Color
  BY <1>1, NormalizedFacts
<1> DEFINE sent == ReplaceOverride(current[w].overrides, call[w].slot, call[w].requested)
<1>4. \A t \in Slots \ {call[w].slot} : sent[t] = current[w].overrides[t]
  BY <1>1 DEF ReplaceOverride, Palette, Mapping
<1>5. /\ palette'.defaults = palette.defaults
      /\ palette'.overrides = [t \in Slots |-> IF t \notin T THEN palette.overrides[t]
                 ELSE IF t = call[w].slot THEN c ELSE sent[t]]
      /\ palette' = [defaults |-> palette'.defaults, overrides |-> palette'.overrides]
  BY <1>2 DEF Base, TypeOK, Palette
<1> HIDE DEF sent
<1>6. palette'.overrides \in Mapping
  BY <1>1, <1>3, <1>4, <1>5 DEF Base, TypeOK, Palette, Mapping
<1>7. palette' \in Palette
  BY <1>5, <1>6 DEF Base, TypeOK, Palette
<1> QED
  BY <1>1, <1>3, <1>4, <1>5, <1>7 DEF Posted

\* What every refresh PUT does to the controller.
LEMMA RefreshedFacts ==
    ASSUME Base, NEW w \in Painters, pc[w] \in Witnessed,
           NEW S \in SUBSET WriteFields, Refreshed(w, S)
    PROVE  /\ dev' \in [Devices -> Object]
           /\ witness[w] = dev[call[w].device] => dev' = dev
           /\ \A d \in Devices \ {call[w].device} : dev'[d] = dev[d]
<1> DEFINE d == call[w].device
           o == Stored(dev[d], BuildRefresh(witness[w]), S)
<1>1. d \in Devices /\ witness[w] \in Object /\ ContractHolds(witness[w])
  BY CallFacts DEF Witnessed
<1>2. dev[d] \in Object
  BY <1>1 DEF Base, TypeOK
<1>3. o \in Object /\ (dev[d] = witness[w] => o = dev[d])
  BY <1>1, <1>2, RefreshFacts
<1>4. dev' = [dev EXCEPT ![d] = o]
  BY DEF Refreshed
<1> HIDE DEF o
<1> QED
  BY <1>1, <1>3, <1>4 DEF Base, TypeOK

\* A write whose caller goes on to verify or classify it.
LEMMA WriteBase ==
    ASSUME Base, NEW w \in Painters,
           \/ PostConfirmed(w) \/ PostFails(w) \/ RefreshConfirmed(w) \/ RefreshFails(w)
    PROVE  Base'
<1>1. /\ \E label \in {"refresh", "vsettings", "csettings", "relogin"} : Goto(w, label)
      /\ pc[w] \in {"post", "refresh"}
      /\ UNCHANGED <<edits, serviceVars, call, witness, current, seen, touched>>
  BY DEF PostConfirmed, PostFails, RefreshConfirmed, RefreshFails, Failed
<1>2. /\ palette' \in Palette /\ siteUnproven' \in BOOLEAN
      /\ siteClaim' \in [Slots -> Color \cup {Unknown}]
      /\ dev' \in [Devices -> Object]
  <2>1. CASE PostConfirmed(w) \/ PostFails(w)
    <3> PICK T \in SUBSET Slots : Posted(w, T)
      BY <2>1 DEF PostConfirmed, PostFails
    <3> QED
      BY <2>1, PostedFacts DEF PostConfirmed, PostFails, Base, TypeOK
  <2>2. CASE RefreshConfirmed(w) \/ RefreshFails(w)
    <3> PICK S \in SUBSET WriteFields : Refreshed(w, S)
      BY <2>2 DEF RefreshConfirmed, RefreshFails
    <3> QED
      BY <2>2, RefreshedFacts DEF RefreshConfirmed, RefreshFails, Base, TypeOK, siteHistory,
         Witnessed, Holding
  <2> QED
    BY <2>1, <2>2, <1>1 DEF PostConfirmed, PostFails, RefreshConfirmed, RefreshFails
<1>3. calm' \in [Painters -> BOOLEAN]
  BY DEF PostConfirmed, PostFails, RefreshConfirmed, RefreshFails, Base, TypeOK
<1> USE <1>1 DEF Base, Goto, serviceVars
<1>4. TypeOK'
  BY <1>2, <1>3 DEF TypeOK, PcStates
<1>5. CallInv'
  BY DEF TypeOK, CallInv, Holding
<1>6. SnapshotInv'
  BY DEF TypeOK, SnapshotInv, Holding, Witnessed, Posting, ReadBackAt, ContractHolds, HasKey
<1> QED
  BY <1>4, <1>5, <1>6

\* The endings without an outcome.
LEMMA EarlyEndBase ==
    ASSUME Base, NEW w \in Painters,
           \/ Refuse(w) \/ RaiseBeforePost(w) \/ ReadNoOp(w)
           \/ PostKeyError(w) \/ VerifyKeyError(w) \/ Cancel(w)
    PROVE  Base'
<1>1. CASE Refuse(w) \/ RaiseBeforePost(w) \/ VerifyKeyError(w)
  BY <1>1, LeaveBase DEF Refuse, RaiseBeforePost, VerifyKeyError, controllerVars, siteHistory,
     Base, TypeOK
<1>2. CASE ReadNoOp(w)
  <2>1. call[w].slot \in Slots /\ call[w].requested \in Color
    BY <1>2, CallFacts DEF ReadNoOp, Holding
  <2>2. /\ Leave(w) /\ colorErrorCode' \in ErrorCodes
        /\ siteClaim' \in [Slots -> Color \cup {Unknown}]
    BY <1>2, <2>1 DEF ReadNoOp, Base, TypeOK, ErrorCodes
  <2> QED
    BY <1>2, <2>2, LeaveBase DEF ReadNoOp, controllerVars, Base, TypeOK
<1>3. ASSUME pc[w] = "post", NEW T \in SUBSET Slots, Posted(w, T), Leave(w),
             UNCHANGED <<dev, edits, siteBlocked, colorErrorCode>>
      PROVE  Base'
  BY <1>3, PostedFacts, LeaveBase DEF Base, TypeOK
<1>4. CASE PostKeyError(w)
  BY <1>3, <1>4 DEF PostKeyError
<1>5. CASE Cancel(w)
  <2>1. CASE pc[w] = "post" /\ Posted(w, Slots) /\ UNCHANGED dev
    BY <1>3, <1>5, <2>1 DEF Cancel
  <2>2. CASE pc[w] = "refresh" /\ Refreshed(w, WriteFields) /\ UNCHANGED <<palette, siteHistory>>
    <3>1. dev' \in [Devices -> Object]
      BY <2>2, RefreshedFacts DEF Witnessed, Holding
    <3> QED
      BY <1>5, <2>2, <3>1, LeaveBase DEF Cancel, Base, TypeOK, siteHistory
  <2>3. CASE UNCHANGED <<dev, palette, siteHistory>>
    BY <1>5, <2>3, LeaveBase DEF Cancel, Base, TypeOK, siteHistory
  <2> QED
    BY <1>5, <2>1, <2>2, <2>3 DEF Cancel
<1> QED
  BY <1>1, <1>2, <1>4, <1>5

\* The outcomes.
LEMMA OutcomeBase ==
    ASSUME Base, NEW w \in Painters,
           \/ VerifyConfirms(w) \/ ClassifyApplied(w) \/ ClassifyNotApplied(w)
           \/ ClassifyIndeterminate(w) \/ ClassifyFails(w)
    PROVE  Base'
<1>1. ASSUME pc[w] \in ReadBackAt, NEW code \in ErrorCodes, Settle(w, code),
             UNCHANGED controllerVars
      PROVE  Base'
  <2>1. seen[w] \in Palette /\ current[w] \in Palette
    BY <1>1 DEF Base, SnapshotInv, ReadBackAt, Posting, Witnessed, Holding
  <2>2. \A t \in Slots : Asserted(w, t) \in Color \cup {Unknown}
    BY <2>1, EffectiveType DEF Asserted
  <2> QED
    BY <1>1, <2>2, LeaveBase DEF Settle, controllerVars, Base, TypeOK
<1>2. ASSUME Indeterminate(w), UNCHANGED controllerVars
      PROVE  Base'
  BY <1>2, LeaveBase DEF Indeterminate, controllerVars, siteHistory, Base, TypeOK, ErrorCodes
<1> QED
  BY <1>1, <1>2 DEF VerifyConfirms, ClassifyApplied, ClassifyNotApplied,
     ClassifyIndeterminate, ClassifyFails, ErrorCodes, ReadBackAt

\* What the operator does to the palette.
LEMMA EditedPalette ==
    ASSUME Base, NEW s \in Slots, EditPalette(s)
    PROVE  /\ palette' \in Palette
           /\ \A t \in Slots \ {s} : Agree(palette', palette, t)
           /\ palette'.defaults[s] = palette.defaults[s] \/ KeysVanish
<1>1. /\ palette \in Palette
      /\ palette = [defaults |-> palette.defaults, overrides |-> palette.overrides]
      /\ palette.defaults \in Mapping /\ palette.overrides \in Mapping
  BY DEF Base, TypeOK, Palette
<1>2. CASE \E c \in Color \cup {Absent} :
              palette' = [palette EXCEPT !.overrides[s] = c]
  <2> PICK c \in Color \cup {Absent} : palette' = [palette EXCEPT !.overrides[s] = c]
    BY <1>2
  <2>1. palette' = [defaults |-> palette.defaults,
                    overrides |-> [palette.overrides EXCEPT ![s] = c]]
    BY <1>1 DEF Palette
  <2> QED
    BY <1>1, <2>1 DEF Palette, Mapping, Agree
<1>3. CASE /\ KeysVanish
           /\ palette' = [palette EXCEPT !.defaults[s] = Absent, !.overrides[s] = Absent]
  <2>1. palette' = [defaults |-> [palette.defaults EXCEPT ![s] = Absent],
                    overrides |-> [palette.overrides EXCEPT ![s] = Absent]]
    BY <1>1, <1>3 DEF Palette
  <2> QED
    BY <1>1, <1>3, <2>1 DEF Palette, Mapping, Agree
<1> QED
  BY <1>2, <1>3 DEF EditPalette

\* The operator's steps leave the coroutines alone.
LEMMA EditBase ==
    ASSUME Base, (\E s \in Slots : EditPalette(s)) \/ (\E d \in Devices : EditDevice(d))
    PROVE  Base'
<1>1. ASSUME NEW s \in Slots, EditPalette(s) PROVE Base'
  <2>1. palette' \in Palette
    BY <1>1, EditedPalette
  <2>2. edits' \in 0..MaxEdits
    <3>1. edits \in 0..MaxEdits /\ edits < MaxEdits /\ edits' = edits + 1
      BY <1>1 DEF EditPalette, Base, TypeOK
    <3> QED
      BY <3>1, ColorBounds
  <2>3. calm' \in [Painters -> BOOLEAN]
    BY <1>1 DEF EditPalette
  <2>4. /\ touched' \in [Painters -> SUBSET Slots]
        /\ siteClaim' \in [Slots -> Color \cup {Unknown}]
        /\ UNCHANGED <<dev, serviceVars, painterVars, siteUnproven>>
    BY <1>1 DEF EditPalette, Base, TypeOK
  <2> QED
    BY <2>1, <2>2, <2>3, <2>4 DEF Base, TypeOK, CallInv, SnapshotInv, ContractHolds, HasKey,
       serviceVars, painterVars
<1>2. ASSUME NEW d \in Devices, EditDevice(d) PROVE Base'
  <2>1. /\ edits' \in 0..MaxEdits /\ dev' \in [Devices -> Object]
        /\ UNCHANGED <<palette, serviceVars, painterVars, touched, siteHistory>>
    BY <1>2, ColorBounds DEF EditDevice, Base, TypeOK, Object
  <2>2. calm' \in [Painters -> BOOLEAN]
    BY <1>2 DEF EditDevice, Disturb, Base, TypeOK
  <2> QED
    BY <2>1, <2>2 DEF Base, TypeOK, CallInv, SnapshotInv, ContractHolds, HasKey, serviceVars,
       painterVars, siteHistory
<1> QED
  BY <1>1, <1>2

LEMMA NextBase == Base /\ [FaultyNext]_vars => Base'
<1> SUFFICES ASSUME Base, [FaultyNext]_vars PROVE Base'
  OBVIOUS
<1>1. CASE UNCHANGED vars
  BY <1>1 DEF vars, controllerVars, serviceVars, painterVars, historyVars, Base, TypeOK,
     CallInv, SnapshotInv, ContractHolds, HasKey
<1>2. ASSUME NEW w \in Painters, Step(w) PROVE Base'
  BY <1>2, EntryBase, MoveBase, ReadBase, WriteBase, EarlyEndBase, OutcomeBase
     DEF Step, PainterNext, Faults, KeyErrors, Acquire, Progress
<1>3. CASE (\E s \in Slots : EditPalette(s)) \/ (\E d \in Devices : EditDevice(d))
  BY <1>3, EditBase
<1> QED
  BY <1>1, <1>2, <1>3 DEF FaultyNext, Next, Step

\* Everything the service and its callers keep stays of its kind (color.py's locals
\* and attributes), also under cancellation and unexpected exceptions.
THEOREM TypeCorrect == FaultySpec => []TypeOK
<1>1. Base => TypeOK
  BY DEF Base
<1> QED
  BY <1>1, InitBase, NextBase, PTL DEF FaultySpec

-----------------------------------------------------------------------------
(* Mutual exclusion, on a site that is not blocked.                         *)

\* A painter's step leaves the other coroutines' locals alone.
LEMMA Frame ==
    ASSUME TypeOK, NEW w \in Painters, NEW x \in Painters, x # w, Step(w)
    PROVE  /\ pc'[x] = pc[x] /\ call'[x] = call[x] /\ witness'[x] = witness[x]
           /\ current'[x] = current[x] /\ seen'[x] = seen[x]
           /\ calm'[x] = calm[x] /\ touched'[x] = touched[x]
<1> USE DEF TypeOK
<1>1. ASSUME Leave(w)
      PROVE  /\ pc'[x] = pc[x] /\ call'[x] = call[x] /\ witness'[x] = witness[x]
             /\ current'[x] = current[x] /\ seen'[x] = seen[x]
             /\ calm'[x] = calm[x] /\ touched'[x] = touched[x]
  BY <1>1 DEF Leave, Goto
<1>2. \/ Leave(w)
      \/ /\ \E label \in PcStates : Goto(w, label)
         /\ \/ call' = call
            \/ \E c \in ColorCall \cup {NoCall} : call' = [call EXCEPT ![w] = c]
         /\ witness' \in {witness, [witness EXCEPT ![w] = dev[call[w].device]]}
         /\ current' \in {current, [current EXCEPT ![w] = palette]}
         /\ seen' \in {seen, [seen EXCEPT ![w] = palette]}
         /\ calm' = calm \/ \E b \in BOOLEAN : calm' = [calm EXCEPT ![w] = b]
         /\ touched' \in {touched, [touched EXCEPT ![w] = {}]}
  <2>1. CASE Request(w) \/ Begin(w) \/ CancelQueued(w)
    BY <2>1 DEF Request, Begin, CancelQueued, Goto, historyVars, PcStates
  <2>2. CASE ReadVersion(w) \/ ReadWitness(w) \/ ReadSettings(w) \/ VerifySettings(w)
             \/ ClassifySettings(w) \/ VerifyMismatch(w) \/ Relogin(w)
    BY <2>2 DEF ReadVersion, ReadWitness, ReadSettings, VerifySettings, ClassifySettings,
       VerifyMismatch, Relogin, ReadBack, Goto, historyVars, PcStates
  <2>3. CASE PostConfirmed(w)
    <3>1. \E b \in BOOLEAN : calm' = [calm EXCEPT ![w] = b]
      BY <2>3 DEF PostConfirmed
    <3> QED
      BY <2>3, <3>1 DEF PostConfirmed, PcStates
  <2>4. CASE PostFails(w) \/ RefreshConfirmed(w) \/ RefreshFails(w) \/ VerifyFails(w)
    <3>1. calm' = calm \/ calm' = [calm EXCEPT ![w] = FALSE]
      BY <2>4 DEF PostFails, RefreshConfirmed, RefreshFails, VerifyFails
    <3>2. \E label \in PcStates : Goto(w, label)
      BY <2>4 DEF PostFails, RefreshConfirmed, RefreshFails, VerifyFails, Failed, PcStates
    <3>3. UNCHANGED <<call, witness, current, seen, touched>>
      BY <2>4 DEF PostFails, RefreshConfirmed, RefreshFails, VerifyFails
    <3> QED
      BY <3>1, <3>2, <3>3
  <2> QED
    BY <2>1, <2>2, <2>3, <2>4 DEF Step, PainterNext, Faults, KeyErrors, Acquire, Progress,
       Refuse, RaiseBeforePost, ReadNoOp, PostKeyError, VerifyKeyError, Cancel,
       VerifyConfirms, ClassifyApplied, ClassifyNotApplied, ClassifyIndeterminate,
       ClassifyFails, Settle, Indeterminate
<1>3. CASE ~Leave(w)
  <2>1. PICK label \in PcStates : pc' = [pc EXCEPT ![w] = label]
    BY <1>2, <1>3 DEF Goto
  <2>2. call'[x] = call[x] /\ calm'[x] = calm[x]
    BY <1>2, <1>3
  <2> QED
    BY <1>2, <1>3, <2>1, <2>2
<1> QED
  BY <1>1, <1>3

\* A coroutine without the lock changes nothing but itself; the one that takes the
\* lock finds it free and the site not blocked.
LEMMA StepKinds ==
    ASSUME Base, NEW w \in Painters, Step(w)
    PROVE  \/ /\ pc[w] \notin Holding /\ pc'[w] \notin Holding
              /\ UNCHANGED <<dev, palette, edits, writeLock, siteBlocked, siteUnproven,
                             siteClaim>>
           \/ /\ pc[w] \notin Holding /\ writeLock = NoOne
              /\ writeLock' = w /\ ~siteBlocked
              /\ UNCHANGED <<dev, palette, edits, siteBlocked, siteUnproven, siteClaim>>
           \/ /\ pc[w] \in Holding /\ pc'[w] \in Holding
              /\ UNCHANGED <<edits, writeLock, siteBlocked>>
           \/ /\ pc[w] \in Holding /\ pc'[w] = "idle"
              /\ UNCHANGED edits
<1> USE DEF Base, TypeOK, Holding, Goto
<1>1. CASE Request(w) \/ CancelQueued(w)
  BY <1>1 DEF Request, CancelQueued, controllerVars, serviceVars, siteHistory, historyVars
<1>2. CASE Refuse(w)
  BY <1>2 DEF Refuse, LockFree, Leave, controllerVars, siteHistory
<1>3. CASE Begin(w)
  BY <1>3 DEF Begin, LockFree, IsWriteBlocked, controllerVars, historyVars
<1>4. CASE \/ ReadVersion(w) \/ ReadWitness(w) \/ ReadSettings(w) \/ VerifySettings(w)
           \/ ClassifySettings(w) \/ VerifyMismatch(w) \/ Relogin(w) \/ VerifyFails(w)
  BY <1>4 DEF ReadVersion, ReadWitness, ReadSettings, VerifySettings, ClassifySettings,
     VerifyMismatch, Relogin, VerifyFails, Failed, ReadBack, controllerVars, serviceVars
<1>5. CASE PostConfirmed(w) \/ PostFails(w) \/ RefreshConfirmed(w) \/ RefreshFails(w)
  BY <1>5 DEF PostConfirmed, PostFails, RefreshConfirmed, RefreshFails, Failed, serviceVars
<1>6. CASE \/ RaiseBeforePost(w) \/ ReadNoOp(w) \/ PostKeyError(w) \/ VerifyKeyError(w)
           \/ Cancel(w) \/ VerifyConfirms(w) \/ ClassifyApplied(w) \/ ClassifyNotApplied(w)
           \/ ClassifyIndeterminate(w) \/ ClassifyFails(w)
  <2>1. Leave(w) /\ UNCHANGED edits
    BY <1>6 DEF RaiseBeforePost, ReadNoOp, PostKeyError, VerifyKeyError, Cancel,
       VerifyConfirms, ClassifyApplied, ClassifyNotApplied, ClassifyIndeterminate,
       ClassifyFails, Settle, Indeterminate, controllerVars
  <2>2. pc[w] \in Holding
    BY <1>6 DEF RaiseBeforePost, ReadNoOp, PostKeyError, VerifyKeyError, Cancel, PcStates,
       VerifyConfirms, ClassifyApplied, ClassifyNotApplied, ClassifyIndeterminate,
       ClassifyFails
  <2> QED
    BY <2>1, <2>2 DEF Leave
<1> QED
  BY <1>1, <1>2, <1>3, <1>4, <1>5, <1>6 DEF Step, PainterNext, Faults, KeyErrors, Acquire,
     Progress

\* While a coroutine holds the lock, the others' steps change nothing but themselves.
LEMMA Exclusive ==
    ASSUME Core, NEW w \in Painters, NEW x \in Painters, x # w, Step(w), pc[x] \in Holding
    PROVE  UNCHANGED <<dev, palette, edits, writeLock, siteBlocked, siteUnproven, siteClaim>>
BY StepKinds, ColorSentinelsFresh DEF Core, LockInv

\* The operator's steps leave coroutines and service alone.
LEMMA EditFrame ==
    ASSUME (\E s \in Slots : EditPalette(s)) \/ (\E d \in Devices : EditDevice(d))
    PROVE  UNCHANGED <<pc, call, witness, current, seen, writeLock, siteBlocked,
                       colorErrorCode, siteUnproven>>
BY DEF EditPalette, EditDevice, serviceVars, painterVars, siteHistory

\* The steps of FaultyNext.
LEMMA Steps ==
    ASSUME [FaultyNext]_vars
    PROVE  \/ UNCHANGED vars
           \/ \E w \in Painters : Step(w)
           \/ \E s \in Slots : EditPalette(s)
           \/ \E d \in Devices : EditDevice(d)
BY DEF FaultyNext, Next, Step

LEMMA NextCore == Core /\ [FaultyNext]_vars => Core'
<1> SUFFICES ASSUME Core, [FaultyNext]_vars PROVE LockInv'
  BY NextBase DEF Core
<1>1. CASE UNCHANGED vars
  BY <1>1 DEF vars, serviceVars, painterVars, Core, LockInv
<1>2. ASSUME NEW w \in Painters, Step(w), NEW x \in Painters, pc'[x] \in Holding
      PROVE  writeLock' = x /\ ~siteBlocked'
  <2>1. CASE x = w
    BY <1>2, <2>1, StepKinds DEF Core, LockInv, Holding
  <2>2. CASE x # w
    <3>1. pc[x] \in Holding
      BY <1>2, <2>2, Frame DEF Core, Base
    <3> QED
      BY <1>2, <2>2, <3>1, Exclusive DEF Core, LockInv
  <2> QED
    BY <2>1, <2>2
<1>3. CASE (\E s \in Slots : EditPalette(s)) \/ (\E d \in Devices : EditDevice(d))
  BY <1>3, EditFrame DEF Core, LockInv
<1> QED
  BY <1>1, <1>2, <1>3, Steps DEF LockInv

LEMMA SpecCore == FaultySpec => []Core
<1>1. Init => Core
  BY InitBase DEF Core, Init, LockInv, Holding
<1> QED
  BY <1>1, NextCore, PTL DEF FaultySpec

\* What the service handles is part of what may happen.
LEMMA SpecIsFaulty == Spec => FaultySpec
<1>1. [Next]_vars => [FaultyNext]_vars
  BY DEF FaultyNext
<1> QED
  BY <1>1, PTL DEF Spec, FaultySpec

-----------------------------------------------------------------------------
(* Undisturbed calls.                                                       *)

CalmAt(w) ==
    calm[w] =>
        /\ pc[w] \in Witnessed => witness[w] = dev[call[w].device]
        /\ pc[w] = "post" => current[w] = palette
        /\ pc[w] \in {"refresh", "vsettings"} =>
              Repainted(current[w], palette, call[w].slot, call[w].requested)
        /\ pc[w] = "vdevice" =>
              Repainted(current[w], seen[w], call[w].slot, call[w].requested)
        /\ pc[w] \notin {"relogin", "csettings", "cdevice"}

\* A palette repainted and a witness unchanged are confirmed by the verification,
\* whatever the controller makes of the color within its tolerance.
LEMMA RepaintedIsConfirmed ==
    ASSUME Base, NEW w \in Painters, pc[w] = "vdevice",
           Repainted(current[w], seen[w], call[w].slot, call[w].requested),
           witness[w] = dev[call[w].device]
    PROVE  HasKey(seen[w], call[w].slot) => ShowsRequested(w) /\ Preserves(w)
<1>1. /\ call[w].slot \in Slots /\ call[w].requested \in Color
      /\ current[w] \in Palette /\ HasKey(current[w], call[w].slot)
      /\ seen[w] \in Palette
  BY CallFacts DEF Holding, Witnessed, Posting, Base, SnapshotInv, ReadBackAt
<1>2. seen[w].overrides[call[w].slot] \in Color
  BY <1>1, NormalizedFacts DEF Repainted
<1> QED
  BY <1>1, <1>2, NormalizedFacts, ColorSentinelsFresh DEF Repainted, ShowsRequested,
     HasKey, Effective, Preserves, DevicePreserved

\* A call's own step.
LEMMA OwnCalm ==
    ASSUME Core, NEW w \in Painters, CalmAt(w), Step(w)
    PROVE  CalmAt(w)'
<1> USE DEF Core, Base, TypeOK, Goto
<1>1. CASE pc'[w] \notin Witnessed
  BY <1>1 DEF CalmAt, Witnessed, Holding
<1>2. CASE ReadWitness(w)
  BY <1>2 DEF ReadWitness, CalmAt, controllerVars
<1>3. CASE ReadSettings(w)
  BY <1>3 DEF ReadSettings, CalmAt, Witnessed, Holding, controllerVars, historyVars
<1>4. CASE PostConfirmed(w)
  <2>1. PICK T \in SUBSET Slots :
           /\ Posted(w, T)
           /\ calm' = [calm EXCEPT ![w] = calm[w] /\ T = Slots]
    BY <1>4 DEF PostConfirmed
  <2>2. SUFFICES ASSUME calm[w], T = Slots PROVE CalmAt(w)'
    BY <2>1 DEF CalmAt
  <2>3. /\ pc[w] = "post" /\ pc'[w] = "refresh"
        /\ UNCHANGED <<dev, call, witness, current, seen>>
    BY <1>4 DEF PostConfirmed
  <2>4. current[w] = palette /\ witness[w] = dev[call[w].device]
    BY <2>2, <2>3 DEF CalmAt, Witnessed, Holding
  <2>5. Repainted(current[w], palette', call[w].slot, call[w].requested)
    BY <2>1, <2>2, <2>3, <2>4, PostedFacts DEF Repainted, SettingsPreserved
  <2> QED
    BY <2>3, <2>4, <2>5 DEF CalmAt
<1>5. CASE PostFails(w) \/ RefreshFails(w) \/ VerifyFails(w)
  BY <1>5 DEF PostFails, RefreshFails, VerifyFails, CalmAt
<1>6. CASE RefreshConfirmed(w)
  <2>1. PICK S \in SUBSET WriteFields : Refreshed(w, S)
    BY <1>6 DEF RefreshConfirmed
  <2>2. /\ pc[w] = "refresh" /\ pc'[w] = "vsettings"
        /\ UNCHANGED <<palette, call, witness, current, seen, calm>>
    BY <1>6 DEF RefreshConfirmed
  <2>3. witness[w] = dev[call[w].device] => dev' = dev
    BY <2>1, <2>2, RefreshedFacts DEF Witnessed, Holding
  <2> QED
    BY <2>2, <2>3 DEF CalmAt, Witnessed, Holding
<1>7. CASE VerifySettings(w)
  BY <1>7 DEF VerifySettings, ReadBack, CalmAt, Witnessed, Holding, controllerVars
<1>8. CASE ClassifySettings(w) \/ Relogin(w)
  BY <1>8 DEF ClassifySettings, Relogin, ReadBack, CalmAt, historyVars
<1>9. CASE VerifyMismatch(w)
  <2>1. /\ pc[w] = "vdevice" /\ calm' = calm
        /\ HasKey(seen[w], call[w].slot) /\ ~(ShowsRequested(w) /\ Preserves(w))
    BY <1>9 DEF VerifyMismatch, historyVars
  <2>2. calm[w] => /\ Repainted(current[w], seen[w], call[w].slot, call[w].requested)
                   /\ witness[w] = dev[call[w].device]
    BY <2>1 DEF CalmAt, Witnessed, Holding
  <2>3. ~calm[w]
    BY <2>1, <2>2, RepaintedIsConfirmed
  <2> QED
    BY <2>1, <2>3 DEF CalmAt
<1>10. pc'[w] \in Witnessed =>
          \/ ReadWitness(w) \/ ReadSettings(w) \/ PostConfirmed(w) \/ PostFails(w)
          \/ RefreshConfirmed(w) \/ RefreshFails(w) \/ VerifySettings(w) \/ VerifyFails(w)
          \/ VerifyMismatch(w) \/ ClassifySettings(w) \/ Relogin(w)
  BY DEF Step, PainterNext, Faults, KeyErrors, Acquire, Progress, Request, Refuse, Begin,
     ReadVersion, RaiseBeforePost, ReadNoOp, PostKeyError, VerifyKeyError, Cancel,
     CancelQueued, VerifyConfirms, ClassifyApplied, ClassifyNotApplied,
     ClassifyIndeterminate, ClassifyFails, Settle, Indeterminate, Leave, Witnessed, Holding
<1> QED
  BY <1>1, <1>2, <1>3, <1>4, <1>5, <1>6, <1>7, <1>8, <1>9, <1>10

LEMMA NextCalm == Core /\ CalmInv /\ [FaultyNext]_vars => CalmInv'
<1> SUFFICES ASSUME Core, CalmInv, [FaultyNext]_vars, NEW x \in Painters PROVE CalmAt(x)'
  BY DEF CalmInv, CalmAt
<1>0. CalmAt(x)
  BY DEF CalmInv, CalmAt
<1>1. CASE UNCHANGED vars
  BY <1>0, <1>1 DEF vars, controllerVars, painterVars, historyVars, CalmAt
<1>2. ASSUME NEW w \in Painters, Step(w) PROVE CalmAt(x)'
  <2>1. CASE x = w
    BY <1>0, <1>2, <2>1, OwnCalm
  <2>2. CASE x # w
    <3>1. /\ pc'[x] = pc[x] /\ call'[x] = call[x] /\ witness'[x] = witness[x]
          /\ current'[x] = current[x] /\ seen'[x] = seen[x] /\ calm'[x] = calm[x]
      BY <1>2, <2>2, Frame DEF Core, Base
    <3>2. pc[x] \in Holding => UNCHANGED <<dev, palette>>
      BY <1>2, <2>2, Exclusive
    <3> QED
      BY <1>0, <3>1, <3>2 DEF CalmAt, Witnessed, Holding
  <2> QED
    BY <2>1, <2>2
<1>3. ASSUME NEW s \in Slots, EditPalette(s) PROVE CalmAt(x)'
  <2>1. calm'[x] => call[x] = NoCall
    BY <1>3 DEF EditPalette
  <2>2. pc'[x] = pc[x]
    BY <1>3, EditFrame
  <2>3. calm'[x] => pc'[x] = "idle"
    BY <2>1, <2>2, ColorSentinelsFresh DEF Core, Base, CallInv
  <2> QED
    BY <2>3 DEF CalmAt, Witnessed, Holding
<1>4. ASSUME NEW d \in Devices, EditDevice(d) PROVE CalmAt(x)'
  <2>1. calm'[x] => calm[x] /\ (call[x] = NoCall \/ call[x].device # d)
    BY <1>4 DEF EditDevice, Disturb
  <2>2. UNCHANGED <<pc, call, witness, current, seen, palette>>
    BY <1>4 DEF EditDevice, painterVars
  <2>3. call[x] \in ColorCall /\ call[x].device # d =>
            dev'[call[x].device] = dev[call[x].device]
    BY <1>4 DEF EditDevice, ColorCall, Core, Base, TypeOK
  <2>4. pc[x] # "idle" => call[x] \in ColorCall /\ call[x] # NoCall
    BY ColorSentinelsFresh DEF Core, Base, CallInv
  <2> QED
    BY <1>0, <2>1, <2>2, <2>3, <2>4 DEF CalmAt, Witnessed, Holding
<1> QED
  BY <1>1, <1>2, <1>3, <1>4, Steps

LEMMA SpecCalm == FaultySpec => [](Core /\ CalmInv)
<1>1. Init => CalmInv
  BY DEF Init, CalmInv, Witnessed, Holding
<1> QED
  BY <1>1, NextCalm, NextCore, SpecCore, PTL DEF FaultySpec

\* The arrays about to be posted and the fields about to be sent to the witness are
\* what the controller holds, unless the operator changed them: no concurrent call,
\* cancelled or not, makes a snapshot stale (the lock of async_set_color).
THEOREM SnapshotsStayCurrent ==
    (FaultySpec => []SnapshotsCurrent) /\ (Spec => []SnapshotsCurrent)
<1>1. Core /\ CalmInv => SnapshotsCurrent
  BY DEF CalmInv, SnapshotsCurrent, Witnessed, Holding
<1> QED
  BY <1>1, SpecCalm, SpecIsFaulty, PTL

\* A color write nothing disturbs is confirmed by its verifying reads, whatever the
\* controller made of the color within the tolerance: it is never classified, never
\* reported as unverified and never blocks the site.
THEOREM UndisturbedColorsVerify ==
    (FaultySpec => []NoFalseAlarm) /\ (Spec => []NoFalseAlarm)
<1>1. Core /\ CalmInv => NoFalseAlarm
  BY DEF CalmInv, NoFalseAlarm
<1> QED
  BY <1>1, SpecCalm, SpecIsFaulty, PTL

-----------------------------------------------------------------------------
(* Claims.                                                                  *)

\* A POST of the snapshot's arrays keeps every slot of which something is claimed.
LEMMA PostedKeepsClaims ==
    ASSUME Core, ClaimInv, NEW w \in Painters, pc[w] = "post", NEW T \in SUBSET Slots,
           Posted(w, T), NEW t \in Slots, siteClaim'[t] # Unknown
    PROVE  /\ t # call[w].slot /\ siteClaim'[t] = siteClaim[t]
           /\ HasKey(palette', t)
           /\ Effective(palette', t) = siteClaim[t]
           /\ Effective(palette, t) = siteClaim[t]
<1>1. /\ palette'.defaults = palette.defaults
      /\ palette'.overrides[t] = palette.overrides[t]
         \/ (t # call[w].slot => palette'.overrides[t] = current[w].overrides[t])
      /\ siteClaim' = [siteClaim EXCEPT ![call[w].slot] = Unknown]
  BY PostedFacts DEF Core
<1>2. t # call[w].slot /\ siteClaim'[t] = siteClaim[t]
  BY <1>1 DEF Core, Base, TypeOK
<1>3. /\ HasKey(palette, t) /\ Effective(palette, t) = siteClaim[t]
      /\ current[w].defaults[t] = palette.defaults[t]
      /\ Effective(current[w], t) = siteClaim[t]
  BY <1>2 DEF ClaimInv, PaletteClaimsHold, PostKeepsClaims
<1> QED
  BY <1>1, <1>2, <1>3 DEF HasKey, Effective

\* What a settled outcome says of a slot is what the controller holds.
LEMMA SettledIsTrue ==
    ASSUME Core, ClaimInv, NEW w \in Painters, pc[w] \in ReadBackAt, Preserves(w),
           NEW t \in Slots, Asserted(w, t) # Unknown
    PROVE  HasKey(palette, t) /\ Effective(palette, t) = Asserted(w, t)
<1>1. t \notin touched[w] /\ Agree(seen[w], palette, t)
  BY DEF Asserted, ClaimInv, SeenIsCurrent
<1>2. CASE t = call[w].slot
  BY <1>1, <1>2 DEF Asserted, HasKey, Effective, Agree
<1>3. CASE t # call[w].slot
  <2>1. /\ seen[w].defaults = current[w].defaults
        /\ seen[w].overrides[t] = current[w].overrides[t]
    BY <1>3 DEF Preserves, SettingsPreserved
  <2> QED
    BY <1>1, <1>3, <2>1 DEF Asserted, HasKey, Effective, Agree
<1> QED
  BY <1>2, <1>3

\* The steps that change palette or claims, and all the others.
LEMMA ClaimSteps ==
    ASSUME Core, NEW w \in Painters, Step(w)
    PROVE  \/ /\ pc[w] = "post" /\ pc'[w] \notin ReadBackAt \cup {"post"}
              /\ \E T \in SUBSET Slots : Posted(w, T)
           \/ /\ pc[w] \in ReadBackAt /\ Preserves(w) /\ pc'[w] = "idle"
              /\ palette' = palette
              /\ siteClaim' = [t \in Slots |-> Asserted(w, t)]
           \/ ReadNoOp(w) /\ pc'[w] = "idle"
           \/ UNCHANGED <<palette, siteClaim>>
<1> USE DEF Core, Base, TypeOK, Goto
<1>1. CASE PostConfirmed(w) \/ PostFails(w)
  BY <1>1 DEF PostConfirmed, PostFails, Failed, ReadBackAt
<1>2. CASE PostKeyError(w)
  BY <1>2 DEF PostKeyError, Leave, ReadBackAt
<1>3. CASE Cancel(w)
  BY <1>3 DEF Cancel, Leave, ReadBackAt, siteHistory
<1>4. CASE VerifyConfirms(w) \/ ClassifyApplied(w) \/ ClassifyNotApplied(w)
  BY <1>4 DEF VerifyConfirms, ClassifyApplied, ClassifyNotApplied, Settle, Leave, ReadBackAt,
     controllerVars
<1>5. CASE ReadNoOp(w)
  BY <1>5 DEF ReadNoOp, Leave
<1>6. CASE ~ \/ PostConfirmed(w) \/ PostFails(w) \/ PostKeyError(w) \/ Cancel(w)
             \/ VerifyConfirms(w) \/ ClassifyApplied(w) \/ ClassifyNotApplied(w)
             \/ ReadNoOp(w)
  BY <1>6 DEF Step, PainterNext, Faults, KeyErrors, Acquire, Progress, Request, Refuse,
     Begin, ReadVersion, ReadWitness, RaiseBeforePost, ReadSettings, RefreshConfirmed,
     RefreshFails, VerifySettings, ClassifySettings, ReadBack, VerifyFails, VerifyMismatch,
     VerifyKeyError, Relogin, ClassifyIndeterminate, ClassifyFails, Indeterminate,
     CancelQueued, controllerVars, historyVars, siteHistory
<1> QED
  BY <1>1, <1>2, <1>3, <1>4, <1>5, <1>6

LEMMA NextClaimsHold ==
    ASSUME Core, ClaimInv, NEW w \in Painters, Step(w)
    PROVE  PaletteClaimsHold'
<1> SUFFICES ASSUME NEW t \in Slots, siteClaim'[t] # Unknown
             PROVE  HasKey(palette', t) /\ Effective(palette', t) = siteClaim'[t]
  BY DEF PaletteClaimsHold, HasKey, Effective
<1>0. siteClaim[t] # Unknown => HasKey(palette, t) /\ Effective(palette, t) = siteClaim[t]
  BY DEF ClaimInv, PaletteClaimsHold
<1>1. CASE pc[w] = "post" /\ \E T \in SUBSET Slots : Posted(w, T)
  BY <1>1, PostedKeepsClaims
<1>2. CASE /\ pc[w] \in ReadBackAt /\ Preserves(w)
           /\ palette' = palette
           /\ siteClaim' = [s \in Slots |-> Asserted(w, s)]
  BY <1>2, SettledIsTrue
<1>3. CASE ReadNoOp(w)
  BY <1>0, <1>3 DEF ReadNoOp, controllerVars, Core, Base, TypeOK
<1>4. CASE UNCHANGED <<palette, siteClaim>>
  BY <1>0, <1>4
<1> QED
  BY <1>1, <1>2, <1>3, <1>4, ClaimSteps

\* A call takes its snapshot while the claims hold, and reads back what is there.
LEMMA OwnClaims ==
    ASSUME Core, ClaimInv, NEW w \in Painters, Step(w), NEW t \in Slots
    PROVE  /\ pc'[w] = "post" /\ siteClaim'[t] # Unknown =>
                  /\ current'[w].defaults[t] = palette'.defaults[t]
                  /\ Effective(current'[w], t) = siteClaim'[t]
           /\ pc'[w] \in ReadBackAt /\ t \notin touched'[w] => Agree(seen'[w], palette', t)
<1> USE DEF Core, Base, TypeOK, Goto
<1>1. pc'[w] = "post" => ReadSettings(w)
  BY DEF Step, PainterNext, Faults, KeyErrors, Acquire, Progress, Request, Refuse, Begin,
     ReadVersion, ReadWitness, RaiseBeforePost, ReadNoOp, PostConfirmed, PostFails,
     RefreshConfirmed, RefreshFails, VerifySettings, ClassifySettings, VerifyFails,
     VerifyMismatch, Relogin, PostKeyError, VerifyKeyError, Cancel, CancelQueued, Failed,
     VerifyConfirms, ClassifyApplied, ClassifyNotApplied, ClassifyIndeterminate,
     ClassifyFails, Settle, Indeterminate, Leave
<1>2. pc'[w] \in ReadBackAt => VerifySettings(w) \/ ClassifySettings(w)
  BY DEF Step, PainterNext, Faults, KeyErrors, Acquire, Progress, Request, Refuse, Begin,
     ReadVersion, ReadWitness, RaiseBeforePost, ReadNoOp, ReadSettings, PostConfirmed,
     PostFails, RefreshConfirmed, RefreshFails, VerifyFails, VerifyMismatch, Relogin,
     PostKeyError, VerifyKeyError, Cancel, CancelQueued, Failed, VerifyConfirms,
     ClassifyApplied, ClassifyNotApplied, ClassifyIndeterminate, ClassifyFails, Settle,
     Indeterminate, Leave, ReadBackAt
<1>3. ReadSettings(w) =>
         /\ current'[w] = palette /\ UNCHANGED <<palette, siteClaim>>
         /\ pc'[w] = "post"
  BY DEF ReadSettings, controllerVars, historyVars
<1>4. VerifySettings(w) \/ ClassifySettings(w) => seen'[w] = palette /\ palette' = palette
  BY DEF VerifySettings, ClassifySettings, ReadBack, controllerVars
<1> QED
  BY <1>1, <1>2, <1>3, <1>4 DEF ClaimInv, PaletteClaimsHold, Agree

LEMMA NextClaims == Core /\ ClaimInv /\ [FaultyNext]_vars => ClaimInv'
<1> SUFFICES ASSUME Core, ClaimInv, [FaultyNext]_vars PROVE ClaimInv'
  OBVIOUS
<1>1. CASE UNCHANGED vars
  BY <1>1 DEF vars, controllerVars, painterVars, historyVars, ClaimInv, PaletteClaimsHold,
     PostKeepsClaims, SeenIsCurrent, HasKey, Effective, Agree
<1>2. ASSUME NEW w \in Painters, Step(w) PROVE ClaimInv'
  <2>1. ASSUME NEW x \in Painters, NEW t \in Slots
        PROVE  /\ pc'[x] = "post" /\ siteClaim'[t] # Unknown =>
                      /\ current'[x].defaults[t] = palette'.defaults[t]
                      /\ Effective(current'[x], t) = siteClaim'[t]
               /\ pc'[x] \in ReadBackAt /\ t \notin touched'[x] =>
                      Agree(seen'[x], palette', t)
    <3>1. CASE x = w
      BY <1>2, <3>1, OwnClaims
    <3>2. CASE x # w
      <4>1. /\ pc'[x] = pc[x] /\ current'[x] = current[x] /\ seen'[x] = seen[x]
            /\ touched'[x] = touched[x]
        BY <1>2, <3>2, Frame DEF Core, Base
      <4>2. pc[x] \in Holding => UNCHANGED <<palette, siteClaim>>
        BY <1>2, <3>2, Exclusive
      <4> QED
        BY <4>1, <4>2 DEF ClaimInv, PostKeepsClaims, SeenIsCurrent, Holding, ReadBackAt
    <3> QED
      BY <3>1, <3>2
  <2>2. PostKeepsClaims'
    BY <2>1 DEF PostKeepsClaims, Effective
  <2>3. SeenIsCurrent'
    BY <2>1 DEF SeenIsCurrent, Agree
  <2> QED
    BY <1>2, <2>2, <2>3, NextClaimsHold DEF ClaimInv
<1>3. ASSUME NEW s \in Slots, EditPalette(s) PROVE ClaimInv'
  <2>1. /\ \A t \in Slots \ {s} : Agree(palette', palette, t)
        /\ siteClaim' = [siteClaim EXCEPT ![s] = Unknown]
        /\ UNCHANGED <<pc, current, seen>>
    BY <1>3, EditedPalette, EditFrame DEF EditPalette, Core
  <2>2. \A t \in Slots : siteClaim'[t] # Unknown => t # s /\ siteClaim'[t] = siteClaim[t]
    BY <2>1 DEF Core, Base, TypeOK
  <2>3. \A x \in Painters : pc[x] \in ReadBackAt => touched'[x] = touched[x] \cup {s}
    BY <1>3, ColorSentinelsFresh DEF EditPalette, Core, Base, SnapshotInv
  <2>4. PaletteClaimsHold' /\ PostKeepsClaims'
    BY <2>1, <2>2 DEF ClaimInv, PaletteClaimsHold, PostKeepsClaims, HasKey, Effective, Agree
  <2>5. SeenIsCurrent'
    BY <2>1, <2>3 DEF ClaimInv, SeenIsCurrent, Agree
  <2> QED
    BY <2>4, <2>5 DEF ClaimInv
<1>4. ASSUME NEW d \in Devices, EditDevice(d) PROVE ClaimInv'
  BY <1>4 DEF EditDevice, painterVars, siteHistory, ClaimInv, PaletteClaimsHold,
     PostKeepsClaims, SeenIsCurrent, HasKey, Effective, Agree
<1> QED
  BY <1>1, <1>2, <1>3, <1>4, Steps

LEMMA SpecClaims == FaultySpec => [](Core /\ ClaimInv)
<1>1. Init => ClaimInv
  BY DEF Init, ClaimInv, PaletteClaimsHold, PostKeepsClaims, SeenIsCurrent, ReadBackAt
<1> QED
  BY <1>1, NextClaims, NextCore, SpecCore, PTL DEF FaultySpec

\* What a settled color write said of every slot, the changed one and all the others,
\* stays true until the operator edits the slot: no later POST of both arrays takes an
\* earlier change back, whatever fails or is cancelled in between.
THEOREM PaletteClaimsStayTrue ==
    (FaultySpec => []PaletteClaimsHold) /\ (Spec => []PaletteClaimsHold)
<1>1. Core /\ ClaimInv => PaletteClaimsHold
  BY DEF ClaimInv
<1> QED
  BY <1>1, SpecClaims, SpecIsFaulty, PTL

-----------------------------------------------------------------------------
(* The blocked site.                                                        *)

\* a call past its POST has the site's outcome open
WritingInv == \A w \in Painters : pc[w] \in Writing => siteUnproven

\* The ways in and out of the part of a call between the POST and its outcome, for
\* the calls the service sees through to their end.
LEMMA WritingSteps ==
    ASSUME Core, NEW w \in Painters, PainterNext(w)
    PROVE  \/ /\ pc[w] = "post" /\ pc'[w] \in Writing
              /\ siteUnproven' = TRUE /\ siteBlocked' = siteBlocked
           \/ /\ pc[w] \in Writing /\ pc'[w] \in Writing
              /\ siteUnproven' = siteUnproven /\ siteBlocked' = siteBlocked
           \/ /\ pc[w] \in ReadBackAt /\ pc'[w] \notin Writing
              /\ siteUnproven' = FALSE /\ siteBlocked' = siteBlocked
           \/ /\ pc[w] \in Writing /\ pc'[w] \notin Writing
              /\ siteUnproven' = siteUnproven /\ siteBlocked' = TRUE
           \/ /\ pc[w] \notin Writing /\ pc'[w] \notin Writing
              /\ siteUnproven' = siteUnproven /\ siteBlocked' = siteBlocked
<1> USE DEF Core, Base, TypeOK, Goto, Writing, Posting, Witnessed, Holding, ReadBackAt
<1>1. CASE PostConfirmed(w) \/ PostFails(w)
  BY <1>1 DEF PostConfirmed, PostFails, Posted, Failed, serviceVars
<1>2. CASE \/ RefreshConfirmed(w) \/ RefreshFails(w) \/ VerifySettings(w) \/ VerifyFails(w)
           \/ VerifyMismatch(w) \/ ClassifySettings(w) \/ Relogin(w)
  BY <1>2 DEF RefreshConfirmed, RefreshFails, VerifySettings, VerifyFails, VerifyMismatch,
     ClassifySettings, Relogin, ReadBack, Failed, serviceVars, historyVars, siteHistory
<1>3. CASE VerifyConfirms(w) \/ ClassifyApplied(w) \/ ClassifyNotApplied(w)
  BY <1>3 DEF VerifyConfirms, ClassifyApplied, ClassifyNotApplied, Settle, Leave
<1>4. CASE ClassifyIndeterminate(w) \/ ClassifyFails(w)
  BY <1>4 DEF ClassifyIndeterminate, ClassifyFails, Indeterminate, Leave, siteHistory
<1>5. CASE \/ Request(w) \/ Acquire(w) \/ ReadVersion(w) \/ ReadWitness(w)
           \/ RaiseBeforePost(w) \/ ReadNoOp(w) \/ ReadSettings(w)
  BY <1>5 DEF Request, Acquire, Refuse, Begin, ReadVersion, ReadWitness, RaiseBeforePost,
     ReadNoOp, ReadSettings, Leave, serviceVars, historyVars, siteHistory
<1> QED
  BY <1>1, <1>2, <1>3, <1>4, <1>5 DEF PainterNext, Progress

LEMMA NextUnproven ==
    Core /\ WritingInv /\ UnprovenSiteIsBlocked /\ [Next]_vars
        => WritingInv' /\ UnprovenSiteIsBlocked'
<1> SUFFICES ASSUME Core, WritingInv, UnprovenSiteIsBlocked, [Next]_vars
             PROVE  WritingInv' /\ UnprovenSiteIsBlocked'
  OBVIOUS
<1>0. (siteUnproven => siteBlocked \/ \E x \in Painters : pc[x] \in Writing)
      /\ \A x \in Painters : pc[x] \in Writing => siteUnproven
  BY DEF UnprovenSiteIsBlocked, WritingInv, Writing, Posting, Witnessed, Holding
<1>1. CASE \/ UNCHANGED vars
           \/ (\E s \in Slots : EditPalette(s)) \/ (\E d \in Devices : EditDevice(d))
  <2>1. UNCHANGED <<pc, siteBlocked, siteUnproven>>
    BY <1>1, EditFrame DEF vars, serviceVars, painterVars, historyVars
  <2> QED
    BY <2>1 DEF WritingInv, UnprovenSiteIsBlocked
<1>2. ASSUME NEW w \in Painters, PainterNext(w)
      PROVE  WritingInv' /\ UnprovenSiteIsBlocked'
  <2>1. \A x \in Painters \ {w} : pc'[x] = pc[x]
    BY <1>2, Frame DEF Step, Core, Base
  <2>2. pc[w] \in Writing \cup {"post"} \cup ReadBackAt =>
            \A x \in Painters \ {w} : pc[x] \notin Writing
    BY DEF Core, LockInv, Holding, Witnessed, Posting, Writing, ReadBackAt
  <2>3. ASSUME NEW x \in Painters, pc'[x] \in Writing PROVE siteUnproven'
    <3>1. CASE x = w
      <4>1. \/ siteUnproven' = TRUE
            \/ pc[w] \in Writing /\ siteUnproven' = siteUnproven
        BY <1>2, <2>3, <3>1, WritingSteps
      <4> QED
        BY <1>0, <4>1
    <3>2. CASE x # w
      <4>1. pc[x] \in Writing /\ siteUnproven
        BY <1>0, <2>1, <2>3, <3>2
      <4>2. pc[w] \notin Writing \cup {"post"} \cup ReadBackAt
        BY <2>2, <3>2, <4>1
      <4>3. siteUnproven' = siteUnproven
        BY <1>2, <4>2, WritingSteps
      <4> QED
        BY <4>1, <4>3
    <3> QED
      BY <3>1, <3>2
  <2>4. siteUnproven' => siteBlocked' \/ \E x \in Painters : pc'[x] \in Writing
    BY <1>0, <1>2, <2>1, WritingSteps
  <2> QED
    BY <2>3, <2>4 DEF WritingInv, UnprovenSiteIsBlocked, Writing, Posting, Witnessed, Holding
<1> QED
  BY <1>1, <1>2 DEF Next

LEMMA SpecUnproven == Spec => [](Core /\ WritingInv /\ UnprovenSiteIsBlocked)
<1>1. Init => WritingInv /\ UnprovenSiteIsBlocked
  BY DEF Init, WritingInv, UnprovenSiteIsBlocked, Writing, Posting, Witnessed, Holding
<1> QED
  BY <1>1, NextUnproven, SpecCore, SpecIsFaulty, PTL DEF Spec

\* A POST without an outcome blocks the site, or its call is still on the way to one,
\* as long as only exceptions the service catches end a call (_block_site_writes; the
\* uncaught KeyError and cancellation are the ways around it).
THEOREM AmbiguousPostsBlock == Spec => []UnprovenSiteIsBlocked
<1> QED
  BY SpecUnproven, PTL

\* A blocked site's palette changes by the operator's hand only: no call that waited
\* for the lock, or holds it, posts to it any more (is_write_blocked).
THEOREM BlockedSitesStaySilent == FaultySpec => [][SiteStaysSilent]_vars
<1>1. Core /\ [FaultyNext]_vars => [SiteStaysSilent]_vars
  <2> SUFFICES ASSUME Core, [FaultyNext]_vars, ~UNCHANGED vars, siteBlocked,
                      palette' # palette
               PROVE  edits' # edits
    BY DEF SiteStaysSilent
  <2>1. ASSUME NEW w \in Painters, Step(w) PROVE FALSE
    <3>1. pc[w] \in Holding
      BY <2>1, StepKinds DEF Core
    <3> QED
      BY <3>1 DEF Core, LockInv
  <2>2. ASSUME NEW s \in Slots, EditPalette(s) PROVE edits' # edits
    <3>1. edits \in Int /\ edits' = edits + 1
      BY <2>2 DEF EditPalette, Core, Base, TypeOK
    <3> QED
      BY <3>1
  <2>3. ASSUME NEW d \in Devices, EditDevice(d) PROVE FALSE
    BY <2>3 DEF EditDevice
  <2> QED
    BY <2>1, <2>2, <2>3, Steps
<1> QED
  BY <1>1, SpecCore, PTL DEF FaultySpec

-----------------------------------------------------------------------------
(* The promise of VerifiedWrite.                                            *)

\* no slot is ever without a color
KeysInv == \A s \in Slots : HasKey(palette, s)

RefineInv == Core /\ ClaimInv /\ WritingInv /\ UnprovenSiteIsBlocked /\ KeysInv

LEMMA SpecRefineInv ==
    ASSUME ~KeysVanish
    PROVE  Spec => []RefineInv
<1>1. Init => KeysInv
  BY FactoryColors, ColorSentinelsFresh DEF Init, KeysInv, HasKey
<1>2. Core /\ ClaimInv /\ KeysInv /\ [FaultyNext]_vars => KeysInv'
  <2> SUFFICES ASSUME Core, ClaimInv, KeysInv, [FaultyNext]_vars PROVE KeysInv'
    OBVIOUS
  <2>1. ASSUME NEW w \in Painters, Step(w) PROVE palette'.defaults = palette.defaults
    BY <2>1, ClaimSteps, PostedFacts DEF Core, ReadNoOp, controllerVars
  <2>2. ASSUME NEW s \in Slots, EditPalette(s)
        PROVE  \A t \in Slots : palette'.defaults[t] = palette.defaults[t]
    BY <2>2, EditedPalette DEF Core, Agree
  <2>3. ASSUME NEW d \in Devices, EditDevice(d) PROVE palette' = palette
    BY <2>3 DEF EditDevice
  <2>4. UNCHANGED vars => palette' = palette
    BY DEF vars, controllerVars
  <2> QED
    BY <2>1, <2>2, <2>3, <2>4, Steps DEF KeysInv, HasKey
<1> QED
  BY <1>1, <1>2, SpecUnproven, SpecClaims, SpecIsFaulty, PTL DEF RefineInv, Spec, FaultySpec

\* The types of the promise are those of the service.
LEMMA TypedPromise ==
    /\ Base /\ KeysInv => [r \in Site |-> [s \in Slots |-> Effective(palette, s)]]
                             \in Promise!Holdings
    /\ Base' /\ KeysInv' => [r \in Site |-> [s \in Slots |-> Effective(palette', s)]]
                             \in Promise!Holdings
    /\ Base' => [r \in Site |-> siteClaim'] \in Promise!Claims
<1>1. ASSUME NEW p \in Palette, \A s \in Slots : HasKey(p, s)
      PROVE  [r \in Site |-> [s \in Slots |-> Effective(p, s)]] \in Promise!Holdings
  <2>1. \A s \in Slots : Effective(p, s) \in Color
    BY <1>1, EffectiveType
  <2> QED
    BY <2>1 DEF Promise!Holdings
<1>2. Base' /\ KeysInv' => palette' \in Palette /\ \A s \in Slots : HasKey(palette', s)
  BY DEF Base, TypeOK, KeysInv, HasKey
<1> QED
  BY <1>1, <1>2 DEF Base, TypeOK, KeysInv, Promise!Claims

\* A POST is a write of the promise: it starts where nothing is in doubt and puts back
\* nothing that is claimed.
LEMMA PostIsWrite ==
    ASSUME RefineInv, Base', KeysInv', NEW w \in Painters, pc[w] = "post",
           NEW T \in SUBSET Slots, Posted(w, T), UNCHANGED <<edits, siteBlocked>>
    PROVE  Promise!Write("site", call[w].slot)
<1> DEFINE s == call[w].slot
           value == [r \in Site |-> [t \in Slots |-> Effective(palette, t)]]
           after == [r \in Site |-> [t \in Slots |-> Effective(palette', t)]]
<1>1. s \in Slots
  BY CallFacts DEF RefineInv, Core, Holding
<1>2. ~siteUnproven /\ ~siteBlocked
  <2>1. pc[w] \in Holding /\ pc[w] \notin Writing
    BY DEF Holding, Witnessed, Posting, Writing
  <2>2. \A x \in Painters : pc[x] \in Holding => x = w
    BY <2>1 DEF RefineInv, Core, LockInv
  <2> QED
    BY <2>1, <2>2 DEF RefineInv, Core, LockInv, UnprovenSiteIsBlocked, Holding
<1>3. siteUnproven' = TRUE /\ siteClaim' = [siteClaim EXCEPT ![s] = Unknown]
  BY PostedFacts DEF RefineInv, Core
<1>4. after \in Promise!Holdings
  BY TypedPromise
<1>5. ASSUME NEW t \in Slots, siteClaim[t] # Unknown, t # s
      PROVE  Effective(palette', t) = Effective(palette, t)
  BY <1>3, <1>5, PostedKeepsClaims DEF RefineInv, Core, Base, TypeOK
<1>6. \A t \in Slots \ ((Slots \ Promise!Claimed("site")) \cup {s}) :
         after["site"][t] = value["site"][t]
  BY <1>5 DEF Promise!Claimed, Site
<1>7. [r \in Site |-> siteClaim'] =
         [[r \in Site |-> siteClaim] EXCEPT !["site"][s] = Unknown]
  BY <1>3 DEF Site
<1> QED
  BY <1>2, <1>3, <1>4, <1>6, <1>7 DEF Promise!Write, Promise!ChangesOnly,
     Promise!Withdrawn, Site

\* An outcome settles what is in doubt, and claims what the controller holds.
LEMMA SettleIsSettle ==
    ASSUME RefineInv, Base', NEW w \in Painters, pc[w] \in ReadBackAt, Preserves(w),
           NEW code, Settle(w, code), UNCHANGED controllerVars
    PROVE  Promise!Settle("site")
<1>1. siteUnproven /\ ~siteBlocked /\ pc[w] \in Holding
  BY DEF RefineInv, Core, LockInv, WritingInv, ReadBackAt, Holding, Witnessed, Posting,
     Writing
<1>2. siteUnproven' = FALSE /\ siteBlocked' = siteBlocked
  BY DEF Settle
<1>3. [r \in Site |-> siteClaim'] \in Promise!Claims
  BY TypedPromise
<1>4. \A t \in Slots : siteClaim'[t] \in {Unknown, Effective(palette, t)}
  BY SettledIsTrue DEF RefineInv, Settle
<1> QED
  BY <1>1, <1>2, <1>3, <1>4 DEF Promise!Settle, Promise!ClaimsOf, Site, controllerVars

\* An indeterminate outcome blocks what is in doubt.
LEMMA IndeterminateIsBlock ==
    ASSUME RefineInv, NEW w \in Painters, pc[w] \in Writing, Indeterminate(w),
           UNCHANGED controllerVars
    PROVE  Promise!Block("site")
<1>1. siteUnproven /\ ~siteBlocked
  BY DEF RefineInv, Core, LockInv, WritingInv, Holding, Witnessed, Posting, Writing
<1> QED
  BY <1>1 DEF Promise!Block, Indeterminate, siteHistory, controllerVars, Site

\* A color that is there already is noticed.
LEMMA NoOpIsNotice ==
    ASSUME RefineInv, Base', NEW w \in Painters, ReadNoOp(w)
    PROVE  Promise!Notice("site")
<1>1. /\ call[w].slot \in Slots
      /\ siteClaim' = [siteClaim EXCEPT ![call[w].slot] = Effective(palette, call[w].slot)]
      /\ UNCHANGED <<palette, edits, siteBlocked, siteUnproven>>
  BY CallFacts DEF RefineInv, Core, ReadNoOp, Holding, controllerVars
<1>2. [r \in Site |-> siteClaim'] \in Promise!Claims
  BY TypedPromise
<1>3. \A t \in Slots : siteClaim'[t] \in {siteClaim[t], Effective(palette, t)}
  BY <1>1 DEF RefineInv, Core, Base, TypeOK
<1> QED
  BY <1>1, <1>2, <1>3 DEF Promise!Notice, Promise!ClaimsOf, Site

\* An edit of the palette is an edit.
LEMMA EditIsEdit ==
    ASSUME RefineInv, Base', KeysInv', NEW s \in Slots, EditPalette(s)
    PROVE  Promise!Edit("site", s)
<1>1. \A t \in Slots \ {s} : Effective(palette', t) = Effective(palette, t)
  BY EditedPalette DEF RefineInv, Core, Agree, Effective
<1>2. [r \in Site |-> [t \in Slots |-> Effective(palette', t)]] \in Promise!Holdings
  BY TypedPromise
<1>3. /\ siteClaim' = [siteClaim EXCEPT ![s] = Unknown]
      /\ edits' = edits + 1
      /\ UNCHANGED <<siteBlocked, siteUnproven>>
  BY DEF EditPalette, serviceVars
<1>4. [r \in Site |-> siteClaim'] =
         [[r \in Site |-> siteClaim] EXCEPT !["site"][s] = Unknown]
  BY <1>3 DEF Site
<1> QED
  BY <1>1, <1>2, <1>3, <1>4 DEF Promise!Edit, Promise!ChangesOnly, Promise!Withdrawn, Site

LEMMA PainterImplements ==
    ASSUME RefineInv, Base', KeysInv', NEW w \in Painters, PainterNext(w)
    PROVE  Promise!Next \/ UNCHANGED Promise!vars
<1>0. /\ "site" \in Site
      /\ pc[w] \in Holding => call[w].slot \in Slots
  BY CallFacts DEF Site, RefineInv, Core
<1>1. CASE PostConfirmed(w) \/ PostFails(w)
  <2>1. /\ pc[w] = "post" /\ UNCHANGED <<edits, siteBlocked>>
        /\ \E T \in SUBSET Slots : Posted(w, T)
    BY <1>1 DEF PostConfirmed, PostFails, serviceVars
  <2> QED
    BY <1>0, <2>1, PostIsWrite DEF Promise!Next, Holding
<1>2. CASE VerifyConfirms(w) \/ ClassifyApplied(w) \/ ClassifyNotApplied(w)
  BY <1>0, <1>2, SettleIsSettle DEF Promise!Next, VerifyConfirms, ClassifyApplied,
     ClassifyNotApplied, ReadBackAt
<1>3. CASE ClassifyIndeterminate(w) \/ ClassifyFails(w)
  <2>1. pc[w] \in Writing /\ Indeterminate(w) /\ UNCHANGED controllerVars
    BY <1>3 DEF ClassifyIndeterminate, ClassifyFails, Holding, Witnessed, Posting, Writing
  <2> QED
    BY <1>0, <2>1, IndeterminateIsBlock DEF Promise!Next
<1>4. CASE ReadNoOp(w)
  BY <1>0, <1>4, NoOpIsNotice DEF Promise!Next
<1>5. CASE \/ Request(w) \/ Acquire(w) \/ ReadVersion(w) \/ ReadWitness(w)
           \/ RaiseBeforePost(w) \/ ReadSettings(w) \/ RefreshConfirmed(w)
           \/ RefreshFails(w) \/ VerifySettings(w) \/ VerifyFails(w) \/ VerifyMismatch(w)
           \/ ClassifySettings(w) \/ Relogin(w)
  <2>1. UNCHANGED <<palette, edits, siteBlocked, siteUnproven, siteClaim>>
    BY <1>5 DEF Request, Acquire, Refuse, Begin, ReadVersion, ReadWitness, RaiseBeforePost,
       ReadSettings, RefreshConfirmed, RefreshFails, VerifySettings, VerifyFails,
       VerifyMismatch, ClassifySettings, Relogin, ReadBack, controllerVars, serviceVars,
       historyVars, siteHistory
  <2> QED
    BY <2>1 DEF Promise!vars
<1> QED
  BY <1>1, <1>2, <1>3, <1>4, <1>5 DEF PainterNext, Progress

\* For every set of painters, slots, channels, switches and fields: if no slot
\* vanishes and every call is seen through to its end, the color service keeps the
\* promise of VerifiedWrite for the palette of the site.
THEOREM ColorControlKeepsPromise ==
    ASSUME ~KeysVanish
    PROVE  Spec => ImplementsVerifiedWrite
<1>1. Init => Promise!Init
  <2> SUFFICES ASSUME Init PROVE Promise!Init
    OBVIOUS
  <2>1. Base /\ KeysInv
    BY InitBase, FactoryColors, ColorSentinelsFresh DEF Init, KeysInv, HasKey
  <2> QED
    BY <2>1, TypedPromise DEF Init, Promise!Init
<1>2. RefineInv /\ RefineInv' /\ [Next]_vars => [Promise!Next]_(Promise!vars)
  <2> SUFFICES ASSUME RefineInv, RefineInv', [Next]_vars
               PROVE  Promise!Next \/ UNCHANGED Promise!vars
    OBVIOUS
  <2>0. Base' /\ KeysInv' /\ "site" \in Site
    BY DEF RefineInv, Core, Site
  <2>1. CASE UNCHANGED vars
    BY <2>1 DEF vars, controllerVars, serviceVars, historyVars, Promise!vars
  <2>2. ASSUME NEW w \in Painters, PainterNext(w)
        PROVE  Promise!Next \/ UNCHANGED Promise!vars
    BY <2>0, <2>2, PainterImplements
  <2>3. ASSUME NEW s \in Slots, EditPalette(s) PROVE Promise!Next
    BY <2>0, <2>3, EditIsEdit DEF Promise!Next
  <2>4. ASSUME NEW d \in Devices, EditDevice(d) PROVE Promise!Next
    BY <2>4 DEF EditDevice, Promise!EditElsewhere, Promise!Next, serviceVars, siteHistory
  <2> QED
    BY <2>1, <2>2, <2>3, <2>4 DEF Next
<1> QED
  BY <1>1, <1>2, SpecRefineInv, PTL DEF Spec, Promise!Spec, ImplementsVerifiedWrite
=============================================================================
