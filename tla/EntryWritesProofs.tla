------------------------- MODULE EntryWritesProofs -------------------------
(***************************************************************************)
(* Proofs about EntryWrites: what was proved of each service holds beside  *)
(* the other one.  A service sees the shared lock as its own: held by one  *)
(* of its callers, or free, also while the other service has it.           *)
(***************************************************************************)
EXTENDS EntryWrites, TLAPS

DeviceLock == IF writeLock \in Writers THEN writeLock ELSE NoOne
ColorLock == IF writeLock \in Painters THEN writeLock ELSE NoOne

DP == INSTANCE DeviceControlProofs WITH writeLock <- DeviceLock
CP == INSTANCE ColorControlProofs WITH
        writeLock <- ColorLock, pc <- paintPc, call <- paintCall,
        current <- paintCurrent, calm <- paintCalm

\* what either service keeps by itself
DeviceInv == DP!Core /\ DP!AlarmInv
ColorInv == CP!Core /\ CP!CalmInv
Apart == DeviceInv /\ ColorInv

\* the witness about to be sent back carries what Device outcomes claim
WitnessKeepsClaims ==
    \A p \in Painters : paintPc[p] \in {"settings", "post", "refresh"} =>
        \A g \in D!WriteFields : claim[paintCall[p].device][g] # Unknown =>
            witness[p][g] = claim[paintCall[p].device][g]

Inv == Apart /\ DP!ClaimInv /\ WitnessKeepsClaims
-----------------------------------------------------------------------------
(* The services' own theorems, under the assumptions of the entry.          *)

LEMMA DeviceInvNext ==
    ASSUME DeviceInv, DP!Next
    PROVE  DeviceInv'
<1> USE EntryFields, EntrySentinels, EntryBounds DEF D!Call, DP!Call, D!Object, DP!Object,
    D!Fields, DP!Fields, D!WriteFields, DP!WriteFields
<1>1. DP!Core'
  BY DP!NextCore DEF DeviceInv
<1>2. DP!SnapshotCurrent'
  BY DP!NextSnapshotCurrent DEF DeviceInv, DP!AlarmInv
<1>3. DP!CalmVerify' /\ DP!NoFalseAlarm'
  BY DP!NextAlarmInv DEF DeviceInv
<1> QED
  BY <1>1, <1>2, <1>3 DEF DeviceInv, DP!AlarmInv

LEMMA DeviceClaimsNext ==
    ASSUME MaxLate = 0, DeviceInv, DP!ClaimInv, DP!Next
    PROVE  DP!ClaimInv'
<1> USE EntryFields, EntrySentinels, EntryBounds DEF D!Call, DP!Call, D!Object, DP!Object,
    D!Fields, DP!Fields, D!WriteFields, DP!WriteFields
<1>1. late' = {} /\ DP!ClaimsHold'
  BY DP!NextClaimsHold DEF DeviceInv, DP!Core
<1>2. DP!SnapshotKeepsClaims'
  BY DP!NextSnapshotKeepsClaims DEF DeviceInv
<1> QED
  BY <1>1, <1>2 DEF DP!ClaimInv

LEMMA ColorInvNext ==
    ASSUME ColorInv, CP!FaultyNext
    PROVE  ColorInv'
<1> USE EntryFields, EntrySentinels, EntryBounds DEF C!ColorCall, CP!ColorCall, C!Object,
    CP!Object, D!Object, C!Fields, CP!Fields, D!Fields, C!WriteFields, CP!WriteFields,
    D!WriteFields, C!Color, CP!Color, C!Palette, CP!Palette, C!Mapping, CP!Mapping
<1>1. CP!Core'
  BY CP!NextCore DEF ColorInv
<1>2. CP!CalmInv'
  BY CP!NextCalm DEF ColorInv
<1> QED
  BY <1>1, <1>2 DEF ColorInv
-----------------------------------------------------------------------------
(* A step of the entry is a step of one service, seen with its own lock.     *)

LEMMA LockMaps ==
    /\ writeLock' = writeLock => DeviceLock' = DeviceLock /\ ColorLock' = ColorLock
    /\ writeLock = NoOne => DeviceLock = NoOne /\ ColorLock = NoOne
    /\ writeLock' = NoOne => DeviceLock' = NoOne /\ ColorLock' = NoOne
    /\ \A w \in Writers : writeLock' = w => DeviceLock' = w /\ ColorLock' = NoOne
    /\ \A p \in Painters : writeLock' = p => ColorLock' = p /\ DeviceLock' = NoOne
BY CallersDisjoint DEF DeviceLock, ColorLock

LEMMA DeviceStepMaps == ASSUME NEW w \in Writers, D!WriterNext(w) PROVE DP!WriterNext(w)
<1> USE LockMaps DEF D!controllerVars, DP!controllerVars, D!serviceVars, DP!serviceVars,
        D!historyVars, DP!historyVars, D!Goto, DP!Goto, D!Leave, DP!Leave,
        D!LockFree, DP!LockFree, D!IsWriteBlocked, DP!IsWriteBlocked,
        D!ContractHolds, DP!ContractHolds, D!WriteFields, DP!WriteFields
<1>1. D!Request(w) => DP!Request(w)
  BY DEF D!Request, DP!Request, D!Call, DP!Call
<1>2. D!Refuse(w) => DP!Refuse(w)
  BY DEF D!Refuse, DP!Refuse
<1>3. D!Begin(w) => DP!Begin(w)
  BY DEF D!Begin, DP!Begin
<1>4. D!ReadVersion(w) => DP!ReadVersion(w)
  BY DEF D!ReadVersion, DP!ReadVersion
<1>5. D!RaiseBeforePut(w) => DP!RaiseBeforePut(w)
  BY DEF D!RaiseBeforePut, DP!RaiseBeforePut
<1>6. D!ReadUnsupported(w) => DP!ReadUnsupported(w)
  BY DEF D!ReadUnsupported, DP!ReadUnsupported
<1>7. D!ReadNoOp(w) => DP!ReadNoOp(w)
  BY DEF D!ReadNoOp, DP!ReadNoOp
<1>8. D!ReadCurrent(w) => DP!ReadCurrent(w)
  BY DEF D!ReadCurrent, DP!ReadCurrent
<1>9. D!PayloadOf(w) = DP!PayloadOf(w)
  BY DEF D!PayloadOf, DP!PayloadOf, D!BuildPayload, DP!BuildPayload
<1>10. ASSUME NEW S PROVE D!Sent(w, S) => DP!Sent(w, S)
  BY <1>9 DEF D!Sent, DP!Sent, D!Stored, DP!Stored, D!Fields, DP!Fields
<1>11. D!PutConfirmed(w) => DP!PutConfirmed(w)
  BY <1>10 DEF D!PutConfirmed, DP!PutConfirmed
<1>12. D!PutFails(w) => DP!PutFails(w)
  BY <1>10 DEF D!PutFails, DP!PutFails, D!Failed, DP!Failed
<1>13. D!PutTimesOut(w) => DP!PutTimesOut(w)
  BY <1>9, <1>10 DEF D!PutTimesOut, DP!PutTimesOut, D!Cardinality, DP!Cardinality
<1>14. ASSUME NEW o PROVE D!Preserved(current[w], o, call[w].field)
                             <=> DP!Preserved(current[w], o, call[w].field)
  BY DEF D!Preserved, DP!Preserved, D!Fields, DP!Fields
<1>15. ASSUME NEW v, NEW code, D!Settle(w, v, code) PROVE DP!Settle(w, v, code)
  BY <1>15 DEF D!Settle, DP!Settle, D!Asserted, DP!Asserted, D!Fields, DP!Fields
<1>16. D!Indeterminate(w) => DP!Indeterminate(w)
  BY DEF D!Indeterminate, DP!Indeterminate
<1>17. D!VerifyConfirms(w) => DP!VerifyConfirms(w)
  BY <1>14, <1>15 DEF D!VerifyConfirms, DP!VerifyConfirms
<1>18. D!VerifyMismatch(w) => DP!VerifyMismatch(w)
  BY <1>14 DEF D!VerifyMismatch, DP!VerifyMismatch
<1>19. D!VerifyFails(w) => DP!VerifyFails(w)
  BY DEF D!VerifyFails, DP!VerifyFails, D!Failed, DP!Failed
<1>20. D!Relogin(w) => DP!Relogin(w)
  BY DEF D!Relogin, DP!Relogin
<1>21. D!ClassifyApplied(w) => DP!ClassifyApplied(w)
  BY <1>14, <1>15 DEF D!ClassifyApplied, DP!ClassifyApplied
<1>22. D!ClassifyNotApplied(w) => DP!ClassifyNotApplied(w)
  BY <1>14, <1>15 DEF D!ClassifyNotApplied, DP!ClassifyNotApplied
<1>23. D!ClassifyIndeterminate(w) => DP!ClassifyIndeterminate(w)
  BY <1>14, <1>16 DEF D!ClassifyIndeterminate, DP!ClassifyIndeterminate
<1>24. D!ClassifyFails(w) => DP!ClassifyFails(w)
  BY <1>16 DEF D!ClassifyFails, DP!ClassifyFails
<1>25. D!Cancel(w) => DP!Cancel(w)
  BY DEF D!Cancel, DP!Cancel
<1>26. D!CancelQueued(w) => DP!CancelQueued(w)
  BY DEF D!CancelQueued, DP!CancelQueued
<1>27. D!CancelPut(w) => DP!CancelPut(w)
  BY <1>10 DEF D!CancelPut, DP!CancelPut
<1> QED
  BY <1>1, <1>2, <1>3, <1>4, <1>5, <1>6, <1>7, <1>8, <1>11, <1>12, <1>13, <1>17, <1>18,
     <1>19, <1>20, <1>21, <1>22, <1>23, <1>24, <1>25, <1>26, <1>27
     DEF D!WriterNext, DP!WriterNext, D!Acquire, DP!Acquire, D!Progress, DP!Progress
LEMMA ColorStepMaps ==
    ASSUME NEW w \in Painters, C!PainterNext(w) \/ C!Faults(w)
    PROVE  CP!Step(w)
<1> USE LockMaps DEF C!controllerVars, CP!controllerVars, C!serviceVars, CP!serviceVars,
        C!historyVars, CP!historyVars, C!siteHistory, CP!siteHistory, C!Goto, CP!Goto,
        C!Leave, CP!Leave, C!LockFree, CP!LockFree, C!IsWriteBlocked, CP!IsWriteBlocked,
        C!ContractHolds, CP!ContractHolds, C!WriteFields, CP!WriteFields
<1>1. ASSUME NEW T PROVE C!Posted(w, T) => CP!Posted(w, T)
  BY DEF C!Posted, CP!Posted, C!ReplaceOverride, CP!ReplaceOverride, C!Normalized, CP!Normalized,
     C!Color, CP!Color
<1>2. ASSUME NEW S PROVE C!Refreshed(w, S) => CP!Refreshed(w, S)
  BY DEF C!Refreshed, CP!Refreshed, C!Stored, CP!Stored, C!BuildRefresh, CP!BuildRefresh, C!Fields,
     CP!Fields
<1>3. /\ C!Preserves(w) <=> CP!Preserves(w)
      /\ C!ShowsRequested(w) <=> CP!ShowsRequested(w)
      /\ C!ShowsOriginal(w) <=> CP!ShowsOriginal(w)
  BY DEF C!Preserves, CP!Preserves, C!ShowsRequested, CP!ShowsRequested, C!ShowsOriginal,
     CP!ShowsOriginal, C!HasKey, CP!HasKey, C!Effective, CP!Effective, C!Equivalent,
     CP!Equivalent, C!SettingsPreserved, CP!SettingsPreserved, C!DevicePreserved,
     CP!DevicePreserved, C!Fields, CP!Fields
<1>4. ASSUME NEW code, C!Settle(w, code) PROVE CP!Settle(w, code)
  BY <1>4 DEF C!Settle, CP!Settle, C!Asserted, CP!Asserted, C!HasKey, CP!HasKey, C!Effective,
     CP!Effective
<1>5. C!Indeterminate(w) => CP!Indeterminate(w)
  BY DEF C!Indeterminate, CP!Indeterminate
<1>6. C!Request(w) => CP!Request(w)
  BY DEF C!Request, CP!Request, C!ColorCall, CP!ColorCall, C!Color, CP!Color
<1>7. C!Refuse(w) => CP!Refuse(w)
  BY DEF C!Refuse, CP!Refuse
<1>8. C!Begin(w) => CP!Begin(w)
  BY DEF C!Begin, CP!Begin
<1>9. C!ReadVersion(w) => CP!ReadVersion(w)
  BY DEF C!ReadVersion, CP!ReadVersion
<1>10. C!ReadWitness(w) => CP!ReadWitness(w)
  BY DEF C!ReadWitness, CP!ReadWitness
<1>11. C!RaiseBeforePost(w) => CP!RaiseBeforePost(w)
  BY DEF C!RaiseBeforePost, CP!RaiseBeforePost
<1>12. C!ReadNoOp(w) => CP!ReadNoOp(w)
  BY DEF C!ReadNoOp, CP!ReadNoOp, C!HasKey, CP!HasKey, C!Effective, CP!Effective
<1>13. C!ReadSettings(w) => CP!ReadSettings(w)
  BY DEF C!ReadSettings, CP!ReadSettings, C!HasKey, CP!HasKey, C!Effective, CP!Effective
<1>14. C!PostConfirmed(w) => CP!PostConfirmed(w)
  BY <1>1 DEF C!PostConfirmed, CP!PostConfirmed
<1>15. C!PostFails(w) => CP!PostFails(w)
  BY <1>1 DEF C!PostFails, CP!PostFails, C!Failed, CP!Failed
<1>16. C!PostKeyError(w) => CP!PostKeyError(w)
  BY <1>1 DEF C!PostKeyError, CP!PostKeyError, C!HasKey, CP!HasKey
<1>17. C!RefreshConfirmed(w) => CP!RefreshConfirmed(w)
  BY <1>2 DEF C!RefreshConfirmed, CP!RefreshConfirmed
<1>18. C!RefreshFails(w) => CP!RefreshFails(w)
  BY <1>2 DEF C!RefreshFails, CP!RefreshFails, C!Failed, CP!Failed
<1>19. C!VerifySettings(w) => CP!VerifySettings(w)
  BY DEF C!VerifySettings, CP!VerifySettings, C!ReadBack, CP!ReadBack
<1>20. C!ClassifySettings(w) => CP!ClassifySettings(w)
  BY DEF C!ClassifySettings, CP!ClassifySettings, C!ReadBack, CP!ReadBack
<1>21. C!VerifyFails(w) => CP!VerifyFails(w)
  BY DEF C!VerifyFails, CP!VerifyFails, C!Failed, CP!Failed
<1>22. C!VerifyConfirms(w) => CP!VerifyConfirms(w)
  BY <1>3, <1>4 DEF C!VerifyConfirms, CP!VerifyConfirms
<1>23. C!VerifyMismatch(w) => CP!VerifyMismatch(w)
  BY <1>3 DEF C!VerifyMismatch, CP!VerifyMismatch, C!HasKey, CP!HasKey
<1>24. C!VerifyKeyError(w) => CP!VerifyKeyError(w)
  BY DEF C!VerifyKeyError, CP!VerifyKeyError, C!HasKey, CP!HasKey
<1>25. C!Relogin(w) => CP!Relogin(w)
  BY DEF C!Relogin, CP!Relogin
<1>26. C!ClassifyApplied(w) => CP!ClassifyApplied(w)
  BY <1>3, <1>4 DEF C!ClassifyApplied, CP!ClassifyApplied
<1>27. C!ClassifyNotApplied(w) => CP!ClassifyNotApplied(w)
  BY <1>3, <1>4 DEF C!ClassifyNotApplied, CP!ClassifyNotApplied
<1>28. C!ClassifyIndeterminate(w) => CP!ClassifyIndeterminate(w)
  BY <1>3, <1>5 DEF C!ClassifyIndeterminate, CP!ClassifyIndeterminate
<1>29. C!ClassifyFails(w) => CP!ClassifyFails(w)
  BY <1>5 DEF C!ClassifyFails, CP!ClassifyFails
<1>30. C!Cancel(w) => CP!Cancel(w)
  BY <1>1, <1>2 DEF C!Cancel, CP!Cancel
<1>31. C!CancelQueued(w) => CP!CancelQueued(w)
  BY DEF C!CancelQueued, CP!CancelQueued
<1> QED
  BY <1>6, <1>7, <1>8, <1>9, <1>10, <1>11, <1>12, <1>13, <1>14, <1>15, <1>16, <1>17,
     <1>18, <1>19, <1>20, <1>21, <1>22, <1>23, <1>24, <1>25, <1>26, <1>27, <1>28,
     <1>29, <1>30, <1>31
     DEF CP!Step, C!PainterNext, CP!PainterNext, C!Faults, CP!Faults, C!KeyErrors,
     CP!KeyErrors, C!Acquire, CP!Acquire, C!Progress, CP!Progress
LEMMA EditDeviceMaps ==
    ASSUME NEW d \in Devices, EditDevice(d)
    PROVE  DP!Edit(d) /\ CP!EditDevice(d)
<1> USE LockMaps DEF EditDevice, D!Edit, D!Fields, D!WriteFields, D!serviceVars,
        D!writerVars
<1>1. DP!Edit(d)
  BY DEF DP!Edit, DP!Fields, DP!WriteFields, DP!serviceVars, DP!writerVars, D!Disturb,
     DP!Disturb
<1>2. CP!EditDevice(d)
  BY DEF CP!EditDevice, CP!Fields, CP!WriteFields, CP!serviceVars, CP!painterVars,
     CP!siteHistory, C!Disturb, CP!Disturb
<1> QED
  BY <1>1, <1>2

LEMMA EditPaletteMaps ==
    ASSUME NEW s \in Slots, EditPalette(s)
    PROVE  CP!EditPalette(s) /\ UNCHANGED <<dev, writeLock, deviceOnly>>
BY LockMaps DEF EditPalette, C!EditPalette, CP!EditPalette, C!serviceVars, CP!serviceVars,
   C!painterVars, CP!painterVars, C!HasKey, CP!HasKey, C!Color, CP!Color

-----------------------------------------------------------------------------
(* What a step of one service does to the other.                            *)

\* While a painter has the lock a writer can only arrive or be cancelled in the
\* queue; otherwise the lock goes from no painter to no painter.
LEMMA DeviceStepFrame ==
    ASSUME DP!Core, NEW w \in Writers, D!WriterNext(w)
    PROVE  /\ edits' = edits
           /\ ColorLock' = ColorLock
           /\ ColorLock \in Painters => UNCHANGED <<dev, claim>>
<1>1. pc[w] \in DP!Holding => writeLock = w
  BY EntrySentinels DEF DP!Core, DP!LockInv, DeviceLock
<1>2. edits' = edits /\ writeLock' \in {writeLock, NoOne, w}
  BY DEF D!WriterNext, D!Acquire, D!Progress, D!Request, D!Refuse, D!Begin, D!ReadVersion,
     D!RaiseBeforePut, D!ReadUnsupported, D!ReadNoOp, D!ReadCurrent, D!PutConfirmed,
     D!PutFails, D!PutTimesOut, D!VerifyConfirms, D!VerifyMismatch, D!VerifyFails,
     D!Relogin, D!ClassifyApplied, D!ClassifyNotApplied, D!ClassifyIndeterminate,
     D!ClassifyFails, D!Cancel, D!CancelQueued, D!CancelPut, D!Settle, D!Indeterminate,
     D!Leave, D!controllerVars, D!serviceVars
<1>3. ASSUME writeLock \in Painters
      PROVE  UNCHANGED <<dev, writeLock, claim>>
  <2>1. pc[w] \notin DP!Holding /\ writeLock # NoOne
    BY <1>1, <1>3, CallersDisjoint, EntrySentinels
  <2>2. pc[w] \in DP!PcStates
    BY DEF DP!Core, DP!Base, DP!TypeOK
  <2>3. D!Request(w) \/ D!CancelQueued(w)
    BY <2>1, <2>2 DEF D!WriterNext, D!Acquire, D!Progress, DP!Holding, DP!PcStates,
       D!Refuse, D!Begin, D!LockFree, D!ReadVersion, D!RaiseBeforePut, D!ReadUnsupported,
       D!ReadNoOp, D!ReadCurrent, D!PutConfirmed, D!PutFails, D!PutTimesOut,
       D!VerifyConfirms, D!VerifyMismatch, D!VerifyFails, D!Relogin, D!ClassifyApplied,
       D!ClassifyNotApplied, D!ClassifyIndeterminate, D!ClassifyFails, D!Cancel,
       D!CancelPut
  <2> QED
    BY <2>3 DEF D!Request, D!CancelQueued, D!controllerVars, D!serviceVars, D!historyVars
<1> QED
  BY <1>2, <1>3, CallersDisjoint, EntrySentinels DEF ColorLock

LEMMA ColorStepFrame ==
    ASSUME CP!Core, NEW w \in Painters, C!PainterNext(w) \/ C!Faults(w)
    PROVE  /\ edits' = edits
           /\ DeviceLock' = DeviceLock
           /\ DeviceLock \in Writers => dev' = dev
<1>1. paintPc[w] \in CP!Holding => writeLock = w
  BY EntrySentinels DEF CP!Core, CP!LockInv, ColorLock
<1>2. edits' = edits /\ writeLock' \in {writeLock, NoOne, w}
  BY DEF C!PainterNext, C!Faults, C!KeyErrors, C!Acquire, C!Progress, C!Request, C!Refuse,
     C!Begin, C!ReadVersion, C!ReadWitness, C!RaiseBeforePost, C!ReadNoOp, C!ReadSettings,
     C!PostConfirmed, C!PostFails, C!PostKeyError, C!RefreshConfirmed, C!RefreshFails,
     C!VerifySettings, C!ClassifySettings, C!ReadBack, C!VerifyFails, C!VerifyConfirms,
     C!VerifyMismatch, C!VerifyKeyError, C!Relogin, C!ClassifyApplied,
     C!ClassifyNotApplied, C!ClassifyIndeterminate, C!ClassifyFails, C!Cancel,
     C!CancelQueued, C!Settle, C!Indeterminate, C!Leave, C!controllerVars, C!serviceVars
<1>3. ASSUME writeLock \in Writers
      PROVE  UNCHANGED <<dev, writeLock>>
  <2>1. paintPc[w] \notin CP!Holding /\ writeLock # NoOne
    BY <1>1, <1>3, CallersDisjoint, EntrySentinels
  <2>2. paintPc[w] \in CP!PcStates
    BY DEF CP!Core, CP!Base, CP!TypeOK
  <2>3. C!Request(w) \/ C!CancelQueued(w)
    BY <2>1, <2>2 DEF C!PainterNext, C!Faults, C!KeyErrors, C!Acquire, C!Progress,
       CP!Holding, CP!PcStates, C!Refuse, C!Begin, C!LockFree, C!ReadVersion,
       C!ReadWitness, C!RaiseBeforePost, C!ReadNoOp, C!ReadSettings, C!PostConfirmed,
       C!PostFails, C!PostKeyError, C!RefreshConfirmed, C!RefreshFails, C!VerifySettings,
       C!ClassifySettings, C!VerifyFails, C!VerifyConfirms, C!VerifyMismatch,
       C!VerifyKeyError, C!Relogin, C!ClassifyApplied, C!ClassifyNotApplied,
       C!ClassifyIndeterminate, C!ClassifyFails, C!Cancel
  <2> QED
    BY <2>3 DEF C!Request, C!CancelQueued, C!controllerVars, C!serviceVars
<1> QED
  BY <1>2, <1>3, CallersDisjoint, EntrySentinels DEF DeviceLock
\* A step that leaves a service alone, and the switches too while one of its
\* callers has the lock, keeps what the service keeps.
LEMMA DeviceKept ==
    ASSUME DeviceInv, dev' \in [Devices -> DP!Object], edits' \in 0..MaxEdits,
           DeviceLock' = DeviceLock, UNCHANGED deviceOnly,
           DeviceLock \in Writers => dev' = dev
    PROVE  DeviceInv'
<1> USE DEF deviceOnly
<1>1. \A w \in Writers : pc[w] \in DP!Holding => dev' = dev
  BY DEF DeviceInv, DP!Core, DP!LockInv
<1>2. DP!Core'
  <2>1. DP!TypeOK'
    BY DEF DeviceInv, DP!Core, DP!Base, DP!TypeOK
  <2>2. DP!CallInv' /\ DP!SnapshotInv' /\ DP!LockInv' /\ DP!BlockInv'
    BY DEF DeviceInv, DP!Core, DP!Base, DP!CallInv, DP!SnapshotInv, DP!LockInv,
       DP!BlockInv, DP!ContractHolds
  <2> QED
    BY <2>1, <2>2 DEF DP!Core, DP!Base
<1>3. DP!AlarmInv'
  <2>1. DP!SnapshotCurrent' /\ DP!NoFalseAlarm'
    BY <1>1 DEF DeviceInv, DP!AlarmInv, DP!SnapshotCurrent, DP!NoFalseAlarm, DP!Holding
  <2>2. ASSUME NEW w \in Writers, pc[w] = "verify", calm[w]
        PROVE  dev'[call[w].device] =
                  DP!Stored(current[w], DP!PayloadOf(w), DP!WriteFields)
    BY <1>1, <2>2 DEF DeviceInv, DP!AlarmInv, DP!CalmVerify, DP!Holding
  <2>3. \A w \in Writers : DP!PayloadOf(w)' = DP!PayloadOf(w)
    BY DEF DP!PayloadOf
  <2> QED
    BY <2>1, <2>2, <2>3 DEF DP!AlarmInv, DP!CalmVerify
<1> QED
  BY <1>2, <1>3 DEF DeviceInv

LEMMA ColorKept ==
    ASSUME ColorInv, dev' \in [Devices -> CP!Object], edits' \in 0..MaxEdits,
           ColorLock' = ColorLock, UNCHANGED colorOnly,
           ColorLock \in Painters => dev' = dev
    PROVE  ColorInv'
<1> USE DEF colorOnly
<1>1. \A w \in Painters : paintPc[w] \in CP!Holding => dev' = dev
  BY DEF ColorInv, CP!Core, CP!LockInv
<1>2. CP!Core'
  <2>1. CP!TypeOK'
    BY DEF ColorInv, CP!Core, CP!Base, CP!TypeOK
  <2>2. CP!CallInv' /\ CP!SnapshotInv' /\ CP!LockInv'
    BY DEF ColorInv, CP!Core, CP!Base, CP!CallInv, CP!SnapshotInv, CP!LockInv,
       CP!ContractHolds, CP!HasKey
  <2> QED
    BY <2>1, <2>2 DEF CP!Core, CP!Base
<1>3. CP!CalmInv'
  BY <1>1 DEF ColorInv, CP!CalmInv, CP!Repainted, CP!SettingsPreserved, CP!Normalized,
     CP!Witnessed
<1> QED
  BY <1>2, <1>3 DEF ColorInv
-----------------------------------------------------------------------------
(* The witness of a color write and the claims of Device outcomes.          *)

\* A color write changes a switch, if at all, by storing part of its witness.
LEMMA ColorWrites ==
    ASSUME NEW w \in Painters, CP!Step(w)
    PROVE  \/ dev' = dev
           \/ paintPc[w] = "refresh" /\ \E S \in SUBSET CP!WriteFields : CP!Refreshed(w, S)
BY DEF CP!Step, CP!PainterNext, CP!Faults, CP!KeyErrors, CP!Acquire, CP!Progress,
   CP!Request, CP!Refuse, CP!Begin, CP!ReadVersion, CP!ReadWitness, CP!RaiseBeforePost,
   CP!ReadNoOp, CP!ReadSettings, CP!PostConfirmed, CP!PostFails, CP!PostKeyError,
   CP!RefreshConfirmed, CP!RefreshFails, CP!VerifySettings, CP!ClassifySettings,
   CP!ReadBack, CP!VerifyFails, CP!VerifyConfirms, CP!VerifyMismatch, CP!VerifyKeyError,
   CP!Relogin, CP!ClassifyApplied, CP!ClassifyNotApplied, CP!ClassifyIndeterminate,
   CP!ClassifyFails, CP!Cancel, CP!CancelQueued, CP!controllerVars

\* So it takes no Device outcome back.
LEMMA RefreshKeepsClaims ==
    ASSUME Inv, NEW w \in Painters, CP!Step(w), claim' = claim
    PROVE  DP!ClaimsHold'
<1>1. CASE dev' = dev
  BY <1>1 DEF Inv, DP!ClaimInv, DP!ClaimsHold
<1>2. ASSUME paintPc[w] = "refresh",
             NEW S \in SUBSET CP!WriteFields, CP!Refreshed(w, S)
      PROVE  DP!ClaimsHold'
  <2> DEFINE d == paintCall[w].device
  <2> SUFFICES ASSUME NEW e \in Devices, NEW g \in DP!Fields, claim[e][g] # Unknown
               PROVE  dev'[e][g] = claim[e][g]
    BY DEF DP!ClaimsHold
  <2>1. dev[e][g] = claim[e][g]
    BY DEF Inv, DP!ClaimInv, DP!ClaimsHold
  <2>2. dev \in [Devices -> DP!Object]
    BY DEF Inv, Apart, DeviceInv, DP!Core, DP!Base, DP!TypeOK
  <2>3. e = d /\ g \in S => witness[w][g] = claim[e][g]
    BY <1>2 DEF Inv, WitnessKeepsClaims, CP!WriteFields, D!WriteFields
  <2>4. dev'[e][g] = IF e = d /\ g \in S THEN witness[w][g] ELSE dev[e][g]
    BY <1>2, <2>2 DEF CP!Refreshed, CP!Stored, CP!BuildRefresh, CP!Fields, DP!Fields,
       CP!WriteFields, DP!WriteFields
  <2> QED
    BY <2>1, <2>3, <2>4
<1> QED
  BY <1>1, <1>2, ColorWrites

\* The painter's own way to the POST and the refresh PUT.
LEMMA ColorWitness ==
    ASSUME CP!Core, NEW w \in Painters, CP!Step(w),
           paintPc'[w] \in {"settings", "post", "refresh"}
    PROVE  /\ paintCall'[w] = paintCall[w] /\ paintCall[w].device \in Devices
           /\ \/ paintPc[w] \in {"settings", "post"} /\ witness'[w] = witness[w]
              \/ witness'[w] = dev[paintCall[w].device]
<1>1. /\ paintPc[w] \in CP!Holding => paintCall[w].device \in Devices
      /\ paintPc \in [Painters -> CP!PcStates]
      /\ witness \in [Painters -> CP!Object \cup {NoObject}]
  BY DEF CP!Core, CP!Base, CP!TypeOK, CP!CallInv, CP!Holding, CP!ColorCall
<1>2. CP!ReadWitness(w) \/ CP!ReadSettings(w) \/ CP!PostConfirmed(w)
  BY <1>1 DEF CP!Step, CP!PainterNext, CP!Faults, CP!KeyErrors, CP!Acquire, CP!Progress,
     CP!Request, CP!Refuse, CP!Begin, CP!ReadVersion, CP!RaiseBeforePost, CP!ReadNoOp,
     CP!PostFails, CP!PostKeyError, CP!RefreshConfirmed, CP!RefreshFails,
     CP!VerifySettings, CP!ClassifySettings, CP!VerifyFails, CP!VerifyConfirms,
     CP!VerifyMismatch, CP!VerifyKeyError, CP!Relogin, CP!ClassifyApplied,
     CP!ClassifyNotApplied, CP!ClassifyIndeterminate, CP!ClassifyFails, CP!Cancel,
     CP!CancelQueued, CP!Settle, CP!Indeterminate, CP!Leave, CP!Goto, CP!Failed
<1> QED
  BY <1>1, <1>2 DEF CP!ReadWitness, CP!ReadSettings, CP!PostConfirmed, CP!Holding

\* The steps of the entry.
LEMMA NextWitnessKeepsClaims == Inv /\ [Next]_vars => WitnessKeepsClaims'
<1> SUFFICES ASSUME Inv, [Next]_vars, NEW p \in Painters,
                    paintPc'[p] \in {"settings", "post", "refresh"},
                    NEW g \in D!WriteFields, claim'[paintCall'[p].device][g] # Unknown
             PROVE  witness'[p][g] = claim'[paintCall'[p].device][g]
  BY DEF WitnessKeepsClaims
<1>1. CASE UNCHANGED <<paintPc, paintCall, witness, claim>>
  BY <1>1 DEF Inv, WitnessKeepsClaims
<1>2. ASSUME NEW w \in Writers, DeviceStep(w)
      PROVE  UNCHANGED <<paintPc, paintCall, witness, claim>>
  <2>1. UNCHANGED <<paintPc, paintCall, witness>>
    BY <1>2 DEF DeviceStep, colorOnly
  <2>2. ColorLock = p
    BY <2>1 DEF Inv, Apart, ColorInv, CP!Core, CP!LockInv, CP!Holding
  <2> QED
    BY <1>2, <2>1, <2>2, DeviceStepFrame DEF DeviceStep, Inv, Apart, DeviceInv
<1>3. ASSUME NEW w \in Painters, ColorStep(w)
      PROVE  witness'[p][g] = claim'[paintCall'[p].device][g]
  <2>1. CP!Step(w) /\ claim' = claim
    BY <1>3, ColorStepMaps DEF ColorStep, deviceOnly
  <2>2. CASE p = w
    <3>1. /\ paintCall'[w] = paintCall[w] /\ paintCall[w].device \in Devices
          /\ \/ paintPc[w] \in {"settings", "post"} /\ witness'[w] = witness[w]
             \/ witness'[w] = dev[paintCall[w].device]
      BY <2>1, <2>2, ColorWitness DEF Inv, Apart, ColorInv
    <3>2. \A d \in Devices : claim[d][g] # Unknown => dev[d][g] = claim[d][g]
      BY DEF Inv, DP!ClaimInv, DP!ClaimsHold, DP!Fields, DP!WriteFields,
         D!WriteFields
    <3> QED
      BY <2>1, <2>2, <3>1, <3>2 DEF Inv, WitnessKeepsClaims
  <2>3. CASE p # w
    <3>1. /\ paintPc'[p] = paintPc[p] /\ paintCall'[p] = paintCall[p]
          /\ witness'[p] = witness[p]
      BY <2>1, <2>3, CP!Frame, EntryFields, EntrySentinels, EntryBounds
         DEF Inv, Apart, ColorInv, CP!Core, CP!Base, C!ColorCall, CP!ColorCall, C!Object,
         CP!Object, D!Object, C!Fields, CP!Fields, D!Fields, C!WriteFields,
         CP!WriteFields, D!WriteFields, C!Color, CP!Color, C!Palette, CP!Palette,
         C!Mapping, CP!Mapping
    <3> QED
      BY <2>1, <3>1 DEF Inv, WitnessKeepsClaims
  <2> QED
    BY <2>2, <2>3
<1>4. ASSUME NEW d \in Devices, EditDevice(d)
      PROVE  witness'[p][g] = claim'[paintCall'[p].device][g]
  <2>1. UNCHANGED <<paintPc, paintCall, witness>>
    BY <1>4 DEF EditDevice
  <2>2. \E h \in DP!Fields : claim' = [claim EXCEPT ![d][h] = Unknown]
    BY <1>4, EditDeviceMaps DEF DP!Edit
  <2>3. claim \in [Devices -> [DP!Fields -> Values \cup {Invalid, Unknown}]]
    BY DEF Inv, Apart, DeviceInv, DP!Core, DP!Base, DP!TypeOK
  <2>4. paintCall[p].device \in Devices /\ g \in DP!Fields
    BY <2>1 DEF Inv, Apart, ColorInv, CP!Core, CP!Base, CP!CallInv, CP!ColorCall, DP!Fields,
       DP!WriteFields, D!WriteFields
  <2>5. claim'[paintCall[p].device][g] = claim[paintCall[p].device][g]
    BY <2>1, <2>2, <2>3, <2>4
  <2> QED
    BY <2>1, <2>5 DEF Inv, WitnessKeepsClaims
<1>5. ASSUME NEW s \in Slots, EditPalette(s)
      PROVE  UNCHANGED <<paintPc, paintCall, witness, claim>>
  BY <1>5 DEF EditPalette, C!EditPalette, C!painterVars, deviceOnly
<1> QED
  BY <1>1, <1>2, <1>3, <1>4, <1>5 DEF Next, vars, colorOnly, deviceOnly
-----------------------------------------------------------------------------
(* Both services of an entry.                                               *)

LEMMA InitInv == Init => Inv
<1> SUFFICES ASSUME Init PROVE Inv
  OBVIOUS
<1> USE EntryFields, EntrySentinels, EntryBounds, LockMaps DEF Init, D!Init, C!Init
<1>1. DP!Init
  BY DEF DP!Init, D!Fields, DP!Fields, D!WriteFields, DP!WriteFields
<1>2. DP!Core
  BY <1>1, DP!InitCore DEF D!Call, DP!Call, D!Object, DP!Object, D!Fields, DP!Fields,
     D!WriteFields, DP!WriteFields
<1>3. DP!ClaimInv /\ DP!AlarmInv
  BY DEF DP!ClaimInv, DP!ClaimsHold, DP!SnapshotKeepsClaims, DP!AlarmInv,
     DP!SnapshotCurrent, DP!CalmVerify, DP!NoFalseAlarm, DP!Fields, D!Fields,
     DP!WriteFields, D!WriteFields
<1>4. CP!Init
  BY DEF CP!Init, C!Fields, CP!Fields, C!WriteFields, CP!WriteFields
<1>5. CP!Base
  BY <1>4, CP!InitBase DEF C!ColorCall, CP!ColorCall, C!Object,
     CP!Object, D!Object, C!Fields, CP!Fields, D!Fields, C!WriteFields, CP!WriteFields,
     D!WriteFields, C!Color, CP!Color, C!Palette, CP!Palette, C!Mapping, CP!Mapping
<1>6. CP!Core /\ CP!CalmInv
  BY <1>5 DEF CP!Core, CP!LockInv, CP!CalmInv, CP!Holding, CP!Witnessed
<1>7. WitnessKeepsClaims
  BY DEF WitnessKeepsClaims
<1> QED
  BY <1>2, <1>3, <1>6, <1>7 DEF Inv, Apart, DeviceInv, ColorInv

\* Neither service breaks what the other keeps.
LEMMA NextApart == Apart /\ [Next]_vars => Apart'
<1> SUFFICES ASSUME Apart, [Next]_vars PROVE DeviceInv' /\ ColorInv'
  BY DEF Apart
<1> USE DEF Apart
<1>0. /\ dev \in [Devices -> DP!Object] /\ dev \in [Devices -> CP!Object]
      /\ edits \in 0..MaxEdits
  BY DEF DeviceInv, DP!Core, DP!Base, DP!TypeOK, ColorInv, CP!Core, CP!Base, CP!TypeOK
<1>1. ASSUME UNCHANGED vars PROVE DeviceInv' /\ ColorInv'
  <2>1. UNCHANGED <<dev, edits, deviceOnly, colorOnly>>
    BY <1>1 DEF vars
  <2>2. DeviceLock' = DeviceLock /\ ColorLock' = ColorLock
    BY <1>1, LockMaps DEF vars
  <2> QED
    BY <1>0, <2>1, <2>2, DeviceKept, ColorKept
<1>2. ASSUME NEW w \in Writers, DeviceStep(w) PROVE DeviceInv' /\ ColorInv'
  <2>1. DeviceInv'
    BY <1>2, DeviceStepMaps, DeviceInvNext DEF DeviceStep, DP!Next
  <2>2. dev' \in [Devices -> CP!Object]
    BY <2>1 DEF DeviceInv, DP!Core, DP!Base, DP!TypeOK, DP!Object, CP!Object, DP!Fields,
       CP!Fields, DP!WriteFields, CP!WriteFields
  <2>3. /\ edits' = edits /\ ColorLock' = ColorLock
        /\ ColorLock \in Painters => dev' = dev
    BY <1>2, DeviceStepFrame DEF DeviceStep, DeviceInv
  <2> QED
    BY <1>0, <1>2, <2>1, <2>2, <2>3, ColorKept DEF DeviceStep
<1>3. ASSUME NEW w \in Painters, ColorStep(w) PROVE DeviceInv' /\ ColorInv'
  <2>1. CP!Step(w) /\ UNCHANGED deviceOnly
    BY <1>3, ColorStepMaps DEF ColorStep
  <2>2. CP!FaultyNext
    BY <2>1 DEF CP!Step, CP!FaultyNext, CP!Next
  <2>3. ColorInv'
    BY <2>2, ColorInvNext
  <2>4. dev' \in [Devices -> DP!Object]
    BY <2>3 DEF ColorInv, CP!Core, CP!Base, CP!TypeOK, DP!Object, CP!Object, DP!Fields,
       CP!Fields, DP!WriteFields, CP!WriteFields
  <2>5. /\ edits' = edits /\ DeviceLock' = DeviceLock
        /\ DeviceLock \in Writers => dev' = dev
    BY <1>3, ColorStepFrame DEF ColorStep, ColorInv
  <2> QED
    BY <1>0, <2>1, <2>3, <2>4, <2>5, DeviceKept
<1>4. ASSUME NEW d \in Devices, EditDevice(d) PROVE DeviceInv' /\ ColorInv'
  <2>1. DP!Next /\ CP!FaultyNext
    BY <1>4, EditDeviceMaps DEF DP!Next, CP!FaultyNext, CP!Next
  <2> QED
    BY <2>1, DeviceInvNext, ColorInvNext
<1>5. ASSUME NEW s \in Slots, EditPalette(s) PROVE DeviceInv' /\ ColorInv'
  <2>1. CP!EditPalette(s) /\ UNCHANGED <<dev, writeLock, deviceOnly>>
    BY <1>5, EditPaletteMaps
  <2>2. ColorInv'
    BY <2>1, ColorInvNext DEF CP!FaultyNext, CP!Next
  <2>3. edits' \in 0..MaxEdits
    BY <2>2 DEF ColorInv, CP!Core, CP!Base, CP!TypeOK
  <2> QED
    BY <1>0, <2>1, <2>2, <2>3, LockMaps, DeviceKept
<1> QED
  BY <1>1, <1>2, <1>3, <1>4, <1>5 DEF Next

LEMMA SpecApart == Spec => []Apart
<1>1. Init => Apart
  BY InitInv DEF Inv
<1> QED
  BY <1>1, NextApart, PTL DEF Spec

\* Neither service makes a Device outcome false.
LEMMA NextClaimInv ==
    ASSUME MaxLate = 0
    PROVE  Inv /\ [Next]_vars => DP!ClaimInv'
<1> SUFFICES ASSUME Inv, [Next]_vars PROVE DP!ClaimInv'
  OBVIOUS
<1>1. ASSUME UNCHANGED deviceOnly, DP!ClaimsHold' PROVE DP!ClaimInv'
  BY <1>1 DEF Inv, DP!ClaimInv, DP!SnapshotKeepsClaims, deviceOnly
<1>2. ASSUME UNCHANGED <<dev, deviceOnly>> PROVE DP!ClaimInv'
  BY <1>1, <1>2 DEF Inv, DP!ClaimInv, DP!ClaimsHold, deviceOnly
<1>3. ASSUME NEW w \in Writers, DeviceStep(w) PROVE DP!ClaimInv'
  BY <1>3, DeviceStepMaps, DeviceClaimsNext DEF DeviceStep, DP!Next, Inv, Apart
<1>4. ASSUME NEW w \in Painters, ColorStep(w) PROVE DP!ClaimInv'
  BY <1>1, <1>4, ColorStepMaps, RefreshKeepsClaims DEF ColorStep, deviceOnly
<1>5. ASSUME NEW d \in Devices, EditDevice(d) PROVE DP!ClaimInv'
  BY <1>5, EditDeviceMaps, DeviceClaimsNext DEF DP!Next, Inv, Apart
<1>6. ASSUME NEW s \in Slots, EditPalette(s) PROVE DP!ClaimInv'
  BY <1>2, <1>6, EditPaletteMaps
<1> QED
  BY <1>2, <1>3, <1>4, <1>5, <1>6 DEF Next, vars

LEMMA SpecInv == ASSUME MaxLate = 0 PROVE Spec => []Inv
<1>1. Inv /\ [Next]_vars => Inv'
  BY NextApart, NextClaimInv, NextWitnessKeepsClaims DEF Inv
<1> QED
  BY <1>1, InitInv, PTL DEF Spec

\* A settled Device outcome survives the color writes of its entry, the refresh PUT
\* of color.py included: that PUT repeats what the switch holds, never what it held
\* before a concurrent control write.
THEOREM OutcomesSurviveColors ==
    ASSUME MaxLate = 0
    PROVE  Spec => []DeviceOutcomesHold
<1>1. Inv => DeviceOutcomesHold
  BY DEF Inv, DP!ClaimInv, DP!ClaimsHold, DeviceOutcomesHold, D!ClaimsHold,
     D!Fields, DP!Fields, D!WriteFields, DP!WriteFields
<1> QED
  BY <1>1, SpecInv, PTL

\* Between the read of one service and the write built from it, no call of the other
\* writes: the lock that async_setup_entry gives both of them.
THEOREM SnapshotsStayCurrent == Spec => []SnapshotsCurrentAcross
<1>1. Apart => SnapshotsCurrentAcross
  BY DEF Apart, DeviceInv, DP!AlarmInv, DP!SnapshotCurrent, ColorInv, CP!CalmInv,
     SnapshotsCurrentAcross, D!SnapshotCurrent, C!SnapshotsCurrent, CP!Witnessed,
     CP!Holding
<1> QED
  BY <1>1, SpecApart, PTL

\* No write that nothing from outside disturbs is reported as unverified, or blocks
\* its switch or the palette, because of the other service's writes.
THEOREM NoServiceAlarmsTheOther == Spec => []NoCrossAlarm
<1>1. Apart => NoCrossAlarm
  BY DEF Apart, DeviceInv, DP!AlarmInv, DP!NoFalseAlarm, ColorInv, CP!CalmInv,
     NoCrossAlarm, D!NoFalseAlarm, C!NoFalseAlarm
<1> QED
  BY <1>1, SpecApart, PTL

\* Whoever holds the lock, fails or is cancelled, a blocked site's palette changes
\* only by the operator's hand.
THEOREM BlockedSitesStaySilent == Spec => BlockedSiteStaysSilent
<1>1. Apart /\ [Next]_vars => [C!SiteStaysSilent]_vars
  <2> SUFFICES ASSUME Apart, Next, siteBlocked, palette' # palette PROVE edits' # edits
    BY DEF C!SiteStaysSilent
  <2>1. ASSUME NEW w \in Writers, DeviceStep(w) PROVE FALSE
    BY <2>1 DEF DeviceStep, colorOnly
  <2>2. ASSUME NEW w \in Painters, ColorStep(w) PROVE FALSE
    <3>1. CP!Step(w)
      BY <2>2, ColorStepMaps DEF ColorStep
    <3>2. paintPc[w] \in CP!Holding
      BY <3>1 DEF CP!Step, CP!PainterNext, CP!Faults, CP!KeyErrors, CP!Acquire,
         CP!Progress, CP!Request, CP!Refuse, CP!Begin, CP!ReadVersion, CP!ReadWitness,
         CP!RaiseBeforePost, CP!ReadNoOp, CP!ReadSettings, CP!PostConfirmed, CP!PostFails,
         CP!PostKeyError, CP!RefreshConfirmed, CP!RefreshFails, CP!VerifySettings,
         CP!ClassifySettings, CP!ReadBack, CP!VerifyFails, CP!VerifyConfirms,
         CP!VerifyMismatch, CP!VerifyKeyError, CP!Relogin, CP!ClassifyApplied,
         CP!ClassifyNotApplied, CP!ClassifyIndeterminate, CP!ClassifyFails, CP!Cancel,
         CP!CancelQueued, CP!controllerVars, CP!Holding
    <3> QED
      BY <3>2 DEF Apart, ColorInv, CP!Core, CP!LockInv
  <2>3. ASSUME NEW d \in Devices, EditDevice(d) PROVE FALSE
    BY <2>3 DEF EditDevice
  <2>4. ASSUME NEW s \in Slots, EditPalette(s) PROVE edits' # edits
    <3>1. edits \in Nat /\ edits' = edits + 1
      BY <2>4, EntryBounds DEF EditPalette, C!EditPalette, Apart, ColorInv, CP!Core,
         CP!Base, CP!TypeOK
    <3> QED
      BY <3>1
  <2> QED
    BY <2>1, <2>2, <2>3, <2>4 DEF Next
<1> QED
  BY <1>1, SpecApart, PTL DEF BlockedSiteStaysSilent, Spec
=============================================================================
