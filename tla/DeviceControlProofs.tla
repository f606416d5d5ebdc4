------------------------ MODULE DeviceControlProofs ------------------------
(***************************************************************************)
(* Proofs about DeviceControl, for every set of devices, writers, fields   *)
(* and values.  The inductive invariant is the conjunction of the parts    *)
(* below; each is preserved by the help of the ones before it.             *)
(***************************************************************************)
EXTENDS DeviceControl, FiniteSetTheorems, TLAPS

Holding == {"version", "current", "put", "verify", "relogin", "classify"}
Snapshotted == {"put", "verify", "relogin", "classify"}

\* a call has arguments, and past its validation confirmed ones
CallInv ==
    \A w \in Writers :
        /\ pc[w] # "idle" => call[w] \in Call
        /\ pc[w] \in Holding => call[w].requested \in Values

\* past the read, `current` is an object that satisfies the write contract
SnapshotInv ==
    \A w \in Writers :
        pc[w] \in Snapshotted => current[w] \in Object /\ ContractHolds(current[w])

\* the coroutine that is past the lock's acquisition is the lock's owner
LockInv == \A w \in Writers : pc[w] \in Holding => writeLock = w

\* the lock's owner has a device that is not blocked
BlockInv == \A w \in Writers : pc[w] \in Holding => call[w].device \notin blockedDevices

Base == TypeOK /\ CallInv /\ SnapshotInv

-----------------------------------------------------------------------------
(* What the operators on objects return.                                    *)

\* The payload built from a contract-complete object is a payload.
LEMMA PayloadType ==
    ASSUME NEW o \in Object, ContractHolds(o), NEW f \in Controls, NEW v \in Values
    PROVE  BuildPayload(o, f, v) \in Payload
BY DEF BuildPayload, ContractHolds, Payload, Object, Fields, WriteFields

\* Storing any part of a payload leaves an object.
LEMMA StoredType ==
    ASSUME NEW o \in Object, NEW p \in Payload, NEW S \in SUBSET WriteFields
    PROVE  Stored(o, p, S) \in Object
BY DEF Stored, Payload, Object, Fields

\* An outcome asserts values of fields.
LEMMA AssertedType ==
    ASSUME NEW o \in Object, NEW f \in Fields, NEW v \in Values \cup {Invalid}
    PROVE  Asserted(o, f, v) \in [Fields -> Values \cup {Invalid, Unknown}]
BY DEF Asserted, Object

\* What the coroutine w, about to write, sends and to which device.
LEMMA PutFacts ==
    ASSUME Base, NEW w \in Writers, pc[w] \in Snapshotted
    PROVE  /\ call[w] \in Call
           /\ call[w].device \in Devices
           /\ call[w].field \in Controls
           /\ call[w].field \in Fields
           /\ call[w].requested \in Values
           /\ current[w] \in Object
           /\ PayloadOf(w) \in Payload
<1>1. /\ call[w] \in Call /\ call[w].requested \in Values
      /\ current[w] \in Object /\ ContractHolds(current[w])
  BY DEF Base, CallInv, SnapshotInv, Snapshotted, Holding
<1>2. call[w].device \in Devices /\ call[w].field \in Controls
  BY <1>1 DEF Call
<1>3. PayloadOf(w) \in Payload
  BY <1>1, <1>2, PayloadType DEF PayloadOf
<1> QED
  BY <1>1, <1>2, <1>3 DEF Fields, WriteFields

-----------------------------------------------------------------------------
(* Types, arguments and snapshots.                                          *)

LEMMA InitBase == Init => Base
<1> SUFFICES ASSUME Init PROVE Base
  OBVIOUS
<1>1. TypeOK
  BY BoundsAreNaturals DEF Init, TypeOK, Object, PcStates, ErrorCodes
<1>2. CallInv /\ SnapshotInv
  BY DEF Init, CallInv, SnapshotInv, Holding, Snapshotted
<1> QED
  BY <1>1, <1>2 DEF Base

\* Leaving the service keeps the bookkeeping of the coroutines typed.
LEMMA LeaveBase ==
    ASSUME Base, NEW w \in Writers, Leave(w)
    PROVE  /\ writeLock' \in Writers \cup {NoOne}
           /\ pc' \in [Writers -> PcStates]
           /\ call' \in [Writers -> Call \cup {NoCall}]
           /\ current' \in [Writers -> Object \cup {NoObject}]
           /\ calm' \in [Writers -> BOOLEAN]
           /\ CallInv' /\ SnapshotInv'
<1>1. /\ writeLock' \in Writers \cup {NoOne}
      /\ pc' \in [Writers -> PcStates]
      /\ call' \in [Writers -> Call \cup {NoCall}]
      /\ current' \in [Writers -> Object \cup {NoObject}]
      /\ calm' \in [Writers -> BOOLEAN]
  BY DEF Base, TypeOK, Leave, PcStates
<1>2. CallInv'
  BY DEF Base, TypeOK, CallInv, Leave, Holding
<1>3. SnapshotInv'
  BY DEF Base, TypeOK, SnapshotInv, Leave, Snapshotted, ContractHolds
<1> QED
  BY <1>1, <1>2, <1>3

LEMMA RequestBase == ASSUME Base, NEW w \in Writers, Request(w) PROVE Base'
<1> USE DEF Base, Request, Goto, controllerVars, serviceVars, historyVars
<1>1. TypeOK'
  BY DEF TypeOK, PcStates
<1>2. CallInv'
  BY DEF TypeOK, CallInv, Holding
<1>3. SnapshotInv'
  BY DEF TypeOK, SnapshotInv, Snapshotted, ContractHolds
<1> QED
  BY <1>1, <1>2, <1>3

LEMMA BeginBase == ASSUME Base, NEW w \in Writers, Begin(w) PROVE Base'
<1> USE DEF Base, Begin, Goto, controllerVars, historyVars
<1>1. TypeOK'
  BY DEF TypeOK, PcStates
<1>2. CallInv'
  BY DEF TypeOK, CallInv, Holding, Call
<1>3. SnapshotInv'
  BY DEF TypeOK, SnapshotInv, Snapshotted, ContractHolds
<1> QED
  BY <1>1, <1>2, <1>3

\* Steps that only move a coroutine on, past its snapshot or before it.
LEMMA MoveBase ==
    ASSUME Base, NEW w \in Writers,
           \/ ReadVersion(w) \/ VerifyMismatch(w) \/ VerifyFails(w) \/ Relogin(w)
    PROVE  Base'
<1>1. /\ pc' \in [Writers -> PcStates]
      /\ calm' \in [Writers -> BOOLEAN]
      /\ \A x \in Writers : /\ pc'[x] = "idle" => pc[x] = "idle"
                            /\ pc[x] = "idle" => pc'[x] = "idle"
                            /\ pc'[x] \in Holding => pc[x] \in Holding
                            /\ pc'[x] \in Snapshotted => pc[x] \in Snapshotted
      /\ UNCHANGED <<controllerVars, serviceVars, call, current, unproven, claim>>
  BY DEF Base, TypeOK, ReadVersion, VerifyMismatch, VerifyFails, Relogin, Goto, Failed,
         PcStates, Holding, Snapshotted, historyVars
<1>2. TypeOK'
  BY <1>1 DEF Base, TypeOK, controllerVars, serviceVars
<1>3. CallInv'
  BY <1>1 DEF Base, CallInv
<1>4. SnapshotInv'
  BY <1>1 DEF Base, SnapshotInv, ContractHolds
<1> QED
  BY <1>2, <1>3, <1>4 DEF Base

\* The read that becomes the snapshot.
LEMMA ReadCurrentBase == ASSUME Base, NEW w \in Writers, ReadCurrent(w) PROVE Base'
<1>1. /\ pc[w] = "current" /\ call[w] \in Call
      /\ dev[call[w].device] \in Object /\ ContractHolds(dev[call[w].device])
  BY DEF Base, TypeOK, CallInv, Call, ReadCurrent
<1> USE DEF Base, ReadCurrent, Goto, controllerVars, serviceVars, historyVars
<1>2. TypeOK'
  BY <1>1 DEF TypeOK, PcStates
<1>3. CallInv'
  BY DEF TypeOK, CallInv, Holding
<1>4. SnapshotInv'
  BY <1>1 DEF TypeOK, SnapshotInv, Snapshotted, ContractHolds
<1> QED
  BY <1>2, <1>3, <1>4

\* The endings before any PUT.
LEMMA EarlyEndBase ==
    ASSUME Base, NEW w \in Writers,
           \/ Refuse(w) \/ RaiseBeforePut(w) \/ ReadUnsupported(w)
           \/ ReadNoOp(w) \/ Cancel(w)
    PROVE  Base'
<1>1. Leave(w) /\ UNCHANGED <<controllerVars, blockedDevices, unproven>>
  BY DEF Refuse, RaiseBeforePut, ReadUnsupported, ReadNoOp, Cancel
<1>2. lastErrorCode' \in ErrorCodes
  BY DEF Base, TypeOK, Refuse, RaiseBeforePut, ReadUnsupported, ReadNoOp, Cancel,
         ErrorCodes
<1>3. claim' \in [Devices -> [Fields -> Values \cup {Invalid, Unknown}]]
  <2>1. CASE ReadNoOp(w)
    <3>1. /\ call[w].device \in Devices /\ call[w].field \in Fields
          /\ call[w].requested \in Values
      BY <2>1 DEF ReadNoOp, Base, CallInv, Call, Holding, Fields, WriteFields
    <3> QED
      BY <2>1, <3>1 DEF ReadNoOp, Base, TypeOK
  <2>2. CASE ~ReadNoOp(w)
    BY <2>2 DEF Base, TypeOK, Refuse, RaiseBeforePut, ReadUnsupported, Cancel
  <2> QED
    BY <2>1, <2>2
<1> QED
  BY <1>1, <1>2, <1>3, LeaveBase DEF Base, TypeOK, controllerVars

LEMMA CancelQueuedBase == ASSUME Base, NEW w \in Writers, CancelQueued(w) PROVE Base'
<1> USE DEF Base, CancelQueued, Goto, controllerVars, serviceVars, historyVars
<1>1. TypeOK'
  BY DEF TypeOK, PcStates
<1>2. CallInv'
  BY DEF TypeOK, CallInv, Holding
<1>3. SnapshotInv'
  BY DEF TypeOK, SnapshotInv, Snapshotted, ContractHolds
<1> QED
  BY <1>1, <1>2, <1>3

\* What every PUT does to the controller and the history.
LEMMA SentTypes ==
    ASSUME Base, NEW w \in Writers, pc[w] \in Snapshotted,
           \E S \in SUBSET WriteFields : Sent(w, S)
    PROVE  /\ dev' \in [Devices -> Object]
           /\ unproven' \subseteq Devices
           /\ claim' \in [Devices -> [Fields -> Values \cup {Invalid, Unknown}]]
<1> PICK S \in SUBSET WriteFields : Sent(w, S)
  OBVIOUS
<1>1. /\ call[w].device \in Devices /\ call[w].field \in Fields
      /\ PayloadOf(w) \in Payload
  BY PutFacts
<1>2. dev[call[w].device] \in Object
  BY <1>1 DEF Base, TypeOK
<1>3. Stored(dev[call[w].device], PayloadOf(w), S) \in Object
  BY <1>1, <1>2, StoredType
<1> QED
  BY <1>1, <1>3 DEF Sent, Base, TypeOK

\* A PUT whose caller goes on to verify or classify it.
LEMMA PutBase ==
    ASSUME Base, NEW w \in Writers, PutConfirmed(w) \/ PutFails(w) \/ PutTimesOut(w)
    PROVE  Base'
<1>1. pc[w] = "put" /\ pc[w] \in Snapshotted
  BY DEF PutConfirmed, PutFails, PutTimesOut, Snapshotted
<1>2. \E S \in SUBSET WriteFields : Sent(w, S)
  BY DEF PutConfirmed, PutFails, PutTimesOut
<1>3. late' \subseteq [device : Devices, payload : Payload]
  <2>1. call[w].device \in Devices /\ PayloadOf(w) \in Payload
    BY <1>1, PutFacts
  <2> QED
    BY <2>1 DEF Base, TypeOK, PutConfirmed, PutFails, PutTimesOut
<1>4. /\ calm' \in [Writers -> BOOLEAN]
      /\ pc' \in [Writers -> PcStates]
      /\ \A x \in Writers : /\ pc'[x] = "idle" => pc[x] = "idle"
                            /\ pc[x] = "idle" => pc'[x] = "idle"
                            /\ pc'[x] \in Holding => pc[x] \in Holding
                            /\ pc'[x] \in Snapshotted => pc[x] \in Snapshotted
      /\ UNCHANGED <<edits, serviceVars, call, current>>
  <2>1. calm' \in [Writers -> BOOLEAN]
    BY DEF Base, TypeOK, PutConfirmed, PutFails, PutTimesOut
  <2>2. UNCHANGED <<edits, serviceVars, call, current>>
    BY DEF PutConfirmed, PutFails, PutTimesOut
  <2>3. \E label \in {"verify", "classify", "relogin"} : Goto(w, label)
    BY DEF PutConfirmed, PutFails, PutTimesOut, Failed
  <2> QED
    BY <1>1, <2>1, <2>2, <2>3 DEF Base, TypeOK, Goto, PcStates, Holding, Snapshotted
<1>5. TypeOK'
  BY <1>1, <1>2, <1>3, <1>4, SentTypes DEF Base, TypeOK, serviceVars
<1>6. CallInv'
  BY <1>4 DEF Base, CallInv
<1>7. SnapshotInv'
  BY <1>4 DEF Base, SnapshotInv, ContractHolds
<1> QED
  BY <1>5, <1>6, <1>7 DEF Base

LEMMA CancelPutBase == ASSUME Base, NEW w \in Writers, CancelPut(w) PROVE Base'
<1>1. pc[w] \in Snapshotted /\ \E S \in SUBSET WriteFields : Sent(w, S)
  BY DEF CancelPut, Snapshotted
<1>2. Leave(w) /\ UNCHANGED <<edits, late, blockedDevices, lastErrorCode>>
  BY DEF CancelPut
<1> QED
  BY <1>1, <1>2, SentTypes, LeaveBase DEF Base, TypeOK

\* The outcomes.
LEMMA OutcomeBase ==
    ASSUME Base, NEW w \in Writers,
           \/ VerifyConfirms(w) \/ ClassifyApplied(w) \/ ClassifyNotApplied(w)
           \/ ClassifyIndeterminate(w) \/ ClassifyFails(w)
    PROVE  Base'
<1>1. pc[w] \in Snapshotted /\ UNCHANGED controllerVars
  BY DEF VerifyConfirms, ClassifyApplied, ClassifyNotApplied, ClassifyIndeterminate,
         ClassifyFails, Snapshotted
<1>2. /\ call[w].device \in Devices /\ call[w].field \in Fields
      /\ call[w].requested \in Values /\ current[w] \in Object
  BY <1>1, PutFacts
<1>3. ASSUME NEW v \in Values \cup {Invalid}, NEW code \in ErrorCodes, Settle(w, v, code)
      PROVE  Base'
  <2>1. /\ Leave(w) /\ lastErrorCode' \in ErrorCodes
        /\ blockedDevices' \subseteq Devices /\ unproven' \subseteq Devices
    BY <1>3 DEF Settle, Base, TypeOK
  <2>2. claim' \in [Devices -> [Fields -> Values \cup {Invalid, Unknown}]]
    BY <1>2, <1>3, AssertedType DEF Settle, Base, TypeOK
  <2> QED
    BY <1>1, <2>1, <2>2, LeaveBase DEF Base, TypeOK, controllerVars
<1>4. ASSUME Indeterminate(w) PROVE Base'
  <2>1. /\ Leave(w) /\ lastErrorCode' \in ErrorCodes
        /\ blockedDevices' \subseteq Devices /\ UNCHANGED <<unproven, claim>>
    BY <1>2, <1>4 DEF Indeterminate, Base, TypeOK, ErrorCodes
  <2> QED
    BY <1>1, <2>1, LeaveBase DEF Base, TypeOK, controllerVars
<1>5. current[w][call[w].field] \in Values \cup {Invalid}
  BY <1>2 DEF Object
<1> QED
  BY <1>2, <1>3, <1>4, <1>5 DEF VerifyConfirms, ClassifyApplied, ClassifyNotApplied,
     ClassifyIndeterminate, ClassifyFails, ErrorCodes

\* The controller's own steps leave the coroutines alone.
LEMMA OutsideBase ==
    ASSUME Base, (\E d \in Devices : Edit(d)) \/ ApplyLate
    PROVE  Base'
<1>1. CASE \E d \in Devices : Edit(d)
  <2> PICK d \in Devices : Edit(d)
    BY <1>1
  <2>1. /\ edits' \in 0..MaxEdits
        /\ dev' \in [Devices -> Object]
        /\ claim' \in [Devices -> [Fields -> Values \cup {Invalid, Unknown}]]
        /\ UNCHANGED <<late, serviceVars, writerVars, unproven>>
    BY BoundsAreNaturals DEF Edit, Base, TypeOK, Object
  <2>2. calm' \in [Writers -> BOOLEAN]
    BY DEF Edit, Disturb, Base, TypeOK
  <2> QED
    BY <2>1, <2>2 DEF Base, TypeOK, CallInv, SnapshotInv, ContractHolds, serviceVars,
                      writerVars
<1>2. CASE ApplyLate
  <2> PICK r \in late : /\ late' = late \ {r}
                        /\ dev' = [dev EXCEPT ![r.device] =
                               Stored(dev[r.device], r.payload, WriteFields)]
                        /\ Disturb(r.device)
                        /\ UNCHANGED <<edits, serviceVars, writerVars, unproven, claim>>
    BY <1>2 DEF ApplyLate
  <2>1. r.device \in Devices /\ r.payload \in Payload
    BY DEF Base, TypeOK
  <2>2. dev' \in [Devices -> Object]
    BY <2>1, StoredType DEF Base, TypeOK
  <2>3. calm' \in [Writers -> BOOLEAN]
    BY DEF Disturb, Base, TypeOK
  <2> QED
    BY <2>2, <2>3 DEF Base, TypeOK, CallInv, SnapshotInv, ContractHolds, serviceVars,
                      writerVars
<1> QED
  BY <1>1, <1>2

LEMMA StutterBase == ASSUME Base, UNCHANGED vars PROVE Base'
BY DEF Base, TypeOK, CallInv, SnapshotInv, ContractHolds, vars

LEMMA NextBase == Base /\ [Next]_vars => Base'
<1> SUFFICES ASSUME Base, [Next]_vars PROVE Base'
  OBVIOUS
<1>1. CASE UNCHANGED vars
  BY <1>1, StutterBase
<1>2. ASSUME NEW w \in Writers, WriterNext(w) PROVE Base'
  BY <1>2, RequestBase, BeginBase, MoveBase, ReadCurrentBase, EarlyEndBase,
     CancelQueuedBase, PutBase, CancelPutBase, OutcomeBase
     DEF WriterNext, Acquire, Progress
<1>3. CASE (\E d \in Devices : Edit(d)) \/ ApplyLate
  BY <1>3, OutsideBase
<1> QED
  BY <1>1, <1>2, <1>3 DEF Next

\* Every reachable state is typed, its calls have confirmed arguments and its
\* snapshots satisfy the write contract.
THEOREM SpecBase == Spec => []Base
<1>1. Base /\ [][Next]_vars => []Base
  BY NextBase, PTL
<1> QED
  BY InitBase, <1>1, PTL DEF Spec

\* Type correctness of the Device control service for every set of devices,
\* fields, values and writers.
THEOREM TypeCorrect == Spec => []TypeOK
<1>1. Base => TypeOK
  BY DEF Base
<1> QED
  BY <1>1, SpecBase, PTL

-----------------------------------------------------------------------------
(* The lock: what one coroutine's step cannot do to another.                *)

Core == Base /\ LockInv /\ BlockInv

\* A step of w leaves the locals of the other coroutines alone.
LEMMA Frame ==
    ASSUME Base, NEW w \in Writers, WriterNext(w), NEW x \in Writers, x # w
    PROVE  /\ pc'[x] = pc[x] /\ call'[x] = call[x]
           /\ current'[x] = current[x] /\ calm'[x] = calm[x]
<1> USE DEF Base, TypeOK
<1>1. CASE Request(w) \/ CancelQueued(w) \/ Begin(w) \/ ReadVersion(w) \/ ReadCurrent(w)
  BY <1>1 DEF Request, CancelQueued, Begin, ReadVersion, ReadCurrent, Goto, historyVars
<1>2. ASSUME Leave(w)
      PROVE  /\ pc'[x] = pc[x] /\ call'[x] = call[x]
             /\ current'[x] = current[x] /\ calm'[x] = calm[x]
  BY <1>2 DEF Leave
<1>3. CASE \/ Refuse(w) \/ RaiseBeforePut(w) \/ ReadUnsupported(w) \/ ReadNoOp(w)
           \/ Cancel(w) \/ CancelPut(w) \/ VerifyConfirms(w) \/ ClassifyApplied(w)
           \/ ClassifyNotApplied(w) \/ ClassifyIndeterminate(w) \/ ClassifyFails(w)
  BY <1>2, <1>3 DEF Refuse, RaiseBeforePut, ReadUnsupported, ReadNoOp, Cancel, CancelPut,
     VerifyConfirms, ClassifyApplied, ClassifyNotApplied, ClassifyIndeterminate,
     ClassifyFails, Settle, Indeterminate
<1>4. CASE PutConfirmed(w) \/ PutFails(w) \/ PutTimesOut(w)
  BY <1>4 DEF PutConfirmed, PutFails, PutTimesOut, Goto, Failed
<1>5. CASE VerifyMismatch(w) \/ VerifyFails(w) \/ Relogin(w)
  BY <1>5 DEF VerifyMismatch, VerifyFails, Relogin, Goto, Failed, historyVars
<1> QED
  BY <1>1, <1>3, <1>4, <1>5 DEF WriterNext, Acquire, Progress

\* While x is past the lock's acquisition, w changes nothing that is shared.
LEMMA Exclusive ==
    ASSUME Base, LockInv, NEW w \in Writers, WriterNext(w),
           NEW x \in Writers, x # w, pc[x] \in Holding
    PROVE  UNCHANGED <<controllerVars, serviceVars, unproven, claim>>
<1>1. writeLock = x /\ writeLock # NoOne
  BY SentinelsFresh DEF LockInv
<1>2. pc[w] \notin Holding
  BY <1>1 DEF LockInv
<1>3. Request(w) \/ CancelQueued(w)
  BY <1>1, <1>2 DEF WriterNext, Acquire, Progress, Holding, Refuse, Begin, LockFree,
     ReadVersion, RaiseBeforePut, ReadUnsupported, ReadNoOp, ReadCurrent, PutConfirmed,
     PutFails, PutTimesOut, VerifyConfirms, VerifyMismatch, VerifyFails, Relogin,
     ClassifyApplied, ClassifyNotApplied, ClassifyIndeterminate, ClassifyFails, Cancel,
     CancelPut, Base, TypeOK, PcStates
<1> QED
  BY <1>3 DEF Request, CancelQueued, historyVars

\* How w itself gets past the lock's acquisition, and what it keeps there.
LEMMA OwnStep ==
    ASSUME Base, LockInv, NEW w \in Writers, WriterNext(w), pc'[w] \in Holding
    PROVE  \/ Begin(w)
           \/ /\ pc[w] \in Holding
              /\ call'[w] = call[w]
              /\ UNCHANGED serviceVars
<1> USE DEF Base, TypeOK, Holding
<1>1. ASSUME Leave(w) PROVE FALSE
  BY <1>1 DEF Leave
<1>2. ~Request(w) /\ ~CancelQueued(w)
  BY DEF Request, CancelQueued, Goto
<1>3. /\ ~Refuse(w) /\ ~RaiseBeforePut(w) /\ ~ReadUnsupported(w) /\ ~ReadNoOp(w)
      /\ ~Cancel(w) /\ ~CancelPut(w) /\ ~VerifyConfirms(w) /\ ~ClassifyApplied(w)
      /\ ~ClassifyNotApplied(w) /\ ~ClassifyIndeterminate(w) /\ ~ClassifyFails(w)
  BY <1>1 DEF Refuse, RaiseBeforePut, ReadUnsupported, ReadNoOp, Cancel, CancelPut,
     VerifyConfirms, ClassifyApplied, ClassifyNotApplied, ClassifyIndeterminate,
     ClassifyFails, Settle, Indeterminate
<1>4. ASSUME \/ ReadVersion(w) \/ ReadCurrent(w) \/ PutConfirmed(w) \/ PutFails(w)
             \/ PutTimesOut(w) \/ VerifyMismatch(w) \/ VerifyFails(w) \/ Relogin(w)
      PROVE  pc[w] \in Holding /\ call'[w] = call[w] /\ UNCHANGED serviceVars
  BY <1>4 DEF ReadVersion, ReadCurrent, PutConfirmed, PutFails, PutTimesOut,
     VerifyMismatch, VerifyFails, Relogin
<1> QED
  BY <1>2, <1>3, <1>4 DEF WriterNext, Acquire, Progress

LEMMA InitCore == Init => Core
BY InitBase DEF Init, Core, LockInv, BlockInv, Holding

LEMMA NextCore == Core /\ [Next]_vars => Core'
<1> SUFFICES ASSUME Core, [Next]_vars PROVE Core'
  OBVIOUS
<1>1. Base'
  BY NextBase DEF Core
<1>2. CASE UNCHANGED vars \/ (\E d \in Devices : Edit(d)) \/ ApplyLate
  <2>1. UNCHANGED <<serviceVars, writerVars>>
    BY <1>2 DEF vars, serviceVars, writerVars, Edit, ApplyLate
  <2> QED
    BY <1>1, <2>1 DEF Core, LockInv, BlockInv, serviceVars, writerVars
<1>3. ASSUME NEW w \in Writers, WriterNext(w),
             NEW x \in Writers, pc'[x] \in Holding
      PROVE  writeLock' = x /\ call'[x].device \notin blockedDevices'
  <2>1. CASE x = w
    <3>1. CASE Begin(w)
      BY <2>1, <3>1 DEF Begin, IsWriteBlocked
    <3>2. CASE pc[w] \in Holding /\ call'[w] = call[w] /\ UNCHANGED serviceVars
      BY <2>1, <3>2 DEF Core, LockInv, BlockInv, serviceVars
    <3> QED
      BY <1>3, <2>1, <3>1, <3>2, OwnStep DEF Core
  <2>2. CASE x # w
    <3>1. pc[x] \in Holding /\ call'[x] = call[x]
      BY <1>3, <2>2, Frame DEF Core
    <3>2. UNCHANGED serviceVars
      BY <1>3, <2>2, <3>1, Exclusive DEF Core
    <3> QED
      BY <3>1, <3>2 DEF Core, LockInv, BlockInv, serviceVars
  <2> QED
    BY <2>1, <2>2
<1> QED
  BY <1>1, <1>2, <1>3 DEF Core, LockInv, BlockInv, Next

THEOREM SpecCore == Spec => []Core
<1>1. Core /\ [][Next]_vars => []Core
  BY NextCore, PTL
<1> QED
  BY InitCore, <1>1, PTL DEF Spec

-----------------------------------------------------------------------------
(* The snapshot a PUT is built from.                                        *)

\* What the disturbance of device d leaves calm is not a call on d.
LEMMA DisturbFacts ==
    ASSUME Base, NEW d \in Devices, Disturb(d), NEW w \in Writers,
           pc[w] \in Holding, calm'[w]
    PROVE  calm[w] /\ call[w].device # d
<1>1. call[w] # NoCall
  BY SentinelsFresh DEF Base, CallInv, Holding
<1> QED
  BY <1>1 DEF Disturb

\* An outside step keeps an undisturbed call's device as it is.
LEMMA OutsideCalm ==
    ASSUME Base, (\E d \in Devices : Edit(d)) \/ ApplyLate,
           NEW w \in Writers, pc[w] \in Holding, calm'[w]
    PROVE  calm[w] /\ dev'[call[w].device] = dev[call[w].device]
<1>0. call[w].device \in Devices
  BY DEF Base, CallInv, Holding, Call
<1>1. CASE \E d \in Devices : Edit(d)
  <2> PICK d \in Devices : Edit(d)
    BY <1>1
  <2>1. calm[w] /\ call[w].device # d
    BY DisturbFacts DEF Edit
  <2> QED
    BY <1>0, <2>1 DEF Edit, Base, TypeOK
<1>2. CASE ApplyLate
  <2> PICK r \in late : /\ dev' = [dev EXCEPT ![r.device] =
                               Stored(dev[r.device], r.payload, WriteFields)]
                        /\ Disturb(r.device)
    BY <1>2 DEF ApplyLate
  <2>1. r.device \in Devices
    BY DEF Base, TypeOK
  <2>2. calm[w] /\ call[w].device # r.device
    BY <2>1, DisturbFacts
  <2> QED
    BY <1>0, <2>1, <2>2 DEF Base, TypeOK
<1> QED
  BY <1>1, <1>2

LEMMA NextSnapshotCurrent == Core /\ SnapshotCurrent /\ [Next]_vars => SnapshotCurrent'
<1> SUFFICES ASSUME Core, SnapshotCurrent, [Next]_vars,
                    NEW w \in Writers, pc'[w] = "put", calm'[w]
             PROVE  dev'[call'[w].device] = current'[w]
  BY DEF SnapshotCurrent
<1>1. CASE UNCHANGED vars
  BY <1>1 DEF vars, SnapshotCurrent
<1>2. CASE (\E d \in Devices : Edit(d)) \/ ApplyLate
  <2>1. UNCHANGED writerVars
    BY <1>2 DEF Edit, ApplyLate
  <2>2. pc[w] = "put" /\ call'[w] = call[w] /\ current'[w] = current[w]
    BY <2>1 DEF writerVars
  <2> QED
    BY <1>2, <2>2, OutsideCalm DEF Core, Holding, SnapshotCurrent
<1>3. ASSUME WriterNext(w) PROVE dev'[call'[w].device] = current'[w]
  <2>1. ReadCurrent(w)
    BY <1>3 DEF WriterNext, Acquire, Progress, Request, Refuse, Begin, ReadVersion,
       RaiseBeforePut, ReadUnsupported, ReadNoOp, ReadCurrent, PutConfirmed, PutFails,
       PutTimesOut, VerifyConfirms, VerifyMismatch, VerifyFails, Relogin,
       ClassifyApplied, ClassifyNotApplied, ClassifyIndeterminate, ClassifyFails, Cancel,
       CancelQueued, CancelPut, Settle, Indeterminate, Leave, Goto, Failed, Core, Base,
       TypeOK
  <2> QED
    BY <2>1 DEF ReadCurrent, Core, Base, TypeOK, controllerVars
<1>4. ASSUME NEW x \in Writers, x # w, WriterNext(x)
      PROVE  dev'[call'[w].device] = current'[w]
  <2>1. /\ pc[w] = "put" /\ calm[w] /\ call'[w] = call[w] /\ current'[w] = current[w]
    BY <1>4, Frame DEF Core
  <2>2. dev' = dev
    BY <1>4, <2>1, Exclusive DEF Core, Holding, controllerVars
  <2> QED
    BY <2>1, <2>2 DEF SnapshotCurrent
<1> QED
  BY <1>1, <1>2, <1>3, <1>4 DEF Next

\* No integration write ever comes between a call's read and its PUT, however
\* many entities write concurrently.
THEOREM SnapshotsStayCurrent == Spec => []SnapshotCurrent
<1>1. Init => SnapshotCurrent
  BY DEF Init, SnapshotCurrent
<1>2. Core /\ Core' /\ SnapshotCurrent /\ [Next]_vars => SnapshotCurrent'
  BY NextSnapshotCurrent
<1> QED
  BY <1>1, <1>2, SpecCore, PTL DEF Spec

-----------------------------------------------------------------------------
(* Ambiguous writes.                                                        *)

LEMMA NextUnprovenIsBlocked ==
    ASSUME ~Cancellable
    PROVE  Base /\ UnprovenIsBlocked /\ [Next]_vars => UnprovenIsBlocked'
<1> SUFFICES ASSUME Base, UnprovenIsBlocked, [Next]_vars, NEW d \in unproven'
             PROVE  \/ d \in blockedDevices'
                    \/ \E w \in Writers : /\ pc'[w] \in {"verify", "relogin", "classify"}
                                          /\ call'[w].device = d
  BY DEF UnprovenIsBlocked
<1>1. CASE UNCHANGED vars \/ (\E e \in Devices : Edit(e)) \/ ApplyLate
  <2>1. UNCHANGED <<serviceVars, writerVars, unproven>>
    BY <1>1 DEF vars, serviceVars, writerVars, Edit, ApplyLate
  <2> QED
    BY <2>1 DEF UnprovenIsBlocked, serviceVars, writerVars
<1>2. ASSUME NEW x \in Writers, WriterNext(x)
      PROVE  \/ d \in blockedDevices'
             \/ \E w \in Writers : /\ pc'[w] \in {"verify", "relogin", "classify"}
                                   /\ call'[w].device = d
  <2>1. CASE PutConfirmed(x) \/ PutFails(x) \/ PutTimesOut(x)
    <3>1. /\ unproven' = unproven \cup {call[x].device}
          /\ pc'[x] \in {"verify", "relogin", "classify"}
          /\ call' = call /\ blockedDevices' = blockedDevices
      BY <2>1 DEF PutConfirmed, PutFails, PutTimesOut, Sent, Goto, Failed, serviceVars,
         Base, TypeOK
    <3>2. CASE d = call[x].device
      BY <3>1, <3>2
    <3>3. CASE d \in unproven /\ d # call[x].device
      <4>1. CASE d \in blockedDevices
        BY <3>1, <4>1
      <4>2. CASE \E w \in Writers : /\ pc[w] \in {"verify", "relogin", "classify"}
                                    /\ call[w].device = d
        <5> PICK w \in Writers : /\ pc[w] \in {"verify", "relogin", "classify"}
                                 /\ call[w].device = d
          BY <4>2
        <5>1. w # x
          BY <3>3
        <5> QED
          BY <1>2, <3>1, <5>1, Frame
      <4> QED
        BY <3>3, <4>1, <4>2 DEF UnprovenIsBlocked
    <3> QED
      BY <3>1, <3>2, <3>3
  <2>2. CASE ~(PutConfirmed(x) \/ PutFails(x) \/ PutTimesOut(x))
    <3>1. /\ d \in unproven
          /\ blockedDevices \subseteq blockedDevices'
          /\ pc[x] \in {"verify", "relogin", "classify"} /\ call[x].device = d
               => \/ d \in blockedDevices'
                  \/ /\ pc'[x] \in {"verify", "relogin", "classify"}
                     /\ call'[x].device = d
      BY <1>2, <2>2 DEF WriterNext, Acquire, Progress, Request, Refuse, Begin, ReadVersion,
       RaiseBeforePut, ReadUnsupported, ReadNoOp, ReadCurrent, VerifyConfirms,
       VerifyMismatch, VerifyFails, Relogin,
       ClassifyApplied, ClassifyNotApplied, ClassifyIndeterminate, ClassifyFails, Cancel,
       CancelQueued, CancelPut, Settle, Indeterminate, Goto, Failed, Base,
       TypeOK, serviceVars, historyVars
    <3>2. CASE d \in blockedDevices
      BY <3>1, <3>2
    <3>3. ASSUME NEW w \in Writers, pc[w] \in {"verify", "relogin", "classify"},
                 call[w].device = d
          PROVE  \/ d \in blockedDevices'
                 \/ \E y \in Writers : /\ pc'[y] \in {"verify", "relogin", "classify"}
                                       /\ call'[y].device = d
      <4>1. CASE w = x
        BY <3>1, <3>3, <4>1
      <4>2. CASE w # x
        BY <1>2, <3>3, <4>2, Frame
      <4> QED
        BY <4>1, <4>2
    <3> QED
      BY <3>1, <3>2, <3>3 DEF UnprovenIsBlocked
  <2> QED
    BY <2>1, <2>2
<1> QED
  BY <1>1, <1>2 DEF Next

\* Without cancellation, no write ends ambiguous and unblocked.
THEOREM AmbiguousWritesBlock ==
    ASSUME ~Cancellable
    PROVE  Spec => []UnprovenIsBlocked
<1>1. Init => UnprovenIsBlocked
  BY DEF Init, UnprovenIsBlocked
<1>2. Core /\ UnprovenIsBlocked /\ [Next]_vars => UnprovenIsBlocked'
  BY NextUnprovenIsBlocked DEF Core
<1> QED
  BY <1>1, <1>2, SpecCore, PTL DEF Spec

\* ... and no call writes over one: the lock's owner is the only call past the
\* acquisition, and its device is not blocked.
THEOREM NoCallWritesOverAmbiguity ==
    ASSUME ~Cancellable
    PROVE  Spec => []NoWriteOverUnproven
<1>1. Core /\ UnprovenIsBlocked => NoWriteOverUnproven
  <2> SUFFICES ASSUME Core, UnprovenIsBlocked, NEW w \in Writers, pc[w] = "put",
                      call[w].device \in unproven
               PROVE  FALSE
    BY DEF NoWriteOverUnproven
  <2>1. call[w].device \notin blockedDevices /\ writeLock = w
    BY DEF Core, BlockInv, LockInv, Holding
  <2>2. PICK x \in Writers : pc[x] \in {"verify", "relogin", "classify"}
    BY <2>1 DEF UnprovenIsBlocked
  <2>3. writeLock = x
    BY <2>2 DEF Core, LockInv, Holding
  <2> QED
    BY <2>1, <2>2, <2>3
<1> QED
  BY <1>1, SpecCore, AmbiguousWritesBlock, PTL

\* Once a device is blocked, only the operator or an earlier PUT changes it.
THEOREM BlockedDevicesStaySilent == Spec => BlockedStaysSilent
<1>1. Core /\ [Next]_vars =>
          [\A d \in blockedDevices :
              dev'[d] # dev[d] => edits' # edits \/ late' # late]_vars
  <2> SUFFICES ASSUME Core, Next, NEW d \in blockedDevices, dev'[d] # dev[d]
               PROVE  edits' # edits \/ late' # late
    OBVIOUS
  <2>1. ASSUME NEW e \in Devices, Edit(e) PROVE edits' # edits
    BY <2>1, BoundsAreNaturals DEF Edit, Core, Base, TypeOK
  <2>2. ASSUME ApplyLate PROVE late' # late
    BY <2>2 DEF ApplyLate
  <2>3. ASSUME NEW w \in Writers, WriterNext(w) PROVE FALSE
    <3>1. PutConfirmed(w) \/ PutFails(w) \/ PutTimesOut(w) \/ CancelPut(w)
      BY <2>3 DEF WriterNext, Acquire, Progress, Request, Refuse, Begin, ReadVersion,
       RaiseBeforePut, ReadUnsupported, ReadNoOp, ReadCurrent, VerifyConfirms,
       VerifyMismatch, VerifyFails, Relogin,
       ClassifyApplied, ClassifyNotApplied, ClassifyIndeterminate, ClassifyFails, Cancel,
       CancelQueued, controllerVars
    <3>2. pc[w] = "put" /\ \E S \in SUBSET WriteFields : Sent(w, S)
      BY <3>1 DEF PutConfirmed, PutFails, PutTimesOut, CancelPut
    <3>3. call[w].device \notin blockedDevices
      BY <3>2 DEF Core, BlockInv, Holding
    <3> QED
      BY <3>2, <3>3 DEF Sent, Core, Base, TypeOK
  <2> QED
    BY <2>1, <2>2, <2>3 DEF Next
<1> QED
  BY <1>1, SpecCore, PTL DEF Spec, BlockedStaysSilent

-----------------------------------------------------------------------------
(* The truth of settled outcomes, when no PUT outlives its caller.          *)

\* a snapshot about to be written back agrees with what is asserted
SnapshotKeepsClaims ==
    \A w \in Writers : pc[w] = "put" =>
        \A g \in Fields :
            claim[call[w].device][g] # Unknown => current[w][g] = claim[call[w].device][g]

ClaimInv == late = {} /\ ClaimsHold /\ SnapshotKeepsClaims

\* A PUT disturbs no claim: it carries what is asserted of the fields it does
\* not mean to change, and the assertion on the changed field is withdrawn.
LEMMA SentKeepsClaims ==
    ASSUME Base, ClaimInv, NEW w \in Writers, pc[w] = "put",
           NEW S \in SUBSET WriteFields, Sent(w, S)
    PROVE  ClaimsHold'
<1> DEFINE d == call[w].device
           f == call[w].field
<1>1. d \in Devices /\ f \in Fields
  BY PutFacts DEF Snapshotted
<1> SUFFICES ASSUME NEW e \in Devices, NEW g \in Fields, claim'[e][g] # Unknown
             PROVE  dev'[e][g] = claim'[e][g]
  BY DEF ClaimsHold
<1>2. CASE e # d
  BY <1>1, <1>2 DEF Sent, Base, TypeOK, ClaimInv, ClaimsHold
<1>3. CASE e = d
  <2>1. g # f /\ claim'[d][g] = claim[d][g]
    BY <1>1, <1>3 DEF Sent, Base, TypeOK
  <2>2. dev'[d][g] = IF g \in S THEN PayloadOf(w)[g] ELSE dev[d][g]
    BY <1>1 DEF Sent, Stored, Base, TypeOK
  <2>3. g \in S => PayloadOf(w)[g] = current[w][g]
    BY <2>1 DEF PayloadOf, BuildPayload
  <2>4. current[w][g] = claim[d][g] /\ dev[d][g] = claim[d][g]
    BY <1>1, <1>3, <2>1 DEF ClaimInv, ClaimsHold, SnapshotKeepsClaims
  <2> QED
    BY <1>3, <2>1, <2>2, <2>3, <2>4
<1> QED
  BY <1>2, <1>3

\* What a settled outcome asserts is what the read it rests on has shown.
LEMMA SettleKeepsClaims ==
    ASSUME Base, ClaimInv, NEW w \in Writers, pc[w] \in Snapshotted,
           NEW v \in Values \cup {Invalid}, NEW code, Settle(w, v, code),
           dev[call[w].device][call[w].field] = v,
           Preserved(current[w], dev[call[w].device], call[w].field),
           UNCHANGED controllerVars
    PROVE  ClaimsHold'
<1> DEFINE d == call[w].device
           f == call[w].field
<1>1. d \in Devices /\ f \in Fields
  BY PutFacts
<1> SUFFICES ASSUME NEW e \in Devices, NEW g \in Fields, claim'[e][g] # Unknown
             PROVE  dev'[e][g] = claim'[e][g]
  BY DEF ClaimsHold
<1>2. dev' = dev
  BY DEF controllerVars
<1>3. CASE e # d
  BY <1>1, <1>2, <1>3 DEF Settle, Base, TypeOK, ClaimInv, ClaimsHold
<1>4. CASE e = d
  <2>1. claim'[d][g] = IF g = f THEN v
                       ELSE IF current[w][g] = Invalid THEN Unknown ELSE current[w][g]
    BY <1>1 DEF Settle, Asserted, Base, TypeOK
  <2> QED
    BY <1>2, <1>4, <2>1 DEF Preserved
<1> QED
  BY <1>3, <1>4

LEMMA NextClaimsHold ==
    ASSUME MaxLate = 0
    PROVE  Base /\ ClaimInv /\ [Next]_vars => late' = {} /\ ClaimsHold'
<1> SUFFICES ASSUME Base, ClaimInv, [Next]_vars PROVE late' = {} /\ ClaimsHold'
  OBVIOUS
<1>0. Cardinality(late) = 0
  BY FS_EmptySet DEF ClaimInv
<1>1. CASE UNCHANGED vars
  BY <1>1 DEF vars, ClaimInv, ClaimsHold
<1>2. ASSUME NEW d \in Devices, Edit(d) PROVE late' = {} /\ ClaimsHold'
  BY <1>2 DEF Edit, ClaimInv, ClaimsHold, Base, TypeOK, Object
<1>3. ~ApplyLate
  BY DEF ApplyLate, ClaimInv
<1>4. ASSUME NEW w \in Writers, WriterNext(w) PROVE late' = {} /\ ClaimsHold'
  <2>1. ~PutTimesOut(w)
    BY <1>0 DEF PutTimesOut
  <2>2. CASE PutConfirmed(w) \/ PutFails(w) \/ CancelPut(w)
    <3>1. pc[w] = "put" /\ late' = late /\ \E S \in SUBSET WriteFields : Sent(w, S)
      BY <2>2 DEF PutConfirmed, PutFails, CancelPut
    <3> QED
      BY <3>1, SentKeepsClaims DEF ClaimInv
  <2>3. CASE VerifyConfirms(w) \/ ClassifyApplied(w) \/ ClassifyNotApplied(w)
    <3>1. pc[w] \in Snapshotted /\ UNCHANGED controllerVars
      BY <2>3 DEF VerifyConfirms, ClassifyApplied, ClassifyNotApplied, Snapshotted
    <3>2. /\ call[w].requested \in Values
          /\ current[w][call[w].field] \in Values \cup {Invalid}
      BY <3>1, PutFacts DEF Object
    <3> QED
      BY <2>3, <3>1, <3>2, SettleKeepsClaims
         DEF VerifyConfirms, ClassifyApplied, ClassifyNotApplied, ClaimInv, controllerVars
  <2>4. CASE ReadNoOp(w)
    <3>1. call[w].device \in Devices /\ call[w].field \in Fields
      BY <2>4 DEF ReadNoOp, Base, CallInv, Holding, Call, Fields, WriteFields
    <3> QED
      BY <2>4, <3>1 DEF ReadNoOp, ClaimInv, ClaimsHold, Base, TypeOK, controllerVars
  <2>5. CASE ~ \/ PutConfirmed(w) \/ PutFails(w) \/ CancelPut(w)
               \/ VerifyConfirms(w) \/ ClassifyApplied(w) \/ ClassifyNotApplied(w)
               \/ ReadNoOp(w)
    <3>1. UNCHANGED <<controllerVars, claim>>
      BY <1>4, <2>1, <2>5 DEF WriterNext, Acquire, Progress, Request, Refuse, Begin,
         ReadVersion, RaiseBeforePut, ReadUnsupported, ReadCurrent, VerifyMismatch,
         VerifyFails, Relogin, ClassifyIndeterminate, ClassifyFails, Indeterminate,
         Cancel, CancelQueued, historyVars
    <3> QED
      BY <3>1 DEF ClaimInv, ClaimsHold, controllerVars
  <2> QED
    BY <2>2, <2>3, <2>4, <2>5
<1> QED
  BY <1>1, <1>2, <1>3, <1>4 DEF Next

LEMMA NextSnapshotKeepsClaims ==
    Core /\ ClaimInv /\ [Next]_vars => SnapshotKeepsClaims'
<1> SUFFICES ASSUME Core, ClaimInv, [Next]_vars, NEW w \in Writers, pc'[w] = "put",
                    NEW g \in Fields, claim'[call'[w].device][g] # Unknown
             PROVE  current'[w][g] = claim'[call'[w].device][g]
  BY DEF SnapshotKeepsClaims
<1>1. CASE UNCHANGED vars
  BY <1>1 DEF vars, ClaimInv, SnapshotKeepsClaims
<1>2. ASSUME NEW d \in Devices, Edit(d)
      PROVE  current'[w][g] = claim'[call'[w].device][g]
  <2>1. pc[w] = "put" /\ call'[w] = call[w] /\ current'[w] = current[w]
    BY <1>2 DEF Edit, writerVars
  <2>2. call[w].device \in Devices
    BY <2>1 DEF Core, Base, CallInv, Holding, Call
  <2> QED
    BY <1>2, <2>1, <2>2 DEF Edit, ClaimInv, SnapshotKeepsClaims, Core, Base, TypeOK
<1>3. ~ApplyLate
  BY DEF ApplyLate, ClaimInv
<1>4. ASSUME WriterNext(w) PROVE current'[w][g] = claim'[call'[w].device][g]
  <2>1. ReadCurrent(w)
    BY <1>4 DEF WriterNext, Acquire, Progress, Request, Refuse, Begin, ReadVersion,
       RaiseBeforePut, ReadUnsupported, ReadNoOp, ReadCurrent, PutConfirmed, PutFails,
       PutTimesOut, VerifyConfirms, VerifyMismatch, VerifyFails, Relogin,
       ClassifyApplied, ClassifyNotApplied, ClassifyIndeterminate, ClassifyFails, Cancel,
       CancelQueued, CancelPut, Settle, Indeterminate, Leave, Goto, Failed, Core, Base,
       TypeOK
  <2>2. /\ call[w].device \in Devices /\ call'[w] = call[w] /\ claim' = claim
        /\ current'[w] = dev[call[w].device]
    BY <2>1 DEF ReadCurrent, historyVars, Core, Base, TypeOK, CallInv, Holding, Call
  <2> QED
    BY <2>2 DEF ClaimInv, ClaimsHold
<1>5. ASSUME NEW x \in Writers, x # w, WriterNext(x)
      PROVE  current'[w][g] = claim'[call'[w].device][g]
  <2>1. pc[w] = "put" /\ call'[w] = call[w] /\ current'[w] = current[w]
    BY <1>5, Frame DEF Core
  <2>2. claim' = claim
    BY <1>5, <2>1, Exclusive DEF Core, Holding
  <2> QED
    BY <2>1, <2>2 DEF ClaimInv, SnapshotKeepsClaims
<1> QED
  BY <1>1, <1>2, <1>3, <1>4, <1>5 DEF Next

\* As long as no PUT outlives its caller's timeout, every settled outcome stays
\* true until the operator edits the field: nothing concurrent calls do makes an
\* applied or not_applied result false, and none of them loses another's update.
THEOREM OutcomesStayTrue ==
    ASSUME MaxLate = 0
    PROVE  Spec => []ClaimsHold
<1>1. Init => ClaimInv
  BY DEF Init, ClaimInv, ClaimsHold, SnapshotKeepsClaims
<1>2. Core /\ ClaimInv /\ [Next]_vars => ClaimInv'
  BY NextClaimsHold, NextSnapshotKeepsClaims DEF Core, ClaimInv
<1>3. ClaimInv => ClaimsHold
  BY DEF ClaimInv
<1> QED
  BY <1>1, <1>2, <1>3, SpecCore, PTL DEF Spec

-----------------------------------------------------------------------------
(* No false alarm.                                                          *)

\* after an undisturbed PUT the device holds the snapshot with the new value
CalmVerify ==
    \A w \in Writers : pc[w] = "verify" /\ calm[w] =>
        dev[call[w].device] = Stored(current[w], PayloadOf(w), WriteFields)

AlarmInv == SnapshotCurrent /\ CalmVerify /\ NoFalseAlarm

\* The snapshot with its payload stored is confirmed by the verifying read: the
\* preservation check accepts exactly what the payload changes.
LEMMA PayloadIsPreserved ==
    ASSUME Base, NEW w \in Writers, pc[w] \in Snapshotted
    PROVE  LET o == Stored(current[w], PayloadOf(w), WriteFields)
           IN  /\ o[call[w].field] = call[w].requested
               /\ Preserved(current[w], o, call[w].field)
<1>1. call[w].field \in Controls /\ call[w].field \in Fields
  BY PutFacts
<1> QED
  BY <1>1 DEF Stored, PayloadOf, BuildPayload, Preserved, Fields, WriteFields

LEMMA NextAlarmInv == Core /\ AlarmInv /\ [Next]_vars => CalmVerify' /\ NoFalseAlarm'
<1> SUFFICES ASSUME Core, AlarmInv, [Next]_vars, NEW w \in Writers, calm'[w]
             PROVE  /\ pc'[w] = "verify" =>
                          dev'[call'[w].device] =
                             Stored(current'[w], PayloadOf(w)', WriteFields)
                    /\ pc'[w] \notin {"relogin", "classify"}
  BY DEF CalmVerify, NoFalseAlarm
<1>1. CASE UNCHANGED vars
  BY <1>1 DEF vars, AlarmInv, CalmVerify, NoFalseAlarm, PayloadOf
<1>2. CASE (\E d \in Devices : Edit(d)) \/ ApplyLate
  <2>1. UNCHANGED writerVars
    BY <1>2 DEF Edit, ApplyLate
  <2>2. ASSUME pc[w] \in {"verify", "relogin", "classify"}
        PROVE  calm[w] /\ dev'[call[w].device] = dev[call[w].device]
    BY <1>2, <2>2, OutsideCalm DEF Core, Holding
  <2> QED
    BY <2>1, <2>2 DEF writerVars, AlarmInv, CalmVerify, NoFalseAlarm, PayloadOf
<1>3. ASSUME WriterNext(w), pc'[w] = "verify"
      PROVE  dev'[call'[w].device] = Stored(current'[w], PayloadOf(w)', WriteFields)
  <2>1. PutConfirmed(w)
    BY <1>3 DEF WriterNext, Acquire, Progress, Request, Refuse, Begin, ReadVersion,
       RaiseBeforePut, ReadUnsupported, ReadNoOp, ReadCurrent, PutConfirmed, PutFails,
       PutTimesOut, VerifyConfirms, VerifyMismatch, VerifyFails, Relogin,
       ClassifyApplied, ClassifyNotApplied, ClassifyIndeterminate, ClassifyFails, Cancel,
       CancelQueued, CancelPut, Settle, Indeterminate, Leave, Goto, Failed, Core, Base,
       TypeOK
  <2>2. /\ pc[w] = "put" /\ calm[w] /\ Sent(w, WriteFields)
        /\ call' = call /\ current' = current
    BY <2>1 DEF PutConfirmed, Core, Base, TypeOK
  <2>3. dev[call[w].device] = current[w]
    BY <2>2 DEF AlarmInv, SnapshotCurrent
  <2>4. call[w].device \in Devices
    BY <2>2, PutFacts DEF Core, Snapshotted
  <2> QED
    BY <2>2, <2>3, <2>4 DEF Sent, PayloadOf, Core, Base, TypeOK
<1>4. ASSUME WriterNext(w) PROVE pc'[w] \notin {"relogin", "classify"}
  <2>1. SUFFICES ASSUME pc'[w] \in {"relogin", "classify"} PROVE FALSE
    OBVIOUS
  <2>2. VerifyMismatch(w) \/ Relogin(w) \/ PutFails(w) \/ PutTimesOut(w) \/ VerifyFails(w)
    BY <1>4, <2>1 DEF WriterNext, Acquire, Progress, Request, Refuse, Begin, ReadVersion,
       RaiseBeforePut, ReadUnsupported, ReadNoOp, ReadCurrent, PutConfirmed,
       VerifyConfirms, ClassifyApplied, ClassifyNotApplied, ClassifyIndeterminate,
       ClassifyFails, Cancel, CancelQueued, CancelPut, Settle, Indeterminate, Leave,
       Goto, Core, Base, TypeOK
  <2>3. ~(PutFails(w) \/ PutTimesOut(w) \/ VerifyFails(w))
    BY DEF PutFails, PutTimesOut, VerifyFails, Core, Base, TypeOK
  <2>4. ~Relogin(w)
    BY DEF Relogin, AlarmInv, NoFalseAlarm, historyVars
  <2>5. ~VerifyMismatch(w)
    <3>1. SUFFICES ASSUME VerifyMismatch(w) PROVE FALSE
      OBVIOUS
    <3>2. pc[w] = "verify" /\ calm[w]
      BY <3>1 DEF VerifyMismatch, historyVars
    <3>3. dev[call[w].device] = Stored(current[w], PayloadOf(w), WriteFields)
      BY <3>2 DEF AlarmInv, CalmVerify
    <3> QED
      BY <3>1, <3>2, <3>3, PayloadIsPreserved DEF VerifyMismatch, Core, Snapshotted
  <2> QED
    BY <2>2, <2>3, <2>4, <2>5
<1>5. ASSUME NEW x \in Writers, x # w, WriterNext(x),
             pc'[w] \in {"verify", "relogin", "classify"}
      PROVE  /\ pc'[w] = "verify" =>
                    dev'[call'[w].device] =
                       Stored(current'[w], PayloadOf(w)', WriteFields)
             /\ pc'[w] \notin {"relogin", "classify"}
  <2>1. /\ pc'[w] = pc[w] /\ calm[w]
        /\ call'[w] = call[w] /\ current'[w] = current[w]
    BY <1>5, Frame DEF Core
  <2>2. dev' = dev
    BY <1>5, <2>1, Exclusive DEF Core, Holding, controllerVars
  <2> QED
    BY <2>1, <2>2 DEF AlarmInv, CalmVerify, NoFalseAlarm, PayloadOf
<1> QED
  BY <1>1, <1>2, <1>3, <1>4, <1>5 DEF Next

\* An undisturbed write never ends up in the classification, so it is never
\* reported as unverified and never blocks its device.
THEOREM UndisturbedWritesVerify == Spec => []NoFalseAlarm
<1>1. Init => AlarmInv
  BY DEF Init, AlarmInv, SnapshotCurrent, CalmVerify, NoFalseAlarm
<1>2. Core /\ AlarmInv /\ [Next]_vars => AlarmInv'
  BY NextAlarmInv, NextSnapshotCurrent DEF AlarmInv
<1>3. AlarmInv => NoFalseAlarm
  BY DEF AlarmInv
<1> QED
  BY <1>1, <1>2, <1>3, SpecCore, PTL DEF Spec

-----------------------------------------------------------------------------
(* The promise of VerifiedWrite: taken where the invariants above hold, every *)
(* step of the service is a step of the promise or leaves its variables alone. *)

Verifying == {"verify", "relogin", "classify"}

\* a call that verifies has its device among the unproven ones
PendingInv == \A w \in Writers : pc[w] \in Verifying => call[w].device \in unproven

RefineInv == Core /\ UnprovenIsBlocked /\ ClaimInv /\ PendingInv

Doubt == unproven \ blockedDevices

-----------------------------------------------------------------------------
(* The invariant.                                                           *)

LEMMA NextPending == Core /\ PendingInv /\ [Next]_vars => PendingInv'
<1> SUFFICES ASSUME Core, PendingInv, [Next]_vars, NEW w \in Writers, pc'[w] \in Verifying
             PROVE  call'[w].device \in unproven'
  BY DEF PendingInv
<1>1. CASE UNCHANGED vars \/ (\E d \in Devices : Edit(d)) \/ ApplyLate
  <2>1. UNCHANGED <<writerVars, unproven>>
    BY <1>1 DEF vars, writerVars, Edit, ApplyLate
  <2> QED
    BY <2>1 DEF PendingInv, writerVars
<1>2. ASSUME WriterNext(w) PROVE call'[w].device \in unproven'
  <2>1. CASE PutConfirmed(w) \/ PutFails(w) \/ PutTimesOut(w)
    BY <2>1 DEF PutConfirmed, PutFails, PutTimesOut, Sent
  <2>2. CASE ~(PutConfirmed(w) \/ PutFails(w) \/ PutTimesOut(w))
    <3>1. VerifyMismatch(w) \/ VerifyFails(w) \/ Relogin(w)
      BY <1>2, <2>2 DEF WriterNext, Acquire, Progress, Request, Refuse, Begin, ReadVersion,
         RaiseBeforePut, ReadUnsupported, ReadNoOp, ReadCurrent, VerifyConfirms,
         ClassifyApplied, ClassifyNotApplied, ClassifyIndeterminate, ClassifyFails,
         Cancel, CancelQueued, CancelPut, Settle, Indeterminate, Leave, Goto, Core, Base,
         TypeOK, Verifying
    <3> QED
      BY <3>1 DEF VerifyMismatch, VerifyFails, Relogin, PendingInv, Verifying, historyVars
  <2> QED
    BY <2>1, <2>2
<1>3. ASSUME NEW x \in Writers, x # w, WriterNext(x) PROVE call'[w].device \in unproven'
  <2>1. pc[w] \in Verifying /\ call'[w] = call[w]
    BY <1>3, Frame DEF Core
  <2>2. unproven' = unproven
    BY <1>3, <2>1, Exclusive DEF Core, Holding, Verifying
  <2> QED
    BY <2>1, <2>2 DEF PendingInv
<1> QED
  BY <1>1, <1>2, <1>3 DEF Next

LEMMA SpecRefineInv ==
    ASSUME ~Cancellable, MaxLate = 0
    PROVE  Spec => []RefineInv
<1>1. Init => RefineInv
  BY InitCore DEF Init, RefineInv, UnprovenIsBlocked, ClaimInv, ClaimsHold,
                  SnapshotKeepsClaims, PendingInv, Verifying
<1>2. RefineInv /\ [Next]_vars => RefineInv'
  <2>1. RefineInv /\ [Next]_vars => Core' /\ UnprovenIsBlocked' /\ PendingInv'
    BY NextCore, NextUnprovenIsBlocked, NextPending DEF RefineInv, Core
  <2>2. RefineInv /\ [Next]_vars => ClaimInv'
    BY NextClaimsHold, NextSnapshotKeepsClaims DEF RefineInv, Core, ClaimInv
  <2> QED
    BY <2>1, <2>2 DEF RefineInv
<1> QED
  BY <1>1, <1>2, PTL DEF Spec

-----------------------------------------------------------------------------
(* What is in doubt.                                                        *)

\* Only the lock's owner can have a device in doubt, and only while it verifies.
LEMMA DoubtIsOwners ==
    ASSUME RefineInv, NEW w \in Writers, pc[w] \in Holding
    PROVE  /\ Doubt \subseteq {call[w].device}
           /\ pc[w] \notin Verifying => Doubt = {}
           /\ call[w].device \notin blockedDevices
<1>1. ASSUME NEW d \in Doubt PROVE d = call[w].device /\ pc[w] \in Verifying
  <2>1. PICK x \in Writers : pc[x] \in Verifying /\ call[x].device = d
    BY DEF RefineInv, UnprovenIsBlocked, Doubt, Verifying
  <2>2. writeLock = x /\ writeLock = w
    BY <2>1 DEF RefineInv, Core, LockInv, Holding, Verifying
  <2> QED
    BY <2>1, <2>2
<1> QED
  BY <1>1 DEF RefineInv, Core, BlockInv

\* While a call verifies, exactly its device is in doubt.
LEMMA DoubtWhileVerifying ==
    ASSUME RefineInv, NEW w \in Writers, pc[w] \in Verifying
    PROVE  Doubt = {call[w].device}
<1>1. call[w].device \in Doubt
  BY DoubtIsOwners DEF RefineInv, PendingInv, Doubt, Verifying, Holding
<1> QED
  BY <1>1, DoubtIsOwners DEF Verifying, Holding

\* The types of the promise are those of the service.
LEMMA TypedPromise ==
    /\ Base => dev \in Promise!Holdings
    /\ Base' => dev' \in Promise!Holdings /\ claim' \in Promise!Claims
BY DEF Base, TypeOK, Object, Promise!Holdings, Promise!Claims

-----------------------------------------------------------------------------
(* The steps.                                                               *)

\* A PUT is a write of the promise: it starts where nothing is in doubt and puts back
\* nothing that is claimed.
LEMMA SentIsWrite ==
    ASSUME RefineInv, Base', NEW w \in Writers, pc[w] = "put",
           NEW S \in SUBSET WriteFields, Sent(w, S), UNCHANGED <<edits, serviceVars>>
    PROVE  Promise!Write(call[w].device, call[w].field)
<1> DEFINE d == call[w].device
           f == call[w].field
<1>1. d \in Devices /\ f \in Fields
  BY PutFacts DEF RefineInv, Core, Snapshotted
<1>2. Doubt = {} /\ d \notin blockedDevices
  BY DoubtIsOwners DEF Holding, Verifying
<1>3. unproven' \ blockedDevices' = {d}
  BY <1>2 DEF Sent, serviceVars, Doubt
<1>4. /\ dev' \in Promise!Holdings
      /\ \A e \in Devices \ {d} : dev'[e] = dev[e]
  BY <1>1, TypedPromise DEF Sent, RefineInv, Core, Base, TypeOK
<1>5. ASSUME NEW g \in Fields \ ((Fields \ Promise!Claimed(d)) \cup {f})
      PROVE  dev'[d][g] = dev[d][g]
  <2>1. g # f /\ claim[d][g] # Unknown
    BY DEF Promise!Claimed
  <2>2. dev'[d][g] = IF g \in S THEN PayloadOf(w)[g] ELSE dev[d][g]
    BY <1>1 DEF Sent, Stored, RefineInv, Core, Base, TypeOK
  <2>3. g \in S => PayloadOf(w)[g] = current[w][g]
    BY <2>1 DEF PayloadOf, BuildPayload
  <2>4. current[w][g] = claim[d][g] /\ dev[d][g] = claim[d][g]
    BY <1>1, <2>1 DEF RefineInv, ClaimInv, ClaimsHold, SnapshotKeepsClaims
  <2> QED
    BY <2>2, <2>3, <2>4
<1> QED
  BY <1>2, <1>3, <1>4, <1>5 DEF Promise!Write, Promise!ChangesOnly, Promise!Withdrawn,
                                Sent, serviceVars, Doubt

\* An outcome settles what is in doubt, and claims what the device holds.
LEMMA SettleIsSettle ==
    ASSUME RefineInv, Base', NEW w \in Writers, pc[w] \in Verifying,
           NEW v, NEW code, Settle(w, v, code),
           dev[call[w].device][call[w].field] = v,
           Preserved(current[w], dev[call[w].device], call[w].field),
           UNCHANGED controllerVars
    PROVE  Promise!Settle(call[w].device)
<1> DEFINE d == call[w].device
           f == call[w].field
<1>1. d \in Devices /\ f \in Fields
  BY PutFacts DEF RefineInv, Core, Snapshotted, Verifying
<1>2. Doubt = {d}
  BY DoubtWhileVerifying
<1>3. unproven' \ blockedDevices' = {}
  BY <1>2 DEF Settle, Doubt
<1>4. /\ claim' \in Promise!Claims
      /\ \A e \in Devices \ {d} : claim'[e] = claim[e]
  BY <1>1, TypedPromise DEF Settle, RefineInv, Core, Base, TypeOK
<1>5. ASSUME NEW g \in Fields PROVE claim'[d][g] \in {Unknown, dev[d][g]}
  <2>1. claim'[d][g] = IF g = f THEN v
                       ELSE IF current[w][g] = Invalid THEN Unknown ELSE current[w][g]
    BY <1>1 DEF Settle, Asserted, RefineInv, Core, Base, TypeOK
  <2> QED
    BY <2>1 DEF Preserved
<1> QED
  BY <1>2, <1>3, <1>4, <1>5 DEF Promise!Settle, Promise!ClaimsOf, Doubt, Settle,
                                controllerVars

\* An indeterminate outcome blocks what is in doubt.
LEMMA IndeterminateIsBlock ==
    ASSUME RefineInv, NEW w \in Writers, pc[w] \in Verifying, Indeterminate(w),
           UNCHANGED controllerVars
    PROVE  Promise!Block(call[w].device)
<1>1. Doubt = {call[w].device}
  BY DoubtWhileVerifying
<1>2. unproven' \ blockedDevices' = {}
  BY <1>1 DEF Indeterminate, Doubt
<1> QED
  BY <1>1, <1>2 DEF Promise!Block, Indeterminate, Doubt, controllerVars

\* A value that is there already is noticed.
LEMMA NoOpIsNotice ==
    ASSUME RefineInv, Base', NEW w \in Writers, ReadNoOp(w)
    PROVE  call[w].device \in Devices /\ Promise!Notice(call[w].device)
<1> DEFINE d == call[w].device
           f == call[w].field
<1>1. d \in Devices /\ f \in Fields
  BY DEF ReadNoOp, RefineInv, Core, Base, CallInv, Holding, Call, Fields, WriteFields
<1>2. /\ claim' \in Promise!Claims
      /\ \A e \in Devices \ {d} : claim'[e] = claim[e]
      /\ \A g \in Fields : claim'[d][g] \in {claim[d][g], dev[d][g]}
  BY <1>1, TypedPromise DEF ReadNoOp, RefineInv, Core, Base, TypeOK
<1> QED
  BY <1>1, <1>2 DEF Promise!Notice, Promise!ClaimsOf, ReadNoOp, controllerVars

\* An edit of the operator is an edit.
LEMMA EditIsEdit ==
    ASSUME RefineInv, Base', NEW d \in Devices, Edit(d)
    PROVE  \E g \in Fields : Promise!Edit(d, g)
<1> PICK g \in Fields, v \in Values \cup {Invalid} :
           /\ dev' = [dev EXCEPT ![d][g] = v]
           /\ claim' = [claim EXCEPT ![d][g] = Unknown]
  BY DEF Edit
<1>1. /\ dev' \in Promise!Holdings
      /\ \A e \in Devices \ {d} : dev'[e] = dev[e]
      /\ \A h \in Fields \ {g} : dev'[d][h] = dev[d][h]
  BY TypedPromise DEF RefineInv, Core, Base, TypeOK
<1> QED
  BY <1>1 DEF Promise!Edit, Promise!ChangesOnly, Promise!Withdrawn, Edit, serviceVars

LEMMA WriterImplements ==
    ASSUME ~Cancellable, MaxLate = 0, RefineInv, Base', NEW w \in Writers, WriterNext(w)
    PROVE  Promise!Next \/ UNCHANGED Promise!vars
<1>0. Cardinality(late) = 0
  BY FS_EmptySet DEF RefineInv, ClaimInv
<1>1. ~PutTimesOut(w) /\ ~Cancel(w) /\ ~CancelQueued(w) /\ ~CancelPut(w)
  BY <1>0 DEF PutTimesOut, Cancel, CancelQueued, CancelPut
<1>2. CASE PutConfirmed(w) \/ PutFails(w)
  <2>1. /\ pc[w] = "put" /\ UNCHANGED <<edits, serviceVars>>
        /\ \E S \in SUBSET WriteFields : Sent(w, S)
    BY <1>2 DEF PutConfirmed, PutFails
  <2>2. call[w].device \in Devices /\ call[w].field \in Fields
    BY <2>1, PutFacts DEF RefineInv, Core, Snapshotted
  <2> QED
    BY <2>1, <2>2, SentIsWrite DEF Promise!Next
<1>3. CASE VerifyConfirms(w) \/ ClassifyApplied(w) \/ ClassifyNotApplied(w)
  <2>1. pc[w] \in Verifying /\ UNCHANGED controllerVars
    BY <1>3 DEF VerifyConfirms, ClassifyApplied, ClassifyNotApplied, Verifying
  <2>2. call[w].device \in Devices
    BY <2>1, PutFacts DEF RefineInv, Core, Snapshotted, Verifying
  <2> QED
    BY <1>3, <2>1, <2>2, SettleIsSettle
       DEF Promise!Next, VerifyConfirms, ClassifyApplied, ClassifyNotApplied
<1>4. CASE ClassifyIndeterminate(w) \/ ClassifyFails(w)
  <2>1. pc[w] \in Verifying /\ Indeterminate(w) /\ UNCHANGED controllerVars
    BY <1>4 DEF ClassifyIndeterminate, ClassifyFails, Verifying
  <2>2. call[w].device \in Devices
    BY <2>1, PutFacts DEF RefineInv, Core, Snapshotted, Verifying
  <2> QED
    BY <2>1, <2>2, IndeterminateIsBlock DEF Promise!Next
<1>5. CASE ReadNoOp(w)
  BY <1>5, NoOpIsNotice DEF Promise!Next
<1>6. CASE \/ Request(w) \/ Refuse(w) \/ Begin(w) \/ ReadVersion(w) \/ RaiseBeforePut(w)
           \/ ReadUnsupported(w) \/ ReadCurrent(w) \/ VerifyMismatch(w)
           \/ VerifyFails(w) \/ Relogin(w)
  BY <1>6 DEF Request, Refuse, Begin, ReadVersion, RaiseBeforePut, ReadUnsupported,
     ReadCurrent, VerifyMismatch, VerifyFails, Relogin, Promise!vars, controllerVars,
     serviceVars, historyVars
<1> QED
  BY <1>1, <1>2, <1>3, <1>4, <1>5, <1>6 DEF WriterNext, Acquire, Progress

\* For every set of switches, fields, values and callers: if no call is cancelled and
\* no PUT outlives its caller, the Device control service keeps the promise of
\* VerifiedWrite.
THEOREM DeviceControlKeepsPromise ==
    ASSUME ~Cancellable, MaxLate = 0
    PROVE  Spec => ImplementsVerifiedWrite
<1>1. Init => Promise!Init
  BY InitBase, TypedPromise DEF Init, Promise!Init
<1>2. RefineInv /\ [Next]_vars => [Promise!Next]_(Promise!vars)
  <2> SUFFICES ASSUME RefineInv, [Next]_vars
               PROVE  Promise!Next \/ UNCHANGED Promise!vars
    OBVIOUS
  <2>0. Base'
    BY NextBase DEF RefineInv, Core
  <2>1. CASE UNCHANGED vars
    BY <2>1 DEF vars, Promise!vars
  <2>2. ~ApplyLate
    BY DEF ApplyLate, RefineInv, ClaimInv
  <2>3. ASSUME NEW d \in Devices, Edit(d) PROVE Promise!Next
    BY <2>0, <2>3, EditIsEdit DEF Promise!Next
  <2> QED
    BY <2>0, <2>1, <2>2, <2>3, WriterImplements DEF Next
<1> QED
  BY <1>1, <1>2, SpecRefineInv, PTL DEF Spec, Promise!Spec, ImplementsVerifiedWrite
=============================================================================
