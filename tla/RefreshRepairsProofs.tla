------------------------ MODULE RefreshRepairsProofs ------------------------
(***************************************************************************)
(* Proofs about RefreshRepairs, for every set of switches and callers.     *)
(***************************************************************************)
EXTENDS RefreshRepairs, TLAPS

\* a projection is in hand while the colors are read
ProjectionInv == refreshPc = "colors" => projected \in Projection

\* a snapshot no outcome has overtaken shows the blocks as they are; so does the
\* projection of a running refresh that none has overtaken
SnapshotInv ==
    /\ quiet => /\ data.blocked = blockedDevices \cap data.returned
                /\ data.colorBlocked <=> siteBlocked /\ data.colors = "ready"
    /\ refreshPc = "colors" /\ ~disturbed =>
          projected.blocked = blockedDevices \cap projected.returned

\* the block Repair is never out of step with the snapshot, whoever synced last
BlockInv == "write_blocked" \in issues <=> WriteBlocked(data)

\* the error that a sync would use is gone while a refresh runs, and is one that the
\* refresh behind it has settled
ErrorInv ==
    /\ refreshPc # "idle" => lastRefreshError = "none"
    /\ lastRefreshError \in AuthErrors => authKnownBad
    /\ lastRefreshError = "schema" => schemaKnownBad

Base == TypeOK /\ ProjectionInv
IInv == Base /\ SnapshotInv /\ BlockInv /\ ErrorInv /\ RepairsNeverOverclaim

-----------------------------------------------------------------------------
(* What a sync does to the Repairs the invariant is about.                  *)

LEMMA SyncedFacts ==
    ASSUME NEW d, NEW err
    PROVE  /\ Synced(d, err) \subseteq Issues
           /\ "write_blocked" \in Synced(d, err) <=> WriteBlocked(d)
           /\ "authentication_failed" \in Synced(d, err)
                 => \/ err \in AuthErrors
                    \/ /\ "authentication_failed" \in issues
                       /\ err # "none" /\ err \notin AuthSettlingErrors
           /\ "api_schema_mismatch" \in Synced(d, err)
                 => \/ err = "schema"
                    \/ /\ "api_schema_mismatch" \in issues
                       /\ err # "none"
BY DEF Synced, Issues, Kept, SchemaSettlingErrors

-----------------------------------------------------------------------------
(* The inductive invariant.                                                 *)

LEMMA InitIInv == Init => IInv
<1> SUFFICES ASSUME Init PROVE IInv
  OBVIOUS
<1>1. data \in Data
  BY DEF Init, Data, Codes
<1>2. TypeOK
  BY <1>1, SyncedFacts DEF Init, TypeOK, Codes
<1>3. ProjectionInv /\ SnapshotInv /\ ErrorInv
  BY DEF Init, ProjectionInv, SnapshotInv, ErrorInv, AuthErrors
<1>4. BlockInv /\ RepairsNeverOverclaim
  BY SyncedFacts DEF Init, BlockInv, RepairsNeverOverclaim, AuthErrors
<1> QED
  BY <1>2, <1>3, <1>4 DEF IInv, Base

\* A projection of what is returned is one, and shows the blocks as they are.
LEMMA ProjectedFacts ==
    ASSUME TypeOK, NEW R \in SUBSET Devices
    PROVE  /\ Projected(R) \in Projection
           /\ Projected(R).blocked = blockedDevices \cap Projected(R).returned
BY DEF Projected, Projection, TypeOK

LEMMA StartRefreshInv ==
    ASSUME IInv, StartRefresh,
           pc' \in [Callers -> {"idle", "writing", "requesting", "refreshing", "syncing"}]
    PROVE  IInv'
<1> USE DEF IInv, Base, StartRefresh, serviceVars, knownVars
<1>1. TypeOK'
  BY DEF TypeOK
<1>2. ProjectionInv' /\ SnapshotInv' /\ BlockInv'
  BY DEF ProjectionInv, SnapshotInv, BlockInv, WriteBlocked
<1>3. ErrorInv' /\ RepairsNeverOverclaim'
  BY DEF ErrorInv, RepairsNeverOverclaim, AuthErrors
<1> QED
  BY <1>1, <1>2, <1>3

LEMMA ReadDevicesInv ==
    ASSUME IInv, NEW R \in SUBSET Devices, ReadDevices(R)
    PROVE  IInv'
<1> USE DEF IInv, Base, ReadDevices, serviceVars, callerVars, knownVars
<1>0. /\ Projected(R) \in Projection
      /\ Projected(R).blocked = blockedDevices \cap Projected(R).returned
  BY ProjectedFacts
<1>1. TypeOK'
  BY <1>0 DEF TypeOK
<1>2. ProjectionInv' /\ SnapshotInv' /\ BlockInv'
  BY <1>0 DEF ProjectionInv, SnapshotInv, BlockInv, WriteBlocked
<1>3. ErrorInv' /\ RepairsNeverOverclaim'
  BY DEF ErrorInv, RepairsNeverOverclaim
<1> QED
  BY <1>1, <1>2, <1>3

LEMMA ReleasedType ==
    ASSUME TypeOK
    PROVE  Released \in [Callers -> {"idle", "writing", "requesting", "refreshing", "syncing"}]
BY DEF TypeOK, Released

\* A refresh succeeds: its projection shows the blocks as they are, unless an outcome
\* was settled since it began.
LEMMA SucceedInv ==
    ASSUME IInv, NEW p \in Projection, NEW status \in Statuses, Succeed(p, status),
           refreshPc # "idle",
           ~disturbed => p.blocked = blockedDevices \cap p.returned
    PROVE  IInv'
<1> USE DEF IInv, Base, Succeed, serviceVars
<1>1. data' \in Data
  BY DEF Data, Projection, TypeOK, LastError
<1>2. TypeOK'
  BY <1>1, SyncedFacts, ReleasedType DEF TypeOK
<1>3. ProjectionInv'
  BY DEF ProjectionInv
<1>4. SnapshotInv'
  BY DEF SnapshotInv, TypeOK
<1>5. lastRefreshError = "none"
  BY DEF ErrorInv
<1>6. BlockInv' /\ RepairsNeverOverclaim'
  BY <1>5, SyncedFacts DEF BlockInv, RepairsNeverOverclaim, AuthErrors, WriteBlocked
<1>7. ErrorInv'
  BY <1>5 DEF ErrorInv, AuthErrors
<1> QED
  BY <1>2, <1>3, <1>4, <1>6, <1>7

\* A refresh fails: its error settles what it settles, the rest stays known.
LEMMA FailInv ==
    ASSUME IInv, NEW category \in ErrorCategories, Fail(category)
    PROVE  IInv'
<1> USE DEF IInv, Base, Fail, serviceVars
<1>1. TypeOK'
  BY SyncedFacts, ReleasedType DEF TypeOK
<1>2. ProjectionInv' /\ SnapshotInv'
  BY DEF ProjectionInv, SnapshotInv
<1>3. BlockInv'
  BY SyncedFacts DEF BlockInv, WriteBlocked
<1>4. ErrorInv'
  BY DEF ErrorInv, AuthErrors, ErrorCategories
<1>5. RepairsNeverOverclaim'
  BY SyncedFacts DEF RepairsNeverOverclaim, AuthErrors, AuthSettlingErrors, ErrorCategories
<1> QED
  BY <1>1, <1>2, <1>3, <1>4, <1>5

LEMMA ReadStepInv == ASSUME IInv, ReadStep PROVE IInv'
<1>1. ASSUME NEW R \in SUBSET Devices, FinishWithoutColors(R) PROVE IInv'
  <2>1. /\ Projected(R) \in Projection
        /\ Projected(R).blocked = blockedDevices \cap Projected(R).returned
    BY ProjectedFacts DEF IInv, Base
  <2> QED
    BY <1>1, <2>1, SucceedInv DEF FinishWithoutColors, Statuses
<1>2. ASSUME NEW status \in {"ready", "unavailable"}, FinishWithColors(status) PROVE IInv'
  BY <1>2, SucceedInv DEF FinishWithColors, Statuses, IInv, Base, ProjectionInv, SnapshotInv
<1>3. ASSUME NEW c \in ErrorCategories, FailDevices(c) PROVE IInv'
  BY <1>3, FailInv DEF FailDevices
<1>4. CASE FailColors
  BY <1>4, FailInv DEF FailColors, ErrorCategories
<1> QED
  BY <1>1, <1>2, <1>3, <1>4, ReadDevicesInv DEF ReadStep

\* An outcome: whatever snapshot is in hand is overtaken.
LEMMA WriteSettlesInv ==
    ASSUME IInv, NEW e \in Callers, NEW code \in Codes, WriteSettles(e, code)
    PROVE  IInv'
<1> USE DEF IInv, Base, WriteSettles, coordinatorVars, knownVars
<1>1. TypeOK'
  BY DEF TypeOK
<1>2. ProjectionInv' /\ SnapshotInv' /\ BlockInv'
  BY DEF ProjectionInv, SnapshotInv, BlockInv, WriteBlocked
<1>3. ErrorInv' /\ RepairsNeverOverclaim'
  BY DEF ErrorInv, RepairsNeverOverclaim
<1> QED
  BY <1>1, <1>2, <1>3

LEMMA SyncAfterWriteInv ==
    ASSUME IInv, NEW e \in Callers, SyncAfterWrite(e)
    PROVE  IInv'
<1> USE DEF IInv, Base, SyncAfterWrite, serviceVars, coordinatorVars, knownVars
<1>1. TypeOK'
  BY SyncedFacts DEF TypeOK
<1>2. ProjectionInv' /\ SnapshotInv' /\ ErrorInv'
  BY DEF ProjectionInv, SnapshotInv, ErrorInv
<1>3. BlockInv' /\ RepairsNeverOverclaim'
  BY SyncedFacts DEF BlockInv, RepairsNeverOverclaim, ErrorInv, WriteBlocked
<1> QED
  BY <1>1, <1>2, <1>3

\* Steps of an entity that the coordinator and the registry do not see.
LEMMA EntityMoveInv ==
    ASSUME IInv, NEW e \in Callers, StartWrite(e) \/ WriteRaises(e) \/ SkipRefresh(e)
    PROVE  IInv'
<1>1. /\ pc' \in [Callers -> {"idle", "writing", "requesting", "refreshing", "syncing"}]
      /\ target' \in [Callers -> Devices \cup {Site, NoTarget}]
      /\ UNCHANGED <<serviceVars, coordinatorVars, issues, knownVars, disturbed, quiet>>
  BY DEF StartWrite, WriteRaises, SkipRefresh, IInv, Base, TypeOK, Data
<1> QED
  BY <1>1 DEF IInv, Base, TypeOK, ProjectionInv, SnapshotInv, BlockInv, WriteBlocked,
     ErrorInv, RepairsNeverOverclaim, serviceVars, coordinatorVars, knownVars

LEMMA NextIInv == IInv /\ [Next]_vars => IInv'
<1> SUFFICES ASSUME IInv, [Next]_vars PROVE IInv'
  OBVIOUS
<1>1. CASE UNCHANGED vars
  BY <1>1 DEF vars, IInv, Base, TypeOK, ProjectionInv, SnapshotInv, BlockInv, WriteBlocked,
     ErrorInv, RepairsNeverOverclaim, serviceVars, coordinatorVars, callerVars, knownVars
<1>2. CASE Poll
  BY <1>2, StartRefreshInv DEF Poll, IInv, Base, TypeOK
<1>3. CASE ReadStep
  BY <1>3, ReadStepInv
<1>4. ASSUME NEW e \in Callers, EntityStep(e) PROVE IInv'
  <2>1. CASE RequestRefresh(e)
    BY <2>1, StartRefreshInv DEF RequestRefresh, IInv, Base, TypeOK
  <2> QED
    BY <1>4, <2>1, WriteSettlesInv, SyncAfterWriteInv, EntityMoveInv DEF EntityStep
<1> QED
  BY <1>1, <1>2, <1>3, <1>4 DEF Next

LEMMA SpecIInv == Spec => []IInv
BY InitIInv, NextIInv, PTL DEF Spec

-----------------------------------------------------------------------------
\* Type correctness, for every set of switches and of entities.
THEOREM TypeCorrect == Spec => []TypeOK
<1>1. IInv => TypeOK
  BY DEF IInv, Base
<1> QED
  BY <1>1, SpecIInv, PTL

\* However many refreshes and entities sync the Repairs in whatever order: a block
\* Repair is up exactly when the services block what the snapshot shows, unless an
\* outcome was settled after the refresh behind the snapshot began.
THEOREM BlockRepairStaysExact == Spec => []BlockRepairIsExact
<1>1. IInv => BlockRepairIsExact
  BY DEF IInv, BlockRepairIsExact, BlockInv, WriteBlocked, SnapshotInv
<1> QED
  BY <1>1, SpecIInv, PTL

\* No sync raises or keeps an authentication or schema Repair that the last refresh
\* to settle the question has refuted, also when an entity syncs during a refresh.
THEOREM RepairsNeverOutliveTheirCause == Spec => []RepairsNeverOverclaim
<1>1. IInv => RepairsNeverOverclaim
  BY DEF IInv
<1> QED
  BY <1>1, SpecIInv, PTL
=============================================================================
