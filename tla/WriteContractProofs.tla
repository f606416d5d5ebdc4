------------------------- MODULE WriteContractProofs -------------------------
(***************************************************************************)
(* Proofs about WriteContract: for every set of switches, every object     *)
(* that a switch may be, not only the shapes of the runs, and every bound. *)
(***************************************************************************)
EXTENDS WriteContract, FiniteSetTheorems, TLAPS

\* the names of fields
USE DEF Controls, EtherWriteFields, EtherFields, NetworkWriteFields, NetworkFields,
        LcmFields, Night, TopLevelFields, StableFields

-----------------------------------------------------------------------------
(* The contract, the PUT and its verification.                              *)

\* Everything a PUT is made of is there, and nothing that is there is left out of it.
LEMMA ContractMakesPayload ==
    ASSUME NEW o \in Objects, WriteContract(o),
           NEW c \in Controls, NEW v \in Confirmed(c)
    PROVE  LET p == BuildPayload(o, c, v)
           IN  /\ \A g \in DOMAIN p : p[g] # "absent"
               /\ Night \in DOMAIN p => p[Night] \in {"on", "off"}
               /\ \A g \in EtherWriteFields \cup NetworkWriteFields \cup TopLevelFields :
                      Present(o, g) => g \in DOMAIN p
<1> DEFINE p == BuildPayload(o, c, v)
<1>1. v # "absent" /\ v # "odd"
  BY DEF Confirmed
<1>2. DOMAIN p = SentFields(o)
  BY DEF BuildPayload
<1>3. /\ \A g \in Controls : o[g] \in {"low", "high"}
      /\ o["led_mode"] = "etherlighting"
      /\ \A g \in NetworkFieldsOf(o) \cup TopLevelOf(o) : o[g] # "absent"
      /\ o[Night] # "odd"
  BY DEF WriteContract, Readable, Confirmed, Present
<1>4. o[Night] \in {"on", "off", "absent"}
  BY <1>3 DEF Objects, Possible, Confirmed, Fields
<1>5. ASSUME NEW g \in SentFields(o) PROVE p[g] # "absent"
  BY <1>1, <1>3 DEF BuildPayload, SentFields, Present
<1>6. Night \in SentFields(o) => p[Night] \in {"on", "off"}
  BY <1>4 DEF BuildPayload, Present
<1>7. ASSUME NEW g \in EtherWriteFields \cup NetworkWriteFields \cup TopLevelFields,
             Present(o, g)
      PROVE  g \in SentFields(o)
  BY <1>7 DEF SentFields, NetworkFieldsOf, TopLevelOf, HasLcm
<1> QED
  BY <1>2, <1>5, <1>6, <1>7

\* What the controller holds after a PUT it stored as sent.
LEMMA StoredField ==
    ASSUME NEW o \in Objects, NEW c \in Controls, NEW v, NEW b \in BOOLEAN,
           NEW g \in Fields
    PROVE  LET n == Stored(o, BuildPayload(o, c, v), b)
           IN  /\ g \in SentFields(o) \ {c} =>
                      n[g] = IF g = Night /\ o[g] = "absent" THEN "off" ELSE o[g]
               /\ g \notin SentFields(o) /\ ~(b /\ g \in EtherFields \cup NetworkFields) =>
                      n[g] = o[g]
               /\ g \notin SentFields(o) /\ o[g] = "absent" => n[g] = o[g]
BY DEF Stored, BuildPayload, Present

\* A PUT stored as sent passes both preservation checks, if the switch has no fields
\* in its nested objects that the PUT cannot carry.
LEMMA StoredIsPreserved ==
    ASSUME NEW o \in Objects, WriteContract(o), NEW c \in Controls,
           NEW v, NEW b \in BOOLEAN,
           o["ether_extra"] = "absent", o["network_extra"] = "absent"
    PROVE  LET n == Stored(o, BuildPayload(o, c, v), b)
           IN  /\ Preserved(o, n, c)
               /\ v = o[c] => DevicePreserved(o, n)
<1> DEFINE n == Stored(o, BuildPayload(o, c, v), b)
<1>1. ASSUME NEW g \in Fields \ {c}, g = Night => o[g] # "absent"
      PROVE  n[g] = o[g]
  <2>1. CASE g \in SentFields(o)
    BY <1>1, <2>1, StoredField
  <2>2. CASE g \notin SentFields(o) /\ g \in EtherFields \cup NetworkFields
    <3>1. o[g] = "absent"
      BY <2>2 DEF SentFields, NetworkFieldsOf, Present
    <3> QED
      BY <2>2, <3>1, StoredField
  <2>3. CASE g \notin SentFields(o) /\ g \notin EtherFields \cup NetworkFields
    BY <2>3, StoredField
  <2> QED
    BY <2>1, <2>2, <2>3
<1>2. EtherFields \cup NetworkFields \cup StableFields \cup TopLevelOf(o) \cup {Night}
          \subseteq Fields
  BY DEF Fields, TopLevelOf
<1>3. Preserved(o, n, c)
  BY <1>1, <1>2 DEF Preserved, Present
<1>4. ASSUME v = o[c] PROVE n[c] = o[c]
  BY <1>4 DEF Stored, BuildPayload, SentFields, Fields
<1>5. ASSUME v = o[c] PROVE DevicePreserved(o, n)
  BY <1>1, <1>2, <1>4, <1>5 DEF DevicePreserved, Present
<1> QED
  BY <1>3, <1>5

\* What a preservation check accepts differs in one control, apart from the default of
\* an absent night mode.
LEMMA PreservedIsOneField ==
    ASSUME NEW o \in Objects, NEW c \in Controls, NEW v, NEW b \in BOOLEAN,
           LET n == Stored(o, BuildPayload(o, c, v), b)
           IN  Preserved(o, n, c) \/ DevicePreserved(o, n),
           NEW g \in Fields \ {c}
    PROVE  LET n == Stored(o, BuildPayload(o, c, v), b)
           IN  n[g] = o[g] \/ (g = Night /\ o[g] = "absent")
<1> DEFINE n == Stored(o, BuildPayload(o, c, v), b)
<1>1. CASE g \in NetworkFields
  BY <1>1 DEF Preserved, DevicePreserved
<1>2. CASE o[g] = "absent" /\ g # Night
  BY <1>2, StoredField
<1>3. CASE o[g] # "absent" /\ g \notin NetworkFields
  <2>1. CASE g \in EtherFields \cup StableFields \cup TopLevelOf(o) \cup {Night}
    BY <1>3, <2>1 DEF Preserved, DevicePreserved, Present
  <2>2. CASE g \notin EtherFields \cup StableFields \cup TopLevelOf(o) \cup {Night}
    <3>1. g \notin SentFields(o)
      BY <1>3, <2>2 DEF SentFields, NetworkFieldsOf
    <3> QED
      BY <1>3, <2>2, <3>1, StoredField
  <2> QED
    BY <2>1, <2>2
<1> QED
  BY <1>1, <1>2, <1>3

-----------------------------------------------------------------------------
(* Types.                                                                   *)

\* Storing a payload of confirmed values leaves an object.
LEMMA StoredType ==
    ASSUME NEW o \in Objects, NEW c \in Controls, NEW v \in Confirmed(c),
           NEW b \in BOOLEAN
    PROVE  Stored(o, BuildPayload(o, c, v), b) \in Objects
<1> DEFINE n == Stored(o, BuildPayload(o, c, v), b)
<1>1. ASSUME NEW g \in Fields PROVE n[g] \in {"absent", o[g]} \/ (g = c /\ n[g] = v)
                                    \/ (g = Night /\ n[g] = "off")
  BY DEF Stored, BuildPayload
<1>2. ASSUME NEW g \in Fields PROVE n[g] \in Possible(g)
  <2>1. o[g] \in Possible(g) /\ "absent" \in Possible(g)
    BY DEF Objects, Possible
  <2>2. v \in Possible(c) /\ "off" \in Possible(Night)
    BY DEF Possible, Confirmed
  <2> QED
    BY <1>1, <2>1, <2>2
<1>3. ASSUME NEW g \in Fields PROVE n[g] \in Values
  <2>1. o[g] \in Values
    BY DEF Objects
  <2>2. v \in Values
    BY DEF Confirmed, Values
  <2> QED
    BY <1>1, <2>1, <2>2 DEF Values
<1>4. n = [g \in Fields |-> n[g]]
  BY DEF Stored
<1> QED
  BY <1>2, <1>3, <1>4 DEF Objects

\* An edit of one field leaves an object.
LEMMA EditedType ==
    ASSUME NEW o \in Objects, NEW g \in Fields, NEW v \in Possible(g)
    PROVE  [o EXCEPT ![g] = v] \in Objects
<1>1. v \in Values
  BY DEF Possible, Confirmed, Values
<1> QED
  BY <1>1 DEF Objects

\* what a refresh knows is ordered: what can be written can be read, and was returned
DataInv ==
    /\ data.writable \subseteq data.readable
    /\ data.readable \subseteq data.returned

Typed == TypeOK /\ DataInv

LEMMA ProjectionTyped ==
    ASSUME TypeOK, NEW m \in BOOLEAN
    PROVE  /\ Projection(m) \in Data
           /\ Projection(m).writable \subseteq Projection(m).readable
           /\ Projection(m).readable \subseteq Projection(m).returned
BY DEF TypeOK, Projection, Data, Returned, Writable, WriteContract

LEMMA InitTyped == Init => Typed
<1> SUFFICES ASSUME Init PROVE Typed
  OBVIOUS
<1>1. live \in [Devices -> Objects \cup {Gone}] /\ version \in Versions /\ edits \in 0..MaxEdits
  BY ShapesAreObjects, BoundIsNatural DEF Init, Versions
<1>2. blockedDevices = {} /\ siteBlocked = FALSE /\ data = Projection(TRUE)
  BY DEF Init
<1>3. /\ Projection(TRUE) \in Data
      /\ Projection(TRUE).writable \subseteq Projection(TRUE).readable
      /\ Projection(TRUE).readable \subseteq Projection(TRUE).returned
  BY <1>1, <1>2 DEF Projection, Data, Returned, Writable, WriteContract
<1> QED
  BY <1>1, <1>2, <1>3 DEF Typed, TypeOK, DataInv

LEMMA WriteTyped ==
    ASSUME TypeOK, NEW d \in Devices, NEW c \in Controls, NEW v \in Confirmed(c),
           NEW b \in BOOLEAN, ServiceAdmits(d)
    PROVE  /\ live[d] \in Objects /\ WriteContract(live[d])
           /\ [live EXCEPT ![d] = Stored(live[d], BuildPayload(live[d], c, v), b)]
                  \in [Devices -> Objects \cup {Gone}]
<1>1. live[d] \in Objects /\ WriteContract(live[d])
  BY DEF TypeOK, ServiceAdmits, Writable, Returned
<1> QED
  BY <1>1, StoredType DEF TypeOK

LEMMA NextTyped == Typed /\ [Next]_vars => Typed'
<1> SUFFICES ASSUME Typed, [Next]_vars PROVE Typed'
  OBVIOUS
<1>1. CASE UNCHANGED vars
  BY <1>1 DEF vars, Typed, TypeOK, DataInv
<1>2. CASE Refresh
  BY <1>2, ProjectionTyped DEF Refresh, Typed, TypeOK, DataInv, controllerVars, serviceVars
<1>3. ASSUME NEW d \in Devices, NEW g \in Fields, NEW v \in Possible(g), Edit(d, g, v)
      PROVE  Typed'
  <2>1. live[d] \in Objects
    BY <1>3 DEF Edit, Typed, TypeOK
  <2>2. live' \in [Devices -> Objects \cup {Gone}]
    BY <1>3, <2>1, EditedType DEF Edit, Typed, TypeOK
  <2> QED
    BY <1>3, <2>2, BoundIsNatural DEF Edit, Typed, TypeOK, DataInv, serviceVars
<1>4. ASSUME NEW d \in Devices, Forget(d) PROVE Typed'
  BY <1>4, BoundIsNatural DEF Forget, Typed, TypeOK, DataInv, serviceVars
<1>5. ASSUME NEW v \in Versions, VersionChanges(v) PROVE Typed'
  BY <1>5, BoundIsNatural DEF VersionChanges, Typed, TypeOK, DataInv, serviceVars
<1>6. ASSUME NEW d \in Devices, NEW c \in Controls, NEW v \in Confirmed(c),
             NEW b \in BOOLEAN, Write(d, c, v, b) \/ WriteLost(d, c, v, b)
      PROVE  Typed'
  <2>1. live' \in [Devices -> Objects \cup {Gone}]
    BY <1>6, WriteTyped DEF Write, WriteLost, Typed, TypeOK, controllerVars
  <2> QED
    BY <1>6, <2>1 DEF Write, WriteLost, Blocking, Typed, TypeOK, DataInv, controllerVars
<1>7. ASSUME NEW d \in Devices, NEW b \in BOOLEAN, RefreshWitness(d, b) PROVE Typed'
  <2>1. live[d] \in Objects /\ WriteContract(live[d])
    BY <1>7 DEF RefreshWitness, ColorServiceAdmits, Writable, Returned, Typed, TypeOK
  <2>2. live[d]["mode"] \in Confirmed("mode")
    BY <2>1 DEF WriteContract, Readable
  <2>3. live' \in [Devices -> Objects \cup {Gone}]
    BY <1>7, <2>1, <2>2, StoredType DEF RefreshWitness, Typed, TypeOK
  <2> QED
    BY <1>7, <2>3 DEF RefreshWitness, DevicePreserved, Typed, TypeOK, DataInv
<1> QED
  BY <1>1, <1>2, <1>3, <1>4, <1>5, <1>6, <1>7 DEF Next

LEMMA SpecTyped == Spec => []Typed
BY InitTyped, NextTyped, PTL DEF Spec

\* Type correctness, for every object a switch may become.
THEOREM TypeCorrect == Spec => []TypeOK
<1>1. Typed => TypeOK
  BY DEF Typed
<1> QED
  BY <1>1, SpecTyped, PTL

-----------------------------------------------------------------------------
(* The properties of the runs.                                              *)

\* Whatever the controller returns: an object that meets the contract can be written
\* as a whole, nothing of it is lost.
THEOREM PayloadsAreComplete == Spec => []PayloadComplete
<1>1. Typed => PayloadComplete
  <2> SUFFICES ASSUME Typed, NEW d \in Devices, live[d] # Gone, WriteContract(live[d]),
                      NEW c \in Controls, NEW v \in Confirmed(c)
               PROVE  LET p == BuildPayload(live[d], c, v)
                      IN  /\ \A g \in DOMAIN p : p[g] # "absent"
                          /\ Night \in DOMAIN p => p[Night] \in {"on", "off"}
                          /\ \A g \in EtherWriteFields \cup NetworkWriteFields
                                          \cup TopLevelFields :
                                 Present(live[d], g) => g \in DOMAIN p
    BY DEF PayloadComplete
  <2>1. live[d] \in Objects
    BY DEF Typed, TypeOK
  <2> QED
    BY <2>1, ContractMakesPayload
<1> QED
  BY <1>1, SpecTyped, PTL

\* A step that changes a switch from inside is one of the two PUTs.
LEMMA InsideStep ==
    ASSUME Typed, Next, edits' = edits, live' # live
    PROVE  \E d \in Devices, c \in Controls, b \in BOOLEAN :
             \/ \E v \in Confirmed(c) : Write(d, c, v, b)
             \/ c = "mode" /\ RefreshWitness(d, b)
<1>1. edits + 1 # edits
  BY DEF Typed, TypeOK
<1> QED
  BY <1>1 DEF Next, Refresh, Edit, Forget, VersionChanges, WriteLost, controllerVars

\* What is verified has changed one control, for every object and every way the
\* controller stores it.
THEOREM AppliedWritesChangeOneField == Spec => AppliedChangesOneField
<1>1. Typed /\ [Next]_vars =>
          [edits' = edits /\ Blocks' = Blocks =>
              \A d \in Devices : live'[d] # live[d] =>
                  \E c \in Controls : \A g \in Fields \ {c} :
                      \/ live'[d][g] = live[d][g]
                      \/ g = Night /\ live[d][g] = "absent"]_vars
  <2> SUFFICES ASSUME Typed, Next, edits' = edits, Blocks' = Blocks,
                      NEW e \in Devices, live'[e] # live[e]
               PROVE  \E c \in Controls : \A g \in Fields \ {c} :
                          \/ live'[e][g] = live[e][g]
                          \/ g = Night /\ live[e][g] = "absent"
    OBVIOUS
  <2> PICK d \in Devices, c \in Controls, b \in BOOLEAN :
             \/ \E v \in Confirmed(c) : Write(d, c, v, b)
             \/ c = "mode" /\ RefreshWitness(d, b)
    BY InsideStep
  <2> DEFINE n(v) == Stored(live[d], BuildPayload(live[d], c, v), b)
  <2>1. live[d] \in Objects
    BY DEF Write, RefreshWitness, ServiceAdmits, ColorServiceAdmits, Writable, Returned,
           Typed, TypeOK
  <2>2. PICK v : /\ live' = [live EXCEPT ![d] = n(v)]
                 /\ Preserved(live[d], n(v), c) \/ DevicePreserved(live[d], n(v))
    <3>1. ASSUME NEW v \in Confirmed(c), Write(d, c, v, b)
          PROVE  live' = [live EXCEPT ![d] = n(v)] /\ Preserved(live[d], n(v), c)
      BY <3>1 DEF Write, Blocking, Blocks, ServiceAdmits
    <3>2. ASSUME c = "mode", RefreshWitness(d, b)
          PROVE  /\ live' = [live EXCEPT ![d] = n(live[d][c])]
                 /\ DevicePreserved(live[d], n(live[d][c]))
      BY <3>2 DEF RefreshWitness, Blocks, ColorServiceAdmits
    <3> QED
      BY <3>1, <3>2
  <2>3. e = d /\ live'[d] = n(v)
    BY <2>2 DEF Typed, TypeOK
  <2> QED
    BY <2>1, <2>2, <2>3, PreservedIsOneField
<1> QED
  BY <1>1, SpecTyped, PTL DEF Spec, AppliedChangesOneField

\* No switch is blocked by the contract's own doing: a PUT stored as sent is verified,
\* unless nested objects were replaced that have fields the PUT does not know.
THEOREM StoredWritesVerify == Spec => FaithfulIsVerified
<1>1. Typed /\ [Next]_vars =>
          [live' # live /\ Blocks' # Blocks =>
              \E d \in Devices, g \in {"ether_extra", "network_extra"} :
                  live'[d] # live[d] /\ Present(live[d], g)]_vars
  <2> SUFFICES ASSUME Typed, Next, live' # live, Blocks' # Blocks
               PROVE  \E d \in Devices, g \in {"ether_extra", "network_extra"} :
                          live'[d] # live[d] /\ Present(live[d], g)
    OBVIOUS
  <2>1. edits' = edits
    BY DEF Next, Refresh, Edit, Forget, VersionChanges, Write, WriteLost, RefreshWitness,
           controllerVars, serviceVars, Blocks
  <2> PICK d \in Devices, c \in Controls, b \in BOOLEAN :
             \/ \E v \in Confirmed(c) : Write(d, c, v, b)
             \/ c = "mode" /\ RefreshWitness(d, b)
    BY <2>1, InsideStep
  <2> DEFINE n(v) == Stored(live[d], BuildPayload(live[d], c, v), b)
  <2>2. live[d] \in Objects /\ WriteContract(live[d])
    BY DEF Write, RefreshWitness, ServiceAdmits, ColorServiceAdmits, Writable, Returned,
           Typed, TypeOK
  <2>3. PICK v : /\ live' = [live EXCEPT ![d] = n(v)]
                 /\ \/ ~Preserved(live[d], n(v), c)
                    \/ v = live[d][c] /\ ~DevicePreserved(live[d], n(v))
    <3>1. ASSUME NEW v \in Confirmed(c), Write(d, c, v, b)
          PROVE  live' = [live EXCEPT ![d] = n(v)] /\ ~Preserved(live[d], n(v), c)
      BY <3>1 DEF Write, Blocks
    <3>2. ASSUME c = "mode", RefreshWitness(d, b)
          PROVE  /\ live' = [live EXCEPT ![d] = n(live[d][c])]
                 /\ ~DevicePreserved(live[d], n(live[d][c]))
      <4>1. siteBlocked' # siteBlocked /\ siteBlocked = FALSE
        BY <3>2 DEF RefreshWitness, Blocks, ColorServiceAdmits, Typed, TypeOK
      <4> QED
        BY <3>2, <4>1 DEF RefreshWitness
    <3> QED
      BY <3>1, <3>2
  <2>4. Present(live[d], "ether_extra") \/ Present(live[d], "network_extra")
    BY <2>2, <2>3, StoredIsPreserved DEF Present
  <2>5. live'[d] # live[d]
    BY <2>3 DEF Typed, TypeOK
  <2> QED
    BY <2>4, <2>5
<1> QED
  BY <1>1, SpecTyped, PTL DEF Spec, FaithfulIsVerified

\* The write readiness shown to the user is exact whenever the refresh is current.
THEOREM ReadinessStaysHonest == Spec => []ReadinessIsHonest
<1>1. Typed => ReadinessIsHonest
  <2> SUFFICES ASSUME Typed, data = Projection(data.colors)
               PROVE  EffectiveWriteReady
                        <=> \E d \in Devices : \/ EntityAdmits(d) /\ ServiceAdmits(d)
                                               \/ LightAdmits(d) /\ ColorServiceAdmits(d)
    BY DEF ReadinessIsHonest
  <2>1. /\ data.writable = {d \in Devices : Writable(d)}
        /\ data.blocked = blockedDevices
        /\ data.siteBlocked = siteBlocked
        /\ data.colors => \E d \in Devices : Writable(d)
    <3>1. data.colors \in BOOLEAN /\ data.siteBlocked \in BOOLEAN /\ siteBlocked \in BOOLEAN
      BY DEF Typed, TypeOK, Data
    <3>2. /\ Projection(data.colors).writable = {d \in Devices : Writable(d)}
          /\ Projection(data.colors).blocked = blockedDevices
          /\ Projection(data.colors).siteBlocked = siteBlocked
          /\ Projection(data.colors).colors =
                (data.colors /\ \E d \in Devices : Writable(d))
      BY DEF Projection
    <3> QED
      BY <3>1, <3>2
  <2> QED
    BY <2>1 DEF EffectiveWriteReady, EntityAdmits, ServiceAdmits, LightAdmits,
                ColorServiceAdmits
<1> QED
  BY <1>1, SpecTyped, PTL

\* A user who can write nothing finds a Repair that says so.
THEOREM UnwritableStaysReported == Spec => []UnwritableIsReported
<1>1. Typed => UnwritableIsReported
  <2> SUFFICES ASSUME Typed PROVE UnwritableIsReported
    OBVIOUS
  <2>1. /\ data.writable \subseteq data.readable
        /\ data.readable \subseteq data.returned
        /\ data.returned \subseteq Devices
    BY DEF Typed, TypeOK, DataInv, Data
  <2>2. Cardinality(data.readable) > Cardinality(data.writable)
           <=> data.readable \ data.writable # {}
    <3>1. IsFiniteSet(data.readable) /\ IsFiniteSet(data.writable)
      BY <2>1, DevicesAreFinite, FS_Subset
    <3>2. /\ Cardinality(data.writable) \in Nat /\ Cardinality(data.readable) \in Nat
          /\ Cardinality(data.writable) <= Cardinality(data.readable)
          /\ Cardinality(data.writable) = Cardinality(data.readable)
                => data.writable = data.readable
      BY <2>1, <3>1, FS_CardinalityType, FS_Subset
    <3> QED
      BY <2>1, <3>2
  <2>3. "write_contract_incomplete" \in Repairs <=> data.readable \ data.writable # {}
    BY <2>2 DEF Repairs
  <2>4. ASSUME data.writable \ data.blocked = {} PROVE Repairs # {}
    <3>1. CASE data.writable # {}
      <4>1. data.returned \cap data.blocked # {}
        BY <2>1, <2>4, <3>1
      <4> QED
        BY <4>1 DEF Repairs
    <3>2. CASE data.writable = {} /\ data.readable # {}
      BY <2>3, <3>2
    <3>3. CASE data.readable = {}
      <4>1. ControllerStatus = "unsupported" \/ ReadReason = "selected_devices_not_returned"
        BY <3>3 DEF ControllerStatus
      <4> QED
        BY <4>1 DEF Repairs
    <3> QED
      BY <3>1, <3>2, <3>3
  <2> QED
    BY <2>3, <2>4 DEF UnwritableIsReported
<1> QED
  BY <1>1, SpecTyped, PTL
=============================================================================
