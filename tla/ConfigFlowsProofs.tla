------------------------- MODULE ConfigFlowsProofs -------------------------
(***************************************************************************)
(* Proofs about the flows over the life of an entry, for every set of      *)
(* switches, accounts, options and dialogs: what an edit stores, and what  *)
(* a reload makes of it.                                                   *)
(***************************************************************************)
EXTENDS ConfigFlows, TLAPS

\* nothing runs without an entry, and an entry has a runtime from its first setup on
PresenceInv ==
    /\ entry = NoEntry => /\ state = "absent" /\ ~reauthAsked
                          /\ registry = {} /\ ~reloadAsked
    /\ entry # NoEntry => state # "absent" /\ runtime \in Runtimes

\* what each dialog found, or entered
DialogInv ==
    \A f \in Flows : flow[f] # NoFlow =>
        /\ flow[f].kind = "user" /\ flow[f].step = "devices" => flow[f].pending \in Accounts
        /\ flow[f].kind # "user" => entry # NoEntry

Base == TypeOK /\ PresenceInv /\ DialogInv

\* what is stored and what was set up from it differ only while a reload waits
SetupInv ==
    ~reloadAsked =>
        /\ state \in {"refreshing", "adding", "reconciling", "loaded"} =>
              runtime.account = entry.account
        /\ state \in {"reconciling", "loaded"} =>
              runtime.entities = entry.devices /\ entry.devices \subseteq registry
        /\ state = "loaded" => registry \subseteq entry.devices

\* a submitted selection that could be stored was readable since it was submitted
SelectionInv ==
    \A f \in Flows : flow[f] # NoFlow /\ flow[f].selected # {} =>
        /\ flow[f].step = "reading" /\ flow[f].selected \subseteq compatible => seenLive[f]
        /\ flow[f].step = "closing" /\ flow[f].selected \subseteq flow[f].live => seenLive[f]

-----------------------------------------------------------------------------
(* Types and presence.                                                      *)

LEMMA InitBase == Init => Base
<1> SUFFICES ASSUME Init PROVE Base
  OBVIOUS
<1>1. TypeOK
  <2>1. changes \in 0..MaxChanges /\ seenLive \in [Flows -> BOOLEAN]
    BY BoundIsNatural DEF Init, LifecycleInit
  <2>2. state \in States /\ writing \in [Writers -> Writes]
    BY DEF Init, LifecycleInit, States, Writes
  <2> QED
    BY <2>1, <2>2 DEF Init, LifecycleInit, TypeOK
<1>2. PresenceInv /\ DialogInv
  BY DEF Init, LifecycleInit, PresenceInv, DialogInv
<1> QED
  BY <1>1, <1>2 DEF Base

\* Building a runtime, from an entry that is there.
LEMMA BuildFacts ==
    ASSUME NEW e \in Entries, Build(e)
    PROVE  /\ state' = "refreshing" /\ state' \in States
           /\ runtime' \in Runtimes /\ runtime'.account = e.account
BY DEF Build, Entries, Runtimes, States

\* Whatever state the entry is in but "absent", there is one.
LEMMA EntryFacts ==
    ASSUME Base
    PROVE  /\ entry # NoEntry <=> state # "absent"
           /\ entry # NoEntry => /\ entry \in Entries /\ entry.account \in Accounts
                                 /\ entry.devices \in SUBSET Devices
                                 /\ runtime \in Runtimes
BY SentinelsFresh DEF Base, TypeOK, PresenceInv, Entries

\* the steps of setup and reload, which the entry goes through as it is stored
SetupStep ==
    \/ Retry \/ FirstRefresh \/ FirstRefreshRejected \/ FirstRefreshFails
    \/ AddEntities \/ Reconcile
    \/ ReloadLoaded \/ ReloadFailed \/ Unloaded
    \/ PollRejected

LEMMA SetupFacts ==
    ASSUME Base, SetupStep
    PROVE  /\ entry # NoEntry /\ entry' = entry
           /\ UNCHANGED <<compatible, accepted, changes>>
           /\ state' \in States \ {"absent"}
           /\ runtime' \in Runtimes
           /\ registry' \in SUBSET Devices
           /\ reloadAsked' \in BOOLEAN /\ reauthAsked' \in BOOLEAN
           /\ writing' \in [Writers -> Writes]
<1> USE DEF storeVars, setupVars, controllerVars
<1>0. TypeOK
  BY DEF Base
<1>1. /\ state # "absent" /\ entry' = entry /\ UNCHANGED <<compatible, accepted, changes>>
      /\ state' \in States \ {"absent"}
  BY DEF SetupStep, Retry, FirstRefresh, FirstRefreshRejected, FirstRefreshFails,
     AddEntities, Reconcile, ReloadLoaded, ReloadFailed, Unloaded, PollRejected, Build, States
<1>2. /\ entry # NoEntry /\ entry \in Entries /\ runtime \in Runtimes
      /\ entry.devices \in SUBSET Devices
  BY <1>1, EntryFacts
<1>3. runtime' \in Runtimes
  <2>1. CASE Retry \/ ReloadFailed \/ Unloaded
    BY <1>2, <2>1, BuildFacts DEF Retry, ReloadFailed, Unloaded
  <2>2. CASE AddEntities
    BY <1>2, <2>2 DEF AddEntities, Runtimes
  <2>3. CASE ~(Retry \/ ReloadFailed \/ Unloaded \/ AddEntities)
    BY <1>2, <2>3 DEF SetupStep, FirstRefresh, FirstRefreshRejected, FirstRefreshFails,
       Reconcile, ReloadLoaded, PollRejected
  <2> QED
    BY <2>1, <2>2, <2>3
<1>4. registry' \in SUBSET Devices /\ reloadAsked' \in BOOLEAN
  BY <1>0, <1>2 DEF SetupStep, Retry, FirstRefresh, FirstRefreshRejected, FirstRefreshFails,
     AddEntities, Reconcile, ReloadLoaded, ReloadFailed, Unloaded, PollRejected, TypeOK
<1>5. reauthAsked' \in BOOLEAN
  BY <1>0 DEF SetupStep, Retry, FirstRefresh, FirstRefreshRejected, FirstRefreshFails,
     AddEntities, Reconcile, ReloadLoaded, ReloadFailed, Unloaded, PollRejected, TypeOK
<1>6. writing' \in [Writers -> Writes]
  BY <1>0 DEF SetupStep, Retry, FirstRefresh, FirstRefreshRejected, FirstRefreshFails,
     AddEntities, Reconcile, ReloadLoaded, ReloadFailed, Unloaded, PollRejected, Outlive,
     Writes, TypeOK
<1> QED
  BY <1>1, <1>2, <1>3, <1>4, <1>5, <1>6

LEMMA OptionFacts ==
    ASSUME Base, NEW o \in Options, SetOptions(o)
    PROVE  /\ entry # NoEntry /\ entry \in Entries
           /\ entry' \in Entries /\ entry' = [entry EXCEPT !.option = o]
           /\ entry'.devices = entry.devices /\ entry'.account = entry.account
           /\ ~reloadAsked' => ~reloadAsked
           /\ reloadAsked' \in BOOLEAN
           /\ UNCHANGED <<registry, setupVars, writing, controllerVars>>
<1>1. /\ entry # NoEntry /\ entry \in Entries /\ entry' = [entry EXCEPT !.option = o]
      /\ ~reloadAsked' => ~reloadAsked
      /\ UNCHANGED <<registry, setupVars, writing, controllerVars>>
  BY EntryFacts DEF SetOptions
<1>2. reloadAsked' \in BOOLEAN
  BY DEF SetOptions
<1> QED
  BY <1>1, <1>2 DEF Entries

LEMMA WriteFacts ==
    ASSUME Base, NEW w \in Writers, BeginWrite(w) \/ EndWrite(w)
    PROVE  /\ writing' \in [Writers -> Writes]
           /\ UNCHANGED <<storeVars, setupVars, controllerVars>>
BY DEF Base, TypeOK, BeginWrite, EndWrite, Writes

LEMMA LifecycleBase ==
    ASSUME Base, LifecycleNext, UNCHANGED flowVars
    PROVE  Base'
<1> USE SentinelsFresh DEF storeVars, setupVars, controllerVars, flowVars, Base
<1>1. CASE SetupStep
  BY <1>1, SetupFacts DEF TypeOK, PresenceInv, DialogInv
<1>2. ASSUME NEW o \in Options, SetOptions(o) PROVE Base'
  BY <1>2, OptionFacts DEF TypeOK, PresenceInv, DialogInv
<1>3. ASSUME NEW w \in Writers, BeginWrite(w) \/ EndWrite(w) PROVE Base'
  BY <1>3, WriteFacts DEF TypeOK, PresenceInv, DialogInv
<1> QED
  BY <1>1, <1>2, <1>3 DEF LifecycleNext, SetupStep

-----------------------------------------------------------------------------
(* The dialogs.                                                             *)

\* What a dialog's step leaves in it: nothing, or a dialog of the same kind.
LEMMA StepFacts ==
    ASSUME Base, NEW f \in Flows, FlowStep(f)
    PROVE  \E d \in Dialogs \cup {NoFlow} :
              /\ flow' = [flow EXCEPT ![f] = d]
              /\ d # NoFlow =>
                    /\ d.kind = "user" /\ d.step = "devices" => d.pending \in Accounts
                    /\ d.kind # "user" => entry # NoEntry
                    /\ \/ flow[f] = NoFlow /\ d.selected = {}
                       \/ flow[f] # NoFlow /\ d.kind = flow[f].kind
<1> USE DEF Base, Becomes
<1>0. /\ flow[f] \in Dialogs \cup {NoFlow}
      /\ flow[f] # NoFlow =>
            /\ flow[f].kind = "user" /\ flow[f].step = "devices" => flow[f].pending \in Accounts
            /\ flow[f].kind # "user" => entry # NoEntry
  BY DEF TypeOK, DialogInv
<1>1. ASSUME NEW kind \in Kinds, NEW a \in Accounts, kind # "user" => entry # NoEntry,
             flow[f] = NoFlow, Becomes(f, Validating(kind, a))
      PROVE  \E d \in Dialogs : /\ flow' = [flow EXCEPT ![f] = d]
                                /\ d.kind = "user" /\ d.step = "devices" => d.pending \in Accounts
                                /\ d.kind # "user" => entry # NoEntry
                                /\ flow[f] = NoFlow /\ d.selected = {}
  <2> DEFINE d == Validating(kind, a)
  <2>1. d \in Dialogs
    BY <1>1 DEF Validating, Dialogs, Steps
  <2>2. d.kind = kind /\ d.step = "reading" /\ d.selected = {}
    BY DEF Validating
  <2>3. flow' = [flow EXCEPT ![f] = d]
    BY <1>1
  <2> HIDE DEF d
  <2> QED
    BY <1>1, <2>1, <2>2, <2>3
<1>2. CASE \E a \in Accounts : SubmitConnection(f, a)
  <2>1. PICK a \in Accounts : SubmitConnection(f, a)
    BY <1>2
  <2>2. "user" \in Kinds
    BY DEF Kinds
  <2> QED
    BY <1>1, <2>1, <2>2 DEF SubmitConnection
<1>3. CASE ConfirmReconfigure(f)
  <2>1. entry.account \in Accounts /\ "reconfigure" \in Kinds
    BY <1>3, EntryFacts DEF ConfirmReconfigure, Kinds
  <2> QED
    BY <1>1, <1>3, <2>1 DEF ConfirmReconfigure
<1>4. CASE \E a \in Accounts : SubmitCredentials(f, a)
  <2>1. PICK a \in Accounts : SubmitCredentials(f, a)
    BY <1>4
  <2>2. entry # NoEntry /\ "reauth" \in Kinds /\ "reauth" # "user"
    BY <2>1 DEF SubmitCredentials, PresenceInv, Kinds
  <2>3. flow[f] = NoFlow /\ Becomes(f, Validating("reauth", a))
    BY <2>1 DEF SubmitCredentials
  <2> QED
    BY <1>1, <2>2, <2>3
<1>5. ASSUME flow[f] \in Dialogs, NEW d \in Dialogs, flow' = [flow EXCEPT ![f] = d],
             d.kind = flow[f].kind,
             d.kind = "user" /\ d.step = "devices" => d.pending \in Accounts
      PROVE  \E x \in Dialogs \cup {NoFlow} :
                /\ flow' = [flow EXCEPT ![f] = x]
                /\ x # NoFlow =>
                      /\ x.kind = "user" /\ x.step = "devices" => x.pending \in Accounts
                      /\ x.kind # "user" => entry # NoEntry
                      /\ \/ flow[f] = NoFlow /\ x.selected = {}
                         \/ flow[f] # NoFlow /\ x.kind = flow[f].kind
  <2>1. flow[f] # NoFlow
    BY <1>5, NoFlowFresh
  <2> QED
    BY <1>0, <1>5, <2>1
<1>6. CASE ReadDevices(f)
  <2>1. Readable(flow[f].account) \in SUBSET Devices
    BY DEF Readable, TypeOK
  <2>2. /\ flow[f] \in Dialogs
        /\ flow' = [flow EXCEPT ![f] =
              [flow[f] EXCEPT !.step = "closing", !.live = Readable(flow[f].account)]]
    BY <1>0, <1>6 DEF ReadDevices
  <2>3. [flow[f] EXCEPT !.step = "closing", !.live = Readable(flow[f].account)] \in Dialogs
    BY <2>1, <2>2 DEF Dialogs, Steps
  <2> QED
    BY <1>0, <1>6, <2>2, <2>3 DEF ReadDevices, Dialogs
<1>7. CASE SelectionFormAgain(f) \/ Offer(f) \/ OfferAgain(f)
  <2>1. flow[f] \in Dialogs /\ flow[f].live \in SUBSET Devices
    BY <1>0, <1>7 DEF SelectionFormAgain, Offer, OfferAgain, Is, Dialogs
  <2>2. CASE SelectionFormAgain(f)
    <3> DEFINE d == [flow[f] EXCEPT !.step = "devices", !.selected = {}]
    <3>1. d \in Dialogs /\ d.kind = flow[f].kind /\ d.kind = "reconfigure"
      BY <2>1, <2>2 DEF Dialogs, Steps, SelectionFormAgain, Is
    <3>2. flow' = [flow EXCEPT ![f] = d]
      BY <2>2 DEF SelectionFormAgain
    <3> HIDE DEF d
    <3> QED
      BY <1>5, <2>1, <3>1, <3>2
  <2>3. CASE Offer(f)
    <3> DEFINE d == [flow[f] EXCEPT !.step = "devices", !.pending = Captured(f),
                                    !.offered = flow[f].live, !.live = {}]
    <3>1. Captured(f) \in Accounts
      BY <1>0, <2>1, <2>3, EntryFacts DEF Captured, Offer, Is, Dialogs
    <3>2. d \in Dialogs /\ d.kind = flow[f].kind /\ d.pending \in Accounts
      BY <2>1, <3>1 DEF Dialogs, Steps
    <3>3. flow' = [flow EXCEPT ![f] = d]
      BY <2>3 DEF Offer
    <3> HIDE DEF d
    <3> QED
      BY <1>5, <2>1, <3>2, <3>3
  <2>4. CASE OfferAgain(f)
    <3> DEFINE d == [flow[f] EXCEPT !.step = "devices", !.offered = flow[f].live,
                                    !.selected = {}, !.live = {}]
    <3>1. d \in Dialogs /\ d.kind = flow[f].kind /\ d.kind = "reconfigure"
      BY <2>1, <2>4 DEF Dialogs, Steps, OfferAgain, Is
    <3>2. flow' = [flow EXCEPT ![f] = d]
      BY <2>4 DEF OfferAgain
    <3> HIDE DEF d
    <3> QED
      BY <1>5, <2>1, <3>1, <3>2
  <2> QED
    BY <1>7, <2>2, <2>3, <2>4
<1>8. CASE \E S \in SUBSET Devices : Reselect(f, S)
  <2>1. PICK S \in SUBSET Devices : Reselect(f, S)
    BY <1>8
  <2>2. flow[f] \in Dialogs /\ entry # NoEntry /\ entry.account \in Accounts
    BY <1>0, <2>1, EntryFacts DEF Reselect, Is
  <2> DEFINE d == [flow[f] EXCEPT !.step = "reading", !.selected = S,
                                  !.account = entry.account]
  <2>3. d \in Dialogs /\ d.kind = flow[f].kind /\ d.kind = "reconfigure"
    BY <2>1, <2>2 DEF Dialogs, Steps, Reselect, Is
  <2>4. flow' = [flow EXCEPT ![f] = d]
    BY <2>1 DEF Reselect
  <2> HIDE DEF d
  <2> QED
    BY <1>5, <2>2, <2>3, <2>4
<1>9. CASE \/ FormAgain(f) \/ (\E S \in SUBSET Devices, o \in Options : CreateEntry(f, S, o))
           \/ AbortConfigured(f) \/ Abandon(f) \/ StoreDevices(f) \/ StoreAccount(f)
  BY <1>9 DEF FormAgain, CreateEntry, AbortConfigured, Abandon, StoreDevices, StoreAccount
<1> QED
  BY <1>2, <1>3, <1>4, <1>6, <1>7, <1>8, <1>9 DEF FlowStep

-----------------------------------------------------------------------------
(* What a dialog stores.                                                    *)

LEMMA CreateFacts ==
    ASSUME Base, NEW f \in Flows, NEW S \in SUBSET Devices, NEW o \in Options, CreateEntry(f, S, o)
    PROVE  /\ entry = NoEntry /\ entry' \in Entries
           /\ state' = "refreshing" /\ state' \in States
           /\ runtime' \in Runtimes /\ runtime'.account = entry'.account
           /\ flow' = [flow EXCEPT ![f] = NoFlow]
           /\ UNCHANGED <<reloadAsked, registry, reauthAsked, writing, controllerVars, seenLive>>
<1>1. /\ entry = NoEntry /\ entry' = [devices |-> S, account |-> flow[f].pending, option |-> o]
      /\ S # {} /\ Build(entry')
      /\ flow' = [flow EXCEPT ![f] = NoFlow]
      /\ UNCHANGED <<reloadAsked, registry, reauthAsked, writing, controllerVars, seenLive>>
  BY DEF CreateEntry, Allowed, Becomes
<1>2. flow[f].pending \in Accounts
  BY DEF CreateEntry, Is, Base, DialogInv
<1>3. entry' \in Entries
  BY <1>1, <1>2 DEF Entries
<1> QED
  <2>1. /\ state' = "refreshing" /\ runtime' = [account |-> entry'.account, entities |-> {}]
    BY <1>1 DEF Build
  <2>2. entry'.account \in Accounts
    BY <1>3 DEF Entries
  <2> QED
    BY <1>1, <1>3, <2>1, <2>2 DEF Runtimes, States

LEMMA StoreDevicesFacts ==
    ASSUME Base, NEW f \in Flows, StoreDevices(f)
    PROVE  /\ entry # NoEntry /\ entry \in Entries /\ entry' \in Entries
           /\ entry' = [entry EXCEPT !.devices = flow[f].selected]
           /\ entry'.account = entry.account
           /\ reloadAsked' = TRUE
           /\ flow[f] # NoFlow /\ flow[f].step = "closing"
           /\ flow[f].selected # {} /\ flow[f].selected \subseteq flow[f].live
           /\ flow' = [flow EXCEPT ![f] = NoFlow]
           /\ seenLive' = [seenLive EXCEPT ![f] = FALSE]
           /\ UNCHANGED <<registry, setupVars, writing, controllerVars>>
<1>1. /\ flow[f] # NoFlow /\ flow[f].kind = "reconfigure" /\ flow[f].step = "closing"
      /\ flow[f].selected # {} /\ flow[f].selected \subseteq flow[f].live
      /\ entry' = [entry EXCEPT !.devices = flow[f].selected]
      /\ reloadAsked' = TRUE
      /\ flow' = [flow EXCEPT ![f] = NoFlow]
      /\ seenLive' = [seenLive EXCEPT ![f] = FALSE]
      /\ UNCHANGED <<registry, setupVars, writing, controllerVars>>
  BY DEF StoreDevices, Is, StillReadable, UpdateAndReload, WithDevices, Becomes, Unseen
<1>2. flow[f] \in Dialogs /\ entry # NoEntry /\ entry \in Entries
  BY <1>1, EntryFacts DEF Base, TypeOK, DialogInv
<1>3. flow[f].selected \in SUBSET Devices
  BY <1>2 DEF Dialogs
<1>4. entry' \in Entries /\ entry'.account = entry.account
  BY <1>1, <1>2, <1>3 DEF Entries
<1> QED
  BY <1>1, <1>2, <1>4

LEMMA StoreAccountFacts ==
    ASSUME Base, NEW f \in Flows, StoreAccount(f)
    PROVE  /\ entry # NoEntry /\ entry \in Entries /\ entry' \in Entries
           /\ entry' = [entry EXCEPT !.account = flow[f].account]
           /\ entry'.devices = entry.devices
           /\ reloadAsked' = TRUE /\ reauthAsked' = FALSE
           /\ flow' = [flow EXCEPT ![f] = NoFlow]
           /\ UNCHANGED <<registry, state, runtime, writing, controllerVars, seenLive>>
<1>1. /\ flow[f] # NoFlow /\ flow[f].kind = "reauth"
      /\ entry' = [entry EXCEPT !.account = flow[f].account]
      /\ reloadAsked' = TRUE /\ reauthAsked' = FALSE
      /\ flow' = [flow EXCEPT ![f] = NoFlow]
      /\ UNCHANGED <<registry, state, runtime, writing, controllerVars, seenLive>>
  BY DEF StoreAccount, Is, UpdateAndReload, Becomes
<1>2. flow[f] \in Dialogs /\ entry # NoEntry /\ entry \in Entries
  BY <1>1, EntryFacts DEF Base, TypeOK, DialogInv
<1>3. flow[f].account \in Accounts
  BY <1>2 DEF Dialogs
<1>4. entry' \in Entries /\ entry'.devices = entry.devices
  BY <1>1, <1>2, <1>3 DEF Entries
<1> QED
  BY <1>1, <1>2, <1>4

\* the steps of a dialog that store nothing
Talk(f) ==
    \/ \E a \in Accounts : SubmitConnection(f, a)
    \/ ConfirmReconfigure(f)
    \/ \E a \in Accounts : SubmitCredentials(f, a)
    \/ ReadDevices(f) \/ FormAgain(f) \/ SelectionFormAgain(f)
    \/ Offer(f) \/ OfferAgain(f)
    \/ \E S \in SUBSET Devices : Reselect(f, S)
    \/ AbortConfigured(f) \/ Abandon(f)

LEMMA TalkStoresNothing ==
    ASSUME Base, NEW f \in Flows, Talk(f)
    PROVE  UNCHANGED lifecycleVars /\ seenLive' \in [Flows -> BOOLEAN]
<1> USE DEF Talk
<1>1. UNCHANGED lifecycleVars
  BY DEF SubmitConnection, ConfirmReconfigure, SubmitCredentials, ReadDevices, FormAgain,
     SelectionFormAgain, Offer, OfferAgain, Reselect, AbortConfigured, Abandon
<1>2. CASE SelectionFormAgain(f)
  <2>1. seenLive' = [seenLive EXCEPT ![f] = FALSE]
    BY <1>2 DEF SelectionFormAgain, Unseen
  <2> QED
    BY <1>1, <2>1 DEF Base, TypeOK
<1>4. CASE OfferAgain(f)
  <2>1. seenLive' = [seenLive EXCEPT ![f] = FALSE]
    BY <1>4 DEF OfferAgain, Unseen
  <2> QED
    BY <1>1, <2>1 DEF Base, TypeOK
<1>5. CASE \E S \in SUBSET Devices : Reselect(f, S)
  <2>1. PICK S \in SUBSET Devices : Reselect(f, S)
    BY <1>5
  <2>2. seenLive' = [seenLive EXCEPT ![f] = S \subseteq compatible]
    BY <2>1 DEF Reselect
  <2> QED
    BY <1>1, <2>2 DEF Base, TypeOK
<1>6. CASE ~(\/ SelectionFormAgain(f) \/ OfferAgain(f)
             \/ \E S \in SUBSET Devices : Reselect(f, S))
  <2>1. seenLive' = seenLive
    BY <1>6 DEF SubmitConnection, ConfirmReconfigure, SubmitCredentials, ReadDevices,
       FormAgain, Offer, AbortConfigured, Abandon
  <2> QED
    BY <1>1, <2>1 DEF Base, TypeOK
<1> QED
  BY <1>1, <1>2, <1>4, <1>5, <1>6

LEMMA FlowBase ==
    ASSUME Base, NEW f \in Flows, FlowStep(f)
    PROVE  Base'
<1> USE DEF Base
<1>1. PICK d \in Dialogs \cup {NoFlow} :
              /\ flow' = [flow EXCEPT ![f] = d]
              /\ d # NoFlow =>
                    /\ d.kind = "user" /\ d.step = "devices" => d.pending \in Accounts
                    /\ d.kind # "user" => entry # NoEntry
  BY StepFacts
<1>2. flow' \in [Flows -> Dialogs \cup {NoFlow}]
  BY <1>1 DEF TypeOK
<1>3. \/ Talk(f)
      \/ \E S \in SUBSET Devices, o \in Options : CreateEntry(f, S, o)
      \/ StoreDevices(f) \/ StoreAccount(f)
  BY DEF FlowStep, Talk
<1>4. (entry # NoEntry => entry' # NoEntry) => DialogInv'
  BY <1>1 DEF DialogInv, TypeOK
<1>5. CASE Talk(f)
  BY <1>2, <1>4, <1>5, TalkStoresNothing DEF TypeOK, PresenceInv, lifecycleVars, storeVars,
     setupVars, controllerVars
<1>6. CASE \E S \in SUBSET Devices, o \in Options : CreateEntry(f, S, o)
  <2>1. PICK S \in SUBSET Devices, o \in Options : CreateEntry(f, S, o)
    BY <1>6
  <2>2. /\ entry' \in Entries /\ entry' # NoEntry
        /\ state' \in States /\ state' = "refreshing" /\ runtime' \in Runtimes
        /\ UNCHANGED <<reloadAsked, registry, reauthAsked, writing, controllerVars, seenLive>>
    BY <2>1, CreateFacts, SentinelsFresh
  <2>3. TypeOK'
    BY <1>2, <2>2 DEF TypeOK, controllerVars
  <2>4. PresenceInv'
    BY <2>2 DEF PresenceInv
  <2> QED
    BY <1>4, <2>2, <2>3, <2>4
<1>7. CASE StoreDevices(f)
  <2>1. seenLive' \in [Flows -> BOOLEAN]
    BY <1>7, StoreDevicesFacts DEF TypeOK
  <2> QED
    BY <1>2, <1>4, <1>7, <2>1, StoreDevicesFacts, SentinelsFresh
       DEF TypeOK, PresenceInv, setupVars, controllerVars
<1>8. CASE StoreAccount(f)
  BY <1>2, <1>4, <1>8, StoreAccountFacts, SentinelsFresh
     DEF TypeOK, PresenceInv, controllerVars
<1> QED
  BY <1>3, <1>5, <1>6, <1>7, <1>8

LEMMA ControllerBase ==
    ASSUME Base,
           (\E S \in SUBSET Devices : DevicesChange(S)) \/ \E a \in Accounts : AccountChanges(a)
    PROVE  Base'
<1> USE DEF Base, storeVars, setupVars, controllerVars, flowVars
<1>1. CASE \E S \in SUBSET Devices : DevicesChange(S)
  <2>1. PICK S \in SUBSET Devices : DevicesChange(S)
    BY <1>1
  <2>2. seenLive' \in [Flows -> BOOLEAN]
    BY <2>1 DEF DevicesChange, Readies, TypeOK
  <2>3. changes' \in 0..MaxChanges
    BY <2>1, BoundIsNatural DEF DevicesChange, TypeOK
  <2> QED
    BY <2>1, <2>2, <2>3 DEF DevicesChange, TypeOK, PresenceInv, DialogInv
<1>2. CASE \E a \in Accounts : AccountChanges(a)
  <2>1. PICK a \in Accounts : AccountChanges(a)
    BY <1>2
  <2>2. changes' \in 0..MaxChanges
    BY <2>1, BoundIsNatural DEF AccountChanges, TypeOK
  <2> QED
    BY <2>1, <2>2 DEF AccountChanges, TypeOK, PresenceInv, DialogInv
<1> QED
  BY <1>1, <1>2

LEMMA NextBase ==
    ASSUME Base, [Next]_vars
    PROVE  Base'
<1>1. CASE UNCHANGED vars
  BY <1>1 DEF Base, TypeOK, PresenceInv, DialogInv, vars, lifecycleVars, storeVars,
     setupVars, controllerVars, flowVars
<1>2. CASE Next
  BY <1>2, LifecycleBase, FlowBase, ControllerBase DEF Next
<1> QED
  BY <1>1, <1>2

LEMMA BaseAlways == Spec => []Base
BY InitBase, NextBase, PTL DEF Spec

\* Every variable keeps its type, and with it every value that is stored, in each
\* interleaving of setup, reload, dialogs and writers.
THEOREM TypeCorrect == Spec => []TypeOK
<1>1. Base => TypeOK
  BY DEF Base
<1> QED
  BY <1>1, BaseAlways, PTL

-----------------------------------------------------------------------------
(* What was set up from the stored entry.                                   *)

LEMMA SetupStepKeepsSetup ==
    ASSUME Base, SetupInv, SetupStep
    PROVE  SetupInv'
<1> USE DEF storeVars, setupVars, SetupInv
<1>1. CASE Retry \/ ReloadFailed \/ Unloaded
  BY <1>1 DEF Retry, ReloadFailed, Unloaded, Build
<1>2. CASE FirstRefresh \/ FirstRefreshRejected \/ FirstRefreshFails
  BY <1>2 DEF FirstRefresh, FirstRefreshRejected, FirstRefreshFails
<1>3. CASE AddEntities
  <2>1. /\ state = "adding" /\ state' = "reconciling"
        /\ runtime' = [runtime EXCEPT !.entities = entry.devices]
        /\ registry' = registry \cup entry.devices
        /\ entry' = entry /\ reloadAsked' = reloadAsked
    BY <1>3 DEF AddEntities
  <2>2. runtime \in Runtimes
    BY <2>1, EntryFacts
  <2>3. runtime'.account = runtime.account /\ runtime'.entities = entry.devices
    BY <2>1, <2>2 DEF Runtimes
  <2> QED
    BY <2>1, <2>3
<1>4. CASE Reconcile
  BY <1>4 DEF Reconcile, Expected
<1>5. CASE ReloadLoaded \/ PollRejected
  BY <1>5 DEF ReloadLoaded, PollRejected
<1> QED
  BY <1>1, <1>2, <1>3, <1>4, <1>5 DEF SetupStep

LEMMA SetupStepInv ==
    ASSUME Base, SetupInv, [Next]_vars
    PROVE  SetupInv'
<1> USE DEF storeVars, setupVars, controllerVars
<1>1. CASE UNCHANGED vars
  BY <1>1 DEF vars, lifecycleVars, SetupInv
<1>2. CASE LifecycleNext
  <2>1. CASE SetupStep
    BY <2>1, SetupStepKeepsSetup
  <2>2. ASSUME NEW o \in Options, SetOptions(o) PROVE SetupInv'
    BY <2>2, OptionFacts DEF SetupInv
  <2>3. ASSUME NEW w \in Writers, BeginWrite(w) \/ EndWrite(w) PROVE SetupInv'
    BY <2>3, WriteFacts DEF SetupInv
  <2> QED
    BY <1>2, <2>1, <2>2, <2>3 DEF LifecycleNext, SetupStep
<1>3. ASSUME NEW f \in Flows, FlowStep(f) PROVE SetupInv'
  <2>1. CASE Talk(f)
    BY <2>1, TalkStoresNothing DEF lifecycleVars, SetupInv
  <2>2. ASSUME NEW S \in SUBSET Devices, NEW o \in Options, CreateEntry(f, S, o) PROVE SetupInv'
    BY <2>2, CreateFacts DEF SetupInv
  <2>3. CASE StoreDevices(f)
    BY <2>3, StoreDevicesFacts DEF SetupInv
  <2>4. CASE StoreAccount(f)
    BY <2>4, StoreAccountFacts DEF SetupInv
  <2> QED
    BY <1>3, <2>1, <2>2, <2>3, <2>4 DEF FlowStep, Talk
<1>4. ASSUME NEW S \in SUBSET Devices, DevicesChange(S) PROVE SetupInv'
  BY <1>4 DEF DevicesChange, SetupInv
<1>5. ASSUME NEW a \in Accounts, AccountChanges(a) PROVE SetupInv'
  BY <1>5 DEF AccountChanges, SetupInv
<1> QED
  BY <1>1, <1>2, <1>3, <1>4, <1>5 DEF Next

\* A loaded entry with no reload waiting runs on what is stored: whatever a dialog or
\* the options flow stores during setup, unload or retry, the runtime that ends up
\* loaded was built from it, or a reload waits that will build another one.
THEOREM ReloadsCatchUp == Spec => []RuntimeCatchesUp
<1>1. Init => SetupInv
  BY DEF Init, LifecycleInit, SetupInv
<1>2. SetupInv => RuntimeCatchesUp
  BY DEF SetupInv, RuntimeCatchesUp
<1> QED
  BY <1>1, <1>2, BaseAlways, SetupStepInv, PTL DEF Spec

-----------------------------------------------------------------------------
(* What a selection was validated against.                                  *)

\* SelectionInv of one dialog
Selected(f) ==
    flow[f] # NoFlow /\ flow[f].selected # {} =>
        /\ flow[f].step = "reading" /\ flow[f].selected \subseteq compatible => seenLive[f]
        /\ flow[f].step = "closing" /\ flow[f].selected \subseteq flow[f].live => seenLive[f]

\* A dialog that holds no selection has nothing to show for it.
LEMMA UnselectedFacts ==
    ASSUME Base, NEW f \in Flows, NEW d, flow' = [flow EXCEPT ![f] = d],
           d = NoFlow \/ d.selected = {}
    PROVE  Selected(f)'
BY DEF Base, TypeOK, Selected

LEMMA TalkKeepsSelected ==
    ASSUME Base, NEW f \in Flows, Selected(f), Talk(f)
    PROVE  Selected(f)'
<1> USE DEF Becomes
<1>0. /\ flow \in [Flows -> Dialogs \cup {NoFlow}] /\ seenLive \in [Flows -> BOOLEAN]
      /\ compatible' = compatible
  BY TalkStoresNothing DEF Base, TypeOK, lifecycleVars, controllerVars
<1>1. CASE \E a \in Accounts : SubmitConnection(f, a)
  BY <1>1, UnselectedFacts DEF SubmitConnection, Validating
<1>2. CASE ConfirmReconfigure(f)
  BY <1>2, UnselectedFacts DEF ConfirmReconfigure, Validating
<1>3. CASE \E a \in Accounts : SubmitCredentials(f, a)
  <2>1. PICK a \in Accounts : SubmitCredentials(f, a)
    BY <1>3
  <2>2. flow' = [flow EXCEPT ![f] = Validating("reauth", a)]
    BY <2>1 DEF SubmitCredentials
  <2> QED
    BY <2>2, UnselectedFacts DEF Validating
<1>4. CASE ReadDevices(f)
  <2>1. /\ flow[f] \in Dialogs /\ flow[f] # NoFlow /\ flow[f].step = "reading"
        /\ Readable(flow[f].account) = compatible
        /\ flow' = [flow EXCEPT ![f] =
               [flow[f] EXCEPT !.step = "closing", !.live = compatible]]
        /\ seenLive' = seenLive
    BY <1>0, <1>4 DEF ReadDevices, Readable
  <2>2. /\ flow'[f].selected = flow[f].selected /\ flow'[f].step = "closing"
        /\ flow'[f].live = compatible
    BY <1>0, <2>1 DEF Dialogs
  <2> QED
    BY <2>1, <2>2 DEF Selected
<1>5. CASE FormAgain(f) \/ AbortConfigured(f) \/ Abandon(f)
  BY <1>5, UnselectedFacts DEF FormAgain, AbortConfigured, Abandon
<1>6. CASE SelectionFormAgain(f)
  <2>1. flow[f] \in Dialogs
    BY <1>0, <1>6 DEF SelectionFormAgain, Is
  <2>2. flow' = [flow EXCEPT ![f] = [flow[f] EXCEPT !.step = "devices", !.selected = {}]]
    BY <1>6 DEF SelectionFormAgain
  <2>3. [flow[f] EXCEPT !.step = "devices", !.selected = {}].selected = {}
    BY <2>1 DEF Dialogs
  <2> QED
    BY <2>2, <2>3, UnselectedFacts
<1>7. CASE Offer(f)
  <2> DEFINE d == [flow[f] EXCEPT !.step = "devices", !.pending = Captured(f),
                                  !.offered = flow[f].live, !.live = {}]
  <2>1. flow[f] \in Dialogs /\ flow[f].selected = {} /\ flow' = [flow EXCEPT ![f] = d]
    BY <1>0, <1>7 DEF Offer, Is
  <2>2. d.selected = {}
    BY <2>1 DEF Dialogs
  <2> HIDE DEF d
  <2> QED
    BY <2>1, <2>2, UnselectedFacts
<1>8. CASE OfferAgain(f)
  <2> DEFINE d == [flow[f] EXCEPT !.step = "devices", !.offered = flow[f].live,
                                  !.selected = {}, !.live = {}]
  <2>1. flow[f] \in Dialogs /\ flow' = [flow EXCEPT ![f] = d]
    BY <1>0, <1>8 DEF OfferAgain, Is
  <2>2. d.selected = {}
    BY <2>1 DEF Dialogs
  <2> HIDE DEF d
  <2> QED
    BY <2>1, <2>2, UnselectedFacts
<1>9. CASE \E S \in SUBSET Devices : Reselect(f, S)
  <2>1. PICK S \in SUBSET Devices : Reselect(f, S)
    BY <1>9
  <2>2. /\ flow[f] \in Dialogs
        /\ flow' = [flow EXCEPT ![f] = [flow[f] EXCEPT
               !.step = "reading", !.selected = S, !.account = entry.account]]
        /\ seenLive' = [seenLive EXCEPT ![f] = S \subseteq compatible]
    BY <1>0, <2>1 DEF Reselect, Is
  <2>3. flow'[f].selected = S /\ flow'[f].step = "reading"
    BY <1>0, <2>2 DEF Dialogs
  <2>4. S \subseteq compatible => seenLive'[f]
    BY <1>0, <2>2
  <2> QED
    BY <1>0, <2>3, <2>4 DEF Selected
<1> QED
  BY <1>1, <1>2, <1>3, <1>4, <1>5, <1>6, <1>7, <1>8, <1>9 DEF Talk

\* A dialog's step leaves the others as they are.
LEMMA OthersUntouched ==
    ASSUME Base, NEW f \in Flows, FlowStep(f), NEW g \in Flows, g # f
    PROVE  flow'[g] = flow[g] /\ seenLive'[g] = seenLive[g] /\ compatible' = compatible
<1>1. PICK d \in Dialogs \cup {NoFlow} : flow' = [flow EXCEPT ![f] = d]
  BY StepFacts
<1>2. CASE Talk(f)
  <2>1. compatible' = compatible
    BY <1>2, TalkStoresNothing DEF lifecycleVars, controllerVars
  <2>2. ASSUME SelectionFormAgain(f) \/ OfferAgain(f) PROVE seenLive'[g] = seenLive[g]
    <3>1. seenLive' = [seenLive EXCEPT ![f] = FALSE]
      BY <2>2 DEF SelectionFormAgain, OfferAgain, Unseen
    <3> QED
      BY <3>1 DEF Base, TypeOK
  <2>3. ASSUME \E S \in SUBSET Devices : Reselect(f, S) PROVE seenLive'[g] = seenLive[g]
    <3>1. PICK S \in SUBSET Devices : Reselect(f, S)
      BY <2>3
    <3>2. seenLive' = [seenLive EXCEPT ![f] = S \subseteq compatible]
      BY <3>1 DEF Reselect
    <3> QED
      BY <3>2 DEF Base, TypeOK
  <2>4. ASSUME ~(\/ SelectionFormAgain(f) \/ OfferAgain(f)
                 \/ \E S \in SUBSET Devices : Reselect(f, S))
        PROVE  seenLive' = seenLive
    BY <1>2, <2>4 DEF Talk, SubmitConnection, ConfirmReconfigure, SubmitCredentials,
       ReadDevices, FormAgain, Offer, AbortConfigured, Abandon
  <2>5. seenLive'[g] = seenLive[g]
    BY <2>2, <2>3, <2>4
  <2> QED
    BY <1>1, <2>1, <2>5 DEF Base, TypeOK
<1>3. CASE \E S \in SUBSET Devices, o \in Options : CreateEntry(f, S, o)
  BY <1>1, <1>3, CreateFacts DEF Base, TypeOK, controllerVars
<1>4. CASE StoreDevices(f)
  BY <1>1, <1>4, StoreDevicesFacts DEF Base, TypeOK, controllerVars
<1>5. CASE StoreAccount(f)
  BY <1>1, <1>5, StoreAccountFacts DEF Base, TypeOK, controllerVars
<1> QED
  BY <1>2, <1>3, <1>4, <1>5 DEF FlowStep, Talk

LEMMA FlowKeepsSelection ==
    ASSUME Base, SelectionInv, NEW f \in Flows, FlowStep(f)
    PROVE  SelectionInv'
<1>1. \A g \in Flows : Selected(g)
  BY DEF SelectionInv, Selected
<1>2. ASSUME NEW g \in Flows, g # f PROVE Selected(g)'
  BY <1>1, <1>2, OthersUntouched DEF Selected
<1>3. Selected(f)'
  <2>1. CASE Talk(f)
    BY <1>1, <2>1, TalkKeepsSelected
  <2>2. CASE \/ (\E S \in SUBSET Devices, o \in Options : CreateEntry(f, S, o))
             \/ StoreDevices(f) \/ StoreAccount(f)
    <3>1. flow' = [flow EXCEPT ![f] = NoFlow]
      BY <2>2 DEF CreateEntry, StoreDevices, StoreAccount, Becomes
    <3> QED
      BY <3>1, UnselectedFacts
  <2> QED
    BY <2>1, <2>2 DEF FlowStep, Talk
<1> QED
  BY <1>2, <1>3 DEF SelectionInv, Selected

LEMMA SelectionStep ==
    ASSUME Base, SelectionInv, [Next]_vars
    PROVE  SelectionInv'
<1>1. CASE UNCHANGED vars
  BY <1>1 DEF vars, lifecycleVars, controllerVars, flowVars, SelectionInv
<1>2. CASE LifecycleNext /\ UNCHANGED flowVars
  <2>1. UNCHANGED compatible
    BY <1>2, SetupFacts, OptionFacts, WriteFacts DEF LifecycleNext, SetupStep, controllerVars
  <2> QED
    BY <1>2, <2>1 DEF flowVars, SelectionInv
<1>3. ASSUME NEW f \in Flows, FlowStep(f) PROVE SelectionInv'
  BY <1>3, FlowKeepsSelection
<1>4. ASSUME NEW S \in SUBSET Devices, DevicesChange(S) PROVE SelectionInv'
  <2>1. compatible' = S /\ flow' = flow
    BY <1>4 DEF DevicesChange
  <2>2. ASSUME NEW f \in Flows, seenLive[f] PROVE seenLive'[f]
    BY <1>4, <2>2 DEF DevicesChange, Readies
  <2>3. ASSUME NEW f \in Flows, flow[f] # NoFlow, flow[f].selected # {},
               flow[f].selected \subseteq S
        PROVE  seenLive'[f]
    BY <1>4, <2>3 DEF DevicesChange, Readies
  <2> QED
    BY <2>1, <2>2, <2>3 DEF SelectionInv
<1>5. ASSUME NEW a \in Accounts, AccountChanges(a) PROVE SelectionInv'
  BY <1>5 DEF AccountChanges, flowVars, SelectionInv
<1> QED
  BY <1>1, <1>2, <1>3, <1>4, <1>5 DEF Next

LEMMA SelectionAlways == Spec => []SelectionInv
<1>1. Init => SelectionInv
  BY DEF Init, SelectionInv
<1> QED
  BY <1>1, BaseAlways, SelectionStep, PTL DEF Spec

-----------------------------------------------------------------------------
(* What a step may do to the stored entry and to the registered controls.   *)

\* A step that replaces a stored entry sets one of its fields; only a reconfiguration
\* sets the devices.
LEMMA EditFacts ==
    ASSUME Base, [Next]_vars, entry # NoEntry, entry' # entry
    PROVE  \/ \E o \in Options : entry' = [entry EXCEPT !.option = o]
           \/ \E f \in Flows : StoreAccount(f)
           \/ \E f \in Flows : StoreDevices(f)
<1> USE DEF storeVars
<1>1. CASE LifecycleNext
  BY <1>1, SetupFacts, OptionFacts, WriteFacts DEF LifecycleNext, SetupStep
<1>2. ASSUME NEW f \in Flows, FlowStep(f)
      PROVE  StoreAccount(f) \/ StoreDevices(f)
  <2>1. ~ Talk(f)
    BY TalkStoresNothing DEF lifecycleVars
  <2>2. ~ \E S \in SUBSET Devices, o \in Options : CreateEntry(f, S, o)
    BY CreateFacts
  <2> QED
    BY <1>2, <2>1, <2>2 DEF FlowStep, Talk
<1>3. ~ ((\E S \in SUBSET Devices : DevicesChange(S)) \/ \E a \in Accounts : AccountChanges(a))
  BY DEF DevicesChange, AccountChanges
<1> QED
  BY <1>1, <1>2, <1>3 DEF Next, vars, lifecycleVars

\* An edit of the stored entry changes one field of what is stored now: no dialog
\* writes back the other fields as it read them.
THEOREM EditsAreLocal == Spec => EditsKeepOtherFields
<1>1. ASSUME Base, [Next]_vars, entry # NoEntry, entry' # entry
      PROVE  \/ entry' = [entry EXCEPT !.devices = entry'.devices]
             \/ entry' = [entry EXCEPT !.account = entry'.account]
             \/ entry' = [entry EXCEPT !.option = entry'.option]
  <2>1. entry \in Entries
    BY <1>1, EntryFacts
  <2>2. CASE \E o \in Options : entry' = [entry EXCEPT !.option = o]
    BY <2>1, <2>2 DEF Entries
  <2>3. ASSUME NEW f \in Flows, StoreAccount(f)
        PROVE  entry' = [entry EXCEPT !.account = entry'.account]
    BY <1>1, <2>1, <2>3, StoreAccountFacts DEF Entries
  <2>4. ASSUME NEW f \in Flows, StoreDevices(f)
        PROVE  entry' = [entry EXCEPT !.devices = entry'.devices]
    BY <1>1, <2>1, <2>4, StoreDevicesFacts DEF Entries
  <2> QED
    BY <1>1, <2>2, <2>3, <2>4, EditFacts
<1> QED
  BY <1>1, BaseAlways, PTL DEF Spec, EditsKeepOtherFields

\* Reconfigure stores a selection only when all of it was readable at one instant after
\* it was submitted, whatever the controller and the other dialogs did meanwhile.
THEOREM StoredSelectionsWereReadable == Spec => StoredDevicesWereLive
<1>1. ASSUME Base, SelectionInv, [Next]_vars, entry # NoEntry,
             entry'.devices # entry.devices
      PROVE  \E f \in Flows : flow[f] # NoFlow /\ flow'[f] = NoFlow /\ seenLive[f]
  <2>1. entry \in Entries
    BY <1>1, EntryFacts
  <2>2. ~ \E o \in Options : entry' = [entry EXCEPT !.option = o]
    BY <1>1, <2>1 DEF Entries
  <2>3. ~ \E f \in Flows : StoreAccount(f)
    BY <1>1, StoreAccountFacts
  <2>4. PICK f \in Flows : StoreDevices(f)
    BY <1>1, <2>2, <2>3, EditFacts
  <2>5. seenLive[f]
    BY <1>1, <2>4, StoreDevicesFacts DEF SelectionInv
  <2>6. flow[f] # NoFlow /\ flow'[f] = NoFlow
    BY <1>1, <2>4, StoreDevicesFacts DEF Base, TypeOK
  <2> QED
    BY <2>5, <2>6
<1> QED
  BY <1>1, BaseAlways, SelectionAlways, PTL DEF Spec, StoredDevicesWereLive

\* No step takes a registered control from a device that is configured as it runs: the
\* cleanup at the end of a setup goes by the stored entry, not by what was read.
THEOREM ConfiguredControlsStay == Spec => ControlsKept
<1>1. ASSUME Base, [Next]_vars, entry # NoEntry
      PROVE  registry \cap entry.devices \subseteq registry'
  <2> USE <1>1 DEF storeVars, setupVars, controllerVars
  <2>1. CASE UNCHANGED vars
    BY <2>1 DEF vars, lifecycleVars
  <2>2. CASE LifecycleNext
    BY <2>2 DEF LifecycleNext, Retry, FirstRefresh, FirstRefreshRejected, FirstRefreshFails,
       AddEntities, Reconcile, Expected, ReloadLoaded, ReloadFailed, Unloaded, PollRejected,
       BeginWrite, EndWrite, SetOptions
  <2>3. ASSUME NEW f \in Flows, FlowStep(f) PROVE registry' = registry
    BY <2>3, TalkStoresNothing, CreateFacts, StoreDevicesFacts, StoreAccountFacts
       DEF FlowStep, Talk, lifecycleVars
  <2>4. CASE \/ \E S \in SUBSET Devices : DevicesChange(S)
             \/ \E a \in Accounts : AccountChanges(a)
    BY <2>4 DEF DevicesChange, AccountChanges
  <2> QED
    BY <2>1, <2>2, <2>3, <2>4 DEF Next
<1> QED
  BY <1>1, BaseAlways, PTL DEF Spec, ControlsKept
=============================================================================
