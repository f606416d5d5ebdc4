--------------------------- MODULE EntryLifecycle ---------------------------
(***************************************************************************)
(* One config entry over its life (__init__.py): setup builds a runtime    *)
(* from the stored entry, reads the controller, adds the platforms and     *)
(* reconciles the entity registry; an update of the entry unloads that     *)
(* runtime and builds another one.  Home Assistant runs setups and unloads *)
(* of an entry one after the other; everything else goes on meanwhile: the *)
(* user edits the entry, the controller changes, and calls of the services *)
(* of a runtime outlive it.                                                *)
(***************************************************************************)
EXTENDS Naturals, FiniteSets

CONSTANTS
    Devices,     \* switches of the controller
    Accounts,    \* user names with their passwords
    Options,     \* what the options flow sets: TLS verification, poll interval
    Writers,     \* coroutines of entities that write
    NoEntry,     \* nothing is configured
    NoRuntime,   \* runtime_data of an entry that was never set up or is unloaded
    MaxChanges   \* bound: changes of the controller in a behaviour

Entries == [devices : (SUBSET Devices) \ {{}}, account : Accounts, option : Options]
\* what the runtime took from the entry: the account of its session and the devices
\* its platforms added controls for
Runtimes == [account : Accounts, entities : SUBSET Devices]
\* of the loaded runtime, or of one that is gone
Writes == {"none", "current", "old"}

ASSUME SentinelsFresh ==
    /\ NoEntry \notin Entries
    /\ NoRuntime \notin Runtimes
ASSUME BoundIsNatural == MaxChanges \in Nat

VARIABLES
    \* Home Assistant's store: the entry, whether a reload waits for its turn, the
    \* devices that have registered controls
    entry, reloadAsked, registry,
    \* where the entry's setup stands, entry.runtime_data, whether a
    \* reauthentication was asked for
    state, runtime, reauthAsked,
    \* the read-modify-write each writer is in, and whether its runtime is gone
    writing,
    \* the controller: the devices that meet the read contract, the account it
    \* accepts, how often either changed
    compatible, accepted, changes

storeVars == <<entry, reloadAsked, registry>>
setupVars == <<state, runtime, reauthAsked>>
controllerVars == <<compatible, accepted, changes>>
lifecycleVars == <<storeVars, setupVars, writing, controllerVars>>

States == {"absent", "refreshing", "adding", "reconciling", "loaded", "unloading",
           "retry", "error"}

LifecycleInit ==
    /\ entry = NoEntry /\ reloadAsked = FALSE /\ registry = {}
    /\ state = "absent" /\ runtime = NoRuntime /\ reauthAsked = FALSE
    /\ writing = [w \in Writers |-> "none"]
    /\ compatible \in SUBSET Devices
    /\ accepted \in Accounts
    /\ changes = 0

(***************************************************************************)
(* Setup: async_setup_entry.                                               *)
(***************************************************************************)

\* session, services, coordinator and a new write lock are built from the entry
Build(e) ==
    /\ state' = "refreshing"
    /\ runtime' = [account |-> e.account, entities |-> {}]

\* the retry timer of ConfigEntryNotReady
Retry ==
    /\ state = "retry"
    /\ Build(entry)
    /\ UNCHANGED <<storeVars, reauthAsked, writing, controllerVars>>

\* async_config_entry_first_refresh succeeds
FirstRefresh ==
    /\ state = "refreshing"
    /\ runtime.account = accepted
    /\ state' = "adding"
    /\ UNCHANGED <<storeVars, runtime, reauthAsked, writing, controllerVars>>

\* ConfigEntryAuthFailed: no retry, the user is asked for credentials
FirstRefreshRejected ==
    /\ state = "refreshing"
    /\ runtime.account # accepted
    /\ state' = "error"
    /\ reauthAsked' = TRUE
    /\ UNCHANGED <<storeVars, runtime, writing, controllerVars>>

\* ConfigEntryNotReady
FirstRefreshFails ==
    /\ state = "refreshing"
    /\ state' = "retry"
    /\ UNCHANGED <<storeVars, runtime, reauthAsked, writing, controllerVars>>

\* the platforms add the controls of configured_device_ids(entry)
AddEntities ==
    /\ state = "adding"
    /\ state' = "reconciling"
    /\ runtime' = [runtime EXCEPT !.entities = entry.devices]
    /\ registry' = registry \cup entry.devices
    /\ UNCHANGED <<entry, reloadAsked, reauthAsked, writing, controllerVars>>

\* mutant of Expected: only switches the controller returns keep their controls
ExpectedCompatible == entry.devices \cap compatible
\* _remove_stale_controls keeps the controls of every configured device
Expected == entry.devices

\* stale controls go, the update listener is registered, the entry is loaded
Reconcile ==
    /\ state = "reconciling"
    /\ registry' = registry \cap Expected
    /\ state' = "loaded"
    /\ UNCHANGED <<entry, reloadAsked, runtime, reauthAsked, writing, controllerVars>>

(***************************************************************************)
(* Reload: async_unload_entry, then setup.                                 *)
(***************************************************************************)

\* calls of the services outlive their runtime
Outlive == [w \in Writers |-> IF writing[w] = "none" THEN "none" ELSE "old"]

\* a waiting reload gets its turn and unloads the platforms
ReloadLoaded ==
    /\ reloadAsked
    /\ state = "loaded"
    /\ reloadAsked' = FALSE
    /\ state' = "unloading"
    /\ UNCHANGED <<entry, registry, runtime, reauthAsked, writing, controllerVars>>

\* a reload of an entry that is not loaded is a setup
ReloadFailed ==
    /\ reloadAsked
    /\ state \in {"retry", "error"}
    /\ reloadAsked' = FALSE
    /\ Build(entry)
    /\ UNCHANGED <<entry, registry, reauthAsked, writing, controllerVars>>

\* platforms are unloaded and the session is logged out, successfully or not; the
\* listeners are gone and the setup begins
Unloaded ==
    /\ state = "unloading"
    /\ Build(entry)
    /\ writing' = Outlive
    /\ UNCHANGED <<storeVars, reauthAsked, controllerVars>>

(***************************************************************************)
(* The loaded entry.                                                       *)
(***************************************************************************)

\* a poll is rejected: ConfigEntryAuthFailed asks for credentials
PollRejected ==
    /\ state = "loaded"
    /\ runtime.account # accepted
    /\ reauthAsked' = TRUE
    /\ UNCHANGED <<storeVars, state, runtime, writing, controllerVars>>

\* mutant of LockFree: one lock for the entry, which the next runtime inherits
LockFreeOfEntry == \A w \in Writers : writing[w] = "none"
\* the runtime's own lock; writes of older runtimes hold other locks
LockFree == \A w \in Writers : writing[w] # "current"

\* a control of the loaded runtime begins its read-modify-write
BeginWrite(w) ==
    /\ state = "loaded"
    /\ runtime.entities # {}
    /\ writing[w] = "none"
    /\ LockFree
    /\ writing' = [writing EXCEPT ![w] = "current"]
    /\ UNCHANGED <<storeVars, setupVars, controllerVars>>

\* its outcome is settled
EndWrite(w) ==
    /\ writing[w] # "none"
    /\ writing' = [writing EXCEPT ![w] = "none"]
    /\ UNCHANGED <<storeVars, setupVars, controllerVars>>

(***************************************************************************)
(* Updates of the stored entry.                                            *)
(***************************************************************************)

\* mutant of UpdateAndReload: the update is stored and the flow ends without a reload
UpdateOnly(e) ==
    /\ entry' = e
    /\ UNCHANGED reloadAsked
\* async_update_reload_and_abort stores the entry and schedules a reload
UpdateAndReload(e) ==
    /\ entry' = e
    /\ reloadAsked' = TRUE

\* the update listener reloads; it is registered at the end of setup only
ListenerFires == state \in {"loaded", "unloading"}

\* the options flow stores new options
SetOptions(o) ==
    /\ entry # NoEntry
    /\ entry.option # o
    /\ entry' = [entry EXCEPT !.option = o]
    /\ reloadAsked' = (reloadAsked \/ ListenerFires)
    /\ UNCHANGED <<registry, setupVars, writing, controllerVars>>

LifecycleNext ==
    \/ Retry \/ FirstRefresh \/ FirstRefreshRejected \/ FirstRefreshFails
    \/ AddEntities \/ Reconcile
    \/ ReloadLoaded \/ ReloadFailed \/ Unloaded
    \/ PollRejected
    \/ \E w \in Writers : BeginWrite(w) \/ EndWrite(w)
    \/ \E o \in Options : SetOptions(o)
=============================================================================
