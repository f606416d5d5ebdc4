----------------------------- MODULE ConfigFlows -----------------------------
(***************************************************************************)
(* The config, reconfigure and reauthentication flows (config_flow.py) over*)
(* the life of one entry.  A flow is a conversation of several steps: it   *)
(* reads the entry, validates against the live controller, waits for the   *)
(* user, and finally stores; the entry, the controller and the other flows *)
(* move on in between.  A form shown for the first time or again after an  *)
(* error holds nothing, so such a flow is NoFlow.                          *)
(***************************************************************************)
EXTENDS EntryLifecycle

CONSTANTS
    UserFlows,     \* dialogs the user may have open at a time
    ReauthFlows,   \* dialogs in which Home Assistant asks for credentials
    NoFlow         \* a dialog that shows an empty first form

Flows == UserFlows \cup ReauthFlows

VARIABLES
    flow,     \* what each dialog holds
    seenLive  \* history: the selection submitted by a dialog has been all readable
              \* at some instant since

flowVars == <<flow, seenLive>>
vars == <<lifecycleVars, flowVars>>

Kinds == {"user", "reconfigure", "reauth"}
\* reading: login and reads; closing: the logout of the validation session;
\* devices: the form of the device selection
Steps == {"reading", "closing", "devices"}

\* account: what is validated; pending: the account in _pending_data, which is what the
\* user entered or the entry's data as a reconfiguration found it, and whose devices
\* the selection replaces (the options are no part of it); offered:
\* _compatible_devices; live: what the last validation read, {} once it was used
Dialogs == [kind : Kinds, step : Steps, account : Accounts,
            pending : Accounts \cup {NoEntry},
            offered : SUBSET Devices, selected : SUBSET Devices, live : SUBSET Devices]

ASSUME NoFlowFresh == NoFlow \notin Dialogs

Is(f, kind, step) == flow[f] # NoFlow /\ flow[f].kind = kind /\ flow[f].step = step
Becomes(f, dialog) == flow' = [flow EXCEPT ![f] = dialog]
Unseen(f) == seenLive' = [seenLive EXCEPT ![f] = FALSE]

Init ==
    /\ LifecycleInit
    /\ flow = [f \in Flows |-> NoFlow]
    /\ seenLive = [f \in Flows |-> FALSE]

(***************************************************************************)
(* Submissions: each starts _async_validate_connection.                    *)
(***************************************************************************)

Validating(kind, account) ==
    [kind |-> kind, step |-> "reading", account |-> account, pending |-> NoEntry,
     offered |-> {}, selected |-> {}, live |-> {}]

\* async_step_user: the connection form
SubmitConnection(f, a) ==
    /\ f \in UserFlows
    /\ flow[f] = NoFlow
    /\ Becomes(f, Validating("user", a))
    /\ UNCHANGED <<lifecycleVars, seenLive>>

\* async_step_reconfigure: the stored connection is validated
ConfirmReconfigure(f) ==
    /\ f \in UserFlows
    /\ flow[f] = NoFlow
    /\ entry # NoEntry
    /\ Becomes(f, Validating("reconfigure", entry.account))
    /\ UNCHANGED <<lifecycleVars, seenLive>>

\* async_step_reauth_confirm: the stored connection with the submitted account; Home
\* Assistant keeps one such flow per entry
SubmitCredentials(f, a) ==
    /\ f \in ReauthFlows
    /\ flow[f] = NoFlow
    /\ reauthAsked
    /\ \A g \in Flows : flow[g] # NoFlow => flow[g].kind # "reauth"
    /\ Becomes(f, Validating("reauth", a))
    /\ UNCHANGED <<lifecycleVars, seenLive>>

(***************************************************************************)
(* _async_validate_connection.                                             *)
(***************************************************************************)

\* what a validation returns: the readable devices; it raises when there are none
Readable(account) == IF account = accepted THEN compatible ELSE {}

ReadDevices(f) ==
    /\ flow[f] # NoFlow
    /\ flow[f].step = "reading"
    /\ Readable(flow[f].account) # {}
    /\ Becomes(f, [flow[f] EXCEPT !.step = "closing", !.live = Readable(flow[f].account)])
    /\ UNCHANGED <<lifecycleVars, seenLive>>

\* any error of the first validation, a timeout among them: the first form again
FormAgain(f) ==
    /\ flow[f] # NoFlow
    /\ flow[f].step = "reading"
    /\ flow[f].selected = {}
    /\ Becomes(f, NoFlow)
    /\ UNCHANGED <<lifecycleVars, seenLive>>

\* any error of the second one: the same devices are offered again
SelectionFormAgain(f) ==
    /\ Is(f, "reconfigure", "reading")
    /\ flow[f].selected # {}
    /\ Becomes(f, [flow[f] EXCEPT !.step = "devices", !.selected = {}])
    /\ Unseen(f)
    /\ UNCHANGED lifecycleVars

(***************************************************************************)
(* The steps after a validation; the logout has run, successfully or not.  *)
(***************************************************************************)

\* what is pending from then on: the data entered, or those of the entry by now
Captured(f) == IF flow[f].kind = "user" THEN flow[f].account ELSE entry.account

\* async_step_devices offers the devices the validation read
Offer(f) ==
    /\ Is(f, "user", "closing") \/ Is(f, "reconfigure", "closing")
    /\ flow[f].selected = {}
    /\ Becomes(f, [flow[f] EXCEPT
           !.step = "devices", !.pending = Captured(f), !.offered = flow[f].live, !.live = {}])
    /\ UNCHANGED <<lifecycleVars, seenLive>>

\* mutant of Allowed: an empty selection passes
AllowedEmpty(f, S) == S \subseteq flow[f].offered
\* a list, not empty, of devices the form offered
Allowed(f, S) == S # {} /\ S \subseteq flow[f].offered

\* async_step_devices of a reconfiguration: the selection is validated again with
\* the connection now stored
Reselect(f, S) ==
    /\ Is(f, "reconfigure", "devices")
    /\ Allowed(f, S)
    /\ Becomes(f, [flow[f] EXCEPT
           !.step = "reading", !.selected = S, !.account = entry.account])
    /\ seenLive' = [seenLive EXCEPT ![f] = S \subseteq compatible]
    /\ UNCHANGED lifecycleVars

\* async_step_devices of a new connection; o, the TLS verification entered with it,
\* is what the options say as long as nothing is stored there
CreateEntry(f, S, o) ==
    /\ Is(f, "user", "devices")
    /\ Allowed(f, S)
    /\ entry = NoEntry
    /\ entry' = [devices |-> S, account |-> flow[f].pending, option |-> o]
    /\ Build(entry')
    /\ Becomes(f, NoFlow)
    /\ UNCHANGED <<reloadAsked, registry, reauthAsked, writing, controllerVars, seenLive>>

\* _abort_if_unique_id_configured
AbortConfigured(f) ==
    /\ Is(f, "user", "devices")
    /\ entry # NoEntry
    /\ Becomes(f, NoFlow)
    /\ UNCHANGED <<lifecycleVars, seenLive>>

\* the user closes the dialog
Abandon(f) ==
    /\ flow[f] # NoFlow
    /\ flow[f].step = "devices"
    /\ Becomes(f, NoFlow)
    /\ UNCHANGED <<lifecycleVars, seenLive>>

\* mutant of StillReadable: the devices first offered are taken for the live ones
WasOffered(f) == flow[f].selected \subseteq flow[f].offered
\* set(selected) <= live_allowed
StillReadable(f) == flow[f].selected \subseteq flow[f].live

\* the selection is no longer all readable: the devices that are, are offered
OfferAgain(f) ==
    /\ Is(f, "reconfigure", "closing")
    /\ flow[f].selected # {}
    /\ \lnot StillReadable(f)
    /\ Becomes(f, [flow[f] EXCEPT
           !.step = "devices", !.offered = flow[f].live, !.selected = {}, !.live = {}])
    /\ Unseen(f)
    /\ UNCHANGED lifecycleVars

\* mutant of WithDevices: the data captured when the devices were offered are stored
CapturedWithDevices(f) ==
    [entry EXCEPT !.devices = flow[f].selected, !.account = flow[f].pending]
\* data_updates with CONF_DEVICE_IDS
WithDevices(f) == [entry EXCEPT !.devices = flow[f].selected]

StoreDevices(f) ==
    /\ Is(f, "reconfigure", "closing")
    /\ flow[f].selected # {}
    /\ StillReadable(f)
    /\ UpdateAndReload(WithDevices(f))
    /\ Becomes(f, NoFlow)
    /\ Unseen(f)
    /\ UNCHANGED <<registry, setupVars, writing, controllerVars>>

\* data_updates with CONF_USERNAME and CONF_PASSWORD
StoreAccount(f) ==
    /\ Is(f, "reauth", "closing")
    /\ UpdateAndReload([entry EXCEPT !.account = flow[f].account])
    /\ reauthAsked' = FALSE
    /\ Becomes(f, NoFlow)
    /\ UNCHANGED <<registry, state, runtime, writing, controllerVars, seenLive>>

(***************************************************************************)
(* The controller (external).                                              *)
(***************************************************************************)

Readies(S) == seenLive' =
    [f \in Flows |-> seenLive[f] \/ /\ flow[f] # NoFlow
                                    /\ flow[f].selected # {}
                                    /\ flow[f].selected \subseteq S]

DevicesChange(S) ==
    /\ changes < MaxChanges
    /\ S # compatible
    /\ compatible' = S
    /\ changes' = changes + 1
    /\ Readies(S)
    /\ UNCHANGED <<storeVars, setupVars, writing, accepted, flow>>

AccountChanges(a) ==
    /\ changes < MaxChanges
    /\ a # accepted
    /\ accepted' = a
    /\ changes' = changes + 1
    /\ UNCHANGED <<storeVars, setupVars, writing, compatible, flowVars>>
-----------------------------------------------------------------------------
FlowStep(f) ==
    \/ \E a \in Accounts : SubmitConnection(f, a)
    \/ ConfirmReconfigure(f)
    \/ \E a \in Accounts : SubmitCredentials(f, a)
    \/ ReadDevices(f) \/ FormAgain(f) \/ SelectionFormAgain(f)
    \/ Offer(f) \/ OfferAgain(f)
    \/ \E S \in SUBSET Devices : Reselect(f, S)
    \/ \E S \in SUBSET Devices, o \in Options : CreateEntry(f, S, o)
    \/ AbortConfigured(f) \/ Abandon(f)
    \/ StoreDevices(f) \/ StoreAccount(f)

Next ==
    \/ LifecycleNext /\ UNCHANGED flowVars
    \/ \E f \in Flows : FlowStep(f)
    \/ \E S \in SUBSET Devices : DevicesChange(S)
    \/ \E a \in Accounts : AccountChanges(a)

\* Home Assistant goes on with a setup or an unload it began and gives a waiting
\* reload its turn; every read of a refresh ends within its timeout
Fairness ==
    /\ WF_vars((FirstRefresh \/ FirstRefreshRejected \/ FirstRefreshFails)
               /\ UNCHANGED flowVars)
    /\ WF_vars((AddEntities \/ Reconcile) /\ UNCHANGED flowVars)
    /\ WF_vars((ReloadLoaded \/ ReloadFailed \/ Unloaded) /\ UNCHANGED flowVars)

Spec == Init /\ [][Next]_vars /\ Fairness
-----------------------------------------------------------------------------
\* Every variable keeps its type.
TypeOK ==
    /\ entry \in Entries \cup {NoEntry}
    /\ reloadAsked \in BOOLEAN
    /\ registry \in SUBSET Devices
    /\ state \in States
    /\ runtime \in Runtimes \cup {NoRuntime}
    /\ reauthAsked \in BOOLEAN
    /\ writing \in [Writers -> Writes]
    /\ compatible \in SUBSET Devices
    /\ accepted \in Accounts
    /\ changes \in 0..MaxChanges
    /\ flow \in [Flows -> Dialogs \cup {NoFlow}]
    /\ seenLive \in [Flows -> BOOLEAN]

\* A loaded entry that waits for no reload runs on the stored account, and its
\* controls, added by the platforms and left by _remove_stale_controls, are those of
\* exactly the stored devices, whatever was stored while it was set up or unloaded.
RuntimeCatchesUp ==
    state = "loaded" /\ \lnot reloadAsked =>
        /\ runtime.account = entry.account
        /\ runtime.entities = entry.devices
        /\ registry = entry.devices

\* An entry is edited one field at a time: a reconfiguration that captured the entry's
\* data before a reauthentication stored other credentials never writes the old ones
\* back with its devices, nor does the reauthentication undo a selection stored while
\* it validated (data_updates, not _pending_data).
EditsKeepOtherFields ==
    [][entry # NoEntry /\ entry' # entry =>
          \/ entry' = [entry EXCEPT !.devices = entry'.devices]
          \/ entry' = [entry EXCEPT !.account = entry'.account]
          \/ entry' = [entry EXCEPT !.option = entry'.option]]_vars

\* Reconfigure stores a selection only if all its devices were readable together at
\* some instant after the user submitted it, not only when they were offered.
StoredDevicesWereLive ==
    [][entry # NoEntry /\ entry'.devices # entry.devices =>
          \E f \in Flows : flow[f] # NoFlow /\ flow'[f] = NoFlow /\ seenLive[f]]_vars

\* A device that stays configured keeps its registered controls through every reload,
\* also while the controller does not return it or rejects the account.
ControlsKept ==
    [][entry # NoEntry => registry \cap entry.devices \subseteq registry']_vars

EntryUses(a) == entry \in {e \in Entries : e.account = a}
RuntimeUses(a) == runtime \in {r \in Runtimes : r.account = a}

\* Credentials that were stored reach the running services, or are replaced.
NewAccountIsUsed ==
    \A a \in Accounts : EntryUses(a) ~> RuntimeUses(a) \/ \lnot EntryUses(a)

\* docs/SECURITY_MODEL.md: read-modify-write actions are serialized per config entry.
SerializedPerEntry ==
    \A v, w \in Writers : v # w => writing[v] = "none" \/ writing[w] = "none"
=============================================================================
