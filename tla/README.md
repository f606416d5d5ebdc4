# Verification of the UniFi Etherlighting integration

TLA+ models of the Home Assistant integration in `custom_components/unifi_etherlighting`
(paths below are relative to it), the TLC instances that check them and the
theorems TLAPS proves. The integration controls the lights of UniFi switches
through the controller's private API: it reads whole objects, changes one value,
writes the whole object back once, reads again and reports what it could prove.
Everything difficult is in that sequence: other entities, the operator's Network
UI, lost answers, failing logins and cancelled calls fall between its requests.

## Inventory

| component | state | operations | what makes it correct |
|---|---|---|---|
| Device control service (`brightness.py`) | write lock (shared), blocked devices, last error code | set one of three controls: check block, read version and device, PUT, verify, classify | outcomes are true; an unproven write blocks its switch; nothing else is overwritten |
| Color service (`color.py`) | write lock (shared), blocked sites, last error code | set one color: POST both override arrays, refresh PUT to a witness switch, verify both resources, classify | the same, for the site's palette; one-step normalization is tolerated |
| Write contract (`compatibility.py`, `api/models.py`) | none | can a switch be read, can it be written, which fields a PUT carries | a payload is only built from confirmed fields, and complete |
| Coordinator (`coordinator.py`) | data, last refresh error, failure listeners | refresh in two stages of reads | data is a faithful snapshot; failures keep the old data |
| Repairs (`repairs.py`) | Home Assistant's issue registry | synchronize issues with data and refresh error | Repairs agree with blocks and with the last settled failure |
| Entities (`number.py`, `switch.py`, `select.py`, `light.py`, `entity.py`) | none of their own | call a service, request a refresh, sync Repairs | never report a write that was not applied |
| Auth session and client (`api/auth.py`, `api/client.py`) | authenticated flag, CSRF token, cookie jar | login, logout, invalidate; a request with at most one read retry | writes are sent once; no stale token; nobody is asked for credentials that are right |
| Adapters (`api/adapters/`) | none | the confirmed endpoints, response validation | a reply is what was asked for |
| Lifecycle (`__init__.py`) | runtime data | setup, reload, unload, registry cleanup | the runtime ends up on what is stored; the unload forgets the session whatever the logout does |
| Flows (`config_flow.py`) | flow state | user, reconfigure, reauthentication, options | an entry matches the controller that was validated |
| Write readiness (`write_readiness.py`) | none | is any control or color ready and not blocked | it claims exactly what the services would do |
| Sensors, diagnostics, evidence tables, tools | none | projections, constants, offline scripts | — |

Interactions. All coroutines run in one event loop and interleave only at an
`await`. The two services share one `asyncio.Lock`, made in `async_setup_entry`.
The coordinator reads the services' block lists and error codes; entities read
the coordinator's data, call the services and then sync the Repairs themselves,
besides the coordinator's listeners. Everybody shares one auth session. The
controller is shared with its own UI, has no conditional writes and may store or
answer anything when a request fails.

Hard behaviours: a whole-object PUT built from an old read; a request that fails
after it took effect, or takes effect after it failed; two resources that are
written and read one after the other; cancellation at any await; calls queued
behind the lock while the first of them blocks the device; a snapshot taken
across awaits; listeners and entities syncing the same registry.
`PROJECT.json` lists each hazard at its line with the properties that watch it.

## Modules

| module | models | extends / instances |
|---|---|---|
| `DeviceObject` | a switch as the API returns it; payload, contract, preservation | |
| `DeviceControl` | `DeviceControlService` | extends `DeviceObject`, instantiates `VerifiedWrite` |
| `ColorControl` | `EtherlightingColorService` | extends `DeviceObject`, instantiates `VerifiedWrite` |
| `VerifiedWrite` | what both services promise, without requests, locks or snapshots | |
| `EntryWrites` | both services of one entry over one controller and one lock | instances of both |
| `RefreshRepairs` | refresh, snapshot, Repairs, the entities' flow after a write | |
| `ControllerSession` | `UniFiAuthSession` and the API client, shared without a lock | |
| `EntryLifecycle` | setup, reload, unload, entity registry, options of one entry | |
| `ConfigFlows` | the config, reconfigure and reauthentication dialogs | extends `EntryLifecycle` |
| `WriteContract` | field by field: contracts, PUT, preservation; readiness and Repairs derived from them | |
| `DeviceControlProofs`, `ColorControlProofs`, `VerifiedWriteProofs`, `WriteContractProofs`, `RefreshRepairsProofs`, `ControllerSessionProofs`, `ConfigFlowsProofs` | theorems | the module they are about |
| `EntryWritesProofs` | theorems about the composition | extends `EntryWrites`, instances of the two services' proofs |
| `MC...` | instances for TLC: symmetry sets and structured constants | |

How state and actions correspond to the code:

* A coroutine's program counter names the request it awaits; its locals `current`,
  `witness` (and `seen`, the settings read back) are variables. One action is what
  happens from the resumption of one await to the next, with every assignment on
  the way. `Acquire` is the lock's `__aenter__` together with the checks before
  the first request, which run without an await; `Leave` is any way out of
  `async with`.
* A read is atomic with the conclusions drawn from its answer. A PUT is atomic with
  the controller's handling of it, except for `PutTimesOut`: its caller gives up
  and `ApplyLate` happens at some later moment.
* When a reply confirms a write, the controller may still have stored any subset of
  the fields sent; when the request fails, likewise. A POSTed color may be stored
  one step off in one channel.
* `Invalid` stands for an absent field and, for a field the PUT carries, for one
  without a confirmed value. A color mapping is a function of its keys; the order
  of an override array is not modelled, the services compare mappings.
* `unproven` and `claim` (`siteUnproven` and `siteClaim`) are history: which
  resources were written without a settled outcome, and what settled outcomes said.
  `calm` marks calls nothing has disturbed: no failed request, no partial store, no
  edit of their device since their snapshot. Actions that model code never read them.
* `WRITE_CAPABILITY_ENABLED` is the constant true (`const.py`), so the closed-gate
  branch is unreachable and omitted. `last_verified_write`, messages and the
  result records are omitted. A config entry has one site, so `_blocked_sites` is
  the flag `siteBlocked`.
* `ColorControl!Spec` is the service without the ways out it does not handle;
  `FaultySpec` adds them: cancellation, and the `KeyError` for a slot that is gone
  (`Faults`). `ColorKeyError` and, with the Device service beside it, `EntrySafety`
  run them. `DeviceControl` has its cancellation behind the constant `Cancellable`.
* `EntryWrites` has no late PUTs: a PUT that outlives its caller is a matter of the
  Device service alone and is in `DeviceControl`.
* `VerifiedWrite` has no lock and no requests: a resource is written, is in doubt,
  and is settled or blocked. `DeviceControl` maps its controller, block list and
  history onto it; `ColorControl` maps the palette, with the site as the resource.
* In `RefreshRepairs` polling goes on after an authentication failure, where Home
  Assistant waits for a requested refresh, and no Network version is unsupported
  (`WriteContract` has that); no property rests on either.
* In `RefreshRepairs` a write is reduced to its settled outcome; the service
  modules say when each outcome arises. The listeners' sync is part of the step
  that ends the refresh: `entry.async_create_task` starts the coroutine eagerly and
  it never awaits. Home Assistant runs one refresh at a time and its debouncer may
  drop or postpone a requested one. Repairs that restate contract fields of the
  snapshot are in `WriteContract`.
* In `ControllerSession` a request is sent, handled by the controller, and its reply
  delivered in three steps; it carries the cookie and token of the moment it left.
  Sessions are numbers, and tokens and cookies name theirs. A login has two steps,
  since its headers fill the cookie jar before its body is read. What a coroutine
  does after a call returns or raises (the next read, the PUT, classification) is
  part of the step that delivers the reply. The refresh goes on polling while the
  logout is awaited: its timer belongs to listeners that `entry.async_on_unload`
  removes only after `async_unload_entry` has returned. Service calls end with the
  platforms, before the logout, but for those that wait for the write lock then
  (`queued`).
* `EntryLifecycle` has one state for each await of setup and unload; a service call
  is reduced to being in its read-modify-write under the lock of its runtime. A
  reload that is asked for while another runs waits for its turn.
* `ConfigFlows` keeps for each dialog what the flow object keeps across steps:
  `_pending_data`, captured when the devices are offered and reduced to its account,
  the devices offered, those selected. Options are no part of it, they live in
  `entry.options`. The user's dialogs (`UserFlows`) and the reauthentication Home
  Assistant opens (`ReauthFlows`) are apart. The registry, the entry store, the
  reload queue and the controller are external.
* `WriteContract` writes in one step. `mode` stands for `behavior` too (both are one
  of two words), `ip` for the six address fields, `identity` for type, id, model and
  version; `odd` is any value a check rejects, `absent` a missing field.

## What is checked

Runs that pass:

| run | bounds | shows |
|---|---|---|
| `DeviceSafety` | 1 switch, 2 callers, 2 controls, 1 companion, 1 compared field, 2 values, 1 edit | snapshots are current at the PUT; outcomes stay true; ambiguity blocks; queued calls do not write over it; no false alarm; every step is one `VerifiedWrite` allows |
| `DeviceFaults` | 2 switches, 2 callers, 1 control, 1 edit, cancellation, 1 late PUT | a blocked switch stays silent when calls are cancelled and PUTs arrive late |
| `ColorSafety` | 2 painters, 2 slots, 1 channel 0..2, 1 edit | the same questions and the same promise for the palette and its witness, with normalization |
| `EntrySafety` | 1 switch, 1 writer, 1 painter, 1 control, 1 slot, 1 edit, cancellation, vanishing slots | control and color writes of one switch do not undo or alarm each other; every call ends; a blocked site gets nothing more |
| `RefreshSafety` | 1 switch, 2 entities, every failure category | block Repairs are exact, credential and schema Repairs never outlive their cause, a block is always reported in the end |
| `SessionSafety` | 1 refresh, 1 service call, the logout; 3 logins, 1 session closed, the password changed or the permission lost | requests and logins per call are bounded and a PUT is sent once; tokens belong to the cookie; reauthentication only for credentials that are wrong; after an unload the session is authenticated only by a login completed since, and holds anything only if a coroutine outlived the unload |
| `LifecycleSafety` | 2 switches, 2 accounts, 2 options, 1 writer, 1 dialog of the user and 1 reauthentication, 1 change of the controller | whatever devices and account are stored during setup or reload, the loaded runtime ends up on them; edits do not undo each other; a stored selection was readable after it was submitted; controls survive |
| `ContractSafety` | 2 switches of 4 shapes (static, DHCP with and without addresses, with and without display, unreadable), 1 change of any field | a PUT is complete, a verified one changed one field, a switch is not blocked by its own contract, readiness and Repairs say what is so |

The bounds are small because the interesting cases need few actors: a lost update
takes two writers and a second field; a wrong preservation check takes one
companion or compared field besides the controls; a queued call after a block
takes two callers on one switch, a block filed under the wrong key a second
switch; the tolerance needs three values in a channel (equal, one step, two steps)
and a second slot for the arrays. One edit at any moment already reaches
every window between two requests. Field values are compared only for equality.
Three logins let a refresh use up both of its own while a service call opens or
invalidates a session in between; a stale session needs one closure; a wrong password
and a lost permission are each met, though not both in one behaviour (`MaxRefusals`);
the theorems bound neither. Two devices make selections differ and leave one behind,
one change of the controller falls between any two steps of a dialog; a second dialog
stores while the first is open, and options are set beside them at any time. Four
shapes and one change reach every object one field away from them, from each branch
of the field rules.

`SessionSafety` leaves out deadlock checking: the refresh timer and the entities
stop when the entry is unloaded, and the bounded controller runs out of sessions.
It excludes logins answered with an unexpected HTTP status (`LoginErrors`): the
code takes them for rejected credentials, and with them `NoFalseReauth` would say
nothing. `TokenIsCurrent` is stated for sessions used by one coroutine at a time:
when two overlap, a login's token can arrive between another's login and
invalidation. `UnloadForgets` covers refreshes that begin while the logout is
awaited and service calls that go on after it: such a coroutine may log in again
and nothing closes that session, but nothing else keeps one open.

`LifecycleSafety`: options reload the entry by its update listener, so those stored
before the listener is registered wait for the next reload; `RuntimeCatchesUp` is
about devices and account, whose flow reloads the entry itself.

Runs that are expected to fail, each a place where the code and its documents
disagree (`findings` in `PROJECT.json` quotes both):

| run | counterexample |
|---|---|
| `DeviceCancel` | a call is cancelled after its PUT was sent: `CancelledError` passes all except clauses, the lock is free, nothing is classified or blocked |
| `ColorKeyError` | the VLAN disappears between read and reply: `effective_color` raises `KeyError` after the POST, unclassified and unblocked |
| `RefreshRace` | a refresh in progress has reset the last error; an entity finishing its write clears Repairs that no refresh settled |
| `ReloadLock` | an entry is reloaded while a write is running; its successor has a new lock, and two read-modify-writes of one entry overlap |

Others were met while modelling and are limits rather than defects:

* A PUT that timed out may be handled after the classification read, so a
  `not_applied` outcome can be overtaken. No property catches it: `DeviceSafety` and
  the theorems about outcomes have `MaxLate = 0`, `BlockedStaysSilent` lets a late PUT
  be applied.
* Between a block and the end of a refresh that began after it, the block Repair may
  be missing: the running refresh has a torn snapshot, and the one requested after
  the write is dropped. `BlockRepairIsExact` excuses this time; `BlockIsReported`
  says that it ends.
* Readiness between refreshes may be stale; `ReadinessIsHonest` compares it with the
  services at the refresh. The services check again before they write.
* A POST that was stored but whose reply was lost is classified applied without the
  Device refresh having been sent.
* A requested color one step from the current one, not stored at all, is
  classified applied: the tolerance cannot tell it from normalization.
* A switch the Device service blocked can be the color service's witness and get its
  refresh PUT, which repeats what was just read.
* A second switch that cannot be read raises no Repair while another can.

### Fairness

`EntryWrites!FairSpec` assumes of each call that its next step happens (weak
fairness of `Progress`): every request carries a timeout of 15 s and each
outcome leads on; and that a call waiting for a lock that is free again and again
gets it (strong fairness of `Acquire`): `asyncio.Lock` wakes waiters in order.
`RefreshRepairs!FairSpec` assumes that the poll timer fires and reads end. That
the controller answers is not assumed: `BlockIsReported` has it as its premise.
`ConfigFlows!Spec` assumes that a first refresh ends one way or another (every read
has a timeout), that Home Assistant goes on with the setup or unload it began, and
that a waiting reload gets its turn. Neither the user nor the retry timer nor the
controller is assumed to do anything.

## What is proved

Every invariant and every action property of the passing runs is a theorem, for all
values of the constants the modules' assumptions allow: any number of switches,
callers, fields, values, dialogs, and any bound on edits, logins and changes. Two
refinements are theorems too. `PROJECT.json` names each with its property.

The modules' assumptions say that the sentinels (no call, no snapshot, free lock,
nothing claimed) are not among the values they stand beside, that field groups do
not overlap, and that bounds are numbers. TLC evaluates them in every run. Six
theorems take more, stated in them: what they need it for is said below.

### Device control service

`DeviceControlProofs` has `TypeCorrect`, `SnapshotsStayCurrent`,
`BlockedDevicesStaySilent` and `UndisturbedWritesVerify` without further
assumptions; `AmbiguousWritesBlock` and `NoCallWritesOverAmbiguity` assuming
`~Cancellable`; `OutcomesStayTrue` assuming `MaxLate = 0`. The two assumptions are
exactly what the run `DeviceCancel` and the remark on late PUTs above show to be
needed. The argument:

1. *Base*: type correctness and, per caller, what its program counter implies of its
   locals (a call that runs has arguments, after the read it has a snapshot that
   meets the contract and differs from the request). No property needs the lock yet.
2. *Core*: a caller between `Begin` and `Leave` holds the lock, so at most one is
   there, and its device is not blocked. `SnapshotCurrent` is not inductive without
   this: another caller's PUT would break it.
3. `UnprovenIsBlocked` is inductive over the core: only the lock's holder adds to
   `unproven`, and it leaves by settling or by blocking. `NoWriteOverUnproven`
   follows, since a call past `Begin` saw its device unblocked and holds the lock.
4. `ClaimsHold` needs that while a call is about to write, or verifies, each claimed
   field other than its own has in its snapshot the claimed value unless an edit
   removed the claim; then neither the PUT's stored fields nor the outcome's new
   claims contradict an older one (`SnapshotKeepsClaims`).
5. `NoFalseAlarm` needs that a calm call in verification finds at the controller
   exactly its payload over its snapshot (`CalmVerify`), which `Preserved` accepts.

`DeviceControlKeepsPromise`, assuming both, is the refinement of `VerifiedWrite`:
initial states map to initial states, and over the invariants above each action maps
to a step of the promise or to a stutter. `PUT` is `Write`: the snapshot agrees with
every claim, so the stored fields change no claimed target but the caller's own.
Settling is `Settle`, since only the holder's device is in doubt (`doubt` is
`unproven` without what is blocked already); blocking is `Block`; the early way out
with the value already there is `Notice`. `VerifiedWriteProofs` proves of the promise
alone, for whoever implements it, that no claim is ever false (`ClaimsStayTrue`).

### Color service

`ColorControlProofs` works on `FaultySpec`, with cancellation and uncaught
exceptions, of which `Spec` is a part (`SpecIsFaulty`). Only two results need `Spec`:
`AmbiguousPostsBlock` (the run `ColorKeyError` shows why) and the refinement.

1. *Base* and *Core* are those of the Device service, with two snapshots, the palette
   read back, and the site as what is not blocked.
2. `CalmInv` follows an undisturbed call step by step: its witness is what the switch
   is, its palette what the controller has, after the POST the palette is the
   snapshot repainted within the tolerance, and it is never on the way to the
   classification. `SnapshotsStayCurrent` and `UndisturbedColorsVerify` are its parts.
3. `ClaimInv` adds to `PaletteClaimsHold` that the arrays about to be posted carry
   every claim (`PostKeepsClaims`), and that what was read back is the controller's
   palette but for slots edited since (`SeenIsCurrent`): settled outcomes rest on a
   read that the second resource's read comes after.
4. `WritingInv`: a call between POST and outcome has the site's outcome open, which
   makes `UnprovenSiteIsBlocked` inductive.
5. `BlockedSitesStaySilent` follows from the core alone.

`ColorControlKeepsPromise` maps the palette's effective colors to the promise's
values. It assumes `~KeysVanish`: a deleted VLAN has no color at all, so the promise
has nothing to say of it.

### One entry's write side

`EntryWritesProofs` proves the four properties of `EntrySafety` from the theorems of
the two services and not from their code again. A service sees the shared lock as
its own, held by one of its callers or free (`DeviceLock`, `ColorLock`). Under this
mapping a step of a Device call is a step of `DeviceControl` (`DeviceStepMaps`), one
of a color call a step of `FaultySpec` (`ColorStepMaps`), an edit one of each. What
is left is that a step of one service keeps the other's invariant: while one's
caller has the lock, the other's can only arrive or be cancelled in the queue
(`DeviceStepFrame`, `ColorStepFrame`), and with nobody past the acquisition its
invariant says nothing of the switches but their type (`DeviceKept`, `ColorKept`).
`OutcomesSurviveColors` alone needs an invariant of both, `WitnessKeepsClaims`: the
witness about to be sent back carries what Device outcomes claim of that switch; it
assumes `MaxLate = 0` as the Device service's theorem does.

### Refresh and Repairs

`RefreshRepairsProofs`: a snapshot that no outcome has overtaken shows the blocks as
they are, and so does the projection of a running refresh (`SnapshotInv`);
the block Repair agrees with the snapshot whoever synced last (`BlockInv`); the error
a sync would use is gone while a refresh runs and otherwise one that the refresh
behind it settled (`ErrorInv`). The last is what the run `RefreshRace` is about: it
lets Repairs be cleared too early, never be kept too long.

### Session and client

`ControllerSessionProofs`: the session object is shared without a lock, so nothing
about it is inductive by itself. `RequestsStayBounded` ties requests, logins and PUTs
of a call to its attempt and stage (`CallsInv`), whoever else runs. `TokensStayCurrent`
needs that an uncontended session has one user (`SoloInv`) and what its place says of
flag, token and cookie (`AttributesInv`). `UnloadsForget` needs that whoever goes on
after the unload outlived it, and that only a completed login authenticates
(`ForgottenInv`). For `ReauthenticationIsJustified` the cookie in the jar is good as
long as no session was closed since a refresh's login, for the second attempt's
request and reply as well (`OpenInv`), even when another coroutine logged in between;
it says nothing when `LoginErrors` is true, and the run has it false.

### Flows and lifecycle

`ConfigFlowsProofs`: there is a runtime and a dialog other than the first only with
an entry (`PresenceInv`, `DialogInv`). What is stored and what was set up from it
differ only while a reload waits (`SetupInv`): from this `ReloadsCatchUp`, whenever
during setup devices or account are changed. A submitted selection that would pass the next
check was readable at an instant since it was submitted (`SelectionInv`, for
`StoredSelectionsWereReadable`). `EditsAreLocal` and `ConfiguredControlsStay` are
action properties over the types.

### Write contract

`WriteContractProofs`, for every set of shapes the switches may start with: types are
inductive once the data's sets are known to be subsets of the switches; completeness
of the PUT and exactness of readiness then hold in every typed state; the two action
properties follow from what a preserved object agrees on, by field group.

### Only model-checked

Liveness (`EveryCallEnds`, `BlockIsReported`, `NewAccountIsUsed`) is out of the proof
system's reach: it needs fairness and `ENABLED`. The runs that are expected to fail
are counterexamples and need no proof.

## Not modelled

* Sensors and diagnostics: projections of the coordinator's data, without state.
* `api/response.py`, `api/errors.py` and the adapters' parsing: an unusable answer is
  one of the failures every request may have. Error keys, labels and texts.
* Evidence tables and counters only sensors show.
* The color lights that are added when color metadata first arrives; an unload of the
  platforms that Home Assistant refuses; a second entry for the same controller
  under another host name.
* A color POST or refresh PUT that lands after its client timed out.
* The offline tools under `tools/`.

## Plan

1. Invariants that no run has room for, as theorems over those proved: of
   `EntryWrites`, that an ambiguous write of either service blocks, without
   cancellation; of `VerifiedWrite`, what a caller may conclude from two outcomes.
2. Late color POSTs and refresh PUTs in `ColorControl`, as `DeviceControl` has them.
