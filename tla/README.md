# Benni Core Contracts in TLA+

Core Contracts is a Home Assistant integration that turns raw entities into
typed contracts. An administrator configures source bindings, fusions and
contract instances in a *registry*; a revision of that registry is stored in
PostgreSQL, activated, built into a signal graph and served to consumers. The
modules here model the parts of it that interleave, fail and restart, and the
decisions about evidence that everything else relies on.

Paths are relative to `src/custom_components/benni_core_contracts/` unless
they begin with `src/`.

## 1. Inventory

| Component | State | Operations | Talks to |
|---|---|---|---|
| Revision repository, `registry_store.py` | the table `core_contracts_registry_revision`, its identity sequence, row and advisory locks | `create_revision`, `get_active_revision`, `activate_revision`, `rollback_revision`, `load_active` | PostgreSQL, shared by several Home Assistant instances; the cache |
| Last-Known-Good cache, `registry_store.py:163-295` | one local envelope with a record per household | save (best effort), load (validated) | local disk |
| Domain service, `registry_service.py` | drafts in memory, the draft lock, the activation lock | read, open, edit, discard, save, rollback, export, import | repository, runtime |
| Runtime, `registry_service.py:215` | the active snapshot (revision, graph, source) per household, listeners | `prepare`, `activate`, `deactivate` | entry listeners, consumer API |
| Pool, `registry_bootstrap.py` | lazy pool of four connections, migration flag | acquire, migrate once, close | PostgreSQL |
| Entry life cycle, `__init__.py` | the shadow or published runtime of an entry, its listeners and timers | setup, rebind, recovery tick, unload | service, source listeners, consumer API |
| Source listeners, `source_listener.py` | subscriptions to state events for one graph | attach, handle event | signal graph |
| Signal graph, `graph.py`, `quality.py`, `schema.py` | bindings, fusions, latest signals, evaluated contracts | ingest, restore, seed on swap, evaluate | consumer API through change listeners |
| Consumer API, `consumer_api.py` | subscriptions, last observed contract states | subscribe, unsubscribe, dispatch, close | runtime, graph, callbacks of other integrations |
| Judges of evidence: `evidence_gate.py`, `source_binding_evidence.py`, `owner_required_gate.py`, `live_evidence.py`, `shadow_verification.py`, `shadow.py` | none of their own: they read graph, stored contract and evidence matrix | assess a record, a field, a contract; claim a physical state | signal graph, sensors, diagnostics |
| Websocket API, `websocket_api.py` | none | admin check, commands to service calls, errors to answers | service, frontend |
| Frontend, `src/frontend/src/lib/core-contracts/registry.svelte.ts` and the views on it | the edit session of one browser page: forms, draft, base, busy flag, generation | open, edit, save, discard, import, rollback, switch household | websocket API |

What is hard in it:

* **Interleavings of several administrators and several instances** on one
  table: every statement of an activation is a suspension point, and there is a
  lock order problem between candidate row, profile lock and active row.
* **Partial failure**: a COMMIT whose answer is lost, a cache write that fails,
  a call that dies between `create_revision` and `activate_revision`, a save of
  the page of which the fourth of six requests fails.
* **Hand-over from the database to memory**: between the answer of the
  repository and `runtime.activate`, between the read of a draft and its removal.
* **Restart**: memory is gone, the table, the cache and the browser page stay.
* **Swap of a running graph** under listeners, timers and subscribers.
* **Re-entrance**: a callback of the consumer API may subscribe, unsubscribe,
  close the API or change the graph that is being dispatched.
* **Evidence that ages**: retained, restored, early and late observations, nested
  fusions of them, and judges that look at the same evidence from four sides.

What makes each component correct:

* repository: one active, validated revision per household; a commit replaces
  exactly the base its caller named; history is append-only; every call returns;
* service and runtime: only activated revisions are installed; no blind
  overwrite by a call that names its base; a process does not go back while it runs; no edit is lost; every
  process catches up;
* cache: never older than what ran while it could be written;
* entry life cycle: after an activation all listeners belong to the new graph,
  after unload nothing is left;
* signal graph: a healthy or physical claim only from current, agreeing
  evidence; a Boolean decision only where the known inputs force it; evidence
  keeps its age across an activation;
* judges: none grows content by waiting, the laxer never passes what the
  stricter stops, a physical claim has a source;
* consumer API: each subscriber comes to know its part of every change, and is
  told nothing once it has gone;
* editor: unsaved work keeps its base and its owner, ends on purpose only, and a
  save activates what the page presents.

The list of hazards with their lines is in `PROJECT.json`.

## 2. Modules

```
RegistryHistory            what the table promises: Create, Activate, Reject
   ^             ^
   | implements  | database steps are its Create and Activate
RegistryStore    RegistryService     EntryLifecycle      RegistryEditor
(statements)     (service, cache,    (one entry and      (page, commands,
                  processes)          its graphs)         drafts)

ConsumerFeed               what a subscription promises: Publish, Tell
   ^
   | implements (INSTANCE ... WITH)
ConsumerApi                dispatch with re-entrant callbacks

SignalGraph                evidence, fusion, fallback, activation
   ^
   | EXTENDS
EvidenceGates              four judges over the moving graph

RegistryHistory_proofs, RegistryStore_proofs, RegistryService_proofs,
EntryLifecycle_proofs, ConsumerApi_proofs, RegistryEditor_proofs
                           the proofs about the module of that name
EvidenceGates_proofs       those about SignalGraph and EvidenceGates
ConsumerFeed               has its own
MCRegistryService, MCSignalGraph, MCEvidenceGates, MCConsumerApi,
MCRegistryEditor           the instances TLC checks
```

The modules meet at these places: a database step of RegistryService is an
action of RegistryHistory, which RegistryStore implements statement by
statement; a command of RegistryEditor is one step of the service, whose
concurrency RegistryService has; the activation of EntryLifecycle and
ConsumerApi is the installation of a snapshot in RegistryService, and the
evidence it carries over is in SignalGraph.

**RegistryHistory** is the abstract specification: a function from revision
numbers to rows and three operations. It has no clients, locks or transactions.

**RegistryStore** is `PostgresRegistryRepository` statement by statement. One
action per SQL statement of `activate_revision`:

| Code | Action |
|---|---|
| `_INSERT_REVISION` in its transaction | `CreateRevision` |
| `get_active_revision`, snapshot and lock | `BeginRead`, `ReadActive` |
| call of `activate_revision` / `rollback_revision` | `BeginActivate` |
| `_SELECT_BY_ID_FOR_UPDATE` | `LockCandidate`, `CandidateMissing` |
| `_LOCK_PROFILE` | `LockProfile` |
| `_SELECT_ACTIVE`, snapshot and lock | `SnapshotActive`, `LockActive` |
| the comparisons of lines 506-522 | `RaiseConflict`, `RaiseStateError`, `KeepActive` |
| `self._validate` and its two branches | `Validate`, `RejectCandidate` |
| `_SUPERSEDE_REVISION`, `_ACTIVATE_REVISION` | `SupersedeActive`, `ActivateCandidate` |
| end of the transaction | `Commit`, `Disconnect`, `DeadlockVictim` |

PostgreSQL is not in the repository; it is modelled as its READ COMMITTED
documentation describes what these statements rely on: a statement sees a
snapshot, `FOR UPDATE` waits for the row lock and re-checks `WHERE` on the
latest version, writes appear at COMMIT, the unique index and the deadlock
detector do their work. `rows` is the committed table; the writes of an open
transaction are in `txn`. `Disconnect` stands for a lost connection or the
command timeout in any statement, and every COMMIT may lose its answer.

**RegistryService** is `RegistryDomainService` over the repository and the
cache, in every process that shares the database. One action is what runs
between two suspensions. What is merged, and why that loses nothing:

* A transaction is one step: RegistryStore shows that it behaves like a step of
  RegistryHistory, and the database steps here are the actions of that module.
* Edit commands read and replace a draft without suspending in between (the
  draft lock is only ever free there), so an edit is one step and
  `draft_conflict` cannot be raised. An import is an open with another payload.
* The cache write and the installation in the runtime are one step: nothing of
  the process runs between them that reads either.
* Household and payload of a row never change, so `get_revision` of a rollback
  is merged with the beginning of the call.
* `prepare` runs the validation that the repository runs, so in one process the
  repository never rejects what was prepared; RegistryStore has the rejection.
* Refusals that change nothing (owner checks, malformed bases, a missing
  draft) are stuttering steps.
* A lost answer that is followed by a late COMMIT is a COMMIT before the loss.

`acts` and `Held.index` are history variables: the order of activations that
the properties speak of. `Valid[h]` is what the code of process `h` validates,
which differs between processes only in `service_shared`.

**EntryLifecycle** is one config entry in one process. `bound[l]` is the graph
of the runtime object that load `l` created, `live` the snapshot of the
household in `RegistryRuntime`, `captured` the local variable `graph` of
`async_setup_entry` across its second await; `queue` is the activation lock with
its waiters.

| Code | Action |
|---|---|
| `async_setup_entry` to line 126, from 126 to 132, from 132 on | `BeginSetup`; `ReadSame`, `ReadNewer`, `ReadNothing` or `CallFails` of its read; `FinishSetup` or `SetupFails` |
| `refresh_registry_runtime` before and after its await | `Tick`; the same four actions |
| a command that reads, saves or rolls back | `AdminCall`, `Prepare`, `SaveCommits` or the read actions |
| `RegistryRuntime.activate`, `on_registry_activation`, `rebind_sources` | `Install` within the action that activates |
| `async_unload_entry` before and after the platforms are unloaded | `BeginUnload`, `FinishUnload` |
| `handle_event` | `StateEvent` |

Home Assistant since 2024.12 (the oldest that `src/hacs.json` admits) starts
tasks and handlers eagerly; `rebind_sources` and `handle_event` never suspend,
so they are part of the step that starts them. A source stands for the triple
of source, entity and field that `seed_unchanged_sources` compares; a state is
a number, a signal the number of the state it was made from. What the database
answers is free here: RegistryStore and RegistryService say what it can be.

**SignalGraph** is the graph of one household and the evaluation of one of its
contracts. Its pure part follows the code function by function, without
`RECURSIVE`: nested fusions are recursive functions over the finite set of
fusions.

| Code | Definition |
|---|---|
| `add_fusions`, `validate_registry_payload` | `Acyclic`, `FusionsFit`, `Accepted` |
| `TemporalEvidence.freshness`, `ContractFieldSchema.validate` and the graph's reading of it | `Freshness`, `Classify` |
| `_candidate_signals`, `_select_for_fusion` and its strategies | `Leaves`, `SelectOne`, `SelectBoolean`, `SelectOpening`, `Select` |
| `_evaluate_fusion` | `Selection` |
| `assess_field_quality`, `_apply_fallback`, `aggregate_health` | `Quality`, `Claimed`, `FellBack`, `Health` |
| `ingest`, `evaluate_contract`, the clock | `Ingest`, `EvaluateContract`, `Tick` |
| `prepare`, `activate`, a failed commit, a new process | `Prepare`, `Activate`, `Abandon`, `Restart` |

A timestamp is its age, from -1 (the future) to `MaxAge`, which exceeds every
time to live. A value is what the source adapter made of a state: true, false,
unknown, unavailable, none, a number, or a text outside the schema. `graph.held`
is what the fallback `hold_last` reads of the previous contract; `graph.valid`
is a history of the last valid values that `HeldWasValid` compares with.

**EvidenceGates** extends SignalGraph by the contract the graph stores, which an
observation does not refresh, and by the evidence matrix, a constant. The judges
are operators: `FieldGate` (`evaluate_contract_evidence`), `AssessedFreshness`
(`assess_source_binding_evidence`), `OwnerRaw`, `OwnerDerived` and `OwnerStatus`
(the owner's required-field gate), `LiveStatus` (`assess_live_source`; what the
probe says besides the signal is quantified in the properties), `Confirms`,
`Verified` and `Claims` (the shadow verification). Its actions are those of the
graph with what becomes of the stored contract.

**ConsumerFeed** is what a subscription promises, without dispatches: `truth` is
the snapshot last published of each contract, `due` says who is owed an update.
**ConsumerApi** is the code. `stack` holds the dispatches under way, the
innermost first, each with the contracts still to be looked at (`todo`), the
subscribers of the present one (`queue`) and the snapshots it tells; a callback
runs between `Deliver` and `Return`, and whatever it calls is an ordinary action
that may push another dispatch.

| Code | Action |
|---|---|
| `_on_runtime_activation` with a snapshot, without | `Activate`, `Deactivate` |
| `_on_graph_change` | `GraphChange` |
| the loops of a dispatch, a callback and its return | `Advance`, `Deliver`, `Return`, `Finish` |
| `subscribe`; `unsubscribe`, `cleanup_consumer`; `close` | `Subscribe`; `Unsubscribe`; `Close` |
| evidence that expires between two evaluations | `Lapse` |

The refinement maps `truth` to what the API last observed, `told` to the part of
it that a subscriber's filter shows, and `due` to the dispatches that hold a newer
snapshot for the subscriber than it has been told. `told` keeps the newer of two
updates by their graph revision: that a subscriber compares them is assumed. Subscriptions to a role are
not in the feed, because what they see depends on the active revision; they have
`RoleSubscribersCurrent`.

**RegistryEditor** is one browser page, the websocket commands it sends and the
drafts they work on. A call of the page is a list of statements, each one request:
`call.at` says whether the request or its answer is under way. Everything else
happens in between: another administrator activates (`OtherSaves`), the user
changes (`ChangeUser`, `setHass`), a request or an answer is lost, Home Assistant
restarts. `Begin`, `Serve` and `Receive` are `run`, the service and the rest of
`request`; `After` is what each method does with the answer. One definition per
method of the class (`Apply`, `Save`, `Validate`, `RemoveItem`, `Toggle`,
`Discard`, `SwitchProfile`, `Import`, `Rollback`, `Refresh`), `Accepts` and
`ServedAfter` are the commands (`CanPut`, `CanDelete`, `CanOpen`, `CanSave`,
`CanRollBack` are their checks).

Definitions whose comment says "Faulty", or that stand in the section of faulty
variants (RegistryStore), are not part of a specification. Each is one definition
with a plausible mistake; with it in place of the original, TLC finds the property
it is meant for violated.

## 3. What is checked

| Run | Instance | Properties |
|---|---|---|
| `store` | 2 connections, 2 households, 2 revisions, a valid and an invalid payload, bases 0, 1 and none, fairness | `TypeOK`, `OneActivePerProfile`, `DecisionsStayCurrent`, `ActivationNeverTrips`, `ReplacesExpectedBase`, `AnswersAreTruthful`, `HistorySpec`, `CallsReturn` |
| `store_read` | 2 connections, 1 household, 2 revisions | `EmptyOnlyWhenEmpty`, violated |
| `service_shared` | 2 processes of different versions, 1 call each, 2 revisions, 2 activations, 1 failure, cache writes may fail, rollbacks may omit the base, fairness | `TypeOK`, `InstalledWasActivated`, `RuntimeConverges` |
| `service_handoff` | 1 process, 2 concurrent calls, 3 revisions, 4 activations, 3 drafts and edits, 3 failures | `CacheNotOlder`, `RuntimeNeverRegresses`, `NoEditLost` |
| `entry_lifecycle` | 1 source, 3 graphs, 2 loads, states 0..3, 3 calls waiting for the lock, activations during setup, reads that miss | `TypeOK`, `ListenersMatch`, `SignalsCurrent`, `NeverFallsBehind`, `UnloadIsFinal` |
| `entry_setup_race` | the same, no read misses | `BoundToLive`, violated |
| `signal_graph` | 3 bindings, 8 accepted and 3 refused configurations, 6 observations, ages -1..3 | `TypeOK`, `OpeningFieldsAgree`, `HeldWasValid`, `ClaimsAreProven`, `PhysicalNeverGuessed`, `DecisionsAreForced`, `ActivationKeepsAge` |
| `gates` | 4 bindings with a record each, 3 configurations, 3 observations, ages -1..2 | `OwnerNeverOutruns`, `ShadowClaimsHaveSources`, `TimeAloneProvesNothing` |
| `shadow_claims` | the same | `ShadowClaimsAreCurrent`, violated |
| `consumers` | 2 contracts, 2 revisions of the registry and none, 3 kinds of subscription, 2 of them at once, 1 graph change by a callback in each dispatch, fairness | `TypeOK`, `OnlyAgeGoesUnseen`, `RoleSubscribersCurrent`, `FeedSpec` |
| `editor` | 2 users, 2 households, a binding, a contract and a fusion, 2 revisions, 1 failure | `TypeOK`, `SessionIsOwn`, `DraftsHangTogether`, `NoSilentRebase`, `WorkEndsOnPurpose`, `SavedIsPresented` |
| `editor_discard` | the same, fairness | `DiscardHelps`, violated |

The largest are `editor` (848,000 distinct states), `service_handoff` (748,000),
`consumers` (243,000) and `service_shared` (239,000). Deadlock checking is on in
every run.

### Bounds

*Store.* Two connections form every cycle of the two locks. Two revisions give a
base and a candidate, and with two households also a competitor in another one;
a base of 0, the other revision or none is each right in some states and wrong
in others. That a third connection or revision changes nothing is what the proofs
of section 4 say. `MaxRev` appears only in the guard of `CreateRevision`.

*Service.* Two processes suffice for optimistic concurrency because a third only
repeats what the second does; two calls in one process contend for the activation
lock. A rollback reuses a number, so in `service_handoff` more activations than
revisions are reached. `MaxFaults` counts failed calls, lost answers, crashes and
failed cache writes: three reach a lost answer, a restart and an outage in one
behaviour. The calls of one process and the processes of one version are
interchangeable, hence the symmetry of `service_handoff`. `service_shared`
has two payloads, of which the older process knows one, and no exports
(`Readers`), which install nothing. The bounds `MaxRev`,
`MaxActs`, `MaxStamp` and `MaxFaults` appear only in the guards of the actions that
begin something, so every call that has begun can finish. In `service_shared` rollbacks
may omit their base (`RollbackMayOmitBase`) and cache writes may fail
(`CacheMayFail`). `service_handoff`, whose three revisions and two calls make it the
larger, has neither: its properties are about the way from the database to memory,
which a base has no part in, and with writes that fail `CacheNotOlder` and
`RuntimeNeverRegresses` are false (see "Disagreements"). With two failures in
`service_shared`, a failed write and then an outage (741,000 states), the processes
still converge; the run keeps to one for its running time.

*Entry.* Two loads let an old runtime object meet a new one, three graphs give a
swap before and a swap after an unload, and a graph may read the source or not,
so a source can leave and come back; nothing relates two sources.
`entry_lifecycle` lets activations fall into the storage await of setup
(`ActivationsDuringSetup`) and reads find no revision while a snapshot is live
(`ReadsMiss`: with the database away and a damaged cache setup starts with an empty
graph). It excludes one thing the code does not: an administrator's call that spans
an unload (`CallsSpanUnload`). `entry_setup_race` differs in nothing but missed reads.

*Signal graph.* Two inputs reach every outcome of a strategy: agreement,
contradiction, one missing, none left; a third lies under a nested fusion, so a
tree of depth two has a missing leaf at each depth. The times to live are 1 and 2,
so the ages -1, 0, 1, 2 and 3 lie before, on and after every comparison, for the
binding's limit and the field's; `MaxAge` stands for any greater age. The refused
configurations (a cycle, inputs of which the fallbacks disagree, a held physical
state) are offered and must be kept out.

*Gates.* The opening and the climate contract of `contracts.py`, and a physical
field with a spare source; the records are candidates but for one in conflict.
Three observations give agreement, contradiction, an early device timestamp that
matures and a number; a binding whose limit is below that of its field separates the judges
that look at one from those that look at the other.

*Consumers.* The second revision exchanges a schema version, a role and a whole
contract. One change by a callback gives a dispatch inside a dispatch; the inner
one has callbacks of its own. A subscriber is assumed to heed the graph revision
that an update carries, and to keep the newer of two.

*Editor.* One item of each kind, because what a command checks relates a fusion
to the inputs and the contract it reads. The household `eltern` can be looked at
and imported from, but has no room for a revision. `Room` and `MaxRev` keep room
for a save that is under way; a document is pasted into a page without unsaved
work. The two users are interchangeable in `editor`, which states no liveness.

### Fairness

`RegistryStore!Fairness`: PostgreSQL answers every statement, grants row and
advisory locks in the order of their requests (strong fairness of the actions
that wait for a lock), and runs its deadlock detector after `deadlock_timeout`.
No administrator has to start a call.

`RegistryService!Fairness`: a call that began goes on (asyncpg has a command
timeout, `registry_bootstrap.py:80`, so an await ends), and every process gets
the activation lock again and again for its recovery tick (`__init__.py:186`,
once a minute); `asyncio.Lock` wakes its waiters in order, which is the strong
fairness of `BeginRead`. Failures are finite by `MaxFaults`: convergence is
claimed once they stop, and only to revisions that the process can validate.

`ConsumerApi`: weak fairness of `Run`, the loop of a listener and the return of a
callback: a listener is synchronous code. Nobody has to change a graph. The feed's
fairness, that a subscriber who is owed an update is told it, follows.

`RegistryEditor!Fairness`: requests are served and answered (weak fairness), and
somebody presses discard again and again whenever the page is at rest (strong
fairness of `Discard`). That is what the user is assumed to do in `DiscardHelps`.

### Disagreements with the documentation

* `store_read`: two administrators are enough. A read takes its snapshot, waits
  for the row that an activation has locked, and finds it superseded: the query
  returns no row and the service reports `no_active_revision`, the reason that
  the release notes of 0.2.1 reserve for an empty registry. Opening a draft
  then starts from an empty payload with base 0. The save of that draft is
  refused, because its base 0 is compared with the active revision.
* `entry_setup_race`: setup takes the graph, awaits its storage and registers
  its activation listener afterwards. An activation in between is missed; reads
  of the same revision do not repeat it. The entry listens for a graph that no
  consumer reads, against `src/docs/registry-service-v1.md:44` and
  `src/docs/consumer-api-v1.md:26-28`.
* `shadow_claims`: the shadow verification confirms the value of the contract
  evaluated last as soon as any one active source shows a valid and fresh value,
  also the opposite one. Until the contract is evaluated again a physical claim
  contradicts its source, against
  `src/docs/benni-shadow-contract-verification-v1.md:104-106`.
* `editor_discard`: `discard()` asks the service to drop the draft before it clears
  the page. When the service has forgotten the draft (a restart, a lost answer)
  every discard fails first, and with it profile switch, import and rollback are
  out of reach until the page is reloaded, against
  `src/docs/registry-ux-v1.md:25-26`.

Three more show when a constant is set the other way; no run repeats them.

* `RollbackMayOmitBase`: the base of a rollback is optional in the command
  (`websocket_api.py:500`) and in the service, and a rollback without one is compared
  with nothing: it replaces a revision that was activated while it was on its way,
  against `src/docs/registry-operations-v1.md:99` and
  `src/docs/registry-service-v1.md:106`. No property of the service claims otherwise;
  that a base which is named is compared is `ReplacesExpectedBase` of the store.
* `CacheMayFail`: a cache write failed and was logged, the database goes away, and
  the next read installs the older record of the cache over the revision that is
  running. `src/docs/registry-storage-v1.md:57-59` says that cache writes are
  best-effort, not that a running revision is given up.
* `CallsSpanUnload`: a save, rollback or read of an administrator that waits for the
  database during the unload installs the snapshot again, against
  `src/docs/registry-operations-v1.md:91-92`. Only the recovery tick looks again.

### What the models bring to light besides

These are behaviours of the code that no document excludes; the properties are
stated around them, and say so.

* *Consumers.* A role subscription is not told of the loss of its contracts when
  the runtime goes away, and never hears that a contract has become available which
  a callback of the activation's own dispatch was the first to subscribe to. A
  subscription that names fields is not told of a revision if another field
  changed with it. A change made by a callback reaches later subscribers first and the
  older update after it: a consumer that takes the state from the update, like the
  example of `src/docs/consumer-api-v1.md:163-167`, ends with the older one unless it
  compares the graph revisions. A
  subscription to a contract somebody watches already starts from what was observed
  then. After `close()` in a callback the dispatch still fills `_observed`.
* *Gates.* The shadow verification compares ages with the time to live of the field
  only, the evaluation also with that of the binding. `opening_state` fused of two
  contacts is always blocked in the verification, because no contact shows a valid
  `opening_state`. When a record in conflict expires the owner's gate may turn from
  blocked to degraded; between two sources of equal rank a contradiction ends when
  the older one expires, and a timestamp of the future matures. Live evidence is read with
  900 seconds unless the caller passes a limit, which the tests do not: it may
  then pass what a field with a shorter time to live calls stale. The model passes
  the field's.
* *Editor.* `toggle()` of a binding whose unchanged form is open leaves the old value
  in the form, and applying the form later takes the toggle back. After the answer
  to a put was lost the page's copy is older than the service's, so what a save
  activates is not what the page shows: `SavedIsPresented` holds as long as no answer
  was lost. A change of a contract may leave a fusion without its field; only the
  save refuses it.

## 4. What is proved

Every theorem holds for all values of the constants that satisfy the ASSUMEs of
its module: any number of connections, processes, revisions, households, graphs,
loads, contracts, subscriptions, items, bindings and so on. The ASSUMEs say that
the bounds are numbers, that the special values (`Nobody`, `Unchecked`, `NoKey`,
`None`) are not ordinary ones, and what the code itself enforces on its inputs: a
payload that is accepted is a payload, a subscription names a contract or a role
but not both (`consumer_api.py:1358`), a fusion of a payload reads items, the
revision active at the start passed validation, the fallback of a schema's field
is one `ContractFieldSchema` allows, a time to live is a natural number. Processes and workers
are finitely many, because the room that is kept for calls under way is counted.
TLC evaluates all of them in the runs.

| Component | Theorems | State |
|---|---|---|
| Store | `StoreInvariant`, `StoreTypeOK` | the inductive invariant, `TypeOK` |
| | `StoreSafety`, `StoreDecisions`, `StoreNeverTrips` | `OneActivePerProfile`, `ActivatedMeansValidated`, `DecisionsStayCurrent`, `ActivationNeverTrips` |
| | `StoreOptimistic`, `StoreProfilesIndependent`, `StoreAnswersTruthfully` | `ReplacesExpectedBase`, `ProfilesIndependent`, `AnswersAreTruthful` |
| | `StoreImplementsHistory`, `StoreKeepsHistory` | `Spec => HistorySpec`, hence `ActiveNeverVanishes`, `HistoryAppendOnly` |
| History | `HistorySafe`, `HistoryKeepsItsPromises` | the same promises of `HistorySpec` alone |
| Service | `ServiceInvariant`, `ServiceTypeOK`, `ServiceFollowsTable` | the inductive invariant, `TypeOK`, the order of activations agrees with the table |
| | `ServiceInstallsActivated`, `ServiceKeepsEdits` | `InstalledWasActivated`, `NoEditLost` |
| | `ServiceHandsOverInOrder` | `CacheNotOlder` and `RuntimeNeverRegresses`, if the cache can be written |
| | `ServiceImplementsHistory`, `ServiceKeepsHistory` | all processes together implement `HistorySpec` |
| Entry | `LifecycleInvariant`, `LifecycleTypeOK`, `LifecycleListenersMatch` | the inductive invariant, `TypeOK`, `ListenersMatch` |
| | `LifecycleSignalsCurrent`, `LifecycleUnloadIsFinal` | `SignalsCurrent`, `UnloadIsFinal`, if no administrator's call spans an unload |
| | `LifecycleNeverFallsBehind` | `NeverFallsBehind` |
| Feed | `SettledSubscribersAreCurrent` | `DebtsAreLive`, `SettledMeansCurrent` |
| Consumer API | `ApiInvariant`, `ApiTypeOK`, `ApiOnlyAgeGoesUnseen` | the inductive invariant, `TypeOK`, `OnlyAgeGoesUnseen` |
| | `ApiRoleSubscribersCurrent` | `RoleSubscribersCurrent`, if role subscriptions have no filters |
| | `ApiImplementsFeed`, `ApiSubscribersCurrent` | every step is a step of ConsumerFeed or a stutter; at rest a subscriber knows what was observed: if every filter on kinds lets availability through |
| Editor | `EditorInvariant`, `EditorTypeOK` | the inductive invariant, `TypeOK` |
| | `EditorSessionIsOwn`, `EditorDraftsHangTogether` | `SessionIsOwn`, `DraftsHangTogether` |
| | `EditorNoSilentRebase`, `EditorWorkEndsOnPurpose`, `EditorSavedIsPresented` | `NoSilentRebase`, `WorkEndsOnPurpose`, `SavedIsPresented` |
| Signal graph | `GraphInvariant`, `GraphTypeOK` | the inductive invariant, `TypeOK` |
| | `GraphHeldWasValid`, `GraphActivationKeepsAge` | `HeldWasValid`, `ActivationKeepsAge` |
| | `GraphDecisionsAreForced` | `DecisionsAreForced` |
| | `GraphClaimsAreProven` | `ClaimsAreProven`, if `CountsStandAlone` |
| | `GraphOpeningFieldsAgree` | `OpeningFieldsAgree`, if `OpeningsAsBuilt` |
| | `GraphPhysicalNeverGuessed` | `PhysicalNeverGuessed`, if `CountsStandAlone` and `PhysicalAsBuilt` |
| Judges | `GatesInvariant`, `GatesShadowClaimsHaveSources` | contracts have the fields of their graph, `ShadowClaimsHaveSources` |
| | `TimeConvincesNoJudge`, `GatesTimeAloneProvesNothing` | `NoJudgeGains`; `TimeAloneProvesNothing`, if `BooleansReadBooleans` |
| | `LiveEvidenceSatisfiesOwner`, `GatesOwnerNeverOutruns` | the owner's gate passes what live evidence proves for every record; `OwnerNeverOutruns`, if `MatrixAsBuilt` |

The hypotheses in the table about the first components are two constants of
section 3 (`CacheMayFail`, `CallsSpanUnload`) and two conditions on filters. None can
be dropped: for each of the first two TLC finds a counterexample when it is set the
other way; a role subscription with filters, or
one that hears of values but not of availability, is not told of a revision that
takes its contract away.

Those about graph and judges are conditions on the configurations. The registry
does not impose them (`validate_registry_payload` lets any strategy serve any
field); the pilot's builder and matrix satisfy them, and TLC evaluates them on the
instances of the runs (`GraphTheoremsApply`, `JudgeTheoremsApply`):

* `CountsStandAlone`: no fusion reads an `opening_source_count`. A count is proven
  by contacts of any age, and whatever read it would rest on them.
* `OpeningsAsBuilt`: state, availability and openness of an opening are the three
  fusions of `build_pilot_fusions` over the same two contacts, with one time to
  live and a negative default. Other strategies or inputs tell other stories.
* `PhysicalAsBuilt`: contacts or a selection of equal sources decide a physical
  state. With `any_true` over two sources TLC finds it claimed, in four states,
  against a current source that denies it.
* `MatrixAsBuilt`: a required field with records has one in conflict or is the state
  of an opening; availability has none. The owner's gate looks at records and not at
  how their values go together, so that with a candidate for any other field it may
  pass what the fusion cannot decide.
* `BooleansReadBooleans`: a contradiction between equal sources ends when the older
  of them expires, and a Boolean fusion over `first_healthy` or `latest` would then
  decide with time.

### The arguments

*Store.* One active revision per household is not inductive: that
`ActivateCandidate` may add an active row depends on what the transaction read
three statements earlier. `IInv` therefore says, for each connection and each
statement, (`HoldsLocks`) which locks it holds, (`ReadsStayCurrent`) that what it
read under them is still so, and (`WritesPlanned`) which writes it may have
planned. A commit of another connection cannot disturb this: to write a row it
must hold that row's lock, and to change the active revision of a household it
must hold that household's profile lock. The refinement needs no mapping beyond
the identity on `rows`: `Commit` is `Activate`, `Reject` or a stutter,
`CreateRevision` is `Create` or a stutter, everything else stutters.

*Service.* What a runtime or a cache may hold depends on what a call brings back
from the repository, and that on the order of activations. `IInv` ties the three
together: the history `acts` follows the table (`ActsFollowTable`), installed and
cached snapshots are entries of it (`InstalledSound`), what a call found is one
too (`CallsSound`), and only one call of a process is between repository and
runtime (`OneCall`), which is what the activation lock is for. `HandoffInOrder`
adds that a call never carries something older than what runs.

*Entry.* `LInv` numbers loads and graphs in the order they come up, keeps the queue
of the activation lock in order and says which sources are listened to in each
phase of a load. That signals are current needs more (`SInv`): a graph under
preparation is seeded from the active one only, nothing is observed before the
listeners exist, and an active graph that the entry has not bound is silent.
`NeverFallsBehind` follows step by step: whoever returns with a new graph while the
entry is loaded finds its listener registered, so that graph is bound in the same step.

*Feed.* That a subscriber who is owed nothing knows the present part is inductive
only together with `DebtsAreLive`: a subscription that begins must not inherit a
debt of an earlier one of the same name.

*Consumer API.* A dispatch may be interrupted by callbacks that start others, so
what a subscriber was told last may well be old. `AInv` looks at everything still
to come: for every subscriber and contract, the newest of the updates it was given
and of those that dispatches under way still hold for it is the present
(`NewestKnown`); the revisions of the dispatches decrease outwards (`StackFits`);
what changed since it was observed is on the list of a dispatch (`Seen`); and what
is subscribed to is observed (`WatchedObserved`). The refinement follows: a
dispatch that begins a contract is `Publish`, a callback is `Tell`.

*Editor.* The service's draft, the page's copy and the message under way must name
one owner, household and base. `EInv` says so for each place a call can be at
(`PageSession`, `CallSession`, `CurrentSession`), and what is left of a script is
safe for unsaved work (`CallFits`).

*Graph and judges.* `GInv` types the evidence, keeps refused configurations out and
says that what is held was valid; a prepared graph has no signals of its own, so
what an activation carries over comes from the running one. It is enough for the
rest, because what is said of fields is said of the evaluation of one graph whose
configuration is accepted. The work is the recursion. `Leaves`, `Selection` and
`Truth` are recursive functions over the fusions of a configuration: that `Acyclic`
has them exist and obey their equations, and that what holds of a fusion when it
holds of the fusions it reads holds of all, is an induction along the order of
`Acyclic` (a smallest counterexample, from the library's well-founded minima); what
`Those` takes from the candidates is one along their positions. On this rest

* `Grounded`: what a fusion comes to rests on sources below it, a complete one on
  some and, except for a count, on current ones (`ClaimsAreProven`);
* `Truth` and selection compared from the leaves up: a fusion that has decided has
  the value of every full assignment that agrees with its current sources
  (`DecisionsAreForced`);
* the three opening strategies reduced to the same pair of contacts
  (`OpeningFieldsAgree`, `OwnerNeverOutruns`);
* two graphs, now and later, compared from the leaves up: a signal that is fresh
  later is fresh now, so a decision that is complete later is complete now
  (`Keeps`), and waiting helps nobody (`TimeAloneProvesNothing`).

The proofs asked for guards that exclude each other. Where the alternatives of a
`CASE` overlap, TLC takes the first, as the code's chain of `if`s does, but the
logic leaves the choice open; where a proof rests on the order, the guards now say it.

### Only model-checked

Liveness and ENABLED are out of the prover's reach: `CallsReturn`,
`RuntimeConverges`, the fairness of the feed within `FeedSpec`, and the
counterexample to `DiscardHelps`. Every invariant and every safety property of the
passing runs is stated by a theorem, under the hypotheses above.

## 5. Plan

Modelling is where the code's own logic ends: what is left is listed in section 6.
What is left to prove is smaller than what is proved: that the hypotheses about the
configurations follow from `build_pilot_fusions` would need a model of the builder,
and the role subscriptions with filters need a weaker promise than
`RoleSubscribersCurrent`.

## 6. Not modelled

* Formatting, logging, translation, presentation and the configuration flow; the
  read-only diagnostic commands; entities and sensors, which project a contract.
* The pool (`registry_bootstrap.py`): which call waits for which connection is
  decided inside asyncpg; every call holds one connection at a time.
* The envelope of the cache with the records of both households, and the structure
  and limits of transfer documents: each is one function without concurrency.
* The content of payloads in the store and the service (a payload is a model value
  there, and validation the set of those it accepts); checksums, normalisation and
  the JSON form.
* In EntryLifecycle: a setup that fails after it has registered its runtime,
  signals restored from storage (no code of the repository writes that store), and
  the closing of the consumer API with the last entry.
* In SignalGraph: numeric conversion and lineage, and reasons and diagnostic texts.
* In ConsumerApi: lookups, requirement states and impacts, overrides, disabled
  consumers and coroutine callbacks, which the API starts as tasks without looking
  at them again; the second household.
* In EvidenceGates: evidence-only bindings, the report around the live evidence, the
  checks of the matrix at its construction, the real matrix of the pilot, and the
  capability in the fallback by name of `_field_binding_ids`
  (`shadow_verification.py:336`), which confirms nothing either way.
* In RegistryEditor: the list of candidates, export and migration hints, the form
  checks of the browser that precede a request, and drafts nobody can name any more
  (after a rollback, or a change of the user, the service keeps them in memory). The
  schema of a contract that a fusion creates is one fixed content (`Request`), and the
  inputs and the contract of a fusion are constants (`InputsOf`, `ContractOf`), while
  the form may choose and change them (`registry.svelte.ts:210`,
  `FusionEditor.svelte:35-43`): a fusion that turns to other inputs is not followed.
* The contract store of the frontend (`store.svelte.ts`), which polls and shows: it
  may show the other household for one interval after a switch.
