# Verification project for proton-vpn-kde

TLA+ models of the backend of proton-vpn-kde (`backend/proton_vpn_kde_backend/`),
TLC configurations that check them on small instances, and TLAPS proofs of the
properties that matter most, for every value of the constants.  Line numbers are
those of the commit this directory stands beside; the correspondence of every
definition is in `PROJECT.json` under `map`.

    tlc -workers 2 -config ControllerOwnership.cfg MCController.tla
    tlapm ControllerProofs.tla

## 1. The system

A per-user D-Bus service written for asyncio owns Proton's networking core.  Two
C++ processes, the desktop window and the resident tray agent, talk to it; so do a
KCM and a KRunner plugin through the agent.  Everything in the backend runs on one
event loop: there are no data races between its coroutines, and all that can go
wrong goes wrong between two awaits, in Core's own worker threads, in a second
process, or in a crash.

| component | source | state | operations |
|---|---|---|---|
| operation controller | `controller.py` | `_operation_lock`, `_settings_lock`, `_session_side_effect_lock`, `_cleanup_dispatch_lock`, the active tasks, `_cleanup_operations`, `_session_epoch`, `_closing`, the snapshot | the D-Bus methods that reach the adapter, the cleanups (Disconnect, capture Stop), shutdown, snapshots |
| client authorization and idle lifetime | `client_authorization.py`, `lifetime.py`, `dbus_service.py`, `secret_payload.py` | authorized names, tombstones, leases, generations, one-use keys, `_changed`, `_idle_since` | Authorize, RegisterClient, UnregisterClient, NameOwnerChanged, issue and use a key, the lifetime loop |
| packet capture and its journal | `packet_capture.py`, `capture_recovery.py` | generation, connection, deadline, watchdog task, the stop lock, a file | Start, Stop, watchdog, tunnel loss, recovery, shutdown |
| connection owner | `adapters.py` | connection scope, manual target tasks, `_connection_intent_generation`, the Core connector | connect by target, Disconnect, the disconnected barrier, supersession |
| automatic reconnection | `reconnector.py` | retry task, generation, suspension tokens, a pending Error | status updates, enable, suspend, retry |
| session and account transition | `adapters.py`, `account_transition.py` | the saved session, the restart record, the authentication state, the kill-switch compensation | startup, login, 2FA, logout, expiry, recovery |
| transactional settings | `adapters.py`, `core_settings.py` | persisted settings, the runtime settings, `_settings_state_unknown` | save, rollback, refresh |
| background refresh failures | `refresher_events.py` | one worker, one notice | notify, retire |
| security key interaction | `fido_interaction.py` | the prompt thread and its condition | prompt, cancel |
| owned tasks and scopes | `task_scope.py`, `async_utils.py` | owner of a re-entrant scope | enter, inherit, `await_owned` |
| process lifecycle | `__main__.py` | signal event, ordered teardown | start, publish, close |
| Core translation | `core_*.py`, `models.py`, `snapshot_contract.py`, ... | none | pure conversions |
| demo adapter | `demo_adapter.py` | a scripted VPN | stands in for Core |
| resident agent | `src/AgentVpnClient.cpp`, `src/OperationCompletion.h` | service generation, the transient lease, a queued connection, an operation of unknown completion | authorizes, registers, forwards, reconciles after a timeout |
| desktop controller | `src/VpnController*.cpp`, `src/SettingsRequestState.h` | requests with unknown completion, revision gates | calls, snapshot gating |
| background quit | `src/BackgroundQuitCoordinator.cpp` | a pending quit | quits after a disconnected snapshot or a timeout |
| secret transport, Qt models, QML, packaging | | none between calls, or presentation | |

How they interact.  A frontend registers its bus name (authorization: a probe of
`/proc` and of the bus, asynchronously) and holds a lease; the loss of the name
revokes both.  A method call is checked against the authorized names, becomes a
coroutine of the controller and there waits for its lock and its deadline before
it calls the adapter.  The adapter changes Core's connector, session and settings;
Core reports states from worker threads through `call_soon_threadsafe`; every
report becomes a snapshot, which the controller publishes and which moves the
session epoch, the capture coordinator and the lifetime loop.

What is hard: the caller of an operation can be cancelled while its Core call
cannot; a deadline can fire beside the completion; cleanups overtake ordinary work
but must not run into a transaction; a probe answers after the name is gone; a
capture goes on in Core after its owner died; a newer target replaces an older one
that is inside a worker thread; a record on disk outlives the process that wrote
it.  `PROJECT.json` lists each of these under `hazards` with its line.

## 2. What each component promises

* Controller: one owner at a time; accepted cleanups go ahead of all that has not
  started, never into a transaction; nothing crosses an account change; settings
  are published in the order they were saved; shutdown closes the adapter last and
  ends.
* Leases: only a present, trusted frontend whose request nobody took back has
  one; nothing is remembered of a frontend that left; the service stops when, and
  only when, nobody needs it.
* Capture: before Core may record there is a durable deadline; a live process
  watches whatever Core may record; it does not record for ever.
* Connection owner: the last intent wins; a Disconnect that returned leaves no
  older connection to come up; only one target is inside Core.
* Reconnector: no retry while suspended, disabled or closing; no lost Error.
* Account transition: no two accounts share a process that failed to retire the
  first; kill-switch protection is never silently lower than requested.
* Settings: after a failed save either both copies are the old ones or the state
  is declared unknown until reread.
* Agent and desktop: an answer of an older service or request changes nothing; an
  unknown completion is reconciled before the interface believes it.

## 3. Modules

`Controller` models `BackendController` as a whole.  A request is a model value;
`Class` gives the entry point it calls (connect, capture Start, login, settings
writes, reads, ...) and the operators of its first section say in what the entry
points differ: whether they serialize, need a session, compensate when cancelled,
take an inner lock.  `pc` is the place of a request's coroutine between two awaits
(`queued` for the operation lock, `begun` between the ownership of that lock and the
first turn of the child that carries the operation out, `waiting` for the inner lock,
`core`, `answered`, and the refresh after a settings save), `cleanup` is
`_cleanup_operations` with the progress of each task (`_execute_cleanup`: join the
capture Start, join the foreground owner, take the dispatch lock, Core), `close` that of `_close_once`.  One
action is the code between two awaits.  `Retire` is the boundary at which the
process exits rather than answer for a call it cannot confirm.

`OperationOwnership` is its abstract specification: an owner, the pending
cleanups, the one being executed, whether work is admitted, whether the adapter is
shut.  `ImplementsOwnership` maps the operation lock, the registries and the
progress of `close()` to those five variables.

`ClientLease` models the handshake of a frontend and the loop that ends an idle
service: `ClientAuthorizer`, `BackendLifetime`, the D-Bus methods that register and
withdraw, and the one-use keys of `SecretPayloadReader`.  A call is a model value
with a sender and a method; `Begin`, `Confirm`, `Admit` and `Refuse` are the parts
of its coroutine, `HearLoss` the `NameOwnerChanged` handler with both callbacks,
`LoopTurn` one turn of `BackendLifetime.run`.  The loop waits for an event, and what it
looks at when it wakes is of two kinds: `snapshot`, each change of which is published
and sets the event, and `recovery`, the records of earlier processes, which are files
read at each look and cleared by `ClearRecovery` inside `initialize` without waking
anybody.  `LeasePromise` is the abstract
specification: leases are granted to requests nobody took back, and the service
does not stop under a lease or a request.

`PacketCapture` models `PacketCaptureCoordinator` and its journal.  Five owners may
stop a capture (the watchdog, a client, a failed Start, shutdown, recovery);
`stopper[o]` is where each of them is at the shared lock.  The journal can fail
before or after the step it makes durable.  `Crash` loses all but the file, the
tunnel and Core's recording, which belong to other processes; `Boot` recovers.
`CaptureHandoff` is the abstract specification: a record of the deadline exists
from before Core is asked until Core no longer records.

`ConnectionOwner` models who may drive Core's connector: the manual targets of
`adapters.py`, the Disconnect and the reconnection preference that supersede or
suspend them, the expiry of the session, and `AsyncReconnector`.  `place[a]` is where
the task of a request is: `join` (the retry task is joined), `retire` (the older
targets are cancelled and joined), `prepare` (the awaits before the connection scope),
`scope` (waiting for `_connection_scope`), `up` and `accepted` (inside the call to
Core, before and after Core took the attempt), `down` and `await` (the disconnected
barrier), `apply` (the rest of the scope), `auth` (waiting for the authentication
scope after an error that may mean an expiry); the retry task also has `wait`.
`rec` is the reconnector: `slot` is `_retry_task`, with `new` for a task created and
not yet started and `dead` for one cancelled in that state; `pending` is
`_retry_pending`, `current` says that the generation of the task in the slot is still
the latest.  Core's connector is a small machine of its own (`CoreMoves`,
`TunnelMoves`, external): a second Up queues behind the stop of the connection there
is, and every change is reported to the adapter and the reconnector.  An attempt is
the number of the intent it was made for, so the ghost variables `released` and
`superseded` can say which attempts must not come up.  The model begins in a process
that has signed in, enabled reconnection and has no connection.

`AccountTransition` models the session of a Proton account across processes: the
startup of `ProtonCoreAdapter` with the record of `AccountTransitionJournal`,
credentials and second factors, sign-out with the teardown of the tunnel and the
kill switch at zero, expiry, and the process that replaces this one.  The
authentication scope serializes these operations, so `proc.phase` alone says where
the operation under way is.  The disk (`session`, `record`, `stored`) and the tunnel
outlive the process; `outgoing` is a process that has left the bus and whose
refreshers may still save its session.  Every call of Core may fail before or after
it took effect, and a crash may come between any two steps.

`SettingsSave` models the transactional save: the write of Core's worker that may
commit although its caller was told otherwise or has gone, the drain that waits for
it, the rollback write, and the session that is closed as `settings unknown` where
neither can be confirmed.  The optional reporting of Core (its telemetry queue and its
crash sender) is disabled along the same paths.  An expiry may run beside a save.

`ServiceProcess` models one process from its bus connection to its exit status (`run`
and `_run_service`): publication in order, initialization as a task that the stop may
cancel, the ingress fence, the teardown with its budgets, the retirement of tasks and
threads, and what the exit status says to systemd.

`AuthenticationScope` models who waits for whom: the security key whose operation
holds the scope while a thread of Core waits for the user, the worker of the refresher
notices, a read that finds the session expired, sign-out, and the shutdown that joins
them all.  `posts` are the status callbacks the prompt thread has handed to the loop,
`relay` is `RefresherFailureRelay`, and `session` carries the generation and the epoch
to which Core's callback is bound.  `SubmitAssertion` ends an assertion in every way
`_authenticate_fido2` can: Core refuses it, its answer is lost, or the sign-in is complete
and the services of the session start or fail, with the rollback and the record that then
go well or badly.  `session.started` is what `_session_services_started` remembers of it.

`AgentClient` models `AgentVpnClient` over a bus, with what the service does with each
call (`lifetime.py`, `dbus_service.py`): `agent.waiting` are the replies its handlers
still accept, `agent.out` what it has sent, `toAgent` what the bus brings.  A reply
whose service, lease or operation generation is out of date is discarded by its
handler, so here its call leaves `waiting` when that generation moves.  A process of
the service may die and be replaced; the bus gives up on a reply at most `MaxTimeouts`
times, whether the call is carried out or not.

`MCController`, `MCClientLease`, `MCConnectionOwner` and `MCSettingsSave` hold the small
populations for TLC; the other bounds are in the `.cfg` files.  The proofs are in
`ControllerProofs`, `ConnectionProofs`, `LeaseProofs`, `CaptureProofs`, `AccountProofs`,
`SettingsProofs`, `ServiceProofs` and `ScopeProofs`, one for each component.  Only
`LeaseProofs` has two: the leases as the service grants them, and as the agent counts on
them.  `AgentLease` holds the two variables and the property the sides share.

## 4. What TLC checks

| run | module and bounds | what it shows |
|---|---|---|
| `controller_ownership` | a connection, a capture Start, a save, a queued preference, both cleanups, one account change, shutdown, all deadlines | one owner of each lock; no tear-down under a transaction; a cleanup waits for the capture Start it found; the adapter is closed last; the controller implements `OperationOwnership` |
| `controller_sessions` | a save of one family, a save with its refresh, a read, Disconnect, two account changes, two saves | no cleanup, operation or read starts in another session than the one that accepted it; settings are published in the order of their saves; a read never answers for another account; shutdown cancels no dispatched transaction |
| `controller_liveness` | a save, a read, a capture Start, both cleanups, shutdown; no deadline is assumed to fire | every cleanup and shutdown end, so that no wait for a task, a lock or the dispatch slot is part of a cycle |
| `client_lease` | two frontends; two registrations, an authorization and a secret in flight; one key; one withdrawal; starting, with or without records to recover, and ready with a capture or idle | a lost name holds nothing; nothing is kept of a name without a reason; the grace is never stale; leases implement `LeasePromise`; an idle service stops |
| `packet_capture` | deadline after 2 ticks, clock 4, three connections, four generations, one crash | what Core may record is watched up to the deadline on disk; one Stop at a time; the journal keeps `CaptureHandoff` through crash and recovery; a capture ends while a process lives |
| `connection_owner` | two targets, Disconnect, the preference on and off, the retry task, three requests and an expiry | one task in Core; no replaced attempt and none older than a finished Disconnect stays; a retry yields; a drop has a retry task; every request ends |
| `account_transition` | two accounts, three failed calls or crashes | while anything can save the session of one account no other is admitted; a tunnel always has the session that can take it down; no record is left without a way to recover but after a sign-out without a session; a failed sign-out neither lowers the kill switch of a session that is on nor claims one that is not in force; a recorded account change is completed by a later process |
| `settings_save` | patches of one field each: both directions of the kill switch and of telemetry, and the features that exclude one another; a write and its rollback; an expiry beside them | a save is answered with what is on disk, and no write outlives its answer; no two exclusive settings are on disk; optional reporting stays off without a preference |
| `service_process` | two calls; a start, a signal, an idle stop, and failures of every step of publication and teardown | a published service is complete; the name is held until the adapter is closed or the teardown has failed, and status 0 is never reported over work left behind; a process that begins to leave is gone |
| `authentication_scope` | two prompts of an assertion; the end of the session by expiry and by sign-out; notices of both kinds, a failed read, a shutdown | no notice without a worker, no prompt after its operation but in the case of section 6, no word of a signed-out session, nothing at work after close; nobody waits for the scope for ever |
| `agent_client` | two requests of the user, one reply the bus gives up on, two processes of the service | a lease the agent counts on is held; an operation is not shown for ever; a lease is given back once no connection is queued |
| `lost_retry` | one target, Disconnect, reconnection on: expected to fail | the defect of the next paragraph |

**A retry that is lost.**  `AsyncReconnector._retry_after` gives its slot back in a
`finally` block and then re-arms a pending Error.  A task that is cancelled between
its creation and its first step never gets there: `_retry_task` then names a finished
task.  `suspended()` empties the slot when it joins, but a status update
(Connected, or a final Disconnected) cancels without joining.  An Error after that
finds the slot taken, sets `_retry_pending`, and nobody is left to look at it:
reconnection is silent until some request suspends and resumes it.
`PendingErrorHasOwner` states what the comment before the block says and TLC refutes it;
`DropIsRetried`, which holds, is the weaker fact that the slot is taken.

**Bounds.**  They are small on purpose: every hazard in `PROJECT.json` needs two or
three actors, and each run has them all in flight together.  The two controller
populations are split by what they can interfere over (the operation lock and the
cleanups; the settings lock and the account), as one population with all classes is
too large.  `MaxEpoch`, `MaxSaves` and `MaxGeneration` allow the value read before an
await to be stale once more than it takes to notice.  Three connections and a clock
of twice the capture limit let a Start return two tunnels late and a recovered
deadline pass.  Three requests are what it takes to replace a target that replaces
another.  Three faults let a call fail, its compensation fail, and a crash follow; two
accounts are what a foreign session takes.  Two requests let a connection be replaced
by a disconnection while its lease is on the way; the service of `agent_client` acts only
once the agent has read its inbox (`MaxInbox`), which leaves the order of the agent's
own calls and of their answers free, but not two unread messages of one process.
`CHECK_DEADLOCK FALSE` is in every `.cfg`: processes stop, frontends go
away, and a connector may stay as it is.

**Every property has a mutant** of the code that breaks it (`PROJECT.json`, `mutants`):
a dropped lock, a wake-up that is lost, a superseded attempt that is kept, a
tombstone that is forgotten, a watchdog that is not restarted.

**Fairness.**
* `Controller`: weak fairness of the steps of each task, since a ready coroutine runs
  and provider transports have timeouts; strong fairness of taking a lock, since
  `asyncio.Lock` is FIFO.  Deadlines are never assumed.
* `ClientLease`: weak fairness of the lifetime loop and of its timer.
  `IdleServiceStops` has a premise of its own, `RecoveredStartEnds`: an initialization that
  has cleared the records goes on to its end.  `initialize` awaits Core after it, so this
  is an assumption about Core; the property is false without it (section 6).
* `PacketCapture`: the clock runs, tasks run, `asyncio.Lock` is FIFO, and Core stops a
  recording if asked for ever (the watchdog retries without end); without the last
  the code promises no more than the retries.
* `ConnectionOwner`: one weak fairness condition for the whole loop: while some task
  is ready or a Core call is out, some step is taken.  Deadlines, which would only end
  the process, are not needed, nor is a fair lock, nor a tunnel that changes.
* `AccountTransition`: the process goes on with the operation it is in, the bus or
  systemd starts the next one, an outgoing process ends (`KillMode=control-group` ends
  its children with it), and the service is stopped again and again while a record
  waits, which the message shown to the user asks for and the idle lifetime does.
* `SettingsSave`: none; its properties are of safety.  That a save ends is left to Core,
  whose worker ends each write, and to the deadlines.
* `ServiceProcess`: the process takes its own steps and its timers fire; nothing is
  assumed of the bus, of Core, of a cancelled task or of a thread.
* `AuthenticationScope`: the loop runs what is ready; strong fairness where a task waits
  for the scope, as `asyncio.Lock` is FIFO; Core's assertion ends once it is cancelled.
  The user need not answer, and no deadline is assumed: with them the waits would end
  in any case, by the end of the process.
* `AgentClient`: the agent's loop, its timer and the bus go on, and a process that lives
  answers.  That a process dies or a reply is lost is never required.

## 5. What TLAPS proves

For all sets of requests, names and calls and for all bounds, from the named
assumption of the module: `ControllerAssumption` (the classes exist and the special
tasks are no requests), `OwnerAssumption` (targets, cleanups and the retry task are
different tasks), `LeaseAssumption` (calls have a client and a method; the sets are
what their names say), `CaptureAssumption` (limits are numbers, and a capture lasts at
least one tick), `AccountAssumption` (the two values that stand for no account and for
a process that has ended are not accounts), `SettingsAssumption` (a request names fields
that can be saved and gives them Boolean values), and `PromptsAssumption` and
`AgentAssumption`, whose bounds are numbers.  `ServiceProcess` assumes nothing of its
callers.

| theorem | says |
|---|---|
| `ControllerProofs!TypeCorrect` | every state is well typed |
| `ControllerProofs!OwnershipSafe` | a mutation in the adapter holds the operation lock, a settings or account call its inner lock |
| `ControllerProofs!DownIsExclusive` | no tear-down under a transaction |
| `ControllerProofs!CleanupsJoinCaptureStart` | a cleanup follows the capture Start it found |
| `ControllerProofs!DispatchesInSession` | nothing accepted before an account change counts as of the new session; no cleanup is dispatched, no operation and no read started outside its own |
| `ControllerProofs!ReadsAreFresh` | no account data crosses an account change |
| `ControllerProofs!SettingsNeverRegress` | published settings never go back |
| `ControllerProofs!TeardownIsLast` | the adapter is closed after all accepted work |
| `ControllerProofs!TransactionsSurvive` | shutdown cancels no dispatched transaction |
| `ControllerProofs!ControllerKeepsPromise` | `Controller` implements `OperationOwnership` |
| `ConnectionProofs!ConnectionTypes` | every state is well typed |
| `ConnectionProofs!OneTaskInCore` | one task in Core |
| `ConnectionProofs!RetryAlwaysYields` | a retry enters Core only when nobody suspends it |
| `ConnectionProofs!SupersededNeverStays` | a replaced attempt is down when the scope is free |
| `ConnectionProofs!DisconnectStaysFinal` | a Disconnect that returned was the last word |
| `ConnectionProofs!DropsAreRetried` | a dropped connection finds or makes a retry task |
| `LeaseProofs!LeaseTypes` | every state is well typed |
| `LeaseProofs!LostFrontendsHoldNothing` | a frontend whose loss was reported holds no authority, lease or key |
| `LeaseProofs!NothingIsRemembered` | tombstones and generations end with the last handshake |
| `LeaseProofs!GraceIsFresh` | every change of the leases restarts the idle grace |
| `LeaseProofs!LeasesAsPromised` | `ClientLease` implements `LeasePromise` |
| `CaptureProofs!CaptureIsWatched` | a live process watches what Core may record, up to the deadline on disk |
| `CaptureProofs!StopsAreExclusive` | one Stop at a time |
| `CaptureProofs!JournalKeepsPromise` | `PacketCapture` implements `CaptureHandoff` |
| `AccountProofs!AccountTypes` | every state is well typed |
| `AccountProofs!AccountsHandedOver` | while anything can save the session of one account no other is admitted; a tunnel has a session that can take it down; no record is stranded |
| `AccountProofs!ProtectionIsKept` | a failed sign-out neither lowers the kill switch of a session that is on nor claims one that is not in force |
| `SettingsProofs!SettingsTypes` | every state is well typed |
| `SettingsProofs!SavesSettle` | a save answers with what is on disk, no write outlives its answer, exclusive settings are never both on disk |
| `SettingsProofs!ReportingStaysOff` | optional reporting stays off without a preference on disk |
| `ScopeProofs!ScopeTypes` | every state is well typed |
| `ScopeProofs!NothingIsLeftBehind` | no notice without a worker, no prompt after its operation but that of a sign-in neither served nor recorded, no word of a signed-out session, nothing at work after close |
| `LeaseProofs!AgentTypes` | every state of the agent, its service and the bus is well typed |
| `LeaseProofs!AgentLeaseIsHeld` | a lease the agent counts on is held by its service |
| `ServiceProofs!ServiceIsOrderly` | a published service is complete, its name covers its work, a success is honest |

*The controller.*  None of the properties is inductive.  `Locking` adds to `OneOwner`
that a lock names a request that is at a place where it holds it, and that a waiter is
a task that still waits.  On it rest `Preemption` (what a dispatched cleanup has waited
for has ended, and nothing entered meanwhile), `Sessions` (an epoch stored with a task
is that of its admission), `Versions` (what is handed over under the settings lock is
not older than what was published), `Shutdown` (the phases of `close()` leave nobody
behind: each lock it holds implies that its users are done) and `Cancellation` (only
callers are cancelled once their child is dispatched).  The refinement also uses
`OneCall`: one cleanup is in Core.

*The connection owner.*  `OwnerInv` is `TypeOK` with `Scoped` (who is in Core owns the
scope, and the scope is owned by somebody in Core), `Counted` (numbers are ordered; a
process expires once, and what it admitted before is then obsolete) and `Suspended`
(the running retry task holds the slot; every request at work holds a suspension; a
retry that waits for the scope uncancelled is enabled and not suspended: this is what a
reset without a cancel breaks).  `SafeInv` adds `Numbered`, `Compensated` (an attempt
that was superseded in Core has an owner who is about to take it down), `Distinct` (no
request shares its number with a Disconnect, which needs that a retry is admitted only
beside no Disconnect) and `Final` (who is in Core is newer than every Disconnect that
returned; a Disconnect about to return has seen an empty connector).  The awkward step
is the retry task: it takes the current number rather than a new one, and is newer than
the last Disconnect only because the Error it answers is that of a newer connection.

That a drop is retried needs `Retried`, which speaks of the session while it lasts: a
task that has not started is still wanted (else it is cancelled, and then it is not
`new`); the retry task in the queue of the scope has the latest intent; and where
nobody has asked for another retry, the one that runs is current, is not cancelled and
has not yet left Core.  Each end of a retry then either schedules the next one or ends
with a connector that needs none.

*The leases.*  `LeaseInv` is `Typed` with `Held` (leases and keys come with authority; a
confirmed handshake of a frontend whose loss was reported meets a tombstone),
`NoResidue`, and `Dated` (a registration captured a generation that is not newer than
its frontend's, and an older one if it was overtaken).  `Held` is why a late probe
cannot bring a lost frontend back, `Dated` why a withdrawn registration cannot grant.

*Packet capture.*  `CaptureInv` is `Typed` with `Phases` (which owner of a Stop there may
be in which phase of the process; no watchdog beside a Start in flight), `Recorded` (a
capture in Core has a record and a tunnel, also while no process runs) and `Current`
(while Core may record, a Start in flight or the watchdog carries the arguments of the
present capture).  The point of each step is that the record is cleared only where
Core is off afterwards: an owner that ends its Stop while Core may still record did not
own the present capture, or has nothing to show, and goes on (`StopGoesOn`).

*The process.*  `IInv` joins `Publicity` (what is on the bus in each phase), `Teardown`
(how far the controller is in each phase; nothing is under way once it has closed, and a
task that outlived its deadline is an error) and `Outcome` (what became of the
initialization and of every error on the way to the exit code).

*The account transition.*  What a process may conclude from its phase depends on who wrote
the record, on what the process has started, and on whether the one before it has ended;
none of that is in `AccountHandoff` or `ProtectionKept`.  `Safe` says it phase by phase:
`Stage` (what a process knows of itself), `Recording` (when there is a record, whose it is,
and how much of the change it claims is done), `Sessions` (what is in the keyring, beside
the accounts that something may still save: at most one, and its session or none), and
`Protection` (where the kill switch on disk is not what the session wants, the phase is one
that will write it, or nobody claims to be signed in).  The record is what carries these
facts over a crash: the next process starts from nothing else.  `NeverStranded` needs no
more than `Recording`, and `TunnelAnswered` is inductive beside `Sessions`.

*Settings.*  Both properties speak of the moment an operation ends.  `Consistent` says that
wherever settings are kept (on disk, in Core's object, in the copy for a rollback, in a
write under way) they are free of conflicts; `OneWrite` which write Core's worker holds in
each phase, and that it writes the object as it is now; `SessionKnown` that the epoch tells
an operation when its session is over; `Said` relates the last answer to the disk; and
`Reporting` what the queue and the crash sender were last told.  Without `OneWrite` a late
commit could undo a rollback after the answer.

*Scopes.*  `NothingLeftBehind` speaks of ends, so the invariant says what each task holds
while it runs: `Owners` (the scope belongs to the task whose steps say so), `Key` (the key,
its thread and what the thread posted live inside their operation), `Relay` (a notice has a
worker until the relay is closed), `Closing` (shutdown goes on over what has ended) and
`Leaving` (beside a sign-out no notice and no read is in the scope, and a read that failed is
of an earlier epoch).  That last part is why what was heard before the sign-out cannot
speak after it.

*The agent.*  `LeaseIsHeld` is about a moment at which a reply is read, and the service must
hold the lease then.  `AgentInv` follows each registration the agent waits for on its way
(`Honest`): as a call no withdrawal was sent after it; as a job no withdrawal is on the
way, and if it is probing it has the generation of now; as a reply it tells the truth.
Handlers are functions from agents to agents, so each has one lemma (a good agent remains
good) and an action is the composition of a few of them.  What makes it hold is that
`releaseTransientLease` stops waiting whenever it withdraws, and that the bus keeps the order
of calls of one sender.  Serials are never used by two calls at a time
(`NewIdFacts`), for which the sets of calls must be finite.

TLC finds no violation of these invariants on the bounds of their runs either.

*Only model-checked*: all liveness (`CleanupRetires`, `CloseTerminates`,
`IdleServiceStops`, `CaptureEnds`, `RequestsEnd`, `TransitionEnds`, `ProcessEnds`,
`ScopeNeverStuck`, `AgentSettles`), which the proof system does not reach.
Every safety property of a passing run is a theorem.

## 6. Observations

* A Disconnect joins one that is in flight.  A Connect queued between the two runs after
  both, because the second is the first; a test pins the same order for capture.
* `UnregisterClient` processed before the coroutine of a queued `RegisterClient` has
  started cannot overtake it; the lease then lasts until the name is lost.  The agent can
  do this: `handleSnapshotReply` takes a lease and, where the snapshot has a version it
  does not understand, gives it back in the same turn.  The comment in
  `clearPendingConnection`, that a late reply releases an orphaned lease, does not cover
  this order.  It keeps the idle service alive, no more.
* `_serialized_operation` compares the session in the turn in which it takes the lock; the
  child that carries the operation out begins a turn later and does not compare again,
  and a save or a login also waits for its inner lock there.  An account change in that
  gap meets an operation of the session before.  `DispatchInSession` therefore speaks of
  the start of an operation, and of the adapter for cleanups and reads; the adapter has an
  epoch of its own, which `SettingsSave` and `ConnectionOwner` model.
* The lifetime loop is not woken when `initialize` clears the recovery records: a service
  that has nothing else to do sleeps until the initialization ends and its snapshot is
  published.  If Core kept it waiting for ever, an idle process would stay.
* A snapshot that becomes busy and idle again before the loop has run does not restart the
  idle grace; a lease does at once.  `FreshGrace` is stated for leases.
* When the services of a session cannot start after a security key was accepted, and the
  record of the sign-in cannot be written either (`_complete_login`), the operation ends
  with the last prompt still published.  Core may be signed in, and the started services
  keep everybody from signing in until a sign-out or a `cancel_login`.  `PromptOver` allows this one case;
  `CompleteLoginFails` of `AccountTransition` is the same path.
* After SIGTERM, a capture Stop that nobody confirmed still ends the process with status
  0; the durable deadline covers the recording.  `CaptureEnds` is therefore stated for
  a process that lives.
* An expiry that is cancelled before it disables the reconnector leaves it enabled; its
  retries are refused by the authentication epoch.
* A second sign-out after one that completed stores the record with
  `tunnel_retired=False` again, although no session is left.  A crash then leaves a
  record that startup refuses to recover (it asks for assistance); `NeverStranded` and
  `TransitionEnds` name this case (`resigned`).
* `_recover_failed_logout` publishes the former kill switch when Core says that it is
  signed out, although an ambiguous write of zero may have landed.  `ProtectionKept` is
  stated for sessions that are on.  A `disable_kill_switch_for_login` that fails while a
  second factor is pending leaves a snapshot with a protection the disk does not have,
  and the kill switch shown at a startup with a session is 0 until the settings are read.
* `_load_settings` raises on a moved epoch before it disables usage reporting, against
  the comment that the unsupported sender stays disabled for the lifetime of the process.
  The session is no longer on then, and `OptionalReportingOff` is stated for one that is.
* Once the services of a process have started, it accepts no second login; that is the
  rule behind `NoForeignRefresh` and not a defect.
* `run` leaves `initialized` false after a start that failed or was cancelled, and skips
  `controller.close()`; a start that resists cancellation for longer than its budget makes
  the shutdown report an error.
* A PIN submitted before the status callback of its prompt was delivered leaves
  `fido_pin` shown until the next status; `PromptOver` holds once the operation ends.
* In the agent, after the reconnection preference failed to apply and a snapshot read
  failed too, a connection that is then queued takes the snapshot path: it gets its lease,
  but the preference is not sent again, and connection and lease wait for the next request
  or change of the service.  `AgentSettles` therefore allows a lease with a queued
  connection.

## 7. What is not modelled, and what is left

Not modelled: pure translation (`core_*.py`, `models.py`, which keep no state between
calls), presentation (QML, KCM, KRunner, Qt models), packaging, the demo adapter, and
the encoding and sealing of secrets.  Proton's Core is outside the repository; the
models contain what the backend relies on, marked external in the map.

Left out of the modelled parts: the reconnection preference of the agent changing, an
unverified identity and the agent's own D-Bus interface; the merge of one settings
update into Core's object beyond the fields that exclude each other or report; the
re-entrant scope a child task inherits, which appears only through its effect.

What is left, in this order: the desktop controller, whose reads after a settings write
of unknown completion (`SettingsRequestState.h`) may show either version; background
quit; and a composition of `AgentClient` with `ClientLease` in the place of the short service
it has now.
