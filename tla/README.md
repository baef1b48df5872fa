# AudioPlaybackConnector2: verification project

AudioPlaybackConnector2 is a Windows tray application that lets a PC act as a
Bluetooth speaker: it opens `AudioPlaybackConnection`s to paired devices, keeps
them open over losses, settings changes and sleep, and can be driven from a
command line.  Its C++ is organised around small state machines that several
threads and the platform call in any order.  This directory holds TLA+ models
of those machines, the TLC configurations that check them and proofs that TLAPS
checks.  Paths below are relative to `src/AudioPlaybackConnector2/`;
`PROJECT.json` maps the modelling definitions to their lines; a helper whose few
lines lie inside those of the definition that uses it is mapped with it.

Contents: 1 inventory, 2 modules and how they follow the code, 3 runs,
4 bounds, views and symmetry, 5 fairness, 6 proofs, 7 where the code differs
from what it says, 8 what is not modelled, 9 plan.

## 1. Inventory

### Parts and their state

| Part | State | Operations | Correct when |
|---|---|---|---|
| `core/ReconnectPolicy` | none | `Evaluate`, the delay schedule | the schedule is a capped doubling and ends |
| `core/DeviceSession` | one device: live and closing connection, life cycle, three epochs (operation, timer, close barrier), retry counters, pending close continuation, suspend and cancel flags | `Connect`, `Disconnect`, `CancelReconnect`, `SetReconnectEnabled`, `SetIncomingEnabled`, `HandleDeviceRemoved`, `Suspend`, `Resume`, `ResumeIdle...`, `CancelPowerTransitionRecovery`, `Shutdown`; callbacks of start, open, close, state change and four timers | never two native connections; late callbacks harmless; nothing waits for what cannot come; cancel and suspend hold |
| `core/DeviceWatcher` | running flag, generation, inventory and its version | `Start`, `Stop`, `RefreshAsync`, native events | events and refreshes of an earlier watcher are dropped |
| `core/DeviceService` | sessions by device, settings policy and its revision, suspended/shutdown flags, recovery epochs, completions, published snapshot | connect, reconnect, disconnect, bulk operations, startup targets, policy, power transitions, `WaitForCompletion`, `Shutdown` | waiters are answered; a late cancellation, policy or recovery touches nothing it does not own |
| `core/SettingsStore` | data, revision, persisted revision, timer, writer/load flags, shutdown flags, subscriptions, publication queue | mutations, `Load`, `FlushNow`, `Shutdown`, `Subscribe`/`Reset`, worker thread | no change lost, no write overlapped, no false "saved", ordered delivery |
| `app/PowerTransitionCoordinator` | targets with attempts, generation, delivery sequence, in-flight flag, timer | `HandleSuspend`, `HandleResume`, `NotifyDeviceConnected`, `Cancel`, ticks, completions | one delivery at a time; real attempts counted; nothing reconnected in sleep; it ends |
| `app/ApplicationHost` | window, flags, owned parts | start, events, power messages, teardown | what a start built is undone, and a teardown ends although calls wait for its thread |
| `app/AppController`, use cases, `DeviceFactPublicationFence` | event queue, handlers, revisions, call leases, per-device fences | `Publish`, `Subscribe`, `SnapshotAndSubscribe`, device, default, alias, startup and settings use cases, `Shutdown` | no event lost or delivered after unsubscription; a snapshot is of one instant; result codes are true |
| `app/StartupTaskCoordinator`, `LatestStartupTaskRequestState` | latest and in-flight request, work queue, subscribers | request, refresh, completion, subscribe, stop | the latest request wins and everyone is told |
| `app/UiDispatcher`, `control/ControlUiActionGate` | two queues, stop flag, a gate per action | `Run`, `RunAndWait`, `Stop` | an action is reported as not run only if it does not run |
| `app/UiRefreshScheduler`, `UiRefreshCoalescer` | pending flags, ticket, retry timer | `Request`, `Drain`, retry, `Stop` | a requested redraw is always on its way |
| `app/Adaptive*`, `ResourcePressure*` | sensor state, residency, evidence ages, schedule | probe, reduce, evaluate, schedule | told in order; no promotion on stale evidence |
| `services/CommandLineControlServer` | life cycle, pipe instances, request records and their bytes | start, stop, accept, execute once, deliver, prune | a repeated request runs once; cache stays in bounds; no instance is lost |
| `control/` client and pipe | attempt, server identity, deadline | connect, send, replay, launch, acknowledge | the caller is told the truth about what ran |
| `control/CliParser`, `ControlCommandAdapter` | parse result; mutation flag | parse, validate, dispatch, answer | a request says what was typed; a response stays within it |
| `services/NotificationService`, `RatingPromptPolicy` | registration and its generation, tags | register, show, remove, activate, tear down | toasts belong to the registration that is current |
| `services/TrayController`, `ui/TrayIcon` | picker, timers, icon and its dirty flags | click, load, release, refresh, shell restart | the tray shows the facts; a picker in use is not released |
| `ui/DevicePickerView`, `app/SettingsWindowPresenter` | page, list, refresh in progress, edited alias; current window | refresh, draw, edit, forget, show, close | what is drawn is the snapshot; unsaved text is kept |
| `ui/SettingsWindow` | page, startup switch, language, place, copy in progress | load, toggle, select, move, reset, copy, close | what the window changes by itself is never asked for; the switch follows its owner; the place is kept |
| `util/Logger` | queue, ring, counters, active calls | post, dump, shut down, release | every line is written, dropped and counted, or an error |
| codec, context menu, settings form, diagnostics, crash handler, single instance, resources | files, windows, text | I/O and layout | not modelled, section 8 |

### How they interact

* The settings store publishes a snapshot for every revision.  `AppController`
  turns it into a `DeviceSettingsPolicy` and posts it to `DeviceService`.
* `DeviceService` runs everything on one serialized context.  It owns the
  sessions and the watcher; a session publishes facts into it, and each fact
  resolves waiting completions before it reaches the controller.
* Native callbacks arrive on thread-pool threads and are posted to that
  context.  A post may fail, and then a failure is posted in its place.
* On suspend the host asks the coordinator, which flushes the settings and asks
  the service for the devices that were in use; after resume its timer
  delivers them, on the UI thread, to `ResumeSuspendedSessions`.
* The controller merges what the service, the store and the startup task tell
  into one stream of events; the host's handler queues them to the UI thread,
  where a fence drops the stale ones and `UiRefreshScheduler` redraws.
* A command line client connects to a pipe instance of the command server, the
  server calls the adapter, the adapter the controller, and the controller
  waits for a completion, or through `RunAndWait` for the UI thread, with a
  deadline.
* The tray tells the resource controller of every change of the picker, and the
  evaluation that follows may load, hide or release it; the pressure monitor
  feeds it from pool threads.

### What is hard

Callbacks that outlive the operation, timer or connection they belong to;
closes that are never confirmed; timers that cannot be created; a cancellation
that runs after the operation it cancels is over; settings writes that fail,
hang or finish late; publication from inside callbacks; two suspends in a row;
ticks that overlap; a command sent twice because its answer was lost; a UI
thread that waits for threads that wait for it; system calls that pump messages
and reenter their caller.  `PROJECT.json` lists each under `hazards`, at the
line where it bites, with the properties that would notice it.

## 2. Modules and how they follow the code

| Module | Models | Form |
|---|---|---|
| `ReconnectPolicy` | `core/ReconnectPolicy` | operators |
| `DeviceSessionState` | `DeviceSession::State` and all its member functions | operators from a session record to a session record |
| `DeviceSession` | one session, its callers and the platform | state machine |
| `DeviceSessionProofs` | | theorems about `DeviceSession` |
| `DeviceService` | `core/DeviceService`, `core/DeviceWatcher`, and the policies of the controller | state machine over `INSTANCE DeviceSessionState`, a session per device |
| `DeviceServiceProofs` | | theorems about `DeviceService` |
| `SettingsStore` | `core/SettingsStore` with its threads | state machine |
| `SettingsStoreProofs` | | theorems about `SettingsStore` |
| `PowerTransition` | `app/PowerTransitionCoordinator`, the host's power callbacks and the native timer | state machine |
| `PowerTransitionProofs` | | theorems about `PowerTransition` |
| `StartupTask` | `app/StartupTaskCoordinator`, `LatestStartupTaskRequestState`, `services/StartupTaskController` | state machine |
| `StartupTaskProofs` | | theorems about `StartupTask` |
| `UiRefresh` | `app/UiRefreshScheduler`, `UiRefreshCoalescer` | state machine |
| `UiRefreshProofs` | | theorems about `UiRefresh` |
| `UiDispatcher` | `app/UiDispatcher`, `control/ControlUiActionGate` | state machine |
| `ApplicationHost` | start and teardown of the process, composed with `UiDispatcher`, the controller's leases and the server's stop | extends `UiDispatcher` |
| `Logger` | `util/Logger` | state machine |
| `Notifications` | `services/NotificationService`, `app/RatingPromptPolicy` | state machine |
| `RequestCache` | the request records of the command server | operators from cache to cache |
| `CommandPipe` | the named pipe as both ends use it | shared state |
| `ControlServer` | `services/CommandLineControlServer` | extends `CommandPipe` |
| `ControlClient` | `control/CommandClient`, `Win32CommandTransport`, the control executable | extends `CommandPipe` |
| `ControlChannel` | both ends together, with crashes | extends the two |
| `ControlPipeProofs`, `ControlChannelProofs` | | lemmas about the cache and theorems about the connections; theorems about the commands |
| `ControlCall` | what a caller is promised | abstract specification |
| `TargetResolution` | how a selector becomes one device | operators |
| `AppCalls` | `app/AppControllerUseCases` | state machine, extends `TargetResolution` |
| `AppEvents` | `app/AppController`, `DeviceFactPublicationFence`, the host's event handler | state machine |
| `CommandLine` | `control/CliParser`, the wire rules of `CommandProtocol` | state machine: one command line read argument by argument |
| `CommandAdapter` | `control/ControlCommandAdapter` | extends `CommandLine` |
| `ResourcePressure` | `ResourcePressureState`, `AdaptiveResourcePolicy`, `AdaptiveActionRetryBackoff` | operators |
| `ResourceMonitor` | `app/ResourcePressureMonitor` | extends `ResourcePressure` |
| `TrayPicker` | `services/TrayController` (the picker), `AdaptiveResourceController`, `AdaptiveScheduleState` | extends `ResourcePressure` |
| `TrayVisual` | `ui/TrayIcon`, `TrayController::RefreshVisualState` | state machine |
| `SettingsPresenter` | `app/SettingsWindowPresenter` | state machine |
| `SettingsForm` | `ui/SettingsWindow`, with the startup task and the host's language event as it sees them | state machine |
| `PickerView` | `ui/DevicePickerView`, `ui/DevicePickerViewState`, the settings and use cases behind its buttons | state machine |
| `MC...` | | platform outcomes, scopes and budgets, views, symmetry; `MCApplication`, `MCController` and `MCInterface` hold several components, of which a behaviour takes one, the `subject` |

**DeviceSession.** The record has the C++ members under their own names.  The
handlers of `DeviceSession.cpp` run one at a time on the service's context, so
each is one action; a handler's calls into the platform are answered by a
`PlatformOutcome` chosen with `\E` (a connection is created or not, at which
address, `Open` is accepted or throws, each timer can be armed or not).  What
the session has asked of the platform is the set `callbacks`; any of them may
run next.  Cancelling a timer does not remove its callback, because in the code
it may already be queued: only the epochs tell that it is late.  A connection
is known by its address and the allocator may reuse addresses, so
`IsCurrentConnection` is checked with everything it compares.  `facts` collects
what a handler publishes, and `Settle` hands it to the service at the end of
the handler.  `RestoreIncomingListenerAfterTerminal` is the last call on every
path that makes it, so `Finish` performs it there (`listenerDue`).

**DeviceService.** A task posted to the service is one action.  The commands,
the settings policies, watcher events, refresh results, session callbacks and
the cancellation of a caller that stopped waiting may be posted in any order.
A completion is resolved at each fact of its session in turn, with the first
deciding result kept, as `ResolveOperation` and `Resolve` do.
`recoveryEpochs` is `PowerTransitionRecoveryEpochs`.

**SettingsStore.** A step is what a thread does under one hold of the mutex,
one storage call or one notification.  A condition variable is the guard of the
step that waits on it; the worker's wake-up, which has a version, is modelled
with it (`notified`).  The settings are their revision and the file is the
newest revision written to it; storage may refuse, fail or never answer, and
the original file may be missing, valid, in need of a rewrite or unreadable.
Callbacks run on the publishing thread and may call the store again.

**PowerTransition.** A step is one hold of `ResumeState::Mutex` with the timer
calls next to it, or one call of a callback.  Ticks run on pool threads and
outlive the cancellation of their timer; the reconnect task runs on the UI
thread and is dropped by the stop of the dispatcher.  `owed` and `resumed` are
history variables: what the recovery still owes, and what it really did.

**The control path.** The fields under `m_requestMutex` are one record and each
function that works under that mutex is an operator on it.  A slot of the
server is a `PipeInstance` with the one callback that can be at work for it;
the trust check, the handler and the waits of `Stop` lie between steps.  The
client follows `SendRequest`: an attempt, replays to the same server process
while the outcome is unknown, or the launch of the app and one more attempt if
nothing was sent.  A clock unit is a second or more; within one unit the server
accepts a connection and reads a request that has arrived.  One corner is
excluded: a client that fails on its own side while its request is still unread
in the pipe.  `ControlCall` states the promise in twenty lines (at most one
run, a result only of a command that ran, a refusal only of one that never
will), and `ControlChannel` maps to it by what the handler has executed and
what each client was told.

**ApplicationHost and UiDispatcher.** `RunAndWait` has its gate, its three
events, its deadline and its stop token, and the two ways a task reaches the UI
thread.  The host adds the order in which parts are built, the undoing of a
start that fails, and each step of `PerformTeardown` with what it waits for.

**AppCalls and AppEvents.** The controller owns no data, so its owners are
modelled by what it sees of them: a version each, the settings a target is
resolved with, the devices' states.  A call takes a lease, reads its owners one
after the other, checks versions again, acts, waits; cancellation, deadlines
and the shutdown may come between any two of these.  On the event side the
thread that publishes into an idle stream delivers until it is empty.

**The interface.** Everything runs on the UI thread except the monitor, but
calls into the shell and XAML return later than their effects: handlers are
sequences of steps (`TrayPicker`), calls are a stack (`SettingsPresenter`,
`Notifications`), the shell may refuse and may forget (`TrayVisual`), and a
refresh runs in the background while pages change (`PickerView`).  An
evaluation of the load is three steps: `Evaluate` captures the authorization
under the snapshot mutex and asks the policy, `Perform` calls the picker without
the mutex, `Publish` looks at the authorization again, publishes the status and
schedules the next evaluation.  An observation on the monitor's thread may come
between any two of them, so the picker may be loaded on a permission that was
withdrawn meanwhile, as `docs/INVARIANTS.md:83` accepts.  `PickerFollowsTheLoad`
claims what is left: a load is admitted only when the permission stood at the
capture, and a withdrawn permission is never published; `TrayIsConsistent` adds
that a picker loaded unseen has a timer, an evaluation or an observation ahead
of it.  In
`SettingsForm` the owner of the startup task publishes from its own threads,
snapshots and language events wait in the UI queue while the user goes on
clicking, and a close may come between any two of them; assigning a switch
raises its event inside the assignment, which is why the window has to say when
a change is its own.

## 3. Runs

| Run | Asks | Result |
|---|---|---|
| `session_safety` | one session, any number of calls, refusals and events: no two connections, the live one is heard, every busy state has its way out outstanding, cancel, suspend and the retry budget hold, facts are current | holds |
| `session_over_time` | late callbacks are kept until they run, addresses reused: they change nothing; connecting and waiting come to an end although no native close is ever confirmed; both retry schedules equal their closed forms | holds |
| `session_disconnecting_ends` | `Disconnecting` ends if every close is confirmed | violated, section 7 |
| `session_abandoned_close` | a close that was given up stays terminal | violated, section 7 |
| `store_saving` | callers, the worker, up to three revisions, four kinds of original file, two shutdown modes, two subscribers with reentrant callbacks: nothing is lost or reported saved when it is not, and every subscriber gets every revision once and in order | holds |
| `store_progress` | changes are saved and delivered in the end; `Shutdown` returns although storage and callbacks may hang | holds |
| `service` | two waiting callers against disconnects, cancels, restarts and shutdown; overtaking policies, watcher restarts, refreshes, suspends and resumes | holds |
| `service_held_sessions` | a session held over a suspend is one the delayed delivery restarts | violated, section 7 |
| `control_channel` | replays, lost answers and acknowledgements, eviction and expiry, stop and restart, failing native calls, a process that dies: at most one execution, exact counting, bounded cache, no instance lost, `ControlCall` implemented | holds |
| `application` | startup task, redrawing, start and teardown, recovery after sleep, log and toasts: nothing runs behind what has returned, what is told is so, nothing waits for ever | holds |
| `controller` | use cases side by side, the event stream, target resolution over every small set of records, every command line of up to four words, two requests in the adapter | holds |
| `interface` | picker and load, monitor, tray icon, settings window and its presenter, the picker's contents | holds |

Every property of a run that holds has a mutant in `PROJECT.json`: a changed
definition, kept in the module before the one it replaces, that stands for a
plausible mistake in the code and that breaks the property under the run's own
configuration.

## 4. Bounds, views and symmetry

* `session_safety` has one address, one automatic attempt and two transient
  opens (production: more of each; the handlers compare the counters only with
  their limits), all platform refusals that some handler asks for, and no
  effective bound on epochs or outstanding callbacks (100): the `VIEW
  CurrentEpochs` makes the state space finite.  Handlers compare an epoch only
  with the current one, and an epoch never comes back, so states that agree on
  which epochs are current and on everything else have the same futures.  The
  view forgets late callbacks; that they change nothing is what
  `session_over_time` checks, without a view, with real epochs up to 2 and three
  callbacks outstanding.
* The service runs use the same view, extended to completions, recovery epochs
  and watcher generations, for one device.  There `maxEpoch` is a real bound
  (3 and 4): a state is explored from the first behaviour that reaches it, so
  the bound limits how many operations follow one another and the runs claim
  nothing beyond it.  One device is enough for the properties stated, each of
  which is about the tasks and callers of one session; the bulk operations
  treat the sessions of the map one by one.
* *Scopes and budgets.*  The product of everything that may happen is out of
  reach, and most of it is independent.  `Init` chooses one scope or budget of a
  small set, and the behaviour stays within it: which calls are made, how many
  faults, restarts and deadlines there are.  `SafetyScopes` and
  `ProgressScopes` of the settings store, `MCScopes` of the service, and the
  `Budgets` of the other modules each name the case they are for; each hazard
  has at least one in which its participants meet.  A budget bounds only what
  comes from outside, never a reaction of the code.
* Three revisions let an old write complete after two newer commits.  The
  settings store is symmetric in callers and in subscribers, the control channel
  in pipe instances; symmetry is used in safety runs only.
* `control_channel` has two instances, so that a replay overtakes the connection
  it repeats; a cache of one record, so that every second request meets a full
  one; and life times in clock units with the order of the production values
  (`RetentionAssumption`: an answer outlives the last replay of its request).
* `PowerTransition` has two devices so that one may be exhausted before the
  other, two pool threads so that ticks overlap, two suspends so that targets of
  one cycle meet the next, and two attempts instead of six.
* Texts are sets of fragments (`TargetResolution`) or words known by whether
  they begin with a dash and by their lines (`CommandLine`); the resolution is
  compared with a reference definition over all pairs of records.
* `CHECK_DEADLOCK FALSE` is given where the modelled system may rest: it has
  nothing to do, has been shut down, or its budget is spent.  The settings
  store's runs check deadlock: its callers can always call again.

## 5. Fairness

* `TimerFairSpec` (session): thread-pool timers fire, and starts and opens
  complete, because the platform coroutine answers each with a result or an
  exception.  Native closes are not trusted, which is why the code times them.
  `CloseFairSpec` trusts them too; it is used only for the violated property,
  which fails even then.
* `ThreadFairness` (store): a thread inside a store function goes on, deadlines
  pass, timers come due; strong fairness for the worker finding an armed timer
  due, since flushes of other threads disarm it again and again.
  `StorageFairness` applies only in scopes where storage `answers`: it returns,
  does not refuse for ever, and callbacks return.  In the others neither is
  assumed, and only the shutdown budget is claimed.
* `MCFairness`, `PowerFairness` (application): pool threads go on, timers fire,
  the UI thread runs what is queued, the system answers a startup-task request.
  Requests, connections, suspends and the exit need never come.
* `Fairness` of `MCInterface`: messages, timers and pool threads get their turn
  and an event XAML owes arrives; the user, the shell, the load and faults need
  not come.
* `control_channel`, `controller` and `service` are safety only.

## 6. Proofs

Seven components have theorems.  Each holds for every value of the constants
that the named assumptions of the modules allow: any number of clients, threads,
devices, subscribers or addresses may meet, and since bounds and budgets are
constants too, behaviours may be of any length.

| Component | Proved (theorem: property) | Inductive invariant |
|---|---|---|
| session | `SessionTypeOK`: `TypeOK`; `SessionConnectionsDoNotOverlap`: `ConnectionsDoNotOverlap`; `SessionLiveConnectionIsHeard`: `LiveConnectionIsHeard` | `DeviceSessionProofs!IInv` (`SessionInvariant`) |
| session | `SessionBusyIsAwaited`: `BusyIsAwaited`; `SessionStoppedStaysStopped`: `StoppedStaysStopped`; `SessionSettledStateIsPublished`: `SettledStateIsPublished`; `SessionLateCallbacksChangeNothing`: `LateCallbacksChangeNothing` | `DeviceSessionProofs!Promise` (`SessionPromises`) |
| service | `EveryWaitIsSound`: `WaitsAreSound`; `TheSettingsReachSessions`: `SettingsReachSessions`; `LateWorkActsOnItsOwn`: `LateWorkIsFenced` | `DeviceServiceProofs!Inv` (`ServiceInvariant`) |
| settings store | `ChangesAreKept`: `NothingIsLost`; `SettledStateIsKept`: `WhatIsSettledStays`; `AnswersHold`: `AnswersAreTrue`; `NoRevisionIsMissed`: `SubscribersMissNothing`; `StoreTypeOK` | `Types`, `SavingSound`, `DeliverySound` |
| control channel | `InstancesAreKept`: `NoInstanceIsLost`; `ChannelTypeOK` | `Sound` (`ChannelSound`) |
| control channel | `AtMostOnce`: `CommandsRunAtMostOnce`; `CacheIsKept`: `CacheIsSound` (its parts: `ChannelTypeOK`, `CountsAreExact`, `CacheStaysBounded`); `Refinement`: `ImplementsControlCall` | `ControlChannelProofs!IInv` (`ChannelInvariant`); `Bounded` |
| recovery after a suspend | `RecoveryExact`: `RecoveryIsExact`; `NoReconnectWhileSuspended`, its part of `NothingHappensAfterStop` | `PowerTransitionProofs!IInv` (`RecoveryInvariant`) |
| redrawing | `RefreshIsAwaited`: `PendingIsAwaited`; `NothingIsDrawnAfterStop`, its part of `NothingHappensAfterStop` | `UiRefreshProofs!IInv` (`RefreshInvariant`) |
| startup task | `StartupNothingRunsAfterReturn`, its part of `NothingRunsAfterReturn`; `StartupAnswersTheLatestRequest` and `StartupSubscribersAreUpToDate`, its parts of `WhatIsToldIsSo` | `StartupTaskProofs!IInv` (`StartupInvariant`) |

The run `application` states `PendingIsAwaited` for its instance of `UiRefresh`
and `RecoveryIsExact` as `PowerTransition` defines it.

**Assumptions.** `PolicyAssumption` (delays are naturals in order),
`SessionAssumption`, `DeviceSessionAssumption` (no connection is no address, a
positive number of transient opens, outcomes of the right type);
`DeviceServiceAssumption` (scopes, policies and platform answers of the right
type; any set of devices, the empty one included);
`SettingsStoreAssumption` (disjoint threads, natural bounds);
`PipeAssumption`, `BudgetAssumption`, `ServerAssumption`, `ClientAssumption`
(finitely many pipe instances, at least one replay, natural times) and
`RetentionAssumption`, which says that an answer is kept longer than the last
replay of its request may take (`OverallTimeout + RequestTimeout <
RequestRecordLifetime`, 55 s and 5 s against 90 s in the code);
`PowerTransitionAssumption` (the UI thread is not a pool thread, at least one
attempt); `StartupAssumption` (finitely many subscribers, and a thread that
drains is not nobody), which `MCApplication` assumes of its instance.  TLC
evaluates each in the runs.  Nothing is assumed of fairness.

**Session, ownership.** That connections do not overlap depends on when a retry
timer fires: `OnTransientOpenRetryTimer` creates a connection without looking at
the one the session holds.  It is safe because a session that waits has no close
in flight and, if the timer that is current is a transient one, no connection
(`Waits`), and because no callback is of a later timer than the last one armed
(`TimersArePast`), so that arming a timer makes all older ones late.
`LiveConnectionIsHeard` is needed in turn, since the close begins by revoking
the handler.  Each member function has a contract, proved once: from which parts
of `Good` it may be called and that it ends in `Good` (`Ends`); two frame lemmas
(`Alike`, `Moved`) carry the parts over functions that leave the members they
speak of alone.  A handler's proof follows the calls it makes.

**Session, promises.** `BusyIsAwaited` needs, besides the callbacks it names,
that those of a cancelled or suspended operation are not mistaken for current
ones, and that whoever fires has an attempt left to count.  `Core` and `Calm`
hold whatever `Lifecycle` says, so a member function may be called with them
alone; `Phase` is what depends on `Lifecycle`, and `Settled` what has been
published of it, and both are established again before the function ends.  The
contracts of the first proof are extended by these.  `LateCallbacksChangeNothing`
then follows handler by handler: a callback whose epoch or address is not
current leaves through the guard it meets first.

**Service.** The service holds a session per device and is not interested in how
one works.  What it needs of a member function is `Onward`: the types and the
settings of the session are kept, its epoch is not turned back, and the state it
ends in is the one its last fact tells, is `Disconnecting`, or is unchanged.  The
first half of `DeviceServiceProofs` proves this for every function that a task
calls, following their calls as the session's proofs do, and from typed sessions
only, so nothing of `DeviceSession`'s own invariants is needed.  The second half
goes through the tasks.  `OperationsAreFollowed` is not inductive: a completion
whose epoch is ahead of its session would wait for ever, so the invariant has
`EpochsAreBehind`; that a snapshot decides a completion the moment its operation
ends (`StillFollowed`) is the heart of the proof, and it would fail for a
session that changes without telling.  `OneOwnerPerEpoch` then rests on a command
owning only an epoch it has just caused, which nobody can be waiting for.
`SettingsReachSessions` speaks of quiet states; the invariant speaks of all:
every session obeys the policy in force (`SessionsFollowThePolicy`), policies of
one revision are equal, and the newest one is in force or on its way
(`NewestIsOnItsWay`).  `LateWorkIsFenced` is an action property: only its own
cancellation takes a cancelling caller away (`OnlyItsCancellation`), only a
command, a resume or a suspend forgets a hold (`OnlyTheseForget`), and each is
followed to the sessions it leaves.

**Settings store.** Saving and delivery are proved apart.  `SavingSound` says of
every thread what it carries from one hold of the mutex to the next
(`ThreadSound`: the revision captured for a write is not older than the file's,
the answer it is about to give is true already), that one thread writes
(`OneWriter`), that what counts as persisted is in the file, that a dirty
revision is scheduled or being written, and that loading comes first and a
shutdown stays closed.  `DeliverySound` says who may still be called: only
registered subscribers, each with the revisions that are in line for it, and
where each caller inside a publication stands.

**Control channel.** `Sound` speaks of one slot, of a slot with its pipe, and of
one client at a time; a step of the server changes one slot and takes nothing
new into the pipe, a step of a client changes pipes it owns.  Nothing in it
depends on the cache.  `CommandsRunAtMostOnce` rests on why the record of a
command that ran is still there whenever a copy of the command can arrive: a
request on its way to the handler is registered, an answer on its way out is an
active delivery, a request that can still be read is younger than a record
lives, and the record is acknowledged only when its client has finished
(`Backed`, `Accounted`, `RecordSound`, `Memorable`).  Counting needs the
cardinality of the sets of slots that register or deliver an id, which change by
one slot at a time.  A step is split: it changes one slot and the cache together
(`HoldsStep`), and then prunes (`PruneHolds`); what each cache operation does is
stated at the head of `ControlPipeProofs` and not looked into again.  `Refinement` maps a
step to one of `ControlCall` or to a stutter, from `ChannelInvariant`.
`CacheIsKept` adds the limits.  The cache's byte count is a sum over a set; that
it may be taken in any order and taken apart (`BytesOf`, `BytesApart`) is proved
by the least set for which it would fail, which does without the library's
induction theorems.  `Bounded` is then kept by every operation of the cache,
whatever the rest of the channel does; it says besides that no record weighs
nothing, because finishing one gives back all it had reserved but one unit.

**Recovery.** The fences of the coordinator are a generation, a delivery number
and three flags.  They work because a job is never ahead of the counters and a
cancelled cycle is left behind by every job (`Fenced`), because a job is on one
thread or once in the queue (`HeldOnce`), because the flag and the job that is
live belong together (`InFlight`), and because the window procedure meets the
flags it expects in each of its phases (`Phases`): only so may
`InstallReconnect` clear the delivery in flight without looking.  That no device
is tried too often needs `AttemptsAreLeft`, since the count is taken when the
delivery is chosen and raised when it is made.

**Redrawing.** `PendingIsAwaited` counts every thread inside `Queue`.  It is not
inductive, because a thread whose ticket was overtaken posts a task that draws
nothing.  `Driven` leaves such threads out: what remains is a thread that has
yet to store its ticket, the ticket that counts, a poster that was refused, the
timer or the pass.

**Startup task.** That a settled answer is the newest request's is a matter of
the answers still on their way.  An operation of the newest revision is the
newest request, unless that was given up (`Current`); the values the system gave
for it are among those it has had since the request, which a new request empties
and everything else only adds to (`Answers`).  One revision is never used twice,
so an older answer cannot pass for it.  `SubscribersAreUpToDate` speaks of an
idle queue; the invariant speaks of a busy one: who has not been told the last
publication is queued, at hand, or among those the publication at hand has yet
to reach (`WillBeTold`), and nothing is published while another publication is
being told.  That nobody is passed over for a publication it has not had needs
both halves at once, when `Deliver` finds its subscriber told already.

*Only model-checked.*

* Liveness (`EverythingSettles` and the like): fairness and `ENABLED` are beyond
  the prover.
* `RetriesFollowTheSchedule`: the closed form it compares the schedule with is a
  power of two, of which the provers know nothing.
* `UiDispatcher` with `ApplicationHost`, `Logger`, `Notifications`, the
  controller's modules and the interface: no theorems yet. The violated
  properties of section 7 need none.

## 7. Where the code differs from what it says

1. `ScheduleTransientOpenRetry` returns without a state change when
   reconnecting was cancelled (`core/DeviceSession.cpp:693`).  A user who
   cancels during a manual connect whose open then fails transiently leaves the
   session in `Disconnecting`, with no close and no timer, and
   `StartConnection` refuses that state.  `BeginClose` says that "callers must
   not await Disconnecting forever".
2. `HandleDeviceRemoved` and `Suspend` put a session whose close was given up
   back into `Disconnecting` (`core/DeviceSession.cpp:926`), which `Disconnect`
   refuses for the reason stated at line 968.
3. `CapturePowerTransitionRecoveryAndSuspend` forgets the epoch of a session
   that is still held from the suspend before
   (`core/DeviceService.cpp:349`).  The coordinator keeps it as a target, as
   `docs/INVARIANTS.md` says, but no delivery restarts it.

Met while modelling and without a run of their own:

* In privacy mode `list`, `status` and `alias list` print the aliases of
  devices (`control/ControlCommandAdapter.cpp:279` and 641), while
  `docs/USAGE.md:38` says that "privacy mode redacts known names, aliases, IDs
  and local user paths where possible". A test keeps the output as a
  "characterized unredacted alias quirk"
  (`ControlCommandAdapterTests.cpp:513`), so the document and the test
  disagree. The model shows the aliases as the code does:
  `ResponsesKeepToTheRequest` claims the redaction of ids, names and display
  names, and of aliases only for every other command; with the alias among its
  `Secrets` it is violated.
* `docs/CLI.md:50` says that JSON output contains at least `ok` and `exitCode`,
  which the output of `list` and `status` does not and that of `default show` only
  in part; layout is not modelled.
* The comment at `control/ControlCommandAdapter.cpp:113` says that a selector is
  stricter than a valid request; `IsValidCommandText` (`app/AppModels.hpp:98`)
  admits the same texts, so the refusal in `Dispatch` is never met.

## 8. What is not modelled

Data that no property tells apart: device names, labels, log text, JSON and
layout.  Exceptions from memory exhaustion, except where the code turns them
into a result.  Times: a timer is armed or not, a deadline passes or not, and
where order of times matters they are small numbers; the clock does not step
back.  Posting that fails inside `DeviceService` tasks, and the three posts of
`DeviceSession` that are given up when memory is exhausted
(`core/DeviceSession.cpp:499`, 519 and 548); posts that the dispatcher refuses
are in `DeviceSession`.  The components marked `not_modelled` in `PROJECT.json`: the
settings codec (sequential parsing and limits; its verdict on a file is an
outcome of `SettingsStore`), the context menu (layout over use cases that are
modelled), diagnostics, the crash handler, the single
instance guard, and resources.

Narrower limits of single modules:

* `ResourceMonitor`: the three atomics `Stop` sets are one step; the owner calls
  `Start` only when the monitor is not running; a handler asks for a stop only
  while no `Start` is under way (`app/ResourcePressureMonitor.cpp:369`).
* `SettingsPresenter`: nothing is pumped between `Closed` and the return of
  `Window.Close`.
* `SettingsForm`: the switches that write one setting and nothing else, links and
  page transitions are left out; `SelectionChanged` and `Toggled` are raised inside
  the assignment; the placement timer can be made; the UI thread outlives a
  diagnostics copy; initialization fails before the window is subclassed.  A
  `Window.Close` that sends no `WM_CLOSE` loses a move whose timer is still armed,
  and nothing is claimed of it.
* `TrayPicker`: the dispatcher's timer is available when `SetTimer` fails; a
  `WM_TIMER` that comes early is ignored as in the code; a click that the
  debounce drops is a click that does not come.
* `TrayVisual`: the removal of the icon in the teardown is left out.
* `Notifications`: revoking and unregistering do not fail.
* `PickerView` claims nothing about two corners: forgetting a device while the
  alias box holds untrimmed text saves the device again
  (`ui/DevicePickerView/DevicePickerView.xaml.cpp:177`), and an invalidation that
  arrives while a refresh completes may leave the inventory incomplete.  A
  snapshot that is not available is left out: the list then stays as it was
  (line 505) and a device's page returns to it (line 422).  The controller gives
  one after shutdown, or while its owners change under every attempt to read
  them, and each such change redraws again.
* `ControlServer`: `Stop` is not called from the destruction of a handler's own
  captures (`services/CommandLineControlServer.cpp:426`).  Arming that fails for a
  reason of its own is chosen where an armed instance is made anew, listens again
  or reads an acknowledgement; in `Finish` and after the start (lines 1082 and
  383) it succeeds or meets what the state of the pipe gives.

## 9. Plan

1. Theorems, in order of worth: `ResultsAreTrue` of the dispatcher;
   `MonitorTellsInOrderAndStops` of the pressure monitor.
2. `DeviceService` composed with `PowerTransition`, so that a target of the
   coordinator is the held session of the service; and the completion of a
   command whose create fails at once while the listener takes over its session
   (`core/DeviceService.cpp:285`).
3. An abstract ordered broadcast that `AppEvents` and the delivery of the
   settings store both implement.
4. The settings mutations and their limits; the clock stepping back in
   `AdaptiveResourcePolicy`.
