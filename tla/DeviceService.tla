---------------------------- MODULE DeviceService ----------------------------
(***************************************************************************)
(* DeviceService: the sessions of all devices, the device watcher, the     *)
(* settings policy, the power-transition holds and the completions that    *)
(* command callers wait for.                                               *)
(*                                                                         *)
(* Everything runs as tasks on one serialized context (State::Post), each  *)
(* to its end, so a task is one action.  What is not ordered is when tasks *)
(* are posted: commands by any thread, policies by the settings            *)
(* publisher, watcher events, refresh results and session callbacks by     *)
(* native threads, and the cancellation of a caller that stopped waiting.  *)
(* A command refused at once because of shutdown or suspension changes     *)
(* nothing and is not an action.  Names and labels of devices are left     *)
(* out, and so are posts that fail (DeviceSession has them).               *)
(***************************************************************************)
EXTENDS Naturals, Sequences, FiniteSets, FiniteSetsExt, Functions

CONSTANTS
    Device,
    Command,        \* connect commands that may be waited for at the same time
    Policies,       \* the settings considered, apart from their revision
    Scopes,         \* what is considered in one behaviour:
                    \*   commands     the commands that may be waited for
                    \*   calls        the public operations
                    \*   platforms, answers      how the platform may behave in one task
                    \*   maxSettings  bound: settings changes
                    \*   maxTasks     bound: watcher tasks that are posted and still current
                    \*   maxEpoch     bound: no call or native event once a session's epoch is here
    MaxEvents,      \* bound: state changes of a connection on their way
    Address, NoConnection, TransientOpenRetryMaxAttempts, MaxAttempts,
    InitialRetryDelay, BlockedRetryDelay, MaximumRetryDelay

Session == INSTANCE DeviceSessionState

Operations ==
    {"Connect", "Reconnect", "Disconnect", "CancelReconnect", "All", "Startup", "Policy",
     "Power", "Watcher", "Refresh", "Shutdown"}

DeviceSettingsPolicy ==
    [Revision : Nat, AllowIncomingConnections : BOOLEAN,
     GlobalReconnectOnConnectionLoss : BOOLEAN, ReconnectDeviceIds : SUBSET Device]

ASSUME DeviceServiceAssumption ==
    /\ IsFiniteSet(Device) /\ IsFiniteSet(Command)
    /\ Policies \subseteq DeviceSettingsPolicy /\ MaxEvents \in Nat
    /\ \A s \in Scopes :
        /\ s.commands \subseteq Command
        /\ s.calls \subseteq Operations
        /\ s.platforms \subseteq Session!PlatformOutcome
        /\ \A a \in s.answers : a.start \in {"Success", "Failed"}
                                 /\ a.open.Result \in Session!DeviceConnectionResult
        /\ \A n \in {s.maxSettings, s.maxTasks, s.maxEpoch} : n \in Nat

VARIABLES
    sessions,           \* Sessions: a function on the devices that have one
    isRunning, isSuspended, isShutdown,
    policy,             \* the DeviceSettingsPolicy in force
    recoveryEpochs,     \* PowerTransitionRecoveryEpochs
    watcher,            \* DeviceWatcher::State
    operations,         \* the completion each command holds
    tasks,              \* policies, watcher events and refresh results on their way
    settings,           \* the newest settings, whose policy may still be on its way
    stopRequested,      \* the controller has cancelled the policies on their way
    scope               \* of Scopes, for good

lifecycle == <<isRunning, isSuspended, isShutdown>>
incoming  == <<tasks, settings, stopRequested, scope>>
vars == <<sessions, lifecycle, policy, recoveryEpochs, watcher, operations, incoming>>

DeviceOperationStatus == {"Pending", "Succeeded", "Failed", "Cancelled"}
DeviceOperationCompletion ==
    [DeviceId : Device, Epoch : Nat, OwnsCancellation : BOOLEAN, Status : DeviceOperationStatus,
     caller : {"Waiting", "Cancelling"}]
NoCompletion == [caller |-> "None"]

Watcher == [IsWatcherRunning : BOOLEAN, WatcherGeneration : Nat, InventoryVersion : Nat,
            IsEnumerationComplete : BOOLEAN, Devices : SUBSET Device]

Task ==
    [kind : {"Policy"}, policy : DeviceSettingsPolicy]
    \cup [kind : {"Added", "Removed"}, generation : Nat, device : Device]
    \cup [kind : {"EnumerationCompleted"}, generation : Nat]
    \cup [kind : {"Refreshed"}, generation : Nat, version : Nat, devices : SUBSET Device]

DefaultPolicy == [Revision |-> 0, AllowIncomingConnections |-> FALSE,
                  GlobalReconnectOnConnectionLoss |-> TRUE, ReconnectDeviceIds |-> {}]

Nothing == [d \in {} |-> 0]

Init ==
    /\ sessions = Nothing /\ recoveryEpochs = Nothing
    /\ isRunning = FALSE /\ isSuspended = FALSE /\ isShutdown = FALSE
    /\ policy = DefaultPolicy /\ settings = DefaultPolicy /\ stopRequested = FALSE
    /\ watcher = [IsWatcherRunning |-> FALSE, WatcherGeneration |-> 0, InventoryVersion |-> 0,
                  IsEnumerationComplete |-> FALSE, Devices |-> {}]
    /\ operations = [c \in Command |-> NoCompletion]
    /\ tasks = {} /\ scope \in Scopes
-----------------------------------------------------------------------------
(* Completions.                                                            *)

(* Mutant of StatusOf: a session that has gone idle is not looked at.      *)
StatusOfBusyOnly(snapshot, epoch) ==
    CASE snapshot.OperationEpoch # epoch -> "Cancelled"
      [] snapshot.OperationEpoch = epoch /\ snapshot.State = "Connected" -> "Succeeded"
      [] snapshot.OperationEpoch = epoch /\ snapshot.State = "Failed" -> "Failed"
      [] OTHER -> "Pending"

(* ResolveOperation, for a session whose snapshot is this.                 *)
StatusOf(snapshot, epoch) ==
    CASE snapshot.OperationEpoch # epoch \/ snapshot.State = "Idle" -> "Cancelled"
      [] snapshot.OperationEpoch = epoch /\ snapshot.State = "Connected" -> "Succeeded"
      [] snapshot.OperationEpoch = epoch /\ snapshot.State = "Failed" -> "Failed"
      [] OTHER -> "Pending"

(* The first snapshot that settles a completion decides it for good.       *)
ResolveAlong(completion, snapshots) ==
    LET status(i) == StatusOf(snapshots[i], completion.Epoch)
        settling == {i \in DOMAIN snapshots : status(i) # "Pending"}
    IN  IF completion.caller = "None" \/ settling = {} THEN completion
        ELSE IF completion.Status # "Pending" THEN completion
        ELSE [completion EXCEPT !.Status = status(Min(settling))]

(* The snapshots at which the operations of a device are looked at in a    *)
(* task that leaves the sessions as in ss: those of its own facts, and its *)
(* last one if anything else is published.                                 *)
Snapshots(ss, d, publishes) ==
    [i \in DOMAIN ss[d].facts |-> ss[d].facts[i].Snapshot]
    \o (IF publishes \/ \E e \in DOMAIN ss \ {d} : ss[e].facts # <<>>
        THEN <<Session!Snapshot(ss[d])>> ELSE <<>>)

Resolved(ss, publishes) ==
    [c \in Command |->
        IF operations[c].caller = "None" \/ isShutdown THEN operations[c]
        ELSE ResolveAlong(operations[c], Snapshots(ss, operations[c].DeviceId, publishes))]

(* Mutant of Stored: facts already published are published again.          *)
StoredWithFacts(ss) == sessions' = ss

Stored(ss) == sessions' = [d \in DOMAIN ss |-> [ss[d] EXCEPT !.facts = <<>>]]

(* The end of a task: the facts of the sessions, and Publish if the task   *)
(* itself publishes.                                                       *)
Settle(ss, publishes) == Stored(ss) /\ operations' = Resolved(ss, publishes)

UpdateSession(d, s) == [e \in DOMAIN sessions \cup {d} |-> IF e = d THEN s ELSE sessions[e]]
UpdateAll(Op(_, _)) == [d \in DOMAIN sessions |-> Op(sessions[d], d)]

WithinBounds == \A d \in DOMAIN sessions : sessions[d].OperationEpoch < scope.maxEpoch
Accepts(call) == call \in scope.calls /\ ~isShutdown /\ WithinBounds
-----------------------------------------------------------------------------
(* Sessions.                                                               *)

Run(s, p) == Session!Finish(s, p)

FollowsReconnect(d) ==
    policy.GlobalReconnectOnConnectionLoss \/ d \in policy.ReconnectDeviceIds

(* What a session is given when it is created under these settings.        *)
Created(reconnect, allowIncoming, p) ==
    LET s == Run(Session!SetReconnectEnabled(Session!InitialSession, reconnect, p), p) IN
    IF allowIncoming THEN Run(Session!SetIncomingEnabled(s, TRUE, p), p) ELSE s

GetOrCreateSession(d, p) ==
    IF d \in DOMAIN sessions THEN sessions[d]
    ELSE Created(FollowsReconnect(d), policy.AllowIncomingConnections, p)

(* Mutant of Completion: a coalesced command may cancel as well.           *)
CompletionAlwaysOwned(d, s, owns) ==
    [DeviceId |-> d, Epoch |-> s.OperationEpoch, OwnsCancellation |-> TRUE,
     Status |-> StatusOf(Session!Snapshot(s), s.OperationEpoch), caller |-> "Waiting"]

(* The completion of a command that was accepted or coalesced, looked at   *)
(* once when it is made.                                                   *)
Completion(d, s, owns) ==
    [DeviceId |-> d, Epoch |-> s.OperationEpoch, OwnsCancellation |-> owns,
     Status |-> StatusOf(Session!Snapshot(s), s.OperationEpoch), caller |-> "Waiting"]

(* A session that is closing refuses to connect, unless it is held for a   *)
(* power transition; one that is connected is left alone by Connect.       *)
Refuses(s) == Session!IsBusy(s) /\ s.Lifecycle = "Disconnecting" /\ ~s.IsSuspended
Submitted(s, operation, p) ==
    IF Refuses(s) \/ (operation = "ManualConnect" /\ s.Lifecycle = "Connected") THEN s
    ELSE Run(Session!Connect(s, operation, TRUE, p), p)

(* Whoever causes a new epoch owns its cancellation.                       *)
Submit(c, d, s, after) ==
    /\ operations[c].caller = "None" /\ ~isSuspended
    /\ recoveryEpochs' = Restrict(recoveryEpochs, DOMAIN recoveryEpochs \ {d})
    /\ Stored(UpdateSession(d, after))
    /\ operations' =
          [Resolved(UpdateSession(d, after), FALSE) EXCEPT
              ![c] = IF Refuses(s) THEN @
                     ELSE Completion(d, after, after.OperationEpoch # s.OperationEpoch)]
    /\ UNCHANGED <<lifecycle, policy, watcher, incoming>>

Connect(c, d) ==
    /\ Accepts("Connect")
    /\ \E p \in scope.platforms : \E s \in {GetOrCreateSession(d, p)} :
          Submit(c, d, s, Submitted(s, "ManualConnect", p))
Reconnect(c, d) ==
    /\ Accepts("Reconnect")
    /\ \E p \in scope.platforms : \E s \in {GetOrCreateSession(d, p)} :
          Submit(c, d, s, Submitted(s, "ManualReconnect", p))

Disconnect(d) ==
    /\ Accepts("Disconnect") /\ ~isSuspended
    /\ \E p \in scope.platforms :
          Settle(UpdateSession(d, Run(Session!Disconnect(GetOrCreateSession(d, p),
                                          policy.AllowIncomingConnections, p), p)), FALSE)
    /\ UNCHANGED <<lifecycle, policy, recoveryEpochs, watcher, incoming>>

CancelReconnect(d) ==
    /\ Accepts("CancelReconnect") /\ d \in DOMAIN sessions
    /\ \E p \in scope.platforms :
          Settle(UpdateSession(d, Run(Session!CancelReconnect(sessions[d], p), p)), FALSE)
    /\ UNCHANGED <<lifecycle, policy, recoveryEpochs, watcher, incoming>>

(* The platform answers each session of a bulk operation on its own.       *)
EachPlatform == [Device -> scope.platforms]

CancelPendingReconnects ==
    /\ Accepts("All")
    /\ \E p \in EachPlatform :
          Settle(UpdateAll(LAMBDA s, d : Run(Session!CancelReconnect(s, p[d]), p[d])), FALSE)
    /\ UNCHANGED <<lifecycle, policy, recoveryEpochs, watcher, incoming>>

DisconnectAll ==
    /\ Accepts("All") /\ ~isSuspended
    /\ \E p \in EachPlatform :
          Settle(UpdateAll(LAMBDA s, d :
                    Run(Session!Disconnect(s, policy.AllowIncomingConnections, p[d]), p[d])), FALSE)
    /\ UNCHANGED <<lifecycle, policy, recoveryEpochs, watcher, incoming>>

ReconnectAll ==
    /\ Accepts("All") /\ ~isSuspended
    /\ \E p \in EachPlatform :
          Settle(UpdateAll(LAMBDA s, d :
                    IF s.Lifecycle # "Connected" THEN s
                    ELSE Run(Session!Connect(s, "ManualReconnect", TRUE, p[d]), p[d])), FALSE)
    /\ UNCHANGED <<lifecycle, policy, recoveryEpochs, watcher, incoming>>

ConnectStartupTargets(ids) ==
    /\ Accepts("Startup") /\ ~isSuspended
    /\ \E p \in EachPlatform :
          Settle([d \in DOMAIN sessions \cup ids |->
                    IF d \notin ids THEN sessions[d]
                    ELSE Run(Session!Connect(GetOrCreateSession(d, p[d]), "Startup", TRUE, p[d]),
                             p[d])], FALSE)
    /\ UNCHANGED <<lifecycle, policy, recoveryEpochs, watcher, incoming>>
-----------------------------------------------------------------------------
(* Waiting for a completion.                                               *)

(* WaitForCompletion returns the status.                                   *)
WaitReturns(c) ==
    /\ operations[c].caller = "Waiting" /\ operations[c].Status # "Pending"
    /\ operations' = [operations EXCEPT ![c] = NoCompletion]
    /\ UNCHANGED <<sessions, lifecycle, policy, recoveryEpochs, watcher, incoming>>

(* It is stopped or its deadline passes: the owner posts a cancellation.   *)
GiveUp(c) ==
    /\ operations[c].caller = "Waiting" /\ operations[c].Status = "Pending"
    /\ operations' = [operations EXCEPT ![c] = IF @.OwnsCancellation
                                               THEN [@ EXCEPT !.caller = "Cancelling"]
                                               ELSE NoCompletion]
    /\ UNCHANGED <<sessions, lifecycle, policy, recoveryEpochs, watcher, incoming>>

(* Mutant of MayCancel: whether the operation is over is not looked at.    *)
MayCancelFinished(completion) ==
    /\ ~isShutdown /\ completion.DeviceId \in DOMAIN sessions
    /\ sessions[completion.DeviceId].OperationEpoch = completion.Epoch

MayCancel(completion) ==
    /\ completion.Status = "Pending" /\ ~isShutdown
    /\ completion.DeviceId \in DOMAIN sessions
    /\ sessions[completion.DeviceId].OperationEpoch = completion.Epoch

(* The posted cancellation runs: CancelOperation.                          *)
Cancelled(s, p) ==
    Run(Session!Disconnect(Run(Session!CancelReconnect(s, p), p),
                           policy.AllowIncomingConnections, p), p)

AfterCancellation(completion, p) ==
    IF MayCancel(completion)
    THEN UpdateSession(completion.DeviceId, Cancelled(sessions[completion.DeviceId], p))
    ELSE sessions

CancelOperation(c) ==
    /\ operations[c].caller = "Cancelling"
    /\ \E p \in scope.platforms : \E ss \in {AfterCancellation(operations[c], p)} :
          Stored(ss) /\ operations' = [Resolved(ss, FALSE) EXCEPT ![c] = NoCompletion]
    /\ UNCHANGED <<lifecycle, policy, recoveryEpochs, watcher, incoming>>
-----------------------------------------------------------------------------
(* The settings policy.                                                    *)

(* The settings change and the controller posts the policy.  Posts of      *)
(* different threads may be overtaken.                                     *)
ChangeSettings(newest) ==
    /\ "Policy" \in scope.calls /\ ~stopRequested
    /\ newest.Revision = settings.Revision + 1
    /\ settings' = newest
    /\ tasks' = tasks \cup {[kind |-> "Policy", policy |-> newest]}
    /\ UNCHANGED <<sessions, lifecycle, policy, recoveryEpochs, watcher, operations, stopRequested, scope>>

RequestStop ==
    /\ "Shutdown" \in scope.calls /\ ~stopRequested
    /\ stopRequested' = TRUE
    /\ UNCHANGED <<sessions, lifecycle, policy, recoveryEpochs, watcher, operations, tasks,
                   settings, scope>>

(* Mutant of IsNewer: the last policy to arrive wins.                      *)
IsAnyPolicy(newPolicy) == ~isShutdown /\ ~stopRequested

IsNewer(newPolicy) ==
    ~isShutdown /\ ~stopRequested /\ newPolicy.Revision > policy.Revision

(* The sessions a policy reaches: all that exist, and the devices of the   *)
(* inventory when incoming connections are switched on.                    *)
ApplySettingsPolicy(task, p) ==
    LET new == task.policy
        follows(d) == new.GlobalReconnectOnConnectionLoss \/ d \in new.ReconnectDeviceIds
        reconnectChanged ==
            \/ new.GlobalReconnectOnConnectionLoss # policy.GlobalReconnectOnConnectionLoss
            \/ new.ReconnectDeviceIds # policy.ReconnectDeviceIds
        incomingChanged == new.AllowIncomingConnections # policy.AllowIncomingConnections
        withReconnect(s, d) ==
            IF reconnectChanged THEN Run(Session!SetReconnectEnabled(s, follows(d), p[d]), p[d])
            ELSE s
        withIncoming(s, d) ==
            IF incomingChanged
            THEN Run(Session!SetIncomingEnabled(s, new.AllowIncomingConnections, p[d]), p[d])
            ELSE s
        discovered == IF incomingChanged /\ new.AllowIncomingConnections
                      THEN watcher.Devices ELSE {}
    IN  /\ task.kind = "Policy" /\ task \in tasks
        /\ tasks' = tasks \ {task}
        /\ IF IsNewer(new)
           THEN /\ policy' = new
                /\ Settle([d \in DOMAIN sessions \cup discovered |->
                              IF d \in DOMAIN sessions
                              THEN withIncoming(withReconnect(sessions[d], d), d)
                              ELSE Created(follows(d), new.AllowIncomingConnections, p[d])],
                          FALSE)
           ELSE UNCHANGED <<sessions, policy, operations>>
        /\ UNCHANGED <<lifecycle, recoveryEpochs, watcher, settings, stopRequested, scope>>
-----------------------------------------------------------------------------
(* The device watcher.                                                     *)

(* Start, which the platform may refuse; a running watcher is not started. *)
StartIsTaken(w, granted) == granted /\ ~w.IsWatcherRunning
Started(w, granted) ==
    IF w.IsWatcherRunning THEN w
    ELSE [IsWatcherRunning |-> granted, IsEnumerationComplete |-> FALSE, Devices |-> {},
          WatcherGeneration |-> w.WatcherGeneration + (IF granted THEN 1 ELSE 2),
          InventoryVersion |-> w.InventoryVersion + 1]
Stopped(w) ==
    IF ~w.IsWatcherRunning THEN w
    ELSE [w EXCEPT !.IsWatcherRunning = FALSE, !.IsEnumerationComplete = FALSE,
                   !.WatcherGeneration = @ + 1]

WatcherAccepts(generation) ==
    ~isShutdown /\ watcher.IsWatcherRunning /\ generation = watcher.WatcherGeneration

IsCurrentTask(task) ==
    CASE task.kind = "Policy" -> TRUE
      [] task.kind = "Refreshed" -> /\ task.generation = watcher.WatcherGeneration
                                    /\ task.version = watcher.InventoryVersion
      [] OTHER -> WatcherAccepts(task.generation)

Posted(task) ==
    /\ ~isShutdown /\ WithinBounds
    /\ Cardinality({t \in tasks : t.kind # "Policy" /\ IsCurrentTask(t)}) < scope.maxTasks
    /\ tasks' = tasks \cup {task}
    /\ UNCHANGED <<sessions, lifecycle, policy, recoveryEpochs, watcher, operations, settings,
                   stopRequested, scope>>

(* Native watcher events, raised while the watcher runs, and RefreshAsync, *)
(* which remembers the inventory it started from.                          *)
RaiseWatcherEvent(kind, d) ==
    /\ "Watcher" \in scope.calls /\ watcher.IsWatcherRunning
    /\ Posted([kind |-> kind, generation |-> watcher.WatcherGeneration, device |-> d])
RaiseEnumerationCompleted ==
    /\ "Watcher" \in scope.calls /\ watcher.IsWatcherRunning
    /\ Posted([kind |-> "EnumerationCompleted", generation |-> watcher.WatcherGeneration])
RefreshAsync(devices) ==
    /\ "Refresh" \in scope.calls
    /\ Posted([kind |-> "Refreshed", generation |-> watcher.WatcherGeneration,
               version |-> watcher.InventoryVersion, devices |-> devices])

Drop(task) ==
    /\ task.kind # "Policy" /\ ~IsCurrentTask(task)
    /\ tasks' = tasks \ {task}
    /\ UNCHANGED <<sessions, lifecycle, policy, recoveryEpochs, watcher, operations, settings,
                   stopRequested, scope>>

(* The sessions after a device was added to or removed from the inventory. *)
OnWatcherFact(kind, d, p) ==
    LET renamed == Session!Rename(GetOrCreateSession(d, p))
        added == IF policy.AllowIncomingConnections
                 THEN Run(Session!SetIncomingEnabled(renamed, TRUE, p), p) ELSE renamed
    IN  IF kind = "Added" THEN UpdateSession(d, added)
        ELSE IF d \in DOMAIN sessions
             THEN UpdateSession(d, Run(Session!HandleDeviceRemoved(sessions[d], p), p))
             ELSE sessions

OnDeviceAdded(task, p) ==
    /\ task.kind = "Added" /\ WatcherAccepts(task.generation)
    /\ tasks' = tasks \ {task}
    /\ watcher' = [watcher EXCEPT !.InventoryVersion = @ + 1, !.Devices = @ \cup {task.device}]
    /\ Settle(OnWatcherFact("Added", task.device, p), TRUE)
    /\ UNCHANGED <<lifecycle, policy, recoveryEpochs, settings, stopRequested, scope>>

OnDeviceRemoved(task, p) ==
    /\ task.kind = "Removed" /\ WatcherAccepts(task.generation)
    /\ tasks' = tasks \ {task}
    /\ watcher' = [watcher EXCEPT !.InventoryVersion = @ + 1, !.Devices = @ \ {task.device}]
    /\ Settle(OnWatcherFact("Removed", task.device, p), TRUE)
    /\ UNCHANGED <<lifecycle, policy, recoveryEpochs, settings, stopRequested, scope>>

OnEnumerationCompleted(task) ==
    /\ task.kind = "EnumerationCompleted" /\ WatcherAccepts(task.generation)
    /\ tasks' = tasks \ {task}
    /\ watcher' = [watcher EXCEPT !.IsEnumerationComplete = TRUE,
                     !.InventoryVersion = IF watcher.IsEnumerationComplete THEN @ ELSE @ + 1]
    /\ Settle(sessions, ~watcher.IsEnumerationComplete)
    /\ UNCHANGED <<lifecycle, policy, recoveryEpochs, settings, stopRequested, scope>>

OnRefreshed(task) ==
    LET changed == watcher.Devices # task.devices \/ ~watcher.IsEnumerationComplete IN
    /\ task.kind = "Refreshed" /\ IsCurrentTask(task) /\ ~isShutdown
    /\ tasks' = tasks \ {task}
    /\ watcher' = IF changed
                  THEN [watcher EXCEPT !.Devices = task.devices, !.IsEnumerationComplete = TRUE,
                                       !.InventoryVersion = @ + 1]
                  ELSE watcher
    /\ Settle(sessions, changed)
    /\ UNCHANGED <<lifecycle, policy, recoveryEpochs, settings, stopRequested, scope>>
-----------------------------------------------------------------------------
(* Lifecycle and power transitions.                                        *)

Start(granted) ==
    /\ Accepts("Watcher") /\ ~isRunning
    /\ watcher' = Started(watcher, granted)
    /\ isRunning' = StartIsTaken(watcher, granted)
    /\ Settle(sessions, TRUE)
    /\ UNCHANGED <<isSuspended, isShutdown, policy, recoveryEpochs, incoming>>

Stop ==
    /\ Accepts("Watcher") /\ isRunning
    /\ watcher' = Stopped(watcher)
    /\ isRunning' = FALSE
    /\ Settle(sessions, TRUE)
    /\ UNCHANGED <<isSuspended, isShutdown, policy, recoveryEpochs, incoming>>

RequiresPowerTransitionRecovery(s) ==
    s.IsIncomingEnabled
    \/ s.Lifecycle \in {"Connected", "Connecting", "Disconnecting", "WaitingForReconnect"}

RecoveryDeviceIds == {d \in DOMAIN sessions : RequiresPowerTransitionRecovery(sessions[d])}

(* Suspend and SuspendForPowerTransition: every session is suspended, and  *)
(* the epoch in which those in use are held is remembered.                 *)
CapturePowerTransitionRecoveryAndSuspend(p) ==
    LET ss == UpdateAll(LAMBDA s, d : Run(Session!Suspend(s, p[d]), p[d])) IN
    /\ Accepts("Power") /\ ~isSuspended
    /\ isSuspended' = TRUE
    /\ watcher' = Stopped(watcher)
    /\ recoveryEpochs' = [d \in RecoveryDeviceIds |-> ss[d].OperationEpoch]
    /\ Settle(ss, TRUE)
    /\ UNCHANGED <<isRunning, isShutdown, policy, incoming>>

(* The watcher is started again and idle sessions are released; those that *)
(* were in use stay held until ResumeSuspendedSessions.  A resume without  *)
(* a suspend restarts the watcher.                                         *)
ResumeAfterPowerTransition(granted) ==
    LET stopped == IF isSuspended THEN watcher ELSE Stopped(watcher) IN
    /\ Accepts("Power")
    /\ isSuspended' = FALSE
    /\ watcher' = IF isRunning THEN Started(stopped, granted) ELSE watcher
    /\ isRunning' = (isRunning /\ StartIsTaken(stopped, granted))
    /\ Settle(IF isSuspended
              THEN UpdateAll(LAMBDA s, d : Session!ResumeIdleAfterPowerTransition(s))
              ELSE sessions, TRUE)
    /\ UNCHANGED <<isShutdown, policy, recoveryEpochs, incoming>>

(* Resume, which holds nothing back.                                       *)
Resume(granted, p) ==
    /\ Accepts("Power") /\ isSuspended
    /\ isSuspended' = FALSE
    /\ watcher' = IF isRunning THEN Started(watcher, granted) ELSE watcher
    /\ isRunning' = (isRunning /\ StartIsTaken(watcher, granted))
    /\ recoveryEpochs' = Nothing
    /\ Settle(UpdateAll(LAMBDA s, d : Run(Session!Resume(s, p[d]), p[d])), TRUE)
    /\ UNCHANGED <<isShutdown, policy, incoming>>

(* Mutant of IsStillHeld: the epoch of the suspend is not compared.        *)
IsHeldAtAll(d) == d \in DOMAIN recoveryEpochs

IsStillHeld(d) == sessions[d].OperationEpoch = recoveryEpochs[d]

(* A held session that nothing else has moved on from is resumed, and one  *)
(* that was moved on is only released.                                     *)
ResumeSuspendedSessions(deviceIds, p) ==
    LET recovering == deviceIds \cap DOMAIN recoveryEpochs IN
    /\ Accepts("Power") /\ ~isSuspended
    /\ recoveryEpochs' = Restrict(recoveryEpochs, DOMAIN recoveryEpochs \ recovering)
    /\ Settle(UpdateAll(LAMBDA s, d :
                  IF d \notin recovering THEN s
                  ELSE IF IsStillHeld(d)
                       THEN Run(Session!Resume(s, p[d]), p[d])
                       ELSE Session!CancelPowerTransitionRecovery(s)), TRUE)
    /\ UNCHANGED <<lifecycle, policy, watcher, incoming>>

(* StopAndReleaseSessions and the last Publish, which settles everything.  *)
Shutdown ==
    /\ Accepts("Shutdown")
    /\ isShutdown' = TRUE /\ isRunning' = FALSE
    /\ watcher' = [Stopped(watcher) EXCEPT !.WatcherGeneration = watcher.WatcherGeneration + 1]
    /\ sessions' = Nothing
    /\ operations' = [c \in Command |->
                         IF operations[c].caller # "None" /\ operations[c].Status = "Pending"
                         THEN [operations[c] EXCEPT !.Status = "Cancelled"] ELSE operations[c]]
    /\ UNCHANGED <<isSuspended, policy, recoveryEpochs, incoming>>
-----------------------------------------------------------------------------
(* Callbacks of the sessions' native work; those of released sessions are  *)
(* dropped with them.                                                      *)

OnCallback(s, c, a, p) ==
    CASE c.kind = "Started" -> Session!OnStarted(s, c.epoch, c.address, a.start, p)
      [] c.kind = "Opened" -> Session!OnOpened(s, c.epoch, c.address, a.open, p)
      [] c.kind = "StateChanged" -> Session!OnStateChanged(s, c.epoch, c.address, c.state, p)
      [] c.kind = "RetryTimer" -> Session!OnRetryTimer(s, c.timerEpoch, c.epoch, p)
      [] c.kind = "TransientOpenRetryTimer" ->
            Session!OnTransientOpenRetryTimer(s, c.timerEpoch, c.epoch, p)
      [] c.kind = "CloseTimeout" ->
            Session!CompleteCloseBarrier(s, c.closeBarrierEpoch, TRUE, p)
      [] c.kind = "Closed" -> Session!CompleteCloseBarrier(s, c.closeBarrierEpoch, FALSE, p)
      [] c.kind = "Cooldown" -> Session!CompleteCloseCooldown(s, c.closeBarrierEpoch, p)

RunCallback(d, c, a, p) ==
    LET taken == [sessions[d] EXCEPT !.callbacks = @ \ {c}] IN
    /\ Settle(UpdateSession(d, Run(OnCallback(taken, c, a, p), p)), FALSE)
    /\ UNCHANGED <<lifecycle, policy, recoveryEpochs, watcher, incoming>>

RaiseStateChanged(d, state) ==
    LET s == sessions[d]
        event == [kind |-> "StateChanged", epoch |-> s.HandlerEpoch, address |-> s.Connection,
                  state |-> state]
        onTheirWay == {c \in s.callbacks : c.kind = "StateChanged" /\ c.epoch = s.OperationEpoch}
    IN  /\ WithinBounds /\ s.Connection # NoConnection /\ s.StateChangedToken
        /\ Cardinality(onTheirWay) < MaxEvents
        /\ sessions' = [sessions EXCEPT ![d].callbacks = @ \cup {event}]
        /\ UNCHANGED <<lifecycle, policy, recoveryEpochs, watcher, operations, incoming>>
-----------------------------------------------------------------------------
NextPolicies ==
    {[q EXCEPT !.Revision = n] : q \in Policies, n \in {settings.Revision + 1} \cap 1 .. scope.maxSettings}

Call ==
    \/ \E c \in scope.commands, d \in Device : Connect(c, d) \/ Reconnect(c, d)
    \/ \E d \in Device : Disconnect(d) \/ CancelReconnect(d)
    \/ CancelPendingReconnects \/ DisconnectAll \/ ReconnectAll
    \/ \E ids \in SUBSET Device : ConnectStartupTargets(ids)
    \/ Shutdown

Wait ==
    \E c \in Command : WaitReturns(c) \/ GiveUp(c) \/ CancelOperation(c)

Configure ==
    \/ \E newest \in NextPolicies : ChangeSettings(newest)
    \/ RequestStop
    \/ \E task \in tasks, p \in EachPlatform : ApplySettingsPolicy(task, p)

Watch ==
    \/ \E granted \in BOOLEAN : Start(granted)
    \/ Stop
    \/ \E kind \in {"Added", "Removed"}, d \in Device : RaiseWatcherEvent(kind, d)
    \/ RaiseEnumerationCompleted
    \/ \E devices \in SUBSET Device : RefreshAsync(devices)
    \/ \E task \in tasks : \/ Drop(task) \/ OnEnumerationCompleted(task) \/ OnRefreshed(task)
                           \/ \E p \in scope.platforms : OnDeviceAdded(task, p) \/ OnDeviceRemoved(task, p)

Power ==
    \/ \E granted \in BOOLEAN : ResumeAfterPowerTransition(granted)
    \/ \E p \in EachPlatform :
        \/ CapturePowerTransitionRecoveryAndSuspend(p)
        \/ \E granted \in BOOLEAN : Resume(granted, p)
        \/ \E deviceIds \in SUBSET Device : ResumeSuspendedSessions(deviceIds, p)

Native ==
    \E d \in DOMAIN sessions :
        \/ \E state \in Session!DeviceConnectionState : RaiseStateChanged(d, state)
        \/ \E c \in sessions[d].callbacks, a \in scope.answers, p \in scope.platforms : RunCallback(d, c, a, p)

Next == Call \/ Wait \/ Configure \/ Watch \/ Power \/ Native

Spec == Init /\ [][Next]_vars
-----------------------------------------------------------------------------
(* Everything has the members and types of DeviceService::State.           *)
TypeOK ==
    /\ DOMAIN sessions \subseteq Device
    /\ \A d \in DOMAIN sessions :
            sessions[d] \in Session!SessionState /\ sessions[d].facts = <<>>
    /\ isRunning \in BOOLEAN /\ isSuspended \in BOOLEAN /\ isShutdown \in BOOLEAN
    /\ policy \in DeviceSettingsPolicy /\ settings \in DeviceSettingsPolicy
    /\ DOMAIN recoveryEpochs \subseteq Device
    /\ \A d \in DOMAIN recoveryEpochs : recoveryEpochs[d] \in Nat
    /\ watcher \in Watcher
    /\ operations \in [Command -> DeviceOperationCompletion \cup {NoCompletion}]
    /\ tasks \subseteq Task /\ stopRequested \in BOOLEAN

IsPending(c) == operations[c].caller # "None" /\ operations[c].Status = "Pending"

(* Nobody waits for an operation that is over: while a completion is       *)
(* pending its session exists and is still busy in the completion's epoch, *)
(* or is closing, so that a later fact decides it (ResolveOperation runs   *)
(* only when something is published).                                      *)
OperationsAreFollowed ==
    \A c \in Command : IsPending(c) =>
        /\ operations[c].DeviceId \in DOMAIN sessions
        /\ LET s == sessions[operations[c].DeviceId] IN
           \/ s.Lifecycle = "Disconnecting"
           \/ /\ s.OperationEpoch = operations[c].Epoch
              /\ s.Lifecycle \in {"Connecting", "WaitingForReconnect"}

(* An operation has one owner: of all the callers that wait for an epoch   *)
(* at most one may cancel it, the others only stop waiting.                *)
OneOwnerPerEpoch ==
    \A b, c \in Command :
        /\ b # c /\ IsPending(b) /\ IsPending(c)
        /\ operations[b].OwnsCancellation /\ operations[c].OwnsCancellation
        => <<operations[b].DeviceId, operations[b].Epoch>>
              # <<operations[c].DeviceId, operations[c].Epoch>>

(* A caller that gives up takes nothing down but its own unfinished        *)
(* operation: when its cancellation runs late, the connection it asked for *)
(* and has got, and what a retry, another caller or the user has started   *)
(* since, go on (CancelOperation).                                         *)
CancellationIsFenced ==
    \A c \in Command :
        operations[c].caller = "Cancelling" /\ operations'[c].caller = "None" =>
            \A d \in DOMAIN sessions :
                \/ d \in DOMAIN sessions' /\ sessions'[d] = sessions[d]
                \/ /\ d = operations[c].DeviceId
                   /\ sessions[d].OperationEpoch = operations[c].Epoch
                   /\ sessions[d].Lifecycle \notin {"Connected", "Idle", "Failed"}

(* The settings reach every session: once no policy is on its way, the     *)
(* newest one is in force, whatever overtook it, and every session follows *)
(* it, also those created, held or closing in the meantime.                *)
SettingsReachSessions ==
    ~stopRequested /\ ~isShutdown /\ (\A t \in tasks : t.kind # "Policy") =>
        /\ policy = settings
        /\ \A d \in DOMAIN sessions :
              /\ sessions[d].IsReconnectEnabled = FollowsReconnect(d)
              /\ sessions[d].IsIncomingEnabled = settings.AllowIncomingConnections

(* Delayed recovery restarts nothing that was moved on from since the      *)
(* suspend: a delivery for a session that a command, a removal or a policy *)
(* has taken to another epoch leaves its connection as it is.              *)
RecoveryIsFenced ==
    \A d \in DOMAIN recoveryEpochs :
        /\ d \notin DOMAIN recoveryEpochs' /\ ~isSuspended /\ ~isSuspended'
        /\ sessions[d].OperationEpoch # recoveryEpochs[d]
        => \/ \E c \in Command : operations[c] # operations'[c]
           \/ /\ sessions'[d].OperationEpoch = sessions[d].OperationEpoch
              /\ sessions'[d].Connection = sessions[d].Connection
              /\ sessions'[d].Lifecycle = sessions[d].Lifecycle

(* What comes late is fenced: a cancellation and a recovery act on the     *)
(* operation they were made for, or on nothing (CancelOperation,           *)
(* ResumeSuspendedSessions).                                               *)
LateWorkIsFenced == [][CancellationIsFenced /\ RecoveryIsFenced]_vars

(* Every wait is for something that goes on, and belongs to one operation  *)
(* that one caller at most may cancel (DeviceOperationCompletion).         *)
WaitsAreSound == TypeOK /\ OperationsAreFollowed /\ OneOwnerPerEpoch

(* What the power tests say of a session that is held over a suspend: the  *)
(* delayed delivery restarts it.  It does so only while its epoch is       *)
(* remembered.                                                             *)
HeldSessionsAreRecoverable ==
    ~isSuspended /\ ~isShutdown =>
        \A d \in DOMAIN sessions : sessions[d].IsSuspended =>
            d \in DOMAIN recoveryEpochs \/ sessions[d].ResumeRequested
=============================================================================
