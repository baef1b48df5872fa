------------------------------ MODULE AppCalls ------------------------------
(***************************************************************************)
(* The use cases of AppController (AppControllerUseCases.cpp): commands    *)
(* and queries of several threads run side by side, each under a lease     *)
(* that the shutdown waits for.  The controller owns no data: it reads the *)
(* settings store, the device service and the startup task, each under its *)
(* own lock, and makes of three readings one snapshot.                     *)
(*                                                                         *)
(* The owners are modelled by what the controller sees of them: a version  *)
(* each, the settings it resolves targets with, and the devices' states.   *)
(***************************************************************************)
EXTENDS TargetResolution, TLC

CONSTANTS
    Device, Caller,
    Name,       \* [Device -> text]: what the system calls a device
    Hex,        \* [Device -> text]: the hexadecimal digits of its id
    Budgets,    \* which calls, and how many spontaneous changes, a behaviour has
    Attempts    \* the readings before a snapshot or the settings are given up

ASSUME AttemptsAssumption == Attempts \in Nat \ {0}

VARIABLES
    owner,      \* what the three owners hold
    control,    \* m_running, m_generation, the last versions seen, m_activeCalls
    call,       \* what each caller's thread is doing
    history,    \* the versions that were current together, and the snapshots given
    budget

vars == <<owner, control, call, history, budget>>

Spend(k) == budget.left[k] > 0 /\ budget' = [budget EXCEPT !.left[k] = @ - 1]

Versions(o) == <<o.revision, o.devices, o.publication>>

(***************************************************************************)
(* The owners.                                                             *)
(***************************************************************************)
Observing(o) ==
    /\ owner' = o
    /\ history' = [history EXCEPT !.instants = @ \cup {Versions(o)}]

Sees(k, o) == [k EXCEPT !.witness = @ \cup {<<d, o.state[d] = "Connected">> : d \in Device}]

\* Every call under way is a witness of what the devices go through.
Everybody(calls, o) == [c \in Caller |-> Sees(calls[c], o)]

WithState(d, state) == [owner EXCEPT !.state[d] = state, !.devices = @ + 1]

Inventory == [d \in owner.inventory |-> [name |-> Name[d]]]
Sessions == [d \in owner.sessions |-> [name |-> Name[d], state |-> owner.state[d]]]

Devices(settings) == MergeDevices(Inventory, Sessions, settings.saved)

\* The service's own steps: an attempt ends, a connection is lost, a device appears.
DeviceChanges(d, state) ==
    /\ Spend("devices")
    /\ \/ owner.state[d] = "Connecting" /\ state \in {"Connected", "Failed"}
       \/ owner.state[d] = "Connected" /\ state = "Idle"
       \/ owner.state[d] = "Disconnecting" /\ state = "Idle"
    /\ Observing(WithState(d, state))
    /\ call' = Everybody(call, WithState(d, state))
    /\ UNCHANGED control

DeviceAppears(d) ==
    /\ Spend("inventory") /\ d \notin owner.inventory
    /\ Observing([owner EXCEPT !.inventory = @ \cup {d}, !.devices = @ + 1])
    /\ UNCHANGED <<control, call>>

StartupTaskChanges ==
    /\ Spend("startup")
    /\ Observing([owner EXCEPT !.publication = @ + 1])
    /\ UNCHANGED <<control, call>>

\* The store: a change makes a revision, a repetition of what it holds does not.
Stored(settings) ==
    IF settings = owner.settings THEN owner
    ELSE [owner EXCEPT !.settings = settings, !.revision = @ + 1]

---------------------------------------------------------------------------
(***************************************************************************)
(* Calls.                                                                  *)
(***************************************************************************)
Explicit(selector) == selector.kind \notin {"Last", "Default"}

NoSelector == [kind |-> "none"]

IdleCall == [pc |-> "idle", kind |-> "none", selector |-> NoSelector, detached |-> FALSE,
             context |-> "live", settings |-> [revision |-> 0], attempt |-> 0, then |-> "none",
             target |-> "none", queue |-> {}, read |-> <<>>, generation |-> 0,
             acted |-> FALSE, operation |-> "none", witness |-> {},
             code |-> "none", phase |-> "NotStarted"]

Queries == {"Status", "ListDevices"}
Presentations == {"ShowDevicePicker", "ShowSettings"}
TargetKinds == {"SetDefault", "SetAlias", "Connect", "Disconnect", "Reconnect", "ToggleLast"}

At(c, pc) == call[c].pc = pc
Goes(c, k) == call' = [call EXCEPT ![c] = k]
To(c, pc) == Goes(c, [call[c] EXCEPT !.pc = pc])

Answer(k, code) == [k EXCEPT !.pc = "answered", !.code = code, !.phase = "Started"]
Answers(c, code) == Goes(c, Answer(call[c], code))

\* A command and the thread that calls for it; a target the command does not
\* take by design is refused before anything else.
Begin(c, kind, selector, detached) ==
    /\ At(c, "idle") /\ call[c].kind = "none"
    /\ <<kind, selector, detached>> \in budget.calls
    /\ budget' = [budget EXCEPT !.calls = @ \ {<<kind, selector, detached>>}]
    /\ LET k == Sees([IdleCall EXCEPT !.kind = kind, !.selector = selector, !.detached = detached,
                                      !.pc = "admit"], owner)
       IN  Goes(c, IF kind \in {"SetDefault", "SetAlias"} /\ ~Explicit(selector)
                   THEN [k EXCEPT !.pc = "answered", !.code = "InvalidInput"] ELSE k)
    /\ UNCHANGED <<owner, control, history>>

\* The caller cancels, or the deadline it gave passes.
ContextEnds(c, how) ==
    /\ call[c].pc \notin {"idle", "answered"} /\ call[c].context = "live" /\ Spend("context")
    /\ Goes(c, [call[c] EXCEPT !.context = how])
    /\ UNCHANGED <<owner, control, history>>

ContextCode(context) == IF context = "cancelled" THEN "Cancelled" ELSE "TimedOut"
MutationAdmissionFailure(k) == k.context # "live"

CountsCall(running) == running

\* CallLease and WithAdmission.
WithAdmission(c) ==
    /\ At(c, "admit")
    /\ LET k == call[c]
           refused(code) == [k EXCEPT !.pc = "answered", !.code = code]
       IN  /\ control' = [control EXCEPT !.active =
                              IF CountsCall(control.running) THEN @ \cup {c} ELSE @]
           /\ Goes(c, CASE ~control.running -> refused("Unavailable")
                        [] MutationAdmissionFailure(k) -> refused(ContextCode(k.context))
                        [] k.kind \in {"MutateSettings", "StartupTask"} -> [k EXCEPT !.pc = "act"]
                        [] OTHER -> [k EXCEPT !.pc = "read",
                                              !.then = IF k.kind \in Queries THEN "capture" ELSE "command"])
    /\ UNCHANGED <<owner, history, budget>>

\* The result is returned and the lease destroyed.
Return(c) ==
    /\ At(c, "answered")
    /\ control' = [control EXCEPT !.active = @ \ {c}]
    /\ To(c, "idle")
    /\ UNCHANGED <<owner, history, budget>>

(***************************************************************************)
(* ReadSettings and ReadCoherentSettings.                                  *)
(***************************************************************************)
Advanced(generation) == generation + 1

ReadSettings(c) ==
    /\ At(c, "read")
    /\ Goes(c, [call[c] EXCEPT !.pc = "record",
                               !.settings = [revision |-> owner.revision] @@ owner.settings])
    /\ UNCHANGED <<owner, control, history, budget>>

RecordSettings(c) ==
    LET revision == call[c].settings.revision
    IN  /\ At(c, "record")
        /\ control' =
               IF revision > control.revision
               THEN [control EXCEPT !.revision = revision,
                                    !.generation = IF control.revision = 0 THEN @ ELSE Advanced(@)]
               ELSE control
        /\ To(c, IF call[c].then = "capture" THEN "devices" ELSE "check")
        /\ UNCHANGED <<owner, history, budget>>

Again(k, attempts) == k.attempt + 1 < attempts
Retry(k) == [k EXCEPT !.attempt = @ + 1, !.pc = "read"]

CheckSettings(c) ==
    LET k == call[c]
    IN  /\ At(c, "check")
        /\ Goes(c, CASE k.settings.revision = control.revision ->
                            [k EXCEPT !.attempt = 0, !.pc = IF k.then = "command" THEN "build" ELSE "committed"]
                     [] Again(k, Attempts) -> Retry(k)
                     [] OTHER -> Answer(k, "InternalError"))
        /\ UNCHANGED <<owner, control, history, budget>>

(***************************************************************************)
(* CaptureSnapshot: three owners are read, then their versions again; the  *)
(* second reading makes an interval in which all three values were there.  *)
(***************************************************************************)
\* No snapshot: a query has nothing to show, a command does not know its result.
NotRunning(k) == Answer(k, IF k.kind \in Queries THEN "Unavailable" ELSE "Indeterminate")
Retries(k) == IF Again(k, Attempts) THEN Retry(k) ELSE NotRunning(k)

CaptureDevices(c) ==
    /\ At(c, "devices")
    /\ Goes(c, [call[c] EXCEPT !.pc = "startup", !.read = <<call[c].settings.revision, owner.devices>>])
    /\ UNCHANGED <<owner, control, history, budget>>

CaptureStartup(c) ==
    /\ At(c, "startup")
    /\ Goes(c, [call[c] EXCEPT !.pc = "controller", !.read = Append(@, owner.publication)])
    /\ UNCHANGED <<owner, control, history, budget>>

CaptureController(c) ==
    /\ At(c, "controller")
    /\ Goes(c, IF control.running
               THEN [call[c] EXCEPT !.pc = "again1", !.generation = control.generation]
               ELSE NotRunning(call[c]))
    /\ UNCHANGED <<owner, control, history, budget>>

StillCurrentAnyway(k, i) == TRUE
StillCurrent(k, i) == Versions(owner)[i] = k.read[i]

AfterReread(i) == <<"again2", "again3", "commit">>[i]

Reread(c, i) ==
    /\ At(c, <<"again1", "again2", "again3">>[i])
    /\ Goes(c, IF StillCurrent(call[c], i) THEN [call[c] EXCEPT !.pc = AfterReread(i)]
               ELSE Retries(call[c]))
    /\ UNCHANGED <<owner, control, history, budget>>

AdvanceFor(last, seen, generation) ==
    IF last # 0 /\ last # seen THEN Advanced(generation) ELSE generation

CommitSnapshot(c) ==
    LET k == call[c]
        stale == \/ control.generation # k.generation
                 \/ control.revision # k.read[1]
                 \/ control.devices > k.read[2]
                 \/ control.publication > k.read[3]
        generation == AdvanceFor(control.publication, k.read[3],
                          AdvanceFor(control.devices, k.read[2], control.generation))
    IN  /\ At(c, "commit")
        /\ \/ /\ ~control.running
              /\ Goes(c, NotRunning(k)) /\ UNCHANGED <<control, history>>
           \/ /\ control.running /\ stale
              /\ Goes(c, Retries(k)) /\ UNCHANGED <<control, history>>
           \/ /\ control.running /\ ~stale
              /\ control' = [control EXCEPT !.generation = generation, !.devices = k.read[2],
                                            !.publication = k.read[3]]
              /\ history' = [history EXCEPT !.snapshots = @ \cup
                                {[generation |-> generation, versions |-> k.read]}]
              /\ Goes(c, Answer(k, "Success"))
        /\ UNCHANGED <<owner, budget>>

(***************************************************************************)
(* What a command does with the settings it read.                          *)
(***************************************************************************)
ResolveTarget(k) ==
    Resolve(k.selector, Devices(k.settings), k.settings.default, k.settings.last, Hex)

\* Toggle decides with the records it resolved the target with.
ToggleKind(k, target) ==
    IF k.kind # "ToggleLast" THEN k.kind
    ELSE IF IsConnected(Devices(k.settings), target) THEN "Disconnect" ELSE "Connect"

IsBusy(d) == owner.state[d] \in {"Connecting", "Disconnecting"}
SomeoneIsBusy == \E d \in Device : IsBusy(d)

\* RunConnectionAction, Toggle, SetDefault and WriteAlias up to the point
\* where they would change something.
BuildTarget(c) ==
    LET k == call[c]
    IN  /\ At(c, "build") /\ k.kind \in TargetKinds
        /\ \E r \in {ResolveTarget(k)} :
             LET connected == IsConnected(Devices(k.settings), r.target)
                 kind == ToggleKind(k, r.target)
                 next == [k EXCEPT !.target = r.target, !.kind = kind]
             IN  Goes(c, CASE r.code # "Success" -> Answer(k, r.code)
                           [] kind \in {"SetDefault", "SetAlias"} /\ ~r.exists -> Answer(k, "NotFound")
                           [] k.kind = "ToggleLast" /\ k.detached /\ SomeoneIsBusy -> Answer(k, "Busy")
                           [] kind = "Connect" /\ connected -> Answer(next, "Success")
                           [] kind = "Disconnect" /\ ~connected -> Answer(next, "Success")
                           [] OTHER -> [next EXCEPT !.pc = "act"])
        /\ UNCHANGED <<owner, control, history, budget>>

\* The commands without a target; ReconnectAll takes the devices connected now.
BuildOther(c) ==
    LET k == call[c]
    IN  /\ At(c, "build") /\ k.kind \notin TargetKinds
        /\ Goes(c, [k EXCEPT !.pc = "act",
                             !.queue = IF k.kind = "ReconnectAll" /\ ~k.detached
                                       THEN {d \in Device : IsConnected(Devices(k.settings), d)} ELSE {}])
        /\ UNCHANGED <<owner, control, history, budget>>

(***************************************************************************)
(* The changes.  Each is preceded by a last look at the caller's context.  *)
(***************************************************************************)
Acting(c, pc) == At(c, pc) /\ ~MutationAdmissionFailure(call[c])

Refuse(c) ==
    /\ At(c, "act") /\ MutationAdmissionFailure(call[c])
    /\ call[c].kind \notin {"MutateSettings", "StartupTask"}
    /\ Answers(c, ContextCode(call[c].context))
    /\ UNCHANGED <<owner, control, history, budget>>

\* SetDefault, ClearDefault, WriteAlias and the setters of the settings window.
ChangedSettings(k) ==
    LET s == owner.settings
    IN  CASE k.kind = "SetDefault"   -> [s EXCEPT !.default = k.target]
          [] k.kind = "ClearDefault" -> [s EXCEPT !.default = "none"]
          [] k.kind = "SetAlias"     ->
                 [s EXCEPT !.saved = (k.target :> [name |-> Name[k.target], alias |-> budget.alias]) @@ @]
          [] k.kind = "MutateSettings" -> [s EXCEPT !.option = ~@]

SettingsKinds == {"SetDefault", "ClearDefault", "SetAlias", "MutateSettings"}

\* The store may reject a change: a full list of devices, a closed store.  SetDefault
\* answers with success when it did so because the device's id is too long to be kept.
RejectionCodes(k) == {"OperationFailed"} \cup IF k.kind = "SetDefault" THEN {"Success"} ELSE {}

ChangeSettings(c, accepted) ==
    LET k == call[c]
        acted == [k EXCEPT !.acted = TRUE]
    IN  /\ At(c, "act") /\ k.kind \in SettingsKinds
        /\ k.kind = "MutateSettings" \/ ~MutationAdmissionFailure(k)
        /\ \/ /\ ~accepted /\ Spend("rejections")
              /\ \E code \in RejectionCodes(k) : Answers(c, code)
              /\ UNCHANGED <<owner, history>>
           \/ /\ accepted /\ UNCHANGED budget
              /\ Observing(Stored(ChangedSettings(k)))
              /\ Goes(c, IF k.kind = "MutateSettings" THEN Answer(acted, "Success")
                         ELSE [acted EXCEPT !.pc = "read", !.then = "commit"])
        /\ UNCHANGED control

\* After the change the settings are read again, and a snapshot is made of it.
SettingsCommitted(c) ==
    /\ At(c, "committed")
    /\ Goes(c, IF call[c].kind = "SetAlias" THEN Answer(call[c], "Success")
               ELSE [call[c] EXCEPT !.pc = "read", !.then = "capture"])
    /\ UNCHANGED <<owner, control, history, budget>>

RequestStartupTask(c) ==
    /\ At(c, "act") /\ call[c].kind = "StartupTask"
    /\ Observing([owner EXCEPT !.publication = @ + 1])
    /\ Goes(c, Answer([call[c] EXCEPT !.acted = TRUE], "Success"))
    /\ UNCHANGED <<control, budget>>

\* The presentation answers, as UiDispatcher reports: shown, or not.
Present(c, status) ==
    LET k == [call[c] EXCEPT !.acted = status # "Failed"]
    IN  /\ Acting(c, "act") /\ k.kind \in Presentations
        /\ status \in {"Succeeded", "Failed", "Indeterminate"}
        /\ control' = IF status = "Succeeded"
                      THEN [control EXCEPT !.generation = Advanced(@)] ELSE control
        /\ Goes(c, Answer(k, CASE status = "Succeeded" -> "Success"
                               [] status = "Failed"    -> "Unavailable"
                               [] OTHER                -> "Indeterminate"))
        /\ UNCHANGED <<owner, history, budget>>

\* DeviceService::Connect and Reconnect: a rejected command changes nothing.
Disconnected(o, ds) == [o EXCEPT !.state = [d \in Device |-> IF d \in ds /\ o.state[d] # "Idle"
                                                             THEN "Disconnecting" ELSE o.state[d]],
                                 !.devices = @ + 1]
Connecting(d) == [WithState(d, "Connecting") EXCEPT !.sessions = @ \cup {d}]

Operates(c, o, k) ==
    /\ Observing(o)
    /\ call' = Everybody([call EXCEPT ![c] = [k EXCEPT !.acted = TRUE]], o)

Rejected(c, k) == Spend("rejections") /\ Goes(c, k) /\ UNCHANGED <<owner, history>>

AnswerRegardless(k, failed, code) == Answer(k, "Success")
AnswerIf(k, failed, code) == Answer(k, IF failed THEN code ELSE "Success")

\* Disconnect, with the look at the device that follows it.
RunDisconnect(c, accepted) ==
    LET k == call[c]
    IN  /\ Acting(c, "act") /\ k.kind = "Disconnect"
        /\ IF accepted
           THEN Operates(c, Disconnected(owner, {k.target}), [k EXCEPT !.pc = "after"]) /\ UNCHANGED budget
           ELSE Rejected(c, [k EXCEPT !.pc = "after"])
        /\ UNCHANGED control

LookAfterDisconnect(c) ==
    LET k == call[c]
        connected == IsConnected(Devices(k.settings), k.target)
    IN  /\ At(c, "after") /\ k.kind = "Disconnect"
        /\ Goes(c, AnswerIf(k, connected, "OperationFailed"))
        /\ control' = IF connected THEN control ELSE [control EXCEPT !.generation = Advanced(@)]
        /\ UNCHANGED <<owner, history, budget>>

\* Connect and Reconnect of a caller that does not wait.
RunDetached(c, accepted) ==
    LET k == call[c]
    IN  /\ Acting(c, "act") /\ k.kind \in {"Connect", "Reconnect"} /\ k.detached
        /\ IF accepted
           THEN /\ Operates(c, Connecting(k.target), Answer(k, "Success"))
                /\ control' = [control EXCEPT !.generation = Advanced(@)] /\ UNCHANGED budget
           ELSE Rejected(c, Answer(k, "Busy")) /\ UNCHANGED control

\* PerformDeviceOperation: the command is given and its end awaited.
RunAndWait(c, accepted) ==
    LET k == call[c]
    IN  /\ Acting(c, "act") /\ k.kind \in {"Connect", "Reconnect"} /\ ~k.detached
        /\ IF accepted
           THEN /\ Operates(c, Connecting(k.target), [k EXCEPT !.pc = "wait", !.witness = {}])
                /\ UNCHANGED budget
           ELSE Rejected(c, Answer(k, "Indeterminate"))
        /\ UNCHANGED control

\* One device after the other, and only those still to be done.
ReconnectNext(c, d, accepted) ==
    LET k == call[c]
    IN  /\ Acting(c, "act") /\ k.kind = "ReconnectAll" /\ d \in k.queue
        /\ IF accepted
           THEN /\ Operates(c, Connecting(d), [k EXCEPT !.pc = "wait", !.target = d, !.witness = {},
                                                        !.queue = @ \ {d}])
                /\ UNCHANGED budget
           ELSE Rejected(c, Answer(k, "Indeterminate"))
        /\ UNCHANGED control

Ended(k) == owner.state[k.target] \in {"Connected", "Failed", "Idle"}
OperationStatus(k) == IF <<k.target, TRUE>> \in k.witness THEN "Succeeded" ELSE "Failed"

WaitEnds(c) ==
    LET k == call[c]
    IN  /\ At(c, "wait")
        /\ \/ /\ Ended(k)
              /\ Goes(c, IF OperationStatus(k) = "Succeeded" THEN [k EXCEPT !.pc = "after"]
                         ELSE Answer(k, "Indeterminate"))
           \/ /\ ~Ended(k) /\ k.context # "live"
              /\ Answers(c, ContextCode(k.context))
        /\ UNCHANGED <<owner, control, history, budget>>

\* The devices are read once more; a device that is gone by now is a failure.
LookAfterConnect(c) ==
    LET k == call[c]
        lost == ~IsConnected(Devices(k.settings), k.target)
    IN  /\ At(c, "after") /\ k.kind \in {"Connect", "Reconnect", "ReconnectAll"}
        /\ IF ~lost /\ k.kind = "ReconnectAll"
           THEN To(c, "act") /\ UNCHANGED control
           ELSE /\ Goes(c, AnswerIf(k, lost, "OperationFailed"))
                /\ control' = IF lost THEN control ELSE [control EXCEPT !.generation = Advanced(@)]
        /\ UNCHANGED <<owner, history, budget>>

\* DisconnectAll, ReconnectAll of a caller that does not wait, and the end of
\* a ReconnectAll that did every device.
ActOnAll(c) ==
    LET k == call[c]
    IN  /\ Acting(c, "act") /\ k.kind \in {"DisconnectAll", "ReconnectAll"} /\ k.queue = {}
        /\ control' = [control EXCEPT !.generation = Advanced(@)]
        /\ CASE k.kind = "DisconnectAll" ->
                  Operates(c, Disconnected(owner, owner.sessions), Answer(k, "Success"))
             [] k.kind = "ReconnectAll" /\ k.detached ->
                  Operates(c, [owner EXCEPT !.state = [d \in Device |-> IF owner.state[d] = "Connected"
                                                                       THEN "Connecting" ELSE owner.state[d]],
                                            !.devices = @ + 1], Answer(k, "Success"))
             [] OTHER -> Goes(c, Answer(k, "Success")) /\ UNCHANGED <<owner, history>>
        /\ UNCHANGED budget

\* RequestStop refuses new calls; Shutdown returns when the last one is done.
RequestStop ==
    /\ control.running /\ Spend("stops")
    /\ control' = [control EXCEPT !.running = FALSE, !.generation = Advanced(@)]
    /\ UNCHANGED <<owner, call, history>>

Shutdown ==
    /\ ~control.running /\ ~control.returned /\ control.active = {}
    /\ control' = [control EXCEPT !.returned = TRUE]
    /\ UNCHANGED <<owner, call, history, budget>>

---------------------------------------------------------------------------
Init ==
    /\ budget \in Budgets
    /\ owner = [revision |-> 1, devices |-> 1, publication |-> 1,
                settings |-> [default |-> "none", last |-> budget.last, saved |-> <<>>, option |-> FALSE],
                state |-> budget.state, sessions |-> {d \in Device : budget.state[d] # "Idle"},
                inventory |-> budget.inventory]
    /\ control = [running |-> TRUE, returned |-> FALSE, generation |-> 1, active |-> {},
                  revision |-> 0, devices |-> 0, publication |-> 0]
    /\ call = [c \in Caller |-> IdleCall]
    /\ history = [instants |-> {Versions(owner)}, snapshots |-> {}]

Reads(c) ==
    \/ ReadSettings(c) \/ RecordSettings(c) \/ CheckSettings(c)
    \/ CaptureDevices(c) \/ CaptureStartup(c) \/ CaptureController(c)
    \/ \E i \in 1..3 : Reread(c, i)
    \/ CommitSnapshot(c)

Changes(c) ==
    \/ \E accepted \in BOOLEAN : \/ ChangeSettings(c, accepted)
                                 \/ RunDisconnect(c, accepted)
                                 \/ RunDetached(c, accepted)
                                 \/ RunAndWait(c, accepted)
                                 \/ \E d \in Device : ReconnectNext(c, d, accepted)
    \/ \E status \in {"Succeeded", "Failed", "Indeterminate"} : Present(c, status)
    \/ SettingsCommitted(c) \/ RequestStartupTask(c)
    \/ LookAfterDisconnect(c) \/ WaitEnds(c) \/ LookAfterConnect(c) \/ ActOnAll(c)

Next ==
    \/ \E c \in Caller :
         \/ \E b \in budget.calls : Begin(c, b[1], b[2], b[3])
         \/ \E how \in {"cancelled", "expired"} : ContextEnds(c, how)
         \/ WithAdmission(c) \/ Return(c) \/ Reads(c)
         \/ BuildTarget(c) \/ BuildOther(c) \/ Refuse(c) \/ Changes(c)
    \/ \E d \in Device : DeviceAppears(d) \/ \E s \in {"Connected", "Failed", "Idle"} : DeviceChanges(d, s)
    \/ StartupTaskChanges
    \/ RequestStop \/ Shutdown

---------------------------------------------------------------------------
\* CaptureSnapshot: the settings, the devices and the startup task that a
\* snapshot shows were all there at one instant, though they are read one
\* after the other; and two snapshots of one generation show the same.
SnapshotsAreCoherent ==
    /\ \A s \in history.snapshots : s.versions \in history.instants
    /\ \A s, t \in history.snapshots : s.generation = t.generation => s.versions = t.versions

\* The codes are promises: a call that was not admitted, or answers that there
\* was nothing to act on, changed nothing; a caller that waited and is told that
\* a device is connected, or disconnected, could have seen it while it waited.
AnswersAreTrue ==
    \A c \in Caller : At(c, "answered") =>
        LET k == call[c]
        IN  /\ \/ k.phase = "NotStarted"
               \/ k.code \in {"NotFound", "Ambiguous", "Busy"}
               => ~k.acted
            /\ (k.code = "Success" /\ k.kind = "Disconnect") => <<k.target, FALSE>> \in k.witness
            /\ (k.code = "Success" /\ k.kind \in {"Connect", "Reconnect"} /\ ~k.detached)
               => <<k.target, TRUE>> \in k.witness

\* Shutdown returns only when no call is left that could reach the owners: the
\* service, the store and the startup task may be destroyed behind it.
NoCallReachesTheOwners ==
    control.returned => \A c \in Caller : call[c].pc \in {"idle", "admit", "answered"}

=============================================================================
