--------------------------- MODULE PowerTransition ---------------------------
(***************************************************************************)
(* PowerTransitionCoordinator and the two callbacks the host gives it:     *)
(* after a suspend the devices that were in use are reconnected by a       *)
(* ten-second timer, at most MaxAttempts times each.                       *)
(*                                                                         *)
(* The window procedure and the queued reconnect tasks run on the UI       *)
(* thread; ticks run on pool threads, and one that was admitted goes on    *)
(* after its timer is cancelled.  A step is what a thread does under one   *)
(* hold of ResumeState::Mutex, with the timer calls next to it, or one     *)
(* call of a callback.  The two-second window that drops a duplicate       *)
(* resume is left open: dropped or not, it leaves this state alone.        *)
(***************************************************************************)
EXTENDS Naturals, FiniteSets, Functions

CONSTANTS
    Device,
    Pool,           \* pool threads that may run ticks at the same time
    UI,
    MaxAttempts,    \* c_maxResumeReconnectAttempts
    MaxCycles,      \* bound: suspends considered
    MaxFailures     \* bound: calls that fail (rejected, thrown, no apartment)

Thread == Pool \cup {UI}

ASSUME PowerTransitionAssumption ==
    /\ UI \notin Pool
    /\ MaxAttempts \in Nat \ {0} /\ MaxCycles \in Nat /\ MaxFailures \in Nat

VARIABLES
    powerSuspended, exiting,
    targets,            \* Targets: the attempts spent on each device to be reconnected
    generation, deliverySequence, reconnect, deliveryInFlight, cancelled,
    cancelTimer,        \* generation of the timer whose handle is held, 0 for none
    ticking,            \* and whether that timer still fires
    pc, local,          \* where each thread is, and the delivery it works on
    queue,              \* deliveries the UI dispatcher has accepted
    failures,           \* counts towards MaxFailures
    owed,               \* history: devices in use at a suspend that have since neither
                        \* connected nor been reconnected MaxAttempts times
    resumed             \* history: reconnects made of each device since the last suspend

recovery == <<targets, generation, deliverySequence, reconnect, deliveryInFlight, cancelled>>
timer    == <<cancelTimer, ticking>>
threads  == <<pc, local, queue, failures>>
history  == <<owed, resumed>>
vars == <<powerSuspended, exiting, recovery, timer, threads, history>>

Delivery == [generation : Nat, delivery : Nat, ids : SUBSET Device]
NoDelivery == [generation |-> 0, delivery |-> 0, ids |-> {}]

Init ==
    /\ powerSuspended = FALSE /\ exiting = FALSE
    /\ targets = [d \in {} |-> 0]
    /\ generation = 0 /\ deliverySequence = 0
    /\ reconnect = FALSE /\ deliveryInFlight = FALSE /\ cancelled = FALSE
    /\ cancelTimer = 0 /\ ticking = FALSE
    /\ pc = [t \in Thread |-> "Idle"] /\ local = [t \in Thread |-> NoDelivery]
    /\ queue = {} /\ failures = 0
    /\ owed = {} /\ resumed = [d \in Device |-> 0]

Goto(t, label) == pc' = [pc EXCEPT ![t] = label]
Done(t) == pc' = [pc EXCEPT ![t] = "Idle"] /\ local' = [local EXCEPT ![t] = NoDelivery]
CancelResumeReconnectTimer == cancelTimer' = 0 /\ ticking' = FALSE
Fails == failures < MaxFailures /\ failures' = failures + 1
-----------------------------------------------------------------------------
(* Lifecycle, on the UI thread.                                            *)

Invalidate ==
    /\ cancelled' = TRUE /\ reconnect' = FALSE /\ deliveryInFlight' = FALSE
    /\ generation' = generation + 1
    /\ UNCHANGED deliverySequence

(* Up to the settings flush and the suspension of the devices.             *)
HandleSuspend ==
    /\ pc[UI] = "Idle" /\ ~exiting /\ ~powerSuspended
    /\ generation < MaxCycles
    /\ powerSuspended' = TRUE
    /\ Invalidate /\ UNCHANGED targets
    /\ CancelResumeReconnectTimer
    /\ Goto(UI, "SuspendDevices")
    /\ local' = [local EXCEPT ![UI] = [NoDelivery EXCEPT !.generation = generation']]
    /\ UNCHANGED <<exiting, queue, failures, history>>

(* Mutant of BeginCycle: only the new devices start with a full budget.    *)
BeginCycleKeepsCounts(activeDeviceIds) ==
    targets' = [d \in DOMAIN targets \cup activeDeviceIds |->
                    IF d \in DOMAIN targets THEN targets[d] ELSE 0]

BeginCycle(activeDeviceIds) ==
    targets' = [d \in DOMAIN targets \cup activeDeviceIds |-> 0]

(* A teardown begun by a callback of HandleSuspend ends before it.         *)
NestedTeardownDone == exiting => generation # local[UI].generation

(* The devices are suspended, and those that were in use become targets    *)
(* unless the application was cancelled meanwhile.                         *)
SuspendDevices(activeDeviceIds) ==
    /\ pc[UI] = "SuspendDevices" /\ NestedTeardownDone
    /\ IF generation # local[UI].generation \/ exiting
       THEN UNCHANGED <<targets, cancelled, history>>
       ELSE /\ BeginCycle(activeDeviceIds)
            /\ cancelled' = FALSE
            /\ owed' = owed \cup activeDeviceIds
            /\ resumed' = [d \in Device |-> 0]
    /\ Done(UI)
    /\ UNCHANGED <<powerSuspended, exiting, generation, deliverySequence, reconnect,
                   deliveryInFlight, timer, queue, failures>>

(* The settings flush or the devices threw.                                *)
SuspendFails ==
    /\ pc[UI] = "SuspendDevices" /\ NestedTeardownDone
    /\ Fails
    /\ Done(UI)
    /\ UNCHANGED <<powerSuspended, exiting, recovery, timer, queue, history>>

(* A resume that follows a suspend, up to the return of the devices.       *)
HandleResume ==
    /\ pc[UI] = "Idle" /\ ~exiting /\ powerSuspended
    /\ powerSuspended' = FALSE
    /\ Goto(UI, "ResumeDevices")
    /\ UNCHANGED <<exiting, recovery, timer, local, queue, failures, history>>

ResumeFails ==
    /\ pc[UI] = "ResumeDevices" /\ Fails
    /\ Done(UI)
    /\ UNCHANGED <<powerSuspended, exiting, recovery, timer, queue, history>>

InstallReconnect ==
    /\ pc[UI] = "ResumeDevices"
    /\ CancelResumeReconnectTimer
    /\ IF cancelled \/ DOMAIN targets = {}
       THEN Done(UI) /\ UNCHANGED recovery
       ELSE /\ reconnect' = TRUE /\ deliveryInFlight' = FALSE
            /\ local' = [local EXCEPT ![UI] = [NoDelivery EXCEPT !.generation = generation]]
            /\ Goto(UI, "Schedule")
            /\ UNCHANGED <<targets, generation, deliverySequence, cancelled>>
    /\ UNCHANGED <<powerSuspended, exiting, queue, failures, history>>

Schedule ==
    /\ pc[UI] = "Schedule"
    /\ cancelTimer' = local[UI].generation /\ ticking' = TRUE
    /\ Done(UI)
    /\ UNCHANGED <<powerSuspended, exiting, recovery, queue, failures, history>>

(* No timer: the delivery is made once, here.                              *)
TimerUnavailable ==
    /\ pc[UI] = "Schedule"
    /\ Goto(UI, "Deliver")
    /\ UNCHANGED <<powerSuspended, exiting, recovery, timer, local, queue, failures, history>>

NotifyDeviceConnected(d) ==
    /\ pc[UI] = "Idle" /\ ~exiting
    /\ targets' = Restrict(targets, DOMAIN targets \ {d})
    /\ IF DOMAIN targets \subseteq {d} THEN CancelResumeReconnectTimer ELSE UNCHANGED timer
    /\ owed' = owed \ {d}
    /\ UNCHANGED <<powerSuspended, exiting, generation, deliverySequence, reconnect,
                   deliveryInFlight, cancelled, threads, resumed>>

(* The host stops its dispatcher, which drops the queued tasks, and then   *)
(* cancels the coordinator.  A callback of HandleSuspend may do so too.    *)
PerformTeardown ==
    /\ pc[UI] \in {"Idle", "SuspendDevices"} /\ ~exiting
    /\ exiting' = TRUE
    /\ queue' = {}
    /\ UNCHANGED <<powerSuspended, recovery, timer, pc, local, failures, history>>

Cancel ==
    /\ exiting /\ generation <= MaxCycles
    /\ Invalidate
    /\ targets' = [d \in {} |-> 0]
    /\ owed' = {}
    /\ CancelResumeReconnectTimer
    /\ UNCHANGED <<powerSuspended, exiting, threads, resumed>>
-----------------------------------------------------------------------------
(* Ticks.  A tick that returns false stops its timer.                      *)

(* Mutants of Stops: the result of a tick is ignored; whatever timer is    *)
(* armed is stopped.                                                       *)
StopsNothing(g) == UNCHANGED timer
StopsAny(g) == ticking' = FALSE /\ UNCHANGED cancelTimer

Stops(g) == ticking' = (ticking /\ cancelTimer # g) /\ UNCHANGED cancelTimer

FireTimer(p) ==
    /\ ticking /\ pc[p] = "Idle"
    /\ exiting => failures < MaxFailures    \* bound: ticks during a teardown
    /\ local' = [local EXCEPT ![p] = [NoDelivery EXCEPT !.generation = cancelTimer]]
    /\ Goto(p, "Deliver")
    /\ UNCHANGED <<powerSuspended, exiting, recovery, timer, queue, failures, history>>

(* The apartment of a tick is not available: the next tick tries again.    *)
ApartmentUnavailable(p) ==
    /\ pc[p] = "Deliver" /\ Fails
    /\ Done(p)
    /\ UNCHANGED <<powerSuspended, exiting, recovery, timer, queue, history>>

StopTick(t) ==
    /\ pc[t] = "Deliver"
    /\ cancelled \/ generation # local[t].generation \/ DOMAIN targets = {}
    /\ Stops(local[t].generation)
    /\ Done(t)
    /\ UNCHANGED <<powerSuspended, exiting, recovery, queue, failures, history>>

(* Mutant of MayDeliver: a tick does not wait for the last delivery.       *)
MayDeliverAgain(t) ==
    pc[t] = "Deliver" /\ ~cancelled /\ generation = local[t].generation /\ DOMAIN targets # {}

MayDeliver(t) ==
    /\ pc[t] = "Deliver"
    /\ ~cancelled /\ generation = local[t].generation /\ DOMAIN targets # {}
    /\ ~deliveryInFlight

SkipTick(t) ==
    /\ pc[t] = "Deliver"
    /\ ~cancelled /\ generation = local[t].generation /\ DOMAIN targets # {}
    /\ deliveryInFlight
    /\ Done(t)
    /\ UNCHANGED <<powerSuspended, exiting, recovery, timer, queue, failures, history>>

(* Mutant of Eligible: one attempt too many.                               *)
EligibleOnceMore == {d \in DOMAIN targets : targets[d] <= MaxAttempts}

Eligible == {d \in DOMAIN targets : targets[d] < MaxAttempts}

(* SelectEligible drops the exhausted targets; the others are delivered.   *)
DeliverResumeReconnect(t) ==
    /\ MayDeliver(t)
    /\ targets' = Restrict(targets, Eligible)
    /\ deliverySequence' = deliverySequence + 1
    /\ deliveryInFlight' = (Eligible # {} /\ reconnect)
    /\ IF deliveryInFlight'
       THEN /\ Goto(t, "Call")
            /\ local' = [local EXCEPT ![t].delivery = deliverySequence', ![t].ids = Eligible]
       ELSE Done(t)
    /\ IF Eligible = {} THEN Stops(local[t].generation) ELSE UNCHANGED timer
    /\ owed' = {d \in owed : resumed[d] < MaxAttempts}
    /\ UNCHANGED <<powerSuspended, exiting, generation, reconnect, cancelled,
                   queue, failures, resumed>>
-----------------------------------------------------------------------------
(* The host's reconnect callback, and the completion it is given.          *)

IsCurrent(g) == ~cancelled /\ generation = g

(* Mutant of Completed: a reconnect that was not made is counted.          *)
CompletedCountsSkips(job, attemptedIds) ==
    IF ~IsCurrent(job.generation) \/ deliverySequence # job.delivery \/ ~deliveryInFlight
    THEN UNCHANGED <<targets, deliveryInFlight>>
    ELSE /\ targets' = [d \in DOMAIN targets |->
                           IF d \in job.ids THEN targets[d] + 1 ELSE targets[d]]
         /\ deliveryInFlight' = FALSE

Completed(job, attemptedIds) ==
    IF ~IsCurrent(job.generation) \/ deliverySequence # job.delivery \/ ~deliveryInFlight
    THEN UNCHANGED <<targets, deliveryInFlight>>
    ELSE /\ targets' = [d \in DOMAIN targets |->
                           IF d \in attemptedIds THEN targets[d] + 1 ELSE targets[d]]
         /\ deliveryInFlight' = FALSE

(* The dispatcher accepts the task.                                        *)
CallAccepted(p) ==
    /\ pc[p] = "Call" /\ ~exiting
    /\ queue' = queue \cup {local[p]}
    /\ Done(p)
    /\ UNCHANGED <<powerSuspended, exiting, recovery, timer, failures, history>>

(* It does not, or the callback throws; a stopped dispatcher never does.   *)
CallRejected(p) ==
    /\ pc[p] = "Call"
    /\ exiting \/ failures < MaxFailures
    /\ failures' = IF failures < MaxFailures THEN failures + 1 ELSE failures
    /\ Completed(local[p], {})
    /\ Done(p)
    /\ UNCHANGED <<powerSuspended, exiting, generation, deliverySequence, reconnect, cancelled,
                   timer, queue, history>>

(* Mutant of IsResumeReconnectGenerationCurrent: any cycle will do.        *)
IsAnyRecoveryCurrent(g) == ~cancelled /\ DOMAIN targets # {}

IsResumeReconnectGenerationCurrent(g) == IsCurrent(g) /\ DOMAIN targets # {}

(* The task on the UI thread: the devices of a current delivery are        *)
(* resumed, and the completion is called in every case.  Ticks that run    *)
(* meanwhile find the delivery in flight.                                  *)
Reconnect(job) ==
    LET attemptedIds == IF IsResumeReconnectGenerationCurrent(job.generation)
                        THEN job.ids ELSE {}
    IN  /\ resumed' = [d \in Device |-> IF d \in attemptedIds THEN resumed[d] + 1
                                        ELSE resumed[d]]
        /\ Completed(job, attemptedIds)
        /\ UNCHANGED <<powerSuspended, exiting, generation, deliverySequence, reconnect,
                       cancelled, timer, failures, owed>>

RunTask(job) ==
    /\ pc[UI] = "Idle" /\ ~exiting
    /\ job \in queue
    /\ queue' = queue \ {job}
    /\ Reconnect(job)
    /\ UNCHANGED <<pc, local>>

(* On the UI thread itself the dispatcher runs the task at once.           *)
CallInline ==
    /\ pc[UI] = "Call"
    /\ Reconnect(local[UI])
    /\ Done(UI)
    /\ UNCHANGED queue
-----------------------------------------------------------------------------
Tick(t) == StopTick(t) \/ SkipTick(t) \/ DeliverResumeReconnect(t)
Host == \/ HandleSuspend \/ (\E ids \in SUBSET Device : SuspendDevices(ids)) \/ SuspendFails
        \/ HandleResume \/ ResumeFails \/ InstallReconnect \/ Schedule \/ TimerUnavailable
        \/ PerformTeardown \/ Cancel \/ CallInline
        \/ \E d \in Device : NotifyDeviceConnected(d)

Next ==
    \/ Host
    \/ \E t \in Thread : Tick(t)
    \/ \E p \in Pool : FireTimer(p) \/ ApartmentUnavailable(p) \/ CallAccepted(p) \/ CallRejected(p)
    \/ \E job \in queue : RunTask(job)

Spec == Init /\ [][Next]_vars

-----------------------------------------------------------------------------
TypeOK ==
    /\ powerSuspended \in BOOLEAN /\ exiting \in BOOLEAN
    /\ DOMAIN targets \subseteq Device /\ targets \in [DOMAIN targets -> 0 .. MaxAttempts]
    /\ generation \in Nat /\ deliverySequence \in Nat
    /\ reconnect \in BOOLEAN /\ deliveryInFlight \in BOOLEAN /\ cancelled \in BOOLEAN
    /\ cancelTimer \in Nat /\ ticking \in BOOLEAN
    /\ pc \in [Thread -> {"Idle", "SuspendDevices", "ResumeDevices", "Schedule", "Deliver", "Call"}]
    /\ local \in [Thread -> Delivery] /\ queue \subseteq Delivery
    /\ failures \in Nat
    /\ owed \subseteq Device /\ resumed \in [Device -> Nat]

(* The deliveries that are not completed yet, and those of them whose      *)
(* completion would still count.                                           *)
Outstanding == queue \cup {local[t] : t \in {u \in Thread : pc[u] = "Call"}}
Live == {job \in Outstanding : IsCurrent(job.generation)}

(* One delivery at a time, whatever ticks overlap, and no completion is    *)
(* lost: at most one delivery is live and it is the one in flight ("a      *)
(* ten-second tick admits one delivery at a time"); one in flight is still *)
(* on its way, so the recovery never waits for a completion that will not  *)
(* come.  Tasks dropped by the exit are the exception                      *)
(* (DeliverResumeReconnect, HandlePowerResume).                            *)
OneDeliveryAtATime ==
    /\ \A job \in Live : deliveryInFlight /\ job.delivery = deliverySequence
    /\ Cardinality(Live) <= 1
    /\ deliveryInFlight /\ ~exiting => Live # {}

(* The attempts counted are reconnects made since the last suspend: skips  *)
(* and late completions spend nothing ("up to six actual attempts per      *)
(* target"; RecordAttempts, BeginCycle).                                   *)
AttemptsAreReal ==
    /\ ~cancelled => \A d \in DOMAIN targets : targets[d] = resumed[d]
    /\ \A d \in Device : resumed[d] <= MaxAttempts

(* A device in use at a suspend is a target until it connects, over any    *)
(* number of suspends, or has had all its attempts (SelectEligible).       *)
OwedAreTargets ==
    owed \subseteq DOMAIN targets

(* No device is reconnected while the system is suspended, by a task       *)
(* queued before the suspend or a tick that outlived its timer             *)
(* (IsResumeReconnectGenerationCurrent).                                   *)
NoReconnectWhileSuspendedStep ==
    (\E d \in Device : resumed'[d] > resumed[d]) => ~powerSuspended /\ ~exiting

(* A held timer drives the recovery: it fires as long as there are targets *)
(* and belongs to the current cycle, and no tick of an earlier one stops   *)
(* it (OnTimer, CancelResumeReconnectTimer).                               *)
TargetsAreDriven ==
    cancelTimer # 0 => /\ cancelTimer = generation /\ ~powerSuspended
                       /\ DOMAIN targets # {} => ticking

(* The recovery after a suspend, in any order of ticks, completions and    *)
(* suspends: one delivery at a time, only real attempts counted, no device *)
(* forgotten before its attempts are spent, and a timer that is held fires *)
(* for the current cycle (PowerTransitionCoordinator).                     *)
RecoveryIsExact ==
    TypeOK /\ OneDeliveryAtATime /\ AttemptsAreReal /\ OwedAreTargets /\ TargetsAreDriven
=============================================================================
