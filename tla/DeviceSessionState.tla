------------------------- MODULE DeviceSessionState -------------------------
(***************************************************************************)
(* DeviceSession::State (core/DeviceSession.cpp): one Bluetooth device's   *)
(* connection life cycle, as operators on the record that holds the C++    *)
(* members under their own names.  An operator takes the state before a    *)
(* member function and gives the state after it.  The module has no        *)
(* variables: DeviceSession runs one session under every order of calls    *)
(* and callbacks, DeviceService owns several.                              *)
(*                                                                         *)
(* Added to the members:                                                   *)
(*   callbacks    completions, events and timers handed to the platform    *)
(*                that have not yet run on the serialized context.  They   *)
(*                run in any order.  Cancelling a timer leaves its         *)
(*                callback here, since it may already be queued; only the  *)
(*                epoch it captured tells that it is out of date.          *)
(*   HandlerEpoch the epoch captured by the handlers of Connection.        *)
(*   facts        what the running member function has published.          *)
(*   listenerDue  RestoreIncomingListenerAfterTerminal has decided to      *)
(*                start the listener.  In the code that call is the last   *)
(*                thing every path does, so Finish makes it at the end.    *)
(*                                                                         *)
(* A connection is known by its Address, which the allocator may reuse.    *)
(* ReconnectTimer and CloseBarrierTimer are held exactly while a callback  *)
(* of theirs is outstanding, so they are not repeated as members.          *)
(***************************************************************************)
EXTENDS ReconnectPolicy, Sequences

CONSTANTS
    Address,                        \* addresses of DeviceConnection objects
    NoConnection,                   \* the null DeviceConnection pointer
    TransientOpenRetryMaxAttempts   \* opens tried before a transient failure is final

ASSUME SessionAssumption ==
    /\ NoConnection \notin Address
    /\ TransientOpenRetryMaxAttempts \in Nat \ {0}

DeviceLifecycleState ==
    {"Idle", "Connecting", "Connected", "Disconnecting", "WaitingForReconnect", "Failed"}
DeviceOperationKind ==
    {"ManualConnect", "ManualReconnect", "AutomaticReconnect", "Startup", "Resume",
     "IncomingEnable"}
DeviceConnectionState == {"Opened", "Closed"}
DeviceConnectionResult == {"Success", "TimedOut", "Denied", "Failed", "Cancelled"}
DeviceDisconnectReason == {"None", "Normal", "UnexpectedLoss", "DeviceRemoved"}
CloseContinuation == {"Idle", "Replace", "Retry", "TransientOpenRetry", "Suspend"}

(* How the platform answers the calls one member function makes: the       *)
(* connection it creates (or the listener that replaces it), at which      *)
(* address, whether Open is accepted and which timers can be armed.        *)
CreateOutcome == {"Started", "NotStarted", "NoConnection"}
PlatformOutcome ==
    [create : CreateOutcome, listener : CreateOutcome, address : Address, open : BOOLEAN,
     reconnectTimer : BOOLEAN, barrierTimer : BOOLEAN, cooldownTimer : BOOLEAN]

Callback ==
    [kind : {"Started", "Opened"}, epoch : Nat, address : Address]
    \cup [kind : {"StateChanged"}, epoch : Nat, address : Address, state : DeviceConnectionState]
    \cup [kind : {"RetryTimer", "TransientOpenRetryTimer"}, timerEpoch : Nat, epoch : Nat]
    \cup [kind : {"CloseTimeout", "Closed", "Cooldown"}, closeBarrierEpoch : Nat]

PendingClose ==
    [Continuation : CloseContinuation, Failure : DeviceConnectionResult,
     RetryEligible : BOOLEAN, CompletedAttempt : BOOLEAN,
     DisconnectReason : DeviceDisconnectReason]

DeviceSessionSnapshot ==
    [State : DeviceLifecycleState, OperationEpoch : Nat, CompletedRetryAttempts : Nat,
     HasConnection : BOOLEAN, IsIncomingEnabled : BOOLEAN, IsReconnectEnabled : BOOLEAN,
     IsReconnectCancelled : BOOLEAN]

DeviceSessionFact ==
    [Snapshot : DeviceSessionSnapshot, Operation : DeviceOperationKind,
     Result : DeviceConnectionResult, IsTerminalFailure : BOOLEAN,
     DisconnectReason : DeviceDisconnectReason]

SessionState ==
    [Connection : Address \cup {NoConnection}, ClosingConnection : Address \cup {NoConnection},
     StateChangedToken : BOOLEAN, HandlerEpoch : Nat,
     OperationEpoch : Nat, TimerEpoch : Nat, CloseBarrierEpoch : Nat,
     CompletedRetryAttempts : Nat, TransientOpenRetryAttempts : Nat,
     Lifecycle : DeviceLifecycleState, CurrentOperation : DeviceOperationKind,
     IsIncomingEnabled : BOOLEAN, IsReconnectEnabled : BOOLEAN,
     IsReconnectCancelled : BOOLEAN, IsSuspended : BOOLEAN, IsShutdown : BOOLEAN,
     OpenImmediately : BOOLEAN, RetryEligible : BOOLEAN,
     RestoreIncomingAfterClose : BOOLEAN,
     ResumeRequired : BOOLEAN, ResumeOpenImmediately : BOOLEAN, ResumeRequested : BOOLEAN,
     IsSuspendClosePending : BOOLEAN, SuspendCloseEpoch : Nat,
     IsCloseInFlight : BOOLEAN, IsCloseCooldown : BOOLEAN,
     IsCloseContinuationAbandoned : BOOLEAN, Pending : PendingClose,
     callbacks : SUBSET Callback, facts : Seq(DeviceSessionFact), listenerDue : BOOLEAN]

NoPendingClose ==
    [Continuation |-> "Idle", Failure |-> "Success", RetryEligible |-> FALSE,
     CompletedAttempt |-> FALSE, DisconnectReason |-> "None"]

InitialSession ==
    [Connection |-> NoConnection, ClosingConnection |-> NoConnection,
     StateChangedToken |-> FALSE, HandlerEpoch |-> 0,
     OperationEpoch |-> 0, TimerEpoch |-> 0, CloseBarrierEpoch |-> 0,
     CompletedRetryAttempts |-> 0, TransientOpenRetryAttempts |-> 0,
     Lifecycle |-> "Idle", CurrentOperation |-> "ManualConnect",
     IsIncomingEnabled |-> FALSE, IsReconnectEnabled |-> TRUE,
     IsReconnectCancelled |-> FALSE, IsSuspended |-> FALSE, IsShutdown |-> FALSE,
     OpenImmediately |-> TRUE, RetryEligible |-> FALSE,
     RestoreIncomingAfterClose |-> FALSE,
     ResumeRequired |-> FALSE, ResumeOpenImmediately |-> TRUE, ResumeRequested |-> FALSE,
     IsSuspendClosePending |-> FALSE, SuspendCloseEpoch |-> 0,
     IsCloseInFlight |-> FALSE, IsCloseCooldown |-> FALSE,
     IsCloseContinuationAbandoned |-> FALSE, Pending |-> NoPendingClose,
     callbacks |-> {}, facts |-> <<>>, listenerDue |-> FALSE]
-----------------------------------------------------------------------------
(* Native results and small members.                                       *)

ToConnectionResult(status) ==
    CASE status = "Success"         -> "Success"
      [] status = "RequestTimedOut" -> "TimedOut"
      [] status = "DeniedBySystem"  -> "Denied"
      [] OTHER                      -> "Failed"

(* isGenFailure: the extended error is ERROR_GEN_FAILURE.  An exception in *)
(* OpenDetached is an unknown failure that is not transient.               *)
ToOpenResult(status, isGenFailure) ==
    [Result |-> ToConnectionResult(status),
     IsTransientFailure |-> \/ status = "RequestTimedOut"
                            \/ status = "UnknownFailure" /\ isGenFailure]

Snapshot(s) ==
    [State |-> s.Lifecycle, OperationEpoch |-> s.OperationEpoch,
     CompletedRetryAttempts |-> s.CompletedRetryAttempts,
     HasConnection |-> s.Connection # NoConnection,
     IsIncomingEnabled |-> s.IsIncomingEnabled, IsReconnectEnabled |-> s.IsReconnectEnabled,
     IsReconnectCancelled |-> s.IsReconnectCancelled]

IsBusy(s) ==
    \/ s.IsCloseInFlight
    \/ s.Lifecycle \in {"Connecting", "Disconnecting", "WaitingForReconnect"}

Publish(s, result, terminal, disconnectReason) ==
    [s EXCEPT !.facts = Append(@, [Snapshot |-> Snapshot(s), Operation |-> s.CurrentOperation,
                                   Result |-> result, IsTerminalFailure |-> terminal,
                                   DisconnectReason |-> disconnectReason])]

CancelTimer(s) == [s EXCEPT !.TimerEpoch = @ + 1]

(* Mutant of RevokeStateChanged: the handler stays registered.             *)
RevokeNothing(s) == s

RevokeStateChanged(s) ==
    [s EXCEPT !.StateChangedToken = @ /\ s.Connection = NoConnection]

(* Mutant of IsCurrentConnection: the address alone identifies the work.   *)
IsSameAddress(s, epoch, expectedConnection) ==
    ~s.IsShutdown /\ s.Connection = expectedConnection

IsCurrentConnection(s, epoch, expectedConnection) ==
    ~s.IsShutdown /\ epoch = s.OperationEpoch /\ s.Connection = expectedConnection

(* Outstanding native work of the session.                                 *)
NativeWork(kind, epoch, address) == [kind |-> kind, epoch |-> epoch, address |-> address]
TimerWork(kind, timerEpoch, epoch) ==
    [kind |-> kind, timerEpoch |-> timerEpoch, epoch |-> epoch]
BarrierWork(kind, closeBarrierEpoch) ==
    [kind |-> kind, closeBarrierEpoch |-> closeBarrierEpoch]

Await(s, callback) == [s EXCEPT !.callbacks = @ \cup {callback}]
-----------------------------------------------------------------------------
(* The close barrier: a closing connection is owned until its callback.    *)

(* Mutant of AbandonCloseContinuation: the barrier is released as well.    *)
AbandonAndRelease(s) ==
    [s EXCEPT !.Pending = NoPendingClose, !.IsCloseContinuationAbandoned = TRUE,
              !.IsCloseInFlight = FALSE]

AbandonCloseContinuation(s) ==
    [s EXCEPT !.Pending = NoPendingClose, !.IsCloseContinuationAbandoned = TRUE]

(* Every caller holds a connection or has a close in flight, so the branch *)
(* of the code for neither is not reached.                                 *)
BeginClose(s, continuation, failure, shouldRetry, completedAttempt, disconnectReason, p) ==
    LET pended == [s EXCEPT !.Pending = [Continuation |-> continuation, Failure |-> failure,
                                         RetryEligible |-> shouldRetry,
                                         CompletedAttempt |-> completedAttempt,
                                         DisconnectReason |-> disconnectReason],
                            !.IsCloseContinuationAbandoned = FALSE]
        barrier == s.CloseBarrierEpoch + 1
        closing == [RevokeStateChanged(pended) EXCEPT
                        !.ClosingConnection = s.Connection, !.Connection = NoConnection,
                        !.IsCloseInFlight = TRUE, !.CloseBarrierEpoch = barrier]
        timed == IF p.barrierTimer
                 THEN Await(closing, BarrierWork("CloseTimeout", barrier))
                 ELSE AbandonCloseContinuation(
                        Publish([closing EXCEPT !.Lifecycle = "Failed"],
                                "Failed", TRUE, disconnectReason))
    IN  IF s.IsCloseInFlight
        THEN IF s.IsCloseContinuationAbandoned THEN s ELSE pended
        ELSE Await(timed, BarrierWork("Closed", barrier))

CloseForShutdown(s) ==
    [s EXCEPT !.Connection = NoConnection, !.ClosingConnection = NoConnection,
              !.IsCloseInFlight = FALSE, !.IsCloseCooldown = FALSE,
              !.IsCloseContinuationAbandoned = FALSE,
              !.CloseBarrierEpoch = @ + 1, !.StateChangedToken = FALSE]

(* The listener may start only if nothing else has claimed the session.    *)
RestoreIncomingListenerAfterTerminal(s) ==
    IF ~s.RestoreIncomingAfterClose /\ (~s.IsIncomingEnabled \/ ~s.OpenImmediately) THEN s
    ELSE [s EXCEPT !.RestoreIncomingAfterClose = FALSE,
                   !.listenerDue = /\ ~s.IsShutdown /\ ~s.IsSuspended
                                   /\ s.IsIncomingEnabled /\ s.OpenImmediately]

FailTerminally(s, result, disconnectReason) ==
    RestoreIncomingListenerAfterTerminal(
        Publish([s EXCEPT !.Lifecycle = "Failed"], result, TRUE, disconnectReason))
-----------------------------------------------------------------------------
(* Retry scheduling.                                                       *)

ScheduleReconnect(s, result, shouldRetry, completedAttempt, disconnectReason, p) ==
    LET counted == [s EXCEPT !.CompletedRetryAttempts =
                        IF completedAttempt THEN @ + 1 ELSE @]
        decision == Evaluate([Request |-> "ConnectionLoss",
                              CompletedAttempts |-> counted.CompletedRetryAttempts,
                              IsBlocked |-> FALSE])
        waiting == [counted EXCEPT !.Lifecycle = "WaitingForReconnect", !.TimerEpoch = @ + 1]
        timer == TimerWork("RetryTimer", waiting.TimerEpoch, waiting.OperationEpoch)
    IN  IF \/ s.IsShutdown \/ s.IsSuspended \/ ~shouldRetry
           \/ ~s.IsReconnectEnabled \/ s.IsReconnectCancelled
        THEN FailTerminally(s, result, disconnectReason)
        ELSE IF decision.Kind = "TerminalFailure"
             THEN FailTerminally(counted, result, disconnectReason)
             ELSE IF p.reconnectTimer
                  THEN Publish(Await(waiting, timer), result, FALSE, disconnectReason)
                  ELSE FailTerminally(waiting, "Failed", disconnectReason)

ScheduleTransientOpenRetry(s, result, p) ==
    LET counted == [s EXCEPT !.TransientOpenRetryAttempts = @ + 1]
        waiting == [counted EXCEPT !.Lifecycle = "WaitingForReconnect", !.TimerEpoch = @ + 1]
        timer == TimerWork("TransientOpenRetryTimer", waiting.TimerEpoch, s.OperationEpoch)
    IN  IF s.IsShutdown \/ s.IsSuspended \/ s.IsReconnectCancelled THEN s
        ELSE IF counted.TransientOpenRetryAttempts >= TransientOpenRetryMaxAttempts
             THEN FailTerminally(counted, result, "None")
             ELSE IF p.reconnectTimer
                  THEN Publish(Await(waiting, timer), result, FALSE, "None")
                  ELSE FailTerminally(waiting, "Failed", "None")

(* The milliseconds of ScheduleTransientOpenRetry: the cooldown of the     *)
(* close barrier that has just passed counts towards the delay.            *)
TransientOpenRetryDelays == <<500, 1000, 1500, 2500, 4000, 6000, 8000, 8000, 8000>>
CloseBarrierCooldown == 1500

(* Mutant of TransientOpenRetryDelay: the cooldown is waited on top.       *)
TransientOpenRetryDelayOnTop(failedAttempt, completedScheduledCooldown) ==
    TransientOpenRetryDelays[failedAttempt]

TransientOpenRetryDelay(failedAttempt, completedScheduledCooldown) ==
    LET delay == TransientOpenRetryDelays[failedAttempt] IN
    CASE ~completedScheduledCooldown -> delay
      [] completedScheduledCooldown /\ delay > CloseBarrierCooldown ->
            delay - CloseBarrierCooldown
      [] completedScheduledCooldown /\ delay <= CloseBarrierCooldown -> 0

CompleteFailure(s, result, isTransientOpenFailure, p) ==
    LET shouldRetryTransientOpen == isTransientOpenFailure /\ s.OpenImmediately
        isAutomatic == s.CurrentOperation = "AutomaticReconnect"
        revoked == RevokeStateChanged(s)
    IN  IF s.Connection = NoConnection
        THEN IF shouldRetryTransientOpen
             THEN ScheduleTransientOpenRetry(revoked, result, p)
             ELSE ScheduleReconnect(revoked, result, s.RetryEligible, isAutomatic, "None", p)
        ELSE BeginClose(Publish([revoked EXCEPT !.Lifecycle = "Disconnecting"],
                                result, FALSE, "None"),
                        IF shouldRetryTransientOpen THEN "TransientOpenRetry" ELSE "Retry",
                        result, s.RetryEligible, isAutomatic, "None", p)
-----------------------------------------------------------------------------
(* Starting a connection.                                                  *)

BeginCreate(s, p) ==
    LET connecting == Publish([s EXCEPT !.Lifecycle = "Connecting"], "Success", FALSE, "None")
        created == [connecting EXCEPT !.Connection = p.address, !.StateChangedToken = TRUE,
                                      !.HandlerEpoch = s.OperationEpoch]
    IN  CASE s.IsShutdown \/ s.IsSuspended -> s
          [] ~s.IsShutdown /\ ~s.IsSuspended /\ p.create = "NoConnection" ->
                CompleteFailure(connecting, "Failed", FALSE, p)
          [] ~s.IsShutdown /\ ~s.IsSuspended /\ p.create = "NotStarted" ->
                CompleteFailure(created, "Failed", FALSE, p)
          [] ~s.IsShutdown /\ ~s.IsSuspended /\ p.create = "Started" ->
                Await(created, NativeWork("Started", s.OperationEpoch, p.address))

StartConnection(s, operation, openImmediately, p) ==
    LET supersedes == operation \notin {"AutomaticReconnect", "IncomingEnable"}
        started == [CancelTimer(s) EXCEPT
            !.IsReconnectCancelled = @ /\ ~supersedes,
            !.CompletedRetryAttempts = IF supersedes THEN 0 ELSE @,
            !.TransientOpenRetryAttempts = 0,
            !.CurrentOperation = operation,
            !.RetryEligible = operation \in {"AutomaticReconnect", "Startup", "Resume"},
            !.OpenImmediately = openImmediately,
            !.OperationEpoch = @ + 1]
        replacing == [started EXCEPT
            !.Lifecycle = "Disconnecting",
            !.RestoreIncomingAfterClose = s.IsIncomingEnabled /\ ~openImmediately]
    IN  IF \/ s.IsShutdown \/ s.IsSuspended
           \/ s.IsCloseInFlight \/ s.Lifecycle \in {"Connecting", "Disconnecting"}
        THEN s
        ELSE IF s.Connection = NoConnection
             THEN BeginCreate(started, p)
             ELSE BeginClose(Publish(RevokeStateChanged(replacing), "Success", FALSE, "Normal"),
                             "Replace", "Success", FALSE, FALSE, "None", p)

StartListener(s, p) == StartConnection(s, "IncomingEnable", FALSE, p)

(* Mutant of Finish: the listener is not started again.                    *)
FinishForgetsListener(s, p) == s

(* The end of every entry point: the listener start that was found due.    *)
Finish(s, p) ==
    IF s.listenerDue
    THEN StartListener([s EXCEPT !.listenerDue = FALSE], [p EXCEPT !.create = p.listener])
    ELSE s
-----------------------------------------------------------------------------
(* After a close.                                                          *)

StartAfterResume(s, p) ==
    IF s.ResumeRequired
    THEN StartConnection([s EXCEPT !.ResumeRequired = FALSE],
                         IF s.ResumeOpenImmediately THEN "Resume" ELSE "IncomingEnable",
                         s.ResumeOpenImmediately, p)
    ELSE IF s.IsIncomingEnabled THEN StartListener(s, p)
         ELSE Publish(s, "Success", FALSE, "None")

CompleteSuspendClose(s, p) ==
    LET closed == Publish([s EXCEPT !.Connection = NoConnection, !.StateChangedToken = FALSE,
                                    !.IsSuspendClosePending = FALSE, !.Lifecycle = "Idle"],
                          "Cancelled", FALSE, "None")
    IN  IF \/ s.IsShutdown \/ ~s.IsSuspended \/ ~s.IsSuspendClosePending
           \/ s.SuspendCloseEpoch # s.OperationEpoch
        THEN s
        ELSE IF s.ResumeRequested
             THEN StartAfterResume([closed EXCEPT !.ResumeRequested = FALSE,
                                                  !.IsSuspended = FALSE], p)
             ELSE closed

(* The continuation was abandoned: nothing is retried, and a suspend that  *)
(* waited for this close is over.                                          *)
ContinueAbandoned(s) ==
    LET released == IF ~s.IsSuspendClosePending THEN s
                    ELSE [s EXCEPT !.IsSuspendClosePending = FALSE, !.ResumeRequired = FALSE,
                                   !.IsSuspended = @ /\ ~s.ResumeRequested,
                                   !.ResumeRequested = FALSE]
    IN  RestoreIncomingListenerAfterTerminal(
            Publish([released EXCEPT !.IsCloseContinuationAbandoned = FALSE,
                                     !.Lifecycle = "Idle"], "Success", FALSE, "None"))

ContinueIdle(s, p) ==
    LET idle == Publish([s EXCEPT !.Lifecycle = "Idle", !.Pending = NoPendingClose],
                        s.Pending.Failure, FALSE, s.Pending.DisconnectReason)
    IN  IF s.RestoreIncomingAfterClose /\ s.IsIncomingEnabled /\ ~s.IsSuspended
        THEN StartListener([idle EXCEPT !.RestoreIncomingAfterClose = FALSE], p)
        ELSE idle

ContinueAfterClose(s, p) ==
    LET cleared == [s EXCEPT !.Pending = NoPendingClose]
        pending == s.Pending
    IN  IF s.IsCloseContinuationAbandoned THEN ContinueAbandoned(cleared)
        ELSE CASE pending.Continuation = "Replace" -> BeginCreate(cleared, p)
               [] pending.Continuation = "Retry" ->
                    ScheduleReconnect(cleared, pending.Failure, pending.RetryEligible,
                                      pending.CompletedAttempt, pending.DisconnectReason, p)
               [] pending.Continuation = "TransientOpenRetry" ->
                    ScheduleTransientOpenRetry(cleared, pending.Failure, p)
               [] pending.Continuation = "Suspend" -> CompleteSuspendClose(cleared, p)
               [] pending.Continuation = "Idle" -> ContinueIdle(s, p)

CompleteCloseCooldown(s, closeBarrierEpoch, p) ==
    IF \/ s.IsShutdown \/ ~s.IsCloseInFlight \/ ~s.IsCloseCooldown
       \/ closeBarrierEpoch # s.CloseBarrierEpoch
    THEN s
    ELSE ContinueAfterClose([s EXCEPT !.IsCloseCooldown = FALSE, !.IsCloseInFlight = FALSE], p)

CompleteCloseBarrier(s, closeBarrierEpoch, timedOut, p) ==
    LET failed == Publish([s EXCEPT !.Lifecycle = "Failed"],
                          "TimedOut", TRUE, s.Pending.DisconnectReason)
        cooling == [s EXCEPT !.ClosingConnection = NoConnection, !.StateChangedToken = FALSE,
                             !.IsCloseCooldown = TRUE]
    IN  IF \/ s.IsShutdown \/ ~s.IsCloseInFlight \/ s.IsCloseCooldown
           \/ closeBarrierEpoch # s.CloseBarrierEpoch
        THEN s
        ELSE IF timedOut THEN AbandonCloseContinuation(failed)
             ELSE IF p.cooldownTimer
                  THEN Await(cooling, BarrierWork("Cooldown", closeBarrierEpoch))
                  ELSE CompleteCloseCooldown(cooling, closeBarrierEpoch, p)
-----------------------------------------------------------------------------
(* Platform callbacks, run on the serialized context.                      *)

OnStarted(s, epoch, expectedConnection, result, p) ==
    IF ~IsCurrentConnection(s, epoch, expectedConnection) \/ s.Lifecycle = "Connected" THEN s
    ELSE IF result # "Success" THEN CompleteFailure(s, result, FALSE, p)
    ELSE IF ~s.OpenImmediately
         THEN Publish([s EXCEPT !.Lifecycle = "Idle"], "Success", FALSE, "None")
    ELSE IF p.open THEN Await(s, NativeWork("Opened", epoch, expectedConnection))
         ELSE CompleteFailure(s, "Failed", FALSE, p)

(* Mutant of Established: the transition is not published.                 *)
EstablishedSilently(s) ==
    [s EXCEPT !.Lifecycle = "Connected", !.CompletedRetryAttempts = 0,
              !.RetryEligible = s.IsReconnectEnabled]

Established(s) ==
    Publish([s EXCEPT !.Lifecycle = "Connected", !.CompletedRetryAttempts = 0,
                      !.RetryEligible = s.IsReconnectEnabled], "Success", FALSE, "None")

OnOpened(s, epoch, expectedConnection, openResult, p) ==
    IF ~IsCurrentConnection(s, epoch, expectedConnection) \/ s.Lifecycle = "Connected" THEN s
    ELSE IF openResult.Result # "Success"
         THEN CompleteFailure(s, openResult.Result, openResult.IsTransientFailure, p)
         ELSE Established(s)

(* The listener itself survives the loss of the connection it accepted.    *)
OnListenerLost(s, p) ==
    IF s.IsReconnectEnabled
    THEN ScheduleReconnect(s, "Failed", TRUE, FALSE, "UnexpectedLoss", p)
    ELSE Publish([s EXCEPT !.Lifecycle = "Idle", !.RetryEligible = FALSE],
                 "Success", FALSE, "UnexpectedLoss")

OnConnectionClosed(s, isIncomingListener, p) ==
    LET wasEstablished == s.Lifecycle = "Connected"
        dropped == [RevokeStateChanged(s) EXCEPT !.Connection = NoConnection,
                                                 !.OperationEpoch = @ + 1]
    IN  IF isIncomingListener /\ ~wasEstablished
        THEN StartListener(Publish([dropped EXCEPT !.Lifecycle = "Idle"],
                                   "Success", FALSE, "None"), p)
        ELSE ScheduleReconnect(dropped, "Failed", s.RetryEligible,
                               s.CurrentOperation = "AutomaticReconnect",
                               IF wasEstablished THEN "UnexpectedLoss" ELSE "None", p)

OnStateChanged(s, epoch, expectedConnection, state, p) ==
    LET isIncomingListener == ~s.OpenImmediately /\ s.IsIncomingEnabled IN
    CASE ~IsCurrentConnection(s, epoch, expectedConnection) -> s
      [] /\ IsCurrentConnection(s, epoch, expectedConnection)
         /\ state = "Opened" -> Established(CancelTimer(s))
      [] /\ IsCurrentConnection(s, epoch, expectedConnection)
         /\ state = "Closed" ->
            IF \/ s.Lifecycle = "Disconnecting"
               \/ isIncomingListener /\ s.Lifecycle = "WaitingForReconnect"
            THEN s
            ELSE IF isIncomingListener /\ s.Lifecycle = "Connected"
                 THEN OnListenerLost(s, p)
                 ELSE OnConnectionClosed(s, isIncomingListener, p)

(* Mutant of OnPostFailed: a failed post is swallowed.                     *)
OnPostFailedSwallowed(s, epoch, expectedConnection, p) == s

OnPostFailed(s, epoch, expectedConnection, p) ==
    IF IsCurrentConnection(s, epoch, expectedConnection)
    THEN CompleteFailure(s, "Failed", FALSE, p) ELSE s

TimerIsCurrent(s, timerEpoch, operationEpoch) ==
    /\ ~s.IsShutdown /\ ~s.IsSuspended
    /\ timerEpoch = s.TimerEpoch /\ operationEpoch = s.OperationEpoch
    /\ s.Lifecycle = "WaitingForReconnect"

(* Mutant of OnRetryTimer: a listener that lost its connection is skipped. *)
OnRetryTimerSkipsListener(s, timerEpoch, operationEpoch, p) ==
    IF TimerIsCurrent(s, timerEpoch, operationEpoch) /\ s.OpenImmediately
    THEN StartConnection(s, "AutomaticReconnect", TRUE, p) ELSE s

OnRetryTimer(s, timerEpoch, operationEpoch, p) ==
    IF TimerIsCurrent(s, timerEpoch, operationEpoch)
    THEN StartConnection(s, "AutomaticReconnect", s.OpenImmediately, p) ELSE s

OnTransientOpenRetryTimer(s, timerEpoch, operationEpoch, p) ==
    IF TimerIsCurrent(s, timerEpoch, operationEpoch) THEN BeginCreate(s, p) ELSE s
-----------------------------------------------------------------------------
(* The public operations of DeviceSession.                                 *)

Rename(s) == IF s.IsShutdown THEN s ELSE Publish(s, "Success", FALSE, "None")

HandleDeviceRemoved(s, p) ==
    LET settled == [CancelTimer(s) EXCEPT !.RestoreIncomingAfterClose = FALSE]
        removed == [settled EXCEPT !.OperationEpoch = @ + 1]
        closing == RevokeStateChanged([removed EXCEPT !.Lifecycle = "Disconnecting"])
        shouldRetry == s.RetryEligible
        hasNothing == s.Connection = NoConnection /\ ~s.IsCloseInFlight
        isIdleIncomingListener == /\ s.Connection # NoConnection /\ s.Lifecycle = "Idle"
                                  /\ s.IsIncomingEnabled /\ ~shouldRetry
    IN  IF s.IsShutdown THEN s
        ELSE IF hasNothing /\ s.Lifecycle = "Idle" /\ ~shouldRetry
             THEN Publish(settled, "Success", FALSE, "None")
        ELSE IF isIdleIncomingListener
             THEN BeginClose(Publish(closing, "Success", FALSE, "None"),
                             "Idle", "Success", FALSE, FALSE, "None", p)
        ELSE IF hasNothing
             THEN ScheduleReconnect(removed, "Failed", shouldRetry, FALSE, "DeviceRemoved", p)
        ELSE BeginClose(Publish(closing, "Failed", FALSE, "DeviceRemoved"),
                        "Retry", "Failed", shouldRetry, FALSE, "DeviceRemoved", p)

SupersedePowerTransitionRecovery(s, operation, openImmediately, p) ==
    LET released == [s EXCEPT !.IsSuspended = FALSE, !.ResumeRequired = FALSE,
                              !.ResumeRequested = FALSE, !.IsSuspendClosePending = FALSE]
        started == [CancelTimer(released) EXCEPT
                        !.IsReconnectCancelled = FALSE, !.CompletedRetryAttempts = 0,
                        !.TransientOpenRetryAttempts = 0, !.CurrentOperation = operation,
                        !.RetryEligible = FALSE, !.OpenImmediately = openImmediately,
                        !.OperationEpoch = @ + 1]
        replacing == [started EXCEPT
                        !.Lifecycle = "Disconnecting",
                        !.RestoreIncomingAfterClose = s.IsIncomingEnabled /\ ~openImmediately]
    IN  IF ~s.IsCloseInFlight THEN StartConnection(released, operation, openImmediately, p)
        ELSE IF s.IsCloseContinuationAbandoned THEN released
             ELSE BeginClose(Publish(replacing, "Success", FALSE, "None"),
                             "Replace", "Success", FALSE, FALSE, "None", p)

Connect(s, operation, openImmediately, p) ==
    IF s.IsShutdown THEN s
    ELSE IF s.IsSuspended /\ operation \in {"ManualConnect", "ManualReconnect"}
         THEN SupersedePowerTransitionRecovery(s, operation, openImmediately, p)
         ELSE StartConnection(s, operation, openImmediately, p)

(* Disconnect returns whether it was taken; an abandoned close refuses it. *)
DisconnectIsTaken(s) ==
    ~s.IsShutdown /\ ~(s.IsCloseInFlight /\ s.IsCloseContinuationAbandoned)

Disconnect(s, restoreIncoming, p) ==
    LET cancelled == [CancelTimer(s) EXCEPT
                        !.IsReconnectCancelled = TRUE, !.RetryEligible = FALSE,
                        !.OperationEpoch = @ + 1,
                        !.RestoreIncomingAfterClose = restoreIncoming]
        idle == Publish([cancelled EXCEPT !.Lifecycle = "Idle"], "Success", FALSE, "Normal")
        closing == RevokeStateChanged([cancelled EXCEPT !.Lifecycle = "Disconnecting"])
    IN  IF ~DisconnectIsTaken(s) THEN s
        ELSE IF s.Connection = NoConnection /\ ~s.IsCloseInFlight
             THEN IF restoreIncoming /\ s.IsIncomingEnabled /\ ~s.IsSuspended
                  THEN StartListener([idle EXCEPT !.RestoreIncomingAfterClose = FALSE], p)
                  ELSE idle
             ELSE BeginClose(Publish(closing, "Success", FALSE, "Normal"),
                             "Idle", "Success", FALSE, FALSE, "None", p)

CancelAutomaticReconnect(s, restoreIncoming, p) ==
    LET cancelled == [CancelTimer(s) EXCEPT !.RetryEligible = FALSE]
        superseded == [cancelled EXCEPT !.OperationEpoch = @ + 1]
        closing == [superseded EXCEPT
                        !.Lifecycle = "Disconnecting",
                        !.RestoreIncomingAfterClose = restoreIncoming /\ s.IsIncomingEnabled]
        idle == Publish([superseded EXCEPT !.Lifecycle = "Idle"], "Cancelled", FALSE, "None")
        cancelsActiveReconnect ==
            \/ s.Lifecycle = "WaitingForReconnect"
            \/ /\ s.Lifecycle \in {"Connecting", "Disconnecting"}
               /\ s.CurrentOperation = "AutomaticReconnect"
    IN  IF ~cancelsActiveReconnect THEN Publish(cancelled, "Cancelled", FALSE, "None")
        ELSE IF s.Connection # NoConnection \/ s.IsCloseInFlight
             THEN BeginClose(RevokeStateChanged(closing),
                             "Idle", "Cancelled", FALSE, FALSE, "None", p)
             ELSE IF restoreIncoming /\ s.IsIncomingEnabled THEN StartListener(idle, p)
                  ELSE idle

(* Mutant of CancelReconnect: the flag is set and the retry left running.  *)
CancelReconnectFlagOnly(s, p) ==
    Publish([s EXCEPT !.IsReconnectCancelled = TRUE], "Cancelled", FALSE, "None")

CancelReconnect(s, p) ==
    IF s.IsShutdown THEN s
    ELSE CancelAutomaticReconnect([s EXCEPT !.IsReconnectCancelled = TRUE],
                                  s.IsIncomingEnabled, p)

SetReconnectEnabled(s, enabled, p) ==
    LET set == [s EXCEPT !.IsReconnectEnabled = enabled]
        isReconnecting == \/ s.Lifecycle = "WaitingForReconnect"
                          \/ /\ s.Lifecycle \in {"Connecting", "Disconnecting"}
                             /\ s.CurrentOperation = "AutomaticReconnect"
    IN  IF s.IsShutdown THEN s
        ELSE IF ~enabled /\ isReconnecting
             THEN CancelAutomaticReconnect(set, s.IsIncomingEnabled, p)
             ELSE Publish(set, "Success", FALSE, "None")

SetIncomingEnabled(s, enabled, p) ==
    LET set == [s EXCEPT !.IsIncomingEnabled = enabled]
        hasIncomingLifecycle == /\ ~s.OpenImmediately
                                /\ \/ s.Connection # NoConnection
                                   \/ s.IsCloseInFlight
                                   \/ s.Lifecycle = "WaitingForReconnect"
    IN  IF s.IsShutdown THEN s
        ELSE IF ~enabled /\ hasIncomingLifecycle THEN Disconnect(set, FALSE, p)
        ELSE IF enabled /\ s.Connection = NoConnection /\ ~s.IsSuspended
             THEN StartListener(set, p)
        ELSE Publish(set, "Success", FALSE, "None")

(* Mutant of Suspend: the live connection is not closed.                   *)
SuspendFlagOnly(s, p) ==
    IF s.IsShutdown \/ s.IsSuspended THEN s
    ELSE Publish([CancelTimer(s) EXCEPT !.IsSuspended = TRUE], "Cancelled", FALSE, "None")

Suspend(s, p) ==
    LET suspended == [CancelTimer(s) EXCEPT
                        !.ResumeRequired = s.Connection # NoConnection \/ IsBusy(s),
                        !.ResumeOpenImmediately = s.OpenImmediately,
                        !.IsSuspended = TRUE, !.OperationEpoch = @ + 1]
        closing == [suspended EXCEPT !.IsSuspendClosePending = TRUE,
                                     !.SuspendCloseEpoch = suspended.OperationEpoch,
                                     !.Lifecycle = "Disconnecting"]
    IN  IF s.IsShutdown \/ s.IsSuspended THEN s
        ELSE IF s.Connection # NoConnection \/ s.IsCloseInFlight
             THEN BeginClose(RevokeStateChanged(closing),
                             "Suspend", "Cancelled", FALSE, FALSE, "None", p)
             ELSE Publish([suspended EXCEPT !.Lifecycle = "Idle"], "Cancelled", FALSE, "None")

Resume(s, p) ==
    IF s.IsShutdown \/ ~s.IsSuspended THEN s
    ELSE IF s.IsSuspendClosePending THEN [s EXCEPT !.ResumeRequested = TRUE]
         ELSE StartAfterResume([s EXCEPT !.IsSuspended = FALSE], p)

ResumeIdleAfterPowerTransition(s) ==
    IF \/ s.IsShutdown \/ ~s.IsSuspended \/ s.IsSuspendClosePending
       \/ s.ResumeRequired \/ s.ResumeRequested \/ s.IsIncomingEnabled
    THEN s
    ELSE Publish([s EXCEPT !.IsSuspended = FALSE], "Success", FALSE, "None")

CancelPowerTransitionRecovery(s) ==
    IF s.IsShutdown \/ ~s.IsSuspended THEN s
    ELSE Publish([s EXCEPT !.IsSuspended = FALSE, !.ResumeRequired = FALSE,
                           !.ResumeRequested = FALSE, !.IsSuspendClosePending = FALSE],
                 "Success", FALSE, "None")

Shutdown(s) ==
    IF s.IsShutdown THEN s
    ELSE [CloseForShutdown(CancelTimer(s)) EXCEPT
            !.IsShutdown = TRUE, !.OperationEpoch = @ + 1, !.Lifecycle = "Idle"]
=============================================================================
