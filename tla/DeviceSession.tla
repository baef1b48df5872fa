---------------------------- MODULE DeviceSession ----------------------------
(***************************************************************************)
(* One DeviceSession under every order of public calls and platform        *)
(* callbacks.  All of them run one at a time on DeviceService's serialized *)
(* context, so each is one action; what is not serialized is when native   *)
(* work completes, and in which order, which session.callbacks leaves      *)
(* open.                                                                   *)
(*                                                                         *)
(* published is the snapshot in the last fact given to the service: what   *)
(* the rest of the application believes about this session.                *)
(***************************************************************************)
EXTENDS DeviceSessionState, FiniteSets

CONSTANTS
    Platform,       \* the platform outcomes considered, a subset of PlatformOutcome
    Operation,      \* the operations a caller connects with
    OpenStatus,     \* native statuses with which an open may complete
    MaxEpoch,       \* bound: no call or native event once OperationEpoch is here
    MaxTimerEpoch,  \* bound: the same for TimerEpoch
    MaxCallbacks    \* bound: the same for the number of outstanding callbacks

ASSUME DeviceSessionAssumption ==
    /\ Platform \subseteq PlatformOutcome
    /\ Operation \subseteq {"ManualConnect", "ManualReconnect", "Startup"}
    /\ MaxEpoch \in Nat /\ MaxTimerEpoch \in Nat /\ MaxCallbacks \in Nat

VARIABLES session, published
vars == <<session, published>>

Init == session = InitialSession /\ published = Snapshot(InitialSession)

(* The facts of a member function reach the service one after the other.   *)
Settle(s) ==
    /\ session' = [s EXCEPT !.facts = <<>>]
    /\ published' = IF s.facts = <<>> THEN published ELSE s.facts[Len(s.facts)].Snapshot

(* A member function that can fail an operation makes the listener start   *)
(* it found due before it ends.                                            *)
Run(s, p) == Settle(Finish(s, p))

WithinBounds ==
    /\ session.OperationEpoch < MaxEpoch
    /\ session.TimerEpoch < MaxTimerEpoch
    /\ Cardinality(session.callbacks) < MaxCallbacks
-----------------------------------------------------------------------------
(* Calls by DeviceService.                                                 *)

CallConnect(operation, p) ==
    WithinBounds /\ Run(Connect(session, operation, TRUE, p), p)
CallDisconnect(restoreIncoming, p) ==
    WithinBounds /\ Run(Disconnect(session, restoreIncoming, p), p)
CallCancelReconnect(p) == WithinBounds /\ Run(CancelReconnect(session, p), p)
CallSetReconnectEnabled(enabled, p) ==
    WithinBounds /\ Run(SetReconnectEnabled(session, enabled, p), p)
CallSetIncomingEnabled(enabled, p) ==
    WithinBounds /\ Run(SetIncomingEnabled(session, enabled, p), p)
CallHandleDeviceRemoved(p) == WithinBounds /\ Run(HandleDeviceRemoved(session, p), p)
CallSuspend(p) == WithinBounds /\ Run(Suspend(session, p), p)
CallResume(p) == WithinBounds /\ Run(Resume(session, p), p)
CallResumeIdleAfterPowerTransition ==
    WithinBounds /\ Settle(ResumeIdleAfterPowerTransition(session))

(* ResumeSuspendedSessions gives up a recovery only when the session has   *)
(* left the epoch in which it was suspended.                               *)
CallCancelPowerTransitionRecovery ==
    /\ WithinBounds
    /\ session.IsSuspendClosePending => session.SuspendCloseEpoch # session.OperationEpoch
    /\ Settle(CancelPowerTransitionRecovery(session))

CallRename == WithinBounds /\ Settle(Rename(session))
CallShutdown == WithinBounds /\ Settle(Shutdown(session))
-----------------------------------------------------------------------------
(* The platform.  Its callbacks arrive in any order.  The post of a        *)
(* connection's callback may fail; a failure is then posted in its place.  *)

RaiseStateChanged(state) ==
    LET event == [kind |-> "StateChanged", epoch |-> session.HandlerEpoch,
                  address |-> session.Connection, state |-> state] IN
    /\ WithinBounds
    /\ session.Connection # NoConnection /\ session.StateChangedToken
    /\ session' = [session EXCEPT !.callbacks = @ \cup {event}]
    /\ UNCHANGED published

Taken(c) == [session EXCEPT !.callbacks = @ \ {c}]

RunStarted(c, result, p) ==
    c.kind = "Started" /\ Run(OnStarted(Taken(c), c.epoch, c.address, result, p), p)
RunOpened(c, openResult, p) ==
    c.kind = "Opened" /\ Run(OnOpened(Taken(c), c.epoch, c.address, openResult, p), p)
RunStateChanged(c, p) ==
    /\ c.kind = "StateChanged"
    /\ Run(OnStateChanged(Taken(c), c.epoch, c.address, c.state, p), p)
RunPostFailed(c, p) ==
    /\ c.kind \in {"Started", "Opened", "StateChanged"}
    /\ Run(OnPostFailed(Taken(c), c.epoch, c.address, p), p)
RunRetryTimer(c, p) ==
    c.kind = "RetryTimer" /\ Run(OnRetryTimer(Taken(c), c.timerEpoch, c.epoch, p), p)
RunTransientOpenRetryTimer(c, p) ==
    /\ c.kind = "TransientOpenRetryTimer"
    /\ Run(OnTransientOpenRetryTimer(Taken(c), c.timerEpoch, c.epoch, p), p)
RunCloseTimeout(c, p) ==
    /\ c.kind = "CloseTimeout"
    /\ Run(CompleteCloseBarrier(Taken(c), c.closeBarrierEpoch, TRUE, p), p)
RunClosed(c, p) ==
    /\ c.kind = "Closed"
    /\ Run(CompleteCloseBarrier(Taken(c), c.closeBarrierEpoch, FALSE, p), p)
RunCooldown(c, p) ==
    /\ c.kind = "Cooldown"
    /\ Run(CompleteCloseCooldown(Taken(c), c.closeBarrierEpoch, p), p)
-----------------------------------------------------------------------------
OpenResults == {ToOpenResult(status, isGenFailure) : status \in OpenStatus,
                                                     isGenFailure \in BOOLEAN}

Call ==
    \/ CallResumeIdleAfterPowerTransition \/ CallCancelPowerTransitionRecovery
    \/ CallRename \/ CallShutdown
    \/ \E p \in Platform :
        \/ \E operation \in Operation : CallConnect(operation, p)
        \/ \E flag \in BOOLEAN : \/ CallDisconnect(flag, p)
                                 \/ CallSetReconnectEnabled(flag, p)
                                 \/ CallSetIncomingEnabled(flag, p)
        \/ CallCancelReconnect(p) \/ CallHandleDeviceRemoved(p)
        \/ CallSuspend(p) \/ CallResume(p)

CompleteStart ==
    \E c \in session.callbacks, result \in {"Success", "Failed"}, p \in Platform :
        RunStarted(c, result, p)
CompleteOpen ==
    \E c \in session.callbacks, openResult \in OpenResults, p \in Platform :
        RunOpened(c, openResult, p)
CompleteClose == \E c \in session.callbacks, p \in Platform : RunClosed(c, p)
FireTimer ==
    \E c \in session.callbacks, p \in Platform :
        \/ RunRetryTimer(c, p) \/ RunTransientOpenRetryTimer(c, p)
        \/ RunCloseTimeout(c, p) \/ RunCooldown(c, p)
HandleEvent ==
    \E c \in session.callbacks, p \in Platform : RunStateChanged(c, p) \/ RunPostFailed(c, p)
NativeEvent == \E state \in DeviceConnectionState : RaiseStateChanged(state)

Next == Call \/ CompleteStart \/ CompleteOpen \/ CompleteClose \/ FireTimer
        \/ HandleEvent \/ NativeEvent

Spec == Init /\ [][Next]_vars

(* Thread-pool timers fire, and starts and opens complete: the platform    *)
(* coroutines answer every one, with a result or with an exception.  A     *)
(* native close is trusted only in CloseFairSpec: the barrier timeout is   *)
(* there because it may never return.                                      *)
TimerFairSpec == Spec /\ WF_vars(FireTimer) /\ WF_vars(CompleteStart) /\ WF_vars(CompleteOpen)
CloseFairSpec == TimerFairSpec /\ WF_vars(CompleteClose)
-----------------------------------------------------------------------------
(* The session record has the members and types of DeviceSession::State,   *)
(* and between handlers no fact is unsent and no listener start forgotten. *)
TypeOK ==
    /\ session \in SessionState
    /\ published \in DeviceSessionSnapshot
    /\ session.facts = <<>> /\ ~session.listenerDue

(* Two native connections to a device never exist at once: a connection is *)
(* created only when no close is in flight, the closing one is owned until *)
(* its close is confirmed, and the cooldown after it has passed            *)
(* (BeginClose, CompleteCloseBarrier, StartConnection).                    *)
ConnectionsDoNotOverlap ==
    /\ session.Connection # NoConnection =>
            session.ClosingConnection = NoConnection /\ ~session.IsCloseInFlight
    /\ session.IsCloseInFlight <=>
            session.ClosingConnection # NoConnection \/ session.IsCloseCooldown
    /\ session.IsCloseCooldown => session.ClosingConnection = NoConnection

(* A connection the session still owns can always be heard: its handler is *)
(* registered and captured the current epoch, so its loss is not mistaken  *)
(* for a late event of an earlier operation (BeginCreate, OnStateChanged). *)
LiveConnectionIsHeard ==
    /\ session.StateChangedToken <=> session.Connection # NoConnection
    /\ session.Connection # NoConnection => session.HandlerEpoch = session.OperationEpoch

(* A session that says it is waiting to reconnect has a timer that will    *)
(* still be honoured when it fires: no call leaves it waiting on a timer   *)
(* it has cancelled, and neither cancellation, the policy switch nor a     *)
(* suspend leaves it waiting (ScheduleReconnect, CancelTimer).             *)
CurrentTimers(s) ==
    {c \in s.callbacks : /\ c.kind \in {"RetryTimer", "TransientOpenRetryTimer"}
                         /\ c.timerEpoch = s.TimerEpoch /\ c.epoch = s.OperationEpoch}

WaitingIsTimed ==
    session.Lifecycle = "WaitingForReconnect" =>
        /\ \E c \in CurrentTimers(session) :
                c.kind = "RetryTimer" => session.IsReconnectEnabled
        /\ ~session.IsReconnectCancelled /\ ~session.IsSuspended /\ ~session.IsShutdown

(* A session that says it is connecting awaits a start or an open of the   *)
(* connection it owns, in the current epoch (BeginCreate, OnStarted).      *)
ConnectingIsAwaited ==
    session.Lifecycle = "Connecting" =>
        \E c \in session.callbacks :
            /\ c.kind \in {"Started", "Opened"}
            /\ c.epoch = session.OperationEpoch /\ c.address = session.Connection

(* A close in flight is always going to be decided: until it is confirmed  *)
(* its completion is awaited and, unless the operation was already failed  *)
(* for it, its timeout is armed; afterwards the cooldown is (BeginClose).  *)
CloseIsAwaited ==
    LET due(kind) == BarrierWork(kind, session.CloseBarrierEpoch) \in session.callbacks IN
    /\ session.ClosingConnection # NoConnection =>
            due("Closed") /\ (session.IsCloseContinuationAbandoned \/ due("CloseTimeout"))
    /\ session.IsCloseCooldown => due("Cooldown")

(* Nothing waits for something that cannot come any more: whatever state   *)
(* the session says it is in, its way out is still outstanding.            *)
BusyIsAwaited == WaitingIsTimed /\ ConnectingIsAwaited /\ CloseIsAwaited

(* Cancelling stops automatic reconnection for good: once the user has     *)
(* cancelled, an automatic attempt is neither in progress nor scheduled    *)
(* behind a close (Disconnect, CancelAutomaticReconnect).                  *)
CancelStopsAutomaticReconnect ==
    session.IsReconnectCancelled =>
        /\ CurrentTimers(session) = {}
        /\ session.CurrentOperation = "AutomaticReconnect" =>
                /\ session.Lifecycle # "Connecting"
                /\ session.IsCloseInFlight => session.Pending.Continuation # "Replace"

(* A suspended session owns no open connection and starts nothing.         *)
SuspendedIsQuiet ==
    session.IsSuspended =>
        /\ session.Connection = NoConnection
        /\ session.Lifecycle \in {"Idle", "Disconnecting", "Failed"}
        /\ session.IsSuspendClosePending /\ session.IsCloseInFlight
                /\ ~session.IsCloseContinuationAbandoned
                /\ session.Pending.Continuation = "Suspend"
              => session.SuspendCloseEpoch = session.OperationEpoch

(* Retries stop: no more automatic attempts than the policy allows, and    *)
(* the transient delay table is never read past its end.                   *)
RetriesAreBounded ==
    /\ session.CompletedRetryAttempts <= MaxAttempts
    /\ session.TransientOpenRetryAttempts <= TransientOpenRetryMaxAttempts
    /\ \A c \in CurrentTimers(session) :
            c.kind = "TransientOpenRetryTimer" /\ session.Lifecycle = "WaitingForReconnect" =>
                session.TransientOpenRetryAttempts \in 1 .. TransientOpenRetryMaxAttempts - 1

(* Stopping is final until someone starts again: what the user cancelled,  *)
(* what a power transition suspended and what has used up its attempts     *)
(* stays quiet, whichever completions arrive afterwards (CancelReconnect,  *)
(* Suspend, ScheduleReconnect).                                            *)
StoppedStaysStopped == CancelStopsAutomaticReconnect /\ SuspendedIsQuiet /\ RetriesAreBounded

(* The service is never left with an outdated picture: apart from a close  *)
(* under way, the last fact it received has the state and the epoch the    *)
(* session is in.                                                          *)
SettledStateIsPublished ==
    session.Lifecycle # "Disconnecting" /\ ~session.IsShutdown =>
        /\ published.State = session.Lifecycle
        /\ published.OperationEpoch = session.OperationEpoch
        /\ published.HasConnection \/ session.Lifecycle # "Connected"

(* Late callbacks are harmless: what a superseded operation, a cancelled   *)
(* timer or an earlier close barrier delivers changes nothing, whatever    *)
(* has happened since (IsCurrentConnection, TimerEpoch, CloseBarrierEpoch).*)
IsLate(c, s) ==
    \/ s.IsShutdown
    \/ c.kind \in {"Started", "Opened", "StateChanged"} /\ c.epoch < s.OperationEpoch
    \/ /\ c.kind \in {"RetryTimer", "TransientOpenRetryTimer"}
       /\ c.epoch < s.OperationEpoch \/ c.timerEpoch < s.TimerEpoch
    \/ /\ c.kind \in {"CloseTimeout", "Closed", "Cooldown"}
       /\ c.closeBarrierEpoch < s.CloseBarrierEpoch

LateCallbacksChangeNothing ==
    [][\A c \in session.callbacks : IsLate(c, session) /\ c \notin session'.callbacks =>
            session' = [session EXCEPT !.callbacks = @ \ {c}] /\ UNCHANGED published]_vars

(* An operation comes to an end without any help from the native close:    *)
(* what is connecting or waiting reaches a settled state.  Left out are    *)
(* the two ways that a close can be entered and not be timed: when its     *)
(* continuation was abandoned and when reconnecting was cancelled.         *)
OperationsSettle ==
    session.Lifecycle \in {"Connecting", "WaitingForReconnect"} ~>
        \/ session.Lifecycle \in {"Idle", "Connected", "Failed"}
        \/ session.IsCloseContinuationAbandoned \/ session.IsReconnectCancelled

(* What BeginClose says of a close it cannot time: the operation is        *)
(* terminal, and callers must not await Disconnecting forever.             *)
DisconnectingEnds ==
    session.Lifecycle = "Disconnecting" ~> session.Lifecycle # "Disconnecting"

(* What CompleteCloseBarrier and Disconnect say of an abandoned close: it  *)
(* is terminal, and nothing makes it appear active again.                  *)
AbandonedCloseStaysTerminal ==
    session.IsCloseContinuationAbandoned => session.Lifecycle = "Failed"
=============================================================================
