------------------------ MODULE DeviceServiceProofs ------------------------
(***************************************************************************)
(* For every set of devices, commands, settings and platform answers:      *)
(* every wait is for an operation that goes on and has one owner           *)
(* (WaitsAreSound), the settings reach every session                       *)
(* (SettingsReachSessions), and a late cancellation or recovery acts on    *)
(* the operation it was made for, or on nothing (LateWorkIsFenced).        *)
(*                                                                         *)
(* Of a session the service needs one thing, Onward: a member function     *)
(* keeps the types and the settings of the session, never turns its epoch  *)
(* back, and leaves it in a state that it has published, that is closing,  *)
(* or that it was in before.  The two that change a setting change that    *)
(* setting (Moves, Obeys).  The first half proves this of every member     *)
(* function, the second half never looks inside one.                       *)
(***************************************************************************)
EXTENDS DeviceService, FiniteSetTheorems, TLAPS

SessionState == Session!SessionState

(* t may follow s: an epoch is never taken back, and what the settings     *)
(* made of the session stays.                                              *)
Ahead(s, t) ==
    /\ t \in SessionState
    /\ s.OperationEpoch <= t.OperationEpoch
    /\ t.IsIncomingEnabled = s.IsIncomingEnabled
    /\ t.IsReconnectEnabled = s.IsReconnectEnabled
    /\ t.IsShutdown = s.IsShutdown

(* The last fact of t tells what t is like, or a later one will: t closes. *)
LastFact(t) == t.facts[Len(t.facts)].Snapshot
Reported(t) ==
    \/ t.Lifecycle = "Disconnecting"
    \/ /\ t.facts # <<>>
       /\ LastFact(t).State = t.Lifecycle /\ LastFact(t).OperationEpoch = t.OperationEpoch

(* There is nothing new to tell.                                           *)
Unmoved(s, t) ==
    t.facts = s.facts /\ t.Lifecycle = s.Lifecycle /\ t.OperationEpoch = s.OperationEpoch

Onward(s, t) == Ahead(s, t) /\ (Reported(t) \/ Unmoved(s, t))
-----------------------------------------------------------------------------
(* The rules by which a member function is followed call by call.          *)

LEMMA Follow ==
    ASSUME NEW s \in SessionState, NEW t, NEW u
    PROVE  /\ Onward(s, s)
           /\ Ahead(s, t) /\ Ahead(t, u) => Ahead(s, u)
           /\ Onward(s, t) /\ Onward(t, u) => Onward(s, u)
           /\ Ahead(s, t) /\ Reported(t) /\ Onward(t, u) => Onward(s, u) /\ Reported(u)
           /\ Ahead(s, t) /\ Reported(t) => Onward(s, t)
<1>1. s.OperationEpoch \in Nat
    BY DEF SessionState, Session!SessionState
<1>2. Onward(s, s)
    BY <1>1 DEF Onward, Ahead, Unmoved
<1>3. Ahead(s, t) /\ Ahead(t, u) => Ahead(s, u)
    <2>1. Ahead(s, t) /\ Ahead(t, u) => t.OperationEpoch \in Nat /\ u.OperationEpoch \in Nat
        BY DEF Ahead, SessionState, Session!SessionState
    <2> QED BY <1>1, <2>1 DEF Ahead
<1>4. Reported(t) /\ Unmoved(t, u) => Reported(u)
    BY DEF Reported, Unmoved, LastFact
<1>5. Unmoved(s, t) /\ Unmoved(t, u) => Unmoved(s, u)
    BY DEF Unmoved
<1> QED BY <1>2, <1>3, <1>4, <1>5 DEF Onward

LEMMA SnapshotType ==
    ASSUME NEW s \in SessionState
    PROVE  /\ Session!Snapshot(s) \in Session!DeviceSessionSnapshot
           /\ Session!Snapshot(s).State = s.Lifecycle
           /\ Session!Snapshot(s).OperationEpoch = s.OperationEpoch
BY DEF SessionState, Session!SessionState, Session!Snapshot, Session!DeviceSessionSnapshot

LEMMA PublishReports ==
    ASSUME NEW s \in SessionState, NEW result \in Session!DeviceConnectionResult,
           NEW terminal \in BOOLEAN, NEW reason \in Session!DeviceDisconnectReason
    PROVE  LET t == Session!Publish(s, result, terminal, reason) IN
           /\ Ahead(s, t) /\ Reported(t)
           /\ t.Lifecycle = s.Lifecycle /\ t.OperationEpoch = s.OperationEpoch
           /\ t.IsSuspended = s.IsSuspended /\ t.Connection = s.Connection
<1> DEFINE fact == [Snapshot |-> Session!Snapshot(s), Operation |-> s.CurrentOperation,
                    Result |-> result, IsTerminalFailure |-> terminal,
                    DisconnectReason |-> reason]
           q == Append(s.facts, fact)
           t == [s EXCEPT !.facts = q]
<1>1. fact \in Session!DeviceSessionFact /\ s.facts \in Seq(Session!DeviceSessionFact)
    BY SnapshotType DEF SessionState, Session!SessionState, Session!DeviceSessionFact
<1>2. fact.Snapshot = Session!Snapshot(s)
    OBVIOUS
<1>3. Session!Publish(s, result, terminal, reason) = t
    BY DEF Session!Publish
<1> HIDE DEF fact
<1>4. q \in Seq(Session!DeviceSessionFact) /\ q # <<>> /\ q[Len(q)] = fact
    BY <1>1
<1> HIDE DEF q
<1>5. t \in SessionState
    BY <1>4 DEF SessionState, Session!SessionState
<1>6. /\ t.facts = q /\ t.Lifecycle = s.Lifecycle /\ t.OperationEpoch = s.OperationEpoch
      /\ t.IsIncomingEnabled = s.IsIncomingEnabled
      /\ t.IsReconnectEnabled = s.IsReconnectEnabled /\ t.IsShutdown = s.IsShutdown
      /\ t.IsSuspended = s.IsSuspended /\ t.Connection = s.Connection
      /\ s.OperationEpoch \in Nat
    BY DEF SessionState, Session!SessionState
<1> HIDE DEF t
<1>7. Ahead(s, t)
    BY <1>5, <1>6 DEF Ahead
<1>8. Reported(t)
    BY <1>2, <1>4, <1>6, SnapshotType DEF Reported, LastFact
<1> QED BY <1>3, <1>6, <1>7, <1>8

(* t agrees with s on what the service looks at.                           *)
Same(s, t) ==
    /\ t.facts = s.facts /\ t.Lifecycle = s.Lifecycle /\ t.OperationEpoch = s.OperationEpoch
    /\ t.IsIncomingEnabled = s.IsIncomingEnabled
    /\ t.IsReconnectEnabled = s.IsReconnectEnabled /\ t.IsShutdown = s.IsShutdown

LEMMA SameFollows ==
    ASSUME NEW s \in SessionState, NEW t \in SessionState, Same(s, t)
    PROVE  Onward(s, t) /\ Unmoved(s, t) /\ Ahead(s, t) /\ (Reported(s) => Reported(t))
<1>1. s.OperationEpoch \in Nat
    BY DEF SessionState, Session!SessionState
<1> QED BY <1>1 DEF Same, Onward, Ahead, Unmoved, Reported, LastFact

LEMMA AwaitFollows ==
    ASSUME NEW s \in SessionState, NEW c \in Session!Callback
    PROVE  Onward(s, Session!Await(s, c)) /\ Unmoved(s, Session!Await(s, c))
<1> DEFINE t == Session!Await(s, c)
<1>1. t \in SessionState
    BY DEF SessionState, Session!SessionState, Session!Await
<1>2. Same(s, t)
    BY DEF Same, SessionState, Session!SessionState, Session!Await
<1> QED BY <1>1, <1>2, SameFollows

LEMMA WorkType ==
    ASSUME NEW n \in Nat, NEW m \in Nat, NEW address \in Address
    PROVE  /\ \A kind \in {"Started", "Opened"} :
                Session!NativeWork(kind, n, address) \in Session!Callback
           /\ \A kind \in {"RetryTimer", "TransientOpenRetryTimer"} :
                Session!TimerWork(kind, n, m) \in Session!Callback
           /\ \A kind \in {"CloseTimeout", "Closed", "Cooldown"} :
                Session!BarrierWork(kind, n) \in Session!Callback
BY DEF Session!NativeWork, Session!TimerWork, Session!BarrierWork, Session!Callback

LEMMA NoPendingCloseType == Session!NoPendingClose \in Session!PendingClose
BY DEF Session!NoPendingClose, Session!PendingClose, Session!CloseContinuation,
       Session!DeviceConnectionResult, Session!DeviceDisconnectReason

LEMMA RevokeFollows ==
    ASSUME NEW s \in SessionState
    PROVE  LET t == Session!RevokeStateChanged(s) IN
           /\ Onward(s, t) /\ Unmoved(s, t) /\ t.IsSuspended = s.IsSuspended
           /\ t.Connection = s.Connection
<1> DEFINE token == s.StateChangedToken /\ s.Connection = NoConnection
           t == [s EXCEPT !.StateChangedToken = token]
<1>1. Session!RevokeStateChanged(s) = t
    BY DEF Session!RevokeStateChanged, SessionState, Session!SessionState
<1>2. token \in BOOLEAN
    BY DEF SessionState, Session!SessionState
<1> HIDE DEF token
<1>3. t \in SessionState
    BY <1>2 DEF SessionState, Session!SessionState
<1>4. Same(s, t) /\ t.IsSuspended = s.IsSuspended /\ t.Connection = s.Connection
    BY DEF Same, SessionState, Session!SessionState
<1> QED BY <1>1, <1>3, <1>4, SameFollows

LEMMA CancelTimerFollows ==
    ASSUME NEW s \in SessionState
    PROVE  LET t == Session!CancelTimer(s) IN
           /\ Onward(s, t) /\ Unmoved(s, t) /\ t.IsSuspended = s.IsSuspended
           /\ t.Connection = s.Connection
<1> DEFINE n == s.TimerEpoch + 1
           t == [s EXCEPT !.TimerEpoch = n]
<1>1. Session!CancelTimer(s) = t
    BY DEF Session!CancelTimer
<1>2. n \in Nat
    BY DEF SessionState, Session!SessionState
<1> HIDE DEF n
<1>3. t \in SessionState
    BY <1>2 DEF SessionState, Session!SessionState
<1>4. Same(s, t) /\ t.IsSuspended = s.IsSuspended /\ t.Connection = s.Connection
    BY DEF Same, SessionState, Session!SessionState
<1> QED BY <1>1, <1>3, <1>4, SameFollows

LEMMA AbandonFollows ==
    ASSUME NEW s \in SessionState
    PROVE  LET t == Session!AbandonCloseContinuation(s) IN Onward(s, t) /\ Unmoved(s, t)
<1> DEFINE t == Session!AbandonCloseContinuation(s)
<1>1. t \in SessionState
    BY NoPendingCloseType
    DEF SessionState, Session!SessionState, Session!AbandonCloseContinuation
<1>2. Same(s, t)
    BY DEF Same, SessionState, Session!SessionState, Session!AbandonCloseContinuation
<1> QED BY <1>1, <1>2, SameFollows

(* Closing ends in Disconnecting, or in a failure that is published.       *)
LEMMA BeginCloseReports ==
    ASSUME NEW s \in SessionState, s.Lifecycle = "Disconnecting",
           NEW continuation \in Session!CloseContinuation,
           NEW failure \in Session!DeviceConnectionResult,
           NEW shouldRetry \in BOOLEAN, NEW completedAttempt \in BOOLEAN,
           NEW reason \in Session!DeviceDisconnectReason, NEW p \in Session!PlatformOutcome
    PROVE  LET t == Session!BeginClose(s, continuation, failure, shouldRetry,
                                       completedAttempt, reason, p)
           IN  Ahead(s, t) /\ Reported(t)
<1> DEFINE pc == [Continuation |-> continuation, Failure |-> failure,
                  RetryEligible |-> shouldRetry, CompletedAttempt |-> completedAttempt,
                  DisconnectReason |-> reason]
           pended == [s EXCEPT !.Pending = pc, !.IsCloseContinuationAbandoned = FALSE]
           barrier == s.CloseBarrierEpoch + 1
           revoked == Session!RevokeStateChanged(pended)
           closing == [revoked EXCEPT
                        !.ClosingConnection = s.Connection, !.Connection = NoConnection,
                        !.IsCloseInFlight = TRUE, !.CloseBarrierEpoch = barrier]
           settled == [closing EXCEPT !.Lifecycle = "Failed"]
           failed == Session!Publish(settled, "Failed", TRUE, reason)
           abandoned == Session!AbandonCloseContinuation(failed)
           timeout == Session!BarrierWork("CloseTimeout", barrier)
           closed == Session!BarrierWork("Closed", barrier)
           timed == IF p.barrierTimer THEN Session!Await(closing, timeout) ELSE abandoned
<1>1. pc \in Session!PendingClose
    BY DEF Session!PendingClose
<1>2. /\ barrier \in Nat /\ s.Connection \in Address \cup {NoConnection}
      /\ "Failed" \in Session!DeviceConnectionResult
    BY DEF SessionState, Session!SessionState, Session!DeviceConnectionResult
<1> HIDE DEF pc, barrier
<1>3. pended \in SessionState
    BY <1>1 DEF SessionState, Session!SessionState
<1>4. Ahead(s, pended) /\ pended.Lifecycle = "Disconnecting"
    <2>1. Same(s, pended)
        BY DEF Same, SessionState, Session!SessionState
    <2> QED BY <1>3, <2>1, SameFollows DEF Same
<1>5. Session!BeginClose(s, continuation, failure, shouldRetry, completedAttempt, reason, p)
        = IF s.IsCloseInFlight
          THEN IF s.IsCloseContinuationAbandoned THEN s ELSE pended
          ELSE Session!Await(timed, closed)
    BY Zenon DEF Session!BeginClose, pended, pc, barrier, revoked, closing, settled, failed,
                 abandoned, timeout, closed, timed
<1>6. Ahead(s, s) /\ Reported(s) /\ Reported(pended)
    BY <1>4, Follow DEF Reported, Onward
<1> HIDE DEF pended
<1>7. Ahead(s, revoked) /\ revoked.Lifecycle = "Disconnecting" /\ revoked \in SessionState
    BY <1>3, <1>4, RevokeFollows, Follow DEF Onward, Unmoved, Ahead
<1> HIDE DEF revoked
<1>8. closing \in SessionState
    BY <1>2, <1>7 DEF SessionState, Session!SessionState
<1>9. Ahead(revoked, closing) /\ closing.Lifecycle = "Disconnecting"
    <2>1. Same(revoked, closing)
        BY <1>7 DEF Same, SessionState, Session!SessionState
    <2> QED BY <1>7, <1>8, <2>1, SameFollows DEF Same
<1>10. Ahead(s, closing) /\ Reported(closing)
    BY <1>7, <1>9, Follow DEF Reported
<1> HIDE DEF closing
<1>11. settled \in SessionState
    BY <1>8 DEF SessionState, Session!SessionState, Session!DeviceLifecycleState
<1>12. Ahead(closing, settled)
    <2>1. /\ settled.OperationEpoch = closing.OperationEpoch /\ closing.OperationEpoch \in Nat
          /\ settled.IsIncomingEnabled = closing.IsIncomingEnabled
          /\ settled.IsReconnectEnabled = closing.IsReconnectEnabled
          /\ settled.IsShutdown = closing.IsShutdown
        BY <1>8 DEF SessionState, Session!SessionState
    <2> QED BY <1>11, <2>1 DEF Ahead
<1> HIDE DEF settled
<1>13. Ahead(settled, failed) /\ Reported(failed)
    BY <1>2, <1>11, PublishReports
<1> HIDE DEF failed
<1>14. Ahead(s, abandoned) /\ Reported(abandoned)
    <2>1. failed \in SessionState /\ Ahead(s, failed)
        BY <1>10, <1>12, <1>13, Follow DEF Ahead
    <2>2. Onward(failed, abandoned)
        BY <2>1, AbandonFollows
    <2> HIDE DEF abandoned
    <2>3. Onward(s, abandoned) /\ Reported(abandoned)
        BY <1>13, <2>1, <2>2, Follow
    <2> QED BY <2>3 DEF Onward
<1> HIDE DEF abandoned
<1>15. timeout \in Session!Callback /\ closed \in Session!Callback
    <2> SUFFICES ASSUME TRUE PROVE \A kind \in {"CloseTimeout", "Closed"} :
                        Session!BarrierWork(kind, barrier) \in Session!Callback
        OBVIOUS
    <2> QED BY <1>2 DEF Session!BarrierWork, Session!Callback
<1> HIDE DEF timeout, closed
<1>16. Ahead(s, timed) /\ Reported(timed)
    <2>1. Onward(closing, Session!Await(closing, timeout))
        BY <1>8, <1>15, AwaitFollows
    <2>2. Onward(s, Session!Await(closing, timeout)) /\ Reported(Session!Await(closing, timeout))
        BY <1>10, <2>1, Follow
    <2> QED BY <1>14, <2>2 DEF Onward
<1> HIDE DEF timed
<1>17. Ahead(s, Session!Await(timed, closed)) /\ Reported(Session!Await(timed, closed))
    <2>1. Onward(timed, Session!Await(timed, closed))
        BY <1>15, <1>16, AwaitFollows DEF Ahead
    <2> QED BY <1>16, <2>1, Follow DEF Onward
<1> QED BY <1>4, <1>5, <1>6, <1>17

(* Results and reasons as the member functions name them.                  *)
LEMMA Parameters ==
    /\ {"Success", "TimedOut", "Denied", "Failed", "Cancelled"}
            \subseteq Session!DeviceConnectionResult
    /\ {"None", "Normal", "UnexpectedLoss", "DeviceRemoved"}
            \subseteq Session!DeviceDisconnectReason
    /\ {"Idle", "Replace", "Retry", "TransientOpenRetry", "Suspend"}
            \subseteq Session!CloseContinuation
    /\ {"ManualConnect", "ManualReconnect", "AutomaticReconnect", "Startup", "Resume",
        "IncomingEnable"} \subseteq Session!DeviceOperationKind
BY DEF Session!DeviceConnectionResult, Session!DeviceDisconnectReason,
       Session!CloseContinuation, Session!DeviceOperationKind

(* A step of the epoch or none, and the settings as they were.             *)
Steps(s, t) ==
    /\ t.OperationEpoch \in {s.OperationEpoch, s.OperationEpoch + 1}
    /\ t.IsIncomingEnabled = s.IsIncomingEnabled
    /\ t.IsReconnectEnabled = s.IsReconnectEnabled /\ t.IsShutdown = s.IsShutdown

LEMMA StepsAhead ==
    ASSUME NEW s \in SessionState, NEW t \in SessionState, Steps(s, t)
    PROVE  Ahead(s, t)
<1>1. s.OperationEpoch \in Nat
    BY DEF SessionState, Session!SessionState
<1> QED BY <1>1 DEF Ahead, Steps

LEMMA RestoreFollows ==
    ASSUME NEW s \in SessionState
    PROVE  LET t == Session!RestoreIncomingListenerAfterTerminal(s)
           IN  Onward(s, t) /\ Unmoved(s, t)
<1> DEFINE due == /\ ~s.IsShutdown /\ ~s.IsSuspended
                  /\ s.IsIncomingEnabled /\ s.OpenImmediately
           t == [s EXCEPT !.RestoreIncomingAfterClose = FALSE, !.listenerDue = due]
<1>1. due \in BOOLEAN
    OBVIOUS
<1>2. Session!RestoreIncomingListenerAfterTerminal(s) \in {s, t}
    BY DEF Session!RestoreIncomingListenerAfterTerminal
<1> HIDE DEF due
<1>3. t \in SessionState
    BY <1>1 DEF SessionState, Session!SessionState
<1>4. Same(s, t) /\ Same(s, s)
    BY DEF Same, SessionState, Session!SessionState
<1> HIDE DEF t
<1> QED BY <1>2, <1>3, <1>4, SameFollows

LEMMA FailTerminallyReports ==
    ASSUME NEW s \in SessionState, NEW result \in Session!DeviceConnectionResult,
           NEW reason \in Session!DeviceDisconnectReason
    PROVE  LET t == Session!FailTerminally(s, result, reason) IN Ahead(s, t) /\ Reported(t)
<1> DEFINE f == [s EXCEPT !.Lifecycle = "Failed"]
           u == Session!Publish(f, result, TRUE, reason)
           t == Session!RestoreIncomingListenerAfterTerminal(u)
<1>1. f \in SessionState
    BY DEF SessionState, Session!SessionState, Session!DeviceLifecycleState
<1>2. Steps(s, f)
    BY DEF Steps, SessionState, Session!SessionState
<1>3. Ahead(s, f)
    BY <1>1, <1>2, StepsAhead
<1> HIDE DEF f
<1>4. Ahead(f, u) /\ Reported(u)
    BY <1>1, PublishReports
<1> HIDE DEF u
<1>5. Onward(u, t)
    BY <1>4, RestoreFollows DEF Ahead
<1>6. Session!FailTerminally(s, result, reason) = t
    BY DEF Session!FailTerminally, t, u, f
<1> HIDE DEF t
<1>7. Ahead(s, u)
    BY <1>3, <1>4, Follow
<1>8. Ahead(s, t) /\ Reported(t)
    BY <1>4, <1>5, <1>7, Follow DEF Onward
<1> QED BY <1>6, <1>8

LEMMA ScheduleReconnectReports ==
    ASSUME NEW s \in SessionState, NEW result \in Session!DeviceConnectionResult,
           NEW shouldRetry \in BOOLEAN, NEW completedAttempt \in BOOLEAN,
           NEW reason \in Session!DeviceDisconnectReason, NEW p \in Session!PlatformOutcome
    PROVE  LET t == Session!ScheduleReconnect(s, result, shouldRetry, completedAttempt,
                                              reason, p)
           IN  Ahead(s, t) /\ Reported(t)
<1> DEFINE attempts == IF completedAttempt THEN s.CompletedRetryAttempts + 1
                       ELSE s.CompletedRetryAttempts
           counted == [s EXCEPT !.CompletedRetryAttempts = attempts]
           decision == Session!Evaluate([Request |-> "ConnectionLoss",
                                 CompletedAttempts |-> counted.CompletedRetryAttempts,
                                 IsBlocked |-> FALSE])
           timerEpoch == counted.TimerEpoch + 1
           waiting == [counted EXCEPT !.Lifecycle = "WaitingForReconnect",
                                      !.TimerEpoch = timerEpoch]
           timer == Session!TimerWork("RetryTimer", waiting.TimerEpoch, waiting.OperationEpoch)
           awaited == Session!Await(waiting, timer)
<1>1. attempts \in Nat
    BY DEF SessionState, Session!SessionState
<1>2. Session!ScheduleReconnect(s, result, shouldRetry, completedAttempt, reason, p) =
        IF \/ s.IsShutdown \/ s.IsSuspended \/ ~shouldRetry
           \/ ~s.IsReconnectEnabled \/ s.IsReconnectCancelled
        THEN Session!FailTerminally(s, result, reason)
        ELSE IF decision.Kind = "TerminalFailure"
             THEN Session!FailTerminally(counted, result, reason)
             ELSE IF p.reconnectTimer THEN Session!Publish(awaited, result, FALSE, reason)
                  ELSE Session!FailTerminally(waiting, "Failed", reason)
    BY Zenon DEF Session!ScheduleReconnect, awaited, timer, timerEpoch, waiting, decision,
                 counted, attempts
<1> HIDE DEF decision, attempts
<1>3. counted \in SessionState
    BY <1>1 DEF SessionState, Session!SessionState
<1>4. Steps(s, counted)
    BY DEF Steps, SessionState, Session!SessionState
<1>5. Ahead(s, counted)
    BY <1>3, <1>4, StepsAhead
<1> HIDE DEF counted
<1>6. timerEpoch \in Nat
    BY <1>3 DEF SessionState, Session!SessionState
<1> HIDE DEF timerEpoch
<1>7. waiting \in SessionState
    BY <1>3, <1>6 DEF SessionState, Session!SessionState, Session!DeviceLifecycleState
<1>8. Steps(counted, waiting)
    BY <1>3 DEF Steps, SessionState, Session!SessionState
<1>9. Ahead(s, waiting)
    BY <1>3, <1>5, <1>7, <1>8, StepsAhead, Follow
<1> HIDE DEF waiting
<1>10. timer \in Session!Callback
    <2>1. waiting.TimerEpoch \in Nat /\ waiting.OperationEpoch \in Nat
        BY <1>7 DEF SessionState, Session!SessionState
    <2> QED BY <2>1 DEF Session!TimerWork, Session!Callback
<1> HIDE DEF timer
<1>11. Ahead(s, awaited) /\ awaited \in SessionState
    BY <1>7, <1>9, <1>10, AwaitFollows, Follow DEF Onward, Ahead
<1> HIDE DEF awaited
<1>12. LET t == Session!Publish(awaited, result, FALSE, reason) IN Ahead(s, t) /\ Reported(t)
    BY <1>11, PublishReports, Follow
<1>13. LET t == Session!FailTerminally(s, result, reason) IN Ahead(s, t) /\ Reported(t)
    BY FailTerminallyReports
<1>14. LET t == Session!FailTerminally(counted, result, reason) IN Ahead(s, t) /\ Reported(t)
    BY <1>3, <1>5, FailTerminallyReports, Follow
<1>15. LET t == Session!FailTerminally(waiting, "Failed", reason) IN Ahead(s, t) /\ Reported(t)
    BY <1>7, <1>9, FailTerminallyReports, Follow, Parameters
<1> QED BY <1>2, <1>12, <1>13, <1>14, <1>15

LEMMA ScheduleTransientOpenRetryFollows ==
    ASSUME NEW s \in SessionState, NEW result \in Session!DeviceConnectionResult,
           NEW p \in Session!PlatformOutcome
    PROVE  Onward(s, Session!ScheduleTransientOpenRetry(s, result, p))
<1> DEFINE attempts == s.TransientOpenRetryAttempts + 1
           counted == [s EXCEPT !.TransientOpenRetryAttempts = attempts]
           timerEpoch == counted.TimerEpoch + 1
           waiting == [counted EXCEPT !.Lifecycle = "WaitingForReconnect",
                                      !.TimerEpoch = timerEpoch]
           timer == Session!TimerWork("TransientOpenRetryTimer", waiting.TimerEpoch,
                                      s.OperationEpoch)
           awaited == Session!Await(waiting, timer)
<1>1. attempts \in Nat /\ s.OperationEpoch \in Nat
    BY DEF SessionState, Session!SessionState
<1>2. Session!ScheduleTransientOpenRetry(s, result, p) =
        IF s.IsShutdown \/ s.IsSuspended \/ s.IsReconnectCancelled THEN s
        ELSE IF counted.TransientOpenRetryAttempts >= TransientOpenRetryMaxAttempts
             THEN Session!FailTerminally(counted, result, "None")
             ELSE IF p.reconnectTimer THEN Session!Publish(awaited, result, FALSE, "None")
                  ELSE Session!FailTerminally(waiting, "Failed", "None")
    BY Zenon DEF Session!ScheduleTransientOpenRetry, awaited, timer, timerEpoch, waiting,
                 counted, attempts
<1> HIDE DEF attempts
<1>3. counted \in SessionState
    BY <1>1 DEF SessionState, Session!SessionState
<1>4. Steps(s, counted)
    BY DEF Steps, SessionState, Session!SessionState
<1>5. Ahead(s, counted)
    BY <1>3, <1>4, StepsAhead
<1> HIDE DEF counted
<1>6. timerEpoch \in Nat
    BY <1>3 DEF SessionState, Session!SessionState
<1> HIDE DEF timerEpoch
<1>7. waiting \in SessionState
    BY <1>3, <1>6 DEF SessionState, Session!SessionState, Session!DeviceLifecycleState
<1>8. Steps(counted, waiting)
    BY <1>3 DEF Steps, SessionState, Session!SessionState
<1>9. Ahead(s, waiting)
    BY <1>3, <1>5, <1>7, <1>8, StepsAhead, Follow
<1> HIDE DEF waiting
<1>10. timer \in Session!Callback
    <2>1. waiting.TimerEpoch \in Nat
        BY <1>7 DEF SessionState, Session!SessionState
    <2> QED BY <1>1, <2>1 DEF Session!TimerWork, Session!Callback
<1> HIDE DEF timer
<1>11. Ahead(s, awaited) /\ awaited \in SessionState
    BY <1>7, <1>9, <1>10, AwaitFollows, Follow DEF Onward, Ahead
<1> HIDE DEF awaited
<1>12. Onward(s, Session!Publish(awaited, result, FALSE, "None"))
    BY <1>11, PublishReports, Follow, Parameters
<1>13. Onward(s, Session!FailTerminally(counted, result, "None"))
    BY <1>3, <1>5, FailTerminallyReports, Follow, Parameters
<1>14. Onward(s, Session!FailTerminally(waiting, "Failed", "None"))
    BY <1>7, <1>9, FailTerminallyReports, Follow, Parameters
<1>15. Onward(s, s)
    BY Follow
<1> QED BY <1>2, <1>12, <1>13, <1>14, <1>15

LEMMA CompleteFailureFollows ==
    ASSUME NEW s \in SessionState, NEW result \in Session!DeviceConnectionResult,
           NEW transient, NEW p \in Session!PlatformOutcome
    PROVE  Onward(s, Session!CompleteFailure(s, result, transient, p))
<1> DEFINE r == Session!RevokeStateChanged(s)
           d == [r EXCEPT !.Lifecycle = "Disconnecting"]
           u == Session!Publish(d, result, FALSE, "None")
           retriesOpen == transient /\ s.OpenImmediately
           continuation == IF retriesOpen THEN "TransientOpenRetry" ELSE "Retry"
           isAutomatic == s.CurrentOperation = "AutomaticReconnect"
<1>1. Session!CompleteFailure(s, result, transient, p) =
        IF s.Connection = NoConnection
        THEN IF retriesOpen THEN Session!ScheduleTransientOpenRetry(r, result, p)
             ELSE Session!ScheduleReconnect(r, result, s.RetryEligible, isAutomatic, "None", p)
        ELSE Session!BeginClose(u, continuation, result, s.RetryEligible, isAutomatic, "None", p)
    BY Zenon DEF Session!CompleteFailure, r, d, u, retriesOpen, continuation, isAutomatic
<1>2. /\ isAutomatic \in BOOLEAN /\ continuation \in Session!CloseContinuation
      /\ s.RetryEligible \in BOOLEAN /\ "None" \in Session!DeviceDisconnectReason
    BY Parameters DEF SessionState, Session!SessionState
<1> HIDE DEF isAutomatic, continuation, retriesOpen
<1>3. r \in SessionState /\ Ahead(s, r) /\ Onward(s, r)
    BY RevokeFollows DEF Onward, Ahead
<1> HIDE DEF r
<1>4. d \in SessionState
    BY <1>3 DEF SessionState, Session!SessionState, Session!DeviceLifecycleState
<1>5. Steps(r, d) /\ d.Lifecycle = "Disconnecting"
    BY <1>3 DEF Steps, SessionState, Session!SessionState
<1>6. Ahead(s, d)
    BY <1>3, <1>4, <1>5, StepsAhead, Follow
<1> HIDE DEF d
<1>7. Ahead(s, u) /\ u \in SessionState /\ u.Lifecycle = "Disconnecting"
    <2>1. Ahead(d, u) /\ u.Lifecycle = d.Lifecycle
        BY <1>2, <1>4, PublishReports
    <2> QED BY <1>5, <1>6, <2>1, Follow DEF Ahead
<1> HIDE DEF u
<1>8. Onward(s, Session!BeginClose(u, continuation, result, s.RetryEligible, isAutomatic,
                                   "None", p))
    <2> DEFINE t == Session!BeginClose(u, continuation, result, s.RetryEligible, isAutomatic,
                                       "None", p)
    <2>1. Ahead(u, t) /\ Reported(t)
        BY <1>2, <1>7, BeginCloseReports
    <2> HIDE DEF t
    <2> QED BY <1>7, <2>1, Follow DEF t
<1>9. Onward(s, Session!ScheduleReconnect(r, result, s.RetryEligible, isAutomatic, "None", p))
    <2> DEFINE t == Session!ScheduleReconnect(r, result, s.RetryEligible, isAutomatic, "None", p)
    <2>1. Ahead(r, t) /\ Reported(t)
        BY <1>2, <1>3, ScheduleReconnectReports
    <2> HIDE DEF t
    <2> QED BY <1>3, <2>1, Follow DEF t
<1>10. Onward(s, Session!ScheduleTransientOpenRetry(r, result, p))
    BY <1>3, ScheduleTransientOpenRetryFollows, Follow
<1> QED BY <1>1, <1>8, <1>9, <1>10
-----------------------------------------------------------------------------
(* Starting a connection.                                                  *)

LEMMA BeginCreateReports ==
    ASSUME NEW s \in SessionState, NEW p \in Session!PlatformOutcome
    PROVE  LET t == Session!BeginCreate(s, p) IN
           /\ Onward(s, t)
           /\ ~s.IsShutdown /\ ~s.IsSuspended => Reported(t)
<1> DEFINE k == [s EXCEPT !.Lifecycle = "Connecting"]
           connecting == Session!Publish(k, "Success", FALSE, "None")
           created == [connecting EXCEPT !.Connection = p.address, !.StateChangedToken = TRUE,
                                         !.HandlerEpoch = s.OperationEpoch]
           work == Session!NativeWork("Started", s.OperationEpoch, p.address)
<1>1. /\ s.IsShutdown \/ s.IsSuspended => Session!BeginCreate(s, p) = s
      /\ ~(s.IsShutdown \/ s.IsSuspended) =>
            /\ p.create = "NoConnection" =>
                Session!BeginCreate(s, p) = Session!CompleteFailure(connecting, "Failed", FALSE, p)
            /\ p.create = "NotStarted" =>
                Session!BeginCreate(s, p) = Session!CompleteFailure(created, "Failed", FALSE, p)
            /\ p.create = "Started" =>
                Session!BeginCreate(s, p) = Session!Await(created, work)
    BY DEF Session!BeginCreate, created, connecting, k, work
<1>2. /\ p.create \in {"Started", "NotStarted", "NoConnection"} /\ p.address \in Address
      /\ s.OperationEpoch \in Nat
    BY DEF Session!PlatformOutcome, Session!CreateOutcome, SessionState, Session!SessionState
<1>3. k \in SessionState
    BY DEF SessionState, Session!SessionState, Session!DeviceLifecycleState
<1>4. Steps(s, k)
    BY DEF Steps, SessionState, Session!SessionState
<1>5. Ahead(s, k)
    BY <1>3, <1>4, StepsAhead
<1> HIDE DEF k
<1>6. Ahead(s, connecting) /\ Reported(connecting) /\ connecting \in SessionState
    <2>1. "Success" \in Session!DeviceConnectionResult /\ "None" \in Session!DeviceDisconnectReason
        BY Parameters
    <2>2. Ahead(k, connecting) /\ Reported(connecting)
        BY <1>3, <2>1, PublishReports
    <2> QED BY <1>5, <2>2, Follow DEF Ahead
<1> HIDE DEF connecting
<1>7. created \in SessionState
    BY <1>2, <1>6 DEF SessionState, Session!SessionState
<1>8. Same(connecting, created)
    BY <1>6 DEF Same, SessionState, Session!SessionState
<1>9. Ahead(s, created) /\ Reported(created)
    BY <1>6, <1>7, <1>8, SameFollows, Follow
<1> HIDE DEF created
<1>10. work \in Session!Callback
    BY <1>2 DEF Session!NativeWork, Session!Callback
<1> HIDE DEF work
<1>11. Onward(s, s)
    BY Follow
<1>12. LET t == Session!CompleteFailure(connecting, "Failed", FALSE, p)
       IN  Onward(s, t) /\ Reported(t)
    BY <1>6, CompleteFailureFollows, Follow, Parameters
<1>13. LET t == Session!CompleteFailure(created, "Failed", FALSE, p)
       IN  Onward(s, t) /\ Reported(t)
    BY <1>7, <1>9, CompleteFailureFollows, Follow, Parameters
<1>14. LET t == Session!Await(created, work) IN Onward(s, t) /\ Reported(t)
    BY <1>7, <1>9, <1>10, AwaitFollows, Follow
<1> QED BY <1>1, <1>2, <1>11, <1>12, <1>13, <1>14

LEMMA StartConnectionFollows ==
    ASSUME NEW s \in SessionState, NEW operation \in Session!DeviceOperationKind,
           NEW openImmediately \in BOOLEAN, NEW p \in Session!PlatformOutcome
    PROVE  Onward(s, Session!StartConnection(s, operation, openImmediately, p))
<1> DEFINE supersedes == operation \notin {"AutomaticReconnect", "IncomingEnable"}
           eligible == operation \in {"AutomaticReconnect", "Startup", "Resume"}
           cancelled == Session!CancelTimer(s)
           isCancelled == cancelled.IsReconnectCancelled /\ ~supersedes
           attempts == IF supersedes THEN 0 ELSE cancelled.CompletedRetryAttempts
           epoch == cancelled.OperationEpoch + 1
           started == [cancelled EXCEPT
            !.IsReconnectCancelled = isCancelled,
            !.CompletedRetryAttempts = attempts,
            !.TransientOpenRetryAttempts = 0,
            !.CurrentOperation = operation,
            !.RetryEligible = eligible,
            !.OpenImmediately = openImmediately,
            !.OperationEpoch = epoch]
           restores == s.IsIncomingEnabled /\ ~openImmediately
           replacing == [started EXCEPT !.Lifecycle = "Disconnecting",
                                        !.RestoreIncomingAfterClose = restores]
           r == Session!RevokeStateChanged(replacing)
           u == Session!Publish(r, "Success", FALSE, "Normal")
           blocked == \/ s.IsShutdown \/ s.IsSuspended
                      \/ s.IsCloseInFlight \/ s.Lifecycle \in {"Connecting", "Disconnecting"}
<1>1. Session!StartConnection(s, operation, openImmediately, p) =
        IF blocked THEN s
        ELSE IF s.Connection = NoConnection THEN Session!BeginCreate(started, p)
        ELSE Session!BeginClose(u, "Replace", "Success", FALSE, FALSE, "None", p)
    BY Zenon DEF Session!StartConnection, supersedes, eligible, cancelled, isCancelled,
                 attempts, epoch, started, restores, replacing, r, u, blocked
<1>2. restores \in BOOLEAN /\ eligible \in BOOLEAN
    OBVIOUS
<1>3. /\ cancelled \in SessionState /\ Ahead(s, cancelled) /\ Unmoved(s, cancelled)
      /\ cancelled.IsSuspended = s.IsSuspended
    BY CancelTimerFollows DEF Onward, Ahead
<1>4. isCancelled \in BOOLEAN /\ attempts \in Nat /\ epoch \in Nat
    <2> HIDE DEF supersedes, cancelled
    <2> QED BY <1>3 DEF SessionState, Session!SessionState
<1> HIDE DEF supersedes, eligible, cancelled, isCancelled, attempts, restores
<1>5. started \in SessionState
    <2> HIDE DEF epoch
    <2> DEFINE base == [cancelled EXCEPT !.IsReconnectCancelled = isCancelled,
                                         !.CompletedRetryAttempts = attempts,
                                         !.TransientOpenRetryAttempts = 0]
    <2>1. base \in SessionState
        BY <1>3, <1>4 DEF SessionState, Session!SessionState
    <2> HIDE DEF base
    <2>2. [base EXCEPT !.CurrentOperation = operation, !.RetryEligible = eligible,
                       !.OpenImmediately = openImmediately, !.OperationEpoch = epoch]
            \in SessionState
        BY <1>2, <1>4, <2>1 DEF SessionState, Session!SessionState
    <2> QED BY <2>2, Zenon DEF base
<1>6. Steps(cancelled, started) /\ started.IsSuspended = cancelled.IsSuspended
    BY <1>3 DEF Steps, SessionState, Session!SessionState
<1> HIDE DEF epoch
<1>7. Ahead(s, started)
    BY <1>3, <1>5, <1>6, StepsAhead, Follow
<1>8. started.IsShutdown = s.IsShutdown /\ started.IsSuspended = s.IsSuspended
    BY <1>3, <1>6, <1>7 DEF Ahead
<1> HIDE DEF started
<1>9. replacing \in SessionState
    BY <1>2, <1>5 DEF SessionState, Session!SessionState, Session!DeviceLifecycleState
<1>10. Steps(started, replacing) /\ replacing.Lifecycle = "Disconnecting"
    BY <1>5 DEF Steps, SessionState, Session!SessionState
<1>11. Ahead(s, replacing)
    BY <1>5, <1>7, <1>9, <1>10, StepsAhead, Follow
<1> HIDE DEF replacing
<1>12. Ahead(s, r) /\ r \in SessionState /\ r.Lifecycle = "Disconnecting"
    BY <1>9, <1>10, <1>11, RevokeFollows, Follow DEF Onward, Ahead, Unmoved
<1> HIDE DEF r
<1>13. Ahead(s, u) /\ u \in SessionState /\ u.Lifecycle = "Disconnecting"
    <2>1. "Success" \in Session!DeviceConnectionResult /\ "Normal" \in Session!DeviceDisconnectReason
        BY Parameters
    <2>2. Ahead(r, u) /\ u.Lifecycle = r.Lifecycle
        BY <1>12, <2>1, PublishReports
    <2> QED BY <1>12, <2>2, Follow DEF Ahead
<1> HIDE DEF u
<1>14. Onward(s, Session!BeginClose(u, "Replace", "Success", FALSE, FALSE, "None", p))
    <2> DEFINE t == Session!BeginClose(u, "Replace", "Success", FALSE, FALSE, "None", p)
    <2>1. /\ "Success" \in Session!DeviceConnectionResult
          /\ "None" \in Session!DeviceDisconnectReason /\ "Replace" \in Session!CloseContinuation
        BY Parameters
    <2>2. Ahead(u, t) /\ Reported(t)
        BY <1>13, <2>1, BeginCloseReports
    <2> HIDE DEF t
    <2> QED BY <1>13, <2>2, Follow DEF t
<1>15. CASE blocked
    BY <1>1, <1>15, Follow
<1>16. CASE ~blocked
    <2>1. ~started.IsShutdown /\ ~started.IsSuspended
        BY <1>8, <1>16
    <2>2. Onward(started, Session!BeginCreate(started, p)) /\ Reported(Session!BeginCreate(started, p))
        BY <1>5, <2>1, BeginCreateReports
    <2>3. Onward(s, Session!BeginCreate(started, p))
        BY <1>7, <2>2, Follow DEF Onward
    <2> QED BY <1>1, <1>14, <1>16, <2>3
<1> QED BY <1>15, <1>16

LEMMA StartListenerFollows ==
    ASSUME NEW s \in SessionState, NEW p \in Session!PlatformOutcome
    PROVE  Onward(s, Session!StartListener(s, p))
BY StartConnectionFollows, Parameters DEF Session!StartListener

LEMMA FinishFollows ==
    ASSUME NEW s \in SessionState, NEW p \in Session!PlatformOutcome
    PROVE  Onward(s, Session!Finish(s, p))
<1> DEFINE u == [s EXCEPT !.listenerDue = FALSE]
           q == [p EXCEPT !.create = p.listener]
<1>1. u \in SessionState
    BY DEF SessionState, Session!SessionState
<1>2. Same(s, u)
    BY DEF Same, SessionState, Session!SessionState
<1>3. q \in Session!PlatformOutcome
    BY DEF Session!PlatformOutcome
<1>4. Session!Finish(s, p) = IF s.listenerDue THEN Session!StartListener(u, q) ELSE s
    BY DEF Session!Finish, u, q
<1> HIDE DEF u, q
<1>5. Onward(s, Session!StartListener(u, q))
    BY <1>1, <1>2, <1>3, SameFollows, StartListenerFollows, Follow
<1>6. Onward(s, s)
    BY Follow
<1> QED BY <1>4, <1>5, <1>6

-----------------------------------------------------------------------------
(* After a close.                                                          *)

LEMMA FlagType ==
    ASSUME NEW s \in SessionState, NEW flag \in BOOLEAN
    PROVE
        /\ [s EXCEPT !.IsSuspended = flag] \in SessionState
        /\ [s EXCEPT !.ResumeRequired = flag] \in SessionState
        /\ [s EXCEPT !.ResumeRequested = flag] \in SessionState
        /\ [s EXCEPT !.IsSuspendClosePending = flag] \in SessionState
        /\ [s EXCEPT !.IsCloseContinuationAbandoned = flag] \in SessionState
        /\ [s EXCEPT !.Lifecycle = "Idle"] \in SessionState
<1>1. [s EXCEPT !.IsSuspended = flag] \in SessionState
    BY DEF SessionState, Session!SessionState
<1>2. [s EXCEPT !.ResumeRequired = flag] \in SessionState
    BY DEF SessionState, Session!SessionState
<1>3. [s EXCEPT !.ResumeRequested = flag] \in SessionState
    BY DEF SessionState, Session!SessionState
<1>4. [s EXCEPT !.IsSuspendClosePending = flag] \in SessionState
    BY DEF SessionState, Session!SessionState
<1>5. [s EXCEPT !.IsCloseContinuationAbandoned = flag] \in SessionState
    BY DEF SessionState, Session!SessionState
<1>6. [s EXCEPT !.Lifecycle = "Idle"] \in SessionState
    BY DEF SessionState, Session!SessionState, Session!DeviceLifecycleState
<1> QED BY <1>1, <1>2, <1>3, <1>4, <1>5, <1>6

LEMMA StartAfterResumeFollows ==
    ASSUME NEW s \in SessionState, NEW p \in Session!PlatformOutcome
    PROVE  Onward(s, Session!StartAfterResume(s, p))
<1> DEFINE u == [s EXCEPT !.ResumeRequired = FALSE]
           operation == IF s.ResumeOpenImmediately THEN "Resume" ELSE "IncomingEnable"
<1>1. Session!StartAfterResume(s, p) =
        IF s.ResumeRequired
        THEN Session!StartConnection(u, operation, s.ResumeOpenImmediately, p)
        ELSE IF s.IsIncomingEnabled THEN Session!StartListener(s, p)
             ELSE Session!Publish(s, "Success", FALSE, "None")
    BY Zenon DEF Session!StartAfterResume, u, operation
<1>2. /\ operation \in Session!DeviceOperationKind /\ s.ResumeOpenImmediately \in BOOLEAN
      /\ "Success" \in Session!DeviceConnectionResult /\ "None" \in Session!DeviceDisconnectReason
    BY Parameters DEF SessionState, Session!SessionState
<1> HIDE DEF operation
<1>3. u \in SessionState
    BY DEF SessionState, Session!SessionState
<1>4. Same(s, u)
    BY DEF Same, SessionState, Session!SessionState
<1> HIDE DEF u
<1>5. Onward(s, Session!StartConnection(u, operation, s.ResumeOpenImmediately, p))
    BY <1>2, <1>3, <1>4, SameFollows, StartConnectionFollows, Follow
<1>6. Onward(s, Session!StartListener(s, p))
    BY StartListenerFollows
<1>7. Onward(s, Session!Publish(s, "Success", FALSE, "None"))
    <2>1. LET t == Session!Publish(s, "Success", FALSE, "None") IN Ahead(s, t) /\ Reported(t)
        BY <1>2, PublishReports
    <2> QED BY <2>1 DEF Onward
<1> QED BY <1>1, <1>5, <1>6, <1>7

LEMMA CompleteSuspendCloseFollows ==
    ASSUME NEW s \in SessionState, NEW p \in Session!PlatformOutcome
    PROVE  Onward(s, Session!CompleteSuspendClose(s, p))
<1> DEFINE d == [s EXCEPT !.Connection = NoConnection, !.StateChangedToken = FALSE,
                          !.IsSuspendClosePending = FALSE, !.Lifecycle = "Idle"]
           closed == Session!Publish(d, "Cancelled", FALSE, "None")
           resumed == [closed EXCEPT !.ResumeRequested = FALSE, !.IsSuspended = FALSE]
<1>1. Session!CompleteSuspendClose(s, p) =
        IF \/ s.IsShutdown \/ ~s.IsSuspended \/ ~s.IsSuspendClosePending
           \/ s.SuspendCloseEpoch # s.OperationEpoch
        THEN s
        ELSE IF s.ResumeRequested THEN Session!StartAfterResume(resumed, p) ELSE closed
    BY Zenon DEF Session!CompleteSuspendClose, d, closed, resumed
<1>2. "Cancelled" \in Session!DeviceConnectionResult /\ "None" \in Session!DeviceDisconnectReason
    BY Parameters
<1>3. d \in SessionState
    BY DEF SessionState, Session!SessionState, Session!DeviceLifecycleState
<1>4. Steps(s, d)
    BY DEF Steps, SessionState, Session!SessionState
<1>5. Ahead(s, d)
    BY <1>3, <1>4, StepsAhead
<1> HIDE DEF d
<1>6. Ahead(d, closed) /\ Reported(closed)
    BY <1>2, <1>3, PublishReports
<1> HIDE DEF closed
<1>7. Ahead(s, closed) /\ closed \in SessionState
    BY <1>5, <1>6, Follow DEF Ahead
<1>8. resumed \in SessionState
    BY <1>7, FlagType
<1>9. Same(closed, resumed)
    BY <1>7 DEF Same, SessionState, Session!SessionState
<1> HIDE DEF resumed
<1>10. Ahead(s, resumed) /\ Reported(resumed)
    BY <1>6, <1>7, <1>8, <1>9, SameFollows, Follow
<1>11. Onward(s, Session!StartAfterResume(resumed, p))
    BY <1>8, <1>10, StartAfterResumeFollows, Follow
<1>12. Onward(s, closed) /\ Onward(s, s)
    BY <1>6, <1>7, Follow
<1> QED BY <1>1, <1>11, <1>12

LEMMA ContinueAbandonedFollows ==
    ASSUME NEW s \in SessionState
    PROVE  Onward(s, Session!ContinueAbandoned(s))
<1> DEFINE held == s.IsSuspended /\ ~s.ResumeRequested
           over == [s EXCEPT !.IsSuspendClosePending = FALSE, !.ResumeRequired = FALSE,
                             !.IsSuspended = held, !.ResumeRequested = FALSE]
           released == IF ~s.IsSuspendClosePending THEN s ELSE over
           idle == [released EXCEPT !.IsCloseContinuationAbandoned = FALSE,
                                    !.Lifecycle = "Idle"]
           u == Session!Publish(idle, "Success", FALSE, "None")
<1>1. Session!ContinueAbandoned(s) = Session!RestoreIncomingListenerAfterTerminal(u)
    BY DEF Session!ContinueAbandoned
<1>2. held \in BOOLEAN
    OBVIOUS
<1> HIDE DEF held
<1>3. over \in SessionState
    BY <1>2, FlagType
<1>4. Steps(s, over) /\ Steps(s, s)
    BY DEF Steps, SessionState, Session!SessionState
<1> HIDE DEF over
<1>5. Ahead(s, released) /\ released \in SessionState
    BY <1>3, <1>4, StepsAhead
<1> HIDE DEF released
<1>6. idle \in SessionState
    BY <1>5, FlagType
<1>7. Steps(released, idle)
    BY <1>5 DEF Steps, SessionState, Session!SessionState
<1> HIDE DEF idle
<1>8. Ahead(s, idle)
    BY <1>5, <1>6, <1>7, StepsAhead, Follow
<1>9. Ahead(idle, u) /\ Reported(u)
    BY <1>6, PublishReports, Parameters
<1> HIDE DEF u
<1>10. Ahead(s, u) /\ u \in SessionState
    BY <1>8, <1>9, Follow DEF Ahead
<1>11. Onward(s, Session!RestoreIncomingListenerAfterTerminal(u))
    BY <1>9, <1>10, RestoreFollows, Follow
<1> QED BY <1>1, <1>11

LEMMA ContinueIdleFollows ==
    ASSUME NEW s \in SessionState, NEW p \in Session!PlatformOutcome
    PROVE  Onward(s, Session!ContinueIdle(s, p))
<1> DEFINE d == [s EXCEPT !.Lifecycle = "Idle", !.Pending = Session!NoPendingClose]
           idle == Session!Publish(d, s.Pending.Failure, FALSE, s.Pending.DisconnectReason)
           u == [idle EXCEPT !.RestoreIncomingAfterClose = FALSE]
<1>1. Session!ContinueIdle(s, p) =
        IF s.RestoreIncomingAfterClose /\ s.IsIncomingEnabled /\ ~s.IsSuspended
        THEN Session!StartListener(u, p) ELSE idle
    BY Zenon DEF Session!ContinueIdle, d, idle, u
<1>2. /\ s.Pending.Failure \in Session!DeviceConnectionResult
      /\ s.Pending.DisconnectReason \in Session!DeviceDisconnectReason
    BY DEF SessionState, Session!SessionState, Session!PendingClose
<1>3. d \in SessionState
    BY NoPendingCloseType DEF SessionState, Session!SessionState, Session!DeviceLifecycleState
<1>4. Steps(s, d)
    BY DEF Steps, SessionState, Session!SessionState
<1>5. Ahead(s, d)
    BY <1>3, <1>4, StepsAhead
<1> HIDE DEF d
<1>6. Ahead(d, idle) /\ Reported(idle)
    BY <1>2, <1>3, PublishReports
<1> HIDE DEF idle
<1>7. Ahead(s, idle) /\ idle \in SessionState
    BY <1>5, <1>6, Follow DEF Ahead
<1>8. u \in SessionState
    BY <1>7 DEF SessionState, Session!SessionState
<1>9. Same(idle, u)
    BY <1>7 DEF Same, SessionState, Session!SessionState
<1> HIDE DEF u
<1>10. Ahead(s, u) /\ Reported(u)
    BY <1>6, <1>7, <1>8, <1>9, SameFollows, Follow
<1>11. Onward(s, Session!StartListener(u, p))
    BY <1>8, <1>10, StartListenerFollows, Follow
<1>12. Onward(s, idle)
    BY <1>6, <1>7, Follow
<1> QED BY <1>1, <1>11, <1>12

LEMMA ContinueAfterCloseFollows ==
    ASSUME NEW s \in SessionState, NEW p \in Session!PlatformOutcome
    PROVE  Onward(s, Session!ContinueAfterClose(s, p))
<1> DEFINE u == [s EXCEPT !.Pending = Session!NoPendingClose]
           c == s.Pending.Continuation
<1>1. /\ s.Pending \in Session!PendingClose
      /\ c \in {"Idle", "Replace", "Retry", "TransientOpenRetry", "Suspend"}
    BY DEF SessionState, Session!SessionState, Session!PendingClose, Session!CloseContinuation
<1>2. u \in SessionState
    BY NoPendingCloseType DEF SessionState, Session!SessionState
<1>3. Same(s, u)
    BY DEF Same, SessionState, Session!SessionState
<1>4. /\ s.IsCloseContinuationAbandoned =>
            Session!ContinueAfterClose(s, p) = Session!ContinueAbandoned(u)
      /\ ~s.IsCloseContinuationAbandoned =>
            /\ c = "Replace" => Session!ContinueAfterClose(s, p) = Session!BeginCreate(u, p)
            /\ c = "Retry" => Session!ContinueAfterClose(s, p) =
                    Session!ScheduleReconnect(u, s.Pending.Failure, s.Pending.RetryEligible,
                        s.Pending.CompletedAttempt, s.Pending.DisconnectReason, p)
            /\ c = "TransientOpenRetry" => Session!ContinueAfterClose(s, p) =
                    Session!ScheduleTransientOpenRetry(u, s.Pending.Failure, p)
            /\ c = "Suspend" =>
                    Session!ContinueAfterClose(s, p) = Session!CompleteSuspendClose(u, p)
            /\ c = "Idle" => Session!ContinueAfterClose(s, p) = Session!ContinueIdle(s, p)
    BY DEF Session!ContinueAfterClose
<1> HIDE DEF u, c
<1>5. /\ s.Pending.Failure \in Session!DeviceConnectionResult
      /\ s.Pending.DisconnectReason \in Session!DeviceDisconnectReason
      /\ s.Pending.RetryEligible \in BOOLEAN /\ s.Pending.CompletedAttempt \in BOOLEAN
    BY <1>1 DEF Session!PendingClose
<1>6. Onward(s, u)
    BY <1>2, <1>3, SameFollows
<1>7. Onward(s, Session!ContinueAbandoned(u))
    BY <1>2, <1>6, ContinueAbandonedFollows, Follow
<1>8. Onward(s, Session!BeginCreate(u, p))
    BY <1>2, <1>6, BeginCreateReports, Follow
<1>9. Onward(s, Session!ScheduleReconnect(u, s.Pending.Failure, s.Pending.RetryEligible,
                        s.Pending.CompletedAttempt, s.Pending.DisconnectReason, p))
    <2> DEFINE t == Session!ScheduleReconnect(u, s.Pending.Failure, s.Pending.RetryEligible,
                        s.Pending.CompletedAttempt, s.Pending.DisconnectReason, p)
    <2>1. Ahead(u, t) /\ Reported(t)
        BY <1>2, <1>5, ScheduleReconnectReports
    <2> HIDE DEF t
    <2>2. Onward(u, t)
        BY <2>1 DEF Onward
    <2> QED BY <1>6, <2>2, Follow DEF t
<1>10. Onward(s, Session!ScheduleTransientOpenRetry(u, s.Pending.Failure, p))
    BY <1>2, <1>5, <1>6, ScheduleTransientOpenRetryFollows, Follow
<1>11. Onward(s, Session!CompleteSuspendClose(u, p))
    BY <1>2, <1>6, CompleteSuspendCloseFollows, Follow
<1>12. Onward(s, Session!ContinueIdle(s, p))
    BY ContinueIdleFollows
<1> QED BY <1>1, <1>4, <1>7, <1>8, <1>9, <1>10, <1>11, <1>12

LEMMA CompleteCloseCooldownFollows ==
    ASSUME NEW s \in SessionState, NEW epoch, NEW p \in Session!PlatformOutcome
    PROVE  Onward(s, Session!CompleteCloseCooldown(s, epoch, p))
<1> DEFINE u == [s EXCEPT !.IsCloseCooldown = FALSE, !.IsCloseInFlight = FALSE]
<1>1. u \in SessionState
    BY DEF SessionState, Session!SessionState
<1>2. Same(s, u)
    BY DEF Same, SessionState, Session!SessionState
<1>3. Session!CompleteCloseCooldown(s, epoch, p) \in {s, Session!ContinueAfterClose(u, p)}
    BY DEF Session!CompleteCloseCooldown
<1> HIDE DEF u
<1>4. Onward(s, Session!ContinueAfterClose(u, p))
    BY <1>1, <1>2, SameFollows, ContinueAfterCloseFollows, Follow
<1> QED BY <1>3, <1>4, Follow

LEMMA CompleteCloseBarrierFollows ==
    ASSUME NEW s \in SessionState, NEW epoch \in Nat, NEW timedOut \in BOOLEAN,
           NEW p \in Session!PlatformOutcome
    PROVE  Onward(s, Session!CompleteCloseBarrier(s, epoch, timedOut, p))
<1> DEFINE f == [s EXCEPT !.Lifecycle = "Failed"]
           failed == Session!Publish(f, "TimedOut", TRUE, s.Pending.DisconnectReason)
           cooling == [s EXCEPT !.ClosingConnection = NoConnection, !.StateChangedToken = FALSE,
                                !.IsCloseCooldown = TRUE]
           work == Session!BarrierWork("Cooldown", epoch)
<1>1. Session!CompleteCloseBarrier(s, epoch, timedOut, p) \in
        {s, Session!AbandonCloseContinuation(failed), Session!Await(cooling, work),
         Session!CompleteCloseCooldown(cooling, epoch, p)}
    BY DEF Session!CompleteCloseBarrier
<1>2. /\ s.Pending.DisconnectReason \in Session!DeviceDisconnectReason
      /\ "TimedOut" \in Session!DeviceConnectionResult
    BY Parameters DEF SessionState, Session!SessionState, Session!PendingClose
<1>3. f \in SessionState
    BY DEF SessionState, Session!SessionState, Session!DeviceLifecycleState
<1>4. Steps(s, f)
    BY DEF Steps, SessionState, Session!SessionState
<1> HIDE DEF f
<1>5. Ahead(f, failed) /\ Reported(failed)
    BY <1>2, <1>3, PublishReports
<1> HIDE DEF failed
<1>6. Ahead(s, failed) /\ failed \in SessionState
    BY <1>3, <1>4, <1>5, StepsAhead, Follow DEF Ahead
<1>7. Onward(s, Session!AbandonCloseContinuation(failed))
    BY <1>5, <1>6, AbandonFollows, Follow
<1>8. cooling \in SessionState
    BY DEF SessionState, Session!SessionState
<1>9. Same(s, cooling)
    BY DEF Same, SessionState, Session!SessionState
<1> HIDE DEF cooling
<1>10. Onward(s, cooling)
    BY <1>8, <1>9, SameFollows
<1>11. work \in Session!Callback
    BY DEF Session!BarrierWork, Session!Callback
<1> HIDE DEF work
<1>12. Onward(s, Session!Await(cooling, work))
    BY <1>8, <1>10, <1>11, AwaitFollows, Follow
<1>13. Onward(s, Session!CompleteCloseCooldown(cooling, epoch, p))
    BY <1>8, <1>10, CompleteCloseCooldownFollows, Follow
<1>14. Onward(s, s)
    BY Follow
<1> QED BY <1>1, <1>7, <1>12, <1>13, <1>14

-----------------------------------------------------------------------------
(* Platform callbacks.                                                     *)

OpenResult(r) == r.Result \in Session!DeviceConnectionResult

LEMMA EstablishedReports ==
    ASSUME NEW s \in SessionState
    PROVE  LET t == Session!Established(s) IN Ahead(s, t) /\ Reported(t)
<1> DEFINE c == [s EXCEPT !.Lifecycle = "Connected", !.CompletedRetryAttempts = 0,
                          !.RetryEligible = s.IsReconnectEnabled]
           t == Session!Publish(c, "Success", FALSE, "None")
<1>1. Session!Established(s) = t
    BY DEF Session!Established
<1>2. /\ s.IsReconnectEnabled \in BOOLEAN
      /\ "Success" \in Session!DeviceConnectionResult /\ "None" \in Session!DeviceDisconnectReason
    BY Parameters DEF SessionState, Session!SessionState
<1>3. c \in SessionState
    BY <1>2 DEF SessionState, Session!SessionState, Session!DeviceLifecycleState
<1>4. Steps(s, c)
    BY DEF Steps, SessionState, Session!SessionState
<1> HIDE DEF c
<1>5. Ahead(s, c)
    BY <1>3, <1>4, StepsAhead
<1>6. Ahead(c, t) /\ Reported(t)
    BY <1>2, <1>3, PublishReports
<1> HIDE DEF t
<1> QED BY <1>1, <1>5, <1>6, Follow

LEMMA OnStartedFollows ==
    ASSUME NEW s \in SessionState, NEW epoch \in Nat, NEW address \in Address,
           NEW result \in {"Success", "Failed"}, NEW p \in Session!PlatformOutcome
    PROVE  Onward(s, Session!OnStarted(s, epoch, address, result, p))
<1> DEFINE i == [s EXCEPT !.Lifecycle = "Idle"]
           idle == Session!Publish(i, "Success", FALSE, "None")
           work == Session!NativeWork("Opened", epoch, address)
<1>1. Session!OnStarted(s, epoch, address, result, p) \in
        {s, Session!CompleteFailure(s, result, FALSE, p), idle, Session!Await(s, work),
         Session!CompleteFailure(s, "Failed", FALSE, p)}
    BY DEF Session!OnStarted
<1>2. /\ result \in Session!DeviceConnectionResult /\ "Failed" \in Session!DeviceConnectionResult
      /\ "Success" \in Session!DeviceConnectionResult /\ "None" \in Session!DeviceDisconnectReason
    BY Parameters
<1>3. i \in SessionState
    BY FlagType
<1>4. Steps(s, i)
    BY DEF Steps, SessionState, Session!SessionState
<1> HIDE DEF i
<1>5. Ahead(i, idle) /\ Reported(idle)
    BY <1>2, <1>3, PublishReports
<1> HIDE DEF idle
<1>6. Onward(s, idle)
    BY <1>3, <1>4, <1>5, StepsAhead, Follow
<1>7. work \in Session!Callback
    BY DEF Session!NativeWork, Session!Callback
<1> HIDE DEF work
<1>8. Onward(s, Session!Await(s, work))
    BY <1>7, AwaitFollows
<1>9. /\ Onward(s, Session!CompleteFailure(s, result, FALSE, p))
      /\ Onward(s, Session!CompleteFailure(s, "Failed", FALSE, p))
    BY <1>2, CompleteFailureFollows
<1>10. Onward(s, s)
    BY Follow
<1> QED BY <1>1, <1>6, <1>8, <1>9, <1>10

LEMMA OnOpenedFollows ==
    ASSUME NEW s \in SessionState, NEW epoch, NEW address,
           NEW r, OpenResult(r), NEW p \in Session!PlatformOutcome
    PROVE  Onward(s, Session!OnOpened(s, epoch, address, r, p))
<1>1. Session!OnOpened(s, epoch, address, r, p) \in
        {s, Session!CompleteFailure(s, r.Result, r.IsTransientFailure, p), Session!Established(s)}
    BY DEF Session!OnOpened
<1>2. Onward(s, Session!CompleteFailure(s, r.Result, r.IsTransientFailure, p))
    BY CompleteFailureFollows DEF OpenResult
<1>3. Onward(s, Session!Established(s))
    BY EstablishedReports DEF Onward
<1>4. Onward(s, s)
    BY Follow
<1> QED BY <1>1, <1>2, <1>3, <1>4

LEMMA OnListenerLostFollows ==
    ASSUME NEW s \in SessionState, NEW p \in Session!PlatformOutcome
    PROVE  Onward(s, Session!OnListenerLost(s, p))
<1> DEFINE i == [s EXCEPT !.Lifecycle = "Idle", !.RetryEligible = FALSE]
           idle == Session!Publish(i, "Success", FALSE, "UnexpectedLoss")
           retry == Session!ScheduleReconnect(s, "Failed", TRUE, FALSE, "UnexpectedLoss", p)
<1>1. Session!OnListenerLost(s, p) \in {retry, idle}
    BY DEF Session!OnListenerLost
<1>2. /\ "Failed" \in Session!DeviceConnectionResult /\ "Success" \in Session!DeviceConnectionResult
      /\ "UnexpectedLoss" \in Session!DeviceDisconnectReason
    BY Parameters
<1>3. i \in SessionState
    BY DEF SessionState, Session!SessionState, Session!DeviceLifecycleState
<1>4. Steps(s, i)
    BY DEF Steps, SessionState, Session!SessionState
<1> HIDE DEF i
<1>5. Ahead(i, idle) /\ Reported(idle)
    BY <1>2, <1>3, PublishReports
<1> HIDE DEF idle
<1>6. Onward(s, idle)
    BY <1>3, <1>4, <1>5, StepsAhead, Follow
<1>7. Onward(s, retry)
    BY <1>2, ScheduleReconnectReports DEF Onward
<1> QED BY <1>1, <1>6, <1>7

LEMMA OnConnectionClosedFollows ==
    ASSUME NEW s \in SessionState, NEW isIncomingListener, NEW p \in Session!PlatformOutcome
    PROVE  Onward(s, Session!OnConnectionClosed(s, isIncomingListener, p))
<1> DEFINE wasEstablished == s.Lifecycle = "Connected"
           r == Session!RevokeStateChanged(s)
           epoch == r.OperationEpoch + 1
           dropped == [r EXCEPT !.Connection = NoConnection, !.OperationEpoch = epoch]
           i == [dropped EXCEPT !.Lifecycle = "Idle"]
           idle == Session!Publish(i, "Success", FALSE, "None")
           isAutomatic == s.CurrentOperation = "AutomaticReconnect"
           reason == IF wasEstablished THEN "UnexpectedLoss" ELSE "None"
           retry == Session!ScheduleReconnect(dropped, "Failed", s.RetryEligible, isAutomatic,
                                              reason, p)
<1>1. Session!OnConnectionClosed(s, isIncomingListener, p)
        = IF isIncomingListener /\ ~wasEstablished THEN Session!StartListener(idle, p) ELSE retry
    BY Zenon DEF Session!OnConnectionClosed, wasEstablished, r, epoch, dropped, i, idle,
                 isAutomatic, reason, retry
<1>2. /\ "Failed" \in Session!DeviceConnectionResult /\ "Success" \in Session!DeviceConnectionResult
      /\ "None" \in Session!DeviceDisconnectReason /\ reason \in Session!DeviceDisconnectReason
      /\ isAutomatic \in BOOLEAN /\ s.RetryEligible \in BOOLEAN
    BY Parameters DEF SessionState, Session!SessionState
<1> HIDE DEF wasEstablished, isAutomatic, reason
<1>3. Ahead(s, r) /\ r \in SessionState
    BY RevokeFollows DEF Onward, Ahead
<1> HIDE DEF r
<1>4. epoch \in Nat
    BY <1>3 DEF SessionState, Session!SessionState
<1>5. dropped \in SessionState
    <2> HIDE DEF epoch
    <2> QED BY <1>3, <1>4 DEF SessionState, Session!SessionState
<1>6. Steps(r, dropped)
    BY <1>3 DEF Steps, SessionState, Session!SessionState
<1> HIDE DEF epoch, dropped
<1>7. Ahead(s, dropped)
    BY <1>3, <1>5, <1>6, StepsAhead, Follow
<1>8. i \in SessionState
    BY <1>5, FlagType
<1>9. Steps(dropped, i)
    BY <1>5 DEF Steps, SessionState, Session!SessionState
<1> HIDE DEF i
<1>10. Ahead(i, idle) /\ Reported(idle)
    BY <1>2, <1>8, PublishReports
<1> HIDE DEF idle
<1>11. Ahead(s, idle) /\ idle \in SessionState
    BY <1>5, <1>7, <1>8, <1>9, <1>10, StepsAhead, Follow DEF Ahead
<1>12. Onward(s, Session!StartListener(idle, p))
    BY <1>10, <1>11, StartListenerFollows, Follow
<1>13. Onward(s, retry)
    <2>1. Ahead(dropped, retry) /\ Reported(retry)
        BY <1>2, <1>5, ScheduleReconnectReports
    <2> HIDE DEF retry
    <2> QED BY <1>7, <2>1, Follow
<1> HIDE DEF retry
<1> QED BY <1>1, <1>12, <1>13

LEMMA OnStateChangedFollows ==
    ASSUME NEW s \in SessionState, NEW epoch, NEW address,
           NEW state \in Session!DeviceConnectionState, NEW p \in Session!PlatformOutcome
    PROVE  Onward(s, Session!OnStateChanged(s, epoch, address, state, p))
<1> DEFINE isIncomingListener == ~s.OpenImmediately /\ s.IsIncomingEnabled
           opened == Session!Established(Session!CancelTimer(s))
<1>1. Session!OnStateChanged(s, epoch, address, state, p) \in
        {s, opened, Session!OnListenerLost(s, p),
         Session!OnConnectionClosed(s, isIncomingListener, p)}
    <2>1. state \in {"Opened", "Closed"}
        BY DEF Session!DeviceConnectionState
    <2> QED BY <2>1 DEF Session!OnStateChanged
<1>2. Onward(s, opened)
    <2>1. Onward(s, Session!CancelTimer(s)) /\ Session!CancelTimer(s) \in SessionState
        BY CancelTimerFollows DEF Onward, Ahead
    <2>2. Onward(Session!CancelTimer(s), opened)
        BY <2>1, EstablishedReports DEF Onward
    <2> QED BY <2>1, <2>2, Follow
<1>3. /\ Onward(s, Session!OnListenerLost(s, p)) /\ Onward(s, s)
      /\ Onward(s, Session!OnConnectionClosed(s, isIncomingListener, p))
    BY OnListenerLostFollows, OnConnectionClosedFollows, Follow
<1> HIDE DEF opened, isIncomingListener
<1> QED BY <1>1, <1>2, <1>3

LEMMA OnTimerFollows ==
    ASSUME NEW s \in SessionState, NEW timerEpoch, NEW epoch, NEW p \in Session!PlatformOutcome
    PROVE  /\ Onward(s, Session!OnRetryTimer(s, timerEpoch, epoch, p))
           /\ Onward(s, Session!OnTransientOpenRetryTimer(s, timerEpoch, epoch, p))
<1>1. /\ Session!OnRetryTimer(s, timerEpoch, epoch, p) \in
            {s, Session!StartConnection(s, "AutomaticReconnect", s.OpenImmediately, p)}
      /\ Session!OnTransientOpenRetryTimer(s, timerEpoch, epoch, p) \in
            {s, Session!BeginCreate(s, p)}
    BY DEF Session!OnRetryTimer, Session!OnTransientOpenRetryTimer
<1>2. "AutomaticReconnect" \in Session!DeviceOperationKind /\ s.OpenImmediately \in BOOLEAN
    BY Parameters DEF SessionState, Session!SessionState
<1>3. /\ Onward(s, Session!StartConnection(s, "AutomaticReconnect", s.OpenImmediately, p))
      /\ Onward(s, Session!BeginCreate(s, p)) /\ Onward(s, s)
    BY <1>2, StartConnectionFollows, BeginCreateReports, Follow
<1> QED BY <1>1, <1>3

-----------------------------------------------------------------------------
(* The public operations.                                                  *)

(* Whatever an operation does before it closes, if it sets Disconnecting.  *)
LEMMA CloseFollows ==
    ASSUME NEW s \in SessionState, NEW u, Ahead(s, u), u.Lifecycle = "Disconnecting",
           NEW continuation \in {"Idle", "Replace", "Retry", "Suspend"},
           NEW failure \in {"Success", "Failed", "Cancelled"}, NEW shouldRetry \in BOOLEAN,
           NEW reason \in {"None", "DeviceRemoved"}, NEW p \in Session!PlatformOutcome
    PROVE  /\ Onward(s, Session!BeginClose(u, continuation, failure, shouldRetry, FALSE,
                                           reason, p))
           /\ \A result \in {"Success", "Failed"}, told \in {"None", "Normal", "DeviceRemoved"} :
                Onward(s, Session!BeginClose(Session!Publish(u, result, FALSE, told),
                              continuation, failure, shouldRetry, FALSE, reason, p))
<1>1. /\ continuation \in Session!CloseContinuation
      /\ failure \in Session!DeviceConnectionResult /\ reason \in Session!DeviceDisconnectReason
    BY Parameters
<1>2. u \in SessionState
    BY DEF Ahead
<1>3. \A v : Ahead(s, v) /\ v.Lifecycle = "Disconnecting" =>
            Onward(s, Session!BeginClose(v, continuation, failure, shouldRetry, FALSE, reason, p))
    <2> SUFFICES ASSUME NEW v, Ahead(s, v), v.Lifecycle = "Disconnecting"
                 PROVE  Onward(s, Session!BeginClose(v, continuation, failure, shouldRetry, FALSE,
                                                     reason, p))
        OBVIOUS
    <2> DEFINE t == Session!BeginClose(v, continuation, failure, shouldRetry, FALSE, reason, p)
    <2>1. v \in SessionState
        BY DEF Ahead
    <2>2. Ahead(v, t) /\ Reported(t)
        BY <1>1, <2>1, BeginCloseReports
    <2> HIDE DEF t
    <2>3. Onward(s, t)
        BY <2>2, Follow
    <2> QED BY <2>3 DEF t
<1>4. \A result \in {"Success", "Failed"}, told \in {"None", "Normal", "DeviceRemoved"} :
            LET v == Session!Publish(u, result, FALSE, told)
            IN  Ahead(s, v) /\ v.Lifecycle = "Disconnecting"
    <2> SUFFICES ASSUME NEW result \in {"Success", "Failed"},
                        NEW told \in {"None", "Normal", "DeviceRemoved"}
                 PROVE  LET v == Session!Publish(u, result, FALSE, told)
                        IN  Ahead(s, v) /\ v.Lifecycle = "Disconnecting"
        OBVIOUS
    <2> DEFINE v == Session!Publish(u, result, FALSE, told)
    <2>1. result \in Session!DeviceConnectionResult /\ told \in Session!DeviceDisconnectReason
        BY Parameters
    <2>2. Ahead(u, v) /\ v.Lifecycle = u.Lifecycle
        BY <1>2, <2>1, PublishReports
    <2> HIDE DEF v
    <2>3. Ahead(s, v) /\ v.Lifecycle = "Disconnecting"
        BY <2>2, Follow
    <2> QED BY <2>3 DEF v
<1> QED BY <1>3, <1>4

LEMMA RenameFollows ==
    ASSUME NEW s \in SessionState
    PROVE  Onward(s, Session!Rename(s))
<1> DEFINE t == Session!Publish(s, "Success", FALSE, "None")
<1>1. "Success" \in Session!DeviceConnectionResult /\ "None" \in Session!DeviceDisconnectReason
    BY Parameters
<1>2. Ahead(s, t) /\ Reported(t)
    BY <1>1, PublishReports
<1>3. Session!Rename(s) \in {s, t}
    BY DEF Session!Rename
<1> HIDE DEF t
<1> QED BY <1>2, <1>3, Follow

LEMMA HandleDeviceRemovedFollows ==
    ASSUME NEW s \in SessionState, NEW p \in Session!PlatformOutcome
    PROVE  Onward(s, Session!HandleDeviceRemoved(s, p))
<1> DEFINE c == Session!CancelTimer(s)
           settled == [c EXCEPT !.RestoreIncomingAfterClose = FALSE]
           epoch == settled.OperationEpoch + 1
           removed == [settled EXCEPT !.OperationEpoch = epoch]
           d == [removed EXCEPT !.Lifecycle = "Disconnecting"]
           closing == Session!RevokeStateChanged(d)
           told == Session!Publish(settled, "Success", FALSE, "None")
           quiet == Session!BeginClose(Session!Publish(closing, "Success", FALSE, "None"),
                                       "Idle", "Success", FALSE, FALSE, "None", p)
           retry == Session!ScheduleReconnect(removed, "Failed", s.RetryEligible, FALSE,
                                              "DeviceRemoved", p)
           close == Session!BeginClose(Session!Publish(closing, "Failed", FALSE, "DeviceRemoved"),
                                       "Retry", "Failed", s.RetryEligible, FALSE,
                                       "DeviceRemoved", p)
<1>1. Session!HandleDeviceRemoved(s, p) \in {s, told, quiet, retry, close}
    BY DEF Session!HandleDeviceRemoved
<1>2. /\ s.RetryEligible \in BOOLEAN
      /\ "Success" \in Session!DeviceConnectionResult /\ "Failed" \in Session!DeviceConnectionResult
      /\ "None" \in Session!DeviceDisconnectReason
      /\ "DeviceRemoved" \in Session!DeviceDisconnectReason
    BY Parameters DEF SessionState, Session!SessionState
<1>3. Ahead(s, c) /\ c \in SessionState
    BY CancelTimerFollows DEF Onward, Ahead
<1> HIDE DEF c
<1>4. settled \in SessionState
    BY <1>3 DEF SessionState, Session!SessionState
<1>5. Steps(c, settled)
    BY <1>3 DEF Steps, SessionState, Session!SessionState
<1> HIDE DEF settled
<1>6. Ahead(s, settled)
    BY <1>3, <1>4, <1>5, StepsAhead, Follow
<1>7. epoch \in Nat
    BY <1>4 DEF SessionState, Session!SessionState
<1>8. removed \in SessionState
    <2> HIDE DEF epoch
    <2> QED BY <1>4, <1>7 DEF SessionState, Session!SessionState
<1>9. Steps(settled, removed)
    BY <1>4 DEF Steps, SessionState, Session!SessionState
<1> HIDE DEF epoch, removed
<1>10. Ahead(s, removed)
    BY <1>4, <1>6, <1>8, <1>9, StepsAhead, Follow
<1>11. d \in SessionState
    BY <1>8 DEF SessionState, Session!SessionState, Session!DeviceLifecycleState
<1>12. Steps(removed, d) /\ d.Lifecycle = "Disconnecting"
    BY <1>8 DEF Steps, SessionState, Session!SessionState
<1> HIDE DEF d
<1>13. Ahead(s, d)
    BY <1>8, <1>10, <1>11, <1>12, StepsAhead, Follow
<1>14. Ahead(s, closing) /\ closing.Lifecycle = "Disconnecting"
    BY <1>11, <1>12, <1>13, RevokeFollows, Follow DEF Onward, Unmoved
<1> HIDE DEF closing
<1>15. Onward(s, quiet) /\ Onward(s, close)
    BY <1>2, <1>14, CloseFollows
<1>16. Onward(s, told)
    <2>1. Ahead(settled, told) /\ Reported(told)
        BY <1>2, <1>4, PublishReports
    <2> HIDE DEF told
    <2> QED BY <1>6, <2>1, Follow
<1>17. Onward(s, retry)
    <2>1. Ahead(removed, retry) /\ Reported(retry)
        BY <1>2, <1>8, ScheduleReconnectReports
    <2> HIDE DEF retry
    <2> QED BY <1>10, <2>1, Follow
<1>18. Onward(s, s)
    BY Follow
<1> HIDE DEF told, quiet, retry, close
<1> QED BY <1>1, <1>15, <1>16, <1>17, <1>18

LEMMA SupersedeFollows ==
    ASSUME NEW s \in SessionState, NEW operation \in Session!DeviceOperationKind,
           NEW openImmediately \in BOOLEAN, NEW p \in Session!PlatformOutcome
    PROVE  Onward(s, Session!SupersedePowerTransitionRecovery(s, operation, openImmediately, p))
<1> DEFINE released == [s EXCEPT !.IsSuspended = FALSE, !.ResumeRequired = FALSE,
                                 !.ResumeRequested = FALSE, !.IsSuspendClosePending = FALSE]
           c == Session!CancelTimer(released)
           epoch == c.OperationEpoch + 1
           base == [c EXCEPT !.IsReconnectCancelled = FALSE, !.CompletedRetryAttempts = 0,
                             !.TransientOpenRetryAttempts = 0, !.CurrentOperation = operation]
           started == [c EXCEPT
                        !.IsReconnectCancelled = FALSE, !.CompletedRetryAttempts = 0,
                        !.TransientOpenRetryAttempts = 0, !.CurrentOperation = operation,
                        !.RetryEligible = FALSE, !.OpenImmediately = openImmediately,
                        !.OperationEpoch = epoch]
           restores == s.IsIncomingEnabled /\ ~openImmediately
           replacing == [started EXCEPT !.Lifecycle = "Disconnecting",
                                        !.RestoreIncomingAfterClose = restores]
           start == Session!StartConnection(released, operation, openImmediately, p)
           close == Session!BeginClose(Session!Publish(replacing, "Success", FALSE, "None"),
                                       "Replace", "Success", FALSE, FALSE, "None", p)
<1>1. Session!SupersedePowerTransitionRecovery(s, operation, openImmediately, p)
        \in {start, released, close}
    BY DEF Session!SupersedePowerTransitionRecovery
<1>2. restores \in BOOLEAN
    OBVIOUS
<1> HIDE DEF restores
<1>3. released \in SessionState
    BY FlagType
<1>4. Same(s, released)
    BY DEF Same, SessionState, Session!SessionState
<1>5. Onward(s, released)
    BY <1>3, <1>4, SameFollows
<1> HIDE DEF released
<1>6. Ahead(s, c) /\ c \in SessionState
    BY <1>3, <1>5, CancelTimerFollows, Follow DEF Onward, Ahead
<1> HIDE DEF c
<1>7. epoch \in Nat
    BY <1>6 DEF SessionState, Session!SessionState
<1>8. started \in SessionState
    <2> HIDE DEF epoch
    <2>1. base \in SessionState
        BY <1>6 DEF SessionState, Session!SessionState
    <2> HIDE DEF base
    <2> DEFINE eager == [base EXCEPT !.RetryEligible = FALSE,
                                     !.OpenImmediately = openImmediately]
    <2>2. eager \in SessionState
        BY <2>1 DEF SessionState, Session!SessionState
    <2> HIDE DEF eager
    <2>3. [eager EXCEPT !.OperationEpoch = epoch] \in SessionState
        BY <1>7, <2>2 DEF SessionState, Session!SessionState
    <2> QED BY <2>3, Zenon DEF base, eager
<1>9. Steps(c, started)
    BY <1>6 DEF Steps, SessionState, Session!SessionState
<1> HIDE DEF epoch, started
<1>10. replacing \in SessionState
    BY <1>2, <1>8 DEF SessionState, Session!SessionState, Session!DeviceLifecycleState
<1>11. Steps(started, replacing) /\ replacing.Lifecycle = "Disconnecting"
    BY <1>8 DEF Steps, SessionState, Session!SessionState
<1> HIDE DEF replacing
<1>12. Ahead(s, started)
    BY <1>6, <1>8, <1>9, StepsAhead, Follow
<1>13. Ahead(s, replacing)
    BY <1>8, <1>10, <1>11, <1>12, StepsAhead, Follow
<1>14. Onward(s, close)
    BY <1>11, <1>13, CloseFollows
<1>15. Onward(s, start)
    BY <1>3, <1>5, StartConnectionFollows, Follow
<1> HIDE DEF start, close
<1> QED BY <1>1, <1>5, <1>14, <1>15

LEMMA ConnectFollows ==
    ASSUME NEW s \in SessionState, NEW operation \in Session!DeviceOperationKind,
           NEW openImmediately \in BOOLEAN, NEW p \in Session!PlatformOutcome
    PROVE  Onward(s, Session!Connect(s, operation, openImmediately, p))
<1>1. Session!Connect(s, operation, openImmediately, p) \in
        {s, Session!SupersedePowerTransitionRecovery(s, operation, openImmediately, p),
         Session!StartConnection(s, operation, openImmediately, p)}
    BY DEF Session!Connect
<1> QED BY <1>1, SupersedeFollows, StartConnectionFollows, Follow


LEMMA DisconnectFollows ==
    ASSUME NEW s \in SessionState, NEW restoreIncoming \in BOOLEAN,
           NEW p \in Session!PlatformOutcome
    PROVE  Onward(s, Session!Disconnect(s, restoreIncoming, p))
<1> DEFINE c == Session!CancelTimer(s)
           epoch == c.OperationEpoch + 1
           cancelled == [c EXCEPT !.IsReconnectCancelled = TRUE, !.RetryEligible = FALSE,
                                  !.OperationEpoch = epoch,
                                  !.RestoreIncomingAfterClose = restoreIncoming]
           i == [cancelled EXCEPT !.Lifecycle = "Idle"]
           d == [cancelled EXCEPT !.Lifecycle = "Disconnecting"]
           idle == Session!Publish(i, "Success", FALSE, "Normal")
           u == [idle EXCEPT !.RestoreIncomingAfterClose = FALSE]
           closing == Session!RevokeStateChanged(d)
           listen == Session!StartListener(u, p)
           close == Session!BeginClose(Session!Publish(closing, "Success", FALSE, "Normal"),
                                       "Idle", "Success", FALSE, FALSE, "None", p)
<1>1. Session!Disconnect(s, restoreIncoming, p) \in {s, idle, listen, close}
    BY DEF Session!Disconnect
<1>2. "Success" \in Session!DeviceConnectionResult /\ "Normal" \in Session!DeviceDisconnectReason
    BY Parameters
<1>3. Ahead(s, c) /\ c \in SessionState
    BY CancelTimerFollows DEF Onward, Ahead
<1> HIDE DEF c
<1>4. epoch \in Nat
    BY <1>3 DEF SessionState, Session!SessionState
<1>5. cancelled \in SessionState
    <2> HIDE DEF epoch
    <2> DEFINE base == [c EXCEPT !.IsReconnectCancelled = TRUE, !.RetryEligible = FALSE]
    <2>1. base \in SessionState
        BY <1>3 DEF SessionState, Session!SessionState
    <2> HIDE DEF base
    <2>2. [base EXCEPT !.OperationEpoch = epoch,
                       !.RestoreIncomingAfterClose = restoreIncoming] \in SessionState
        BY <1>4, <2>1 DEF SessionState, Session!SessionState
    <2> QED BY <2>2, Zenon DEF base
<1>6. Steps(c, cancelled)
    BY <1>3 DEF Steps, SessionState, Session!SessionState
<1> HIDE DEF epoch, cancelled
<1>7. Ahead(s, cancelled)
    BY <1>3, <1>5, <1>6, StepsAhead, Follow
<1>8. i \in SessionState /\ d \in SessionState
    BY <1>5 DEF SessionState, Session!SessionState, Session!DeviceLifecycleState
<1>9. Steps(cancelled, i) /\ Steps(cancelled, d) /\ d.Lifecycle = "Disconnecting"
    BY <1>5 DEF Steps, SessionState, Session!SessionState
<1> HIDE DEF i, d
<1>10. Ahead(s, i) /\ Ahead(s, d)
    BY <1>5, <1>7, <1>8, <1>9, StepsAhead, Follow
<1>11. Ahead(s, closing) /\ closing.Lifecycle = "Disconnecting"
    BY <1>8, <1>9, <1>10, RevokeFollows, Follow DEF Onward, Unmoved
<1> HIDE DEF closing
<1>12. Onward(s, close)
    BY <1>11, CloseFollows
<1>13. Onward(s, idle) /\ idle \in SessionState
    <2>1. Ahead(i, idle) /\ Reported(idle)
        BY <1>2, <1>8, PublishReports
    <2> HIDE DEF idle
    <2> QED BY <1>10, <2>1, Follow DEF Ahead
<1> HIDE DEF idle
<1>14. Onward(s, listen)
    <2>1. u \in SessionState
        BY <1>13 DEF SessionState, Session!SessionState
    <2>2. Same(idle, u)
        BY <1>13 DEF Same, SessionState, Session!SessionState
    <2> HIDE DEF u
    <2> QED BY <1>13, <2>1, <2>2, SameFollows, StartListenerFollows, Follow
<1>15. Onward(s, s)
    BY Follow
<1> HIDE DEF listen, close
<1> QED BY <1>1, <1>12, <1>13, <1>14, <1>15

LEMMA CancelAutomaticReconnectFollows ==
    ASSUME NEW s \in SessionState, NEW restoreIncoming \in BOOLEAN,
           NEW p \in Session!PlatformOutcome
    PROVE  Onward(s, Session!CancelAutomaticReconnect(s, restoreIncoming, p))
<1> DEFINE c == Session!CancelTimer(s)
           cancelled == [c EXCEPT !.RetryEligible = FALSE]
           epoch == cancelled.OperationEpoch + 1
           superseded == [cancelled EXCEPT !.OperationEpoch = epoch]
           restores == restoreIncoming /\ s.IsIncomingEnabled
           d == [superseded EXCEPT !.Lifecycle = "Disconnecting",
                                   !.RestoreIncomingAfterClose = restores]
           i == [superseded EXCEPT !.Lifecycle = "Idle"]
           closing == Session!RevokeStateChanged(d)
           told == Session!Publish(cancelled, "Cancelled", FALSE, "None")
           idle == Session!Publish(i, "Cancelled", FALSE, "None")
           listen == Session!StartListener(idle, p)
           close == Session!BeginClose(closing, "Idle", "Cancelled", FALSE, FALSE, "None", p)
<1>1. Session!CancelAutomaticReconnect(s, restoreIncoming, p) \in {told, idle, listen, close}
    BY DEF Session!CancelAutomaticReconnect
<1>2. /\ "Cancelled" \in Session!DeviceConnectionResult
      /\ "None" \in Session!DeviceDisconnectReason
      /\ restores \in BOOLEAN
    BY Parameters
<1> HIDE DEF restores
<1>3. Ahead(s, c) /\ c \in SessionState
    BY CancelTimerFollows DEF Onward, Ahead
<1> HIDE DEF c
<1>4. cancelled \in SessionState
    BY <1>3 DEF SessionState, Session!SessionState
<1>5. Steps(c, cancelled)
    BY <1>3 DEF Steps, SessionState, Session!SessionState
<1> HIDE DEF cancelled
<1>6. Ahead(s, cancelled)
    BY <1>3, <1>4, <1>5, StepsAhead, Follow
<1>7. epoch \in Nat
    BY <1>4 DEF SessionState, Session!SessionState
<1>8. superseded \in SessionState
    <2> HIDE DEF epoch
    <2> QED BY <1>4, <1>7 DEF SessionState, Session!SessionState
<1>9. Steps(cancelled, superseded)
    BY <1>4 DEF Steps, SessionState, Session!SessionState
<1> HIDE DEF epoch, superseded
<1>10. Ahead(s, superseded)
    BY <1>4, <1>6, <1>8, <1>9, StepsAhead, Follow
<1>11. i \in SessionState /\ d \in SessionState
    <2>1. i \in SessionState
        BY <1>8, FlagType
    <2>2. d \in SessionState
        BY <1>2, <1>8 DEF SessionState, Session!SessionState, Session!DeviceLifecycleState
    <2> QED BY <2>1, <2>2
<1>12. Steps(superseded, i) /\ Steps(superseded, d) /\ d.Lifecycle = "Disconnecting"
    BY <1>8 DEF Steps, SessionState, Session!SessionState
<1> HIDE DEF i, d
<1>13. Ahead(s, i) /\ Ahead(s, d)
    BY <1>8, <1>10, <1>11, <1>12, StepsAhead, Follow
<1>14. Ahead(s, closing) /\ closing.Lifecycle = "Disconnecting"
    BY <1>11, <1>12, <1>13, RevokeFollows, Follow DEF Onward, Unmoved
<1> HIDE DEF closing
<1>15. Onward(s, close)
    BY <1>14, CloseFollows
<1>16. Onward(s, told)
    <2>1. Ahead(cancelled, told) /\ Reported(told)
        BY <1>2, <1>4, PublishReports
    <2> HIDE DEF told
    <2> QED BY <1>6, <2>1, Follow
<1>17. Onward(s, idle) /\ idle \in SessionState
    <2>1. Ahead(i, idle) /\ Reported(idle)
        BY <1>2, <1>11, PublishReports
    <2> HIDE DEF idle
    <2> QED BY <1>13, <2>1, Follow DEF Ahead
<1> HIDE DEF idle
<1>18. Onward(s, listen)
    BY <1>17, StartListenerFollows, Follow
<1> HIDE DEF told, listen, close
<1> QED BY <1>1, <1>15, <1>16, <1>17, <1>18

LEMMA CancelReconnectFollows ==
    ASSUME NEW s \in SessionState, NEW p \in Session!PlatformOutcome
    PROVE  Onward(s, Session!CancelReconnect(s, p))
<1> DEFINE u == [s EXCEPT !.IsReconnectCancelled = TRUE]
<1>1. u \in SessionState /\ s.IsIncomingEnabled \in BOOLEAN
    BY DEF SessionState, Session!SessionState
<1>2. Same(s, u)
    BY DEF Same, SessionState, Session!SessionState
<1>3. Session!CancelReconnect(s, p)
        \in {s, Session!CancelAutomaticReconnect(u, s.IsIncomingEnabled, p)}
    BY DEF Session!CancelReconnect
<1> HIDE DEF u
<1>4. Onward(s, Session!CancelAutomaticReconnect(u, s.IsIncomingEnabled, p)) /\ Onward(s, s)
    BY <1>1, <1>2, SameFollows, CancelAutomaticReconnectFollows, Follow
<1> QED BY <1>3, <1>4


(* The same without the settings, for the operations that change them.     *)
Moves(s, t) ==
    /\ t \in SessionState
    /\ s.OperationEpoch <= t.OperationEpoch
    /\ Reported(t) \/ Unmoved(s, t)

(* What the settings make of a session that is alive.                      *)
Obeys(s, reconnect, allowed) ==
    s.IsReconnectEnabled = reconnect /\ s.IsIncomingEnabled = allowed /\ ~s.IsShutdown

LEMMA MovesFollow ==
    ASSUME NEW s \in SessionState, NEW t, NEW u, NEW reconnect, NEW allowed
    PROVE  /\ Moves(s, s)
           /\ Onward(s, t) => Moves(s, t) /\ t \in SessionState
           /\ Moves(s, t) /\ Moves(t, u) => Moves(s, u)
           /\ Onward(s, t) /\ Obeys(s, reconnect, allowed) => Obeys(t, reconnect, allowed)
<1>1. s.OperationEpoch \in Nat
    BY DEF SessionState, Session!SessionState
<1>2. Moves(s, s)
    BY <1>1 DEF Moves, Unmoved
<1>3. Onward(s, t) => Moves(s, t) /\ t \in SessionState
    BY DEF Onward, Ahead, Moves
<1>4. Moves(s, t) /\ Moves(t, u) => Moves(s, u)
    <2>1. Moves(s, t) /\ Moves(t, u) => t.OperationEpoch \in Nat /\ u.OperationEpoch \in Nat
        BY DEF Moves, SessionState, Session!SessionState
    <2>2. Reported(t) /\ Unmoved(t, u) => Reported(u)
        BY DEF Reported, Unmoved, LastFact
    <2>3. Unmoved(s, t) /\ Unmoved(t, u) => Unmoved(s, u)
        BY DEF Unmoved
    <2> QED BY <1>1, <2>1, <2>2, <2>3 DEF Moves
<1>5. Onward(s, t) /\ Obeys(s, reconnect, allowed) => Obeys(t, reconnect, allowed)
    BY DEF Onward, Ahead, Obeys
<1> QED BY <1>2, <1>3, <1>4, <1>5

(* t differs from s in its settings only.                                  *)
LEMMA SettingFollows ==
    ASSUME NEW s \in SessionState, NEW t \in SessionState, NEW u,
           t.facts = s.facts, t.Lifecycle = s.Lifecycle, t.OperationEpoch = s.OperationEpoch,
           Onward(t, u)
    PROVE  /\ Moves(s, u) /\ u.IsReconnectEnabled = t.IsReconnectEnabled
           /\ u.IsIncomingEnabled = t.IsIncomingEnabled /\ u.IsShutdown = t.IsShutdown
BY DEF Moves, Onward, Ahead, Unmoved

LEMMA SetReconnectEnabledFollows ==
    ASSUME NEW s \in SessionState, NEW enabled \in BOOLEAN, NEW p \in Session!PlatformOutcome,
           NEW reconnect, NEW allowed, Obeys(s, reconnect, allowed)
    PROVE  LET t == Session!SetReconnectEnabled(s, enabled, p)
           IN  Moves(s, t) /\ Obeys(t, enabled, allowed)
<1> DEFINE set == [s EXCEPT !.IsReconnectEnabled = enabled]
           told == Session!Publish(set, "Success", FALSE, "None")
           cancel == Session!CancelAutomaticReconnect(set, s.IsIncomingEnabled, p)
<1>1. Session!SetReconnectEnabled(s, enabled, p) \in {told, cancel}
    BY DEF Session!SetReconnectEnabled, Obeys
<1>2. /\ s.IsIncomingEnabled \in BOOLEAN
      /\ "Success" \in Session!DeviceConnectionResult /\ "None" \in Session!DeviceDisconnectReason
    BY Parameters DEF SessionState, Session!SessionState
<1>3. set \in SessionState
    BY DEF SessionState, Session!SessionState
<1>4. /\ set.facts = s.facts /\ set.Lifecycle = s.Lifecycle
      /\ set.OperationEpoch = s.OperationEpoch /\ set.IsReconnectEnabled = enabled
      /\ set.IsIncomingEnabled = allowed /\ ~set.IsShutdown
    BY DEF Obeys, SessionState, Session!SessionState
<1> HIDE DEF set
<1>5. Onward(set, told) /\ Onward(set, cancel)
    BY <1>2, <1>3, PublishReports, CancelAutomaticReconnectFollows DEF Onward
<1> HIDE DEF told, cancel
<1> QED BY <1>1, <1>3, <1>4, <1>5, SettingFollows DEF Obeys

LEMMA SetIncomingEnabledFollows ==
    ASSUME NEW s \in SessionState, NEW enabled \in BOOLEAN, NEW p \in Session!PlatformOutcome,
           NEW reconnect, NEW allowed, Obeys(s, reconnect, allowed)
    PROVE  LET t == Session!SetIncomingEnabled(s, enabled, p)
           IN  Moves(s, t) /\ Obeys(t, reconnect, enabled)
<1> DEFINE set == [s EXCEPT !.IsIncomingEnabled = enabled]
           told == Session!Publish(set, "Success", FALSE, "None")
           down == Session!Disconnect(set, FALSE, p)
           listen == Session!StartListener(set, p)
<1>1. Session!SetIncomingEnabled(s, enabled, p) \in {told, down, listen}
    BY DEF Session!SetIncomingEnabled, Obeys
<1>2. "Success" \in Session!DeviceConnectionResult /\ "None" \in Session!DeviceDisconnectReason
    BY Parameters
<1>3. set \in SessionState
    BY DEF SessionState, Session!SessionState
<1>4. /\ set.facts = s.facts /\ set.Lifecycle = s.Lifecycle
      /\ set.OperationEpoch = s.OperationEpoch /\ set.IsReconnectEnabled = reconnect
      /\ set.IsIncomingEnabled = enabled /\ ~set.IsShutdown
    BY DEF Obeys, SessionState, Session!SessionState
<1> HIDE DEF set
<1>5. Onward(set, told) /\ Onward(set, down) /\ Onward(set, listen)
    BY <1>2, <1>3, PublishReports, DisconnectFollows, StartListenerFollows DEF Onward
<1> HIDE DEF told, down, listen
<1> QED BY <1>1, <1>3, <1>4, <1>5, SettingFollows DEF Obeys

LEMMA InitialSessionType ==
    /\ Session!InitialSession \in SessionState
    /\ Obeys(Session!InitialSession, TRUE, FALSE)
<1>1. "Idle" \in Session!DeviceLifecycleState /\ "ManualConnect" \in Session!DeviceOperationKind
    BY DEF Session!DeviceLifecycleState, Session!DeviceOperationKind
<1>2. <<>> \in Seq(Session!DeviceSessionFact) /\ {} \in SUBSET Session!Callback
    OBVIOUS
<1>3. Session!InitialSession \in SessionState
    BY <1>1, <1>2, NoPendingCloseType DEF SessionState, Session!SessionState, Session!InitialSession
<1>4. Obeys(Session!InitialSession, TRUE, FALSE)
    BY DEF Obeys, Session!InitialSession
<1> QED BY <1>3, <1>4


LEMMA SuspendFollows ==
    ASSUME NEW s \in SessionState, NEW p \in Session!PlatformOutcome
    PROVE  Onward(s, Session!Suspend(s, p))
<1> DEFINE c == Session!CancelTimer(s)
           required == s.Connection # NoConnection \/ Session!IsBusy(s)
           epoch == c.OperationEpoch + 1
           base == [c EXCEPT !.ResumeRequired = required,
                             !.ResumeOpenImmediately = s.OpenImmediately]
           suspended == [c EXCEPT !.ResumeRequired = required,
                                  !.ResumeOpenImmediately = s.OpenImmediately,
                                  !.IsSuspended = TRUE, !.OperationEpoch = epoch]
           d == [suspended EXCEPT !.IsSuspendClosePending = TRUE,
                                  !.SuspendCloseEpoch = suspended.OperationEpoch,
                                  !.Lifecycle = "Disconnecting"]
           i == [suspended EXCEPT !.Lifecycle = "Idle"]
           closing == Session!RevokeStateChanged(d)
           idle == Session!Publish(i, "Cancelled", FALSE, "None")
           close == Session!BeginClose(closing, "Suspend", "Cancelled", FALSE, FALSE, "None", p)
<1>1. Session!Suspend(s, p) \in {s, close, idle}
    BY DEF Session!Suspend
<1>2. /\ "Cancelled" \in Session!DeviceConnectionResult
      /\ "None" \in Session!DeviceDisconnectReason
      /\ required \in BOOLEAN /\ s.OpenImmediately \in BOOLEAN
    BY Parameters DEF SessionState, Session!SessionState
<1> HIDE DEF required
<1>3. Ahead(s, c) /\ c \in SessionState
    BY CancelTimerFollows DEF Onward, Ahead
<1> HIDE DEF c
<1>4. epoch \in Nat
    BY <1>3 DEF SessionState, Session!SessionState
<1>5. suspended \in SessionState
    <2> HIDE DEF epoch
    <2>1. base \in SessionState
        BY <1>2, <1>3 DEF SessionState, Session!SessionState
    <2> HIDE DEF base
    <2>2. [base EXCEPT !.IsSuspended = TRUE, !.OperationEpoch = epoch] \in SessionState
        BY <1>4, <2>1 DEF SessionState, Session!SessionState
    <2> QED BY <2>2, Zenon DEF base
<1>6. Steps(c, suspended)
    BY <1>3 DEF Steps, SessionState, Session!SessionState
<1> HIDE DEF epoch, suspended
<1>7. Ahead(s, suspended)
    BY <1>3, <1>5, <1>6, StepsAhead, Follow
<1>8. i \in SessionState
    BY <1>5, FlagType
<1>9. d \in SessionState
    <2> DEFINE at == suspended.OperationEpoch
    <2>1. at \in Nat
        BY <1>5 DEF SessionState, Session!SessionState
    <2> HIDE DEF at
    <2>2. [suspended EXCEPT !.IsSuspendClosePending = TRUE, !.SuspendCloseEpoch = at,
                            !.Lifecycle = "Disconnecting"] \in SessionState
        BY <1>5, <2>1 DEF SessionState, Session!SessionState, Session!DeviceLifecycleState
    <2> QED BY <2>2, Zenon DEF at
<1>10. Steps(suspended, i) /\ Steps(suspended, d) /\ d.Lifecycle = "Disconnecting"
    BY <1>5 DEF Steps, SessionState, Session!SessionState
<1> HIDE DEF i, d
<1>11. Ahead(s, i) /\ Ahead(s, d)
    BY <1>5, <1>7, <1>8, <1>9, <1>10, StepsAhead, Follow
<1>12. Ahead(s, closing) /\ closing.Lifecycle = "Disconnecting"
    BY <1>9, <1>10, <1>11, RevokeFollows, Follow DEF Onward, Unmoved
<1> HIDE DEF closing
<1>13. Onward(s, close)
    BY <1>12, CloseFollows
<1>14. Onward(s, idle)
    <2>1. Ahead(i, idle) /\ Reported(idle)
        BY <1>2, <1>8, PublishReports
    <2> HIDE DEF idle
    <2> QED BY <1>11, <2>1, Follow
<1>15. Onward(s, s)
    BY Follow
<1> HIDE DEF idle, close
<1> QED BY <1>1, <1>13, <1>14, <1>15

LEMMA ResumeFollows ==
    ASSUME NEW s \in SessionState, NEW p \in Session!PlatformOutcome
    PROVE  Onward(s, Session!Resume(s, p))
<1> DEFINE held == [s EXCEPT !.ResumeRequested = TRUE]
           freed == [s EXCEPT !.IsSuspended = FALSE]
<1>1. Session!Resume(s, p) \in {s, held, Session!StartAfterResume(freed, p)}
    BY DEF Session!Resume
<1>2. held \in SessionState /\ freed \in SessionState
    BY FlagType
<1>3. Same(s, held) /\ Same(s, freed)
    BY DEF Same, SessionState, Session!SessionState
<1> HIDE DEF held, freed
<1>4. Onward(s, held) /\ Onward(s, freed) /\ Onward(s, s)
    BY <1>2, <1>3, SameFollows, Follow
<1>5. Onward(s, Session!StartAfterResume(freed, p))
    BY <1>2, <1>4, StartAfterResumeFollows, Follow
<1> QED BY <1>1, <1>4, <1>5

LEMMA ResumeIdleFollows ==
    ASSUME NEW s \in SessionState
    PROVE  Onward(s, Session!ResumeIdleAfterPowerTransition(s))
<1> DEFINE freed == [s EXCEPT !.IsSuspended = FALSE]
           t == Session!Publish(freed, "Success", FALSE, "None")
<1>1. Session!ResumeIdleAfterPowerTransition(s) \in {s, t}
    BY DEF Session!ResumeIdleAfterPowerTransition
<1>2. "Success" \in Session!DeviceConnectionResult /\ "None" \in Session!DeviceDisconnectReason
    BY Parameters
<1>3. freed \in SessionState
    BY FlagType
<1>4. Same(s, freed)
    BY DEF Same, SessionState, Session!SessionState
<1> HIDE DEF freed
<1>5. Ahead(s, freed)
    BY <1>3, <1>4, SameFollows
<1>6. Ahead(freed, t) /\ Reported(t)
    BY <1>2, <1>3, PublishReports
<1> HIDE DEF t
<1>7. Onward(s, t) /\ Onward(s, s)
    BY <1>5, <1>6, Follow
<1> QED BY <1>1, <1>7

(* A session that is only released stays where it is.                      *)
LEMMA CancelPowerTransitionRecoveryFollows ==
    ASSUME NEW s \in SessionState
    PROVE  LET t == Session!CancelPowerTransitionRecovery(s) IN
           /\ Onward(s, t) /\ t.OperationEpoch = s.OperationEpoch
           /\ t.Connection = s.Connection /\ t.Lifecycle = s.Lifecycle
<1> DEFINE freed == [s EXCEPT !.IsSuspended = FALSE, !.ResumeRequired = FALSE,
                              !.ResumeRequested = FALSE, !.IsSuspendClosePending = FALSE]
           t == Session!Publish(freed, "Success", FALSE, "None")
<1>1. Session!CancelPowerTransitionRecovery(s) \in {s, t}
    BY DEF Session!CancelPowerTransitionRecovery
<1>2. "Success" \in Session!DeviceConnectionResult /\ "None" \in Session!DeviceDisconnectReason
    BY Parameters
<1>3. freed \in SessionState
    BY FlagType
<1>4. Same(s, freed) /\ freed.Connection = s.Connection
    BY DEF Same, SessionState, Session!SessionState
<1> HIDE DEF freed
<1>5. Ahead(s, freed)
    BY <1>3, <1>4, SameFollows
<1>6. /\ Ahead(freed, t) /\ Reported(t)
      /\ t.Lifecycle = freed.Lifecycle /\ t.OperationEpoch = freed.OperationEpoch
      /\ t.Connection = freed.Connection
    BY <1>2, <1>3, PublishReports
<1> HIDE DEF t
<1>7. Onward(s, t) /\ Onward(s, s)
    BY <1>5, <1>6, Follow
<1> QED BY <1>1, <1>4, <1>6, <1>7 DEF Same
-----------------------------------------------------------------------------
(* What an answer of the platform is.                                      *)
Answer(a) == a.start \in {"Success", "Failed"} /\ OpenResult(a.open)

LEMMA OnCallbackFollows ==
    ASSUME NEW s \in SessionState, NEW c \in Session!Callback, NEW a, Answer(a),
           NEW p \in Session!PlatformOutcome
    PROVE  Onward(s, OnCallback(s, c, a, p))
<1>1. CASE c.kind = "Started"
    <2>1. c.epoch \in Nat /\ c.address \in Address
        BY <1>1 DEF Session!Callback
    <2>2. OnCallback(s, c, a, p) = Session!OnStarted(s, c.epoch, c.address, a.start, p)
        BY <1>1 DEF OnCallback
    <2> QED BY <2>1, <2>2, OnStartedFollows DEF Answer
<1>2. CASE c.kind = "Opened"
    <2>1. OnCallback(s, c, a, p) = Session!OnOpened(s, c.epoch, c.address, a.open, p)
        BY <1>2 DEF OnCallback
    <2> QED BY <2>1, OnOpenedFollows DEF Answer
<1>3. CASE c.kind = "StateChanged"
    <2>1. c.state \in Session!DeviceConnectionState
        BY <1>3 DEF Session!Callback
    <2>2. OnCallback(s, c, a, p) = Session!OnStateChanged(s, c.epoch, c.address, c.state, p)
        BY <1>3 DEF OnCallback
    <2> QED BY <2>1, <2>2, OnStateChangedFollows
<1>4. CASE c.kind = "RetryTimer"
    <2>1. OnCallback(s, c, a, p) = Session!OnRetryTimer(s, c.timerEpoch, c.epoch, p)
        BY <1>4 DEF OnCallback
    <2> QED BY <2>1, OnTimerFollows
<1>5. CASE c.kind = "TransientOpenRetryTimer"
    <2>1. OnCallback(s, c, a, p) = Session!OnTransientOpenRetryTimer(s, c.timerEpoch, c.epoch, p)
        BY <1>5 DEF OnCallback
    <2> QED BY <2>1, OnTimerFollows
<1>6. CASE c.kind \in {"CloseTimeout", "Closed"}
    <2>1. c.closeBarrierEpoch \in Nat
        BY <1>6 DEF Session!Callback
    <2>2. OnCallback(s, c, a, p)
            \in {Session!CompleteCloseBarrier(s, c.closeBarrierEpoch, TRUE, p),
                 Session!CompleteCloseBarrier(s, c.closeBarrierEpoch, FALSE, p)}
        BY <1>6 DEF OnCallback
    <2> QED BY <2>1, <2>2, CompleteCloseBarrierFollows
<1>7. CASE c.kind = "Cooldown"
    <2>1. OnCallback(s, c, a, p) = Session!CompleteCloseCooldown(s, c.closeBarrierEpoch, p)
        BY <1>7 DEF OnCallback
    <2> QED BY <2>1, CompleteCloseCooldownFollows
<1> QED BY <1>1, <1>2, <1>3, <1>4, <1>5, <1>6, <1>7 DEF Session!Callback

-----------------------------------------------------------------------------
(* Completions.                                                            *)

LEMMA LeastExists ==
    ASSUME NEW S \in SUBSET Nat, S # {}
    PROVE  Min(S) \in S
<1> DEFINE R == {pair \in Nat \X Nat : pair[1] < pair[2]}
<1>1. IsWellFoundedOn(R, Nat)
    BY NatLessThanWellFounded DEF OpToRel
<1>2. \A x, y \in Nat : y < x => <<y, x>> \in R
    OBVIOUS
<1> HIDE DEF R
<1>3. PICK x \in S : \A y \in S : ~(<<y, x>> \in R)
    BY <1>1, WFMin
<1>4. \A y \in S : x =< y
    <2> SUFFICES ASSUME NEW y \in S PROVE x =< y
        OBVIOUS
    <2>1. x \in Nat /\ y \in Nat
        BY <1>3
    <2>2. ~(y < x)
        BY <1>2, <1>3, <2>1, Zenon
    <2> QED BY <2>1, <2>2
<1> QED BY <1>3, <1>4 DEF Min

Completions == DeviceOperationCompletion \cup {NoCompletion}

Pends(o) == o.caller # "None" /\ o.Status = "Pending"

LEMMA StatusFacts ==
    ASSUME NEW snapshot, NEW epoch
    PROVE  /\ StatusOf(snapshot, epoch) \in DeviceOperationStatus
           /\ StatusOf(snapshot, epoch) = "Pending" =>
                /\ snapshot.OperationEpoch = epoch
                /\ snapshot.State \notin {"Idle", "Connected", "Failed"}
BY DEF StatusOf, DeviceOperationStatus

(* What is still pending after these snapshots was pending before, and is  *)
(* pending by each of them.                                                *)
LEMMA ResolveAlongSound ==
    ASSUME NEW o \in Completions, NEW S, NEW snapshots, Pends(o) => snapshots \in Seq(S)
    PROVE  LET r == ResolveAlong(o, snapshots) IN
           /\ r \in Completions /\ r.caller = o.caller
           /\ Pends(r) =>
                /\ r = o
                /\ \A i \in DOMAIN snapshots : StatusOf(snapshots[i], o.Epoch) = "Pending"
<1> DEFINE r == ResolveAlong(o, snapshots)
           status(i) == StatusOf(snapshots[i], o.Epoch)
           settling == {i \in DOMAIN snapshots : status(i) # "Pending"}
           settled == [o EXCEPT !.Status = status(Min(settling))]
<1>1. r = IF o.caller = "None" \/ settling = {} THEN o
          ELSE IF o.Status # "Pending" THEN o ELSE settled
    BY Zenon DEF ResolveAlong, r, status, settling, settled
<1>2. CASE o.caller = "None"
    BY <1>1, <1>2 DEF Pends
<1>3. CASE o.caller # "None" /\ o.Status # "Pending"
    BY <1>1, <1>3 DEF Pends
<1>4. CASE o.caller # "None" /\ o.Status = "Pending" /\ settling = {}
    BY <1>1, <1>4 DEF Pends
<1>5. CASE o.caller # "None" /\ o.Status = "Pending" /\ settling # {}
    <2>1. settling \in SUBSET Nat
        BY <1>5 DEF Pends
    <2>2. Min(settling) \in settling
        <3> HIDE DEF settling
        <3> QED BY <1>5, <2>1, LeastExists
    <2>3. status(Min(settling)) # "Pending"
        BY <2>2
    <2>4. status(Min(settling)) \in DeviceOperationStatus
        BY StatusFacts
    <2>5. o \in DeviceOperationCompletion
        BY <1>5 DEF Completions, NoCompletion
    <2>6. r = settled
        BY <1>1, <1>5
    <2> HIDE DEF settling, status
    <2>7. settled \in DeviceOperationCompletion /\ settled.caller = o.caller
          /\ settled.Status # "Pending"
        BY <2>3, <2>4, <2>5 DEF DeviceOperationCompletion
    <2> QED BY <2>6, <2>7 DEF Pends, Completions
<1> QED BY <1>2, <1>3, <1>4, <1>5


(* The last fact of a session is one of the snapshots looked at.           *)
LEMMA SnapshotsSound ==
    ASSUME NEW ss, NEW d \in DOMAIN ss, ss[d] \in SessionState, NEW publishes
    PROVE  /\ Snapshots(ss, d, publishes) \in Seq(Session!DeviceSessionSnapshot)
           /\ ss[d].facts # <<>> =>
                /\ Len(ss[d].facts) \in DOMAIN Snapshots(ss, d, publishes)
                /\ Snapshots(ss, d, publishes)[Len(ss[d].facts)] = LastFact(ss[d])
<1> DEFINE facts == ss[d].facts
           own == [i \in DOMAIN facts |-> facts[i].Snapshot]
           also == publishes \/ \E e \in DOMAIN ss \ {d} : ss[e].facts # <<>>
           more == IF also THEN <<Session!Snapshot(ss[d])>> ELSE <<>>
<1>1. Snapshots(ss, d, publishes) = own \o more
    BY Zenon DEF Snapshots, own, also, more, facts
<1>2. facts \in Seq(Session!DeviceSessionFact)
    BY DEF SessionState, Session!SessionState
<1>3. Session!Snapshot(ss[d]) \in Session!DeviceSessionSnapshot
    BY SnapshotType
<1>4. LastFact(ss[d]) = facts[Len(facts)].Snapshot
    BY DEF LastFact
<1> HIDE DEF facts, also
<1>5. more \in Seq(Session!DeviceSessionSnapshot)
    BY <1>3
<1>6. \A i \in DOMAIN facts : facts[i].Snapshot \in Session!DeviceSessionSnapshot
    <2> SUFFICES ASSUME NEW i \in DOMAIN facts
                 PROVE  facts[i].Snapshot \in Session!DeviceSessionSnapshot
        OBVIOUS
    <2>1. facts[i] \in Session!DeviceSessionFact
        BY <1>2
    <2> QED BY <2>1 DEF Session!DeviceSessionFact
<1>7. own \in Seq(Session!DeviceSessionSnapshot) /\ Len(own) = Len(facts)
    <2>1. DOMAIN facts = 1 .. Len(facts) /\ Len(facts) \in Nat
        BY <1>2
    <2> QED BY <1>6, <2>1
<1>8. facts # <<>> => Len(facts) \in DOMAIN facts /\ Len(facts) \in 1 .. Len(facts)
    BY <1>2
<1>9. facts # <<>> => own[Len(facts)] = facts[Len(facts)].Snapshot
    BY <1>8
<1> HIDE DEF own, more
<1>10. /\ own \o more \in Seq(Session!DeviceSessionSnapshot)
       /\ \A i \in 1 .. Len(own) : i \in DOMAIN (own \o more) /\ (own \o more)[i] = own[i]
    BY <1>5, <1>7
<1> QED BY <1>1, <1>4, <1>7, <1>8, <1>9, <1>10 DEF facts

-----------------------------------------------------------------------------
(* The inductive invariant.                                                *)

(* Nobody waits for an epoch that is still to come.                        *)
EpochsAreBehind ==
    \A c \in Command : IsPending(c) =>
        operations[c].Epoch <= sessions[operations[c].DeviceId].OperationEpoch

FollowsUnder(q, d) == q.GlobalReconnectOnConnectionLoss \/ d \in q.ReconnectDeviceIds

SessionsFollowThePolicy ==
    \A d \in DOMAIN sessions :
        Obeys(sessions[d], FollowsUnder(policy, d), policy.AllowIncomingConnections)

SessionsTyped ==
    /\ DOMAIN sessions \subseteq Device
    /\ \A d \in DOMAIN sessions : sessions[d] \in SessionState /\ sessions[d].facts = <<>>
    /\ operations \in [Command -> Completions]

SessionsSound ==
    /\ SessionsTyped
    /\ OperationsAreFollowed /\ OneOwnerPerEpoch /\ EpochsAreBehind
    /\ SessionsFollowThePolicy

(* No policy is newer than the settings, and one of their revision is      *)
(* theirs; the newest is in force or on its way.                           *)
IsUpToDate(q) == q.Revision <= settings.Revision /\ (q.Revision = settings.Revision => q = settings)
NewestIsOnItsWay ==
    /\ IsUpToDate(policy)
    /\ \A t \in tasks : t.kind = "Policy" => IsUpToDate(t.policy)
    /\ ~stopRequested /\ ~isShutdown /\ policy # settings =>
            \E t \in tasks : t.kind = "Policy" /\ t.policy = settings

(* Sessions go only with the shutdown, which releases them all.            *)
ReleasedIsGone ==
    /\ isShutdown => DOMAIN sessions = {}
    /\ ~isShutdown => DOMAIN recoveryEpochs \subseteq DOMAIN sessions

RestTyped ==
    /\ isRunning \in BOOLEAN /\ isSuspended \in BOOLEAN /\ isShutdown \in BOOLEAN
    /\ policy \in DeviceSettingsPolicy /\ settings \in DeviceSettingsPolicy
    /\ DOMAIN recoveryEpochs \subseteq Device
    /\ \A d \in DOMAIN recoveryEpochs : recoveryEpochs[d] \in Nat
    /\ watcher \in Watcher
    /\ tasks \subseteq Task /\ stopRequested \in BOOLEAN
    /\ scope \in Scopes

Inv == SessionsSound /\ RestTyped /\ NewestIsOnItsWay /\ ReleasedIsGone
-----------------------------------------------------------------------------
(* What a task makes of the sessions and of those that wait for them.      *)

(* A task leaves the sessions as in ss, under the policy q.                *)
Advances(ss, q) ==
    /\ DOMAIN sessions \subseteq DOMAIN ss /\ DOMAIN ss \subseteq Device
    /\ \A d \in DOMAIN ss :
            ss[d] \in SessionState /\ Obeys(ss[d], FollowsUnder(q, d), q.AllowIncomingConnections)
    /\ \A d \in DOMAIN sessions : Moves(sessions[d], ss[d])

(* A later fact of these sessions decides the completion o.                *)
Followed(o, ss) ==
    /\ o.DeviceId \in DOMAIN ss /\ o.Epoch <= ss[o.DeviceId].OperationEpoch
    /\ \/ ss[o.DeviceId].Lifecycle = "Disconnecting"
       \/ /\ ss[o.DeviceId].OperationEpoch = o.Epoch
          /\ ss[o.DeviceId].Lifecycle \in {"Connecting", "WaitingForReconnect"}

LEMMA PendingFollowed ==
    ASSUME SessionsSound, NEW c \in Command, Pends(operations[c])
    PROVE  /\ operations[c] \in DeviceOperationCompletion
           /\ Followed(operations[c], sessions)
<1>1. IsPending(c)
    BY DEF IsPending, Pends
<1>2. operations[c] \in DeviceOperationCompletion
    BY DEF SessionsSound, SessionsTyped, Pends, Completions, NoCompletion
<1> QED BY <1>1, <1>2 DEF SessionsSound, OperationsAreFollowed, EpochsAreBehind, Followed

(* An operation that all the facts leave pending goes on.                  *)
LEMMA StillFollowed ==
    ASSUME NEW ss, NEW q, Advances(ss, q), NEW publishes,
           NEW o \in DeviceOperationCompletion, Followed(o, sessions),
           SessionsTyped,
           \A i \in DOMAIN Snapshots(ss, o.DeviceId, publishes) :
                StatusOf(Snapshots(ss, o.DeviceId, publishes)[i], o.Epoch) = "Pending"
    PROVE  Followed(o, ss)
<1> DEFINE d == o.DeviceId
           s == sessions[d]
           t == ss[d]
<1>1. d \in DOMAIN sessions /\ d \in DOMAIN ss /\ Moves(s, t) /\ t \in SessionState
    BY DEF Followed, Advances
<1>2. /\ s.OperationEpoch \in Nat /\ t.OperationEpoch \in Nat /\ o.Epoch \in Nat
      /\ s.OperationEpoch <= t.OperationEpoch /\ t.Lifecycle \in Session!DeviceLifecycleState
    BY <1>1 DEF Moves, SessionsTyped, SessionState, Session!SessionState,
                DeviceOperationCompletion
<1>3. o.Epoch <= t.OperationEpoch
    BY <1>2 DEF Followed
<1>4. CASE Unmoved(s, t)
    BY <1>1, <1>3, <1>4 DEF Unmoved, Followed
<1>5. CASE Reported(t)
    <2>1. CASE t.Lifecycle = "Disconnecting"
        BY <1>1, <1>3, <2>1 DEF Followed
    <2>2. CASE /\ t.facts # <<>>
               /\ LastFact(t).State = t.Lifecycle /\ LastFact(t).OperationEpoch = t.OperationEpoch
        <3>1. StatusOf(LastFact(t), o.Epoch) = "Pending"
            BY <1>1, <2>2, SnapshotsSound
        <3>2. t.OperationEpoch = o.Epoch /\ t.Lifecycle \notin {"Idle", "Connected", "Failed"}
            BY <2>2, <3>1, StatusFacts
        <3> QED BY <1>1, <1>2, <1>3, <3>2 DEF Followed, Session!DeviceLifecycleState
    <2> QED BY <1>5, <2>1, <2>2 DEF Reported
<1> QED BY <1>1, <1>4, <1>5 DEF Moves

LEMMA ResolvedSound ==
    ASSUME Inv, NEW ss, NEW q, Advances(ss, q), NEW publishes
    PROVE  LET r == Resolved(ss, publishes) IN
           /\ r \in [Command -> Completions]
           /\ \A c \in Command : r[c].caller = operations[c].caller
           /\ \A c \in Command : Pends(r[c]) => r[c] = operations[c] /\ Followed(r[c], ss)
<1> DEFINE r == Resolved(ss, publishes)
<1>1. SUFFICES ASSUME NEW c \in Command
               PROVE  /\ r[c] \in Completions /\ r[c].caller = operations[c].caller
                      /\ Pends(r[c]) => r[c] = operations[c] /\ Followed(r[c], ss)
    BY DEF Resolved
<1> DEFINE o == operations[c]
           snapshots == Snapshots(ss, o.DeviceId, publishes)
<1>2. o \in Completions /\ SessionsTyped /\ SessionsSound
    BY DEF Inv, SessionsSound, SessionsTyped
<1>3. r[c] = IF o.caller = "None" \/ isShutdown THEN o ELSE ResolveAlong(o, snapshots)
    BY DEF Resolved
<1>4. Pends(o) => o \in DeviceOperationCompletion /\ Followed(o, sessions)
    BY <1>2, PendingFollowed
<1>5. isShutdown => ~Pends(o)
    BY <1>4 DEF Followed, Inv, ReleasedIsGone
<1>6. Pends(o) => snapshots \in Seq(Session!DeviceSessionSnapshot)
    BY <1>4, SnapshotsSound DEF Followed, Advances
<1> HIDE DEF r
<1>7. CASE o.caller = "None" \/ isShutdown
    BY <1>2, <1>3, <1>5, <1>7 DEF Pends
<1>8. CASE ~(o.caller = "None" \/ isShutdown)
    <2>1. r[c] = ResolveAlong(o, snapshots)
        BY <1>3, <1>8
    <2>2. /\ r[c] \in Completions /\ r[c].caller = o.caller
          /\ Pends(r[c]) =>
                /\ r[c] = o
                /\ \A i \in DOMAIN snapshots : StatusOf(snapshots[i], o.Epoch) = "Pending"
        BY <1>2, <1>6, <2>1, ResolveAlongSound
    <2>3. ASSUME Pends(r[c]) PROVE Followed(o, ss)
        BY <1>2, <1>4, <2>2, <2>3, StillFollowed
    <2> QED BY <2>2, <2>3
<1> QED BY <1>7, <1>8


(* A session without its facts.                                            *)
LEMMA EmptiedType ==
    ASSUME NEW s \in SessionState
    PROVE  LET t == [s EXCEPT !.facts = <<>>] IN
           /\ t \in SessionState /\ t.facts = <<>>
           /\ t.Lifecycle = s.Lifecycle /\ t.OperationEpoch = s.OperationEpoch
           /\ t.Connection = s.Connection /\ t.IsReconnectEnabled = s.IsReconnectEnabled
           /\ t.IsIncomingEnabled = s.IsIncomingEnabled /\ t.IsShutdown = s.IsShutdown
<1> DEFINE none == <<>>
           t == [s EXCEPT !.facts = none]
<1>1. t \in SessionState
    <2>1. none \in Seq(Session!DeviceSessionFact)
        OBVIOUS
    <2> HIDE DEF none
    <2> QED BY <2>1 DEF SessionState, Session!SessionState
<1>2. t.facts = none
    BY DEF SessionState, Session!SessionState
<1>3. /\ t.Lifecycle = s.Lifecycle /\ t.OperationEpoch = s.OperationEpoch
      /\ t.Connection = s.Connection /\ t.IsReconnectEnabled = s.IsReconnectEnabled
      /\ t.IsIncomingEnabled = s.IsIncomingEnabled /\ t.IsShutdown = s.IsShutdown
    BY DEF SessionState, Session!SessionState
<1> QED BY <1>1, <1>2, <1>3

LEMMA StoredSound ==
    ASSUME NEW ss, NEW q, Advances(ss, q), Stored(ss)
    PROVE  /\ DOMAIN sessions' = DOMAIN ss
           /\ \A d \in DOMAIN ss :
                /\ sessions'[d] \in SessionState /\ sessions'[d].facts = <<>>
                /\ sessions'[d].Lifecycle = ss[d].Lifecycle
                /\ sessions'[d].OperationEpoch = ss[d].OperationEpoch
                /\ sessions'[d].Connection = ss[d].Connection
                /\ Obeys(sessions'[d], FollowsUnder(q, d), q.AllowIncomingConnections)
<1>1. DOMAIN sessions' = DOMAIN ss
    BY DEF Stored
<1>2. SUFFICES ASSUME NEW d \in DOMAIN ss
               PROVE  /\ sessions'[d] \in SessionState /\ sessions'[d].facts = <<>>
                      /\ sessions'[d].Lifecycle = ss[d].Lifecycle
                      /\ sessions'[d].OperationEpoch = ss[d].OperationEpoch
                      /\ sessions'[d].Connection = ss[d].Connection
                      /\ Obeys(sessions'[d], FollowsUnder(q, d), q.AllowIncomingConnections)
    BY <1>1
<1> DEFINE s == ss[d]
           t == [s EXCEPT !.facts = <<>>]
<1>3. sessions'[d] = t
    BY DEF Stored
<1>4. s \in SessionState
    BY DEF Advances
<1>5. Obeys(s, FollowsUnder(q, d), q.AllowIncomingConnections)
    BY DEF Advances
<1> HIDE DEF s
<1> QED BY <1>3, <1>4, <1>5, EmptiedType DEF Obeys, s

(* A task is sound if all that it leaves waiting is followed.              *)
LEMMA TaskSound ==
    ASSUME NEW ss, NEW q, Advances(ss, q), Stored(ss), policy' = q,
           operations' \in [Command -> Completions],
           \A c \in Command : Pends(operations'[c]) => Followed(operations'[c], ss),
           OneOwnerPerEpoch'
    PROVE  SessionsSound'
<1>1. /\ DOMAIN sessions' = DOMAIN ss
      /\ \A d \in DOMAIN ss :
            /\ sessions'[d] \in SessionState /\ sessions'[d].facts = <<>>
            /\ sessions'[d].Lifecycle = ss[d].Lifecycle
            /\ sessions'[d].OperationEpoch = ss[d].OperationEpoch
            /\ Obeys(sessions'[d], FollowsUnder(q, d), q.AllowIncomingConnections)
    BY StoredSound
<1>2. SessionsTyped'
    BY <1>1 DEF SessionsTyped, Advances
<1>3. \A c \in Command : IsPending(c)' = Pends(operations'[c])
    BY DEF IsPending, Pends
<1>4. OperationsAreFollowed' /\ EpochsAreBehind'
    BY <1>1, <1>3 DEF OperationsAreFollowed, EpochsAreBehind, Followed
<1>5. SessionsFollowThePolicy'
    BY <1>1 DEF SessionsFollowThePolicy
<1> QED BY <1>2, <1>4, <1>5 DEF SessionsSound

LEMMA SettleSound ==
    ASSUME Inv, NEW ss, NEW q, Advances(ss, q), policy' = q, NEW publishes,
           Settle(ss, publishes)
    PROVE  /\ SessionsSound' /\ DOMAIN sessions' = DOMAIN ss
           /\ \A c \in Command : operations'[c].caller = operations[c].caller
<1>1. Stored(ss) /\ operations' = Resolved(ss, publishes)
    BY DEF Settle
<1>2. /\ operations' \in [Command -> Completions]
      /\ \A c \in Command : operations'[c].caller = operations[c].caller
      /\ \A c \in Command :
            Pends(operations'[c]) => operations'[c] = operations[c] /\ Followed(operations'[c], ss)
    BY <1>1, ResolvedSound
<1>3. OneOwnerPerEpoch'
    BY <1>2 DEF OneOwnerPerEpoch, IsPending, Pends, Inv, SessionsSound
<1> QED BY <1>1, <1>2, <1>3, TaskSound, StoredSound

-----------------------------------------------------------------------------
(* The sessions after the operations of the service.                       *)

LEMMA ScopeTypes ==
    ASSUME scope \in Scopes
    PROVE  /\ scope.platforms \subseteq Session!PlatformOutcome
           /\ \A p \in EachPlatform, d \in Device : p[d] \in Session!PlatformOutcome
           /\ \A a \in scope.answers : Answer(a)
<1>1. scope.platforms \subseteq Session!PlatformOutcome
    BY DeviceServiceAssumption
<1>2. \A a \in scope.answers : Answer(a)
    BY DeviceServiceAssumption DEF Answer, OpenResult
<1> QED BY <1>1, <1>2 DEF EachPlatform

LEMMA RunFollows ==
    ASSUME NEW s \in SessionState, NEW t, NEW p \in Session!PlatformOutcome
    PROVE  /\ Onward(s, t) => Onward(s, Run(t, p))
           /\ Moves(s, t) => Moves(s, Run(t, p))
           /\ \A reconnect, allowed :
                t \in SessionState /\ Obeys(t, reconnect, allowed)
                    => Run(t, p) \in SessionState /\ Obeys(Run(t, p), reconnect, allowed)
<1>1. t \in SessionState => Onward(t, Run(t, p)) /\ Moves(t, Run(t, p))
    BY FinishFollows, MovesFollow DEF Run
<1>2. Onward(s, t) => Onward(s, Run(t, p))
    BY <1>1, Follow DEF Onward, Ahead
<1>3. Moves(s, t) => Moves(s, Run(t, p))
    BY <1>1, MovesFollow DEF Moves
<1>4. ASSUME t \in SessionState, NEW reconnect, NEW allowed, Obeys(t, reconnect, allowed)
      PROVE  Run(t, p) \in SessionState /\ Obeys(Run(t, p), reconnect, allowed)
    BY <1>1, <1>4, MovesFollow
<1> QED BY <1>2, <1>3, <1>4

LEMMA CreatedSound ==
    ASSUME NEW reconnect \in BOOLEAN, NEW allowIncoming \in BOOLEAN,
           NEW p \in Session!PlatformOutcome
    PROVE  LET s == Created(reconnect, allowIncoming, p)
           IN  s \in SessionState /\ Obeys(s, reconnect, allowIncoming)
<1> DEFINE a == Session!SetReconnectEnabled(Session!InitialSession, reconnect, p)
           s == Run(a, p)
           b == Session!SetIncomingEnabled(s, TRUE, p)
           t == Run(b, p)
<1>1. Created(reconnect, allowIncoming, p) = IF allowIncoming THEN t ELSE s
    BY Zenon DEF Created, a, s, b, t
<1>2. a \in SessionState /\ Obeys(a, reconnect, FALSE)
    BY InitialSessionType, SetReconnectEnabledFollows DEF Moves
<1> HIDE DEF a
<1>3. s \in SessionState /\ Obeys(s, reconnect, FALSE)
    BY <1>2, RunFollows
<1> HIDE DEF s
<1>4. b \in SessionState /\ Obeys(b, reconnect, TRUE)
    BY <1>3, SetIncomingEnabledFollows DEF Moves
<1> HIDE DEF b
<1>5. t \in SessionState /\ Obeys(t, reconnect, TRUE)
    BY <1>4, RunFollows
<1> HIDE DEF t
<1> QED BY <1>1, <1>3, <1>5

LEMMA GetOrCreateSound ==
    ASSUME Inv, NEW d \in Device, NEW p \in Session!PlatformOutcome
    PROVE  LET s == GetOrCreateSession(d, p) IN
           /\ s \in SessionState
           /\ Obeys(s, FollowsUnder(policy, d), policy.AllowIncomingConnections)
           /\ d \in DOMAIN sessions => s = sessions[d]
<1>1. CASE d \in DOMAIN sessions
    BY <1>1 DEF GetOrCreateSession, Inv, SessionsSound, SessionsTyped, SessionsFollowThePolicy
<1>2. CASE d \notin DOMAIN sessions
    <2>1. policy \in DeviceSettingsPolicy
        BY DEF Inv, RestTyped
    <2>2. FollowsReconnect(d) \in BOOLEAN /\ policy.AllowIncomingConnections \in BOOLEAN
          /\ FollowsReconnect(d) = FollowsUnder(policy, d)
        BY <2>1 DEF DeviceSettingsPolicy, FollowsReconnect, FollowsUnder
    <2>3. GetOrCreateSession(d, p)
            = Created(FollowsReconnect(d), policy.AllowIncomingConnections, p)
        BY <1>2 DEF GetOrCreateSession
    <2> QED BY <1>2, <2>2, <2>3, CreatedSound
<1> QED BY <1>1, <1>2

(* Each session goes onward, or is new and follows the settings.           *)
LEMMA AllAdvance ==
    ASSUME Inv, NEW ss, DOMAIN sessions \subseteq DOMAIN ss, DOMAIN ss \subseteq Device,
           \A d \in DOMAIN ss :
                \/ d \in DOMAIN sessions /\ Onward(sessions[d], ss[d])
                \/ /\ d \notin DOMAIN sessions /\ ss[d] \in SessionState
                   /\ Obeys(ss[d], FollowsUnder(policy, d), policy.AllowIncomingConnections)
    PROVE  Advances(ss, policy)
<1>1. \A d \in DOMAIN sessions :
        /\ sessions[d] \in SessionState
        /\ Obeys(sessions[d], FollowsUnder(policy, d), policy.AllowIncomingConnections)
    BY DEF Inv, SessionsSound, SessionsTyped, SessionsFollowThePolicy
<1>2. \A d \in DOMAIN sessions :
        /\ Moves(sessions[d], ss[d]) /\ ss[d] \in SessionState
        /\ Obeys(ss[d], FollowsUnder(policy, d), policy.AllowIncomingConnections)
    BY <1>1, MovesFollow
<1> QED BY <1>2 DEF Advances

LEMMA OneAdvances ==
    ASSUME Inv, NEW d \in Device, NEW s,
           s \in SessionState,
           Obeys(s, FollowsUnder(policy, d), policy.AllowIncomingConnections),
           d \in DOMAIN sessions => Moves(sessions[d], s)
    PROVE  Advances(UpdateSession(d, s), policy)
<1> DEFINE ss == UpdateSession(d, s)
<1>1. /\ DOMAIN ss = DOMAIN sessions \cup {d}
      /\ ss[d] = s /\ \A e \in DOMAIN sessions \ {d} : ss[e] = sessions[e]
    BY DEF UpdateSession
<1> HIDE DEF ss
<1>2. /\ DOMAIN sessions \subseteq Device
      /\ \A e \in DOMAIN sessions :
            /\ sessions[e] \in SessionState
            /\ Obeys(sessions[e], FollowsUnder(policy, e), policy.AllowIncomingConnections)
    BY DEF Inv, SessionsSound, SessionsTyped, SessionsFollowThePolicy
<1>3. \A e \in DOMAIN sessions : Moves(sessions[e], sessions[e])
    BY <1>2, MovesFollow
<1>4. Advances(ss, policy)
    BY <1>1, <1>2, <1>3 DEF Advances
<1> QED BY <1>4 DEF ss

LEMMA NoneAdvances ==
    ASSUME Inv
    PROVE  Advances(sessions, policy)
<1>1. /\ DOMAIN sessions \subseteq Device
      /\ \A d \in DOMAIN sessions : sessions[d] \in SessionState
    BY DEF Inv, SessionsSound, SessionsTyped
<1>2. \A d \in DOMAIN sessions : Onward(sessions[d], sessions[d])
    BY <1>1, Follow
<1> QED BY <1>1, <1>2, AllAdvance

(* An operation on a session that is there or is made.                     *)
LEMMA GivenAdvances ==
    ASSUME Inv, NEW d \in Device, NEW p \in Session!PlatformOutcome, NEW t,
           Onward(GetOrCreateSession(d, p), t)
    PROVE  Advances(UpdateSession(d, t), policy)
<1> DEFINE s == GetOrCreateSession(d, p)
<1>1. /\ s \in SessionState
      /\ Obeys(s, FollowsUnder(policy, d), policy.AllowIncomingConnections)
      /\ d \in DOMAIN sessions => s = sessions[d]
    BY GetOrCreateSound
<1> HIDE DEF s
<1>2. Onward(s, t)
    BY DEF s
<1>3. /\ Moves(s, t) /\ t \in SessionState
      /\ Obeys(t, FollowsUnder(policy, d), policy.AllowIncomingConnections)
    BY <1>1, <1>2, MovesFollow
<1> QED BY <1>1, <1>3, OneAdvances

-----------------------------------------------------------------------------
(* What an action that leaves the policies alone keeps of the rest.        *)

LEMMA NewestKept ==
    ASSUME Inv, policy' = policy, settings' = settings, stopRequested' = stopRequested,
           isShutdown' = isShutdown,
           \A t \in tasks' : t.kind = "Policy" => t \in tasks,
           \A t \in tasks : t.kind = "Policy" => t \in tasks'
    PROVE  NewestIsOnItsWay'
<1>1. NewestIsOnItsWay
    BY DEF Inv
<1>2. \A q : IsUpToDate(q)' = IsUpToDate(q)
    BY DEF IsUpToDate
<1> QED BY <1>1, <1>2 DEF NewestIsOnItsWay, IsUpToDate

LEMMA ReleasedKept ==
    ASSUME Inv, DOMAIN sessions \subseteq DOMAIN sessions', isShutdown' = isShutdown,
           DOMAIN recoveryEpochs' \subseteq DOMAIN recoveryEpochs \cup DOMAIN sessions,
           isShutdown => DOMAIN sessions' = DOMAIN sessions
    PROVE  ReleasedIsGone'
BY DEF Inv, ReleasedIsGone

(* A task that changes sessions only.                                      *)
LEMMA TaskKept ==
    ASSUME Inv, NEW ss, NEW publishes, Advances(ss, policy), Settle(ss, publishes),
           ~isShutdown \/ DOMAIN ss = DOMAIN sessions,
           UNCHANGED <<lifecycle, policy, recoveryEpochs, watcher, incoming>>
    PROVE  Inv'
<1>1. SessionsSound' /\ DOMAIN sessions' = DOMAIN ss
    BY SettleSound
<1>2. RestTyped'
    BY DEF Inv, RestTyped, lifecycle, incoming
<1>3. NewestIsOnItsWay'
    BY NewestKept DEF lifecycle, incoming
<1>4. ReleasedIsGone'
    BY <1>1, ReleasedKept DEF Advances, lifecycle
<1> QED BY <1>1, <1>2, <1>3, <1>4 DEF Inv

LEMMA DisconnectKept ==
    ASSUME Inv, NEW d \in Device, Disconnect(d)
    PROVE  Inv'
<1>1. PICK p \in scope.platforms :
        Settle(UpdateSession(d, Run(Session!Disconnect(GetOrCreateSession(d, p),
                                        policy.AllowIncomingConnections, p), p)), FALSE)
    BY DEF Disconnect
<1> DEFINE s == GetOrCreateSession(d, p)
           t == Run(Session!Disconnect(s, policy.AllowIncomingConnections, p), p)
           ss == UpdateSession(d, t)
<1>2. p \in Session!PlatformOutcome /\ policy.AllowIncomingConnections \in BOOLEAN
    BY ScopeTypes DEF Inv, RestTyped, DeviceSettingsPolicy
<1>3. s \in SessionState
    BY <1>2, GetOrCreateSound
<1>4. Onward(s, t)
    <2> HIDE DEF s
    <2> QED BY <1>2, <1>3, DisconnectFollows, RunFollows
<1>5. Advances(ss, policy)
    <2> HIDE DEF t
    <2> QED BY <1>2, <1>4, GivenAdvances
<1>6. ~isShutdown /\ UNCHANGED <<lifecycle, policy, recoveryEpochs, watcher, incoming>>
    BY DEF Disconnect, Accepts
<1>7. Settle(ss, FALSE)
    BY <1>1
<1> HIDE DEF ss
<1> QED BY <1>5, <1>6, <1>7, TaskKept

LEMMA CancelReconnectKept ==
    ASSUME Inv, NEW d \in Device, CancelReconnect(d)
    PROVE  Inv'
<1>1. PICK p \in scope.platforms :
        Settle(UpdateSession(d, Run(Session!CancelReconnect(sessions[d], p), p)), FALSE)
    BY DEF CancelReconnect
<1> DEFINE s == sessions[d]
           t == Run(Session!CancelReconnect(s, p), p)
           ss == UpdateSession(d, t)
<1>2. p \in Session!PlatformOutcome /\ d \in DOMAIN sessions /\ GetOrCreateSession(d, p) = s
    BY ScopeTypes DEF Inv, RestTyped, CancelReconnect, GetOrCreateSession
<1>3. s \in SessionState
    BY <1>2, GetOrCreateSound
<1>4. Onward(s, t)
    <2> HIDE DEF s
    <2> QED BY <1>2, <1>3, CancelReconnectFollows, RunFollows
<1>5. Advances(ss, policy)
    <2> HIDE DEF t, s
    <2> QED BY <1>2, <1>4, GivenAdvances
<1>6. ~isShutdown /\ UNCHANGED <<lifecycle, policy, recoveryEpochs, watcher, incoming>>
    BY DEF CancelReconnect, Accepts
<1>7. Settle(ss, FALSE)
    BY <1>1
<1> HIDE DEF ss
<1> QED BY <1>5, <1>6, <1>7, TaskKept

(* The bulk operations, one platform for each session.                     *)
LEMMA BulkKept ==
    ASSUME Inv, CancelPendingReconnects \/ DisconnectAll \/ ReconnectAll
    PROVE  Inv'
<1>1. /\ ~isShutdown /\ UNCHANGED <<lifecycle, policy, recoveryEpochs, watcher, incoming>>
      /\ scope \in Scopes /\ policy.AllowIncomingConnections \in BOOLEAN
    <2>1. ~isShutdown /\ UNCHANGED <<lifecycle, policy, recoveryEpochs, watcher, incoming>>
        BY Zenon DEF CancelPendingReconnects, DisconnectAll, ReconnectAll, Accepts
    <2>2. scope \in Scopes /\ policy.AllowIncomingConnections \in BOOLEAN
        BY DEF Inv, RestTyped, DeviceSettingsPolicy
    <2> QED BY <2>1, <2>2
<1>2. \A d \in DOMAIN sessions : d \in Device /\ sessions[d] \in SessionState
    BY DEF Inv, SessionsSound, SessionsTyped
<1>3. ASSUME NEW p \in EachPlatform, NEW ss, DOMAIN ss = DOMAIN sessions, Settle(ss, FALSE),
             \A d \in DOMAIN sessions :
                ss[d] \in {sessions[d], Run(Session!CancelReconnect(sessions[d], p[d]), p[d]),
                           Run(Session!Disconnect(sessions[d], policy.AllowIncomingConnections,
                                                  p[d]), p[d]),
                           Run(Session!Connect(sessions[d], "ManualReconnect", TRUE, p[d]), p[d])}
      PROVE  Inv'
    <2>1. \A d \in DOMAIN sessions : Onward(sessions[d], ss[d])
        <3> SUFFICES ASSUME NEW d \in DOMAIN sessions
                     PROVE  Onward(sessions[d], ss[d])
            OBVIOUS
        <3> DEFINE s == sessions[d]
                   q == p[d]
                   allow == policy.AllowIncomingConnections
        <3>1. /\ q \in Session!PlatformOutcome /\ s \in SessionState /\ allow \in BOOLEAN
              /\ "ManualReconnect" \in Session!DeviceOperationKind
            BY <1>1, <1>2, <1>3, ScopeTypes, Parameters
        <3>2. ss[d] \in {s, Run(Session!CancelReconnect(s, q), q),
                         Run(Session!Disconnect(s, allow, q), q),
                         Run(Session!Connect(s, "ManualReconnect", TRUE, q), q)}
            BY <1>3
        <3> HIDE DEF s, q, allow
        <3>3. Onward(s, Run(Session!CancelReconnect(s, q), q))
            BY <3>1, CancelReconnectFollows, RunFollows
        <3>4. Onward(s, Run(Session!Disconnect(s, allow, q), q))
            BY <3>1, DisconnectFollows, RunFollows
        <3>5. Onward(s, Run(Session!Connect(s, "ManualReconnect", TRUE, q), q))
            BY <3>1, ConnectFollows, RunFollows
        <3>6. Onward(s, ss[d])
            BY <3>1, <3>2, <3>3, <3>4, <3>5, Follow
        <3> QED BY <3>6 DEF s
    <2>2. Advances(ss, policy)
        BY <1>2, <1>3, <2>1, AllAdvance
    <2> QED BY <1>1, <1>3, <2>2, TaskKept
<1>4. CASE CancelPendingReconnects
    BY <1>3, <1>4 DEF CancelPendingReconnects, UpdateAll
<1>5. CASE DisconnectAll
    BY <1>3, <1>5 DEF DisconnectAll, UpdateAll
<1>6. CASE ReconnectAll
    BY <1>3, <1>6 DEF ReconnectAll, UpdateAll
<1> QED BY <1>4, <1>5, <1>6


LEMMA ConnectStartupTargetsKept ==
    ASSUME Inv, NEW ids \in SUBSET Device, ConnectStartupTargets(ids)
    PROVE  Inv'
<1>1. PICK p \in EachPlatform :
        Settle([d \in DOMAIN sessions \cup ids |->
                    IF d \notin ids THEN sessions[d]
                    ELSE Run(Session!Connect(GetOrCreateSession(d, p[d]), "Startup", TRUE, p[d]),
                             p[d])], FALSE)
    BY DEF ConnectStartupTargets
<1> DEFINE ss == [d \in DOMAIN sessions \cup ids |->
                    IF d \notin ids THEN sessions[d]
                    ELSE Run(Session!Connect(GetOrCreateSession(d, p[d]), "Startup", TRUE, p[d]),
                             p[d])]
<1>2. /\ DOMAIN sessions \subseteq Device /\ scope \in Scopes
      /\ \A d \in DOMAIN sessions : sessions[d] \in SessionState
    BY DEF Inv, RestTyped, SessionsSound, SessionsTyped
<1>3. ASSUME NEW d \in DOMAIN ss
      PROVE  \/ d \in DOMAIN sessions /\ Onward(sessions[d], ss[d])
             \/ /\ d \notin DOMAIN sessions /\ ss[d] \in SessionState
                /\ Obeys(ss[d], FollowsUnder(policy, d), policy.AllowIncomingConnections)
    <2>1. CASE d \notin ids
        BY <1>2, <1>3, <2>1, Follow
    <2>2. CASE d \in ids
        <3> DEFINE q == p[d]
                   s == GetOrCreateSession(d, q)
                   t == Run(Session!Connect(s, "Startup", TRUE, q), q)
        <3>1. q \in Session!PlatformOutcome /\ "Startup" \in Session!DeviceOperationKind
            BY <1>2, <2>2, ScopeTypes, Parameters
        <3>2. ss[d] = t
            BY <1>3, <2>2
        <3> HIDE DEF ss, q
        <3>3. /\ s \in SessionState
              /\ Obeys(s, FollowsUnder(policy, d), policy.AllowIncomingConnections)
              /\ d \in DOMAIN sessions => s = sessions[d]
            BY <2>2, <3>1, GetOrCreateSound
        <3> HIDE DEF s
        <3>4. Onward(s, t)
            BY <3>1, <3>3, ConnectFollows, RunFollows
        <3> HIDE DEF t
        <3>5. t \in SessionState
              /\ Obeys(t, FollowsUnder(policy, d), policy.AllowIncomingConnections)
            BY <3>3, <3>4, MovesFollow
        <3> QED BY <3>2, <3>3, <3>4, <3>5
    <2> QED BY <2>1, <2>2
<1>4. DOMAIN ss = DOMAIN sessions \cup ids /\ Settle(ss, FALSE)
    BY <1>1
<1> HIDE DEF ss
<1>5. Advances(ss, policy)
    BY <1>2, <1>3, <1>4, AllAdvance
<1>6. ~isShutdown /\ UNCHANGED <<lifecycle, policy, recoveryEpochs, watcher, incoming>>
    BY DEF ConnectStartupTargets, Accepts
<1> QED BY <1>4, <1>5, <1>6, TaskKept

LEMMA RunCallbackKept ==
    ASSUME Inv, NEW d \in DOMAIN sessions, NEW c \in sessions[d].callbacks,
           NEW a \in scope.answers, NEW p \in scope.platforms, RunCallback(d, c, a, p)
    PROVE  Inv'
<1> DEFINE s == sessions[d]
           left == s.callbacks \ {c}
           taken == [s EXCEPT !.callbacks = left]
           t == Run(OnCallback(taken, c, a, p), p)
           ss == UpdateSession(d, t)
<1>1. Settle(ss, FALSE) /\ UNCHANGED <<lifecycle, policy, recoveryEpochs, watcher, incoming>>
    BY DEF RunCallback
<1>2. /\ d \in Device /\ s \in SessionState /\ p \in Session!PlatformOutcome /\ Answer(a)
      /\ ~isShutdown /\ GetOrCreateSession(d, p) = s
    BY ScopeTypes DEF Inv, SessionsSound, SessionsTyped, RestTyped, ReleasedIsGone,
                      GetOrCreateSession
<1>3. c \in s.callbacks
    OBVIOUS
<1> HIDE DEF s
<1>4. left \in SUBSET Session!Callback /\ c \in Session!Callback
    BY <1>2, <1>3 DEF SessionState, Session!SessionState
<1>5. taken \in SessionState
    <2> HIDE DEF left
    <2> QED BY <1>2, <1>4 DEF SessionState, Session!SessionState
<1>6. Same(s, taken)
    BY <1>2 DEF Same, SessionState, Session!SessionState
<1> HIDE DEF taken
<1>7. Onward(s, taken)
    BY <1>2, <1>5, <1>6, SameFollows
<1>8. Onward(taken, OnCallback(taken, c, a, p))
    BY <1>2, <1>4, <1>5, OnCallbackFollows
<1>9. Onward(s, t)
    BY <1>2, <1>7, <1>8, Follow, RunFollows
<1> HIDE DEF t
<1>10. Advances(ss, policy)
    BY <1>2, <1>9, GivenAdvances
<1> HIDE DEF ss
<1> QED BY <1>1, <1>2, <1>10, TaskKept

(* Sessions that stay where they are, and the completions that remain.     *)
LEMMA QuietSound ==
    ASSUME SessionsSound, policy' = policy, DOMAIN sessions' = DOMAIN sessions,
           \A d \in DOMAIN sessions :
                /\ sessions'[d] \in SessionState /\ sessions'[d].facts = <<>>
                /\ sessions'[d].Lifecycle = sessions[d].Lifecycle
                /\ sessions'[d].OperationEpoch = sessions[d].OperationEpoch
                /\ sessions'[d].IsReconnectEnabled = sessions[d].IsReconnectEnabled
                /\ sessions'[d].IsIncomingEnabled = sessions[d].IsIncomingEnabled
                /\ sessions'[d].IsShutdown = sessions[d].IsShutdown,
           operations' \in [Command -> Completions],
           \A c \in Command : Pends(operations'[c]) =>
                /\ Pends(operations[c])
                /\ operations'[c].DeviceId = operations[c].DeviceId
                /\ operations'[c].Epoch = operations[c].Epoch
                /\ operations'[c].OwnsCancellation = operations[c].OwnsCancellation
    PROVE  SessionsSound'
<1>1. \A c \in Command : IsPending(c)' = Pends(operations'[c]) /\ IsPending(c) = Pends(operations[c])
    BY DEF IsPending, Pends
<1>2. SessionsTyped'
    BY DEF SessionsSound, SessionsTyped
<1>3. OperationsAreFollowed' /\ EpochsAreBehind'
    BY <1>1 DEF SessionsSound, OperationsAreFollowed, EpochsAreBehind
<1>4. OneOwnerPerEpoch'
    BY <1>1 DEF SessionsSound, OneOwnerPerEpoch
<1>5. SessionsFollowThePolicy'
    BY DEF SessionsSound, SessionsFollowThePolicy, Obeys
<1> QED BY <1>2, <1>3, <1>4, <1>5 DEF SessionsSound

LEMMA RestKept ==
    ASSUME Inv, UNCHANGED <<lifecycle, policy, recoveryEpochs, watcher, incoming>>,
           DOMAIN sessions \subseteq DOMAIN sessions',
           ~isShutdown \/ DOMAIN sessions' = DOMAIN sessions
    PROVE  RestTyped' /\ NewestIsOnItsWay' /\ ReleasedIsGone'
<1>1. RestTyped'
    BY DEF Inv, RestTyped, lifecycle, incoming
<1>2. NewestIsOnItsWay'
    BY NewestKept DEF lifecycle, incoming
<1>3. ReleasedIsGone'
    BY ReleasedKept DEF lifecycle
<1> QED BY <1>1, <1>2, <1>3

LEMMA RaiseStateChangedKept ==
    ASSUME Inv, NEW d \in DOMAIN sessions, NEW state \in Session!DeviceConnectionState,
           RaiseStateChanged(d, state)
    PROVE  Inv'
<1> DEFINE s == sessions[d]
           event == [kind |-> "StateChanged", epoch |-> s.HandlerEpoch, address |-> s.Connection,
                     state |-> state]
           more == s.callbacks \cup {event}
           t == [s EXCEPT !.callbacks = more]
<1>1. /\ s \in SessionState /\ s.facts = <<>> /\ s.Connection # NoConnection /\ SessionsSound
      /\ UNCHANGED <<lifecycle, policy, recoveryEpochs, watcher, operations, incoming>>
    BY DEF RaiseStateChanged, Inv, SessionsSound, SessionsTyped
<1>2. sessions' = [sessions EXCEPT ![d] = t]
    BY DEF RaiseStateChanged
<1> HIDE DEF s
<1>3. event \in Session!Callback
    BY <1>1 DEF SessionState, Session!SessionState, Session!Callback
<1>4. more \in SUBSET Session!Callback
    <2> HIDE DEF event
    <2> QED BY <1>1, <1>3 DEF SessionState, Session!SessionState
<1> HIDE DEF more
<1>5. t \in SessionState
    BY <1>1, <1>4 DEF SessionState, Session!SessionState
<1>6. Same(s, t)
    BY <1>1 DEF Same, SessionState, Session!SessionState
<1> HIDE DEF t
<1>7. /\ DOMAIN sessions' = DOMAIN sessions
      /\ \A e \in DOMAIN sessions : sessions'[e] = IF e = d THEN t ELSE sessions[e]
    BY <1>2
<1>8. \A e \in DOMAIN sessions :
        /\ sessions'[e] \in SessionState /\ sessions'[e].facts = <<>>
        /\ sessions'[e].Lifecycle = sessions[e].Lifecycle
        /\ sessions'[e].OperationEpoch = sessions[e].OperationEpoch
        /\ sessions'[e].IsReconnectEnabled = sessions[e].IsReconnectEnabled
        /\ sessions'[e].IsIncomingEnabled = sessions[e].IsIncomingEnabled
        /\ sessions'[e].IsShutdown = sessions[e].IsShutdown
    BY <1>1, <1>5, <1>6, <1>7 DEF Same, s, SessionsSound, SessionsTyped
<1>9. operations' = operations /\ operations' \in [Command -> Completions]
    BY <1>1 DEF SessionsSound, SessionsTyped
<1>10. SessionsSound'
    BY <1>1, <1>7, <1>8, <1>9, QuietSound
<1>11. RestTyped' /\ NewestIsOnItsWay' /\ ReleasedIsGone'
    BY <1>1, <1>7, RestKept
<1> QED BY <1>10, <1>11 DEF Inv


LEMMA WaitKept ==
    ASSUME Inv, NEW c \in Command, WaitReturns(c) \/ GiveUp(c)
    PROVE  Inv'
<1> DEFINE o == operations[c]
           late == [o EXCEPT !.caller = "Cancelling"]
<1>1. /\ SessionsSound /\ o \in Completions /\ o.caller = "Waiting"
      /\ operations \in [Command -> Completions]
      /\ UNCHANGED <<sessions, lifecycle, policy, recoveryEpochs, watcher, incoming>>
    BY DEF WaitReturns, GiveUp, Inv, SessionsSound, SessionsTyped
<1>2. \/ operations' = [operations EXCEPT ![c] = NoCompletion]
      \/ operations' = [operations EXCEPT ![c] = late] /\ o.Status = "Pending"
    BY Zenon DEF WaitReturns, GiveUp, o, late
<1>3. o \in DeviceOperationCompletion
    BY <1>1 DEF Completions, NoCompletion
<1>4. o.Status = "Pending" => Pends(o)
    BY <1>1 DEF Pends
<1> HIDE DEF o
<1>5. /\ late \in Completions /\ late.DeviceId = o.DeviceId /\ late.Epoch = o.Epoch
      /\ late.OwnsCancellation = o.OwnsCancellation
    BY <1>3 DEF DeviceOperationCompletion, Completions
<1>6. NoCompletion \in Completions /\ ~Pends(NoCompletion)
    BY DEF Completions, NoCompletion, Pends
<1> HIDE DEF late
<1>7. /\ operations' \in [Command -> Completions]
      /\ \A b \in Command : Pends(operations'[b]) =>
            /\ Pends(operations[b])
            /\ operations'[b].DeviceId = operations[b].DeviceId
            /\ operations'[b].Epoch = operations[b].Epoch
            /\ operations'[b].OwnsCancellation = operations[b].OwnsCancellation
    <2>1. CASE operations' = [operations EXCEPT ![c] = NoCompletion]
        BY <1>1, <1>6, <2>1
    <2>2. CASE operations' = [operations EXCEPT ![c] = late] /\ o.Status = "Pending"
        BY <1>1, <1>4, <1>5, <2>2 DEF o
    <2> QED BY <1>2, <2>1, <2>2
<1>8. SessionsSound'
    <2>1. \A d \in DOMAIN sessions : sessions[d] \in SessionState /\ sessions[d].facts = <<>>
        BY <1>1 DEF SessionsSound, SessionsTyped
    <2> QED BY <1>1, <1>7, <2>1, QuietSound
<1>9. RestTyped' /\ NewestIsOnItsWay' /\ ReleasedIsGone'
    BY <1>1, RestKept
<1> QED BY <1>8, <1>9 DEF Inv

LEMMA SubmittedFollows ==
    ASSUME NEW s \in SessionState, NEW operation \in {"ManualConnect", "ManualReconnect"},
           NEW p \in Session!PlatformOutcome
    PROVE  Onward(s, Submitted(s, operation, p))
<1>1. Submitted(s, operation, p) \in {s, Run(Session!Connect(s, operation, TRUE, p), p)}
    BY DEF Submitted
<1>2. operation \in Session!DeviceOperationKind
    BY Parameters
<1>3. Onward(s, Run(Session!Connect(s, operation, TRUE, p), p)) /\ Onward(s, s)
    BY <1>2, ConnectFollows, RunFollows, Follow
<1> QED BY <1>1, <1>3

(* The completion of a command for the session t.                          *)
LEMMA CompletionSound ==
    ASSUME NEW d \in Device, NEW t \in SessionState, NEW owns \in BOOLEAN
    PROVE  LET o == Completion(d, t, owns) IN
           /\ o \in DeviceOperationCompletion /\ o.caller = "Waiting"
           /\ o.DeviceId = d /\ o.Epoch = t.OperationEpoch /\ o.OwnsCancellation = owns
           /\ Pends(o) => t.Lifecycle \in {"Connecting", "Disconnecting", "WaitingForReconnect"}
<1> DEFINE status == StatusOf(Session!Snapshot(t), t.OperationEpoch)
<1>1. status \in DeviceOperationStatus
    BY StatusFacts
<1>2. status = "Pending" => t.Lifecycle \notin {"Idle", "Connected", "Failed"}
    BY StatusFacts, SnapshotType
<1>3. t.OperationEpoch \in Nat /\ t.Lifecycle \in Session!DeviceLifecycleState
    BY DEF SessionState, Session!SessionState
<1>4. Completion(d, t, owns)
        = [DeviceId |-> d, Epoch |-> t.OperationEpoch, OwnsCancellation |-> owns,
           Status |-> status, caller |-> "Waiting"]
    BY DEF Completion
<1> HIDE DEF status
<1> QED BY <1>1, <1>2, <1>3, <1>4
        DEF DeviceOperationCompletion, Pends, Session!DeviceLifecycleState


(* A command that causes a new epoch owns it; nobody waits for it yet.     *)
LEMMA SubmitSound ==
    ASSUME Inv, NEW c \in Command, NEW d \in Device, NEW p \in Session!PlatformOutcome,
           NEW s, s = GetOrCreateSession(d, p), NEW after, Onward(s, after),
           Submit(c, d, s, after)
    PROVE  /\ SessionsSound' /\ DOMAIN sessions' = DOMAIN sessions \cup {d}
           /\ ~Refuses(s) => operations'[c] # operations[c]
           /\ \A b \in Command : operations'[b].caller # operations[b].caller =>
                operations'[b].caller = "Waiting"
<1> DEFINE ss == UpdateSession(d, after)
           r == Resolved(ss, FALSE)
           owns == after.OperationEpoch # s.OperationEpoch
           new == Completion(d, after, owns)
<1>1. Advances(ss, policy)
    BY GivenAdvances
<1>2. /\ s \in SessionState /\ after \in SessionState /\ s.OperationEpoch \in Nat
      /\ after.OperationEpoch \in Nat /\ s.OperationEpoch <= after.OperationEpoch
      /\ d \in DOMAIN sessions => s = sessions[d]
    <2>1. s \in SessionState /\ (d \in DOMAIN sessions => s = sessions[d])
        BY GetOrCreateSound
    <2>2. after \in SessionState /\ s.OperationEpoch <= after.OperationEpoch
        BY DEF Onward, Ahead
    <2> QED BY <2>1, <2>2 DEF SessionState, Session!SessionState
<1>3. /\ operations[c].caller = "None" /\ Stored(ss) /\ policy' = policy
      /\ operations' = [r EXCEPT ![c] = IF Refuses(s) THEN @ ELSE new]
    BY Zenon DEF Submit, ss, r, owns, new
<1>4. /\ r \in [Command -> Completions]
      /\ \A b \in Command : r[b].caller = operations[b].caller
      /\ \A b \in Command : Pends(r[b]) => r[b] = operations[b] /\ Followed(r[b], ss)
    BY <1>1, ResolvedSound
<1>5. /\ DOMAIN ss = DOMAIN sessions \cup {d} /\ ss[d] = after
    BY DEF UpdateSession
<1>6. owns \in BOOLEAN
    OBVIOUS
<1>7. owns => s.OperationEpoch < after.OperationEpoch
    BY <1>2
<1> HIDE DEF ss, r, owns
<1>8. /\ new \in DeviceOperationCompletion /\ new.caller = "Waiting"
      /\ new.DeviceId = d /\ new.Epoch = after.OperationEpoch /\ new.OwnsCancellation = owns
      /\ Pends(new) => after.Lifecycle \in {"Connecting", "Disconnecting", "WaitingForReconnect"}
    BY <1>2, <1>6, CompletionSound
<1> HIDE DEF new
<1>9. Pends(new) => Followed(new, ss)
    BY <1>2, <1>5, <1>8 DEF Followed
<1>10. ~Pends(r[c]) /\ r[c].caller = "None"
    BY <1>3, <1>4 DEF Pends
<1>11. /\ DOMAIN operations' = Command
       /\ \A b \in Command :
            operations'[b] = IF b = c /\ ~Refuses(s) THEN new ELSE r[b]
    BY <1>3, <1>4
<1>12. \A b \in Command : operations'[b] \in Completions
    BY <1>4, <1>8, <1>11 DEF Completions
<1>13. operations' \in [Command -> Completions]
    <2>1. operations' = [b \in Command |-> operations'[b]]
        BY <1>3, <1>4
    <2> QED BY <1>12, <2>1
<1>14. \A b \in Command : Pends(operations'[b]) => Followed(operations'[b], ss)
    BY <1>4, <1>9, <1>11
<1>15. \A b \in Command \ {c} : Pends(operations'[b]) =>
            operations'[b] = operations[b] /\ Pends(operations[b])
    BY <1>4, <1>11
<1>16. \A b \in Command \ {c} : Pends(operations'[b]) /\ Pends(operations'[c]) =>
            ~operations'[c].OwnsCancellation
            \/ <<operations'[b].DeviceId, operations'[b].Epoch>>
                 # <<operations'[c].DeviceId, operations'[c].Epoch>>
    <2> SUFFICES ASSUME NEW b \in Command \ {c}, Pends(operations'[b]), Pends(operations'[c]),
                        operations'[c].OwnsCancellation
                 PROVE  operations'[b].DeviceId # operations'[c].DeviceId
                        \/ operations'[b].Epoch # operations'[c].Epoch
        OBVIOUS
    <2>1. operations'[c] = new /\ owns
        BY <1>8, <1>10, <1>11
    <2>2. /\ operations'[b] = operations[b] /\ operations[b] \in DeviceOperationCompletion
          /\ Followed(operations[b], sessions)
        BY <1>15, PendingFollowed DEF Inv
    <2>3. operations[b].Epoch \in Nat
        BY <2>2 DEF DeviceOperationCompletion
    <2>4. CASE operations[b].DeviceId = d
        <3>1. operations[b].Epoch <= s.OperationEpoch
            BY <1>2, <2>2, <2>4 DEF Followed
        <3> QED BY <1>2, <1>7, <1>8, <2>1, <2>2, <2>3, <3>1
    <2>5. CASE operations[b].DeviceId # d
        BY <1>8, <2>1, <2>2, <2>5
    <2> QED BY <2>4, <2>5
<1>17. OneOwnerPerEpoch'
    <2> SUFFICES ASSUME NEW a \in Command, NEW b \in Command, a # b,
                        Pends(operations'[a]), Pends(operations'[b]),
                        operations'[a].OwnsCancellation, operations'[b].OwnsCancellation
                 PROVE  <<operations'[a].DeviceId, operations'[a].Epoch>>
                          # <<operations'[b].DeviceId, operations'[b].Epoch>>
        BY DEF OneOwnerPerEpoch, IsPending, Pends
    <2>1. CASE a = c
        BY <1>16, <2>1
    <2>2. CASE b = c
        BY <1>16, <2>2
    <2>3. CASE a # c /\ b # c
        <3>1. /\ operations'[a] = operations[a] /\ Pends(operations[a])
              /\ operations'[b] = operations[b] /\ Pends(operations[b])
            BY <1>15, <2>3
        <3> QED BY <3>1 DEF OneOwnerPerEpoch, IsPending, Pends, Inv, SessionsSound
    <2> QED BY <2>1, <2>2, <2>3
<1>18. SessionsSound'
    BY <1>1, <1>3, <1>13, <1>14, <1>17, TaskSound
<1>19. DOMAIN sessions' = DOMAIN sessions \cup {d}
    BY <1>3, <1>5 DEF Stored
<1>20. \A b \in Command : operations'[b].caller # operations[b].caller =>
            operations'[b].caller = "Waiting"
    BY <1>4, <1>8, <1>11
<1>21. ~Refuses(s) => operations'[c] # operations[c]
    BY <1>3, <1>8, <1>11
<1> QED BY <1>18, <1>19, <1>20, <1>21

LEMMA SubmitKept ==
    ASSUME Inv, NEW c \in Command, NEW d \in Device, NEW p \in Session!PlatformOutcome,
           NEW s, s = GetOrCreateSession(d, p), NEW after, Onward(s, after),
           Submit(c, d, s, after), ~isShutdown
    PROVE  Inv'
<1>1. SessionsSound' /\ DOMAIN sessions' = DOMAIN sessions \cup {d}
    BY SubmitSound
<1>2. /\ recoveryEpochs' = Restrict(recoveryEpochs, DOMAIN recoveryEpochs \ {d})
      /\ UNCHANGED <<lifecycle, policy, watcher, incoming>>
    BY DEF Submit
<1>3. /\ DOMAIN recoveryEpochs' = DOMAIN recoveryEpochs \ {d}
      /\ \A e \in DOMAIN recoveryEpochs' : recoveryEpochs'[e] = recoveryEpochs[e]
    BY <1>2 DEF Restrict
<1>4. RestTyped'
    <2>1. /\ DOMAIN recoveryEpochs' \subseteq Device
          /\ \A e \in DOMAIN recoveryEpochs' : recoveryEpochs'[e] \in Nat
        BY <1>3 DEF Inv, RestTyped
    <2> QED BY <1>2, <2>1 DEF Inv, RestTyped, lifecycle, incoming
<1>5. NewestIsOnItsWay'
    BY <1>2, NewestKept DEF lifecycle, incoming
<1>6. ReleasedIsGone'
    BY <1>1, <1>2, <1>3, ReleasedKept DEF lifecycle
<1> QED BY <1>1, <1>4, <1>5, <1>6 DEF Inv

LEMMA ConnectKept ==
    ASSUME Inv, NEW c \in Command, NEW d \in Device, Connect(c, d) \/ Reconnect(c, d)
    PROVE  Inv'
<1>1. PICK p \in scope.platforms, operation \in {"ManualConnect", "ManualReconnect"} :
        \E s \in {GetOrCreateSession(d, p)} : Submit(c, d, s, Submitted(s, operation, p))
    BY DEF Connect, Reconnect
<1>2. p \in Session!PlatformOutcome /\ ~isShutdown
    BY ScopeTypes DEF Inv, RestTyped, Connect, Reconnect, Accepts
<1> DEFINE s == GetOrCreateSession(d, p)
<1>3. Submit(c, d, s, Submitted(s, operation, p)) /\ s = GetOrCreateSession(d, p)
    BY <1>1
<1>4. s \in SessionState
    BY <1>2, GetOrCreateSound
<1> HIDE DEF s
<1>5. Onward(s, Submitted(s, operation, p))
    BY <1>2, <1>4, SubmittedFollows
<1> QED BY <1>2, <1>3, <1>5, SubmitKept


LEMMA CancelledFollows ==
    ASSUME NEW s \in SessionState, NEW p \in Session!PlatformOutcome,
           policy.AllowIncomingConnections \in BOOLEAN
    PROVE  Onward(s, Cancelled(s, p))
<1> DEFINE u == Run(Session!CancelReconnect(s, p), p)
           allow == policy.AllowIncomingConnections
           t == Run(Session!Disconnect(u, allow, p), p)
<1>1. Cancelled(s, p) = t
    BY DEF Cancelled
<1>2. Onward(s, u)
    BY CancelReconnectFollows, RunFollows
<1> HIDE DEF u, allow
<1>3. Onward(u, t) /\ u \in SessionState
    BY <1>2, DisconnectFollows, RunFollows DEF Onward, Ahead, allow
<1> HIDE DEF t
<1> QED BY <1>1, <1>2, <1>3, Follow

LEMMA AfterCancellationAdvances ==
    ASSUME Inv, NEW o, NEW p \in scope.platforms
    PROVE  /\ Advances(AfterCancellation(o, p), policy)
           /\ DOMAIN AfterCancellation(o, p) = DOMAIN sessions
<1>1. CASE ~MayCancel(o)
    <2>1. AfterCancellation(o, p) = sessions
        BY <1>1 DEF AfterCancellation
    <2> QED BY <2>1, NoneAdvances
<1>2. CASE MayCancel(o)
    <2> DEFINE d == o.DeviceId
               s == sessions[d]
               t == Cancelled(s, p)
    <2>1. AfterCancellation(o, p) = UpdateSession(d, t)
        BY <1>2 DEF AfterCancellation
    <2>2. d \in DOMAIN sessions /\ d \in Device /\ s \in SessionState
          /\ p \in Session!PlatformOutcome /\ policy.AllowIncomingConnections \in BOOLEAN
        BY <1>2, ScopeTypes DEF MayCancel, Inv, SessionsSound, SessionsTyped, RestTyped,
                                DeviceSettingsPolicy
    <2>3. GetOrCreateSession(d, p) = s
        BY <2>2 DEF GetOrCreateSession
    <2> HIDE DEF d, s
    <2>4. Onward(s, t)
        BY <2>2, CancelledFollows
    <2> HIDE DEF t
    <2>5. Advances(UpdateSession(d, t), policy)
        BY <2>2, <2>3, <2>4, GivenAdvances
    <2>6. DOMAIN UpdateSession(d, t) = DOMAIN sessions
        BY <2>2 DEF UpdateSession
    <2> QED BY <2>1, <2>5, <2>6
<1> QED BY <1>1, <1>2

LEMMA CancelOperationKept ==
    ASSUME Inv, NEW c \in Command, CancelOperation(c)
    PROVE  Inv'
<1>1. PICK p \in scope.platforms :
        \E ss \in {AfterCancellation(operations[c], p)} :
            Stored(ss) /\ operations' = [Resolved(ss, FALSE) EXCEPT ![c] = NoCompletion]
    BY DEF CancelOperation
<1> DEFINE ss == AfterCancellation(operations[c], p)
           r == Resolved(ss, FALSE)
<1>2. Stored(ss) /\ operations' = [r EXCEPT ![c] = NoCompletion]
    BY <1>1
<1>3. Advances(ss, policy) /\ DOMAIN ss = DOMAIN sessions
    BY AfterCancellationAdvances
<1>4. UNCHANGED <<lifecycle, policy, recoveryEpochs, watcher, incoming>>
    BY DEF CancelOperation
<1>5. /\ r \in [Command -> Completions]
      /\ \A b \in Command : Pends(r[b]) => r[b] = operations[b] /\ Followed(r[b], ss)
    BY <1>3, ResolvedSound
<1> HIDE DEF ss, r
<1>6. NoCompletion \in Completions /\ ~Pends(NoCompletion)
    BY DEF Completions, NoCompletion, Pends
<1>7. /\ operations' \in [Command -> Completions]
      /\ \A b \in Command : operations'[b] = IF b = c THEN NoCompletion ELSE r[b]
    BY <1>2, <1>5, <1>6
<1>8. \A b \in Command :
        Pends(operations'[b]) => operations'[b] = operations[b] /\ Followed(operations'[b], ss)
    BY <1>5, <1>6, <1>7
<1>9. OneOwnerPerEpoch'
    BY <1>8 DEF OneOwnerPerEpoch, IsPending, Pends, Inv, SessionsSound
<1>10. SessionsSound'
    BY <1>2, <1>3, <1>4, <1>7, <1>8, <1>9, TaskSound
<1>11. DOMAIN sessions' = DOMAIN sessions
    BY <1>2, <1>3 DEF Stored
<1>12. RestTyped' /\ NewestIsOnItsWay' /\ ReleasedIsGone'
    BY <1>4, <1>11, RestKept
<1> QED BY <1>10, <1>12 DEF Inv

-----------------------------------------------------------------------------
(* The settings.                                                           *)

LEMMA StillSound ==
    ASSUME Inv, UNCHANGED <<sessions, operations, policy>>
    PROVE  SessionsSound'
<1>1. SessionsSound /\ operations \in [Command -> Completions]
      /\ \A d \in DOMAIN sessions : sessions[d] \in SessionState /\ sessions[d].facts = <<>>
    BY DEF Inv, SessionsSound, SessionsTyped
<1> QED BY <1>1, QuietSound

LEMMA ChangeSettingsKept ==
    ASSUME Inv, NEW newest \in NextPolicies, ChangeSettings(newest)
    PROVE  Inv'
<1> DEFINE posted == [kind |-> "Policy", policy |-> newest]
<1>1. /\ newest.Revision = settings.Revision + 1 /\ settings' = newest
      /\ tasks' = tasks \cup {posted}
      /\ UNCHANGED <<sessions, lifecycle, policy, recoveryEpochs, watcher, operations,
                     stopRequested, scope>>
    BY DEF ChangeSettings
<1>2. newest \in DeviceSettingsPolicy
    <2>1. PICK q \in Policies, n \in {settings.Revision + 1} \cap 1 .. scope.maxSettings :
                newest = [q EXCEPT !.Revision = n]
        BY DEF NextPolicies
    <2>2. q \in DeviceSettingsPolicy /\ n \in Nat
        <3>1. scope.maxSettings \in Nat
            BY DeviceServiceAssumption DEF Inv, RestTyped
        <3> QED BY <3>1, DeviceServiceAssumption
    <2> QED BY <2>1, <2>2 DEF DeviceSettingsPolicy
<1>3. posted \in Task /\ posted.kind = "Policy" /\ posted.policy = newest
    BY <1>2 DEF Task
<1>4. settings.Revision \in Nat /\ NewestIsOnItsWay
    BY DEF Inv, RestTyped, DeviceSettingsPolicy
<1> HIDE DEF posted
<1>5. SessionsSound'
    BY <1>1, StillSound
<1>6. RestTyped'
    BY <1>1, <1>2, <1>3 DEF Inv, RestTyped, lifecycle
<1>7. \A q : IsUpToDate(q) /\ q.Revision \in Nat =>
            q.Revision <= newest.Revision /\ q.Revision # newest.Revision
    BY <1>1, <1>4 DEF IsUpToDate
<1>8. NewestIsOnItsWay'
    <2>1. policy.Revision \in Nat
          /\ \A t \in tasks : t.kind = "Policy" => t.policy.Revision \in Nat
        BY DEF Inv, RestTyped, Task, DeviceSettingsPolicy
    <2>2. IsUpToDate(policy)'
        BY <1>1, <1>4, <1>7, <2>1 DEF NewestIsOnItsWay, IsUpToDate
    <2>3. \A t \in tasks' : t.kind = "Policy" => IsUpToDate(t.policy)'
        <3> SUFFICES ASSUME NEW t \in tasks', t.kind = "Policy"
                     PROVE  IsUpToDate(t.policy)'
            OBVIOUS
        <3>1. CASE t \in tasks
            BY <1>1, <1>4, <1>7, <2>1, <3>1 DEF NewestIsOnItsWay, IsUpToDate
        <3>2. CASE t = posted
            <4>1. newest.Revision \in Nat
                BY <1>2 DEF DeviceSettingsPolicy
            <4> QED BY <1>1, <1>3, <3>2, <4>1 DEF IsUpToDate
        <3> QED BY <1>1, <3>1, <3>2
    <2>4. \E t \in tasks' : t.kind = "Policy" /\ t.policy = settings'
        BY <1>1, <1>3
    <2> QED BY <2>2, <2>3, <2>4 DEF NewestIsOnItsWay
<1>9. ReleasedIsGone'
    BY <1>1, ReleasedKept DEF lifecycle
<1> QED BY <1>5, <1>6, <1>8, <1>9 DEF Inv

LEMMA RequestStopKept ==
    ASSUME Inv, RequestStop
    PROVE  Inv'
<1>1. /\ stopRequested' = TRUE
      /\ UNCHANGED <<sessions, lifecycle, policy, recoveryEpochs, watcher, operations, tasks,
                     settings, scope>>
    BY DEF RequestStop
<1>2. SessionsSound'
    BY <1>1, StillSound
<1>3. RestTyped'
    BY <1>1 DEF Inv, RestTyped, lifecycle
<1>4. NewestIsOnItsWay'
    BY <1>1 DEF Inv, NewestIsOnItsWay, IsUpToDate
<1>5. ReleasedIsGone'
    BY <1>1, ReleasedKept DEF lifecycle
<1> QED BY <1>2, <1>3, <1>4, <1>5 DEF Inv

(* A session under a new policy.                                           *)
LEMMA PolicyMoves ==
    ASSUME NEW s \in SessionState, NEW q \in Session!PlatformOutcome,
           NEW reconnect \in BOOLEAN, NEW allow \in BOOLEAN,
           NEW oldReconnect, NEW oldAllow, Obeys(s, oldReconnect, oldAllow),
           NEW reconnectChanged, ~reconnectChanged => reconnect = oldReconnect,
           NEW incomingChanged, ~incomingChanged => allow = oldAllow
    PROVE  LET u == IF reconnectChanged
                    THEN Run(Session!SetReconnectEnabled(s, reconnect, q), q) ELSE s
               t == IF incomingChanged
                    THEN Run(Session!SetIncomingEnabled(u, allow, q), q) ELSE u
           IN  Moves(s, t) /\ t \in SessionState /\ Obeys(t, reconnect, allow)
<1> DEFINE a == Session!SetReconnectEnabled(s, reconnect, q)
           u == IF reconnectChanged THEN Run(a, q) ELSE s
           b == Session!SetIncomingEnabled(u, allow, q)
           t == IF incomingChanged THEN Run(b, q) ELSE u
<1>1. Moves(s, u) /\ u \in SessionState /\ Obeys(u, reconnect, oldAllow)
    <2>1. CASE reconnectChanged
        <3>1. Moves(s, a) /\ Obeys(a, reconnect, oldAllow)
            BY SetReconnectEnabledFollows
        <3> HIDE DEF a
        <3>2. a \in SessionState
            BY <3>1 DEF Moves
        <3> QED BY <2>1, <3>1, <3>2, RunFollows
    <2>2. CASE ~reconnectChanged
        BY <2>2, MovesFollow
    <2> QED BY <2>1, <2>2
<1> HIDE DEF u
<1>2. Moves(u, t) /\ t \in SessionState /\ Obeys(t, reconnect, allow)
    <2>1. CASE incomingChanged
        <3>1. Moves(u, b) /\ Obeys(b, reconnect, allow)
            BY <1>1, SetIncomingEnabledFollows
        <3> HIDE DEF b
        <3>2. b \in SessionState
            BY <3>1 DEF Moves
        <3> QED BY <1>1, <2>1, <3>1, <3>2, RunFollows
    <2>2. CASE ~incomingChanged
        BY <1>1, <2>2, MovesFollow
    <2> QED BY <2>1, <2>2
<1> HIDE DEF t
<1>3. Moves(s, t)
    BY <1>1, <1>2, MovesFollow
<1> QED BY <1>2, <1>3 DEF a, u, b, t


ReconnectChanges(new) ==
    \/ new.GlobalReconnectOnConnectionLoss # policy.GlobalReconnectOnConnectionLoss
    \/ new.ReconnectDeviceIds # policy.ReconnectDeviceIds
IncomingChanges(new) == new.AllowIncomingConnections # policy.AllowIncomingConnections

UnderPolicy(s, d, new, q) ==
    LET u == IF ReconnectChanges(new)
             THEN Run(Session!SetReconnectEnabled(s, FollowsUnder(new, d), q), q) ELSE s
    IN  IF IncomingChanges(new)
        THEN Run(Session!SetIncomingEnabled(u, new.AllowIncomingConnections, q), q) ELSE u

LEMMA PolicyAdvances ==
    ASSUME Inv, NEW new \in DeviceSettingsPolicy, NEW p \in EachPlatform,
           NEW discovered \in SUBSET Device,
           NEW ss, DOMAIN ss = DOMAIN sessions \cup discovered,
           \A d \in DOMAIN sessions : ss[d] = UnderPolicy(sessions[d], d, new, p[d]),
           \A d \in discovered \ DOMAIN sessions :
                ss[d] = Created(FollowsUnder(new, d), new.AllowIncomingConnections, p[d])
    PROVE  Advances(ss, new)
<1>1. /\ DOMAIN sessions \subseteq Device /\ scope \in Scopes
      /\ \A d \in DOMAIN sessions :
            /\ sessions[d] \in SessionState
            /\ Obeys(sessions[d], FollowsUnder(policy, d), policy.AllowIncomingConnections)
    BY DEF Inv, RestTyped, SessionsSound, SessionsTyped, SessionsFollowThePolicy
<1>2. \A d \in Device : p[d] \in Session!PlatformOutcome
    BY <1>1, ScopeTypes
<1>3. new.AllowIncomingConnections \in BOOLEAN /\ \A d : FollowsUnder(new, d) \in BOOLEAN
    BY DEF DeviceSettingsPolicy, FollowsUnder
<1>4. /\ \A d : ~ReconnectChanges(new) => FollowsUnder(new, d) = FollowsUnder(policy, d)
      /\ ~IncomingChanges(new) =>
            new.AllowIncomingConnections = policy.AllowIncomingConnections
    BY DEF FollowsUnder, ReconnectChanges, IncomingChanges
<1>5. ASSUME NEW d \in DOMAIN sessions
      PROVE  /\ Moves(sessions[d], ss[d]) /\ ss[d] \in SessionState
             /\ Obeys(ss[d], FollowsUnder(new, d), new.AllowIncomingConnections)
    <2> DEFINE s == sessions[d]
               q == p[d]
               reconnect == FollowsUnder(new, d)
               allow == new.AllowIncomingConnections
               u == IF ReconnectChanges(new)
                    THEN Run(Session!SetReconnectEnabled(s, reconnect, q), q) ELSE s
               t == IF IncomingChanges(new)
                    THEN Run(Session!SetIncomingEnabled(u, allow, q), q) ELSE u
    <2>1. ss[d] = t
        BY <1>5, Zenon DEF UnderPolicy
    <2>2. /\ s \in SessionState /\ q \in Session!PlatformOutcome
          /\ Obeys(s, FollowsUnder(policy, d), policy.AllowIncomingConnections)
          /\ reconnect \in BOOLEAN /\ allow \in BOOLEAN
          /\ ~ReconnectChanges(new) => reconnect = FollowsUnder(policy, d)
          /\ ~IncomingChanges(new) => allow = policy.AllowIncomingConnections
        BY <1>1, <1>2, <1>3, <1>4, <1>5
    <2> HIDE DEF s, q, reconnect, allow
    <2>3. Moves(s, t) /\ t \in SessionState /\ Obeys(t, reconnect, allow)
        BY <2>2, PolicyMoves
    <2> HIDE DEF t
    <2> QED BY <2>1, <2>3 DEF s, reconnect, allow
<1>6. ASSUME NEW d \in discovered \ DOMAIN sessions
      PROVE  /\ ss[d] \in SessionState
             /\ Obeys(ss[d], FollowsUnder(new, d), new.AllowIncomingConnections)
    BY <1>2, <1>3, <1>6, CreatedSound
<1> QED BY <1>1, <1>5, <1>6 DEF Advances

LEMMA ApplySettingsPolicyKept ==
    ASSUME Inv, NEW task \in tasks, NEW p \in EachPlatform, ApplySettingsPolicy(task, p)
    PROVE  Inv'
<1> DEFINE new == task.policy
           follows(d) == new.GlobalReconnectOnConnectionLoss \/ d \in new.ReconnectDeviceIds
           reconnectChanged ==
               \/ new.GlobalReconnectOnConnectionLoss # policy.GlobalReconnectOnConnectionLoss
               \/ new.ReconnectDeviceIds # policy.ReconnectDeviceIds
           incomingChanged == new.AllowIncomingConnections # policy.AllowIncomingConnections
           withReconnect(s, d) ==
               IF reconnectChanged THEN Run(Session!SetReconnectEnabled(s, follows(d), p[d]), p[d])
               ELSE s
           withIncoming(s, d) ==
               IF incomingChanged
               THEN Run(Session!SetIncomingEnabled(s, new.AllowIncomingConnections, p[d]), p[d])
               ELSE s
           discovered == IF incomingChanged /\ new.AllowIncomingConnections
                         THEN watcher.Devices ELSE {}
           ss == [d \in DOMAIN sessions \cup discovered |->
                      IF d \in DOMAIN sessions
                      THEN withIncoming(withReconnect(sessions[d], d), d)
                      ELSE Created(follows(d), new.AllowIncomingConnections, p[d])]
<1>1. /\ task.kind = "Policy" /\ tasks' = tasks \ {task}
      /\ UNCHANGED <<lifecycle, recoveryEpochs, watcher, settings, stopRequested, scope>>
    BY DEF ApplySettingsPolicy
<1>2. IF IsNewer(new) THEN policy' = new /\ Settle(ss, FALSE)
      ELSE UNCHANGED <<sessions, policy, operations>>
    BY Zenon DEF ApplySettingsPolicy, new, follows, reconnectChanged, incomingChanged,
                 withReconnect, withIncoming, discovered, ss
<1>3. new \in DeviceSettingsPolicy /\ watcher.Devices \subseteq Device
    BY <1>1 DEF Inv, RestTyped, Task, Watcher
<1>4. NewestIsOnItsWay /\ IsUpToDate(new) /\ IsUpToDate(policy)
    BY <1>1 DEF Inv, NewestIsOnItsWay
<1>5. /\ new.Revision \in Nat /\ policy.Revision \in Nat /\ settings.Revision \in Nat
    BY <1>3 DEF Inv, RestTyped, DeviceSettingsPolicy
<1>6. \A q : IsUpToDate(q)' = IsUpToDate(q)
    BY <1>1 DEF IsUpToDate
<1>7. CASE IsNewer(new)
    <2>1. policy' = new /\ Settle(ss, FALSE) /\ ~isShutdown /\ new.Revision > policy.Revision
        BY <1>2, <1>7 DEF IsNewer
    <2>2. DOMAIN ss = DOMAIN sessions \cup discovered /\ discovered \in SUBSET Device
        BY <1>3
    <2>3. Advances(ss, new)
        <3> HIDE DEF discovered
        <3>1. \A d \in DOMAIN sessions : ss[d] = UnderPolicy(sessions[d], d, new, p[d])
            BY Zenon DEF UnderPolicy, ReconnectChanges, IncomingChanges, FollowsUnder
        <3>2. \A d \in discovered \ DOMAIN sessions :
                ss[d] = Created(FollowsUnder(new, d), new.AllowIncomingConnections, p[d])
            BY Zenon DEF FollowsUnder
        <3> HIDE DEF ss, new
        <3> QED BY <1>3, <2>2, <3>1, <3>2, PolicyAdvances
    <2>4. SessionsSound' /\ DOMAIN sessions' = DOMAIN ss
        <3> HIDE DEF ss, new
        <3> QED BY <2>1, <2>3, SettleSound
    <2> HIDE DEF ss, discovered, new
    <2>5. RestTyped'
        BY <1>1, <1>3, <2>1 DEF Inv, RestTyped, lifecycle
    <2>6. NewestIsOnItsWay'
        <3>1. policy # settings
            BY <1>4, <1>5, <2>1 DEF IsUpToDate
        <3>2. ~stopRequested /\ ~isShutdown /\ new # settings =>
                    \E t \in tasks \ {task} : t.kind = "Policy" /\ t.policy = settings
            BY <1>4, <3>1 DEF NewestIsOnItsWay, new
        <3> QED BY <1>1, <1>4, <1>6, <2>1, <3>2 DEF NewestIsOnItsWay, lifecycle
    <2>7. ReleasedIsGone'
        BY <1>1, <2>1, <2>2, <2>4, ReleasedKept DEF lifecycle
    <2> QED BY <2>4, <2>5, <2>6, <2>7 DEF Inv
<1>8. CASE ~IsNewer(new)
    <2>1. UNCHANGED <<sessions, policy, operations>>
        BY <1>2, <1>8
    <2> HIDE DEF ss, discovered, new
    <2>2. SessionsSound'
        BY <2>1, StillSound
    <2>3. RestTyped'
        BY <1>1, <2>1 DEF Inv, RestTyped, lifecycle
    <2>4. ~stopRequested /\ ~isShutdown /\ new = settings => policy = settings
        BY <1>4, <1>5, <1>8 DEF IsNewer, IsUpToDate
    <2>5. ~stopRequested /\ ~isShutdown /\ policy # settings =>
                \E t \in tasks \ {task} : t.kind = "Policy" /\ t.policy = settings
        BY <1>4, <2>4 DEF NewestIsOnItsWay, new
    <2>6. NewestIsOnItsWay'
        BY <1>1, <1>4, <1>6, <2>1, <2>5 DEF NewestIsOnItsWay, lifecycle
    <2>7. ReleasedIsGone'
        BY <1>1, <2>1, ReleasedKept DEF lifecycle
    <2> QED BY <2>2, <2>3, <2>6, <2>7 DEF Inv
<1> QED BY <1>7, <1>8

-----------------------------------------------------------------------------
(* The device watcher.                                                     *)

LEMMA WatcherTypes ==
    ASSUME NEW w \in Watcher, NEW granted \in BOOLEAN
    PROVE  /\ Started(w, granted) \in Watcher /\ Stopped(w) \in Watcher
           /\ StartIsTaken(w, granted) \in BOOLEAN
           /\ [Stopped(w) EXCEPT !.WatcherGeneration = w.WatcherGeneration + 1] \in Watcher
<1> DEFINE g == w.WatcherGeneration + 1
<1>1. Started(w, granted) \in Watcher /\ StartIsTaken(w, granted) \in BOOLEAN
    BY DEF Started, StartIsTaken, Watcher
<1>2. g \in Nat
    BY DEF Watcher
<1>3. Stopped(w) \in {w, [w EXCEPT !.IsWatcherRunning = FALSE, !.IsEnumerationComplete = FALSE,
                                   !.WatcherGeneration = g]}
    BY DEF Stopped
<1> HIDE DEF g
<1>4. Stopped(w) \in Watcher
    BY <1>2, <1>3 DEF Watcher
<1>5. [Stopped(w) EXCEPT !.WatcherGeneration = g] \in Watcher
    BY <1>2, <1>4 DEF Watcher
<1> QED BY <1>1, <1>4, <1>5 DEF g

(* A native event or a refresh result is posted.                           *)
LEMMA PostedKept ==
    ASSUME Inv, NEW task \in Task, task.kind # "Policy", Posted(task)
    PROVE  Inv'
<1>1. /\ tasks' = tasks \cup {task}
      /\ UNCHANGED <<sessions, lifecycle, policy, recoveryEpochs, watcher, operations, settings,
                     stopRequested, scope>>
    BY DEF Posted
<1>2. SessionsSound'
    BY <1>1, StillSound
<1>3. RestTyped'
    BY <1>1 DEF Inv, RestTyped, lifecycle
<1>4. NewestIsOnItsWay'
    BY <1>1, NewestKept DEF lifecycle
<1>5. ReleasedIsGone'
    BY <1>1, ReleasedKept DEF lifecycle
<1> QED BY <1>2, <1>3, <1>4, <1>5 DEF Inv

LEMMA RaiseKept ==
    ASSUME Inv,
           \/ \E kind \in {"Added", "Removed"}, d \in Device : RaiseWatcherEvent(kind, d)
           \/ RaiseEnumerationCompleted
           \/ \E devices \in SUBSET Device : RefreshAsync(devices)
    PROVE  Inv'
<1>1. watcher.WatcherGeneration \in Nat /\ watcher.InventoryVersion \in Nat
    BY DEF Inv, RestTyped, Watcher
<1>2. ASSUME NEW kind \in {"Added", "Removed"}, NEW d \in Device, RaiseWatcherEvent(kind, d)
      PROVE  Inv'
    <2> DEFINE task == [kind |-> kind, generation |-> watcher.WatcherGeneration, device |-> d]
    <2>1. task \in Task /\ task.kind # "Policy"
        BY <1>1 DEF Task
    <2>2. Posted(task)
        BY <1>2 DEF RaiseWatcherEvent
    <2> HIDE DEF task
    <2> QED BY <2>1, <2>2, PostedKept
<1>3. ASSUME RaiseEnumerationCompleted
      PROVE  Inv'
    <2> DEFINE task == [kind |-> "EnumerationCompleted",
                        generation |-> watcher.WatcherGeneration]
    <2>1. task \in Task /\ task.kind # "Policy"
        BY <1>1 DEF Task
    <2>2. Posted(task)
        BY <1>3 DEF RaiseEnumerationCompleted
    <2> HIDE DEF task
    <2> QED BY <2>1, <2>2, PostedKept
<1>4. ASSUME NEW devices \in SUBSET Device, RefreshAsync(devices)
      PROVE  Inv'
    <2> DEFINE task == [kind |-> "Refreshed", generation |-> watcher.WatcherGeneration,
                        version |-> watcher.InventoryVersion, devices |-> devices]
    <2>1. task \in Task /\ task.kind # "Policy"
        BY <1>1 DEF Task
    <2>2. Posted(task)
        BY <1>4 DEF RefreshAsync
    <2> HIDE DEF task
    <2> QED BY <2>1, <2>2, PostedKept
<1> QED BY <1>2, <1>3, <1>4

LEMMA DropKept ==
    ASSUME Inv, NEW task \in tasks, Drop(task)
    PROVE  Inv'
<1>1. /\ tasks' = tasks \ {task} /\ task.kind # "Policy"
      /\ UNCHANGED <<sessions, lifecycle, policy, recoveryEpochs, watcher, operations, settings,
                     stopRequested, scope>>
    BY DEF Drop
<1>2. SessionsSound'
    BY <1>1, StillSound
<1>3. RestTyped'
    BY <1>1 DEF Inv, RestTyped, lifecycle
<1>4. NewestIsOnItsWay'
    BY <1>1, NewestKept DEF lifecycle
<1>5. ReleasedIsGone'
    BY <1>1, ReleasedKept DEF lifecycle
<1> QED BY <1>2, <1>3, <1>4, <1>5 DEF Inv

(* A task of the watcher is run.                                           *)
LEMMA WatcherTaskKept ==
    ASSUME Inv, NEW task \in tasks, task.kind # "Policy", tasks' = tasks \ {task},
           NEW ss, NEW publishes, Advances(ss, policy), Settle(ss, publishes), ~isShutdown,
           watcher' \in Watcher,
           UNCHANGED <<lifecycle, policy, recoveryEpochs, settings, stopRequested, scope>>
    PROVE  Inv'
<1>1. SessionsSound' /\ DOMAIN sessions' = DOMAIN ss
    BY SettleSound
<1>2. RestTyped'
    BY DEF Inv, RestTyped, lifecycle
<1>3. NewestIsOnItsWay'
    BY NewestKept DEF lifecycle
<1>4. ReleasedIsGone'
    BY <1>1, ReleasedKept DEF Advances, lifecycle
<1> QED BY <1>1, <1>2, <1>3, <1>4 DEF Inv

LEMMA OnWatcherFactAdvances ==
    ASSUME Inv, NEW kind \in {"Added", "Removed"}, NEW d \in Device,
           NEW p \in Session!PlatformOutcome
    PROVE  Advances(OnWatcherFact(kind, d, p), policy)
<1> DEFINE s == GetOrCreateSession(d, p)
           renamed == Session!Rename(s)
           set == Session!SetIncomingEnabled(renamed, TRUE, p)
           reached == Run(set, p)
           added == IF policy.AllowIncomingConnections THEN reached ELSE renamed
           gone == Run(Session!HandleDeviceRemoved(s, p), p)
           reconnect == FollowsUnder(policy, d)
           allow == policy.AllowIncomingConnections
<1>1. \/ kind = "Added" /\ OnWatcherFact(kind, d, p) = UpdateSession(d, added)
      \/ /\ d \in DOMAIN sessions
         /\ OnWatcherFact(kind, d, p) = UpdateSession(d, gone)
      \/ OnWatcherFact(kind, d, p) = sessions
    BY DEF OnWatcherFact, GetOrCreateSession
<1>2. /\ s \in SessionState /\ Obeys(s, reconnect, allow)
      /\ d \in DOMAIN sessions => s = sessions[d]
    BY GetOrCreateSound
<1>3. Advances(sessions, policy)
    BY NoneAdvances
<1> HIDE DEF s
<1>4. Onward(s, gone)
    BY <1>2, HandleDeviceRemovedFollows, RunFollows
<1>5. Onward(s, renamed)
    BY <1>2, RenameFollows
<1> HIDE DEF renamed, gone
<1>6. Moves(s, renamed) /\ renamed \in SessionState /\ Obeys(renamed, reconnect, allow)
    BY <1>2, <1>5, MovesFollow
<1>7. CASE allow
    <2>1. Moves(renamed, set) /\ Obeys(set, reconnect, TRUE)
        BY <1>6, SetIncomingEnabledFollows
    <2> HIDE DEF set
    <2>2. set \in SessionState
        BY <2>1 DEF Moves
    <2>3. Moves(renamed, reached) /\ reached \in SessionState /\ Obeys(reached, reconnect, TRUE)
        BY <1>6, <2>1, <2>2, RunFollows
    <2> HIDE DEF reached
    <2>4. Moves(s, added) /\ added \in SessionState /\ Obeys(added, reconnect, allow)
        BY <1>2, <1>6, <1>7, <2>3, MovesFollow DEF Obeys
    <2> QED BY <1>1, <1>2, <1>3, <1>4, <2>4, OneAdvances, GivenAdvances DEF s
<1>8. CASE ~allow
    <2>1. Moves(s, added) /\ added \in SessionState /\ Obeys(added, reconnect, allow)
        BY <1>6, <1>8
    <2> HIDE DEF added
    <2> QED BY <1>1, <1>2, <1>3, <1>4, <2>1, OneAdvances, GivenAdvances DEF s
<1> QED BY <1>7, <1>8


LEMMA WatcherTasksKept ==
    ASSUME Inv, NEW task \in tasks,
           \/ OnEnumerationCompleted(task) \/ OnRefreshed(task)
           \/ \E p \in scope.platforms : OnDeviceAdded(task, p) \/ OnDeviceRemoved(task, p)
    PROVE  Inv'
<1> DEFINE version == watcher.InventoryVersion + 1
<1>1. /\ watcher \in Watcher /\ task \in Task /\ scope \in Scopes /\ Advances(sessions, policy)
      /\ version \in Nat
    BY NoneAdvances DEF Inv, RestTyped, Watcher
<1> HIDE DEF version
<1>2. ASSUME OnEnumerationCompleted(task)
      PROVE  Inv'
    <2>1. /\ task.kind = "EnumerationCompleted" /\ ~isShutdown /\ tasks' = tasks \ {task}
          /\ Settle(sessions, ~watcher.IsEnumerationComplete)
          /\ UNCHANGED <<lifecycle, policy, recoveryEpochs, settings, stopRequested, scope>>
        BY <1>2 DEF OnEnumerationCompleted, WatcherAccepts
    <2> DEFINE n == IF watcher.IsEnumerationComplete THEN watcher.InventoryVersion ELSE version
    <2>2. n \in Nat
        BY <1>1 DEF Watcher
    <2>3. watcher' = [watcher EXCEPT !.IsEnumerationComplete = TRUE, !.InventoryVersion = n]
        BY <1>2 DEF OnEnumerationCompleted, version
    <2> HIDE DEF n
    <2>4. watcher' \in Watcher
        BY <1>1, <2>2, <2>3 DEF Watcher
    <2> QED BY <1>1, <2>1, <2>4, WatcherTaskKept
<1>3. ASSUME OnRefreshed(task)
      PROVE  Inv'
    <2> DEFINE changed == watcher.Devices # task.devices \/ ~watcher.IsEnumerationComplete
    <2>1. /\ task.kind = "Refreshed" /\ ~isShutdown /\ tasks' = tasks \ {task}
          /\ Settle(sessions, changed)
          /\ UNCHANGED <<lifecycle, policy, recoveryEpochs, settings, stopRequested, scope>>
        BY <1>3 DEF OnRefreshed
    <2>2. watcher' = [watcher EXCEPT !.Devices = task.devices, !.IsEnumerationComplete = TRUE,
                                     !.InventoryVersion = version]
          \/ watcher' = watcher
        BY <1>3 DEF OnRefreshed, version
    <2>3. task.devices \in SUBSET Device
        BY <1>1, <2>1 DEF Task
    <2> HIDE DEF changed
    <2>4. watcher' \in Watcher
        BY <1>1, <2>2, <2>3 DEF Watcher
    <2> QED BY <1>1, <2>1, <2>4, WatcherTaskKept
<1>4. ASSUME NEW p \in scope.platforms, NEW kind \in {"Added", "Removed"}, task.kind = kind,
             NEW devices \in SUBSET Device,
             watcher' = [watcher EXCEPT !.InventoryVersion = version, !.Devices = devices],
             Settle(OnWatcherFact(kind, task.device, p), TRUE), ~isShutdown,
             tasks' = tasks \ {task},
             UNCHANGED <<lifecycle, policy, recoveryEpochs, settings, stopRequested, scope>>
      PROVE  Inv'
    <2>1. p \in Session!PlatformOutcome /\ task.device \in Device /\ task.kind # "Policy"
        BY <1>1, <1>4, ScopeTypes DEF Task
    <2>2. Advances(OnWatcherFact(kind, task.device, p), policy)
        BY <1>4, <2>1, OnWatcherFactAdvances
    <2>3. watcher' \in Watcher
        BY <1>1, <1>4 DEF Watcher
    <2> QED BY <1>4, <2>1, <2>2, <2>3, WatcherTaskKept
<1>5. watcher.Devices \subseteq Device
    BY <1>1 DEF Watcher
<1>6. ASSUME NEW p \in scope.platforms, OnDeviceAdded(task, p)
      PROVE  Inv'
    <2> DEFINE devices == watcher.Devices \cup {task.device}
    <2>1. /\ task.kind = "Added" /\ ~isShutdown /\ tasks' = tasks \ {task}
          /\ watcher' = [watcher EXCEPT !.InventoryVersion = version, !.Devices = devices]
          /\ Settle(OnWatcherFact("Added", task.device, p), TRUE)
          /\ UNCHANGED <<lifecycle, policy, recoveryEpochs, settings, stopRequested, scope>>
        BY <1>6 DEF OnDeviceAdded, WatcherAccepts, version
    <2>2. devices \in SUBSET Device
        BY <1>1, <1>5, <2>1 DEF Task
    <2> HIDE DEF devices
    <2> QED BY <1>4, <2>1, <2>2, Zenon
<1>7. ASSUME NEW p \in scope.platforms, OnDeviceRemoved(task, p)
      PROVE  Inv'
    <2> DEFINE devices == watcher.Devices \ {task.device}
    <2>1. /\ task.kind = "Removed" /\ ~isShutdown /\ tasks' = tasks \ {task}
          /\ watcher' = [watcher EXCEPT !.InventoryVersion = version, !.Devices = devices]
          /\ Settle(OnWatcherFact("Removed", task.device, p), TRUE)
          /\ UNCHANGED <<lifecycle, policy, recoveryEpochs, settings, stopRequested, scope>>
        BY <1>7 DEF OnDeviceRemoved, WatcherAccepts, version
    <2>2. devices \in SUBSET Device
        BY <1>5
    <2> HIDE DEF devices
    <2> QED BY <1>4, <2>1, <2>2, Zenon
<1> QED BY <1>2, <1>3, <1>6, <1>7
-----------------------------------------------------------------------------
(* Lifecycle and power transitions.                                        *)

LEMMA LifecycleKept ==
    ASSUME Inv, NEW ss, NEW publishes, Advances(ss, policy), DOMAIN ss = DOMAIN sessions,
           Settle(ss, publishes), ~isShutdown, isShutdown' = isShutdown,
           isRunning' \in BOOLEAN, isSuspended' \in BOOLEAN, watcher' \in Watcher,
           DOMAIN recoveryEpochs' \subseteq DOMAIN sessions,
           \A d \in DOMAIN recoveryEpochs' : recoveryEpochs'[d] \in Nat,
           UNCHANGED <<policy, incoming>>
    PROVE  Inv'
<1>1. SessionsSound' /\ DOMAIN sessions' = DOMAIN sessions /\ DOMAIN sessions \subseteq Device
    BY SettleSound DEF Inv, SessionsSound, SessionsTyped
<1>2. RestTyped'
    BY <1>1 DEF Inv, RestTyped, incoming
<1>3. NewestIsOnItsWay'
    BY NewestKept DEF incoming
<1>4. ReleasedIsGone'
    BY <1>1, ReleasedKept
<1> QED BY <1>1, <1>2, <1>3, <1>4 DEF Inv

LEMMA LifecycleTypes ==
    ASSUME Inv
    PROVE  /\ watcher \in Watcher /\ isRunning \in BOOLEAN /\ isSuspended \in BOOLEAN
           /\ scope \in Scopes
           /\ ~isShutdown => DOMAIN recoveryEpochs \subseteq DOMAIN sessions
           /\ \A d \in DOMAIN recoveryEpochs : recoveryEpochs[d] \in Nat
           /\ \A d \in DOMAIN sessions : d \in Device /\ sessions[d] \in SessionState
           /\ Advances(sessions, policy)
BY NoneAdvances DEF Inv, RestTyped, ReleasedIsGone, SessionsSound, SessionsTyped

LEMMA StartStopKept ==
    ASSUME Inv, Stop \/ \E granted \in BOOLEAN : Start(granted)
    PROVE  Inv'
<1>1. ASSUME Stop
      PROVE  Inv'
    <2>1. /\ ~isShutdown /\ watcher' = Stopped(watcher) /\ isRunning' = FALSE
          /\ Settle(sessions, TRUE)
          /\ UNCHANGED <<isSuspended, isShutdown, policy, recoveryEpochs, incoming>>
        BY <1>1 DEF Stop, Accepts
    <2>2. watcher' \in Watcher
        BY <2>1, LifecycleTypes, WatcherTypes
    <2> QED BY <2>1, <2>2, LifecycleTypes, LifecycleKept
<1>2. ASSUME NEW granted \in BOOLEAN, Start(granted)
      PROVE  Inv'
    <2>1. /\ ~isShutdown /\ watcher' = Started(watcher, granted)
          /\ isRunning' = StartIsTaken(watcher, granted)
          /\ Settle(sessions, TRUE)
          /\ UNCHANGED <<isSuspended, isShutdown, policy, recoveryEpochs, incoming>>
        BY <1>2 DEF Start, Accepts
    <2>2. watcher' \in Watcher /\ isRunning' \in BOOLEAN
        BY <2>1, LifecycleTypes DEF Started, StartIsTaken, Watcher
    <2> QED BY <2>1, <2>2, LifecycleTypes, LifecycleKept
<1> QED BY <1>1, <1>2


(* Every session is taken onward under one lambda.                         *)
LEMMA EveryAdvances ==
    ASSUME Inv, NEW ss, DOMAIN ss = DOMAIN sessions,
           \A d \in DOMAIN sessions : Onward(sessions[d], ss[d])
    PROVE  Advances(ss, policy)
<1>1. DOMAIN sessions \subseteq Device
    BY DEF Inv, SessionsSound, SessionsTyped
<1> QED BY <1>1, AllAdvance

LEMMA CaptureKept ==
    ASSUME Inv, NEW p \in EachPlatform, CapturePowerTransitionRecoveryAndSuspend(p)
    PROVE  Inv'
<1> DEFINE ss == UpdateAll(LAMBDA s, d : Run(Session!Suspend(s, p[d]), p[d]))
<1>1. /\ ~isShutdown /\ isSuspended' = TRUE /\ watcher' = Stopped(watcher)
      /\ recoveryEpochs' = [d \in RecoveryDeviceIds |-> ss[d].OperationEpoch]
      /\ Settle(ss, TRUE)
      /\ UNCHANGED <<isRunning, isShutdown, policy, incoming>>
    BY DEF CapturePowerTransitionRecoveryAndSuspend, Accepts, UpdateAll
<1>2. /\ DOMAIN ss = DOMAIN sessions
      /\ \A d \in DOMAIN sessions : ss[d] = Run(Session!Suspend(sessions[d], p[d]), p[d])
    BY DEF UpdateAll
<1> HIDE DEF ss
<1>3. \A d \in DOMAIN sessions : Onward(sessions[d], ss[d])
    <2> SUFFICES ASSUME NEW d \in DOMAIN sessions
                 PROVE  Onward(sessions[d], ss[d])
        OBVIOUS
    <2> DEFINE s == sessions[d]
               q == p[d]
    <2>1. q \in Session!PlatformOutcome /\ s \in SessionState
        BY LifecycleTypes, ScopeTypes
    <2>2. ss[d] = Run(Session!Suspend(s, q), q)
        BY <1>2
    <2> HIDE DEF s, q
    <2>3. Onward(s, ss[d])
        BY <2>1, <2>2, SuspendFollows, RunFollows
    <2> QED BY <2>3 DEF s
<1>4. Advances(ss, policy)
    BY <1>2, <1>3, EveryAdvances
<1>5. /\ DOMAIN recoveryEpochs' \subseteq DOMAIN sessions
      /\ \A d \in DOMAIN recoveryEpochs' : recoveryEpochs'[d] \in Nat
    BY <1>1, <1>2, <1>4 DEF RecoveryDeviceIds, Advances, SessionState, Session!SessionState
<1>6. watcher' \in Watcher /\ isRunning' \in BOOLEAN
    BY <1>1, LifecycleTypes, WatcherTypes
<1> QED BY <1>1, <1>2, <1>4, <1>5, <1>6, LifecycleKept

LEMMA ResumeAfterPowerTransitionKept ==
    ASSUME Inv, NEW granted \in BOOLEAN, ResumeAfterPowerTransition(granted)
    PROVE  Inv'
<1> DEFINE stopped == IF isSuspended THEN watcher ELSE Stopped(watcher)
           released == UpdateAll(LAMBDA s, d : Session!ResumeIdleAfterPowerTransition(s))
           ss == IF isSuspended THEN released ELSE sessions
<1>1. /\ ~isShutdown /\ isSuspended' = FALSE /\ Settle(ss, TRUE)
      /\ watcher' = IF isRunning THEN Started(stopped, granted) ELSE watcher
      /\ isRunning' = (isRunning /\ StartIsTaken(stopped, granted))
      /\ UNCHANGED <<isShutdown, policy, recoveryEpochs, incoming>>
    BY DEF ResumeAfterPowerTransition, Accepts, UpdateAll
<1>2. /\ DOMAIN released = DOMAIN sessions
      /\ \A d \in DOMAIN sessions :
            released[d] = Session!ResumeIdleAfterPowerTransition(sessions[d])
    BY DEF UpdateAll
<1>3. stopped \in Watcher
    BY LifecycleTypes, WatcherTypes
<1> HIDE DEF released, stopped
<1>4. \A d \in DOMAIN sessions : Onward(sessions[d], released[d])
    BY <1>2, LifecycleTypes, ResumeIdleFollows
<1>5. Advances(ss, policy) /\ DOMAIN ss = DOMAIN sessions
    <2>1. Advances(released, policy)
        BY <1>2, <1>4, EveryAdvances
    <2> QED BY <1>2, <2>1, NoneAdvances
<1> HIDE DEF ss
<1>6. watcher' \in Watcher /\ isRunning' \in BOOLEAN
    BY <1>1, <1>3, LifecycleTypes, WatcherTypes
<1>7. isSuspended' \in BOOLEAN
    BY <1>1
<1> QED BY <1>1, <1>5, <1>6, <1>7, LifecycleTypes, LifecycleKept

LEMMA ResumeKept ==
    ASSUME Inv, NEW granted \in BOOLEAN, NEW p \in EachPlatform, Resume(granted, p)
    PROVE  Inv'
<1> DEFINE ss == UpdateAll(LAMBDA s, d : Run(Session!Resume(s, p[d]), p[d]))
<1>1. /\ ~isShutdown /\ isSuspended' = FALSE /\ Settle(ss, TRUE)
      /\ watcher' = IF isRunning THEN Started(watcher, granted) ELSE watcher
      /\ isRunning' = (isRunning /\ StartIsTaken(watcher, granted))
      /\ recoveryEpochs' = Nothing
      /\ UNCHANGED <<isShutdown, policy, incoming>>
    BY DEF Resume, Accepts, UpdateAll
<1>2. /\ DOMAIN ss = DOMAIN sessions
      /\ \A d \in DOMAIN sessions : ss[d] = Run(Session!Resume(sessions[d], p[d]), p[d])
    BY DEF UpdateAll
<1> HIDE DEF ss
<1>3. \A d \in DOMAIN sessions : Onward(sessions[d], ss[d])
    <2> SUFFICES ASSUME NEW d \in DOMAIN sessions
                 PROVE  Onward(sessions[d], ss[d])
        OBVIOUS
    <2> DEFINE s == sessions[d]
               q == p[d]
    <2>1. q \in Session!PlatformOutcome /\ s \in SessionState
        BY LifecycleTypes, ScopeTypes
    <2>2. ss[d] = Run(Session!Resume(s, q), q)
        BY <1>2
    <2> HIDE DEF s, q
    <2>3. Onward(s, ss[d])
        BY <2>1, <2>2, ResumeFollows, RunFollows
    <2> QED BY <2>3 DEF s
<1>4. Advances(ss, policy)
    BY <1>2, <1>3, EveryAdvances
<1>5. /\ DOMAIN recoveryEpochs' \subseteq DOMAIN sessions
      /\ \A d \in DOMAIN recoveryEpochs' : recoveryEpochs'[d] \in Nat
    BY <1>1 DEF Nothing
<1>6. watcher' \in Watcher /\ isRunning' \in BOOLEAN /\ isSuspended' \in BOOLEAN
    BY <1>1, LifecycleTypes, WatcherTypes
<1> QED BY <1>1, <1>2, <1>4, <1>5, <1>6, LifecycleKept

(* The sessions after a delayed delivery, device by device.                *)
Recovered(d, p) ==
    IF IsStillHeld(d) THEN Run(Session!Resume(sessions[d], p), p)
    ELSE Session!CancelPowerTransitionRecovery(sessions[d])

LEMMA ResumeSuspendedSteps ==
    ASSUME Inv, NEW deviceIds \in SUBSET Device, NEW p \in EachPlatform,
           ResumeSuspendedSessions(deviceIds, p)
    PROVE  /\ ~isShutdown /\ DOMAIN recoveryEpochs' = DOMAIN recoveryEpochs \ deviceIds
           /\ \A d \in DOMAIN recoveryEpochs' : recoveryEpochs'[d] = recoveryEpochs[d]
           /\ UNCHANGED <<lifecycle, policy, watcher, incoming>>
           /\ \E ss : /\ Settle(ss, TRUE) /\ Advances(ss, policy) /\ DOMAIN ss = DOMAIN sessions
                      /\ \A d \in (deviceIds \cap DOMAIN recoveryEpochs) \cap DOMAIN sessions :
                            ss[d] = Recovered(d, p[d])
<1> DEFINE recovering == deviceIds \cap DOMAIN recoveryEpochs
           ss == UpdateAll(LAMBDA s, d :
                     IF d \notin recovering THEN s
                     ELSE IF IsStillHeld(d)
                          THEN Run(Session!Resume(s, p[d]), p[d])
                          ELSE Session!CancelPowerTransitionRecovery(s))
<1>1. /\ ~isShutdown /\ Settle(ss, TRUE)
      /\ recoveryEpochs' = Restrict(recoveryEpochs, DOMAIN recoveryEpochs \ recovering)
      /\ UNCHANGED <<lifecycle, policy, watcher, incoming>>
    BY DEF ResumeSuspendedSessions, Accepts, UpdateAll
<1>2. /\ DOMAIN ss = DOMAIN sessions
      /\ \A d \in DOMAIN sessions :
            ss[d] = IF d \notin recovering THEN sessions[d] ELSE Recovered(d, p[d])
    BY DEF UpdateAll, Recovered
<1> HIDE DEF ss
<1>3. \A d \in DOMAIN sessions : Onward(sessions[d], ss[d])
    <2> SUFFICES ASSUME NEW d \in DOMAIN sessions
                 PROVE  Onward(sessions[d], ss[d])
        OBVIOUS
    <2> DEFINE s == sessions[d]
               q == p[d]
    <2>1. q \in Session!PlatformOutcome /\ s \in SessionState
        BY LifecycleTypes, ScopeTypes
    <2>2. ss[d] \in {s, Run(Session!Resume(s, q), q), Session!CancelPowerTransitionRecovery(s)}
        BY <1>2 DEF Recovered
    <2> HIDE DEF s, q
    <2>3. Onward(s, Run(Session!Resume(s, q), q))
        BY <2>1, ResumeFollows, RunFollows
    <2>4. Onward(s, Session!CancelPowerTransitionRecovery(s)) /\ Onward(s, s)
        BY <2>1, CancelPowerTransitionRecoveryFollows, Follow
    <2>5. Onward(s, ss[d])
        BY <2>2, <2>3, <2>4
    <2> QED BY <2>5 DEF s
<1>4. Advances(ss, policy)
    BY <1>2, <1>3, EveryAdvances
<1>5. /\ DOMAIN recoveryEpochs' = DOMAIN recoveryEpochs \ deviceIds
      /\ \A d \in DOMAIN recoveryEpochs' : recoveryEpochs'[d] = recoveryEpochs[d]
    BY <1>1 DEF Restrict
<1>6. \A d \in (deviceIds \cap DOMAIN recoveryEpochs) \cap DOMAIN sessions :
        ss[d] = Recovered(d, p[d])
    BY <1>2
<1> QED BY <1>1, <1>2, <1>4, <1>5, <1>6, Zenon

LEMMA ResumeSuspendedSessionsKept ==
    ASSUME Inv, NEW deviceIds \in SUBSET Device, NEW p \in EachPlatform,
           ResumeSuspendedSessions(deviceIds, p)
    PROVE  Inv'
<1>1. PICK ss : Settle(ss, TRUE) /\ Advances(ss, policy) /\ DOMAIN ss = DOMAIN sessions
    BY ResumeSuspendedSteps, Zenon
<1>2. /\ ~isShutdown /\ DOMAIN recoveryEpochs' = DOMAIN recoveryEpochs \ deviceIds
      /\ \A d \in DOMAIN recoveryEpochs' : recoveryEpochs'[d] = recoveryEpochs[d]
      /\ UNCHANGED <<lifecycle, policy, watcher, incoming>>
    BY ResumeSuspendedSteps, Zenon
<1>3. /\ DOMAIN recoveryEpochs' \subseteq DOMAIN sessions
      /\ \A d \in DOMAIN recoveryEpochs' : recoveryEpochs'[d] \in Nat
    BY <1>2, LifecycleTypes
<1>4. /\ isShutdown' = isShutdown /\ isRunning' \in BOOLEAN /\ isSuspended' \in BOOLEAN
      /\ watcher' \in Watcher
    BY <1>2, LifecycleTypes DEF lifecycle
<1> QED BY <1>1, <1>2, <1>3, <1>4, LifecycleKept

LEMMA ShutdownKept ==
    ASSUME Inv, Shutdown
    PROVE  Inv'
<1>1. /\ ~isShutdown /\ isShutdown' = TRUE /\ isRunning' = FALSE /\ sessions' = Nothing
      /\ watcher' = [Stopped(watcher) EXCEPT !.WatcherGeneration = watcher.WatcherGeneration + 1]
      /\ UNCHANGED <<isSuspended, policy, recoveryEpochs, incoming>>
    BY DEF Shutdown, Accepts
<1>2. operations \in [Command -> Completions]
    BY DEF Inv, SessionsSound, SessionsTyped
<1>3. \A c \in Command : operations'[c] \in Completions /\ ~Pends(operations'[c])
    <2> SUFFICES ASSUME NEW c \in Command
                 PROVE  operations'[c] \in Completions /\ ~Pends(operations'[c])
        OBVIOUS
    <2> DEFINE o == operations[c]
               over == [o EXCEPT !.Status = "Cancelled"]
    <2>1. operations'[c] = IF Pends(o) THEN over ELSE o
        BY DEF Shutdown, Pends
    <2>2. o \in Completions /\ (Pends(o) => o \in DeviceOperationCompletion)
        BY <1>2 DEF Completions, Pends, NoCompletion
    <2> HIDE DEF o
    <2>3. Pends(o) => over \in DeviceOperationCompletion /\ over.Status = "Cancelled"
        BY <2>2 DEF DeviceOperationCompletion, DeviceOperationStatus
    <2> QED BY <2>1, <2>2, <2>3 DEF Pends, Completions
<1>4. operations' \in [Command -> Completions]
    <2>1. operations' = [c \in Command |-> operations'[c]]
        BY DEF Shutdown
    <2> QED BY <1>3, <2>1
<1>5. \A c \in Command : ~IsPending(c)'
    BY <1>3 DEF IsPending, Pends
<1>6. SessionsTyped' /\ SessionsFollowThePolicy'
    BY <1>1, <1>4 DEF SessionsTyped, SessionsFollowThePolicy, Nothing
<1>7. OperationsAreFollowed' /\ EpochsAreBehind' /\ OneOwnerPerEpoch'
    BY <1>5 DEF OperationsAreFollowed, EpochsAreBehind, OneOwnerPerEpoch
<1>8. SessionsSound'
    BY <1>6, <1>7 DEF SessionsSound
<1>9. watcher' \in Watcher
    BY <1>1, LifecycleTypes, WatcherTypes
<1>10. RestTyped'
    BY <1>1, <1>9 DEF Inv, RestTyped, incoming
<1>11. NewestIsOnItsWay'
    BY <1>1 DEF Inv, NewestIsOnItsWay, IsUpToDate, incoming
<1>12. ReleasedIsGone'
    BY <1>1 DEF ReleasedIsGone, Nothing
<1> QED BY <1>8, <1>10, <1>11, <1>12 DEF Inv

-----------------------------------------------------------------------------
(* The invariant.                                                          *)

LEMMA InitSound == Init => Inv
<1> SUFFICES ASSUME Init PROVE Inv
    OBVIOUS
<1>1. /\ DOMAIN sessions = {} /\ DOMAIN recoveryEpochs = {}
      /\ operations = [c \in Command |-> NoCompletion]
    BY DEF Init, Nothing
<1>2. operations \in [Command -> Completions] /\ \A c \in Command : ~IsPending(c)
    BY <1>1 DEF Completions, NoCompletion, IsPending
<1>3. SessionsSound
    BY <1>1, <1>2 DEF SessionsSound, SessionsTyped, OperationsAreFollowed, OneOwnerPerEpoch,
                      EpochsAreBehind, SessionsFollowThePolicy
<1>4. DefaultPolicy \in DeviceSettingsPolicy
    BY DEF DefaultPolicy, DeviceSettingsPolicy
<1>5. RestTyped
    BY <1>1, <1>4 DEF Init, RestTyped, Watcher
<1>6. NewestIsOnItsWay
    BY <1>4 DEF Init, NewestIsOnItsWay, IsUpToDate, DeviceSettingsPolicy
<1>7. ReleasedIsGone
    BY <1>1 DEF Init, ReleasedIsGone
<1> QED BY <1>3, <1>5, <1>6, <1>7 DEF Inv

LEMMA NextKept == Inv /\ [Next]_vars => Inv'
<1> SUFFICES ASSUME Inv, [Next]_vars
             PROVE  Inv'
    OBVIOUS
<1>1. scope \in Scopes /\ scope.commands \subseteq Command
    BY DeviceServiceAssumption DEF Inv, RestTyped
<1>2. CASE Call
    <2>1. ASSUME NEW c \in scope.commands, NEW d \in Device, Connect(c, d) \/ Reconnect(c, d)
          PROVE  Inv'
        BY <1>1, <2>1, ConnectKept
    <2>2. ASSUME NEW d \in Device, Disconnect(d) \/ CancelReconnect(d)
          PROVE  Inv'
        BY <2>2, DisconnectKept, CancelReconnectKept
    <2>3. ASSUME NEW ids \in SUBSET Device, ConnectStartupTargets(ids)
          PROVE  Inv'
        BY <2>3, ConnectStartupTargetsKept
    <2> QED BY <1>2, <2>1, <2>2, <2>3, BulkKept, ShutdownKept DEF Call
<1>3. CASE Wait
    BY <1>3, WaitKept, CancelOperationKept DEF Wait
<1>4. CASE Configure
    BY <1>4, ChangeSettingsKept, RequestStopKept, ApplySettingsPolicyKept DEF Configure
<1>5. CASE Watch
    <2>1. ASSUME NEW task \in tasks,
                 \/ Drop(task) \/ OnEnumerationCompleted(task) \/ OnRefreshed(task)
                 \/ \E p \in scope.platforms : OnDeviceAdded(task, p) \/ OnDeviceRemoved(task, p)
          PROVE  Inv'
        BY <2>1, DropKept, WatcherTasksKept
    <2> QED BY <1>5, <2>1, StartStopKept, RaiseKept DEF Watch
<1>6. CASE Power
    <2>1. ASSUME NEW p \in EachPlatform,
                 \/ CapturePowerTransitionRecoveryAndSuspend(p)
                 \/ \E granted \in BOOLEAN : Resume(granted, p)
                 \/ \E deviceIds \in SUBSET Device : ResumeSuspendedSessions(deviceIds, p)
          PROVE  Inv'
        BY <2>1, CaptureKept, ResumeKept, ResumeSuspendedSessionsKept
    <2> QED BY <1>6, <2>1, ResumeAfterPowerTransitionKept DEF Power
<1>7. CASE Native
    <2>1. ASSUME NEW d \in DOMAIN sessions, NEW state \in Session!DeviceConnectionState,
                 RaiseStateChanged(d, state)
          PROVE  Inv'
        BY <2>1, RaiseStateChangedKept
    <2>2. ASSUME NEW d \in DOMAIN sessions, NEW c \in sessions[d].callbacks,
                 NEW a \in scope.answers, NEW p \in scope.platforms, RunCallback(d, c, a, p)
          PROVE  Inv'
        BY <2>2, RunCallbackKept
    <2> QED BY <1>7, <2>1, <2>2 DEF Native
<1>8. CASE UNCHANGED vars
    <2>1. /\ UNCHANGED <<sessions, operations, policy>>
          /\ UNCHANGED <<lifecycle, policy, recoveryEpochs, watcher, incoming>>
        BY <1>8 DEF vars
    <2>2. SessionsSound'
        BY <2>1, StillSound
    <2>3. RestTyped' /\ NewestIsOnItsWay' /\ ReleasedIsGone'
        BY <2>1, RestKept
    <2> QED BY <2>2, <2>3 DEF Inv
<1> QED BY <1>2, <1>3, <1>4, <1>5, <1>6, <1>7, <1>8 DEF Next

(* Whatever is called, posted or called back, and in whatever order: what  *)
(* is pending is busy in its epoch or closing, every session obeys the     *)
(* policy in force, and the newest policy is in force or on its way        *)
(* (DeviceService::State).                                                 *)
THEOREM ServiceInvariant == Spec => []Inv
<1> QED BY InitSound, NextKept, PTL DEF Spec

LEMMA InvIsEnough == Inv => WaitsAreSound /\ SettingsReachSessions
<1> SUFFICES ASSUME Inv PROVE WaitsAreSound /\ SettingsReachSessions
    OBVIOUS
<1>1. TypeOK
    BY DEF Inv, SessionsSound, SessionsTyped, RestTyped, TypeOK, SessionState, Completions
<1>2. WaitsAreSound
    BY <1>1 DEF Inv, SessionsSound, WaitsAreSound
<1>3. ASSUME ~stopRequested, ~isShutdown, \A t \in tasks : t.kind # "Policy"
      PROVE  /\ policy = settings
             /\ \A d \in DOMAIN sessions :
                    /\ sessions[d].IsReconnectEnabled = FollowsReconnect(d)
                    /\ sessions[d].IsIncomingEnabled = settings.AllowIncomingConnections
    <2>1. policy = settings
        BY <1>3 DEF Inv, NewestIsOnItsWay
    <2> QED BY <2>1 DEF Inv, SessionsSound, SessionsFollowThePolicy, Obeys, FollowsUnder,
                        FollowsReconnect
<1>4. SettingsReachSessions
    BY <1>3 DEF SettingsReachSessions
<1> QED BY <1>2, <1>4

(* While a completion is pending its session exists and is busy in the     *)
(* epoch that is waited for, or is closing, and of all that wait for an    *)
(* epoch one at most may cancel it (DeviceOperationCompletion,             *)
(* ResolveOperation).                                                      *)
THEOREM EveryWaitIsSound == Spec => []WaitsAreSound
<1> QED BY ServiceInvariant, InvIsEnough, PTL

(* Once no policy is on its way, the newest settings are in force and      *)
(* every session follows them, whatever the order in which they were       *)
(* posted and the sessions were made (ApplySettingsPolicy,                 *)
(* GetOrCreateSession).                                                    *)
THEOREM TheSettingsReachSessions == Spec => []SettingsReachSessions
<1> QED BY ServiceInvariant, InvIsEnough, PTL

-----------------------------------------------------------------------------
(* What a step may do to a caller that is cancelling.                      *)

CallersStay == \A c \in Command : operations'[c].caller = operations[c].caller

(* The facts of a session settle completions and take no caller away.      *)
LEMMA ResolvedKeepsCallers ==
    ASSUME Inv, NEW ss, NEW publishes
    PROVE  LET r == Resolved(ss, publishes) IN
           /\ DOMAIN r = Command
           /\ \A c \in Command : r[c].caller = operations[c].caller
<1> DEFINE r == Resolved(ss, publishes)
<1>1. SUFFICES ASSUME NEW c \in Command
               PROVE  r[c].caller = operations[c].caller
    BY DEF Resolved
<1> DEFINE o == operations[c]
           snapshots == Snapshots(ss, o.DeviceId, publishes)
<1>2. r[c] = IF o.caller = "None" \/ isShutdown THEN o ELSE ResolveAlong(o, snapshots)
    BY DEF Resolved
<1>3. o \in Completions
    BY DEF Inv, SessionsSound, SessionsTyped
<1> HIDE DEF o, snapshots, r
<1>4. \/ ResolveAlong(o, snapshots) = o
      \/ /\ o.caller # "None"
         /\ \E status : ResolveAlong(o, snapshots) = [o EXCEPT !.Status = status]
    BY Zenon DEF ResolveAlong
<1>5. ASSUME o.caller # "None", NEW status
      PROVE  [o EXCEPT !.Status = status].caller = o.caller
    BY <1>3, <1>5 DEF Completions, NoCompletion, DeviceOperationCompletion
<1> QED BY <1>2, <1>4, <1>5 DEF o

LEMMA SettledKeepsCallers ==
    ASSUME Inv, NEW ss, NEW publishes, Settle(ss, publishes)
    PROVE  CallersStay
BY ResolvedKeepsCallers DEF Settle, CallersStay

LEMMA SubmitTakesNone ==
    ASSUME Inv, NEW b \in Command, NEW e, NEW s, NEW after, Submit(b, e, s, after),
           NEW c \in Command
    PROVE  operations'[c].caller \in {operations[c].caller, "Waiting"}
<1> DEFINE r == Resolved(UpdateSession(e, after), FALSE)
           owns == after.OperationEpoch # s.OperationEpoch
           new == Completion(e, after, owns)
<1>1. operations' = [r EXCEPT ![b] = IF Refuses(s) THEN @ ELSE new]
    BY Zenon DEF Submit, r, owns, new
<1>2. DOMAIN r = Command /\ r[c].caller = operations[c].caller
    BY ResolvedKeepsCallers
<1>3. new.caller = "Waiting"
    BY DEF Completion
<1> HIDE DEF r, new
<1>4. operations'[c] \in {r[c], new}
    BY <1>1, <1>2
<1> QED BY <1>2, <1>3, <1>4

LEMMA CancelOperationTakesOne ==
    ASSUME Inv, NEW b \in Command, CancelOperation(b), NEW c \in Command, c # b
    PROVE  operations'[c].caller = operations[c].caller
<1>1. PICK p \in scope.platforms :
        \E ss \in {AfterCancellation(operations[b], p)} :
            Stored(ss) /\ operations' = [Resolved(ss, FALSE) EXCEPT ![b] = NoCompletion]
    BY DEF CancelOperation
<1> DEFINE r == Resolved(AfterCancellation(operations[b], p), FALSE)
<1>2. operations' = [r EXCEPT ![b] = NoCompletion]
    BY <1>1
<1>3. DOMAIN r = Command /\ r[c].caller = operations[c].caller
    BY ResolvedKeepsCallers
<1> HIDE DEF r
<1> QED BY <1>2, <1>3

LEMMA ShutdownKeepsCallers ==
    ASSUME Inv, Shutdown
    PROVE  CallersStay
<1> SUFFICES ASSUME NEW c \in Command
             PROVE  operations'[c].caller = operations[c].caller
    BY DEF CallersStay
<1> DEFINE o == operations[c]
           over == [o EXCEPT !.Status = "Cancelled"]
<1>1. operations'[c] = IF Pends(o) THEN over ELSE o
    BY DEF Shutdown, Pends
<1>2. Pends(o) => o \in DeviceOperationCompletion
    BY DEF Completions, Pends, NoCompletion, Inv, SessionsSound, SessionsTyped
<1> HIDE DEF o
<1>3. Pends(o) => over.caller = o.caller
    BY <1>2 DEF DeviceOperationCompletion
<1> QED BY <1>1, <1>3 DEF o

(* Only its own cancellation takes a cancelling caller away.               *)
LEMMA OnlyItsCancellation ==
    ASSUME Inv, Next, NEW c \in Command, operations[c].caller = "Cancelling",
           operations'[c].caller = "None"
    PROVE  CancelOperation(c)
<1>1. ~CallersStay
    BY DEF CallersStay
<1>2. scope.commands \subseteq Command
    BY DeviceServiceAssumption DEF Inv, RestTyped
<1>3. operations' # operations
    OBVIOUS
<1>4. \A ss, publishes : ~Settle(ss, publishes)
    BY <1>1, SettledKeepsCallers
<1>5. CASE Call
    <2>1. ASSUME NEW b \in scope.commands, NEW e \in Device, Connect(b, e) \/ Reconnect(b, e)
          PROVE  FALSE
        <3>1. PICK s, after : Submit(b, e, s, after)
            BY <2>1, Zenon DEF Connect, Reconnect
        <3> QED BY <1>2, <3>1, SubmitTakesNone
    <2>2. ASSUME NEW e \in Device, Disconnect(e) \/ CancelReconnect(e)
          PROVE  FALSE
        BY <1>4, <2>2, Zenon DEF Disconnect, CancelReconnect
    <2>3. ~CancelPendingReconnects /\ ~DisconnectAll /\ ~ReconnectAll
        BY <1>4 DEF CancelPendingReconnects, DisconnectAll, ReconnectAll, UpdateAll
    <2>4. ASSUME NEW ids \in SUBSET Device, ConnectStartupTargets(ids)
          PROVE  FALSE
        BY <1>4, <2>4, Zenon DEF ConnectStartupTargets
    <2>5. ~Shutdown
        BY <1>1, ShutdownKeepsCallers
    <2> QED BY <1>5, <2>1, <2>2, <2>3, <2>4, <2>5 DEF Call
<1>6. CASE Wait
    <2>1. PICK b \in Command : WaitReturns(b) \/ GiveUp(b) \/ CancelOperation(b)
        BY <1>6 DEF Wait
    <2>2. operations \in [Command -> Completions]
        BY DEF Inv, SessionsSound, SessionsTyped
    <2>3. ~WaitReturns(b) /\ ~GiveUp(b)
        BY <2>2 DEF WaitReturns, GiveUp
    <2> QED BY <2>1, <2>3, CancelOperationTakesOne
<1>7. CASE Configure
    <2>1. ASSUME NEW task \in tasks, NEW p \in EachPlatform, ApplySettingsPolicy(task, p)
          PROVE  FALSE
        BY <1>3, <1>4, <2>1, Zenon DEF ApplySettingsPolicy
    <2> QED BY <1>3, <1>7, <2>1, Zenon DEF Configure, ChangeSettings, RequestStop
<1>8. CASE Watch
    <2>1. ~Stop /\ \A granted \in BOOLEAN : ~Start(granted)
        BY <1>4, Zenon DEF Start, Stop
    <2>2. \A task : ~Posted(task)
        BY <1>3 DEF Posted
    <2>3. /\ \A kind \in {"Added", "Removed"}, d \in Device : ~RaiseWatcherEvent(kind, d)
          /\ ~RaiseEnumerationCompleted
          /\ \A devices \in SUBSET Device : ~RefreshAsync(devices)
        BY <2>2, Zenon DEF RaiseWatcherEvent, RaiseEnumerationCompleted, RefreshAsync
    <2>4. \A task \in tasks : ~Drop(task) /\ ~OnEnumerationCompleted(task) /\ ~OnRefreshed(task)
        BY <1>3, <1>4, Zenon DEF Drop, OnEnumerationCompleted, OnRefreshed
    <2>5. \A task \in tasks, p \in scope.platforms :
            ~OnDeviceAdded(task, p) /\ ~OnDeviceRemoved(task, p)
        BY <1>4, Zenon DEF OnDeviceAdded, OnDeviceRemoved
    <2> QED BY <1>8, <2>1, <2>3, <2>4, <2>5, Zenon DEF Watch
<1>9. CASE Power
    <2>1. \A granted \in BOOLEAN : ~ResumeAfterPowerTransition(granted)
        BY <1>4 DEF ResumeAfterPowerTransition, UpdateAll
    <2>2. \A p \in EachPlatform : ~CapturePowerTransitionRecoveryAndSuspend(p)
        BY <1>4 DEF CapturePowerTransitionRecoveryAndSuspend, UpdateAll
    <2>3. \A p \in EachPlatform, granted \in BOOLEAN : ~Resume(granted, p)
        BY <1>4 DEF Resume, UpdateAll
    <2>4. \A deviceIds \in SUBSET Device, p \in EachPlatform :
            ~ResumeSuspendedSessions(deviceIds, p)
        BY <1>4, ResumeSuspendedSteps, Zenon
    <2> QED BY <1>9, <2>1, <2>2, <2>3, <2>4 DEF Power
<1>10. CASE Native
    <2>1. ASSUME NEW d \in DOMAIN sessions, NEW state \in Session!DeviceConnectionState,
                 RaiseStateChanged(d, state)
          PROVE  FALSE
        BY <1>3, <2>1, Zenon DEF RaiseStateChanged
    <2>2. ASSUME NEW d \in DOMAIN sessions, NEW x \in sessions[d].callbacks,
                 NEW a \in scope.answers, NEW p \in scope.platforms, RunCallback(d, x, a, p)
          PROVE  FALSE
        BY <1>4, <2>2, Zenon DEF RunCallback
    <2> QED BY <1>10, <2>1, <2>2 DEF Native
<1> QED BY <1>5, <1>6, <1>7, <1>8, <1>9, <1>10 DEF Next


(* A session without facts stays what it is when its facts are taken.      *)
LEMMA EmptiedSame ==
    ASSUME NEW s \in SessionState, s.facts = <<>>
    PROVE  [s EXCEPT !.facts = <<>>] = s
<1> DEFINE none == <<>>
           t == [s EXCEPT !.facts = none]
<1>1. t = [x \in DOMAIN s |-> s[x]]
    BY DEF SessionState, Session!SessionState
<1>2. s = [x \in DOMAIN s |-> s[x]]
    BY DEF SessionState, Session!SessionState
<1> QED BY <1>1, <1>2

LEMMA CancellationFenced ==
    ASSUME Inv, Next
    PROVE  CancellationIsFenced
<1> SUFFICES ASSUME NEW c \in Command, operations[c].caller = "Cancelling",
                    operations'[c].caller = "None", NEW d \in DOMAIN sessions
             PROVE  \/ d \in DOMAIN sessions' /\ sessions'[d] = sessions[d]
                    \/ /\ d = operations[c].DeviceId
                       /\ sessions[d].OperationEpoch = operations[c].Epoch
                       /\ sessions[d].Lifecycle \notin {"Connected", "Idle", "Failed"}
    BY DEF CancellationIsFenced
<1> DEFINE o == operations[c]
<1>1. CancelOperation(c)
    BY OnlyItsCancellation
<1>2. PICK p \in scope.platforms : Stored(AfterCancellation(o, p))
    BY <1>1 DEF CancelOperation
<1> DEFINE ss == AfterCancellation(o, p)
<1>3. (ss[d] = sessions[d] /\ d \in DOMAIN ss) \/ (MayCancel(o) /\ d = o.DeviceId)
    BY DEF AfterCancellation, UpdateSession
<1>4. sessions[d] \in SessionState /\ sessions[d].facts = <<>>
    BY DEF Inv, SessionsSound, SessionsTyped
<1>5. CASE ss[d] = sessions[d] /\ d \in DOMAIN ss
    <2> HIDE DEF ss
    <2>1. d \in DOMAIN sessions' /\ sessions'[d] = [sessions[d] EXCEPT !.facts = <<>>]
        BY <1>2, <1>5 DEF Stored, ss
    <2> QED BY <1>4, <2>1, EmptiedSame
<1>6. CASE MayCancel(o) /\ d = o.DeviceId
    <2>1. Pends(o) /\ sessions[d].OperationEpoch = o.Epoch
        BY <1>6 DEF MayCancel, Pends
    <2>2. Followed(o, sessions)
        BY <2>1, PendingFollowed DEF Inv
    <2> QED BY <1>6, <2>1, <2>2 DEF Followed
<1> QED BY <1>3, <1>5, <1>6

-----------------------------------------------------------------------------
(* What a step may do to a session that is held.                           *)

(* Only a command, a resume or a new suspend forgets the epoch of a hold.  *)
LEMMA OnlyTheseForget ==
    ASSUME Inv, Next, recoveryEpochs' # recoveryEpochs, ~isSuspended, ~isSuspended'
    PROVE  \/ \E c \in scope.commands, d \in Device : Connect(c, d) \/ Reconnect(c, d)
           \/ \E p \in EachPlatform, deviceIds \in SUBSET Device :
                ResumeSuspendedSessions(deviceIds, p)
<1>1. CASE Call
    <2>1. /\ ~CancelPendingReconnects /\ ~DisconnectAll /\ ~ReconnectAll /\ ~Shutdown
          /\ \A d \in Device : ~Disconnect(d) /\ ~CancelReconnect(d)
          /\ \A ids \in SUBSET Device : ~ConnectStartupTargets(ids)
        BY Zenon DEF CancelPendingReconnects, DisconnectAll, ReconnectAll, Shutdown, Disconnect,
                     CancelReconnect, ConnectStartupTargets
    <2> QED BY <1>1, <2>1, Zenon DEF Call
<1>2. ~Wait
    BY Zenon DEF Wait, WaitReturns, GiveUp, CancelOperation
<1>3. ~Configure
    BY Zenon DEF Configure, ChangeSettings, RequestStop, ApplySettingsPolicy
<1>4. ~Watch
    <2>1. \A task : ~Posted(task) /\ ~Drop(task)
        BY Zenon DEF Posted, Drop
    <2>2. /\ ~Stop /\ \A granted \in BOOLEAN : ~Start(granted)
          /\ \A kind \in {"Added", "Removed"}, d \in Device : ~RaiseWatcherEvent(kind, d)
          /\ ~RaiseEnumerationCompleted
          /\ \A devices \in SUBSET Device : ~RefreshAsync(devices)
        BY <2>1, Zenon DEF Start, Stop, RaiseWatcherEvent, RaiseEnumerationCompleted, RefreshAsync
    <2>3. \A task \in tasks :
            /\ ~OnEnumerationCompleted(task) /\ ~OnRefreshed(task)
            /\ \A p \in scope.platforms : ~OnDeviceAdded(task, p) /\ ~OnDeviceRemoved(task, p)
        BY Zenon DEF OnEnumerationCompleted, OnRefreshed, OnDeviceAdded, OnDeviceRemoved
    <2> QED BY <2>1, <2>2, <2>3, Zenon DEF Watch
<1>5. CASE Power
    <2>1. /\ \A granted \in BOOLEAN : ~ResumeAfterPowerTransition(granted)
          /\ \A p \in EachPlatform : ~CapturePowerTransitionRecoveryAndSuspend(p)
          /\ \A p \in EachPlatform, granted \in BOOLEAN : ~Resume(granted, p)
        BY Zenon DEF ResumeAfterPowerTransition, CapturePowerTransitionRecoveryAndSuspend, Resume
    <2> QED BY <1>5, <2>1, Zenon DEF Power
<1>6. ~Native
    BY Zenon DEF Native, RaiseStateChanged, RunCallback
<1> QED BY <1>1, <1>2, <1>3, <1>4, <1>5, <1>6 DEF Next

(* A command forgets the hold of its own device, and takes a caller or     *)
(* finds the session closing and leaves it.                                *)
LEMMA CommandForgets ==
    ASSUME Inv, NEW c \in Command, NEW e \in Device, Connect(c, e) \/ Reconnect(c, e),
           NEW d \in DOMAIN recoveryEpochs, d \notin DOMAIN recoveryEpochs'
    PROVE  \/ operations'[c] # operations[c]
           \/ /\ sessions'[d].OperationEpoch = sessions[d].OperationEpoch
              /\ sessions'[d].Connection = sessions[d].Connection
              /\ sessions'[d].Lifecycle = sessions[d].Lifecycle
<1>1. PICK p \in scope.platforms, operation \in {"ManualConnect", "ManualReconnect"} :
        \E s \in {GetOrCreateSession(e, p)} : Submit(c, e, s, Submitted(s, operation, p))
    BY DEF Connect, Reconnect
<1>2. p \in Session!PlatformOutcome /\ ~isShutdown
    BY ScopeTypes DEF Inv, RestTyped, Connect, Reconnect, Accepts
<1> DEFINE s == GetOrCreateSession(e, p)
           after == Submitted(s, operation, p)
           ss == UpdateSession(e, after)
<1>3. Submit(c, e, s, after) /\ s = GetOrCreateSession(e, p)
    BY <1>1
<1>4. s \in SessionState /\ (e \in DOMAIN sessions => s = sessions[e])
    BY <1>2, GetOrCreateSound
<1>5. d = e /\ d \in DOMAIN sessions
    BY <1>2, <1>3 DEF Submit, Restrict, Inv, ReleasedIsGone
<1> HIDE DEF s
<1>6. Onward(s, after)
    BY <1>2, <1>4, SubmittedFollows
<1>7. Refuses(s) => after = s
    BY DEF Submitted
<1>8. ss[d] = after /\ d \in DOMAIN ss
    BY <1>5 DEF UpdateSession
<1>9. Advances(ss, policy) /\ Stored(ss)
    BY <1>2, <1>3, <1>6, GivenAdvances DEF Submit
<1> HIDE DEF after, ss
<1>10. ~Refuses(s) => operations'[c] # operations[c]
    BY <1>2, <1>3, <1>6, SubmitSound
<1>11. /\ sessions'[d].Lifecycle = after.Lifecycle
       /\ sessions'[d].OperationEpoch = after.OperationEpoch
       /\ sessions'[d].Connection = after.Connection
    BY <1>8, <1>9, StoredSound
<1> QED BY <1>4, <1>5, <1>7, <1>10, <1>11

LEMMA RecoveryFenced ==
    ASSUME Inv, Next
    PROVE  RecoveryIsFenced
<1> SUFFICES ASSUME NEW d \in DOMAIN recoveryEpochs, d \notin DOMAIN recoveryEpochs',
                    ~isSuspended, ~isSuspended',
                    sessions[d].OperationEpoch # recoveryEpochs[d]
             PROVE  \/ \E c \in Command : operations[c] # operations'[c]
                    \/ /\ sessions'[d].OperationEpoch = sessions[d].OperationEpoch
                       /\ sessions'[d].Connection = sessions[d].Connection
                       /\ sessions'[d].Lifecycle = sessions[d].Lifecycle
    BY DEF RecoveryIsFenced
<1>1. scope.commands \subseteq Command
    BY DeviceServiceAssumption DEF Inv, RestTyped
<1>2. recoveryEpochs' # recoveryEpochs
    OBVIOUS
<1>3. CASE \E c \in scope.commands, e \in Device : Connect(c, e) \/ Reconnect(c, e)
    BY <1>1, <1>3, CommandForgets
<1>4. ASSUME NEW p \in EachPlatform, NEW deviceIds \in SUBSET Device,
             ResumeSuspendedSessions(deviceIds, p)
      PROVE  /\ sessions'[d].OperationEpoch = sessions[d].OperationEpoch
             /\ sessions'[d].Connection = sessions[d].Connection
             /\ sessions'[d].Lifecycle = sessions[d].Lifecycle
    <2>1. ~isShutdown /\ DOMAIN recoveryEpochs' = DOMAIN recoveryEpochs \ deviceIds
        BY <1>4, ResumeSuspendedSteps, Zenon
    <2>2. d \in deviceIds /\ d \in DOMAIN sessions /\ sessions[d] \in SessionState
        BY <2>1, LifecycleTypes
    <2>3. PICK ss : /\ Settle(ss, TRUE) /\ Advances(ss, policy) /\ DOMAIN ss = DOMAIN sessions
                    /\ \A e \in (deviceIds \cap DOMAIN recoveryEpochs) \cap DOMAIN sessions :
                            ss[e] = Recovered(e, p[e])
        BY <1>4, ResumeSuspendedSteps, Zenon
    <2>4. ss[d] = Session!CancelPowerTransitionRecovery(sessions[d])
        BY <2>2, <2>3 DEF Recovered, IsStillHeld
    <2>5. /\ ss[d].OperationEpoch = sessions[d].OperationEpoch
          /\ ss[d].Connection = sessions[d].Connection
          /\ ss[d].Lifecycle = sessions[d].Lifecycle
        BY <2>2, <2>4, CancelPowerTransitionRecoveryFollows
    <2>6. /\ sessions'[d].OperationEpoch = ss[d].OperationEpoch
          /\ sessions'[d].Connection = ss[d].Connection
          /\ sessions'[d].Lifecycle = ss[d].Lifecycle
        BY <2>2, <2>3, StoredSound DEF Settle
    <2> QED BY <2>5, <2>6
<1> QED BY <1>2, <1>3, <1>4, OnlyTheseForget

(* A late cancellation ends nothing but the operation it was made for, and *)
(* only while that is unfinished; a late recovery leaves the connection of *)
(* a session that was moved on from as it is (CancelOperation,             *)
(* ResumeSuspendedSessions).                                               *)
THEOREM LateWorkActsOnItsOwn == Spec => LateWorkIsFenced
<1>1. Inv /\ [Next]_vars => [CancellationIsFenced /\ RecoveryIsFenced]_vars
    BY CancellationFenced, RecoveryFenced
<1> QED BY <1>1, ServiceInvariant, PTL DEF Spec, LateWorkIsFenced
=============================================================================
