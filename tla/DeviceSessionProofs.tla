------------------------ MODULE DeviceSessionProofs ------------------------
(***************************************************************************)
(* For every set of addresses, every attempt budget and every order of     *)
(* calls and callbacks: the session keeps its types (TypeOK), never owns   *)
(* two native connections (ConnectionsDoNotOverlap), and always hears the  *)
(* one it owns (LiveConnectionIsHeard); a busy session has its way out     *)
(* outstanding (BusyIsAwaited), what was stopped stays stopped             *)
(* (StoppedStaysStopped), the service is told the state the session is in  *)
(* (SettledStateIsPublished), and a late callback changes nothing          *)
(* (LateCallbacksChangeNothing).                                           *)
(*                                                                         *)
(* Each member function is given a contract: from which of the named parts *)
(* of Good it may be called, and that it ends in Good.  A handler's proof  *)
(* then follows the calls it makes.  The second half of the module takes   *)
(* the contracts further for the promises to the user and the service.     *)
(***************************************************************************)
EXTENDS DeviceSession, TLAPS

Fields ==
    {"Connection", "ClosingConnection", "StateChangedToken", "HandlerEpoch",
     "OperationEpoch", "TimerEpoch", "CloseBarrierEpoch",
     "CompletedRetryAttempts", "TransientOpenRetryAttempts",
     "Lifecycle", "CurrentOperation", "IsIncomingEnabled", "IsReconnectEnabled",
     "IsReconnectCancelled", "IsSuspended", "IsShutdown", "OpenImmediately",
     "RetryEligible", "RestoreIncomingAfterClose", "ResumeRequired",
     "ResumeOpenImmediately", "ResumeRequested", "IsSuspendClosePending",
     "SuspendCloseEpoch", "IsCloseInFlight", "IsCloseCooldown",
     "IsCloseContinuationAbandoned", "Pending", "callbacks", "facts", "listenerDue"}

(* SessionState member by member, which is what the provers need of it.    *)
Typed(s) ==
    /\ DOMAIN s = Fields
    /\ s.Connection \in Address \cup {NoConnection}
    /\ s.ClosingConnection \in Address \cup {NoConnection}
    /\ s.StateChangedToken \in BOOLEAN /\ s.HandlerEpoch \in Nat
    /\ s.OperationEpoch \in Nat /\ s.TimerEpoch \in Nat /\ s.CloseBarrierEpoch \in Nat
    /\ s.CompletedRetryAttempts \in Nat /\ s.TransientOpenRetryAttempts \in Nat
    /\ s.Lifecycle \in DeviceLifecycleState /\ s.CurrentOperation \in DeviceOperationKind
    /\ s.IsIncomingEnabled \in BOOLEAN /\ s.IsReconnectEnabled \in BOOLEAN
    /\ s.IsReconnectCancelled \in BOOLEAN /\ s.IsSuspended \in BOOLEAN
    /\ s.IsShutdown \in BOOLEAN /\ s.OpenImmediately \in BOOLEAN
    /\ s.RetryEligible \in BOOLEAN /\ s.RestoreIncomingAfterClose \in BOOLEAN
    /\ s.ResumeRequired \in BOOLEAN /\ s.ResumeOpenImmediately \in BOOLEAN
    /\ s.ResumeRequested \in BOOLEAN /\ s.IsSuspendClosePending \in BOOLEAN
    /\ s.SuspendCloseEpoch \in Nat
    /\ s.IsCloseInFlight \in BOOLEAN /\ s.IsCloseCooldown \in BOOLEAN
    /\ s.IsCloseContinuationAbandoned \in BOOLEAN /\ s.Pending \in PendingClose
    /\ s.callbacks \subseteq Callback /\ s.facts \in Seq(DeviceSessionFact)
    /\ s.listenerDue \in BOOLEAN

(* At most one of a live connection, a closing one and a cooldown.         *)
Owned(s) ==
    /\ s.Connection # NoConnection => ~s.IsCloseInFlight
    /\ s.IsCloseInFlight <=> s.ClosingConnection # NoConnection \/ s.IsCloseCooldown
    /\ s.IsCloseCooldown => s.ClosingConnection = NoConnection

(* The handler is registered exactly while there is a live connection, in  *)
(* the epoch of the operation it belongs to.                               *)
Heard(s) ==
    /\ s.StateChangedToken <=> s.Connection # NoConnection
    /\ s.Connection # NoConnection => s.HandlerEpoch = s.OperationEpoch

(* No timer callback is of a later timer than the last one armed.          *)
TimersArePast(s) ==
    \A c \in s.callbacks :
        c.kind \in {"RetryTimer", "TransientOpenRetryTimer"} => c.timerEpoch <= s.TimerEpoch

(* What a timer of a waiting session finds when it fires: no close in      *)
(* flight, and for a transient retry no connection either.                 *)
Waits(s) ==
    s.Lifecycle = "WaitingForReconnect" =>
        /\ ~s.IsCloseInFlight
        /\ \A c \in s.callbacks :
            c.kind = "TransientOpenRetryTimer" /\ c.timerEpoch = s.TimerEpoch =>
                s.Connection = NoConnection

(* A listener start is due only after the end of an outgoing operation.    *)
Due(s) == s.listenerDue => s.OpenImmediately

Base(s) == Typed(s) /\ Owned(s) /\ TimersArePast(s) /\ Due(s)
Good(s) == Base(s) /\ Heard(s) /\ Waits(s)

(* What every internal call ends in.                                       *)
Ends(s, t) == Good(t) /\ t.OpenImmediately = s.OpenImmediately

-----------------------------------------------------------------------------
(* Types.                                                                  *)

LEMMA TypedMembers == ASSUME NEW s \in SessionState PROVE Typed(s)
BY DEF Typed, Fields, SessionState

LEMMA TypedRecord ==
    ASSUME NEW s, Typed(s), s = [x \in Fields |-> s[x]]
    PROVE  s \in SessionState
BY DEF Typed, Fields, SessionState

LEMMA SnapshotType == ASSUME NEW s, Typed(s) PROVE Snapshot(s) \in DeviceSessionSnapshot
BY DEF Typed, Snapshot, DeviceSessionSnapshot

LEMMA PublishForm ==
    ASSUME NEW s, Typed(s), NEW result \in DeviceConnectionResult, NEW terminal \in BOOLEAN,
           NEW reason \in DeviceDisconnectReason
    PROVE  \E q \in Seq(DeviceSessionFact) :
                Publish(s, result, terminal, reason) = [s EXCEPT !.facts = q]
<1> DEFINE fact == [Snapshot |-> Snapshot(s), Operation |-> s.CurrentOperation,
                    Result |-> result, IsTerminalFailure |-> terminal,
                    DisconnectReason |-> reason]
<1>1. fact \in DeviceSessionFact
    BY SnapshotType DEF DeviceSessionFact, Typed
<1>2. Publish(s, result, terminal, reason) = [s EXCEPT !.facts = Append(s.facts, fact)]
    BY DEF Publish
<1> HIDE DEF fact
<1>3. Append(s.facts, fact) \in Seq(DeviceSessionFact)
    BY <1>1 DEF Typed
<1> QED BY <1>2, <1>3

LEMMA PublishType ==
    ASSUME NEW s, Typed(s), NEW q \in Seq(DeviceSessionFact)
    PROVE  Typed([s EXCEPT !.facts = q])
BY DEF Typed, Fields

(* t has the types of a session and agrees with s on what Good speaks of.  *)
Alike(s, t) ==
    /\ Typed(t)
    /\ t.Connection = s.Connection /\ t.ClosingConnection = s.ClosingConnection
    /\ t.IsCloseInFlight = s.IsCloseInFlight /\ t.IsCloseCooldown = s.IsCloseCooldown
    /\ t.StateChangedToken = s.StateChangedToken
    /\ t.HandlerEpoch = s.HandlerEpoch /\ t.OperationEpoch = s.OperationEpoch
    /\ t.TimerEpoch = s.TimerEpoch /\ t.callbacks = s.callbacks
    /\ t.Lifecycle = s.Lifecycle /\ t.OpenImmediately = s.OpenImmediately
    /\ t.listenerDue = s.listenerDue

LEMMA AlikeKeeps ==
    ASSUME NEW s, NEW t, Alike(s, t)
    PROVE  /\ Base(s) => Base(t)
           /\ Heard(s) => Heard(t)
           /\ Waits(s) => Waits(t)
           /\ Good(s) => Good(t)
           /\ Good(s) => Ends(s, t)
BY DEF Alike, Base, Good, Ends, Owned, TimersArePast, Due, Heard, Waits

(* Publishing changes nothing but the facts.                               *)
LEMMA PublishAlike ==
    ASSUME NEW s, Typed(s), NEW result \in DeviceConnectionResult, NEW terminal \in BOOLEAN,
           NEW reason \in DeviceDisconnectReason
    PROVE  Alike(s, Publish(s, result, terminal, reason))
<1>1. PICK q \in Seq(DeviceSessionFact) :
            Publish(s, result, terminal, reason) = [s EXCEPT !.facts = q]
    BY PublishForm
<1>2. Typed([s EXCEPT !.facts = q])
    BY PublishType
<1>3. Alike(s, [s EXCEPT !.facts = q])
    BY <1>2 DEF Typed, Fields, Alike
<1> QED BY <1>1, <1>3

LEMMA AwaitKeeps ==
    ASSUME NEW s, Typed(s), NEW c \in Callback,
           c.kind \notin {"RetryTimer", "TransientOpenRetryTimer"}
    PROVE  LET t == Await(s, c) IN
           /\ Typed(t)
           /\ Owned(s) => Owned(t)
           /\ TimersArePast(s) => TimersArePast(t)
           /\ Due(s) => Due(t)
           /\ Heard(s) => Heard(t)
           /\ Waits(s) => Waits(t)
           /\ t.OpenImmediately = s.OpenImmediately /\ t.Lifecycle = s.Lifecycle
           /\ t.Connection = s.Connection /\ t.IsCloseInFlight = s.IsCloseInFlight
           /\ t.listenerDue = s.listenerDue
BY DEF Typed, Fields, Owned, TimersArePast, Due, Heard, Waits, Await

LEMMA NativeWorkType ==
    ASSUME NEW kind \in {"Started", "Opened"}, NEW epoch \in Nat, NEW address \in Address
    PROVE  /\ NativeWork(kind, epoch, address) \in Callback
           /\ NativeWork(kind, epoch, address).kind = kind
BY DEF NativeWork, Callback

LEMMA TimerWorkType ==
    ASSUME NEW kind \in {"RetryTimer", "TransientOpenRetryTimer"},
           NEW timerEpoch \in Nat, NEW epoch \in Nat
    PROVE  /\ TimerWork(kind, timerEpoch, epoch) \in Callback
           /\ TimerWork(kind, timerEpoch, epoch).kind = kind
           /\ TimerWork(kind, timerEpoch, epoch).timerEpoch = timerEpoch
BY DEF TimerWork, Callback

LEMMA BarrierWorkType ==
    ASSUME NEW kind \in {"CloseTimeout", "Closed", "Cooldown"}, NEW epoch \in Nat
    PROVE  /\ BarrierWork(kind, epoch) \in Callback
           /\ BarrierWork(kind, epoch).kind = kind
BY DEF BarrierWork, Callback

LEMMA NoPendingCloseType == NoPendingClose \in PendingClose
BY DEF NoPendingClose, PendingClose, CloseContinuation, DeviceConnectionResult,
       DeviceDisconnectReason

LEMMA InitialSessionGood == Good(InitialSession)
BY NoPendingCloseType
   DEF InitialSession, Good, Base, Typed, Fields, Owned, TimersArePast, Due, Heard, Waits,
       DeviceLifecycleState, DeviceOperationKind
-----------------------------------------------------------------------------
(* The close barrier.                                                      *)

LEMMA AbandonKeeps ==
    ASSUME NEW s, Good(s)
    PROVE  Ends(s, AbandonCloseContinuation(s))
BY NoPendingCloseType
   DEF AbandonCloseContinuation, Ends, Good, Base, Typed, Fields, Owned, TimersArePast, Due,
       Heard, Waits

(* BeginClose moves the live connection, if any, behind the barrier.       *)
LEMMA BeginCloseEnds ==
    ASSUME NEW s, Base(s), s.Connection # NoConnection \/ s.IsCloseInFlight,
           s.StateChangedToken => s.Connection # NoConnection,
           s.Lifecycle = "Disconnecting",
           NEW continuation \in CloseContinuation, NEW failure \in DeviceConnectionResult,
           NEW shouldRetry \in BOOLEAN, NEW completedAttempt \in BOOLEAN,
           NEW reason \in DeviceDisconnectReason, NEW p \in PlatformOutcome
    PROVE  Ends(s, BeginClose(s, continuation, failure, shouldRetry, completedAttempt,
                              reason, p))
<1> DEFINE pc == [Continuation |-> continuation, Failure |-> failure,
                  RetryEligible |-> shouldRetry, CompletedAttempt |-> completedAttempt,
                  DisconnectReason |-> reason]
           pended == [s EXCEPT !.Pending = pc, !.IsCloseContinuationAbandoned = FALSE]
           barrier == s.CloseBarrierEpoch + 1
           closing == [RevokeStateChanged(pended) EXCEPT
                        !.ClosingConnection = s.Connection, !.Connection = NoConnection,
                        !.IsCloseInFlight = TRUE, !.CloseBarrierEpoch = barrier]
           failed == Publish([closing EXCEPT !.Lifecycle = "Failed"], "Failed", TRUE, reason)
           timed == IF p.barrierTimer
                    THEN Await(closing, BarrierWork("CloseTimeout", barrier))
                    ELSE AbandonCloseContinuation(failed)
<1>1. pc \in PendingClose
    BY DEF PendingClose
<1>2. barrier \in Nat
    BY DEF Base, Typed
<1>3. CASE s.IsCloseInFlight
    <2> HIDE DEF pc
    <2>1. Ends(s, s) /\ Ends(s, pended)
        BY <1>1, <1>3
        DEF Ends, Good, Base, Typed, Fields, Owned, TimersArePast, Due, Heard, Waits
    <2> QED BY <2>1, <1>3 DEF BeginClose, pc
<1>4. CASE ~s.IsCloseInFlight
    <2> HIDE DEF pc, barrier
    <2>1. Ends(s, closing)
        BY <1>1, <1>2, <1>4
        DEF Ends, Good, Base, Typed, Fields, Owned, TimersArePast, Due, Heard, Waits,
            RevokeStateChanged
    <2>2. Ends(s, [closing EXCEPT !.Lifecycle = "Failed"])
        <3> HIDE DEF closing
        <3> QED BY <2>1
                DEF Ends, Good, Base, Typed, Fields, Owned, TimersArePast, Due, Heard, Waits,
                    DeviceLifecycleState
    <2> HIDE DEF closing
    <2>3. Ends(s, failed)
        <3>1. Alike([closing EXCEPT !.Lifecycle = "Failed"], failed)
            BY <2>2, PublishAlike DEF Ends, Good, Base, DeviceConnectionResult
        <3> HIDE DEF failed
        <3>2. Good(failed)
            BY <3>1, <2>2, AlikeKeeps DEF Ends
        <3>3. failed.OpenImmediately = [closing EXCEPT !.Lifecycle = "Failed"].OpenImmediately
            BY <3>1 DEF Alike
        <3> QED BY <3>2, <3>3, <2>2 DEF Ends
    <2> HIDE DEF failed
    <2>4. Ends(s, AbandonCloseContinuation(failed))
        BY <2>3, AbandonKeeps DEF Ends
    <2>5. Ends(s, Await(closing, BarrierWork("CloseTimeout", barrier)))
        BY <2>1, <1>2, AwaitKeeps, BarrierWorkType DEF Ends, Good, Base
    <2>6. Ends(s, timed)
        BY <2>4, <2>5
    <2> HIDE DEF timed
    <2>7. Ends(s, Await(timed, BarrierWork("Closed", barrier)))
        BY <2>6, <1>2, AwaitKeeps, BarrierWorkType DEF Ends, Good, Base
    <2>8. BeginClose(s, continuation, failure, shouldRetry, completedAttempt, reason, p)
          = Await(timed, BarrierWork("Closed", barrier))
        BY <1>4 DEF BeginClose, timed, failed, closing, barrier, pc
    <2> QED BY <2>7, <2>8
<1> QED BY <1>3, <1>4 DEF Base, Typed

(* A listener start found due is the end of an outgoing operation.         *)
LEMMA RestoreEnds ==
    ASSUME NEW s, Good(s)
    PROVE  Ends(s, RestoreIncomingListenerAfterTerminal(s))
<1> DEFINE due == /\ ~s.IsShutdown /\ ~s.IsSuspended
                  /\ s.IsIncomingEnabled /\ s.OpenImmediately
           restored == [s EXCEPT !.RestoreIncomingAfterClose = FALSE, !.listenerDue = due]
<1>1. due \in BOOLEAN /\ (due => s.OpenImmediately)
    OBVIOUS
<1>2. RestoreIncomingListenerAfterTerminal(s) \in {s, restored}
    BY DEF RestoreIncomingListenerAfterTerminal
<1> HIDE DEF due
<1>3. Ends(s, restored)
    BY <1>1 DEF Ends, Good, Base, Typed, Fields, Owned, TimersArePast, Due, Heard, Waits
<1> QED BY <1>2, <1>3 DEF Ends

LEMMA FailTerminallyEnds ==
    ASSUME NEW s, Base(s), Heard(s), NEW result \in DeviceConnectionResult,
           NEW reason \in DeviceDisconnectReason
    PROVE  Ends(s, FailTerminally(s, result, reason))
<1> DEFINE f == [s EXCEPT !.Lifecycle = "Failed"]
           u == Publish(f, result, TRUE, reason)
<1>1. Good(f) /\ f.OpenImmediately = s.OpenImmediately
    BY DEF Good, Base, Typed, Fields, Owned, TimersArePast, Due, Heard, Waits,
           DeviceLifecycleState
<1> HIDE DEF f
<1>2. Good(u) /\ u.OpenImmediately = s.OpenImmediately
    <2>1. Alike(f, u)
        BY <1>1, PublishAlike DEF Good, Base
    <2> QED BY <2>1, <1>1, AlikeKeeps DEF Alike
<1> HIDE DEF u
<1>3. Ends(s, RestoreIncomingListenerAfterTerminal(u))
    BY <1>2, RestoreEnds DEF Ends
<1> QED BY <1>3 DEF FailTerminally, u, f
-----------------------------------------------------------------------------
(* Retry scheduling.                                                       *)

(* A new timer is later than all earlier ones, so none of those is taken   *)
(* for it.                                                                 *)
LEMMA WaitEnds ==
    ASSUME NEW s, Base(s), Heard(s), ~s.IsCloseInFlight,
           NEW kind \in {"RetryTimer", "TransientOpenRetryTimer"},
           kind = "TransientOpenRetryTimer" => s.Connection = NoConnection,
           NEW epoch \in Nat
    PROVE  LET waiting == [s EXCEPT !.Lifecycle = "WaitingForReconnect", !.TimerEpoch = @ + 1]
           IN  /\ Ends(s, waiting)
               /\ Ends(s, Await(waiting, TimerWork(kind, waiting.TimerEpoch, epoch)))
<1> DEFINE w == [s EXCEPT !.Lifecycle = "WaitingForReconnect", !.TimerEpoch = @ + 1]
           c == TimerWork(kind, w.TimerEpoch, epoch)
<1>1. /\ Typed(w) /\ Owned(w) /\ Heard(w) /\ Due(w) /\ w.OpenImmediately = s.OpenImmediately
      /\ w.TimerEpoch = s.TimerEpoch + 1 /\ w.callbacks = s.callbacks
      /\ w.Connection = s.Connection /\ ~w.IsCloseInFlight
    BY DEF Base, Typed, Fields, Owned, Due, Heard, DeviceLifecycleState
<1>2. \A d \in s.callbacks :
            d.kind \in {"RetryTimer", "TransientOpenRetryTimer"} =>
                d.timerEpoch <= w.TimerEpoch /\ d.timerEpoch # w.TimerEpoch
    <2> TAKE d \in s.callbacks
    <2> HAVE d.kind \in {"RetryTimer", "TransientOpenRetryTimer"}
    <2>1. d \in Callback
        BY DEF Base, Typed
    <2>2. d.timerEpoch \in Nat
        BY <2>1 DEF Callback
    <2>3. d.timerEpoch <= s.TimerEpoch
        BY DEF Base, TimersArePast
    <2> QED BY <1>1, <2>2, <2>3 DEF Base, Typed
<1> HIDE DEF w
<1>3. Good(w)
    BY <1>1, <1>2 DEF Good, Base, TimersArePast, Waits
<1>4. c \in Callback /\ c.kind = kind /\ c.timerEpoch = w.TimerEpoch
    BY <1>1, TimerWorkType DEF Typed
<1> HIDE DEF c
<1>5. w.TimerEpoch <= w.TimerEpoch
    BY <1>1 DEF Typed
<1>6. Good(Await(w, c)) /\ Await(w, c).OpenImmediately = w.OpenImmediately
    BY <1>1, <1>2, <1>3, <1>4, <1>5, SMTT(30)
    DEF Good, Base, Typed, Fields, Owned, TimersArePast, Due, Heard, Waits, Await
<1> QED BY <1>1, <1>3, <1>6 DEF Ends, w, c

LEMMA ScheduleReconnectEnds ==
    ASSUME NEW s, Base(s), Heard(s), ~s.IsCloseInFlight,
           NEW result \in DeviceConnectionResult, NEW shouldRetry \in BOOLEAN,
           NEW completedAttempt \in BOOLEAN, NEW reason \in DeviceDisconnectReason,
           NEW p \in PlatformOutcome
    PROVE  Ends(s, ScheduleReconnect(s, result, shouldRetry, completedAttempt, reason, p))
<1> DEFINE counted == [s EXCEPT !.CompletedRetryAttempts =
                          IF completedAttempt THEN @ + 1 ELSE @]
           decision == Evaluate([Request |-> "ConnectionLoss",
                                 CompletedAttempts |-> counted.CompletedRetryAttempts,
                                 IsBlocked |-> FALSE])
           waiting == [counted EXCEPT !.Lifecycle = "WaitingForReconnect",
                                      !.TimerEpoch = @ + 1]
           timer == TimerWork("RetryTimer", waiting.TimerEpoch, waiting.OperationEpoch)
           awaited == Await(waiting, timer)
<1>1. /\ Base(counted) /\ Heard(counted) /\ ~counted.IsCloseInFlight
      /\ counted.OpenImmediately = s.OpenImmediately
    BY DEF Base, Typed, Fields, Owned, TimersArePast, Due, Heard
<1> HIDE DEF counted
<1>2. waiting.OperationEpoch \in Nat
    BY <1>1 DEF Base, Typed, Fields
<1>3. Ends(counted, waiting) /\ Ends(counted, awaited)
    BY <1>1, <1>2, WaitEnds
<1> HIDE DEF waiting, awaited, decision
<1>4. Ends(s, FailTerminally(s, result, reason))
    BY FailTerminallyEnds
<1>5. Ends(s, FailTerminally(counted, result, reason))
    BY <1>1, FailTerminallyEnds DEF Ends
<1>6. Ends(s, Publish(awaited, result, FALSE, reason))
    <2>1. Alike(awaited, Publish(awaited, result, FALSE, reason))
        BY <1>3, PublishAlike DEF Ends, Good, Base
    <2> QED BY <2>1, <1>1, <1>3, AlikeKeeps DEF Ends, Alike
<1>7. Ends(s, FailTerminally(waiting, "Failed", reason))
    BY <1>1, <1>3, FailTerminallyEnds DEF Ends, Good, DeviceConnectionResult
<1>8. ScheduleReconnect(s, result, shouldRetry, completedAttempt, reason, p) =
        IF \/ s.IsShutdown \/ s.IsSuspended \/ ~shouldRetry
           \/ ~s.IsReconnectEnabled \/ s.IsReconnectCancelled
        THEN FailTerminally(s, result, reason)
        ELSE IF decision.Kind = "TerminalFailure"
             THEN FailTerminally(counted, result, reason)
             ELSE IF p.reconnectTimer THEN Publish(awaited, result, FALSE, reason)
                  ELSE FailTerminally(waiting, "Failed", reason)
    BY Zenon DEF ScheduleReconnect, awaited, waiting, decision, counted
<1> QED BY <1>4, <1>5, <1>6, <1>7, <1>8

LEMMA ScheduleTransientOpenRetryEnds ==
    ASSUME NEW s, Good(s), ~s.IsCloseInFlight, s.Connection = NoConnection,
           NEW result \in DeviceConnectionResult, NEW p \in PlatformOutcome
    PROVE  Ends(s, ScheduleTransientOpenRetry(s, result, p))
<1> DEFINE counted == [s EXCEPT !.TransientOpenRetryAttempts = @ + 1]
           waiting == [counted EXCEPT !.Lifecycle = "WaitingForReconnect",
                                      !.TimerEpoch = @ + 1]
           timer == TimerWork("TransientOpenRetryTimer", waiting.TimerEpoch, s.OperationEpoch)
           awaited == Await(waiting, timer)
<1>1. /\ Base(counted) /\ Heard(counted) /\ ~counted.IsCloseInFlight
      /\ counted.Connection = NoConnection /\ counted.OpenImmediately = s.OpenImmediately
    BY DEF Good, Base, Typed, Fields, Owned, TimersArePast, Due, Heard
<1> HIDE DEF counted
<1>2. s.OperationEpoch \in Nat /\ "None" \in DeviceDisconnectReason
    BY DEF Good, Base, Typed, DeviceDisconnectReason
<1>3. Ends(counted, waiting) /\ Ends(counted, awaited)
    BY <1>1, <1>2, WaitEnds
<1> HIDE DEF waiting, awaited
<1>4. Ends(s, s)
    BY DEF Ends
<1>5. Ends(s, FailTerminally(counted, result, "None"))
    BY <1>1, <1>2, FailTerminallyEnds DEF Ends
<1>6. Ends(s, Publish(awaited, result, FALSE, "None"))
    <2>1. Alike(awaited, Publish(awaited, result, FALSE, "None"))
        BY <1>2, <1>3, PublishAlike DEF Ends, Good, Base
    <2> QED BY <2>1, <1>1, <1>3, AlikeKeeps DEF Ends, Alike
<1>7. Ends(s, FailTerminally(waiting, "Failed", "None"))
    BY <1>1, <1>2, <1>3, FailTerminallyEnds DEF Ends, Good, DeviceConnectionResult
<1>8. ScheduleTransientOpenRetry(s, result, p) =
        IF s.IsShutdown \/ s.IsSuspended \/ s.IsReconnectCancelled THEN s
        ELSE IF counted.TransientOpenRetryAttempts >= TransientOpenRetryMaxAttempts
             THEN FailTerminally(counted, result, "None")
             ELSE IF p.reconnectTimer THEN Publish(awaited, result, FALSE, "None")
                  ELSE FailTerminally(waiting, "Failed", "None")
    BY Zenon DEF ScheduleTransientOpenRetry, awaited, waiting, counted
<1> QED BY <1>4, <1>5, <1>6, <1>7, <1>8

LEMMA RevokeKeeps ==
    ASSUME NEW s, Typed(s)
    PROVE  LET t == RevokeStateChanged(s) IN
           /\ Typed(t)
           /\ Owned(s) => Owned(t)
           /\ TimersArePast(s) => TimersArePast(t)
           /\ Due(s) => Due(t)
           /\ s.Connection = NoConnection => t.StateChangedToken = s.StateChangedToken
           /\ s.Connection # NoConnection => ~t.StateChangedToken
           /\ t.OpenImmediately = s.OpenImmediately /\ t.Lifecycle = s.Lifecycle
           /\ t.Connection = s.Connection /\ t.IsCloseInFlight = s.IsCloseInFlight
           /\ t.HandlerEpoch = s.HandlerEpoch /\ t.OperationEpoch = s.OperationEpoch
           /\ t.callbacks = s.callbacks /\ t.TimerEpoch = s.TimerEpoch
<1> DEFINE t == RevokeStateChanged(s)
<1>1. /\ DOMAIN t = Fields
      /\ t.StateChangedToken = (s.StateChangedToken /\ s.Connection = NoConnection)
      /\ \A x \in Fields \ {"StateChangedToken"} : t[x] = s[x]
    BY DEF Typed, Fields, RevokeStateChanged
<1> HIDE DEF t
<1>2. Typed(t)
    BY <1>1 DEF Typed, Fields
<1>3. /\ t.OpenImmediately = s.OpenImmediately /\ t.Lifecycle = s.Lifecycle
      /\ t.Connection = s.Connection /\ t.IsCloseInFlight = s.IsCloseInFlight
      /\ t.HandlerEpoch = s.HandlerEpoch /\ t.OperationEpoch = s.OperationEpoch
      /\ t.callbacks = s.callbacks /\ t.TimerEpoch = s.TimerEpoch
      /\ t.ClosingConnection = s.ClosingConnection /\ t.IsCloseCooldown = s.IsCloseCooldown
      /\ t.listenerDue = s.listenerDue /\ t.CloseBarrierEpoch = s.CloseBarrierEpoch
    BY <1>1 DEF Fields
<1>4. (Owned(s) => Owned(t)) /\ (TimersArePast(s) => TimersArePast(t)) /\ (Due(s) => Due(t))
    BY <1>3 DEF Owned, TimersArePast, Due
<1>5. /\ s.Connection = NoConnection => t.StateChangedToken = s.StateChangedToken
      /\ s.Connection # NoConnection => ~t.StateChangedToken
    BY <1>1 DEF Typed
<1> QED BY <1>2, <1>3, <1>4, <1>5 DEF t

(* A failed operation closes what it owns, or is retried at once.          *)
LEMMA CompleteFailureEnds ==
    ASSUME NEW s, Base(s), Heard(s), s.Connection = NoConnection => Good(s),
           s.Connection = NoConnection => ~s.IsCloseInFlight,
           NEW result \in DeviceConnectionResult, NEW transient \in BOOLEAN,
           NEW p \in PlatformOutcome
    PROVE  Ends(s, CompleteFailure(s, result, transient, p))
<1> DEFINE r == RevokeStateChanged(s)
           d == [r EXCEPT !.Lifecycle = "Disconnecting"]
           u == Publish(d, result, FALSE, "None")
           retriesOpen == transient /\ s.OpenImmediately
           continuation == IF retriesOpen THEN "TransientOpenRetry" ELSE "Retry"
           isAutomatic == s.CurrentOperation = "AutomaticReconnect"
<1>1. /\ retriesOpen \in BOOLEAN /\ isAutomatic \in BOOLEAN /\ s.RetryEligible \in BOOLEAN
      /\ continuation \in CloseContinuation /\ "None" \in DeviceDisconnectReason
    BY DEF Base, Typed, CloseContinuation, DeviceDisconnectReason
<1>2. /\ Base(r) /\ r.OpenImmediately = s.OpenImmediately /\ r.Connection = s.Connection
      /\ r.IsCloseInFlight = s.IsCloseInFlight
      /\ s.Connection # NoConnection => ~r.StateChangedToken
      /\ s.Connection = NoConnection => Good(r)
    BY RevokeKeeps DEF Base, Good, Heard, Waits
<1> HIDE DEF isAutomatic, continuation, retriesOpen, r
<1>3. CASE s.Connection = NoConnection
    <2>1. Ends(s, ScheduleTransientOpenRetry(r, result, p))
        BY <1>2, <1>3, ScheduleTransientOpenRetryEnds DEF Ends
    <2>2. Ends(s, ScheduleReconnect(r, result, s.RetryEligible, isAutomatic, "None", p))
        BY <1>1, <1>2, <1>3, ScheduleReconnectEnds DEF Ends, Good
    <2>3. CompleteFailure(s, result, transient, p) =
            IF retriesOpen THEN ScheduleTransientOpenRetry(r, result, p)
            ELSE ScheduleReconnect(r, result, s.RetryEligible, isAutomatic, "None", p)
        BY <1>3 DEF CompleteFailure, r, retriesOpen, isAutomatic
    <2> QED BY <2>1, <2>2, <2>3
<1>4. CASE s.Connection # NoConnection
    <2>1. /\ Base(d) /\ d.OpenImmediately = s.OpenImmediately /\ ~d.StateChangedToken
          /\ d.Connection # NoConnection /\ d.Lifecycle = "Disconnecting"
        BY <1>2, <1>4
        DEF Base, Typed, Fields, Owned, TimersArePast, Due, DeviceLifecycleState
    <2> HIDE DEF d
    <2>2. /\ Base(u) /\ u.OpenImmediately = s.OpenImmediately /\ ~u.StateChangedToken
          /\ u.Connection # NoConnection /\ u.Lifecycle = "Disconnecting"
        <3>1. Alike(d, u)
            BY <2>1, <1>1, PublishAlike DEF Base
        <3> QED BY <3>1, <2>1, AlikeKeeps DEF Alike
    <2> HIDE DEF u
    <2>3. Ends(s, BeginClose(u, continuation, result, s.RetryEligible, isAutomatic, "None", p))
        BY <2>2, <1>1, BeginCloseEnds DEF Ends
    <2>4. CompleteFailure(s, result, transient, p) =
            BeginClose(u, continuation, result, s.RetryEligible, isAutomatic, "None", p)
        BY <1>4 DEF CompleteFailure, u, d, r, continuation, retriesOpen, isAutomatic
    <2> QED BY <2>3, <2>4
<1> QED BY <1>3, <1>4
-----------------------------------------------------------------------------
(* Starting a connection.                                                  *)

(* A connection is created only when nothing is owned and nothing closes.  *)
LEMMA BeginCreateEnds ==
    ASSUME NEW s, Good(s), s.Connection = NoConnection, ~s.IsCloseInFlight,
           NEW p \in PlatformOutcome
    PROVE  Ends(s, BeginCreate(s, p))
<1> DEFINE k == [s EXCEPT !.Lifecycle = "Connecting"]
           connecting == Publish(k, "Success", FALSE, "None")
           created == [connecting EXCEPT !.Connection = p.address, !.StateChangedToken = TRUE,
                                         !.HandlerEpoch = s.OperationEpoch]
           work == NativeWork("Started", s.OperationEpoch, p.address)
<1>1. /\ "Success" \in DeviceConnectionResult /\ "Failed" \in DeviceConnectionResult
      /\ "None" \in DeviceDisconnectReason
    BY DEF DeviceConnectionResult, DeviceDisconnectReason
<1>2. /\ Good(k) /\ k.Connection = NoConnection /\ ~k.IsCloseInFlight
      /\ k.OpenImmediately = s.OpenImmediately /\ k.OperationEpoch = s.OperationEpoch
      /\ k.Lifecycle = "Connecting"
    BY DEF Good, Base, Typed, Fields, Owned, TimersArePast, Due, Heard, Waits,
           DeviceLifecycleState
<1>3. /\ Good(connecting) /\ connecting.Connection = NoConnection
      /\ ~connecting.IsCloseInFlight /\ connecting.OpenImmediately = s.OpenImmediately
      /\ connecting.Lifecycle = "Connecting"
      /\ connecting.OperationEpoch = s.OperationEpoch
    <2> HIDE DEF k
    <2>1. Alike(k, connecting)
        BY <1>1, <1>2, PublishAlike DEF Good, Base
    <2> QED BY <2>1, <1>2, AlikeKeeps DEF Alike
<1> HIDE DEF connecting
<1>4. p.address \in Address /\ p.address # NoConnection
    BY SessionAssumption DEF PlatformOutcome
<1>5. /\ Good(created) /\ created.Connection # NoConnection
      /\ created.OpenImmediately = s.OpenImmediately
    BY <1>3, <1>4 DEF Good, Base, Typed, Fields, Owned, TimersArePast, Due, Heard, Waits
<1> HIDE DEF created
<1>6. Ends(s, CompleteFailure(connecting, "Failed", FALSE, p))
    BY <1>1, <1>3, CompleteFailureEnds DEF Ends, Good
<1>7. Ends(s, CompleteFailure(created, "Failed", FALSE, p))
    BY <1>1, <1>5, CompleteFailureEnds DEF Ends, Good
<1>8. Ends(s, Await(created, work))
    <2>1. work \in Callback /\ work.kind = "Started"
        BY <1>4, NativeWorkType DEF Good, Base, Typed
    <2> QED BY <2>1, <1>5, AwaitKeeps DEF Ends, Good, Base
<1>9. Ends(s, s)
    BY DEF Ends
<1>10. p.create \in {"Started", "NotStarted", "NoConnection"}
    BY DEF PlatformOutcome, CreateOutcome
<1>11. /\ s.IsShutdown \/ s.IsSuspended => BeginCreate(s, p) = s
       /\ ~(s.IsShutdown \/ s.IsSuspended) =>
            /\ p.create = "NoConnection" =>
                BeginCreate(s, p) = CompleteFailure(connecting, "Failed", FALSE, p)
            /\ p.create = "NotStarted" =>
                BeginCreate(s, p) = CompleteFailure(created, "Failed", FALSE, p)
            /\ p.create = "Started" => BeginCreate(s, p) = Await(created, work)
    BY DEF BeginCreate, created, connecting
<1> QED BY <1>6, <1>7, <1>8, <1>9, <1>10, <1>11

LEMMA StartConnectionEnds ==
    ASSUME NEW s, Good(s), ~s.listenerDue, NEW operation \in DeviceOperationKind,
           NEW openImmediately \in BOOLEAN, NEW p \in PlatformOutcome
    PROVE  LET t == StartConnection(s, operation, openImmediately, p)
           IN  Good(t) /\ (t = s \/ t.OpenImmediately = openImmediately)
<1> DEFINE supersedes == operation \notin {"AutomaticReconnect", "IncomingEnable"}
           eligible == operation \in {"AutomaticReconnect", "Startup", "Resume"}
           started == [CancelTimer(s) EXCEPT
            !.IsReconnectCancelled = @ /\ ~supersedes,
            !.CompletedRetryAttempts = IF supersedes THEN 0 ELSE @,
            !.TransientOpenRetryAttempts = 0,
            !.CurrentOperation = operation,
            !.RetryEligible = eligible,
            !.OpenImmediately = openImmediately,
            !.OperationEpoch = @ + 1]
           restores == s.IsIncomingEnabled /\ ~openImmediately
           replacing == [started EXCEPT !.Lifecycle = "Disconnecting",
                                        !.RestoreIncomingAfterClose = restores]
           r == RevokeStateChanged(replacing)
           u == Publish(r, "Success", FALSE, "Normal")
           blocked == \/ s.IsShutdown \/ s.IsSuspended
                      \/ s.IsCloseInFlight \/ s.Lifecycle \in {"Connecting", "Disconnecting"}
<1>1. supersedes \in BOOLEAN /\ restores \in BOOLEAN /\ eligible \in BOOLEAN
    OBVIOUS
<1>2. CASE blocked
    BY <1>2 DEF StartConnection
<1>3. CASE ~blocked
    <2>0. ~s.IsCloseInFlight
        BY <1>3
    <2> HIDE DEF supersedes, eligible, restores, blocked
    <2>1. /\ Typed(started) /\ Owned(started) /\ Due(started)
          /\ started.Connection = s.Connection /\ ~started.IsCloseInFlight
          /\ started.OpenImmediately = openImmediately
          /\ started.StateChangedToken = s.StateChangedToken
          /\ started.callbacks = s.callbacks /\ started.TimerEpoch = s.TimerEpoch + 1
          /\ started.Lifecycle = s.Lifecycle
        BY <1>1, <1>3, <2>0 DEF Good, Base, Typed, Fields, Owned, Due, CancelTimer
    <2> HIDE DEF started
    <2>2. TimersArePast(started)
        <3> SUFFICES ASSUME NEW c \in s.callbacks,
                            c.kind \in {"RetryTimer", "TransientOpenRetryTimer"}
                     PROVE  c.timerEpoch <= s.TimerEpoch + 1
            BY <2>1 DEF TimersArePast
        <3>1. c.timerEpoch \in Nat
            BY DEF Good, Base, Typed, Callback
        <3> QED BY <3>1 DEF Good, Base, Typed, TimersArePast
    <2>3. CASE s.Connection = NoConnection
        <3>1. Good(started)
            BY <2>1, <2>2, <2>3 DEF Good, Base, Heard, Waits
        <3>2. Ends(started, BeginCreate(started, p))
            BY <3>1, <2>1, <2>3, BeginCreateEnds
        <3>3. StartConnection(s, operation, openImmediately, p) = BeginCreate(started, p)
            BY <1>3, <2>3 DEF StartConnection, started, supersedes, eligible, blocked
        <3> QED BY <2>1, <3>2, <3>3 DEF Ends
    <2>4. CASE s.Connection # NoConnection
        <3>1. /\ Base(replacing) /\ replacing.Connection # NoConnection
              /\ replacing.Lifecycle = "Disconnecting"
              /\ replacing.OpenImmediately = openImmediately
            BY <1>1, <2>1, <2>2, <2>4
            DEF Base, Typed, Fields, Owned, TimersArePast, Due, DeviceLifecycleState
        <3> HIDE DEF replacing
        <3>2. /\ Base(r) /\ r.Connection # NoConnection /\ r.Lifecycle = "Disconnecting"
              /\ r.OpenImmediately = openImmediately
            BY <3>1, RevokeKeeps DEF Base
        <3> HIDE DEF r
        <3>3. /\ Base(u) /\ u.Connection # NoConnection /\ u.Lifecycle = "Disconnecting"
              /\ u.OpenImmediately = openImmediately
            <4>1. Alike(r, u)
                BY <3>2, PublishAlike
                DEF Base, DeviceConnectionResult, DeviceDisconnectReason
            <4> QED BY <4>1, <3>2, AlikeKeeps DEF Alike
        <3> HIDE DEF u
        <3>4. Ends(u, BeginClose(u, "Replace", "Success", FALSE, FALSE, "None", p))
            BY <3>3, BeginCloseEnds
            DEF CloseContinuation, DeviceConnectionResult, DeviceDisconnectReason
        <3>5. StartConnection(s, operation, openImmediately, p) =
                BeginClose(u, "Replace", "Success", FALSE, FALSE, "None", p)
            BY <1>3, <2>4 DEF StartConnection, u, r, replacing, restores, started,
                              supersedes, eligible, blocked
        <3> QED BY <3>3, <3>4, <3>5 DEF Ends
    <2> QED BY <2>3, <2>4
<1> QED BY <1>2, <1>3

LEMMA StartListenerEnds ==
    ASSUME NEW s, Good(s), ~s.listenerDue, NEW p \in PlatformOutcome
    PROVE  Good(StartListener(s, p)) /\ ~StartListener(s, p).listenerDue
<1>1. "IncomingEnable" \in DeviceOperationKind
    BY DEF DeviceOperationKind
<1>2. /\ Good(StartListener(s, p))
      /\ StartListener(s, p) = s \/ StartListener(s, p).OpenImmediately = FALSE
    BY <1>1, StartConnectionEnds DEF StartListener
<1> QED BY <1>2 DEF Good, Base, Due, Typed

(* A handler that ends in Good leaves no listener start behind.            *)
LEMMA FinishEnds ==
    ASSUME NEW s, Good(s), NEW p \in PlatformOutcome
    PROVE  Good(Finish(s, p)) /\ ~Finish(s, p).listenerDue
<1> DEFINE u == [s EXCEPT !.listenerDue = FALSE]
           q == [p EXCEPT !.create = p.listener]
<1>1. Good(u) /\ ~u.listenerDue
    BY DEF Good, Base, Typed, Fields, Owned, TimersArePast, Due, Heard, Waits
<1>2. q \in PlatformOutcome
    BY DEF PlatformOutcome
<1> HIDE DEF u, q
<1>3. Good(StartListener(u, q)) /\ ~StartListener(u, q).listenerDue
    BY <1>1, <1>2, StartListenerEnds
<1>4. Finish(s, p) = IF s.listenerDue THEN StartListener(u, q) ELSE s
    BY DEF Finish, u, q
<1> QED BY <1>3, <1>4
-----------------------------------------------------------------------------
(* What the operations do before they close, schedule or settle: counters  *)
(* and flags move, the connection, the barrier and the callbacks do not.   *)
Moved(s, u) ==
    /\ Typed(u)
    /\ u.Connection = s.Connection /\ u.ClosingConnection = s.ClosingConnection
    /\ u.IsCloseInFlight = s.IsCloseInFlight /\ u.IsCloseCooldown = s.IsCloseCooldown
    /\ u.callbacks = s.callbacks /\ u.TimerEpoch >= s.TimerEpoch
    /\ u.StateChangedToken => s.StateChangedToken
    /\ ~u.listenerDue

Quiet(s) == Good(s) /\ ~s.listenerDue
Idling(s) == s.Connection = NoConnection /\ ~s.IsCloseInFlight

LEMMA MovedKeeps ==
    ASSUME NEW s, Good(s), NEW u, Moved(s, u)
    PROVE  /\ Base(u)
           /\ u.StateChangedToken => u.Connection # NoConnection
           /\ Idling(s) => Heard(u) /\ Idling(u)
           /\ Idling(s) => Good(u)
<1>1. TimersArePast(u)
    <2> SUFFICES ASSUME NEW c \in s.callbacks,
                        c.kind \in {"RetryTimer", "TransientOpenRetryTimer"}
                 PROVE  c.timerEpoch <= u.TimerEpoch
        BY DEF TimersArePast, Moved
    <2>1. c.timerEpoch \in Nat
        BY DEF Good, Base, Typed, Callback
    <2>2. c.timerEpoch <= s.TimerEpoch
        BY DEF Good, Base, TimersArePast
    <2>3. s.TimerEpoch \in Nat /\ u.TimerEpoch \in Nat /\ u.TimerEpoch >= s.TimerEpoch
        BY DEF Good, Base, Typed, Moved
    <2> QED BY <2>1, <2>2, <2>3
<1>2. Typed(u) /\ Owned(u) /\ Due(u)
    BY DEF Moved, Owned, Due, Good, Base
<1>3. u.StateChangedToken => u.Connection # NoConnection
    BY DEF Moved, Good, Heard
<1>4. Idling(s) => Heard(u) /\ Idling(u) /\ Waits(u)
    BY <1>2, <1>3 DEF Moved, Heard, Idling, Waits, Typed
<1> QED BY <1>1, <1>2, <1>3, <1>4 DEF Base, Good

LEMMA PublishMoved ==
    ASSUME NEW s, NEW u, Moved(s, u), NEW result \in DeviceConnectionResult,
           NEW terminal \in BOOLEAN, NEW reason \in DeviceDisconnectReason
    PROVE  /\ Moved(s, Publish(u, result, terminal, reason))
           /\ Publish(u, result, terminal, reason).Lifecycle = u.Lifecycle
<1>1. Alike(u, Publish(u, result, terminal, reason))
    BY PublishAlike DEF Moved
<1> QED BY <1>1 DEF Moved, Alike

LEMMA RevokeMoved ==
    ASSUME NEW s, NEW u, Moved(s, u)
    PROVE  Moved(s, RevokeStateChanged(u)) /\ RevokeStateChanged(u).Lifecycle = u.Lifecycle
BY DEF Moved, Typed, Fields, RevokeStateChanged

LEMMA CloseMoved ==
    ASSUME NEW s, Good(s), ~Idling(s), NEW u, Moved(s, u), u.Lifecycle = "Disconnecting",
           NEW continuation \in CloseContinuation, NEW failure \in DeviceConnectionResult,
           NEW shouldRetry \in BOOLEAN, NEW completedAttempt \in BOOLEAN,
           NEW reason \in DeviceDisconnectReason, NEW p \in PlatformOutcome
    PROVE  Good(BeginClose(u, continuation, failure, shouldRetry, completedAttempt, reason, p))
<1>1. Base(u) /\ (u.StateChangedToken => u.Connection # NoConnection)
    BY MovedKeeps
<1>2. u.Connection # NoConnection \/ u.IsCloseInFlight
    BY DEF Idling, Moved
<1> QED BY <1>1, <1>2, BeginCloseEnds DEF Ends

(* The parameters the handlers pass.                                       *)
LEMMA Parameters ==
    /\ {"Success", "TimedOut", "Failed", "Cancelled"} \subseteq DeviceConnectionResult
    /\ {"None", "Normal", "UnexpectedLoss", "DeviceRemoved"} \subseteq DeviceDisconnectReason
    /\ {"Idle", "Replace", "Retry", "Suspend"} \subseteq CloseContinuation
    /\ {"ManualConnect", "ManualReconnect", "AutomaticReconnect", "Startup", "Resume",
        "IncomingEnable"} = DeviceOperationKind
    /\ {"Idle", "Connecting", "Connected", "Disconnecting", "WaitingForReconnect", "Failed"}
        = DeviceLifecycleState
BY DEF DeviceConnectionResult, DeviceDisconnectReason, CloseContinuation,
       DeviceOperationKind, DeviceLifecycleState

(* Publishing a settled state.                                             *)
LEMMA PublishGood ==
    ASSUME NEW s, Good(s), NEW result \in DeviceConnectionResult,
           NEW terminal \in BOOLEAN, NEW reason \in DeviceDisconnectReason
    PROVE  /\ Good(Publish(s, result, terminal, reason))
           /\ Publish(s, result, terminal, reason).listenerDue = s.listenerDue
           /\ Idling(s) => Idling(Publish(s, result, terminal, reason))
<1>1. Alike(s, Publish(s, result, terminal, reason))
    BY PublishAlike DEF Good, Base
<1> QED BY <1>1, AlikeKeeps DEF Alike, Idling
-----------------------------------------------------------------------------
(* After a close.                                                          *)

LEMMA StartAfterResumeGood ==
    ASSUME NEW s, Quiet(s), NEW p \in PlatformOutcome
    PROVE  Good(StartAfterResume(s, p))
<1> DEFINE u == [s EXCEPT !.ResumeRequired = FALSE]
           operation == IF s.ResumeOpenImmediately THEN "Resume" ELSE "IncomingEnable"
<1>1. Good(u) /\ ~u.listenerDue
    BY DEF Quiet, Good, Base, Typed, Fields, Owned, TimersArePast, Due, Heard, Waits
<1>2. operation \in DeviceOperationKind /\ s.ResumeOpenImmediately \in BOOLEAN
    BY DEF DeviceOperationKind, Quiet, Good, Base, Typed
<1> HIDE DEF u, operation
<1>3. Good(StartConnection(u, operation, s.ResumeOpenImmediately, p))
    BY <1>1, <1>2, StartConnectionEnds
<1>4. Good(StartListener(s, p))
    BY StartListenerEnds DEF Quiet
<1>5. Good(Publish(s, "Success", FALSE, "None"))
    BY Parameters, PublishGood DEF Quiet
<1>6. StartAfterResume(s, p) =
        IF s.ResumeRequired THEN StartConnection(u, operation, s.ResumeOpenImmediately, p)
        ELSE IF s.IsIncomingEnabled THEN StartListener(s, p)
             ELSE Publish(s, "Success", FALSE, "None")
    BY DEF StartAfterResume, u, operation
<1> QED BY <1>3, <1>4, <1>5, <1>6

LEMMA CompleteSuspendCloseGood ==
    ASSUME NEW s, Quiet(s), Idling(s), NEW p \in PlatformOutcome
    PROVE  Good(CompleteSuspendClose(s, p))
<1> DEFINE k == [s EXCEPT !.Connection = NoConnection, !.StateChangedToken = FALSE,
                          !.IsSuspendClosePending = FALSE, !.Lifecycle = "Idle"]
           closed == Publish(k, "Cancelled", FALSE, "None")
           resumed == [closed EXCEPT !.ResumeRequested = FALSE, !.IsSuspended = FALSE]
<1>1. Good(k) /\ ~k.listenerDue
    BY DEF Quiet, Idling, Good, Base, Typed, Fields, Owned, TimersArePast, Due, Heard, Waits,
           DeviceLifecycleState
<1> HIDE DEF k
<1>2. Good(closed) /\ ~closed.listenerDue
    <2>1. "Cancelled" \in DeviceConnectionResult /\ "None" \in DeviceDisconnectReason
        BY Parameters
    <2> QED BY <1>1, <2>1, PublishGood
<1> HIDE DEF closed
<1>3. Quiet(resumed)
    BY <1>2, SMTT(30)
    DEF Quiet, Good, Base, Typed, Fields, Owned, TimersArePast, Due, Heard, Waits
<1> HIDE DEF resumed
<1>4. Good(StartAfterResume(resumed, p))
    BY <1>3, StartAfterResumeGood
<1>5. CompleteSuspendClose(s, p) \in {s, StartAfterResume(resumed, p), closed}
    BY DEF CompleteSuspendClose, closed, resumed, k
<1> QED BY <1>2, <1>4, <1>5 DEF Quiet

LEMMA ContinueAbandonedGood ==
    ASSUME NEW s, Quiet(s), Idling(s)
    PROVE  Good(ContinueAbandoned(s))
<1> DEFINE suspended == s.IsSuspended /\ ~s.ResumeRequested
           over == [s EXCEPT !.IsSuspendClosePending = FALSE, !.ResumeRequired = FALSE,
                             !.IsSuspended = suspended, !.ResumeRequested = FALSE]
           released == IF ~s.IsSuspendClosePending THEN s ELSE over
           idle == [released EXCEPT !.IsCloseContinuationAbandoned = FALSE,
                                    !.Lifecycle = "Idle"]
           u == Publish(idle, "Success", FALSE, "None")
<1>0. suspended \in BOOLEAN
    OBVIOUS
<1>1. Quiet(released) /\ Idling(released)
    <2> HIDE DEF suspended
    <2>1. Quiet(over) /\ Idling(over)
        BY <1>0 DEF Quiet, Idling, Good, Base, Typed, Fields, Owned, TimersArePast, Due,
                    Heard, Waits
    <2> QED BY <2>1
<1> HIDE DEF released
<1>2. Good(idle)
    BY <1>1 DEF Quiet, Idling, Good, Base, Typed, Fields, Owned, TimersArePast, Due, Heard,
                Waits, DeviceLifecycleState
<1> HIDE DEF idle
<1>3. Good(u)
    BY <1>2, Parameters, PublishGood
<1> HIDE DEF u
<1>4. Good(RestoreIncomingListenerAfterTerminal(u))
    BY <1>3, RestoreEnds DEF Ends
<1> QED BY <1>4 DEF ContinueAbandoned, u, idle, released, over, suspended

LEMMA ContinueIdleGood ==
    ASSUME NEW s, Quiet(s), Idling(s), NEW p \in PlatformOutcome
    PROVE  Good(ContinueIdle(s, p))
<1> DEFINE k == [s EXCEPT !.Lifecycle = "Idle", !.Pending = NoPendingClose]
           idle == Publish(k, s.Pending.Failure, FALSE, s.Pending.DisconnectReason)
           u == [idle EXCEPT !.RestoreIncomingAfterClose = FALSE]
<1>1. Good(k) /\ ~k.listenerDue
    BY NoPendingCloseType
    DEF Quiet, Idling, Good, Base, Typed, Fields, Owned, TimersArePast, Due, Heard, Waits,
        DeviceLifecycleState
<1>2. /\ s.Pending.Failure \in DeviceConnectionResult
      /\ s.Pending.DisconnectReason \in DeviceDisconnectReason
    BY DEF Quiet, Good, Base, Typed, PendingClose
<1> HIDE DEF k
<1>3. Good(idle) /\ ~idle.listenerDue
    BY <1>1, <1>2, PublishGood
<1> HIDE DEF idle
<1>4. Good(u) /\ ~u.listenerDue
    BY <1>3 DEF Good, Base, Typed, Fields, Owned, TimersArePast, Due, Heard, Waits
<1> HIDE DEF u
<1>5. Good(StartListener(u, p))
    BY <1>4, StartListenerEnds
<1>6. ContinueIdle(s, p) \in {StartListener(u, p), idle}
    BY DEF ContinueIdle, u, idle, k
<1> QED BY <1>3, <1>5, <1>6

LEMMA ContinueAfterCloseGood ==
    ASSUME NEW s, Quiet(s), Idling(s), NEW p \in PlatformOutcome
    PROVE  Good(ContinueAfterClose(s, p))
<1> DEFINE cleared == [s EXCEPT !.Pending = NoPendingClose]
<1>1. Quiet(cleared) /\ Idling(cleared)
    BY NoPendingCloseType
    DEF Quiet, Idling, Good, Base, Typed, Fields, Owned, TimersArePast, Due, Heard, Waits
<1>2. /\ s.Pending.Failure \in DeviceConnectionResult
      /\ s.Pending.DisconnectReason \in DeviceDisconnectReason
      /\ s.Pending.RetryEligible \in BOOLEAN /\ s.Pending.CompletedAttempt \in BOOLEAN
      /\ s.Pending.Continuation \in CloseContinuation
    BY DEF Quiet, Good, Base, Typed, PendingClose
<1> HIDE DEF cleared
<1>3. Good(ContinueAbandoned(cleared)) /\ Good(CompleteSuspendClose(cleared, p))
      /\ Good(ContinueIdle(s, p))
    BY <1>1, ContinueAbandonedGood, CompleteSuspendCloseGood, ContinueIdleGood
<1>4. Good(BeginCreate(cleared, p))
    BY <1>1, BeginCreateEnds DEF Quiet, Idling, Ends
<1>5. Good(ScheduleReconnect(cleared, s.Pending.Failure, s.Pending.RetryEligible,
                             s.Pending.CompletedAttempt, s.Pending.DisconnectReason, p))
    BY <1>1, <1>2, ScheduleReconnectEnds DEF Quiet, Idling, Good, Ends
<1>6. Good(ScheduleTransientOpenRetry(cleared, s.Pending.Failure, p))
    BY <1>1, <1>2, ScheduleTransientOpenRetryEnds DEF Quiet, Idling, Ends
<1>7. CASE s.IsCloseContinuationAbandoned
    BY <1>3, <1>7 DEF ContinueAfterClose, cleared
<1>8. CASE ~s.IsCloseContinuationAbandoned
    BY <1>2, <1>3, <1>4, <1>5, <1>6, <1>8
    DEF ContinueAfterClose, cleared, CloseContinuation
<1> QED BY <1>7, <1>8

LEMMA CompleteCloseCooldownGood ==
    ASSUME NEW s, Quiet(s), NEW epoch, NEW p \in PlatformOutcome
    PROVE  Good(CompleteCloseCooldown(s, epoch, p))
<1> DEFINE u == [s EXCEPT !.IsCloseCooldown = FALSE, !.IsCloseInFlight = FALSE]
<1>1. CASE s.IsCloseInFlight /\ s.IsCloseCooldown
    <2>1. Quiet(u) /\ Idling(u)
        BY <1>1
        DEF Quiet, Idling, Good, Base, Typed, Fields, Owned, TimersArePast, Due, Heard, Waits
    <2> HIDE DEF u
    <2>2. Good(ContinueAfterClose(u, p))
        BY <2>1, ContinueAfterCloseGood
    <2>3. CompleteCloseCooldown(s, epoch, p) \in {s, ContinueAfterClose(u, p)}
        BY DEF CompleteCloseCooldown, u
    <2> QED BY <2>2, <2>3 DEF Quiet
<1>2. CASE ~(s.IsCloseInFlight /\ s.IsCloseCooldown)
    BY <1>2 DEF CompleteCloseCooldown, Quiet
<1> QED BY <1>1, <1>2

LEMMA CompleteCloseBarrierGood ==
    ASSUME NEW s, Quiet(s), NEW epoch \in Nat, NEW timedOut \in BOOLEAN,
           NEW p \in PlatformOutcome
    PROVE  Good(CompleteCloseBarrier(s, epoch, timedOut, p))
<1> DEFINE f == [s EXCEPT !.Lifecycle = "Failed"]
           failed == Publish(f, "TimedOut", TRUE, s.Pending.DisconnectReason)
           cooling == [s EXCEPT !.ClosingConnection = NoConnection,
                                !.StateChangedToken = FALSE, !.IsCloseCooldown = TRUE]
           work == BarrierWork("Cooldown", epoch)
<1>1. CASE s.IsCloseInFlight
    <2>1. Good(f)
        BY DEF Quiet, Good, Base, Typed, Fields, Owned, TimersArePast, Due, Heard, Waits,
               DeviceLifecycleState
    <2>2. s.Pending.DisconnectReason \in DeviceDisconnectReason
        BY DEF Quiet, Good, Base, Typed, PendingClose
    <2> HIDE DEF f
    <2>3. Good(failed)
        BY <2>1, <2>2, Parameters, PublishGood
    <2> HIDE DEF failed
    <2>4. Good(AbandonCloseContinuation(failed))
        BY <2>3, AbandonKeeps DEF Ends
    <2>5. Quiet(cooling)
        BY <1>1
        DEF Quiet, Good, Base, Typed, Fields, Owned, TimersArePast, Due, Heard, Waits
    <2> HIDE DEF cooling
    <2>6. work \in Callback /\ work.kind = "Cooldown"
        BY BarrierWorkType
    <2>7. Good(Await(cooling, work))
        BY <2>5, <2>6, AwaitKeeps DEF Quiet, Good, Base
    <2>8. Good(CompleteCloseCooldown(cooling, epoch, p))
        BY <2>5, CompleteCloseCooldownGood
    <2>9. CompleteCloseBarrier(s, epoch, timedOut, p) \in
            {s, AbandonCloseContinuation(failed), Await(cooling, work),
             CompleteCloseCooldown(cooling, epoch, p)}
        BY DEF CompleteCloseBarrier, failed, f, cooling
    <2> QED BY <2>4, <2>7, <2>8, <2>9 DEF Quiet
<1>2. CASE ~s.IsCloseInFlight
    BY <1>2 DEF CompleteCloseBarrier, Quiet
<1> QED BY <1>1, <1>2
-----------------------------------------------------------------------------
(* Platform callbacks.                                                     *)

(* A callback that is current finds the connection it belongs to.          *)
LEMMA CompleteFailureGood ==
    ASSUME NEW s, Quiet(s), s.Connection # NoConnection,
           NEW result \in DeviceConnectionResult, NEW transient \in BOOLEAN,
           NEW p \in PlatformOutcome
    PROVE  Good(CompleteFailure(s, result, transient, p))
BY CompleteFailureEnds DEF Quiet, Good, Ends

LEMMA CurrentIsLive ==
    ASSUME NEW s, NEW epoch, NEW address \in Address,
           IsCurrentConnection(s, epoch, address)
    PROVE  s.Connection # NoConnection /\ s.Connection = address
BY SessionAssumption DEF IsCurrentConnection

LEMMA OnStartedGood ==
    ASSUME NEW s, Quiet(s), NEW epoch \in Nat, NEW address \in Address,
           NEW result \in DeviceConnectionResult, NEW p \in PlatformOutcome
    PROVE  Good(OnStarted(s, epoch, address, result, p))
<1> DEFINE k == [s EXCEPT !.Lifecycle = "Idle"]
<1>1. CASE IsCurrentConnection(s, epoch, address)
    <2>1. s.Connection # NoConnection
        BY <1>1, CurrentIsLive
    <2>2. /\ Good(CompleteFailure(s, result, FALSE, p))
          /\ Good(CompleteFailure(s, "Failed", FALSE, p))
        BY <2>1, Parameters, CompleteFailureGood
    <2>3. Good(k)
        BY DEF Quiet, Good, Base, Typed, Fields, Owned, TimersArePast, Due, Heard, Waits,
               DeviceLifecycleState
    <2> HIDE DEF k
    <2>4. Good(Publish(k, "Success", FALSE, "None"))
        BY <2>3, Parameters, PublishGood
    <2>5. Good(Await(s, NativeWork("Opened", epoch, address)))
        BY NativeWorkType, AwaitKeeps DEF Quiet, Good, Base
    <2> QED BY <2>2, <2>4, <2>5 DEF OnStarted, Quiet, k
<1>2. CASE ~IsCurrentConnection(s, epoch, address)
    BY <1>2 DEF OnStarted, Quiet
<1> QED BY <1>1, <1>2

LEMMA EstablishedGood ==
    ASSUME NEW s, Quiet(s)
    PROVE  Good(Established(s))
<1> DEFINE k == [s EXCEPT !.Lifecycle = "Connected", !.CompletedRetryAttempts = 0,
                          !.RetryEligible = s.IsReconnectEnabled]
<1>1. Good(k)
    BY DEF Quiet, Good, Base, Typed, Fields, Owned, TimersArePast, Due, Heard, Waits,
           DeviceLifecycleState
<1> HIDE DEF k
<1>2. Good(Publish(k, "Success", FALSE, "None"))
    BY <1>1, Parameters, PublishGood
<1> QED BY <1>2 DEF Established, k

LEMMA OnOpenedGood ==
    ASSUME NEW s, Quiet(s), NEW epoch \in Nat, NEW address \in Address,
           NEW openResult, openResult.Result \in DeviceConnectionResult,
           openResult.IsTransientFailure \in BOOLEAN, NEW p \in PlatformOutcome
    PROVE  Good(OnOpened(s, epoch, address, openResult, p))
<1>1. CASE IsCurrentConnection(s, epoch, address)
    <2>1. Good(CompleteFailure(s, openResult.Result, openResult.IsTransientFailure, p))
        BY <1>1, CurrentIsLive, CompleteFailureGood
    <2>2. Good(Established(s))
        BY EstablishedGood
    <2> QED BY <2>1, <2>2 DEF OnOpened, Quiet
<1>2. CASE ~IsCurrentConnection(s, epoch, address)
    BY <1>2 DEF OnOpened, Quiet
<1> QED BY <1>1, <1>2

LEMMA OnPostFailedGood ==
    ASSUME NEW s, Quiet(s), NEW epoch \in Nat, NEW address \in Address,
           NEW p \in PlatformOutcome
    PROVE  Good(OnPostFailed(s, epoch, address, p))
<1>1. IsCurrentConnection(s, epoch, address) => Good(CompleteFailure(s, "Failed", FALSE, p))
    BY CurrentIsLive, CompleteFailureGood, Parameters
<1> QED BY <1>1 DEF OnPostFailed, Quiet

LEMMA OnListenerLostGood ==
    ASSUME NEW s, Quiet(s), s.Connection # NoConnection, NEW p \in PlatformOutcome
    PROVE  Good(OnListenerLost(s, p))
<1> DEFINE k == [s EXCEPT !.Lifecycle = "Idle", !.RetryEligible = FALSE]
<1>1. ~s.IsCloseInFlight
    BY DEF Quiet, Good, Base, Owned
<1>2. Good(ScheduleReconnect(s, "Failed", TRUE, FALSE, "UnexpectedLoss", p))
    BY <1>1, Parameters, ScheduleReconnectEnds DEF Quiet, Good, Ends
<1>3. Good(k)
    BY DEF Quiet, Good, Base, Typed, Fields, Owned, TimersArePast, Due, Heard, Waits,
           DeviceLifecycleState
<1> HIDE DEF k
<1>4. Good(Publish(k, "Success", FALSE, "UnexpectedLoss"))
    BY <1>3, Parameters, PublishGood
<1> QED BY <1>2, <1>4 DEF OnListenerLost, k

LEMMA OnConnectionClosedGood ==
    ASSUME NEW s, Quiet(s), s.Connection # NoConnection, NEW isIncomingListener \in BOOLEAN,
           NEW p \in PlatformOutcome
    PROVE  Good(OnConnectionClosed(s, isIncomingListener, p))
<1> DEFINE dropped == [RevokeStateChanged(s) EXCEPT !.Connection = NoConnection,
                                                    !.OperationEpoch = @ + 1]
           k == [dropped EXCEPT !.Lifecycle = "Idle"]
           u == Publish(k, "Success", FALSE, "None")
           wasEstablished == s.Lifecycle = "Connected"
           isAutomatic == s.CurrentOperation = "AutomaticReconnect"
           reason == IF wasEstablished THEN "UnexpectedLoss" ELSE "None"
<1>1. ~s.IsCloseInFlight
    BY DEF Quiet, Good, Base, Owned
<1>2. Good(dropped) /\ ~dropped.listenerDue /\ Idling(dropped)
    BY <1>1 DEF Quiet, Idling, Good, Base, Typed, Fields, Owned, TimersArePast, Due, Heard,
                Waits, RevokeStateChanged
<1> HIDE DEF dropped
<1>3. Good(k) /\ ~k.listenerDue
    BY <1>2 DEF Idling, Good, Base, Typed, Fields, Owned, TimersArePast, Due, Heard, Waits,
                DeviceLifecycleState
<1> HIDE DEF k
<1>4. Good(u) /\ ~u.listenerDue
    <2>1. "Success" \in DeviceConnectionResult /\ "None" \in DeviceDisconnectReason
        BY Parameters
    <2> QED BY <1>3, <2>1, PublishGood
<1> HIDE DEF u
<1>5. Good(StartListener(u, p))
    BY <1>4, StartListenerEnds
<1>6. isAutomatic \in BOOLEAN /\ reason \in DeviceDisconnectReason /\ s.RetryEligible \in BOOLEAN
    BY Parameters DEF Quiet, Good, Base, Typed
<1> HIDE DEF isAutomatic, reason
<1>7. Good(ScheduleReconnect(dropped, "Failed", s.RetryEligible, isAutomatic, reason, p))
    BY <1>2, <1>6, Parameters, ScheduleReconnectEnds DEF Idling, Good, Ends
<1> QED BY <1>5, <1>7 DEF OnConnectionClosed, u, k, dropped, isAutomatic, reason

(* A new timer epoch alone.                                                *)
LEMMA CancelTimerBase ==
    ASSUME NEW s, Quiet(s)
    PROVE  /\ Base(CancelTimer(s)) /\ Heard(CancelTimer(s)) /\ ~CancelTimer(s).listenerDue
           /\ Moved(s, CancelTimer(s))
           /\ CancelTimer(s).Connection = s.Connection
           /\ Waits(CancelTimer(s))
<1>1. /\ Moved(s, CancelTimer(s)) /\ CancelTimer(s).Lifecycle = s.Lifecycle
      /\ Heard(CancelTimer(s)) /\ CancelTimer(s).TimerEpoch = s.TimerEpoch + 1
    BY DEF CancelTimer, Moved, Quiet, Good, Base, Typed, Fields, Heard
<1>2. \A c \in s.callbacks : c.kind = "TransientOpenRetryTimer" =>
                                c.timerEpoch # s.TimerEpoch + 1
    <2> TAKE c \in s.callbacks
    <2> HAVE c.kind = "TransientOpenRetryTimer"
    <2>1. c.timerEpoch \in Nat
        BY DEF Quiet, Good, Base, Typed, Callback
    <2> QED BY <2>1 DEF Quiet, Good, Base, Typed, TimersArePast
<1>3. Waits(CancelTimer(s))
    BY <1>1, <1>2 DEF Moved, Waits, Quiet, Good
<1> QED BY <1>1, <1>3, MovedKeeps DEF Moved, Quiet

LEMMA OnStateChangedGood ==
    ASSUME NEW s, Quiet(s), NEW epoch \in Nat, NEW address \in Address,
           NEW state \in DeviceConnectionState, NEW p \in PlatformOutcome
    PROVE  Good(OnStateChanged(s, epoch, address, state, p))
<1> DEFINE isIncomingListener == ~s.OpenImmediately /\ s.IsIncomingEnabled
<1>1. CASE IsCurrentConnection(s, epoch, address)
    <2>1. s.Connection # NoConnection /\ isIncomingListener \in BOOLEAN
        BY <1>1, CurrentIsLive
    <2>2. Good(Established(CancelTimer(s)))
        BY CancelTimerBase, EstablishedGood DEF Quiet, Good
    <2>3. Good(OnListenerLost(s, p))
        BY <2>1, OnListenerLostGood
    <2> HIDE DEF isIncomingListener
    <2>4. Good(OnConnectionClosed(s, isIncomingListener, p))
        BY <2>1, OnConnectionClosedGood
    <2>5. CASE state = "Opened"
        BY <1>1, <2>2, <2>5 DEF OnStateChanged
    <2>6. CASE state = "Closed"
        BY <1>1, <2>3, <2>4, <2>6 DEF OnStateChanged, Quiet, isIncomingListener
    <2> QED BY <2>5, <2>6 DEF DeviceConnectionState
<1>2. CASE ~IsCurrentConnection(s, epoch, address)
    BY <1>2 DEF OnStateChanged, Quiet
<1> QED BY <1>1, <1>2

LEMMA OnRetryTimerGood ==
    ASSUME NEW s, Quiet(s), NEW timerEpoch, NEW epoch, NEW p \in PlatformOutcome
    PROVE  Good(OnRetryTimer(s, timerEpoch, epoch, p))
<1>1. Good(StartConnection(s, "AutomaticReconnect", s.OpenImmediately, p))
    <2>1. "AutomaticReconnect" \in DeviceOperationKind /\ s.OpenImmediately \in BOOLEAN
        BY Parameters DEF Quiet, Good, Base, Typed
    <2> QED BY <2>1, StartConnectionEnds DEF Quiet
<1> QED BY <1>1 DEF OnRetryTimer, Quiet

(* The callback has been taken from the outstanding ones, so that nothing  *)
(* in s says any longer what it found: the timer's own fact is a premise.  *)
LEMMA OnTransientOpenRetryTimerGood ==
    ASSUME NEW s, Quiet(s), NEW timerEpoch, NEW epoch, NEW p \in PlatformOutcome,
           TimerIsCurrent(s, timerEpoch, epoch) => s.Connection = NoConnection
    PROVE  Good(OnTransientOpenRetryTimer(s, timerEpoch, epoch, p))
<1>1. TimerIsCurrent(s, timerEpoch, epoch) => Good(BeginCreate(s, p))
    BY BeginCreateEnds DEF TimerIsCurrent, Quiet, Good, Waits, Ends
<1> QED BY <1>1 DEF OnTransientOpenRetryTimer, Quiet
-----------------------------------------------------------------------------
(* Public operations.                                                      *)

LEMMA HandleDeviceRemovedGood ==
    ASSUME NEW s, Quiet(s), NEW p \in PlatformOutcome
    PROVE  Good(HandleDeviceRemoved(s, p))
<1> DEFINE settled == [CancelTimer(s) EXCEPT !.RestoreIncomingAfterClose = FALSE]
           removed == [settled EXCEPT !.OperationEpoch = @ + 1]
           k == [removed EXCEPT !.Lifecycle = "Disconnecting"]
           closing == RevokeStateChanged(k)
           quietly == Publish(closing, "Success", FALSE, "None")
           loudly == Publish(closing, "Failed", FALSE, "DeviceRemoved")
<1>0. Good(s) /\ s.RetryEligible \in BOOLEAN
    BY DEF Quiet, Good, Base, Typed
<1>1. Moved(s, settled) /\ Moved(s, removed) /\ Moved(s, k) /\ k.Lifecycle = "Disconnecting"
    BY DEF CancelTimer, Moved, Quiet, Good, Base, Typed, Fields, DeviceLifecycleState
<1> HIDE DEF settled, removed, k
<1>2. Moved(s, closing) /\ closing.Lifecycle = "Disconnecting"
    BY <1>1, RevokeMoved
<1> HIDE DEF closing
<1>3. /\ Moved(s, quietly) /\ quietly.Lifecycle = "Disconnecting"
      /\ Moved(s, loudly) /\ loudly.Lifecycle = "Disconnecting"
    <2>1. /\ "Success" \in DeviceConnectionResult /\ "Failed" \in DeviceConnectionResult
          /\ "None" \in DeviceDisconnectReason /\ "DeviceRemoved" \in DeviceDisconnectReason
        BY Parameters
    <2>2. Moved(s, quietly) /\ quietly.Lifecycle = closing.Lifecycle
        BY <2>1, <1>2, PublishMoved
    <2>3. Moved(s, loudly) /\ loudly.Lifecycle = closing.Lifecycle
        BY <2>1, <1>2, PublishMoved
    <2> QED BY <2>2, <2>3, <1>2
<1> HIDE DEF quietly, loudly
<1>4. CASE Idling(s)
    <2>1. Good(settled) /\ Good(removed) /\ ~removed.IsCloseInFlight
        BY <1>0, <1>1, <1>4, MovedKeeps DEF Idling
    <2>2. Good(Publish(settled, "Success", FALSE, "None"))
        BY <2>1, PublishGood, Parameters
    <2>3. Good(ScheduleReconnect(removed, "Failed", s.RetryEligible, FALSE,
                                 "DeviceRemoved", p))
        BY <1>0, <2>1, ScheduleReconnectEnds, Parameters DEF Good, Ends
    <2>4. HandleDeviceRemoved(s, p) \in
            {s, Publish(settled, "Success", FALSE, "None"),
             ScheduleReconnect(removed, "Failed", s.RetryEligible, FALSE, "DeviceRemoved", p)}
        BY <1>4 DEF HandleDeviceRemoved, removed, settled, Idling
    <2> QED BY <1>0, <2>2, <2>3, <2>4
<1>5. CASE ~Idling(s)
    <2>1. Good(BeginClose(quietly, "Idle", "Success", FALSE, FALSE, "None", p))
        BY <1>0, <1>3, <1>5, CloseMoved
        DEF CloseContinuation, DeviceConnectionResult, DeviceDisconnectReason
    <2>2. Good(BeginClose(loudly, "Retry", "Failed", s.RetryEligible, FALSE,
                          "DeviceRemoved", p))
        BY <1>0, <1>3, <1>5, CloseMoved
        DEF CloseContinuation, DeviceConnectionResult, DeviceDisconnectReason
    <2>3. HandleDeviceRemoved(s, p) \in
            {s, BeginClose(quietly, "Idle", "Success", FALSE, FALSE, "None", p),
             BeginClose(loudly, "Retry", "Failed", s.RetryEligible, FALSE, "DeviceRemoved", p)}
        BY <1>5 DEF HandleDeviceRemoved, quietly, loudly, closing, k, removed, settled, Idling
    <2> QED BY <1>0, <2>1, <2>2, <2>3
<1> QED BY <1>4, <1>5

LEMMA SupersedingMoved ==
    ASSUME NEW s, Typed(s), ~s.listenerDue, NEW operation \in DeviceOperationKind,
           NEW openImmediately \in BOOLEAN
    PROVE  Moved(s, [CancelTimer(s) EXCEPT
                    !.IsReconnectCancelled = FALSE, !.CompletedRetryAttempts = 0,
                    !.TransientOpenRetryAttempts = 0, !.CurrentOperation = operation,
                    !.RetryEligible = FALSE, !.OpenImmediately = openImmediately,
                    !.OperationEpoch = @ + 1])
<1> DEFINE t == [CancelTimer(s) EXCEPT
                    !.IsReconnectCancelled = FALSE, !.CompletedRetryAttempts = 0,
                    !.TransientOpenRetryAttempts = 0, !.CurrentOperation = operation,
                    !.RetryEligible = FALSE, !.OpenImmediately = openImmediately,
                    !.OperationEpoch = @ + 1]
<1>1. Typed(t)
    BY DEF Typed, Fields, CancelTimer
<1>2. /\ t.Connection = s.Connection /\ t.ClosingConnection = s.ClosingConnection
      /\ t.IsCloseInFlight = s.IsCloseInFlight /\ t.IsCloseCooldown = s.IsCloseCooldown
      /\ t.callbacks = s.callbacks /\ t.StateChangedToken = s.StateChangedToken
      /\ t.listenerDue = s.listenerDue
    BY DEF Typed, Fields, CancelTimer
<1>3. t.TimerEpoch >= s.TimerEpoch
    BY DEF Typed, Fields, CancelTimer
<1> HIDE DEF t
<1>4. Moved(s, t)
    BY <1>1, <1>2, <1>3 DEF Moved
<1> QED BY <1>4 DEF t

LEMMA ConnectGood ==
    ASSUME NEW s, Quiet(s), NEW operation \in DeviceOperationKind,
           NEW openImmediately \in BOOLEAN, NEW p \in PlatformOutcome
    PROVE  Good(Connect(s, operation, openImmediately, p))
<1> DEFINE released == [s EXCEPT !.IsSuspended = FALSE, !.ResumeRequired = FALSE,
                                 !.ResumeRequested = FALSE, !.IsSuspendClosePending = FALSE]
           restores == s.IsIncomingEnabled /\ ~openImmediately
           started == [CancelTimer(released) EXCEPT
                        !.IsReconnectCancelled = FALSE, !.CompletedRetryAttempts = 0,
                        !.TransientOpenRetryAttempts = 0, !.CurrentOperation = operation,
                        !.RetryEligible = FALSE, !.OpenImmediately = openImmediately,
                        !.OperationEpoch = @ + 1]
           replacing == [started EXCEPT !.Lifecycle = "Disconnecting",
                                        !.RestoreIncomingAfterClose = restores]
           u == Publish(replacing, "Success", FALSE, "None")
<1>1. Quiet(released)
    BY DEF Quiet, Good, Base, Typed, Fields, Owned, TimersArePast, Due, Heard, Waits
<1>2. Idling(released) <=> Idling(s)
    BY DEF Idling, Quiet, Good, Base, Typed, Fields
<1>3. released.IsCloseInFlight = s.IsCloseInFlight
    BY DEF Quiet, Good, Base, Typed, Fields
<1>4. restores \in BOOLEAN
    OBVIOUS
<1> HIDE DEF released, restores
<1>5. Moved(released, replacing) /\ replacing.Lifecycle = "Disconnecting"
    <2>1. Moved(released, started)
        <3>1. Typed(released) /\ ~released.listenerDue
            BY <1>1 DEF Quiet, Good, Base
        <3> QED BY <3>1, SupersedingMoved, Zenon
    <2> HIDE DEF started
    <2>2. Typed(replacing)
        BY <2>1, <1>4 DEF Moved, Typed, Fields, DeviceLifecycleState
    <2> QED BY <2>1, <2>2 DEF Moved, Typed, Fields
<1> HIDE DEF replacing
<1>6. Moved(released, u) /\ u.Lifecycle = "Disconnecting"
    <2>1. "Success" \in DeviceConnectionResult /\ "None" \in DeviceDisconnectReason
        BY Parameters
    <2>2. Moved(released, u) /\ u.Lifecycle = replacing.Lifecycle
        BY <2>1, <1>5, PublishMoved
    <2> QED BY <2>2, <1>5
<1> HIDE DEF u
<1>7. /\ Good(StartConnection(released, operation, openImmediately, p))
      /\ Good(StartConnection(s, operation, openImmediately, p))
    BY <1>1, StartConnectionEnds DEF Quiet
<1>8. s.IsCloseInFlight => Good(BeginClose(u, "Replace", "Success", FALSE, FALSE, "None", p))
    <2> SUFFICES ASSUME s.IsCloseInFlight
                 PROVE  Good(BeginClose(u, "Replace", "Success", FALSE, FALSE, "None", p))
        OBVIOUS
    <2>1. Good(released) /\ ~Idling(released)
        BY <1>1, <1>3 DEF Idling, Quiet
    <2> QED BY <2>1, <1>6, CloseMoved
            DEF CloseContinuation, DeviceConnectionResult, DeviceDisconnectReason
<1>9. SupersedePowerTransitionRecovery(s, operation, openImmediately, p) =
        IF ~s.IsCloseInFlight THEN StartConnection(released, operation, openImmediately, p)
        ELSE IF s.IsCloseContinuationAbandoned THEN released
             ELSE BeginClose(u, "Replace", "Success", FALSE, FALSE, "None", p)
    BY DEF SupersedePowerTransitionRecovery, u, replacing, started, restores, released
<1>10. Good(SupersedePowerTransitionRecovery(s, operation, openImmediately, p))
    BY <1>1, <1>7, <1>8, <1>9 DEF Quiet
<1> QED BY <1>7, <1>10 DEF Connect, Quiet

LEMMA DisconnectGood ==
    ASSUME NEW s, Quiet(s), NEW restoreIncoming \in BOOLEAN, NEW p \in PlatformOutcome
    PROVE  Good(Disconnect(s, restoreIncoming, p))
<1> DEFINE cancelled == [CancelTimer(s) EXCEPT
                            !.IsReconnectCancelled = TRUE, !.RetryEligible = FALSE,
                            !.OperationEpoch = @ + 1,
                            !.RestoreIncomingAfterClose = restoreIncoming]
           i == [cancelled EXCEPT !.Lifecycle = "Idle"]
           idle == Publish(i, "Success", FALSE, "Normal")
           k == [cancelled EXCEPT !.Lifecycle = "Disconnecting"]
           closing == RevokeStateChanged(k)
           u == Publish(closing, "Success", FALSE, "Normal")
           v == [idle EXCEPT !.RestoreIncomingAfterClose = FALSE]
<1>0. Good(s)
    BY DEF Quiet
<1>1. Moved(s, i) /\ Moved(s, k) /\ k.Lifecycle = "Disconnecting"
    BY DEF CancelTimer, Moved, Quiet, Good, Base, Typed, Fields, DeviceLifecycleState
<1> HIDE DEF i, k
<1>2. Moved(s, closing) /\ closing.Lifecycle = "Disconnecting"
    BY <1>1, RevokeMoved
<1> HIDE DEF closing
<1>3. Moved(s, idle) /\ Moved(s, u) /\ u.Lifecycle = "Disconnecting"
    <2>1. "Success" \in DeviceConnectionResult /\ "Normal" \in DeviceDisconnectReason
        BY Parameters
    <2>2. Moved(s, idle)
        BY <2>1, <1>1, PublishMoved
    <2>3. Moved(s, u) /\ u.Lifecycle = closing.Lifecycle
        BY <2>1, <1>2, PublishMoved
    <2> QED BY <2>2, <2>3, <1>2
<1> HIDE DEF idle, u
<1>4. Moved(s, v)
    BY <1>3 DEF Moved, Typed, Fields
<1> HIDE DEF v
<1>5. CASE Idling(s)
    <2>1. Good(idle) /\ Good(v) /\ ~v.listenerDue
        BY <1>0, <1>3, <1>4, <1>5, MovedKeeps DEF Moved
    <2>2. Good(StartListener(v, p))
        BY <2>1, StartListenerEnds
    <2>3. Disconnect(s, restoreIncoming, p) \in {s, StartListener(v, p), idle}
        BY <1>5 DEF Disconnect, v, idle, i, cancelled, Idling
    <2> QED BY <1>0, <2>1, <2>2, <2>3
<1>6. CASE ~Idling(s)
    <2>1. Good(BeginClose(u, "Idle", "Success", FALSE, FALSE, "None", p))
        BY <1>0, <1>3, <1>6, CloseMoved
        DEF CloseContinuation, DeviceConnectionResult, DeviceDisconnectReason
    <2>2. Disconnect(s, restoreIncoming, p) \in
            {s, BeginClose(u, "Idle", "Success", FALSE, FALSE, "None", p)}
        BY <1>6 DEF Disconnect, u, closing, k, cancelled, Idling
    <2> QED BY <1>0, <2>1, <2>2
<1> QED BY <1>5, <1>6

LEMMA CancelAutomaticReconnectGood ==
    ASSUME NEW s, Quiet(s), NEW restoreIncoming \in BOOLEAN, NEW p \in PlatformOutcome
    PROVE  Good(CancelAutomaticReconnect(s, restoreIncoming, p))
<1> DEFINE cancelled == [CancelTimer(s) EXCEPT !.RetryEligible = FALSE]
           superseded == [cancelled EXCEPT !.OperationEpoch = @ + 1]
           restores == restoreIncoming /\ s.IsIncomingEnabled
           k == [superseded EXCEPT !.Lifecycle = "Disconnecting",
                                   !.RestoreIncomingAfterClose = restores]
           closing == RevokeStateChanged(k)
           i == [superseded EXCEPT !.Lifecycle = "Idle"]
           idle == Publish(i, "Cancelled", FALSE, "None")
<1>0. Good(s) /\ restores \in BOOLEAN
    BY DEF Quiet
<1> HIDE DEF restores
<1>1. Moved(s, i) /\ Moved(s, k) /\ k.Lifecycle = "Disconnecting"
    BY <1>0 DEF CancelTimer, Moved, Quiet, Good, Base, Typed, Fields, DeviceLifecycleState
<1>2. Good(cancelled)
    <2>1. Good(CancelTimer(s))
        BY CancelTimerBase DEF Good
    <2> HIDE DEF cancelled
    <2>2. cancelled = [CancelTimer(s) EXCEPT !.RetryEligible = FALSE]
        BY DEF cancelled
    <2> QED BY <2>1, <2>2
            DEF Good, Base, Typed, Fields, Owned, TimersArePast, Due, Heard, Waits
<1> HIDE DEF i, k, cancelled
<1>3. Moved(s, closing) /\ closing.Lifecycle = "Disconnecting"
    BY <1>1, RevokeMoved
<1> HIDE DEF closing
<1>4. Moved(s, idle)
    BY <1>1, PublishMoved DEF DeviceConnectionResult, DeviceDisconnectReason
<1> HIDE DEF idle
<1>5. Good(Publish(cancelled, "Cancelled", FALSE, "None"))
    BY <1>2, Parameters, PublishGood
<1>6. CASE Idling(s)
    <2>1. Good(idle) /\ ~idle.listenerDue
        BY <1>0, <1>4, <1>6, MovedKeeps DEF Moved
    <2>2. Good(StartListener(idle, p))
        BY <2>1, StartListenerEnds
    <2>3. CancelAutomaticReconnect(s, restoreIncoming, p) \in
            {Publish(cancelled, "Cancelled", FALSE, "None"), StartListener(idle, p), idle}
        BY <1>6 DEF CancelAutomaticReconnect, idle, i, cancelled, Idling
    <2> QED BY <1>5, <2>1, <2>2, <2>3
<1>7. CASE ~Idling(s)
    <2>1. Good(BeginClose(closing, "Idle", "Cancelled", FALSE, FALSE, "None", p))
        BY <1>0, <1>3, <1>7, CloseMoved
        DEF CloseContinuation, DeviceConnectionResult, DeviceDisconnectReason
    <2>2. CancelAutomaticReconnect(s, restoreIncoming, p) \in
            {Publish(cancelled, "Cancelled", FALSE, "None"),
             BeginClose(closing, "Idle", "Cancelled", FALSE, FALSE, "None", p)}
        BY <1>7 DEF CancelAutomaticReconnect, closing, k, restores, cancelled, Idling
    <2> QED BY <1>5, <2>1, <2>2
<1> QED BY <1>6, <1>7

LEMMA CancelReconnectGood ==
    ASSUME NEW s, Quiet(s), NEW p \in PlatformOutcome
    PROVE  Good(CancelReconnect(s, p))
<1> DEFINE u == [s EXCEPT !.IsReconnectCancelled = TRUE]
<1>1. Quiet(u) /\ s.IsIncomingEnabled \in BOOLEAN
    BY DEF Quiet, Good, Base, Typed, Fields, Owned, TimersArePast, Due, Heard, Waits
<1> HIDE DEF u
<1>2. Good(CancelAutomaticReconnect(u, s.IsIncomingEnabled, p))
    BY <1>1, CancelAutomaticReconnectGood
<1> QED BY <1>2 DEF CancelReconnect, Quiet, u

LEMMA SetReconnectEnabledGood ==
    ASSUME NEW s, Quiet(s), NEW enabled \in BOOLEAN, NEW p \in PlatformOutcome
    PROVE  Good(SetReconnectEnabled(s, enabled, p))
<1> DEFINE u == [s EXCEPT !.IsReconnectEnabled = enabled]
<1>1. Quiet(u) /\ s.IsIncomingEnabled \in BOOLEAN
    BY DEF Quiet, Good, Base, Typed, Fields, Owned, TimersArePast, Due, Heard, Waits
<1> HIDE DEF u
<1>2. Good(CancelAutomaticReconnect(u, s.IsIncomingEnabled, p))
    BY <1>1, CancelAutomaticReconnectGood
<1>3. Good(Publish(u, "Success", FALSE, "None"))
    BY <1>1, Parameters, PublishGood DEF Quiet
<1> QED BY <1>2, <1>3 DEF SetReconnectEnabled, Quiet, u

LEMMA SetIncomingEnabledGood ==
    ASSUME NEW s, Quiet(s), NEW enabled \in BOOLEAN, NEW p \in PlatformOutcome
    PROVE  Good(SetIncomingEnabled(s, enabled, p))
<1> DEFINE u == [s EXCEPT !.IsIncomingEnabled = enabled]
<1>1. Quiet(u)
    BY DEF Quiet, Good, Base, Typed, Fields, Owned, TimersArePast, Due, Heard, Waits
<1> HIDE DEF u
<1>2. Good(Disconnect(u, FALSE, p))
    BY <1>1, DisconnectGood
<1>3. Good(StartListener(u, p))
    BY <1>1, StartListenerEnds DEF Quiet
<1>4. Good(Publish(u, "Success", FALSE, "None"))
    BY <1>1, Parameters, PublishGood DEF Quiet
<1>5. SetIncomingEnabled(s, enabled, p) \in
        {s, Disconnect(u, FALSE, p), StartListener(u, p), Publish(u, "Success", FALSE, "None")}
    BY DEF SetIncomingEnabled, u
<1> QED BY <1>2, <1>3, <1>4, <1>5 DEF Quiet

LEMMA SuspendGood ==
    ASSUME NEW s, Quiet(s), NEW p \in PlatformOutcome
    PROVE  Good(Suspend(s, p))
<1> DEFINE required == s.Connection # NoConnection \/ IsBusy(s)
           suspended == [CancelTimer(s) EXCEPT
                            !.ResumeRequired = required,
                            !.ResumeOpenImmediately = s.OpenImmediately,
                            !.IsSuspended = TRUE, !.OperationEpoch = @ + 1]
           k == [suspended EXCEPT !.IsSuspendClosePending = TRUE,
                                  !.SuspendCloseEpoch = suspended.OperationEpoch,
                                  !.Lifecycle = "Disconnecting"]
           closing == RevokeStateChanged(k)
           i == [suspended EXCEPT !.Lifecycle = "Idle"]
<1>0. Good(s) /\ required \in BOOLEAN
    BY DEF Quiet, IsBusy
<1> HIDE DEF required
<1>1. Moved(s, suspended)
    BY <1>0 DEF CancelTimer, Moved, Quiet, Good, Base, Typed, Fields
<1> HIDE DEF suspended
<1>2. Moved(s, i) /\ Moved(s, k) /\ k.Lifecycle = "Disconnecting"
    BY <1>1 DEF Moved, Typed, Fields, DeviceLifecycleState
<1> HIDE DEF i, k
<1>3. Moved(s, closing) /\ closing.Lifecycle = "Disconnecting"
    BY <1>2, RevokeMoved
<1> HIDE DEF closing
<1>4. CASE Idling(s)
    <2>1. Good(i)
        BY <1>0, <1>2, <1>4, MovedKeeps
    <2>2. Good(Publish(i, "Cancelled", FALSE, "None"))
        BY <2>1, Parameters, PublishGood
    <2>3. Suspend(s, p) \in {s, Publish(i, "Cancelled", FALSE, "None")}
        BY <1>4 DEF Suspend, i, suspended, required, Idling
    <2> QED BY <1>0, <2>2, <2>3
<1>5. CASE ~Idling(s)
    <2>1. Good(BeginClose(closing, "Suspend", "Cancelled", FALSE, FALSE, "None", p))
        BY <1>0, <1>3, <1>5, CloseMoved
        DEF CloseContinuation, DeviceConnectionResult, DeviceDisconnectReason
    <2>2. Suspend(s, p) \in
            {s, BeginClose(closing, "Suspend", "Cancelled", FALSE, FALSE, "None", p)}
        BY <1>5 DEF Suspend, closing, k, suspended, required, Idling
    <2> QED BY <1>0, <2>1, <2>2
<1> QED BY <1>4, <1>5

LEMMA ResumeGood ==
    ASSUME NEW s, Quiet(s), NEW p \in PlatformOutcome
    PROVE  Good(Resume(s, p))
<1> DEFINE r == [s EXCEPT !.ResumeRequested = TRUE]
           u == [s EXCEPT !.IsSuspended = FALSE]
<1>1. Good(r) /\ Quiet(u)
    BY DEF Quiet, Good, Base, Typed, Fields, Owned, TimersArePast, Due, Heard, Waits
<1> HIDE DEF r, u
<1>2. Good(StartAfterResume(u, p))
    BY <1>1, StartAfterResumeGood
<1>3. Resume(s, p) \in {s, r, StartAfterResume(u, p)}
    BY DEF Resume, r, u
<1> QED BY <1>1, <1>2, <1>3 DEF Quiet

(* The operations that make no platform call.                              *)
LEMMA FlagOperationsQuiet ==
    ASSUME NEW s, Quiet(s)
    PROVE  /\ Quiet(ResumeIdleAfterPowerTransition(s))
           /\ Quiet(CancelPowerTransitionRecovery(s))
           /\ Quiet(Rename(s))
           /\ Quiet(Shutdown(s))
<1> DEFINE u == [s EXCEPT !.IsSuspended = FALSE]
           v == [s EXCEPT !.IsSuspended = FALSE, !.ResumeRequired = FALSE,
                          !.ResumeRequested = FALSE, !.IsSuspendClosePending = FALSE]
<1>1. ASSUME NEW t, Quiet(t) PROVE Quiet(Publish(t, "Success", FALSE, "None"))
    <2>1. "Success" \in DeviceConnectionResult /\ "None" \in DeviceDisconnectReason
        BY Parameters
    <2>2. Good(t) /\ ~t.listenerDue
        BY <1>1 DEF Quiet
    <2> QED BY <2>1, <2>2, PublishGood DEF Quiet
<1>2. Quiet(u) /\ Quiet(v)
    BY DEF Quiet, Good, Base, Typed, Fields, Owned, TimersArePast, Due, Heard, Waits
<1> HIDE DEF u, v
<1>3. Quiet(ResumeIdleAfterPowerTransition(s))
    BY <1>1, <1>2 DEF ResumeIdleAfterPowerTransition, u
<1>4. Quiet(CancelPowerTransitionRecovery(s))
    BY <1>1, <1>2 DEF CancelPowerTransitionRecovery, v
<1>5. Quiet(Rename(s))
    BY <1>1 DEF Rename
<1>6. Quiet(Shutdown(s))
    <2> DEFINE c == CancelTimer(s)
               d == CloseForShutdown(c)
               e == [d EXCEPT !.IsShutdown = TRUE, !.OperationEpoch = @ + 1,
                              !.Lifecycle = "Idle"]
    <2>1. Base(c) /\ ~c.listenerDue
        BY CancelTimerBase
    <2> HIDE DEF c
    <2>2. /\ Base(d) /\ ~d.listenerDue /\ Idling(d) /\ ~d.StateChangedToken
        BY <2>1 DEF CloseForShutdown, Idling, Base, Typed, Fields, Owned, TimersArePast, Due
    <2> HIDE DEF d
    <2>3. Quiet(e)
        BY <2>2, SMTT(30)
        DEF Quiet, Good, Idling, Base, Typed, Fields, Owned, TimersArePast, Due, Heard,
            Waits, DeviceLifecycleState
    <2> QED BY <2>3 DEF Shutdown, e, d, c
<1> QED BY <1>3, <1>4, <1>5, <1>6
-----------------------------------------------------------------------------
(* The invariant.                                                          *)

IInv == TypeOK /\ Quiet(session)

LEMMA SettleStep ==
    ASSUME NEW t, Quiet(t), TypeOK, Settle(t)
    PROVE  IInv'
<1> DEFINE u == [t EXCEPT !.facts = <<>>]
<1>1. session' = u
    BY DEF Settle
<1>2. Quiet(u) /\ u.facts = <<>>
    BY DEF Quiet, Good, Base, Typed, Fields, Owned, TimersArePast, Due, Heard, Waits
<1>3. u = [x \in Fields |-> u[x]]
    BY Zenon DEF Quiet, Good, Base, Typed
<1> HIDE DEF u
<1>4. u \in SessionState
    BY <1>2, <1>3, TypedRecord DEF Quiet, Good, Base
<1>5. published' \in DeviceSessionSnapshot
    <2>1. t.facts \in Seq(DeviceSessionFact)
        BY DEF Quiet, Good, Base, Typed
    <2>2. CASE t.facts = <<>>
        BY <2>2 DEF Settle, TypeOK
    <2>3. CASE t.facts # <<>>
        <3>1. t.facts[Len(t.facts)] \in DeviceSessionFact
            BY <2>1, <2>3
        <3>2. t.facts[Len(t.facts)].Snapshot \in DeviceSessionSnapshot
            BY <3>1 DEF DeviceSessionFact
        <3> QED BY <2>3, <3>2 DEF Settle
    <2> QED BY <2>2, <2>3
<1>6. Quiet(session') /\ session' \in SessionState /\ session'.facts = <<>>
    BY <1>1, <1>2, <1>4
<1> QED BY <1>5, <1>6 DEF IInv, TypeOK, Quiet, Good, Base, Typed, Owned, TimersArePast, Due,
                          Heard, Waits

LEMMA RunStep ==
    ASSUME NEW t, Good(t), TypeOK, NEW p \in PlatformOutcome, Run(t, p)
    PROVE  IInv'
<1>1. Quiet(Finish(t, p))
    BY FinishEnds DEF Quiet
<1> QED BY <1>1, SettleStep DEF Run

LEMMA TakenQuiet ==
    ASSUME IInv, NEW c \in session.callbacks
    PROVE  Quiet(Taken(c)) /\ c \in Callback
BY DEF IInv, Taken, Quiet, Good, Base, Typed, Fields, Owned, TimersArePast, Due, Heard, Waits

LEMMA CallbackMembers ==
    ASSUME NEW c \in Callback
    PROVE  /\ c.kind \in {"Started", "Opened", "StateChanged"} =>
                c.epoch \in Nat /\ c.address \in Address
           /\ c.kind = "StateChanged" => c.state \in DeviceConnectionState
           /\ c.kind \in {"CloseTimeout", "Closed", "Cooldown"} => c.closeBarrierEpoch \in Nat
BY DEF Callback

LEMMA OpenResultType ==
    ASSUME NEW r \in OpenResults
    PROVE  r.Result \in DeviceConnectionResult /\ r.IsTransientFailure \in BOOLEAN
<1>1. PICK status \in OpenStatus, isGen \in BOOLEAN : r = ToOpenResult(status, isGen)
    BY DEF OpenResults
<1>2. ToConnectionResult(status) \in DeviceConnectionResult
    BY DEF ToConnectionResult, DeviceConnectionResult
<1> QED BY <1>1, <1>2 DEF ToOpenResult

LEMMA CallStep ==
    ASSUME IInv, Call
    PROVE  IInv'
<1>1. Quiet(session) /\ TypeOK /\ Platform \subseteq PlatformOutcome
      /\ Operation \subseteq DeviceOperationKind
    BY DeviceSessionAssumption DEF IInv, DeviceOperationKind
<1>2. CASE \/ CallResumeIdleAfterPowerTransition \/ CallCancelPowerTransitionRecovery
           \/ CallRename \/ CallShutdown
    BY <1>1, <1>2, FlagOperationsQuiet, SettleStep
    DEF CallResumeIdleAfterPowerTransition, CallCancelPowerTransitionRecovery, CallRename,
        CallShutdown
<1>3. ASSUME NEW p \in Platform, NEW operation \in Operation, CallConnect(operation, p)
      PROVE  IInv'
    BY <1>1, <1>3, ConnectGood, RunStep DEF CallConnect
<1>4. ASSUME NEW p \in Platform, NEW flag \in BOOLEAN, CallDisconnect(flag, p)
      PROVE  IInv'
    BY <1>1, <1>4, DisconnectGood, RunStep DEF CallDisconnect
<1>5. ASSUME NEW p \in Platform, NEW flag \in BOOLEAN, CallSetReconnectEnabled(flag, p)
      PROVE  IInv'
    BY <1>1, <1>5, SetReconnectEnabledGood, RunStep DEF CallSetReconnectEnabled
<1>6. ASSUME NEW p \in Platform, NEW flag \in BOOLEAN, CallSetIncomingEnabled(flag, p)
      PROVE  IInv'
    BY <1>1, <1>6, SetIncomingEnabledGood, RunStep DEF CallSetIncomingEnabled
<1>7. ASSUME NEW p \in Platform, CallCancelReconnect(p)
      PROVE  IInv'
    BY <1>1, <1>7, CancelReconnectGood, RunStep DEF CallCancelReconnect
<1>8. ASSUME NEW p \in Platform, CallHandleDeviceRemoved(p)
      PROVE  IInv'
    BY <1>1, <1>8, HandleDeviceRemovedGood, RunStep DEF CallHandleDeviceRemoved
<1>9. ASSUME NEW p \in Platform, CallSuspend(p)
      PROVE  IInv'
    BY <1>1, <1>9, SuspendGood, RunStep DEF CallSuspend
<1>10. ASSUME NEW p \in Platform, CallResume(p)
       PROVE  IInv'
    BY <1>1, <1>10, ResumeGood, RunStep DEF CallResume
<1> QED BY <1>2, <1>3, <1>4, <1>5, <1>6, <1>7, <1>8, <1>9, <1>10 DEF Call

(* The callbacks: each is taken from the outstanding ones and handled.     *)
LEMMA CallbackStep ==
    ASSUME IInv, NEW c \in session.callbacks, NEW p \in Platform,
           \/ \E result \in {"Success", "Failed"} : RunStarted(c, result, p)
           \/ \E openResult \in OpenResults : RunOpened(c, openResult, p)
           \/ RunClosed(c, p) \/ RunRetryTimer(c, p) \/ RunTransientOpenRetryTimer(c, p)
           \/ RunCloseTimeout(c, p) \/ RunCooldown(c, p)
           \/ RunStateChanged(c, p) \/ RunPostFailed(c, p)
    PROVE  IInv'
<1>1. TypeOK /\ Quiet(Taken(c)) /\ c \in Callback /\ p \in PlatformOutcome
    BY DeviceSessionAssumption, TakenQuiet DEF IInv
<1>2. ASSUME NEW result \in {"Success", "Failed"}, RunStarted(c, result, p)
      PROVE  IInv'
    <2>1. c.epoch \in Nat /\ c.address \in Address /\ result \in DeviceConnectionResult
        BY <1>1, <1>2, CallbackMembers DEF RunStarted, DeviceConnectionResult
    <2> QED BY <1>1, <1>2, <2>1, OnStartedGood, RunStep DEF RunStarted
<1>3. ASSUME NEW openResult \in OpenResults, RunOpened(c, openResult, p)
      PROVE  IInv'
    <2>1. c.epoch \in Nat /\ c.address \in Address
        BY <1>1, <1>3, CallbackMembers DEF RunOpened
    <2> QED BY <1>1, <1>3, <2>1, OnOpenedGood, OpenResultType, RunStep DEF RunOpened
<1>4. CASE RunStateChanged(c, p)
    <2>1. c.epoch \in Nat /\ c.address \in Address /\ c.state \in DeviceConnectionState
        BY <1>1, <1>4, CallbackMembers DEF RunStateChanged
    <2> QED BY <1>1, <1>4, <2>1, OnStateChangedGood, RunStep DEF RunStateChanged
<1>5. CASE RunPostFailed(c, p)
    <2>1. c.epoch \in Nat /\ c.address \in Address
        BY <1>1, <1>5, CallbackMembers DEF RunPostFailed
    <2> QED BY <1>1, <1>5, <2>1, OnPostFailedGood, RunStep DEF RunPostFailed
<1>6. CASE RunRetryTimer(c, p)
    BY <1>1, <1>6, OnRetryTimerGood, RunStep DEF RunRetryTimer
<1>7. CASE RunTransientOpenRetryTimer(c, p)
    <2>1. TimerIsCurrent(Taken(c), c.timerEpoch, c.epoch) => Taken(c).Connection = NoConnection
        BY <1>7 DEF RunTransientOpenRetryTimer, TimerIsCurrent, Taken, IInv, Quiet, Good, Base,
                    Typed, Fields, Waits
    <2> QED BY <1>1, <1>7, <2>1, OnTransientOpenRetryTimerGood, RunStep
            DEF RunTransientOpenRetryTimer
<1>8. CASE RunCloseTimeout(c, p)
    <2>1. c.closeBarrierEpoch \in Nat
        BY <1>1, <1>8, CallbackMembers DEF RunCloseTimeout
    <2> QED BY <1>1, <1>8, <2>1, CompleteCloseBarrierGood, RunStep DEF RunCloseTimeout
<1>9. CASE RunClosed(c, p)
    <2>1. c.closeBarrierEpoch \in Nat
        BY <1>1, <1>9, CallbackMembers DEF RunClosed
    <2> QED BY <1>1, <1>9, <2>1, CompleteCloseBarrierGood, RunStep DEF RunClosed
<1>10. CASE RunCooldown(c, p)
    BY <1>1, <1>10, CompleteCloseCooldownGood, RunStep DEF RunCooldown
<1> QED BY <1>2, <1>3, <1>4, <1>5, <1>6, <1>7, <1>8, <1>9, <1>10

LEMMA NativeEventStep ==
    ASSUME IInv, NEW state \in DeviceConnectionState, RaiseStateChanged(state)
    PROVE  IInv'
<1> DEFINE event == [kind |-> "StateChanged", epoch |-> session.HandlerEpoch,
                     address |-> session.Connection, state |-> state]
           u == Await(session, event)
<1>1. event \in Callback /\ event.kind = "StateChanged"
    BY DEF RaiseStateChanged, Callback, IInv, Quiet, Good, Base, Typed
<1>2. session' = u /\ published' = published
    BY DEF RaiseStateChanged, Await
<1> HIDE DEF event
<1>3. Quiet(u)
    BY <1>1, AwaitKeeps DEF IInv, Quiet, Good, Base
<1>4. u \in SessionState /\ u.facts = <<>>
    BY <1>1 DEF IInv, TypeOK, SessionState, Await
<1> HIDE DEF u
<1>5. session' \in SessionState /\ session'.facts = <<>> /\ Quiet(session')
    BY <1>2, <1>3, <1>4
<1> QED BY <1>2, <1>5 DEF IInv, TypeOK, Quiet, Good, Base, Typed, Owned, TimersArePast, Due,
                          Heard, Waits

LEMMA InitInvariant == Init => IInv
<1> SUFFICES ASSUME Init PROVE IInv
    OBVIOUS
<1>1. Good(session) /\ ~session.listenerDue /\ session.facts = <<>>
    BY InitialSessionGood DEF Init, InitialSession
<1>2. session = [x \in Fields |-> session[x]]
    BY DEF Init, InitialSession, Fields
<1>3. session \in SessionState
    BY <1>1, <1>2, TypedRecord DEF Good, Base
<1>4. published \in DeviceSessionSnapshot
    BY <1>1, SnapshotType DEF Init, Good, Base
<1> QED BY <1>1, <1>3, <1>4 DEF IInv, TypeOK, Quiet

(* Every reachable state of a session satisfies IInv.                      *)
THEOREM SessionInvariant == Spec => []IInv
<1>1. IInv /\ [Next]_vars => IInv'
    <2> SUFFICES ASSUME IInv, [Next]_vars PROVE IInv'
        OBVIOUS
    <2>1. CASE Call
        BY <2>1, CallStep
    <2>2. CASE CompleteStart \/ CompleteOpen \/ CompleteClose \/ FireTimer \/ HandleEvent
        BY <2>2, CallbackStep
        DEF CompleteStart, CompleteOpen, CompleteClose, FireTimer, HandleEvent
    <2>3. CASE NativeEvent
        BY <2>3, NativeEventStep DEF NativeEvent
    <2>4. CASE UNCHANGED vars
        <3>1. session' = session /\ published' = published
            BY <2>4 DEF vars
        <3>2. /\ Quiet(session') /\ session' \in SessionState /\ session'.facts = <<>>
              /\ published' \in DeviceSessionSnapshot
            BY <3>1 DEF IInv, TypeOK
        <3> QED BY <3>2 DEF IInv, TypeOK, Quiet, Good, Base, Typed, Owned, TimersArePast, Due,
                            Heard, Waits
    <2> QED BY <2>1, <2>2, <2>3, <2>4 DEF Next
<1> QED BY <1>1, InitInvariant, PTL DEF Spec

(* The session keeps its types, and no handler ends with an unsent fact or *)
(* a forgotten listener start.                                             *)
THEOREM SessionTypeOK == Spec => []TypeOK
<1>1. IInv => TypeOK
    BY DEF IInv
<1> QED BY <1>1, SessionInvariant, PTL

(* The close barrier of BeginClose and CompleteCloseBarrier keeps two      *)
(* native connections to a device from existing at once.                   *)
THEOREM SessionConnectionsDoNotOverlap == Spec => []ConnectionsDoNotOverlap
<1>1. IInv => ConnectionsDoNotOverlap
    BY DEF IInv, Quiet, Good, Base, Owned, ConnectionsDoNotOverlap
<1> QED BY <1>1, SessionInvariant, PTL

(* The handler of BeginCreate is registered while the connection lives and *)
(* is never of an earlier epoch.                                           *)
THEOREM SessionLiveConnectionIsHeard == Spec => []LiveConnectionIsHeard
<1>1. IInv => LiveConnectionIsHeard
    BY DEF IInv, Quiet, Good, Heard, LiveConnectionIsHeard
<1> QED BY <1>1, SessionInvariant, PTL

-----------------------------------------------------------------------------
(***************************************************************************)
(* What a session promises its user and the service.  The contracts are    *)
(* taken further: what holds whatever Lifecycle says (Core, Calm) is what  *)
(* a member function may be called in; what depends on Lifecycle (Phase)   *)
(* and what has been told (Settled) it establishes again before it ends.   *)
(***************************************************************************)

IsTimer(c) == c.kind \in {"RetryTimer", "TransientOpenRetryTimer"}
IsCurrentTimer(s, c) == IsTimer(c) /\ c.timerEpoch = s.TimerEpoch
IsAutomatic(s) == s.CurrentOperation = "AutomaticReconnect"
Replaces(s) == s.IsCloseInFlight /\ s.Pending.Continuation = "Replace"

(* A close in flight will be decided.                                      *)
CloseAwaited(s) ==
    /\ s.ClosingConnection # NoConnection =>
            /\ BarrierWork("Closed", s.CloseBarrierEpoch) \in s.callbacks
            /\ \/ s.IsCloseContinuationAbandoned
               \/ BarrierWork("CloseTimeout", s.CloseBarrierEpoch) \in s.callbacks
    /\ s.IsCloseCooldown => BarrierWork("Cooldown", s.CloseBarrierEpoch) \in s.callbacks

(* An attempt that may still be counted has room in the budget.            *)
Bounded(s) ==
    /\ s.CompletedRetryAttempts <= MaxAttempts
    /\ s.TransientOpenRetryAttempts <= TransientOpenRetryMaxAttempts
    /\ s.Connection # NoConnection \/ s.IsCloseInFlight =>
            /\ s.TransientOpenRetryAttempts < TransientOpenRetryMaxAttempts
            /\ IsAutomatic(s) => s.CompletedRetryAttempts < MaxAttempts
    /\ s.IsCloseInFlight /\ s.Pending.CompletedAttempt =>
            s.CompletedRetryAttempts < MaxAttempts

Core(s) ==
    /\ CloseAwaited(s)
    /\ s.IsReconnectCancelled => \A c \in s.callbacks : ~IsCurrentTimer(s, c)
    /\ s.IsCloseContinuationAbandoned => s.Pending = NoPendingClose
    /\ Bounded(s)

(* A suspended session owns nothing, and the close it waits for is of the  *)
(* epoch in which it was suspended.                                        *)
Calm(s) ==
    s.IsSuspended =>
        /\ s.Connection = NoConnection
        /\ s.IsSuspendClosePending /\ s.IsCloseInFlight
                /\ ~s.IsCloseContinuationAbandoned /\ s.Pending.Continuation = "Suspend"
              => s.SuspendCloseEpoch = s.OperationEpoch

(* What the timer of a waiting session counts on when it fires.            *)
TimerFits(s, c) ==
    /\ c.kind = "RetryTimer" => s.CompletedRetryAttempts < MaxAttempts
    /\ c.kind = "TransientOpenRetryTimer" =>
            /\ s.TransientOpenRetryAttempts \in 1 .. TransientOpenRetryMaxAttempts - 1
            /\ IsAutomatic(s) => s.CompletedRetryAttempts < MaxAttempts

Phase(s) ==
    /\ s.Lifecycle = "WaitingForReconnect" =>
            /\ \E c \in s.callbacks : /\ IsCurrentTimer(s, c) /\ c.epoch = s.OperationEpoch
                                      /\ c.kind = "RetryTimer" => s.IsReconnectEnabled
            /\ \A c \in s.callbacks : IsCurrentTimer(s, c) => TimerFits(s, c)
            /\ ~s.IsReconnectCancelled /\ ~s.IsSuspended
    /\ s.Lifecycle = "Connecting" =>
            /\ \E c \in s.callbacks : /\ c.kind \in {"Started", "Opened"}
                                      /\ c.epoch = s.OperationEpoch
                                      /\ c.address = s.Connection
            /\ ~s.IsSuspended /\ ~(s.IsReconnectCancelled /\ IsAutomatic(s))
    /\ s.Lifecycle = "Connected" => s.Connection # NoConnection
    /\ s.IsShutdown => s.Lifecycle = "Idle" /\ ~s.IsCloseInFlight
    /\ Replaces(s) => /\ s.Lifecycle = "Disconnecting"
                      /\ ~(s.IsReconnectCancelled /\ IsAutomatic(s))

(* The last snapshot given to the service, pub being the one before.       *)
Told(pub, s) == IF s.facts = <<>> THEN pub ELSE s.facts[Len(s.facts)].Snapshot

Settled(pub, s) ==
    s.Lifecycle # "Disconnecting" /\ ~s.IsShutdown =>
        /\ Told(pub, s).State = s.Lifecycle
        /\ Told(pub, s).OperationEpoch = s.OperationEpoch
        /\ Told(pub, s).HasConnection \/ s.Lifecycle # "Connected"

Sound(pub, s) == Core(s) /\ Calm(s) /\ Phase(s) /\ Settled(pub, s)

-----------------------------------------------------------------------------
(* Frames.                                                                 *)

(* t agrees with s on everything Core, Calm and Phase speak of.            *)
Same(s, t) ==
    /\ t.Connection = s.Connection /\ t.ClosingConnection = s.ClosingConnection
    /\ t.OperationEpoch = s.OperationEpoch /\ t.TimerEpoch = s.TimerEpoch
    /\ t.CloseBarrierEpoch = s.CloseBarrierEpoch
    /\ t.CompletedRetryAttempts = s.CompletedRetryAttempts
    /\ t.TransientOpenRetryAttempts = s.TransientOpenRetryAttempts
    /\ t.Lifecycle = s.Lifecycle /\ t.CurrentOperation = s.CurrentOperation
    /\ t.IsReconnectEnabled = s.IsReconnectEnabled
    /\ t.IsReconnectCancelled = s.IsReconnectCancelled
    /\ t.IsSuspended = s.IsSuspended /\ t.IsShutdown = s.IsShutdown
    /\ t.IsSuspendClosePending = s.IsSuspendClosePending
    /\ t.SuspendCloseEpoch = s.SuspendCloseEpoch
    /\ t.IsCloseInFlight = s.IsCloseInFlight /\ t.IsCloseCooldown = s.IsCloseCooldown
    /\ t.IsCloseContinuationAbandoned = s.IsCloseContinuationAbandoned
    /\ t.Pending = s.Pending /\ t.callbacks = s.callbacks

LEMMA SameKeeps ==
    ASSUME NEW s, NEW t, Same(s, t), NEW pub
    PROVE  /\ Core(s) => Core(t)
           /\ Calm(s) => Calm(t)
           /\ Phase(s) => Phase(t)
           /\ t.facts = s.facts /\ Settled(pub, s) => Settled(pub, t)
           /\ t.facts = s.facts /\ Sound(pub, s) => Sound(pub, t)
<1>1. Core(s) => Core(t)
    BY DEF Same, Core, CloseAwaited, Bounded, IsAutomatic, IsCurrentTimer
<1>2. Calm(s) => Calm(t)
    BY DEF Same, Calm
<1>3. Phase(s) => Phase(t)
    BY DEF Same, Phase, IsAutomatic, IsCurrentTimer, TimerFits, Replaces
<1>4. t.facts = s.facts /\ Settled(pub, s) => Settled(pub, t)
    BY DEF Same, Settled, Told
<1> QED BY <1>1, <1>2, <1>3, <1>4 DEF Sound

(* Publishing tells the service the state it publishes.                    *)
LEMMA PublishTells ==
    ASSUME NEW s, Typed(s), NEW result \in DeviceConnectionResult, NEW terminal \in BOOLEAN,
           NEW reason \in DeviceDisconnectReason, NEW pub
    PROVE  LET t == Publish(s, result, terminal, reason) IN
           /\ Typed(t) /\ Same(s, t)
           /\ t.StateChangedToken = s.StateChangedToken /\ t.OpenImmediately = s.OpenImmediately
           /\ t.listenerDue = s.listenerDue
           /\ (s.Lifecycle = "Connected" => s.Connection # NoConnection) => Settled(pub, t)
<1> DEFINE fact == [Snapshot |-> Snapshot(s), Operation |-> s.CurrentOperation,
                    Result |-> result, IsTerminalFailure |-> terminal,
                    DisconnectReason |-> reason]
           q == Append(s.facts, fact)
           t == [s EXCEPT !.facts = q]
<1>1. Publish(s, result, terminal, reason) = t
    BY DEF Publish
<1>2. fact \in DeviceSessionFact /\ fact.Snapshot = Snapshot(s)
    BY SnapshotType DEF DeviceSessionFact, Typed
<1>3. /\ Snapshot(s).State = s.Lifecycle /\ Snapshot(s).OperationEpoch = s.OperationEpoch
      /\ s.Connection # NoConnection => Snapshot(s).HasConnection
    BY DEF Snapshot
<1> HIDE DEF fact
<1>4. q \in Seq(DeviceSessionFact) /\ q # <<>> /\ q[Len(q)] = fact
    BY <1>2 DEF Typed
<1> HIDE DEF q
<1>5. Typed(t)
    BY <1>4, PublishType
<1>6. /\ Same(s, t) /\ t.facts = q
      /\ t.StateChangedToken = s.StateChangedToken /\ t.OpenImmediately = s.OpenImmediately
      /\ t.listenerDue = s.listenerDue
    BY DEF Typed, Fields, Same
<1> HIDE DEF t
<1>7. Told(pub, t) = Snapshot(s)
    BY <1>2, <1>4, <1>6 DEF Told
<1>8. (s.Lifecycle = "Connected" => s.Connection # NoConnection) => Settled(pub, t)
    BY <1>3, <1>6, <1>7 DEF Settled, Same
<1> QED BY <1>1, <1>5, <1>6, <1>8

(* A settled state that is published is sound.                             *)
LEMMA PublishSound ==
    ASSUME NEW s, Typed(s), Core(s), Calm(s), Phase(s),
           NEW result \in DeviceConnectionResult, NEW terminal \in BOOLEAN,
           NEW reason \in DeviceDisconnectReason, NEW pub
    PROVE  LET t == Publish(s, result, terminal, reason) IN
           Sound(pub, t) /\ t.callbacks = s.callbacks /\ Typed(t)
<1> DEFINE t == Publish(s, result, terminal, reason)
<1>1. /\ Same(s, t) /\ Typed(t)
      /\ (s.Lifecycle = "Connected" => s.Connection # NoConnection) => Settled(pub, t)
    BY PublishTells
<1> HIDE DEF t
<1>2. Core(t) /\ Calm(t) /\ Phase(t)
    BY <1>1, SameKeeps
<1>3. Settled(pub, t)
    BY <1>1 DEF Phase
<1> QED BY <1>1, <1>2, <1>3 DEF Sound, Same, t

-----------------------------------------------------------------------------
(* The close barrier.                                                      *)

(* The limits are at least one.                                            *)
LEMMA Limits ==
    /\ MaxAttempts \in Nat /\ 0 < MaxAttempts /\ 0 <= MaxAttempts
    /\ TransientOpenRetryMaxAttempts \in Nat /\ 0 < TransientOpenRetryMaxAttempts
    /\ 0 <= TransientOpenRetryMaxAttempts
BY PolicyAssumption, SessionAssumption

(* A close keeps everything but the connection, the barrier and Pending.   *)
Closing(s, t, pending) ==
    /\ Typed(t) /\ s.callbacks \subseteq t.callbacks
    /\ \A c \in t.callbacks : IsTimer(c) => c \in s.callbacks
    /\ t.Connection = NoConnection
    /\ t.OperationEpoch = s.OperationEpoch /\ t.TimerEpoch = s.TimerEpoch
    /\ t.CompletedRetryAttempts = s.CompletedRetryAttempts
    /\ t.TransientOpenRetryAttempts = s.TransientOpenRetryAttempts
    /\ t.CurrentOperation = s.CurrentOperation
    /\ t.IsReconnectCancelled = s.IsReconnectCancelled
    /\ t.IsSuspended = s.IsSuspended /\ t.IsShutdown = s.IsShutdown
    /\ t.IsSuspendClosePending = s.IsSuspendClosePending
    /\ t.SuspendCloseEpoch = s.SuspendCloseEpoch
    /\ t.IsCloseInFlight
    /\ \/ t.Pending = pending /\ ~t.IsCloseContinuationAbandoned
       \/ t.Pending = NoPendingClose /\ t.IsCloseContinuationAbandoned

LEMMA BeginCloseForm ==
    ASSUME NEW s, Base(s), Core(s), s.Connection # NoConnection \/ s.IsCloseInFlight,
           s.Lifecycle = "Disconnecting",
           NEW continuation \in CloseContinuation, NEW failure \in DeviceConnectionResult,
           NEW shouldRetry \in BOOLEAN, NEW completedAttempt \in BOOLEAN,
           NEW reason \in DeviceDisconnectReason, NEW p \in PlatformOutcome, NEW pub
    PROVE  LET t == BeginClose(s, continuation, failure, shouldRetry, completedAttempt,
                               reason, p)
               pending == [Continuation |-> continuation, Failure |-> failure,
                           RetryEligible |-> shouldRetry,
                           CompletedAttempt |-> completedAttempt,
                           DisconnectReason |-> reason]
           IN  /\ Closing(s, t, pending) /\ CloseAwaited(t)
               /\ \/ t.Lifecycle = "Disconnecting"
                  \/ t.Lifecycle = "Failed" /\ t.IsCloseContinuationAbandoned
               /\ Settled(pub, t)
<1> DEFINE pc == [Continuation |-> continuation, Failure |-> failure,
                  RetryEligible |-> shouldRetry, CompletedAttempt |-> completedAttempt,
                  DisconnectReason |-> reason]
           pended == [s EXCEPT !.Pending = pc, !.IsCloseContinuationAbandoned = FALSE]
           barrier == s.CloseBarrierEpoch + 1
           closing == [RevokeStateChanged(pended) EXCEPT
                        !.ClosingConnection = s.Connection, !.Connection = NoConnection,
                        !.IsCloseInFlight = TRUE, !.CloseBarrierEpoch = barrier]
           late == BarrierWork("CloseTimeout", barrier)
           closed == BarrierWork("Closed", barrier)
           f == [closing EXCEPT !.Lifecycle = "Failed"]
           failed == Publish(f, "Failed", TRUE, reason)
           abandoned == AbandonCloseContinuation(failed)
           timed == IF p.barrierTimer THEN Await(closing, late) ELSE abandoned
<1>1. pc \in PendingClose
    BY DEF PendingClose
<1>2. barrier \in Nat
    BY DEF Base, Typed
<1>3. CASE s.IsCloseInFlight
    <2> HIDE DEF pc
    <2>1. s.Connection = NoConnection
        BY <1>3 DEF Base, Owned
    <2>2. s.IsCloseContinuationAbandoned =>
            Closing(s, s, pc) /\ CloseAwaited(s) /\ Settled(pub, s)
        BY <1>3, <2>1 DEF Closing, Base, Core, Settled
    <2>3. ~s.IsCloseContinuationAbandoned =>
            Closing(s, pended, pc) /\ CloseAwaited(pended) /\ Settled(pub, pended)
            /\ pended.Lifecycle = "Disconnecting"
        BY <1>1, <1>3, <2>1 DEF Closing, Base, Typed, Fields, Core, CloseAwaited, Settled
    <2> QED BY <2>2, <2>3, <1>3 DEF BeginClose, pc, Base, Typed
<1>4. CASE ~s.IsCloseInFlight
    <2>0. /\ late \in Callback /\ late.kind = "CloseTimeout" /\ ~IsTimer(late)
          /\ closed \in Callback /\ closed.kind = "Closed" /\ ~IsTimer(closed)
        BY <1>2, BarrierWorkType DEF IsTimer
    <2>00. s.Connection # NoConnection /\ ~s.IsCloseCooldown
        BY <1>4 DEF Base, Owned
    <2> HIDE DEF pc, barrier, late, closed
    <2>1. /\ Closing(s, closing, pc) /\ closing.Lifecycle = "Disconnecting"
          /\ ~closing.IsCloseContinuationAbandoned
          /\ ~closing.IsCloseCooldown /\ closing.CloseBarrierEpoch = barrier
          /\ closing.callbacks = s.callbacks /\ closing.ClosingConnection = s.Connection
        BY <1>1, <1>2, <1>4, <2>00
        DEF Closing, Base, Typed, Fields, RevokeStateChanged
    <2> HIDE DEF closing
    <2>2. /\ Typed(f) /\ f.Lifecycle = "Failed"
          /\ Closing(s, f, pc) /\ f.callbacks = s.callbacks /\ ~f.IsCloseCooldown
          /\ f.CloseBarrierEpoch = barrier
        BY <2>1 DEF Closing, Typed, Fields, DeviceLifecycleState
    <2> HIDE DEF f
    <2>3. Typed(failed) /\ Same(f, failed) /\ Settled(pub, failed)
        BY <2>2, PublishTells, Parameters
    <2> HIDE DEF failed
    <2>4. /\ Closing(s, abandoned, pc) /\ abandoned.Lifecycle = "Failed"
          /\ abandoned.IsCloseContinuationAbandoned /\ ~abandoned.IsCloseCooldown
          /\ abandoned.CloseBarrierEpoch = barrier /\ Settled(pub, abandoned)
        <3>1. /\ Typed(abandoned)
              /\ abandoned.Pending = NoPendingClose /\ abandoned.IsCloseContinuationAbandoned
              /\ abandoned.facts = failed.facts
            BY <2>3, NoPendingCloseType DEF AbandonCloseContinuation, Typed, Fields, Same
        <3>2. /\ abandoned.Lifecycle = failed.Lifecycle
              /\ abandoned.OperationEpoch = failed.OperationEpoch
              /\ abandoned.IsShutdown = failed.IsShutdown
              /\ abandoned.callbacks = failed.callbacks
              /\ abandoned.IsCloseCooldown = failed.IsCloseCooldown
              /\ abandoned.CloseBarrierEpoch = failed.CloseBarrierEpoch
              /\ abandoned.Connection = failed.Connection
              /\ abandoned.TimerEpoch = failed.TimerEpoch
              /\ abandoned.CompletedRetryAttempts = failed.CompletedRetryAttempts
              /\ abandoned.TransientOpenRetryAttempts = failed.TransientOpenRetryAttempts
              /\ abandoned.CurrentOperation = failed.CurrentOperation
              /\ abandoned.IsReconnectCancelled = failed.IsReconnectCancelled
              /\ abandoned.IsSuspended = failed.IsSuspended
              /\ abandoned.IsSuspendClosePending = failed.IsSuspendClosePending
              /\ abandoned.SuspendCloseEpoch = failed.SuspendCloseEpoch
              /\ abandoned.IsCloseInFlight = failed.IsCloseInFlight
            BY <2>3 DEF AbandonCloseContinuation, Typed, Fields
        <3> HIDE DEF abandoned
        <3>3. Settled(pub, abandoned)
            BY <2>3, <3>1, <3>2 DEF Settled, Told
        <3>4. failed.IsCloseInFlight /\ ~failed.IsCloseCooldown
            BY <2>2, <2>3, Zenon DEF Same, Closing
        <3>5. abandoned.IsCloseInFlight /\ ~abandoned.IsCloseCooldown
            BY <3>2, <3>4, Zenon
        <3>6. /\ abandoned.callbacks = s.callbacks /\ abandoned.CloseBarrierEpoch = barrier
              /\ abandoned.Lifecycle = "Failed"
            BY <2>2, <2>3, <3>2 DEF Same
        <3> QED BY <2>2, <2>3, <3>1, <3>2, <3>3, <3>5, <3>6, Zenon DEF Same, Closing
    <2> HIDE DEF abandoned
    <2>5. LET t == Await(closing, late) IN
          /\ Closing(s, t, pc) /\ t.Lifecycle = "Disconnecting"
          /\ ~t.IsCloseCooldown /\ t.CloseBarrierEpoch = barrier /\ late \in t.callbacks
        BY <2>0, <2>1 DEF Await, Closing, Typed, Fields
    <2>6. /\ Closing(s, timed, pc) /\ ~timed.IsCloseCooldown
          /\ timed.CloseBarrierEpoch = barrier
          /\ \/ timed.Lifecycle = "Disconnecting" /\ late \in timed.callbacks
             \/ /\ timed.Lifecycle = "Failed" /\ timed.IsCloseContinuationAbandoned
                /\ Settled(pub, timed)
        BY <2>4, <2>5
    <2> HIDE DEF timed
    <2> DEFINE t == Await(timed, closed)
    <2>7. /\ Typed(t) /\ t.callbacks = timed.callbacks \cup {closed}
          /\ Closing(s, t, pc) /\ ~t.IsCloseCooldown /\ t.CloseBarrierEpoch = barrier
          /\ t.Lifecycle = timed.Lifecycle /\ t.facts = timed.facts
          /\ t.OperationEpoch = timed.OperationEpoch /\ t.IsShutdown = timed.IsShutdown
          /\ t.IsCloseContinuationAbandoned = timed.IsCloseContinuationAbandoned
        BY <2>0, <2>6 DEF Await, Closing, Typed, Fields
    <2> HIDE DEF t
    <2>8. CloseAwaited(t)
        BY <2>6, <2>7 DEF CloseAwaited, late, closed
    <2>9. Settled(pub, t)
        BY <2>6, <2>7 DEF Settled, Told
    <2>10. BeginClose(s, continuation, failure, shouldRetry, completedAttempt, reason, p) = t
        BY <1>4 DEF BeginClose, t, timed, abandoned, failed, f, closing, barrier, pc, late, closed
    <2> QED BY <2>6, <2>7, <2>8, <2>9, <2>10 DEF pc
<1> QED BY <1>3, <1>4 DEF Base, Typed

(* Whatever a session closes for, it ends in a sound state.                *)
LEMMA BeginCloseSound ==
    ASSUME NEW s, Base(s), Core(s), s.Connection # NoConnection \/ s.IsCloseInFlight,
           s.Lifecycle = "Disconnecting", ~s.IsShutdown,
           NEW continuation \in CloseContinuation, NEW failure \in DeviceConnectionResult,
           NEW shouldRetry \in BOOLEAN, NEW completedAttempt \in BOOLEAN,
           NEW reason \in DeviceDisconnectReason, NEW p \in PlatformOutcome, NEW pub,
           completedAttempt => s.CompletedRetryAttempts < MaxAttempts,
           continuation = "Replace" => ~(s.IsReconnectCancelled /\ IsAutomatic(s)),
           continuation = "Suspend" => s.SuspendCloseEpoch = s.OperationEpoch
    PROVE  LET t == BeginClose(s, continuation, failure, shouldRetry, completedAttempt,
                               reason, p)
           IN  Sound(pub, t) /\ s.callbacks \subseteq t.callbacks
<1> DEFINE t == BeginClose(s, continuation, failure, shouldRetry, completedAttempt, reason, p)
           pc == [Continuation |-> continuation, Failure |-> failure,
                  RetryEligible |-> shouldRetry, CompletedAttempt |-> completedAttempt,
                  DisconnectReason |-> reason]
<1>1. /\ Closing(s, t, pc) /\ CloseAwaited(t)
      /\ \/ t.Lifecycle = "Disconnecting"
         \/ t.Lifecycle = "Failed" /\ t.IsCloseContinuationAbandoned
      /\ Settled(pub, t)
    BY BeginCloseForm
<1> HIDE DEF t
<1>2. pc.Continuation = continuation /\ pc.CompletedAttempt = completedAttempt
    OBVIOUS
<1> HIDE DEF pc
<1>3. NoPendingClose.Continuation = "Idle" /\ NoPendingClose.CompletedAttempt = FALSE
    BY DEF NoPendingClose
<1>4. /\ t.Pending.Continuation \in {continuation, "Idle"}
      /\ t.Pending.CompletedAttempt => s.CompletedRetryAttempts < MaxAttempts
      /\ t.IsCloseContinuationAbandoned => t.Pending = NoPendingClose
      /\ t.IsCloseContinuationAbandoned => t.Pending.Continuation = "Idle"
    BY <1>1, <1>2, <1>3 DEF Closing
<1>5. Core(t)
    <2>1. Bounded(t)
        BY <1>1, <1>4 DEF Core, Bounded, Closing, IsAutomatic
    <2>2. t.IsReconnectCancelled => \A c \in t.callbacks : ~IsCurrentTimer(t, c)
        BY <1>1 DEF Core, Closing, IsCurrentTimer
    <2> QED BY <1>1, <1>4, <2>1, <2>2 DEF Core
<1>6. Calm(t)
    BY <1>1, <1>4 DEF Calm, Closing
<1>7. Phase(t)
    <2>1. ~t.IsShutdown /\ t.Lifecycle \in {"Disconnecting", "Failed"}
        BY <1>1, Zenon DEF Closing
    <2>2. Replaces(t) => /\ t.Lifecycle = "Disconnecting"
                         /\ ~(t.IsReconnectCancelled /\ IsAutomatic(t))
        BY <1>1, <1>4 DEF Replaces, Closing, IsAutomatic
    <2> QED BY <2>1, <2>2 DEF Phase
<1> QED BY <1>1, <1>5, <1>6, <1>7 DEF Sound, Closing, t

(* A listener start that is found due changes nothing that was promised.   *)
LEMMA RestoreSame ==
    ASSUME NEW s, Typed(s)
    PROVE  LET t == RestoreIncomingListenerAfterTerminal(s) IN
           Typed(t) /\ Same(s, t) /\ t.facts = s.facts
<1> DEFINE due == /\ ~s.IsShutdown /\ ~s.IsSuspended
                  /\ s.IsIncomingEnabled /\ s.OpenImmediately
           restored == [s EXCEPT !.RestoreIncomingAfterClose = FALSE, !.listenerDue = due]
<1>1. due \in BOOLEAN
    OBVIOUS
<1>2. RestoreIncomingListenerAfterTerminal(s) \in {s, restored}
    BY DEF RestoreIncomingListenerAfterTerminal
<1> HIDE DEF due
<1>3. Typed(restored) /\ Same(s, restored) /\ restored.facts = s.facts
    BY <1>1 DEF Typed, Fields, Same
<1>4. Typed(s) /\ Same(s, s)
    BY DEF Same
<1> QED BY <1>2, <1>3, <1>4

(* s at rest: no close that is to be followed by a connection.             *)
LEMMA RestingPhase ==
    ASSUME NEW s, s.Lifecycle \in {"Idle", "Failed"},
           s.IsShutdown => s.Lifecycle = "Idle" /\ ~s.IsCloseInFlight, ~Replaces(s)
    PROVE  Phase(s)
BY DEF Phase

LEMMA FailTerminallySound ==
    ASSUME NEW s, Typed(s), Core(s), Calm(s), ~s.IsShutdown, ~s.IsCloseInFlight,
           NEW result \in DeviceConnectionResult, NEW reason \in DeviceDisconnectReason,
           NEW pub
    PROVE  LET t == FailTerminally(s, result, reason) IN
           Sound(pub, t) /\ t.callbacks = s.callbacks
<1> DEFINE f == [s EXCEPT !.Lifecycle = "Failed"]
           u == Publish(f, result, TRUE, reason)
           t == RestoreIncomingListenerAfterTerminal(u)
<1>1. /\ Typed(f) /\ Core(f) /\ Calm(f) /\ f.callbacks = s.callbacks
      /\ f.Lifecycle = "Failed" /\ ~f.IsShutdown /\ ~f.IsCloseInFlight
    BY DEF Typed, Fields, DeviceLifecycleState, Core, CloseAwaited, Bounded, IsAutomatic,
           IsCurrentTimer, Calm
<1> HIDE DEF f
<1>2. Phase(f)
    BY <1>1, RestingPhase DEF Replaces
<1>3. Sound(pub, u) /\ u.callbacks = s.callbacks /\ Typed(u)
    BY <1>1, <1>2, PublishSound
<1> HIDE DEF u
<1>4. Same(u, t) /\ t.facts = u.facts
    BY <1>3, RestoreSame
<1> HIDE DEF t
<1>5. Sound(pub, t) /\ t.callbacks = s.callbacks
    BY <1>3, <1>4, SameKeeps DEF Same
<1> QED BY <1>5 DEF FailTerminally, t, u, f

-----------------------------------------------------------------------------
(* Retry scheduling.                                                       *)

(* A wait begun now is timed by the one timer that is current.             *)
LEMMA WaitSound ==
    ASSUME NEW s, Base(s), Core(s), Calm(s), ~s.IsShutdown, ~s.IsCloseInFlight,
           ~s.IsReconnectCancelled, ~s.IsSuspended,
           NEW kind \in {"RetryTimer", "TransientOpenRetryTimer"},
           kind = "RetryTimer" =>
                s.IsReconnectEnabled /\ s.CompletedRetryAttempts < MaxAttempts,
           kind = "TransientOpenRetryTimer" =>
                /\ s.TransientOpenRetryAttempts \in 1 .. TransientOpenRetryMaxAttempts - 1
                /\ IsAutomatic(s) => s.CompletedRetryAttempts < MaxAttempts
    PROVE  LET waiting == [s EXCEPT !.Lifecycle = "WaitingForReconnect", !.TimerEpoch = @ + 1]
               t == Await(waiting, TimerWork(kind, waiting.TimerEpoch, s.OperationEpoch))
           IN  /\ Typed(waiting) /\ Core(waiting) /\ Calm(waiting)
               /\ ~waiting.IsShutdown /\ ~waiting.IsCloseInFlight
               /\ waiting.callbacks = s.callbacks
               /\ waiting.OperationEpoch = s.OperationEpoch
               /\ Typed(t) /\ Core(t) /\ Calm(t) /\ Phase(t)
               /\ s.callbacks \subseteq t.callbacks
<1> DEFINE w == [s EXCEPT !.Lifecycle = "WaitingForReconnect", !.TimerEpoch = @ + 1]
           c == TimerWork(kind, w.TimerEpoch, s.OperationEpoch)
           t == Await(w, c)
<1>1. /\ Typed(w) /\ w.callbacks = s.callbacks /\ w.TimerEpoch = s.TimerEpoch + 1
      /\ w.Lifecycle = "WaitingForReconnect" /\ ~w.IsCloseInFlight /\ ~w.IsShutdown
      /\ ~w.IsReconnectCancelled /\ ~w.IsSuspended
      /\ w.OperationEpoch = s.OperationEpoch /\ w.CurrentOperation = s.CurrentOperation
      /\ w.CompletedRetryAttempts = s.CompletedRetryAttempts
      /\ w.TransientOpenRetryAttempts = s.TransientOpenRetryAttempts
      /\ s.IsReconnectEnabled => w.IsReconnectEnabled
    BY DEF Base, Typed, Fields, DeviceLifecycleState
<1>2. Core(w) /\ Calm(w)
    <2>1. CloseAwaited(w) /\ Bounded(w) /\ (w.IsCloseContinuationAbandoned => w.Pending = NoPendingClose)
        BY DEF Base, Typed, Fields, Core, CloseAwaited, Bounded, IsAutomatic
    <2> HIDE DEF w
    <2> QED BY <1>1, <2>1 DEF Core, Calm
<1>3. /\ c \in Callback /\ c.kind = kind /\ c.timerEpoch = w.TimerEpoch
      /\ c.epoch = s.OperationEpoch
    BY <1>1, TimerWorkType DEF Base, Typed, TimerWork
<1>4. \A d \in s.callbacks : ~IsCurrentTimer(w, d)
    <2> SUFFICES ASSUME NEW d \in s.callbacks, IsTimer(d), d.timerEpoch = w.TimerEpoch
                 PROVE  FALSE
        BY DEF IsCurrentTimer
    <2>1. d.timerEpoch <= s.TimerEpoch /\ s.TimerEpoch \in Nat
        BY DEF Base, TimersArePast, IsTimer, Typed
    <2> QED BY <1>1, <2>1
<1> HIDE DEF w, c
<1>5. /\ Typed(t) /\ t.callbacks = w.callbacks \cup {c} /\ t.TimerEpoch = w.TimerEpoch
      /\ t.Lifecycle = "WaitingForReconnect" /\ ~t.IsCloseInFlight /\ ~t.IsShutdown
      /\ ~t.IsReconnectCancelled /\ ~t.IsSuspended
      /\ t.OperationEpoch = w.OperationEpoch /\ t.CurrentOperation = w.CurrentOperation
      /\ t.CompletedRetryAttempts = w.CompletedRetryAttempts
      /\ t.TransientOpenRetryAttempts = w.TransientOpenRetryAttempts
      /\ w.IsReconnectEnabled => t.IsReconnectEnabled
    BY <1>1, <1>3 DEF Await, Typed, Fields
<1>6. Core(t) /\ Calm(t)
    <2>1. CloseAwaited(t) /\ Bounded(t) /\ (t.IsCloseContinuationAbandoned => t.Pending = NoPendingClose)
        BY <1>1, <1>2 DEF Await, Typed, Fields, Core, CloseAwaited, Bounded, IsAutomatic
    <2> HIDE DEF t
    <2> QED BY <1>5, <2>1 DEF Core, Calm
<1> HIDE DEF t
<1>7. Phase(t)
    <2>1. \E d \in t.callbacks : /\ IsCurrentTimer(t, d) /\ d.epoch = t.OperationEpoch
                                 /\ d.kind = "RetryTimer" => t.IsReconnectEnabled
        <3>1. /\ IsCurrentTimer(t, c) /\ c.epoch = t.OperationEpoch
              /\ c.kind = "RetryTimer" => t.IsReconnectEnabled
            BY <1>1, <1>3, <1>5 DEF IsCurrentTimer, IsTimer
        <3>2. c \in t.callbacks
            BY <1>5
        <3> QED BY <3>1, <3>2
    <2>2. TimerFits(t, c)
        BY <1>1, <1>3, <1>5 DEF TimerFits, IsAutomatic
    <2>3. \A d \in t.callbacks : IsCurrentTimer(t, d) => TimerFits(t, d)
        BY <1>1, <1>4, <1>5, <2>2 DEF IsCurrentTimer
    <2> QED BY <1>5, <2>1, <2>3 DEF Phase, Replaces
<1>8. s.callbacks \subseteq t.callbacks
    BY <1>1, <1>5
<1> QED BY <1>1, <1>2, <1>5, <1>6, <1>7, <1>8 DEF t, c, w

LEMMA ScheduleReconnectSound ==
    ASSUME NEW s, Base(s), Core(s), Calm(s), ~s.IsShutdown, ~s.IsCloseInFlight,
           NEW result \in DeviceConnectionResult, NEW shouldRetry \in BOOLEAN,
           NEW completedAttempt \in BOOLEAN, NEW reason \in DeviceDisconnectReason,
           NEW p \in PlatformOutcome, NEW pub,
           completedAttempt => /\ s.Connection = NoConnection
                               /\ s.CompletedRetryAttempts < MaxAttempts
    PROVE  LET t == ScheduleReconnect(s, result, shouldRetry, completedAttempt, reason, p)
           IN  Sound(pub, t) /\ s.callbacks \subseteq t.callbacks
<1> DEFINE attempts == IF completedAttempt THEN s.CompletedRetryAttempts + 1
                       ELSE s.CompletedRetryAttempts
           counted == [s EXCEPT !.CompletedRetryAttempts = attempts]
           decision == Evaluate([Request |-> "ConnectionLoss",
                                 CompletedAttempts |-> counted.CompletedRetryAttempts,
                                 IsBlocked |-> FALSE])
           waiting == [counted EXCEPT !.Lifecycle = "WaitingForReconnect",
                                      !.TimerEpoch = @ + 1]
           awaited == Await(waiting, TimerWork("RetryTimer", waiting.TimerEpoch,
                                               waiting.OperationEpoch))
           blocked == \/ s.IsShutdown \/ s.IsSuspended \/ ~shouldRetry
                      \/ ~s.IsReconnectEnabled \/ s.IsReconnectCancelled
<1>0. attempts \in Nat /\ attempts <= MaxAttempts /\ (~completedAttempt => attempts = s.CompletedRetryAttempts)
    BY Limits DEF Base, Typed, Core, Bounded
<1> HIDE DEF attempts
<1>1. /\ Base(counted) /\ counted.callbacks = s.callbacks /\ ~counted.IsShutdown
      /\ ~counted.IsCloseInFlight /\ counted.Connection = s.Connection
      /\ counted.IsSuspended = s.IsSuspended
      /\ counted.IsReconnectEnabled = s.IsReconnectEnabled
      /\ counted.IsReconnectCancelled = s.IsReconnectCancelled
      /\ counted.CompletedRetryAttempts = attempts
      /\ counted.OperationEpoch = s.OperationEpoch
    BY <1>0 DEF Base, Typed, Fields, Owned, TimersArePast, Due
<1>2. Core(counted) /\ Calm(counted)
    <2>1. CloseAwaited(counted) /\ Bounded(counted)
        BY <1>0 DEF Base, Typed, Fields, Core, CloseAwaited, Bounded, IsAutomatic
    <2>2. counted.TimerEpoch = s.TimerEpoch /\ Calm(counted)
          /\ (counted.IsCloseContinuationAbandoned => counted.Pending = NoPendingClose)
        BY DEF Base, Typed, Fields, Core, Calm
    <2> HIDE DEF counted
    <2> QED BY <1>1, <2>1, <2>2 DEF Core, IsCurrentTimer
<1> HIDE DEF counted
<1>3. decision.Kind # "TerminalFailure" => counted.CompletedRetryAttempts < MaxAttempts
    BY <1>0, <1>1, Limits DEF Evaluate, Decision
<1> HIDE DEF decision
<1>4. Sound(pub, FailTerminally(s, result, reason))
      /\ FailTerminally(s, result, reason).callbacks = s.callbacks
    BY FailTerminallySound DEF Base
<1>5. Sound(pub, FailTerminally(counted, result, reason))
      /\ FailTerminally(counted, result, reason).callbacks = s.callbacks
    BY <1>1, <1>2, FailTerminallySound DEF Base
<1>6. CASE ~blocked /\ decision.Kind # "TerminalFailure"
    <2>1. /\ Typed(waiting) /\ Core(waiting) /\ Calm(waiting)
          /\ ~waiting.IsShutdown /\ ~waiting.IsCloseInFlight
          /\ waiting.callbacks = s.callbacks
          /\ Typed(awaited) /\ Core(awaited) /\ Calm(awaited) /\ Phase(awaited)
          /\ s.callbacks \subseteq awaited.callbacks
        <3>1. /\ ~counted.IsReconnectCancelled /\ ~counted.IsSuspended
              /\ counted.IsReconnectEnabled /\ counted.CompletedRetryAttempts < MaxAttempts
            BY <1>1, <1>3, <1>6
        <3>2. waiting.OperationEpoch = counted.OperationEpoch
            BY <1>1 DEF Base, Typed, Fields
        <3> QED BY <1>1, <1>2, <3>1, <3>2, WaitSound
    <2>3. Sound(pub, Publish(awaited, result, FALSE, reason))
          /\ s.callbacks \subseteq Publish(awaited, result, FALSE, reason).callbacks
        <3> HIDE DEF awaited
        <3> QED BY <2>1, PublishSound
    <2>4. Sound(pub, FailTerminally(waiting, "Failed", reason))
          /\ FailTerminally(waiting, "Failed", reason).callbacks = s.callbacks
        <3> HIDE DEF waiting
        <3> QED BY <2>1, FailTerminallySound, Parameters
    <2>5. ScheduleReconnect(s, result, shouldRetry, completedAttempt, reason, p) =
            IF p.reconnectTimer THEN Publish(awaited, result, FALSE, reason)
            ELSE FailTerminally(waiting, "Failed", reason)
        BY <1>6, Zenon DEF ScheduleReconnect, awaited, waiting, decision, counted, attempts,
                             blocked
    <2> QED BY <2>3, <2>4, <2>5
<1>7. CASE blocked \/ decision.Kind = "TerminalFailure"
    <2>1. ScheduleReconnect(s, result, shouldRetry, completedAttempt, reason, p) \in
            {FailTerminally(s, result, reason), FailTerminally(counted, result, reason)}
        BY <1>7, Zenon DEF ScheduleReconnect, decision, counted, attempts, blocked
    <2> QED BY <1>4, <1>5, <2>1
<1> QED BY <1>6, <1>7

LEMMA ScheduleTransientOpenRetrySound ==
    ASSUME NEW s, Base(s), NEW pub, Sound(pub, s), ~s.IsShutdown, ~s.IsCloseInFlight,
           s.Connection = NoConnection,
           s.TransientOpenRetryAttempts < TransientOpenRetryMaxAttempts,
           IsAutomatic(s) => s.CompletedRetryAttempts < MaxAttempts,
           NEW result \in DeviceConnectionResult, NEW p \in PlatformOutcome
    PROVE  LET t == ScheduleTransientOpenRetry(s, result, p) IN
           Sound(pub, t) /\ s.callbacks \subseteq t.callbacks
<1> DEFINE counted == [s EXCEPT !.TransientOpenRetryAttempts = @ + 1]
           waiting == [counted EXCEPT !.Lifecycle = "WaitingForReconnect",
                                      !.TimerEpoch = @ + 1]
           awaited == Await(waiting, TimerWork("TransientOpenRetryTimer", waiting.TimerEpoch,
                                               s.OperationEpoch))
           blocked == s.IsShutdown \/ s.IsSuspended \/ s.IsReconnectCancelled
<1>1. /\ Base(counted) /\ counted.callbacks = s.callbacks /\ ~counted.IsShutdown
      /\ ~counted.IsCloseInFlight /\ counted.Connection = NoConnection
      /\ counted.IsSuspended = s.IsSuspended
      /\ counted.IsReconnectCancelled = s.IsReconnectCancelled
      /\ counted.CompletedRetryAttempts = s.CompletedRetryAttempts
      /\ counted.CurrentOperation = s.CurrentOperation
      /\ counted.TransientOpenRetryAttempts = s.TransientOpenRetryAttempts + 1
      /\ counted.OperationEpoch = s.OperationEpoch
    BY DEF Base, Typed, Fields, Owned, TimersArePast, Due
<1>2. Core(counted) /\ Calm(counted)
    <2>1. CloseAwaited(counted)
        BY DEF Base, Typed, Fields, Sound, Core, CloseAwaited
    <2>2. counted.TimerEpoch = s.TimerEpoch /\ Calm(counted)
          /\ (counted.IsCloseContinuationAbandoned => counted.Pending = NoPendingClose)
        BY DEF Base, Typed, Fields, Sound, Core, Calm
    <2> HIDE DEF counted
    <2>3. Bounded(counted)
        BY <1>1, Limits DEF Base, Typed, Sound, Core, Bounded
    <2> QED BY <1>1, <2>1, <2>2, <2>3 DEF Sound, Core, IsCurrentTimer
<1> HIDE DEF counted
<1>3. Sound(pub, FailTerminally(counted, result, "None"))
      /\ FailTerminally(counted, result, "None").callbacks = s.callbacks
    BY <1>1, <1>2, FailTerminallySound, Parameters DEF Base
<1>4. CASE ~blocked /\ ~(counted.TransientOpenRetryAttempts >= TransientOpenRetryMaxAttempts)
    <2>0. /\ ~counted.IsReconnectCancelled /\ ~counted.IsSuspended
          /\ counted.TransientOpenRetryAttempts \in 1 .. TransientOpenRetryMaxAttempts - 1
          /\ IsAutomatic(counted) => counted.CompletedRetryAttempts < MaxAttempts
        <3>1. s.TransientOpenRetryAttempts \in Nat
            BY DEF Base, Typed
        <3>2. counted.TransientOpenRetryAttempts \in 1 .. TransientOpenRetryMaxAttempts - 1
            BY <1>1, <1>4, <3>1, Limits
        <3>3. ~counted.IsReconnectCancelled /\ ~counted.IsSuspended
            BY <1>1, <1>4
        <3>4. IsAutomatic(counted) => counted.CompletedRetryAttempts < MaxAttempts
            BY <1>1, <1>4 DEF IsAutomatic
        <3> QED BY <3>2, <3>3, <3>4
    <2>1. /\ Typed(waiting) /\ Core(waiting) /\ Calm(waiting)
          /\ ~waiting.IsShutdown /\ ~waiting.IsCloseInFlight
          /\ waiting.callbacks = s.callbacks
          /\ Typed(awaited) /\ Core(awaited) /\ Calm(awaited) /\ Phase(awaited)
          /\ s.callbacks \subseteq awaited.callbacks
        BY <1>1, <1>2, <2>0, WaitSound
    <2>2. Sound(pub, Publish(awaited, result, FALSE, "None"))
          /\ s.callbacks \subseteq Publish(awaited, result, FALSE, "None").callbacks
        <3> HIDE DEF awaited
        <3> QED BY <2>1, PublishSound, Parameters
    <2>3. Sound(pub, FailTerminally(waiting, "Failed", "None"))
          /\ FailTerminally(waiting, "Failed", "None").callbacks = s.callbacks
        <3> HIDE DEF waiting
        <3> QED BY <2>1, FailTerminallySound, Parameters
    <2>4. ScheduleTransientOpenRetry(s, result, p) =
            IF p.reconnectTimer THEN Publish(awaited, result, FALSE, "None")
            ELSE FailTerminally(waiting, "Failed", "None")
        BY <1>4, Zenon DEF ScheduleTransientOpenRetry, awaited, waiting, counted, blocked
    <2> QED BY <2>2, <2>3, <2>4
<1>5. CASE blocked \/ counted.TransientOpenRetryAttempts >= TransientOpenRetryMaxAttempts
    <2>1. ScheduleTransientOpenRetry(s, result, p) \in {s, FailTerminally(counted, result, "None")}
        BY <1>5, Zenon DEF ScheduleTransientOpenRetry, counted, blocked
    <2> QED BY <1>3, <2>1
<1> QED BY <1>4, <1>5

(* Revoking the handler concerns the connection only.                      *)
LEMMA RevokeSame ==
    ASSUME NEW s, Typed(s)
    PROVE  LET t == RevokeStateChanged(s) IN Same(s, t) /\ t.facts = s.facts /\ Typed(t)
BY RevokeKeeps DEF RevokeStateChanged, Typed, Fields, Same

LEMMA CompleteFailureSound ==
    ASSUME NEW s, Base(s), Core(s), Calm(s), ~s.IsShutdown, ~s.IsCloseInFlight,
           IsAutomatic(s) => s.CompletedRetryAttempts < MaxAttempts,
           NEW result \in DeviceConnectionResult, NEW transient \in BOOLEAN,
           s.Connection = NoConnection => ~transient,
           NEW p \in PlatformOutcome, NEW pub
    PROVE  LET t == CompleteFailure(s, result, transient, p) IN
           Sound(pub, t) /\ s.callbacks \subseteq t.callbacks
<1> DEFINE r == RevokeStateChanged(s)
           d == [r EXCEPT !.Lifecycle = "Disconnecting"]
           u == Publish(d, result, FALSE, "None")
           retriesOpen == transient /\ s.OpenImmediately
           continuation == IF retriesOpen THEN "TransientOpenRetry" ELSE "Retry"
           automatic == s.CurrentOperation = "AutomaticReconnect"
<1>1. /\ retriesOpen \in BOOLEAN /\ automatic \in BOOLEAN /\ s.RetryEligible \in BOOLEAN
      /\ continuation \in CloseContinuation /\ "None" \in DeviceDisconnectReason
      /\ continuation \notin {"Replace", "Suspend"}
    BY DEF Base, Typed, CloseContinuation, DeviceDisconnectReason
<1>2. Base(r) /\ Same(s, r) /\ Typed(r)
    BY RevokeKeeps, RevokeSame DEF Base
<1> HIDE DEF r
<1>3. /\ Core(r) /\ Calm(r) /\ ~r.IsShutdown /\ ~r.IsCloseInFlight
      /\ r.Connection = s.Connection /\ r.callbacks = s.callbacks
      /\ automatic => r.CompletedRetryAttempts < MaxAttempts
    BY <1>2, SameKeeps DEF Same, IsAutomatic
<1>4. CASE s.Connection = NoConnection
    <2>1. ~retriesOpen
        BY <1>4
    <2>2. CompleteFailure(s, result, transient, p) =
            ScheduleReconnect(r, result, s.RetryEligible, automatic, "None", p)
        BY <1>4, <2>1 DEF CompleteFailure, r
    <2> HIDE DEF automatic
    <2> QED BY <1>1, <1>2, <1>3, <1>4, <2>2, ScheduleReconnectSound
<1>5. CASE s.Connection # NoConnection
    <2>1. /\ Base(d) /\ Core(d) /\ d.Connection # NoConnection /\ ~d.IsShutdown
          /\ d.Lifecycle = "Disconnecting" /\ d.callbacks = s.callbacks
          /\ d.CompletedRetryAttempts = r.CompletedRetryAttempts
        BY <1>2, <1>3, <1>5
        DEF Base, Typed, Fields, Owned, TimersArePast, Due, DeviceLifecycleState, Core,
            CloseAwaited, Bounded, IsAutomatic, IsCurrentTimer
    <2> HIDE DEF d, continuation, automatic
    <2>2. /\ Base(u) /\ Core(u) /\ u.Connection # NoConnection /\ ~u.IsShutdown
          /\ u.Lifecycle = "Disconnecting" /\ u.callbacks = s.callbacks
          /\ automatic => u.CompletedRetryAttempts < MaxAttempts
        <3>1. Alike(d, u) /\ Same(d, u)
            BY <1>1, <2>1, PublishAlike, PublishTells DEF Base
        <3> HIDE DEF u
        <3> QED BY <1>3, <2>1, <3>1, AlikeKeeps, SameKeeps DEF Same
    <2> HIDE DEF u
    <2>3. LET t == BeginClose(u, continuation, result, s.RetryEligible, automatic, "None", p)
          IN  Sound(pub, t) /\ u.callbacks \subseteq t.callbacks
        BY <1>1, <2>2, BeginCloseSound
    <2>4. CompleteFailure(s, result, transient, p) =
            BeginClose(u, continuation, result, s.RetryEligible, automatic, "None", p)
        BY <1>5 DEF CompleteFailure, u, d, r, continuation, retriesOpen, automatic
    <2> QED BY <2>2, <2>3, <2>4
<1> QED BY <1>4, <1>5
-----------------------------------------------------------------------------
(* Starting a connection.                                                  *)

(* A connection is created by an operation that nothing has stopped.       *)
LEMMA BeginCreateSound ==
    ASSUME NEW s, Base(s), Core(s), Calm(s), ~s.IsCloseInFlight, s.Connection = NoConnection,
           NEW pub, s.IsShutdown \/ s.IsSuspended => Sound(pub, s),
           s.TransientOpenRetryAttempts < TransientOpenRetryMaxAttempts,
           IsAutomatic(s) => s.CompletedRetryAttempts < MaxAttempts /\ ~s.IsReconnectCancelled,
           NEW p \in PlatformOutcome
    PROVE  LET t == BeginCreate(s, p) IN Sound(pub, t) /\ s.callbacks \subseteq t.callbacks
<1> DEFINE k == [s EXCEPT !.Lifecycle = "Connecting"]
           connecting == Publish(k, "Success", FALSE, "None")
           created == [connecting EXCEPT !.Connection = p.address, !.StateChangedToken = TRUE,
                                         !.HandlerEpoch = s.OperationEpoch]
           work == NativeWork("Started", s.OperationEpoch, p.address)
           t == Await(created, work)
<1>0. CASE s.IsShutdown \/ s.IsSuspended
    BY <1>0 DEF BeginCreate
<1>1. CASE ~(s.IsShutdown \/ s.IsSuspended)
    <2>1. /\ Base(k) /\ k.Lifecycle = "Connecting" /\ k.callbacks = s.callbacks
          /\ k.OperationEpoch = s.OperationEpoch /\ ~k.IsShutdown /\ ~k.IsSuspended
          /\ Core(k) /\ k.Connection = NoConnection /\ ~k.IsCloseInFlight
          /\ k.TransientOpenRetryAttempts < TransientOpenRetryMaxAttempts
          /\ IsAutomatic(k) => k.CompletedRetryAttempts < MaxAttempts /\ ~k.IsReconnectCancelled
        BY <1>1 DEF Base, Typed, Fields, Owned, TimersArePast, Due, DeviceLifecycleState, Core,
                    CloseAwaited, Bounded, IsAutomatic, IsCurrentTimer
    <2> HIDE DEF k
    <2>2. Typed(connecting) /\ Same(k, connecting) /\ Alike(k, connecting)
          /\ Settled(pub, connecting)
        BY <2>1, PublishTells, PublishAlike, Parameters DEF Base
    <2> HIDE DEF connecting
    <2>3. /\ Base(connecting) /\ Core(connecting) /\ Calm(connecting)
          /\ connecting.Lifecycle = "Connecting" /\ connecting.callbacks = s.callbacks
          /\ connecting.OperationEpoch = s.OperationEpoch
          /\ ~connecting.IsShutdown /\ ~connecting.IsSuspended
          /\ connecting.Connection = NoConnection /\ ~connecting.IsCloseInFlight
          /\ connecting.TransientOpenRetryAttempts < TransientOpenRetryMaxAttempts
          /\ IsAutomatic(connecting) =>
                connecting.CompletedRetryAttempts < MaxAttempts /\ ~connecting.IsReconnectCancelled
        <3>1. Base(connecting) /\ Core(connecting)
            BY <2>1, <2>2, AlikeKeeps, SameKeeps
        <3>2. Calm(connecting)
            BY <2>1, <2>2 DEF Same, Calm
        <3> QED BY <2>1, <2>2, <3>1, <3>2 DEF Same, IsAutomatic
    <2>4. p.address \in Address /\ p.address # NoConnection
        BY SessionAssumption DEF PlatformOutcome
    <2>5. /\ Typed(created) /\ created.Connection = p.address
          /\ created.ClosingConnection = NoConnection /\ ~created.IsCloseCooldown
          /\ created.callbacks = s.callbacks /\ created.OperationEpoch = s.OperationEpoch
          /\ created.Lifecycle = "Connecting" /\ created.facts = connecting.facts
          /\ created.TimerEpoch = connecting.TimerEpoch
          /\ ~created.IsShutdown /\ ~created.IsSuspended /\ ~created.IsCloseInFlight
          /\ created.listenerDue = connecting.listenerDue
          /\ created.OpenImmediately = connecting.OpenImmediately
          /\ created.TransientOpenRetryAttempts < TransientOpenRetryMaxAttempts
          /\ created.CompletedRetryAttempts = connecting.CompletedRetryAttempts
          /\ created.CurrentOperation = connecting.CurrentOperation
          /\ created.IsReconnectCancelled => connecting.IsReconnectCancelled
          /\ created.IsCloseContinuationAbandoned => created.Pending = NoPendingClose
        BY <2>3, <2>4 DEF Base, Owned, Typed, Fields, Core
    <2> HIDE DEF created
    <2>6. Base(created) /\ Core(created) /\ Calm(created)
        <3>1. Base(created)
            BY <2>3, <2>5 DEF Base, Owned, TimersArePast, Due
        <3>2. Core(created)
            <4>1. CloseAwaited(created)
                BY <2>5 DEF CloseAwaited
            <4>2. created.TransientOpenRetryAttempts <= TransientOpenRetryMaxAttempts
                BY <2>5, Limits DEF Typed
            <4>3. Bounded(created)
                BY <2>3, <2>5, <4>2 DEF Core, Bounded, IsAutomatic
            <4>4. created.IsReconnectCancelled =>
                    \A c \in created.callbacks : ~IsCurrentTimer(created, c)
                BY <2>3, <2>5 DEF Core, IsCurrentTimer
            <4> QED BY <2>5, <4>1, <4>3, <4>4 DEF Core
        <3> QED BY <2>5, <3>1, <3>2 DEF Calm
    <2>7. Settled(pub, created)
        BY <2>2, <2>3, <2>5 DEF Settled, Told
    <2>8. LET v == CompleteFailure(connecting, "Failed", FALSE, p) IN
          Sound(pub, v) /\ s.callbacks \subseteq v.callbacks
        BY <2>3, CompleteFailureSound, Parameters
    <2>9. LET v == CompleteFailure(created, "Failed", FALSE, p) IN
          Sound(pub, v) /\ s.callbacks \subseteq v.callbacks
        BY <2>3, <2>5, <2>6, CompleteFailureSound, Parameters DEF IsAutomatic
    <2>10. /\ work \in Callback /\ work.kind = "Started" /\ work.epoch = s.OperationEpoch
           /\ work.address = p.address
        BY <2>4, NativeWorkType DEF Base, Typed, NativeWork
    <2> HIDE DEF work
    <2>11. Sound(pub, t) /\ s.callbacks \subseteq t.callbacks
        <3>1. /\ t.callbacks = s.callbacks \cup {work}
              /\ t.facts = created.facts
              /\ t.Connection = p.address /\ t.OperationEpoch = s.OperationEpoch
              /\ t.Lifecycle = "Connecting" /\ t.TimerEpoch = created.TimerEpoch
              /\ ~t.IsShutdown /\ ~t.IsSuspended /\ ~t.IsCloseInFlight /\ ~t.IsCloseCooldown
              /\ t.ClosingConnection = NoConnection
              /\ t.TransientOpenRetryAttempts = created.TransientOpenRetryAttempts
              /\ t.CompletedRetryAttempts = created.CompletedRetryAttempts
              /\ t.CurrentOperation = created.CurrentOperation
              /\ t.IsReconnectCancelled => created.IsReconnectCancelled
              /\ t.IsCloseContinuationAbandoned => t.Pending = NoPendingClose
            BY <2>5 DEF Await, Typed, Fields, Same
        <3> HIDE DEF t
        <3>2. Core(t)
            BY <2>5, <2>6, <2>10, <3>1
            DEF Core, CloseAwaited, Bounded, IsAutomatic, IsCurrentTimer, IsTimer
        <3>3. Phase(t)
            <4>1. \E c \in t.callbacks : /\ c.kind \in {"Started", "Opened"}
                                         /\ c.epoch = t.OperationEpoch
                                         /\ c.address = t.Connection
                BY <2>10, <3>1
            <4>2. ~(t.IsReconnectCancelled /\ IsAutomatic(t))
                BY <2>3, <2>5, <3>1 DEF IsAutomatic
            <4> QED BY <3>1, <4>1, <4>2 DEF Phase, Replaces
        <3>4. Settled(pub, t)
            BY <2>5, <2>7, <3>1 DEF Settled, Told
        <3> QED BY <3>1, <3>2, <3>3, <3>4 DEF Sound, Calm
    <2>12. p.create \in {"Started", "NotStarted", "NoConnection"}
        BY DEF PlatformOutcome, CreateOutcome
    <2>13. /\ p.create = "NoConnection" =>
                BeginCreate(s, p) = CompleteFailure(connecting, "Failed", FALSE, p)
           /\ p.create = "NotStarted" =>
                BeginCreate(s, p) = CompleteFailure(created, "Failed", FALSE, p)
           /\ p.create = "Started" => BeginCreate(s, p) = t
        BY <1>1 DEF BeginCreate, created, connecting, k, t, work
    <2> QED BY <2>8, <2>9, <2>11, <2>12, <2>13
<1> QED BY <1>0, <1>1

(* What an operation does first: it cancels the timer and moves on, while  *)
(* the connection, the barrier and the callbacks stay as they are.         *)
Advanced(s, u) ==
    /\ Typed(u) /\ u.TimerEpoch = s.TimerEpoch + 1 /\ u.callbacks = s.callbacks
    /\ u.Connection = s.Connection /\ u.ClosingConnection = s.ClosingConnection
    /\ u.CloseBarrierEpoch = s.CloseBarrierEpoch
    /\ u.IsCloseInFlight = s.IsCloseInFlight /\ u.IsCloseCooldown = s.IsCloseCooldown
    /\ u.IsCloseContinuationAbandoned = s.IsCloseContinuationAbandoned
    /\ u.Pending = s.Pending /\ u.IsShutdown = s.IsShutdown
    /\ u.CompletedRetryAttempts <= s.CompletedRetryAttempts
    /\ u.TransientOpenRetryAttempts <= s.TransientOpenRetryAttempts
    /\ IsAutomatic(u) => IsAutomatic(s) \/ u.CompletedRetryAttempts < MaxAttempts

LEMMA AdvancedCore ==
    ASSUME NEW s, Base(s), Core(s), NEW u, Advanced(s, u)
    PROVE  Core(u) /\ \A c \in u.callbacks : ~IsCurrentTimer(u, c)
<1>1. \A c \in u.callbacks : ~IsCurrentTimer(u, c)
    <2> SUFFICES ASSUME NEW c \in s.callbacks, IsTimer(c), c.timerEpoch = s.TimerEpoch + 1
                 PROVE  FALSE
        BY DEF IsCurrentTimer, Advanced
    <2>1. c.timerEpoch <= s.TimerEpoch /\ s.TimerEpoch \in Nat
        BY DEF Base, TimersArePast, IsTimer, Typed
    <2> QED BY <2>1
<1>2. CloseAwaited(u)
    BY DEF Advanced, Core, CloseAwaited
<1>3. Bounded(u)
    <2>1. /\ s.CompletedRetryAttempts \in Nat /\ u.CompletedRetryAttempts \in Nat
          /\ s.TransientOpenRetryAttempts \in Nat /\ u.TransientOpenRetryAttempts \in Nat
        BY DEF Advanced, Base, Typed
    <2> QED BY <2>1, Limits DEF Advanced, Core, Bounded
<1>4. u.IsCloseContinuationAbandoned => u.Pending = NoPendingClose
    BY DEF Advanced, Core
<1> QED BY <1>1, <1>2, <1>3, <1>4 DEF Core

(* The waiting session whose timer has just been taken is not blocked.     *)
LEMMA StartConnectionBegins ==
    ASSUME NEW s, Good(s), ~s.listenerDue, NEW pub, Core(s), Calm(s),
           \/ Sound(pub, s)
           \/ /\ ~s.IsShutdown /\ ~s.IsSuspended /\ ~s.IsCloseInFlight
              /\ s.Lifecycle = "WaitingForReconnect",
           NEW operation \in DeviceOperationKind, NEW openImmediately \in BOOLEAN,
           NEW p \in PlatformOutcome,
           operation = "AutomaticReconnect" =>
                s.CompletedRetryAttempts < MaxAttempts /\ ~s.IsReconnectCancelled
    PROVE  LET t == StartConnection(s, operation, openImmediately, p) IN
           Sound(pub, t) /\ s.callbacks \subseteq t.callbacks
<1> DEFINE supersedes == operation \notin {"AutomaticReconnect", "IncomingEnable"}
           eligible == operation \in {"AutomaticReconnect", "Startup", "Resume"}
           started == [CancelTimer(s) EXCEPT
            !.IsReconnectCancelled = @ /\ ~supersedes,
            !.CompletedRetryAttempts = IF supersedes THEN 0 ELSE @,
            !.TransientOpenRetryAttempts = 0,
            !.CurrentOperation = operation,
            !.RetryEligible = eligible,
            !.OpenImmediately = openImmediately,
            !.OperationEpoch = @ + 1]
           restores == s.IsIncomingEnabled /\ ~openImmediately
           replacing == [started EXCEPT !.Lifecycle = "Disconnecting",
                                        !.RestoreIncomingAfterClose = restores]
           r == RevokeStateChanged(replacing)
           u == Publish(r, "Success", FALSE, "Normal")
           blocked == \/ s.IsShutdown \/ s.IsSuspended
                      \/ s.IsCloseInFlight \/ s.Lifecycle \in {"Connecting", "Disconnecting"}
<1>1. supersedes \in BOOLEAN /\ restores \in BOOLEAN /\ eligible \in BOOLEAN
      /\ (operation = "AutomaticReconnect" => ~supersedes)
    OBVIOUS
<1>2. CASE blocked
    BY <1>2 DEF StartConnection
<1>3. CASE ~blocked
    <2>0. ~s.IsShutdown /\ ~s.IsSuspended /\ ~s.IsCloseInFlight
        BY <1>3
    <2> HIDE DEF supersedes, eligible, restores, blocked
    <2>1. /\ Typed(started) /\ Owned(started) /\ ~started.listenerDue
          /\ started.Connection = s.Connection /\ started.callbacks = s.callbacks
          /\ started.TimerEpoch = s.TimerEpoch + 1
          /\ started.ClosingConnection = s.ClosingConnection
          /\ started.CloseBarrierEpoch = s.CloseBarrierEpoch
          /\ started.IsCloseInFlight = s.IsCloseInFlight
          /\ started.IsCloseCooldown = s.IsCloseCooldown
          /\ started.IsCloseContinuationAbandoned = s.IsCloseContinuationAbandoned
          /\ started.Pending = s.Pending /\ started.IsShutdown = s.IsShutdown
          /\ started.IsSuspended = s.IsSuspended
          /\ started.TransientOpenRetryAttempts = 0
          /\ started.CurrentOperation = operation
          /\ ~supersedes => started.CompletedRetryAttempts = s.CompletedRetryAttempts
          /\ supersedes => started.CompletedRetryAttempts = 0
          /\ started.IsReconnectCancelled => s.IsReconnectCancelled
          /\ started.StateChangedToken => s.StateChangedToken
        BY <1>1, <2>0 DEF Good, Base, Typed, Fields, Owned, CancelTimer
    <2> HIDE DEF started
    <2>2. Advanced(s, started)
        <3>1. /\ s.CompletedRetryAttempts \in Nat /\ s.TransientOpenRetryAttempts \in Nat
              /\ started.CompletedRetryAttempts \in Nat
            BY <2>1 DEF Good, Base, Typed
        <3>2. /\ started.CompletedRetryAttempts <= s.CompletedRetryAttempts
              /\ started.TransientOpenRetryAttempts <= s.TransientOpenRetryAttempts
              /\ IsAutomatic(started) => started.CompletedRetryAttempts < MaxAttempts
            BY <1>1, <2>1, <3>1 DEF IsAutomatic
        <3> QED BY <2>1, <3>2 DEF Advanced
    <2>3. Core(started) /\ Calm(started) /\ Base(started)
        <3>1. Core(started) /\ Calm(started)
            BY <2>0, <2>1, <2>2, AdvancedCore DEF Good, Sound, Calm
        <3>2. Base(started)
            <4>1. Moved(s, started)
                BY <2>1, <2>0 DEF Moved, Good, Base, Typed
            <4> QED BY <4>1, MovedKeeps
        <3> QED BY <3>1, <3>2
    <2>4. CASE s.Connection = NoConnection
        <3>1. /\ started.TransientOpenRetryAttempts < TransientOpenRetryMaxAttempts
              /\ IsAutomatic(started) => /\ started.CompletedRetryAttempts < MaxAttempts
                                         /\ ~started.IsReconnectCancelled
              /\ ~started.IsShutdown /\ ~started.IsSuspended /\ ~started.IsCloseInFlight
            BY <1>1, <2>0, <2>1, Limits DEF IsAutomatic
        <3>2. LET t == BeginCreate(started, p) IN
              Sound(pub, t) /\ started.callbacks \subseteq t.callbacks
            BY <2>1, <2>3, <2>4, <3>1, BeginCreateSound
        <3>3. StartConnection(s, operation, openImmediately, p) = BeginCreate(started, p)
            BY <1>3, <2>4 DEF StartConnection, started, supersedes, eligible, blocked
        <3> QED BY <2>1, <3>2, <3>3
    <2>5. CASE s.Connection # NoConnection
        <3>1. /\ Base(replacing) /\ Core(replacing) /\ replacing.Connection # NoConnection
              /\ replacing.Lifecycle = "Disconnecting" /\ ~replacing.IsShutdown
              /\ replacing.callbacks = s.callbacks
              /\ ~(replacing.IsReconnectCancelled /\ IsAutomatic(replacing))
            <4>1. /\ Base(replacing) /\ replacing.Connection # NoConnection
                  /\ replacing.Lifecycle = "Disconnecting" /\ ~replacing.IsShutdown
                  /\ replacing.callbacks = s.callbacks
                  /\ replacing.IsReconnectCancelled => started.IsReconnectCancelled
                  /\ replacing.CurrentOperation = operation
                BY <1>1, <2>0, <2>1, <2>3, <2>5
                DEF Base, Typed, Fields, Owned, TimersArePast, Due, DeviceLifecycleState
            <4>2. Core(replacing)
                BY <2>3 DEF Base, Typed, Fields, Core, CloseAwaited, Bounded, IsAutomatic,
                            IsCurrentTimer
            <4> QED BY <2>1, <4>1, <4>2 DEF IsAutomatic
        <3> HIDE DEF replacing
        <3>2. Same(replacing, r) /\ Typed(r) /\ Base(r)
            BY <3>1, RevokeSame, RevokeKeeps DEF Base
        <3> HIDE DEF r
        <3>3. Same(r, u) /\ Alike(r, u)
            BY <3>2, PublishTells, PublishAlike, Parameters
        <3> HIDE DEF u
        <3>4. /\ Base(u) /\ Core(u) /\ u.Connection # NoConnection
              /\ u.Lifecycle = "Disconnecting" /\ ~u.IsShutdown /\ u.callbacks = s.callbacks
              /\ ~(u.IsReconnectCancelled /\ IsAutomatic(u))
            <4>1. Base(u) /\ Core(u)
                BY <3>1, <3>2, <3>3, SameKeeps, AlikeKeeps
            <4> QED BY <3>1, <3>2, <3>3, <4>1 DEF Same, IsAutomatic
        <3>5. LET t == BeginClose(u, "Replace", "Success", FALSE, FALSE, "None", p) IN
              Sound(pub, t) /\ u.callbacks \subseteq t.callbacks
            BY <3>4, BeginCloseSound, Parameters
        <3>6. StartConnection(s, operation, openImmediately, p) =
                BeginClose(u, "Replace", "Success", FALSE, FALSE, "None", p)
            BY <1>3, <2>5 DEF StartConnection, u, r, replacing, restores, started,
                              supersedes, eligible, blocked
        <3> QED BY <3>4, <3>5, <3>6
    <2> QED BY <2>4, <2>5
<1> QED BY <1>2, <1>3

LEMMA StartConnectionSound ==
    ASSUME NEW s, Good(s), ~s.listenerDue, NEW pub, Sound(pub, s),
           NEW operation \in DeviceOperationKind, NEW openImmediately \in BOOLEAN,
           NEW p \in PlatformOutcome,
           operation = "AutomaticReconnect" =>
                s.CompletedRetryAttempts < MaxAttempts /\ ~s.IsReconnectCancelled
    PROVE  LET t == StartConnection(s, operation, openImmediately, p) IN
           Sound(pub, t) /\ s.callbacks \subseteq t.callbacks
BY StartConnectionBegins DEF Sound

LEMMA StartListenerSound ==
    ASSUME NEW s, Good(s), ~s.listenerDue, NEW pub, Sound(pub, s), NEW p \in PlatformOutcome
    PROVE  LET t == StartListener(s, p) IN Sound(pub, t) /\ s.callbacks \subseteq t.callbacks
BY StartConnectionSound, Parameters DEF StartListener

LEMMA FinishSound ==
    ASSUME NEW s, Good(s), NEW pub, Sound(pub, s), NEW p \in PlatformOutcome
    PROVE  LET t == Finish(s, p) IN Sound(pub, t) /\ s.callbacks \subseteq t.callbacks
<1> DEFINE u == [s EXCEPT !.listenerDue = FALSE]
           q == [p EXCEPT !.create = p.listener]
<1>1. Good(u) /\ ~u.listenerDue
    BY DEF Good, Base, Typed, Fields, Owned, TimersArePast, Due, Heard, Waits
<1>2. Same(s, u) /\ u.facts = s.facts
    BY DEF Good, Base, Typed, Fields, Same
<1>3. q \in PlatformOutcome
    BY DEF PlatformOutcome
<1> HIDE DEF u, q
<1>4. Sound(pub, u) /\ u.callbacks = s.callbacks
    BY <1>2, SameKeeps DEF Same
<1>5. LET t == StartListener(u, q) IN Sound(pub, t) /\ u.callbacks \subseteq t.callbacks
    BY <1>1, <1>3, <1>4, StartListenerSound
<1>6. Finish(s, p) = IF s.listenerDue THEN StartListener(u, q) ELSE s
    BY DEF Finish, u, q
<1> QED BY <1>4, <1>5, <1>6

-----------------------------------------------------------------------------
(* After a close.                                                          *)

LEMMA StartAfterResumeSound ==
    ASSUME NEW s, Quiet(s), NEW pub, Sound(pub, s), NEW p \in PlatformOutcome
    PROVE  LET t == StartAfterResume(s, p) IN Sound(pub, t) /\ s.callbacks \subseteq t.callbacks
<1> DEFINE u == [s EXCEPT !.ResumeRequired = FALSE]
           operation == IF s.ResumeOpenImmediately THEN "Resume" ELSE "IncomingEnable"
<1>1. Good(u) /\ ~u.listenerDue
    BY DEF Quiet, Good, Base, Typed, Fields, Owned, TimersArePast, Due, Heard, Waits
<1>2. Same(s, u) /\ u.facts = s.facts
    BY DEF Quiet, Good, Base, Typed, Fields, Same
<1>3. operation \in DeviceOperationKind /\ s.ResumeOpenImmediately \in BOOLEAN
      /\ operation # "AutomaticReconnect"
    BY DEF DeviceOperationKind, Quiet, Good, Base, Typed
<1> HIDE DEF u, operation
<1>4. Sound(pub, u) /\ u.callbacks = s.callbacks
    BY <1>2, SameKeeps DEF Same
<1>5. LET t == StartConnection(u, operation, s.ResumeOpenImmediately, p) IN
      Sound(pub, t) /\ s.callbacks \subseteq t.callbacks
    BY <1>1, <1>3, <1>4, StartConnectionSound
<1>6. LET t == StartListener(s, p) IN Sound(pub, t) /\ s.callbacks \subseteq t.callbacks
    BY StartListenerSound DEF Quiet
<1>7. LET t == Publish(s, "Success", FALSE, "None") IN
      Sound(pub, t) /\ s.callbacks \subseteq t.callbacks
    BY Parameters, PublishSound DEF Quiet, Good, Base, Sound
<1>8. StartAfterResume(s, p) =
        IF s.ResumeRequired THEN StartConnection(u, operation, s.ResumeOpenImmediately, p)
        ELSE IF s.IsIncomingEnabled THEN StartListener(s, p)
             ELSE Publish(s, "Success", FALSE, "None")
    BY DEF StartAfterResume, u, operation
<1> QED BY <1>5, <1>6, <1>7, <1>8

(* A session that ends idle, owning nothing, is sound once it is published.*)
LEMMA IdleSound ==
    ASSUME NEW s, Typed(s), Core(s), Calm(s), Idling(s), s.Lifecycle = "Idle",
           NEW result \in DeviceConnectionResult, NEW reason \in DeviceDisconnectReason, NEW pub
    PROVE  LET t == Publish(s, result, FALSE, reason) IN
           Sound(pub, t) /\ t.callbacks = s.callbacks
<1>1. Phase(s)
    BY RestingPhase DEF Idling, Replaces
<1> QED BY <1>1, PublishSound

LEMMA CompleteSuspendCloseSound ==
    ASSUME NEW s, Quiet(s), Idling(s), NEW pub, Sound(pub, s), NEW p \in PlatformOutcome
    PROVE  LET t == CompleteSuspendClose(s, p) IN
           Sound(pub, t) /\ s.callbacks \subseteq t.callbacks
<1> DEFINE k == [s EXCEPT !.Connection = NoConnection, !.StateChangedToken = FALSE,
                          !.IsSuspendClosePending = FALSE, !.Lifecycle = "Idle"]
           closed == Publish(k, "Cancelled", FALSE, "None")
           resumed == [closed EXCEPT !.ResumeRequested = FALSE, !.IsSuspended = FALSE]
<1>1. /\ Good(k) /\ ~k.listenerDue /\ Idling(k) /\ k.Lifecycle = "Idle"
      /\ k.callbacks = s.callbacks
    BY DEF Quiet, Idling, Good, Base, Typed, Fields, Owned, TimersArePast, Due, Heard, Waits,
           DeviceLifecycleState
<1>2. Core(k) /\ Calm(k)
    BY DEF Quiet, Idling, Good, Base, Typed, Fields, Sound, Core, Calm, CloseAwaited, Bounded,
           IsAutomatic, IsCurrentTimer
<1> HIDE DEF k
<1>3. /\ Good(closed) /\ ~closed.listenerDue /\ Idling(closed) /\ Same(k, closed)
      /\ Sound(pub, closed)
    <2>1. "Cancelled" \in DeviceConnectionResult /\ "None" \in DeviceDisconnectReason
        BY Parameters
    <2>2. Good(closed) /\ ~closed.listenerDue /\ Idling(closed)
        BY <1>1, <2>1, PublishGood
    <2>3. Same(k, closed)
        BY <1>1, <2>1, PublishTells DEF Good, Base
    <2>4. Sound(pub, closed)
        BY <1>1, <1>2, <2>1, IdleSound DEF Good, Base
    <2> QED BY <2>2, <2>3, <2>4
<1> HIDE DEF closed
<1>4. Quiet(resumed)
    BY <1>3, SMTT(30)
    DEF Quiet, Good, Base, Typed, Fields, Owned, TimersArePast, Due, Heard, Waits
<1>5. /\ resumed.Lifecycle = "Idle" /\ Idling(resumed) /\ resumed.callbacks = closed.callbacks
      /\ resumed.facts = closed.facts /\ resumed.OperationEpoch = closed.OperationEpoch
      /\ resumed.IsShutdown => closed.IsShutdown
      /\ closed.IsShutdown => resumed.IsShutdown
      /\ Core(resumed) /\ Calm(resumed)
    BY <1>1, <1>3
    DEF Idling, Good, Base, Typed, Fields, Same, Sound, Core, Calm, CloseAwaited, Bounded,
        IsAutomatic, IsCurrentTimer
<1> HIDE DEF resumed
<1>6. Sound(pub, resumed)
    <2>1. Phase(resumed)
        BY <1>5, RestingPhase DEF Idling, Replaces
    <2>2. Settled(pub, resumed)
        BY <1>1, <1>3, <1>5 DEF Sound, Settled, Told, Same
    <2> QED BY <1>5, <2>1, <2>2 DEF Sound
<1>7. LET t == StartAfterResume(resumed, p) IN
      Sound(pub, t) /\ resumed.callbacks \subseteq t.callbacks
    BY <1>4, <1>6, StartAfterResumeSound
<1>8. s.callbacks = closed.callbacks /\ s.callbacks = resumed.callbacks
    BY <1>1, <1>3, <1>5 DEF Same
<1>9. CompleteSuspendClose(s, p) \in {s, StartAfterResume(resumed, p), closed}
    BY DEF CompleteSuspendClose, closed, resumed, k
<1> QED BY <1>3, <1>7, <1>8, <1>9

LEMMA ContinueAbandonedSound ==
    ASSUME NEW s, Quiet(s), Idling(s), NEW pub, Sound(pub, s)
    PROVE  LET t == ContinueAbandoned(s) IN Sound(pub, t) /\ s.callbacks \subseteq t.callbacks
<1> DEFINE suspended == s.IsSuspended /\ ~s.ResumeRequested
           over == [s EXCEPT !.IsSuspendClosePending = FALSE, !.ResumeRequired = FALSE,
                             !.IsSuspended = suspended, !.ResumeRequested = FALSE]
           released == IF ~s.IsSuspendClosePending THEN s ELSE over
           idle == [released EXCEPT !.IsCloseContinuationAbandoned = FALSE,
                                    !.Lifecycle = "Idle"]
           u == Publish(idle, "Success", FALSE, "None")
<1>0. suspended \in BOOLEAN /\ (suspended => s.IsSuspended)
    OBVIOUS
<1>1. /\ Typed(released) /\ Idling(released) /\ Core(released) /\ Calm(released)
      /\ released.callbacks = s.callbacks /\ Owned(released)
    <2> HIDE DEF suspended
    <2>1. Typed(over) /\ Idling(over) /\ over.callbacks = s.callbacks /\ Owned(over)
        BY <1>0 DEF Quiet, Idling, Good, Base, Typed, Fields, Owned
    <2>2. Core(over) /\ Calm(over)
        BY <1>0 DEF Quiet, Idling, Good, Base, Typed, Fields, Sound, Core, Calm, CloseAwaited,
                    Bounded, IsAutomatic, IsCurrentTimer
    <2> QED BY <2>1, <2>2 DEF Quiet, Good, Base, Sound
<1> HIDE DEF released
<1>2. /\ Typed(idle) /\ Idling(idle) /\ idle.Lifecycle = "Idle"
      /\ idle.callbacks = s.callbacks /\ Core(idle) /\ Calm(idle)
    <2>1. /\ Typed(idle) /\ Idling(idle) /\ idle.Lifecycle = "Idle"
          /\ idle.callbacks = s.callbacks /\ ~idle.IsCloseContinuationAbandoned
          /\ idle.ClosingConnection = NoConnection /\ ~idle.IsCloseCooldown
        BY <1>1 DEF Idling, Typed, Fields, DeviceLifecycleState, Owned
    <2>2. Core(idle) /\ Calm(idle)
        BY <1>1, <2>1 DEF Idling, Typed, Fields, Core, Calm, CloseAwaited, Bounded,
                          IsAutomatic, IsCurrentTimer
    <2> QED BY <2>1, <2>2
<1> HIDE DEF idle
<1>3. Sound(pub, u) /\ u.callbacks = s.callbacks /\ Typed(u)
    BY <1>2, IdleSound, PublishTells, Parameters
<1> HIDE DEF u
<1> DEFINE t == RestoreIncomingListenerAfterTerminal(u)
<1>4. Same(u, t) /\ t.facts = u.facts
    BY <1>3, RestoreSame
<1>5. t = ContinueAbandoned(s)
    BY DEF ContinueAbandoned, t, u, idle, released, over, suspended
<1> HIDE DEF t
<1>6. Sound(pub, t) /\ t.callbacks = s.callbacks
    BY <1>3, <1>4, SameKeeps DEF Same
<1> QED BY <1>5, <1>6

LEMMA ContinueIdleSound ==
    ASSUME NEW s, Quiet(s), Idling(s), NEW pub, Sound(pub, s), NEW p \in PlatformOutcome
    PROVE  LET t == ContinueIdle(s, p) IN Sound(pub, t) /\ s.callbacks \subseteq t.callbacks
<1> DEFINE k == [s EXCEPT !.Lifecycle = "Idle", !.Pending = NoPendingClose]
           idle == Publish(k, s.Pending.Failure, FALSE, s.Pending.DisconnectReason)
           u == [idle EXCEPT !.RestoreIncomingAfterClose = FALSE]
<1>1. Good(k) /\ ~k.listenerDue /\ Idling(k) /\ k.Lifecycle = "Idle"
      /\ k.callbacks = s.callbacks
    BY NoPendingCloseType
    DEF Quiet, Idling, Good, Base, Typed, Fields, Owned, TimersArePast, Due, Heard, Waits,
        DeviceLifecycleState
<1>2. Core(k) /\ Calm(k)
    BY DEF Quiet, Idling, Good, Base, Typed, Fields, Sound, Core, Calm, CloseAwaited, Bounded,
           IsAutomatic, IsCurrentTimer
<1>3. /\ s.Pending.Failure \in DeviceConnectionResult
      /\ s.Pending.DisconnectReason \in DeviceDisconnectReason
    BY DEF Quiet, Good, Base, Typed, PendingClose
<1> HIDE DEF k
<1>4. /\ Good(idle) /\ ~idle.listenerDue /\ Sound(pub, idle)
      /\ idle.callbacks = s.callbacks
    BY <1>1, <1>2, <1>3, PublishGood, IdleSound DEF Good, Base
<1> HIDE DEF idle
<1>5. Good(u) /\ ~u.listenerDue /\ Same(idle, u) /\ u.facts = idle.facts
    BY <1>4 DEF Good, Base, Typed, Fields, Owned, TimersArePast, Due, Heard, Waits, Same
<1> HIDE DEF u
<1>6. Sound(pub, u) /\ u.callbacks = s.callbacks
    BY <1>4, <1>5, SameKeeps DEF Same
<1>7. LET t == StartListener(u, p) IN Sound(pub, t) /\ u.callbacks \subseteq t.callbacks
    BY <1>5, <1>6, StartListenerSound
<1>8. ContinueIdle(s, p) \in {StartListener(u, p), idle}
    BY DEF ContinueIdle, u, idle, k
<1> QED BY <1>4, <1>6, <1>7, <1>8

(* What a close that has ended leaves to be continued with.                *)
Continuable(s) ==
    /\ s.TransientOpenRetryAttempts < TransientOpenRetryMaxAttempts
    /\ IsAutomatic(s) => s.CompletedRetryAttempts < MaxAttempts
    /\ s.Pending.CompletedAttempt => s.CompletedRetryAttempts < MaxAttempts
    /\ ~s.IsCloseContinuationAbandoned /\ s.Pending.Continuation = "Replace" =>
            ~(s.IsReconnectCancelled /\ IsAutomatic(s))

LEMMA ContinueAfterCloseSound ==
    ASSUME NEW s, Quiet(s), Idling(s), ~s.IsShutdown, NEW pub, Sound(pub, s), Continuable(s),
           NEW p \in PlatformOutcome
    PROVE  LET t == ContinueAfterClose(s, p) IN Sound(pub, t) /\ s.callbacks \subseteq t.callbacks
<1> DEFINE cleared == [s EXCEPT !.Pending = NoPendingClose]
           done(t) == Sound(pub, t) /\ s.callbacks \subseteq t.callbacks
           retried == ScheduleReconnect(cleared, s.Pending.Failure, s.Pending.RetryEligible,
                                        s.Pending.CompletedAttempt,
                                        s.Pending.DisconnectReason, p)
<1>1. /\ Quiet(cleared) /\ Idling(cleared) /\ cleared.callbacks = s.callbacks
      /\ ~cleared.IsShutdown
      /\ cleared.TransientOpenRetryAttempts = s.TransientOpenRetryAttempts
      /\ cleared.CompletedRetryAttempts = s.CompletedRetryAttempts
      /\ cleared.CurrentOperation = s.CurrentOperation
      /\ cleared.IsReconnectCancelled => s.IsReconnectCancelled
    BY NoPendingCloseType
    DEF Quiet, Idling, Good, Base, Typed, Fields, Owned, TimersArePast, Due, Heard, Waits
<1>2. Sound(pub, cleared)
    <2>1. Core(cleared) /\ Calm(cleared)
        BY DEF Quiet, Idling, Good, Base, Typed, Fields, Sound, Core, Calm, CloseAwaited,
               Bounded, IsAutomatic, IsCurrentTimer
    <2>2. Phase(cleared)
        BY DEF Quiet, Idling, Good, Base, Typed, Fields, Sound, Phase, IsAutomatic,
               IsCurrentTimer, TimerFits, Replaces
    <2>3. Settled(pub, cleared)
        BY DEF Quiet, Good, Base, Typed, Fields, Sound, Settled, Told
    <2> QED BY <2>1, <2>2, <2>3 DEF Sound
<1>3. /\ s.Pending.Failure \in DeviceConnectionResult
      /\ s.Pending.DisconnectReason \in DeviceDisconnectReason
      /\ s.Pending.RetryEligible \in BOOLEAN /\ s.Pending.CompletedAttempt \in BOOLEAN
      /\ s.Pending.Continuation \in CloseContinuation
    BY DEF Quiet, Good, Base, Typed, PendingClose
<1> HIDE DEF cleared
<1>4. /\ Base(cleared) /\ Core(cleared) /\ Calm(cleared)
      /\ ~cleared.IsCloseInFlight /\ cleared.Connection = NoConnection
    BY <1>1, <1>2 DEF Quiet, Good, Sound, Idling
<1>5. done(ContinueAbandoned(cleared)) /\ done(CompleteSuspendClose(cleared, p))
      /\ done(ContinueIdle(s, p))
    BY <1>1, <1>2, ContinueAbandonedSound, CompleteSuspendCloseSound, ContinueIdleSound
<1>6. done(retried)
    <2>1. s.Pending.CompletedAttempt => cleared.CompletedRetryAttempts < MaxAttempts
        BY <1>1 DEF Continuable
    <2> QED BY <1>1, <1>3, <1>4, <2>1, ScheduleReconnectSound
<1>7. done(ScheduleTransientOpenRetry(cleared, s.Pending.Failure, p))
    <2>1. /\ cleared.TransientOpenRetryAttempts < TransientOpenRetryMaxAttempts
          /\ IsAutomatic(cleared) => cleared.CompletedRetryAttempts < MaxAttempts
        BY <1>1 DEF Continuable, IsAutomatic
    <2> QED BY <1>1, <1>2, <1>3, <1>4, <2>1, ScheduleTransientOpenRetrySound
<1>8. ~s.IsCloseContinuationAbandoned /\ s.Pending.Continuation = "Replace" =>
        done(BeginCreate(cleared, p))
    <2> SUFFICES ASSUME ~s.IsCloseContinuationAbandoned, s.Pending.Continuation = "Replace"
                 PROVE  done(BeginCreate(cleared, p))
        OBVIOUS
    <2>1. /\ cleared.TransientOpenRetryAttempts < TransientOpenRetryMaxAttempts
          /\ IsAutomatic(cleared) =>
                cleared.CompletedRetryAttempts < MaxAttempts /\ ~cleared.IsReconnectCancelled
        BY <1>1 DEF Continuable, IsAutomatic
    <2> QED BY <1>1, <1>2, <1>4, <2>1, BeginCreateSound
<1>9. CASE s.IsCloseContinuationAbandoned
    BY <1>5, <1>9 DEF ContinueAfterClose, cleared
<1>10. CASE ~s.IsCloseContinuationAbandoned
    <2> HIDE DEF done
    <2>1. /\ s.Pending.Continuation = "Replace" =>
                ContinueAfterClose(s, p) = BeginCreate(cleared, p)
          /\ s.Pending.Continuation = "Retry" => ContinueAfterClose(s, p) = retried
          /\ s.Pending.Continuation = "TransientOpenRetry" =>
                ContinueAfterClose(s, p) =
                    ScheduleTransientOpenRetry(cleared, s.Pending.Failure, p)
          /\ s.Pending.Continuation = "Suspend" =>
                ContinueAfterClose(s, p) = CompleteSuspendClose(cleared, p)
          /\ s.Pending.Continuation = "Idle" => ContinueAfterClose(s, p) = ContinueIdle(s, p)
        BY <1>10 DEF ContinueAfterClose, cleared
    <2>2. s.Pending.Continuation \in {"Idle", "Replace", "Retry", "TransientOpenRetry", "Suspend"}
        BY <1>3 DEF CloseContinuation
    <2>3. done(ContinueAfterClose(s, p))
        BY <1>5, <1>6, <1>7, <1>8, <1>10, <2>1, <2>2
    <2> QED BY <2>3 DEF done
<1> QED BY <1>9, <1>10

-----------------------------------------------------------------------------
(* Taking a callback from the outstanding ones.                            *)

(* c is what a connecting or a waiting session is waiting for.             *)
AwaitedWork(s, c) ==
    \/ /\ c.kind \in {"Started", "Opened"} /\ s.Lifecycle = "Connecting"
       /\ c.epoch = s.OperationEpoch /\ c.address = s.Connection
    \/ /\ IsCurrentTimer(s, c) /\ s.Lifecycle = "WaitingForReconnect"
       /\ c.epoch = s.OperationEpoch

(* c is what the close barrier of s is waiting for.                        *)
AwaitedClose(s, c) ==
    \/ /\ c.kind \in {"CloseTimeout", "Closed"} /\ c.closeBarrierEpoch = s.CloseBarrierEpoch
       /\ s.ClosingConnection # NoConnection
    \/ /\ c.kind = "Cooldown" /\ c.closeBarrierEpoch = s.CloseBarrierEpoch
       /\ s.IsCloseCooldown

(* Core without the close barrier.                                         *)
Kept(s) ==
    /\ Bounded(s)
    /\ s.IsReconnectCancelled => \A c \in s.callbacks : ~IsCurrentTimer(s, c)
    /\ s.IsCloseContinuationAbandoned => s.Pending = NoPendingClose

(* s is the sound state o with the callback c taken from it.               *)
Takes(pub, o, c, s) ==
    /\ Quiet(o) /\ Sound(pub, o) /\ c \in o.callbacks
    /\ s = [o EXCEPT !.callbacks = @ \ {c}]

LEMMA TakesParts ==
    ASSUME NEW pub, NEW o, NEW c, NEW s, Takes(pub, o, c, s)
    PROVE  /\ Quiet(s) /\ Calm(s) /\ Settled(pub, s) /\ Kept(s) /\ c \in Callback
           /\ ~AwaitedClose(s, c) => Core(s)
           /\ ~AwaitedWork(s, c) => Phase(s)
           /\ ~AwaitedWork(s, c) /\ ~AwaitedClose(s, c) => Sound(pub, s)
<1>1. /\ Typed(s) /\ s.callbacks = o.callbacks \ {c} /\ s.facts = o.facts
      /\ s.StateChangedToken = o.StateChangedToken /\ s.HandlerEpoch = o.HandlerEpoch
      /\ s.OpenImmediately = o.OpenImmediately /\ s.listenerDue = o.listenerDue
      /\ c \in Callback
    BY DEF Takes, Quiet, Good, Base, Typed, Fields
<1>2. /\ s.Connection = o.Connection /\ s.ClosingConnection = o.ClosingConnection
      /\ s.OperationEpoch = o.OperationEpoch /\ s.TimerEpoch = o.TimerEpoch
      /\ s.CloseBarrierEpoch = o.CloseBarrierEpoch
      /\ s.CompletedRetryAttempts = o.CompletedRetryAttempts
      /\ s.TransientOpenRetryAttempts = o.TransientOpenRetryAttempts
      /\ s.Lifecycle = o.Lifecycle /\ s.CurrentOperation = o.CurrentOperation
      /\ s.IsReconnectEnabled = o.IsReconnectEnabled
      /\ s.IsReconnectCancelled = o.IsReconnectCancelled
      /\ s.IsSuspended = o.IsSuspended /\ s.IsShutdown = o.IsShutdown
      /\ s.IsSuspendClosePending = o.IsSuspendClosePending
      /\ s.SuspendCloseEpoch = o.SuspendCloseEpoch
      /\ s.IsCloseInFlight = o.IsCloseInFlight /\ s.IsCloseCooldown = o.IsCloseCooldown
      /\ s.IsCloseContinuationAbandoned = o.IsCloseContinuationAbandoned
      /\ s.Pending = o.Pending
    BY DEF Takes, Quiet, Good, Base, Typed, Fields
<1>3. Core(o) /\ Calm(o) /\ Phase(o) /\ Settled(pub, o) /\ Good(o) /\ ~o.listenerDue
    BY DEF Takes, Sound, Quiet
<1>4. Quiet(s)
    BY <1>1, <1>2, <1>3 DEF Quiet, Good, Base, Owned, TimersArePast, Due, Heard, Waits
<1>5. Calm(s) /\ Settled(pub, s) /\ Bounded(s)
    BY <1>1, <1>2, <1>3 DEF Calm, Settled, Told, Core, Bounded, IsAutomatic
<1>6. Kept(s) /\ (CloseAwaited(s) => Core(s))
    BY <1>1, <1>2, <1>3, <1>5 DEF Core, Kept, IsCurrentTimer
<1>7. ~AwaitedClose(s, c) => CloseAwaited(s)
    <2> DEFINE due(kind) == BarrierWork(kind, s.CloseBarrierEpoch)
    <2>1. \A kind : due(kind).kind = kind /\ due(kind).closeBarrierEpoch = s.CloseBarrierEpoch
        BY DEF BarrierWork
    <2>2. \A kind : due(kind) \in o.callbacks /\ due(kind) # c => due(kind) \in s.callbacks
        BY <1>1
    <2>3. CloseAwaited(o)
        BY <1>3 DEF Core
    <2> HIDE DEF due
    <2>4. /\ s.ClosingConnection # NoConnection =>
                /\ due("Closed") \in o.callbacks
                /\ s.IsCloseContinuationAbandoned \/ due("CloseTimeout") \in o.callbacks
          /\ s.IsCloseCooldown => due("Cooldown") \in o.callbacks
        BY <1>2, <2>3 DEF CloseAwaited, due
    <2>5. ASSUME ~AwaitedClose(s, c)
          PROVE  /\ s.ClosingConnection # NoConnection =>
                        /\ due("Closed") \in s.callbacks
                        /\ s.IsCloseContinuationAbandoned \/ due("CloseTimeout") \in s.callbacks
                 /\ s.IsCloseCooldown => due("Cooldown") \in s.callbacks
        BY <2>1, <2>2, <2>4, <2>5 DEF AwaitedClose
    <2> QED BY <2>5 DEF CloseAwaited, due
<1>8. ~AwaitedWork(s, c) => Phase(s)
    <2> SUFFICES ASSUME ~AwaitedWork(s, c) PROVE Phase(s)
        OBVIOUS
    <2>1. s.Lifecycle = "WaitingForReconnect" =>
            /\ \E d \in s.callbacks : /\ IsCurrentTimer(s, d) /\ d.epoch = s.OperationEpoch
                                      /\ d.kind = "RetryTimer" => s.IsReconnectEnabled
            /\ \A d \in s.callbacks : IsCurrentTimer(s, d) => TimerFits(s, d)
            /\ ~s.IsReconnectCancelled /\ ~s.IsSuspended
        BY <1>1, <1>2, <1>3 DEF Phase, AwaitedWork, IsCurrentTimer, TimerFits, IsAutomatic
    <2>2. s.Lifecycle = "Connecting" =>
            /\ \E d \in s.callbacks : /\ d.kind \in {"Started", "Opened"}
                                      /\ d.epoch = s.OperationEpoch
                                      /\ d.address = s.Connection
            /\ ~s.IsSuspended /\ ~(s.IsReconnectCancelled /\ IsAutomatic(s))
        BY <1>1, <1>2, <1>3 DEF Phase, AwaitedWork, IsAutomatic
    <2>3. /\ s.Lifecycle = "Connected" => s.Connection # NoConnection
          /\ s.IsShutdown => s.Lifecycle = "Idle" /\ ~s.IsCloseInFlight
          /\ Replaces(s) => /\ s.Lifecycle = "Disconnecting"
                            /\ ~(s.IsReconnectCancelled /\ IsAutomatic(s))
        BY <1>2, <1>3 DEF Phase, Replaces, IsAutomatic
    <2> QED BY <2>1, <2>2, <2>3 DEF Phase
<1> QED BY <1>1, <1>4, <1>5, <1>6, <1>7, <1>8 DEF Sound

-----------------------------------------------------------------------------
(* The callbacks of the close barrier.                                     *)

(* The cooldown is over: the session goes on with what it closed for.      *)
LEMMA CloseEndedSound ==
    ASSUME NEW s, Quiet(s), s.IsCloseInFlight, s.IsCloseCooldown, ~s.IsShutdown, NEW pub,
           Kept(s), Calm(s), Phase(s), Settled(pub, s), NEW p \in PlatformOutcome
    PROVE  LET t == ContinueAfterClose([s EXCEPT !.IsCloseCooldown = FALSE,
                                                 !.IsCloseInFlight = FALSE], p)
           IN  Sound(pub, t) /\ s.callbacks \subseteq t.callbacks
<1> DEFINE u == [s EXCEPT !.IsCloseCooldown = FALSE, !.IsCloseInFlight = FALSE]
<1>1. Quiet(u) /\ Idling(u)
    BY DEF Quiet, Idling, Good, Base, Typed, Fields, Owned, TimersArePast, Due, Heard, Waits
<1>2. /\ u.callbacks = s.callbacks /\ ~u.IsShutdown /\ u.facts = s.facts
      /\ u.ClosingConnection = NoConnection /\ ~u.IsCloseCooldown /\ ~u.IsCloseInFlight
      /\ u.Connection = s.Connection /\ u.OperationEpoch = s.OperationEpoch
      /\ u.TimerEpoch = s.TimerEpoch /\ u.Lifecycle = s.Lifecycle
      /\ u.CompletedRetryAttempts = s.CompletedRetryAttempts
      /\ u.TransientOpenRetryAttempts = s.TransientOpenRetryAttempts
      /\ u.CurrentOperation = s.CurrentOperation /\ u.Pending = s.Pending
      /\ u.IsReconnectCancelled = s.IsReconnectCancelled
      /\ u.IsReconnectEnabled = s.IsReconnectEnabled /\ u.IsSuspended = s.IsSuspended
      /\ u.IsCloseContinuationAbandoned = s.IsCloseContinuationAbandoned
    BY DEF Quiet, Good, Base, Typed, Fields, Owned
<1> HIDE DEF u
<1>3. Sound(pub, u)
    <2>1. Core(u)
        BY <1>1, <1>2 DEF Kept, Core, CloseAwaited, Bounded, IsAutomatic, IsCurrentTimer, Idling
    <2>2. Calm(u)
        BY <1>2 DEF Calm
    <2>3. Phase(u)
        BY <1>2 DEF Phase, IsAutomatic, IsCurrentTimer, TimerFits, Replaces
    <2>4. Settled(pub, u)
        BY <1>2 DEF Settled, Told
    <2> QED BY <2>1, <2>2, <2>3, <2>4 DEF Sound
<1>4. Continuable(u)
    BY <1>2 DEF Continuable, Kept, Bounded, Phase, Replaces, IsAutomatic
<1>5. LET t == ContinueAfterClose(u, p) IN Sound(pub, t) /\ u.callbacks \subseteq t.callbacks
    BY <1>1, <1>2, <1>3, <1>4, ContinueAfterCloseSound
<1> QED BY <1>2, <1>5 DEF u

LEMMA CompleteCloseCooldownSound ==
    ASSUME NEW pub, NEW o, NEW c, NEW s, Takes(pub, o, c, s), c.kind = "Cooldown",
           NEW p \in PlatformOutcome
    PROVE  LET t == CompleteCloseCooldown(s, c.closeBarrierEpoch, p) IN
           Sound(pub, t) /\ s.callbacks \subseteq t.callbacks
<1>1. /\ Quiet(s) /\ Calm(s) /\ Settled(pub, s) /\ Kept(s) /\ Phase(s)
      /\ ~AwaitedClose(s, c) => Sound(pub, s)
    BY TakesParts DEF AwaitedWork, IsCurrentTimer, IsTimer
<1> DEFINE stale == \/ s.IsShutdown \/ ~s.IsCloseInFlight \/ ~s.IsCloseCooldown
                    \/ c.closeBarrierEpoch # s.CloseBarrierEpoch
           u == [s EXCEPT !.IsCloseCooldown = FALSE, !.IsCloseInFlight = FALSE]
<1>2. CASE stale
    <2>1. ~AwaitedClose(s, c)
        BY <1>1, <1>2 DEF AwaitedClose, Quiet, Good, Base, Owned, Phase
    <2> QED BY <1>1, <1>2, <2>1 DEF CompleteCloseCooldown
<1>3. CASE ~stale
    <2>1. LET t == ContinueAfterClose(u, p) IN Sound(pub, t) /\ s.callbacks \subseteq t.callbacks
        <3>1. ~s.IsShutdown /\ s.IsCloseInFlight /\ s.IsCloseCooldown
            BY <1>3, Zenon
        <3> QED BY <1>1, <3>1, CloseEndedSound, Zenon
    <2>2. CompleteCloseCooldown(s, c.closeBarrierEpoch, p) = ContinueAfterClose(u, p)
        BY <1>3 DEF CompleteCloseCooldown
    <2> QED BY <2>1, <2>2
<1> QED BY <1>2, <1>3

LEMMA CompleteCloseBarrierSound ==
    ASSUME NEW pub, NEW o, NEW c, NEW s, Takes(pub, o, c, s),
           NEW timedOut \in BOOLEAN, c.kind = IF timedOut THEN "CloseTimeout" ELSE "Closed",
           NEW p \in PlatformOutcome
    PROVE  LET t == CompleteCloseBarrier(s, c.closeBarrierEpoch, timedOut, p) IN
           Sound(pub, t) /\ s.callbacks \subseteq t.callbacks
<1> DEFINE epoch == c.closeBarrierEpoch
           stale == \/ s.IsShutdown \/ ~s.IsCloseInFlight \/ s.IsCloseCooldown
                    \/ epoch # s.CloseBarrierEpoch
           f == [s EXCEPT !.Lifecycle = "Failed"]
           failed == Publish(f, "TimedOut", TRUE, s.Pending.DisconnectReason)
           abandoned == AbandonCloseContinuation(failed)
           cooling == [s EXCEPT !.ClosingConnection = NoConnection,
                                !.StateChangedToken = FALSE, !.IsCloseCooldown = TRUE]
           work == BarrierWork("Cooldown", epoch)
           over == [cooling EXCEPT !.IsCloseCooldown = FALSE, !.IsCloseInFlight = FALSE]
<1>0. c.kind \in {"CloseTimeout", "Closed"}
    OBVIOUS
<1>1. /\ Quiet(s) /\ Calm(s) /\ Settled(pub, s) /\ Kept(s) /\ Phase(s) /\ c \in Callback
      /\ ~AwaitedClose(s, c) => Sound(pub, s)
    BY <1>0, TakesParts DEF AwaitedWork, IsCurrentTimer, IsTimer
<1>2. CASE stale
    <2>1. ~AwaitedClose(s, c)
        BY <1>0, <1>1, <1>2 DEF AwaitedClose, Quiet, Good, Base, Owned, Phase
    <2> QED BY <1>1, <1>2, <2>1 DEF CompleteCloseBarrier
<1>3. CASE ~stale
    <2>0. ~s.IsShutdown /\ s.IsCloseInFlight /\ ~s.IsCloseCooldown /\ epoch = s.CloseBarrierEpoch
        BY <1>3, Zenon
    <2> HIDE DEF stale
    <2>1. CASE timedOut
        <3>1. /\ Typed(f) /\ f.callbacks = s.callbacks /\ f.Lifecycle = "Failed"
              /\ f.Connection = s.Connection /\ f.ClosingConnection = s.ClosingConnection
              /\ f.OperationEpoch = s.OperationEpoch /\ f.TimerEpoch = s.TimerEpoch
              /\ f.CloseBarrierEpoch = s.CloseBarrierEpoch
              /\ f.CompletedRetryAttempts = s.CompletedRetryAttempts
              /\ f.TransientOpenRetryAttempts = s.TransientOpenRetryAttempts
              /\ f.CurrentOperation = s.CurrentOperation
              /\ f.IsReconnectCancelled = s.IsReconnectCancelled
              /\ f.IsSuspended = s.IsSuspended /\ ~f.IsShutdown
              /\ f.IsCloseInFlight /\ ~f.IsCloseCooldown
            BY <1>1, <2>0 DEF Quiet, Good, Base, Typed, Fields, DeviceLifecycleState
        <3>2. s.Pending.DisconnectReason \in DeviceDisconnectReason
            BY <1>1 DEF Quiet, Good, Base, Typed, PendingClose
        <3> HIDE DEF f
        <3>3. Typed(failed) /\ Same(f, failed) /\ Settled(pub, failed)
            BY <3>1, <3>2, PublishTells, Parameters
        <3> HIDE DEF failed
        <3>4. /\ abandoned.callbacks = failed.callbacks /\ abandoned.facts = failed.facts
              /\ abandoned.Lifecycle = failed.Lifecycle
              /\ abandoned.Connection = failed.Connection
              /\ abandoned.ClosingConnection = failed.ClosingConnection
              /\ abandoned.OperationEpoch = failed.OperationEpoch
              /\ abandoned.TimerEpoch = failed.TimerEpoch
              /\ abandoned.CloseBarrierEpoch = failed.CloseBarrierEpoch
              /\ abandoned.CompletedRetryAttempts = failed.CompletedRetryAttempts
              /\ abandoned.TransientOpenRetryAttempts = failed.TransientOpenRetryAttempts
              /\ abandoned.CurrentOperation = failed.CurrentOperation
              /\ abandoned.IsReconnectCancelled = failed.IsReconnectCancelled
              /\ abandoned.IsSuspended = failed.IsSuspended
              /\ abandoned.IsShutdown = failed.IsShutdown
              /\ abandoned.IsCloseInFlight = failed.IsCloseInFlight
              /\ abandoned.IsCloseCooldown = failed.IsCloseCooldown
              /\ abandoned.IsCloseContinuationAbandoned /\ abandoned.Pending = NoPendingClose
            BY <3>3 DEF AbandonCloseContinuation, Typed, Fields
        <3> HIDE DEF abandoned
        <3>5. /\ abandoned.callbacks = s.callbacks /\ abandoned.Lifecycle = "Failed"
              /\ abandoned.Connection = s.Connection
              /\ abandoned.ClosingConnection = s.ClosingConnection
              /\ abandoned.OperationEpoch = s.OperationEpoch
              /\ abandoned.TimerEpoch = s.TimerEpoch
              /\ abandoned.CloseBarrierEpoch = s.CloseBarrierEpoch
              /\ abandoned.CompletedRetryAttempts = s.CompletedRetryAttempts
              /\ abandoned.TransientOpenRetryAttempts = s.TransientOpenRetryAttempts
              /\ abandoned.CurrentOperation = s.CurrentOperation
              /\ abandoned.IsReconnectCancelled = s.IsReconnectCancelled
              /\ abandoned.IsSuspended = s.IsSuspended
              /\ ~abandoned.IsShutdown /\ ~abandoned.IsCloseCooldown
            BY <3>1, <3>3, <3>4 DEF Same
        <3>6. BarrierWork("Closed", s.CloseBarrierEpoch) \in s.callbacks
            <4>1. o.ClosingConnection # NoConnection /\ o.CloseBarrierEpoch = s.CloseBarrierEpoch
                BY <1>1, <2>0 DEF Takes, Quiet, Good, Base, Owned, Typed, Fields
            <4>2. BarrierWork("Closed", s.CloseBarrierEpoch) \in o.callbacks
                BY <4>1 DEF Takes, Sound, Core, CloseAwaited
            <4>3. BarrierWork("Closed", s.CloseBarrierEpoch) # c
                BY <2>1 DEF BarrierWork
            <4>4. s.callbacks = o.callbacks \ {c}
                BY DEF Takes, Quiet, Good, Base, Typed, Fields
            <4> QED BY <4>2, <4>3, <4>4
        <3>7. NoPendingClose.Continuation = "Idle" /\ NoPendingClose.CompletedAttempt = FALSE
            BY DEF NoPendingClose
        <3>8. Core(abandoned)
            <4>1. CloseAwaited(abandoned)
                BY <3>4, <3>5, <3>6 DEF CloseAwaited
            <4>2. Bounded(abandoned)
                BY <1>1, <2>0, <3>4, <3>5, <3>7 DEF Kept, Bounded, IsAutomatic
            <4>3. abandoned.IsReconnectCancelled =>
                    \A d \in abandoned.callbacks : ~IsCurrentTimer(abandoned, d)
                BY <1>1, <3>5 DEF Kept, IsCurrentTimer
            <4> QED BY <3>4, <4>1, <4>2, <4>3 DEF Core
        <3>9. Calm(abandoned)
            BY <1>1, <3>4, <3>5 DEF Calm
        <3>10. Phase(abandoned)
            BY <3>4, <3>5, <3>7 DEF Phase, Replaces
        <3>11. Settled(pub, abandoned)
            BY <3>3, <3>4 DEF Settled, Told
        <3>12. CompleteCloseBarrier(s, epoch, timedOut, p) = abandoned
            BY <1>3, <2>1, Zenon DEF CompleteCloseBarrier, abandoned, failed, f, stale
        <3> QED BY <3>5, <3>8, <3>9, <3>10, <3>11, <3>12 DEF Sound
    <2>2. CASE ~timedOut
        <3>1. Quiet(cooling)
            BY <1>1, <2>0
            DEF Quiet, Good, Base, Typed, Fields, Owned, TimersArePast, Due, Heard, Waits
        <3>2. /\ cooling.callbacks = s.callbacks /\ cooling.facts = s.facts
              /\ cooling.Connection = s.Connection /\ cooling.ClosingConnection = NoConnection
              /\ cooling.OperationEpoch = s.OperationEpoch /\ cooling.TimerEpoch = s.TimerEpoch
              /\ cooling.CloseBarrierEpoch = epoch /\ cooling.Lifecycle = s.Lifecycle
              /\ cooling.CompletedRetryAttempts = s.CompletedRetryAttempts
              /\ cooling.TransientOpenRetryAttempts = s.TransientOpenRetryAttempts
              /\ cooling.CurrentOperation = s.CurrentOperation /\ cooling.Pending = s.Pending
              /\ cooling.IsReconnectEnabled = s.IsReconnectEnabled
              /\ cooling.IsReconnectCancelled = s.IsReconnectCancelled
              /\ cooling.IsSuspended = s.IsSuspended /\ cooling.IsShutdown = s.IsShutdown
              /\ cooling.IsSuspendClosePending = s.IsSuspendClosePending
              /\ cooling.SuspendCloseEpoch = s.SuspendCloseEpoch
              /\ cooling.IsCloseInFlight = s.IsCloseInFlight /\ cooling.IsCloseCooldown
              /\ cooling.IsCloseContinuationAbandoned = s.IsCloseContinuationAbandoned
            BY <1>1, <2>0 DEF Quiet, Good, Base, Typed, Fields
        <3> HIDE DEF cooling
        <3>3. Kept(cooling) /\ Calm(cooling) /\ Phase(cooling) /\ Settled(pub, cooling)
            <4>1. Kept(cooling)
                BY <1>1, <3>2 DEF Kept, Bounded, IsAutomatic, IsCurrentTimer
            <4>2. Calm(cooling)
                BY <1>1, <3>2 DEF Calm
            <4>3. Phase(cooling)
                BY <1>1, <3>2 DEF Phase, IsAutomatic, IsCurrentTimer, TimerFits, Replaces
            <4>4. Settled(pub, cooling)
                BY <1>1, <3>2 DEF Settled, Told
            <4> QED BY <4>1, <4>2, <4>3, <4>4
        <3>4. /\ ~cooling.IsShutdown /\ cooling.IsCloseInFlight
            BY <2>0, <3>2, Zenon
        <3>5. LET t == ContinueAfterClose(over, p) IN
              Sound(pub, t) /\ cooling.callbacks \subseteq t.callbacks
            <4>1. cooling.IsCloseCooldown
                BY <3>2
            <4> QED BY <3>1, <3>3, <3>4, <4>1, CloseEndedSound, Zenon
        <3>6. CompleteCloseCooldown(cooling, epoch, p) = ContinueAfterClose(over, p)
            BY <3>2, <3>4 DEF CompleteCloseCooldown
        <3> DEFINE t == Await(cooling, work)
        <3>7. work \in Callback /\ work.kind = "Cooldown"
            BY <1>0, <1>1, BarrierWorkType, CallbackMembers
        <3> HIDE DEF work
        <3>8. Sound(pub, t) /\ cooling.callbacks \subseteq t.callbacks
            <4>1. /\ t.callbacks = cooling.callbacks \cup {work} /\ t.facts = cooling.facts
                  /\ t.Connection = cooling.Connection
                  /\ t.ClosingConnection = NoConnection
                  /\ t.OperationEpoch = cooling.OperationEpoch
                  /\ t.TimerEpoch = cooling.TimerEpoch
                  /\ t.CloseBarrierEpoch = epoch /\ t.Lifecycle = cooling.Lifecycle
                  /\ t.CompletedRetryAttempts = cooling.CompletedRetryAttempts
                  /\ t.TransientOpenRetryAttempts = cooling.TransientOpenRetryAttempts
                  /\ t.CurrentOperation = cooling.CurrentOperation
                  /\ t.Pending = cooling.Pending
                  /\ t.IsReconnectEnabled = cooling.IsReconnectEnabled
                  /\ t.IsReconnectCancelled = cooling.IsReconnectCancelled
                  /\ t.IsSuspended = cooling.IsSuspended /\ t.IsShutdown = cooling.IsShutdown
                  /\ t.IsSuspendClosePending = cooling.IsSuspendClosePending
                  /\ t.SuspendCloseEpoch = cooling.SuspendCloseEpoch
                  /\ t.IsCloseInFlight = cooling.IsCloseInFlight
                  /\ t.IsCloseContinuationAbandoned = cooling.IsCloseContinuationAbandoned
                BY <3>1, <3>2 DEF Await, Quiet, Good, Base, Typed, Fields
            <4> HIDE DEF t
            <4>2. ~IsTimer(work) /\ work \in t.callbacks
                BY <3>7, <4>1 DEF IsTimer
            <4>3. Core(t)
                <5>1. CloseAwaited(t)
                    BY <4>1, <4>2 DEF CloseAwaited, work
                <5> QED BY <3>3, <4>1, <4>2, <5>1
                        DEF Core, Kept, Bounded, IsAutomatic, IsCurrentTimer
            <4>4. Calm(t)
                BY <3>3, <4>1 DEF Calm
            <4>5. Phase(t)
                BY <3>3, <4>1, <4>2
                DEF Phase, IsAutomatic, IsCurrentTimer, TimerFits, Replaces
            <4>6. Settled(pub, t)
                BY <3>3, <4>1 DEF Settled, Told
            <4> QED BY <4>1, <4>3, <4>4, <4>5, <4>6 DEF Sound
        <3>9. CompleteCloseBarrier(s, epoch, timedOut, p) =
                IF p.cooldownTimer THEN t ELSE CompleteCloseCooldown(cooling, epoch, p)
            BY <1>3, <2>2, Zenon DEF CompleteCloseBarrier, t, cooling, work, stale
        <3> QED BY <3>2, <3>5, <3>6, <3>8, <3>9
    <2> QED BY <2>1, <2>2
<1> QED BY <1>2, <1>3

-----------------------------------------------------------------------------
(* The callbacks of a connection.                                          *)

(* s holds the live connection of an operation that goes on.               *)
Live(s) ==
    /\ Quiet(s) /\ Core(s) /\ Calm(s) /\ ~s.IsShutdown /\ ~s.IsCloseInFlight /\ ~s.IsSuspended
    /\ s.Connection # NoConnection
    /\ IsAutomatic(s) => s.CompletedRetryAttempts < MaxAttempts
    /\ s.TransientOpenRetryAttempts < TransientOpenRetryMaxAttempts

LEMMA CurrentParts ==
    ASSUME NEW pub, NEW o, NEW c, NEW s, Takes(pub, o, c, s),
           c.kind \in {"Started", "Opened", "StateChanged"}
    PROVE  /\ IsCurrentConnection(s, c.epoch, c.address) => Live(s)
           /\ \/ ~IsCurrentConnection(s, c.epoch, c.address)
              \/ s.Lifecycle # "Connecting"
              \/ c.kind = "StateChanged"
              => Sound(pub, s)
           /\ c.epoch \in Nat /\ c.address \in Address
           /\ c.kind = "StateChanged" => c.state \in DeviceConnectionState
<1>1. /\ Quiet(s) /\ Calm(s) /\ Settled(pub, s) /\ Kept(s) /\ c \in Callback /\ Core(s)
      /\ ~AwaitedWork(s, c) => Sound(pub, s)
    BY TakesParts DEF AwaitedClose
<1>2. c.epoch \in Nat /\ c.address \in Address
      /\ (c.kind = "StateChanged" => c.state \in DeviceConnectionState)
    BY <1>1, CallbackMembers
<1>3. IsCurrentConnection(s, c.epoch, c.address) => Live(s)
    <2> SUFFICES ASSUME IsCurrentConnection(s, c.epoch, c.address) PROVE Live(s)
        OBVIOUS
    <2>1. s.Connection # NoConnection
        BY <1>2, CurrentIsLive
    <2>2. ~s.IsCloseInFlight
        BY <1>1, <2>1 DEF Quiet, Good, Base, Owned
    <2>3. ~s.IsSuspended /\ ~s.IsShutdown
        BY <1>1, <2>1 DEF Calm, IsCurrentConnection
    <2> QED BY <1>1, <2>1, <2>2, <2>3 DEF Live, Core, Bounded
<1>4. \/ ~IsCurrentConnection(s, c.epoch, c.address)
      \/ s.Lifecycle # "Connecting"
      \/ c.kind = "StateChanged"
      => ~AwaitedWork(s, c)
    <2>1. s.IsShutdown => s.Lifecycle = "Idle"
        BY DEF Takes, Sound, Phase, Quiet, Good, Base, Typed, Fields
    <2> QED BY <2>1 DEF AwaitedWork, IsCurrentConnection, IsCurrentTimer, IsTimer
<1> QED BY <1>1, <1>2, <1>3, <1>4

LEMMA LiveFailureSound ==
    ASSUME NEW s, Live(s), NEW result \in DeviceConnectionResult, NEW transient \in BOOLEAN,
           NEW p \in PlatformOutcome, NEW pub
    PROVE  LET t == CompleteFailure(s, result, transient, p) IN
           Sound(pub, t) /\ s.callbacks \subseteq t.callbacks
BY CompleteFailureSound DEF Live, Quiet, Good

(* A live session that settles tells it.                                   *)
LEMMA LiveSettlesSound ==
    ASSUME NEW s, Live(s), NEW reason \in DeviceDisconnectReason, NEW pub,
           NEW k, Typed(k), k.Lifecycle \in {"Idle", "Connected"},
           k.callbacks = s.callbacks,
           k.Connection = s.Connection, k.ClosingConnection = s.ClosingConnection,
           k.OperationEpoch = s.OperationEpoch, k.TimerEpoch = s.TimerEpoch,
           k.CloseBarrierEpoch = s.CloseBarrierEpoch,
           k.CompletedRetryAttempts \in {0, s.CompletedRetryAttempts},
           k.TransientOpenRetryAttempts = s.TransientOpenRetryAttempts,
           k.CurrentOperation = s.CurrentOperation, k.Pending = s.Pending,
           k.IsReconnectCancelled = s.IsReconnectCancelled,
           k.IsSuspended = s.IsSuspended, k.IsShutdown = s.IsShutdown,
           k.IsCloseInFlight = s.IsCloseInFlight, k.IsCloseCooldown = s.IsCloseCooldown,
           k.IsCloseContinuationAbandoned = s.IsCloseContinuationAbandoned
    PROVE  LET t == Publish(k, "Success", FALSE, reason) IN
           Sound(pub, t) /\ s.callbacks \subseteq t.callbacks
<1>1. Core(k)
    <2>1. CloseAwaited(k)
        BY DEF Live, Core, CloseAwaited
    <2>2. Bounded(k)
        BY Limits DEF Live, Core, Bounded, IsAutomatic
    <2> QED BY <2>1, <2>2 DEF Live, Core, IsCurrentTimer
<1>2. Calm(k)
    BY DEF Live, Calm
<1>3. Phase(k)
    BY DEF Live, Phase, Replaces
<1> QED BY <1>1, <1>2, <1>3, PublishSound, Parameters

LEMMA EstablishedSound ==
    ASSUME NEW s, Live(s), NEW pub
    PROVE  LET t == Established(s) IN Sound(pub, t) /\ s.callbacks \subseteq t.callbacks
<1> DEFINE k == [s EXCEPT !.Lifecycle = "Connected", !.CompletedRetryAttempts = 0,
                          !.RetryEligible = s.IsReconnectEnabled]
<1>1. /\ Typed(k) /\ k.Lifecycle = "Connected" /\ k.callbacks = s.callbacks
      /\ k.Connection = s.Connection /\ k.ClosingConnection = s.ClosingConnection
      /\ k.OperationEpoch = s.OperationEpoch /\ k.TimerEpoch = s.TimerEpoch
      /\ k.CloseBarrierEpoch = s.CloseBarrierEpoch
      /\ k.CompletedRetryAttempts = 0
      /\ k.TransientOpenRetryAttempts = s.TransientOpenRetryAttempts
      /\ k.CurrentOperation = s.CurrentOperation /\ k.Pending = s.Pending
      /\ k.IsReconnectCancelled = s.IsReconnectCancelled
      /\ k.IsSuspended = s.IsSuspended /\ k.IsShutdown = s.IsShutdown
      /\ k.IsCloseInFlight = s.IsCloseInFlight /\ k.IsCloseCooldown = s.IsCloseCooldown
      /\ k.IsCloseContinuationAbandoned = s.IsCloseContinuationAbandoned
    BY DEF Live, Quiet, Good, Base, Typed, Fields, DeviceLifecycleState
<1> HIDE DEF k
<1>2. LET t == Publish(k, "Success", FALSE, "None") IN
      Sound(pub, t) /\ s.callbacks \subseteq t.callbacks
    BY <1>1, LiveSettlesSound, Parameters
<1> QED BY <1>2 DEF Established, k

LEMMA LiveIdleSound ==
    ASSUME NEW s, Live(s), NEW eligible \in BOOLEAN, NEW reason \in DeviceDisconnectReason,
           NEW pub
    PROVE  LET k == [s EXCEPT !.Lifecycle = "Idle", !.RetryEligible = eligible]
               t == Publish(k, "Success", FALSE, reason) IN
           Sound(pub, t) /\ s.callbacks \subseteq t.callbacks
<1> DEFINE k == [s EXCEPT !.Lifecycle = "Idle", !.RetryEligible = eligible]
<1>1. /\ Typed(k) /\ k.Lifecycle = "Idle" /\ k.callbacks = s.callbacks
      /\ k.Connection = s.Connection /\ k.ClosingConnection = s.ClosingConnection
      /\ k.OperationEpoch = s.OperationEpoch /\ k.TimerEpoch = s.TimerEpoch
      /\ k.CloseBarrierEpoch = s.CloseBarrierEpoch
      /\ k.CompletedRetryAttempts = s.CompletedRetryAttempts
      /\ k.TransientOpenRetryAttempts = s.TransientOpenRetryAttempts
      /\ k.CurrentOperation = s.CurrentOperation /\ k.Pending = s.Pending
      /\ k.IsReconnectCancelled = s.IsReconnectCancelled
      /\ k.IsSuspended = s.IsSuspended /\ k.IsShutdown = s.IsShutdown
      /\ k.IsCloseInFlight = s.IsCloseInFlight /\ k.IsCloseCooldown = s.IsCloseCooldown
      /\ k.IsCloseContinuationAbandoned = s.IsCloseContinuationAbandoned
    BY DEF Live, Quiet, Good, Base, Typed, Fields, DeviceLifecycleState
<1> HIDE DEF k
<1>2. LET t == Publish(k, "Success", FALSE, reason) IN
      Sound(pub, t) /\ s.callbacks \subseteq t.callbacks
    BY <1>1, LiveSettlesSound
<1> QED BY <1>2 DEF k

LEMMA OnStartedSound ==
    ASSUME NEW pub, NEW o, NEW c, NEW s, Takes(pub, o, c, s), c.kind = "Started",
           NEW result \in DeviceConnectionResult, NEW p \in PlatformOutcome
    PROVE  LET t == OnStarted(s, c.epoch, c.address, result, p) IN
           Sound(pub, t) /\ s.callbacks \subseteq t.callbacks
<1> DEFINE current == IsCurrentConnection(s, c.epoch, c.address)
           k == [s EXCEPT !.Lifecycle = "Idle"]
           work == NativeWork("Opened", c.epoch, c.address)
           t == Await(s, work)
<1>1. /\ current => Live(s)
      /\ ~current \/ s.Lifecycle # "Connecting" => Sound(pub, s)
      /\ c.epoch \in Nat /\ c.address \in Address
    BY CurrentParts
<1>2. CASE ~current \/ s.Lifecycle = "Connected"
    BY <1>1, <1>2 DEF OnStarted
<1>3. CASE current /\ s.Lifecycle # "Connected"
    <2>1. Live(s) /\ s.OperationEpoch = c.epoch /\ s.Connection = c.address
        BY <1>1, <1>3 DEF IsCurrentConnection
    <2>2. LET v == CompleteFailure(s, result, FALSE, p) IN
          Sound(pub, v) /\ s.callbacks \subseteq v.callbacks
        BY <2>1, LiveFailureSound
    <2>3. LET v == CompleteFailure(s, "Failed", FALSE, p) IN
          Sound(pub, v) /\ s.callbacks \subseteq v.callbacks
        BY <2>1, LiveFailureSound, Parameters
    <2>4. LET v == Publish(k, "Success", FALSE, "None") IN
          Sound(pub, v) /\ s.callbacks \subseteq v.callbacks
        <3>1. /\ Typed(k) /\ k.Lifecycle = "Idle" /\ k.callbacks = s.callbacks
              /\ k.Connection = s.Connection /\ k.ClosingConnection = s.ClosingConnection
              /\ k.OperationEpoch = s.OperationEpoch /\ k.TimerEpoch = s.TimerEpoch
              /\ k.CloseBarrierEpoch = s.CloseBarrierEpoch
              /\ k.CompletedRetryAttempts = s.CompletedRetryAttempts
              /\ k.TransientOpenRetryAttempts = s.TransientOpenRetryAttempts
              /\ k.CurrentOperation = s.CurrentOperation /\ k.Pending = s.Pending
              /\ k.IsReconnectCancelled = s.IsReconnectCancelled
              /\ k.IsSuspended = s.IsSuspended /\ k.IsShutdown = s.IsShutdown
              /\ k.IsCloseInFlight = s.IsCloseInFlight
              /\ k.IsCloseCooldown = s.IsCloseCooldown
              /\ k.IsCloseContinuationAbandoned = s.IsCloseContinuationAbandoned
            BY <2>1 DEF Live, Quiet, Good, Base, Typed, Fields, DeviceLifecycleState
        <3> HIDE DEF k
        <3> QED BY <2>1, <3>1, LiveSettlesSound, Parameters
    <2>5. Sound(pub, t) /\ s.callbacks \subseteq t.callbacks
        <3>1. work \in Callback /\ work.kind = "Opened" /\ work.epoch = c.epoch
              /\ work.address = c.address /\ ~IsTimer(work)
            BY <1>1, NativeWorkType DEF NativeWork, IsTimer
        <3> HIDE DEF work
        <3>2. /\ t.callbacks = s.callbacks \cup {work} /\ t.facts = o.facts
              /\ s.callbacks = o.callbacks \ {c}
              /\ t.Connection = o.Connection /\ t.ClosingConnection = o.ClosingConnection
              /\ t.OperationEpoch = o.OperationEpoch /\ t.TimerEpoch = o.TimerEpoch
              /\ t.CloseBarrierEpoch = o.CloseBarrierEpoch
              /\ t.CompletedRetryAttempts = o.CompletedRetryAttempts
              /\ t.TransientOpenRetryAttempts = o.TransientOpenRetryAttempts
              /\ t.Lifecycle = o.Lifecycle /\ t.CurrentOperation = o.CurrentOperation
              /\ t.IsReconnectEnabled = o.IsReconnectEnabled
              /\ t.IsReconnectCancelled = o.IsReconnectCancelled
              /\ t.IsSuspended = o.IsSuspended /\ t.IsShutdown = o.IsShutdown
              /\ t.IsCloseInFlight = o.IsCloseInFlight
              /\ t.IsCloseCooldown = o.IsCloseCooldown
              /\ t.IsCloseContinuationAbandoned = o.IsCloseContinuationAbandoned
              /\ t.Pending = o.Pending
            BY DEF Takes, Await, Quiet, Good, Base, Typed, Fields
        <3>3. /\ s.Connection = o.Connection /\ s.OperationEpoch = o.OperationEpoch
              /\ s.IsSuspended = o.IsSuspended /\ s.IsShutdown = o.IsShutdown
              /\ s.IsCloseInFlight = o.IsCloseInFlight
            BY DEF Takes, Quiet, Good, Base, Typed, Fields
        <3> HIDE DEF t
        <3>4. Core(o) /\ Phase(o) /\ Settled(pub, o) /\ ~IsTimer(c) /\ Owned(o)
            BY DEF Takes, Sound, IsTimer, Quiet, Good, Base
        <3>5. ~t.IsShutdown /\ ~t.IsSuspended /\ ~t.IsCloseInFlight
            BY <2>1, <3>2, <3>3 DEF Live
        <3>6. Core(t)
            <4>1. CloseAwaited(t)
                BY <3>2, <3>4, <3>5 DEF CloseAwaited, Owned
            <4> QED BY <3>1, <3>2, <3>4, <4>1 DEF Core, Bounded, IsAutomatic, IsCurrentTimer
        <3>7. Calm(t)
            BY <3>5 DEF Calm
        <3>8. Phase(t)
            <4>1. t.Lifecycle = "WaitingForReconnect" =>
                    /\ \E d \in t.callbacks : /\ IsCurrentTimer(t, d) /\ d.epoch = t.OperationEpoch
                                              /\ d.kind = "RetryTimer" => t.IsReconnectEnabled
                    /\ \A d \in t.callbacks : IsCurrentTimer(t, d) => TimerFits(t, d)
                    /\ ~t.IsReconnectCancelled /\ ~t.IsSuspended
                BY <3>1, <3>2, <3>4 DEF Phase, IsCurrentTimer, TimerFits, IsAutomatic
            <4>2. t.Lifecycle = "Connecting" =>
                    /\ \E d \in t.callbacks : /\ d.kind \in {"Started", "Opened"}
                                              /\ d.epoch = t.OperationEpoch
                                              /\ d.address = t.Connection
                    /\ ~t.IsSuspended /\ ~(t.IsReconnectCancelled /\ IsAutomatic(t))
                BY <2>1, <3>1, <3>2, <3>3, <3>4 DEF Phase, IsAutomatic
            <4>3. t.Lifecycle = "Connected" => t.Connection # NoConnection
                BY <3>2, <3>4 DEF Phase
            <4> QED BY <3>5, <4>1, <4>2, <4>3 DEF Phase, Replaces
        <3>9. Settled(pub, t)
            BY <3>2, <3>4 DEF Settled, Told
        <3> QED BY <3>2, <3>6, <3>7, <3>8, <3>9 DEF Sound
    <2>6. OnStarted(s, c.epoch, c.address, result, p) \in
            {CompleteFailure(s, result, FALSE, p), CompleteFailure(s, "Failed", FALSE, p),
             Publish(k, "Success", FALSE, "None"), t}
        BY <1>3 DEF OnStarted
    <2> QED BY <2>2, <2>3, <2>4, <2>5, <2>6
<1> QED BY <1>2, <1>3

LEMMA OnOpenedSound ==
    ASSUME NEW pub, NEW o, NEW c, NEW s, Takes(pub, o, c, s), c.kind = "Opened",
           NEW openResult, openResult.Result \in DeviceConnectionResult,
           openResult.IsTransientFailure \in BOOLEAN, NEW p \in PlatformOutcome
    PROVE  LET t == OnOpened(s, c.epoch, c.address, openResult, p) IN
           Sound(pub, t) /\ s.callbacks \subseteq t.callbacks
<1> DEFINE current == IsCurrentConnection(s, c.epoch, c.address)
           failing == CompleteFailure(s, openResult.Result, openResult.IsTransientFailure, p)
<1>1. /\ current => Live(s)
      /\ ~current \/ s.Lifecycle # "Connecting" => Sound(pub, s)
    BY CurrentParts
<1>2. CASE ~current \/ s.Lifecycle = "Connected"
    BY <1>1, <1>2 DEF OnOpened
<1>3. CASE current /\ s.Lifecycle # "Connected"
    <2>1. Sound(pub, failing) /\ s.callbacks \subseteq failing.callbacks
        BY <1>1, <1>3, LiveFailureSound
    <2>2. Sound(pub, Established(s)) /\ s.callbacks \subseteq Established(s).callbacks
        BY <1>1, <1>3, EstablishedSound
    <2>3. OnOpened(s, c.epoch, c.address, openResult, p) \in {failing, Established(s)}
        BY <1>3 DEF OnOpened
    <2> QED BY <2>1, <2>2, <2>3
<1> QED BY <1>2, <1>3

LEMMA OnPostFailedSound ==
    ASSUME NEW pub, NEW o, NEW c, NEW s, Takes(pub, o, c, s),
           c.kind \in {"Started", "Opened", "StateChanged"}, NEW p \in PlatformOutcome
    PROVE  LET t == OnPostFailed(s, c.epoch, c.address, p) IN
           Sound(pub, t) /\ s.callbacks \subseteq t.callbacks
<1> DEFINE current == IsCurrentConnection(s, c.epoch, c.address)
<1>1. (current => Live(s)) /\ (~current => Sound(pub, s))
    BY CurrentParts
<1>2. CASE ~current
    BY <1>1, <1>2 DEF OnPostFailed
<1>3. CASE current
    BY <1>1, <1>3, LiveFailureSound, Parameters DEF OnPostFailed
<1> QED BY <1>2, <1>3

LEMMA OnListenerLostSound ==
    ASSUME NEW s, Live(s), NEW p \in PlatformOutcome, NEW pub
    PROVE  LET t == OnListenerLost(s, p) IN Sound(pub, t) /\ s.callbacks \subseteq t.callbacks
<1> DEFINE k == [s EXCEPT !.Lifecycle = "Idle", !.RetryEligible = FALSE]
           lost == ScheduleReconnect(s, "Failed", TRUE, FALSE, "UnexpectedLoss", p)
           idle == Publish(k, "Success", FALSE, "UnexpectedLoss")
<1>1. Sound(pub, lost) /\ s.callbacks \subseteq lost.callbacks
    BY ScheduleReconnectSound, Parameters DEF Live, Quiet, Good
<1>2. Sound(pub, idle) /\ s.callbacks \subseteq idle.callbacks
    <2>1. "UnexpectedLoss" \in DeviceDisconnectReason
        BY Parameters
    <2> QED BY <2>1, LiveIdleSound, Zenon
<1>3. OnListenerLost(s, p) \in {lost, idle}
    BY DEF OnListenerLost
<1> QED BY <1>1, <1>2, <1>3

LEMMA OnConnectionClosedSound ==
    ASSUME NEW s, Live(s), NEW isIncomingListener \in BOOLEAN, NEW p \in PlatformOutcome,
           NEW pub
    PROVE  LET t == OnConnectionClosed(s, isIncomingListener, p) IN
           Sound(pub, t) /\ s.callbacks \subseteq t.callbacks
<1> DEFINE dropped == [RevokeStateChanged(s) EXCEPT !.Connection = NoConnection,
                                                    !.OperationEpoch = @ + 1]
           k == [dropped EXCEPT !.Lifecycle = "Idle"]
           u == Publish(k, "Success", FALSE, "None")
           wasEstablished == s.Lifecycle = "Connected"
           isAutomatic == s.CurrentOperation = "AutomaticReconnect"
           reason == IF wasEstablished THEN "UnexpectedLoss" ELSE "None"
<1>1. /\ Good(dropped) /\ ~dropped.listenerDue /\ Idling(dropped)
      /\ dropped.callbacks = s.callbacks /\ ~dropped.IsShutdown /\ ~dropped.IsSuspended
      /\ dropped.ClosingConnection = s.ClosingConnection
      /\ dropped.CloseBarrierEpoch = s.CloseBarrierEpoch
      /\ dropped.TimerEpoch = s.TimerEpoch
      /\ dropped.CompletedRetryAttempts = s.CompletedRetryAttempts
      /\ dropped.TransientOpenRetryAttempts = s.TransientOpenRetryAttempts
      /\ dropped.CurrentOperation = s.CurrentOperation /\ dropped.Pending = s.Pending
      /\ dropped.IsReconnectCancelled = s.IsReconnectCancelled
      /\ dropped.IsCloseCooldown = s.IsCloseCooldown
      /\ dropped.IsCloseContinuationAbandoned = s.IsCloseContinuationAbandoned
    BY DEF Live, Quiet, Idling, Good, Base, Typed, Fields, Owned, TimersArePast, Due, Heard,
           Waits, RevokeStateChanged
<1> HIDE DEF dropped
<1>2. Core(dropped) /\ Calm(dropped)
    BY <1>1 DEF Live, Core, Calm, CloseAwaited, Bounded, IsAutomatic, IsCurrentTimer, Idling
<1>3. /\ Good(k) /\ ~k.listenerDue /\ Idling(k) /\ k.Lifecycle = "Idle"
      /\ k.callbacks = s.callbacks /\ Core(k) /\ Calm(k)
    BY <1>1, <1>2
    DEF Idling, Good, Base, Typed, Fields, Owned, TimersArePast, Due, Heard, Waits,
        DeviceLifecycleState, Core, Calm, CloseAwaited, Bounded, IsAutomatic, IsCurrentTimer
<1> HIDE DEF k
<1>4. Good(u) /\ ~u.listenerDue /\ Sound(pub, u) /\ u.callbacks = s.callbacks
    <2>1. "Success" \in DeviceConnectionResult /\ "None" \in DeviceDisconnectReason
        BY Parameters
    <2> QED BY <1>3, <2>1, PublishGood, IdleSound DEF Good, Base
<1> HIDE DEF u
<1>5. LET t == StartListener(u, p) IN Sound(pub, t) /\ s.callbacks \subseteq t.callbacks
    BY <1>4, StartListenerSound
<1>6. isAutomatic \in BOOLEAN /\ reason \in DeviceDisconnectReason /\ s.RetryEligible \in BOOLEAN
    BY Parameters DEF Live, Quiet, Good, Base, Typed
<1>7. isAutomatic => /\ dropped.Connection = NoConnection
                     /\ dropped.CompletedRetryAttempts < MaxAttempts
    BY <1>1 DEF Live, IsAutomatic, Idling
<1> HIDE DEF isAutomatic, reason
<1>8. LET t == ScheduleReconnect(dropped, "Failed", s.RetryEligible, isAutomatic, reason, p)
      IN  Sound(pub, t) /\ s.callbacks \subseteq t.callbacks
    BY <1>1, <1>2, <1>6, <1>7, Parameters, ScheduleReconnectSound DEF Idling, Good
<1>9. OnConnectionClosed(s, isIncomingListener, p) \in
        {StartListener(u, p),
         ScheduleReconnect(dropped, "Failed", s.RetryEligible, isAutomatic, reason, p)}
    BY DEF OnConnectionClosed, u, k, dropped, isAutomatic, reason
<1> QED BY <1>5, <1>8, <1>9

LEMMA CancelTimerLive ==
    ASSUME NEW s, Live(s)
    PROVE  Live(CancelTimer(s)) /\ CancelTimer(s).callbacks = s.callbacks
<1> DEFINE u == CancelTimer(s)
<1>0. Quiet(s) /\ Base(s) /\ Core(s)
    BY DEF Live, Quiet, Good
<1>1. Quiet(u)
    BY <1>0, CancelTimerBase DEF Quiet, Good
<1>2. /\ Advanced(s, u) /\ u.IsSuspended = s.IsSuspended
      /\ u.CompletedRetryAttempts = s.CompletedRetryAttempts
      /\ u.TransientOpenRetryAttempts = s.TransientOpenRetryAttempts
      /\ u.CurrentOperation = s.CurrentOperation
    BY <1>0 DEF CancelTimer, Base, Typed, Fields, Advanced, IsAutomatic
<1> HIDE DEF u
<1>3. Core(u)
    BY <1>0, <1>2, AdvancedCore
<1> QED BY <1>1, <1>2, <1>3 DEF Live, Calm, Advanced, IsAutomatic, u

LEMMA OnStateChangedSound ==
    ASSUME NEW pub, NEW o, NEW c, NEW s, Takes(pub, o, c, s), c.kind = "StateChanged",
           NEW p \in PlatformOutcome
    PROVE  LET t == OnStateChanged(s, c.epoch, c.address, c.state, p) IN
           Sound(pub, t) /\ s.callbacks \subseteq t.callbacks
<1> DEFINE current == IsCurrentConnection(s, c.epoch, c.address)
           isIncomingListener == ~s.OpenImmediately /\ s.IsIncomingEnabled
           done(t) == Sound(pub, t) /\ s.callbacks \subseteq t.callbacks
<1>1. (current => Live(s)) /\ Sound(pub, s) /\ c.state \in {"Opened", "Closed"}
    BY CurrentParts DEF DeviceConnectionState
<1>2. CASE ~current
    BY <1>1, <1>2 DEF OnStateChanged
<1>3. CASE current
    <2>1. done(Established(CancelTimer(s)))
        <3>1. Live(CancelTimer(s)) /\ CancelTimer(s).callbacks = s.callbacks
            BY <1>1, <1>3, CancelTimerLive
        <3> QED BY <3>1, EstablishedSound
    <2>2. done(OnListenerLost(s, p))
        BY <1>1, <1>3, OnListenerLostSound
    <2>0. isIncomingListener \in BOOLEAN
        OBVIOUS
    <2> HIDE DEF isIncomingListener
    <2>3. done(OnConnectionClosed(s, isIncomingListener, p))
        BY <1>1, <1>3, <2>0, OnConnectionClosedSound
    <2>4. done(s)
        BY <1>1
    <2> HIDE DEF done
    <2>5. CASE c.state = "Opened"
        <3>1. OnStateChanged(s, c.epoch, c.address, c.state, p) = Established(CancelTimer(s))
            BY <1>3, <2>5 DEF OnStateChanged
        <3>2. done(OnStateChanged(s, c.epoch, c.address, c.state, p))
            BY <2>1, <3>1
        <3> QED BY <3>2 DEF done
    <2>6. CASE c.state = "Closed"
        <3>1. OnStateChanged(s, c.epoch, c.address, c.state, p) \in
                {s, OnListenerLost(s, p), OnConnectionClosed(s, isIncomingListener, p)}
            BY <1>3, <2>6 DEF OnStateChanged, isIncomingListener
        <3>2. done(OnStateChanged(s, c.epoch, c.address, c.state, p))
            BY <2>2, <2>3, <2>4, <3>1
        <3> QED BY <3>2 DEF done
    <2> QED BY <1>1, <2>5, <2>6
<1> QED BY <1>2, <1>3

-----------------------------------------------------------------------------
(* The retry timers.                                                       *)

LEMMA TimerParts ==
    ASSUME NEW pub, NEW o, NEW c, NEW s, Takes(pub, o, c, s), IsTimer(c)
    PROVE  /\ Quiet(s) /\ Core(s) /\ Calm(s)
           /\ ~TimerIsCurrent(s, c.timerEpoch, c.epoch) => Sound(pub, s)
           /\ TimerIsCurrent(s, c.timerEpoch, c.epoch) =>
                /\ TimerFits(s, c) /\ ~s.IsReconnectCancelled
                /\ ~s.IsShutdown /\ ~s.IsSuspended /\ ~s.IsCloseInFlight
                /\ c.kind = "TransientOpenRetryTimer" => s.Connection = NoConnection
<1>1. /\ Quiet(s) /\ Core(s) /\ Calm(s)
      /\ ~AwaitedWork(s, c) => Sound(pub, s)
    BY TakesParts DEF AwaitedClose, IsTimer
<1>2. /\ s.Lifecycle = o.Lifecycle /\ s.TimerEpoch = o.TimerEpoch
      /\ s.OperationEpoch = o.OperationEpoch /\ s.IsSuspended = o.IsSuspended
      /\ s.IsShutdown = o.IsShutdown /\ s.IsReconnectCancelled = o.IsReconnectCancelled
      /\ s.IsCloseInFlight = o.IsCloseInFlight /\ s.Connection = o.Connection
      /\ s.CompletedRetryAttempts = o.CompletedRetryAttempts
      /\ s.TransientOpenRetryAttempts = o.TransientOpenRetryAttempts
      /\ s.CurrentOperation = o.CurrentOperation
    BY DEF Takes, Quiet, Good, Base, Typed, Fields
<1>3. Phase(o) /\ Waits(o) /\ c \in o.callbacks
    BY DEF Takes, Sound, Quiet, Good
<1>4. ~TimerIsCurrent(s, c.timerEpoch, c.epoch) => ~AwaitedWork(s, c)
    BY <1>2, <1>3 DEF TimerIsCurrent, AwaitedWork, IsCurrentTimer, IsTimer, Phase
<1>5. TimerIsCurrent(s, c.timerEpoch, c.epoch) =>
        /\ TimerFits(s, c) /\ ~s.IsReconnectCancelled
        /\ ~s.IsShutdown /\ ~s.IsSuspended /\ ~s.IsCloseInFlight
        /\ c.kind = "TransientOpenRetryTimer" => s.Connection = NoConnection
    BY <1>2, <1>3 DEF TimerIsCurrent, IsCurrentTimer, Phase, Waits, TimerFits, IsAutomatic
<1> QED BY <1>1, <1>4, <1>5

LEMMA OnRetryTimerSound ==
    ASSUME NEW pub, NEW o, NEW c, NEW s, Takes(pub, o, c, s), c.kind = "RetryTimer",
           NEW p \in PlatformOutcome
    PROVE  LET t == OnRetryTimer(s, c.timerEpoch, c.epoch, p) IN
           Sound(pub, t) /\ s.callbacks \subseteq t.callbacks
<1> DEFINE current == TimerIsCurrent(s, c.timerEpoch, c.epoch)
<1>1. /\ Quiet(s) /\ Core(s) /\ Calm(s) /\ (~current => Sound(pub, s))
      /\ current => /\ TimerFits(s, c) /\ ~s.IsReconnectCancelled
                    /\ ~s.IsShutdown /\ ~s.IsSuspended /\ ~s.IsCloseInFlight
    BY TimerParts DEF IsTimer
<1>2. CASE ~current
    BY <1>1, <1>2 DEF OnRetryTimer
<1>3. CASE current
    <2>1. /\ Good(s) /\ ~s.listenerDue /\ s.Lifecycle = "WaitingForReconnect"
          /\ s.CompletedRetryAttempts < MaxAttempts /\ s.OpenImmediately \in BOOLEAN
        BY <1>1, <1>3 DEF Quiet, Good, Base, Typed, TimerIsCurrent, TimerFits
    <2>2. LET t == StartConnection(s, "AutomaticReconnect", s.OpenImmediately, p) IN
          Sound(pub, t) /\ s.callbacks \subseteq t.callbacks
        BY <1>1, <1>3, <2>1, StartConnectionBegins, Parameters
    <2> QED BY <1>3, <2>2 DEF OnRetryTimer
<1> QED BY <1>2, <1>3

LEMMA OnTransientOpenRetryTimerSound ==
    ASSUME NEW pub, NEW o, NEW c, NEW s, Takes(pub, o, c, s),
           c.kind = "TransientOpenRetryTimer", NEW p \in PlatformOutcome
    PROVE  LET t == OnTransientOpenRetryTimer(s, c.timerEpoch, c.epoch, p) IN
           Sound(pub, t) /\ s.callbacks \subseteq t.callbacks
<1> DEFINE current == TimerIsCurrent(s, c.timerEpoch, c.epoch)
<1>1. /\ Quiet(s) /\ Core(s) /\ Calm(s) /\ (~current => Sound(pub, s))
      /\ current => /\ TimerFits(s, c) /\ ~s.IsReconnectCancelled
                    /\ ~s.IsShutdown /\ ~s.IsSuspended /\ ~s.IsCloseInFlight
                    /\ s.Connection = NoConnection
    BY TimerParts DEF IsTimer
<1>2. CASE ~current
    BY <1>1, <1>2 DEF OnTransientOpenRetryTimer
<1>3. CASE current
    <2>1. /\ s.TransientOpenRetryAttempts < TransientOpenRetryMaxAttempts
          /\ IsAutomatic(s) => s.CompletedRetryAttempts < MaxAttempts /\ ~s.IsReconnectCancelled
        BY <1>1, <1>3, Limits DEF TimerFits
    <2>2. LET t == BeginCreate(s, p) IN Sound(pub, t) /\ s.callbacks \subseteq t.callbacks
        BY <1>1, <1>3, <2>1, BeginCreateSound DEF Quiet, Good
    <2> QED BY <1>3, <2>2 DEF OnTransientOpenRetryTimer
<1> QED BY <1>2, <1>3

-----------------------------------------------------------------------------
(* The public operations.                                                  *)

(* What stays true of an operation's state when it publishes or revokes.   *)
LEMMA AdvancedSame ==
    ASSUME NEW s, NEW u, Advanced(s, u), NEW v, Same(u, v), Typed(v)
    PROVE  Advanced(s, v)
BY DEF Advanced, Same, IsAutomatic

(* A call that closes what the session owns.                               *)
LEMMA CallCloseSound ==
    ASSUME NEW s, Quiet(s), NEW pub, Sound(pub, s), ~Idling(s), ~s.IsShutdown,
           NEW u, Moved(s, u), Advanced(s, u), u.Lifecycle = "Disconnecting",
           NEW continuation \in CloseContinuation, NEW failure \in DeviceConnectionResult,
           NEW shouldRetry \in BOOLEAN, NEW reason \in DeviceDisconnectReason,
           NEW p \in PlatformOutcome,
           continuation = "Replace" => ~(u.IsReconnectCancelled /\ IsAutomatic(u)),
           continuation = "Suspend" => u.SuspendCloseEpoch = u.OperationEpoch
    PROVE  LET t == BeginClose(u, continuation, failure, shouldRetry, FALSE, reason, p) IN
           Sound(pub, t) /\ s.callbacks \subseteq t.callbacks
<1>1. Base(u)
    BY MovedKeeps DEF Quiet
<1>2. Core(u)
    BY AdvancedCore DEF Quiet, Good, Sound
<1>3. /\ u.Connection # NoConnection \/ u.IsCloseInFlight
      /\ ~u.IsShutdown /\ u.callbacks = s.callbacks
    BY DEF Idling, Advanced
<1>4. LET t == BeginClose(u, continuation, failure, shouldRetry, FALSE, reason, p) IN
      Sound(pub, t) /\ u.callbacks \subseteq t.callbacks
    BY <1>1, <1>2, <1>3, BeginCloseSound
<1> QED BY <1>3, <1>4

LEMMA RevokeAdvanced ==
    ASSUME NEW s, NEW u, Moved(s, u), Advanced(s, u)
    PROVE  LET v == RevokeStateChanged(u) IN Moved(s, v) /\ Advanced(s, v) /\ Same(u, v)
<1>1. Moved(s, RevokeStateChanged(u))
    BY RevokeMoved
<1>2. Same(u, RevokeStateChanged(u)) /\ Typed(RevokeStateChanged(u))
    BY RevokeSame DEF Advanced
<1> QED BY <1>1, <1>2, AdvancedSame

LEMMA PublishAdvanced ==
    ASSUME NEW s, NEW u, Moved(s, u), Advanced(s, u),
           NEW result \in DeviceConnectionResult, NEW reason \in DeviceDisconnectReason
    PROVE  LET v == Publish(u, result, FALSE, reason) IN
           Moved(s, v) /\ Advanced(s, v) /\ Same(u, v)
<1>1. Moved(s, Publish(u, result, FALSE, reason))
    BY PublishMoved
<1>2. Same(u, Publish(u, result, FALSE, reason)) /\ Typed(Publish(u, result, FALSE, reason))
    BY PublishTells DEF Advanced
<1> QED BY <1>1, <1>2, AdvancedSame

(* A call that leaves a session idle which owns nothing.                   *)
LEMMA CallIdleSound ==
    ASSUME NEW s, Quiet(s), NEW pub, Sound(pub, s), Idling(s),
           NEW u, Moved(s, u), Advanced(s, u), u.Lifecycle = "Idle",
           NEW result \in DeviceConnectionResult, NEW reason \in DeviceDisconnectReason
    PROVE  LET t == Publish(u, result, FALSE, reason) IN
           Sound(pub, t) /\ t.callbacks = s.callbacks /\ Good(t) /\ ~t.listenerDue
<1>1. Good(u) /\ Idling(u) /\ ~u.listenerDue /\ u.callbacks = s.callbacks
    BY MovedKeeps DEF Quiet, Moved
<1>2. Core(u) /\ Calm(u)
    BY <1>1, AdvancedCore DEF Quiet, Good, Sound, Calm, Idling
<1> QED BY <1>1, <1>2, IdleSound, PublishGood DEF Good, Base

LEMMA HandleDeviceRemovedSound ==
    ASSUME NEW s, Quiet(s), NEW pub, Sound(pub, s), NEW p \in PlatformOutcome
    PROVE  LET t == HandleDeviceRemoved(s, p) IN
           Sound(pub, t) /\ s.callbacks \subseteq t.callbacks
<1> DEFINE settled == [CancelTimer(s) EXCEPT !.RestoreIncomingAfterClose = FALSE]
           removed == [settled EXCEPT !.OperationEpoch = @ + 1]
           k == [removed EXCEPT !.Lifecycle = "Disconnecting"]
           closing == RevokeStateChanged(k)
           quietly == Publish(closing, "Success", FALSE, "None")
           loudly == Publish(closing, "Failed", FALSE, "DeviceRemoved")
           done(t) == Sound(pub, t) /\ s.callbacks \subseteq t.callbacks
<1>0. s.RetryEligible \in BOOLEAN /\ done(s)
    BY DEF Quiet, Good, Base, Typed
<1>1. /\ Moved(s, settled) /\ Moved(s, removed) /\ Moved(s, k) /\ k.Lifecycle = "Disconnecting"
      /\ Advanced(s, settled) /\ Advanced(s, removed) /\ Advanced(s, k)
      /\ settled.Lifecycle = s.Lifecycle /\ removed.Lifecycle = s.Lifecycle
    BY DEF CancelTimer, Moved, Advanced, IsAutomatic, Quiet, Good, Base, Typed, Fields,
           DeviceLifecycleState
<1> HIDE DEF settled, removed, k
<1>2. Moved(s, closing) /\ Advanced(s, closing) /\ closing.Lifecycle = "Disconnecting"
    BY <1>1, RevokeAdvanced DEF Same
<1> HIDE DEF closing
<1>3. /\ Moved(s, quietly) /\ Advanced(s, quietly) /\ quietly.Lifecycle = "Disconnecting"
      /\ Moved(s, loudly) /\ Advanced(s, loudly) /\ loudly.Lifecycle = "Disconnecting"
    <2>1. /\ "Success" \in DeviceConnectionResult /\ "Failed" \in DeviceConnectionResult
          /\ "None" \in DeviceDisconnectReason /\ "DeviceRemoved" \in DeviceDisconnectReason
        BY Parameters
    <2>2. Moved(s, quietly) /\ Advanced(s, quietly) /\ Same(closing, quietly)
        BY <1>2, <2>1, PublishAdvanced, Zenon
    <2>3. Moved(s, loudly) /\ Advanced(s, loudly) /\ Same(closing, loudly)
        BY <1>2, <2>1, PublishAdvanced, Zenon
    <2> HIDE DEF quietly, loudly
    <2> QED BY <1>2, <2>2, <2>3 DEF Same
<1> HIDE DEF quietly, loudly
<1>4. CASE s.IsShutdown
    BY <1>0, <1>4 DEF HandleDeviceRemoved
<1>5. CASE Idling(s) /\ ~s.IsShutdown
    <2>1. ASSUME s.Lifecycle = "Idle" PROVE done(Publish(settled, "Success", FALSE, "None"))
        <3>1. settled.Lifecycle = "Idle"
            BY <1>1, <2>1
        <3>2. "Success" \in DeviceConnectionResult /\ "None" \in DeviceDisconnectReason
            BY Parameters
        <3>3. LET t == Publish(settled, "Success", FALSE, "None") IN
              Sound(pub, t) /\ t.callbacks = s.callbacks
            BY <1>1, <1>5, <3>1, <3>2, CallIdleSound, Zenon
        <3> QED BY <3>3
    <2>2. done(ScheduleReconnect(removed, "Failed", s.RetryEligible, FALSE, "DeviceRemoved", p))
        <3>1. Base(removed) /\ Idling(removed) /\ ~removed.IsShutdown
              /\ removed.callbacks = s.callbacks
            BY <1>1, <1>5, MovedKeeps DEF Quiet, Advanced
        <3>2. Core(removed)
            BY <1>1, AdvancedCore DEF Quiet, Good, Sound
        <3>3. Calm(removed)
            BY <3>1 DEF Calm, Idling
        <3> QED BY <1>0, <3>1, <3>2, <3>3, ScheduleReconnectSound, Parameters DEF Idling
    <2> HIDE DEF done
    <2>3. \/ HandleDeviceRemoved(s, p) =
                ScheduleReconnect(removed, "Failed", s.RetryEligible, FALSE, "DeviceRemoved", p)
          \/ /\ s.Lifecycle = "Idle"
             /\ HandleDeviceRemoved(s, p) = Publish(settled, "Success", FALSE, "None")
        BY <1>5 DEF HandleDeviceRemoved, removed, settled, Idling
    <2>4. done(HandleDeviceRemoved(s, p))
        BY <2>1, <2>2, <2>3
    <2> QED BY <2>4 DEF done
<1>6. CASE ~Idling(s) /\ ~s.IsShutdown
    <2>1. done(BeginClose(quietly, "Idle", "Success", FALSE, FALSE, "None", p))
        BY <1>3, <1>6, CallCloseSound, Parameters
    <2>2. done(BeginClose(loudly, "Retry", "Failed", s.RetryEligible, FALSE,
                          "DeviceRemoved", p))
        BY <1>0, <1>3, <1>6, CallCloseSound, Parameters
    <2>3. HandleDeviceRemoved(s, p) \in
            {BeginClose(quietly, "Idle", "Success", FALSE, FALSE, "None", p),
             BeginClose(loudly, "Retry", "Failed", s.RetryEligible, FALSE, "DeviceRemoved", p)}
        BY <1>6 DEF HandleDeviceRemoved, quietly, loudly, closing, k, removed, settled, Idling
    <2> QED BY <2>1, <2>2, <2>3
<1> QED BY <1>4, <1>5, <1>6

(* Whatever a call changes besides, no longer being suspended keeps what   *)
(* was promised.                                                           *)
LEMMA UnsuspendedSound ==
    ASSUME NEW s, NEW pub, Sound(pub, s),
           NEW u, ~u.IsSuspended, u.facts = s.facts, u.callbacks = s.callbacks,
           u.Connection = s.Connection, u.ClosingConnection = s.ClosingConnection,
           u.OperationEpoch = s.OperationEpoch, u.TimerEpoch = s.TimerEpoch,
           u.CloseBarrierEpoch = s.CloseBarrierEpoch,
           u.CompletedRetryAttempts = s.CompletedRetryAttempts,
           u.TransientOpenRetryAttempts = s.TransientOpenRetryAttempts,
           u.Lifecycle = s.Lifecycle, u.CurrentOperation = s.CurrentOperation,
           u.IsReconnectEnabled = s.IsReconnectEnabled,
           u.IsReconnectCancelled = s.IsReconnectCancelled, u.IsShutdown = s.IsShutdown,
           u.IsCloseInFlight = s.IsCloseInFlight, u.IsCloseCooldown = s.IsCloseCooldown,
           u.IsCloseContinuationAbandoned = s.IsCloseContinuationAbandoned,
           u.Pending = s.Pending
    PROVE  Sound(pub, u)
<1>1. Core(u)
    BY DEF Sound, Core, CloseAwaited, Bounded, IsAutomatic, IsCurrentTimer
<1>2. Calm(u)
    BY DEF Calm
<1>3. Phase(u)
    BY DEF Sound, Phase, IsAutomatic, IsCurrentTimer, TimerFits, Replaces
<1>4. Settled(pub, u)
    BY DEF Sound, Settled, Told
<1> QED BY <1>1, <1>2, <1>3, <1>4 DEF Sound

LEMMA ConnectSound ==
    ASSUME NEW s, Quiet(s), NEW pub, Sound(pub, s), NEW operation \in DeviceOperationKind,
           operation # "AutomaticReconnect",
           NEW openImmediately \in BOOLEAN, NEW p \in PlatformOutcome
    PROVE  LET t == Connect(s, operation, openImmediately, p) IN
           Sound(pub, t) /\ s.callbacks \subseteq t.callbacks
<1> DEFINE released == [s EXCEPT !.IsSuspended = FALSE, !.ResumeRequired = FALSE,
                                 !.ResumeRequested = FALSE, !.IsSuspendClosePending = FALSE]
           restores == s.IsIncomingEnabled /\ ~openImmediately
           started == [CancelTimer(released) EXCEPT
                        !.IsReconnectCancelled = FALSE, !.CompletedRetryAttempts = 0,
                        !.TransientOpenRetryAttempts = 0, !.CurrentOperation = operation,
                        !.RetryEligible = FALSE, !.OpenImmediately = openImmediately,
                        !.OperationEpoch = @ + 1]
           replacing == [started EXCEPT !.Lifecycle = "Disconnecting",
                                        !.RestoreIncomingAfterClose = restores]
           u == Publish(replacing, "Success", FALSE, "None")
           closed == BeginClose(u, "Replace", "Success", FALSE, FALSE, "None", p)
           superseding == SupersedePowerTransitionRecovery(s, operation, openImmediately, p)
           done(t) == Sound(pub, t) /\ s.callbacks \subseteq t.callbacks
<1>1. Quiet(released)
    BY DEF Quiet, Good, Base, Typed, Fields, Owned, TimersArePast, Due, Heard, Waits
<1>2. /\ ~released.IsSuspended /\ released.facts = s.facts /\ released.callbacks = s.callbacks
      /\ released.Connection = s.Connection
      /\ released.ClosingConnection = s.ClosingConnection
      /\ released.OperationEpoch = s.OperationEpoch /\ released.TimerEpoch = s.TimerEpoch
      /\ released.CloseBarrierEpoch = s.CloseBarrierEpoch
      /\ released.CompletedRetryAttempts = s.CompletedRetryAttempts
      /\ released.TransientOpenRetryAttempts = s.TransientOpenRetryAttempts
      /\ released.Lifecycle = s.Lifecycle /\ released.CurrentOperation = s.CurrentOperation
      /\ released.IsReconnectEnabled = s.IsReconnectEnabled
      /\ released.IsReconnectCancelled = s.IsReconnectCancelled
      /\ released.IsShutdown = s.IsShutdown
      /\ released.IsCloseInFlight = s.IsCloseInFlight
      /\ released.IsCloseCooldown = s.IsCloseCooldown
      /\ released.IsCloseContinuationAbandoned = s.IsCloseContinuationAbandoned
      /\ released.Pending = s.Pending
    BY DEF Quiet, Good, Base, Typed, Fields
<1>3. restores \in BOOLEAN
    OBVIOUS
<1> HIDE DEF released, restores
<1>4. Sound(pub, released)
    BY <1>2, UnsuspendedSound
<1>5. /\ Moved(released, replacing) /\ Advanced(released, replacing)
      /\ replacing.Lifecycle = "Disconnecting" /\ ~replacing.IsReconnectCancelled
    <2>1. Moved(released, started)
        <3>1. Typed(released) /\ ~released.listenerDue
            BY <1>1 DEF Quiet, Good, Base
        <3> QED BY <3>1, SupersedingMoved, Zenon
    <2>2. /\ started.TimerEpoch = released.TimerEpoch + 1
          /\ started.CloseBarrierEpoch = released.CloseBarrierEpoch
          /\ started.IsCloseContinuationAbandoned = released.IsCloseContinuationAbandoned
          /\ started.Pending = released.Pending /\ started.IsShutdown = released.IsShutdown
          /\ started.CompletedRetryAttempts = 0 /\ started.TransientOpenRetryAttempts = 0
          /\ started.CurrentOperation = operation /\ ~started.IsReconnectCancelled
        BY <1>1 DEF Quiet, Good, Base, Typed, Fields, CancelTimer
    <2> HIDE DEF started
    <2>3. Typed(replacing)
        BY <2>1, <1>3 DEF Moved, Typed, Fields, DeviceLifecycleState
    <2>4. /\ Moved(released, replacing) /\ replacing.Lifecycle = "Disconnecting"
          /\ ~replacing.IsReconnectCancelled
        BY <2>1, <2>2, <2>3 DEF Moved, Typed, Fields
    <2>5. released.CompletedRetryAttempts \in Nat /\ released.TransientOpenRetryAttempts \in Nat
        BY <1>1 DEF Quiet, Good, Base, Typed
    <2>6. /\ replacing.TimerEpoch = released.TimerEpoch + 1
          /\ replacing.CloseBarrierEpoch = released.CloseBarrierEpoch
          /\ replacing.IsCloseContinuationAbandoned = released.IsCloseContinuationAbandoned
          /\ replacing.Pending = released.Pending /\ replacing.IsShutdown = released.IsShutdown
          /\ replacing.CompletedRetryAttempts = 0 /\ replacing.TransientOpenRetryAttempts = 0
          /\ replacing.CurrentOperation = operation
        BY <2>1, <2>2 DEF Moved, Typed, Fields
    <2> HIDE DEF replacing
    <2>7. Advanced(released, replacing)
        BY <2>3, <2>4, <2>5, <2>6 DEF Advanced, Moved, IsAutomatic
    <2> QED BY <2>4, <2>7
<1> HIDE DEF replacing
<1>6. Moved(released, u) /\ Advanced(released, u) /\ Same(replacing, u)
    <2>1. "Success" \in DeviceConnectionResult /\ "None" \in DeviceDisconnectReason
        BY Parameters
    <2> QED BY <1>5, <2>1, PublishAdvanced, Zenon
<1> HIDE DEF u
<1>7. done(StartConnection(released, operation, openImmediately, p))
    BY <1>1, <1>2, <1>4, StartConnectionSound DEF Quiet
<1>8. done(StartConnection(s, operation, openImmediately, p))
    BY StartConnectionSound DEF Quiet
<1>9. s.IsCloseInFlight /\ ~s.IsShutdown => done(closed)
    <2> SUFFICES ASSUME s.IsCloseInFlight, ~s.IsShutdown PROVE done(closed)
        OBVIOUS
    <2>1. ~Idling(released) /\ ~released.IsShutdown
        BY <1>2 DEF Idling
    <2>2. u.Lifecycle = "Disconnecting" /\ ~u.IsReconnectCancelled
        BY <1>5, <1>6 DEF Same
    <2>3. Sound(pub, closed) /\ released.callbacks \subseteq closed.callbacks
        BY <1>1, <1>4, <1>6, <2>1, <2>2, CallCloseSound, Parameters
    <2> QED BY <1>2, <2>3
<1>10. done(released) /\ done(s)
    BY <1>2, <1>4
<1> HIDE DEF done
<1>11. superseding = IF ~s.IsCloseInFlight
                     THEN StartConnection(released, operation, openImmediately, p)
                     ELSE IF s.IsCloseContinuationAbandoned THEN released ELSE closed
    BY DEF SupersedePowerTransitionRecovery, u, replacing, started, restores, released
<1>12. ~s.IsShutdown => done(superseding)
    BY <1>7, <1>9, <1>10, <1>11
<1>13. Connect(s, operation, openImmediately, p) \in
        {s, StartConnection(s, operation, openImmediately, p)}
        \cup (IF s.IsShutdown THEN {} ELSE {superseding})
    BY DEF Connect
<1>14. done(Connect(s, operation, openImmediately, p))
    BY <1>8, <1>10, <1>12, <1>13
<1> QED BY <1>14 DEF done

LEMMA DisconnectSound ==
    ASSUME NEW s, Quiet(s), NEW pub, Sound(pub, s), NEW restoreIncoming \in BOOLEAN,
           NEW p \in PlatformOutcome
    PROVE  LET t == Disconnect(s, restoreIncoming, p) IN
           Sound(pub, t) /\ s.callbacks \subseteq t.callbacks
<1> DEFINE cancelled == [CancelTimer(s) EXCEPT
                            !.IsReconnectCancelled = TRUE, !.RetryEligible = FALSE,
                            !.OperationEpoch = @ + 1,
                            !.RestoreIncomingAfterClose = restoreIncoming]
           i == [cancelled EXCEPT !.Lifecycle = "Idle"]
           idle == Publish(i, "Success", FALSE, "Normal")
           k == [cancelled EXCEPT !.Lifecycle = "Disconnecting"]
           closing == RevokeStateChanged(k)
           u == Publish(closing, "Success", FALSE, "Normal")
           v == [idle EXCEPT !.RestoreIncomingAfterClose = FALSE]
           closed == BeginClose(u, "Idle", "Success", FALSE, FALSE, "None", p)
           done(t) == Sound(pub, t) /\ s.callbacks \subseteq t.callbacks
<1>0. "Success" \in DeviceConnectionResult /\ "Normal" \in DeviceDisconnectReason
    BY Parameters
<1>1. /\ Moved(s, i) /\ Moved(s, k) /\ k.Lifecycle = "Disconnecting" /\ i.Lifecycle = "Idle"
      /\ Advanced(s, i) /\ Advanced(s, k)
    BY DEF CancelTimer, Moved, Advanced, IsAutomatic, Quiet, Good, Base, Typed, Fields,
           DeviceLifecycleState
<1> HIDE DEF i, k
<1>2. Moved(s, closing) /\ Advanced(s, closing) /\ closing.Lifecycle = "Disconnecting"
    BY <1>1, RevokeAdvanced DEF Same
<1> HIDE DEF closing
<1>3. Moved(s, u) /\ Advanced(s, u) /\ u.Lifecycle = "Disconnecting"
    <2>1. Moved(s, u) /\ Advanced(s, u) /\ Same(closing, u)
        BY <1>0, <1>2, PublishAdvanced, Zenon
    <2> HIDE DEF u
    <2> QED BY <1>2, <2>1 DEF Same
<1> HIDE DEF u
<1>4. CASE ~DisconnectIsTaken(s)
    BY <1>4 DEF Disconnect
<1>5. CASE DisconnectIsTaken(s) /\ Idling(s)
    <2>1. /\ Sound(pub, idle) /\ idle.callbacks = s.callbacks /\ Good(idle)
          /\ ~idle.listenerDue
        BY <1>0, <1>1, <1>5, CallIdleSound, Zenon
    <2> HIDE DEF idle
    <2>2. Good(v) /\ ~v.listenerDue /\ Same(idle, v) /\ v.facts = idle.facts
        BY <2>1 DEF Good, Base, Typed, Fields, Owned, TimersArePast, Due, Heard, Waits, Same
    <2> HIDE DEF v
    <2>3. Sound(pub, v) /\ v.callbacks = s.callbacks
        BY <2>1, <2>2, SameKeeps DEF Same
    <2>4. LET t == StartListener(v, p) IN Sound(pub, t) /\ s.callbacks \subseteq t.callbacks
        BY <2>2, <2>3, StartListenerSound
    <2>5. Disconnect(s, restoreIncoming, p) \in {StartListener(v, p), idle}
        BY <1>5 DEF Disconnect, v, idle, i, cancelled, Idling
    <2> QED BY <2>1, <2>4, <2>5
<1>6. CASE DisconnectIsTaken(s) /\ ~Idling(s)
    <2>1. done(closed)
        BY <1>3, <1>6, CallCloseSound, Parameters DEF DisconnectIsTaken
    <2>2. Disconnect(s, restoreIncoming, p) = closed
        BY <1>6 DEF Disconnect, u, closing, k, cancelled, Idling
    <2> QED BY <2>1, <2>2
<1> QED BY <1>4, <1>5, <1>6


(* s is o but for the user's cancellation and the policy switch.           *)
Recast(o, s) ==
    /\ Typed(s) /\ s.facts = o.facts /\ s.callbacks = o.callbacks
    /\ s.Connection = o.Connection /\ s.ClosingConnection = o.ClosingConnection
    /\ s.StateChangedToken = o.StateChangedToken /\ s.listenerDue = o.listenerDue
    /\ s.OperationEpoch = o.OperationEpoch /\ s.TimerEpoch = o.TimerEpoch
    /\ s.CloseBarrierEpoch = o.CloseBarrierEpoch
    /\ s.CompletedRetryAttempts = o.CompletedRetryAttempts
    /\ s.TransientOpenRetryAttempts = o.TransientOpenRetryAttempts
    /\ s.Lifecycle = o.Lifecycle /\ s.CurrentOperation = o.CurrentOperation
    /\ s.IsSuspended = o.IsSuspended /\ s.IsShutdown = o.IsShutdown
    /\ s.IsSuspendClosePending = o.IsSuspendClosePending
    /\ s.SuspendCloseEpoch = o.SuspendCloseEpoch
    /\ s.IsCloseInFlight = o.IsCloseInFlight /\ s.IsCloseCooldown = o.IsCloseCooldown
    /\ s.IsCloseContinuationAbandoned = o.IsCloseContinuationAbandoned
    /\ s.Pending = o.Pending

LEMMA CancelAutomaticReconnectSound ==
    ASSUME NEW o, Quiet(o), NEW pub, Sound(pub, o), ~o.IsShutdown, NEW s, Recast(o, s),
           NEW restoreIncoming \in BOOLEAN, NEW p \in PlatformOutcome
    PROVE  LET t == CancelAutomaticReconnect(s, restoreIncoming, p) IN
           Sound(pub, t) /\ o.callbacks \subseteq t.callbacks
<1> DEFINE cancelled == [CancelTimer(s) EXCEPT !.RetryEligible = FALSE]
           superseded == [cancelled EXCEPT !.OperationEpoch = @ + 1]
           restores == restoreIncoming /\ s.IsIncomingEnabled
           k == [superseded EXCEPT !.Lifecycle = "Disconnecting",
                                   !.RestoreIncomingAfterClose = restores]
           closing == RevokeStateChanged(k)
           i == [superseded EXCEPT !.Lifecycle = "Idle"]
           idle == Publish(i, "Cancelled", FALSE, "None")
           active == \/ s.Lifecycle = "WaitingForReconnect"
                     \/ /\ s.Lifecycle \in {"Connecting", "Disconnecting"}
                        /\ s.CurrentOperation = "AutomaticReconnect"
           done(t) == Sound(pub, t) /\ o.callbacks \subseteq t.callbacks
<1>0. restores \in BOOLEAN /\ "Cancelled" \in DeviceConnectionResult
      /\ "None" \in DeviceDisconnectReason
    BY Parameters
<1> HIDE DEF restores
<1>1. /\ Moved(o, i) /\ Moved(o, k) /\ k.Lifecycle = "Disconnecting" /\ i.Lifecycle = "Idle"
      /\ Advanced(o, i) /\ Advanced(o, k)
    BY <1>0 DEF CancelTimer, Moved, Advanced, IsAutomatic, Quiet, Good, Base, Typed, Fields,
                Recast, DeviceLifecycleState
<1>2. /\ Advanced(o, cancelled) /\ cancelled.Lifecycle = o.Lifecycle
      /\ cancelled.CurrentOperation = o.CurrentOperation
      /\ cancelled.OperationEpoch = o.OperationEpoch
      /\ cancelled.IsSuspended = o.IsSuspended
      /\ cancelled.IsSuspendClosePending = o.IsSuspendClosePending
      /\ cancelled.SuspendCloseEpoch = o.SuspendCloseEpoch
    BY DEF CancelTimer, Advanced, IsAutomatic, Quiet, Good, Base, Typed, Fields, Recast
<1> HIDE DEF i, k, cancelled
<1>3. Moved(o, closing) /\ Advanced(o, closing) /\ closing.Lifecycle = "Disconnecting"
    BY <1>1, RevokeAdvanced DEF Same
<1> HIDE DEF closing
<1>4. CASE ~active
    <2>1. Core(cancelled)
        BY <1>2, AdvancedCore DEF Quiet, Good, Sound
    <2>2. Calm(cancelled)
        BY <1>2 DEF Sound, Calm, Advanced
    <2>3. Phase(cancelled)
        <3>1. /\ cancelled.Lifecycle # "WaitingForReconnect"
              /\ cancelled.Lifecycle \in {"Connecting", "Disconnecting"} =>
                    ~IsAutomatic(cancelled)
            BY <1>2, <1>4 DEF Recast, IsAutomatic
        <3>2. /\ cancelled.callbacks = o.callbacks /\ cancelled.Connection = o.Connection
              /\ cancelled.IsCloseInFlight = o.IsCloseInFlight
              /\ cancelled.Pending = o.Pending /\ cancelled.IsShutdown = o.IsShutdown
            BY <1>2 DEF Advanced
        <3> QED BY <1>2, <3>1, <3>2 DEF Sound, Phase, Replaces
    <2>4. LET t == Publish(cancelled, "Cancelled", FALSE, "None") IN
          Sound(pub, t) /\ t.callbacks = o.callbacks
        BY <1>0, <1>2, <2>1, <2>2, <2>3, PublishSound DEF Advanced
    <2>5. CancelAutomaticReconnect(s, restoreIncoming, p) =
            Publish(cancelled, "Cancelled", FALSE, "None")
        BY <1>4 DEF CancelAutomaticReconnect, cancelled
    <2> QED BY <2>4, <2>5
<1>5. CASE active /\ Idling(o)
    <2>1. /\ Sound(pub, idle) /\ idle.callbacks = o.callbacks /\ Good(idle)
          /\ ~idle.listenerDue
        BY <1>0, <1>1, <1>5, CallIdleSound, Zenon
    <2> HIDE DEF idle
    <2>2. LET t == StartListener(idle, p) IN Sound(pub, t) /\ o.callbacks \subseteq t.callbacks
        BY <2>1, StartListenerSound
    <2>3. s.Connection = NoConnection /\ ~s.IsCloseInFlight
        BY <1>5 DEF Idling, Recast
    <2>4. CancelAutomaticReconnect(s, restoreIncoming, p) \in {StartListener(idle, p), idle}
        BY <1>5, <2>3 DEF CancelAutomaticReconnect, idle, i, superseded, cancelled
    <2> QED BY <2>1, <2>2, <2>4
<1>6. CASE active /\ ~Idling(o)
    <2>1. done(BeginClose(closing, "Idle", "Cancelled", FALSE, FALSE, "None", p))
        BY <1>3, <1>6, CallCloseSound, Parameters
    <2>2. s.Connection # NoConnection \/ s.IsCloseInFlight
        BY <1>6 DEF Idling, Recast
    <2>3. CancelAutomaticReconnect(s, restoreIncoming, p) =
            BeginClose(closing, "Idle", "Cancelled", FALSE, FALSE, "None", p)
        BY <1>6, <2>2
        DEF CancelAutomaticReconnect, closing, k, superseded, cancelled, restores
    <2> QED BY <2>1, <2>3
<1> QED BY <1>4, <1>5, <1>6


LEMMA CancelReconnectSound ==
    ASSUME NEW s, Quiet(s), NEW pub, Sound(pub, s), NEW p \in PlatformOutcome
    PROVE  LET t == CancelReconnect(s, p) IN Sound(pub, t) /\ s.callbacks \subseteq t.callbacks
<1> DEFINE u == [s EXCEPT !.IsReconnectCancelled = TRUE]
<1>1. Recast(s, u) /\ s.IsIncomingEnabled \in BOOLEAN
    BY DEF Recast, Quiet, Good, Base, Typed, Fields
<1> HIDE DEF u
<1>2. ~s.IsShutdown =>
        LET t == CancelAutomaticReconnect(u, s.IsIncomingEnabled, p) IN
        Sound(pub, t) /\ s.callbacks \subseteq t.callbacks
    BY <1>1, CancelAutomaticReconnectSound
<1> QED BY <1>2 DEF CancelReconnect, u

LEMMA SetReconnectEnabledSound ==
    ASSUME NEW s, Quiet(s), NEW pub, Sound(pub, s), NEW enabled \in BOOLEAN,
           NEW p \in PlatformOutcome
    PROVE  LET t == SetReconnectEnabled(s, enabled, p) IN
           Sound(pub, t) /\ s.callbacks \subseteq t.callbacks
<1> DEFINE set == [s EXCEPT !.IsReconnectEnabled = enabled]
           active == \/ s.Lifecycle = "WaitingForReconnect"
                     \/ /\ s.Lifecycle \in {"Connecting", "Disconnecting"}
                        /\ s.CurrentOperation = "AutomaticReconnect"
           done(t) == Sound(pub, t) /\ s.callbacks \subseteq t.callbacks
<1>1. /\ Recast(s, set) /\ s.IsIncomingEnabled \in BOOLEAN
      /\ set.IsReconnectCancelled = s.IsReconnectCancelled
      /\ set.IsReconnectEnabled = enabled
    BY DEF Recast, Quiet, Good, Base, Typed, Fields
<1> HIDE DEF set
<1>2. ~s.IsShutdown => done(CancelAutomaticReconnect(set, s.IsIncomingEnabled, p))
    BY <1>1, CancelAutomaticReconnectSound
<1>3. enabled \/ ~active => done(Publish(set, "Success", FALSE, "None"))
    <2> SUFFICES ASSUME enabled \/ ~active PROVE done(Publish(set, "Success", FALSE, "None"))
        OBVIOUS
    <2>1. Core(set)
        BY <1>1 DEF Sound, Recast, Core, CloseAwaited, Bounded, IsAutomatic, IsCurrentTimer
    <2>2. Calm(set)
        BY <1>1 DEF Sound, Recast, Calm
    <2>3. Phase(set)
        BY <1>1 DEF Sound, Recast, Phase, IsAutomatic, IsCurrentTimer, TimerFits, Replaces
    <2>4. "Success" \in DeviceConnectionResult /\ "None" \in DeviceDisconnectReason
        BY Parameters
    <2>5. LET t == Publish(set, "Success", FALSE, "None") IN
          Sound(pub, t) /\ t.callbacks = set.callbacks
        BY <1>1, <2>1, <2>2, <2>3, <2>4, PublishSound, Zenon DEF Recast
    <2> QED BY <1>1, <2>5 DEF Recast
<1>4. done(s)
    OBVIOUS
<1> HIDE DEF done
<1>5. SetReconnectEnabled(s, enabled, p) =
        IF s.IsShutdown THEN s
        ELSE IF ~enabled /\ active
             THEN CancelAutomaticReconnect(set, s.IsIncomingEnabled, p)
             ELSE Publish(set, "Success", FALSE, "None")
    BY DEF SetReconnectEnabled, set, active
<1>6. done(SetReconnectEnabled(s, enabled, p))
    BY <1>2, <1>3, <1>4, <1>5
<1> QED BY <1>6 DEF done

LEMMA SetIncomingEnabledSound ==
    ASSUME NEW s, Quiet(s), NEW pub, Sound(pub, s), NEW enabled \in BOOLEAN,
           NEW p \in PlatformOutcome
    PROVE  LET t == SetIncomingEnabled(s, enabled, p) IN
           Sound(pub, t) /\ s.callbacks \subseteq t.callbacks
<1> DEFINE set == [s EXCEPT !.IsIncomingEnabled = enabled]
<1>1. Quiet(set)
    BY DEF Quiet, Good, Base, Typed, Fields, Owned, TimersArePast, Due, Heard, Waits
<1>2. Same(s, set) /\ set.facts = s.facts
    BY DEF Quiet, Good, Base, Typed, Fields, Same
<1> HIDE DEF set
<1>3. Sound(pub, set) /\ set.callbacks = s.callbacks
    BY <1>2, SameKeeps DEF Same
<1>4. LET t == Disconnect(set, FALSE, p) IN Sound(pub, t) /\ s.callbacks \subseteq t.callbacks
    BY <1>1, <1>3, DisconnectSound
<1>5. LET t == StartListener(set, p) IN Sound(pub, t) /\ s.callbacks \subseteq t.callbacks
    BY <1>1, <1>3, StartListenerSound DEF Quiet
<1>6. LET t == Publish(set, "Success", FALSE, "None") IN
      Sound(pub, t) /\ s.callbacks \subseteq t.callbacks
    BY <1>1, <1>3, Parameters, PublishSound DEF Quiet, Good, Base, Sound
<1>7. SetIncomingEnabled(s, enabled, p) \in
        {s, Disconnect(set, FALSE, p), StartListener(set, p),
         Publish(set, "Success", FALSE, "None")}
    BY DEF SetIncomingEnabled, set
<1> QED BY <1>4, <1>5, <1>6, <1>7

LEMMA SuspendSound ==
    ASSUME NEW s, Quiet(s), NEW pub, Sound(pub, s), NEW p \in PlatformOutcome
    PROVE  LET t == Suspend(s, p) IN Sound(pub, t) /\ s.callbacks \subseteq t.callbacks
<1> DEFINE required == s.Connection # NoConnection \/ IsBusy(s)
           suspended == [CancelTimer(s) EXCEPT
                            !.ResumeRequired = required,
                            !.ResumeOpenImmediately = s.OpenImmediately,
                            !.IsSuspended = TRUE, !.OperationEpoch = @ + 1]
           k == [suspended EXCEPT !.IsSuspendClosePending = TRUE,
                                  !.SuspendCloseEpoch = suspended.OperationEpoch,
                                  !.Lifecycle = "Disconnecting"]
           closing == RevokeStateChanged(k)
           i == [suspended EXCEPT !.Lifecycle = "Idle"]
<1>0. required \in BOOLEAN /\ "Cancelled" \in DeviceConnectionResult
      /\ "None" \in DeviceDisconnectReason
    BY Parameters DEF IsBusy
<1> HIDE DEF required
<1>1. Moved(s, suspended) /\ Advanced(s, suspended)
    BY <1>0 DEF CancelTimer, Moved, Advanced, IsAutomatic, Quiet, Good, Base, Typed, Fields
<1> HIDE DEF suspended
<1>2. /\ Moved(s, i) /\ Moved(s, k) /\ k.Lifecycle = "Disconnecting" /\ i.Lifecycle = "Idle"
      /\ Advanced(s, i) /\ Advanced(s, k) /\ k.SuspendCloseEpoch = k.OperationEpoch
    BY <1>1 DEF Moved, Advanced, IsAutomatic, Typed, Fields, DeviceLifecycleState
<1> HIDE DEF i, k
<1>3. /\ Moved(s, closing) /\ Advanced(s, closing) /\ closing.Lifecycle = "Disconnecting"
      /\ closing.SuspendCloseEpoch = closing.OperationEpoch
    BY <1>2, RevokeAdvanced DEF Same
<1> HIDE DEF closing
<1>4. CASE s.IsShutdown \/ s.IsSuspended
    BY <1>4 DEF Suspend
<1>5. CASE ~(s.IsShutdown \/ s.IsSuspended) /\ Idling(s)
    <2>1. LET t == Publish(i, "Cancelled", FALSE, "None") IN
          Sound(pub, t) /\ t.callbacks = s.callbacks
        BY <1>0, <1>2, <1>5, CallIdleSound, Zenon
    <2>2. Suspend(s, p) = Publish(i, "Cancelled", FALSE, "None")
        BY <1>5 DEF Suspend, i, suspended, required, Idling
    <2> QED BY <2>1, <2>2
<1>6. CASE ~(s.IsShutdown \/ s.IsSuspended) /\ ~Idling(s)
    <2>1. LET t == BeginClose(closing, "Suspend", "Cancelled", FALSE, FALSE, "None", p) IN
          Sound(pub, t) /\ s.callbacks \subseteq t.callbacks
        BY <1>3, <1>6, CallCloseSound, Parameters
    <2>2. Suspend(s, p) = BeginClose(closing, "Suspend", "Cancelled", FALSE, FALSE, "None", p)
        BY <1>6 DEF Suspend, closing, k, suspended, required, Idling
    <2> QED BY <2>1, <2>2
<1> QED BY <1>4, <1>5, <1>6

LEMMA ResumeSound ==
    ASSUME NEW s, Quiet(s), NEW pub, Sound(pub, s), NEW p \in PlatformOutcome
    PROVE  LET t == Resume(s, p) IN Sound(pub, t) /\ s.callbacks \subseteq t.callbacks
<1> DEFINE r == [s EXCEPT !.ResumeRequested = TRUE]
           u == [s EXCEPT !.IsSuspended = FALSE]
<1>1. Same(s, r) /\ r.facts = s.facts
    BY DEF Quiet, Good, Base, Typed, Fields, Same
<1>2. Sound(pub, r) /\ r.callbacks = s.callbacks
    BY <1>1, SameKeeps DEF Same
<1>3. Quiet(u)
    BY DEF Quiet, Good, Base, Typed, Fields, Owned, TimersArePast, Due, Heard, Waits
<1>4. /\ ~u.IsSuspended /\ u.facts = s.facts /\ u.callbacks = s.callbacks
      /\ u.Connection = s.Connection /\ u.ClosingConnection = s.ClosingConnection
      /\ u.OperationEpoch = s.OperationEpoch /\ u.TimerEpoch = s.TimerEpoch
      /\ u.CloseBarrierEpoch = s.CloseBarrierEpoch
      /\ u.CompletedRetryAttempts = s.CompletedRetryAttempts
      /\ u.TransientOpenRetryAttempts = s.TransientOpenRetryAttempts
      /\ u.Lifecycle = s.Lifecycle /\ u.CurrentOperation = s.CurrentOperation
      /\ u.IsReconnectEnabled = s.IsReconnectEnabled
      /\ u.IsReconnectCancelled = s.IsReconnectCancelled /\ u.IsShutdown = s.IsShutdown
      /\ u.IsCloseInFlight = s.IsCloseInFlight /\ u.IsCloseCooldown = s.IsCloseCooldown
      /\ u.IsCloseContinuationAbandoned = s.IsCloseContinuationAbandoned
      /\ u.Pending = s.Pending
    BY DEF Quiet, Good, Base, Typed, Fields
<1> HIDE DEF r, u
<1>5. Sound(pub, u)
    BY <1>4, UnsuspendedSound
<1>6. LET t == StartAfterResume(u, p) IN Sound(pub, t) /\ s.callbacks \subseteq t.callbacks
    BY <1>3, <1>4, <1>5, StartAfterResumeSound
<1>7. Resume(s, p) \in {s, r, StartAfterResume(u, p)}
    BY DEF Resume, r, u
<1> QED BY <1>2, <1>6, <1>7


(* The operations that make no platform call.                              *)
LEMMA FlagOperationsSound ==
    ASSUME NEW s, Quiet(s), NEW pub, Sound(pub, s),
           NEW t \in {ResumeIdleAfterPowerTransition(s), CancelPowerTransitionRecovery(s),
                      Rename(s)}
    PROVE  Sound(pub, t) /\ s.callbacks \subseteq t.callbacks
<1> DEFINE u == [s EXCEPT !.IsSuspended = FALSE]
           v == [s EXCEPT !.IsSuspended = FALSE, !.ResumeRequired = FALSE,
                          !.ResumeRequested = FALSE, !.IsSuspendClosePending = FALSE]
           told(w) == Publish(w, "Success", FALSE, "None")
           Agrees(w) ==
                /\ Typed(w) /\ ~w.IsSuspended /\ w.facts = s.facts /\ w.callbacks = s.callbacks
                /\ w.Connection = s.Connection /\ w.ClosingConnection = s.ClosingConnection
                /\ w.OperationEpoch = s.OperationEpoch /\ w.TimerEpoch = s.TimerEpoch
                /\ w.CloseBarrierEpoch = s.CloseBarrierEpoch
                /\ w.CompletedRetryAttempts = s.CompletedRetryAttempts
                /\ w.TransientOpenRetryAttempts = s.TransientOpenRetryAttempts
                /\ w.Lifecycle = s.Lifecycle /\ w.CurrentOperation = s.CurrentOperation
                /\ w.IsReconnectEnabled = s.IsReconnectEnabled
                /\ w.IsReconnectCancelled = s.IsReconnectCancelled
                /\ w.IsShutdown = s.IsShutdown
                /\ w.IsCloseInFlight = s.IsCloseInFlight
                /\ w.IsCloseCooldown = s.IsCloseCooldown
                /\ w.IsCloseContinuationAbandoned = s.IsCloseContinuationAbandoned
                /\ w.Pending = s.Pending
<1>1. Agrees(u) /\ Agrees(v) /\ Typed(s)
    BY DEF Quiet, Good, Base, Typed, Fields
<1>2. ASSUME NEW w, Agrees(w) PROVE Sound(pub, w)
    BY <1>2, UnsuspendedSound
<1>3. ASSUME NEW w, Typed(w), Sound(pub, w), w.callbacks = s.callbacks
      PROVE  Sound(pub, told(w)) /\ told(w).callbacks = s.callbacks
    <2>1. "Success" \in DeviceConnectionResult /\ "None" \in DeviceDisconnectReason
        BY Parameters
    <2>2. Core(w) /\ Calm(w) /\ Phase(w)
        BY <1>3 DEF Sound
    <2> QED BY <1>3, <2>1, <2>2, PublishSound
<1>4. /\ Typed(u) /\ Sound(pub, u) /\ u.callbacks = s.callbacks
      /\ Typed(v) /\ Sound(pub, v) /\ v.callbacks = s.callbacks
    BY <1>1, <1>2
<1> HIDE DEF u, v, Agrees
<1>5. /\ Sound(pub, told(u)) /\ told(u).callbacks = s.callbacks
      /\ Sound(pub, told(v)) /\ told(v).callbacks = s.callbacks
      /\ Sound(pub, told(s)) /\ told(s).callbacks = s.callbacks
    BY <1>1, <1>3, <1>4
<1>6. t \in {s, told(u), told(v), told(s)}
    BY DEF ResumeIdleAfterPowerTransition, CancelPowerTransitionRecovery, Rename, u, v
<1> QED BY <1>5, <1>6

LEMMA ShutdownSound ==
    ASSUME NEW s, Quiet(s), NEW pub, Sound(pub, s)
    PROVE  Sound(pub, Shutdown(s)) /\ s.callbacks \subseteq Shutdown(s).callbacks
<1> DEFINE e == [CloseForShutdown(CancelTimer(s)) EXCEPT
                    !.IsShutdown = TRUE, !.OperationEpoch = @ + 1, !.Lifecycle = "Idle"]
<1>1. /\ e.Connection = NoConnection /\ e.ClosingConnection = NoConnection
      /\ ~e.IsCloseInFlight /\ ~e.IsCloseCooldown /\ ~e.IsCloseContinuationAbandoned
      /\ e.TimerEpoch = s.TimerEpoch + 1 /\ e.callbacks = s.callbacks
      /\ e.CompletedRetryAttempts = s.CompletedRetryAttempts
      /\ e.TransientOpenRetryAttempts = s.TransientOpenRetryAttempts
      /\ e.IsShutdown /\ e.Lifecycle = "Idle"
    BY DEF Quiet, Good, Base, Typed, Fields, CloseForShutdown, CancelTimer
<1> HIDE DEF e
<1>2. \A c \in e.callbacks : ~IsCurrentTimer(e, c)
    <2> SUFFICES ASSUME NEW c \in s.callbacks, IsTimer(c), c.timerEpoch = s.TimerEpoch + 1
                 PROVE  FALSE
        BY <1>1 DEF IsCurrentTimer
    <2>1. c.timerEpoch <= s.TimerEpoch /\ s.TimerEpoch \in Nat
        BY DEF Quiet, Good, Base, TimersArePast, IsTimer, Typed
    <2> QED BY <2>1
<1>3. Core(e)
    BY <1>1, <1>2 DEF Sound, Core, CloseAwaited, Bounded
<1>4. Calm(e) /\ Phase(e) /\ Settled(pub, e)
    BY <1>1 DEF Calm, Phase, Replaces, Settled
<1>5. Sound(pub, e) /\ s.callbacks \subseteq e.callbacks
    BY <1>1, <1>3, <1>4 DEF Sound
<1> QED BY <1>5 DEF Shutdown, e

-----------------------------------------------------------------------------
(* The invariant.                                                          *)

Promise == IInv /\ Sound(published, session)

(* The service has received what has been published, and nothing else of   *)
(* the session changes as the facts leave it.                              *)
LEMMA SettleSound ==
    ASSUME NEW t, Quiet(t), Sound(published, t), Settle(t)
    PROVE  Sound(published', session') /\ session'.callbacks = t.callbacks
<1> DEFINE u == [t EXCEPT !.facts = <<>>]
<1>1. session' = u /\ published' = Told(published, t)
    BY DEF Settle, Told
<1>2. Same(t, u) /\ u.facts = <<>>
    BY DEF Quiet, Good, Base, Typed, Fields, Same
<1> HIDE DEF u
<1>3. Core(u) /\ Calm(u) /\ Phase(u)
    BY <1>2, SameKeeps DEF Sound
<1>4. Settled(Told(published, t), u)
    BY <1>2 DEF Sound, Settled, Told, Same
<1>5. Sound(Told(published, t), u) /\ u.callbacks = t.callbacks
    BY <1>2, <1>3, <1>4 DEF Sound, Same
<1> QED BY <1>1, <1>5

LEMMA RunSound ==
    ASSUME NEW t, Good(t), Sound(published, t), NEW p \in PlatformOutcome, Run(t, p)
    PROVE  Sound(published', session') /\ t.callbacks \subseteq session'.callbacks
<1> DEFINE u == Finish(t, p)
<1>1. Sound(published, u) /\ t.callbacks \subseteq u.callbacks
    BY FinishSound
<1>2. Quiet(u) /\ Settle(u)
    BY FinishEnds DEF Quiet, Run
<1> HIDE DEF u
<1> QED BY <1>1, <1>2, SettleSound

(* A call keeps the promises and takes no callback back.                   *)
LEMMA CallSound ==
    ASSUME Promise, Call
    PROVE  Sound(published', session') /\ session.callbacks \subseteq session'.callbacks
<1> DEFINE kept == Sound(published', session') /\ session.callbacks \subseteq session'.callbacks
<1>1. /\ Quiet(session) /\ Sound(published, session) /\ Platform \subseteq PlatformOutcome
      /\ Operation \subseteq DeviceOperationKind \ {"AutomaticReconnect"}
    BY DeviceSessionAssumption DEF Promise, IInv, DeviceOperationKind
<1>2. CASE CallResumeIdleAfterPowerTransition \/ CallCancelPowerTransitionRecovery \/ CallRename
    <2>1. PICK t \in {ResumeIdleAfterPowerTransition(session),
                      CancelPowerTransitionRecovery(session), Rename(session)} : Settle(t)
        BY <1>2 DEF CallResumeIdleAfterPowerTransition, CallCancelPowerTransitionRecovery,
                    CallRename
    <2>2. Quiet(t)
        BY <1>1, FlagOperationsQuiet
    <2>3. Sound(published, t) /\ session.callbacks \subseteq t.callbacks
        BY <1>1, FlagOperationsSound
    <2> QED BY <2>1, <2>2, <2>3, SettleSound
<1>3. CASE CallShutdown
    <2>1. Quiet(Shutdown(session)) /\ Settle(Shutdown(session))
        BY <1>1, <1>3, FlagOperationsQuiet DEF CallShutdown
    <2>2. /\ Sound(published, Shutdown(session))
          /\ session.callbacks \subseteq Shutdown(session).callbacks
        BY <1>1, ShutdownSound
    <2> QED BY <2>1, <2>2, SettleSound
<1>4. ASSUME NEW t, NEW p \in Platform, Good(t), Run(t, p), Sound(published, t),
             session.callbacks \subseteq t.callbacks
      PROVE  kept
    <2>1. Sound(published', session') /\ t.callbacks \subseteq session'.callbacks
        BY <1>1, <1>4, RunSound
    <2> QED BY <1>4, <2>1
<1> HIDE DEF kept
<1>5. ASSUME NEW p \in Platform, NEW operation \in Operation, CallConnect(operation, p)
      PROVE  kept
    BY <1>1, <1>4, <1>5, ConnectGood, ConnectSound DEF CallConnect
<1>6. ASSUME NEW p \in Platform, NEW flag \in BOOLEAN, CallDisconnect(flag, p)
      PROVE  kept
    BY <1>1, <1>4, <1>6, DisconnectGood, DisconnectSound DEF CallDisconnect
<1>7. ASSUME NEW p \in Platform, NEW flag \in BOOLEAN, CallSetReconnectEnabled(flag, p)
      PROVE  kept
    BY <1>1, <1>4, <1>7, SetReconnectEnabledGood, SetReconnectEnabledSound
    DEF CallSetReconnectEnabled
<1>8. ASSUME NEW p \in Platform, NEW flag \in BOOLEAN, CallSetIncomingEnabled(flag, p)
      PROVE  kept
    BY <1>1, <1>4, <1>8, SetIncomingEnabledGood, SetIncomingEnabledSound
    DEF CallSetIncomingEnabled
<1>9. ASSUME NEW p \in Platform, CallCancelReconnect(p)
      PROVE  kept
    BY <1>1, <1>4, <1>9, CancelReconnectGood, CancelReconnectSound DEF CallCancelReconnect
<1>10. ASSUME NEW p \in Platform, CallHandleDeviceRemoved(p)
       PROVE  kept
    BY <1>1, <1>4, <1>10, HandleDeviceRemovedGood, HandleDeviceRemovedSound
    DEF CallHandleDeviceRemoved
<1>11. ASSUME NEW p \in Platform, CallSuspend(p)
       PROVE  kept
    BY <1>1, <1>4, <1>11, SuspendGood, SuspendSound DEF CallSuspend
<1>12. ASSUME NEW p \in Platform, CallResume(p)
       PROVE  kept
    BY <1>1, <1>4, <1>12, ResumeGood, ResumeSound DEF CallResume
<1>13. kept
    BY <1>2, <1>3, <1>5, <1>6, <1>7, <1>8, <1>9, <1>10, <1>11, <1>12 DEF Call, kept
<1> QED BY <1>13 DEF kept


(* c is handled in this step.                                              *)
Handles(c, p) ==
    \/ \E result \in {"Success", "Failed"} : RunStarted(c, result, p)
    \/ \E openResult \in OpenResults : RunOpened(c, openResult, p)
    \/ RunClosed(c, p) \/ RunRetryTimer(c, p) \/ RunTransientOpenRetryTimer(c, p)
    \/ RunCloseTimeout(c, p) \/ RunCooldown(c, p)
    \/ RunStateChanged(c, p) \/ RunPostFailed(c, p)

(* Of the outstanding callbacks only the one that is handled is taken.     *)
LEMMA CallbackSound ==
    ASSUME Promise, NEW c \in session.callbacks, NEW p \in Platform, Handles(c, p)
    PROVE  Sound(published', session') /\ session.callbacks \ {c} \subseteq session'.callbacks
<1> DEFINE s == Taken(c)
           kept == /\ Sound(published', session')
                   /\ session.callbacks \ {c} \subseteq session'.callbacks
<1>1. /\ Takes(published, session, c, s) /\ p \in PlatformOutcome
      /\ Quiet(s) /\ c \in Callback /\ s.callbacks = session.callbacks \ {c}
    <2>1. Quiet(session) /\ IInv
        BY DEF Promise, IInv
    <2>2. s.callbacks = session.callbacks \ {c}
        BY <2>1 DEF Taken, Quiet, Good, Base, Typed, Fields
    <2> QED BY <2>1, <2>2, DeviceSessionAssumption, TakenQuiet DEF Takes, Promise, Taken
<1> HIDE DEF s
<1>2. ASSUME NEW t, Good(t), Run(t, p), Sound(published, t), s.callbacks \subseteq t.callbacks
      PROVE  kept
    <2>1. Sound(published', session') /\ t.callbacks \subseteq session'.callbacks
        BY <1>1, <1>2, RunSound
    <2> QED BY <1>1, <1>2, <2>1
<1> HIDE DEF kept
<1>3. ASSUME NEW result \in {"Success", "Failed"}, RunStarted(c, result, p)
      PROVE  kept
    <2>1. c.epoch \in Nat /\ c.address \in Address /\ result \in DeviceConnectionResult
        BY <1>1, <1>3, CallbackMembers DEF RunStarted, DeviceConnectionResult
    <2> QED BY <1>1, <1>2, <1>3, <2>1, OnStartedGood, OnStartedSound DEF RunStarted, s
<1>4. ASSUME NEW openResult \in OpenResults, RunOpened(c, openResult, p)
      PROVE  kept
    <2>1. c.epoch \in Nat /\ c.address \in Address
          /\ openResult.Result \in DeviceConnectionResult
          /\ openResult.IsTransientFailure \in BOOLEAN
        BY <1>1, <1>4, CallbackMembers, OpenResultType DEF RunOpened
    <2> QED BY <1>1, <1>2, <1>4, <2>1, OnOpenedGood, OnOpenedSound DEF RunOpened, s
<1>5. CASE RunStateChanged(c, p)
    <2> DEFINE t == OnStateChanged(s, c.epoch, c.address, c.state, p)
    <2>1. c.epoch \in Nat /\ c.address \in Address /\ c.state \in DeviceConnectionState
        BY <1>1, <1>5, CallbackMembers DEF RunStateChanged
    <2>2. Run(t, p)
        BY <1>5 DEF RunStateChanged, s
    <2>3. Good(t)
        BY <1>1, <2>1, OnStateChangedGood
    <2>4. Sound(published, t) /\ s.callbacks \subseteq t.callbacks
        BY <1>1, <1>5, <2>1, OnStateChangedSound DEF RunStateChanged
    <2> HIDE DEF t
    <2> QED BY <1>2, <2>2, <2>3, <2>4 DEF kept
<1>6. CASE RunPostFailed(c, p)
    <2> DEFINE t == OnPostFailed(s, c.epoch, c.address, p)
    <2>1. c.epoch \in Nat /\ c.address \in Address
        BY <1>1, <1>6, CallbackMembers DEF RunPostFailed
    <2>2. Run(t, p)
        BY <1>6 DEF RunPostFailed, s
    <2>3. Good(t)
        BY <1>1, <2>1, OnPostFailedGood
    <2>4. Sound(published, t) /\ s.callbacks \subseteq t.callbacks
        BY <1>1, <1>6, <2>1, OnPostFailedSound DEF RunPostFailed
    <2> HIDE DEF t
    <2> QED BY <1>2, <2>2, <2>3, <2>4 DEF kept
<1>7. CASE RunRetryTimer(c, p)
    <2> DEFINE t == OnRetryTimer(s, c.timerEpoch, c.epoch, p)
    <2>1. Run(t, p)
        BY <1>7 DEF RunRetryTimer, s
    <2>2. Good(t)
        BY <1>1, OnRetryTimerGood
    <2>3. Sound(published, t) /\ s.callbacks \subseteq t.callbacks
        BY <1>1, <1>7, OnRetryTimerSound DEF RunRetryTimer
    <2> HIDE DEF t
    <2> QED BY <1>2, <2>1, <2>2, <2>3 DEF kept
<1>8. CASE RunTransientOpenRetryTimer(c, p)
    <2> DEFINE t == OnTransientOpenRetryTimer(s, c.timerEpoch, c.epoch, p)
    <2>1. TimerIsCurrent(s, c.timerEpoch, c.epoch) => s.Connection = NoConnection
        BY <1>1, <1>8, TimerParts DEF RunTransientOpenRetryTimer, IsTimer
    <2>2. Run(t, p)
        BY <1>8 DEF RunTransientOpenRetryTimer, s
    <2>3. Good(t)
        BY <1>1, <2>1, OnTransientOpenRetryTimerGood
    <2>4. Sound(published, t) /\ s.callbacks \subseteq t.callbacks
        BY <1>1, <1>8, <2>1, OnTransientOpenRetryTimerSound DEF RunTransientOpenRetryTimer
    <2> HIDE DEF t
    <2> QED BY <1>2, <2>2, <2>3, <2>4 DEF kept
<1>9. CASE RunCloseTimeout(c, p)
    <2> DEFINE t == CompleteCloseBarrier(s, c.closeBarrierEpoch, TRUE, p)
    <2>1. c.closeBarrierEpoch \in Nat
        BY <1>1, <1>9, CallbackMembers DEF RunCloseTimeout
    <2>2. Run(t, p)
        BY <1>9 DEF RunCloseTimeout, s
    <2>3. Good(t)
        BY <1>1, <2>1, CompleteCloseBarrierGood
    <2>4. Sound(published, t) /\ s.callbacks \subseteq t.callbacks
        BY <1>1, <1>9, <2>1, CompleteCloseBarrierSound DEF RunCloseTimeout
    <2> HIDE DEF t
    <2> QED BY <1>2, <2>2, <2>3, <2>4 DEF kept
<1>10. CASE RunClosed(c, p)
    <2> DEFINE t == CompleteCloseBarrier(s, c.closeBarrierEpoch, FALSE, p)
    <2>1. c.closeBarrierEpoch \in Nat
        BY <1>1, <1>10, CallbackMembers DEF RunClosed
    <2>2. Run(t, p)
        BY <1>10 DEF RunClosed, s
    <2>3. Good(t)
        BY <1>1, <2>1, CompleteCloseBarrierGood
    <2>4. Sound(published, t) /\ s.callbacks \subseteq t.callbacks
        BY <1>1, <1>10, <2>1, CompleteCloseBarrierSound DEF RunClosed
    <2> HIDE DEF t
    <2> QED BY <1>2, <2>2, <2>3, <2>4 DEF kept
<1>11. CASE RunCooldown(c, p)
    <2> DEFINE t == CompleteCloseCooldown(s, c.closeBarrierEpoch, p)
    <2>1. Run(t, p)
        BY <1>11 DEF RunCooldown, s
    <2>2. Good(t)
        BY <1>1, CompleteCloseCooldownGood
    <2>3. Sound(published, t) /\ s.callbacks \subseteq t.callbacks
        BY <1>1, <1>11, CompleteCloseCooldownSound DEF RunCooldown
    <2> HIDE DEF t
    <2> QED BY <1>2, <2>1, <2>2, <2>3 DEF kept
<1>12. kept
    BY <1>3, <1>4, <1>5, <1>6, <1>7, <1>8, <1>9, <1>10, <1>11 DEF Handles, kept
<1> QED BY <1>12 DEF kept

(* Every handler finds out that its callback is late, and returns.         *)
LEMMA LateStep ==
    ASSUME Promise, NEW c \in session.callbacks, NEW p \in Platform, Handles(c, p),
           IsLate(c, session)
    PROVE  session' = Taken(c) /\ published' = published
<1> DEFINE s == Taken(c)
<1>1. /\ session \in SessionState /\ session.facts = <<>> /\ ~session.listenerDue
      /\ c \in Callback /\ session.OperationEpoch \in Nat /\ session.TimerEpoch \in Nat
      /\ session.CloseBarrierEpoch \in Nat
    BY TakenQuiet DEF Promise, IInv, TypeOK, Quiet, Good, Base, Typed
<1>2. /\ s.IsShutdown = session.IsShutdown /\ s.OperationEpoch = session.OperationEpoch
      /\ s.TimerEpoch = session.TimerEpoch /\ s.CloseBarrierEpoch = session.CloseBarrierEpoch
      /\ ~s.listenerDue /\ s.facts = <<>> /\ [s EXCEPT !.facts = <<>>] = s
    BY <1>1 DEF Taken, SessionState
<1>3. ASSUME Run(s, p) PROVE session' = s /\ published' = published
    <2>1. Finish(s, p) = s
        BY <1>2 DEF Finish
    <2> QED BY <1>2, <1>3, <2>1 DEF Run, Settle
<1> HIDE DEF s
<1>4. c.kind \in {"Started", "Opened", "StateChanged"} =>
        ~IsCurrentConnection(s, c.epoch, c.address)
    <2>1. c.kind \in {"Started", "Opened", "StateChanged"} =>
            s.IsShutdown \/ (c.epoch < s.OperationEpoch /\ c.epoch \in Nat)
        BY <1>1, <1>2, CallbackMembers DEF IsLate
    <2> QED BY <1>1, <1>2, <2>1 DEF IsCurrentConnection
<1>5. c.kind \in {"RetryTimer", "TransientOpenRetryTimer"} =>
        ~TimerIsCurrent(s, c.timerEpoch, c.epoch)
    <2>1. c.kind \in {"RetryTimer", "TransientOpenRetryTimer"} =>
            /\ c.epoch \in Nat /\ c.timerEpoch \in Nat
            /\ s.IsShutdown \/ c.epoch < s.OperationEpoch \/ c.timerEpoch < s.TimerEpoch
        BY <1>1, <1>2 DEF IsLate, Callback
    <2> QED BY <1>1, <1>2, <2>1 DEF TimerIsCurrent
<1>6. c.kind \in {"CloseTimeout", "Closed", "Cooldown"} =>
        s.IsShutdown \/ c.closeBarrierEpoch # s.CloseBarrierEpoch
    <2>1. c.kind \in {"CloseTimeout", "Closed", "Cooldown"} =>
            s.IsShutdown \/ (c.closeBarrierEpoch < s.CloseBarrierEpoch /\ c.closeBarrierEpoch \in Nat)
        BY <1>1, <1>2, CallbackMembers DEF IsLate
    <2> QED BY <1>1, <1>2, <2>1
<1>7. Run(s, p)
    <2>1. ASSUME NEW result \in {"Success", "Failed"}, RunStarted(c, result, p) PROVE Run(s, p)
        BY <1>4, <2>1 DEF RunStarted, OnStarted, s
    <2>2. ASSUME NEW openResult \in OpenResults, RunOpened(c, openResult, p) PROVE Run(s, p)
        BY <1>4, <2>2 DEF RunOpened, OnOpened, s
    <2>3. CASE RunStateChanged(c, p)
        BY <1>4, <2>3 DEF RunStateChanged, OnStateChanged, s
    <2>4. CASE RunPostFailed(c, p)
        BY <1>4, <2>4 DEF RunPostFailed, OnPostFailed, s
    <2>5. CASE RunRetryTimer(c, p)
        BY <1>5, <2>5 DEF RunRetryTimer, OnRetryTimer, s
    <2>6. CASE RunTransientOpenRetryTimer(c, p)
        BY <1>5, <2>6 DEF RunTransientOpenRetryTimer, OnTransientOpenRetryTimer, s
    <2>7. CASE RunCloseTimeout(c, p)
        BY <1>6, <2>7 DEF RunCloseTimeout, CompleteCloseBarrier, s
    <2>8. CASE RunClosed(c, p)
        BY <1>6, <2>8 DEF RunClosed, CompleteCloseBarrier, s
    <2>9. CASE RunCooldown(c, p)
        BY <1>6, <2>9 DEF RunCooldown, CompleteCloseCooldown, s
    <2> QED BY <2>1, <2>2, <2>3, <2>4, <2>5, <2>6, <2>7, <2>8, <2>9 DEF Handles
<1> QED BY <1>3, <1>7 DEF s

LEMMA NativeEventSound ==
    ASSUME Promise, NEW state \in DeviceConnectionState, RaiseStateChanged(state)
    PROVE  Sound(published', session') /\ session.callbacks \subseteq session'.callbacks
<1> DEFINE event == [kind |-> "StateChanged", epoch |-> session.HandlerEpoch,
                     address |-> session.Connection, state |-> state]
           u == [session EXCEPT !.callbacks = @ \cup {event}]
<1>1. ~IsTimer(event) /\ session' = u /\ published' = published
    BY DEF RaiseStateChanged, IsTimer
<1> HIDE DEF event
<1>2. /\ u.callbacks = session.callbacks \cup {event} /\ u.facts = session.facts
      /\ u.Connection = session.Connection /\ u.ClosingConnection = session.ClosingConnection
      /\ u.OperationEpoch = session.OperationEpoch /\ u.TimerEpoch = session.TimerEpoch
      /\ u.CloseBarrierEpoch = session.CloseBarrierEpoch
      /\ u.CompletedRetryAttempts = session.CompletedRetryAttempts
      /\ u.TransientOpenRetryAttempts = session.TransientOpenRetryAttempts
      /\ u.Lifecycle = session.Lifecycle /\ u.CurrentOperation = session.CurrentOperation
      /\ u.IsReconnectEnabled = session.IsReconnectEnabled
      /\ u.IsReconnectCancelled = session.IsReconnectCancelled
      /\ u.IsSuspended = session.IsSuspended /\ u.IsShutdown = session.IsShutdown
      /\ u.IsSuspendClosePending = session.IsSuspendClosePending
      /\ u.SuspendCloseEpoch = session.SuspendCloseEpoch
      /\ u.IsCloseInFlight = session.IsCloseInFlight
      /\ u.IsCloseCooldown = session.IsCloseCooldown
      /\ u.IsCloseContinuationAbandoned = session.IsCloseContinuationAbandoned
      /\ u.Pending = session.Pending
    BY DEF Promise, IInv, Quiet, Good, Base, Typed, Fields
<1> HIDE DEF u
<1>3. Sound(published, session)
    BY DEF Promise
<1>4. Core(u)
    BY <1>1, <1>2, <1>3 DEF Sound, Core, CloseAwaited, Bounded, IsAutomatic, IsCurrentTimer
<1>5. Calm(u) /\ Settled(published, u)
    BY <1>2, <1>3 DEF Sound, Calm, Settled, Told
<1>6. Phase(u)
    BY <1>1, <1>2, <1>3 DEF Sound, Phase, IsAutomatic, IsCurrentTimer, TimerFits, Replaces
<1>7. Sound(published, u) /\ session.callbacks \subseteq u.callbacks
    BY <1>2, <1>4, <1>5, <1>6 DEF Sound
<1> QED BY <1>1, <1>7


(* Every reachable state of a session keeps its promises.                  *)
THEOREM SessionPromises == Spec => []Promise
<1>1. Init => Promise
    <2> SUFFICES ASSUME Init PROVE Promise
        OBVIOUS
    <2>1. IInv
        BY InitInvariant
    <2>2. /\ session.Connection = NoConnection /\ session.ClosingConnection = NoConnection
          /\ ~session.IsCloseInFlight /\ ~session.IsCloseCooldown
          /\ ~session.IsCloseContinuationAbandoned /\ ~session.IsReconnectCancelled
          /\ ~session.IsSuspended /\ ~session.IsShutdown /\ session.Lifecycle = "Idle"
          /\ session.CompletedRetryAttempts = 0 /\ session.TransientOpenRetryAttempts = 0
          /\ session.facts = <<>>
        BY DEF Init, InitialSession
    <2>3. Core(session) /\ Calm(session) /\ Phase(session)
        BY <2>2, Limits DEF Core, CloseAwaited, Bounded, Calm, Phase, Replaces
    <2>4. Settled(published, session)
        <3>1. published.State = session.Lifecycle
              /\ published.OperationEpoch = session.OperationEpoch
            BY DEF Init, Snapshot
        <3> QED BY <2>2, <3>1 DEF Settled, Told
    <2> QED BY <2>1, <2>3, <2>4 DEF Promise, Sound
<1>2. IInv /\ IInv' /\ Promise /\ [Next]_vars => Promise'
    <2> SUFFICES ASSUME IInv, IInv', Promise, [Next]_vars
                 PROVE  Sound(published', session')
        BY DEF Promise
    <2>1. CASE Call
        BY <2>1, CallSound
    <2>2. CASE CompleteStart \/ CompleteOpen \/ CompleteClose \/ FireTimer \/ HandleEvent
        BY <2>2, CallbackSound
        DEF CompleteStart, CompleteOpen, CompleteClose, FireTimer, HandleEvent, Handles
    <2>3. CASE NativeEvent
        BY <2>3, NativeEventSound DEF NativeEvent
    <2>4. CASE UNCHANGED vars
        BY <2>4 DEF vars, Promise
    <2> QED BY <2>1, <2>2, <2>3, <2>4 DEF Next
<1> QED BY <1>1, <1>2, SessionInvariant, PTL DEF Spec

(* Whatever a session says it is busy with can still end: its timer, its   *)
(* start or open, or the completion of its close is outstanding            *)
(* (CancelTimer, ScheduleReconnect, BeginCreate, BeginClose).              *)
THEOREM SessionBusyIsAwaited == Spec => []BusyIsAwaited
<1>1. Promise => BusyIsAwaited
    <2> SUFFICES ASSUME Promise PROVE BusyIsAwaited
        OBVIOUS
    <2>1. CloseAwaited(session) /\ Phase(session)
        BY DEF Promise, Sound, Core
    <2>2. WaitingIsTimed
        <3> SUFFICES ASSUME session.Lifecycle = "WaitingForReconnect"
                     PROVE  /\ \E c \in CurrentTimers(session) :
                                c.kind = "RetryTimer" => session.IsReconnectEnabled
                            /\ ~session.IsReconnectCancelled /\ ~session.IsSuspended
                            /\ ~session.IsShutdown
            BY DEF WaitingIsTimed
        <3>1. PICK c \in session.callbacks :
                    /\ IsCurrentTimer(session, c) /\ c.epoch = session.OperationEpoch
                    /\ c.kind = "RetryTimer" => session.IsReconnectEnabled
            BY <2>1 DEF Phase
        <3>2. c \in CurrentTimers(session)
            BY <3>1 DEF CurrentTimers, IsCurrentTimer, IsTimer
        <3> QED BY <2>1, <3>1, <3>2 DEF Phase
    <2>3. ConnectingIsAwaited
        BY <2>1 DEF Phase, ConnectingIsAwaited
    <2>4. CloseIsAwaited
        BY <2>1 DEF CloseAwaited, CloseIsAwaited
    <2> QED BY <2>2, <2>3, <2>4 DEF BusyIsAwaited
<1> QED BY <1>1, SessionPromises, PTL

(* What was cancelled, suspended or has used up its attempts stays quiet,  *)
(* whichever completions arrive afterwards (CancelReconnect, Suspend,      *)
(* ScheduleReconnect, ScheduleTransientOpenRetry).                         *)
THEOREM SessionStoppedStaysStopped == Spec => []StoppedStaysStopped
<1>1. Promise => StoppedStaysStopped
    <2> SUFFICES ASSUME Promise PROVE StoppedStaysStopped
        OBVIOUS
    <2>1. /\ Core(session) /\ Calm(session) /\ Phase(session)
          /\ session.Lifecycle \in DeviceLifecycleState
        BY DEF Promise, Sound, IInv, Quiet, Good, Base, Typed
    <2>2. \A c \in CurrentTimers(session) : c \in session.callbacks /\ IsCurrentTimer(session, c)
        BY DEF CurrentTimers, IsCurrentTimer, IsTimer
    <2>3. CancelStopsAutomaticReconnect
        <3>1. session.IsReconnectCancelled => CurrentTimers(session) = {}
            BY <2>1, <2>2 DEF Core
        <3> QED BY <2>1, <3>1
                DEF CancelStopsAutomaticReconnect, Phase, Replaces, IsAutomatic
    <2>4. SuspendedIsQuiet
        BY <2>1 DEF SuspendedIsQuiet, Calm, Phase, DeviceLifecycleState
    <2>5. RetriesAreBounded
        BY <2>1, <2>2 DEF RetriesAreBounded, Core, Bounded, Phase, TimerFits
    <2> QED BY <2>3, <2>4, <2>5 DEF StoppedStaysStopped
<1> QED BY <1>1, SessionPromises, PTL

(* The last fact the service received has the state and the epoch of the   *)
(* session, apart from a close under way (Publish).                        *)
THEOREM SessionSettledStateIsPublished == Spec => []SettledStateIsPublished
<1>1. Promise => SettledStateIsPublished
    BY DEF Promise, IInv, TypeOK, Sound, Settled, Told, SettledStateIsPublished
<1> QED BY <1>1, SessionPromises, PTL

(* A callback of a superseded operation, a cancelled timer or an earlier   *)
(* barrier is dropped by the handler it reaches (IsCurrentConnection,      *)
(* TimerEpoch, CloseBarrierEpoch).                                         *)
THEOREM SessionLateCallbacksChangeNothing == Spec => LateCallbacksChangeNothing
<1> DEFINE Dropped ==
        \A c \in session.callbacks : IsLate(c, session) /\ c \notin session'.callbacks =>
            session' = [session EXCEPT !.callbacks = @ \ {c}] /\ UNCHANGED published
<1>1. Promise /\ [Next]_vars => [Dropped]_vars
    <2> SUFFICES ASSUME Promise, Next,
                        NEW c \in session.callbacks, IsLate(c, session), c \notin session'.callbacks
                 PROVE  session' = [session EXCEPT !.callbacks = @ \ {c}] /\ UNCHANGED published
        OBVIOUS
    <2>1. CASE Call
        BY <2>1, CallSound
    <2>2. CASE CompleteStart \/ CompleteOpen \/ CompleteClose \/ FireTimer \/ HandleEvent
        <3>1. PICK d \in session.callbacks, p \in Platform : Handles(d, p)
            BY <2>2
            DEF CompleteStart, CompleteOpen, CompleteClose, FireTimer, HandleEvent, Handles
        <3>2. session.callbacks \ {d} \subseteq session'.callbacks
            BY <3>1, CallbackSound
        <3>3. d = c
            BY <3>2
        <3>4. session' = Taken(c) /\ published' = published
            BY <3>1, <3>3, LateStep
        <3> QED BY <3>4 DEF Taken
    <2>3. CASE NativeEvent
        BY <2>3, NativeEventSound DEF NativeEvent
    <2> QED BY <2>1, <2>2, <2>3 DEF Next
<1>2. Spec => [][Dropped]_vars
    <2> HIDE DEF Dropped
    <2> QED BY <1>1, SessionPromises, PTL DEF Spec
<1> QED BY <1>2 DEF LateCallbacksChangeNothing
=============================================================================
