--------------------------- MODULE MCDeviceSession ---------------------------
(***************************************************************************)
(* Model checking of one session.                                          *)
(***************************************************************************)
EXTENDS DeviceSession

MCAddress == {"address1"}

AllGranted ==
    [create |-> "Started", listener |-> "Started", address |-> "address1", open |-> TRUE,
     reconnectTimer |-> TRUE, barrierTimer |-> TRUE, cooldownTimer |-> TRUE]

(* Each way the platform can refuse.  The answers that no one handler asks *)
(* for together share an outcome.                                          *)
EachRefusal ==
    {AllGranted,
     [AllGranted EXCEPT !.create = "NotStarted", !.listener = "NotStarted", !.open = FALSE],
     [AllGranted EXCEPT !.create = "NoConnection"],
     [AllGranted EXCEPT !.reconnectTimer = FALSE, !.listener = "NoConnection"],
     [AllGranted EXCEPT !.barrierTimer = FALSE, !.open = FALSE],
     [AllGranted EXCEPT !.cooldownTimer = FALSE]}

NoRefusals == {AllGranted}

FewRefusals == {AllGranted, [AllGranted EXCEPT !.create = "NoConnection", !.open = FALSE,
                                               !.cooldownTimer = FALSE]}

(* The handlers compare an epoch only with the current one, and an epoch   *)
(* never comes back, so states that agree on which epochs are current      *)
(* behave alike.  Late callbacks are left out here: the run without a view *)
(* keeps them.                                                             *)
IsCurrent(c) ==
    CASE c.kind \in {"Started", "Opened", "StateChanged"} -> c.epoch = session.OperationEpoch
      [] c.kind \in {"RetryTimer", "TransientOpenRetryTimer"} ->
            c.epoch = session.OperationEpoch /\ c.timerEpoch = session.TimerEpoch
      [] c.kind \in {"CloseTimeout", "Closed", "Cooldown"} ->
            c.closeBarrierEpoch = session.CloseBarrierEpoch

Shape(c) ==
    CASE c.kind \in {"Started", "Opened"} -> <<c.kind, c.address>>
      [] c.kind = "StateChanged" -> <<c.kind, c.address, c.state>>
      [] OTHER -> <<c.kind>>

CurrentEpochs ==
    <<[session EXCEPT
         !.OperationEpoch = 0, !.TimerEpoch = 0, !.CloseBarrierEpoch = 0,
         !.HandlerEpoch = @ = session.OperationEpoch,
         !.SuspendCloseEpoch = @ = session.OperationEpoch,
         !.callbacks = {Shape(c) : c \in {d \in @ : IsCurrent(d)}}],
      [published EXCEPT !.OperationEpoch = @ = session.OperationEpoch]>>
-----------------------------------------------------------------------------
(* The retry schedules against their closed forms, for every attempt that  *)
(* is still before the session.                                            *)

MaxCompared == 12       \* bound: attempts considered, two more than production makes

(* The doubling loop equals its closed form: the n-th delay is the initial *)
(* one times 2^(n-1), never above the cap, and no attempt is retried       *)
(* sooner than the one before it (RetryDelayForAttempt).                   *)
RetryDelayIsCappedDoubling ==
    \A n \in session.CompletedRetryAttempts + 1 .. MaxCompared :
        LET doubled == InitialRetryDelay * 2^(n - 1)
            delay == RetryDelayForAttempt(n)
        IN  /\ delay = IF doubled < MaximumRetryDelay THEN doubled ELSE MaximumRetryDelay
            /\ n > 1 => delay >= RetryDelayForAttempt(n - 1)

(* The cooldown counts towards the delay and does not shorten it: from the *)
(* confirmed close to the next open, a session waits the longer of the     *)
(* cooldown and the tabled delay (ScheduleTransientOpenRetry).             *)
CooldownCountsTowardsDelay ==
    \A n \in session.TransientOpenRetryAttempts + 1 .. Len(TransientOpenRetryDelays),
       cooled \in BOOLEAN :
        LET tabled == TransientOpenRetryDelays[n]
            waited == TransientOpenRetryDelay(n, cooled)
                        + (IF cooled THEN CloseBarrierCooldown ELSE 0)
        IN  waited = IF cooled /\ tabled < CloseBarrierCooldown
                     THEN CloseBarrierCooldown ELSE tabled

(* Retrying keeps to the schedules the policy gives (ReconnectPolicy,      *)
(* ScheduleTransientOpenRetry).                                            *)
RetriesFollowTheSchedule == RetryDelayIsCappedDoubling /\ CooldownCountsTowardsDelay
=============================================================================
