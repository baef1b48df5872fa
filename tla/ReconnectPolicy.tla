--------------------------- MODULE ReconnectPolicy ---------------------------
(***************************************************************************)
(* The pure reconnect policy (core/ReconnectPolicy): given why a           *)
(* reconnect is considered and how many attempts have completed, whether   *)
(* to retry, to defer, or to give up, and after how many seconds.          *)
(*                                                                         *)
(* The policy keeps no state.  Attempts, timers and generations belong to  *)
(* the caller (DeviceSessionState).                                        *)
(***************************************************************************)
EXTENDS Naturals

CONSTANTS
    MaxAttempts,        \* completed attempts after which the policy gives up
    InitialRetryDelay,  \* seconds before the first attempt
    BlockedRetryDelay,  \* seconds before a blocked attempt is looked at again
    MaximumRetryDelay   \* cap of the doubling delay

ASSUME PolicyAssumption ==
    /\ MaxAttempts \in Nat \ {0}
    /\ InitialRetryDelay \in Nat \ {0}
    /\ BlockedRetryDelay \in Nat \ {0}
    /\ MaximumRetryDelay \in Nat
    /\ InitialRetryDelay <= MaximumRetryDelay

ReconnectRequest ==
    {"ConnectionLoss", "Startup", "Resume", "UserCancellation", "PolicyDisabled"}

ReconnectDecisionKind ==
    {"Retry", "Defer", "UserCancelled", "DisabledByPolicy", "TerminalFailure"}

ReconnectPolicyInput ==
    [Request : ReconnectRequest, CompletedAttempts : Nat, IsBlocked : BOOLEAN]

ReconnectPolicyDecision ==
    [Kind : ReconnectDecisionKind, Attempt : Nat, MaxAttempts : Nat, Delay : Nat]

(* Mutant of AtMost: the doubling is not capped.                           *)
AtMostUncapped(a, b) == a

AtMost(a, b) == IF a <= b THEN a ELSE b

(* The loop doubles InitialRetryDelay once per earlier attempt, capping    *)
(* after every doubling.  Attempt numbers start at 1.                      *)
RetryDelayForAttempt(attempt) ==
    LET delay[n \in Nat] == IF n <= 1 THEN InitialRetryDelay
                            ELSE AtMost(delay[n - 1] * 2, MaximumRetryDelay)
    IN  delay[attempt]

Decision(kind, attempt, delay) ==
    [Kind |-> kind, Attempt |-> attempt, MaxAttempts |-> MaxAttempts, Delay |-> delay]

(* Mutant of Evaluate: one attempt too many, and the stops are forgotten.  *)
EvaluateOneMore(input) ==
    IF input.CompletedAttempts > MaxAttempts THEN Decision("TerminalFailure", MaxAttempts, 0)
    ELSE Decision("Retry", input.CompletedAttempts + 1,
                  RetryDelayForAttempt(input.CompletedAttempts + 1))

(* ReconnectPolicy::Evaluate: cancellation and policy win over the attempt *)
(* count, and the attempt count wins over a blocked device.                *)
Evaluate(input) ==
    LET attempt == input.CompletedAttempts + 1 IN
    CASE input.Request = "UserCancellation" -> Decision("UserCancelled", 0, 0)
      [] input.Request = "PolicyDisabled"   -> Decision("DisabledByPolicy", 0, 0)
      [] input.Request \notin {"UserCancellation", "PolicyDisabled"} ->
            IF input.CompletedAttempts >= MaxAttempts
            THEN Decision("TerminalFailure", MaxAttempts, 0)
            ELSE IF input.IsBlocked
                 THEN Decision("Defer", attempt, BlockedRetryDelay)
                 ELSE Decision("Retry", attempt, RetryDelayForAttempt(attempt))
=============================================================================
