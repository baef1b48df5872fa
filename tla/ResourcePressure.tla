-------------------------- MODULE ResourcePressure --------------------------
(***************************************************************************)
(* What the process knows of the machine's load (ResourcePressureState.cpp)*)
(* and what it may keep in memory because of it (AdaptiveResourcePolicy,   *)
(* AdaptiveActionRetryBackoff).  Operators only.                           *)
(*                                                                         *)
(* A probe reads two memory signals, the user's activity and the energy    *)
(* saver; a reading that failed is "unknown".  Times are ages that stop    *)
(* growing at the delay they are compared with, and NotSince is an empty   *)
(* optional.                                                               *)
(***************************************************************************)
EXTENDS Integers

CONSTANTS
    PressureToCold,  \* BackgroundPressureToColdDelay
    ColdToWarm,      \* ColdToWarmDelay
    WarmToHot,       \* WarmToHotDelay
    InteractionHold, \* InteractionHotHold
    MaximumAge,      \* c_resourcePressureSnapshotMaximumAge
    InitialRetry, MaximumRetry

ASSUME DelaysAssumption ==
    /\ {PressureToCold, ColdToWarm, WarmToHot, InteractionHold} \subseteq Nat
    /\ MaximumAge \in Nat \ {0}
    /\ InitialRetry \in Nat \ {0} /\ MaximumRetry \in Nat /\ MaximumRetry >= InitialRetry

Values(memory, activity, saver) == [memory |-> memory, activity |-> activity, saver |-> saver]
NoValues == Values("Unknown", "Unknown", "unknown")

IsMemoryPressure(v) == v.memory = "Low"

\* Quiet time is the only activity besides "Available" that does not constrain.
IsBackgroundConstrained(v) ==
    \/ v.memory \in {"Low", "Unknown"}
    \/ v.saver # "off"
    \/ v.activity \notin {"Available", "QuietTime"}

CanPreload(v) == v.memory = "High" /\ v.saver = "off" /\ v.activity = "Available"

(***************************************************************************)
(* ResourcePressureStateReducer::Apply: pressure is believed at once and   *)
(* is left only when the low signal is read as off.                        *)
(***************************************************************************)
MemoryAfter(current, low, high) ==
    CASE low = "on" -> "Low"
      [] low = "off" /\ high = "on" -> "High"
      [] low = "off" -> "Neutral"
      [] high = "off" /\ current # "Low" -> "Neutral"
      [] OTHER -> IF current = "Low" THEN "Low" ELSE "Unknown"

Apply(current, probe) ==
    Values(MemoryAfter(current.memory, probe.low, probe.high), probe.activity, probe.saver)

\* Both signals must be known, and not both on, for a wait to be armed.
PlanMemoryNotificationWaits(low, high) ==
    IF "unknown" \in {low, high} \/ (low = "on" /\ high = "on") THEN {}
    ELSE {w \in {"low", "high"} : (IF w = "low" THEN low ELSE high) = "off"}

(***************************************************************************)
(* AdaptiveResourcePolicy.                                                 *)
(***************************************************************************)
NotSince == -1
Since(age) == IF age = NotSince THEN 0 ELSE age

NewPolicy == [background |-> "Warm", effective |-> "Warm", pressure |-> NotSince,
              healthy |-> NotSince, preload |-> NotSince, hold |-> 0]

PressureActive(i) == i.memory \/ i.full \/ i.saver

SetBackgroundResidency(p, r) ==
    IF p.background = r THEN p ELSE [p EXCEPT !.background = r, !.preload = NotSince]

UnderPressure(p, i) ==
    LET q == [p EXCEPT !.healthy = NotSince, !.preload = NotSince, !.pressure = Since(@)]
    IN  IF i.memory \/ q.pressure >= PressureToCold THEN SetBackgroundResidency(q, "Cold") ELSE q

WithoutPressure(p) ==
    IF p.pressure # NotSince
    THEN [p EXCEPT !.pressure = NotSince, !.healthy = 0, !.preload = NotSince]
    ELSE [p EXCEPT !.healthy = Since(@)]

Recover(p, i) ==
    CASE p.background = "Cold" ->
             IF p.healthy < ColdToWarm THEN p
             ELSE [SetBackgroundResidency(p, "Warm") EXCEPT !.preload = IF i.allowed THEN 0 ELSE @]
      [] p.background = "Hot" ->
             IF ~i.allowed /\ ~(i.loaded /\ i.initialized) THEN SetBackgroundResidency(p, "Warm") ELSE p
      [] p.background = "Warm" ->
             IF ~i.allowed THEN [p EXCEPT !.preload = NotSince]
             ELSE IF Since(p.preload) >= WarmToHot THEN SetBackgroundResidency(p, "Hot")
             ELSE [p EXCEPT !.preload = Since(@)]

UpdateBackgroundResidency(p, i) ==
    IF PressureActive(i) THEN UnderPressure(p, i) ELSE Recover(WithoutPressure(p), i)

ForegroundDemand(p, i) == i.visible \/ p.hold > 0

EvaluatePolicy(p, i) ==
    LET q == [UpdateBackgroundResidency(p, i) EXCEPT !.hold = IF i.interaction THEN InteractionHold ELSE @]
    IN  [q EXCEPT !.effective = IF i.visible \/ i.interaction \/ q.hold > 0 THEN "Hot" ELSE q.background]

ActionOf(p, i) ==
    LET demand == ForegroundDemand(p, i) \/ i.interaction
    IN  IF p.effective = "Hot"
        THEN IF ~(i.loaded /\ i.initialized) /\ (demand \/ (i.allowed /\ ~PressureActive(i)))
             THEN "PreloadUi" ELSE "None"
        ELSE IF i.loaded THEN "ReleaseUi" ELSE "None"

\* NextReevaluation: how long until the policy must be asked again.
Remaining(delay, age) == IF age >= delay THEN 0 ELSE delay - age

Reevaluations(p, i) ==
    (IF PressureActive(i)
     THEN IF ~i.memory /\ p.background # "Cold" THEN {Remaining(PressureToCold, p.pressure)} ELSE {}
     ELSE IF p.background = "Cold" THEN {Remaining(ColdToWarm, p.healthy)}
     ELSE IF p.background = "Warm" /\ i.allowed /\ p.preload # NotSince
     THEN {Remaining(WarmToHot, p.preload)} ELSE {})
    \cup (IF ~i.visible /\ p.hold > 0 /\ p.background # "Hot" THEN {p.hold} ELSE {})

Older(age, limit) == IF age = NotSince \/ age >= limit THEN age ELSE age + 1

PolicyTick(p) == [p EXCEPT !.pressure = Older(@, PressureToCold), !.healthy = Older(@, ColdToWarm),
                           !.preload = Older(@, WarmToHot), !.hold = IF @ > 0 THEN @ - 1 ELSE 0]

\* AdaptiveActionRetryBackoff::RecordFailure: the delay after this one.
NextRetry(delay) ==
    IF delay >= MaximumRetry THEN delay
    ELSE IF MaximumRetry - delay < delay THEN MaximumRetry ELSE 2 * delay

=============================================================================
