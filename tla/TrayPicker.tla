----------------------------- MODULE TrayPicker -----------------------------
(***************************************************************************)
(* The device picker of TrayController.cpp and AdaptiveResourceController, *)
(* which loads it ahead of time and releases it when memory is short.      *)
(* Both live on the UI thread and call each other: the tray tells every    *)
(* change of the picker, and the evaluation that follows may load, hide or *)
(* release it.  Load comes as snapshots from the monitor's thread.         *)
(*                                                                         *)
(* One handler of the UI thread is a sequence of steps, todo; the next     *)
(* message is taken when it is empty.  The flyout opens and closes when    *)
(* XAML says so, not when it is asked to.                                  *)
(***************************************************************************)
EXTENDS ResourcePressure, Sequences

CONSTANTS
    Observation,  \* the values the monitor may tell
    Budgets       \* how many observations, clicks, faults and stops a behaviour has

VARIABLES
    tray,      \* TrayController's picker
    native,    \* the flyout as XAML has it
    adaptive,  \* AdaptiveResourceController on the UI thread
    told,      \* what the monitor's thread has told
    posted,    \* snapshots on their way to the UI thread
    todo,      \* the rest of the handler the UI thread is in
    budget

vars == <<tray, native, adaptive, told, posted, todo, budget>>

Spend(k) == budget[k] > 0 /\ budget' = [budget EXCEPT ![k] = @ - 1]

\* A call that may fail: it does so at most as often as the budget has faults.
Attempt(ok) == IF ok THEN UNCHANGED budget ELSE Spend("faults")

Step(name) == [do |-> name]
Evaluation(interaction) == [do |-> "evaluate", interaction |-> interaction]

\* What an evaluation has decided, on its way to the picker and then to the status:
\* the picker's call, whether preloading was allowed, and when to look again.
Decision(action, allowed, at) == [do |-> "perform", action |-> action, allowed |-> allowed, at |-> at]

Idle == todo = <<>>
Runs(name) == todo # <<>> /\ Head(todo).do = name
Then(steps) == todo' = steps \o Tail(todo)

Visible == tray.state # "Closed"

(***************************************************************************)
(* The picker.                                                             *)
(***************************************************************************)
NoFlyout(t) == [t EXCEPT !.state = "Closed", !.flyout = FALSE, !.refresh = FALSE]
WithView(t) == IF t.view THEN t ELSE [t EXCEPT !.view = TRUE, !.releasePending = FALSE]
Released(t) == [t EXCEPT !.view = FALSE, !.initialized = FALSE, !.releasePending = FALSE,
                         !.refresh = FALSE]

\* ShowDevicePicker of an open picker: a second click hides it.
ShowOpen(toggle) ==
    /\ Idle /\ ~tray.tearing /\ tray.state = "Open" /\ Spend("clicks")
    /\ todo' = <<Evaluation(TRUE)>> \o (IF toggle THEN <<Step("hide")>> ELSE <<>>)
    /\ UNCHANGED <<tray, native, adaptive, told, posted>>

\* The click that dismissed the picker over its icon does not open it again.
ShowSuppressed ==
    /\ Idle /\ ~tray.tearing /\ tray.state = "Closed" /\ tray.suppress /\ Spend("clicks")
    /\ tray' = [tray EXCEPT !.suppress = FALSE]
    /\ UNCHANGED <<native, adaptive, told, posted, todo>>

\* The view is made if need be, then the flyout; either may fail.  What the
\* outer handlers of ShowDevicePicker catch ends as a flyout that was not made.
Show(viewed, made, loaded) ==
    /\ Idle /\ ~tray.tearing /\ tray.state = "Closed" /\ budget["clicks"] > 0
    /\ tray.view => viewed
    /\ budget' = [budget EXCEPT !["clicks"] = @ - 1,
                                !["faults"] = IF viewed /\ made /\ loaded THEN @ ELSE @ - 1]
    /\ (viewed /\ made /\ loaded) \/ budget["faults"] > 0
    /\ \E t \in {[tray EXCEPT !.suppress = FALSE]} :
         CASE ~viewed -> tray' = t /\ UNCHANGED todo
           [] viewed /\ ~made -> /\ tray' = NoFlyout(WithView(t))
                                 /\ todo' = <<Evaluation(FALSE)>>
           [] OTHER -> /\ tray' = [WithView(t) EXCEPT !.state = "Opening", !.flyout = TRUE, !.refresh = FALSE,
                                                      !.initialized = @ \/ loaded]
                       /\ todo' = <<Evaluation(TRUE), Step("showAt")>>
    /\ UNCHANGED <<native, adaptive, told, posted>>

ShowAt(ok) ==
    /\ Runs("showAt") /\ Attempt(ok)
    /\ IF ok THEN native' = "showing" /\ Then(<<>>) /\ UNCHANGED tray
       ELSE tray' = NoFlyout(tray) /\ Then(<<Evaluation(FALSE)>>) /\ UNCHANGED native
    /\ UNCHANGED <<adaptive, told, posted>>

\* TryHideDevicePicker; when XAML refuses, the picker is shown as before.
TryHide(ok) ==
    /\ Runs("hide")
    /\ IF ~tray.flyout \/ tray.state \in {"Closed", "Closing"}
       THEN ok /\ Then(<<>>) /\ UNCHANGED <<tray, native, budget>>
       ELSE /\ Attempt(ok)
            /\ IF ok THEN /\ tray' = [tray EXCEPT !.state = "Closing"]
                          /\ native' = "hiding" /\ Then(<<>>)
               ELSE Then(<<Evaluation(TRUE)>>) /\ UNCHANGED <<tray, native>>
    /\ UNCHANGED <<adaptive, told, posted>>

\* A double click, or the view's own wish to be gone.
HidePicker ==
    /\ Idle /\ ~tray.tearing /\ tray.flyout /\ Spend("clicks")
    /\ todo' = <<Step("hide")>>
    /\ UNCHANGED <<tray, native, adaptive, told, posted>>

Opened ==
    /\ Idle /\ native = "showing"
    /\ native' = "shown"
    /\ tray' = [tray EXCEPT !.state = "Open", !.refresh = FALSE]
    /\ UNCHANGED <<adaptive, told, posted, todo, budget>>

\* A click elsewhere; XAML announces the end of the flyout.
Dismiss ==
    /\ Idle /\ native = "shown" /\ Spend("clicks")
    /\ native' = "hiding"
    /\ tray' = [tray EXCEPT !.state = "Closing"]
    /\ UNCHANGED <<adaptive, told, posted, todo>>

Closed(overIcon) ==
    /\ Idle /\ native = "hiding"
    /\ native' = "none"
    /\ tray' = [NoFlyout(tray) EXCEPT !.suppress = @ \/ overIcon]
    /\ todo' = <<Evaluation(FALSE), Step("releasePending"), Step("settingsPending")>>
    /\ UNCHANGED <<adaptive, told, posted, budget>>

\* The rest of the Closed handler: what was put off until the picker is gone.
ReleaseIfPending(ok) ==
    /\ Runs("releasePending") /\ Then(<<>>)
    /\ IF tray.releasePending
       THEN Attempt(ok) /\ tray' = IF ok THEN Released(tray) ELSE tray
       ELSE ok /\ UNCHANGED <<tray, budget>>
    /\ UNCHANGED <<native, adaptive, told, posted>>

ShowSettingsIfPending ==
    /\ Runs("settingsPending") /\ Then(<<>>)
    /\ tray' = [tray EXCEPT !.settings = IF @ = "wanted" THEN "shown" ELSE @]
    /\ UNCHANGED <<native, adaptive, told, posted, budget>>

SettingsUnlessClosing(t) ==
    [t EXCEPT !.settings = IF @ = "wanted" /\ t.state # "Closing" THEN "shown" ELSE @]

\* ShowSettingsAfterPickerClosed: now, unless a picker is on its way out.
AskForSettings ==
    /\ Idle /\ ~tray.tearing /\ Spend("settings")
    /\ tray' = [tray EXCEPT !.settings = "wanted"]
    /\ todo' = <<Step("hide"), Step("settingsNow")>>
    /\ UNCHANGED <<native, adaptive, told, posted>>

ShowSettingsNow ==
    /\ Runs("settingsNow") /\ Then(<<>>)
    /\ tray' = SettingsUnlessClosing(tray)
    /\ UNCHANGED <<native, adaptive, told, posted, budget>>

\* RefreshDevicePickerState while the flyout opens is made up for in Opened.
RefreshPicker ==
    /\ Idle /\ tray.view /\ tray.state = "Opening" /\ ~tray.refresh
    /\ tray' = [tray EXCEPT !.refresh = TRUE]
    /\ UNCHANGED <<native, adaptive, told, posted, todo, budget>>

---------------------------------------------------------------------------
(***************************************************************************)
(* AdaptiveResourceController.                                             *)
(***************************************************************************)
NoTimer == [kind |-> "none", left |-> 0]

\* On the monitor's thread: a constrained value withdraws every permission
\* before the UI thread has heard of it.
PressureObserved(v, delivered) ==
    /\ Spend("observations") /\ v \in Observation /\ ~adaptive.stopped
    /\ told' = [told EXCEPT !.sequence = @ + 1,
                            !.constrained = IF IsBackgroundConstrained(v) THEN told.sequence + 1 ELSE @]
    /\ posted' = IF delivered
                 THEN Append(posted, [values |-> v, sequence |-> told.sequence + 1, age |-> 0])
                 ELSE posted
    /\ UNCHANGED <<tray, native, adaptive, todo>>

OnPressureChanged ==
    /\ Idle /\ posted # <<>>
    /\ posted' = Tail(posted)
    /\ LET s == Head(posted)
       IN  IF adaptive.stopped \/ s.sequence <= adaptive.sequence
           THEN UNCHANGED <<adaptive, todo>>
           ELSE /\ adaptive' = [adaptive EXCEPT !.sequence = s.sequence, !.values = s.values, !.age = s.age]
                /\ todo' = <<Evaluation(FALSE)>>
    /\ UNCHANGED <<tray, native, told, budget>>

IsFresh(a) == a.age # NotSince /\ a.age < MaximumAge

AuthorizedAnyway(a) == TRUE
IsAuthorizationCurrent(a) == a.sequence >= told.constrained

PolicyInput(a, interaction) ==
    LET v == IF IsFresh(a) THEN a.values ELSE NoValues
        saver == v.saver = "on"
    IN  [memory  |-> IsMemoryPressure(v),
         allowed |-> IsFresh(a) /\ IsAuthorizationCurrent(a) /\ CanPreload(v),
         full    |-> IsBackgroundConstrained(v) /\ ~IsMemoryPressure(v) /\ ~saver,
         saver   |-> saver, visible |-> Visible, interaction |-> interaction,
         loaded  |-> tray.view, initialized |-> tray.view /\ tray.initialized]

\* PreloadDevicePicker and ReleaseDevicePicker.
\* A view may be made whose devices do not load.
Performed(action, outcome) ==
    CASE action = "None" \/ tray.tearing \/ outcome = "failed" -> tray
      [] action = "PreloadUi" ->
             IF tray.initialized THEN tray
             ELSE [WithView(tray) EXCEPT !.initialized = (outcome = "done")]
      [] action = "ReleaseUi" ->
             IF ~tray.view THEN tray
             ELSE IF Visible THEN [tray EXCEPT !.releasePending = TRUE]
             ELSE Released(tray)

HideToRelease(action) ==
    IF action = "ReleaseUi" /\ tray.flyout /\ tray.state # "Closing" THEN <<Step("hide")>> ELSE <<>>

Succeeded(action, t) ==
    \/ action = "None"
    \/ action = "PreloadUi" /\ t.view /\ t.initialized
    \/ action = "ReleaseUi" /\ ~t.view

WithoutExpiry(a) == {}
SnapshotExpiry(a) == IF IsFresh(a) THEN {MaximumAge - a.age} ELSE {}

Least(times) == IF times = {} THEN NotSince ELSE CHOOSE t \in times : \A u \in times : t <= u

\* Evaluate up to the policy's decision.  The authorization is captured under the
\* snapshot's mutex, which is free again before the picker is called: a constrained
\* observation may withdraw the permission the decision rests on.
Evaluate ==
    /\ Runs("evaluate")
    /\ IF adaptive.stopped
       THEN Then(<<>>) /\ UNCHANGED adaptive
       ELSE \E i \in {PolicyInput(adaptive, Head(todo).interaction)} :
            \E p \in {EvaluatePolicy(adaptive.policy, i)} :
              /\ adaptive' = [adaptive EXCEPT !.policy = p,
                                              !.retry = IF i.interaction THEN InitialRetry ELSE @]
              /\ Then(<<Decision(ActionOf(p, i), i.allowed,
                                Least(Reevaluations(p, i) \cup SnapshotExpiry(adaptive)))>>)
    /\ UNCHANGED <<tray, native, told, posted, budget>>

\* The picker is loaded or released, or that fails; its calls may run a message that
\* stops the controller.
Perform(outcome, reentered) ==
    /\ Runs("perform")
    /\ LET decision == Head(todo)
       IN  /\ outcome = "unloaded" => decision.action = "PreloadUi"
           /\ outcome # "done" \/ reentered => decision.action # "None"
           /\ CASE outcome # "done" -> Spend("faults") /\ ~reentered
                [] reentered -> Spend("stops")
                [] OTHER -> UNCHANGED budget
           /\ tray' = Performed(decision.action, outcome)
           /\ adaptive' = IF reentered THEN [adaptive EXCEPT !.stopped = TRUE, !.timer = NoTimer] ELSE adaptive
           /\ Then(HideToRelease(decision.action) \o <<[decision EXCEPT !.do = "publish"]>>)
    /\ UNCHANGED <<native, told, posted>>

\* ScheduleEvaluation: a window timer, or a dispatcher timer instead; at once is a moment later.
Scheduled(at, win32) ==
    IF at = NotSince THEN NoTimer
    ELSE [kind |-> IF win32 THEN "win32" ELSE "fallback", left |-> IF at = 0 THEN 1 ELSE at]

\* m_snapshot: whether preloading is said to be allowed, with the fence read once more.
StatusAsCaptured(decision) == decision.allowed
StatusOf(decision) == decision.allowed /\ IsAuthorizationCurrent(adaptive)

\* What the picker did is counted, the status is published with a second look at the
\* authorization, and the next evaluation scheduled; after a stop nothing is.
Publish(win32) ==
    /\ Runs("publish") /\ Then(<<>>)
    /\ LET decision == Head(todo)
           succeeded == Succeeded(decision.action, tray)
           at == Least(({decision.at} \ {NotSince}) \cup IF succeeded THEN {} ELSE {adaptive.retry})
       IN  IF adaptive.stopped
           THEN win32 /\ UNCHANGED <<adaptive, budget>>
           ELSE /\ Attempt(win32)
                /\ adaptive' = [adaptive EXCEPT
                                  !.retry = IF succeeded THEN InitialRetry ELSE NextRetry(@),
                                  !.status = StatusOf(decision),
                                  !.timer = Scheduled(at, win32)]
    /\ UNCHANGED <<tray, native, told, posted>>

TimerFires ==
    /\ Idle /\ adaptive.timer.kind # "none" /\ adaptive.timer.left = 0 /\ ~adaptive.stopped
    /\ adaptive' = [adaptive EXCEPT !.timer = NoTimer]
    /\ todo' = <<Evaluation(FALSE)>>
    /\ UNCHANGED <<tray, native, told, posted, budget>>

Stop ==
    /\ Idle /\ ~adaptive.stopped /\ Spend("stops")
    /\ adaptive' = [adaptive EXCEPT !.stopped = TRUE, !.timer = NoTimer]
    /\ UNCHANGED <<tray, native, told, posted, todo>>

Teardown ==
    /\ Idle /\ adaptive.stopped /\ ~tray.tearing
    /\ tray' = [Released(NoFlyout(tray)) EXCEPT !.tearing = TRUE, !.suppress = FALSE, !.settings = "none"]
    /\ native' = "none"
    /\ UNCHANGED <<adaptive, told, posted, todo, budget>>

Aged(s) == [s EXCEPT !.age = Older(@, MaximumAge)]

\* The time until a decision is to be looked at again passes while its handler runs.
Sooner(step) == IF step.do \in {"perform", "publish"} /\ step.at > 0 THEN [step EXCEPT !.at = @ - 1] ELSE step

Tick ==
    /\ adaptive' = [Aged(adaptive) EXCEPT !.policy = PolicyTick(@),
                                          !.timer.left = IF @ > 0 THEN @ - 1 ELSE 0]
    /\ posted' = [i \in DOMAIN posted |-> Aged(posted[i])]
    /\ todo' = [i \in DOMAIN todo |-> Sooner(todo[i])]
    /\ UNCHANGED <<tray, native, told, budget>>

---------------------------------------------------------------------------
Init ==
    /\ tray = [state |-> "Closed", flyout |-> FALSE, view |-> FALSE, initialized |-> FALSE,
               releasePending |-> FALSE, refresh |-> FALSE, settings |-> "none", suppress |-> FALSE,
               tearing |-> FALSE]
    /\ native = "none"
    /\ adaptive = [policy |-> NewPolicy, values |-> NoValues, sequence |-> 0, age |-> NotSince,
                   retry |-> InitialRetry, timer |-> NoTimer, status |-> FALSE, stopped |-> FALSE]
    /\ told = [sequence |-> 0, constrained |-> 0]
    /\ posted = <<>>
    /\ todo = <<Evaluation(FALSE)>>
    /\ budget \in Budgets

Clicks == \/ \E toggle \in BOOLEAN : ShowOpen(toggle)
          \/ ShowSuppressed
          \/ \E v, m, l \in BOOLEAN : Show(v, m, l)
          \/ Dismiss \/ HidePicker \/ AskForSettings \/ RefreshPicker

Handlers == \/ \E ok \in BOOLEAN : \/ ShowAt(ok) \/ TryHide(ok) \/ ReleaseIfPending(ok)
                                   \/ Publish(ok)
            \/ Evaluate
            \/ \E outcome \in {"done", "unloaded", "failed"}, re \in BOOLEAN : Perform(outcome, re)
            \/ ShowSettingsIfPending \/ ShowSettingsNow

Events == Opened \/ (\E over \in BOOLEAN : Closed(over))

Next == \/ Clicks \/ Handlers \/ Events
        \/ (\E v \in Observation, d \in BOOLEAN : PressureObserved(v, d))
        \/ OnPressureChanged \/ TimerFires \/ Stop \/ Teardown \/ Tick

---------------------------------------------------------------------------
\* Between two messages the picker's fields agree: a state other than Closed
\* has a flyout with content, and settings that wait for the picker to close
\* wait for a picker that is closing (TrayController's handlers and catches).
PickerIsConsistent ==
    Idle => /\ (tray.state # "Closed") = tray.flyout
            /\ tray.flyout => tray.view
            /\ tray.settings = "wanted" => tray.state = "Closing"
            /\ tray.releasePending => tray.view

\* The picker is never taken from under the user: its view is released only
\* when no flyout shows it, whatever the load is (ReleaseDevicePicker).
OnlyAClosedPickerIsReleasedStep ==
    tray.view /\ ~tray'.view => tray.state = "Closed" \/ tray'.tearing

\* Preloading nobody asked for is admitted only on a fresh snapshot that allows it and
\* that no constrained observation had overtaken when the authorization was captured.
\* The load itself comes later and may be made on a permission withdrawn meanwhile, but
\* such a permission is never published (the recheck of the fence in Evaluate).
Unasked == ~Visible /\ adaptive.policy.hold = 0 /\ ~Head(todo).interaction

PermissionIsCurrentStep ==
    /\ Runs("evaluate") /\ Unasked /\ todo' # <<>> /\ Head(todo').do = "perform" /\ Head(todo').action = "PreloadUi" =>
         IsFresh(adaptive) /\ CanPreload(adaptive.values) /\ adaptive.sequence >= told.constrained
    /\ adaptive'.status /\ ~adaptive.status => adaptive.sequence >= told.constrained

\* A picker kept in memory unseen is not forgotten: whatever it was loaded on, a
\* permission withdrawn before it was used included, an evaluation is scheduled, no
\* later than the snapshot the controller goes by expires (ScheduleEvaluation).
UnseenPickerIsWatched ==
    Idle /\ ~adaptive.stopped /\ tray.view /\ ~Visible =>
        /\ adaptive.timer.kind # "none"
        /\ IsFresh(adaptive) => adaptive.timer.left <= MaximumAge - adaptive.age

\* When the monitor falls silent, the picker does not stay in memory on old
\* news: the last snapshot expires, the policy turns cold, and a picker nobody
\* looks at is released, failures included; settings asked for are shown.
Settled == (Visible \/ ~tray.view \/ adaptive.stopped) /\ tray.settings # "wanted"

=============================================================================
