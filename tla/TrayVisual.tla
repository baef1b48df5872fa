----------------------------- MODULE TrayVisual -----------------------------
(***************************************************************************)
(* What the tray icon shows: TrayController::RefreshVisualState with its   *)
(* two window timers, and TrayIcon.cpp, which keeps the wanted icon and    *)
(* tooltip in m_nid and tells the shell of them.  The shell may refuse,    *)
(* and may restart and forget the icon.                                    *)
(*                                                                         *)
(* Everything runs on the UI thread.  A refresh that reports failure is    *)
(* due again: UiRefreshScheduler sees to it (module UiRefresh).            *)
(***************************************************************************)
EXTENDS Naturals

CONSTANTS
    ErrorTime,  \* c_transientTrayErrorMs
    Theme,
    Budgets     \* changes of the facts, errors, restarts of the shell, themes, failing calls

VARIABLES
    facts,      \* the snapshot's tray presentation
    error,      \* m_trayErrorUntil as the time left, and its tooltip
    animating,  \* m_connectingAnimationTimerActive
    timers,     \* the window timers that are set
    icon,       \* TrayIcon
    shell,      \* what the shell shows: nothing, or one icon
    forgotten,  \* the taskbar was created anew and TaskbarCreated is on its way
    theme,      \* the system's theme, and the one the icons were drawn for
    due,        \* whether RefreshVisualState is to run, and to force the error
    budget

vars == <<facts, error, animating, timers, icon, shell, forgotten, theme, due, budget>>

Failures(n) == budget["faults"] >= n /\ budget' = [budget EXCEPT !["faults"] = @ - n]
Spend(k) == budget[k] > 0 /\ budget' = [budget EXCEPT ![k] = @ - 1]
Fails(ok) == IF ok THEN 0 ELSE 1

(***************************************************************************)
(* TrayIcon.  A nid names the state and the tooltip it shows and the theme *)
(* its image was drawn for.                                                *)
(***************************************************************************)
Dirty(i) == i.iconDirty \/ i.tipDirty
Clean(i) == [i EXCEPT !.iconDirty = FALSE, !.tipDirty = FALSE]
AllDirty(i) == [i EXCEPT !.iconDirty = TRUE, !.tipDirty = TRUE]

QuietTooltip(i, tip) == [i EXCEPT !.nid.tip = tip]
SetTooltip(i, tip) ==
    IF i.nid.tip = tip /\ ~i.tipDirty THEN i
    ELSE [i EXCEPT !.nid.tip = tip, !.tipDirty = TRUE]

\* RefreshIcon(applyShell = false) puts the image of the state into m_nid.
SetState(i, state) ==
    IF i.state = state /\ ~i.iconDirty THEN i
    ELSE [i EXCEPT !.state = state, !.nid.image = state, !.nid.theme = theme.drawn, !.iconDirty = TRUE]

\* ApplyPendingUpdates: NIM_ADD, or NIM_MODIFY when there is something to tell;
\* a shell that does not know the icon refuses to modify it.
Knows == shell # {}
AppliesNothing(i) == i.registered /\ ~Dirty(i)
ShellAgrees(i, ok) == ok /\ (i.registered => Knows)

Pending(i, ok) ==
    CASE AppliesNothing(i) -> i
      [] ShellAgrees(i, ok) -> [Clean(i) EXCEPT !.registered = TRUE]
      [] OTHER -> IF i.registered THEN i ELSE AllDirty(i)

ShellAfter(i, ok) == IF ~AppliesNothing(i) /\ ShellAgrees(i, ok) THEN {i.nid} ELSE shell

\* RefreshIcon(applyShell = true), for a frame of the animation or a new theme.
Drawn(i) == [i EXCEPT !.nid.image = i.state, !.nid.theme = theme.drawn, !.iconDirty = TRUE]
Modifies(i, ok) == i.registered /\ Knows /\ ok

---------------------------------------------------------------------------
(***************************************************************************)
(* TrayController.                                                         *)
(***************************************************************************)
Refresh(force) == due' = IF force \/ due = "force" THEN "force" ELSE "plain"

Shown(left) ==
    IF facts.busy THEN "Connecting" ELSE IF facts.connected THEN "Connected"
    ELSE IF left > 0 THEN "Error" ELSE "Idle"

TooltipOf(shown, e) == IF shown = "Error" /\ e.tooltip THEN "error" ELSE shown

ErrorAfter(e) == IF facts.connected THEN [left |-> 0, tooltip |-> FALSE] ELSE e

TimersAfter(shown, ok) ==
    CASE shown = "Connecting" -> (timers \ {"error"}) \cup (IF ok /\ ~animating THEN {"animation"} ELSE {})
      [] shown = "Error" -> (timers \ {"animation", "error"}) \cup (IF ok THEN {"error"} ELSE {})
      [] OTHER -> {}

SetsTimer(shown) == shown = "Error" \/ (shown = "Connecting" /\ ~animating)

\* RefreshVisualState answers whether all of it was done; what was not is due again.
TriedOnce(done) == "no"
DueAfter(done) == IF done THEN "no" ELSE due

RefreshVisualState(timerOk, pickerOk, shellOk) ==
    /\ due # "no" /\ Failures(Fails(timerOk) + Fails(pickerOk) + Fails(shellOk))
    /\ \E e \in {ErrorAfter([error EXCEPT !.left = IF due = "force" THEN ErrorTime ELSE @])} :
       \E shown \in {Shown(e.left)} :
       \E i \in {SetState(SetTooltip(icon, TooltipOf(shown, e)), shown)} :
         LET moving  == shown = "Connecting" /\ (animating \/ timerOk)
             updated == AppliesNothing(i) \/ ShellAgrees(i, shellOk)
         IN  /\ ~SetsTimer(shown) => timerOk
             /\ AppliesNothing(i) => shellOk
             /\ error' = e
             /\ icon' = Pending(i, shellOk)
             /\ shell' = ShellAfter(i, shellOk)
             /\ animating' = (moving /\ updated)
             /\ timers' = TimersAfter(shown, timerOk) \ (IF moving /\ ~updated THEN {"animation"} ELSE {})
             /\ due' = DueAfter(pickerOk /\ updated /\ timerOk)
    /\ UNCHANGED <<facts, forgotten, theme>>

\* OnVisualTimer: a frame that does not reach the shell ends the animation,
\* and the host asks for a refresh.
AnimationTimer(ok) ==
    /\ "animation" \in timers /\ Failures(Fails(ok))
    /\ \E i \in {Drawn(icon)} :
         IF icon.state # "Connecting" \/ Modifies(i, ok)
         THEN /\ icon' = IF icon.state = "Connecting" THEN Clean(i) ELSE icon
              /\ shell' = IF icon.state = "Connecting" THEN {i.nid} ELSE shell
              /\ UNCHANGED <<animating, timers, due>>
         ELSE /\ icon' = i /\ animating' = FALSE /\ timers' = timers \ {"animation"}
              /\ Refresh(FALSE) /\ UNCHANGED shell
    /\ UNCHANGED <<facts, error, forgotten, theme>>

ErrorTimer ==
    /\ "error" \in timers /\ error.left = 0
    /\ timers' = timers \ {"error"} /\ Refresh(FALSE)
    /\ UNCHANGED <<facts, error, animating, icon, shell, forgotten, theme, budget>>

\* A connection failed: the host sets the tooltip and forces the error; a
\* status that turns to Failed only forces it.
ConnectionError(told) ==
    /\ Spend("errors")
    /\ error' = [error EXCEPT !.tooltip = @ \/ told] /\ Refresh(TRUE)
    /\ UNCHANGED <<facts, animating, timers, icon, shell, forgotten, theme>>

FactsChange(f) ==
    /\ f # facts /\ Spend("facts")
    /\ facts' = f /\ Refresh(FALSE)
    /\ UNCHANGED <<error, animating, timers, icon, shell, forgotten, theme>>

TimePasses ==
    /\ error.left > 0 /\ error' = [error EXCEPT !.left = @ - 1]
    /\ UNCHANGED <<facts, animating, timers, icon, shell, forgotten, theme, due, budget>>

ShellRestarts ==
    /\ Spend("restarts") /\ shell' = {} /\ forgotten' = TRUE
    /\ UNCHANGED <<facts, error, animating, timers, icon, theme, due>>

\* Reregister, and the theme once more; the host asks for a refresh.
TaskbarCreated(added, ok) ==
    /\ forgotten /\ Failures(Fails(added) + Fails(ok))
    /\ forgotten' = FALSE /\ Refresh(FALSE)
    /\ theme' = [theme EXCEPT !.drawn = theme.now]
    /\ \E i \in {IF added THEN [Clean(icon) EXCEPT !.registered = TRUE]
                 ELSE [AllDirty(icon) EXCEPT !.registered = FALSE]} :
       \E j \in {[i EXCEPT !.nid.image = i.state, !.nid.theme = theme.now, !.iconDirty = TRUE]} :
         /\ added \/ ok
         /\ icon' = IF added /\ ok THEN Clean(j) ELSE j
         /\ shell' = IF added /\ ok THEN {j.nid} ELSE IF added THEN {icon.nid} ELSE {}
    /\ UNCHANGED <<facts, error, animating, timers>>

\* OnSettingChange redraws at once; what the shell refuses waits for a refresh.
ThemeChanges(t, ok) ==
    /\ t # theme.now /\ budget["themes"] > 0 /\ (ok \/ budget["faults"] > 0)
    /\ budget' = [budget EXCEPT !["themes"] = @ - 1, !["faults"] = @ - Fails(ok)]
    /\ theme' = [now |-> t, drawn |-> t]
    /\ \E i \in {[icon EXCEPT !.nid.image = icon.state, !.nid.theme = t, !.iconDirty = TRUE]} :
         /\ icon' = IF Modifies(i, ok) THEN Clean(i) ELSE i
         /\ shell' = IF Modifies(i, ok) THEN {i.nid} ELSE shell
    /\ UNCHANGED <<facts, error, animating, timers, forgotten, due>>

---------------------------------------------------------------------------
Nid(image, tip, t) == [image |-> image, tip |-> tip, theme |-> t]

\* TrayIcon::Initialize; the host refreshes once the controller runs.
Init ==
    /\ facts = [busy |-> FALSE, connected |-> FALSE]
    /\ error = [left |-> 0, tooltip |-> FALSE]
    /\ animating = FALSE /\ timers = {} /\ forgotten = FALSE /\ due = "plain"
    /\ \E t \in Theme : theme = [now |-> t, drawn |-> t]
    /\ \E ok \in BOOLEAN :
         /\ icon = [state |-> "Idle", registered |-> ok, iconDirty |-> ~ok, tipDirty |-> ~ok,
                    nid |-> Nid("Idle", "", theme.now)]
         /\ shell = IF ok THEN {Nid("Idle", "", theme.now)} ELSE {}
    /\ budget \in Budgets

Next ==
    \/ \E t, p, s \in BOOLEAN : RefreshVisualState(t, p, s)
    \/ \E ok \in BOOLEAN : AnimationTimer(ok) \/ \E t \in Theme : ThemeChanges(t, ok)
    \/ ErrorTimer \/ TimePasses \/ ShellRestarts
    \/ \E b \in BOOLEAN : ConnectionError(b)
    \/ \E b, c \in BOOLEAN : FactsChange([busy |-> b, connected |-> c]) \/ TaskbarCreated(b, c)

\* What comes by itself: refreshes that are due, timers, and the shell's word.
Turns == \/ \E t, p, s \in BOOLEAN : RefreshVisualState(t, p, s)
         \/ ErrorTimer \/ TimePasses
ShellSpeaks == \E b, c \in BOOLEAN : TaskbarCreated(b, c)

---------------------------------------------------------------------------
\* When TrayIcon owes the shell nothing, the shell shows m_nid: image, theme
\* and tooltip; and a timer that runs is one the controller knows of.
NothingIsOwedInVain ==
    /\ icon.registered /\ ~Dirty(icon) /\ ~forgotten => shell = {icon.nid}
    /\ ("animation" \in timers) = animating
    /\ icon.state = "Connecting" \/ ~animating

\* When the facts stay as they are, the tray comes to show them, over refusals,
\* restarts of the shell and an error whose time is over; and its timers rest.
ShowsTheFacts ==
    /\ shell # {} /\ \A n \in shell : n.image = Shown(0) /\ n.tip = Shown(0)
    /\ timers = IF facts.busy THEN {"animation"} ELSE {}

=============================================================================
