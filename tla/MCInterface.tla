----------------------------- MODULE MCInterface ----------------------------
(***************************************************************************)
(* The parts behind the windows, one per behaviour: the device picker with *)
(* the resources it may use, the monitor of the machine's load, the tray   *)
(* icon, the settings window's presenter, what the picker shows, and what  *)
(* the settings window does.                                               *)
(***************************************************************************)
EXTENDS TrayPicker, TLC

VARIABLES
    subject,
    mMon, mRun, mProbe, mOp, mWorld, mHeard, mBudget,
    iFacts, iError, iAnimating, iTimers, iIcon, iShell, iForgotten, iTheme, iDue, iBudget,
    sCurrent, sWin, sStack, sMade, sAnswer, sEnded, sBudget,
    vWorld, vView, vRefresh, vPosted, vCompleted, vTyped, vBudget,
    fForm, fToggle, fOwner, fQueue, fSettings, fPlace, fCopy, fSaid, fBudget

pVars == vars
mVars == <<mMon, mRun, mProbe, mOp, mWorld, mHeard, mBudget>>
iVars == <<iFacts, iError, iAnimating, iTimers, iIcon, iShell, iForgotten, iTheme, iDue, iBudget>>
sVars == <<sCurrent, sWin, sStack, sMade, sAnswer, sEnded, sBudget>>
vVars == <<vWorld, vView, vRefresh, vPosted, vCompleted, vTyped, vBudget>>
fVars == <<fForm, fToggle, fOwner, fQueue, fSettings, fPlace, fCopy, fSaid, fBudget>>
allVars == <<subject, pVars, mVars, iVars, sVars, vVars, fVars>>

---------------------------------------------------------------------------
MCObservation ==
    {Values("High", "Available", "off"), Values("High", "Fullscreen", "off"), Values("Low", "Available", "off")}

MCBudgets ==
    LET B(o, c, f, s, x) == [observations |-> o, clicks |-> c, faults |-> f, settings |-> s, stops |-> x]
    IN  {B(2, 1, 1, 0, 0), B(0, 3, 1, 1, 0), B(1, 1, 0, 1, 1), B(3, 0, 0, 0, 0)}

Read(low, high) == [low |-> low, high |-> high, activity |-> "Available", saver |-> "off"]

CONSTANT Pool

Monitor == INSTANCE ResourceMonitor WITH
    Thread <- Pool, MaxRuns <- 2, Reading <- {Read("off", "on"), Read("on", "off")},
    Unread <- [low |-> "unknown", high |-> "unknown", activity |-> "Unknown", saver |-> "unknown"],
    Budgets <-
      LET B(st, sp, i, c, h, f) == [starts |-> st, stops |-> sp, inner |-> i, changes |-> c,
                                    heartbeats |-> h, faults |-> f]
      IN  {B(1, 1, 0, 1, 0, 0), B(1, 1, 0, 0, 1, 1), B(1, 1, 1, 0, 0, 0), B(2, 0, 1, 0, 0, 1)},
    mon <- mMon, run <- mRun, probe <- mProbe, op <- mOp, world <- mWorld, heard <- mHeard, budget <- mBudget

Icon == INSTANCE TrayVisual WITH
    ErrorTime <- 1, Theme <- {"light", "dark"},
    Budgets <-
      LET B(fa, e, r, t, f) == [facts |-> fa, errors |-> e, restarts |-> r, themes |-> t, faults |-> f]
      IN  {B(1, 1, 1, 0, 2), B(1, 1, 1, 1, 1), B(2, 1, 0, 0, 1)},
    facts <- iFacts, error <- iError, animating <- iAnimating, timers <- iTimers, icon <- iIcon,
    shell <- iShell, forgotten <- iForgotten, theme <- iTheme, due <- iDue, budget <- iBudget

Presenter == INSTANCE SettingsPresenter WITH
    MaxWindows <- 3, MaxDepth <- 2,
    Budgets <- LET B(ca, cl, f, e) == [calls |-> ca, closes |-> cl, faults |-> f, ends |-> e]
               IN  {B(4, 1, 2, 0), B(3, 2, 1, 1)},
    current <- sCurrent, win <- sWin, stack <- sStack, made <- sMade, answer <- sAnswer, ended <- sEnded,
    budget <- sBudget

Trimmed(text) == IF text = " x" THEN "x" ELSE text
Shown(at1, at2, saved, complete, animated) ==
    [at |-> (1 :> at1 @@ 2 :> at2), saved |-> saved, alias |-> (1 :> "" @@ 2 :> ""),
     policy |-> (1 :> {} @@ 2 :> {}), default |-> {}, global |-> {}, complete |-> complete, gen |-> 0,
     privacy |-> ~complete, animated |-> animated]
ViewScenarios ==
    LET S(w, cl, e, ch, f, x) ==
          [world |-> w, budget |-> [clicks |-> cl, edits |-> e, changes |-> ch, faults |-> f, ends |-> x]]
    IN  {S(Shown("connected", "connected", {1}, TRUE, FALSE), 2, 0, 1, 0, 0),
         S(Shown("here", "away", {1, 2}, FALSE, FALSE), 3, 0, 1, 1, 0),
         S(Shown("here", "away", {1, 2}, TRUE, FALSE), 2, 1, 1, 0, 0),
         S(Shown("here", "away", {1}, TRUE, FALSE), 2, 1, 0, 1, 0),
         S(Shown("here", "away", {1}, FALSE, TRUE), 3, 0, 0, 0, 1)}

Contents == INSTANCE PickerView WITH
    Device <- {1, 2}, Text <- {"", "x", " x"}, Trim <- Trimmed, Policy <- {"startup"},
    Scenarios <- ViewScenarios, world <- vWorld, view <- vView, refresh <- vRefresh, posted <- vPosted,
    completed <- vCompleted, typed <- vTyped, budget <- vBudget

FormScenarios ==
    LET Told(p, busy, known, on) == [publication |-> p, busy |-> busy, known |-> known, enabled |-> on]
        O(s, wish, out) == [snapshot |-> s, confirmed |-> [known |-> FALSE, enabled |-> FALSE], wish |-> wish,
                            settled |-> wish = "none", inbox |-> <<>>, outbox |-> out]
        Free == O(Told(0, FALSE, FALSE, FALSE), "none", <<>>)
        Taken == O(Told(1, TRUE, FALSE, TRUE), "on", <<Told(1, TRUE, FALSE, TRUE)>>)
        B(t, l, m, r, p, c, x, f) == [toggles |-> t, languages |-> l, moves |-> m, resets |-> r, pages |-> p,
                                      copies |-> c, closes |-> x, faults |-> f]
        S(o, bounds, applied, ls, b) ==
          [settings |-> [language |-> "en", bounds |-> bounds, startup |-> FALSE], owner |-> o,
           applied |-> applied, languages |-> ls, budget |-> b]
    IN  {S(Free, "none", "en", <<>>, B(2, 0, 0, 0, 0, 0, 1, 2)),
         S(Taken, "moved", "en", <<>>, B(2, 0, 0, 0, 0, 0, 1, 1)),
         S(Free, "none", "en", <<>>, B(0, 0, 2, 1, 0, 0, 1, 1)),
         S(Free, "moved", "de", <<"en">>, B(0, 2, 0, 0, 1, 0, 0, 0)),
         S(Free, "none", "en", <<"de", "en">>, B(0, 1, 0, 0, 0, 1, 1, 0))}

Form == INSTANCE SettingsForm WITH
    Language <- {"en", "de"}, Scenarios <- FormScenarios,
    form <- fForm, toggle <- fToggle, owner <- fOwner, queue <- fQueue, settings <- fSettings,
    place <- fPlace, copy <- fCopy, said <- fSaid, budget <- fBudget

---------------------------------------------------------------------------
NoOne == "not here"
PickerUnused == /\ tray = NoOne /\ native = NoOne /\ adaptive = NoOne /\ told = NoOne
                /\ posted = NoOne /\ todo = NoOne /\ budget = NoOne
MonitorUnused == /\ mMon = NoOne /\ mRun = NoOne /\ mProbe = NoOne /\ mOp = NoOne
                 /\ mWorld = NoOne /\ mHeard = NoOne /\ mBudget = NoOne
IconUnused == /\ iFacts = NoOne /\ iError = NoOne /\ iAnimating = NoOne /\ iTimers = NoOne /\ iIcon = NoOne
              /\ iShell = NoOne /\ iForgotten = NoOne /\ iTheme = NoOne /\ iDue = NoOne /\ iBudget = NoOne
PresenterUnused == /\ sCurrent = NoOne /\ sWin = NoOne /\ sStack = NoOne /\ sMade = NoOne
                   /\ sAnswer = NoOne /\ sEnded = NoOne /\ sBudget = NoOne

ContentsUnused == /\ vWorld = NoOne /\ vView = NoOne /\ vRefresh = NoOne /\ vPosted = NoOne
                  /\ vCompleted = NoOne /\ vTyped = NoOne /\ vBudget = NoOne
FormUnused == /\ fForm = NoOne /\ fToggle = NoOne /\ fOwner = NoOne /\ fQueue = NoOne /\ fSettings = NoOne
              /\ fPlace = NoOne /\ fCopy = NoOne /\ fSaid = NoOne /\ fBudget = NoOne

MCInit ==
    \/ /\ subject = "picker" /\ Init
       /\ MonitorUnused /\ IconUnused /\ PresenterUnused /\ ContentsUnused /\ FormUnused
    \/ /\ subject = "monitor" /\ Monitor!Init
       /\ PickerUnused /\ IconUnused /\ PresenterUnused /\ ContentsUnused /\ FormUnused
    \/ /\ subject = "icon" /\ Icon!Init
       /\ PickerUnused /\ MonitorUnused /\ PresenterUnused /\ ContentsUnused /\ FormUnused
    \/ /\ subject = "settings" /\ Presenter!Init
       /\ PickerUnused /\ MonitorUnused /\ IconUnused /\ ContentsUnused /\ FormUnused
    \/ /\ subject = "contents" /\ Contents!Init
       /\ PickerUnused /\ MonitorUnused /\ IconUnused /\ PresenterUnused /\ FormUnused
    \/ /\ subject = "form" /\ Form!Init
       /\ PickerUnused /\ MonitorUnused /\ IconUnused /\ PresenterUnused /\ ContentsUnused

OnlyPicker    == subject = "picker" /\ UNCHANGED <<subject, mVars, iVars, sVars, vVars, fVars>>
OnlyMonitor   == subject = "monitor" /\ UNCHANGED <<subject, pVars, iVars, sVars, vVars, fVars>>
OnlyIcon      == subject = "icon" /\ UNCHANGED <<subject, pVars, mVars, sVars, vVars, fVars>>
OnlyPresenter == subject = "settings" /\ UNCHANGED <<subject, pVars, mVars, iVars, vVars, fVars>>
OnlyContents  == subject = "contents" /\ UNCHANGED <<subject, pVars, mVars, iVars, sVars, fVars>>
OnlyForm      == subject = "form" /\ UNCHANGED <<subject, pVars, mVars, iVars, sVars, vVars>>

MCNext == \/ OnlyPicker /\ Next
          \/ OnlyMonitor /\ Monitor!Next
          \/ OnlyIcon /\ Icon!Next
          \/ OnlyPresenter /\ Presenter!Next
          \/ OnlyContents /\ Contents!Next
          \/ OnlyForm /\ Form!Next

\* Messages, timers and pool threads get their turn; the user, the shell, the
\* machine's load and failures need not come.
Fairness ==
    /\ WF_allVars(OnlyPicker /\ Tick) /\ WF_allVars(OnlyPicker /\ TimerFires)
    /\ WF_allVars(OnlyPicker /\ Handlers) /\ WF_allVars(OnlyPicker /\ Events)
    /\ WF_allVars(OnlyPicker /\ OnPressureChanged)
    /\ WF_allVars(OnlyMonitor /\ Monitor!Probes) /\ WF_allVars(OnlyMonitor /\ Monitor!Lifecycle)
    /\ \A p \in Pool : WF_allVars(OnlyMonitor /\ Monitor!Delivers(p))
    /\ WF_allVars(OnlyIcon /\ Icon!Turns) /\ WF_allVars(OnlyIcon /\ Icon!ShellSpeaks)
    /\ WF_allVars(OnlyContents /\ Contents!Queue) /\ WF_allVars(OnlyContents /\ Contents!Works)
    /\ WF_allVars(OnlyForm /\ Form!Owner) /\ WF_allVars(OnlyForm /\ Form!Turns) /\ WF_allVars(OnlyForm /\ Form!Loads)
    /\ WF_allVars(OnlyForm /\ Form!CommitPlacementNow) /\ WF_allVars(OnlyForm /\ Form!CopyDiagnosticsEnds)

MCSpec == MCInit /\ [][MCNext]_allVars /\ Fairness

---------------------------------------------------------------------------
\* The picker's fields agree between two messages, one kept in memory unseen is due to
\* be looked at again before the news it is kept on expire, and an icon that owes the
\* shell nothing is what the shell shows (TrayController, AdaptiveResourceController,
\* TrayIcon).
TrayIsConsistent ==
    /\ subject = "picker" => PickerIsConsistent /\ UnseenPickerIsWatched
    /\ subject = "icon" => Icon!NothingIsOwedInVain

\* The picker is released only when nobody sees it; loading it unasked is admitted, and
\* published as allowed, only on an observation no constrained one has followed so far.
PickerFollowsTheLoad ==
    [][subject = "picker" => OnlyAClosedPickerIsReleasedStep /\ PermissionIsCurrentStep]_allVars

\* The monitor's handler hears of the load in order, and nothing after Stop.
MonitorTellsInOrderAndStops == subject = "monitor" => Monitor!HandlerIsToldInOrderAndThenNothing

\* The settings window on the screen is the presenter's, and Show and Close
\* answer what is so.
PresenterKeepsItsWindow ==
    [][subject = "settings" => Presenter!PresenterKnowsItsWindow' /\ Presenter!PresenterAnswersTrulyStep]_allVars

\* The picker shows the snapshot once nothing is left to be drawn, loads in one task at a
\* time, and leaves alone what the user is typing (PickerView); the settings window shows
\* the startup task and the page asked for, asks only for what the user chose, and keeps
\* the place the user gave it (SettingsForm).
ViewIsTrue ==
    /\ subject = "contents" =>
         Contents!ViewShowsTheSnapshot /\ Contents!LoadingIsOneTask /\ Contents!UnsavedEditIsKept
    /\ subject = "form" =>
         /\ Form!OnlyTheUserAsks /\ Form!SwitchShowsTheOwner
         /\ Form!PlacementIsKept /\ Form!FormShowsWhatWasAsked

\* Left alone, all of it comes to rest: a picker nobody looks at is released
\* when news of the load stays away, the monitor has told the load and finished
\* every Start and Stop, the tray shows the facts, the list is drawn and loaded,
\* and the settings window owes nothing.
InterfaceComesToRest ==
    <>[](CASE subject = "picker" -> Settled
           [] subject = "monitor" -> Monitor!Told
           [] subject = "icon" -> Icon!ShowsTheFacts
           [] subject = "contents" -> Contents!AtRest
           [] subject = "form" -> Form!AtRest
           [] OTHER -> TRUE)

=============================================================================
