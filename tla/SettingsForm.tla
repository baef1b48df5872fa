---------------------------- MODULE SettingsForm ----------------------------
(***************************************************************************)
(* SettingsWindow.xaml.cpp: one settings window from Activate to its end.  *)
(* The "start with Windows" switch follows its owner's snapshots, which    *)
(* arrive through the UI queue; the language list follows the settings;    *)
(* the window's place is saved a while after it was touched.               *)
(*                                                                         *)
(* The switch's owner is seen only through what it publishes (StartupTask  *)
(* has its inside), and controller events arrive in order (AppEvents).     *)
(* XAML raises Toggled and SelectionChanged inside the assignment.  The    *)
(* switches that only write a setting, links and layout are left out.      *)
(***************************************************************************)
EXTENDS Naturals, Sequences

CONSTANTS
    Language,
    Scenarios  \* settings and owner at Show, events under way, budget

VARIABLES
    form,      \* the window and its m_ flags
    toggle,    \* StartWithWindowsToggle and what it was last told
    owner,     \* the startup task's snapshot, newest request, requests and snapshots under way
    queue,     \* UI queue: snapshots for the window, languages for the host
    settings,  \* Language, StartWithWindows and SettingsWindowBounds
    place,     \* where the window is, and whether it was touched or reset since it placed itself
    copy,      \* the diagnostics copy
    said,      \* history: what the user did and what the window asked for
    budget

vars == <<form, toggle, owner, queue, settings, place, copy, said, budget>>

Spend(k) == budget[k] > 0 /\ budget' = [budget EXCEPT ![k] = @ - 1]
NoBounds == "none"
Default == "default"

(***************************************************************************)
(* The owner of the startup task.                                          *)
(***************************************************************************)
\* A wish that is the newest already, or a refresh while an answer is awaited.
IsCoalesced(what) ==
    IF what = "query" THEN ~owner.settled /\ owner.wish # "none" ELSE owner.wish = what

Published(s) == [s EXCEPT !.publication = @ + 1]

OwnerTakes ==
    LET what == Head(owner.inbox)
        old  == owner.snapshot
        new  == Published(IF what = "query" THEN [old EXCEPT !.busy = TRUE]
                          ELSE [old EXCEPT !.busy = TRUE, !.known = FALSE, !.enabled = (what = "on")])
    IN  /\ owner.inbox # <<>> /\ owner.outbox = <<>>
        /\ owner' = IF IsCoalesced(what) THEN [owner EXCEPT !.inbox = Tail(@)]
                    ELSE [owner EXCEPT !.inbox = Tail(@), !.wish = what, !.settled = FALSE,
                                       !.snapshot = new, !.outbox = Append(@, new)]
        /\ UNCHANGED <<form, toggle, queue, settings, place, copy, said, budget>>

\* The answer to the newest request: the system did as wished, refused, or does not say.
OwnerAnswers(known, actual) ==
    LET reached == owner.wish = "query" \/ (known /\ owner.wish = IF actual THEN "on" ELSE "off")
        seen    == IF known THEN [known |-> TRUE, enabled |-> actual] ELSE owner.confirmed
        new     == [publication |-> owner.snapshot.publication + 1, busy |-> FALSE,
                    known |-> seen.known, enabled |-> seen.enabled]
    IN  /\ owner.wish # "none" /\ ~owner.settled /\ owner.outbox = <<>>
        /\ IF reached THEN UNCHANGED budget ELSE Spend("faults")
        /\ owner' = [owner EXCEPT !.confirmed = seen, !.snapshot = new, !.outbox = Append(@, new),
                                  !.settled = reached, !.wish = IF reached THEN @ ELSE "none"]
        /\ settings' = IF known THEN [settings EXCEPT !.startup = actual] ELSE settings
        /\ UNCHANGED <<form, toggle, queue, place, copy, said>>

\* The controller takes a snapshot before the next one is published; a window
\* subscribed by then gets it through the UI queue.
EventArrives ==
    /\ owner.outbox # <<>>
    /\ owner' = [owner EXCEPT !.outbox = Tail(@)]
    /\ queue' = IF toggle.subscribed THEN [queue EXCEPT !.startup = Append(@, Head(owner.outbox))] ELSE queue
    /\ UNCHANGED <<form, toggle, settings, place, copy, said, budget>>

---------------------------------------------------------------------------
(***************************************************************************)
(* The switch.  Assigning IsOn another value raises Toggled, which asks    *)
(* for a change unless the window says that the change is its own.         *)
(***************************************************************************)
NotSuppressed == FALSE
SuppressStartupToggle == TRUE

IsStale(s) == s.publication < toggle.publication

\* ApplyStartupTaskSnapshot on switch t; `listening` once Toggled has its handler.
ApplyStartupTaskSnapshot(t, s, listening) ==
    LET flips == s.known /\ t.on # s.enabled
        asks  == flips /\ listening /\ ~SuppressStartupToggle
    IN  [switch |-> [t EXCEPT !.publication = s.publication, !.enabled = ~s.busy,
                              !.on = IF s.known THEN s.enabled ELSE @],
         ask |-> IF asks THEN <<IF s.enabled THEN "on" ELSE "off">> ELSE <<>>]

\* The queued update.  A window that has closed takes none.
StartupUpdate ==
    LET s == Head(queue.startup)
        a == ApplyStartupTaskSnapshot(toggle, s, toggle.listening)
    IN  /\ queue.startup # <<>>
        /\ queue' = [queue EXCEPT !.startup = Tail(@)]
        /\ IF form.closed \/ IsStale(s) THEN UNCHANGED <<toggle, owner, said>>
           ELSE /\ toggle' = a.switch
                /\ owner' = [owner EXCEPT !.inbox = @ \o a.ask]
                /\ said' = [said EXCEPT !.wishes = @ + Len(a.ask)]
        /\ UNCHANGED <<form, settings, place, copy, budget>>

Usable == form.life = "open" /\ form.init = "Succeeded"

StartupToggled ==
    /\ Usable /\ toggle.enabled /\ Spend("toggles")
    /\ toggle' = [toggle EXCEPT !.on = ~@]
    /\ owner' = [owner EXCEPT !.inbox = Append(@, IF toggle.on THEN "off" ELSE "on")]
    /\ said' = [said EXCEPT !.toggles = @ + 1, !.wishes = @ + 1]
    /\ UNCHANGED <<form, queue, settings, place, copy>>

---------------------------------------------------------------------------
(***************************************************************************)
(* The language.  The host hears of a change later and tells the window,   *)
(* which selects it without asking for it again.                           *)
(***************************************************************************)
SuppressLanguageSelection == TRUE

SetLanguage(l) ==
    /\ settings' = [settings EXCEPT !.language = l]
    /\ queue' = [queue EXCEPT !.language = Append(@, l)]

LanguageSelected(l) ==
    /\ Usable /\ l # form.language /\ Spend("languages")
    /\ form' = [form EXCEPT !.language = l]
    /\ SetLanguage(l)
    /\ said' = [said EXCEPT !.picks = @ + 1, !.languages = @ + 1]
    /\ UNCHANGED <<toggle, owner, place, copy>>

\* ApplyLanguage: a window that has not loaded yet only corrects the snapshot it will load.
ApplyLanguage(l) == [form EXCEPT !.initial = IF form.loaded THEN @ ELSE l,
                                 !.language = IF form.loaded /\ ~form.closed THEN l ELSE @]

\* The host's event.  It tells a language once, and only a window the presenter has.
HostHearsLanguage ==
    LET l     == Head(queue.language)
        told  == l # form.applied /\ form.life = "open"
        after == IF told THEN ApplyLanguage(l) ELSE form
        asks  == told /\ after.language # form.language /\ form.loaded /\ ~SuppressLanguageSelection
    IN  /\ queue.language # <<>>
        /\ form' = [after EXCEPT !.applied = l]
        /\ settings' = IF asks THEN [settings EXCEPT !.language = l] ELSE settings
        /\ queue' = [queue EXCEPT !.language = IF asks THEN Append(Tail(@), l) ELSE Tail(@)]
        /\ said' = IF asks THEN [said EXCEPT !.languages = @ + 1] ELSE said
        /\ UNCHANGED <<toggle, owner, place, copy, budget>>

---------------------------------------------------------------------------
(***************************************************************************)
(* The place of the window.                                                *)
(***************************************************************************)
\* StoreCurrentPlacement: not of a window that is hidden or minimised.
StoreCurrentPlacement ==
    IF form.capture /\ place.visible /\ place.shape = "normal"
    THEN [settings EXCEPT !.bounds = place.at] ELSE settings

QueuePlacementSave == form.hooked /\ form.capture

\* The user moves, sizes or minimises the window, or it only changes its order.
Moved(at, shape) ==
    /\ Usable /\ Spend("moves")
    /\ place' = [place EXCEPT !.at = at, !.shape = shape, !.touched = TRUE]
    /\ form' = [form EXCEPT !.timer = @ \/ QueuePlacementSave]
    /\ UNCHANGED <<toggle, owner, queue, settings, copy, said>>

CommitPlacementNow ==
    /\ form.timer
    /\ form' = [form EXCEPT !.timer = FALSE]
    /\ settings' = StoreCurrentPlacement
    /\ UNCHANGED <<toggle, owner, queue, place, copy, said, budget>>

\* Its own moves are not captured.
CapturesOwnMoves == TRUE
CapturesDuringReset == FALSE

ResetWindowPlacement ==
    /\ Usable /\ Spend("resets")
    /\ settings' = [settings EXCEPT !.bounds = NoBounds]
    /\ place' = [at |-> Default, shape |-> "normal", visible |-> TRUE, touched |-> FALSE, reset |-> TRUE]
    /\ form' = [form EXCEPT !.timer = CapturesDuringReset /\ form.hooked, !.capture = TRUE]
    /\ UNCHANGED <<toggle, owner, queue, copy, said>>

---------------------------------------------------------------------------
(***************************************************************************)
(* Pages, and the diagnostics copy.                                        *)
(***************************************************************************)
ShowSettingsPage(f, page) == [f EXCEPT !.page = page, !.shown = page]

\* Help is asked for by the host, which may be before the window has loaded, or by the user.
ShowHelpPage ==
    /\ form.life = "open" /\ form.init # "Failed" /\ Spend("pages")
    /\ form' = [IF form.loaded THEN ShowSettingsPage(form, "Help") ELSE [form EXCEPT !.page = "Help"]
                EXCEPT !.asked = "Help"]
    /\ UNCHANGED <<toggle, owner, queue, settings, place, copy, said>>

BackClicked ==
    /\ Usable /\ form.shown = "Help"
    /\ form' = [ShowSettingsPage(form, "App") EXCEPT !.asked = "App"]
    /\ UNCHANGED <<toggle, owner, queue, settings, place, copy, said, budget>>

CopyDiagnosticsButton_Click(ok) ==
    /\ Usable /\ copy.enabled /\ ~copy.inProgress /\ Spend("copies")
    /\ copy' = IF ok THEN [request |-> copy.request + 1, inProgress |-> TRUE, enabled |-> FALSE,
                           running |-> copy.request + 1]
               ELSE [copy EXCEPT !.inProgress = FALSE, !.enabled = TRUE]
    /\ UNCHANGED <<form, toggle, owner, queue, settings, place, said>>

\* CopyDiagnosticsAsync is back on the UI thread, with or without a copy.
CopyDiagnosticsEnds ==
    /\ copy.running # 0
    /\ copy' = IF copy.running # copy.request THEN [copy EXCEPT !.running = 0]
               ELSE [copy EXCEPT !.running = 0, !.inProgress = FALSE, !.enabled = TRUE]
    /\ UNCHANGED <<form, toggle, owner, queue, settings, place, said, budget>>

---------------------------------------------------------------------------
(***************************************************************************)
(* RootGrid_Loaded.  The content is filled once, before its handlers are   *)
(* attached; a failure closes the window.                                  *)
(***************************************************************************)
FirstPage == "App"
PageOnLoad == form.page

\* InitializeSettingsContent; the controller may have no snapshot to give.
InitializeSettingsContent(available) ==
    LET start == [toggle EXCEPT !.on = form.cached]
        a     == ApplyStartupTaskSnapshot(start, owner.snapshot, FALSE)
    IN  IF available
        THEN /\ toggle' = [a.switch EXCEPT !.subscribed = TRUE, !.listening = TRUE]
             /\ owner' = [owner EXCEPT !.inbox = Append(@, "query")]
        ELSE /\ toggle' = [start EXCEPT !.enabled = FALSE, !.listening = TRUE]
             /\ UNCHANGED owner

Loaded == [ShowSettingsPage(form, PageOnLoad) EXCEPT !.loaded = TRUE, !.language = form.initial]

LoadSucceeds(available, hooked) ==
    /\ form.life = "open" /\ ~form.loaded
    /\ IF available /\ hooked THEN UNCHANGED budget ELSE Spend("faults")
    /\ InitializeSettingsContent(available)
    /\ form' = [Loaded EXCEPT !.init = "Succeeded", !.hooked = hooked, !.capture = TRUE]
    /\ place' = [place EXCEPT !.visible = TRUE]
    /\ UNCHANGED <<queue, settings, copy, said>>

\* CloseAfterInitializationFailure, before the window was subclassed: m_closed is not set.
LoadFails(filled) ==
    /\ form.life = "open" /\ ~form.loaded /\ Spend("faults")
    /\ IF filled THEN InitializeSettingsContent(TRUE) ELSE UNCHANGED <<toggle, owner>>
    /\ form' = [form EXCEPT !.loaded = TRUE, !.init = "Failed", !.life = "gone",
                            !.language = IF filled THEN form.initial ELSE @]
    /\ UNCHANGED <<queue, settings, place, copy, said>>

(***************************************************************************)
(* The end.  The user closes with WM_CLOSE, the application with           *)
(* Window.Close, where the message may stay away; both end in WM_NCDESTROY.*)
(***************************************************************************)
StoresNothing == settings
PlacementOnClose == StoreCurrentPlacement

CloseBegins(message) ==
    /\ form.life = "open" /\ form.init = "Succeeded" /\ Spend("closes")
    /\ IF message /\ form.hooked
       THEN /\ form' = [form EXCEPT !.life = "closing", !.timer = FALSE, !.saved = TRUE]
            /\ settings' = PlacementOnClose
       ELSE /\ form' = [form EXCEPT !.life = "closing"]
            /\ UNCHANGED settings
    /\ UNCHANGED <<toggle, owner, queue, place, copy, said>>

\* Hiding the window is one more change of its position.
WindowHides ==
    /\ form.life = "closing" /\ place.visible
    /\ place' = [place EXCEPT !.visible = FALSE]
    /\ form' = [form EXCEPT !.timer = @ \/ QueuePlacementSave]
    /\ UNCHANGED <<toggle, owner, queue, settings, copy, said, budget>>

WindowDestroyed ==
    /\ form.life = "closing" /\ ~place.visible
    /\ IF form.hooked
       THEN /\ form' = [form EXCEPT !.life = "gone", !.timer = FALSE, !.closed = TRUE,
                                    !.capture = FALSE, !.hooked = FALSE]
            /\ toggle' = [toggle EXCEPT !.subscribed = FALSE]
       ELSE form' = [form EXCEPT !.life = "gone"] /\ UNCHANGED toggle
    /\ UNCHANGED <<owner, queue, settings, place, copy, said, budget>>

---------------------------------------------------------------------------
Init ==
    \E s \in Scenarios :
      /\ settings = s.settings
      /\ form = [life |-> "open", init |-> "Pending", loaded |-> FALSE, closed |-> FALSE, hooked |-> FALSE,
                 capture |-> FALSE, timer |-> FALSE, saved |-> FALSE, page |-> "App", shown |-> "none",
                 asked |-> "App", initial |-> s.settings.language, cached |-> s.settings.startup,
                 language |-> "none", applied |-> s.applied]
      /\ toggle = [on |-> FALSE, enabled |-> TRUE, publication |-> 0, subscribed |-> FALSE, listening |-> FALSE]
      /\ owner = s.owner
      /\ queue = [startup |-> <<>>, language |-> s.languages]
      /\ place = [at |-> IF s.settings.bounds = NoBounds THEN Default ELSE s.settings.bounds,
                  shape |-> "normal", visible |-> FALSE, touched |-> FALSE, reset |-> FALSE]
      /\ copy = [request |-> 0, inProgress |-> FALSE, enabled |-> TRUE, running |-> 0]
      /\ said = [toggles |-> 0, wishes |-> 0, picks |-> 0, languages |-> 0]
      /\ budget = s.budget

Owner == OwnerTakes \/ (\E known, actual \in BOOLEAN : OwnerAnswers(known, actual)) \/ EventArrives
Turns == StartupUpdate \/ HostHearsLanguage \/ WindowHides \/ WindowDestroyed
Loads == (\E available, hooked \in BOOLEAN : LoadSucceeds(available, hooked))
         \/ (\E filled \in BOOLEAN : LoadFails(filled))
User ==
    \/ StartupToggled \/ (\E l \in Language : LanguageSelected(l))
    \/ (\E at \in {Default, "moved"}, shape \in {"normal", "iconic"} : Moved(at, shape))
    \/ ResetWindowPlacement \/ ShowHelpPage \/ BackClicked
    \/ (\E ok \in BOOLEAN : CopyDiagnosticsButton_Click(ok))
    \/ (\E message \in BOOLEAN : CloseBegins(message))

Next == Owner \/ Turns \/ Loads \/ User \/ CommitPlacementNow \/ CopyDiagnosticsEnds

---------------------------------------------------------------------------
\* What the window changes by itself it never asks for: every request for the
\* startup task or the language is one the user made, however the owner's
\* snapshots and the host's events interleave with the user's choices.
OnlyTheUserAsks == said.wishes = said.toggles /\ said.languages = said.picks

\* Once nothing is under way, the switch of an open window shows the owner's
\* newest snapshot and can be used exactly when no answer is awaited, though
\* snapshots, the user's toggles and the events about both overtake each other.
SwitchShowsTheOwner ==
    /\ form.life = "open" /\ toggle.subscribed
    /\ owner.inbox = <<>> /\ owner.outbox = <<>> /\ queue.startup = <<>>
    => /\ toggle.enabled = ~owner.snapshot.busy
       /\ owner.snapshot.known => toggle.on = owner.snapshot.enabled

\* A place the user has touched is saved or about to be, through WM_CLOSE and
\* the hiding that follows it, and a reset leaves nothing saved behind it.
PlacementIsKept ==
    LET heard == form.life = "open" \/ form.saved
    IN  /\ place.touched /\ ~form.timer /\ place.shape = "normal" /\ heard /\ (form.hooked \/ form.closed)
            => settings.bounds = place.at
        /\ place.reset /\ ~place.touched /\ form.life = "open" => settings.bounds = NoBounds

\* The page last asked for is the page shown, also when it was asked for
\* before there was anything to show; and the copy button waits for its copy.
FormShowsWhatWasAsked ==
    /\ form.init = "Succeeded" => form.shown = form.asked
    /\ copy.enabled = ~copy.inProgress

\* Left alone the window has loaded, the language selected is the one set, the
\* place is saved and no answer is owed to anyone; or the window is gone.
AtRest ==
    \/ form.life = "gone"
    \/ /\ form.loaded /\ ~form.timer /\ ~copy.inProgress
       /\ queue.language = <<>> /\ form.language = settings.language
       /\ toggle.subscribed => toggle.enabled

=============================================================================
