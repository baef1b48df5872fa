------------------------------ MODULE PickerView ------------------------------
(***************************************************************************)
(* DevicePickerView.xaml.cpp and DevicePickerViewState.cpp: what the       *)
(* device picker shows.  The list and the page of one device's options are *)
(* drawn from the controller's snapshot when the host passes on that       *)
(* something changed; a background task brings the inventory up to date;   *)
(* the user edits an alias and presses buttons in between.  Everything but *)
(* the background task runs on the UI thread.                              *)
(***************************************************************************)
EXTENDS Naturals, FiniteSets

CONSTANTS
    Device,
    Text,       \* what the alias box may hold
    Trim(_),    \* the text without surrounding white space
    Policy,     \* the per-device switches: connect on startup, reconnect on connection loss
    Scenarios   \* the snapshot in the beginning, and how many clicks, edits, changes,
                \* faults and ends there are

VARIABLES
    world,      \* AppController::Snapshot
    view,       \* the members and the controls of DevicePickerView
    refresh,    \* RefreshDevicesAsync: tasks under way, tasks not stopped, the newest one
    posted,     \* c_visualRefresh flags the host has asked for
    completed,  \* animations whose completion is in the queue, by generation
    typed,      \* what the user typed into the alias box and has not saved, and for which device
    budget

vars == <<world, view, refresh, posted, completed, typed, budget>>

Spend(k) == budget[k] > 0 /\ budget' = [budget EXCEPT ![k] = @ - 1]

---------------------------------------------------------------------------
(***************************************************************************)
(* BuildDevicePickerViewState and BuildDeviceOptionsViewState.  A device   *)
(* is listed when it is available or saved or the default.                 *)
(***************************************************************************)
Items(w) == {d \in Device : w.at[d] # "away"} \cup w.saved \cup w.default

DisplayName(w, d) ==
    CASE w.alias[d] # "" -> w.alias[d]
      [] w.alias[d] = "" /\ w.privacy -> "redacted"
      [] OTHER -> "name"

Row(w, d) ==
    [id |-> d, name |-> DisplayName(w, d), at |-> w.at[d], default |-> d \in w.default]

OptionsPage(w, d) ==
    [name |-> DisplayName(w, d), default |-> d \in w.default, clearable |-> w.alias[d] # "",
     on |-> w.global \cup w.policy[d], locked |-> w.global,
     forgettable |-> d \in w.saved /\ w.at[d] \notin {"connected", "busy"}]

NoPage == [name |-> "", default |-> FALSE, clearable |-> FALSE, on |-> {}, locked |-> {},
           forgettable |-> FALSE]

\* The rows, the buttons for all devices and the button for the saved ones.
VisibleRows(w, expanded) ==
    [rows |-> {Row(w, d) : d \in {e \in Items(w) : w.at[e] # "away" \/ expanded}},
     all |-> Cardinality({d \in Device : w.at[d] = "connected"}) > 1,
     busy |-> \E d \in Device : w.at[d] = "busy",
     others |-> \E d \in Items(w) : w.at[d] = "away"]

NoRows == [rows |-> {}, all |-> FALSE, busy |-> FALSE, others |-> FALSE]

NewView ==
    [options |-> {}, page |-> NoPage, box |-> "", savedAlias |-> "", error |-> FALSE,
     list |-> NoRows, drawn |-> {}, expanded |-> FALSE, active |-> FALSE, released |-> FALSE,
     loading |-> FALSE, animation |-> {}, navigations |-> 0]

Init ==
    /\ \E s \in Scenarios : world = s.world /\ budget = s.budget
    /\ view = [NewView EXCEPT !.list = VisibleRows(world, FALSE), !.drawn = {world.gen}]
    /\ refresh = [running |-> {}, queued |-> {}, live |-> {}, newest |-> 0]
    /\ posted = {} /\ completed = {} /\ typed = {}

---------------------------------------------------------------------------
(***************************************************************************)
(* The functions of the view, as what they make of the view v when the     *)
(* snapshot is w.                                                          *)
(***************************************************************************)
StopNavigationAnimation(v) == [v EXCEPT !.animation = {}, !.navigations = @ + 1]

\* AnimateNavigation; none while the picker is hidden or the user has switched animations off.
AnimateNavigation(v) ==
    IF ~v.active \/ ~world.animated THEN v
    ELSE [v EXCEPT !.navigations = @ + 1,
                   !.animation = {[gen |-> v.navigations + 1, page |-> v.options]}]

DrawList(v, w) == [v EXCEPT !.list = VisibleRows(w, v.expanded), !.drawn = {w.gen}]

ShowDeviceList(v, w) ==
    AnimateNavigation(DrawList(StopNavigationAnimation([v EXCEPT !.options = {}, !.page = NoPage]), w))

\* RefreshDeviceOptions: an edited alias stays in the box.
TakesAlias(v, reset) == reset \/ v.box = v.savedAlias
TakesAliasAlways(v, reset) == TRUE
ResetsAlias(v, reset) == TakesAlias(v, reset)

RefreshDeviceOptions(v, w, reset) ==
    CASE v.options = {} -> v
      [] v.options # {} /\ ~(v.options \subseteq Items(w)) -> ShowDeviceList(v, w)
      [] OTHER ->
           LET d == CHOOSE e \in v.options : TRUE
               alias == w.alias[d]
           IN  [v EXCEPT !.page = OptionsPage(w, d),
                         !.savedAlias = IF ResetsAlias(v, reset) THEN alias ELSE @,
                         !.box = IF ResetsAlias(v, reset) THEN alias ELSE @]

\* RenderDeviceList: a change of the snapshot that is already drawn is not drawn again.
IsDrawn(v, w) == w.gen \in v.drawn
IsDrawnOnce(v, w) == v.drawn # {}
NeedsNoDrawing(v, w) == IsDrawn(v, w)

RenderDeviceList(v, w, reason) ==
    IF v.released THEN v
    ELSE LET r == RefreshDeviceOptions(v, w, FALSE)
         IN  IF reason = "SnapshotChanged" /\ NeedsNoDrawing(r, w) THEN r ELSE DrawList(r, w)

\* LoadDevices starts a task when none is under way and the inventory is incomplete.
StartsLoading(v, w) == ~v.released /\ ~v.loading /\ ~w.complete

LoadDevices(v, w) ==
    [RenderDeviceList(v, w, "SnapshotChanged") EXCEPT !.loading = @ \/ StartsLoading(v, w)]

RefreshBegins(v, w) ==
    IF StartsLoading(v, w)
    THEN [refresh EXCEPT !.newest = @ + 1, !.running = @ \cup {refresh.newest + 1},
                         !.live = @ \cup {refresh.newest + 1}]
    ELSE refresh

CancelLoadDevices(v) == [v EXCEPT !.loading = FALSE]
StopOfNewest == [refresh EXCEPT !.live = @ \ {refresh.newest}]
NoStop == refresh
RequestStop == StopOfNewest

---------------------------------------------------------------------------
(***************************************************************************)
(* The controller's commands, as far as they change the snapshot; every    *)
(* change is announced to the host, which asks for a redraw.               *)
(***************************************************************************)
Announced(w) == [w EXCEPT !.gen = @ + 1]

WithAlias(w, d, alias) ==
    IF w.alias[d] = alias THEN w
    ELSE IF d \in w.saved THEN Announced([w EXCEPT !.alias[d] = alias])
    ELSE Announced([w EXCEPT !.saved = @ \cup {d}, !.alias[d] = alias, !.policy[d] = w.global])

Exists(w, d) == w.at[d] # "away" \/ d \in w.saved

WithDefault(w, default) ==
    IF w.default = default THEN w ELSE Announced([w EXCEPT !.default = default])

WithPolicy(w, d, p) ==
    IF d \notin w.saved THEN w
    ELSE Announced([w EXCEPT !.policy[d] = IF p \in @ THEN @ \ {p} ELSE @ \cup {p}])

Forgotten(w, d) ==
    Announced([w EXCEPT !.saved = @ \ {d}, !.default = @ \ {d}, !.alias[d] = "", !.policy[d] = {}])

Settings == {"state", "inventory"}
PostedBy(w, flags) == IF w = world THEN posted ELSE posted \cup flags

\* A command is refused when the store or the controller refuses it.
Refusable(ok) == IF ok THEN UNCHANGED budget ELSE Spend("faults")

---------------------------------------------------------------------------
(***************************************************************************)
(* SaveDeviceAlias, as the view, the snapshot and the answer it leaves.    *)
(***************************************************************************)
SaveDeviceAlias(v, w, accepted) ==
    IF v.released \/ v.options = {} THEN [view |-> v, world |-> w, ok |-> TRUE]
    ELSE LET d == CHOOSE e \in v.options : TRUE
             alias == Trim(v.box)
             after == WithAlias(w, d, alias)
         IN  IF alias = v.savedAlias
             THEN [view |-> [v EXCEPT !.box = alias], world |-> w, ok |-> TRUE]
             ELSE IF ~accepted \/ ~Exists(w, d)
             THEN [view |-> [v EXCEPT !.error = TRUE], world |-> w, ok |-> FALSE]
             ELSE [view |-> RefreshDeviceOptions([v EXCEPT !.savedAlias = alias, !.box = alias,
                                                           !.error = FALSE], after, FALSE),
                   world |-> after, ok |-> TRUE]

OnOptions == view.active /\ ~view.released /\ view.options # {}
OnList == view.active /\ ~view.released /\ view.options = {}

\* What the user typed is settled by a save, and moot when the page is left.
StillTyped(v, saved) == IF saved \/ v.options = {} THEN {} ELSE typed

Becomes(v, w, flags) ==
    /\ view' = v
    /\ world' = w
    /\ posted' = PostedBy(w, flags)

EditAlias(text) ==
    /\ OnOptions
    /\ text # view.box
    /\ Spend("edits")
    /\ view' = [view EXCEPT !.box = text]
    /\ typed' = IF text = view.savedAlias THEN {} ELSE {[device |-> view.options, text |-> text]}
    /\ UNCHANGED <<world, refresh, posted, completed>>

\* The box loses the focus, Enter is pressed, or the settings are opened.
AliasIsSaved(accepted) ==
    /\ OnOptions
    /\ Refusable(accepted)
    /\ \E s \in {SaveDeviceAlias(view, world, accepted)} :
         /\ Becomes(s.view, s.world, Settings)
         /\ typed' = StillTyped(s.view, s.ok)
    /\ UNCHANGED <<refresh, completed>>

ReturnToDeviceList(accepted) ==
    /\ OnOptions
    /\ Refusable(accepted)
    /\ \E s \in {SaveDeviceAlias(view, world, accepted)} :
         /\ Becomes(IF s.ok THEN ShowDeviceList(s.view, s.world) ELSE s.view, s.world, Settings)
         /\ typed' = StillTyped(s.view, s.ok)
    /\ UNCHANGED <<refresh, completed>>

ShowDeviceOptions(d) ==
    /\ OnList
    /\ \E r \in view.list.rows : r.id = d
    /\ d \in Items(world)
    /\ Spend("clicks")
    /\ view' = AnimateNavigation(RefreshDeviceOptions(
                 [StopNavigationAnimation(view) EXCEPT !.options = {d}, !.error = FALSE], world, TRUE))
    /\ UNCHANGED <<world, refresh, posted, completed, typed>>

SavedDevicesClicked ==
    /\ OnList /\ view.list.others
    /\ Spend("clicks")
    /\ view' = RenderDeviceList([view EXCEPT !.expanded = ~@], world, "PresentationChanged")
    /\ UNCHANGED <<world, refresh, posted, completed, typed>>

ApplyLanguage ==
    /\ ~view.released
    /\ Spend("clicks")
    /\ view' = RenderDeviceList(view, world, "PresentationChanged")
    /\ typed' = StillTyped(view', FALSE)
    /\ UNCHANGED <<world, refresh, posted, completed>>

---------------------------------------------------------------------------
(***************************************************************************)
(* The controls of the options page.                                       *)
(***************************************************************************)
TheDevice == CHOOSE d \in view.options : TRUE

ClearAliasClicked(accepted) ==
    /\ OnOptions /\ view.page.clearable
    /\ Refusable(accepted)
    /\ \E w \in {WithAlias(world, TheDevice, "")} :
         IF accepted /\ Exists(world, TheDevice)
         THEN /\ Becomes(RenderDeviceList(RefreshDeviceOptions([view EXCEPT !.error = FALSE], w, TRUE),
                                          w, "PresentationChanged"), w, Settings)
              /\ typed' = {}
         ELSE view' = [view EXCEPT !.error = TRUE] /\ UNCHANGED <<world, posted, typed>>
    /\ UNCHANGED <<refresh, completed>>

\* A toggle shows what was applied, whatever was pressed.
Toggled(w, failed, drawsList) ==
    LET v == RefreshDeviceOptions([view EXCEPT !.error = @ \/ failed], w, FALSE)
    IN  IF drawsList THEN RenderDeviceList(v, w, "PresentationChanged") ELSE v

DefaultToggled(accepted) ==
    /\ OnOptions
    /\ budget.clicks > 0
    /\ budget' = [budget EXCEPT !.clicks = @ - 1]
    /\ \E w \in {IF ~accepted THEN world
                 ELSE IF view.page.default
                 THEN WithDefault(world, world.default \ view.options)
                 ELSE WithDefault(world, view.options)} :
         \E v \in {Toggled(w, ~accepted, TRUE)} :
            Becomes(v, w, Settings) /\ typed' = StillTyped(v, FALSE)
    /\ UNCHANGED <<refresh, completed>>

PolicyToggled(p, accepted) ==
    /\ OnOptions /\ p \notin view.page.locked
    /\ Spend("clicks")
    /\ \E w \in {IF accepted THEN WithPolicy(world, TheDevice, p) ELSE world} :
         \E v \in {Toggled(w, ~accepted, FALSE)} :
            Becomes(v, w, Settings) /\ typed' = StillTyped(v, FALSE)
    /\ UNCHANGED <<refresh, completed>>

\* Forgetting leaves the page by ReturnToDeviceList, which saves the alias if
\* the text in the box has white space around it.
ForgetClicked(accepted) ==
    /\ OnOptions /\ view.page.forgettable
    /\ Refusable(accepted)
    /\ IF accepted /\ OptionsPage(world, TheDevice).forgettable
       THEN \E w \in {Forgotten(world, TheDevice)} :
            \E s \in {SaveDeviceAlias([view EXCEPT !.savedAlias = view.box], w, TRUE)} :
               /\ Becomes(IF s.ok THEN ShowDeviceList(s.view, s.world) ELSE s.view, s.world, Settings)
               /\ typed' = {}
       ELSE view' = [view EXCEPT !.error = TRUE] /\ UNCHANGED <<world, posted, typed>>
    /\ UNCHANGED <<refresh, completed>>

---------------------------------------------------------------------------
(***************************************************************************)
(* Commands from the list, and the end of a presentation: the flyout's     *)
(* handler hides the view and stops the task.                              *)
(***************************************************************************)
Hidden(v) == CancelLoadDevices([StopNavigationAnimation(v) EXCEPT !.active = FALSE])

Starts(d) == Announced([world EXCEPT !.at[d] = "busy"])

DeviceClicked(d, taken) ==
    /\ OnList
    /\ \E r \in view.list.rows : r.id = d /\ r.at \in {"here", "connected"}
    /\ Spend("clicks")
    /\ Becomes(Hidden(view), IF taken THEN Starts(d) ELSE world, {"state"})
    /\ refresh' = RequestStop
    /\ UNCHANGED <<completed, typed>>

AllStart ==
    Announced([world EXCEPT !.at = [d \in Device |-> IF @[d] = "connected" THEN "busy" ELSE @[d]]])

AllDevicesClicked ==
    /\ OnList /\ view.list.all /\ ~view.list.busy
    /\ Spend("clicks")
    /\ Becomes(RenderDeviceList(view, AllStart, "SnapshotChanged"), AllStart, {"state"})
    /\ UNCHANGED <<refresh, completed, typed>>

CloseClicked(accepted) ==
    /\ view.active /\ ~view.released
    /\ Refusable(accepted)
    /\ \E s \in {SaveDeviceAlias(view, world, accepted)} :
         /\ Becomes(IF s.ok THEN Hidden(s.view) ELSE s.view, s.world, Settings)
         /\ refresh' = IF s.ok THEN RequestStop ELSE refresh
         /\ typed' = StillTyped(s.view, s.ok)
    /\ UNCHANGED completed

FlyoutCloses ==
    /\ view.active
    /\ view' = Hidden(view)
    /\ refresh' = RequestStop
    /\ UNCHANGED <<world, posted, completed, typed, budget>>

Presented(v, w) ==
    /\ view' = LoadDevices(v, w)
    /\ refresh' = RefreshBegins(v, w)
    /\ typed' = StillTyped(view', FALSE)

\* ShowDevicePicker; with shown FALSE, the preload.
Presents(shown) ==
    /\ ~view.active /\ ~view.released
    /\ Spend("clicks")
    /\ Presented([view EXCEPT !.active = shown], world)
    /\ UNCHANGED <<world, posted, completed>>

PrepareForRelease ==
    /\ ~view.released
    /\ Spend("ends")
    /\ view' = [NewView EXCEPT !.released = TRUE, !.navigations = view.navigations + 1]
    /\ refresh' = RequestStop
    /\ typed' = {}
    /\ UNCHANGED <<world, posted, completed>>

---------------------------------------------------------------------------
(***************************************************************************)
(* What the UI thread's queue brings: the host's redraw, the end of a task *)
(* and the end of an animation.                                            *)
(***************************************************************************)
RefreshDeviceVisuals ==
    /\ posted # {}
    /\ posted' = {}
    /\ \E v \in {IF "inventory" \in posted THEN RenderDeviceList(view, world, "SnapshotChanged") ELSE view} :
         IF "inventory" \in posted /\ v.active
         THEN Presented(v, world)
         ELSE /\ view' = IF "state" \in posted /\ v.active
                         THEN RenderDeviceList(v, world, "SnapshotChanged") ELSE v
              /\ typed' = StillTyped(view', FALSE)
              /\ UNCHANGED refresh
    /\ UNCHANGED <<world, completed, budget>>

RefreshEnds(r) ==
    /\ r \in refresh.queued
    /\ refresh' = [refresh EXCEPT !.queued = @ \ {r}, !.live = @ \ {r}]
    /\ view' = IF r \in refresh.live /\ ~view.released
               THEN RenderDeviceList([view EXCEPT !.loading = FALSE], world, "SnapshotChanged") ELSE view
    /\ typed' = StillTyped(view', FALSE)
    /\ UNCHANGED <<world, posted, completed, budget>>

AnimationEnds ==
    \E a \in view.animation :
        /\ a.gen \notin completed
        /\ completed' = completed \cup {a.gen}
        /\ UNCHANGED <<world, view, refresh, posted, typed, budget>>

AnimationCompleted(g) ==
    /\ g \in completed
    /\ completed' = completed \ {g}
    /\ view' = IF view.navigations = g THEN StopNavigationAnimation(view) ELSE view
    /\ UNCHANGED <<world, refresh, posted, typed, budget>>

---------------------------------------------------------------------------
(***************************************************************************)
(* The background task, and what happens to the devices and settings       *)
(* elsewhere.                                                              *)
(***************************************************************************)
ListDevices(r, found) ==
    /\ r \in refresh.running
    /\ refresh' = [refresh EXCEPT !.running = @ \ {r}, !.queued = @ \cup {r}]
    /\ IF r \in refresh.live /\ found
       THEN /\ world' = Announced([world EXCEPT !.complete = TRUE])
            /\ posted' = posted \cup {"inventory"}
       ELSE UNCHANGED <<world, posted>>
    /\ Refusable(found \/ r \notin refresh.live)
    /\ UNCHANGED <<view, completed, typed>>

DeviceChanges(d, at) ==
    /\ world.at[d] # at
    /\ Spend("changes")
    /\ world' = Announced([world EXCEPT !.at[d] = at])
    /\ posted' = posted \cup IF "away" \in {at, world.at[d]} THEN {"inventory"} ELSE {"state"}
    /\ UNCHANGED <<view, refresh, completed, typed>>

InventoryIsLost ==
    /\ world.complete
    /\ Spend("changes")
    /\ world' = Announced([world EXCEPT !.complete = FALSE])
    /\ posted' = posted \cup {"inventory"}
    /\ UNCHANGED <<view, refresh, completed, typed>>

SettingsChange ==
    /\ Spend("changes")
    /\ \E d \in Device :
         \/ \E text \in {Trim(t) : t \in Text} \ {world.alias[d]} :
                Exists(world, d) /\ world' = WithAlias(world, d, text)
         \/ d \in world.saved /\ world.at[d] \notin {"connected", "busy"} /\ world' = Forgotten(world, d)
         \/ world' = WithDefault(world, {d})
         \/ world' = Announced([world EXCEPT !.global = Policy \ @])
    /\ world' # world
    /\ posted' = posted \cup Settings
    /\ UNCHANGED <<view, refresh, completed, typed>>

Buttons(accepted) ==
    \/ AliasIsSaved(accepted)
    \/ ReturnToDeviceList(accepted)
    \/ ClearAliasClicked(accepted)
    \/ DefaultToggled(accepted)
    \/ \E p \in Policy : PolicyToggled(p, accepted)
    \/ ForgetClicked(accepted)
    \/ CloseClicked(accepted)

Queue ==
    \/ RefreshDeviceVisuals
    \/ \E r \in refresh.queued : RefreshEnds(r)
    \/ \E g \in completed : AnimationCompleted(g)

Works == \E r \in refresh.running : ListDevices(r, TRUE)

Next ==
    \/ \E text \in Text : EditAlias(text)
    \/ \E ok \in BOOLEAN : Buttons(ok)
    \/ \E d \in Device : ShowDeviceOptions(d)
    \/ SavedDevicesClicked
    \/ ApplyLanguage
    \/ \E d \in Device, taken \in BOOLEAN : DeviceClicked(d, taken)
    \/ AllDevicesClicked
    \/ FlyoutCloses
    \/ \E shown \in BOOLEAN : Presents(shown)
    \/ PrepareForRelease
    \/ Queue
    \/ AnimationEnds
    \/ \E r \in refresh.running, found \in BOOLEAN : ListDevices(r, found)
    \/ \E d \in Device, at \in {"away", "here", "connected", "busy"} : DeviceChanges(d, at)
    \/ InventoryIsLost
    \/ SettingsChange

---------------------------------------------------------------------------
(***************************************************************************)
(* With no redraw owed, a picker on the screen shows what is so: the list  *)
(* is the snapshot's, the options page is about a device there is and      *)
(* shows its switches as they are, and an alias nobody is editing is the   *)
(* device's.  The ring turns exactly while the one task nobody stopped is  *)
(* under way, and what fades in is the page that is shown.                 *)
(***************************************************************************)
ViewShowsTheSnapshot ==
    (view.active /\ ~view.released /\ posted = {}) =>
        /\ view.options = {} => view.list = VisibleRows(world, view.expanded)
        /\ \A d \in view.options :
             /\ d \in Items(world)
             /\ view.page = OptionsPage(world, d)
             /\ typed = {} => world.alias[d] = view.savedAlias

LoadingIsOneTask ==
    /\ Cardinality(refresh.live) = IF view.loading THEN 1 ELSE 0
    /\ refresh.live \subseteq refresh.running \cup refresh.queued
    /\ \A a \in view.animation : a.page = view.options

(***************************************************************************)
(* What the user typed into the alias box stays there, on the page of the  *)
(* device it was typed for, until it is saved or that page is gone: no     *)
(* redraw, switch or change elsewhere overwrites it (RefreshDeviceOptions).*)
(***************************************************************************)
UnsavedEditIsKept ==
    \A t \in typed : view.options = t.device /\ view.box = t.text

\* Left alone, the view has drawn what changed and loads nothing.
AtRest == posted = {} /\ ~view.loading
===============================================================================
