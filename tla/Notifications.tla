---------------------------- MODULE Notifications ----------------------------
(***************************************************************************)
(* NotificationService.cpp and RatingPromptPolicy.cpp: the toasts.  The    *)
(* service lives on the UI thread, but two of the calls it makes to the    *)
(* system, Register and Show, may pump that thread's queue, so events,     *)
(* activations and Teardown can run inside them.  A status toast replaces  *)
(* the one before it, by an asynchronous removal of the older tag; the     *)
(* rating prompt is shown once in the life of the installation.            *)
(***************************************************************************)
EXTENDS Naturals, FiniteSets

CONSTANTS
    Device,
    MinDays,    \* c_minDaysSinceFirstLaunch
    MinUsage,   \* c_minUsageDays
    Worlds,     \* what the settings may be in the beginning
    Budgets     \* initializations, teardowns, shows, presses, faults, changes

VARIABLES
    svc,        \* the members of NotificationService
    os,         \* AppNotificationManager: handlers, by generation, and whether registered
    toasts,     \* the toasts on the screen or in the notification centre
    removal,    \* RemoveStaleStatusToastsAsync: tags to be removed, tags it failed to remove
    frame,      \* the system call the UI thread is in, if any
    queue,      \* activations in the UI thread's queue
    world,      \* the settings and the devices, as the controller's snapshot has them
    outcome,    \* Reconnect commands given and review pages opened, by the toast's generation
    budget

vars == <<svc, os, toasts, removal, frame, queue, world, outcome, budget>>

Spend(k) == budget[k] > 0 /\ budget' = [budget EXCEPT ![k] = @ - 1]

NoTag == 0

Init ==
    /\ svc = [tearing |-> FALSE, gen |-> 0, registered |-> FALSE, tag |-> NoTag,
              showing |-> FALSE, tags |-> 0]
    /\ os = [handlers |-> {}, registered |-> FALSE]
    /\ toasts = {} /\ frame = {} /\ queue = {}
    /\ removal = [pending |-> {}, failed |-> {}]
    /\ world \in Worlds
    /\ outcome = {}
    /\ budget \in Budgets

---------------------------------------------------------------------------
(***************************************************************************)
(* Initialize: after a Teardown, a handler is added and the application    *)
(* registered; a Teardown that ran inside Register wins, and the guard     *)
(* takes the handler and the registration back.                            *)
(***************************************************************************)
AfterTeardown(s) ==
    [s EXCEPT !.tearing = TRUE, !.gen = @ + 1, !.registered = FALSE, !.tag = NoTag]

Revoked(s, o) ==
    IF s.registered THEN [handlers |-> o.handlers \ {s.gen}, registered |-> FALSE] ELSE o

InitializeBegins(supported) ==
    /\ frame = {}
    /\ Spend("initializations")
    /\ svc' = AfterTeardown(svc)
    /\ IF supported
       THEN /\ os' = [Revoked(svc, os) EXCEPT !.handlers = @ \cup {svc.gen + 1}]
            /\ frame' = {[op |-> "register", gen |-> svc.gen + 1, kind |-> "none", tag |-> NoTag]}
       ELSE os' = Revoked(svc, os) /\ UNCHANGED frame
    /\ UNCHANGED <<toasts, removal, queue, world, outcome>>

\* registrationGuard: the handler is revoked, and Unregister undoes whatever Register did.
RollBack(g) == [handlers |-> os.handlers \ {g}, registered |-> FALSE]

StillCurrent(f) == f.gen = svc.gen
AnyTimeCurrent(f) == TRUE
RegistrationStands(f) == StillCurrent(f)

RegisterReturns ==
    \E f \in frame :
        /\ f.op = "register"
        /\ frame' = {}
        /\ IF RegistrationStands(f)
           THEN /\ os' = [os EXCEPT !.registered = TRUE]
                /\ svc' = [svc EXCEPT !.registered = TRUE, !.tearing = FALSE]
           ELSE os' = RollBack(f.gen) /\ UNCHANGED svc
        /\ UNCHANGED <<toasts, removal, queue, world, outcome, budget>>

RegisterFails ==
    \E f \in frame :
        /\ f.op = "register"
        /\ Spend("faults")
        /\ frame' = {}
        /\ os' = RollBack(f.gen)
        /\ UNCHANGED <<svc, toasts, removal, queue, world, outcome>>

\* Teardown, by the host or inside a pumping system call.
Teardown ==
    /\ Spend("teardowns")
    /\ os' = Revoked(svc, os)
    /\ svc' = AfterTeardown(svc)
    /\ UNCHANGED <<toasts, removal, frame, queue, world, outcome>>

---------------------------------------------------------------------------
(***************************************************************************)
(* ShowToast.  The tag is new in every call; a toast that appeared while   *)
(* the service was torn down is removed again, and a status toast takes    *)
(* the place of the one before it.                                         *)
(***************************************************************************)
MayShow == ~svc.tearing /\ svc.registered /\ ~svc.showing
MayShowAgain == ~svc.tearing /\ svc.registered
CanShow == MayShow

ShowBegins(kind, action, device, label) ==
    /\ CanShow
    /\ svc' = [svc EXCEPT !.showing = TRUE, !.tags = @ + 1]
    /\ frame' = frame \cup
         {[op |-> "show", gen |-> svc.gen, kind |-> kind, tag |-> svc.tags + 1]}
    /\ toasts' = toasts \cup
         {[tag |-> svc.tags + 1, kind |-> kind, gen |-> svc.gen, action |-> action,
           device |-> device, label |-> label]}

Remove(tag) ==
    removal' = IF tag = NoTag THEN removal ELSE [removal EXCEPT !.pending = @ \cup {tag}]

\* MaybeShowRatingPrompt marks the prompt as asked only once Show succeeded.
AskedAfter(f) == IF f.kind = "rating" THEN [world EXCEPT !.rating.asked = TRUE] ELSE world

ShowReturns ==
    \E f \in frame :
        /\ f.op = "show"
        /\ \A g \in frame : g.tag <= f.tag
        /\ frame' = frame \ {f}
        /\ IF svc.tearing \/ ~StillCurrent(f)
           THEN /\ Remove(f.tag)
                /\ svc' = [svc EXCEPT !.showing = FALSE]
                /\ UNCHANGED world
           ELSE /\ IF f.kind = "status"
                   THEN /\ Remove(svc.tag)
                        /\ svc' = [svc EXCEPT !.showing = FALSE, !.tag = f.tag]
                   ELSE /\ svc' = [svc EXCEPT !.showing = FALSE]
                        /\ UNCHANGED removal
                /\ world' = AskedAfter(f)
        /\ UNCHANGED <<os, toasts, queue, outcome, budget>>

\* Show throws and the toast does not appear: nothing else changes.
ShowFails ==
    \E f \in frame :
        /\ f.op = "show"
        /\ \A g \in frame : g.tag <= f.tag
        /\ Spend("faults")
        /\ frame' = frame \ {f}
        /\ toasts' = {t \in toasts : t.tag # f.tag}
        /\ svc' = [svc EXCEPT !.showing = FALSE]
        /\ UNCHANGED <<os, removal, queue, world, outcome>>

---------------------------------------------------------------------------
(***************************************************************************)
(* What is shown: the notice that the application runs, the four device    *)
(* events, and the rating prompt.  Each reads the controller's snapshot.   *)
(***************************************************************************)
MayNotify == ~svc.tearing /\ world.running /\ world.show

ShowAppStarted ==
    /\ MayNotify
    /\ Spend("shows")
    /\ ShowBegins("status", "none", {}, "none")
    /\ UNCHANGED <<os, removal, queue, world, outcome>>

\* The name on the toast: the alias, and otherwise nothing that privacy mode hides.
NotificationName(d) ==
    CASE d \in world.aliased -> "alias"
      [] d \notin world.aliased /\ world.privacy -> "redacted"
      [] d \notin world.aliased /\ ~world.privacy /\ d \in world.named -> "name"
      [] OTHER -> "id"

IsShown(event, d) ==
    /\ event.kind = "Disconnected" => event.notifyUser
    /\ event.kind = "Connected" => d \in world.connected

ActionOf(kind) ==
    CASE kind = "Connected" -> "reconnect"
      [] kind = "AutoReconnectFailed" -> "retry"
      [] OTHER -> "none"

Events ==
    [kind : {"Connected", "AutoReconnectTriggered", "AutoReconnectFailed"}, notifyUser : {FALSE}]
    \cup [kind : {"Disconnected"}, notifyUser : BOOLEAN]

HandleEvent(event, d) ==
    /\ MayNotify /\ IsShown(event, d)
    /\ Spend("shows")
    /\ ShowBegins("status", ActionOf(event.kind), {d}, NotificationName(d))
    /\ UNCHANGED <<os, removal, queue, world, outcome>>

\* IsRatingPromptEligible; a date is the set of the day it names, empty if it does not parse.
IsRatingPromptEligible(rating, today) ==
    /\ ~rating.asked
    /\ \E t \in today, first \in rating.firstLaunch : t >= first + MinDays
    /\ rating.usageDays >= MinUsage

MaybeShowRatingPrompt ==
    /\ MayNotify
    /\ world.store    \* RatingPromptEnabled: the package holds the Store's marker
    /\ IsRatingPromptEligible(world.rating, world.today)
    /\ Spend("shows")
    /\ ShowBegins("rating", "rate", {}, "none")
    /\ UNCHANGED <<os, removal, queue, world, outcome>>

---------------------------------------------------------------------------
(***************************************************************************)
(* The system: a removal ends, a toast expires, the user presses one and   *)
(* the handlers queue the activation; the settings and devices change.     *)
(***************************************************************************)
RemovalEnds(tag, ok) ==
    /\ tag \in removal.pending
    /\ IF ok
       THEN /\ toasts' = {t \in toasts : t.tag # tag}
            /\ removal' = [removal EXCEPT !.pending = @ \ {tag}]
            /\ UNCHANGED budget
       ELSE /\ Spend("faults")
            /\ removal' = [pending |-> removal.pending \ {tag}, failed |-> removal.failed \cup {tag}]
            /\ UNCHANGED toasts
    /\ UNCHANGED <<svc, os, frame, queue, world, outcome>>

Pressed(t) ==
    /\ t \in toasts
    /\ Spend("presses")
    /\ toasts' = toasts \ {t}
    /\ queue' = queue \cup {[gen |-> g, action |-> t.action, device |-> t.device] : g \in os.handlers}
    /\ UNCHANGED <<svc, os, removal, frame, world, outcome>>

\* The queued lambda and OnNotificationInvoked.
IsHeeded(a) == ~svc.tearing /\ a.gen = svc.gen
IsHeededWhenUp(a) == ~svc.tearing
Heeds(a) == IsHeeded(a)

OnNotificationInvoked(a) ==
    /\ a \in queue
    /\ queue' = queue \ {a}
    /\ outcome' = outcome \cup
         IF Heeds(a) /\ (a.action = "rate" \/ (a.action \in {"reconnect", "retry"} /\ a.device # {}))
         THEN {[action |-> a.action, device |-> a.device, pressed |-> a.gen, done |-> svc.gen]} ELSE {}
    /\ UNCHANGED <<svc, os, toasts, removal, frame, world, budget>>

WorldChanges ==
    /\ Spend("changes")
    /\ \/ world' = [world EXCEPT !.running = FALSE]
       \/ world' = [world EXCEPT !.show = ~@]
       \/ \E d \in Device : world' = [world EXCEPT !.connected =
            IF d \in @ THEN @ \ {d} ELSE @ \cup {d}]
    /\ UNCHANGED <<svc, os, toasts, removal, frame, queue, outcome>>

Next ==
    \/ \E b \in BOOLEAN : InitializeBegins(b)
    \/ RegisterReturns
    \/ RegisterFails
    \/ Teardown
    \/ ShowReturns
    \/ ShowFails
    \/ ShowAppStarted
    \/ \E event \in Events, d \in Device : HandleEvent(event, d)
    \/ MaybeShowRatingPrompt
    \/ \E tag \in removal.pending, ok \in BOOLEAN : RemovalEnds(tag, ok)
    \/ \E t \in toasts : Pressed(t)
    \/ \E a \in queue : OnNotificationInvoked(a)
    \/ WorldChanges

Spec == Init /\ [][Next]_vars

---------------------------------------------------------------------------
(***************************************************************************)
(* Outside the system's calls the registration is the service's own: the   *)
(* system has a handler exactly when the service is registered, and it is  *)
(* the current one, although a Teardown may have run inside Register.      *)
(***************************************************************************)
RegistrationIsOwned ==
    frame = {} =>
        /\ os.registered = svc.registered
        /\ os.handlers = IF svc.registered THEN {svc.gen} ELSE {}

(***************************************************************************)
(* Outside the system's calls every status toast of this registration is   *)
(* the current one or on its way out, and the current one is never on its  *)
(* way out; a rating prompt that stays is marked as asked and is the only  *)
(* one; in privacy mode a toast names no device but by its alias.          *)
(***************************************************************************)
Staying == {t \in toasts : t.tag \notin removal.pending \cup removal.failed}

ToastsAreAccountedFor ==
    /\ frame = {} =>
         /\ \A t \in Staying : (t.kind = "status" /\ t.gen = svc.gen) => t.tag = svc.tag
         /\ \A t \in Staying : t.kind = "rating" => world.rating.asked
    /\ svc.tag \notin removal.pending \cup removal.failed
    /\ Cardinality({t \in Staying : t.kind = "rating"}) <= 1
    /\ world.privacy => \A t \in toasts : t.label \notin {"name", "id"}

(***************************************************************************)
(* An activation takes effect only in the registration whose handler       *)
(* queued it: nothing is reconnected for a service that was torn down in   *)
(* between, even if it is up again (the generation in Initialize's lambda).*)
(***************************************************************************)
ActivationsAreCurrent == \A o \in outcome : o.pressed = o.done
===============================================================================
