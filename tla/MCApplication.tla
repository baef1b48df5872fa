----------------------------- MODULE MCApplication -----------------------------
(***************************************************************************)
(* Instances of the modules around the UI thread, with the recovery after  *)
(* a suspend (PowerTransition, extended), the logger and the toasts.  They *)
(* do not interact in what they are checked for: a behaviour is about one  *)
(* of them, the subject, and the variables of the others are not used.     *)
(***************************************************************************)
EXTENDS PowerTransition, TLC

CONSTANTS s1, s2, c1, t1, x1, w1, w2, NoOne

VARIABLE subject

VARIABLES sOs, sRequests, sPublished, sWork, sAsync, sEntry, sLife, sBudget
VARIABLES rPending, rTicket, rPosted, rCaller, rTimer, rDrain, rFailures, rStopped, rBudget
VARIABLES hDispatcher, hNative, hWakeups, hCall, hUi, hBudget, hHost, hWindow, hLease, hServer
VARIABLES lState, lWriter, lQueue, lFile, lTail, lDumper, lCloser, lBudget
VARIABLES nSvc, nOs, nToasts, nRemoval, nFrame, nQueue, nWorld, nOutcome, nBudget

powerVars == vars
PowerUnused == Init         \* and no step of it: RecoveryIsExact is checked as it stands
startupVars == <<sOs, sRequests, sPublished, sWork, sAsync, sEntry, sLife, sBudget>>
StartupUnused ==
    /\ sOs = NoOne /\ sRequests = NoOne /\ sPublished = NoOne /\ sWork = NoOne
    /\ sAsync = NoOne /\ sEntry = NoOne /\ sLife = NoOne /\ sBudget = NoOne
refreshVars == <<rPending, rTicket, rPosted, rCaller, rTimer, rDrain, rFailures, rStopped, rBudget>>
RefreshUnused ==
    /\ rPending = NoOne /\ rTicket = NoOne /\ rPosted = NoOne /\ rCaller = NoOne
    /\ rTimer = NoOne /\ rDrain = NoOne /\ rFailures = NoOne /\ rStopped = NoOne
    /\ rBudget = NoOne
hostVars == <<hDispatcher, hNative, hWakeups, hCall, hUi, hBudget, hHost, hWindow, hLease, hServer>>
HostUnused ==
    /\ hDispatcher = NoOne /\ hNative = NoOne /\ hWakeups = NoOne /\ hCall = NoOne
    /\ hUi = NoOne /\ hBudget = NoOne /\ hHost = NoOne /\ hWindow = NoOne /\ hLease = NoOne
    /\ hServer = NoOne
logVars == <<lState, lWriter, lQueue, lFile, lTail, lDumper, lCloser, lBudget>>
LogUnused ==
    /\ lState = NoOne /\ lWriter = NoOne /\ lQueue = NoOne /\ lFile = NoOne
    /\ lTail = NoOne /\ lDumper = NoOne /\ lCloser = NoOne /\ lBudget = NoOne
toastVars == <<nSvc, nOs, nToasts, nRemoval, nFrame, nQueue, nWorld, nOutcome, nBudget>>
ToastsUnused ==
    /\ nSvc = NoOne /\ nOs = NoOne /\ nToasts = NoOne /\ nRemoval = NoOne /\ nFrame = NoOne
    /\ nQueue = NoOne /\ nWorld = NoOne /\ nOutcome = NoOne /\ nBudget = NoOne

StartupBudget(r, s, c, f, d) ==
    ("requests" :> r) @@ ("subscriptions" :> s) @@ ("changes" :> c) @@ ("faults" :> f) @@ ("stops" :> d)
StartupBudgets == {StartupBudget(3, 0, 1, 0, 0), StartupBudget(2, 2, 0, 0, 1), StartupBudget(2, 1, 1, 1, 0)}

RefreshBudget(r, f, s) == ("requests" :> r) @@ ("faults" :> f) @@ ("stops" :> s)
RefreshBudgets == {RefreshBudget(4, 2, 1), RefreshBudget(2, 3, 0)}

HostBudget(c, f, d, s, w) ==
    ("calls" :> c) @@ ("faults" :> f) @@ ("deadlines" :> d) @@ ("starts" :> s) @@ ("windows" :> w)
HostBudgets == {HostBudget(3, 1, 0, 0, 0), HostBudget(2, 3, 0, 0, 0),
                HostBudget(2, 0, 1, 0, 0), HostBudget(1, 0, 0, 1, 2)}

LogBudget(c, d, s, f, t) ==
    ("calls" :> c) @@ ("dumps" :> d) @@ ("stops" :> s) @@ ("faults" :> f) @@ ("timeouts" :> t)
LogBudgets == {LogBudget(3, 0, 1, 1, 0), LogBudget(2, 0, 2, 1, 1), LogBudget(3, 2, 0, 0, 0),
               LogBudget(1, 1, 1, 1, 0)}

ToastBudget(i, t, s, p, f, c) ==
    ("initializations" :> i) @@ ("teardowns" :> t) @@ ("shows" :> s) @@ ("presses" :> p)
    @@ ("faults" :> f) @@ ("changes" :> c)
ToastBudgets == {ToastBudget(2, 2, 1, 1, 1, 0), ToastBudget(1, 1, 2, 1, 1, 0), ToastBudget(1, 0, 3, 0, 1, 0),
                 ToastBudget(1, 0, 2, 1, 0, 2)}
ToastWorld(privacy, firstLaunch) ==
    [running |-> TRUE, show |-> TRUE, connected |-> {s1}, aliased |-> {}, named |-> {s1},
     privacy |-> privacy, store |-> TRUE, today |-> {3},
     rating |-> [asked |-> FALSE, firstLaunch |-> firstLaunch, usageDays |-> 1]]

Startup == INSTANCE StartupTask WITH
    Subscriber <- {s1, s2}, Budgets <- StartupBudgets, os <- sOs, requests <- sRequests,
    published <- sPublished, work <- sWork, async <- sAsync, entry <- sEntry, life <-
    sLife, budget <- sBudget

ASSUME StartupConstants == Startup!StartupAssumption

Refresh == INSTANCE UiRefresh WITH
    Flag <- {"visual", "error"}, RetryMask <- {"visual"}, MaxDelay <- 2, Budgets <-
    RefreshBudgets, pending <- rPending, ticket <- rTicket, posted <- rPosted, caller <-
    rCaller, timer <- rTimer, drain <- rDrain, failures <- rFailures, stopped <-
    rStopped, budget <- rBudget

AppHost == INSTANCE ApplicationHost WITH
    Caller <- {c1, t1, x1}, Waiter <- {c1, t1}, PipeCaller <- {c1}, Budgets <-
    HostBudgets, dispatcher <- hDispatcher, native <- hNative, wakeups <- hWakeups, call
    <- hCall, ui <- hUi, budget <- hBudget, host <- hHost, window <- hWindow, lease <-
    hLease, server <- hServer

Log == INSTANCE Logger WITH
    Writer <- {w1, w2}, Dumper <- {c1, t1}, Capacity <- 1, TailSize <- 2, Budgets <-
    LogBudgets, state <- lState, writer <- lWriter, queue <- lQueue, file <- lFile, tail
    <- lTail, dumper <- lDumper, closer <- lCloser, budget <- lBudget

Toasts == INSTANCE Notifications WITH
    Device <- {s1}, MinDays <- 2, MinUsage <- 1,
    Worlds <- {ToastWorld(TRUE, {1}), ToastWorld(FALSE, {2})},
    Budgets <- ToastBudgets, svc <- nSvc, os <- nOs, toasts <- nToasts, removal <-
    nRemoval, frame <- nFrame, queue <- nQueue, world <- nWorld, outcome <- nOutcome,
    budget <- nBudget

MCInit ==
    \/ /\ subject = "startup" /\ Startup!Init
       /\ RefreshUnused /\ HostUnused /\ PowerUnused /\ LogUnused /\ ToastsUnused
    \/ /\ subject = "refresh" /\ Refresh!Init
       /\ StartupUnused /\ HostUnused /\ PowerUnused /\ LogUnused /\ ToastsUnused
    \/ /\ subject = "host" /\ AppHost!Init
       /\ StartupUnused /\ RefreshUnused /\ PowerUnused /\ LogUnused /\ ToastsUnused
    \/ /\ subject = "power" /\ Init
       /\ StartupUnused /\ RefreshUnused /\ HostUnused /\ LogUnused /\ ToastsUnused
    \/ /\ subject = "log" /\ Log!Init
       /\ StartupUnused /\ RefreshUnused /\ HostUnused /\ PowerUnused /\ ToastsUnused
    \/ /\ subject = "toasts" /\ Toasts!Init
       /\ StartupUnused /\ RefreshUnused /\ HostUnused /\ PowerUnused /\ LogUnused

OnlyStartup ==
    subject = "startup" /\ UNCHANGED <<subject, refreshVars, hostVars, powerVars, logVars, toastVars>>
OnlyRefresh ==
    subject = "refresh" /\ UNCHANGED <<subject, startupVars, hostVars, powerVars, logVars, toastVars>>
OnlyHost ==
    subject = "host" /\ UNCHANGED <<subject, startupVars, refreshVars, powerVars, logVars, toastVars>>
OnlyPower ==
    subject = "power" /\ UNCHANGED <<subject, startupVars, refreshVars, hostVars, logVars, toastVars>>
OnlyLog ==
    subject = "log" /\ UNCHANGED <<subject, startupVars, refreshVars, hostVars, powerVars, toastVars>>
OnlyToasts ==
    subject = "toasts" /\ UNCHANGED <<subject, startupVars, refreshVars, hostVars, powerVars, logVars>>

MCNext ==
    \/ OnlyStartup /\ Startup!Next
    \/ OnlyRefresh /\ Refresh!Next
    \/ OnlyHost /\ AppHost!Next
    \/ OnlyPower /\ Next
    \/ OnlyLog /\ Log!Next
    \/ OnlyToasts /\ Toasts!Next

allVars == <<subject, startupVars, refreshVars, hostVars, powerVars, logVars, toastVars>>

\* The native timer fires, threads go on, and the UI thread runs what is queued;
\* suspends, connections and the exit need never come.
PowerFairness ==
    /\ \A p \in Pool : /\ WF_allVars(OnlyPower /\ FireTimer(p))
                       /\ WF_allVars(OnlyPower /\ (Tick(p) \/ ApartmentUnavailable(p)))
                       /\ WF_allVars(OnlyPower /\ (CallAccepted(p) \/ CallRejected(p)))
    /\ WF_allVars(OnlyPower /\ \E job \in queue : RunTask(job))
    /\ WF_allVars(OnlyPower /\ \E ids \in SUBSET Device : SuspendDevices(ids))
    /\ WF_allVars(OnlyPower /\ InstallReconnect)
    /\ WF_allVars(OnlyPower /\ (Schedule \/ TimerUnavailable))
    /\ WF_allVars(OnlyPower /\ Tick(UI)) /\ WF_allVars(OnlyPower /\ CallInline)
    /\ WF_allVars(OnlyPower /\ Cancel)

MCFairness ==
    /\ WF_allVars(OnlyStartup /\ Startup!Drain)
    /\ WF_allVars(OnlyStartup /\ Startup!System)
    /\ WF_allVars(OnlyRefresh /\ Refresh!Queueing)
    /\ WF_allVars(OnlyRefresh /\ Refresh!Timer)
    /\ WF_allVars(OnlyRefresh /\ Refresh!Drain)
    /\ \A c \in {c1, t1, x1} : WF_allVars(OnlyHost /\ AppHost!CallersRunOn(c))
    /\ WF_allVars(OnlyHost /\ AppHost!TeardownStep)
    /\ \A w \in {w1, w2} : WF_allVars(OnlyLog /\ Log!CallRunsOn(w))
    /\ WF_allVars(OnlyLog /\ Log!Release) /\ WF_allVars(OnlyLog /\ Log!WorkerWrites(TRUE))

MCSpec == MCInit /\ [][MCNext]_allVars /\ MCFairness /\ PowerFairness

---------------------------------------------------------------------------
(***************************************************************************)
(* Reset, Unsubscribe, Stop, Shutdown and PerformTeardown return only when *)
(* nothing of what they end is running, and leave nothing behind.          *)
(***************************************************************************)
NothingRunsAfterReturn ==
    /\ subject = "startup" => Startup!NothingRunsAfterReturn
    /\ subject = "host" => AppHost!NothingIsLeftBehind

(***************************************************************************)
(* What is told is so: a settled startup task answers the newest request   *)
(* and every subscriber knows of it (StartupTaskCoordinator), and work     *)
(* reported as refused or failed never takes effect (RunAndWait).          *)
(***************************************************************************)
WhatIsToldIsSo ==
    /\ subject = "startup" => Startup!SettledAnswersTheLatestRequest /\ Startup!SubscribersAreUpToDate
    /\ subject = "host" => AppHost!ResultsAreTrue

\* A requested redraw is never without something that will draw it (UiRefreshScheduler).
PendingIsAwaited == subject = "refresh" => Refresh!PendingIsAwaited

\* What was posted is written, reported dropped or counted as an error, and what a
\* crash handler dumps are whole successive lines; see Logger.
LogIsAccountedFor == subject = "log" => Log!EveryItemIsAccountedFor /\ Log!DumpsAreWhole

\* The system's registration, the toasts on the screen and the activations they cause
\* belong to the service as it is now; see Notifications.
ToastsBelongToTheService ==
    subject = "toasts" =>
        Toasts!RegistrationIsOwned /\ Toasts!ToastsAreAccountedFor /\ Toasts!ActivationsAreCurrent

(***************************************************************************)
(* What has been stopped stays so: no redraw begins after the scheduler    *)
(* was stopped, no device is reconnected while the system is suspended or  *)
(* the application exits, and drops that were counted are not forgotten.   *)
(***************************************************************************)
NothingHappensAfterStop ==
    [][/\ subject = "refresh" => Refresh!NoPassBeginsWhenStopped
       /\ subject = "power" => NoReconnectWhileSuspendedStep
       /\ subject = "log" => Log!DropsOnlyGrow]_allVars

\* The subject is in the midst of something that has to end.
IsAwaited ==
    \/ subject = "startup" /\ Startup!IsBusy
    \/ subject = "refresh" /\ Refresh!IsPending
    \/ subject = "host" /\ AppHost!IsExiting
    \/ subject = "power" /\ ticking
    \/ subject = "log" /\ Log!IsClosing

(***************************************************************************)
(* Nothing waits for ever: a request about the startup task is answered, a *)
(* redraw is done or dropped, a teardown completes although calls it waits *)
(* for are waiting for the UI thread, the recovery's timer stops by itself *)
(* and the release of the log is not held up by the calls under way.       *)
(***************************************************************************)
EverythingSettles == IsAwaited ~> ~IsAwaited
===============================================================================
