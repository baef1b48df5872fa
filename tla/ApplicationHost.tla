---------------------------- MODULE ApplicationHost ----------------------------
(***************************************************************************)
(* The life of the process on its UI thread (ApplicationHost.cpp and       *)
(* App.xaml.cpp): parts are built in order once the hidden main window is  *)
(* loaded, a failure on the way undoes what was built, and the teardown    *)
(* waits for calls that other threads make through the controller while    *)
(* some of them wait for the UI thread (UiDispatcher).                     *)
(***************************************************************************)
EXTENDS UiDispatcher, FiniteSets, FiniteSetsExt

CONSTANT
    PipeCaller  \* the waiters that are handlers of the control pipe; they carry a stop token

VARIABLES
    host,       \* m_started, m_exiting, the parts built, and the step of PerformTeardown
    window,     \* the main window, the settings window and the picker's flyout
    lease,      \* the calls inside the controller
    server      \* the control server: running, stop requested

vars == <<dispatcher, native, wakeups, call, ui, budget, host, window, lease, server>>

(***************************************************************************)
(* Starting.                                                               *)
(***************************************************************************)
\* OnMainWindowLoaded builds the parts in this order; "subclass" brings the dispatcher.
Parts == <<"subclass", "store", "gdiplus", "devices", "controller", "tray", "resources",
           "notifications", "observation", "server">>

Built(n) == {Parts[i] : i \in 1..n}

TeardownSteps == <<"requestStop", "closeDispatcher", "awaitPosts", "closeSettings", "stopCalls",
                   "awaitCalls", "stopServer", "release", "closeMain", "ended">>

\* PerformTeardown runs once; who calls it decides about the main window and the settings.
Teardown(reason) ==
    host' = [host EXCEPT !.stage = "exiting", !.reason = reason, !.step = "requestStop"]

UiIsFree == ui = IdleUi /\ host.stage # "exiting"

Launch ==
    /\ host.stage = "new" /\ UiIsFree
    /\ \/ host' = [host EXCEPT !.stage = "loading"] /\ window' = [window EXCEPT !.main = "open"]
          /\ UNCHANGED budget
       \/ host' = [host EXCEPT !.stage = "refused"]        \* another instance is running
          /\ UNCHANGED <<window, budget>>
       \/ /\ Spend("starts")                               \* SetupMainWindow fails
          /\ Teardown("failStartup") /\ UNCHANGED window
    /\ UNCHANGED <<dispatcherVars, lease, server>>

OnMainWindowLoaded ==
    /\ host.stage = "loading"
    /\ window' = [window EXCEPT !.handle = TRUE]
    /\ \/ /\ host' = [host EXCEPT !.stage = "running", !.built = Built(Len(Parts))]
          /\ server' = [server EXCEPT !.running = TRUE]
          /\ UNCHANGED budget
       \/ /\ Spend("starts")
          /\ \E n \in 0..(Len(Parts) - 1) :
                host' = [host EXCEPT !.stage = "exiting", !.reason = "failStartup",
                                     !.step = "requestStop", !.built = Built(n)]
          /\ UNCHANGED server
    /\ UNCHANGED <<dispatcherVars, lease>>

\* The watchdog ticks only while there is no window handle yet.
WatchdogTicks ==
    /\ host.stage = "loading" /\ ~window.handle /\ Spend("starts")
    /\ Teardown("failStartup")
    /\ UNCHANGED <<dispatcherVars, window, lease, server>>

---------------------------------------------------------------------------
(***************************************************************************)
(* Calls of other threads: handlers of the pipe and callbacks of toasts    *)
(* hold a lease of the controller while they wait for the UI thread; the   *)
(* threads that publish events only pass work on.                          *)
(***************************************************************************)
Reaches(c) == IF c \in PipeCaller THEN server.running
              ELSE IF c \in Waiter THEN "notifications" \in host.built
              ELSE "observation" \in host.built

BeginCall(c) ==
    /\ call[c].pc = "out" /\ lease[c] = "none" /\ Reaches(c) /\ Spend("calls")
    /\ IF host.accepts
       THEN lease' = [lease EXCEPT ![c] = "held"] /\ Enter(c)
       ELSE lease' = [lease EXCEPT ![c] = "done"] /\ UNCHANGED call
    /\ UNCHANGED <<dispatcher, native, wakeups, ui, host, window, server>>

\* PresentDevicePicker: a pipe caller waits until the flyout has opened.
MustSeePicker(c) == c \in PipeCaller /\ call[c].result = "Succeeded" /\ window.picker # "open"

EndCall(c) ==
    /\ call[c].pc = "returned" /\ lease[c] = "held"
    /\ MustSeePicker(c) => call[c].stop \/ call[c].expired
    /\ lease' = [lease EXCEPT ![c] = "done"]
    /\ UNCHANGED <<dispatcherVars, budget, host, window, server>>

\* The work of a pipe caller shows the picker; the flyout opens by itself, or it does not.
ShowPicker == ui.pc = "work" /\ ui.at \in PipeCaller

UiRuns ==
    /\ host.stage # "exiting" \/ host.step = "ended"
    /\ UiStep
    /\ window' = IF ShowPicker /\ ui'.pc = "idle" /\ call'[ui.at].effect = "Succeeded" /\ window.picker = "closed"
                 THEN [window EXCEPT !.picker = "opening"] ELSE window
    /\ UNCHANGED <<host, lease, server>>

PickerOpens ==
    /\ window.picker = "opening" /\ UiIsFree
    /\ window' = [window EXCEPT !.picker = "open"]
    /\ UNCHANGED <<dispatcherVars, budget, host, lease, server>>

ShowSettingsWindow ==
    /\ host.stage = "running" /\ UiIsFree /\ window.settings = "none" /\ Spend("windows")
    /\ window' = [window EXCEPT !.settings = "open"]
    /\ UNCHANGED <<dispatcherVars, host, lease, server>>

---------------------------------------------------------------------------
(***************************************************************************)
(* PerformTeardown.                                                        *)
(***************************************************************************)
\* ExitApplication (tray menu, WM_CLOSE), WM_ENDSESSION, and the destructor of App.
BeginExit(reason) ==
    /\ host.stage = "running" /\ UiIsFree
    /\ Teardown(reason)
    /\ UNCHANGED <<dispatcherVars, budget, window, lease, server>>

After(step) ==
    LET i == CHOOSE k \in DOMAIN TeardownSteps : TeardownSteps[k] = step
    IN  host' = [host EXCEPT !.step = TeardownSteps[i + 1]]

Begins(step) == host.stage = "exiting" /\ host.step = step

RequestNothing == call' = call
RequestStop == call' = [c \in Caller |-> IF c \in PipeCaller THEN Stopping(c) ELSE call[c]]

RequestServerStop ==
    /\ Begins("requestStop") /\ After("requestStop")
    /\ server' = [server EXCEPT !.running = FALSE]
    /\ RequestStop
    /\ UNCHANGED <<dispatcher, native, wakeups, ui, budget, window, lease>>

CloseUiDispatcher ==
    /\ Begins("closeDispatcher") /\ After("closeDispatcher")
    /\ CloseDispatcher
    /\ UNCHANGED <<native, wakeups, call, ui, budget, window, lease, server>>

AwaitPosts ==
    /\ Begins("awaitPosts") /\ DispatcherIsQuiet /\ After("awaitPosts")
    /\ SignalStopped
    /\ UNCHANGED <<native, wakeups, call, ui, budget, window, lease, server>>

CloseSettingsWindow ==
    /\ Begins("closeSettings") /\ After("closeSettings")
    /\ \/ /\ window' = [window EXCEPT !.settings = "none"]
          /\ UNCHANGED budget
       \/ window.settings = "open" /\ Spend("windows") /\ UNCHANGED window
    /\ UNCHANGED <<dispatcherVars, lease, server>>

StopCalls ==
    /\ Begins("stopCalls")
    /\ host' = [host EXCEPT !.step = "awaitCalls", !.accepts = FALSE]
    /\ UNCHANGED <<dispatcherVars, budget, window, lease, server>>

AwaitNobody == TRUE
CallsHaveReturned == \A c \in Caller : lease[c] # "held"

AwaitCalls ==
    /\ Begins("awaitCalls") /\ CallsHaveReturned /\ After("awaitCalls")
    /\ UNCHANGED <<dispatcherVars, budget, window, lease, server>>

\* Stop returns when no handler of the pipe is running.
StopServer ==
    /\ Begins("stopServer") /\ After("stopServer")
    /\ \A c \in PipeCaller : lease[c] # "held"
    /\ UNCHANGED <<dispatcherVars, budget, window, lease, server>>

\* The settings are written unless the start has failed.
Release ==
    /\ Begins("release")
    /\ host' = [host EXCEPT !.step = "closeMain", !.built = {},
                            !.settings = IF "store" \notin host.built THEN "none"
                                         ELSE IF host.reason = "failStartup" THEN "discarded" ELSE "flushed"]
    /\ UNCHANGED <<dispatcherVars, budget, window, lease, server>>

\* A window that cannot be closed ends the process at once.
CloseMainWindow ==
    /\ Begins("closeMain")
    /\ \/ UNCHANGED budget /\ window' = [window EXCEPT !.main = IF host.reason = "endSession" THEN @ ELSE "none"]
       \/ host.reason # "endSession" /\ Spend("windows") /\ UNCHANGED window
    /\ LET isLeft == window'.main = "open" \/ window.settings = "open"
       IN  host' = [host EXCEPT !.step = "ended",
                                !.terminated = host.reason # "endSession" /\ isLeft]
    /\ UNCHANGED <<dispatcherVars, lease, server>>

---------------------------------------------------------------------------
Init ==
    /\ DispatcherInit
    /\ host = [stage |-> "new", built |-> {}, step |-> "none", reason |-> "none", accepts |-> TRUE,
               settings |-> "kept", terminated |-> FALSE]
    /\ window = [main |-> "none", handle |-> FALSE, settings |-> "none", picker |-> "closed"]
    /\ lease = [c \in Caller |-> "none"]
    /\ server = [running |-> FALSE]
    /\ budget \in Budgets

Callers ==
    \E c \in Caller :
        \/ CallerStep(c) /\ UNCHANGED <<host, window, lease, server>>
        \/ BeginCall(c) \/ EndCall(c)
        \/ Expire(c) /\ UNCHANGED <<host, window, lease, server>>
Startup == Launch \/ OnMainWindowLoaded \/ WatchdogTicks
TeardownStep == \/ RequestServerStop \/ CloseUiDispatcher \/ AwaitPosts \/ CloseSettingsWindow
                \/ StopCalls \/ AwaitCalls \/ StopServer \/ Release \/ CloseMainWindow
Exit == \E r \in {"exit", "endSession"} : BeginExit(r)

Next == Startup \/ Callers \/ UiRuns \/ PickerOpens \/ ShowSettingsWindow \/ Exit \/ TeardownStep

\* Threads of the pool and the UI thread run on; no deadline has to pass.
CallersRunOn(c) == (CallerStep(c) /\ UNCHANGED <<host, window, lease, server>>) \/ EndCall(c)
Fairness == /\ \A c \in Caller : WF_vars(CallersRunOn(c))
            /\ WF_vars(TeardownStep)

Spec == Init /\ [][Next]_vars /\ Fairness

---------------------------------------------------------------------------
(***************************************************************************)
(* Nobody waits for everybody: the UI thread waits for the calls in the    *)
(* controller, of which some wait for the UI thread or for the picker to   *)
(* open; the teardown completes all the same, before any deadline of       *)
(* theirs (PerformTeardown, RunAndWait, WaitForDevicePickerOpened).        *)
(***************************************************************************)
IsExiting == host.stage = "exiting" /\ host.step # "ended"

(***************************************************************************)
(* When parts are released no call is inside the controller and none is    *)
(* posting to the window; and the process never lives on with a window     *)
(* that could not be closed.                                               *)
(***************************************************************************)
NothingIsLeftBehind ==
    /\ host.step \in {"closeMain", "ended"} =>
          /\ \A c \in Caller : lease[c] # "held"
          /\ dispatcher.posting = 0 /\ ui = IdleUi
    /\ host.step = "ended" /\ host.reason # "endSession" /\ ~host.terminated =>
          window.main = "none" /\ window.settings = "none"
===============================================================================
