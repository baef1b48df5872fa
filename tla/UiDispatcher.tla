----------------------------- MODULE UiDispatcher -----------------------------
(***************************************************************************)
(* UiDispatcher.cpp and ControlUiActionGate.hpp: work of other threads is  *)
(* run by the UI thread.  It travels through the dispatcher queue of the   *)
(* system or, when that refuses it, through a queue of its own and a       *)
(* window message.  RunAndWait waits for its work with a stop token and a  *)
(* deadline; a gate settles the race between giving up and beginning.      *)
(***************************************************************************)
EXTENDS Naturals, Sequences, SequencesExt

CONSTANTS
    Caller,     \* threads of the pool, each with one piece of work
    Waiter,     \* those that call RunAndWait; the others call Run
    NoOne,
    Budgets     \* refused posts, cancellations, expired deadlines ...

VARIABLES
    dispatcher, \* State::Queue, Posting, Stopped and StoppedEvent
    native,     \* the system's dispatcher queue
    wakeups,    \* window messages posted and not dispatched
    call,       \* the calls of Run and RunAndWait
    ui,         \* the piece of work the UI thread has at hand, and those drained with it
    budget

dispatcherVars == <<dispatcher, native, wakeups, call, ui>>

Spend(k) == budget[k] > 0 /\ budget' = [budget EXCEPT ![k] = @ - 1]

NewCall == [pc |-> "out", stop |-> FALSE, expired |-> FALSE, gate |-> "Pending", completed |-> FALSE,
            claimed |-> FALSE, result |-> "none", effect |-> "none"]

IdleUi == [pc |-> "idle", at |-> NoOne, ready |-> <<>>]

(***************************************************************************)
(* ControlUiActionGate.                                                    *)
(***************************************************************************)
Classify(gate) ==
    CASE gate = "Succeeded" -> "Succeeded"
      [] gate = "Running"   -> "Indeterminate"
      [] OTHER              -> "Failed"

CancelOrClassify(gate) == IF gate = "Pending" THEN "Cancelled" ELSE gate

Returns(c, gate, result) == [call EXCEPT ![c].pc = "returned", ![c].gate = gate, ![c].result = result]

\* A waiter gives up: the work is cancelled unless it has begun.
GiveUp(c) == LET gate == CancelOrClassify(call[c].gate) IN Returns(c, gate, Classify(gate))

Refused(c) == IF c \in Waiter THEN GiveUp(c) ELSE Returns(c, call[c].gate, "Rejected")

Accepted(c) == IF c \in Waiter THEN [call EXCEPT ![c].pc = "waiting"]
               ELSE Returns(c, call[c].gate, "Accepted")

---------------------------------------------------------------------------
(***************************************************************************)
(* Run and RunAndWait.                                                     *)
(***************************************************************************)
Enter(c) ==
    call' = IF dispatcher.stopped \/ (c \in Waiter /\ (call[c].stop \/ call[c].expired))
            THEN Refused(c) ELSE [call EXCEPT ![c].pc = "enqueue"]

EnqueueNative(c) ==
    /\ call[c].pc = "enqueue"
    /\ native' = Append(native, c)
    /\ call' = Accepted(c)
    /\ UNCHANGED <<dispatcher, wakeups, ui, budget>>

NativeRefuses(c) ==
    /\ call[c].pc = "enqueue" /\ Spend("faults")
    /\ call' = [call EXCEPT ![c].pc = "fallback"]
    /\ UNCHANGED <<dispatcher, native, wakeups, ui>>

Fallback(c) ==
    /\ call[c].pc = "fallback"
    /\ IF dispatcher.stopped
       THEN call' = Refused(c) /\ UNCHANGED dispatcher
       ELSE /\ dispatcher' = [dispatcher EXCEPT !.queue = Append(@, c), !.posting = @ + 1]
            /\ call' = [call EXCEPT ![c].pc = "post"]
    /\ UNCHANGED <<native, wakeups, ui, budget>>

PostMessage(c) ==
    /\ call[c].pc = "post"
    /\ \/ /\ wakeups' = wakeups + 1
          /\ call' = [call EXCEPT ![c].pc = "posted"]
          /\ UNCHANGED budget
       \/ /\ Spend("faults")
          /\ call' = [call EXCEPT ![c].pc = "unposted"]
          /\ UNCHANGED wakeups
    /\ UNCHANGED <<dispatcher, native, ui>>

\* The wakeup of another post may have taken the work along.
WasPosted(c) == call[c].pc = "posted"
WasPostedOrClaimed(c) == call[c].pc = "posted" \/ call[c].claimed

FinishPost(c) ==
    /\ call[c].pc \in {"posted", "unposted"}
    /\ LET accepted == WasPostedOrClaimed(c)
       IN  /\ dispatcher' = [dispatcher EXCEPT !.posting = @ - 1,
                 !.queue = IF accepted THEN @ ELSE SelectSeq(@, LAMBDA d : d # c)]
           /\ call' = IF accepted THEN Accepted(c) ELSE Refused(c)
    /\ UNCHANGED <<native, wakeups, ui, budget>>

\* Completed, the cancellation event, StoppedEvent or the deadline ends the wait.
Wakes(c) == call[c].stop \/ call[c].expired \/ dispatcher.stoppedEvent

WaiterWakes(c) ==
    /\ call[c].pc = "waiting"
    /\ \/ call[c].completed /\ call' = Returns(c, call[c].gate, Classify(call[c].gate))
       \/ ~call[c].completed /\ Wakes(c) /\ call' = GiveUp(c)
    /\ UNCHANGED <<dispatcher, native, wakeups, ui, budget>>

\* request_stop runs the stop callback of a call that is under way.
Stopping(c) ==
    [call[c] EXCEPT !.stop = TRUE,
                    !.gate = IF c \in Waiter /\ call[c].pc \notin {"out", "returned"}
                             THEN CancelOrClassify(@) ELSE @]

Expire(c) ==
    /\ c \in Waiter /\ ~call[c].expired /\ Spend("deadlines")
    /\ call' = [call EXCEPT ![c].expired = TRUE]
    /\ UNCHANGED <<dispatcher, native, wakeups, ui>>

---------------------------------------------------------------------------
(***************************************************************************)
(* The UI thread: it takes work from the dispatcher queue or drains its    *)
(* own queue at a window message, and invokes it unless it is stopped.     *)
(***************************************************************************)
Invoked(c, rest) ==
    IF dispatcher.stopped THEN [IdleUi EXCEPT !.ready = rest]
    ELSE [pc |-> IF c \in Waiter THEN "admit" ELSE "work", at |-> c, ready |-> rest]

RunNative ==
    /\ ui = IdleUi /\ native # <<>>
    /\ native' = Tail(native)
    /\ ui' = Invoked(Head(native), <<>>)
    /\ UNCHANGED <<dispatcher, wakeups, call, budget>>

Drain ==
    /\ ui = IdleUi /\ wakeups > 0
    /\ wakeups' = wakeups - 1
    /\ dispatcher' = [dispatcher EXCEPT !.queue = <<>>]
    /\ call' = [c \in Caller |-> [call[c] EXCEPT !.claimed = @ \/ c \in ToSet(dispatcher.queue)]]
    /\ ui' = [ui EXCEPT !.ready = dispatcher.queue]
    /\ UNCHANGED <<native, budget>>

RunReady ==
    /\ ui.pc = "idle" /\ ui.ready # <<>>
    /\ ui' = Invoked(Head(ui.ready), Tail(ui.ready))
    /\ UNCHANGED <<dispatcher, native, wakeups, call, budget>>

AdmitExpired ==
    /\ ui.pc = "admit"
    /\ LET c == ui.at
       IN  call' = IF call[c].stop \/ call[c].expired
                   THEN [call EXCEPT ![c].gate = CancelOrClassify(@)] ELSE call
    /\ ui' = [ui EXCEPT !.pc = "begin"]
    /\ UNCHANGED <<dispatcher, native, wakeups, budget>>

TryBegin(gate) == gate = "Pending"

BeginWork ==
    /\ ui.pc = "begin"
    /\ LET c == ui.at
       IN  IF TryBegin(call[c].gate)
           THEN /\ call' = [call EXCEPT ![c].gate = "Running", ![c].effect = "begun"]
                /\ ui' = [ui EXCEPT !.pc = "work"]
           ELSE /\ call' = [call EXCEPT ![c].completed = TRUE]
                /\ ui' = [ui EXCEPT !.pc = "idle", !.at = NoOne]
    /\ UNCHANGED <<dispatcher, native, wakeups, budget>>

Work(succeeded) ==
    /\ ui.pc = "work"
    /\ succeeded \/ ui.at \in Waiter
    /\ LET outcome == IF succeeded THEN "Succeeded" ELSE "Failed"
       IN  call' = [call EXCEPT ![ui.at].effect = outcome,
                                ![ui.at].gate = IF ui.at \in Waiter THEN outcome ELSE @,
                                ![ui.at].completed = TRUE]
    /\ ui' = [ui EXCEPT !.pc = "idle", !.at = NoOne]
    /\ UNCHANGED <<dispatcher, native, wakeups, budget>>

\* Stop, in two steps: nothing more is admitted; admitted posts are waited for.
CloseDispatcher == dispatcher' = [dispatcher EXCEPT !.stopped = TRUE, !.queue = <<>>]
DispatcherIsQuiet == dispatcher.posting = 0
SignalStopped == dispatcher' = [dispatcher EXCEPT !.stoppedEvent = TRUE]

DispatcherInit ==
    /\ dispatcher = [queue |-> <<>>, posting |-> 0, stopped |-> FALSE, stoppedEvent |-> FALSE]
    /\ native = <<>>
    /\ wakeups = 0
    /\ call = [c \in Caller |-> NewCall]
    /\ ui = IdleUi

CallerStep(c) == \/ EnqueueNative(c) \/ NativeRefuses(c) \/ Fallback(c)
                 \/ PostMessage(c) \/ FinishPost(c) \/ WaiterWakes(c)
UiStep == RunNative \/ Drain \/ RunReady \/ AdmitExpired \/ BeginWork \/ Work(TRUE) \/ Work(FALSE)

---------------------------------------------------------------------------
(***************************************************************************)
(* A caller may act on what it is told: work reported as failed or as      *)
(* rejected has not taken effect and never will, work reported as done was *)
(* done, and only work that has begun is reported as indeterminate         *)
(* (RunAndWait, Fallback, ControlUiActionGate).                            *)
(***************************************************************************)
ResultsAreTrue ==
    \A c \in Caller : call[c].pc = "returned" =>
        CASE call[c].result = "Failed"        -> call[c].effect \in {"none", "Failed"}
          [] call[c].result = "Rejected"      -> call[c].effect = "none"
          [] call[c].result = "Succeeded"     -> call[c].effect = "Succeeded"
          [] call[c].result = "Indeterminate" -> call[c].effect # "none"
          [] call[c].result = "Accepted"      -> TRUE
===============================================================================
