------------------------------ MODULE UiRefresh ------------------------------
(***************************************************************************)
(* UiRefreshScheduler.cpp and UiRefreshCoalescer.hpp: requests to redraw   *)
(* parts of the tray and of the picker are merged, passed to the UI thread *)
(* as one task, retried by a thread-pool timer when the task cannot be     *)
(* queued or drawing fails, and dropped for good by Stop.  A request, the  *)
(* timer and the UI thread may all be queueing a task at the same time; a  *)
(* ticket tells which of the tasks is to draw.                             *)
(***************************************************************************)
EXTENDS Naturals, Sequences, FiniteSets

CONSTANTS
    Flag,       \* parts to redraw
    RetryMask,  \* those drawn again when drawing fails
    MaxDelay,   \* the largest exponent of the retry delay
    Budgets     \* requests, faults, stops

VARIABLES
    pending,    \* UiRefreshCoalescer: m_pendingFlags, m_drainScheduled, m_cancelled
    ticket,     \* NextTicket and QueuedTicket
    posted,     \* tasks in the UI thread's queue, by ticket
    caller,     \* the threads inside Queue(): a requester, the timer and the UI thread
    timer,      \* "off", "armed" or "due"
    drain,      \* the UI thread inside Drain()
    failures,   \* Failures
    stopped,
    budget

vars == <<pending, ticket, posted, caller, timer, drain, failures, stopped, budget>>

Spend(k) == budget[k] > 0 /\ budget' = [budget EXCEPT ![k] = @ - 1]

Thread == {"requester", "timer", "ui"}
Outside == [pc |-> "out", ticket |-> 0]
Idle == [pc |-> "idle", flags |-> {}, succeeded |-> FALSE]

(***************************************************************************)
(* UiRefreshCoalescer.                                                     *)
(***************************************************************************)
Merged(p, flags) ==
    IF p.cancelled \/ flags = {} THEN p ELSE [p EXCEPT !.flags = @ \cup flags, !.scheduled = TRUE]

IsFirst(p, flags) == ~p.cancelled /\ flags # {} /\ ~p.scheduled

IsDrained(p) == p.flags = {}
CompleteDrain(p) == IF IsDrained(p) THEN [p EXCEPT !.scheduled = FALSE] ELSE p

Cancelled == [flags |-> {}, scheduled |-> FALSE, cancelled |-> TRUE]

---------------------------------------------------------------------------
(***************************************************************************)
(* Queue(), by any of the threads: take a ticket, make it the one that     *)
(* counts, post the task; if it is refused, withdraw the ticket and arm    *)
(* the timer.                                                              *)
(***************************************************************************)
EnterQueue(t) == IF stopped THEN caller ELSE [caller EXCEPT ![t] = [pc |-> "queue", ticket |-> 0]]

TakeTicket(t) ==
    /\ caller[t].pc = "queue"
    /\ ticket' = [ticket EXCEPT !.next = @ + 1]
    /\ caller' = [caller EXCEPT ![t] = [pc |-> "ticket", ticket |-> ticket.next + 1]]
    /\ UNCHANGED <<pending, posted, timer, drain, failures, stopped, budget>>

StoreTicket(t) ==
    /\ caller[t].pc = "ticket"
    /\ ticket' = [ticket EXCEPT !.queued = caller[t].ticket]
    /\ caller' = [caller EXCEPT ![t].pc = "stored"]
    /\ UNCHANGED <<pending, posted, timer, drain, failures, stopped, budget>>

Enqueue(t) ==
    /\ caller[t].pc = "stored"
    /\ posted' = Append(posted, caller[t].ticket)
    /\ caller' = [caller EXCEPT ![t] = Outside]
    /\ UNCHANGED <<pending, ticket, timer, drain, failures, stopped, budget>>

EnqueueFails(t) ==
    /\ caller[t].pc = "stored" /\ Spend("faults")
    /\ caller' = [caller EXCEPT ![t].pc = "refused"]
    /\ UNCHANGED <<pending, ticket, posted, timer, drain, failures, stopped>>

Armed == IF stopped THEN timer ELSE "armed"

WithdrawOnly(t) == UNCHANGED timer
WithdrawAndRetry(t) == timer' = Armed

QueueGivesUp(t) ==
    /\ caller[t].pc = "refused"
    /\ ticket' = IF ticket.queued = caller[t].ticket THEN [ticket EXCEPT !.queued = 0] ELSE ticket
    /\ caller' = [caller EXCEPT ![t] = Outside]
    /\ WithdrawAndRetry(t)
    /\ UNCHANGED <<pending, posted, drain, failures, stopped, budget>>

Request(flags) ==
    /\ caller["requester"] = Outside /\ Spend("requests")
    /\ pending' = Merged(pending, flags)
    /\ caller' = IF IsFirst(pending, flags) THEN EnterQueue("requester") ELSE caller
    /\ UNCHANGED <<ticket, posted, timer, drain, failures, stopped>>

TimerExpires ==
    /\ timer = "armed" /\ timer' = "due"
    /\ UNCHANGED <<pending, ticket, posted, caller, drain, failures, stopped, budget>>

OnTimer ==
    /\ timer = "due" /\ caller["timer"] = Outside
    /\ \/ /\ timer' = "off" /\ caller' = EnterQueue("timer")
          /\ UNCHANGED budget
       \/ /\ Spend("faults")               \* no apartment for the thread
          /\ timer' = Armed /\ UNCHANGED caller
    /\ UNCHANGED <<pending, ticket, posted, drain, failures, stopped>>

---------------------------------------------------------------------------
(***************************************************************************)
(* The UI thread runs a task: only the one whose ticket counts draws.      *)
(***************************************************************************)
ClaimsEvenStopped(t) == ticket.queued = t
Claims(t) == ticket.queued = t /\ ~stopped

RunTask ==
    LET t == Head(posted)
    IN  /\ posted # <<>> /\ drain = Idle /\ caller["ui"] = Outside
        /\ posted' = Tail(posted)
        /\ ticket' = IF ticket.queued = t THEN [ticket EXCEPT !.queued = 0] ELSE ticket
        /\ IF Claims(t)
           THEN /\ drain' = [pc |-> "applying", flags |-> pending.flags, succeeded |-> FALSE]
                /\ pending' = [pending EXCEPT !.flags = {}]
           ELSE UNCHANGED <<drain, pending>>
        /\ UNCHANGED <<caller, timer, failures, stopped, budget>>

Apply ==
    /\ drain.pc = "applying"
    /\ \/ /\ drain' = [drain EXCEPT !.pc = "applied", !.succeeded = TRUE]
          /\ UNCHANGED budget
       \/ /\ drain' = [drain EXCEPT !.pc = "applied"]
          /\ Spend("faults")
    /\ UNCHANGED <<pending, ticket, posted, caller, timer, failures, stopped>>

\* Stop may have come while drawing pumped messages.
Retry ==
    /\ drain.pc = "applied"
    /\ IF stopped
       THEN drain' = Idle /\ UNCHANGED <<pending, failures>>
       ELSE /\ drain' = [drain EXCEPT !.pc = "completing"]
            /\ pending' = IF drain.succeeded THEN pending
                          ELSE Merged(pending, drain.flags \cap RetryMask)
            /\ failures' = IF drain.succeeded THEN 0
                           ELSE IF failures + 1 > MaxDelay THEN MaxDelay ELSE failures + 1
    /\ UNCHANGED <<ticket, posted, caller, timer, stopped, budget>>

EndDrain ==
    /\ drain.pc = "completing"
    /\ drain' = Idle
    /\ pending' = CompleteDrain(pending)
    /\ IF pending.cancelled \/ IsDrained(pending)
       THEN UNCHANGED <<caller, timer>>
       ELSE IF drain.succeeded
       THEN caller' = EnterQueue("ui") /\ UNCHANGED timer
       ELSE timer' = Armed /\ UNCHANGED caller
    /\ UNCHANGED <<ticket, posted, failures, stopped, budget>>

\* By the UI thread, between tasks or while drawing pumps messages.
Stop ==
    /\ ~stopped /\ caller["ui"] = Outside /\ drain.pc \in {"idle", "applying"} /\ Spend("stops")
    /\ stopped' = TRUE
    /\ ticket' = [ticket EXCEPT !.queued = 0]
    /\ pending' = Cancelled
    /\ timer' = "off"
    /\ UNCHANGED <<posted, caller, drain, failures>>

---------------------------------------------------------------------------
Init ==
    /\ pending = [flags |-> {}, scheduled |-> FALSE, cancelled |-> FALSE]
    /\ ticket = [next |-> 0, queued |-> 0]
    /\ posted = <<>>
    /\ caller = [t \in Thread |-> Outside]
    /\ timer = "off"
    /\ drain = Idle
    /\ failures = 0
    /\ stopped = FALSE
    /\ budget \in Budgets

Queueing == \E t \in Thread : \/ TakeTicket(t) \/ StoreTicket(t) \/ Enqueue(t)
                              \/ EnqueueFails(t) \/ QueueGivesUp(t)
Timer == TimerExpires \/ OnTimer
Drain == RunTask \/ Apply \/ Retry \/ EndDrain
Next == Queueing \/ Timer \/ Drain \/ Stop \/ \E f \in SUBSET Flag : Request(f)

\* Threads run on, an armed timer expires and the UI thread runs its tasks.
Fairness == WF_vars(Queueing) /\ WF_vars(Timer) /\ WF_vars(Drain)

Spec == Init /\ [][Next]_vars /\ Fairness

---------------------------------------------------------------------------
\* Something that will make the UI thread draw: a thread that is about to post or to arm,
\* the task whose ticket counts, the timer, or the pass that is going on.
Awaited ==
    \/ \E t \in Thread : caller[t] # Outside
    \/ \E i \in DOMAIN posted : posted[i] = ticket.queued
    \/ timer # "off"
    \/ drain # Idle

(***************************************************************************)
(* No wakeup is lost: as long as something is to be redrawn, or a pass is  *)
(* reserved, a pass is on its way, whatever task was refused, overtaken or *)
(* failed; and nothing is drawn by a task that is not the one that counts. *)
(***************************************************************************)
PendingIsAwaited == pending.flags # {} \/ pending.scheduled => pending.scheduled /\ Awaited

\* Once stopped, no pass begins.
NoPassBeginsWhenStopped == stopped /\ drain'.pc = "applying" => drain.pc = "applying"

\* Everything requested is drawn, or dropped by Stop.
IsPending == pending.flags # {}
=============================================================================
