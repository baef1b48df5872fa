--------------------------- MODULE ResourceMonitor --------------------------
(***************************************************************************)
(* ResourcePressureMonitor.cpp: thread pool callbacks read the machine's   *)
(* load, one of them at a time tells the handler, and the owner, or the    *)
(* handler itself, starts and stops the monitor.                           *)
(*                                                                         *)
(* A probe that started later than one already applied is recognised by    *)
(* the tickets of the code; here a run keeps its unanswered probes in the  *)
(* order of their tickets, and applying one drops it and those before it.  *)
(* The owner's epoch is the run, if any, whose epoch is current.           *)
(***************************************************************************)
EXTENDS ResourcePressure, Sequences, FiniteSets

CONSTANTS
    Thread,    \* of the pool
    MaxRuns,   \* Start calls that make a run
    Reading,   \* what the machine's load may be
    Unread,    \* a probe none of whose readings succeeded
    Budgets    \* starts, stops, handler's stops, changes of load, heartbeats, faults

VARIABLES mon, run, probe, op, world, heard, budget

vars == <<mon, run, probe, op, world, heard, budget>>

Run == 1 .. MaxRuns
NoRun == 0
Owner == "owner"
Worker == "worker"  \* DeferredStopWork
Caller == Thread \cup {Owner, Worker}

Spend(k) == budget[k] > 0 /\ budget' = [budget EXCEPT ![k] = @ - 1]

IsOwnerEpochCurrent(r) == mon.current = r
Accepts(r) == run[r].open /\ IsOwnerEpochCurrent(r)
At(p, at) == probe[p].at = at
GoTo(p, at) == probe' = [probe EXCEPT ![p].at = at]

\* A handler asks to stop only while no Start is under way.
Starting == op[Owner].at \in {"create", "check"}
SelfStopping == \E p \in Thread : op[p].at = "try"

---------------------------------------------------------------------------
(***************************************************************************)
(* ProbeAndPublish, on a thread of the pool.                               *)
(***************************************************************************)
ProbeStarts(p, r) ==
    /\ At(p, "idle") /\ ~run[r].down /\ Accepts(r)
    /\ probe' = [probe EXCEPT ![p].at = "reading", ![p].run = r]
    /\ run' = [run EXCEPT ![r].tickets = Append(@, p)]
    /\ UNCHANGED <<mon, op, world, heard, budget>>

ProbeReads(p, ok) ==
    /\ At(p, "reading")
    /\ IF ok THEN UNCHANGED budget ELSE Spend("faults")
    /\ probe' = [probe EXCEPT ![p].at = "read", ![p].reading = IF ok THEN world ELSE Unread]
    /\ UNCHANGED <<mon, run, op, world, heard>>

TicketsAfter(tickets, p) ==
    LET i == CHOOSE j \in DOMAIN tickets : tickets[j] = p
    IN  SubSeq(tickets, i + 1, Len(tickets))

HoldsTicket(p, r) == \E i \in DOMAIN run[r].tickets : run[r].tickets[i] = p

ProbeDropped(p) ==
    LET r == probe[p].run
    IN  /\ At(p, "read") /\ ~(Accepts(r) /\ HoldsTicket(p, r))
        /\ probe' = [probe EXCEPT ![p].at = "idle"]
        /\ run' = [run EXCEPT ![r].tickets = SelectSeq(@, LAMBDA q : q # p)]
        /\ UNCHANGED <<mon, op, world, heard, budget>>

DeliverAnyway(c) == TRUE
\* The probe that finds nobody delivering becomes the one that does.
BecomesDeliverer(c) == ~c.delivering

ProbeApplies(p, heartbeat) ==
    /\ At(p, "read") /\ Accepts(probe[p].run) /\ HoldsTicket(p, probe[p].run)
    /\ IF heartbeat THEN Spend("heartbeats") ELSE UNCHANGED budget
    /\ \E r \in {probe[p].run} : \E c \in {run[r]} :
       \E v \in {Apply(c.values, probe[p].reading)} :
         LET told == c.published # {v} \/ heartbeat
             lead == told /\ BecomesDeliverer(c)
         IN  /\ heartbeat => c.published = {v}
             /\ run' = [run EXCEPT ![r] =
                  [c EXCEPT !.tickets = TicketsAfter(@, p), !.values = v, !.published = {v},
                            !.waits = PlanMemoryNotificationWaits(probe[p].reading.low, probe[p].reading.high),
                            !.queue = IF told THEN Append(@, [values |-> v, sequence |-> mon.sequence + 1]) ELSE @,
                            !.delivering = @ \/ lead, !.callbacks = IF lead THEN @ + 1 ELSE @]]
             /\ mon' = [mon EXCEPT !.sequence = IF told THEN @ + 1 ELSE @]
             /\ GoTo(p, IF lead THEN "loop" ELSE "idle")
    /\ UNCHANGED <<op, world, heard>>

DeliverNext(p) ==
    LET r == probe[p].run
    IN  /\ At(p, "loop")
        /\ IF ~Accepts(r) \/ run[r].queue = <<>>
           THEN /\ run' = [run EXCEPT ![r].queue = <<>>, ![r].delivering = FALSE]
                /\ GoTo(p, "finish")
           ELSE /\ run' = [run EXCEPT ![r].queue = Tail(@)]
                /\ probe' = [probe EXCEPT ![p].at = "popped", ![p].snapshot = Head(run[r].queue)]
        /\ UNCHANGED <<mon, op, world, heard, budget>>

HandlerCalled(p) ==
    /\ At(p, "popped") /\ GoTo(p, "calling")
    /\ heard' = [values |-> probe[p].snapshot.values, sequence |-> probe[p].snapshot.sequence,
                 ordered |-> heard.ordered /\ probe[p].snapshot.sequence > heard.sequence]
    /\ UNCHANGED <<mon, run, op, world, budget>>

HandlerReturns(p) ==
    /\ At(p, "calling") /\ op[p].at = "none" /\ GoTo(p, "loop")
    /\ UNCHANGED <<mon, run, op, world, heard, budget>>

FinishPublicCallback(p) ==
    /\ At(p, "finish") /\ GoTo(p, "idle")
    /\ run' = [run EXCEPT ![probe[p].run].callbacks = @ - 1]
    /\ UNCHANGED <<mon, op, world, heard, budget>>

---------------------------------------------------------------------------
(***************************************************************************)
(* Start, Stop and the deferred stop.  A caller t holds LifecycleMutex     *)
(* while mon.lock = t; op[t] is where it is.                               *)
(***************************************************************************)
NoOp == [at |-> "none", fromCallback |-> FALSE, run |-> NoRun, then |-> "return"]
Return(t, m) == /\ op' = [op EXCEPT ![t] = NoOp]
                /\ mon' = [m EXCEPT !.lock = IF @ = t THEN "free" ELSE @]
Step(t, at) == op' = [op EXCEPT ![t].at = at]

\* StopRequestFlags.exchange(0), then StopWhileLocked.
BeginStopWhileLocked(t, m, from, then) ==
    /\ mon' = [m EXCEPT !.flags = {}, !.running = FALSE, !.lock = t, !.active = NoRun]
    /\ op' = [op EXCEPT ![t] = [at |-> IF m.active = NoRun THEN "drain" ELSE "native",
                                fromCallback |-> from, run |-> m.active, then |-> then]]
    /\ run' = IF m.active = NoRun THEN run
              ELSE [run EXCEPT ![m.active].open = FALSE, ![m.active].down = TRUE]

InNativeCallback(p, r) == probe[p].run = r /\ probe[p].at \in {"reading", "read"}

AfterNativeDrain(o) == IF o.fromCallback THEN "retire" ELSE "public"

NativeDrained(t) ==
    /\ op[t].at = "native"
    /\ \A p \in Thread : ~InNativeCallback(p, op[t].run)
    /\ Step(t, AfterNativeDrain(op[t]))
    /\ UNCHANGED <<mon, run, probe, world, heard, budget>>

WaitForPublicCallbacks(t) ==
    /\ op[t].at = "public" /\ run[op[t].run].callbacks = 0
    /\ Step(t, "drain")
    /\ UNCHANGED <<mon, run, probe, world, heard, budget>>

Retire(t) ==
    /\ op[t].at = "retire"
    /\ Return(t, IF run[op[t].run].callbacks > 0 THEN [mon EXCEPT !.retiring = op[t].run] ELSE mon)
    /\ UNCHANGED <<run, probe, world, heard, budget>>

Drained(r) == r \in Run => run[r].callbacks = 0

\* The end of StopWhileLocked; a Start that found a stop pending goes on.
DrainRetiring(t) ==
    /\ op[t].at = "drain" /\ (~op[t].fromCallback => Drained(mon.retiring))
    /\ LET m == IF op[t].fromCallback THEN mon ELSE [mon EXCEPT !.retiring = NoRun]
       IN  IF op[t].then = "create" THEN Step(t, "create") /\ mon' = m
           ELSE Return(t, [m EXCEPT !.quiet = @ \/ op[t].then = "quiet"])
    /\ UNCHANGED <<run, probe, world, heard, budget>>

\* The owner starts a monitor that is not running.
Start ==
    /\ op[Owner].at = "none" /\ ~mon.running /\ mon.lock = "free" /\ Spend("starts")
    /\ ~SelfStopping
    /\ \E m \in {[mon EXCEPT !.quiet = FALSE]} :
         IF "stop" \in m.flags
         THEN BeginStopWhileLocked(Owner, m, "callback" \in m.flags,
                                   IF "callback" \in m.flags THEN "return" ELSE "create")
         ELSE /\ mon' = [m EXCEPT !.flags = {}, !.lock = Owner]
              /\ Step(Owner, "create") /\ UNCHANGED run
    /\ UNCHANGED <<probe, world, heard>>

StartRun(ok) ==
    /\ op[Owner].at = "create"
    /\ IF mon.running \/ ~ok THEN Return(Owner, mon) /\ UNCHANGED run
       ELSE /\ Drained(mon.retiring) /\ mon.runs < MaxRuns
            /\ \E r \in {mon.runs + 1} :
                 /\ mon' = [mon EXCEPT !.runs = r, !.retiring = NoRun, !.current = r, !.active = r,
                                       !.running = TRUE]
                 /\ run' = [run EXCEPT ![r].open = TRUE, ![r].waits = {"low", "high"}]
            /\ Step(Owner, "check")
    /\ IF ok THEN UNCHANGED budget ELSE ~mon.running /\ Drained(mon.retiring) /\ Spend("faults")
    /\ UNCHANGED <<probe, world, heard>>

\* A handler of the new run may have asked to stop while Start held the lock.
StopAfterArm ==
    /\ op[Owner].at = "check"
    /\ IF "stop" \in mon.flags
       THEN BeginStopWhileLocked(Owner, mon, "callback" \in mon.flags, "return")
       ELSE Return(Owner, mon) /\ UNCHANGED run
    /\ UNCHANGED <<probe, world, heard, budget>>

RequestStop(m, fromCallback) ==
    [m EXCEPT !.running = FALSE, !.current = NoRun,
              !.flags = @ \cup {"stop"} \cup (IF fromCallback THEN {"callback"} ELSE {})]

Stop ==
    /\ op[Owner].at = "none" /\ Spend("stops")
    /\ mon' = RequestStop(mon, FALSE) /\ Step(Owner, "lock")
    /\ UNCHANGED <<run, probe, world, heard>>

StopLocked ==
    /\ op[Owner].at = "lock" /\ mon.lock = "free"
    /\ BeginStopWhileLocked(Owner, mon, FALSE, "quiet")
    /\ UNCHANGED <<probe, world, heard, budget>>

\* The handler stops the monitor it is called by.
HandlerStops(p) ==
    /\ At(p, "calling") /\ op[p].at = "none" /\ Spend("inner")
    /\ ~Starting
    /\ mon' = RequestStop(mon, TRUE) /\ Step(p, "try")
    /\ UNCHANGED <<run, probe, world, heard>>

DeferStop(t) == Return(t, [mon EXCEPT !.deferred = TRUE]) /\ UNCHANGED run

TryLock(p) ==
    /\ op[p].at = "try"
    /\ IF mon.lock = "free" THEN BeginStopWhileLocked(p, mon, "callback" \in mon.flags, "return")
       ELSE DeferStop(p)
    /\ UNCHANGED <<probe, world, heard, budget>>

DeferredStopCallback ==
    /\ mon.deferred /\ op[Worker].at = "none" /\ mon.lock = "free"
    /\ \E m \in {[mon EXCEPT !.deferred = FALSE]} :
         IF "stop" \in m.flags THEN BeginStopWhileLocked(Worker, m, "callback" \in m.flags, "return")
         ELSE mon' = [m EXCEPT !.flags = {}] /\ UNCHANGED <<op, run>>
    /\ UNCHANGED <<probe, world, heard, budget>>

LoadChanges ==
    /\ Spend("changes") /\ \E w \in Reading \ {world} : world' = w
    /\ UNCHANGED <<mon, run, probe, op, heard>>

---------------------------------------------------------------------------
Init ==
    /\ mon = [running |-> FALSE, current |-> NoRun, flags |-> {}, active |-> NoRun, retiring |-> NoRun,
              lock |-> "free", sequence |-> 0, deferred |-> FALSE, runs |-> 0, quiet |-> FALSE]
    /\ run = [r \in Run |-> [open |-> FALSE, down |-> FALSE, tickets |-> <<>>, values |-> NoValues,
                             published |-> {}, queue |-> <<>>, delivering |-> FALSE, callbacks |-> 0,
                             waits |-> {}]]
    /\ probe = [p \in Thread |-> [at |-> "idle", run |-> NoRun, reading |-> Unread,
                                  snapshot |-> [values |-> NoValues, sequence |-> 0]]]
    /\ op = [t \in Caller |-> NoOp]
    /\ world \in Reading
    /\ heard = [values |-> NoValues, sequence |-> 0, ordered |-> TRUE]
    /\ budget \in Budgets

Probes == \E p \in Thread : \/ \E r \in Run : ProbeStarts(p, r)
                            \/ \E b \in BOOLEAN : ProbeReads(p, b) \/ ProbeApplies(p, b)
                            \/ ProbeDropped(p)

Delivers(p) == DeliverNext(p) \/ HandlerCalled(p) \/ HandlerReturns(p) \/ FinishPublicCallback(p) \/ TryLock(p)

Lifecycle == \/ \E t \in Caller : NativeDrained(t) \/ WaitForPublicCallbacks(t) \/ Retire(t) \/ DrainRetiring(t)
             \/ (\E ok \in BOOLEAN : StartRun(ok))
             \/ StopAfterArm \/ StopLocked \/ DeferredStopCallback

Next == \/ Probes \/ (\E p \in Thread : Delivers(p) \/ HandlerStops(p))
        \/ Lifecycle \/ Start \/ Stop \/ LoadChanges

---------------------------------------------------------------------------
\* What the handler is told comes in the order of its numbers, over restarts
\* too, and when the owner's Stop has returned no handler is running or about
\* to (ProbeAndPublish's single deliverer; Shutdown and Retiring).
HandlerIsToldInOrderAndThenNothing ==
    /\ heard.ordered
    /\ mon.quiet => \A p \in Thread : ~At(p, "calling")

\* When the load stays as it is, every Start and Stop has returned, no stop
\* asked for is forgotten, and a running monitor has told what the load is.
Told ==
    /\ \A t \in Caller : op[t].at = "none"
    /\ mon.lock = "free" /\ mon.flags = {} /\ ~mon.deferred
    /\ mon.running = (mon.active # NoRun)
    /\ mon.running => heard.values = Apply(NoValues, world)

=============================================================================
