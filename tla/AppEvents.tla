------------------------------ MODULE AppEvents ------------------------------
(***************************************************************************)
(* The event side of AppController (AppController.cpp): facts of the       *)
(* device service, of the settings store and of the startup task, each     *)
(* told on a thread of its owner, become one ordered stream of events.     *)
(* The thread that publishes into an idle stream delivers until the stream *)
(* is empty; observers attach with a snapshot, detach, and the owner shuts *)
(* all of it down.  Device events carry a token of DeviceFactPublication-  *)
(* Fence, which the UI thread checks before it shows them.                 *)
(***************************************************************************)
EXTENDS Naturals, Sequences, SequencesExt

CONSTANTS
    Device,     \* devices
    Observer,   \* owners of one subscription each
    Presenter,  \* the observer whose handler queues events to the UI thread
    NoOne,      \* no thread, no observer
    Budgets     \* how many changes, attachments and shutdowns a behaviour has

Thread == {"devices", "settings", "startup"}

VARIABLES
    owner,      \* what the owners hold: a version for each source, the devices' states
    thread,     \* what each owner's thread is doing
    fence,      \* DeviceFactPublicationFence::m_devices
    stream,     \* EventState: Pending, NextRevision, DrainThread, Closed ...
    observer,   \* the subscriptions and the steps of SnapshotAndSubscribe
    life,       \* m_running, m_activeCalls and the step of Shutdown
    ui,         \* device events queued to the UI thread
    history,    \* what was published, and when each device last changed
    budget

vars == <<owner, thread, fence, stream, observer, life, ui, history, budget>>

Spend(k) == budget[k] > 0 /\ budget' = [budget EXCEPT ![k] = @ - 1]

Lifecycle == {"Idle", "Connecting", "Connected", "WaitingForReconnect", "Failed"}

\* The transitions of a device's session that its owner tells as facts.
Successors(state) ==
    CASE state = "Idle"                -> {"Connecting"}
      [] state = "Connecting"          -> {"Connected", "Failed"}
      [] state = "Connected"           -> {"Idle", "WaitingForReconnect"}
      [] state = "WaitingForReconnect" -> {"Connected", "Failed"}
      [] state = "Failed"              -> {"Connecting"}

NoFact == [device |-> NoOne]
NoToken == [device |-> NoOne]
NoDelivery == [revision |-> 0, event |-> NoToken, rest |-> <<>>]

(***************************************************************************)
(* DeviceFactPublicationFence: a generation for the connection and one for *)
(* the status of every device; an equal fact keeps its generation.         *)
(***************************************************************************)
NoState == [connected |-> FALSE, status |-> "None", connection |-> 0, state |-> 0]

KeepGeneration(generation) == generation
AdvanceGeneration(generation) == generation + 1

UpdateConnection(f, connected) ==
    IF f.connected = connected THEN f
    ELSE [f EXCEPT !.connected = connected, !.connection = AdvanceGeneration(@)]

UpdateStatus(f, status) ==
    IF f.status = status THEN f
    ELSE [f EXCEPT !.status = status, !.state = AdvanceGeneration(@)]

Observe(f, status) == UpdateStatus(UpdateConnection(f, status = "Connected"), status)

IsCurrent(e) == fence[e.device][e.channel] = e.generation

(***************************************************************************)
(* The events ObserveDevice makes of a fact of the device's session.       *)
(***************************************************************************)
Event(kind, source, version) == [kind |-> kind, source |-> source, version |-> version,
                                 device |-> NoOne, channel |-> "none", generation |-> 0]

DeviceEvent(kind, fact, f, channel) ==
    [Event(kind, "devices", fact.version) EXCEPT !.device = fact.device, !.channel = channel,
                                                 !.generation = f[channel]]

When(condition, e) == IF condition THEN <<e>> ELSE <<>>

EventsOf(fact, old, new) ==
    LET is(s)        == fact.state = s
        failed       == is("Failed")
        automatic    == failed /\ fact.automatic
        waits        == is("WaitingForReconnect") /\ old.status # "WaitingForReconnect"
        event(k, ch) == DeviceEvent(k, fact, new, ch)
    IN  When(is("Connected") /\ ~old.connected, event("Connected", "connection"))
        \o When(old.connected /\ ~is("Connected") /\ fact.reason, event("Disconnected", "connection"))
        \o <<event("Status", "state")>>
        \o When(waits, event("AutoReconnect", "state"))
        \o When(failed, event("Error", "state"))
        \o When(automatic, event("AutoReconnectFailed", "state"))
        \o <<Event("Activity", "devices", fact.version)>>

---------------------------------------------------------------------------
(***************************************************************************)
(* The owners change, and their threads tell it.                           *)
(***************************************************************************)
IdleThread == [pc |-> "free", fact |-> NoFact, todo |-> <<>>]

\* A disconnection is told without a reason when there is none to report.
DeviceChanges(d, state, reason) ==
    /\ thread["devices"].pc = "free" /\ Spend("facts")
    /\ state \in Successors(owner.state[d])
    /\ reason \/ owner.state[d] = "Connected"
    /\ owner' = [owner EXCEPT !.state[d] = state, !.version["devices"] = @ + 1]
    /\ thread' = [thread EXCEPT !["devices"].pc = "told",
                                !["devices"].fact =
                                    [device |-> d, state |-> state,
                                     version |-> owner.version["devices"] + 1,
                                     reason |-> reason, automatic |-> owner.state[d] = "WaitingForReconnect"]]
    /\ UNCHANGED <<fence, stream, observer, life, ui, history>>

\* The fence records the fact and a real connection is saved before anything is published.
ObserveDevice ==
    LET fact == thread["devices"].fact
        old  == fence[fact.device]
        new  == Observe(old, fact.state)
    IN  /\ thread["devices"].pc = "told"
        /\ IF stream.closed
           THEN /\ thread' = [thread EXCEPT !["devices"] = IdleThread]
                /\ UNCHANGED <<fence, owner, history>>
           ELSE /\ thread' = [thread EXCEPT !["devices"].pc = "publishing",
                                            !["devices"].todo = EventsOf(fact, old, new)]
                /\ fence' = [fence EXCEPT ![fact.device] = new]
                /\ owner' = IF fact.state = "Connected" /\ ~old.connected
                            THEN [owner EXCEPT !.version["settings"] = @ + 1] ELSE owner
                /\ history' = [history EXCEPT
                        !.connection[fact.device] = IF new.connection = old.connection /\
                                                       new.connected = old.connected
                                                    THEN @ ELSE fact.version,
                        !.state[fact.device] = IF new.status = old.status THEN @ ELSE fact.version]
        /\ UNCHANGED <<stream, observer, life, ui, budget>>

OwnerChanges(t) ==
    /\ t # "devices" /\ Spend(t)
    /\ owner' = [owner EXCEPT !.version[t] = @ + 1]
    /\ UNCHANGED <<thread, fence, stream, observer, life, ui, history>>

\* The settings and the startup task tell their latest version.
OwnerTells(t) ==
    /\ t # "devices" /\ thread[t].pc = "free"
    /\ owner.told[t] < owner.version[t]
    /\ owner' = [owner EXCEPT !.told[t] = owner.version[t]]
    /\ thread' = [thread EXCEPT ![t] = [pc |-> "publishing", fact |-> NoFact,
                                        todo |-> <<Event("Changed", t, owner.version[t])>>]]
    /\ UNCHANGED <<fence, stream, observer, life, ui, history, budget>>

---------------------------------------------------------------------------
(***************************************************************************)
(* EventState::Publish: numbered and addressed under the lock; whoever     *)
(* finds the stream idle delivers.                                         *)
(***************************************************************************)
\* A startup publication that is not newer than the last one is dropped.
IsStale(e) == e.source = "startup" /\ e.version <= stream.lastStartup

PublishEvent(t) ==
    LET e == Head(thread[t].todo)
    IN  /\ thread[t].pc = "publishing" /\ thread[t].todo # <<>> /\ stream.drainer # t
        /\ thread' = [thread EXCEPT ![t].todo = Tail(@)]
        /\ IF stream.closed \/ IsStale(e)
           THEN UNCHANGED <<stream, history>>
           ELSE /\ stream' = [stream EXCEPT
                        !.pending = Append(@, [revision |-> stream.next, event |-> e, rest |-> stream.handlers]),
                        !.next = @ + 1,
                        !.lastStartup = IF e.source = "startup" THEN e.version ELSE @,
                        !.drainer = IF @ = NoOne THEN t ELSE @]
                /\ history' = [history EXCEPT !.published = Append(@, e)]
        /\ UNCHANGED <<owner, fence, observer, life, ui, budget>>

\* ObserveDevice returns and no longer counts as active.
PublisherReturns(t) ==
    /\ thread[t].pc = "publishing" /\ thread[t].todo = <<>> /\ stream.drainer # t
    /\ thread' = [thread EXCEPT ![t] = IdleThread]
    /\ UNCHANGED <<owner, fence, stream, observer, life, ui, history, budget>>

NextDelivery ==
    /\ stream.drainer # NoOne /\ stream.delivery.rest = <<>>
    /\ IF stream.pending = <<>>
       THEN stream' = [stream EXCEPT !.drainer = NoOne, !.delivery = NoDelivery]
       ELSE stream' = [stream EXCEPT !.delivery = Head(stream.pending), !.pending = Tail(@)]
    /\ UNCHANGED <<owner, thread, fence, observer, life, ui, history, budget>>

\* The recipient is asked once more, under the lock, whether it is still there.
BeginDelivery ==
    LET o == Head(stream.delivery.rest)
        e == stream.delivery.event
    IN  /\ stream.delivery.rest # <<>> /\ stream.inFlight = NoOne
        /\ IF observer[o].active /\ ~stream.closed
           THEN /\ stream' = [stream EXCEPT !.inFlight = o]
                /\ observer' = [observer EXCEPT ![o].got = Append(@, stream.delivery.revision)]
                /\ ui' = IF o = Presenter /\ e.device # NoOne THEN Append(ui, e) ELSE ui
           ELSE /\ stream' = [stream EXCEPT !.delivery.rest = Tail(@)]
                /\ UNCHANGED <<observer, ui>>
        /\ UNCHANGED <<owner, thread, fence, life, history, budget>>

HandlerReturns ==
    /\ stream.inFlight # NoOne
    /\ stream' = [stream EXCEPT !.inFlight = NoOne, !.delivery.rest = Tail(@)]
    /\ UNCHANGED <<owner, thread, fence, observer, life, ui, history, budget>>

---------------------------------------------------------------------------
(***************************************************************************)
(* Observers.                                                              *)
(***************************************************************************)
NewObserver == [pc |-> "out", active |-> FALSE, attempt |-> 0, revision |-> 0,
                seen |-> [t \in Thread |-> 0], got |-> <<>>]

Attach(o) == stream' = [stream EXCEPT !.handlers = Append(@, o)]

Subscribe(o) ==
    /\ o # Presenter /\ observer[o].pc = "out" /\ Spend("attach")
    /\ ~stream.closed
    /\ Attach(o)
    /\ observer' = [observer EXCEPT ![o] = [NewObserver EXCEPT !.pc = "in", !.active = TRUE,
                                                               !.revision = stream.next - 1]]
    /\ UNCHANGED <<owner, thread, fence, life, ui, history>>

\* SnapshotAndSubscribe takes a lease, which Shutdown waits for.
BeginSnapshot(o) ==
    /\ o = Presenter /\ observer[o].pc = "out" /\ Spend("attach")
    /\ life.running
    /\ life' = [life EXCEPT !.calls = @ + 1]
    /\ observer' = [observer EXCEPT ![o] = [NewObserver EXCEPT !.pc = "revision"]]
    /\ UNCHANGED <<owner, thread, fence, stream, ui, history>>

Unavailable(o) ==
    /\ observer' = [observer EXCEPT ![o] = [NewObserver EXCEPT !.pc = "gone"]]
    /\ life' = [life EXCEPT !.calls = @ - 1]

ReadRevision(o) ==
    /\ observer[o].pc = "revision"
    /\ IF stream.closed
       THEN Unavailable(o)
       ELSE /\ observer' = [observer EXCEPT ![o].pc = "capture", ![o].revision = stream.next - 1]
            /\ UNCHANGED life
    /\ UNCHANGED <<owner, thread, fence, stream, ui, history, budget>>

Capture(o) ==
    /\ observer[o].pc = "capture"
    /\ IF ~life.running
       THEN Unavailable(o)
       ELSE /\ observer' = [observer EXCEPT ![o].pc = "attach", ![o].seen = owner.version]
            /\ UNCHANGED life
    /\ UNCHANGED <<owner, thread, fence, stream, ui, history, budget>>

\* A publication in between makes the snapshot old: it is taken again, three times at most.
AttachAnyway(o) == TRUE
NothingWasPublished(o) == stream.next - 1 = observer[o].revision

AttachIfCurrent(o) ==
    /\ observer[o].pc = "attach"
    /\ IF stream.closed
       THEN Unavailable(o) /\ UNCHANGED stream
       ELSE IF NothingWasPublished(o)
       THEN /\ Attach(o)
            /\ observer' = [observer EXCEPT ![o].pc = "in", ![o].active = TRUE]
            /\ life' = [life EXCEPT !.calls = @ - 1]
       ELSE IF observer[o].attempt = 2
       THEN Unavailable(o) /\ UNCHANGED stream
       ELSE /\ observer' = [observer EXCEPT ![o].pc = "revision", ![o].attempt = @ + 1]
            /\ UNCHANGED <<stream, life>>
    /\ UNCHANGED <<owner, thread, fence, ui, history, budget>>

\* Subscription::Reset: off the delivering thread it returns when its handler does;
\* on it (inside a handler) it returns at once.
Detach(o) ==
    /\ stream' = [stream EXCEPT !.handlers = SelectSeq(@, LAMBDA p : p # o)]
    /\ observer' = [observer EXCEPT ![o].pc = "leaving", ![o].active = FALSE]

Reset(o) ==
    /\ observer[o].pc = "in" /\ o \in ToSet(stream.handlers) /\ Spend("resets")
    /\ Detach(o)
    /\ UNCHANGED <<owner, thread, fence, life, ui, history>>

ResetInHandler(o) ==
    /\ stream.inFlight # NoOne
    /\ observer[o].pc = "in" /\ o \in ToSet(stream.handlers) /\ Spend("resets")
    /\ stream' = [stream EXCEPT !.handlers = SelectSeq(@, LAMBDA p : p # o)]
    /\ observer' = [observer EXCEPT ![o].pc = IF o = stream.inFlight THEN "leaving" ELSE "gone",
                                    ![o].active = FALSE]
    /\ UNCHANGED <<owner, thread, fence, life, ui, history>>

MayReturnFromReset(o) == stream.inFlight # o

ResetReturns(o) ==
    /\ observer[o].pc = "leaving" /\ MayReturnFromReset(o)
    /\ observer' = [observer EXCEPT ![o].pc = "gone"]
    /\ UNCHANGED <<owner, thread, fence, stream, life, ui, history, budget>>

\* HandleAppEvent on the UI thread: an event whose token is no longer current is dropped.
PresentDeviceEvent ==
    /\ ui # <<>> /\ Spend("shows")
    /\ ui' = Tail(ui)
    /\ history' = [history EXCEPT !.shown = IF IsCurrent(Head(ui)) THEN Head(ui) ELSE NoToken]
    /\ UNCHANGED <<owner, thread, fence, stream, observer, life>>

---------------------------------------------------------------------------
(***************************************************************************)
(* RequestStop and Shutdown, by the owner of the controller.               *)
(***************************************************************************)
StopAdmission ==
    /\ life.pc = "up" /\ Spend("shutdowns")
    /\ life' = [life EXCEPT !.pc = "stopping", !.running = FALSE]
    /\ UNCHANGED <<owner, thread, fence, stream, observer, ui, history>>

CloseStream ==
    /\ life.pc = "stopping"
    /\ life' = [life EXCEPT !.pc = "closed"]
    /\ stream' = [stream EXCEPT !.closed = TRUE, !.handlers = <<>>, !.pending = <<>>]
    /\ observer' = [o \in Observer |-> [observer[o] EXCEPT !.active = FALSE]]
    /\ UNCHANGED <<owner, thread, fence, ui, history, budget>>

\* Shutdown waits for the calls first, then for observations and for the delivering thread.
Drained == thread["devices"].pc # "publishing" /\ stream.drainer = NoOne

ShutdownReturns ==
    /\ life.pc = "closed" /\ life.calls = 0 /\ Drained
    /\ life' = [life EXCEPT !.pc = "down"]
    /\ UNCHANGED <<owner, thread, fence, stream, observer, ui, history, budget>>

---------------------------------------------------------------------------
Init ==
    /\ owner = [state |-> [d \in Device |-> "Idle"], version |-> [t \in Thread |-> 0],
                told |-> [t \in Thread |-> 0]]
    /\ thread = [t \in Thread |-> IdleThread]
    /\ fence = [d \in Device |-> NoState]
    /\ stream = [pending |-> <<>>, next |-> 1, drainer |-> NoOne, delivery |-> NoDelivery,
                 inFlight |-> NoOne, handlers |-> <<>>, lastStartup |-> 0, closed |-> FALSE]
    /\ observer = [o \in Observer |-> NewObserver]
    /\ life = [running |-> TRUE, calls |-> 0, pc |-> "up"]
    /\ ui = <<>>
    /\ history = [published |-> <<>>, shown |-> NoToken,
                  connection |-> [d \in Device |-> 0], state |-> [d \in Device |-> 0]]
    /\ budget \in Budgets

Publication == \/ \E d \in Device, s \in Lifecycle, r \in BOOLEAN : DeviceChanges(d, s, r)
               \/ ObserveDevice
               \/ \E t \in Thread : \/ OwnerChanges(t) \/ OwnerTells(t)
                                    \/ PublishEvent(t) \/ PublisherReturns(t)
Delivery == NextDelivery \/ BeginDelivery \/ HandlerReturns \/ PresentDeviceEvent
Observation == \E o \in Observer : \/ Subscribe(o) \/ BeginSnapshot(o) \/ ReadRevision(o)
                                   \/ Capture(o) \/ AttachIfCurrent(o)
                                   \/ Reset(o) \/ ResetInHandler(o) \/ ResetReturns(o)
Shutdown == StopAdmission \/ CloseStream \/ ShutdownReturns

Next == Publication \/ Delivery \/ Observation \/ Shutdown

Spec == Init /\ [][Next]_vars

---------------------------------------------------------------------------
\* The revisions on their way to o: of the delivery at hand and of the pending ones.
Coming(o) ==
    LET started == stream.inFlight = o
        now     == IF o \in ToSet(stream.delivery.rest) /\ ~started
                   THEN <<stream.delivery.revision>> ELSE <<>>
        later   == SelectSeq(stream.pending, LAMBDA p : o \in ToSet(p.rest))
    IN  now \o [i \in DOMAIN later |-> later[i].revision]

(***************************************************************************)
(* The snapshot and the stream join without a gap and without an overlap   *)
(* that hides a change: every event up to the observer's revision is in    *)
(* its snapshot, and every later one is delivered to it once, in order     *)
(* (SnapshotAndSubscribe, Publish).                                        *)
(***************************************************************************)
ObserversMissNothing ==
    \A o \in Observer : observer[o].active =>
        /\ o = Presenter => \A r \in 1..observer[o].revision :
                history.published[r].version <= observer[o].seen[history.published[r].source]
        /\ observer[o].got \o Coming(o)
             = [i \in 1..(stream.next - 1 - observer[o].revision) |-> observer[o].revision + i]

(***************************************************************************)
(* When Reset has returned, or Shutdown has, no handler is running that    *)
(* was detached, none is started, and nothing more is saved for a device.  *)
(***************************************************************************)
NothingRunsAfterReturn ==
    /\ \A o \in Observer : observer[o].pc = "gone" => stream.inFlight # o
    /\ life.pc = "down" => /\ stream.inFlight = NoOne /\ stream.drainer = NoOne
                           /\ thread["devices"].pc # "publishing"
                           /\ life.calls = 0

(***************************************************************************)
(* What the UI thread shows of a device is not older than the last change  *)
(* of what the event is about: a toast for a connection that has been lost *)
(* since, or for a failure that has been overcome, is dropped, even when   *)
(* the device is back in the same state (HandleAppEvent, IsCurrent).       *)
(***************************************************************************)
ShowsTheLatest ==
    LET e == history'.shown
    IN  Len(ui') < Len(ui) /\ e.device # NoOne => e.version >= history[e.channel][e.device]

=============================================================================
