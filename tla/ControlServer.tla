---------------------------- MODULE ControlServer ----------------------------
(***************************************************************************)
(* CommandLineControlServer: the pipe instances, the thread pool callbacks *)
(* that drive them, the life cycle that starts and stops them, and the     *)
(* gate of ControlCommandAdapter::Handle that every execution passes.      *)
(*                                                                         *)
(* A slot is a PipeInstance together with the one callback that can be at  *)
(* work for it (`pc').  Whatever the source does under StateMutex is one   *)
(* step; the trust check, the handler and the waits of Stop are between    *)
(* steps.  m_accepting is set and cleared with m_running and is one field  *)
(* with it.  Deadlines of transfers are failures that may happen at any    *)
(* time, but for the one on reading a request, which bounds the age of     *)
(* what can still be executed.                                             *)
(***************************************************************************)
EXTENDS CommandPipe

CONSTANTS
    RearmLimit,      \* RearmFailures from which a pipe is recreated (7)
    RequestTimeout,  \* Options::RequestTimeoutMs, in clock units
    Mutating         \* the bodies ControlCommandAdapter::IsMutating accepts

ASSUME ServerAssumption ==
    /\ {RearmLimit, RequestTimeout} \subseteq Nat
    /\ Mutating \subseteq Body

VARIABLES
    life,            \* the fields m_lifecycleMutex guards
    slot,            \* m_instances
    cache,           \* the fields m_requestMutex guards
    mutationActive,  \* ControlCommandAdapter::m_mutationActive
    executed         \* how often the handler was entered for each request, ever

serverVars == <<life, slot, cache, mutationActive, executed>>

\* PipePhase; the header and the payload of a message are one transfer here.
Phase == {"Disconnected", "Connecting", "ReadingRequest", "RunningHandler", "WritingResponse",
          "ReadingAcknowledgement"}
Pc == {"none", "connected", "queued", "begun", "waiting", "handling", "dispatched",
       "answered", "responding", "recreating", "creating"}

NoJob == [request |-> NoRequest, pending |-> FALSE, run |-> 0, code |-> "OperationFailed", mutation |-> FALSE]

NewSlot(created) ==
    [phase |-> "Disconnected", request |-> NoRequest, deadline |-> 0, answer |-> NoAnswer,
     pending |-> FALSE, record |-> 0, failures |-> 0, recreateRequired |-> ~created,
     recreateScheduled |-> FALSE, rearm |-> FALSE, pc |-> "none", job |-> NoJob]

NewLife == [desired |-> FALSE, running |-> FALSE, starting |-> FALSE, stopping |-> FALSE,
            stopRequested |-> FALSE, deferred |-> FALSE, retry |-> FALSE, token |-> FALSE]

ServerInit ==
    /\ life = NewLife
    /\ slot = [i \in Instance |-> NewSlot(FALSE)]
    /\ cache = EmptyCache
    /\ mutationActive = FALSE
    /\ executed = [r \in Request |-> 0]

\* The native failures: of the call, or of the handle it was made on.
ArmError == {"none", "call", "handle"}

Fault == Spend("faults")
FaultIf(error) == IF error = "none" THEN UNCHANGED budget ELSE Fault

(***************************************************************************)
(* Connection and recovery.  Arm(s, p, error) is ArmConnectionLocked on a  *)
(* slot and its pipe; error is what the native call returns beyond what    *)
(* the pipe's own state makes it return.                                   *)
(***************************************************************************)
ScheduleRearmLost(s) == [s EXCEPT !.phase = "Disconnected", !.failures = @ + 1]

ScheduleRearmLocked(s) ==
    [s EXCEPT !.phase = "Disconnected", !.failures = @ + 1, !.rearm = TRUE]

ArmRunning(s, p, error) ==
    IF p.state = "absent"
    THEN [s |-> ScheduleRearmLocked([s EXCEPT !.recreateRequired = TRUE]), p |-> p]
    ELSE IF error # "none"
    THEN [s |-> ScheduleRearmLocked([s EXCEPT !.recreateRequired =
                    @ \/ error = "handle" \/ s.failures >= RearmLimit]), p |-> p]
    ELSE IF p.client = NoClient
    THEN [s |-> [s EXCEPT !.phase = "Connecting"], p |-> ListeningPipe]
    ELSE IF ~p.closed
    THEN [s |-> [s EXCEPT !.phase = "Connecting", !.pc = "connected"],
          p |-> [p EXCEPT !.state = "connected"]]
    ELSE [s |-> ScheduleRearmLocked([s EXCEPT !.failures = 0]), p |-> IdlePipe]

Arm(s, p, error) == IF life.running THEN ArmRunning(s, p, error) ELSE [s |-> s, p |-> p]

FinishedCacheKeeps(s) ==
    IF s.pending THEN CompletePendingDelivery(cache, s.request.id) ELSE cache

\* FinishClientLocked: the deliveries the slot answers for end with the connection, and
\* the pipe is armed for the next client.
FinishedCache(s) ==
    LET released == IF s.pending THEN CompletePendingDelivery(cache, s.request.id) ELSE cache
    IN IF s.record = 0 THEN released
       ELSE CompleteDelivery(released, s.request.id, s.record, FALSE, now)

\* The slot and its pipe become what arming them leaves.
SetArmed(i, s, p) ==
    \E error \in ArmError :
        /\ FaultIf(error)
        /\ slot' = [slot EXCEPT ![i] = Arm(s, p, error).s]
        /\ pipe' = [pipe EXCEPT ![i] = Arm(s, p, error).p]

Finished(s) == [s EXCEPT !.phase = "Disconnected", !.pending = FALSE, !.record = 0, !.pc = "none"]

Finish(i) ==
    /\ cache' = FinishedCache(slot[i])
    /\ slot' = [slot EXCEPT ![i] = Arm(Finished(slot[i]), IdlePipe, "none").s]
    /\ pipe' = [pipe EXCEPT ![i] = Arm(Finished(slot[i]), IdlePipe, "none").p]

\* OnRearmReady: the retry arms the pipe again, or has it recreated.
OnRearmReady(i) ==
    /\ slot[i].rearm
    /\ IF ~life.running
       THEN slot' = [slot EXCEPT ![i].rearm = FALSE] /\ UNCHANGED <<pipe, budget>>
       ELSE IF slot[i].recreateRequired
       THEN /\ slot' = [slot EXCEPT ![i].rearm = FALSE, ![i].recreateScheduled = TRUE,
                                    ![i].pc = IF slot[i].recreateScheduled THEN @ ELSE "recreating"]
            /\ UNCHANGED <<pipe, budget>>
       ELSE SetArmed(i, [slot[i] EXCEPT !.rearm = FALSE], pipe[i])
    /\ UNCHANGED <<epoch, now, life, cache, mutationActive, executed>>

\* RecreatePipeInstance, first lock: the old pipe is detached and closed.
DetachPipe(i) ==
    /\ slot[i].pc = "recreating"
    /\ IF life.running /\ slot[i].recreateRequired
       THEN /\ slot' = [slot EXCEPT ![i].pc = "creating"]
            /\ pipe' = [pipe EXCEPT ![i] = AbsentPipe]
       ELSE /\ slot' = [slot EXCEPT ![i].pc = "none", ![i].recreateScheduled = FALSE]
            /\ UNCHANGED pipe
    /\ UNCHANGED <<epoch, now, life, cache, mutationActive, executed, budget>>

\* RecreatePipeInstance: the new pipe is created, installed and armed, or tried again.
RecreatePipeInstance(i) ==
    /\ slot[i].pc = "creating"
    /\ LET s == [slot[i] EXCEPT !.pc = "none", !.recreateScheduled = FALSE]
       IN IF ~life.running
          THEN slot' = [slot EXCEPT ![i] = s] /\ UNCHANGED <<pipe, budget>>
          ELSE \/ /\ Fault
                  /\ slot' = [slot EXCEPT ![i] = ScheduleRearmLocked([s EXCEPT !.recreateRequired = TRUE])]
                  /\ UNCHANGED pipe
               \/ SetArmed(i, [s EXCEPT !.recreateRequired = FALSE, !.failures = 0], FreshPipe)
    /\ UNCHANGED <<epoch, now, life, cache, mutationActive, executed>>

(***************************************************************************)
(* The protocol of one connection.                                         *)
(***************************************************************************)
\* HandleConnectedInstance: a client the server does not trust is dropped unheard.
HandleConnectedInstance(i, trusted) ==
    /\ slot[i].pc = "connected"
    /\ BreakUnless(trusted)
    /\ IF ~life.running \/ ~trusted
       THEN Finish(i)
       ELSE /\ slot' = [slot EXCEPT ![i].pc = "none", ![i].phase = "ReadingRequest",
                                    ![i].request = NoRequest, ![i].answer = NoAnswer, ![i].record = 0,
                                    ![i].deadline = now + RequestTimeout, ![i].failures = 0]
            /\ UNCHANGED <<pipe, cache>>
    /\ UNCHANGED <<epoch, now, life, mutationActive, executed>>

\* A transfer is under way in these phases: its completion is a callback to come.
InTransfer(i) ==
    /\ slot[i].pc = "none"
    /\ slot[i].phase \notin {"Disconnected", "RunningHandler"}

\* HandleIoCompletion with an error: the client went away, was too slow or sent what
\* the protocol does not allow; a stopped server leaves the slot to Stop.
TransferFails(i) ==
    /\ InTransfer(i) /\ life.running
    /\ BreakUnless(pipe[i].closed \/ (slot[i].phase = "ReadingRequest" /\ now >= slot[i].deadline))
    /\ Finish(i)
    /\ UNCHANGED <<epoch, now, life, mutationActive, executed>>

\* HandleIoCompletion of ConnectNamedPipe.
ClientConnected(i) ==
    /\ InTransfer(i) /\ life.running /\ slot[i].phase = "Connecting"
    /\ pipe[i].client # NoClient
    /\ slot' = [slot EXCEPT ![i].pc = "connected"]
    /\ UNCHANGED <<epoch, now, pipe, life, cache, mutationActive, executed, budget>>

\* HandleCompletedTransferLocked and DispatchRequestLocked: the request, header and
\* payload, is read within its deadline, and registered before the handler is queued.
DispatchRequest(i) ==
    /\ InTransfer(i) /\ life.running /\ slot[i].phase = "ReadingRequest"
    /\ pipe[i].request # NoRequest /\ now < slot[i].deadline
    /\ cache' = RegisterPending(cache, pipe[i].request.id)
    /\ slot' = [slot EXCEPT ![i].phase = "RunningHandler", ![i].pc = "queued", ![i].pending = TRUE,
                            ![i].request = pipe[i].request]
    /\ pipe' = [pipe EXCEPT ![i].request = NoRequest]
    /\ UNCHANGED <<epoch, now, life, mutationActive, executed, budget>>

\* The answer, header and payload, is written.  A client that closed its end fails it.
WriteResponse(i) ==
    /\ InTransfer(i) /\ life.running /\ slot[i].phase = "WritingResponse"
    /\ ~pipe[i].closed
    /\ slot' = [slot EXCEPT ![i].phase = "ReadingAcknowledgement"]
    /\ pipe' = [pipe EXCEPT ![i].answer = slot[i].answer]
    /\ UNCHANGED <<epoch, now, life, cache, mutationActive, executed, budget>>

\* The acknowledgement ends the delivery before the slot is given to the next client.
ReadAcknowledgement(i) ==
    /\ InTransfer(i) /\ life.running /\ slot[i].phase = "ReadingAcknowledgement"
    /\ pipe[i].acknowledged
    /\ cache' = IF slot[i].record = 0 THEN cache
                ELSE CompleteDelivery(cache, slot[i].request.id, slot[i].record, TRUE, now)
    /\ SetArmed(i, [slot[i] EXCEPT !.phase = "Disconnected", !.record = 0], IdlePipe)
    /\ UNCHANGED <<epoch, now, life, mutationActive, executed>>

(***************************************************************************)
(* OnHandlerReady and ExecuteOnce.                                         *)
(***************************************************************************)
\* The callback takes the request and the registration over from the slot.
HandlerBegins(i) ==
    /\ slot[i].pc = "queued"
    /\ LET job == [NoJob EXCEPT !.request = slot[i].request, !.pending = slot[i].pending]
       IN slot' = [slot EXCEPT ![i].pc = IF life.running THEN "begun" ELSE "answered",
                               ![i].pending = FALSE, ![i].job = job]
    /\ UNCHANGED <<epoch, now, pipe, life, cache, mutationActive, executed, budget>>

\* The thread has no apartment: the request is answered without being executed.
ApartmentUnavailable(i) ==
    /\ slot[i].pc = "begun"
    /\ Fault
    /\ slot' = [slot EXCEPT ![i].pc = "answered"]
    /\ UNCHANGED <<epoch, now, pipe, life, cache, mutationActive, executed>>

\* ExecuteOnce returns an answer of the server's own.
ReturnCode(i, code) == slot' = [slot EXCEPT ![i].pc = "answered", ![i].job.code = code]

\* ExecuteOnce, under the lock: a record of the same request is waited for, one of
\* another request with the same id refuses it, and without one there must be room.
ExecuteOnce(i) ==
    /\ slot[i].pc = "begun"
    /\ LET request == slot[i].job.request
           pruned == PruneRequestRecords(cache, now)
           existing == pruned.records[request.id]
           run == executed[request] + 1
       IN IF existing # NoRecord
          THEN /\ cache' = pruned
               /\ IF existing.body # request.body THEN ReturnCode(i, "InvalidRequest")
                  ELSE slot' = [slot EXCEPT ![i].pc = "waiting", ![i].job.run = existing.run]
          ELSE \E gone \in Evictions(pruned) :
               LET roomy == Without(pruned, gone)
               IN IF LacksCapacity(roomy) THEN cache' = roomy /\ ReturnCode(i, "Busy")
                  ELSE /\ cache' = NewRecord(roomy, request, run)
                       /\ slot' = [slot EXCEPT ![i].pc = "handling", ![i].job.run = run]
    /\ executed' = IF slot'[i].pc = "handling"
                   THEN [executed EXCEPT ![slot[i].job.request] = @ + 1] ELSE executed
    /\ UNCHANGED <<epoch, now, pipe, life, mutationActive, budget>>

\* The wait for another execution of the same request: its answer, and with it a
\* delivery, is taken in the step that sees it complete.
TakeAnswer(i) ==
    LET id == slot[i].job.request.id
    IN /\ slot[i].pc = "waiting"
       /\ cache.records[id].run = slot[i].job.run /\ cache.records[id].complete
       /\ cache' = [cache EXCEPT !.records[id].active = @ + 1]
       /\ slot' = [slot EXCEPT ![i].pc = "answered", ![i].job.code = "Result"]
       /\ UNCHANGED <<epoch, now, pipe, life, mutationActive, executed, budget>>

\* ... or the server stops, or the handler's deadline passes.
StopWaiting(i) ==
    /\ slot[i].pc = "waiting"
    /\ LET record == cache.records[slot[i].job.request.id]
       IN ~(record.run = slot[i].job.run /\ record.complete)
    /\ slot' = [slot EXCEPT ![i].pc = "answered", ![i].job.run = 0,
                            ![i].job.code = IF life.token THEN "Unavailable" ELSE "Busy"]
    /\ UNCHANGED <<epoch, now, pipe, life, cache, mutationActive, executed, budget>>

\* ControlCommandAdapter::Handle: the mutation gate, then the controller.  A stop
\* request seen here keeps a mutation from being counted as one (the controller then
\* refuses it); a mutation that finds the gate taken is answered Busy.  Either way
\* what Handle returns is the answer of the request from now on.
Handle(i) ==
    /\ slot[i].pc = "handling"
    /\ LET mutation == ~life.token /\ slot[i].job.request.body \in Mutating
       IN /\ mutationActive' = (mutationActive \/ mutation)
          /\ slot' = [slot EXCEPT ![i].pc = "dispatched",
                                  ![i].job.mutation = mutation /\ ~mutationActive]
    /\ UNCHANGED <<epoch, now, pipe, life, cache, executed, budget>>

\* The handler returns (or throws, which is an answer too): the gate is released, the
\* record completed and its first delivery claimed.
HandlerReturns(i) ==
    /\ slot[i].pc = "dispatched"
    /\ mutationActive' = (mutationActive /\ ~slot[i].job.mutation)
    /\ cache' = CompleteRecord(cache, slot[i].job.request.id, slot[i].job.run, now)
    /\ slot' = [slot EXCEPT ![i].pc = "answered", ![i].job.code = "Result", ![i].job.mutation = FALSE]
    /\ UNCHANGED <<epoch, now, pipe, life, executed, budget>>

\* OnHandlerReady: the registration is released ...
ReleasePending(i) ==
    /\ slot[i].pc = "answered"
    /\ cache' = IF slot[i].job.pending THEN CompletePendingDelivery(cache, slot[i].job.request.id)
                ELSE cache
    /\ slot' = [slot EXCEPT ![i].pc = "responding", ![i].job.pending = FALSE]
    /\ UNCHANGED <<epoch, now, pipe, life, mutationActive, executed, budget>>

\* ... and the answer, with the delivery claimed for it, is handed to the slot; a
\* stopped server's slot takes neither and the delivery ends here.
Respond(i) ==
    /\ slot[i].pc = "responding"
    /\ LET job == slot[i].job
       IN IF life.running /\ slot[i].phase = "RunningHandler"
          THEN /\ slot' = [slot EXCEPT ![i].pc = "none", ![i].phase = "WritingResponse",
                                       ![i].answer = [request |-> job.request, code |-> job.code],
                                       ![i].record = IF job.code = "Result" THEN job.run ELSE 0,
                                       ![i].job = NoJob]
               /\ UNCHANGED cache
          ELSE /\ slot' = [slot EXCEPT ![i].pc = "none", ![i].job = NoJob]
               /\ cache' = IF job.code = "Result"
                           THEN CompleteDelivery(cache, job.request.id, job.run, FALSE, now) ELSE cache
    /\ UNCHANGED <<epoch, now, pipe, life, mutationActive, executed, budget>>

\* OnRequestPrune: the timer of the cache.
OnRequestPrune ==
    /\ now >= cache.pruneAt
    /\ cache' = PruneAndSchedule(cache, now)
    /\ UNCHANGED <<epoch, now, pipe, life, slot, mutationActive, executed, budget>>

(***************************************************************************)
(* The life cycle.                                                         *)
(***************************************************************************)
\* Start, once no stop is wanted or under way.
Start ==
    /\ Spend("starts")
    /\ ~life.stopping /\ ~life.deferred /\ ~life.stopRequested
    /\ ~life.running /\ ~life.desired /\ ~life.starting
    /\ life' = [life EXCEPT !.desired = TRUE, !.starting = TRUE]
    /\ UNCHANGED <<epoch, now, pipe, slot, cache, mutationActive, executed>>

\* OnStartRetry
OnStartRetry ==
    /\ life.retry
    /\ life' = [life EXCEPT !.retry = FALSE,
                            !.starting = life.desired /\ ~life.running /\ ~life.stopping]
    /\ UNCHANGED <<epoch, now, pipe, slot, cache, mutationActive, executed, budget>>

\* TryStart creates the pipes without a lock: one that cannot be created is left to
\* recreation, but there must be one.
CreatePipes(created) ==
    /\ life.starting /\ \A i \in Instance : pipe[i].state = "absent"
    /\ created # {}
    /\ IF created = Instance THEN UNCHANGED budget ELSE Fault
    /\ pipe' = [i \in Instance |-> IF i \in created THEN FreshPipe ELSE AbsentPipe]
    /\ UNCHANGED <<epoch, now, life, slot, cache, mutationActive, executed>>

CreatePipesFails ==
    /\ life.starting /\ \A i \in Instance : pipe[i].state = "absent"
    /\ Fault
    /\ life' = [life EXCEPT !.starting = FALSE,
                            !.retry = life.desired /\ ~life.stopRequested /\ ~life.stopping]
    /\ UNCHANGED <<epoch, now, pipe, slot, cache, mutationActive, executed>>

\* TryStart, under the lock again: a stop that came in the meantime takes the pipes
\* away, otherwise the server runs and every pipe is armed.
InstallPipes ==
    /\ life.starting /\ \E i \in Instance : pipe[i].state # "absent"
    /\ IF ~life.desired \/ life.stopRequested \/ life.stopping
       THEN /\ life' = [life EXCEPT !.starting = FALSE]
            /\ pipe' = [i \in Instance |-> AbsentPipe]
            /\ UNCHANGED slot
       ELSE /\ life' = [life EXCEPT !.running = TRUE, !.starting = FALSE, !.retry = FALSE,
                                    !.token = FALSE]
            /\ LET fresh(i) == NewSlot(pipe[i].state # "absent")
                   armed(i) == ArmRunning(fresh(i), pipe[i], "none")
               IN /\ slot' = [i \in Instance |-> armed(i).s]
                  /\ pipe' = [i \in Instance |-> armed(i).p]
    /\ UNCHANGED <<epoch, now, cache, mutationActive, executed, budget>>

StopLife(l) == [l EXCEPT !.desired = FALSE, !.running = FALSE, !.stopRequested = TRUE, !.retry = FALSE]

SomethingToStop == life.stopRequested \/ life.desired \/ life.running \/ life.starting

\* RequestStop: admission closes and handlers are asked to stop; nothing is waited for.
RequestStop ==
    /\ SomethingToStop /\ Spend("stops")
    /\ life' = [StopLife(life) EXCEPT !.token = TRUE]
    /\ UNCHANGED <<epoch, now, pipe, slot, cache, mutationActive, executed>>

\* Stop called by a handler of the server itself: left to OnDeferredStop.
StopInHandler(i) ==
    /\ slot[i].pc = "dispatched" /\ Spend("stops")
    /\ life' = [StopLife(life) EXCEPT !.token = TRUE, !.deferred = TRUE]
    /\ UNCHANGED <<epoch, now, pipe, slot, cache, mutationActive, executed>>

\* Stop (by the host, or OnDeferredStop): the pipes are claimed once no start is under
\* way, and drained.
Stop ==
    /\ SomethingToStop /\ ~life.stopping
    /\ IF life.stopRequested THEN UNCHANGED budget ELSE Spend("stops")
    /\ life' = [StopLife(life) EXCEPT !.stopping = TRUE]
    /\ UNCHANGED <<epoch, now, pipe, slot, cache, mutationActive, executed>>

RequestTokenStop ==
    /\ life.stopping /\ ~life.starting /\ ~life.token
    /\ life' = [life EXCEPT !.token = TRUE]
    /\ UNCHANGED <<epoch, now, pipe, slot, cache, mutationActive, executed, budget>>

\* A callback that runs is waited for; one that is only queued is cancelled.
Drained == \A i \in Instance : slot[i].pc \in {"none", "connected", "queued", "recreating"}

StopDrained ==
    /\ life.stopping /\ ~life.starting /\ life.token /\ Drained
    /\ slot' = [i \in Instance |-> NewSlot(FALSE)]
    /\ pipe' = [i \in Instance |-> AbsentPipe]
    /\ cache' = StopCache(cache)
    /\ life' = [life EXCEPT !.stopping = FALSE, !.stopRequested = FALSE, !.deferred = FALSE]
    /\ UNCHANGED <<epoch, now, mutationActive, executed, budget>>

\* The process dies and another one takes its place: nothing of it survives.
Crash ==
    /\ Spend("crashes")
    /\ epoch' = epoch + 1
    /\ life' = NewLife
    /\ slot' = [i \in Instance |-> NewSlot(FALSE)]
    /\ pipe' = [i \in Instance |-> AbsentPipe]
    /\ cache' = EmptyCache
    /\ mutationActive' = FALSE
    /\ UNCHANGED <<now, executed>>

Connection(i) ==
    \/ OnRearmReady(i) \/ DetachPipe(i) \/ RecreatePipeInstance(i)
    \/ ClientConnected(i) \/ \E trusted \in BOOLEAN : HandleConnectedInstance(i, trusted)
    \/ TransferFails(i) \/ DispatchRequest(i) \/ WriteResponse(i) \/ ReadAcknowledgement(i)

Handling(i) ==
    \/ HandlerBegins(i) \/ ApartmentUnavailable(i) \/ ExecuteOnce(i) \/ TakeAnswer(i)
    \/ StopWaiting(i) \/ Handle(i) \/ HandlerReturns(i) \/ ReleasePending(i) \/ Respond(i)
    \/ StopInHandler(i)

LifeCycle ==
    \/ Start \/ OnStartRetry \/ CreatePipesFails \/ \E created \in SUBSET Instance : CreatePipes(created)
    \/ InstallPipes \/ RequestStop \/ Stop \/ RequestTokenStop \/ StopDrained \/ Crash

Server == LifeCycle \/ OnRequestPrune \/ \E i \in Instance : Connection(i) \/ Handling(i)

ServerTypeOK ==
    /\ life \in [desired : BOOLEAN, running : BOOLEAN, starting : BOOLEAN, stopping : BOOLEAN,
                 stopRequested : BOOLEAN, deferred : BOOLEAN, retry : BOOLEAN, token : BOOLEAN]
    /\ \A i \in Instance : slot[i].phase \in Phase /\ slot[i].pc \in Pc
    /\ mutationActive \in BOOLEAN
    /\ executed \in [Request -> Nat]
=============================================================================
