---------------------------- MODULE SettingsStore ----------------------------
(***************************************************************************)
(* SettingsStore: the settings, the worker that saves them, and the        *)
(* delivery of every change to the subscribers.                            *)
(*                                                                         *)
(* A step is what a thread does under one hold of the store's mutex (and   *)
(* the publication mutex inside it), one storage call, or one              *)
(* notification of the worker.  A condition variable is the guard of the   *)
(* step that waits on it: every change of its predicate is notified.       *)
(* Settings data is its revision, and disk the revision in the file.  The  *)
(* debounce and retry times are left open: an armed timer is due or not,   *)
(* and a deadline may pass at any moment.                                  *)
(***************************************************************************)
EXTENDS Naturals, Sequences, FiniteSets

CONSTANTS
    Client,         \* threads that call the store
    Worker,         \* its persistence thread
    Subscriber,     \* subscriptions that may be made, each once
    NoOne,
    Scopes          \* what callers and storage may do, one scope in a behaviour:
                    \*   files          what the settings file may be at first
                    \*   loads          whether Load may be called
                    \*   flushAttempts  write attempts that may be asked of FlushNow
                    \*   attempts       and of Shutdown
                    \*   modes          shutdown modes considered
                    \*   maxRevision    bound: no commit once revision is here
                    \*   observers      who may subscribe
                    \*   answers        storage answers in the end, and callbacks return

Thread == Client \cup {Worker}

ASSUME SettingsStoreAssumption ==
    /\ Worker \notin Client /\ NoOne \notin Thread \cup Subscriber
    /\ \A s \in Scopes :
        /\ s.files \subseteq {"Missing", "Valid", "Stale", "Corrupt"}
        /\ s.loads \in BOOLEAN
        /\ s.flushAttempts \subseteq Nat \ {0} /\ s.attempts \subseteq Nat \ {0}
        /\ s.modes \subseteq {"Flush", "DiscardStartupFailure"}
        /\ s.maxRevision \in Nat
        /\ s.observers \subseteq Subscriber
        /\ s.answers \in BOOLEAN

VARIABLES
    revision, persistedRevision,    \* of the settings in memory, of the last write known to succeed
    timerArmed, writerActive,
    loadClaimed, loadActive, preservationFailed,
    closing, discardRequested, shutdownAttempts, shutdownRequested,
    shutdownCoreComplete, shutdownResult,
    workerFinished, workerFlushResult,
    notified,           \* wakeup->Version() moved since the worker read it
    file, disk,         \* what is at the settings path; the newest revision in it
    pc, local,          \* where each thread is, and its local variables
    subscriptions,      \* the registered ones
    subscription,       \* SubscriptionState: "New", "Active" or "Inactive"
    pendingPublications,
    publisher,          \* publisherThread, NoOne when not publishing
    publication,        \* the one being delivered: who is still to be called
    executing,          \* the subscriber whose callback runs on publisher
    delivered,          \* the last revision each subscriber was given
    scope               \* of Scopes, for good

saving   == <<revision, persistedRevision, timerArmed, writerActive>>
loading  == <<loadClaimed, loadActive, preservationFailed>>
stopping == <<closing, discardRequested, shutdownAttempts, shutdownRequested,
              shutdownCoreComplete, shutdownResult>>
working  == <<workerFinished, workerFlushResult, scope>>
storage  == <<file, disk>>
subscribing == <<subscriptions, subscription>>
publishing  == <<pendingPublications, publisher, publication, executing, delivered>>
vars == <<saving, loading, stopping, working, notified, storage, pc, local,
          subscribing, publishing>>
-----------------------------------------------------------------------------
NoLocals == [captured |-> 0, attempts |-> 0, result |-> FALSE, asked |-> 0, target |-> NoOne]
NoPublication == [Revision |-> 0, Subscriptions |-> {}]

Init ==
    /\ revision = 0 /\ persistedRevision = 0
    /\ timerArmed = FALSE /\ writerActive = FALSE
    /\ loadClaimed = FALSE /\ loadActive = FALSE /\ preservationFailed = FALSE
    /\ closing = FALSE /\ discardRequested = FALSE /\ shutdownAttempts = 3
    /\ shutdownRequested = FALSE /\ shutdownCoreComplete = FALSE /\ shutdownResult = FALSE
    /\ workerFinished = FALSE /\ workerFlushResult = FALSE
    /\ notified = FALSE
    /\ scope \in Scopes
    /\ file \in scope.files /\ disk = 0
    /\ pc = [t \in Thread |-> IF t = Worker THEN "Capture" ELSE "Ready"]
    /\ local = [t \in Thread |-> NoLocals]
    /\ subscriptions = {} /\ subscription = [s \in Subscriber |-> "New"]
    /\ pendingPublications = <<>> /\ publisher = NoOne /\ publication = NoPublication
    /\ executing = NoOne /\ delivered = [s \in Subscriber |-> 0]

(* The step changes nothing but where its thread is and its locals.       *)
ThreadOnly ==
    UNCHANGED <<saving, loading, stopping, working, notified, storage, subscribing, publishing>>

Goto(t, label) == pc' = [pc EXCEPT ![t] = label]

(* A thread may call the store when it is in none of its functions, or in  *)
(* a callback of its own: the publisher runs nothing else meanwhile.       *)
IsFree(c) == pc[c] = "Ready" /\ (publisher = c => executing # NoOne)

(* NotifyChanged, always after the lock is released: the synchronous       *)
(* waiters re-evaluate their guards by themselves, the worker is told.     *)
Notifying == {"CommitNotify", "LoadNotify", "LoadEndNotify", "WriteNotify",
              "CloseNotify", "FenceNotify"}

NotifyChanged(t, label) ==
    /\ notified' = TRUE
    /\ Goto(t, label)
    /\ UNCHANGED <<saving, loading, stopping, working, storage, subscribing, publishing>>
-----------------------------------------------------------------------------
(* Changes.                                                                *)

Publish(newRevision, subscribers) ==
    pendingPublications' =
        IF subscribers = {} THEN pendingPublications
        ELSE Append(pendingPublications,
                    [Revision |-> newRevision, Subscriptions |-> subscribers])

(* Mutant of AdmitsChanges: a file that could not be preserved is no bar.  *)
AdmitsChangesUnpreserved == ~loadActive /\ ~closing /\ ~shutdownRequested

AdmitsChanges == ~loadActive /\ ~closing /\ ~shutdownRequested /\ ~preservationFailed

(* A mutation that changes something.  It waits for a load; afterwards a   *)
(* mutation that is rejected or changes nothing has no effect.             *)
Commit(c) ==
    /\ IsFree(c) /\ AdmitsChanges
    /\ revision < scope.maxRevision
    /\ Publish(revision + 1, subscriptions)
    /\ revision' = revision + 1
    /\ timerArmed' = TRUE
    /\ Goto(c, "CommitNotify")
    /\ UNCHANGED <<persistedRevision, writerActive, loading, stopping, working, notified,
                   storage, local, subscribing, publisher, publication, executing, delivered>>

CommitNotify(c) ==
    pc[c] = "CommitNotify" /\ NotifyChanged(c, "Drain") /\ UNCHANGED local
-----------------------------------------------------------------------------
(* Loading.                                                                *)

Load(c) ==
    /\ IsFree(c)
    /\ ~loadClaimed /\ ~closing /\ ~shutdownRequested
    /\ loadClaimed' = TRUE
    /\ loadActive' = (revision = 0)
    /\ IF revision = 0 THEN Goto(c, "LoadRead") ELSE UNCHANGED pc
    /\ UNCHANGED <<saving, preservationFailed, stopping, working, notified, storage, local,
                   subscribing, publishing>>

(* Any file that exists may turn out to be unreadable.                     *)
ReadAndDecode(c) ==
    /\ pc[c] = "LoadRead"
    /\ \/ file = "Missing" /\ Goto(c, "LoadMissing")
       \/ file = "Valid" /\ Goto(c, "LoadValid")
       \/ file = "Stale" /\ Goto(c, "LoadStale")
       \/ file # "Missing" /\ Goto(c, "LoadCorrupt")
    /\ ThreadOnly /\ UNCHANGED local

CompleteLoadWithoutCommit(c, originalPreserved) ==
    /\ loadActive' = FALSE
    /\ preservationFailed' = ~originalPreserved
    /\ Goto(c, "LoadEndNotify")
    /\ UNCHANGED <<saving, loadClaimed, stopping, working, notified, disk, local,
                   subscribing, publishing>>

(* Nothing to load, or no memory for what was read.                        *)
AbandonLoad(c) ==
    /\ pc[c] \in {"LoadMissing", "LoadValid", "LoadStale"}
    /\ CompleteLoadWithoutCommit(c, TRUE)
    /\ UNCHANGED file

(* PreserveCorrupt moves the file away or fails.                           *)
PreserveCorrupt(c) ==
    /\ pc[c] = "LoadCorrupt"
    /\ \/ file' = "Missing" /\ CompleteLoadWithoutCommit(c, TRUE)
       \/ file' = file /\ CompleteLoadWithoutCommit(c, FALSE)

CommitLoad(c) ==
    LET needsRewrite == pc[c] = "LoadStale" IN
    /\ pc[c] \in {"LoadValid", "LoadStale"}
    /\ loadActive' = FALSE
    /\ IF shutdownRequested \/ revision # 0
       THEN Goto(c, "Ready") /\ UNCHANGED <<saving, disk, pendingPublications>>
       ELSE /\ Publish(1, IF closing THEN {} ELSE subscriptions)
            /\ revision' = 1
            /\ persistedRevision' = IF needsRewrite THEN 0 ELSE 1
            /\ disk' = persistedRevision'
            /\ timerArmed' = (needsRewrite \/ timerArmed)
            /\ UNCHANGED writerActive
            /\ Goto(c, "LoadNotify")
    /\ UNCHANGED <<loadClaimed, preservationFailed, stopping, working, notified, file, local,
                   subscribing, publisher, publication, executing, delivered>>

LoadNotify(c) ==
    /\ \/ pc[c] = "LoadNotify" /\ NotifyChanged(c, "Drain")
       \/ pc[c] = "LoadEndNotify" /\ NotifyChanged(c, "Ready")
    /\ UNCHANGED local
-----------------------------------------------------------------------------
(* Writing.  At most one write is admitted at a time; it saves the         *)
(* revision captured with its admission.                                   *)

ClaimWrite(t) ==
    /\ writerActive' = TRUE
    /\ local' = [local EXCEPT ![t].captured = revision]
    /\ Goto(t, "Write")

Write(t, succeeded) ==
    /\ pc[t] = "Write"
    /\ IF succeeded THEN file' = "Valid" /\ disk' = local[t].captured ELSE UNCHANGED storage
    /\ local' = [local EXCEPT ![t].result = succeeded]
    /\ Goto(t, "Written")
    /\ UNCHANGED <<saving, loading, stopping, working, notified, subscribing, publishing>>

(* Mutants: a write saves what is newest when it completes; a failed one   *)
(* is not tried again; completions after the fence count.                  *)
SavedNewest(t) == revision
RearmsUnlessFailed(succeeded) == ~closing /\ succeeded /\ revision # persistedRevision'
NeverFenced == FALSE

SavedRevision(t) ==
    IF persistedRevision > local[t].captured THEN persistedRevision ELSE local[t].captured
Rearms(succeeded) == ~closing /\ (succeeded => revision # persistedRevision')
CompletionsAreFenced == shutdownRequested

CompleteWrite(t) ==
    /\ pc[t] = "Written"
    /\ writerActive' = FALSE
    /\ IF CompletionsAreFenced THEN UNCHANGED <<persistedRevision, timerArmed>>
       ELSE /\ persistedRevision' = IF local[t].result THEN SavedRevision(t) ELSE persistedRevision
            /\ timerArmed' = (timerArmed \/ Rearms(local[t].result))
    /\ Goto(t, "WriteNotify")
    /\ UNCHANGED <<revision, loading, stopping, working, notified, storage, local,
                   subscribing, publishing>>

(* Mutant of AttemptsLeft: the worker's own writes are counted too.        *)
AttemptsLeftBelowZero(attempts) == attempts - 1

AttemptsLeft(attempts) == IF attempts = 0 THEN 0 ELSE attempts - 1

(* The worker's own writes have no attempts to count down.                 *)
WriteNotify(t) ==
    /\ pc[t] = "WriteNotify"
    /\ local' = [local EXCEPT ![t].captured = 0, ![t].result = FALSE,
                              ![t].attempts = AttemptsLeft(@)]
    /\ NotifyChanged(t, IF local[t].attempts = 0 THEN "Capture"
                        ELSE IF local[t].attempts = 1 THEN "FlushFinal" ELSE "FlushEnter")

FlushReturn(t, result) ==
    /\ local' = [local EXCEPT ![t].attempts = 0, ![t].result = result]
    /\ Goto(t, "FlushReturned")

(* FlushSynchronously, called with maximumAttempts; it needs an apartment. *)
BeginFlush(t, maximumAttempts, isApartmentReady) ==
    /\ local' = [local EXCEPT ![t].attempts = IF isApartmentReady THEN maximumAttempts ELSE 0,
                              ![t].asked = revision]
    /\ Goto(t, IF isApartmentReady THEN "FlushEnter" ELSE "FlushReturned")

(* Mutant of FlushMayProceed: a flush overlaps another write.              *)
FlushIgnoresWriter == shutdownRequested \/ ~loadActive

FlushMayProceed == shutdownRequested \/ (~writerActive /\ ~loadActive)

(* What a flush does when it need not wait any more.                       *)
AdmitFlush(t) ==
    IF shutdownRequested \/ preservationFailed THEN FlushReturn(t, FALSE) /\ UNCHANGED writerActive
    ELSE IF discardRequested \/ revision = persistedRevision
    THEN FlushReturn(t, TRUE) /\ UNCHANGED writerActive
    ELSE ClaimWrite(t)

(* The timer is disarmed once per attempt, before the wait.                *)
EnterFlush(t) ==
    /\ pc[t] = "FlushEnter"
    /\ timerArmed' = FALSE
    /\ IF FlushMayProceed THEN AdmitFlush(t)
       ELSE Goto(t, "FlushWait") /\ UNCHANGED <<local, writerActive>>
    /\ UNCHANGED <<revision, persistedRevision, loading, stopping, working, notified, storage,
                   subscribing, publishing>>

ResumeFlush(t) ==
    /\ pc[t] = "FlushWait"
    /\ FlushMayProceed
    /\ AdmitFlush(t)
    /\ UNCHANGED <<revision, persistedRevision, timerArmed, loading, stopping, working, notified,
                   storage, subscribing, publishing>>

(* Mutant of FinishFlush: having tried is enough.                          *)
FinishFlushOptimistically(t) ==
    /\ pc[t] = "FlushFinal"
    /\ FlushReturn(t, TRUE)
    /\ ThreadOnly

FinishFlush(t) ==
    /\ pc[t] = "FlushFinal"
    /\ FlushReturn(t, revision = persistedRevision)
    /\ ThreadOnly

FlushNow(c, maximumAttempts, isApartmentReady) ==
    /\ IsFree(c)
    /\ BeginFlush(c, maximumAttempts, isApartmentReady)
    /\ ThreadOnly
-----------------------------------------------------------------------------
(* The persistence worker.  It reads the wake version, looks at the state, *)
(* and then writes, flushes for Shutdown, or waits for the version to move *)
(* or the timer to come due.                                               *)

CaptureVersion ==
    /\ pc[Worker] = "Capture"
    /\ notified' = FALSE
    /\ Goto(Worker, "Inspect")
    /\ UNCHANGED <<saving, loading, stopping, working, storage, local, subscribing, publishing>>

(* Mutant of HasEligibleWrite: the worker overlaps a flush.                *)
HasEligibleWriteAnyway ==
    timerArmed /\ ~loadActive /\ ~discardRequested /\ revision # persistedRevision

HasEligibleWrite ==
    /\ timerArmed /\ ~loadActive /\ ~writerActive /\ ~discardRequested
    /\ revision # persistedRevision

InspectClosing(isApartmentReady) ==
    /\ pc[Worker] = "Inspect"
    /\ IF shutdownRequested THEN Goto(Worker, "Finish") /\ UNCHANGED local
       ELSE /\ closing
            /\ IF discardRequested THEN FlushReturn(Worker, TRUE)
               ELSE BeginFlush(Worker, shutdownAttempts, isApartmentReady)
    /\ ThreadOnly

InspectDue ==
    /\ pc[Worker] = "Inspect" /\ ~shutdownRequested /\ ~closing
    /\ HasEligibleWrite
    /\ ClaimWrite(Worker)
    /\ timerArmed' = FALSE
    /\ UNCHANGED <<revision, persistedRevision, loading, stopping, working, notified, storage,
                   subscribing, publishing>>

InspectNotDue ==
    /\ pc[Worker] = "Inspect" /\ ~shutdownRequested /\ ~closing
    /\ Goto(Worker, IF HasEligibleWrite THEN "WaitDue" ELSE "Wait")
    /\ ThreadOnly /\ UNCHANGED local

(* Mutant of Wake: the version is read on entering the wait, so that a     *)
(* notification sent before is lost.                                       *)
WakeForgetsEarlier ==
    /\ pc[Worker] \in {"Wait", "WaitDue"}
    /\ IF pc[Worker] = "WaitDue" THEN Goto(Worker, "Capture") /\ UNCHANGED notified
       ELSE notified /\ notified' = FALSE /\ UNCHANGED pc
    /\ UNCHANGED <<saving, loading, stopping, working, storage, local, subscribing, publishing>>

Wake ==
    /\ pc[Worker] \in {"Wait", "WaitDue"}
    /\ notified \/ pc[Worker] = "WaitDue"
    /\ Goto(Worker, "Capture")
    /\ ThreadOnly /\ UNCHANGED local

ReturnFromFlush(t) ==
    /\ pc[t] = "FlushReturned"
    /\ IF t = Worker
       THEN workerFlushResult' = local[t].result /\ Goto(t, "Finish")
       ELSE Goto(t, "Ready") /\ UNCHANGED workerFlushResult
    /\ local' = [local EXCEPT ![t] = NoLocals]
    /\ UNCHANGED <<saving, loading, stopping, workerFinished, scope, notified, storage,
                   subscribing, publishing>>

FinishWorker ==
    /\ pc[Worker] = "Finish"
    /\ workerFinished' = TRUE
    /\ Goto(Worker, "Finished")
    /\ UNCHANGED <<saving, loading, stopping, workerFlushResult, scope, notified, storage, local,
                   subscribing, publishing>>
-----------------------------------------------------------------------------
(* Delivery.  The thread that finds nobody publishing delivers everything  *)
(* that is pending, in order; callbacks run unlocked and may call the      *)
(* store.                                                                  *)

DrainPublications(c) ==
    /\ pc[c] = "Drain"
    /\ publisher' = IF publisher = NoOne THEN c ELSE publisher
    /\ Goto(c, "Ready")
    /\ UNCHANGED <<saving, loading, stopping, working, notified, storage, local, subscribing,
                   pendingPublications, publication, executing, delivered>>

IsBetweenCallbacks == publisher # NoOne /\ executing = NoOne

(* Mutant of TakePublication: only the newest is delivered.                *)
TakeNewestPublication ==
    /\ IsBetweenCallbacks /\ publication.Subscriptions = {}
    /\ pendingPublications # <<>>
    /\ publication' = pendingPublications[Len(pendingPublications)]
    /\ pendingPublications' = <<>>
    /\ UNCHANGED <<saving, loading, stopping, working, notified, storage, pc, local, subscribing,
                   publisher, executing, delivered>>

TakePublication ==
    /\ IsBetweenCallbacks /\ publication.Subscriptions = {}
    /\ pendingPublications # <<>>
    /\ publication' = Head(pendingPublications)
    /\ pendingPublications' = Tail(pendingPublications)
    /\ UNCHANGED <<saving, loading, stopping, working, notified, storage, pc, local, subscribing,
                   publisher, executing, delivered>>

(* Mutant of StopPublishing: the queue is not looked at again.             *)
StopAfterOne ==
    /\ IsBetweenCallbacks /\ publication.Subscriptions = {}
    /\ publisher' = NoOne /\ publication' = NoPublication
    /\ UNCHANGED <<saving, loading, stopping, working, notified, storage, pc, local, subscribing,
                   pendingPublications, executing, delivered>>

StopPublishing ==
    /\ IsBetweenCallbacks /\ publication.Subscriptions = {}
    /\ pendingPublications = <<>>
    /\ publisher' = NoOne /\ publication' = NoPublication
    /\ UNCHANGED <<saving, loading, stopping, working, notified, storage, pc, local, subscribing,
                   pendingPublications, executing, delivered>>

TryBeginCallback(s) ==
    /\ IsBetweenCallbacks /\ s \in publication.Subscriptions
    /\ publication' = [publication EXCEPT !.Subscriptions = @ \ {s}]
    /\ IF subscription[s] = "Active"
       THEN executing' = s /\ delivered' = [delivered EXCEPT ![s] = publication.Revision]
       ELSE UNCHANGED <<executing, delivered>>
    /\ UNCHANGED <<saving, loading, stopping, working, notified, storage, pc, local, subscribing,
                   pendingPublications, publisher>>

CompleteCallback ==
    /\ executing # NoOne /\ pc[publisher] = "Ready"
    /\ executing' = NoOne
    /\ UNCHANGED <<saving, loading, stopping, working, notified, storage, pc, local, subscribing,
                   pendingPublications, publisher, publication, delivered>>

Subscribe(c, s) ==
    /\ IsFree(c) /\ subscription[s] = "New"
    /\ ~shutdownRequested /\ ~closing
    /\ subscription' = [subscription EXCEPT ![s] = "Active"]
    /\ subscriptions' = subscriptions \cup {s}
    /\ delivered' = [delivered EXCEPT ![s] = revision]
    /\ UNCHANGED <<saving, loading, stopping, working, notified, storage, pc, local,
                   pendingPublications, publisher, publication, executing>>

(* Subscription::Reset: deactivate, wait for a callback of another thread, *)
(* then erase the registration.                                            *)
Reset(c, s) ==
    /\ IsFree(c) /\ subscription[s] # "New"
    /\ subscription' = [subscription EXCEPT ![s] = "Inactive"]
    /\ local' = [local EXCEPT ![c].target = s]
    /\ Goto(c, "ResetWait")
    /\ UNCHANGED <<saving, loading, stopping, working, notified, storage, subscriptions,
                   publishing>>

(* Mutant of DeactivateAndWait: no wait.                                   *)
DeactivateOnly(c) ==
    /\ pc[c] = "ResetWait"
    /\ Goto(c, "ResetErase")
    /\ ThreadOnly /\ UNCHANGED local

DeactivateAndWait(c) ==
    /\ pc[c] = "ResetWait"
    /\ executing # local[c].target \/ publisher = c
    /\ Goto(c, "ResetErase")
    /\ ThreadOnly /\ UNCHANGED local

EraseSubscription(c) ==
    /\ pc[c] = "ResetErase"
    /\ subscriptions' = subscriptions \ {local[c].target}
    /\ Goto(c, "ResetReturned")
    /\ UNCHANGED <<saving, loading, stopping, working, notified, storage, local, subscription,
                   publishing>>
-----------------------------------------------------------------------------
(* Shutdown.  The first caller closes the store and waits for the worker   *)
(* within its budget; the others wait for what it found.                   *)

Shutdown(c, mode, maximumAttempts) ==
    /\ IsFree(c) /\ ~closing
    /\ closing' = TRUE
    /\ timerArmed' = FALSE
    /\ shutdownAttempts' = maximumAttempts
    /\ discardRequested' = (mode = "DiscardStartupFailure")
    /\ subscription' = [s \in Subscriber |-> IF s \in subscriptions THEN "Inactive"
                                             ELSE subscription[s]]
    /\ subscriptions' = {}
    /\ Goto(c, "CloseNotify")
    /\ UNCHANGED <<revision, persistedRevision, writerActive, loading, shutdownRequested,
                   shutdownCoreComplete, shutdownResult, working, notified, storage, local,
                   publishing>>

ShutdownAgain(c) ==
    /\ IsFree(c) /\ closing
    /\ Goto(c, "FollowerWait")
    /\ ThreadOnly /\ UNCHANGED local

ShutdownNotify(c) ==
    /\ \/ pc[c] = "CloseNotify" /\ NotifyChanged(c, "ShutdownWait")
       \/ pc[c] = "FenceNotify" /\ NotifyChanged(c, "ShutdownPublish")
    /\ UNCHANGED local

(* Mutant of ShutdownSucceeded: the worker's result is not asked for.      *)
ShutdownDrained == workerFinished /\ ~writerActive /\ ~loadActive
ShutdownSucceededIfDrained == ShutdownDrained

ShutdownSucceeded == ShutdownDrained /\ workerFlushResult

(* From here on later completions are fenced.                              *)
Fence(c) ==
    /\ local' = [local EXCEPT ![c].result = ShutdownSucceeded]
    /\ shutdownRequested' = TRUE
    /\ timerArmed' = FALSE
    /\ Goto(c, "FenceNotify")
    /\ UNCHANGED <<revision, persistedRevision, writerActive, loading, closing, discardRequested,
                   shutdownAttempts, shutdownCoreComplete, shutdownResult, working, notified,
                   storage, subscribing, publishing>>

(* Mutant of FenceShutdown: the wait has no deadline.                      *)
FenceShutdownPatiently(c) == pc[c] = "ShutdownWait" /\ ShutdownDrained /\ Fence(c)

(* Drained, or out of time.                                                *)
FenceShutdown(c) == pc[c] = "ShutdownWait" /\ Fence(c)

CompleteShutdownCore(c) ==
    /\ pc[c] = "ShutdownPublish"
    /\ shutdownResult' = local[c].result
    /\ shutdownCoreComplete' = TRUE
    /\ Goto(c, "DrainWait")
    /\ UNCHANGED <<saving, loading, closing, discardRequested, shutdownAttempts, shutdownRequested,
                   working, notified, storage, local, subscribing, publishing>>

ShutdownReturn(c, result) ==
    /\ local' = [local EXCEPT ![c].result = result]
    /\ Goto(c, "ShutdownReturned")

FollowShutdown(c) ==
    /\ pc[c] = "FollowerWait"
    /\ IF shutdownCoreComplete /\ shutdownResult
       THEN local' = [local EXCEPT ![c].result = TRUE] /\ Goto(c, "DrainWait")
       ELSE ShutdownReturn(c, FALSE)
    /\ ThreadOnly

(* Mutant of WaitForPublicationDrain: an empty queue is taken for drained. *)
WaitForEmptyQueue(c) ==
    /\ pc[c] = "DrainWait"
    /\ ShutdownReturn(c, local[c].result /\ pendingPublications = <<>>)
    /\ ThreadOnly

(* A caller that is itself delivering does not wait for itself.            *)
WaitForPublicationDrain(c) ==
    /\ pc[c] = "DrainWait"
    /\ ShutdownReturn(c, local[c].result /\ publisher \in {c, NoOne})
    /\ ThreadOnly

Return(c) ==
    /\ pc[c] \in {"ResetReturned", "ShutdownReturned"}
    /\ Goto(c, "Ready")
    /\ local' = [local EXCEPT ![c] = NoLocals]
    /\ ThreadOnly
-----------------------------------------------------------------------------
Call ==
    \E c \in Client :
        \/ Commit(c) \/ ShutdownAgain(c)
        \/ scope.loads /\ Load(c)
        \/ \E n \in scope.flushAttempts, ready \in BOOLEAN : FlushNow(c, n, ready)
        \/ \E n \in scope.attempts, mode \in scope.modes : Shutdown(c, mode, n)
        \/ \E s \in scope.observers : Subscribe(c, s) \/ Reset(c, s)

Storage == \E t \in Thread, succeeded \in BOOLEAN : Write(t, succeeded)

LoadStep ==
    \E c \in Client : ReadAndDecode(c) \/ AbandonLoad(c) \/ PreserveCorrupt(c) \/ CommitLoad(c)
                      \/ LoadNotify(c)

FlushStep(t) ==
    CompleteWrite(t) \/ WriteNotify(t) \/ EnterFlush(t) \/ ResumeFlush(t) \/ FinishFlush(t)
    \/ ReturnFromFlush(t)

SaveStep == \E t \in Thread : FlushStep(t)

WorkerStep ==
    \/ CaptureVersion \/ InspectDue \/ InspectNotDue \/ Wake \/ FinishWorker
    \/ \E ready \in BOOLEAN : InspectClosing(ready)

DeliveryStep ==
    \/ TakePublication \/ StopPublishing \/ CompleteCallback
    \/ \E s \in Subscriber : TryBeginCallback(s)
    \/ \E c \in Client : CommitNotify(c) \/ DrainPublications(c)

ResetStep == \E c \in Client : DeactivateAndWait(c) \/ EraseSubscription(c)

ShutdownStep ==
    \E c \in Client : ShutdownNotify(c) \/ FenceShutdown(c) \/ CompleteShutdownCore(c)
                      \/ FollowShutdown(c) \/ WaitForPublicationDrain(c) \/ Return(c)

Next == Call \/ Storage \/ LoadStep \/ SaveStep \/ WorkerStep \/ DeliveryStep \/ ResetStep
        \/ ShutdownStep

Spec == Init /\ [][Next]_vars

(* What the threads promise: each goes on with what it is in, timers come  *)
(* due.  What storage promises, where it answers, is to end every call and *)
(* not to refuse every write for ever; callbacks return there.             *)
ClientStep(c) ==
    \/ FlushStep(c)
    \/ AbandonLoad(c) \/ PreserveCorrupt(c) \/ CommitLoad(c) \/ LoadNotify(c)
    \/ CommitNotify(c) \/ DrainPublications(c)
    \/ DeactivateAndWait(c) \/ EraseSubscription(c)
    \/ ShutdownNotify(c) \/ FenceShutdown(c) \/ CompleteShutdownCore(c) \/ FollowShutdown(c)
    \/ WaitForPublicationDrain(c) \/ Return(c)

ThreadFairness ==
    /\ \A c \in Client : WF_vars(ClientStep(c))
    /\ WF_vars(WorkerStep \/ FlushStep(Worker)) /\ SF_vars(InspectDue)
    /\ WF_vars(TakePublication \/ StopPublishing \/ \E s \in Subscriber : TryBeginCallback(s))
StorageFairness ==
    /\ \A c \in Client : WF_vars(scope.answers /\ ReadAndDecode(c))
    /\ \A t \in Thread : SF_vars(scope.answers /\ Write(t, TRUE))
    /\ SF_vars(scope.answers /\ CompleteCallback)

FairSpec == Spec /\ ThreadFairness /\ StorageFairness
-----------------------------------------------------------------------------
Label == {"Ready", "Drain", "LoadRead", "LoadMissing", "LoadValid", "LoadStale", "LoadCorrupt",
          "Write", "Written", "FlushEnter", "FlushWait", "FlushFinal", "FlushReturned",
          "Capture", "Inspect", "Wait", "WaitDue", "Finish", "Finished",
          "ResetWait", "ResetErase", "ResetReturned",
          "ShutdownWait", "ShutdownPublish", "FollowerWait", "DrainWait", "ShutdownReturned"}
         \cup Notifying

Locals == [captured : Nat, attempts : Nat, result : BOOLEAN, asked : Nat,
           target : Subscriber \cup {NoOne}]
Publication == [Revision : Nat, Subscriptions : SUBSET Subscriber]

(* Every member of SettingsStore::Impl has its type.                       *)
TypeOK ==
    /\ revision \in Nat /\ persistedRevision \in Nat /\ disk \in Nat
    /\ timerArmed \in BOOLEAN /\ writerActive \in BOOLEAN
    /\ loadClaimed \in BOOLEAN /\ loadActive \in BOOLEAN /\ preservationFailed \in BOOLEAN
    /\ closing \in BOOLEAN /\ discardRequested \in BOOLEAN /\ shutdownAttempts \in Nat \ {0}
    /\ shutdownRequested \in BOOLEAN /\ shutdownCoreComplete \in BOOLEAN
    /\ shutdownResult \in BOOLEAN /\ workerFinished \in BOOLEAN /\ workerFlushResult \in BOOLEAN
    /\ notified \in BOOLEAN
    /\ file \in {"Missing", "Valid", "Stale", "Corrupt"}
    /\ pc \in [Thread -> Label] /\ local \in [Thread -> Locals]
    /\ subscriptions \subseteq Subscriber
    /\ subscription \in [Subscriber -> {"New", "Active", "Inactive"}]
    /\ pendingPublications \in Seq(Publication) /\ publication \in Publication
    /\ publisher \in Client \cup {NoOne} /\ executing \in Subscriber \cup {NoOne}
    /\ delivered \in [Subscriber -> Nat]

IsWriting(t) == pc[t] \in {"Write", "Written"}

(* Storage is entered by one thread at a time, and not during a load: a    *)
(* flush never overlaps the background worker or another flush             *)
(* (FlushSynchronously, Worker).                                           *)
OneWriter ==
    /\ \A t, u \in Thread : IsWriting(t) /\ IsWriting(u) => t = u
    /\ writerActive <=> \E t \in Thread : IsWriting(t)
    /\ ~(writerActive /\ loadActive)

(* A revision said to be saved is in the file: an older write that         *)
(* succeeds late does not mark a newer revision (CompleteWriteLocked).     *)
PersistedIsOnDisk == persistedRevision <= disk /\ disk <= revision

(* The file never goes back to an older revision, whoever writes it and    *)
(* whenever the write completes, even after Shutdown has given up on it.   *)
DiskNeverGoesBack == disk' >= disk

(* A change is never forgotten: as long as the store is open, an unsaved   *)
(* revision has its timer armed or a write in progress that will arm it    *)
(* again, also after a flush has disarmed the timer and failed.            *)
DirtyIsScheduled == revision # persistedRevision /\ ~closing => timerArmed \/ writerActive

(* FlushNow returns true only when everything committed before the call is *)
(* in the file, unless the store was closed to discard.                    *)
FlushTrueMeansSaved ==
    \A t \in Thread : pc[t] = "FlushReturned" /\ local[t].result =>
                          disk >= local[t].asked \/ discardRequested

(* Shutdown returns true only when the newest revision is in the file and  *)
(* no callback runs on another thread, and both stay so ("Success means    *)
(* persisted data and foreign callbacks drained", docs/INVARIANTS.md).     *)
ShutdownTrueMeansSaved ==
    \A c \in Client : pc[c] = "ShutdownReturned" /\ local[c].result =>
        /\ disk = revision \/ discardRequested
        /\ ~writerActive /\ ~loadActive
ShutdownTrueMeansQuiet ==
    \A c \in Client : pc[c] = "ShutdownReturned" /\ local[c].result =>
                          executing = NoOne \/ publisher = c

(* After the shutdown fence nothing changes the public snapshot and no     *)
(* write is begun: what was already in storage may only finish there.      *)
FencedStateIsFinal ==
    shutdownRequested => /\ UNCHANGED <<revision, persistedRevision>>
                         /\ \A t \in Thread : IsWriting(t)' => IsWriting(t)

(* While a load is undecided, and for good once an unreadable original     *)
(* could not be preserved, no write replaces the file and no change is     *)
(* taken (CompleteLoadWithoutCommit, Commit).                              *)
UnpreservedFileIsKept ==
    (loadActive /\ loadActive') \/ preservationFailed =>
        UNCHANGED <<revision, disk>> /\ file' \in {file, "Missing"}

(* The publications in line: the one being delivered, then the pending     *)
(* ones; and those of them that are still to be given to s.                *)
InLine(i) == IF i = 0 THEN publication ELSE pendingPublications[i]
Awaiting(s) == {i \in 0 .. Len(pendingPublications) : s \in InLine(i).Subscriptions}

(* A subscriber is given every revision committed while it is registered,  *)
(* each once and in order: what it has not been given yet is exactly what  *)
(* is in line for it, whichever threads commit and deliver (Commit,        *)
(* DrainPublications).                                                     *)
SubscribersMissNothing ==
    \A s \in Subscriber : subscription[s] = "Active" =>
        /\ delivered[s] <= revision
        /\ \A i \in Awaiting(s) : InLine(i).Revision \in delivered[s] + 1 .. revision
        /\ \A n \in delivered[s] + 1 .. revision : \E i \in Awaiting(s) : InLine(i).Revision = n
        /\ \A i, j \in Awaiting(s) : i < j => InLine(i).Revision < InLine(j).Revision

(* After Reset returns, no other thread is in the callback or enters it.   *)
NoCallbackAfterReset ==
    \A c \in Client : pc[c] = "ResetReturned" => executing # local[c].target \/ publisher = c

(* No change is lost on its way to the file: one writer at a time, a       *)
(* revision counted as saved is there, and an unsaved one is scheduled     *)
(* (Commit, Worker, FlushSynchronously, CompleteWriteLocked).              *)
NothingIsLost == TypeOK /\ OneWriter /\ PersistedIsOnDisk /\ DirtyIsScheduled

(* What FlushNow, Reset and Shutdown answer is so.                         *)
AnswersAreTrue ==
    /\ FlushTrueMeansSaved /\ ShutdownTrueMeansSaved /\ ShutdownTrueMeansQuiet
    /\ NoCallbackAfterReset

(* What is in the file, and what the fence and a failed load protect, is   *)
(* not undone by a step that comes late.                                   *)
WhatIsSettledStays == [][DiskNeverGoesBack /\ FencedStateIsFinal /\ UnpreservedFileIsKept]_vars

(* A change is saved in the end, however often writes fail before.         *)
ChangesAreSaved ==
    scope.answers /\ revision # persistedRevision ~> revision = persistedRevision \/ closing

(* A subscriber sees every change in the end.                              *)
ChangesArrive ==
    \A s \in Subscriber :
        scope.answers /\ subscription[s] = "Active" /\ delivered[s] # revision ~>
            delivered[s] = revision \/ subscription[s] = "Inactive"

(* Shutdown returns within its budget, even if storage or a callback on    *)
(* another thread never returns.                                           *)
ShutdownReturns ==
    \A c \in Client : pc[c] \in {"CloseNotify", "FollowerWait"} ~> pc[c] = "ShutdownReturned"

(* The store gets on: changes are saved and delivered in the end wherever  *)
(* storage answers, and Shutdown returns even where it does not.           *)
EverythingIsDone == ChangesAreSaved /\ ChangesArrive /\ ShutdownReturns
=============================================================================
