------------------------- MODULE SettingsStoreProofs -------------------------
(***************************************************************************)
(* Proofs about SettingsStore, for any set of threads and subscribers and  *)
(* any scope: what is committed is not lost on its way to the file         *)
(* (NothingIsLost), what FlushNow, Reset and Shutdown answer is so         *)
(* (AnswersAreTrue), what is settled stays (WhatIsSettledStays), and every *)
(* subscriber is given every revision in order (SubscribersMissNothing).   *)
(*                                                                         *)
(* None of these is inductive.  Saving needs, of every thread, what it     *)
(* carries from one hold of the mutex to the next (ThreadSound); delivery  *)
(* needs who may still be called (DeliverySound).                          *)
(***************************************************************************)
EXTENDS SettingsStore, TLAPS

IsLoading(t) == pc[t] \in {"LoadRead", "LoadMissing", "LoadValid", "LoadStale", "LoadCorrupt"}

(* The newest revision is in the file, or is not wanted there.             *)
Saved == discardRequested \/ (~loadActive /\ disk = revision)

(* A successful shutdown: fenced, nothing in storage, everything saved.    *)
Done == /\ shutdownRequested /\ ~writerActive /\ ~loadActive
        /\ disk = revision \/ discardRequested

(* Where a thread may carry a result that is true.                         *)
Answering == {"Written", "WriteNotify", "FlushReturned", "FenceNotify", "ShutdownPublish",
              "DrainWait", "ShutdownReturned"}

(* What a thread carries with it is still so: the revision it writes is    *)
(* not older than the file's, the one it was asked to save exists, and     *)
(* what it is about to answer is true.                                     *)
ThreadSound(t) ==
    /\ local[t].result => pc[t] \in Answering
    /\ local[t].asked <= revision
    /\ pc[t] \in {"Write", "Written", "WriteNotify", "FlushFinal"} => revision # 0
    /\ pc[t] = "Write" => disk <= local[t].captured /\ local[t].captured <= revision
    /\ pc[t] = "Written" => /\ local[t].captured <= revision
                            /\ local[t].result => local[t].captured <= disk
    /\ pc[t] = "FlushReturned" /\ local[t].result =>
           disk >= local[t].asked \/ discardRequested
    /\ pc[t] \in {"CloseNotify", "ShutdownWait"} => closing
    /\ pc[t] \in {"FenceNotify", "ShutdownPublish", "DrainWait", "ShutdownReturned"}
         /\ local[t].result => Done
    /\ IsLoading(t) => loadActive

(* The worker flushes only for Shutdown, and what it found is so.          *)
WorkerSound ==
    /\ pc[Worker] \in {"FlushEnter", "FlushWait", "FlushFinal", "FlushReturned"} => closing
    /\ local[Worker].attempts # 0 => closing
    /\ pc[Worker] = "FlushReturned" /\ local[Worker].result => Saved
    /\ workerFlushResult => closing /\ Saved

OneLoader == \A t, u \in Thread : IsLoading(t) /\ IsLoading(u) => t = u

(* A load comes before every change, and an original that could not be     *)
(* preserved before every write.                                           *)
LoadsComeFirst ==
    /\ loadActive => revision = 0 /\ loadClaimed
    /\ preservationFailed => revision = 0 /\ loadClaimed /\ ~loadActive /\ ~writerActive

ShutdownIsClosed ==
    /\ shutdownRequested => closing
    /\ discardRequested => closing
    /\ shutdownResult => Done

SavingSound ==
    /\ OneWriter /\ PersistedIsOnDisk /\ DirtyIsScheduled
    /\ OneLoader /\ LoadsComeFirst /\ ShutdownIsClosed /\ WorkerSound
    /\ \A t \in Thread : ThreadSound(t)

(* Only a registered subscriber is active, none once the store is closing, *)
(* and one that was never registered is in no publication.                 *)
OnlyRegisteredAreCalled ==
    /\ closing => subscriptions = {}
    /\ \A s \in Subscriber :
        /\ subscription[s] = "Active" => s \in subscriptions
        /\ subscription[s] = "New" => s \notin subscriptions /\ Awaiting(s) = {}
    /\ publisher = NoOne => executing = NoOne

(* A Reset under way has deactivated its target, and past its wait no      *)
(* other thread calls it; a Shutdown that succeeded left no callback on    *)
(* another thread.                                                         *)
CallerSound(c) ==
    /\ pc[c] \in {"ResetWait", "ResetErase", "ResetReturned"} =>
           local[c].target \in Subscriber /\ subscription[local[c].target] = "Inactive"
    /\ pc[c] \in {"ResetErase", "ResetReturned"} => executing # local[c].target \/ publisher = c
    /\ pc[c] = "ShutdownReturned" /\ local[c].result => executing = NoOne \/ publisher = c

DeliverySound ==
    /\ OnlyRegisteredAreCalled /\ SubscribersMissNothing
    /\ \A c \in Client : CallerSound(c)
-----------------------------------------------------------------------------
(* Types, in parts that no step needs all of.                              *)

Numbers ==
    /\ revision \in Nat /\ persistedRevision \in Nat /\ disk \in Nat
    /\ shutdownAttempts \in Nat \ {0}
    /\ file \in {"Missing", "Valid", "Stale", "Corrupt"} /\ scope \in Scopes
Flags ==
    /\ timerArmed \in BOOLEAN /\ writerActive \in BOOLEAN
    /\ loadClaimed \in BOOLEAN /\ loadActive \in BOOLEAN /\ preservationFailed \in BOOLEAN
    /\ closing \in BOOLEAN /\ discardRequested \in BOOLEAN
    /\ shutdownRequested \in BOOLEAN /\ shutdownCoreComplete \in BOOLEAN
    /\ shutdownResult \in BOOLEAN /\ workerFinished \in BOOLEAN /\ workerFlushResult \in BOOLEAN
    /\ notified \in BOOLEAN
ThreadTypes == pc \in [Thread -> Label] /\ local \in [Thread -> Locals]
DeliveryTypes ==
    /\ subscriptions \subseteq Subscriber
    /\ subscription \in [Subscriber -> {"New", "Active", "Inactive"}]
    /\ pendingPublications \in Seq(Publication) /\ publication \in Publication
    /\ publisher \in Client \cup {NoOne} /\ executing \in Subscriber \cup {NoOne}
    /\ delivered \in [Subscriber -> Nat]

Types == Numbers /\ Flags /\ ThreadTypes /\ DeliveryTypes

(* Revisions, attempts and the file keep their types.                      *)
LEMMA NumbersAreKept == ASSUME Types, [Next]_vars PROVE Numbers'
<1> USE SettingsStoreAssumption DEF Types, Numbers, ThreadTypes, Locals, Thread, saving, loading,
        stopping, working, storage, subscribing, publishing
<1>1. ASSUME NEW c \in Client, Commit(c) PROVE Numbers'
  BY <1>1 DEF Commit, Publish, AdmitsChanges, Publication
<1>2. ASSUME NEW c \in Client, ShutdownAgain(c) PROVE Numbers'
  BY <1>2 DEF ShutdownAgain, ThreadOnly
<1>3. ASSUME NEW c \in Client, Load(c) PROVE Numbers'
  BY <1>3 DEF Load
<1>4. ASSUME NEW c \in Client, NEW n \in scope.flushAttempts, NEW ready \in BOOLEAN, FlushNow(c, n, ready) PROVE Numbers'
  BY <1>4 DEF FlushNow, BeginFlush, ThreadOnly, Locals
<1>5. ASSUME NEW c \in Client, NEW n \in scope.attempts, NEW mode \in scope.modes, Shutdown(c, mode, n) PROVE Numbers'
  BY <1>5 DEF Shutdown
<1>6. ASSUME NEW c \in Client, NEW s \in scope.observers, Subscribe(c, s) PROVE Numbers'
  BY <1>6 DEF Subscribe
<1>7. ASSUME NEW c \in Client, NEW s \in scope.observers, Reset(c, s) PROVE Numbers'
  BY <1>7 DEF Reset, Locals
<1>8. ASSUME NEW t \in Thread, NEW succeeded \in BOOLEAN, Write(t, succeeded) PROVE Numbers'
  BY <1>8 DEF Write, Locals
<1>9. ASSUME NEW c \in Client, ReadAndDecode(c) PROVE Numbers'
  BY <1>9 DEF ReadAndDecode, ThreadOnly
<1>10. ASSUME NEW c \in Client, AbandonLoad(c) PROVE Numbers'
  BY <1>10 DEF AbandonLoad, CompleteLoadWithoutCommit
<1>11. ASSUME NEW c \in Client, PreserveCorrupt(c) PROVE Numbers'
  BY <1>11 DEF PreserveCorrupt, CompleteLoadWithoutCommit
<1>12. ASSUME NEW c \in Client, CommitLoad(c) PROVE Numbers'
  BY <1>12 DEF CommitLoad, Publish, Publication
<1>13. ASSUME NEW c \in Client, LoadNotify(c) PROVE Numbers'
  BY <1>13 DEF LoadNotify, NotifyChanged, Notifying
<1>14. ASSUME NEW t \in Thread, CompleteWrite(t) PROVE Numbers'
  BY <1>14 DEF CompleteWrite, SavedRevision, Locals
<1>15. ASSUME NEW t \in Thread, WriteNotify(t) PROVE Numbers'
  BY <1>15 DEF WriteNotify, NotifyChanged, AttemptsLeft, Locals
<1>16. ASSUME NEW t \in Thread, EnterFlush(t) PROVE Numbers'
  BY <1>16 DEF EnterFlush, AdmitFlush, FlushReturn, ClaimWrite, Locals
<1>17. ASSUME NEW t \in Thread, ResumeFlush(t) PROVE Numbers'
  BY <1>17 DEF ResumeFlush, AdmitFlush, FlushReturn, ClaimWrite, Locals
<1>18. ASSUME NEW t \in Thread, FinishFlush(t) PROVE Numbers'
  BY <1>18 DEF FinishFlush, FlushReturn, ThreadOnly, Locals
<1>19. ASSUME NEW t \in Thread, ReturnFromFlush(t) PROVE Numbers'
  BY <1>19 DEF ReturnFromFlush, NoLocals, Locals
<1>20. ASSUME CaptureVersion PROVE Numbers'
  BY <1>20 DEF CaptureVersion
<1>21. ASSUME InspectDue PROVE Numbers'
  BY <1>21 DEF InspectDue, ClaimWrite, Locals
<1>22. ASSUME InspectNotDue PROVE Numbers'
  BY <1>22 DEF InspectNotDue, ThreadOnly
<1>23. ASSUME Wake PROVE Numbers'
  BY <1>23 DEF Wake, ThreadOnly
<1>24. ASSUME FinishWorker PROVE Numbers'
  BY <1>24 DEF FinishWorker
<1>25. ASSUME NEW ready \in BOOLEAN, InspectClosing(ready) PROVE Numbers'
  BY <1>25 DEF InspectClosing, ThreadOnly, FlushReturn, BeginFlush, Locals
<1>26. ASSUME TakePublication PROVE Numbers'
  BY <1>26 DEF TakePublication, Publication
<1>27. ASSUME StopPublishing PROVE Numbers'
  BY <1>27 DEF StopPublishing, NoPublication, Publication
<1>28. ASSUME CompleteCallback PROVE Numbers'
  BY <1>28 DEF CompleteCallback
<1>29. ASSUME NEW s \in Subscriber, TryBeginCallback(s) PROVE Numbers'
  BY <1>29 DEF TryBeginCallback, Publication
<1>30. ASSUME NEW c \in Client, CommitNotify(c) PROVE Numbers'
  BY <1>30 DEF CommitNotify, NotifyChanged
<1>31. ASSUME NEW c \in Client, DrainPublications(c) PROVE Numbers'
  BY <1>31 DEF DrainPublications
<1>32. ASSUME NEW c \in Client, DeactivateAndWait(c) PROVE Numbers'
  BY <1>32 DEF DeactivateAndWait, ThreadOnly
<1>33. ASSUME NEW c \in Client, EraseSubscription(c) PROVE Numbers'
  BY <1>33 DEF EraseSubscription
<1>34. ASSUME NEW c \in Client, ShutdownNotify(c) PROVE Numbers'
  BY <1>34 DEF ShutdownNotify, NotifyChanged
<1>35. ASSUME NEW c \in Client, FenceShutdown(c) PROVE Numbers'
  BY <1>35 DEF FenceShutdown, Fence, Locals, ShutdownSucceeded, ShutdownDrained
<1>36. ASSUME NEW c \in Client, CompleteShutdownCore(c) PROVE Numbers'
  BY <1>36 DEF CompleteShutdownCore, Locals
<1>37. ASSUME NEW c \in Client, FollowShutdown(c) PROVE Numbers'
  BY <1>37 DEF FollowShutdown, ShutdownReturn, ThreadOnly, Locals
<1>38. ASSUME NEW c \in Client, WaitForPublicationDrain(c) PROVE Numbers'
  BY <1>38 DEF WaitForPublicationDrain, ShutdownReturn, ThreadOnly, Locals
<1>39. ASSUME NEW c \in Client, Return(c) PROVE Numbers'
  BY <1>39 DEF Return, ThreadOnly, NoLocals, Locals
<1>40. CASE UNCHANGED vars
  BY <1>40 DEF vars
<1> QED
  BY ONLY [Next]_vars, <1>1, <1>2, <1>3, <1>4, <1>5, <1>6, <1>7, <1>8, <1>9, <1>10, <1>11,
     <1>12, <1>13, <1>14, <1>15, <1>16, <1>17, <1>18, <1>19, <1>20, <1>21, <1>22, <1>23, <1>24,
     <1>25, <1>26, <1>27, <1>28, <1>29, <1>30, <1>31, <1>32, <1>33, <1>34, <1>35, <1>36, <1>37,
     <1>38, <1>39, <1>40
     DEF Next, Call, Storage, LoadStep, SaveStep, FlushStep, WorkerStep, DeliveryStep, ResetStep,
            ShutdownStep

(* Flags stay flags.                                                       *)
LEMMA FlagsAreKept == ASSUME Types, [Next]_vars PROVE Flags'
<1> USE DEF Types, Flags, ThreadTypes, Locals, saving, loading,
        stopping, working, storage, subscribing, publishing
<1>1. ASSUME NEW c \in Client, Commit(c) PROVE Flags'
  BY <1>1 DEF Commit, Publish, AdmitsChanges, Publication
<1>2. ASSUME NEW c \in Client, ShutdownAgain(c) PROVE Flags'
  BY <1>2 DEF ShutdownAgain, ThreadOnly
<1>3. ASSUME NEW c \in Client, Load(c) PROVE Flags'
  BY <1>3 DEF Load
<1>4. ASSUME NEW c \in Client, NEW n \in scope.flushAttempts, NEW ready \in BOOLEAN, FlushNow(c, n, ready) PROVE Flags'
  BY <1>4 DEF FlushNow, BeginFlush, ThreadOnly, Locals
<1>5. ASSUME NEW c \in Client, NEW n \in scope.attempts, NEW mode \in scope.modes, Shutdown(c, mode, n) PROVE Flags'
  BY <1>5 DEF Shutdown
<1>6. ASSUME NEW c \in Client, NEW s \in scope.observers, Subscribe(c, s) PROVE Flags'
  BY <1>6 DEF Subscribe
<1>7. ASSUME NEW c \in Client, NEW s \in scope.observers, Reset(c, s) PROVE Flags'
  BY <1>7 DEF Reset, Locals
<1>8. ASSUME NEW t \in Thread, NEW succeeded \in BOOLEAN, Write(t, succeeded) PROVE Flags'
  BY <1>8 DEF Write, Locals
<1>9. ASSUME NEW c \in Client, ReadAndDecode(c) PROVE Flags'
  BY <1>9 DEF ReadAndDecode, ThreadOnly
<1>10. ASSUME NEW c \in Client, AbandonLoad(c) PROVE Flags'
  BY <1>10 DEF AbandonLoad, CompleteLoadWithoutCommit
<1>11. ASSUME NEW c \in Client, PreserveCorrupt(c) PROVE Flags'
  <2>1. CASE CompleteLoadWithoutCommit(c, TRUE)
    BY <2>1 DEF CompleteLoadWithoutCommit
  <2>2. CASE CompleteLoadWithoutCommit(c, FALSE)
    BY <2>2 DEF CompleteLoadWithoutCommit
  <2> QED
    BY <1>11, <2>1, <2>2 DEF PreserveCorrupt
<1>12. ASSUME NEW c \in Client, CommitLoad(c) PROVE Flags'
  BY <1>12 DEF CommitLoad, Publish, Publication
<1>13. ASSUME NEW c \in Client, LoadNotify(c) PROVE Flags'
  <2>1. CASE NotifyChanged(c, "Drain")
    BY <2>1 DEF NotifyChanged
  <2>2. CASE NotifyChanged(c, "Ready")
    BY <2>2 DEF NotifyChanged
  <2> QED
    BY <1>13, <2>1, <2>2 DEF LoadNotify
<1>14. ASSUME NEW t \in Thread, CompleteWrite(t) PROVE Flags'
  BY <1>14 DEF CompleteWrite, SavedRevision, Locals
<1>15. ASSUME NEW t \in Thread, WriteNotify(t) PROVE Flags'
  BY <1>15 DEF WriteNotify, NotifyChanged, AttemptsLeft, Locals
<1>16. ASSUME NEW t \in Thread, EnterFlush(t) PROVE Flags'
  BY <1>16 DEF EnterFlush, AdmitFlush, FlushReturn, ClaimWrite, Locals
<1>17. ASSUME NEW t \in Thread, ResumeFlush(t) PROVE Flags'
  <2>1. writerActive' \in BOOLEAN
    BY <1>17 DEF ResumeFlush, AdmitFlush, ClaimWrite
  <2> QED
    BY <1>17, <2>1 DEF ResumeFlush
<1>18. ASSUME NEW t \in Thread, FinishFlush(t) PROVE Flags'
  BY <1>18 DEF FinishFlush, FlushReturn, ThreadOnly, Locals
<1>19. ASSUME NEW t \in Thread, ReturnFromFlush(t) PROVE Flags'
  BY <1>19 DEF ReturnFromFlush, NoLocals, Locals
<1>20. ASSUME CaptureVersion PROVE Flags'
  BY <1>20 DEF CaptureVersion
<1>21. ASSUME InspectDue PROVE Flags'
  BY <1>21 DEF InspectDue, ClaimWrite, Locals
<1>22. ASSUME InspectNotDue PROVE Flags'
  BY <1>22 DEF InspectNotDue, ThreadOnly
<1>23. ASSUME Wake PROVE Flags'
  BY <1>23 DEF Wake, ThreadOnly
<1>24. ASSUME FinishWorker PROVE Flags'
  BY <1>24 DEF FinishWorker
<1>25. ASSUME NEW ready \in BOOLEAN, InspectClosing(ready) PROVE Flags'
  BY <1>25 DEF InspectClosing, ThreadOnly, FlushReturn, BeginFlush, Locals
<1>26. ASSUME TakePublication PROVE Flags'
  BY <1>26 DEF TakePublication, Publication
<1>27. ASSUME StopPublishing PROVE Flags'
  BY <1>27 DEF StopPublishing, NoPublication, Publication
<1>28. ASSUME CompleteCallback PROVE Flags'
  BY <1>28 DEF CompleteCallback
<1>29. ASSUME NEW s \in Subscriber, TryBeginCallback(s) PROVE Flags'
  BY <1>29 DEF TryBeginCallback, Publication
<1>30. ASSUME NEW c \in Client, CommitNotify(c) PROVE Flags'
  BY <1>30 DEF CommitNotify, NotifyChanged
<1>31. ASSUME NEW c \in Client, DrainPublications(c) PROVE Flags'
  BY <1>31 DEF DrainPublications
<1>32. ASSUME NEW c \in Client, DeactivateAndWait(c) PROVE Flags'
  BY <1>32 DEF DeactivateAndWait, ThreadOnly
<1>33. ASSUME NEW c \in Client, EraseSubscription(c) PROVE Flags'
  BY <1>33 DEF EraseSubscription
<1>34. ASSUME NEW c \in Client, ShutdownNotify(c) PROVE Flags'
  <2>1. CASE NotifyChanged(c, "ShutdownWait")
    BY <2>1 DEF NotifyChanged
  <2>2. CASE NotifyChanged(c, "ShutdownPublish")
    BY <2>2 DEF NotifyChanged
  <2> QED
    BY <1>34, <2>1, <2>2 DEF ShutdownNotify
<1>35. ASSUME NEW c \in Client, FenceShutdown(c) PROVE Flags'
  BY <1>35 DEF FenceShutdown, Fence, Locals, ShutdownSucceeded, ShutdownDrained
<1>36. ASSUME NEW c \in Client, CompleteShutdownCore(c) PROVE Flags'
  <2>1. local[c].result \in BOOLEAN
    BY DEF Thread
  <2> QED
    BY <1>36, <2>1 DEF CompleteShutdownCore
<1>37. ASSUME NEW c \in Client, FollowShutdown(c) PROVE Flags'
  BY <1>37 DEF FollowShutdown, ShutdownReturn, ThreadOnly, Locals
<1>38. ASSUME NEW c \in Client, WaitForPublicationDrain(c) PROVE Flags'
  BY <1>38 DEF WaitForPublicationDrain, ShutdownReturn, ThreadOnly, Locals
<1>39. ASSUME NEW c \in Client, Return(c) PROVE Flags'
  BY <1>39 DEF Return, ThreadOnly, NoLocals, Locals
<1>40. CASE UNCHANGED vars
  BY <1>40 DEF vars
<1> QED
  BY ONLY [Next]_vars, <1>1, <1>2, <1>3, <1>4, <1>5, <1>6, <1>7, <1>8, <1>9, <1>10, <1>11,
     <1>12, <1>13, <1>14, <1>15, <1>16, <1>17, <1>18, <1>19, <1>20, <1>21, <1>22, <1>23, <1>24,
     <1>25, <1>26, <1>27, <1>28, <1>29, <1>30, <1>31, <1>32, <1>33, <1>34, <1>35, <1>36, <1>37,
     <1>38, <1>39, <1>40
     DEF Next, Call, Storage, LoadStep, SaveStep, FlushStep, WorkerStep, DeliveryStep, ResetStep,
            ShutdownStep

(* Threads stay at labels of the code, with their locals typed.            *)
LEMMA ThreadTypesAreKept == ASSUME Types, [Next]_vars PROVE ThreadTypes'
<1> USE SettingsStoreAssumption DEF Types, Numbers, Flags, ThreadTypes, Thread, Label, Notifying, Goto, saving, loading,
        stopping, working, storage, subscribing, publishing
<1>1. ASSUME NEW c \in Client, Commit(c) PROVE ThreadTypes'
  BY <1>1 DEF Commit, Publish, AdmitsChanges, Publication
<1>2. ASSUME NEW c \in Client, ShutdownAgain(c) PROVE ThreadTypes'
  BY <1>2 DEF ShutdownAgain, ThreadOnly
<1>3. ASSUME NEW c \in Client, Load(c) PROVE ThreadTypes'
  BY <1>3 DEF Load
<1>4. ASSUME NEW c \in Client, NEW n \in scope.flushAttempts, NEW ready \in BOOLEAN, FlushNow(c, n, ready) PROVE ThreadTypes'
  <2> DEFINE d == [local[c] EXCEPT !.attempts = IF ready THEN n ELSE 0, !.asked = revision]
  <2>a. local[c] \in Locals
    BY DEF ThreadTypes
  <2>b. n \in Nat
    BY SettingsStoreAssumption DEF Numbers
  <2>1. d \in Locals
    BY <2>a, <2>b, revision \in Nat DEF Locals
  <2>2. local' = [local EXCEPT ![c] = d]
    BY <1>4 DEF FlushNow, BeginFlush
  <2>3. local' \in [Thread -> Locals]
    BY <2>1, <2>2
  <2>4. pc' \in [Thread -> Label]
    BY <1>4 DEF FlushNow, BeginFlush
  <2> QED
    BY <2>3, <2>4
<1>5. ASSUME NEW c \in Client, NEW n \in scope.attempts, NEW mode \in scope.modes, Shutdown(c, mode, n) PROVE ThreadTypes'
  BY <1>5 DEF Shutdown
<1>6. ASSUME NEW c \in Client, NEW s \in scope.observers, Subscribe(c, s) PROVE ThreadTypes'
  BY <1>6 DEF Subscribe
<1>7. ASSUME NEW c \in Client, NEW s \in scope.observers, Reset(c, s) PROVE ThreadTypes'
  BY <1>7 DEF Reset, Locals
<1>8. ASSUME NEW t \in Thread, NEW succeeded \in BOOLEAN, Write(t, succeeded) PROVE ThreadTypes'
  BY <1>8 DEF Write, Locals
<1>9. ASSUME NEW c \in Client, ReadAndDecode(c) PROVE ThreadTypes'
  BY <1>9 DEF ReadAndDecode, ThreadOnly
<1>10. ASSUME NEW c \in Client, AbandonLoad(c) PROVE ThreadTypes'
  BY <1>10 DEF AbandonLoad, CompleteLoadWithoutCommit
<1>11. ASSUME NEW c \in Client, PreserveCorrupt(c) PROVE ThreadTypes'
  BY <1>11 DEF PreserveCorrupt, CompleteLoadWithoutCommit
<1>12. ASSUME NEW c \in Client, CommitLoad(c) PROVE ThreadTypes'
  BY <1>12 DEF CommitLoad, Publish, Publication
<1>13. ASSUME NEW c \in Client, LoadNotify(c) PROVE ThreadTypes'
  BY <1>13 DEF LoadNotify, NotifyChanged, Notifying
<1>14. ASSUME NEW t \in Thread, CompleteWrite(t) PROVE ThreadTypes'
  BY <1>14 DEF CompleteWrite, SavedRevision, Locals
<1>15. ASSUME NEW t \in Thread, WriteNotify(t) PROVE ThreadTypes'
  BY <1>15 DEF WriteNotify, NotifyChanged, AttemptsLeft, Locals
<1>16. ASSUME NEW t \in Thread, EnterFlush(t) PROVE ThreadTypes'
  BY <1>16 DEF EnterFlush, AdmitFlush, FlushReturn, ClaimWrite, Locals
<1>17. ASSUME NEW t \in Thread, ResumeFlush(t) PROVE ThreadTypes'
  BY <1>17 DEF ResumeFlush, AdmitFlush, FlushReturn, ClaimWrite, Locals
<1>18. ASSUME NEW t \in Thread, FinishFlush(t) PROVE ThreadTypes'
  BY <1>18 DEF FinishFlush, FlushReturn, ThreadOnly, Locals
<1>19. ASSUME NEW t \in Thread, ReturnFromFlush(t) PROVE ThreadTypes'
  BY <1>19 DEF ReturnFromFlush, NoLocals, Locals
<1>20. ASSUME CaptureVersion PROVE ThreadTypes'
  BY <1>20 DEF CaptureVersion
<1>21. ASSUME InspectDue PROVE ThreadTypes'
  BY <1>21 DEF InspectDue, ClaimWrite, Locals
<1>22. ASSUME InspectNotDue PROVE ThreadTypes'
  BY <1>22 DEF InspectNotDue, ThreadOnly
<1>23. ASSUME Wake PROVE ThreadTypes'
  BY <1>23 DEF Wake, ThreadOnly
<1>24. ASSUME FinishWorker PROVE ThreadTypes'
  BY <1>24 DEF FinishWorker
<1>25. ASSUME NEW ready \in BOOLEAN, InspectClosing(ready) PROVE ThreadTypes'
  BY <1>25 DEF InspectClosing, ThreadOnly, FlushReturn, BeginFlush, Locals
<1>26. ASSUME TakePublication PROVE ThreadTypes'
  BY <1>26 DEF TakePublication, Publication
<1>27. ASSUME StopPublishing PROVE ThreadTypes'
  BY <1>27 DEF StopPublishing, NoPublication, Publication
<1>28. ASSUME CompleteCallback PROVE ThreadTypes'
  BY <1>28 DEF CompleteCallback
<1>29. ASSUME NEW s \in Subscriber, TryBeginCallback(s) PROVE ThreadTypes'
  BY <1>29 DEF TryBeginCallback, Publication
<1>30. ASSUME NEW c \in Client, CommitNotify(c) PROVE ThreadTypes'
  BY <1>30 DEF CommitNotify, NotifyChanged
<1>31. ASSUME NEW c \in Client, DrainPublications(c) PROVE ThreadTypes'
  BY <1>31 DEF DrainPublications
<1>32. ASSUME NEW c \in Client, DeactivateAndWait(c) PROVE ThreadTypes'
  BY <1>32 DEF DeactivateAndWait, ThreadOnly
<1>33. ASSUME NEW c \in Client, EraseSubscription(c) PROVE ThreadTypes'
  BY <1>33 DEF EraseSubscription
<1>34. ASSUME NEW c \in Client, ShutdownNotify(c) PROVE ThreadTypes'
  BY <1>34 DEF ShutdownNotify, NotifyChanged
<1>35. ASSUME NEW c \in Client, FenceShutdown(c) PROVE ThreadTypes'
  <2> DEFINE d == [local[c] EXCEPT !.result = ShutdownSucceeded]
  <2>a. local[c] \in Locals
    BY DEF ThreadTypes
  <2>b. ShutdownSucceeded \in BOOLEAN
    BY SettingsStoreAssumption DEF Numbers, ShutdownSucceeded
  <2>1. d \in Locals
    BY <2>a, <2>b, revision \in Nat DEF Locals
  <2>2. local' = [local EXCEPT ![c] = d]
    BY <1>35 DEF FenceShutdown, Fence
  <2>3. local' \in [Thread -> Locals]
    BY <2>1, <2>2
  <2>4. pc' \in [Thread -> Label]
    BY <1>35 DEF FenceShutdown, Fence
  <2> QED
    BY <2>3, <2>4
<1>36. ASSUME NEW c \in Client, CompleteShutdownCore(c) PROVE ThreadTypes'
  BY <1>36 DEF CompleteShutdownCore, Locals
<1>37. ASSUME NEW c \in Client, FollowShutdown(c) PROVE ThreadTypes'
  <2> DEFINE d == [local[c] EXCEPT !.result = shutdownCoreComplete /\ shutdownResult]
  <2>a. local[c] \in Locals
    BY DEF ThreadTypes
  <2>b. (shutdownCoreComplete /\ shutdownResult) \in BOOLEAN
    BY SettingsStoreAssumption DEF Numbers
  <2>1. d \in Locals
    BY <2>a, <2>b, revision \in Nat DEF Locals
  <2>2. local' = [local EXCEPT ![c] = d]
    BY <1>37 DEF FollowShutdown, ShutdownReturn
  <2>3. local' \in [Thread -> Locals]
    BY <2>1, <2>2
  <2>4. pc' \in [Thread -> Label]
    BY <1>37 DEF FollowShutdown, ShutdownReturn
  <2> QED
    BY <2>3, <2>4
<1>38. ASSUME NEW c \in Client, WaitForPublicationDrain(c) PROVE ThreadTypes'
  <2> DEFINE d == [local[c] EXCEPT !.result = @ /\ publisher \in {c, NoOne}]
  <2>a. local[c] \in Locals
    BY DEF ThreadTypes
  <2>b. (local[c].result /\ publisher \in {c, NoOne}) \in BOOLEAN
    BY SettingsStoreAssumption DEF Numbers
  <2>1. d \in Locals
    BY <2>a, <2>b, revision \in Nat DEF Locals
  <2>2. local' = [local EXCEPT ![c] = d]
    BY <1>38 DEF WaitForPublicationDrain, ShutdownReturn
  <2>3. local' \in [Thread -> Locals]
    BY <2>1, <2>2
  <2>4. pc' \in [Thread -> Label]
    BY <1>38 DEF WaitForPublicationDrain, ShutdownReturn
  <2> QED
    BY <2>3, <2>4
<1>39. ASSUME NEW c \in Client, Return(c) PROVE ThreadTypes'
  BY <1>39 DEF Return, ThreadOnly, NoLocals, Locals
<1>40. CASE UNCHANGED vars
  BY <1>40 DEF vars
<1> QED
  BY ONLY [Next]_vars, <1>1, <1>2, <1>3, <1>4, <1>5, <1>6, <1>7, <1>8, <1>9, <1>10, <1>11,
     <1>12, <1>13, <1>14, <1>15, <1>16, <1>17, <1>18, <1>19, <1>20, <1>21, <1>22, <1>23, <1>24,
     <1>25, <1>26, <1>27, <1>28, <1>29, <1>30, <1>31, <1>32, <1>33, <1>34, <1>35, <1>36, <1>37,
     <1>38, <1>39, <1>40
     DEF Next, Call, Storage, LoadStep, SaveStep, FlushStep, WorkerStep, DeliveryStep, ResetStep,
            ShutdownStep

(* So do the subscriptions and publications.                               *)
LEMMA DeliveryTypesAreKept == ASSUME Types, [Next]_vars PROVE DeliveryTypes'
<1> USE SettingsStoreAssumption DEF Types, DeliveryTypes, Numbers, saving, loading,
        stopping, working, storage, subscribing, publishing
<1>1. ASSUME NEW c \in Client, Commit(c) PROVE DeliveryTypes'
  <2>1. [Revision |-> revision + 1, Subscriptions |-> subscriptions] \in Publication
    BY DEF Numbers, Publication
  <2> QED
    BY <1>1, <2>1 DEF Commit, Publish
<1>2. ASSUME NEW c \in Client, ShutdownAgain(c) PROVE DeliveryTypes'
  BY <1>2 DEF ShutdownAgain, ThreadOnly
<1>3. ASSUME NEW c \in Client, Load(c) PROVE DeliveryTypes'
  BY <1>3 DEF Load
<1>4. ASSUME NEW c \in Client, NEW n \in scope.flushAttempts, NEW ready \in BOOLEAN, FlushNow(c, n, ready) PROVE DeliveryTypes'
  BY <1>4 DEF FlushNow, BeginFlush, ThreadOnly, Locals
<1>5. ASSUME NEW c \in Client, NEW n \in scope.attempts, NEW mode \in scope.modes, Shutdown(c, mode, n) PROVE DeliveryTypes'
  BY <1>5 DEF Shutdown
<1>6. ASSUME NEW c \in Client, NEW s \in scope.observers, Subscribe(c, s) PROVE DeliveryTypes'
  BY <1>6 DEF Subscribe
<1>7. ASSUME NEW c \in Client, NEW s \in scope.observers, Reset(c, s) PROVE DeliveryTypes'
  BY <1>7 DEF Reset, Locals
<1>8. ASSUME NEW t \in Thread, NEW succeeded \in BOOLEAN, Write(t, succeeded) PROVE DeliveryTypes'
  BY <1>8 DEF Write, Locals
<1>9. ASSUME NEW c \in Client, ReadAndDecode(c) PROVE DeliveryTypes'
  BY <1>9 DEF ReadAndDecode, ThreadOnly
<1>10. ASSUME NEW c \in Client, AbandonLoad(c) PROVE DeliveryTypes'
  BY <1>10 DEF AbandonLoad, CompleteLoadWithoutCommit
<1>11. ASSUME NEW c \in Client, PreserveCorrupt(c) PROVE DeliveryTypes'
  BY <1>11 DEF PreserveCorrupt, CompleteLoadWithoutCommit
<1>12. ASSUME NEW c \in Client, CommitLoad(c) PROVE DeliveryTypes'
  <2>1. [Revision |-> 1, Subscriptions |-> IF closing THEN {} ELSE subscriptions] \in Publication
    BY DEF Publication
  <2>2. CASE UNCHANGED pendingPublications
    BY <1>12, <2>2 DEF CommitLoad
  <2>3. CASE Publish(1, IF closing THEN {} ELSE subscriptions)
    <3>1. pendingPublications' \in Seq(Publication)
      BY <2>1, <2>3 DEF Publish
    <3> QED
      BY <1>12, <3>1 DEF CommitLoad
  <2> QED
    BY <1>12, <2>2, <2>3 DEF CommitLoad
<1>13. ASSUME NEW c \in Client, LoadNotify(c) PROVE DeliveryTypes'
  BY <1>13 DEF LoadNotify, NotifyChanged, Notifying
<1>14. ASSUME NEW t \in Thread, CompleteWrite(t) PROVE DeliveryTypes'
  BY <1>14 DEF CompleteWrite, SavedRevision, Locals
<1>15. ASSUME NEW t \in Thread, WriteNotify(t) PROVE DeliveryTypes'
  BY <1>15 DEF WriteNotify, NotifyChanged, AttemptsLeft, Locals
<1>16. ASSUME NEW t \in Thread, EnterFlush(t) PROVE DeliveryTypes'
  BY <1>16 DEF EnterFlush, AdmitFlush, FlushReturn, ClaimWrite, Locals
<1>17. ASSUME NEW t \in Thread, ResumeFlush(t) PROVE DeliveryTypes'
  BY <1>17 DEF ResumeFlush, AdmitFlush, FlushReturn, ClaimWrite, Locals
<1>18. ASSUME NEW t \in Thread, FinishFlush(t) PROVE DeliveryTypes'
  BY <1>18 DEF FinishFlush, FlushReturn, ThreadOnly, Locals
<1>19. ASSUME NEW t \in Thread, ReturnFromFlush(t) PROVE DeliveryTypes'
  BY <1>19 DEF ReturnFromFlush, NoLocals, Locals
<1>20. ASSUME CaptureVersion PROVE DeliveryTypes'
  BY <1>20 DEF CaptureVersion
<1>21. ASSUME InspectDue PROVE DeliveryTypes'
  BY <1>21 DEF InspectDue, ClaimWrite, Locals
<1>22. ASSUME InspectNotDue PROVE DeliveryTypes'
  BY <1>22 DEF InspectNotDue, ThreadOnly
<1>23. ASSUME Wake PROVE DeliveryTypes'
  BY <1>23 DEF Wake, ThreadOnly
<1>24. ASSUME FinishWorker PROVE DeliveryTypes'
  BY <1>24 DEF FinishWorker
<1>25. ASSUME NEW ready \in BOOLEAN, InspectClosing(ready) PROVE DeliveryTypes'
  BY <1>25 DEF InspectClosing, ThreadOnly, FlushReturn, BeginFlush, Locals
<1>26. ASSUME TakePublication PROVE DeliveryTypes'
  <2>1. Head(pendingPublications) \in Publication /\ Tail(pendingPublications) \in Seq(Publication)
    BY <1>26 DEF TakePublication
  <2> QED
    BY <1>26, <2>1 DEF TakePublication
<1>27. ASSUME StopPublishing PROVE DeliveryTypes'
  BY <1>27 DEF StopPublishing, NoPublication, Publication
<1>28. ASSUME CompleteCallback PROVE DeliveryTypes'
  BY <1>28 DEF CompleteCallback
<1>29. ASSUME NEW s \in Subscriber, TryBeginCallback(s) PROVE DeliveryTypes'
  BY <1>29 DEF TryBeginCallback, Publication
<1>30. ASSUME NEW c \in Client, CommitNotify(c) PROVE DeliveryTypes'
  BY <1>30 DEF CommitNotify, NotifyChanged
<1>31. ASSUME NEW c \in Client, DrainPublications(c) PROVE DeliveryTypes'
  BY <1>31 DEF DrainPublications
<1>32. ASSUME NEW c \in Client, DeactivateAndWait(c) PROVE DeliveryTypes'
  BY <1>32 DEF DeactivateAndWait, ThreadOnly
<1>33. ASSUME NEW c \in Client, EraseSubscription(c) PROVE DeliveryTypes'
  BY <1>33 DEF EraseSubscription
<1>34. ASSUME NEW c \in Client, ShutdownNotify(c) PROVE DeliveryTypes'
  BY <1>34 DEF ShutdownNotify, NotifyChanged
<1>35. ASSUME NEW c \in Client, FenceShutdown(c) PROVE DeliveryTypes'
  BY <1>35 DEF FenceShutdown, Fence, Locals, ShutdownSucceeded, ShutdownDrained
<1>36. ASSUME NEW c \in Client, CompleteShutdownCore(c) PROVE DeliveryTypes'
  BY <1>36 DEF CompleteShutdownCore, Locals
<1>37. ASSUME NEW c \in Client, FollowShutdown(c) PROVE DeliveryTypes'
  BY <1>37 DEF FollowShutdown, ShutdownReturn, ThreadOnly, Locals
<1>38. ASSUME NEW c \in Client, WaitForPublicationDrain(c) PROVE DeliveryTypes'
  BY <1>38 DEF WaitForPublicationDrain, ShutdownReturn, ThreadOnly, Locals
<1>39. ASSUME NEW c \in Client, Return(c) PROVE DeliveryTypes'
  BY <1>39 DEF Return, ThreadOnly, NoLocals, Locals
<1>40. CASE UNCHANGED vars
  BY <1>40 DEF vars
<1> QED
  BY ONLY [Next]_vars, <1>1, <1>2, <1>3, <1>4, <1>5, <1>6, <1>7, <1>8, <1>9, <1>10, <1>11,
     <1>12, <1>13, <1>14, <1>15, <1>16, <1>17, <1>18, <1>19, <1>20, <1>21, <1>22, <1>23, <1>24,
     <1>25, <1>26, <1>27, <1>28, <1>29, <1>30, <1>31, <1>32, <1>33, <1>34, <1>35, <1>36, <1>37,
     <1>38, <1>39, <1>40
     DEF Next, Call, Storage, LoadStep, SaveStep, FlushStep, WorkerStep, DeliveryStep, ResetStep,
            ShutdownStep

(* TypeOK and the scope are these parts.                                   *)
LEMMA TypesAreTypeOK == Types <=> TypeOK /\ scope \in Scopes
  BY DEF Types, TypeOK, Numbers, Flags, ThreadTypes, DeliveryTypes

LEMMA TypesAtFirst == Init => Types
<1> SUFFICES ASSUME Init PROVE Types
  OBVIOUS
<1> USE SettingsStoreAssumption DEF Init
<1>1. Numbers
  BY DEF Numbers
<1>2. Flags
  BY DEF Flags
<1>3. ThreadTypes
  BY DEF ThreadTypes, NoLocals, Locals, Label, Thread
<1>4. DeliveryTypes
  BY DEF DeliveryTypes, NoPublication, Publication
<1> QED
  BY <1>1, <1>2, <1>3, <1>4 DEF Types

LEMMA TypesAreKept == ASSUME Types, [Next]_vars PROVE Types'
  BY NumbersAreKept, FlagsAreKept, ThreadTypesAreKept, DeliveryTypesAreKept DEF Types

(* Every member of SettingsStore::Impl and every thread's locals keep      *)
(* their types, whatever threads and storage do.                           *)
THEOREM StoreTypeOK == Spec => []TypeOK
<1>1. Init => Types
  BY TypesAtFirst
<1>2. Types /\ [Next]_vars => Types'
  BY TypesAreKept
<1>3. Types => TypeOK
  BY TypesAreTypeOK
<1> QED
  BY <1>1, <1>2, <1>3, PTL DEF Spec
-----------------------------------------------------------------------------
(* Saving.  A step moves one thread; of the others it only needs that what *)
(* they carry with them stays so.                                          *)

OnlyMoves(t) == \A u \in Thread \ {t} : pc'[u] = pc[u] /\ local'[u] = local[u]

Advances ==
    /\ revision <= revision' /\ disk <= disk'
    /\ closing => closing'
    /\ discardRequested => discardRequested'
    /\ Done => Done'
    /\ closing /\ Saved => Saved'

LEMMA OthersStaySound ==
    ASSUME NEW u \in Thread, Types, Types', ThreadSound(u), Advances,
           pc'[u] = pc[u], local'[u] = local[u],
           pc[u] = "Write" => disk' <= local[u].captured,
           IsLoading(u) => loadActive'
    PROVE  ThreadSound(u)'
<1> USE DEF Types, Numbers, ThreadTypes, Locals
<1>1. local[u] \in Locals /\ local'[u] \in Locals
  OBVIOUS
<1>2. (local[u].result => pc[u] \in Answering)'
  BY DEF ThreadSound
<1>3. local'[u].asked <= revision'
  BY <1>1 DEF ThreadSound, Advances
<1>4. pc'[u] \in {"Write", "Written", "WriteNotify", "FlushFinal"} => revision' # 0
  BY DEF ThreadSound, Advances
<1>5. pc'[u] = "Write" => disk' <= local'[u].captured /\ local'[u].captured <= revision'
  BY <1>1 DEF ThreadSound, Advances
<1>6. pc'[u] = "Written" => /\ local'[u].captured <= revision'
                            /\ local'[u].result => local'[u].captured <= disk'
  BY <1>1 DEF ThreadSound, Advances
<1>7. pc'[u] = "FlushReturned" /\ local'[u].result =>
          disk' >= local'[u].asked \/ discardRequested'
  BY <1>1 DEF ThreadSound, Advances
<1>8. pc'[u] \in {"CloseNotify", "ShutdownWait"} => closing'
  BY DEF ThreadSound, Advances
<1>9. pc'[u] \in {"FenceNotify", "ShutdownPublish", "DrainWait", "ShutdownReturned"}
        /\ local'[u].result => Done'
  BY DEF ThreadSound, Advances
<1>10. IsLoading(u)' => loadActive'
  BY DEF IsLoading
<1> QED
  BY <1>2, <1>3, <1>4, <1>5, <1>6, <1>7, <1>8, <1>9, <1>10 DEF ThreadSound

LEMMA WorkerStaysSound ==
    ASSUME WorkerSound, Advances, pc'[Worker] = pc[Worker], local'[Worker] = local[Worker],
           workerFlushResult' = workerFlushResult
    PROVE  WorkerSound'
  BY DEF WorkerSound, Advances

(* A step that changes nothing but its thread keeps everything if the      *)
(* thread enters neither storage nor a load and stays sound.               *)
Quiet == UNCHANGED <<saving, loading, stopping, working, storage>>

LEMMA QuietAdvances == ASSUME Types, Types', Quiet PROVE Advances
  BY DEF Quiet, Advances, Types, Numbers, Done, Saved, saving, loading, stopping, working, storage

LEMMA QuietMoveIsSound ==
    ASSUME Types, Types', SavingSound, Quiet, NEW t \in Thread, OnlyMoves(t),
           IsWriting(t)' <=> IsWriting(t), IsLoading(t)' => IsLoading(t),
           ThreadSound(t)', t = Worker => WorkerSound'
    PROVE  SavingSound'
<1> USE DEF SavingSound, Quiet, saving, loading, stopping, working, storage
<1>1. \A u \in Thread : (IsWriting(u)' <=> IsWriting(u)) /\ (IsLoading(u)' => IsLoading(u))
  BY DEF OnlyMoves, IsWriting, IsLoading
<1>2. OneWriter'
  BY <1>1 DEF OneWriter
<1>3. OneLoader'
  BY <1>1 DEF OneLoader
<1>4. PersistedIsOnDisk' /\ DirtyIsScheduled'
  BY DEF PersistedIsOnDisk, DirtyIsScheduled
<1>5. LoadsComeFirst'
  BY DEF LoadsComeFirst
<1>6. ShutdownIsClosed'
  BY DEF ShutdownIsClosed, Done
<1>7. WorkerSound'
  <2>1. CASE t # Worker
    <3>1. pc'[Worker] = pc[Worker] /\ local'[Worker] = local[Worker]
      BY <2>1 DEF OnlyMoves, Thread
    <3> QED
      BY <3>1, QuietAdvances, WorkerStaysSound
  <2> QED
    BY <2>1
<1>8. ASSUME NEW u \in Thread PROVE ThreadSound(u)'
  <2>1. CASE u # t
    <3>1. pc'[u] = pc[u] /\ local'[u] = local[u]
      BY <2>1 DEF OnlyMoves
    <3>2. ThreadSound(u)
      OBVIOUS
    <3>3. pc[u] = "Write" => disk' <= local[u].captured
      BY <3>2 DEF ThreadSound
    <3>4. IsLoading(u) => loadActive'
      BY <3>2 DEF ThreadSound
    <3> QED
      BY <3>1, <3>2, <3>3, <3>4, QuietAdvances, OthersStaySound
  <2> QED
    BY <2>1
<1> QED
  BY <1>2, <1>3, <1>4, <1>5, <1>6, <1>7, <1>8


LEMMA QuietStutterIsSound ==
    ASSUME Types, Types', SavingSound, Quiet, UNCHANGED <<pc, local>>
    PROVE  SavingSound'
<1>1. Worker \in Thread /\ OnlyMoves(Worker)
  BY DEF OnlyMoves, Thread
<1>2. (IsWriting(Worker)' <=> IsWriting(Worker)) /\ (IsLoading(Worker)' => IsLoading(Worker))
  BY DEF IsWriting, IsLoading
<1>3. WorkerSound'
  BY QuietAdvances, WorkerStaysSound DEF SavingSound, Quiet, working
<1>4. ThreadSound(Worker)'
  BY <1>1 DEF SavingSound, ThreadSound, IsLoading, Done, Quiet, saving, loading, stopping, storage
<1> QED
  BY <1>1, <1>2, <1>3, <1>4, QuietMoveIsSound

(* Labels at which a thread carries nothing that others could disturb.     *)
Idle == {"Ready", "CommitNotify", "Drain", "LoadNotify", "LoadEndNotify", "ResetWait", "ResetErase",
         "ResetReturned", "FollowerWait", "Capture", "Inspect", "Wait", "WaitDue", "Finish",
         "Finished"}

LEMMA IdleMoveIsSound ==
    ASSUME Types, Types', SavingSound, Quiet, NEW t \in Thread, OnlyMoves(t),
           pc[t] \in Idle, pc'[t] \in Idle,
           local'[t].result = local[t].result, local'[t].asked = local[t].asked,
           local'[t].attempts = local[t].attempts
    PROVE  SavingSound'
<1> USE DEF Idle
<1>1. ThreadSound(t) /\ WorkerSound
  BY DEF SavingSound
<1>2. ~IsWriting(t)' /\ ~IsWriting(t) /\ ~IsLoading(t)'
  BY DEF IsWriting, IsLoading
<1>3. ~local[t].result
  BY <1>1 DEF ThreadSound, Answering
<1>4. ThreadSound(t)'
  BY <1>1, <1>2, <1>3 DEF ThreadSound, Quiet, saving
<1>5. t = Worker => WorkerSound'
  BY <1>1, <1>3 DEF WorkerSound, Quiet, stopping, working, loading, storage, saving, Saved
<1> QED
  BY <1>2, <1>4, <1>5, QuietMoveIsSound


(* Flushes and shutdowns that only move on.                                *)
LEMMA FlushNowIsSound ==
    ASSUME Types, Types', SavingSound, NEW c \in Client, NEW n \in scope.flushAttempts,
           NEW ready \in BOOLEAN, FlushNow(c, n, ready)
    PROVE  SavingSound'
<1> USE SettingsStoreAssumption DEF FlushNow, BeginFlush, ThreadOnly, Goto, Types, ThreadTypes
<1>1. Quiet /\ c \in Thread /\ OnlyMoves(c) /\ c # Worker
  BY DEF Quiet, OnlyMoves, Thread
<1>2. pc[c] = "Ready" /\ pc'[c] \in {"FlushEnter", "FlushReturned"}
  BY <1>1 DEF IsFree
<1>3. local'[c].result = local[c].result /\ local'[c].asked = revision
  BY <1>1 DEF Locals
<1>4. ~local[c].result
  BY <1>1, <1>2 DEF SavingSound, ThreadSound, Answering
<1>5. (IsWriting(c)' <=> IsWriting(c)) /\ (IsLoading(c)' => IsLoading(c))
  BY <1>2 DEF IsWriting, IsLoading
<1>6. ThreadSound(c)'
  BY <1>1, <1>2, <1>3, <1>4 DEF ThreadSound, IsLoading, Quiet, saving, Numbers
<1> QED
  BY <1>1, <1>5, <1>6, QuietMoveIsSound

LEMMA ReadAndDecodeIsSound ==
    ASSUME Types, Types', SavingSound, NEW c \in Client, ReadAndDecode(c)
    PROVE  SavingSound'
<1> USE SettingsStoreAssumption DEF ReadAndDecode, ThreadOnly, Goto, Types, ThreadTypes
<1>1. Quiet /\ c \in Thread /\ OnlyMoves(c) /\ c # Worker
  BY DEF Quiet, OnlyMoves, Thread
<1>2. pc[c] = "LoadRead" /\ local'[c] = local[c]
      /\ pc'[c] \in {"LoadMissing", "LoadValid", "LoadStale", "LoadCorrupt"}
  BY <1>1
<1>3. (IsWriting(c)' <=> IsWriting(c)) /\ IsLoading(c) /\ IsLoading(c)'
  BY <1>2 DEF IsWriting, IsLoading
<1>4. ThreadSound(c)'
  <2>1. ThreadSound(c)
    BY <1>1 DEF SavingSound
  <2>2. ~local[c].result /\ loadActive
    BY <1>2, <1>3, <2>1 DEF ThreadSound, Answering
  <2> QED
    BY <1>1, <1>2, <2>1, <2>2 DEF ThreadSound, Quiet, saving, loading
<1> QED
  BY <1>1, <1>3, <1>4, QuietMoveIsSound

LEMMA WriteNotifyIsSound ==
    ASSUME Types, Types', SavingSound, NEW t \in Thread, WriteNotify(t)
    PROVE  SavingSound'
<1> USE DEF WriteNotify, NotifyChanged, Goto, Types, ThreadTypes
<1>1. Quiet /\ OnlyMoves(t)
  BY DEF Quiet, OnlyMoves
<1>2. /\ pc[t] = "WriteNotify"
      /\ pc'[t] = IF local[t].attempts = 0 THEN "Capture"
                  ELSE IF local[t].attempts = 1 THEN "FlushFinal" ELSE "FlushEnter"
  OBVIOUS
<1>3. /\ local'[t].result = FALSE /\ local'[t].asked = local[t].asked
      /\ local'[t].attempts = AttemptsLeft(local[t].attempts)
  BY DEF Locals
<1>4. (IsWriting(t)' <=> IsWriting(t)) /\ ~IsLoading(t)'
  BY <1>2 DEF IsWriting, IsLoading
<1>5. ThreadSound(t) /\ WorkerSound
  BY DEF SavingSound
<1>6. ThreadSound(t)'
  BY <1>1, <1>2, <1>3, <1>4, <1>5 DEF ThreadSound, Quiet, saving
<1>7. t = Worker => WorkerSound'
  BY <1>1, <1>2, <1>3, <1>5
     DEF WorkerSound, AttemptsLeft, Quiet, stopping, working, loading, storage, saving, Saved
<1> QED
  BY <1>1, <1>4, <1>6, <1>7, QuietMoveIsSound

(* What FlushNow is about to say, after its last attempt.                  *)
LEMMA FinishFlushIsSound ==
    ASSUME Types, Types', SavingSound, NEW t \in Thread, FinishFlush(t)
    PROVE  SavingSound'
<1> USE DEF FinishFlush, FlushReturn, ThreadOnly, Goto, Types, ThreadTypes
<1>1. Quiet /\ OnlyMoves(t)
  BY DEF Quiet, OnlyMoves
<1>2. pc[t] = "FlushFinal" /\ pc'[t] = "FlushReturned"
  OBVIOUS
<1>3. /\ local'[t].result <=> revision = persistedRevision
      /\ local'[t].asked = local[t].asked /\ local'[t].attempts = 0
  BY DEF Locals
<1>4. (IsWriting(t)' <=> IsWriting(t)) /\ ~IsLoading(t)'
  BY <1>2 DEF IsWriting, IsLoading
<1>5. ThreadSound(t) /\ WorkerSound /\ PersistedIsOnDisk /\ LoadsComeFirst
  BY DEF SavingSound
<1>6. /\ revision # 0 /\ ~loadActive
      /\ revision = persistedRevision => disk = revision
  BY <1>2, <1>5 DEF ThreadSound, PersistedIsOnDisk, LoadsComeFirst, Numbers
<1>7. revision' = revision /\ disk' = disk /\ loadActive' = loadActive
      /\ local[t].asked \in Nat /\ closing' = closing
  BY <1>1 DEF Quiet, saving, storage, loading, stopping, Locals
<1>8. ThreadSound(t)'
  <2>1. local'[t].asked <= revision'
    BY <1>3, <1>5, <1>7 DEF ThreadSound
  <2>2. local'[t].result => disk' >= local'[t].asked
    BY <1>3, <1>5, <1>6, <1>7 DEF ThreadSound, Numbers
  <2> QED
    BY <1>2, <1>4, <2>1, <2>2 DEF ThreadSound, Answering
<1>9. t = Worker => WorkerSound'
  BY <1>1, <1>2, <1>3, <1>5, <1>6, <1>7 DEF WorkerSound, Saved, Quiet, working, stopping
<1> QED
  BY <1>1, <1>4, <1>8, <1>9, QuietMoveIsSound


(* The worker turns to Shutdown: it gives up, or flushes with an           *)
(* apartment or returns at once.                                           *)
LEMMA InspectClosingIsSound ==
    ASSUME Types, Types', SavingSound, NEW ready \in BOOLEAN, InspectClosing(ready)
    PROVE  SavingSound'
<1> USE DEF InspectClosing, ThreadOnly, Goto, Types, ThreadTypes
<1>1. Quiet /\ Worker \in Thread /\ OnlyMoves(Worker)
  BY DEF Quiet, OnlyMoves, Thread, FlushReturn, BeginFlush
<1>2. pc[Worker] = "Inspect" /\ ThreadSound(Worker) /\ WorkerSound
  BY <1>1 DEF SavingSound
<1>3. ~local[Worker].result /\ local[Worker].asked <= revision
  BY <1>2 DEF ThreadSound, Answering
<1>4. CASE shutdownRequested
  <2>1. pc'[Worker] = "Finish" /\ local'[Worker] = local[Worker]
    BY <1>1, <1>4
  <2> QED
    BY <1>1, <1>2, <2>1, IdleMoveIsSound DEF Idle
<1>5. CASE ~shutdownRequested /\ discardRequested
  <2>1. pc'[Worker] = "FlushReturned" /\ local'[Worker].asked = local[Worker].asked
    BY <1>1, <1>5 DEF FlushReturn, Locals
  <2>2. closing' /\ discardRequested' /\ revision' = revision
        /\ workerFlushResult' = workerFlushResult
    BY <1>1, <1>5 DEF Quiet, stopping, saving, working
  <2>3. ThreadSound(Worker)'
    BY <1>3, <2>1, <2>2 DEF ThreadSound, Answering, IsLoading
  <2>4. WorkerSound'
    BY <2>1, <2>2 DEF WorkerSound, Saved
  <2>5. (IsWriting(Worker)' <=> IsWriting(Worker)) /\ ~IsLoading(Worker)'
    BY <1>2, <2>1 DEF IsWriting, IsLoading
  <2> QED
    BY <1>1, <2>3, <2>4, <2>5, QuietMoveIsSound
<1>6. CASE ~shutdownRequested /\ ~discardRequested
  <2>1. pc'[Worker] \in {"FlushEnter", "FlushReturned"} /\ ~local'[Worker].result
        /\ local'[Worker].asked = revision
    BY <1>1, <1>3, <1>6 DEF BeginFlush, Locals
  <2>2. closing' /\ revision' = revision /\ revision \in Nat
        /\ workerFlushResult' = workerFlushResult /\ (Saved => Saved')
    BY <1>1, <1>6 DEF Quiet, stopping, saving, working, loading, storage, Saved, Numbers
  <2>3. ThreadSound(Worker)'
    BY <2>1, <2>2 DEF ThreadSound, Answering, IsLoading
  <2>4. WorkerSound'
    BY <1>2, <2>1, <2>2 DEF WorkerSound
  <2>5. (IsWriting(Worker)' <=> IsWriting(Worker)) /\ ~IsLoading(Worker)'
    BY <1>2, <2>1 DEF IsWriting, IsLoading
  <2> QED
    BY <1>1, <2>3, <2>4, <2>5, QuietMoveIsSound
<1> QED
  BY <1>4, <1>5, <1>6

(* A shutdown past its close only passes on what the fence decided.        *)
LEMMA ShutdownNotifyIsSound ==
    ASSUME Types, Types', SavingSound, NEW c \in Client, ShutdownNotify(c)
    PROVE  SavingSound'
<1> USE SettingsStoreAssumption DEF ShutdownNotify, NotifyChanged, Goto, Types, ThreadTypes
<1>1. Quiet /\ c \in Thread /\ OnlyMoves(c) /\ c # Worker /\ local'[c] = local[c]
  BY DEF Quiet, OnlyMoves, Thread
<1>2. \/ pc[c] = "CloseNotify" /\ pc'[c] = "ShutdownWait"
      \/ pc[c] = "FenceNotify" /\ pc'[c] = "ShutdownPublish"
  BY <1>1
<1>3. (IsWriting(c)' <=> IsWriting(c)) /\ ~IsLoading(c)'
  BY <1>2 DEF IsWriting, IsLoading
<1>4. ThreadSound(c) /\ (Done => Done') /\ closing' = closing /\ revision' = revision
  BY <1>1 DEF SavingSound, Quiet, saving, loading, stopping, storage, Done
<1>5. ThreadSound(c)'
  BY <1>1, <1>2, <1>3, <1>4 DEF ThreadSound, Answering
<1> QED
  BY <1>1, <1>3, <1>5, QuietMoveIsSound

LEMMA FollowShutdownIsSound ==
    ASSUME Types, Types', SavingSound, NEW c \in Client, FollowShutdown(c)
    PROVE  SavingSound'
<1> USE SettingsStoreAssumption DEF FollowShutdown, ShutdownReturn, ThreadOnly, Goto, Types, ThreadTypes
<1>1. Quiet /\ c \in Thread /\ OnlyMoves(c) /\ c # Worker
  BY DEF Quiet, OnlyMoves, Thread
<1>2. pc[c] = "FollowerWait" /\ pc'[c] \in {"DrainWait", "ShutdownReturned"}
  BY <1>1
<1>3. (local'[c].result => shutdownResult) /\ local'[c].asked = local[c].asked
  BY <1>1 DEF Locals
<1>4. (IsWriting(c)' <=> IsWriting(c)) /\ ~IsLoading(c)'
  BY <1>2 DEF IsWriting, IsLoading
<1>5. ThreadSound(c) /\ (shutdownResult => Done) /\ (Done => Done') /\ revision' = revision
  BY <1>1 DEF SavingSound, ShutdownIsClosed, Quiet, saving, loading, stopping, storage, Done
<1>6. ThreadSound(c)'
  BY <1>2, <1>3, <1>4, <1>5 DEF ThreadSound, Answering
<1> QED
  BY <1>1, <1>4, <1>6, QuietMoveIsSound

LEMMA WaitForPublicationDrainIsSound ==
    ASSUME Types, Types', SavingSound, NEW c \in Client, WaitForPublicationDrain(c)
    PROVE  SavingSound'
<1> USE SettingsStoreAssumption
        DEF WaitForPublicationDrain, ShutdownReturn, ThreadOnly, Goto, Types, ThreadTypes
<1>1. Quiet /\ c \in Thread /\ OnlyMoves(c) /\ c # Worker
  BY DEF Quiet, OnlyMoves, Thread
<1>2. pc[c] = "DrainWait" /\ pc'[c] = "ShutdownReturned"
  BY <1>1
<1>3. (local'[c].result => local[c].result) /\ local'[c].asked = local[c].asked
  BY <1>1 DEF Locals
<1>4. (IsWriting(c)' <=> IsWriting(c)) /\ ~IsLoading(c)'
  BY <1>2 DEF IsWriting, IsLoading
<1>5. ThreadSound(c) /\ (Done => Done') /\ revision' = revision
  BY <1>1 DEF SavingSound, Quiet, saving, loading, stopping, storage, Done
<1>6. ThreadSound(c)'
  BY <1>2, <1>3, <1>4, <1>5 DEF ThreadSound, Answering
<1> QED
  BY <1>1, <1>4, <1>6, QuietMoveIsSound

LEMMA ReturnIsSound ==
    ASSUME Types, Types', SavingSound, NEW c \in Client, Return(c)
    PROVE  SavingSound'
<1> USE SettingsStoreAssumption DEF Return, ThreadOnly, Goto, Types, ThreadTypes
<1>1. Quiet /\ c \in Thread /\ OnlyMoves(c) /\ c # Worker
  BY DEF Quiet, OnlyMoves, Thread
<1>2. pc[c] \in {"ResetReturned", "ShutdownReturned"} /\ pc'[c] = "Ready" /\ local'[c] = NoLocals
  BY <1>1
<1>3. (IsWriting(c)' <=> IsWriting(c)) /\ ~IsLoading(c)'
  BY <1>2 DEF IsWriting, IsLoading
<1>4. ThreadSound(c)'
  BY <1>2, <1>3 DEF ThreadSound, NoLocals, Numbers
<1> QED
  BY <1>1, <1>3, <1>4, QuietMoveIsSound


(* Steps of the threads that are in none of this.                          *)
LEMMA IdleStepIsSound ==
    ASSUME Types, Types', SavingSound, NEW c \in Client,
           \/ ShutdownAgain(c) \/ LoadNotify(c) \/ CommitNotify(c) \/ DrainPublications(c)
           \/ DeactivateAndWait(c) \/ EraseSubscription(c)
    PROVE  SavingSound'
<1> USE SettingsStoreAssumption DEF ThreadOnly, NotifyChanged, Goto, Types, ThreadTypes
<1>1. Quiet /\ c \in Thread /\ OnlyMoves(c) /\ local' = local
  BY DEF Quiet, OnlyMoves, Thread, ShutdownAgain, LoadNotify, CommitNotify, DrainPublications,
         DeactivateAndWait, EraseSubscription
<1>2. pc[c] \in Idle /\ pc'[c] \in Idle
  BY <1>1 DEF Idle, IsFree, ShutdownAgain, LoadNotify, CommitNotify, DrainPublications,
         DeactivateAndWait, EraseSubscription
<1> QED
  BY <1>1, <1>2, IdleMoveIsSound

LEMMA ResetIsSound ==
    ASSUME Types, Types', SavingSound, NEW c \in Client, NEW s, Reset(c, s)
    PROVE  SavingSound'
<1> USE DEF Reset, Goto, Types, ThreadTypes
<1>1. Quiet /\ c \in Thread /\ OnlyMoves(c)
  BY DEF Quiet, OnlyMoves, Thread
<1>2. pc[c] \in Idle /\ pc'[c] \in Idle
  BY <1>1 DEF Idle, IsFree
<1>3. /\ local'[c].result = local[c].result /\ local'[c].asked = local[c].asked
      /\ local'[c].attempts = local[c].attempts
  BY <1>1 DEF Locals
<1> QED
  BY <1>1, <1>2, <1>3, IdleMoveIsSound

LEMMA WorkerIdleStepIsSound ==
    ASSUME Types, Types', SavingSound, CaptureVersion \/ InspectNotDue \/ Wake
    PROVE  SavingSound'
<1> USE DEF CaptureVersion, InspectNotDue, Wake, ThreadOnly, Goto, Types, ThreadTypes
<1>1. Quiet /\ Worker \in Thread /\ OnlyMoves(Worker) /\ local' = local
  BY DEF Quiet, OnlyMoves, Thread
<1>2. pc[Worker] \in Idle /\ pc'[Worker] \in Idle
  BY <1>1 DEF Idle
<1> QED
  BY <1>1, <1>2, IdleMoveIsSound

(* Calling subscribers, and registering one, is no matter of saving.       *)
LEMMA DeliveryIsSound ==
    ASSUME Types, Types', SavingSound,
           \/ TakePublication \/ StopPublishing \/ CompleteCallback
           \/ \E s \in Subscriber : TryBeginCallback(s)
           \/ \E c \in Client, s \in Subscriber : Subscribe(c, s)
    PROVE  SavingSound'
<1>1. Quiet /\ UNCHANGED <<pc, local>>
  BY DEF Quiet, TakePublication, StopPublishing, CompleteCallback, TryBeginCallback, Subscribe
<1> QED
  BY <1>1, QuietStutterIsSound

(* Any other step of a thread, its effects on the rest given.              *)
LEMMA MoveIsSound ==
    ASSUME Types, Types', SavingSound, Advances, NEW t \in Thread, OnlyMoves(t),
           disk' = disk \/ \A u \in Thread \ {t} : ~IsWriting(u),
           loadActive => loadActive' \/ IsLoading(t),
           IsLoading(t)' => IsLoading(t) \/ ~loadActive,
           ThreadSound(t)',
           t = Worker => WorkerSound',
           t # Worker => workerFlushResult' = workerFlushResult,
           OneWriter', PersistedIsOnDisk', DirtyIsScheduled', LoadsComeFirst', ShutdownIsClosed'
    PROVE  SavingSound'
<1> USE DEF SavingSound
<1>1. ASSUME NEW u \in Thread, u # t, IsLoading(u) PROVE loadActive' /\ ~IsLoading(t)
  BY <1>1 DEF OneLoader, ThreadSound
<1>2. \A u \in Thread \ {t} : IsLoading(u)' <=> IsLoading(u)
  BY DEF OnlyMoves, IsLoading
<1>3. OneLoader'
  <2> SUFFICES ASSUME NEW u \in Thread, NEW v \in Thread, IsLoading(u)', IsLoading(v)', u # v
               PROVE  FALSE
    BY DEF OneLoader
  <2>1. CASE u # t /\ v # t
    BY <2>1, <1>2 DEF OneLoader
  <2>2. ASSUME NEW w \in Thread, w # t, IsLoading(w)', IsLoading(t)' PROVE FALSE
    BY <2>2, <1>1, <1>2 DEF ThreadSound
  <2> QED
    BY <2>1, <2>2
<1>4. WorkerSound'
  <2>1. CASE t # Worker
    <3>1. pc'[Worker] = pc[Worker] /\ local'[Worker] = local[Worker]
      BY <2>1 DEF OnlyMoves, Thread
    <3> QED
      BY <2>1, <3>1, WorkerStaysSound
  <2> QED
    BY <2>1
<1>5. ASSUME NEW u \in Thread PROVE ThreadSound(u)'
  <2>1. CASE u # t
    <3>1. pc'[u] = pc[u] /\ local'[u] = local[u]
      BY <2>1 DEF OnlyMoves
    <3>2. ThreadSound(u)
      OBVIOUS
    <3>3. pc[u] = "Write" => disk' <= local[u].captured
      BY <2>1, <3>2 DEF ThreadSound, IsWriting
    <3>4. IsLoading(u) => loadActive'
      BY <2>1, <1>1
    <3> QED
      BY <3>1, <3>2, <3>3, <3>4, OthersStaySound
  <2> QED
    BY <2>1
<1> QED
  BY <1>3, <1>4, <1>5

(* Nobody enters or leaves storage.                                        *)
LEMMA WritersStay ==
    ASSUME OneWriter, NEW t \in Thread, OnlyMoves(t), IsWriting(t)' <=> IsWriting(t),
           writerActive' = writerActive, ~(writerActive' /\ loadActive')
    PROVE  OneWriter'
<1>1. \A u \in Thread : IsWriting(u)' <=> IsWriting(u)
  BY DEF OnlyMoves, IsWriting
<1> QED
  BY <1>1 DEF OneWriter

(* A thread enters it when nobody is there.                                *)
LEMMA WriterEnters ==
    ASSUME OneWriter, NEW t \in Thread, OnlyMoves(t), ~writerActive, writerActive',
           pc'[t] = "Write", ~loadActive'
    PROVE  OneWriter'
<1>1. \A u \in Thread : IsWriting(u)' <=> u = t
  BY DEF OnlyMoves, IsWriting, OneWriter
<1> QED
  BY <1>1 DEF OneWriter


(* A change: the new revision is scheduled in the same step.               *)
LEMMA CommitIsSound ==
    ASSUME Types, Types', SavingSound, NEW c \in Client, Commit(c)
    PROVE  SavingSound'
<1> USE SettingsStoreAssumption DEF Commit, AdmitsChanges, Goto, Types, ThreadTypes, Numbers
<1>1. c \in Thread /\ OnlyMoves(c) /\ c # Worker /\ pc'[c] = "CommitNotify" /\ pc[c] = "Ready"
      /\ local'[c] = local[c]
  BY DEF OnlyMoves, Thread, IsFree
<1>2. /\ ~loadActive /\ ~closing /\ ~shutdownRequested /\ ~preservationFailed
      /\ UNCHANGED <<loadActive, loadClaimed, closing, discardRequested, shutdownRequested, shutdownResult,
                     preservationFailed, disk, persistedRevision, writerActive, workerFlushResult>>
      /\ timerArmed' /\ revision' = revision + 1
  BY DEF loading, stopping, storage, working
<1>3. ThreadSound(c) /\ OneWriter /\ PersistedIsOnDisk /\ ShutdownIsClosed
  BY <1>1 DEF SavingSound
<1>4. ~discardRequested /\ ~shutdownResult
  BY <1>2, <1>3 DEF ShutdownIsClosed, Done
<1>5. Advances
  BY <1>2 DEF Advances, Done
<1>6. ~IsWriting(c)' /\ ~IsWriting(c) /\ ~IsLoading(c)'
  BY <1>1 DEF IsWriting, IsLoading
<1>7. ~local[c].result /\ local[c].asked \in Nat
  BY <1>1, <1>3 DEF ThreadSound, Answering, Locals
<1>8. ThreadSound(c)'
  BY <1>1, <1>2, <1>3, <1>6, <1>7 DEF ThreadSound
<1>9. OneWriter'
  BY <1>1, <1>2, <1>3, <1>6, WritersStay
<1>10. PersistedIsOnDisk' /\ DirtyIsScheduled'
  BY <1>2, <1>3 DEF PersistedIsOnDisk, DirtyIsScheduled
<1>11. LoadsComeFirst' /\ ShutdownIsClosed'
  BY <1>2, <1>4 DEF LoadsComeFirst, ShutdownIsClosed
<1> QED
  BY <1>1, <1>2, <1>5, <1>6, <1>8, <1>9, <1>10, <1>11, MoveIsSound

LEMMA LoadIsSound ==
    ASSUME Types, Types', SavingSound, NEW c \in Client, Load(c)
    PROVE  SavingSound'
<1> USE SettingsStoreAssumption DEF Load, Goto, Types, ThreadTypes, Numbers
<1>1. c \in Thread /\ OnlyMoves(c) /\ c # Worker /\ pc[c] = "Ready" /\ local'[c] = local[c]
      /\ pc'[c] \in {"Ready", "LoadRead"} /\ (pc'[c] = "LoadRead" => loadActive')
  BY DEF OnlyMoves, Thread, IsFree
<1>2. /\ ~loadClaimed /\ ~closing /\ ~shutdownRequested /\ loadClaimed'
      /\ loadActive' <=> revision = 0
      /\ UNCHANGED <<closing, discardRequested, shutdownRequested, shutdownResult, timerArmed, revision,
                     preservationFailed, disk, persistedRevision, writerActive, workerFlushResult>>
  BY DEF saving, stopping, storage, working
<1>3. /\ ThreadSound(c) /\ OneWriter /\ PersistedIsOnDisk /\ ShutdownIsClosed /\ LoadsComeFirst
      /\ DirtyIsScheduled
  BY <1>1 DEF SavingSound
<1>4. ~loadActive /\ ~preservationFailed /\ ~discardRequested /\ ~shutdownResult
  BY <1>2, <1>3 DEF LoadsComeFirst, ShutdownIsClosed, Done
<1>5. Advances
  BY <1>2 DEF Advances, Done
<1>6. ~IsWriting(c)' /\ ~IsWriting(c) /\ (IsLoading(c)' => loadActive')
  BY <1>1 DEF IsWriting, IsLoading
<1>7. ~local[c].result
  BY <1>1, <1>3 DEF ThreadSound, Answering
<1>8. ThreadSound(c)'
  BY <1>1, <1>2, <1>3, <1>6, <1>7 DEF ThreadSound
<1>9. OneWriter'
  <2>1. loadActive' => ~writerActive
    <3>1. ASSUME NEW u \in Thread, IsWriting(u), loadActive' PROVE FALSE
      BY <3>1, <1>2 DEF SavingSound, ThreadSound, IsWriting
    <3> QED
      BY <3>1, <1>3 DEF OneWriter
  <2> QED
    BY <1>1, <1>2, <1>3, <1>6, <2>1, WritersStay
<1>10. PersistedIsOnDisk' /\ DirtyIsScheduled'
  BY <1>2, <1>3 DEF PersistedIsOnDisk, DirtyIsScheduled
<1>11. LoadsComeFirst' /\ ShutdownIsClosed'
  BY <1>2, <1>4 DEF LoadsComeFirst, ShutdownIsClosed
<1> QED
  BY <1>1, <1>2, <1>4, <1>5, <1>6, <1>8, <1>9, <1>10, <1>11, MoveIsSound

(* A write that reaches the file: nobody else is in storage, and what it   *)
(* saves is not older than what is there.                                  *)
LEMMA WriteIsSound ==
    ASSUME Types, Types', SavingSound, NEW t \in Thread, NEW succeeded \in BOOLEAN,
           Write(t, succeeded)
    PROVE  SavingSound'
<1> USE DEF Write, Goto, Types, ThreadTypes, Numbers
<1>1. OnlyMoves(t) /\ pc[t] = "Write" /\ pc'[t] = "Written"
  BY DEF OnlyMoves
<1>2. /\ UNCHANGED <<loadActive, loadClaimed, closing, discardRequested, shutdownRequested,
                     shutdownResult, timerArmed, revision, preservationFailed, persistedRevision,
                     writerActive, workerFlushResult>>
      /\ disk' = IF succeeded THEN local[t].captured ELSE disk
  BY DEF saving, loading, stopping, storage, working
<1>3. /\ ThreadSound(t) /\ OneWriter /\ PersistedIsOnDisk /\ ShutdownIsClosed /\ LoadsComeFirst
      /\ DirtyIsScheduled /\ WorkerSound
  BY DEF SavingSound
<1>4. /\ local'[t].result = succeeded /\ local'[t].captured = local[t].captured
      /\ local'[t].asked = local[t].asked /\ local'[t].attempts = local[t].attempts
      /\ local[t].captured \in Nat
  BY DEF Locals
<1>5. IsWriting(t)' /\ IsWriting(t) /\ ~IsLoading(t)' /\ writerActive
  BY <1>1, <1>3 DEF IsWriting, IsLoading, OneWriter
<1>6. disk <= disk' /\ disk' <= revision /\ (succeeded => disk' = local[t].captured)
  BY <1>1, <1>2, <1>3, <1>4 DEF ThreadSound, PersistedIsOnDisk
<1>7. disk = revision => disk' = revision
  BY <1>6
<1>8. Advances
  BY <1>2, <1>6, <1>7 DEF Advances, Done, Saved
<1>9. ThreadSound(t)'
  BY <1>1, <1>2, <1>3, <1>4, <1>5, <1>6 DEF ThreadSound, Answering
<1>10. OneWriter'
  BY <1>1, <1>2, <1>3, <1>5, WritersStay DEF OneWriter
<1>11. PersistedIsOnDisk' /\ DirtyIsScheduled'
  BY <1>2, <1>3, <1>6 DEF PersistedIsOnDisk, DirtyIsScheduled
<1>12. LoadsComeFirst' /\ ShutdownIsClosed'
  BY <1>2, <1>3, <1>5, <1>7 DEF LoadsComeFirst, ShutdownIsClosed, Done
<1>13. \A u \in Thread \ {t} : ~IsWriting(u)
  BY <1>3, <1>5 DEF OneWriter
<1>14. t = Worker => WorkerSound'
  BY <1>1, <1>2, <1>3, <1>4, <1>8 DEF WorkerSound, Advances
<1> QED
  BY <1>1, <1>2, <1>5, <1>8, <1>9, <1>10, <1>11, <1>12, <1>13, <1>14, MoveIsSound


(* A load that ends without a commit leaves nothing changed, and nothing   *)
(* to be written before it.                                                *)
LEMMA CompleteLoadWithoutCommitIsSound ==
    ASSUME Types, Types', SavingSound, NEW c \in Client, IsLoading(c),
           NEW originalPreserved \in BOOLEAN, CompleteLoadWithoutCommit(c, originalPreserved)
    PROVE  SavingSound'
<1> USE SettingsStoreAssumption DEF CompleteLoadWithoutCommit, Goto, Types, ThreadTypes, Numbers
<1>1. c \in Thread /\ OnlyMoves(c) /\ c # Worker /\ local'[c] = local[c]
      /\ pc'[c] = "LoadEndNotify"
  BY DEF OnlyMoves, Thread
<1>2. /\ ~loadActive' /\ preservationFailed' = ~originalPreserved
      /\ UNCHANGED <<loadClaimed, closing, discardRequested, shutdownRequested, shutdownResult,
                     timerArmed, revision, disk, persistedRevision, writerActive,
                     workerFlushResult>>
  BY DEF saving, stopping, working
<1>3. /\ ThreadSound(c) /\ OneWriter /\ PersistedIsOnDisk /\ ShutdownIsClosed /\ LoadsComeFirst
      /\ DirtyIsScheduled
  BY <1>1 DEF SavingSound
<1>4. loadActive /\ ~writerActive /\ revision = 0 /\ loadClaimed
  BY <1>3 DEF ThreadSound, LoadsComeFirst, OneWriter
<1>5. Advances
  BY <1>2, <1>4 DEF Advances, Done, Saved
<1>6. ~IsWriting(c)' /\ ~IsWriting(c) /\ ~IsLoading(c)'
  BY <1>1 DEF IsWriting, IsLoading
<1>7. ~local[c].result
  BY <1>3 DEF ThreadSound, Answering, IsLoading
<1>8. ThreadSound(c)'
  BY <1>1, <1>2, <1>3, <1>6, <1>7 DEF ThreadSound
<1>9. OneWriter'
  BY <1>1, <1>2, <1>3, <1>6, WritersStay
<1>10. PersistedIsOnDisk' /\ DirtyIsScheduled'
  BY <1>2, <1>3 DEF PersistedIsOnDisk, DirtyIsScheduled
<1>11. LoadsComeFirst' /\ ShutdownIsClosed'
  BY <1>2, <1>3, <1>4 DEF LoadsComeFirst, ShutdownIsClosed, Done
<1> QED
  BY <1>1, <1>2, <1>4, <1>5, <1>6, <1>8, <1>9, <1>10, <1>11, MoveIsSound

LEMMA CommitLoadIsSound ==
    ASSUME Types, Types', SavingSound, NEW c \in Client, CommitLoad(c)
    PROVE  SavingSound'
<1> USE SettingsStoreAssumption DEF CommitLoad, Goto, Types, ThreadTypes, Numbers
<1>1. c \in Thread /\ OnlyMoves(c) /\ c # Worker /\ local'[c] = local[c]
      /\ pc'[c] \in {"Ready", "LoadNotify"} /\ IsLoading(c)
  BY DEF OnlyMoves, Thread, IsLoading
<1>2. /\ ~loadActive'
      /\ UNCHANGED <<loadClaimed, closing, discardRequested, shutdownRequested, shutdownResult,
                     preservationFailed, workerFlushResult>>
      /\ writerActive' = writerActive
  BY DEF saving, stopping, working
<1>3. /\ ThreadSound(c) /\ OneWriter /\ PersistedIsOnDisk /\ ShutdownIsClosed /\ LoadsComeFirst
      /\ DirtyIsScheduled
  BY <1>1 DEF SavingSound
<1>4. loadActive /\ ~writerActive /\ revision = 0 /\ loadClaimed /\ ~preservationFailed
  BY <1>1, <1>3 DEF ThreadSound, LoadsComeFirst, OneWriter
<1>5. disk = 0 /\ persistedRevision = 0 /\ ~shutdownResult
  BY <1>3, <1>4 DEF PersistedIsOnDisk, ShutdownIsClosed, Done
<1>6. /\ revision' \in {0, 1} /\ disk' = persistedRevision' /\ persistedRevision' <= revision'
      /\ persistedRevision' # revision' => timerArmed'
  <2>1. CASE shutdownRequested
    BY <1>4, <1>5, <2>1 DEF saving
  <2>2. CASE ~shutdownRequested
    <3>1. /\ revision' = 1 /\ disk' = persistedRevision'
          /\ persistedRevision' = IF pc[c] = "LoadStale" THEN 0 ELSE 1
          /\ pc[c] = "LoadStale" => timerArmed'
      BY <1>4, <2>2
    <3> QED
      BY <3>1
  <2> QED
    BY <2>1, <2>2
<1>7. Advances
  BY <1>2, <1>4, <1>5, <1>6 DEF Advances, Done, Saved
<1>8. ~IsWriting(c)' /\ ~IsWriting(c) /\ ~IsLoading(c)'
  BY <1>1 DEF IsWriting, IsLoading
<1>9. ~local[c].result /\ local[c].asked = 0
  BY <1>1, <1>3, <1>4 DEF ThreadSound, Answering, IsLoading, Locals
<1>10. ThreadSound(c)'
  BY <1>1, <1>6, <1>8, <1>9 DEF ThreadSound
<1>11. OneWriter'
  BY <1>1, <1>2, <1>3, <1>8, WritersStay
<1>12. PersistedIsOnDisk' /\ DirtyIsScheduled'
  BY <1>6 DEF PersistedIsOnDisk, DirtyIsScheduled
<1>13. LoadsComeFirst' /\ ShutdownIsClosed'
  BY <1>2, <1>3, <1>4, <1>5 DEF LoadsComeFirst, ShutdownIsClosed, Done
<1>14. \A u \in Thread \ {c} : ~IsWriting(u)
  BY <1>3, <1>4 DEF OneWriter
<1> QED
  BY <1>1, <1>2, <1>4, <1>7, <1>8, <1>10, <1>11, <1>12, <1>13, <1>14, MoveIsSound

(* A write that completes counts for what it captured, and arms the timer  *)
(* again when that is not the newest.                                      *)
LEMMA CompleteWriteIsSound ==
    ASSUME Types, Types', SavingSound, NEW t \in Thread, CompleteWrite(t)
    PROVE  SavingSound'
<1> USE DEF CompleteWrite, Goto, Types, ThreadTypes, Numbers
<1>1. OnlyMoves(t) /\ pc[t] = "Written" /\ pc'[t] = "WriteNotify" /\ local'[t] = local[t]
  BY DEF OnlyMoves
<1>2. /\ ~writerActive'
      /\ UNCHANGED <<loadActive, loadClaimed, closing, discardRequested, shutdownRequested,
                     shutdownResult, revision, disk, preservationFailed, workerFlushResult>>
  BY DEF loading, stopping, storage, working
<1>3. /\ ThreadSound(t) /\ OneWriter /\ PersistedIsOnDisk /\ ShutdownIsClosed /\ LoadsComeFirst
      /\ DirtyIsScheduled /\ WorkerSound
  BY DEF SavingSound
<1>4. IsWriting(t) /\ ~IsWriting(t)' /\ ~IsLoading(t)' /\ writerActive /\ local[t].captured \in Nat
  BY <1>1, <1>3 DEF IsWriting, IsLoading, OneWriter, Locals
<1>5. Advances
  BY <1>2, <1>4 DEF Advances, Done, Saved
<1>6. ThreadSound(t)'
  BY <1>1, <1>2, <1>3, <1>4 DEF ThreadSound, Answering
<1>7. OneWriter'
  <2>1. \A u \in Thread : ~IsWriting(u)'
    BY <1>1, <1>3, <1>4 DEF OneWriter, OnlyMoves, IsWriting
  <2> QED
    BY <1>2, <2>1 DEF OneWriter
<1>8. persistedRevision' <= disk
  <2>1. local[t].result => local[t].captured <= disk
    BY <1>1, <1>3 DEF ThreadSound
  <2>2. persistedRevision <= disk
    BY <1>3 DEF PersistedIsOnDisk
  <2> QED
    BY <2>1, <2>2 DEF SavedRevision
<1>9. PersistedIsOnDisk'
  BY <1>2, <1>3, <1>8 DEF PersistedIsOnDisk
<1>10. DirtyIsScheduled'
  BY <1>2, <1>3, <1>4 DEF DirtyIsScheduled, Rearms, CompletionsAreFenced, ShutdownIsClosed
<1>11. LoadsComeFirst' /\ ShutdownIsClosed'
  BY <1>2, <1>3, <1>4 DEF LoadsComeFirst, ShutdownIsClosed, Done
<1>12. t = Worker => WorkerSound'
  BY <1>1, <1>2, <1>3, <1>5 DEF WorkerSound, Advances
<1> QED
  BY <1>1, <1>2, <1>4, <1>5, <1>6, <1>7, <1>9, <1>10, <1>11, <1>12, MoveIsSound


(* A thread that is admitted to storage, with the newest revision.         *)
LEMMA ClaimWriteIsSound ==
    ASSUME Types, Types', SavingSound, NEW t \in Thread, ClaimWrite(t), ~IsLoading(t),
           ~writerActive, ~loadActive, ~shutdownRequested, ~preservationFailed,
           ~local[t].result, revision # persistedRevision,
           t = Worker /\ local[t].attempts # 0 => closing,
           UNCHANGED <<revision, persistedRevision, loading, stopping, working, storage>>
    PROVE  SavingSound'
<1> USE DEF ClaimWrite, Goto, Types, ThreadTypes, Numbers
<1>1. OnlyMoves(t) /\ pc'[t] = "Write"
  BY DEF OnlyMoves
<1>2. /\ writerActive'
      /\ UNCHANGED <<loadActive, loadClaimed, closing, discardRequested, shutdownRequested,
                     shutdownResult, disk, preservationFailed, workerFlushResult>>
  BY DEF loading, stopping, storage, working
<1>3. /\ ThreadSound(t) /\ OneWriter /\ PersistedIsOnDisk /\ ShutdownIsClosed /\ LoadsComeFirst
      /\ DirtyIsScheduled /\ WorkerSound
  BY DEF SavingSound
<1>4. /\ local'[t].captured = revision /\ local'[t].result = local[t].result
      /\ local'[t].asked = local[t].asked /\ local'[t].attempts = local[t].attempts
  BY DEF Locals
<1>5. ~IsLoading(t)' /\ ~shutdownResult
  BY <1>1, <1>3 DEF IsLoading, ShutdownIsClosed, Done
<1>6. Advances
  BY <1>2 DEF Advances, Done, Saved
<1>7. revision # 0 /\ disk <= revision
  BY <1>3 DEF PersistedIsOnDisk
<1>8. ThreadSound(t)'
  BY <1>1, <1>2, <1>3, <1>4, <1>5, <1>7 DEF ThreadSound
<1>9. OneWriter'
  BY <1>1, <1>2, <1>3, WriterEnters
<1>10. PersistedIsOnDisk' /\ DirtyIsScheduled'
  BY <1>2, <1>3 DEF PersistedIsOnDisk, DirtyIsScheduled
<1>11. LoadsComeFirst' /\ ShutdownIsClosed'
  BY <1>2, <1>3, <1>5 DEF LoadsComeFirst, ShutdownIsClosed
<1>12. t = Worker => WorkerSound'
  BY <1>1, <1>2, <1>3, <1>4, <1>6 DEF WorkerSound, Advances
<1> QED
  BY <1>1, <1>2, <1>5, <1>6, <1>8, <1>9, <1>10, <1>11, <1>12, MoveIsSound

(* A flush that need not wait: what it returns is so.                      *)
LEMMA FlushReturnIsSound ==
    ASSUME Types, Types', SavingSound, NEW t \in Thread, NEW result \in BOOLEAN,
           FlushReturn(t, result), pc[t] \in {"FlushEnter", "FlushWait"},
           result => discardRequested \/ (revision = persistedRevision /\ ~loadActive),
           UNCHANGED <<revision, persistedRevision, writerActive, loading, stopping, working,
                       storage>>,
           DirtyIsScheduled'
    PROVE  SavingSound'
<1> USE DEF FlushReturn, Goto, Types, ThreadTypes, Numbers
<1>1. OnlyMoves(t) /\ pc'[t] = "FlushReturned"
  BY DEF OnlyMoves
<1>2. UNCHANGED <<loadActive, loadClaimed, closing, discardRequested, shutdownRequested,
                  shutdownResult, disk, preservationFailed, workerFlushResult>>
  BY DEF loading, stopping, storage, working
<1>3. /\ ThreadSound(t) /\ OneWriter /\ PersistedIsOnDisk /\ ShutdownIsClosed /\ LoadsComeFirst
      /\ WorkerSound
  BY DEF SavingSound
<1>4. /\ local'[t].result = result /\ local'[t].asked = local[t].asked
      /\ local'[t].attempts = 0 /\ local[t].asked \in Nat
  BY DEF Locals
<1>5. ~IsLoading(t)' /\ ~IsWriting(t)' /\ ~IsWriting(t)
  BY <1>1 DEF IsLoading, IsWriting
<1>6. Advances
  BY <1>2 DEF Advances, Done, Saved
<1>7. result => discardRequested \/ disk = revision
  BY <1>3 DEF PersistedIsOnDisk
<1>8. ThreadSound(t)'
  <2>1. local'[t].asked <= revision'
    BY <1>3, <1>4 DEF ThreadSound
  <2>2. local'[t].result => disk' >= local'[t].asked \/ discardRequested'
    BY <1>2, <1>3, <1>4, <1>7 DEF ThreadSound
  <2> QED
    BY <1>1, <1>5, <2>1, <2>2 DEF ThreadSound, Answering
<1>9. OneWriter'
  BY <1>1, <1>2, <1>3, <1>5, WritersStay DEF OneWriter
<1>10. PersistedIsOnDisk'
  BY <1>2, <1>3 DEF PersistedIsOnDisk
<1>11. LoadsComeFirst' /\ ShutdownIsClosed'
  BY <1>2, <1>3 DEF LoadsComeFirst, ShutdownIsClosed, Done
<1>12. t = Worker => WorkerSound'
  BY <1>1, <1>2, <1>3, <1>4, <1>6, <1>7 DEF WorkerSound, Advances, Saved
<1> QED
  BY <1>1, <1>2, <1>5, <1>6, <1>8, <1>9, <1>10, <1>11, <1>12, MoveIsSound

LEMMA AdmitFlushIsSound ==
    ASSUME Types, Types', SavingSound, NEW t \in Thread, AdmitFlush(t), FlushMayProceed,
           pc[t] \in {"FlushEnter", "FlushWait"},
           UNCHANGED <<revision, persistedRevision, loading, stopping, working, storage>>
    PROVE  SavingSound'
<1>1. /\ ThreadSound(t) /\ PersistedIsOnDisk /\ ShutdownIsClosed /\ LoadsComeFirst
      /\ DirtyIsScheduled /\ WorkerSound
  BY DEF SavingSound
<1>2. closing' = closing
  BY DEF stopping
<1>3. CASE shutdownRequested \/ preservationFailed
  <2>1. FlushReturn(t, FALSE) /\ writerActive' = writerActive
    BY <1>3 DEF AdmitFlush
  <2>2. revision = persistedRevision \/ closing
    BY <1>1, <1>3 DEF ShutdownIsClosed, LoadsComeFirst, PersistedIsOnDisk, Types, Numbers
  <2>3. DirtyIsScheduled'
    BY <1>2, <2>2 DEF DirtyIsScheduled
  <2> QED
    BY <2>1, <2>3, FlushReturnIsSound
<1>4. CASE ~shutdownRequested /\ ~preservationFailed /\ (discardRequested \/ revision = persistedRevision)
  <2>1. FlushReturn(t, TRUE) /\ writerActive' = writerActive
    BY <1>4 DEF AdmitFlush
  <2>2. DirtyIsScheduled'
    BY <1>1, <1>2, <1>4 DEF DirtyIsScheduled, ShutdownIsClosed
  <2>3. discardRequested \/ (revision = persistedRevision /\ ~loadActive)
    BY <1>4 DEF FlushMayProceed
  <2> QED
    BY <2>1, <2>2, <2>3, FlushReturnIsSound
<1>5. CASE ~shutdownRequested /\ ~preservationFailed /\ ~discardRequested /\ revision # persistedRevision
  <2>1. ClaimWrite(t) /\ ~writerActive /\ ~loadActive
    BY <1>5 DEF AdmitFlush, FlushMayProceed
  <2>2. ~local[t].result /\ ~IsLoading(t) /\ (t = Worker /\ local[t].attempts # 0 => closing)
    BY <1>1 DEF ThreadSound, Answering, IsLoading, WorkerSound
  <2> QED
    BY <1>5, <2>1, <2>2, ClaimWriteIsSound
<1> QED
  BY <1>3, <1>4, <1>5

LEMMA ResumeFlushIsSound ==
    ASSUME Types, Types', SavingSound, NEW t \in Thread, ResumeFlush(t)
    PROVE  SavingSound'
  BY AdmitFlushIsSound DEF ResumeFlush

(* The timer is disarmed before the wait: the change stays scheduled       *)
(* because a writer is in storage, or there is none yet to save.           *)
LEMMA EnterFlushIsSound ==
    ASSUME Types, Types', SavingSound, NEW t \in Thread, EnterFlush(t)
    PROVE  SavingSound'
<1> USE DEF EnterFlush
<1>1. CASE FlushMayProceed
  BY <1>1, AdmitFlushIsSound
<1>2. CASE ~FlushMayProceed
  <2> USE DEF Goto, Types, ThreadTypes, Numbers
  <2>1. OnlyMoves(t) /\ pc[t] = "FlushEnter" /\ pc'[t] = "FlushWait" /\ local'[t] = local[t]
    BY <1>2 DEF OnlyMoves
  <2>2. UNCHANGED <<loadActive, loadClaimed, closing, discardRequested, shutdownRequested,
                    shutdownResult, revision, persistedRevision, disk, preservationFailed,
                    writerActive, workerFlushResult>>
    BY <1>2 DEF loading, stopping, storage, working
  <2>3. /\ ThreadSound(t) /\ OneWriter /\ PersistedIsOnDisk /\ ShutdownIsClosed /\ LoadsComeFirst
        /\ WorkerSound
    BY DEF SavingSound
  <2>4. ~IsLoading(t)' /\ ~IsWriting(t)' /\ ~IsWriting(t)
    BY <2>1 DEF IsLoading, IsWriting
  <2>5. Advances
    BY <2>2 DEF Advances, Done, Saved
  <2>6. ThreadSound(t)'
    BY <2>1, <2>2, <2>3, <2>4 DEF ThreadSound, Answering
  <2>7. OneWriter'
    BY <2>1, <2>2, <2>3, <2>4, WritersStay DEF OneWriter
  <2>8. PersistedIsOnDisk'
    BY <2>2, <2>3 DEF PersistedIsOnDisk
  <2>9. writerActive \/ revision = persistedRevision
    BY <1>2, <2>3 DEF FlushMayProceed, LoadsComeFirst, PersistedIsOnDisk
  <2>10. DirtyIsScheduled'
    BY <2>2, <2>9 DEF DirtyIsScheduled
  <2>11. LoadsComeFirst' /\ ShutdownIsClosed'
    BY <2>2, <2>3 DEF LoadsComeFirst, ShutdownIsClosed, Done
  <2>12. t = Worker => WorkerSound'
    BY <2>1, <2>2, <2>3, <2>5 DEF WorkerSound, Advances
  <2> QED
    BY <2>1, <2>2, <2>4, <2>5, <2>6, <2>7, <2>8, <2>10, <2>11, <2>12, MoveIsSound
<1> QED
  BY <1>1, <1>2


LEMMA InspectDueIsSound ==
    ASSUME Types, Types', SavingSound, InspectDue
    PROVE  SavingSound'
<1>1. Worker \in Thread /\ ThreadSound(Worker) /\ WorkerSound /\ LoadsComeFirst /\ PersistedIsOnDisk
  BY DEF SavingSound, Thread
<1>2. /\ pc[Worker] = "Inspect" /\ ClaimWrite(Worker) /\ ~shutdownRequested
      /\ ~writerActive /\ ~loadActive /\ revision # persistedRevision
  BY DEF InspectDue, HasEligibleWrite
<1>3. ~local[Worker].result /\ ~IsLoading(Worker)
  BY <1>1, <1>2 DEF ThreadSound, Answering, IsLoading
<1>4. ~preservationFailed
  BY <1>1, <1>2 DEF LoadsComeFirst, PersistedIsOnDisk, Types, Numbers
<1>5. local[Worker].attempts # 0 => closing
  BY <1>1 DEF WorkerSound
<1>6. UNCHANGED <<revision, persistedRevision, loading, stopping, working, storage>>
  BY DEF InspectDue
<1> QED
  BY ONLY Types, Types', SavingSound, <1>1, <1>2, <1>3, <1>4, <1>5, <1>6, ClaimWriteIsSound

(* The worker passes on what its flush found.                              *)
LEMMA ReturnFromFlushIsSound ==
    ASSUME Types, Types', SavingSound, NEW t \in Thread, ReturnFromFlush(t)
    PROVE  SavingSound'
<1> USE DEF ReturnFromFlush, Goto, Types, ThreadTypes, Numbers
<1>1. /\ OnlyMoves(t) /\ pc[t] = "FlushReturned" /\ pc'[t] \in {"Ready", "Finish"}
      /\ local'[t] = NoLocals
  BY DEF OnlyMoves
<1>2. UNCHANGED <<loadActive, loadClaimed, closing, discardRequested, shutdownRequested,
                  shutdownResult, revision, persistedRevision, disk, preservationFailed,
                  timerArmed, writerActive>>
  BY DEF saving, loading, stopping, storage
<1>3. /\ ThreadSound(t) /\ OneWriter /\ PersistedIsOnDisk /\ ShutdownIsClosed /\ LoadsComeFirst
      /\ DirtyIsScheduled /\ WorkerSound
  BY DEF SavingSound
<1>4. ~IsLoading(t)' /\ ~IsWriting(t)' /\ ~IsWriting(t)
  BY <1>1 DEF IsLoading, IsWriting
<1>5. Advances
  BY <1>2 DEF Advances, Done, Saved
<1>6. ThreadSound(t)'
  BY <1>1, <1>2, <1>4 DEF ThreadSound, NoLocals
<1>7. OneWriter'
  BY <1>1, <1>2, <1>3, <1>4, WritersStay DEF OneWriter
<1>8. PersistedIsOnDisk' /\ DirtyIsScheduled'
  BY <1>2, <1>3 DEF PersistedIsOnDisk, DirtyIsScheduled
<1>9. LoadsComeFirst' /\ ShutdownIsClosed'
  BY <1>2, <1>3 DEF LoadsComeFirst, ShutdownIsClosed, Done
<1>10. t = Worker => WorkerSound'
  <2> SUFFICES ASSUME t = Worker PROVE WorkerSound'
    OBVIOUS
  <2>1. workerFlushResult' = local[Worker].result /\ pc'[Worker] = "Finish"
    OBVIOUS
  <2>2. local[Worker].result => closing' /\ Saved'
    BY <1>1, <1>3, <1>5 DEF WorkerSound, Advances
  <2> QED
    BY <1>1, <2>1, <2>2 DEF WorkerSound, NoLocals
<1>11. t # Worker => workerFlushResult' = workerFlushResult
  OBVIOUS
<1> QED
  BY <1>1, <1>2, <1>4, <1>5, <1>6, <1>7, <1>8, <1>9, <1>10, <1>11, MoveIsSound

LEMMA FinishWorkerIsSound ==
    ASSUME Types, Types', SavingSound, FinishWorker
    PROVE  SavingSound'
<1> USE DEF FinishWorker, Goto, Types, ThreadTypes, Numbers
<1>1. /\ Worker \in Thread /\ OnlyMoves(Worker) /\ pc[Worker] = "Finish"
      /\ pc'[Worker] = "Finished" /\ local'[Worker] = local[Worker]
  BY DEF OnlyMoves, Thread
<1>2. UNCHANGED <<loadActive, loadClaimed, closing, discardRequested, shutdownRequested,
                  shutdownResult, revision, persistedRevision, disk, preservationFailed,
                  timerArmed, writerActive, workerFlushResult>>
  BY DEF saving, loading, stopping, storage
<1>3. /\ ThreadSound(Worker) /\ OneWriter /\ PersistedIsOnDisk /\ ShutdownIsClosed
      /\ LoadsComeFirst /\ DirtyIsScheduled /\ WorkerSound
  BY <1>1 DEF SavingSound
<1>4. ~IsLoading(Worker)' /\ ~IsWriting(Worker)' /\ ~IsWriting(Worker)
  BY <1>1 DEF IsLoading, IsWriting
<1>5. Advances
  BY <1>2 DEF Advances, Done, Saved
<1>6. ThreadSound(Worker)'
  BY <1>1, <1>2, <1>3, <1>4 DEF ThreadSound, Answering
<1>7. OneWriter'
  BY <1>1, <1>2, <1>3, <1>4, WritersStay DEF OneWriter
<1>8. PersistedIsOnDisk' /\ DirtyIsScheduled'
  BY <1>2, <1>3 DEF PersistedIsOnDisk, DirtyIsScheduled
<1>9. LoadsComeFirst' /\ ShutdownIsClosed'
  BY <1>2, <1>3 DEF LoadsComeFirst, ShutdownIsClosed, Done
<1>10. WorkerSound'
  BY <1>1, <1>2, <1>3, <1>5 DEF WorkerSound, Advances
<1> QED
  BY <1>1, <1>2, <1>4, <1>5, <1>6, <1>7, <1>8, <1>9, <1>10, MoveIsSound

(* Shutdown closes the store: from here on nothing new is taken.           *)
LEMMA ShutdownIsSound ==
    ASSUME Types, Types', SavingSound, NEW c \in Client, NEW mode, NEW n, Shutdown(c, mode, n)
    PROVE  SavingSound'
<1> USE SettingsStoreAssumption DEF Shutdown, Goto, Types, ThreadTypes, Numbers
<1>1. c \in Thread /\ OnlyMoves(c) /\ c # Worker /\ pc'[c] = "CloseNotify" /\ pc[c] = "Ready"
      /\ local'[c] = local[c]
  BY DEF OnlyMoves, Thread, IsFree
<1>2. /\ ~closing /\ closing'
      /\ UNCHANGED <<loadActive, loadClaimed, shutdownRequested, shutdownResult, revision,
                     persistedRevision, disk, preservationFailed, writerActive,
                     workerFlushResult>>
  BY DEF loading, storage, working
<1>3. /\ ThreadSound(c) /\ OneWriter /\ PersistedIsOnDisk /\ ShutdownIsClosed /\ LoadsComeFirst
  BY <1>1 DEF SavingSound
<1>4. ~discardRequested /\ ~shutdownRequested /\ ~shutdownResult
  BY <1>2, <1>3 DEF ShutdownIsClosed, Done
<1>5. Advances
  BY <1>2, <1>4 DEF Advances, Done
<1>6. ~IsLoading(c)' /\ ~IsWriting(c)' /\ ~IsWriting(c)
  BY <1>1 DEF IsLoading, IsWriting
<1>7. ThreadSound(c)'
  BY <1>1, <1>2, <1>3, <1>6 DEF ThreadSound, Answering
<1>8. OneWriter'
  BY <1>1, <1>2, <1>3, <1>6, WritersStay DEF OneWriter
<1>9. PersistedIsOnDisk' /\ DirtyIsScheduled'
  BY <1>2, <1>3 DEF PersistedIsOnDisk, DirtyIsScheduled
<1>10. LoadsComeFirst' /\ ShutdownIsClosed'
  BY <1>2, <1>3, <1>4 DEF LoadsComeFirst, ShutdownIsClosed
<1> QED
  BY <1>1, <1>2, <1>5, <1>6, <1>7, <1>8, <1>9, <1>10, MoveIsSound

(* The fence: success is decided here, and nothing later undoes it.        *)
LEMMA FenceShutdownIsSound ==
    ASSUME Types, Types', SavingSound, NEW c \in Client, FenceShutdown(c)
    PROVE  SavingSound'
<1> USE SettingsStoreAssumption DEF FenceShutdown, Fence, Goto, Types, ThreadTypes, Numbers
<1>1. c \in Thread /\ OnlyMoves(c) /\ c # Worker /\ pc'[c] = "FenceNotify" /\ pc[c] = "ShutdownWait"
  BY DEF OnlyMoves, Thread
<1>2. /\ shutdownRequested'
      /\ UNCHANGED <<loadActive, loadClaimed, closing, discardRequested, shutdownResult, revision,
                     persistedRevision, disk, preservationFailed, writerActive,
                     workerFlushResult>>
  BY DEF loading, storage, working
<1>3. /\ ThreadSound(c) /\ OneWriter /\ PersistedIsOnDisk /\ ShutdownIsClosed /\ LoadsComeFirst
      /\ WorkerSound
  BY <1>1 DEF SavingSound
<1>4. closing
  BY <1>1, <1>3 DEF ThreadSound
<1>5. Advances
  BY <1>2 DEF Advances, Done, Saved
<1>6. ~IsLoading(c)' /\ ~IsWriting(c)' /\ ~IsWriting(c)
  BY <1>1 DEF IsLoading, IsWriting
<1>7. (local'[c].result <=> ShutdownSucceeded) /\ local'[c].asked = local[c].asked
  BY <1>1 DEF Locals
<1>8. ShutdownSucceeded => Done'
  BY <1>2, <1>3 DEF ShutdownSucceeded, ShutdownDrained, WorkerSound, Saved, Done
<1>9. ThreadSound(c)'
  BY <1>1, <1>2, <1>3, <1>6, <1>7, <1>8 DEF ThreadSound, Answering
<1>10. OneWriter'
  BY <1>1, <1>2, <1>3, <1>6, WritersStay DEF OneWriter
<1>11. PersistedIsOnDisk' /\ DirtyIsScheduled'
  BY <1>2, <1>3, <1>4 DEF PersistedIsOnDisk, DirtyIsScheduled
<1>12. LoadsComeFirst' /\ ShutdownIsClosed'
  BY <1>2, <1>3, <1>4, <1>5 DEF LoadsComeFirst, ShutdownIsClosed, Advances
<1> QED
  BY <1>1, <1>2, <1>5, <1>6, <1>9, <1>10, <1>11, <1>12, MoveIsSound

LEMMA CompleteShutdownCoreIsSound ==
    ASSUME Types, Types', SavingSound, NEW c \in Client, CompleteShutdownCore(c)
    PROVE  SavingSound'
<1> USE SettingsStoreAssumption DEF CompleteShutdownCore, Goto, Types, ThreadTypes, Numbers
<1>1. c \in Thread /\ OnlyMoves(c) /\ c # Worker /\ pc'[c] = "DrainWait"
      /\ pc[c] = "ShutdownPublish" /\ local'[c] = local[c]
  BY DEF OnlyMoves, Thread
<1>2. /\ shutdownResult' = local[c].result
      /\ UNCHANGED <<loadActive, loadClaimed, closing, discardRequested, shutdownRequested,
                     timerArmed, revision, persistedRevision, disk, preservationFailed,
                     writerActive, workerFlushResult>>
  BY DEF saving, loading, storage, working
<1>3. /\ ThreadSound(c) /\ OneWriter /\ PersistedIsOnDisk /\ ShutdownIsClosed /\ LoadsComeFirst
      /\ DirtyIsScheduled
  BY <1>1 DEF SavingSound
<1>4. Advances
  BY <1>2 DEF Advances, Done, Saved
<1>5. ~IsLoading(c)' /\ ~IsWriting(c)' /\ ~IsWriting(c)
  BY <1>1 DEF IsLoading, IsWriting
<1>6. local[c].result => Done'
  BY <1>1, <1>3, <1>4 DEF ThreadSound, Advances
<1>7. ThreadSound(c)'
  BY <1>1, <1>2, <1>3, <1>5, <1>6 DEF ThreadSound, Answering
<1>8. OneWriter'
  BY <1>1, <1>2, <1>3, <1>5, WritersStay DEF OneWriter
<1>9. PersistedIsOnDisk' /\ DirtyIsScheduled'
  BY <1>2, <1>3 DEF PersistedIsOnDisk, DirtyIsScheduled
<1>10. LoadsComeFirst' /\ ShutdownIsClosed'
  BY <1>2, <1>3, <1>6 DEF LoadsComeFirst, ShutdownIsClosed
<1> QED
  BY <1>1, <1>2, <1>4, <1>5, <1>7, <1>8, <1>9, <1>10, MoveIsSound


LEMMA SavingSoundAtFirst == ASSUME Init PROVE SavingSound
<1> USE SettingsStoreAssumption DEF Init
<1>1. \A t \in Thread : pc[t] \in {"Ready", "Capture"} /\ local[t] = NoLocals
  BY DEF Thread
<1>2. \A t \in Thread : ThreadSound(t) /\ ~IsWriting(t) /\ ~IsLoading(t)
  BY <1>1 DEF ThreadSound, IsWriting, IsLoading, NoLocals
<1>3. OneWriter /\ OneLoader
  BY <1>2 DEF OneWriter, OneLoader
<1>4. PersistedIsOnDisk /\ DirtyIsScheduled /\ LoadsComeFirst /\ ShutdownIsClosed
  BY DEF PersistedIsOnDisk, DirtyIsScheduled, LoadsComeFirst, ShutdownIsClosed
<1>5. WorkerSound
  BY DEF WorkerSound, NoLocals, Thread
<1> QED
  BY <1>2, <1>3, <1>4, <1>5 DEF SavingSound

LEMMA SavingIsKept == ASSUME Types, SavingSound, [Next]_vars PROVE SavingSound'
<1> USE SettingsStoreAssumption
<1>0. Types'
  BY TypesAreKept
<1>1. CASE Call
  <2>1. \A s : s \in scope.observers => s \in Subscriber
    BY DEF Types, Numbers
  <2>2. PICK c \in Client :
          \/ Commit(c) \/ ShutdownAgain(c) \/ Load(c)
          \/ \E n \in scope.flushAttempts, ready \in BOOLEAN : FlushNow(c, n, ready)
          \/ \E n \in scope.attempts, mode \in scope.modes : Shutdown(c, mode, n)
          \/ \E s \in scope.observers : Subscribe(c, s) \/ Reset(c, s)
    BY <1>1 DEF Call
  <2> QED
    BY <1>0, <2>1, <2>2, CommitIsSound, IdleStepIsSound, LoadIsSound, FlushNowIsSound,
       ShutdownIsSound, DeliveryIsSound, ResetIsSound
<1>2. CASE Storage
  BY <1>0, <1>2, WriteIsSound DEF Storage
<1>3. CASE LoadStep
  <2> PICK c \in Client : \/ ReadAndDecode(c) \/ AbandonLoad(c) \/ PreserveCorrupt(c)
                          \/ CommitLoad(c) \/ LoadNotify(c)
    BY <1>3 DEF LoadStep
  <2>1. CASE AbandonLoad(c) \/ PreserveCorrupt(c)
    BY <1>0, <2>1, CompleteLoadWithoutCommitIsSound DEF AbandonLoad, PreserveCorrupt, IsLoading
  <2> QED
    BY <1>0, <2>1, ReadAndDecodeIsSound, CommitLoadIsSound, IdleStepIsSound
<1>4. CASE SaveStep
  BY <1>0, <1>4, CompleteWriteIsSound, WriteNotifyIsSound, EnterFlushIsSound, ResumeFlushIsSound,
     FinishFlushIsSound, ReturnFromFlushIsSound DEF SaveStep, FlushStep
<1>5. CASE WorkerStep
  BY <1>0, <1>5, WorkerIdleStepIsSound, InspectDueIsSound, FinishWorkerIsSound,
     InspectClosingIsSound DEF WorkerStep
<1>6. CASE DeliveryStep
  BY <1>0, <1>6, DeliveryIsSound, IdleStepIsSound DEF DeliveryStep
<1>7. CASE ResetStep
  BY <1>0, <1>7, IdleStepIsSound DEF ResetStep
<1>8. CASE ShutdownStep
  BY <1>0, <1>8, ShutdownNotifyIsSound, FenceShutdownIsSound, CompleteShutdownCoreIsSound,
     FollowShutdownIsSound, WaitForPublicationDrainIsSound, ReturnIsSound DEF ShutdownStep
<1>9. CASE UNCHANGED vars
  BY <1>0, <1>9, QuietStutterIsSound DEF vars, Quiet
<1> QED
  BY <1>1, <1>2, <1>3, <1>4, <1>5, <1>6, <1>7, <1>8, <1>9 DEF Next

(* No change is lost on its way to the file, with any number of threads    *)
(* and revisions: Commit schedules it, one thread at a time writes, what   *)
(* counts as saved is in the file, and a write that fails or is overtaken  *)
(* arms the timer again (CompleteWriteLocked).                             *)
THEOREM ChangesAreKept == Spec => []NothingIsLost
<1>1. Init => Types /\ SavingSound
  BY TypesAtFirst, SavingSoundAtFirst
<1>2. Types /\ SavingSound /\ [Next]_vars => Types' /\ SavingSound'
  BY TypesAreKept, SavingIsKept
<1>3. Types /\ SavingSound => NothingIsLost
  BY TypesAreTypeOK DEF SavingSound, NothingIsLost
<1> QED
  BY <1>1, <1>2, <1>3, PTL DEF Spec

-----------------------------------------------------------------------------
(* What is settled: the file, the snapshot after the fence, and a file     *)
(* that could not be preserved.                                            *)

Settles == DiskNeverGoesBack /\ FencedStateIsFinal /\ UnpreservedFileIsKept

(* Most steps touch none of it.                                            *)
LEMMA UntouchedSettles ==
    ASSUME Types, UNCHANGED <<revision, persistedRevision, storage>>,
           shutdownRequested => \A t \in Thread : IsWriting(t)' => IsWriting(t)
    PROVE  Settles
  BY DEF Settles, DiskNeverGoesBack, FencedStateIsFinal, UnpreservedFileIsKept, Types, Numbers,
         storage

LEMMA CallsSettle == ASSUME Types, SavingSound, Call PROVE Settles
<1> PICK c \in Client :
          \/ Commit(c) \/ ShutdownAgain(c) \/ Load(c)
          \/ \E n \in scope.flushAttempts, ready \in BOOLEAN : FlushNow(c, n, ready)
          \/ \E n \in scope.attempts, mode \in scope.modes : Shutdown(c, mode, n)
          \/ \E s \in scope.observers : Subscribe(c, s) \/ Reset(c, s)
  BY DEF Call
<1> USE DEF Types, ThreadTypes, Goto
<1>1. CASE Commit(c)
  <2>1. ~shutdownRequested /\ ~loadActive /\ ~preservationFailed /\ disk' = disk
    BY <1>1 DEF Commit, AdmitsChanges, storage
  <2> QED
    BY <2>1 DEF Settles, DiskNeverGoesBack, FencedStateIsFinal, UnpreservedFileIsKept, Numbers
<1>2. CASE ~Commit(c)
  <2>1. UNCHANGED <<revision, persistedRevision, storage>>
    BY <1>2 DEF ShutdownAgain, Load, FlushNow, Shutdown, Subscribe, Reset, ThreadOnly, saving
  <2>2. \A t \in Thread : pc'[t] = pc[t] \/ pc'[t] \in {"FollowerWait", "LoadRead", "FlushEnter",
                                        "FlushReturned", "CloseNotify", "ResetWait"}
    BY <1>2 DEF ShutdownAgain, Load, FlushNow, BeginFlush, Shutdown, Subscribe, Reset
  <2> QED
    BY <2>1, <2>2, UntouchedSettles DEF IsWriting
<1> QED
  BY <1>1, <1>2

LEMMA WritesSettle == ASSUME Types, SavingSound, Storage PROVE Settles
<1> PICK t \in Thread, succeeded \in BOOLEAN : Write(t, succeeded)
  BY DEF Storage
<1> USE DEF Write, Types, ThreadTypes, Numbers
<1>1. ThreadSound(t) /\ OneWriter /\ LoadsComeFirst /\ pc[t] = "Write" /\ local[t].captured \in Nat
  BY DEF SavingSound, Locals
<1>2. disk <= local[t].captured /\ writerActive /\ IsWriting(t)
  BY <1>1 DEF ThreadSound, OneWriter, IsWriting
<1>3. ~loadActive /\ ~preservationFailed
  BY <1>1, <1>2 DEF OneWriter, LoadsComeFirst
<1>4. disk' >= disk /\ UNCHANGED <<revision, persistedRevision>>
  BY <1>1, <1>2 DEF storage, saving
<1>5. \A u \in Thread : IsWriting(u)' => IsWriting(u)
  BY <1>2 DEF Goto, IsWriting
<1> QED
  BY <1>3, <1>4, <1>5
     DEF Settles, DiskNeverGoesBack, FencedStateIsFinal, UnpreservedFileIsKept

LEMMA LoadsSettle == ASSUME Types, SavingSound, LoadStep PROVE Settles
<1> PICK c \in Client : \/ ReadAndDecode(c) \/ AbandonLoad(c) \/ PreserveCorrupt(c)
                        \/ CommitLoad(c) \/ LoadNotify(c)
  BY DEF LoadStep
<1> USE DEF Types, ThreadTypes, Goto, Numbers
<1>1. \A t \in Thread : IsWriting(t)' => IsWriting(t)
  <2>1. \A t \in Thread : pc'[t] = pc[t] \/ pc'[t] \in {"LoadMissing", "LoadValid", "LoadStale",
                              "LoadCorrupt", "LoadEndNotify", "LoadNotify", "Ready", "Drain"}
    BY DEF ReadAndDecode, AbandonLoad, PreserveCorrupt, CompleteLoadWithoutCommit, CommitLoad,
           LoadNotify, NotifyChanged
  <2> QED
    BY <2>1 DEF IsWriting
<1>2. CASE ReadAndDecode(c) \/ AbandonLoad(c) \/ LoadNotify(c)
  <2>1. UNCHANGED <<revision, persistedRevision, storage>>
    BY <1>2 DEF ReadAndDecode, AbandonLoad, CompleteLoadWithoutCommit, LoadNotify, NotifyChanged,
                ThreadOnly, saving, storage
  <2> QED
    BY <1>1, <2>1, UntouchedSettles
<1>3. CASE PreserveCorrupt(c)
  <2>1. UNCHANGED <<revision, persistedRevision, disk>> /\ file' \in {file, "Missing"}
    BY <1>3 DEF PreserveCorrupt, CompleteLoadWithoutCommit, saving
  <2> QED
    BY <1>1, <2>1 DEF Settles, DiskNeverGoesBack, FencedStateIsFinal, UnpreservedFileIsKept
<1>4. CASE CommitLoad(c)
  <2>1. /\ c \in Thread /\ ThreadSound(c) /\ PersistedIsOnDisk /\ LoadsComeFirst /\ IsLoading(c)
        /\ ~loadActive'
    BY <1>4 DEF SavingSound, Thread, CommitLoad, IsLoading
  <2>2. loadActive /\ revision = 0 /\ disk = 0 /\ ~preservationFailed
    BY <2>1 DEF ThreadSound, LoadsComeFirst, PersistedIsOnDisk
  <2>3. disk' >= disk
    <3>1. CASE shutdownRequested
      BY <1>4, <3>1 DEF CommitLoad
    <3>2. CASE ~shutdownRequested
      <4>1. disk' \in {0, 1}
        BY <1>4, <2>2, <3>2 DEF CommitLoad
      <4> QED
        BY <2>2, <4>1
    <3> QED
      BY <3>1, <3>2
  <2>4. shutdownRequested => UNCHANGED <<revision, persistedRevision>>
    BY <1>4 DEF CommitLoad, saving
  <2> QED
    BY <1>1, <2>1, <2>2, <2>3, <2>4
       DEF Settles, DiskNeverGoesBack, FencedStateIsFinal, UnpreservedFileIsKept
<1> QED
  BY <1>2, <1>3, <1>4

LEMMA SavesSettle == ASSUME Types, SavingSound, SaveStep PROVE Settles
<1> PICK t \in Thread : FlushStep(t)
  BY DEF SaveStep
<1> USE DEF Types, ThreadTypes, Goto, Numbers
<1>1. revision' = revision /\ storage' = storage
  BY DEF FlushStep, CompleteWrite, WriteNotify, NotifyChanged, EnterFlush, ResumeFlush, FinishFlush,
         ThreadOnly, ReturnFromFlush, saving
<1>2. shutdownRequested => persistedRevision' = persistedRevision
  BY DEF FlushStep, CompleteWrite, CompletionsAreFenced, WriteNotify, NotifyChanged, EnterFlush,
         ResumeFlush, FinishFlush, ThreadOnly, ReturnFromFlush, saving
<1>3. ASSUME shutdownRequested, NEW u \in Thread, IsWriting(u)' PROVE IsWriting(u)
  <2>1. pc'[u] = pc[u] \/ pc'[u] \in {"WriteNotify", "Capture", "FlushFinal", "FlushEnter",
                                        "FlushReturned", "FlushWait", "Finish", "Ready"}
    BY <1>3 DEF FlushStep, CompleteWrite, WriteNotify, NotifyChanged, EnterFlush, ResumeFlush,
                AdmitFlush, FlushReturn, FinishFlush, ReturnFromFlush
  <2> QED
    BY <1>3, <2>1 DEF IsWriting
<1> QED
  BY <1>1, <1>2, <1>3
     DEF Settles, DiskNeverGoesBack, FencedStateIsFinal, UnpreservedFileIsKept, storage

LEMMA OtherStepsSettle ==
    ASSUME Types, SavingSound, WorkerStep \/ DeliveryStep \/ ResetStep \/ ShutdownStep
    PROVE  Settles
<1> USE DEF Types, ThreadTypes, Goto
<1>1. UNCHANGED <<revision, persistedRevision, storage>>
  BY DEF WorkerStep, CaptureVersion, InspectDue, InspectNotDue, Wake, FinishWorker, InspectClosing,
         DeliveryStep, TakePublication, StopPublishing, CompleteCallback, TryBeginCallback,
         CommitNotify, DrainPublications, ResetStep, DeactivateAndWait, EraseSubscription,
         ShutdownStep, ShutdownNotify, FenceShutdown, Fence, CompleteShutdownCore,
         FollowShutdown, WaitForPublicationDrain, Return, NotifyChanged, ThreadOnly, saving
<1>2. ASSUME shutdownRequested, NEW t \in Thread, IsWriting(t)' PROVE IsWriting(t)
  <2>1. pc'[t] = pc[t] \/ pc'[t] \notin {"Write", "Written"}
    <3>1. CASE WorkerStep
      BY <1>2, <3>1 DEF WorkerStep, CaptureVersion, InspectDue, InspectNotDue, Wake, FinishWorker,
         InspectClosing, FlushReturn, BeginFlush
    <3>2. CASE DeliveryStep
      BY <3>2 DEF DeliveryStep, TakePublication, StopPublishing, CompleteCallback,
         TryBeginCallback, CommitNotify, DrainPublications, NotifyChanged
    <3>3. CASE ResetStep
      BY <3>3 DEF ResetStep, DeactivateAndWait, EraseSubscription
    <3>4. CASE ShutdownStep
      BY <3>4 DEF ShutdownStep, ShutdownNotify, FenceShutdown, Fence, CompleteShutdownCore,
         FollowShutdown, ShutdownReturn, WaitForPublicationDrain, Return, NotifyChanged
    <3> QED
      BY <3>1, <3>2, <3>3, <3>4
  <2> QED
    BY <1>2, <2>1 DEF IsWriting
<1> QED
  BY <1>1, <1>2, UntouchedSettles

(* Whatever comes late - an older write, a completion after the fence, a   *)
(* change while a load is undecided - the file never goes back to an older *)
(* revision, the fenced snapshot stays, and a file that could not be       *)
(* preserved is not replaced (CompleteWriteLocked, Shutdown,               *)
(* CompleteLoadWithoutCommit).                                             *)
THEOREM SettledStateIsKept == Spec => WhatIsSettledStays
<1>1. Init => Types /\ SavingSound
  BY TypesAtFirst, SavingSoundAtFirst
<1>2. Types /\ SavingSound /\ [Next]_vars => Types' /\ SavingSound'
  BY TypesAreKept, SavingIsKept
<1>3. Types /\ SavingSound /\ [Next]_vars => [Settles]_vars
  BY CallsSettle, WritesSettle, LoadsSettle, SavesSettle, OtherStepsSettle DEF Next
<1>4. [Settles]_vars <=> [DiskNeverGoesBack /\ FencedStateIsFinal /\ UnpreservedFileIsKept]_vars
  BY DEF Settles
<1> QED
  BY <1>1, <1>2, <1>3, <1>4, PTL DEF Spec, WhatIsSettledStays

-----------------------------------------------------------------------------
(* Delivery: what is in line for a subscriber.                             *)

GivenInOrder(s) ==
    /\ delivered[s] <= revision
    /\ \A i \in Awaiting(s) : InLine(i).Revision \in delivered[s] + 1 .. revision
    /\ \A n \in delivered[s] + 1 .. revision : \E i \in Awaiting(s) : InLine(i).Revision = n
    /\ \A i, j \in Awaiting(s) : i < j => InLine(i).Revision < InLine(j).Revision

LEMMA InLineType ==
    ASSUME Types, NEW i \in 0 .. Len(pendingPublications)
    PROVE  InLine(i) \in Publication
  BY DEF Types, DeliveryTypes, InLine

LEMMA LineStays ==
    ASSUME NEW s \in Subscriber, GivenInOrder(s), Awaiting(s)' = Awaiting(s),
           \A i \in Awaiting(s) : InLine(i)'.Revision = InLine(i).Revision,
           delivered'[s] = delivered[s], revision' = revision
    PROVE  GivenInOrder(s)'
  BY DEF GivenInOrder

(* A change is put at the end of the line of everyone registered.          *)
LEMMA PublishExtends ==
    ASSUME Types, Publish(revision + 1, subscriptions), publication' = publication,
           revision' = revision + 1, delivered' = delivered,
           NEW s \in subscriptions, GivenInOrder(s)
    PROVE  GivenInOrder(s)'
<1> DEFINE p == [Revision |-> revision + 1, Subscriptions |-> subscriptions]
<1>0. PICK n \in Nat : n = Len(pendingPublications)
  BY DEF Types, DeliveryTypes
<1>1. pendingPublications \in Seq(Publication) /\ revision \in Nat /\ delivered[s] \in Nat
  BY DEF Types, DeliveryTypes, Numbers
<1>2. pendingPublications' = Append(pendingPublications, p)
  BY DEF Publish
<1>3. /\ Len(pendingPublications') = n + 1 /\ pendingPublications'[n + 1] = p
      /\ \A i \in 1 .. n : pendingPublications'[i] = pendingPublications[i]
  BY <1>0, <1>1, <1>2
<1>4. InLine(n + 1)' = p /\ \A i \in 0 .. n : InLine(i)' = InLine(i)
  BY <1>0, <1>1, <1>3 DEF InLine
<1>5. Awaiting(s)' = Awaiting(s) \cup {n + 1} /\ n + 1 \notin Awaiting(s)
  BY <1>0, <1>1, <1>3, <1>4 DEF Awaiting
<1>6. \A i \in Awaiting(s) : i \in 0 .. n /\ InLine(i)' = InLine(i) /\ InLine(i).Revision \in Nat
  BY <1>0, <1>4, InLineType DEF Awaiting, Publication
<1>7. InLine(n + 1)'.Revision = revision + 1
  BY <1>4
<1>8. \A i \in Awaiting(s)' : i = n + 1 \/ (i \in Awaiting(s) /\ i < n + 1)
  BY <1>1, <1>5, <1>6
<1>9. \A i \in Awaiting(s)' : InLine(i)'.Revision \in delivered'[s] + 1 .. revision'
  BY <1>1, <1>6, <1>7, <1>8 DEF GivenInOrder
<1>10. \A m \in delivered'[s] + 1 .. revision' : \E i \in Awaiting(s)' : InLine(i)'.Revision = m
  <2> SUFFICES ASSUME NEW m \in delivered[s] + 1 .. revision + 1
               PROVE  \E i \in Awaiting(s)' : InLine(i)'.Revision = m
    OBVIOUS
  <2>1. CASE m = revision + 1
    BY <1>5, <1>7, <2>1
  <2>2. CASE m \in delivered[s] + 1 .. revision
    BY <1>5, <1>6, <2>2 DEF GivenInOrder
  <2> QED
    BY <1>1, <2>1, <2>2
<1>11. ASSUME NEW i \in Awaiting(s)', NEW j \in Awaiting(s)', i < j
       PROVE  InLine(i)'.Revision < InLine(j)'.Revision
  <2>1. i \in Awaiting(s)
    BY <1>1, <1>6, <1>8, <1>11
  <2>2. CASE j = n + 1
    BY <1>1, <1>6, <1>7, <2>1, <2>2 DEF GivenInOrder
  <2>3. CASE j \in Awaiting(s)
    BY <1>6, <1>11, <2>1, <2>3 DEF GivenInOrder
  <2> QED
    BY <1>8, <2>2, <2>3
<1>12. delivered'[s] <= revision'
  BY <1>1 DEF GivenInOrder
<1> QED
  BY <1>9, <1>10, <1>11, <1>12 DEF GivenInOrder

(* The publisher takes the next publication: everyone moves up.            *)
LEMMA TakeMovesUp ==
    ASSUME Types, TakePublication, NEW s \in Subscriber
    PROVE  /\ \A i \in Nat : i \in Awaiting(s)' <=> i + 1 \in Awaiting(s)
           /\ \A i \in Awaiting(s)' : InLine(i)' = InLine(i + 1)
           /\ 0 \notin Awaiting(s)
<1> DEFINE n == Len(pendingPublications)
<1>1. pendingPublications \in Seq(Publication) /\ n \in Nat /\ n # 0
  BY DEF Types, DeliveryTypes, TakePublication
<1>2. /\ publication' = pendingPublications[1] /\ Len(pendingPublications') = n - 1
      /\ \A i \in 1 .. n - 1 : pendingPublications'[i] = pendingPublications[i + 1]
  BY <1>1 DEF TakePublication
<1>3. \A i \in 0 .. n - 1 : InLine(i)' = InLine(i + 1)
  BY <1>1, <1>2 DEF InLine
<1>4. 0 \notin Awaiting(s)
  BY DEF Awaiting, InLine, TakePublication
<1>5. ASSUME NEW i \in Nat PROVE i \in Awaiting(s)' <=> i + 1 \in Awaiting(s)
  BY <1>1, <1>2, <1>3 DEF Awaiting
<1>6. \A i \in Awaiting(s)' : i \in 0 .. n - 1
  BY <1>2 DEF Awaiting
<1> QED
  BY <1>3, <1>4, <1>5, <1>6

LEMMA TakeKeepsOrder ==
    ASSUME Types, TakePublication, NEW s \in Subscriber, GivenInOrder(s)
    PROVE  GivenInOrder(s)'
<1>1. /\ \A i \in Nat : i \in Awaiting(s)' <=> i + 1 \in Awaiting(s)
      /\ \A i \in Awaiting(s)' : InLine(i)' = InLine(i + 1)
      /\ 0 \notin Awaiting(s)
  BY TakeMovesUp
<1>2. \A i \in Awaiting(s) : i \in Nat /\ i # 0
  BY <1>1 DEF Awaiting, Types, DeliveryTypes
<1>3. \A i \in Awaiting(s)' : i \in Nat
  BY DEF Awaiting
<1>4. revision' = revision /\ delivered' = delivered
  BY DEF TakePublication, saving
<1>5. \A i \in Awaiting(s)' : InLine(i)'.Revision \in delivered'[s] + 1 .. revision'
  BY <1>1, <1>3, <1>4 DEF GivenInOrder
<1>6. ASSUME NEW m \in delivered'[s] + 1 .. revision'
      PROVE  \E i \in Awaiting(s)' : InLine(i)'.Revision = m
  <2>1. PICK i \in Awaiting(s) : InLine(i).Revision = m
    BY <1>4 DEF GivenInOrder
  <2>2. i - 1 \in Nat /\ (i - 1) + 1 = i
    BY <1>2
  <2>3. i - 1 \in Awaiting(s)'
    BY <1>1, <2>2
  <2> QED
    BY <1>1, <2>1, <2>2, <2>3
<1>7. ASSUME NEW i \in Awaiting(s)', NEW j \in Awaiting(s)', i < j
      PROVE  InLine(i)'.Revision < InLine(j)'.Revision
  <2>1. i + 1 \in Awaiting(s) /\ j + 1 \in Awaiting(s) /\ i + 1 < j + 1
    BY <1>1, <1>3, <1>7
  <2> QED
    BY <1>1, <2>1 DEF GivenInOrder
<1> QED
  BY <1>4, <1>5, <1>6, <1>7 DEF GivenInOrder

(* Calling a subscriber gives it the first revision it has not been given. *)
LEMMA CallbackGivesTheNext ==
    ASSUME Types, NEW s \in Subscriber, TryBeginCallback(s), subscription[s] = "Active",
           GivenInOrder(s)
    PROVE  GivenInOrder(s)'
<1>1. /\ publication \in Publication /\ pendingPublications' = pendingPublications
      /\ publication' = [publication EXCEPT !.Subscriptions = @ \ {s}]
      /\ s \in publication.Subscriptions /\ revision' = revision
      /\ delivered' = [delivered EXCEPT ![s] = publication.Revision]
      /\ Len(pendingPublications) \in Nat /\ revision \in Nat /\ delivered[s] \in Nat
  BY DEF TryBeginCallback, Types, DeliveryTypes, Numbers, saving
<1>2. publication'.Revision = publication.Revision
      /\ publication'.Subscriptions = publication.Subscriptions \ {s}
  BY <1>1 DEF Publication
<1>3. \A i \in 1 .. Len(pendingPublications) : InLine(i)' = InLine(i)
  BY <1>1 DEF InLine
<1>4. 0 \in Awaiting(s) /\ InLine(0).Revision = publication.Revision
  BY <1>1 DEF Awaiting, InLine
<1>5. Awaiting(s)' = Awaiting(s) \ {0}
  BY <1>1, <1>2, <1>3 DEF Awaiting, InLine
<1>6. \A i \in Awaiting(s)' : i \in Nat /\ 0 < i /\ i \in Awaiting(s) /\ InLine(i)' = InLine(i)
  BY <1>1, <1>3, <1>5 DEF Awaiting
<1>7. delivered'[s] = publication.Revision
  BY <1>1 DEF Types, DeliveryTypes
<1>8. publication.Revision \in delivered[s] + 1 .. revision
  BY <1>4 DEF GivenInOrder
<1>9. \A i \in Awaiting(s)' : publication.Revision < InLine(i).Revision
  BY <1>4, <1>6 DEF GivenInOrder
<1>10. \A i \in Awaiting(s) : InLine(i).Revision \in delivered[s] + 1 .. revision
  BY DEF GivenInOrder
<1>11. \A i \in Awaiting(s)' : InLine(i)'.Revision \in delivered'[s] + 1 .. revision'
  BY <1>1, <1>6, <1>7, <1>8, <1>9, <1>10
<1>12. ASSUME NEW m \in delivered'[s] + 1 .. revision'
       PROVE  \E i \in Awaiting(s)' : InLine(i)'.Revision = m
  <2>1. m \in delivered[s] + 1 .. revision /\ m # publication.Revision
    BY <1>1, <1>7, <1>8
  <2>2. PICK i \in Awaiting(s) : InLine(i).Revision = m
    BY <2>1 DEF GivenInOrder
  <2>3. i # 0
    BY <1>4, <2>1, <2>2
  <2> QED
    BY <1>5, <1>6, <2>2, <2>3
<1>13. \A i, j \in Awaiting(s)' : i < j => InLine(i)'.Revision < InLine(j)'.Revision
  BY <1>6 DEF GivenInOrder
<1> QED
  BY <1>1, <1>7, <1>8, <1>11, <1>12, <1>13 DEF GivenInOrder


LEMMA MissNothing ==
    SubscribersMissNothing <=>
        \A s \in Subscriber : subscription[s] = "Active" => GivenInOrder(s)
  BY DEF SubscribersMissNothing, GivenInOrder

(* Who is called, and with what: a step that does not touch the line.      *)
LineSound == OnlyRegisteredAreCalled /\ SubscribersMissNothing

LEMMA UntouchedLineIsSound ==
    ASSUME Types, LineSound,
           UNCHANGED <<revision, publication, pendingPublications, delivered>>,
           \A s \in Subscriber : /\ subscription'[s] = "Active" => subscription[s] = "Active"
                                 /\ subscription'[s] = "New" => subscription[s] = "New"
                                 /\ subscription'[s] = "Active" => s \in subscriptions',
           subscriptions' \subseteq subscriptions,
           closing' => closing \/ subscriptions' = {},
           publisher' = NoOne => executing' = NoOne
    PROVE  LineSound'
<1>1. \A i : InLine(i)' = InLine(i)
  BY DEF InLine
<1>2. \A s \in Subscriber : Awaiting(s)' = Awaiting(s)
  BY <1>1 DEF Awaiting
<1>3. OnlyRegisteredAreCalled'
  BY <1>2 DEF OnlyRegisteredAreCalled, LineSound
<1>4. SubscribersMissNothing'
  <2> SUFFICES ASSUME NEW s \in Subscriber, subscription'[s] = "Active" PROVE GivenInOrder(s)'
    BY MissNothing DEF SubscribersMissNothing, GivenInOrder
  <2>1. GivenInOrder(s)
    BY MissNothing DEF LineSound
  <2> QED
    BY <1>1, <1>2, <2>1, LineStays
<1> QED
  BY <1>3, <1>4 DEF LineSound

LEMMA PublishIsSound ==
    ASSUME Types, LineSound, Publish(revision + 1, subscriptions), revision' = revision + 1,
           UNCHANGED <<publication, delivered, subscribing, publisher, executing, closing>>
    PROVE  LineSound'
<1>1. UNCHANGED <<subscriptions, subscription>>
  BY DEF subscribing
<1>2. SubscribersMissNothing'
  <2> SUFFICES ASSUME NEW s \in Subscriber, subscription'[s] = "Active" PROVE GivenInOrder(s)'
    BY MissNothing DEF SubscribersMissNothing, GivenInOrder
  <2>1. s \in subscriptions /\ GivenInOrder(s)
    BY <1>1, MissNothing DEF LineSound, OnlyRegisteredAreCalled
  <2> QED
    BY <2>1, PublishExtends
<1>3. ASSUME NEW s \in Subscriber, s \notin subscriptions, Awaiting(s) = {}
      PROVE  Awaiting(s)' = {}
  <2>1. CASE subscriptions = {}
    BY <1>3, <2>1 DEF Publish, Awaiting, InLine
  <2>2. CASE subscriptions # {}
    <3>0. PICK n \in Nat : n = Len(pendingPublications)
      BY DEF Types, DeliveryTypes
    <3>1. pendingPublications' = Append(pendingPublications,
              [Revision |-> revision + 1, Subscriptions |-> subscriptions])
      BY <2>2 DEF Publish
    <3>2. /\ Len(pendingPublications') = n + 1
          /\ pendingPublications'[n + 1].Subscriptions = subscriptions
          /\ \A i \in 1 .. n : pendingPublications'[i] = pendingPublications[i]
      BY <3>0, <3>1 DEF Types, DeliveryTypes
    <3> QED
      BY <1>3, <3>0, <3>2 DEF Awaiting, InLine
  <2> QED
    BY <2>1, <2>2
<1>4. OnlyRegisteredAreCalled'
  BY <1>1, <1>3 DEF LineSound, OnlyRegisteredAreCalled
<1> QED
  BY <1>2, <1>4 DEF LineSound

LEMMA CommitLineIsSound ==
    ASSUME Types, LineSound, NEW c \in Client, Commit(c)
    PROVE  LineSound'
<1>1. closing' = closing
  BY DEF Commit, stopping
<1> QED
  BY <1>1, PublishIsSound DEF Commit

LEMMA CommitLoadLineIsSound ==
    ASSUME Types, SavingSound, LineSound, NEW c \in Client, CommitLoad(c)
    PROVE  LineSound'
<1>1. /\ UNCHANGED <<publication, delivered, subscribing, publisher, executing>>
      /\ closing' = closing
  BY DEF CommitLoad, stopping
<1>2. CASE shutdownRequested
  <2>1. revision' = revision /\ pendingPublications' = pendingPublications
    BY <1>2 DEF CommitLoad, saving
  <2> QED
    BY <1>1, <2>1, UntouchedLineIsSound DEF subscribing, LineSound, OnlyRegisteredAreCalled
<1>3. CASE ~shutdownRequested
  <2>1. c \in Thread /\ ThreadSound(c) /\ LoadsComeFirst /\ IsLoading(c)
    BY DEF SavingSound, Thread, CommitLoad, IsLoading
  <2>2. revision = 0
    BY <2>1 DEF ThreadSound, LoadsComeFirst
  <2>3. revision' = revision + 1 /\ Publish(1, IF closing THEN {} ELSE subscriptions)
    BY <1>3, <2>2 DEF CommitLoad
  <2>4. (IF closing THEN {} ELSE subscriptions) = subscriptions /\ revision + 1 = 1
    BY <2>2 DEF LineSound, OnlyRegisteredAreCalled
  <2>5. Publish(revision + 1, subscriptions)
    BY <2>3, <2>4
  <2> QED
    BY <1>1, <2>3, <2>5, PublishIsSound
<1> QED
  BY <1>2, <1>3

LEMMA TakeLineIsSound == ASSUME Types, LineSound, TakePublication PROVE LineSound'
<1>1. UNCHANGED <<subscriptions, subscription, closing, publisher, executing>>
  BY DEF TakePublication, subscribing, stopping
<1>2. SubscribersMissNothing'
  <2> SUFFICES ASSUME NEW s \in Subscriber, subscription'[s] = "Active" PROVE GivenInOrder(s)'
    BY MissNothing DEF SubscribersMissNothing, GivenInOrder
  <2> QED
    BY <1>1, MissNothing, TakeKeepsOrder DEF LineSound
<1>3. ASSUME NEW s \in Subscriber, Awaiting(s) = {} PROVE Awaiting(s)' = {}
  <2>1. \A i \in Awaiting(s)' : i \in Nat
    BY DEF Awaiting
  <2> QED
    BY <1>3, <2>1, TakeMovesUp
<1>4. OnlyRegisteredAreCalled'
  BY <1>1, <1>3 DEF LineSound, OnlyRegisteredAreCalled
<1> QED
  BY <1>2, <1>4 DEF LineSound

LEMMA StopLineIsSound == ASSUME Types, LineSound, StopPublishing PROVE LineSound'
<1>1. /\ UNCHANGED <<subscriptions, subscription, closing, executing, revision, delivered,
                     pendingPublications>>
      /\ executing = NoOne /\ publication.Subscriptions = {} /\ publication'.Subscriptions = {}
  BY DEF StopPublishing, IsBetweenCallbacks, NoPublication, subscribing, stopping, saving
<1>2. \A s \in Subscriber : Awaiting(s)' = Awaiting(s)
  BY <1>1 DEF Awaiting, InLine
<1>3. \A s \in Subscriber : \A i \in Awaiting(s) : InLine(i)' = InLine(i)
  BY <1>1 DEF Awaiting, InLine
<1>4. OnlyRegisteredAreCalled'
  BY <1>1, <1>2 DEF LineSound, OnlyRegisteredAreCalled
<1>5. SubscribersMissNothing'
  <2> SUFFICES ASSUME NEW s \in Subscriber, subscription'[s] = "Active" PROVE GivenInOrder(s)'
    BY MissNothing DEF SubscribersMissNothing, GivenInOrder
  <2>1. GivenInOrder(s)
    BY <1>1, MissNothing DEF LineSound
  <2> QED
    BY <1>1, <1>2, <1>3, <2>1, LineStays
<1> QED
  BY <1>4, <1>5 DEF LineSound


LEMMA CallbackLineIsSound ==
    ASSUME Types, LineSound, NEW s \in Subscriber, TryBeginCallback(s)
    PROVE  LineSound'
<1>1. /\ UNCHANGED <<subscriptions, subscription, closing, publisher, revision,
                     pendingPublications>>
      /\ publisher # NoOne /\ publication \in Publication
      /\ publication' = [publication EXCEPT !.Subscriptions = @ \ {s}]
  BY DEF TryBeginCallback, IsBetweenCallbacks, subscribing, stopping, saving, Types, DeliveryTypes
<1>2. /\ publication'.Revision = publication.Revision
      /\ publication'.Subscriptions = publication.Subscriptions \ {s}
  BY <1>1 DEF Publication
<1>3. ASSUME NEW u \in Subscriber, u # s
      PROVE  Awaiting(u)' = Awaiting(u) /\ delivered'[u] = delivered[u]
  BY <1>1, <1>2, <1>3 DEF Awaiting, InLine, TryBeginCallback, Types, DeliveryTypes
<1>4. \A i : InLine(i)'.Revision = InLine(i).Revision
  BY <1>1, <1>2 DEF InLine
<1>5. Awaiting(s)' \subseteq Awaiting(s)
  BY <1>1, <1>2 DEF Awaiting, InLine
<1>6. OnlyRegisteredAreCalled'
  BY <1>1, <1>3, <1>5 DEF LineSound, OnlyRegisteredAreCalled
<1>7. SubscribersMissNothing'
  <2> SUFFICES ASSUME NEW u \in Subscriber, subscription'[u] = "Active" PROVE GivenInOrder(u)'
    BY MissNothing DEF SubscribersMissNothing, GivenInOrder
  <2>1. GivenInOrder(u) /\ subscription[u] = "Active"
    BY <1>1, MissNothing DEF LineSound
  <2>2. CASE u = s
    BY <2>1, <2>2, CallbackGivesTheNext
  <2>3. CASE u # s
    BY <1>1, <1>3, <1>4, <2>1, <2>3, LineStays
  <2> QED
    BY <2>2, <2>3
<1> QED
  BY <1>6, <1>7 DEF LineSound

LEMMA SubscribeLineIsSound ==
    ASSUME Types, LineSound, NEW c \in Client, NEW s \in Subscriber, Subscribe(c, s)
    PROVE  LineSound'
<1>1. /\ UNCHANGED <<closing, publisher, executing, revision, publication, pendingPublications>>
      /\ subscription[s] = "New" /\ ~closing
      /\ subscription' = [subscription EXCEPT ![s] = "Active"]
      /\ subscriptions' = subscriptions \cup {s}
      /\ delivered' = [delivered EXCEPT ![s] = revision]
  BY DEF Subscribe, stopping, saving
<1>2. \A i : InLine(i)' = InLine(i)
  BY <1>1 DEF InLine
<1>3. \A u \in Subscriber : Awaiting(u)' = Awaiting(u)
  BY <1>1, <1>2 DEF Awaiting
<1>4. OnlyRegisteredAreCalled'
  BY <1>1, <1>3 DEF LineSound, OnlyRegisteredAreCalled, Types, DeliveryTypes
<1>5. SubscribersMissNothing'
  <2> SUFFICES ASSUME NEW u \in Subscriber, subscription'[u] = "Active" PROVE GivenInOrder(u)'
    BY MissNothing DEF SubscribersMissNothing, GivenInOrder
  <2>1. CASE u = s
    <3>1. Awaiting(s)' = {} /\ delivered'[s] = revision /\ revision' = revision /\ revision \in Nat
      BY <1>1, <1>3 DEF LineSound, OnlyRegisteredAreCalled, Types, DeliveryTypes, Numbers
    <3> QED
      BY <2>1, <3>1 DEF GivenInOrder
  <2>2. CASE u # s
    <3>1. subscription[u] = "Active" /\ delivered'[u] = delivered[u] /\ revision' = revision
      BY <1>1, <2>2 DEF Types, DeliveryTypes
    <3>2. GivenInOrder(u)
      BY <3>1, MissNothing DEF LineSound
    <3> QED
      BY <1>2, <1>3, <3>1, <3>2, LineStays
  <2> QED
    BY <2>1, <2>2
<1> QED
  BY <1>4, <1>5 DEF LineSound

LEMMA ResetLineIsSound ==
    ASSUME Types, LineSound, NEW c \in Client, NEW s \in Subscriber, Reset(c, s)
    PROVE  LineSound'
  BY UntouchedLineIsSound
     DEF Reset, LineSound, OnlyRegisteredAreCalled, Types, DeliveryTypes, publishing, saving, stopping

LEMMA ShutdownLineIsSound ==
    ASSUME Types, LineSound, NEW c \in Client, NEW mode, NEW n, Shutdown(c, mode, n)
    PROVE  LineSound'
<1>1. UNCHANGED <<revision, publication, pendingPublications, delivered, publisher, executing>>
  BY DEF Shutdown, publishing
<1>2. /\ subscriptions' = {}
      /\ \A s \in Subscriber : /\ subscription'[s] # "Active"
                               /\ subscription'[s] = "New" => subscription[s] = "New"
  BY DEF Shutdown, LineSound, OnlyRegisteredAreCalled, Types, DeliveryTypes
<1> QED
  BY <1>1, <1>2, UntouchedLineIsSound DEF LineSound, OnlyRegisteredAreCalled

LEMMA EraseLineIsSound ==
    ASSUME Types, LineSound, NEW c \in Client, CallerSound(c), EraseSubscription(c)
    PROVE  LineSound'
<1>1. /\ UNCHANGED <<revision, publication, pendingPublications, delivered, publisher, executing,
                     subscription, closing>>
      /\ subscriptions' = subscriptions \ {local[c].target}
      /\ subscription[local[c].target] = "Inactive"
  BY DEF EraseSubscription, publishing, saving, stopping, CallerSound
<1> QED
  BY <1>1, UntouchedLineIsSound DEF LineSound, OnlyRegisteredAreCalled

(* Every other step leaves the line and the subscriptions alone.           *)
LEMMA OtherLineIsSound ==
    ASSUME Types, LineSound,
           UNCHANGED <<revision, closing, subscribing, publication, pendingPublications, delivered>>,
           publisher' = NoOne => executing' = NoOne
    PROVE  LineSound'
  BY UntouchedLineIsSound DEF LineSound, OnlyRegisteredAreCalled, subscribing


(* The callers: one that does not move, or moves to where nothing is       *)
(* promised yet.                                                           *)
StandsBy(c) ==
    \/ pc'[c] = pc[c] /\ local'[c] = local[c]
    \/ pc'[c] \notin {"ResetWait", "ResetErase", "ResetReturned", "ShutdownReturned"}
    \/ pc'[c] = "ShutdownReturned" /\ ~local'[c].result

LEMMA CallerStaysSound ==
    ASSUME Types, SavingSound, LineSound, NEW c \in Client, CallerSound(c), StandsBy(c),
           \A s \in Subscriber : subscription[s] = "Inactive" => subscription'[s] = "Inactive",
           \/ executing' \in {executing, NoOne}
           \/ executing' \in Subscriber /\ subscription[executing'] = "Active",
           publisher' = publisher \/ executing' = NoOne
    PROVE  CallerSound(c)'
<1> USE SettingsStoreAssumption
<1>1. CASE pc'[c] = pc[c] /\ local'[c] = local[c]
  <2>1. pc[c] \in {"ResetWait", "ResetErase", "ResetReturned"} =>
            local[c].target \in Subscriber /\ subscription[local[c].target] = "Inactive"
    BY DEF CallerSound
  <2>2. pc[c] \in {"ResetErase", "ResetReturned"} => executing' # local[c].target \/ publisher' = c
    BY <2>1 DEF CallerSound
  <2>3. pc[c] = "ShutdownReturned" /\ local[c].result => closing
    BY DEF SavingSound, ThreadSound, Thread, Done, ShutdownIsClosed
  <2>4. pc[c] = "ShutdownReturned" /\ local[c].result => executing' = NoOne \/ publisher' = c
    BY <2>3 DEF CallerSound, LineSound, OnlyRegisteredAreCalled
  <2> QED
    BY <1>1, <2>1, <2>2, <2>4 DEF CallerSound
<1>2. CASE pc'[c] \notin {"ResetWait", "ResetErase", "ResetReturned", "ShutdownReturned"}
  BY <1>2 DEF CallerSound
<1>3. CASE pc'[c] = "ShutdownReturned" /\ ~local'[c].result
  BY <1>3 DEF CallerSound
<1> QED
  BY <1>1, <1>2, <1>3 DEF StandsBy

LEMMA BystandersAreSound ==
    ASSUME Types, SavingSound, DeliverySound, \A c \in Client : StandsBy(c),
           UNCHANGED <<revision, closing, subscribing, publishing>>
    PROVE  DeliverySound'
<1>1. LineSound
  BY DEF DeliverySound, LineSound
<1>2. LineSound'
  BY <1>1, OtherLineIsSound DEF publishing, LineSound, OnlyRegisteredAreCalled
<1>3. \A c \in Client : CallerSound(c)'
  BY <1>1, CallerStaysSound DEF DeliverySound, publishing, subscribing
<1> QED
  BY <1>2, <1>3 DEF DeliverySound, LineSound

LEMMA LoadStepsStandBy ==
    ASSUME Types, NEW c \in Client,
           \/ ReadAndDecode(c) \/ AbandonLoad(c) \/ PreserveCorrupt(c) \/ LoadNotify(c)
           \/ Load(c) \/ ShutdownAgain(c) \/ CommitNotify(c)
           \/ \E n, ready : FlushNow(c, n, ready)
    PROVE  (\A d \in Client : StandsBy(d)) /\ UNCHANGED <<revision, closing, subscribing, publishing>>
<1>1. UNCHANGED <<revision, closing, subscribing, publishing>>
  BY DEF ReadAndDecode, AbandonLoad, PreserveCorrupt, LoadNotify, Load, ShutdownAgain, CommitNotify,
         FlushNow, NotifyChanged, CompleteLoadWithoutCommit, ThreadOnly, saving, stopping
<1>2. \A d \in Client : StandsBy(d)
  BY DEF ReadAndDecode, AbandonLoad, PreserveCorrupt, LoadNotify, Load, ShutdownAgain, CommitNotify,
         FlushNow, BeginFlush, NotifyChanged, CompleteLoadWithoutCommit, Goto, StandsBy, Types,
         ThreadTypes, Thread
<1> QED
  BY <1>1, <1>2

LEMMA SaveStepsStandBy ==
    ASSUME Types, NEW t \in Thread, FlushStep(t) \/ \E succeeded \in BOOLEAN : Write(t, succeeded)
    PROVE  (\A d \in Client : StandsBy(d)) /\ UNCHANGED <<revision, closing, subscribing, publishing>>
<1>1. UNCHANGED <<revision, closing, subscribing, publishing>>
  BY DEF FlushStep, CompleteWrite, WriteNotify, NotifyChanged, EnterFlush, ResumeFlush, FinishFlush,
         ReturnFromFlush, Write, ThreadOnly, saving, stopping
<1>2. ASSUME NEW d \in Client PROVE StandsBy(d)
  <2>1. d = t => pc'[d] \in {"WriteNotify", "Capture", "FlushFinal", "FlushEnter", "FlushWait",
                             "FlushReturned", "Finish", "Ready", "Write", "Written"}
    BY DEF FlushStep, CompleteWrite, WriteNotify, NotifyChanged, EnterFlush, ResumeFlush,
           FinishFlush, ReturnFromFlush, Write, AdmitFlush, FlushReturn, ClaimWrite, Goto, Types,
           ThreadTypes
  <2>2. d # t => pc'[d] = pc[d] /\ local'[d] = local[d]
    BY DEF FlushStep, CompleteWrite, WriteNotify, NotifyChanged, EnterFlush, ResumeFlush,
           FinishFlush, ReturnFromFlush, Write, AdmitFlush, FlushReturn, ClaimWrite, Goto, Types,
           ThreadTypes, Thread
  <2> QED
    BY <2>1, <2>2 DEF StandsBy
<1> QED
  BY <1>1, <1>2

LEMMA WorkerStepsStandBy ==
    ASSUME Types, WorkerStep
    PROVE  (\A d \in Client : StandsBy(d)) /\ UNCHANGED <<revision, closing, subscribing, publishing>>
<1>1. UNCHANGED <<revision, closing, subscribing, publishing>>
  BY DEF WorkerStep, CaptureVersion, InspectDue, InspectNotDue, Wake, FinishWorker, InspectClosing,
         ThreadOnly, saving, stopping
<1>2. \A d \in Client : pc'[d] = pc[d] /\ local'[d] = local[d]
  BY SettingsStoreAssumption
     DEF WorkerStep, CaptureVersion, InspectDue, InspectNotDue, Wake, FinishWorker, InspectClosing,
         FlushReturn, BeginFlush, ClaimWrite, Goto, Types, ThreadTypes, Thread
<1> QED
  BY <1>1, <1>2 DEF StandsBy

LEMMA ShutdownStepsStandBy ==
    ASSUME Types, NEW c \in Client,
           \/ ShutdownNotify(c) \/ FenceShutdown(c) \/ CompleteShutdownCore(c)
           \/ FollowShutdown(c) \/ Return(c)
    PROVE  (\A d \in Client : StandsBy(d)) /\ UNCHANGED <<revision, closing, subscribing, publishing>>
<1>1. UNCHANGED <<revision, closing, subscribing, publishing>>
  BY DEF ShutdownNotify, FenceShutdown, Fence, CompleteShutdownCore, FollowShutdown, Return,
         NotifyChanged, ThreadOnly, saving, stopping
<1>2. ASSUME NEW d \in Client PROVE StandsBy(d)
  <2> USE DEF ShutdownNotify, FenceShutdown, Fence, CompleteShutdownCore, FollowShutdown, Return,
              NotifyChanged, ShutdownReturn, Goto, Types, ThreadTypes, Thread
  <2>1. d # c => pc'[d] = pc[d] /\ local'[d] = local[d]
    OBVIOUS
  <2>2. \/ pc'[c] \in {"ShutdownWait", "ShutdownPublish", "FenceNotify", "DrainWait", "Ready"}
        \/ pc'[c] = "ShutdownReturned" /\ ~local'[c].result
    BY DEF Locals
  <2> QED
    BY <2>1, <2>2 DEF StandsBy
<1> QED
  BY <1>1, <1>2


(* Changes, registration and the publisher's own steps move no caller to   *)
(* where it promises something.                                            *)
LEMMA DeliveryStepsAreSound ==
    ASSUME Types, SavingSound, DeliverySound,
           \/ TakePublication \/ StopPublishing \/ CompleteCallback
           \/ \E s \in Subscriber : TryBeginCallback(s)
           \/ \E c \in Client : DrainPublications(c) \/ Commit(c) \/ CommitLoad(c)
           \/ \E c \in Client, s \in Subscriber : Subscribe(c, s)
           \/ \E c \in Client : \E mode, n : Shutdown(c, mode, n)
    PROVE  DeliverySound'
<1>1. LineSound
  BY DEF DeliverySound, LineSound
<1>2. \A d \in Client : StandsBy(d)
  BY DEF StandsBy, TakePublication, StopPublishing, CompleteCallback, TryBeginCallback,
         DrainPublications, Commit, CommitLoad, Subscribe, Shutdown, Goto, Types, ThreadTypes, Thread
<1>3. \A s \in Subscriber : subscription[s] = "Inactive" => subscription'[s] = "Inactive"
  BY DEF TakePublication, StopPublishing, CompleteCallback, TryBeginCallback, DrainPublications,
         Commit, CommitLoad, Subscribe, Shutdown, subscribing, Types, DeliveryTypes
<1>4. \/ executing' \in {executing, NoOne}
      \/ executing' \in Subscriber /\ subscription[executing'] = "Active"
  BY DEF TakePublication, StopPublishing, CompleteCallback, TryBeginCallback, DrainPublications,
         Commit, CommitLoad, Subscribe, Shutdown, publishing
<1>5. publisher' = publisher \/ executing' = NoOne
  BY <1>1 DEF TakePublication, StopPublishing, CompleteCallback, TryBeginCallback,
         DrainPublications, Commit, CommitLoad, Subscribe, Shutdown, publishing,
         IsBetweenCallbacks, LineSound, OnlyRegisteredAreCalled
<1>6. \A d \in Client : CallerSound(d)'
  BY <1>1, <1>2, <1>3, <1>4, <1>5, CallerStaysSound DEF DeliverySound
<1>7. CASE CompleteCallback \/ \E c \in Client : DrainPublications(c)
  <2>1. /\ UNCHANGED <<revision, closing, subscribing, publication, pendingPublications, delivered>>
        /\ publisher' = NoOne => executing' = NoOne
    BY <1>1, <1>7, SettingsStoreAssumption
       DEF CompleteCallback, DrainPublications, saving, stopping, Thread
  <2> QED
    BY <1>1, <1>6, <2>1, OtherLineIsSound DEF DeliverySound, LineSound
<1>8. CASE \/ TakePublication \/ StopPublishing \/ \E s \in Subscriber : TryBeginCallback(s)
           \/ \E c \in Client : Commit(c) \/ CommitLoad(c)
           \/ \E c \in Client, s \in Subscriber : Subscribe(c, s)
           \/ \E c \in Client : \E mode, n : Shutdown(c, mode, n)
  <2>1. LineSound'
    BY <1>1, <1>8, TakeLineIsSound, StopLineIsSound, CallbackLineIsSound, CommitLineIsSound,
       CommitLoadLineIsSound, SubscribeLineIsSound, ShutdownLineIsSound
  <2> QED
    BY <1>6, <2>1 DEF DeliverySound, LineSound
<1> QED
  BY <1>7, <1>8

LEMMA ResetDeliveryIsSound ==
    ASSUME Types, SavingSound, DeliverySound, NEW c \in Client, NEW s \in Subscriber, Reset(c, s)
    PROVE  DeliverySound'
<1>1. LineSound /\ \A d \in Client : CallerSound(d)
  BY DEF DeliverySound, LineSound
<1>2. /\ pc'[c] = "ResetWait" /\ local'[c].target = s /\ subscription'[s] = "Inactive"
      /\ \A u \in Subscriber : subscription[u] = "Inactive" => subscription'[u] = "Inactive"
      /\ UNCHANGED <<publisher, executing>>
  BY DEF Reset, Goto, publishing, Types, ThreadTypes, DeliveryTypes, Thread, Locals
<1>3. CallerSound(c)'
  BY <1>2 DEF CallerSound
<1>4. ASSUME NEW d \in Client, d # c PROVE CallerSound(d)'
  <2>1. StandsBy(d)
    BY <1>4 DEF StandsBy, Reset, Goto, Types, ThreadTypes, Thread
  <2> QED
    BY <1>1, <1>2, <2>1, CallerStaysSound
<1> QED
  BY <1>1, <1>3, <1>4, ResetLineIsSound DEF DeliverySound, LineSound

(* Reset waits for a callback of another thread before it erases, and      *)
(* Shutdown looks for the publisher before it answers.                     *)
LEMMA WaitsAreSound ==
    ASSUME Types, SavingSound, DeliverySound, NEW c \in Client,
           DeactivateAndWait(c) \/ EraseSubscription(c) \/ WaitForPublicationDrain(c)
    PROVE  DeliverySound'
<1>1. LineSound /\ \A d \in Client : CallerSound(d)
  BY DEF DeliverySound, LineSound
<1>2. UNCHANGED <<revision, closing, subscription, publishing>>
  BY DEF DeactivateAndWait, EraseSubscription, WaitForPublicationDrain, ThreadOnly, saving, stopping,
         subscribing
<1>3. UNCHANGED <<publisher, executing, publication, pendingPublications, delivered>>
  BY <1>2 DEF publishing
<1>4. ASSUME NEW d \in Client, d # c PROVE CallerSound(d)'
  <2>1. StandsBy(d)
    BY <1>4 DEF StandsBy, DeactivateAndWait, EraseSubscription, WaitForPublicationDrain,
                ShutdownReturn, Goto, Types, ThreadTypes, Thread
  <2> QED
    BY <1>1, <1>2, <1>3, <2>1, CallerStaysSound
<1>5. CallerSound(c)'
  <2>1. CASE DeactivateAndWait(c)
    BY <1>1, <1>2, <1>3, <2>1 DEF CallerSound, DeactivateAndWait, Goto, Types, ThreadTypes, Thread
  <2>2. CASE EraseSubscription(c)
    BY <1>1, <1>2, <1>3, <2>2 DEF CallerSound, EraseSubscription, Goto, Types, ThreadTypes, Thread
  <2>3. CASE WaitForPublicationDrain(c)
    <3>1. pc'[c] = "ShutdownReturned" /\ (local'[c].result => publisher \in {c, NoOne})
      BY <2>3 DEF WaitForPublicationDrain, ShutdownReturn, Goto, Types, ThreadTypes, Thread, Locals
    <3> QED
      BY <1>1, <1>3, <3>1 DEF CallerSound, LineSound, OnlyRegisteredAreCalled
  <2> QED
    BY <2>1, <2>2, <2>3
<1>6. LineSound'
  <2>1. CASE EraseSubscription(c)
    BY <1>1, <2>1, EraseLineIsSound
  <2>2. CASE ~EraseSubscription(c)
    <3>1. UNCHANGED subscribing
      BY <2>2 DEF DeactivateAndWait, WaitForPublicationDrain, ThreadOnly
    <3> QED
      BY <1>1, <1>2, <1>3, <3>1, OtherLineIsSound DEF LineSound, OnlyRegisteredAreCalled
  <2> QED
    BY <2>1, <2>2
<1> QED
  BY <1>4, <1>5, <1>6 DEF DeliverySound, LineSound

LEMMA DeliverySoundAtFirst == ASSUME Init PROVE DeliverySound
<1> USE SettingsStoreAssumption DEF Init
<1>1. OnlyRegisteredAreCalled
  BY DEF OnlyRegisteredAreCalled, Awaiting, InLine, NoPublication
<1>2. SubscribersMissNothing
  BY DEF SubscribersMissNothing
<1>3. \A c \in Client : CallerSound(c)
  BY DEF CallerSound, Thread
<1> QED
  BY <1>1, <1>2, <1>3 DEF DeliverySound

LEMMA DeliveryIsKept ==
    ASSUME Types, SavingSound, DeliverySound, [Next]_vars PROVE DeliverySound'
<1>1. CASE Call
  <2>1. \A s : s \in scope.observers => s \in Subscriber
    BY SettingsStoreAssumption DEF Types, Numbers
  <2>2. PICK c \in Client :
          \/ Commit(c) \/ ShutdownAgain(c) \/ Load(c)
          \/ \E n \in scope.flushAttempts, ready \in BOOLEAN : FlushNow(c, n, ready)
          \/ \E n \in scope.attempts, mode \in scope.modes : Shutdown(c, mode, n)
          \/ \E s \in scope.observers : Subscribe(c, s) \/ Reset(c, s)
    BY <1>1 DEF Call
  <2>3. CASE \/ Load(c) \/ ShutdownAgain(c)
             \/ \E n \in scope.flushAttempts, ready \in BOOLEAN : FlushNow(c, n, ready)
    BY <2>3, LoadStepsStandBy, BystandersAreSound
  <2>4. CASE \/ Commit(c) \/ \E s \in scope.observers : Subscribe(c, s)
             \/ \E n \in scope.attempts, mode \in scope.modes : Shutdown(c, mode, n)
    BY <2>1, <2>4, DeliveryStepsAreSound
  <2>5. CASE \E s \in scope.observers : Reset(c, s)
    BY <2>1, <2>5, ResetDeliveryIsSound
  <2> QED
    BY <2>2, <2>3, <2>4, <2>5
<1>2. CASE Storage \/ SaveStep
  BY <1>2, SaveStepsStandBy, BystandersAreSound DEF Storage, SaveStep
<1>3. CASE LoadStep
  <2> PICK c \in Client : \/ ReadAndDecode(c) \/ AbandonLoad(c) \/ PreserveCorrupt(c)
                          \/ CommitLoad(c) \/ LoadNotify(c)
    BY <1>3 DEF LoadStep
  <2>1. CASE CommitLoad(c)
    BY <2>1, DeliveryStepsAreSound
  <2> QED
    BY <2>1, LoadStepsStandBy, BystandersAreSound
<1>4. CASE WorkerStep
  BY <1>4, WorkerStepsStandBy, BystandersAreSound
<1>5. CASE DeliveryStep
  <2>1. CASE \E c \in Client : CommitNotify(c)
    BY <2>1, LoadStepsStandBy, BystandersAreSound
  <2> QED
    BY <1>5, <2>1, DeliveryStepsAreSound DEF DeliveryStep
<1>6. CASE ResetStep
  BY <1>6, WaitsAreSound DEF ResetStep
<1>7. CASE ShutdownStep
  <2> PICK c \in Client : \/ ShutdownNotify(c) \/ FenceShutdown(c) \/ CompleteShutdownCore(c)
                          \/ FollowShutdown(c) \/ WaitForPublicationDrain(c) \/ Return(c)
    BY <1>7 DEF ShutdownStep
  <2>1. CASE WaitForPublicationDrain(c)
    BY <2>1, WaitsAreSound
  <2> QED
    BY <2>1, ShutdownStepsStandBy, BystandersAreSound
<1>8. CASE UNCHANGED vars
  <2>1. /\ \A d \in Client : StandsBy(d)
        /\ UNCHANGED <<revision, closing, subscribing, publishing>>
    BY <1>8 DEF vars, StandsBy, saving, stopping
  <2> QED
    BY <2>1, BystandersAreSound
<1> QED
  BY <1>1, <1>2, <1>3, <1>4, <1>5, <1>6, <1>7, <1>8 DEF Next

LEMMA StoreIsSound == Spec => [](Types /\ SavingSound /\ DeliverySound)
<1>1. Init => Types /\ SavingSound /\ DeliverySound
  BY TypesAtFirst, SavingSoundAtFirst, DeliverySoundAtFirst
<1>2. Types /\ SavingSound /\ DeliverySound /\ [Next]_vars
        => (Types /\ SavingSound /\ DeliverySound)'
  BY TypesAreKept, SavingIsKept, DeliveryIsKept
<1> QED
  BY <1>1, <1>2, PTL DEF Spec

(* What FlushNow, Reset and Shutdown answer is so, with any number of      *)
(* threads: true from FlushNow means everything committed before is in the *)
(* file, true from Shutdown means the newest revision is and no foreign    *)
(* callback runs, and after Reset no other thread is in the callback.      *)
THEOREM AnswersHold == Spec => []AnswersAreTrue
<1>1. Types /\ SavingSound /\ DeliverySound => AnswersAreTrue
  <2> SUFFICES ASSUME SavingSound, DeliverySound PROVE AnswersAreTrue
    OBVIOUS
  <2>1. FlushTrueMeansSaved
    BY DEF FlushTrueMeansSaved, SavingSound, ThreadSound
  <2>2. ShutdownTrueMeansSaved
    BY DEF ShutdownTrueMeansSaved, SavingSound, ThreadSound, Done, Thread
  <2>3. ShutdownTrueMeansQuiet /\ NoCallbackAfterReset
    BY DEF ShutdownTrueMeansQuiet, NoCallbackAfterReset, DeliverySound, CallerSound
  <2> QED
    BY <2>1, <2>2, <2>3 DEF AnswersAreTrue
<1> QED
  BY <1>1, StoreIsSound, PTL

(* Every subscriber is given every revision committed while it is          *)
(* registered, each once and in order, with any number of subscribers and  *)
(* threads and a queue of any length (Commit, DrainPublications).          *)
THEOREM NoRevisionIsMissed == Spec => []SubscribersMissNothing
<1>1. Types /\ SavingSound /\ DeliverySound => SubscribersMissNothing
  BY DEF DeliverySound
<1> QED
  BY <1>1, StoreIsSound, PTL
=============================================================================
