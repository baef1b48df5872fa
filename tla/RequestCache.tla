---------------------------- MODULE RequestCache ----------------------------
(***************************************************************************)
(* The answers the control server keeps, so that a command sent twice runs *)
(* once (CommandLineControlServer.cpp, "Request Deduplication").           *)
(*                                                                         *)
(* The fields m_requestMutex guards are one record                         *)
(*     records   m_requestRecords: a correlation id's record, or NoRecord  *)
(*     pending   m_pendingDeliveries: dispatched and not yet executed      *)
(*     bytes     m_requestCacheBytes                                       *)
(*     pruneAt   the due time of m_requestPruneTimer, or Never             *)
(* and each function of the source that works under the mutex is an        *)
(* operator from the cache to the cache.  A record's shared_ptr identity   *)
(* is `run', the number of the execution it was made for.                  *)
(***************************************************************************)
EXTENDS Naturals, FiniteSets, FiniteSetsExt

CONSTANTS
    Id,                     \* correlation ids
    Body,                   \* the command, target, flags and payload of a request
    MaxRequestRecords,      \* Options::MaxRequestRecords
    MaxRequestCacheBytes,   \* Options::MaxRequestCacheBytes, in units of a finished record
    ReservedBytes,          \* what a record takes until its answer is known
    RequestRecordLifetime,  \* Options::RequestRecordLifetime
    AcknowledgedLifetime,   \* Options::AcknowledgedRecordLifetime
    Horizon                 \* the bound on the clock

ASSUME CacheAssumption ==
    /\ MaxRequestRecords \in Nat \ {0}
    /\ ReservedBytes \in Nat \ {0} /\ ReservedBytes <= MaxRequestCacheBytes
    /\ {MaxRequestCacheBytes, RequestRecordLifetime, AcknowledgedLifetime, Horizon} \subseteq Nat

Request == [id : Id, body : Body]
Never == Horizon + RequestRecordLifetime + AcknowledgedLifetime + 1

\* An answer is what the handler returned in its n-th run, or a code of the server's own.
ServerCode == {"InvalidRequest", "Unavailable", "Busy", "OperationFailed"}
NoRecord == [run |-> 0]
FinishedBytes == 1

EmptyCache == [records |-> [id \in Id |-> NoRecord], pending |-> [id \in Id |-> 0],
               bytes |-> 0, pruneAt |-> Never]

Kept(cache) == {id \in Id : cache.records[id] # NoRecord}

\* The time a record lives and what it is counted from.
Retention(record) == IF record.acknowledged THEN AcknowledgedLifetime ELSE RequestRecordLifetime
RetainedSince(record) == IF record.acknowledged THEN record.delivered ELSE record.completed

IsIdleWhateverPends(cache, id) ==
    cache.records[id].complete /\ cache.records[id].active = 0

\* No delivery, started or about to start, needs the record.
IsIdle(cache, id) ==
    /\ cache.records[id].complete
    /\ cache.records[id].active = 0
    /\ cache.pending[id] = 0

Without(cache, gone) ==
    [cache EXCEPT !.records = [id \in Id |-> IF id \in gone THEN NoRecord ELSE @[id]],
                  !.bytes = @ - MapThenSumSet(LAMBDA id : cache.records[id].bytes, gone)]

\* PruneRequestRecords: the idle records whose time is over.
PruneRequestRecords(cache, now) ==
    Without(cache, {id \in Kept(cache) :
        /\ IsIdle(cache, id)
        /\ now - RetainedSince(cache.records[id]) >= Retention(cache.records[id])})

\* ScheduleRequestPruneLocked: one timer, for the idle record that expires first.
Expiries(cache) ==
    {RetainedSince(cache.records[id]) + Retention(cache.records[id]) :
        id \in {k \in Kept(cache) : IsIdle(cache, k)}}

ScheduleRequestPruneLocked(cache) ==
    [cache EXCEPT !.pruneAt = IF Expiries(cache) = {} THEN Never ELSE Min(Expiries(cache))]

PruneAndSchedule(cache, now) ==
    ScheduleRequestPruneLocked(PruneRequestRecords(cache, now))

\* DispatchRequestLocked: the request is registered before its handler is queued.
RegisterPending(cache, id) == [cache EXCEPT !.pending[id] = @ + 1]

CompletePendingUnscheduled(cache, id) ==
    [cache EXCEPT !.pending[id] = IF @ > 0 THEN @ - 1 ELSE 0]

CompletePendingDelivery(cache, id) ==
    ScheduleRequestPruneLocked([cache EXCEPT !.pending[id] = IF @ > 0 THEN @ - 1 ELSE 0])

\* A delivery ends, answered by the client's acknowledgement or not.
CompleteDelivery(cache, id, run, acknowledged, now) ==
    IF cache.records[id].run # run \/ ~cache.records[id].complete THEN cache
    ELSE PruneAndSchedule(
            [cache EXCEPT !.records[id].active = IF @ > 0 THEN @ - 1 ELSE 0,
                          !.records[id].acknowledged = @ \/ acknowledged,
                          !.records[id].delivered = now], now)

(***************************************************************************)
(* ExecuteOnce, admission of a request no record exists for.               *)
(***************************************************************************)
LacksCapacity(cache) ==
    \/ Cardinality(Kept(cache)) >= MaxRequestRecords
    \/ cache.bytes + ReservedBytes > MaxRequestCacheBytes

Evictable(cache) ==
    {id \in Kept(cache) : IsIdle(cache, id) /\ cache.records[id].acknowledged}

\* The sets the loop can drop: longest delivered first, until there is room or
\* nothing is left to drop, and not one more.
Evictions(cache) ==
    LET delivered(id) == cache.records[id].delivered
    IN {gone \in SUBSET Evictable(cache) :
          /\ \A id \in gone, other \in Evictable(cache) \ gone : delivered(id) <= delivered(other)
          /\ LacksCapacity(Without(cache, gone)) => gone = Evictable(cache)
          /\ gone # {} => \E last \in gone :
                /\ \A id \in gone : delivered(id) <= delivered(last)
                /\ LacksCapacity(Without(cache, gone \ {last}))}

NewRecord(cache, request, run) ==
    [cache EXCEPT !.records[request.id] =
                      [run |-> run, body |-> request.body, complete |-> FALSE, active |-> 0,
                       acknowledged |-> FALSE, completed |-> 0, delivered |-> 0,
                       bytes |-> ReservedBytes],
                  !.bytes = @ + ReservedBytes]

\* The execution is over: the answer is stored and one delivery of it is claimed.
CompleteRecord(cache, id, run, now) ==
    IF cache.records[id].run # run THEN cache
    ELSE PruneAndSchedule(
            [cache EXCEPT !.records[id].complete = TRUE,
                          !.records[id].active = @ + 1,
                          !.records[id].completed = now,
                          !.records[id].bytes = FinishedBytes,
                          !.bytes = @ - (cache.records[id].bytes - FinishedBytes)], now)

\* Stop: what was never finished is dropped, what was finished outlives the restart.
StopCache(cache) ==
    LET kept == Without([cache EXCEPT !.pending = [id \in Id |-> 0]],
                        {id \in Kept(cache) : ~cache.records[id].complete})
    IN ScheduleRequestPruneLocked(
          [kept EXCEPT !.records = [id \in Id |->
              IF kept.records[id] = NoRecord THEN NoRecord
              ELSE [kept.records[id] EXCEPT !.active = 0]]])
=============================================================================
