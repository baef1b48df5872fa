-------------------------- MODULE ControlPipeProofs --------------------------
(***************************************************************************)
(* The connections of the control channel, for every set of clients and    *)
(* pipe instances: what a slot, its pipe and the client on it can be at    *)
(* the same time (Sound), and that a running server never loses a pipe     *)
(* instance (NoInstanceIsLost).                                            *)
(*                                                                         *)
(* The invariant speaks of one slot, of a slot with its pipe, and of one   *)
(* client at a time.  A step of the server changes one slot and its pipe   *)
(* and takes nothing new into the pipe (SlotStep); a step of a client      *)
(* changes that client and pipes it owns.  Nothing here depends on what is *)
(* in the cache.                                                           *)
(***************************************************************************)
EXTENDS ControlChannel, TLAPS

(***************************************************************************)
(* What each operation of the request cache does to the record and to the  *)
(* registrations of an id, for every cache, every limit and every time.    *)
(* The proofs about the channel rest on these lemmas and never look inside *)
(* the operations again.                                                   *)
(***************************************************************************)

Record == [run : Nat \ {0}, body : Body, complete : BOOLEAN, active : Nat,
           acknowledged : BOOLEAN, completed : Nat, delivered : Nat, bytes : Nat]

(* The types of a cache; its byte count and its timer are left to TLC.     *)
CacheTyped(c) ==
    /\ DOMAIN c = {"records", "pending", "bytes", "pruneAt"}
    /\ c.records \in [Id -> Record \cup {NoRecord}]
    /\ c.pending \in [Id -> Nat]

(* A record that nothing delivers and nothing is about to deliver.         *)
Idle(r, pending) == r # NoRecord /\ r.complete /\ r.active = 0 /\ pending = 0

(* What pruning leaves of a record: nothing, if it is idle and its time is *)
(* over.                                                                   *)
Expired(r, pending, time) == Idle(r, pending) /\ time - RetainedSince(r) >= Retention(r)
Pruned(r, pending, time) == IF Expired(r, pending, time) THEN NoRecord ELSE r

-----------------------------------------------------------------------------
(* A record and the absence of one.                                        *)

LEMMA NoRecordHasNoRun ==
    ASSUME NEW r \in Record \cup {NoRecord}
    PROVE  (r = NoRecord <=> r.run = 0) /\ (r # NoRecord <=> r \in Record)
BY DEF Record, NoRecord

(* Dropping records drops exactly them.                                    *)
LEMMA WithoutForm ==
    ASSUME NEW c, CacheTyped(c), NEW gone \in SUBSET Id
    PROVE  LET d == Without(c, gone)
           IN /\ CacheTyped(d)
              /\ d.pending = c.pending
              /\ \A id \in Id : d.records[id] = IF id \in gone THEN NoRecord ELSE c.records[id]
<1> DEFINE b == c.bytes - MapThenSumSet(LAMBDA id : c.records[id].bytes, gone)
           r == [id \in Id |-> IF id \in gone THEN NoRecord ELSE c.records[id]]
<1>1. Without(c, gone) = [c EXCEPT !.records = r, !.bytes = b]
    BY DEF Without
<1> HIDE DEF b
<1>3. r \in [Id -> Record \cup {NoRecord}]
    BY DEF CacheTyped
<1> QED BY <1>1, <1>3 DEF CacheTyped

(* PruneRequestRecords drops the expired records and nothing else.         *)
LEMMA PruneForm ==
    ASSUME NEW c, CacheTyped(c), NEW time \in Nat
    PROVE  LET d == PruneRequestRecords(c, time)
           IN /\ CacheTyped(d)
              /\ d.pending = c.pending
              /\ \A id \in Id : d.records[id] = Pruned(c.records[id], c.pending[id], time)
<1> DEFINE gone == {id \in Kept(c) : /\ IsIdle(c, id)
                                     /\ time - RetainedSince(c.records[id]) >= Retention(c.records[id])}
<1>1. gone \in SUBSET Id
    BY DEF Kept
<1>2. PruneRequestRecords(c, time) = Without(c, gone)
    BY DEF PruneRequestRecords
<1>3. \A id \in Id : id \in gone <=> Expired(c.records[id], c.pending[id], time)
    BY DEF Kept, Expired, Idle, IsIdle
<1> HIDE DEF gone
<1> QED BY <1>1, <1>2, <1>3, WithoutForm DEF Pruned

(* ScheduleRequestPruneLocked sets the timer and nothing else.             *)
LEMMA ScheduleForm ==
    ASSUME NEW c, CacheTyped(c)
    PROVE  LET d == ScheduleRequestPruneLocked(c)
           IN CacheTyped(d) /\ d.pending = c.pending /\ d.records = c.records
<1> DEFINE at == IF Expiries(c) = {} THEN Never ELSE Min(Expiries(c))
<1>1. ScheduleRequestPruneLocked(c) = [c EXCEPT !.pruneAt = at]
    BY DEF ScheduleRequestPruneLocked
<1> HIDE DEF at
<1> QED BY <1>1 DEF CacheTyped

LEMMA PruneAndScheduleForm ==
    ASSUME NEW c, CacheTyped(c), NEW time \in Nat
    PROVE  LET d == PruneAndSchedule(c, time)
           IN /\ CacheTyped(d)
              /\ d.pending = c.pending
              /\ \A id \in Id : d.records[id] = Pruned(c.records[id], c.pending[id], time)
BY PruneForm, ScheduleForm DEF PruneAndSchedule

(* DispatchRequestLocked registers a request and keeps every record.       *)
LEMMA RegisterForm ==
    ASSUME NEW c, CacheTyped(c), NEW id \in Id
    PROVE  LET d == RegisterPending(c, id)
           IN /\ CacheTyped(d)
              /\ d.records = c.records
              /\ d.pending = [c.pending EXCEPT ![id] = c.pending[id] + 1]
BY DEF CacheTyped, RegisterPending

(* CompletePendingDelivery ends one registration and keeps every record.   *)
Less(n) == IF n > 0 THEN n - 1 ELSE 0

LEMMA LessType == ASSUME NEW n \in Nat PROVE Less(n) \in Nat
BY DEF Less

LEMMA CompletePendingForm ==
    ASSUME NEW c, CacheTyped(c), NEW id \in Id
    PROVE  LET d == CompletePendingDelivery(c, id)
           IN /\ CacheTyped(d)
              /\ d.records = c.records
              /\ d.pending = [c.pending EXCEPT ![id] = Less(c.pending[id])]
<1> DEFINE e == [c EXCEPT !.pending[id] = Less(c.pending[id])]
<1>1. CompletePendingDelivery(c, id) = ScheduleRequestPruneLocked(e)
    BY DEF CompletePendingDelivery, Less
<1>2. Less(c.pending[id]) \in Nat
    BY LessType DEF CacheTyped
<1>3. CacheTyped(e) /\ e.records = c.records /\ e.pending = [c.pending EXCEPT ![id] = Less(c.pending[id])]
    BY <1>2 DEF CacheTyped
<1> HIDE DEF e
<1> QED BY <1>1, <1>3, ScheduleForm

(* A record a delivery of which ends.                                      *)
Delivered(r, acknowledged, time) ==
    [r EXCEPT !.active = Less(r.active), !.acknowledged = r.acknowledged \/ acknowledged,
              !.delivered = time]

LEMMA DeliveredForm ==
    ASSUME NEW r \in Record, NEW acknowledged \in BOOLEAN, NEW time \in Nat
    PROVE  LET d == Delivered(r, acknowledged, time)
           IN /\ d \in Record
              /\ d.run = r.run /\ d.body = r.body /\ d.complete = r.complete
              /\ d.active = Less(r.active) /\ d.acknowledged = (r.acknowledged \/ acknowledged)
              /\ d.completed = r.completed /\ d.delivered = time
BY LessType DEF Delivered, Record

(* CompleteDelivery ends a delivery of a finished record and prunes.       *)
LEMMA CompleteDeliveryForm ==
    ASSUME NEW c, CacheTyped(c), NEW id \in Id, NEW acknowledged \in BOOLEAN, NEW time \in Nat,
           c.records[id] # NoRecord, c.records[id].complete
    PROVE  LET d == CompleteDelivery(c, id, c.records[id].run, acknowledged, time)
           IN /\ CacheTyped(d)
              /\ d.pending = c.pending
              /\ d.records[id] = Pruned(Delivered(c.records[id], acknowledged, time), c.pending[id], time)
              /\ \A k \in Id \ {id} : d.records[k] = Pruned(c.records[k], c.pending[k], time)
<1> DEFINE e == [c EXCEPT !.records[id].active = Less(c.records[id].active),
                          !.records[id].acknowledged = c.records[id].acknowledged \/ acknowledged,
                          !.records[id].delivered = time]
<1>1. CompleteDelivery(c, id, c.records[id].run, acknowledged, time) = PruneAndSchedule(e, time)
    BY DEF CompleteDelivery, Less
<1>2. c.records[id] \in Record
    BY NoRecordHasNoRun DEF CacheTyped
<1>3. DOMAIN e = DOMAIN c /\ e.pending = c.pending
    BY DEF CacheTyped
<1>4. e.records = [c.records EXCEPT ![id] = Delivered(c.records[id], acknowledged, time)]
    BY <1>2 DEF CacheTyped, Delivered, Record
<1> HIDE DEF e
<1>5. CacheTyped(e)
  <2>1. Delivered(c.records[id], acknowledged, time) \in Record
    BY <1>2, DeliveredForm
  <2>2. e.records \in [Id -> Record \cup {NoRecord}]
    BY <1>4, <2>1 DEF CacheTyped
  <2> QED BY <1>3, <2>2 DEF CacheTyped
<1> DEFINE d == PruneAndSchedule(e, time)
<1>6. /\ CacheTyped(d) /\ d.pending = e.pending
      /\ \A k \in Id : d.records[k] = Pruned(e.records[k], e.pending[k], time)
    BY <1>5, PruneAndScheduleForm
<1> HIDE DEF d
<1>7. /\ e.records[id] = Delivered(c.records[id], acknowledged, time)
      /\ \A k \in Id \ {id} : e.records[k] = c.records[k]
    BY <1>4 DEF CacheTyped
<1>8. d.records[id] = Pruned(Delivered(c.records[id], acknowledged, time), c.pending[id], time)
    BY <1>3, <1>6, <1>7
<1>9. \A k \in Id \ {id} : d.records[k] = Pruned(c.records[k], c.pending[k], time)
    BY <1>3, <1>6, <1>7
<1> QED BY <1>1, <1>3, <1>6, <1>8, <1>9 DEF d

(* Whatever record it names, the result is a cache.                        *)
LEMMA CompleteDeliveryType ==
    ASSUME NEW c, CacheTyped(c), NEW id \in Id, NEW run \in Nat \ {0}, NEW acknowledged \in BOOLEAN,
           NEW time \in Nat
    PROVE  CacheTyped(CompleteDelivery(c, id, run, acknowledged, time))
<1>1. CASE c.records[id].run # run \/ ~c.records[id].complete
    BY <1>1 DEF CompleteDelivery
<1>2. CASE c.records[id].run = run /\ c.records[id].complete
  <2>1. c.records[id] # NoRecord
    BY <1>2 DEF NoRecord
  <2> QED BY <1>2, <2>1, CompleteDeliveryForm
<1> QED BY <1>1, <1>2

(* The record of an execution that is over, its first delivery claimed.    *)
Completed(r, time) ==
    [r EXCEPT !.complete = TRUE, !.active = r.active + 1, !.completed = time, !.bytes = FinishedBytes]

LEMMA CompletedForm ==
    ASSUME NEW r \in Record, NEW time \in Nat
    PROVE  LET d == Completed(r, time)
           IN /\ d \in Record
              /\ d.run = r.run /\ d.body = r.body /\ d.complete
              /\ d.active = r.active + 1 /\ d.acknowledged = r.acknowledged
              /\ d.completed = time /\ d.delivered = r.delivered
<1> DEFINE d == Completed(r, time)
<1>1. r.active + 1 \in Nat /\ FinishedBytes \in Nat /\ DOMAIN d = DOMAIN r
    BY DEF Completed, Record, FinishedBytes
<1>2. d.active = r.active + 1 /\ d.completed = time /\ d.complete = TRUE /\ d.bytes = FinishedBytes
    BY DEF Completed, Record
<1>3. /\ d.run = r.run /\ d.body = r.body /\ d.acknowledged = r.acknowledged
      /\ d.delivered = r.delivered
    BY DEF Completed, Record
<1>4. d \in Record
    BY <1>1 DEF Completed, Record
<1> QED BY <1>2, <1>3, <1>4

(* CompleteRecord stores the answer and prunes.                            *)
LEMMA CompleteRecordForm ==
    ASSUME NEW c, CacheTyped(c), NEW id \in Id, NEW time \in Nat, c.records[id] # NoRecord
    PROVE  LET d == CompleteRecord(c, id, c.records[id].run, time)
           IN /\ CacheTyped(d)
              /\ d.pending = c.pending
              /\ d.records[id] = Pruned(Completed(c.records[id], time), c.pending[id], time)
              /\ \A k \in Id \ {id} : d.records[k] = Pruned(c.records[k], c.pending[k], time)
<1> DEFINE e == [c EXCEPT !.records[id].complete = TRUE,
                          !.records[id].active = c.records[id].active + 1,
                          !.records[id].completed = time,
                          !.records[id].bytes = FinishedBytes,
                          !.bytes = c.bytes - (c.records[id].bytes - FinishedBytes)]
<1>1. CompleteRecord(c, id, c.records[id].run, time) = PruneAndSchedule(e, time)
    BY DEF CompleteRecord
<1>2. c.records[id] \in Record
    BY NoRecordHasNoRun DEF CacheTyped
<1>3. DOMAIN e = DOMAIN c /\ e.pending = c.pending
    BY DEF CacheTyped
<1>4. e.records = [c.records EXCEPT ![id] = Completed(c.records[id], time)]
    BY <1>2 DEF CacheTyped, Completed, Record
<1> HIDE DEF e
<1>5. CacheTyped(e)
    BY <1>2, <1>3, <1>4, CompletedForm DEF CacheTyped
<1> DEFINE d == PruneAndSchedule(e, time)
<1>6. /\ CacheTyped(d) /\ d.pending = e.pending
      /\ \A k \in Id : d.records[k] = Pruned(e.records[k], e.pending[k], time)
    BY <1>5, PruneAndScheduleForm
<1> HIDE DEF d
<1>7. /\ e.records[id] = Completed(c.records[id], time)
      /\ \A k \in Id \ {id} : e.records[k] = c.records[k]
    BY <1>4 DEF CacheTyped
<1>8. d.records[id] = Pruned(Completed(c.records[id], time), c.pending[id], time)
    BY <1>3, <1>6, <1>7
<1>9. \A k \in Id \ {id} : d.records[k] = Pruned(c.records[k], c.pending[k], time)
    BY <1>3, <1>6, <1>7
<1> QED BY <1>1, <1>3, <1>6, <1>8, <1>9 DEF d

LEMMA CompleteRecordType ==
    ASSUME NEW c, CacheTyped(c), NEW id \in Id, NEW run \in Nat, NEW time \in Nat
    PROVE  run # 0 => CacheTyped(CompleteRecord(c, id, run, time))
<1> SUFFICES ASSUME run # 0 PROVE CacheTyped(CompleteRecord(c, id, run, time))
    OBVIOUS
<1>1. CASE c.records[id].run # run
    BY <1>1 DEF CompleteRecord
<1>2. CASE c.records[id].run = run
  <2>1. c.records[id] # NoRecord
    BY <1>2 DEF NoRecord
  <2> QED BY <1>2, <2>1, CompleteRecordForm
<1> QED BY <1>1, <1>2

(* A waiting request takes the answer of a finished record.                *)
Claimed(r) == [r EXCEPT !.active = r.active + 1]

LEMMA ClaimForm ==
    ASSUME NEW c, CacheTyped(c), NEW id \in Id, c.records[id] # NoRecord
    PROVE  LET d == [c EXCEPT !.records[id].active = @ + 1]
               r == Claimed(c.records[id])
           IN /\ CacheTyped(d)
              /\ d.pending = c.pending
              /\ d.records = [c.records EXCEPT ![id] = r]
              /\ r \in Record /\ r.active = c.records[id].active + 1
              /\ r.run = c.records[id].run /\ r.body = c.records[id].body
              /\ r.complete = c.records[id].complete /\ r.acknowledged = c.records[id].acknowledged
              /\ r.completed = c.records[id].completed
<1>1. c.records[id] \in Record
    BY NoRecordHasNoRun DEF CacheTyped
<1>2. Claimed(c.records[id]) \in Record
    BY <1>1 DEF Record, Claimed
<1> QED BY <1>1, <1>2 DEF CacheTyped, Claimed, Record

(* Eviction drops acknowledged records that nothing needs, nothing else.   *)
LEMMA EvictionForm ==
    ASSUME NEW c, CacheTyped(c), NEW gone \in Evictions(c)
    PROVE  LET d == Without(c, gone)
           IN /\ CacheTyped(d)
              /\ d.pending = c.pending
              /\ \A id \in Id : \/ d.records[id] = c.records[id]
                                 \/ /\ d.records[id] = NoRecord
                                    /\ Idle(c.records[id], c.pending[id]) /\ c.records[id].acknowledged
<1>1. gone \in SUBSET Evictable(c)
    BY DEF Evictions
<1>2. gone \in SUBSET Id
    BY <1>1 DEF Evictable, Kept
<1>3. \A id \in gone : Idle(c.records[id], c.pending[id]) /\ c.records[id].acknowledged
    BY <1>1 DEF Evictable, Kept, Idle, IsIdle
<1> QED BY <1>2, <1>3, WithoutForm

(* ExecuteOnce makes the record of the request it is about to execute.     *)
LEMMA NewRecordForm ==
    ASSUME NEW c, CacheTyped(c), NEW request \in Request, NEW run \in Nat \ {0}
    PROVE  LET d == NewRecord(c, request, run)
           IN /\ CacheTyped(d)
              /\ d.pending = c.pending
              /\ d.records[request.id] \in Record
              /\ d.records[request.id].run = run /\ d.records[request.id].body = request.body
              /\ ~d.records[request.id].complete /\ ~d.records[request.id].acknowledged
              /\ d.records[request.id].active = 0
              /\ \A k \in Id \ {request.id} : d.records[k] = c.records[k]
<1> DEFINE r == [run |-> run, body |-> request.body, complete |-> FALSE, active |-> 0,
                 acknowledged |-> FALSE, completed |-> 0, delivered |-> 0, bytes |-> ReservedBytes]
           d == NewRecord(c, request, run)
<1>1. r \in Record /\ request.id \in Id
    BY CacheAssumption DEF Record, Request
<1>2. DOMAIN d = DOMAIN c /\ d.pending = c.pending
    BY DEF CacheTyped, NewRecord
<1>3. d.records = [c.records EXCEPT ![request.id] = r]
    BY DEF CacheTyped, NewRecord
<1>4. r.run = run /\ r.body = request.body /\ ~r.complete /\ ~r.acknowledged /\ r.active = 0
    OBVIOUS
<1> HIDE DEF r, d
<1>5. d.records[request.id] = r /\ \A k \in Id \ {request.id} : d.records[k] = c.records[k]
    BY <1>1, <1>3 DEF CacheTyped
<1>6. CacheTyped(d)
    BY <1>1, <1>2, <1>3 DEF CacheTyped
<1> QED BY <1>1, <1>2, <1>4, <1>5, <1>6 DEF d

(* Stop drops what was never finished and ends every delivery; a finished  *)
(* record stays what it is.                                                *)
Settled(r) == [r EXCEPT !.active = 0]

LEMMA SettledForm ==
    ASSUME NEW r \in Record
    PROVE  LET d == Settled(r)
           IN /\ d \in Record /\ d.active = 0 /\ d.run = r.run /\ d.body = r.body
              /\ d.complete = r.complete /\ d.acknowledged = r.acknowledged
              /\ d.completed = r.completed
BY DEF Settled, Record

LEMMA StopCacheForm ==
    ASSUME NEW c, CacheTyped(c)
    PROVE  LET d == StopCache(c)
           IN /\ CacheTyped(d)
              /\ d.pending = [id \in Id |-> 0]
              /\ \A id \in Id : d.records[id] =
                    IF c.records[id] # NoRecord /\ c.records[id].complete
                    THEN Settled(c.records[id]) ELSE NoRecord
<1> DEFINE gone == {id \in Kept(c) : ~c.records[id].complete}
           a == [c EXCEPT !.pending = [id \in Id |-> 0]]
           k == Without(a, gone)
           m == [id \in Id |-> IF k.records[id] = NoRecord THEN NoRecord ELSE Settled(k.records[id])]
           e == [k EXCEPT !.records = m]
<1>1. StopCache(c) = ScheduleRequestPruneLocked(e)
    BY DEF StopCache, Settled
<1>2. gone \in SUBSET Id /\ \A id \in Id : id \in gone <=> c.records[id] # NoRecord /\ ~c.records[id].complete
    BY DEF Kept
<1>3. CacheTyped(a) /\ a.pending = [id \in Id |-> 0] /\ a.records = c.records
    BY DEF CacheTyped
<1> HIDE DEF gone, a
<1>4. /\ CacheTyped(k) /\ k.pending = a.pending
      /\ \A id \in Id : k.records[id] = IF id \in gone THEN NoRecord ELSE a.records[id]
    BY <1>2, <1>3, WithoutForm
<1> HIDE DEF k
<1>5. m \in [Id -> Record \cup {NoRecord}]
    BY <1>4, NoRecordHasNoRun, SettledForm DEF CacheTyped
<1>6. \A id \in Id : m[id] = IF c.records[id] # NoRecord /\ c.records[id].complete
                             THEN Settled(c.records[id]) ELSE NoRecord
    BY <1>2, <1>3, <1>4
<1> HIDE DEF m
<1>7. CacheTyped(e) /\ e.pending = k.pending /\ e.records = m
    BY <1>4, <1>5 DEF CacheTyped
<1> HIDE DEF e
<1> QED BY <1>1, <1>3, <1>4, <1>6, <1>7, ScheduleForm
-----------------------------------------------------------------------------
(* The connections.                                                        *)

Life == [desired : BOOLEAN, running : BOOLEAN, starting : BOOLEAN, stopping : BOOLEAN,
         stopRequested : BOOLEAN, deferred : BOOLEAN, retry : BOOLEAN, token : BOOLEAN]

Job == [request : Request \cup {NoRequest}, pending : BOOLEAN, run : Nat,
        code : {"Result"} \cup ServerCode, mutation : BOOLEAN]

Slot == [phase : Phase, request : Request \cup {NoRequest}, deadline : Nat,
         answer : Answer \cup {NoAnswer}, pending : BOOLEAN, record : Nat, failures : Nat,
         recreateRequired : BOOLEAN, recreateScheduled : BOOLEAN, rearm : BOOLEAN, pc : Pc,
         job : Job]

Pipe == [state : PipeState, client : Client \cup {NoClient}, closed : BOOLEAN,
         request : Request \cup {NoRequest}, answer : Answer \cup {NoAnswer},
         acknowledged : BOOLEAN]

CallState == [pc : {"idle", "opening", "writing", "reading", "done"}, attempt : Attempt,
              replays : 0 .. MaxReplayAttempts, expected : Nat, deadline : Nat,
              outcome : {"none", "complete", "unavailable", "indeterminate"},
              answer : Answer \cup {NoAnswer}]

Typed ==
    /\ life \in Life
    /\ slot \in [Instance -> Slot]
    /\ pipe \in [Instance -> Pipe]
    /\ client \in [Client -> CallState]
    /\ wire \in [Client -> Request]
    /\ epoch \in Nat \ {0} /\ now \in 0 .. Horizon /\ budget \in [Event -> Nat]
    /\ executed \in [Request -> Nat] /\ mutationActive \in BOOLEAN
    /\ CacheTyped(cache)

-----------------------------------------------------------------------------
(* The parts of the invariant.                                             *)

Distinct == \A c, d \in Client : wire[c] = wire[d] => c = d

(* No callback is at work before the server runs: the slots are new.  A    *)
(* server that is to stop does not run.                                    *)
Fallow ==
    /\ life.starting \/ life.retry \/ (~life.running /\ ~life.stopRequested) =>
            ~life.running /\ \A i \in Instance : slot[i] = NewSlot(FALSE)
    /\ life.stopRequested \/ life.stopping => ~life.running

(* The callbacks that carry a request, and the phases with one read.       *)
Executing == {"handling", "dispatched"}
Attached == {"waiting"} \cup Executing
Carrying == {"begun"} \cup Attached
Working == Carrying \cup {"answered", "responding"}
Served == {"RunningHandler", "WritingResponse", "ReadingAcknowledgement"}

(* Which callback can be at work in which phase, and what it holds.        *)
SlotSound(s) ==
    /\ s.phase = "Disconnected" => s.pc \in {"none", "recreating", "creating"}
    /\ s.phase = "Connecting" => s.pc \in {"none", "connected"}
    /\ s.phase = "RunningHandler" => s.pc \in {"none", "queued"} \cup Working
    /\ s.phase \in {"ReadingRequest", "WritingResponse", "ReadingAcknowledgement"} => s.pc = "none"
    /\ s.rearm => s.phase = "Disconnected" /\ s.pc = "none"
    /\ s.recreateScheduled => s.pc \in {"recreating", "creating"}
    /\ s.pc = "recreating" => s.recreateRequired
    /\ s.pending <=> s.pc = "queued"
    /\ s.phase \in Served => s.request \in Request
    /\ s.pc \in Working => s.job.request = s.request
    /\ s.pc \in Carrying => s.job.pending
    /\ s.job.pending => s.pc \in Working \ {"responding"}
    /\ s.pc = "begun" => s.job.code # "Result"
    /\ s.pc \in Working /\ s.job.code = "Result" => s.job.run # 0
    /\ s.pc \in Attached => s.job.run # 0
    /\ s.record # 0 => s.phase \in {"WritingResponse", "ReadingAcknowledgement"}

(* A slot and its pipe: the pipe is open in the phases that need it, and a *)
(* request that was read is that of the client on the pipe, which does not *)
(* write another and reads only the answer.                                *)
Linked(s, p) ==
    /\ s.phase = "Disconnected" => p.state \in {"absent", "fresh", "idle"}
    /\ s.phase = "Connecting" => p.state \in {"listening", "connected"}
    /\ s.pc = "connected" \/ s.phase \in {"ReadingRequest"} \cup Served => p.state = "connected"
    /\ p.state \in {"absent", "idle", "listening"} => p.client = NoClient
    /\ p.state = "connected" => p.client \in Client
    /\ p.request # NoRequest => p.client \in Client /\ p.request = wire[p.client]
    /\ s.phase \in Served =>
            /\ s.request = wire[p.client]
            /\ p.request = NoRequest
            /\ ~p.closed => client[p.client].pc # "writing"
    /\ p.answer # NoAnswer => s.phase = "ReadingAcknowledgement"
    /\ p.acknowledged => s.phase = "ReadingAcknowledgement"

(* A connection is taken up within the time of its call, and what it sends *)
(* is read within the request's time after that.                           *)
Timely(s, p, running) ==
    p.client \in Client =>
        LET deadline == client[p.client].deadline
        IN /\ p.state = "fresh" \/ (running /\ s.phase = "Connecting") => now < deadline
           /\ running /\ s.phase = "ReadingRequest" => s.deadline <= deadline + RequestTimeout

(* NoInstanceIsLost for one slot that is not at work.                      *)
Retried(s, running) == running /\ s.phase = "Disconnected" => s.rearm \/ s.pc # "none"

InstanceSound(s, p, running) ==
    SlotSound(s) /\ Linked(s, p) /\ Timely(s, p, running) /\ Retried(s, running)

(* Where a client and the copies of its request are.                       *)
ClientSound(c) ==
    /\ \A i \in Instance : Owns(i, c) =>
            client[c].expected = epoch /\ client[c].pc \in {"writing", "reading"}
    /\ \A i, j \in Instance : Owns(i, c) /\ Owns(j, c) => i = j
    /\ \A i \in Instance : pipe[i].request = wire[c] =>
            /\ client[c].pc \in {"reading", "done"}
            /\ client[c].pc = "reading" => Owns(i, c)
    /\ \A i \in Instance : pipe[i].client = c => client[c].expected # NoServer
    /\ \A i \in Instance : pipe[i].client = c /\ pipe[i].acknowledged =>
            client[c].pc = "done" /\ \A j \in Instance : pipe[j].request # wire[c]
    /\ client[c].pc = "idle" => client[c].attempt = "first"
    /\ client[c].pc \in {"idle", "opening"} /\ client[c].attempt # "replay" =>
            client[c].expected = NoServer
    /\ client[c].pc \in {"writing", "reading"} \/ client[c].attempt = "replay" =>
            client[c].expected # NoServer
    /\ client[c].outcome = "unavailable" => client[c].expected = NoServer
    /\ client[c].outcome = "none" <=> client[c].pc # "done"
    /\ client[c].expected <= epoch
    /\ client[c].pc # "idle" => client[c].deadline <= now + OverallTimeout

Sound ==
    /\ Typed /\ Distinct /\ Fallow
    /\ \A i \in Instance : InstanceSound(slot[i], pipe[i], life.running)
    /\ \A c \in Client : ClientSound(c)

-----------------------------------------------------------------------------
(* The steps of the server.                                                *)

LEMMA SpendType ==
    ASSUME NEW event \in Event, budget \in [Event -> Nat], Spend(event)
    PROVE  budget' \in [Event -> Nat]
BY DEF Spend

LEMMA FaultType ==
    ASSUME budget \in [Event -> Nat], NEW error
    PROVE  /\ Fault => budget' \in [Event -> Nat]
           /\ FaultIf(error) => budget' \in [Event -> Nat]
           /\ BreakUnless(error) => budget' \in [Event -> Nat]
BY SpendType DEF Fault, FaultIf, BreakUnless, Event

LEMMA NewSlotType ==
    ASSUME NEW created \in BOOLEAN
    PROVE  NewSlot(created) \in Slot
BY DEF NewSlot, Slot, Phase, Pc, Job, NoJob, ServerCode

LEMMA PipeTypes ==
    /\ AbsentPipe \in Pipe /\ FreshPipe \in Pipe /\ IdlePipe \in Pipe /\ ListeningPipe \in Pipe
BY DEF AbsentPipe, FreshPipe, IdlePipe, ListeningPipe, Pipe, PipeState

(* Nothing enters a pipe but its client, which the server can only lose.   *)
Shrunk(p, q) ==
    /\ p.request \in {q.request, NoRequest}
    /\ \/ p.client = NoClient
       \/ p.client = q.client /\ p.closed = q.closed /\ (p.acknowledged => q.acknowledged)

(* Only slot i and its pipe change.                                        *)
Moves(i) ==
    /\ slot' \in [Instance -> Slot] /\ pipe' \in [Instance -> Pipe]
    /\ \A j \in Instance \ {i} : slot'[j] = slot[j] /\ pipe'[j] = pipe[j]

RestTyped ==
    /\ budget' \in [Event -> Nat] /\ executed' \in [Request -> Nat]
    /\ mutationActive' \in BOOLEAN /\ CacheTyped(cache')

LEMMA ClientsUndisturbed ==
    ASSUME Sound, UNCHANGED <<client, wire, now>>, epoch' = epoch,
           \A i \in Instance : Shrunk(pipe'[i], pipe[i]) /\ Linked(slot[i], pipe[i])',
           pipe' \in [Instance -> Pipe]
    PROVE  \A c \in Client : ClientSound(c)'
<1> SUFFICES ASSUME NEW c \in Client PROVE ClientSound(c)'
    OBVIOUS
<1>1. ClientSound(c) /\ wire[c] \in Request
    BY DEF Sound, Typed
<1>2. \A i \in Instance : pipe'[i].client = c => 
            pipe[i].client = c /\ pipe'[i].closed = pipe[i].closed /\ (pipe'[i].acknowledged => pipe[i].acknowledged)
    BY PipeAssumption DEF Shrunk
<1>3. \A i \in Instance : pipe'[i].request = wire[c] => pipe[i].request = wire[c] /\ pipe'[i].client = c
    BY <1>1, PipeAssumption DEF Shrunk, Linked, Sound, Distinct
<1> QED BY <1>1, <1>2, <1>3 DEF ClientSound, Owns

LEMMA SlotStep ==
    ASSUME Sound, NEW i \in Instance, Moves(i), RestTyped,
           UNCHANGED <<client, wire, epoch, now, life>>,
           slot[i] # NewSlot(FALSE),
           InstanceSound(slot'[i], pipe'[i], life.running), Shrunk(pipe'[i], pipe[i])
    PROVE  Sound'
<1>1. \A j \in Instance : InstanceSound(slot'[j], pipe'[j], life.running)
    BY DEF Sound, Moves
<1>2. \A j \in Instance : InstanceSound(slot[j], pipe[j], life.running)'
    BY <1>1 DEF InstanceSound, Linked, Timely
<1>3. \A j \in Instance : Shrunk(pipe'[j], pipe[j])
    BY DEF Moves, Shrunk
<1>4. \A c \in Client : ClientSound(c)'
    BY <1>2, <1>3, ClientsUndisturbed DEF InstanceSound, Moves
<1>5. Typed' /\ Distinct' /\ Fallow'
    BY DEF Sound, Typed, Distinct, Fallow, Moves, RestTyped
<1> QED BY <1>2, <1>4, <1>5 DEF Sound

(* A slot that is to be armed again later.                                 *)
LEMMA RearmType ==
    ASSUME NEW s \in Slot
    PROVE  LET t == ScheduleRearmLocked(s)
           IN /\ t \in Slot /\ t.phase = "Disconnected" /\ t.rearm
              /\ t.pc = s.pc /\ t.record = s.record /\ t.job = s.job /\ t.request = s.request
              /\ t.answer = s.answer /\ t.pending = s.pending
              /\ t.recreateScheduled = s.recreateScheduled /\ t.recreateRequired = s.recreateRequired
<1>1. s.failures + 1 \in Nat
    BY DEF Slot
<1> QED BY <1>1 DEF Slot, ScheduleRearmLocked, Phase

LEMMA RearmSound ==
    ASSUME NEW s \in Slot, NEW p \in Pipe, s.phase = "Disconnected", s.pc = "none",
           SlotSound(s), Linked(s, p), Timely(s, p, TRUE)
    PROVE  InstanceSound(ScheduleRearmLocked(s), p, TRUE)
<1> DEFINE t == ScheduleRearmLocked(s)
<1>1. /\ t \in Slot /\ t.phase = "Disconnected" /\ t.rearm
      /\ t.pc = s.pc /\ t.record = s.record /\ t.job = s.job /\ t.request = s.request
      /\ t.answer = s.answer /\ t.pending = s.pending
      /\ t.recreateScheduled = s.recreateScheduled /\ t.recreateRequired = s.recreateRequired
    BY RearmType
<1> HIDE DEF t
<1>2. SlotSound(t) /\ Retried(t, TRUE)
    BY <1>1 DEF SlotSound, Retried, Working, Carrying, Attached, Executing, Served
<1>3. Linked(t, p) /\ Timely(t, p, TRUE)
    BY <1>1 DEF Linked, Timely, Served
<1> QED BY <1>2, <1>3 DEF InstanceSound, t

(* Arming a disconnected slot: it listens, has a client already, or will   *)
(* be tried again.                                                         *)
LEMMA ArmType ==
    ASSUME NEW s \in Slot, NEW p \in Pipe, NEW error \in ArmError, s.phase = "Disconnected",
           s.pc = "none", ~s.rearm, SlotSound(s), Linked(s, p), Timely(s, p, TRUE)
    PROVE  LET a == ArmRunning(s, p, error)
           IN /\ a.s \in Slot /\ a.p \in Pipe
              /\ InstanceSound(a.s, a.p, TRUE)
              /\ Shrunk(a.p, p)
              /\ a.s.pc \in {"none", "connected"} /\ a.s.record = s.record
              /\ a.s.job = s.job /\ a.s.request = s.request /\ a.s.answer = s.answer
<1> DEFINE Fine(t, q) == /\ t \in Slot /\ q \in Pipe /\ InstanceSound(t, q, TRUE) /\ Shrunk(q, p)
                         /\ t.pc \in {"none", "connected"} /\ t.record = s.record
                         /\ t.job = s.job /\ t.request = s.request /\ t.answer = s.answer
<1>1. ASSUME NEW t \in Slot, t.phase = s.phase, t.pc = s.pc, t.record = s.record, t.job = s.job,
             t.request = s.request, t.answer = s.answer, t.pending = s.pending,
             t.recreateScheduled = s.recreateScheduled, t.rearm = s.rearm
      PROVE  Fine(ScheduleRearmLocked(t), p)
  <2>1. SlotSound(t) /\ Linked(t, p) /\ Timely(t, p, TRUE)
    BY <1>1 DEF SlotSound, Linked, Timely
  <2> QED BY <1>1, <2>1, RearmType, RearmSound DEF Shrunk
<1>2. Fine(ScheduleRearmLocked([s EXCEPT !.recreateRequired = TRUE]), p)
    BY <1>1 DEF Slot
<1>3. Fine(ScheduleRearmLocked([s EXCEPT !.recreateRequired =
                s.recreateRequired \/ error = "handle" \/ s.failures >= RearmLimit]), p)
  <2> DEFINE b == s.recreateRequired \/ error = "handle" \/ s.failures >= RearmLimit
  <2>1. b \in BOOLEAN
    OBVIOUS
  <2> HIDE DEF b
  <2> DEFINE t == [s EXCEPT !.recreateRequired = b]
  <2>2. t \in Slot /\ t.phase = s.phase /\ t.pc = s.pc /\ t.record = s.record /\ t.job = s.job
        /\ t.request = s.request /\ t.answer = s.answer /\ t.pending = s.pending
        /\ t.recreateScheduled = s.recreateScheduled /\ t.rearm = s.rearm
    BY <2>1 DEF Slot
  <2> HIDE DEF t, Fine
  <2>3. Fine(ScheduleRearmLocked(t), p)
    BY <1>1, <2>2
  <2> QED BY <2>3 DEF t, b
<1>4. Fine(ScheduleRearmLocked([s EXCEPT !.failures = 0]), IdlePipe)
  <2> DEFINE t == [s EXCEPT !.failures = 0]
  <2>1. t \in Slot /\ t.phase = s.phase /\ t.pc = s.pc /\ t.record = s.record /\ t.job = s.job
        /\ t.request = s.request /\ t.answer = s.answer /\ t.pending = s.pending
        /\ t.recreateScheduled = s.recreateScheduled /\ t.rearm = s.rearm
    BY DEF Slot
  <2> HIDE DEF t
  <2>2. SlotSound(t) /\ Linked(t, IdlePipe) /\ Timely(t, IdlePipe, TRUE)
    BY <2>1, PipeAssumption DEF SlotSound, Linked, Timely, IdlePipe, AbsentPipe, Served
  <2>3. Shrunk(IdlePipe, p) /\ IdlePipe \in Pipe
    BY PipeTypes DEF Shrunk, IdlePipe, AbsentPipe
  <2> QED BY <2>1, <2>2, <2>3, RearmType, RearmSound DEF t
<1>5. p.client = NoClient => Fine([s EXCEPT !.phase = "Connecting"], ListeningPipe)
  <2> DEFINE t == [s EXCEPT !.phase = "Connecting"]
  <2>1. t \in Slot /\ t.phase = "Connecting" /\ t.pc = s.pc /\ t.record = s.record /\ t.job = s.job
        /\ t.request = s.request /\ t.answer = s.answer /\ t.pending = s.pending
        /\ t.recreateScheduled = s.recreateScheduled /\ t.rearm = s.rearm
    BY DEF Slot, Phase
  <2> HIDE DEF t
  <2>2. SlotSound(t) /\ Retried(t, TRUE)
    BY <2>1 DEF SlotSound, Retried, Working, Carrying, Attached, Executing, Served
  <2>3. Linked(t, ListeningPipe) /\ Timely(t, ListeningPipe, TRUE)
    BY <2>1, PipeAssumption DEF SlotSound, Linked, Timely, ListeningPipe, AbsentPipe, Served
  <2>4. Shrunk(ListeningPipe, p) /\ ListeningPipe \in Pipe
    BY PipeTypes DEF Shrunk, ListeningPipe, AbsentPipe
  <2> QED BY <2>1, <2>2, <2>3, <2>4 DEF InstanceSound, t
<1>6. p.client # NoClient =>
        Fine([s EXCEPT !.phase = "Connecting", !.pc = "connected"], [p EXCEPT !.state = "connected"])
  <2> SUFFICES ASSUME p.client # NoClient
               PROVE  Fine([s EXCEPT !.phase = "Connecting", !.pc = "connected"], [p EXCEPT !.state = "connected"])
    OBVIOUS
  <2> DEFINE t == [s EXCEPT !.phase = "Connecting", !.pc = "connected"]
             q == [p EXCEPT !.state = "connected"]
  <2>1. t \in Slot /\ t.phase = "Connecting" /\ t.pc = "connected" /\ t.record = s.record /\ t.job = s.job
        /\ t.request = s.request /\ t.answer = s.answer /\ t.pending = s.pending
        /\ t.recreateScheduled = s.recreateScheduled /\ t.rearm = s.rearm
    BY DEF Slot, Phase, Pc
  <2>2. q \in Pipe /\ q.state = "connected" /\ q.client = p.client /\ q.closed = p.closed
        /\ q.request = p.request /\ q.answer = p.answer /\ q.acknowledged = p.acknowledged
    BY DEF Pipe, PipeState
  <2> HIDE DEF t, q
  <2>3. p.client \in Client /\ p.state = "fresh"
    BY DEF Linked, Pipe
  <2>4. SlotSound(t) /\ Retried(t, TRUE)
    BY <2>1 DEF SlotSound, Retried, Working, Carrying, Attached, Executing, Served
  <2>5. Linked(t, q) /\ Timely(t, q, TRUE)
    BY <2>1, <2>2, <2>3 DEF Linked, Timely, Served
  <2>6. Shrunk(q, p)
    BY <2>2 DEF Shrunk
  <2> QED BY <2>1, <2>2, <2>4, <2>5, <2>6 DEF InstanceSound, t, q
<1> HIDE DEF Fine
<1>7. LET a == ArmRunning(s, p, error) IN Fine(a.s, a.p)
    BY <1>2, <1>3, <1>4, <1>5, <1>6 DEF ArmRunning
<1> QED BY <1>7 DEF Fine

(* What SetArmed and Finish make of a slot that is done with its client.   *)
LEMMA ArmStep ==
    ASSUME Sound, NEW i \in Instance, NEW s \in Slot, NEW p \in Pipe, NEW error \in ArmError,
           s.phase = "Disconnected", s.pc = "none", ~s.rearm, SlotSound(s),
           Linked(s, p), Timely(s, p, TRUE), Shrunk(p, pipe[i]), slot[i] # NewSlot(FALSE),
           slot' = [slot EXCEPT ![i] = Arm(s, p, error).s],
           pipe' = [pipe EXCEPT ![i] = Arm(s, p, error).p],
           UNCHANGED <<client, wire, epoch, now, life>>, RestTyped
    PROVE  Sound'
<1> DEFINE a == Arm(s, p, error)
<1>1. CASE life.running
  <2>1. a.s \in Slot /\ a.p \in Pipe /\ InstanceSound(a.s, a.p, TRUE) /\ Shrunk(a.p, p)
    BY <1>1, ArmType DEF Arm
  <2> HIDE DEF a
  <2>2. Moves(i) /\ slot'[i] = a.s /\ pipe'[i] = a.p
    BY <2>1 DEF Moves, Sound, Typed, a
  <2>3. InstanceSound(a.s, a.p, life.running)
    BY <1>1, <2>1 DEF InstanceSound, Timely, Retried
  <2>4. Shrunk(a.p, pipe[i])
    BY <2>1 DEF Shrunk
  <2> QED BY <2>2, <2>3, <2>4, SlotStep
<1>2. CASE ~life.running
  <2>1. a.s = s /\ a.p = p
    BY <1>2 DEF Arm
  <2> HIDE DEF a
  <2>2. Moves(i) /\ slot'[i] = s /\ pipe'[i] = p
    BY <2>1 DEF Moves, Sound, Typed, a
  <2>3. InstanceSound(s, p, life.running)
    BY <1>2 DEF InstanceSound, Timely, Retried
  <2> QED BY <2>2, <2>3, SlotStep
<1> QED BY <1>1, <1>2

LEMMA FinishedCacheType ==
    ASSUME Sound, NEW i \in Instance
    PROVE  CacheTyped(FinishedCache(slot[i]))
<1>1. slot[i] \in Slot /\ CacheTyped(cache) /\ now \in Nat /\ SlotSound(slot[i])
    BY DEF Sound, Typed, InstanceSound
<1>2. slot[i].pending \/ slot[i].record # 0 => slot[i].request.id \in Id
    BY <1>1 DEF SlotSound, Slot, Phase, Request, Served
<1> DEFINE d == IF slot[i].pending THEN CompletePendingDelivery(cache, slot[i].request.id) ELSE cache
<1>3. CacheTyped(d)
    BY <1>1, <1>2, CompletePendingForm
<1> HIDE DEF d
<1>4. slot[i].record # 0 => CacheTyped(CompleteDelivery(d, slot[i].request.id, slot[i].record, FALSE, now))
    BY <1>1, <1>2, <1>3, CompleteDeliveryType DEF Slot
<1> QED BY <1>3, <1>4 DEF FinishedCache, d

(* Finish ends in a sound state from every phase that has a client.        *)
LEMMA FinishStep ==
    ASSUME Sound, NEW i \in Instance, Finish(i), slot[i].pc \in {"none", "connected"},
           slot[i].phase # "Disconnected", budget' \in [Event -> Nat],
           UNCHANGED <<client, wire, epoch, now, life, mutationActive, executed>>
    PROVE  Sound'
<1> DEFINE s == Finished(slot[i])
<1>1. slot[i] \in Slot /\ pipe[i] \in Pipe /\ SlotSound(slot[i])
    BY DEF Sound, Typed, InstanceSound
<1>2. s \in Slot /\ s.phase = "Disconnected" /\ s.pc = "none" /\ ~s.pending /\ s.record = 0
      /\ s.rearm = slot[i].rearm /\ s.recreateScheduled = slot[i].recreateScheduled
      /\ s.job = slot[i].job
    BY <1>1 DEF Finished, Slot, Phase, Pc
<1>3. slot[i] # NewSlot(FALSE)
    BY DEF NewSlot
<1> HIDE DEF s
<1>4. SlotSound(s) /\ ~s.rearm
    BY <1>1, <1>2 DEF SlotSound, Working, Carrying, Attached, Executing, Served
<1>5. Linked(s, IdlePipe) /\ Timely(s, IdlePipe, TRUE) /\ Shrunk(IdlePipe, pipe[i]) /\ IdlePipe \in Pipe
    BY <1>2, PipeTypes, PipeAssumption DEF Linked, Timely, Shrunk, IdlePipe, AbsentPipe, Served
<1>6. RestTyped
    BY FinishedCacheType DEF RestTyped, Finish, Sound, Typed
<1>7. slot' = [slot EXCEPT ![i] = Arm(s, IdlePipe, "none").s] /\ pipe' = [pipe EXCEPT ![i] = Arm(s, IdlePipe, "none").p]
    BY DEF Finish, s
<1>8. "none" \in ArmError
    BY DEF ArmError
<1> QED BY <1>2, <1>3, <1>4, <1>5, <1>6, <1>7, <1>8, ArmStep

LEMMA At ==
    ASSUME Sound, NEW i \in Instance
    PROVE  /\ slot[i] \in Slot /\ pipe[i] \in Pipe /\ life \in Life /\ now \in Nat
           /\ SlotSound(slot[i]) /\ Linked(slot[i], pipe[i])
           /\ Timely(slot[i], pipe[i], life.running) /\ Retried(slot[i], life.running)
           /\ CacheTyped(cache) /\ executed \in [Request -> Nat] /\ budget \in [Event -> Nat]
           /\ mutationActive \in BOOLEAN
BY DEF Sound, Typed, InstanceSound

(* A step of the callback that has the request: the pipe stays as it is.   *)
LEMMA HandlingStep ==
    ASSUME Sound, NEW i \in Instance, slot[i].phase = "RunningHandler",
           slot' \in [Instance -> Slot], \A j \in Instance \ {i} : slot'[j] = slot[j],
           slot'[i].phase = slot[i].phase, slot'[i].request = slot[i].request,
           SlotSound(slot'[i]), RestTyped, UNCHANGED <<client, wire, epoch, now, life, pipe>>
    PROVE  Sound'
<1>1. slot[i] # NewSlot(FALSE)
    BY DEF NewSlot
<1>2. Moves(i) /\ Shrunk(pipe'[i], pipe[i])
    BY DEF Moves, Shrunk, Sound, Typed
<1>3. slot'[i].pc # "connected"
    BY DEF SlotSound, Working, Carrying, Attached, Executing
<1>4. Linked(slot'[i], pipe'[i])
    BY <1>3, At DEF Linked
<1>5. InstanceSound(slot'[i], pipe'[i], life.running)
    BY <1>4, At DEF InstanceSound, Timely, Retried
<1> QED BY <1>1, <1>2, <1>5, SlotStep

(* The phase of a slot whose callback has the request.                     *)
LEMMA WorkingPhase ==
    ASSUME NEW s \in Slot, SlotSound(s), s.pc \in {"queued"} \cup Working
    PROVE  s.phase = "RunningHandler" /\ s.request \in Request /\ s.request.id \in Id
BY DEF Slot, Phase, SlotSound, Working, Carrying, Attached, Executing, Served, Request

LEMMA HandlerBeginsSound ==
    ASSUME Sound, NEW i \in Instance, HandlerBegins(i), UNCHANGED clientVars
    PROVE  Sound'
<1> USE At
<1> DEFINE job == [NoJob EXCEPT !.request = slot[i].request, !.pending = slot[i].pending]
           t == [slot[i] EXCEPT !.pc = IF life.running THEN "begun" ELSE "answered",
                                !.pending = FALSE, !.job = job]
<1>1. slot[i].phase = "RunningHandler" /\ slot[i].request \in Request
    BY WorkingPhase DEF HandlerBegins
<1>2. /\ job \in Job /\ job.request = slot[i].request /\ job.pending = slot[i].pending
      /\ job.code = "OperationFailed"
    BY DEF Slot, Job, NoJob, ServerCode
<1>3. slot' = [slot EXCEPT ![i] = t]
    BY DEF HandlerBegins, Sound, Typed
<1> HIDE DEF job
<1>4. t \in Slot /\ t.phase = slot[i].phase /\ t.request = slot[i].request /\ t.job = job
      /\ t.pc = (IF life.running THEN "begun" ELSE "answered") /\ ~t.pending
      /\ t.rearm = slot[i].rearm /\ t.recreateScheduled = slot[i].recreateScheduled
      /\ t.record = slot[i].record
    BY <1>2 DEF Slot, Pc
<1> HIDE DEF t
<1>5. slot' \in [Instance -> Slot] /\ slot'[i] = t /\ \A j \in Instance \ {i} : slot'[j] = slot[j]
    BY <1>3, <1>4 DEF Sound, Typed
<1>6. SlotSound(t)
    BY <1>1, <1>2, <1>4 DEF HandlerBegins, SlotSound, Working, Carrying, Attached, Executing, Served
<1>7. RestTyped
    BY DEF HandlerBegins, RestTyped
<1> QED BY <1>1, <1>4, <1>5, <1>6, <1>7, HandlingStep DEF HandlerBegins, clientVars

LEMMA ApartmentUnavailableSound ==
    ASSUME Sound, NEW i \in Instance, ApartmentUnavailable(i), UNCHANGED clientVars
    PROVE  Sound'
<1> USE At
<1>1. slot[i].phase = "RunningHandler" /\ slot[i].request \in Request
    BY WorkingPhase DEF ApartmentUnavailable, Working, Carrying, Attached
<1>2. slot' \in [Instance -> Slot] /\ \A j \in Instance \ {i} : slot'[j] = slot[j]
    BY DEF ApartmentUnavailable, Sound, Typed, Slot, Pc
<1>3. /\ slot'[i].phase = slot[i].phase /\ slot'[i].request = slot[i].request
      /\ SlotSound(slot'[i])
    BY <1>1 DEF ApartmentUnavailable, Sound, Typed, SlotSound, Slot, Working, Carrying, Attached, Executing, Served
<1>4. RestTyped
    BY FaultType DEF ApartmentUnavailable, RestTyped
<1> QED BY <1>1, <1>2, <1>3, <1>4, HandlingStep DEF ApartmentUnavailable, clientVars

(* The step of a callback at work that leaves it with the same request.    *)
LEMMA JobStep ==
    ASSUME Sound, NEW i \in Instance, slot[i].pc \in Working, NEW pc \in Working,
           NEW job \in Job, job.request = slot[i].job.request,
           pc \in Carrying => job.pending, pc # "begun", pc \in Attached => job.run # 0,
           job.code = "Result" => job.run # 0, pc = "responding" => ~job.pending,
           slot' = [slot EXCEPT ![i].pc = pc, ![i].job = job],
           RestTyped, UNCHANGED <<client, wire, epoch, now, life, pipe>>
    PROVE  Sound'
<1> USE At
<1> DEFINE t == [slot[i] EXCEPT !.pc = pc, !.job = job]
<1>1. slot[i].phase = "RunningHandler" /\ slot[i].request \in Request
    BY WorkingPhase
<1>2. slot' = [slot EXCEPT ![i] = t]
    BY DEF Sound, Typed
<1>3. t \in Slot /\ t.phase = slot[i].phase /\ t.request = slot[i].request /\ t.job = job
      /\ t.pc = pc /\ t.pending = slot[i].pending
      /\ t.rearm = slot[i].rearm /\ t.recreateScheduled = slot[i].recreateScheduled
      /\ t.record = slot[i].record
    BY DEF Slot, Pc, Working, Carrying, Attached, Executing
<1> HIDE DEF t
<1>4. slot' \in [Instance -> Slot] /\ slot'[i] = t /\ \A j \in Instance \ {i} : slot'[j] = slot[j]
    BY <1>2, <1>3 DEF Sound, Typed
<1>5. SlotSound(t)
    BY <1>1, <1>3 DEF SlotSound, Working, Carrying, Attached, Executing, Served
<1> QED BY <1>1, <1>3, <1>4, <1>5, HandlingStep

LEMMA JobOf ==
    ASSUME Sound, NEW i \in Instance, slot[i].pc \in Working
    PROVE  /\ slot[i].job \in Job /\ slot[i].job.request = slot[i].request
           /\ slot[i].job.request \in Request /\ slot[i].job.request.id \in Id
BY At, WorkingPhase DEF Slot, SlotSound

(* Every step that looks a request up, executes it or takes its answer.    *)
LEMMA ExecuteOnceSlot ==
    ASSUME Sound, NEW i \in Instance, ExecuteOnce(i)
    PROVE  /\ CacheTyped(cache')
           /\ executed' \in [Request -> Nat]
           /\ \E pc \in Working \ {"begun", "responding"}, job \in Job :
                /\ job.request = slot[i].job.request /\ job.pending = slot[i].job.pending
                /\ pc \in Attached \/ job.code = "Result" => job.run # 0
                /\ slot' = [slot EXCEPT ![i].pc = pc, ![i].job = job]
<1> USE At
<1> DEFINE request == slot[i].job.request
           pruned == PruneRequestRecords(cache, now)
           existing == pruned.records[request.id]
           run == executed[request] + 1
<1>1. slot[i].pc \in Working /\ slot[i].job \in Job /\ request \in Request /\ request.id \in Id
    BY JobOf DEF ExecuteOnce, Working, Carrying
<1>2. run \in Nat \ {0}
    BY <1>1
<1>3. CacheTyped(pruned)
    BY PruneForm
<1>4. executed' \in [Request -> Nat]
    BY <1>1, <1>2 DEF ExecuteOnce
<1>5. ASSUME NEW code \in ServerCode, ReturnCode(i, code)
      PROVE  \E pc \in Working \ {"begun", "responding"}, job \in Job :
                /\ job.request = slot[i].job.request /\ job.pending = slot[i].job.pending
                /\ pc \in Attached \/ job.code = "Result" => job.run # 0
                /\ slot' = [slot EXCEPT ![i].pc = pc, ![i].job = job]
  <2> DEFINE job == [slot[i].job EXCEPT !.code = code]
  <2>1. job \in Job /\ job.request = slot[i].job.request /\ job.pending = slot[i].job.pending
        /\ job.code # "Result"
    BY <1>1 DEF Job, ServerCode
  <2>2. slot' = [slot EXCEPT ![i].pc = "answered", ![i].job = job]
    BY <1>5 DEF ReturnCode, Sound, Typed, Slot
  <2> QED BY <2>1, <2>2 DEF Working, Carrying, Attached, Executing
<1>6. ASSUME NEW pc \in {"waiting", "handling"}, NEW n \in Nat \ {0},
             slot' = [slot EXCEPT ![i].pc = pc, ![i].job.run = n]
      PROVE  \E q \in Working \ {"begun", "responding"}, job \in Job :
                /\ job.request = slot[i].job.request /\ job.pending = slot[i].job.pending
                /\ q \in Attached \/ job.code = "Result" => job.run # 0
                /\ slot' = [slot EXCEPT ![i].pc = q, ![i].job = job]
  <2> DEFINE job == [slot[i].job EXCEPT !.run = n]
  <2>1. job \in Job /\ job.request = slot[i].job.request /\ job.pending = slot[i].job.pending /\ job.run = n
    BY <1>1 DEF Job
  <2>2. slot' = [slot EXCEPT ![i].pc = pc, ![i].job = job]
    BY <1>6 DEF Sound, Typed, Slot
  <2> HIDE DEF job
  <2>3. pc \in Working \ {"begun", "responding"} /\ job.run # 0
    BY <1>6, <2>1 DEF Working, Carrying, Attached, Executing
  <2> QED BY <2>1, <2>2, <2>3
<1>7. CASE existing # NoRecord
  <2>1. cache' = pruned
    BY <1>7 DEF ExecuteOnce
  <2>2. existing.run \in Nat \ {0}
    BY <1>1, <1>3, <1>7, NoRecordHasNoRun DEF CacheTyped, Record
  <2>3. \/ ReturnCode(i, "InvalidRequest")
        \/ slot' = [slot EXCEPT ![i].pc = "waiting", ![i].job.run = existing.run]
    BY <1>7 DEF ExecuteOnce
  <2> HIDE DEF existing, pruned
  <2> QED BY <1>3, <1>4, <1>5, <1>6, <2>1, <2>2, <2>3 DEF ServerCode
<1>8. CASE existing = NoRecord
  <2>1. PICK gone \in Evictions(pruned) :
            LET roomy == Without(pruned, gone)
            IN IF LacksCapacity(roomy) THEN cache' = roomy /\ ReturnCode(i, "Busy")
               ELSE /\ cache' = NewRecord(roomy, request, run)
                    /\ slot' = [slot EXCEPT ![i].pc = "handling", ![i].job.run = run]
    BY <1>8 DEF ExecuteOnce
  <2> DEFINE roomy == Without(pruned, gone)
  <2>2. CacheTyped(roomy)
    BY <1>3, EvictionForm
  <2> HIDE DEF roomy
  <2>3. CacheTyped(NewRecord(roomy, request, run))
    BY <1>1, <1>2, <2>2, NewRecordForm
  <2>4. CacheTyped(cache')
    BY <2>1, <2>2, <2>3 DEF roomy
  <2>5. \/ ReturnCode(i, "Busy")
        \/ slot' = [slot EXCEPT ![i].pc = "handling", ![i].job.run = run]
    BY <2>1
  <2> HIDE DEF run, existing, pruned
  <2> QED BY <1>2, <1>4, <1>5, <1>6, <2>4, <2>5 DEF ServerCode
<1> QED BY <1>7, <1>8

LEMMA ExecuteOnceSound ==
    ASSUME Sound, NEW i \in Instance, ExecuteOnce(i), UNCHANGED clientVars
    PROVE  Sound'
<1>1. slot[i].pc = "begun" /\ slot[i].job.pending
    BY At DEF ExecuteOnce, SlotSound, Carrying
<1>2. RestTyped /\ UNCHANGED <<client, wire, epoch, now, life, pipe>>
    BY At, ExecuteOnceSlot DEF ExecuteOnce, RestTyped, clientVars
<1>3. PICK pc \in Working \ {"begun", "responding"}, job \in Job :
                /\ job.request = slot[i].job.request /\ job.pending = slot[i].job.pending
                /\ pc \in Attached \/ job.code = "Result" => job.run # 0
                /\ slot' = [slot EXCEPT ![i].pc = pc, ![i].job = job]
    BY ExecuteOnceSlot
<1> QED BY <1>1, <1>2, <1>3, JobStep DEF Working, Carrying

LEMMA TakeAnswerSound ==
    ASSUME Sound, NEW i \in Instance, TakeAnswer(i), UNCHANGED clientVars
    PROVE  Sound'
<1> DEFINE job == [slot[i].job EXCEPT !.code = "Result"]
<1>1. slot[i].pc = "waiting" /\ slot[i].pc \in Working
    BY DEF TakeAnswer, Working, Carrying, Attached
<1>2. job \in Job /\ job.request = slot[i].job.request /\ job.run # 0
    BY <1>1, JobOf, At DEF Job, SlotSound, Attached
<1>3. slot' = [slot EXCEPT ![i].pc = "answered", ![i].job = job]
    BY <1>1, JobOf DEF TakeAnswer, Sound, Typed, Slot
<1>4. CacheTyped(cache')
  <2>1. cache' = [cache EXCEPT !.records[slot[i].job.request.id].active = @ + 1]
    BY DEF TakeAnswer
  <2>2. slot[i].job.run # 0
    BY <1>1, At DEF SlotSound, Attached
  <2>3. cache.records[slot[i].job.request.id] # NoRecord
    <3>1. cache.records[slot[i].job.request.id].run = slot[i].job.run
      BY Zenon DEF TakeAnswer
    <3>2. NoRecord.run = 0
      BY DEF NoRecord
    <3> QED BY <2>2, <3>1, <3>2
  <2>4. slot[i].job.request.id \in Id
    BY <1>1, JobOf
  <2> QED BY <2>1, <2>3, <2>4, At, ClaimForm
<1> HIDE DEF job
<1>5. "answered" \in Working /\ "answered" \notin Carrying /\ "answered" \notin Attached
    BY DEF Working, Carrying, Attached, Executing
<1>6. RestTyped /\ UNCHANGED <<client, wire, epoch, now, life, pipe>>
    BY <1>4, At DEF TakeAnswer, RestTyped, clientVars
<1> QED BY <1>1, <1>2, <1>3, <1>5, <1>6, JobStep

LEMMA StopWaitingSound ==
    ASSUME Sound, NEW i \in Instance, StopWaiting(i), UNCHANGED clientVars
    PROVE  Sound'
<1> DEFINE code == IF life.token THEN "Unavailable" ELSE "Busy"
           job == [slot[i].job EXCEPT !.run = 0, !.code = code]
<1>1. slot[i].pc \in Working
    BY DEF StopWaiting, Working, Carrying, Attached
<1>2. job \in Job /\ job.request = slot[i].job.request /\ job.code # "Result"
    BY <1>1, JobOf DEF Job, ServerCode
<1>3. slot' = [slot EXCEPT ![i].pc = "answered", ![i].job = job]
    BY <1>1, JobOf DEF StopWaiting, Sound, Typed, Slot
<1> HIDE DEF job
<1>4. "answered" \in Working /\ "answered" \notin Carrying /\ "answered" \notin Attached
    BY DEF Working, Carrying, Attached, Executing
<1>5. RestTyped /\ UNCHANGED <<client, wire, epoch, now, life, pipe>>
    BY At DEF StopWaiting, RestTyped, clientVars
<1> QED BY <1>1, <1>2, <1>3, <1>4, <1>5, JobStep

LEMMA HandleSound ==
    ASSUME Sound, NEW i \in Instance, Handle(i), UNCHANGED clientVars
    PROVE  Sound'
<1> DEFINE mutation == ~life.token /\ slot[i].job.request.body \in Mutating
           job == [slot[i].job EXCEPT !.mutation = mutation /\ ~mutationActive]
<1>1. slot[i].pc = "handling" /\ slot[i].pc \in Working
    BY DEF Handle, Working, Carrying, Attached, Executing
<1>2. /\ job \in Job /\ job.request = slot[i].job.request /\ job.pending = slot[i].job.pending
      /\ job.run = slot[i].job.run
    BY <1>1, JobOf, At DEF Job
<1>3. slot' = [slot EXCEPT ![i].pc = "dispatched", ![i].job = job]
    BY <1>1, JobOf DEF Handle, Sound, Typed, Slot
<1>4. mutationActive' \in BOOLEAN
    BY At DEF Handle
<1> HIDE DEF job
<1>5. "dispatched" \in Working /\ "dispatched" # "begun" /\ job.pending /\ job.run # 0
    BY <1>1, <1>2, At DEF SlotSound, Working, Carrying, Attached, Executing
<1>6. RestTyped /\ UNCHANGED <<client, wire, epoch, now, life, pipe>>
    BY <1>4, At DEF Handle, RestTyped, clientVars
<1> QED BY <1>1, <1>2, <1>3, <1>5, <1>6, JobStep

LEMMA HandlerReturnsSound ==
    ASSUME Sound, NEW i \in Instance, HandlerReturns(i), UNCHANGED clientVars
    PROVE  Sound'
<1> DEFINE job == [slot[i].job EXCEPT !.code = "Result", !.mutation = FALSE]
<1>1. slot[i].pc = "dispatched" /\ slot[i].pc \in Working
    BY DEF HandlerReturns, Working, Carrying, Attached, Executing
<1>2. job \in Job /\ job.request = slot[i].job.request /\ job.run # 0
    BY <1>1, JobOf, At DEF Job, SlotSound, Attached, Executing
<1>3. slot' = [slot EXCEPT ![i].pc = "answered", ![i].job = job]
    BY <1>1, JobOf DEF HandlerReturns, Sound, Typed, Slot
<1>4. mutationActive' \in BOOLEAN
    BY At DEF HandlerReturns
<1>5. CacheTyped(cache')
  <2>1. slot[i].job.run \in Nat /\ slot[i].job.run # 0 /\ slot[i].job.request.id \in Id
    BY <1>1, At, JobOf DEF SlotSound, Attached, Executing, Job
  <2> QED BY <2>1, At, CompleteRecordType DEF HandlerReturns
<1> HIDE DEF job
<1>6. "answered" \in Working /\ "answered" \notin Carrying /\ "answered" \notin Attached
    BY DEF Working, Carrying, Attached, Executing
<1>7. RestTyped /\ UNCHANGED <<client, wire, epoch, now, life, pipe>>
    BY <1>4, <1>5, At DEF HandlerReturns, RestTyped, clientVars
<1> QED BY <1>1, <1>2, <1>3, <1>6, <1>7, JobStep

LEMMA ReleasePendingSound ==
    ASSUME Sound, NEW i \in Instance, ReleasePending(i), UNCHANGED clientVars
    PROVE  Sound'
<1> DEFINE job == [slot[i].job EXCEPT !.pending = FALSE]
<1>1. slot[i].pc \in Working
    BY DEF ReleasePending, Working
<1>2. job \in Job /\ job.request = slot[i].job.request /\ (job.code = "Result" => job.run # 0)
      /\ ~job.pending
    BY <1>1, JobOf, At DEF Job, SlotSound
<1>3. slot' = [slot EXCEPT ![i].pc = "responding", ![i].job = job]
    BY <1>1, JobOf DEF ReleasePending, Sound, Typed, Slot
<1>4. CacheTyped(cache')
    BY <1>1, At, JobOf, CompletePendingForm DEF ReleasePending
<1> HIDE DEF job
<1>5. "responding" \in Working /\ "responding" \notin Carrying /\ "responding" \notin Attached
    BY DEF Working, Carrying, Attached, Executing
<1>6. RestTyped /\ UNCHANGED <<client, wire, epoch, now, life, pipe>>
    BY <1>4, At DEF ReleasePending, RestTyped, clientVars
<1> QED BY <1>1, <1>2, <1>3, <1>5, <1>6, JobStep

LEMMA RespondSound ==
    ASSUME Sound, NEW i \in Instance, Respond(i), UNCHANGED clientVars
    PROVE  Sound'
<1> USE At
<1> DEFINE job == slot[i].job
           running == life.running /\ slot[i].phase = "RunningHandler"
           answer == [request |-> job.request, code |-> job.code]
           t == IF running
                THEN [slot[i] EXCEPT !.pc = "none", !.phase = "WritingResponse", !.answer = answer,
                                     !.record = IF job.code = "Result" THEN job.run ELSE 0,
                                     !.job = NoJob]
                ELSE [slot[i] EXCEPT !.pc = "none", !.job = NoJob]
<1>1. slot[i].pc = "responding" /\ slot[i].pc \in Working
    BY DEF Respond, Working
<1>2. /\ job \in Job /\ job.request \in Request /\ job.request.id \in Id
      /\ slot[i].phase = "RunningHandler" /\ slot[i].request \in Request
    BY <1>1, JobOf, WorkingPhase
<1>3. answer \in Answer /\ NoJob \in Job /\ ~NoJob.pending
    BY <1>2 DEF Answer, Job, NoJob, ServerCode
<1>4. slot' = [slot EXCEPT ![i] = t]
    BY <1>2 DEF Respond, Sound, Typed
<1> HIDE DEF answer
<1>5. /\ t \in Slot /\ t.pc = "none" /\ t.request = slot[i].request /\ t.job = NoJob
      /\ t.pending = slot[i].pending /\ t.rearm = slot[i].rearm
      /\ t.recreateScheduled = slot[i].recreateScheduled
      /\ t.phase \in {"RunningHandler", "WritingResponse"}
      /\ t.record # 0 => t.phase = "WritingResponse" \/ t.record = slot[i].record
  <2>1. slot[i] \in Slot
    BY DEF Sound, Typed
  <2>2. CASE running
    <3>1. job.code = "Result" => job.run \in Nat
      BY <1>2 DEF Job
    <3> DEFINE record == IF job.code = "Result" THEN job.run ELSE 0
    <3>2. record \in Nat
      BY <3>1
    <3>3. t = [slot[i] EXCEPT !.pc = "none", !.phase = "WritingResponse", !.answer = answer,
                              !.record = record, !.job = NoJob]
      BY <2>2
    <3> HIDE DEF record, t, job
    <3>4. t \in Slot
      BY <1>3, <2>1, <3>2, <3>3 DEF Slot, Phase, Pc
    <3> QED BY <2>1, <3>3, <3>4 DEF Slot
  <2>3. CASE ~running
    <3>1. t = [slot[i] EXCEPT !.pc = "none", !.job = NoJob]
      BY <2>3
    <3> HIDE DEF t, job
    <3>2. t \in Slot
      BY <1>3, <2>1, <3>1 DEF Slot, Pc
    <3> QED BY <1>2, <2>1, <3>1, <3>2 DEF Slot
  <2> QED BY <2>2, <2>3
<1> HIDE DEF t
<1>6. SlotSound(t)
    BY <1>1, <1>2, <1>3, <1>5 DEF SlotSound, Working, Carrying, Attached, Executing, Served
<1>7. CacheTyped(cache')
  <2>1. job.code = "Result" => job.run \in Nat \ {0}
    BY <1>1, <1>2 DEF SlotSound, Job
  <2>2. job.code = "Result" => CacheTyped(CompleteDelivery(cache, job.request.id, job.run, FALSE, now))
    BY <1>2, <2>1, CompleteDeliveryType
  <2> QED BY <2>2 DEF Respond
<1>8. slot' \in [Instance -> Slot] /\ slot'[i] = t /\ \A j \in Instance \ {i} : slot'[j] = slot[j]
    BY <1>4, <1>5 DEF Sound, Typed
<1>9. slot[i] # NewSlot(FALSE) /\ Moves(i) /\ Shrunk(pipe'[i], pipe[i]) /\ RestTyped
    BY <1>1, <1>7, <1>8 DEF NewSlot, Moves, Shrunk, RestTyped, Respond, Sound, Typed
<1>10. InstanceSound(slot'[i], pipe'[i], life.running)
    BY <1>1, <1>2, <1>5, <1>6, <1>8 DEF InstanceSound, Linked, Timely, Retried, Served, Respond
<1> QED BY <1>9, <1>10, SlotStep DEF Respond, clientVars

-----------------------------------------------------------------------------
(* The steps of a connection.                                              *)

LEMMA OnRearmReadySound ==
    ASSUME Sound, NEW i \in Instance, OnRearmReady(i), UNCHANGED clientVars
    PROVE  Sound'
<1> USE At
<1> DEFINE s == [slot[i] EXCEPT !.rearm = FALSE]
<1>1. /\ slot[i].rearm /\ slot[i].phase = "Disconnected" /\ slot[i].pc = "none"
      /\ slot[i] # NewSlot(FALSE) /\ ~slot[i].recreateScheduled
    BY DEF OnRearmReady, SlotSound, NewSlot, Slot
<1>2. /\ s \in Slot /\ s.phase = "Disconnected" /\ s.pc = "none" /\ ~s.rearm
      /\ s.pending = slot[i].pending /\ s.job = slot[i].job /\ s.record = slot[i].record
      /\ s.recreateScheduled = slot[i].recreateScheduled /\ s.request = slot[i].request
    BY <1>1 DEF Slot
<1>3. UNCHANGED <<client, wire, epoch, now, life, cache, executed, mutationActive>>
    BY DEF OnRearmReady, clientVars
<1>4. CASE ~life.running
  <2>1. slot' = [slot EXCEPT ![i] = s] /\ pipe' = pipe /\ RestTyped
    BY <1>4 DEF OnRearmReady, RestTyped, Sound, Typed
  <2> HIDE DEF s
  <2>2. SlotSound(s) /\ Linked(s, pipe[i]) /\ Timely(s, pipe[i], life.running) /\ Retried(s, life.running)
    BY <1>1, <1>2, <1>4 DEF SlotSound, Linked, Timely, Retried, Working, Carrying, Attached, Executing, Served
  <2>3. Moves(i) /\ slot'[i] = s /\ pipe'[i] = pipe[i] /\ Shrunk(pipe[i], pipe[i])
    BY <1>2, <2>1 DEF Moves, Sound, Typed, Shrunk
  <2> QED BY <1>1, <1>3, <2>1, <2>2, <2>3, SlotStep DEF InstanceSound
<1>5. CASE life.running /\ slot[i].recreateRequired
  <2> DEFINE t == [slot[i] EXCEPT !.rearm = FALSE, !.recreateScheduled = TRUE, !.pc = "recreating"]
  <2>1. slot' = [slot EXCEPT ![i] = t] /\ pipe' = pipe /\ RestTyped
    BY <1>1, <1>5 DEF OnRearmReady, RestTyped, Sound, Typed
  <2>2. /\ t \in Slot /\ t.phase = "Disconnected" /\ t.pc = "recreating" /\ ~t.rearm
        /\ t.pending = slot[i].pending /\ t.job = slot[i].job /\ t.record = slot[i].record
        /\ t.recreateRequired /\ t.request = slot[i].request
    BY <1>1, <1>5 DEF Slot, Pc
  <2> HIDE DEF t
  <2>3. SlotSound(t) /\ Linked(t, pipe[i]) /\ Timely(t, pipe[i], life.running) /\ Retried(t, life.running)
    BY <1>1, <2>2 DEF SlotSound, Linked, Timely, Retried, Working, Carrying, Attached, Executing, Served
  <2>4. Moves(i) /\ slot'[i] = t /\ pipe'[i] = pipe[i] /\ Shrunk(pipe[i], pipe[i])
    BY <2>1, <2>2 DEF Moves, Sound, Typed, Shrunk
  <2> QED BY <1>1, <1>3, <2>1, <2>3, <2>4, SlotStep DEF InstanceSound
<1>6. CASE life.running /\ ~slot[i].recreateRequired
  <2>1. SetArmed(i, s, pipe[i])
    BY <1>6 DEF OnRearmReady
  <2> HIDE DEF s
  <2>2. PICK error \in ArmError : /\ FaultIf(error)
                                  /\ slot' = [slot EXCEPT ![i] = Arm(s, pipe[i], error).s]
                                  /\ pipe' = [pipe EXCEPT ![i] = Arm(s, pipe[i], error).p]
    BY <2>1 DEF SetArmed
  <2>3. RestTyped
    BY <1>3, <2>2, FaultType DEF RestTyped
  <2>4. SlotSound(s) /\ Linked(s, pipe[i]) /\ Timely(s, pipe[i], TRUE) /\ Shrunk(pipe[i], pipe[i])
    BY <1>1, <1>2, <1>6 DEF SlotSound, Linked, Timely, Shrunk, Working, Carrying, Attached, Executing, Served
  <2> QED BY <1>1, <1>2, <1>3, <2>2, <2>3, <2>4, ArmStep
<1> QED BY <1>4, <1>5, <1>6

LEMMA DetachPipeSound ==
    ASSUME Sound, NEW i \in Instance, DetachPipe(i), UNCHANGED clientVars
    PROVE  Sound'
<1> USE At
<1> DEFINE detach == life.running /\ slot[i].recreateRequired
           s == IF detach THEN [slot[i] EXCEPT !.pc = "creating"]
                ELSE [slot[i] EXCEPT !.pc = "none", !.recreateScheduled = FALSE]
           p == IF detach THEN AbsentPipe ELSE pipe[i]
<1>1. slot[i].pc = "recreating" /\ slot[i].phase = "Disconnected" /\ slot[i].recreateRequired
    BY DEF DetachPipe, SlotSound, Slot, Phase, Working, Carrying, Attached, Executing
<1>2. /\ s \in Slot /\ s.phase = "Disconnected" /\ s.rearm = slot[i].rearm
      /\ s.pending = slot[i].pending /\ s.job = slot[i].job /\ s.record = slot[i].record
      /\ s.request = slot[i].request
      /\ IF detach THEN s.pc = "creating" ELSE s.pc = "none" /\ ~s.recreateScheduled
    BY <1>1 DEF Slot, Pc
<1>3. slot' = [slot EXCEPT ![i] = s] /\ pipe' = [pipe EXCEPT ![i] = p]
    BY DEF DetachPipe, Sound, Typed
<1>4. p \in Pipe /\ Shrunk(p, pipe[i])
    BY PipeTypes DEF Shrunk, AbsentPipe
<1>5. SlotSound(s) /\ Retried(s, life.running)
  <2> HIDE DEF s
  <2> QED BY <1>1, <1>2 DEF SlotSound, Retried, Working, Carrying, Attached, Executing, Served
<1> HIDE DEF s
<1>6. Linked(s, p) /\ Timely(s, p, life.running)
    BY <1>1, <1>2, PipeAssumption DEF Linked, Timely, AbsentPipe, Served
<1> HIDE DEF p
<1>7. Moves(i) /\ slot'[i] = s /\ pipe'[i] = p /\ slot[i] # NewSlot(FALSE) /\ RestTyped
    BY <1>1, <1>2, <1>3, <1>4 DEF Moves, Sound, Typed, NewSlot, RestTyped, DetachPipe
<1> QED BY <1>4, <1>5, <1>6, <1>7, SlotStep DEF InstanceSound, DetachPipe, clientVars

LEMMA RecreatePipeInstanceSound ==
    ASSUME Sound, NEW i \in Instance, RecreatePipeInstance(i), UNCHANGED clientVars
    PROVE  Sound'
<1> USE At
<1> DEFINE s == [slot[i] EXCEPT !.pc = "none", !.recreateScheduled = FALSE]
<1>1. slot[i].pc = "creating" /\ slot[i].phase = "Disconnected" /\ slot[i] # NewSlot(FALSE)
    BY DEF RecreatePipeInstance, SlotSound, Slot, Phase, Working, Carrying, Attached, Executing, NewSlot
<1>2. /\ s \in Slot /\ s.phase = "Disconnected" /\ s.pc = "none" /\ s.rearm = slot[i].rearm
      /\ s.pending = slot[i].pending /\ s.job = slot[i].job /\ s.record = slot[i].record
      /\ s.request = slot[i].request /\ ~s.recreateScheduled
    BY <1>1 DEF Slot, Pc
<1>3. UNCHANGED <<client, wire, epoch, now, life, cache, executed, mutationActive>>
    BY DEF RecreatePipeInstance, clientVars
<1>4. ASSUME NEW t \in Slot, t.phase = "Disconnected", t.pc = "none", t.rearm = s.rearm,
             t.pending = s.pending, t.job = s.job, t.record = s.record, t.request = s.request,
             t.recreateScheduled = s.recreateScheduled
      PROVE  /\ SlotSound(t) /\ ~t.rearm /\ Linked(t, pipe[i]) /\ Timely(t, pipe[i], TRUE)
             /\ Linked(t, FreshPipe) /\ Timely(t, FreshPipe, TRUE)
  <2> HIDE DEF s
  <2>1. SlotSound(t) /\ ~t.rearm
    BY <1>1, <1>2, <1>4 DEF SlotSound, Working, Carrying, Attached, Executing, Served
  <2>2. Linked(t, pipe[i]) /\ Timely(t, pipe[i], TRUE)
    BY <1>1, <1>2, <1>4 DEF Linked, Timely, Served
  <2>3. Linked(t, FreshPipe) /\ Timely(t, FreshPipe, TRUE)
    BY <1>1, <1>2, <1>4, PipeAssumption DEF Linked, Timely, Served, FreshPipe, AbsentPipe
  <2> QED BY <2>1, <2>2, <2>3
<1>5. CASE ~life.running
  <2>1. slot' = [slot EXCEPT ![i] = s] /\ pipe' = pipe /\ RestTyped
    BY <1>5 DEF RecreatePipeInstance, RestTyped
  <2> HIDE DEF s
  <2>2. InstanceSound(s, pipe[i], life.running)
    BY <1>2, <1>4, <1>5 DEF InstanceSound, Timely, Retried
  <2>3. Moves(i) /\ slot'[i] = s /\ pipe'[i] = pipe[i] /\ Shrunk(pipe[i], pipe[i])
    BY <1>2, <2>1 DEF Moves, Sound, Typed, Shrunk
  <2> QED BY <1>1, <1>3, <2>1, <2>2, <2>3, SlotStep
<1>6. CASE /\ life.running /\ Fault /\ pipe' = pipe
           /\ slot' = [slot EXCEPT ![i] = ScheduleRearmLocked([s EXCEPT !.recreateRequired = TRUE])]
  <2> DEFINE t == [s EXCEPT !.recreateRequired = TRUE]
             r == ScheduleRearmLocked(t)
  <2>1. /\ t \in Slot /\ t.phase = "Disconnected" /\ t.pc = "none" /\ t.rearm = s.rearm
        /\ t.pending = s.pending /\ t.job = s.job /\ t.record = s.record /\ t.request = s.request
        /\ t.recreateScheduled = s.recreateScheduled
    BY <1>2 DEF Slot
  <2>2. slot' = [slot EXCEPT ![i] = r] /\ RestTyped
    BY <1>3, <1>6, FaultType DEF RestTyped
  <2> HIDE DEF t, s
  <2>3. r \in Slot /\ InstanceSound(r, pipe[i], TRUE)
    BY <1>4, <2>1, RearmType, RearmSound
  <2> HIDE DEF r
  <2>4. Moves(i) /\ slot'[i] = r /\ pipe'[i] = pipe[i] /\ Shrunk(pipe[i], pipe[i])
    BY <1>6, <2>2, <2>3 DEF Moves, Sound, Typed, Shrunk
  <2>5. InstanceSound(r, pipe[i], life.running)
    BY <1>6, <2>3 DEF InstanceSound, Timely, Retried
  <2> QED BY <1>1, <1>3, <2>2, <2>4, <2>5, SlotStep
<1>7. CASE life.running /\ SetArmed(i, [s EXCEPT !.recreateRequired = FALSE, !.failures = 0], FreshPipe)
  <2> DEFINE t == [s EXCEPT !.recreateRequired = FALSE, !.failures = 0]
  <2>1. /\ t \in Slot /\ t.phase = "Disconnected" /\ t.pc = "none" /\ t.rearm = s.rearm
        /\ t.pending = s.pending /\ t.job = s.job /\ t.record = s.record /\ t.request = s.request
        /\ t.recreateScheduled = s.recreateScheduled
    BY <1>2 DEF Slot
  <2> HIDE DEF t
  <2>2. PICK error \in ArmError : /\ FaultIf(error)
                                  /\ slot' = [slot EXCEPT ![i] = Arm(t, FreshPipe, error).s]
                                  /\ pipe' = [pipe EXCEPT ![i] = Arm(t, FreshPipe, error).p]
    BY <1>7 DEF SetArmed, t
  <2> HIDE DEF s
  <2>3. RestTyped
    BY <1>3, <2>2, FaultType DEF RestTyped
  <2>4. FreshPipe \in Pipe /\ Shrunk(FreshPipe, pipe[i])
    BY PipeTypes DEF Shrunk, FreshPipe, AbsentPipe
  <2>5. SlotSound(t) /\ ~t.rearm /\ Linked(t, FreshPipe) /\ Timely(t, FreshPipe, TRUE)
    BY <1>4, <2>1
  <2> QED BY <1>1, <1>3, <2>1, <2>2, <2>3, <2>4, <2>5, ArmStep
<1> QED BY <1>5, <1>6, <1>7 DEF RecreatePipeInstance

LEMMA HandleConnectedInstanceSound ==
    ASSUME Sound, NEW i \in Instance, NEW trusted \in BOOLEAN, HandleConnectedInstance(i, trusted),
           UNCHANGED clientVars
    PROVE  Sound'
<1> USE At
<1> DEFINE s == [slot[i] EXCEPT !.pc = "none", !.phase = "ReadingRequest", !.request = NoRequest,
                                !.answer = NoAnswer, !.record = 0,
                                !.deadline = now + RequestTimeout, !.failures = 0]
<1>1. slot[i].pc = "connected" /\ slot[i].phase = "Connecting" /\ slot[i] # NewSlot(FALSE)
    BY DEF HandleConnectedInstance, SlotSound, Slot, Phase, NewSlot, Working, Carrying, Attached, Executing
<1>2. budget' \in [Event -> Nat]
    BY FaultType DEF HandleConnectedInstance
<1>3. UNCHANGED <<client, wire, epoch, now, life, mutationActive, executed>>
    BY DEF HandleConnectedInstance, clientVars
<1>4. CASE Finish(i)
    BY <1>1, <1>2, <1>3, <1>4, FinishStep
<1>5. CASE ~Finish(i)
  <2>1. slot' = [slot EXCEPT ![i] = s] /\ pipe' = pipe /\ cache' = cache
    BY <1>5 DEF HandleConnectedInstance, Sound, Typed
  <2>2. now + RequestTimeout \in Nat
    BY ServerAssumption
  <2>3. /\ s \in Slot /\ s.phase = "ReadingRequest" /\ s.pc = "none" /\ s.rearm = slot[i].rearm
        /\ s.pending = slot[i].pending /\ s.job = slot[i].job /\ s.record = 0
        /\ s.recreateScheduled = slot[i].recreateScheduled /\ s.deadline = now + RequestTimeout
    BY <2>2 DEF Slot, Phase, Pc
  <2> HIDE DEF s
  <2>4. SlotSound(s) /\ Retried(s, life.running)
    BY <1>1, <2>3 DEF SlotSound, Retried, Working, Carrying, Attached, Executing, Served
  <2>5. Linked(s, pipe[i])
    BY <1>1, <2>3 DEF Linked, Served
  <2>6. Timely(s, pipe[i], life.running)
    <3> SUFFICES ASSUME pipe[i].client \in Client, life.running
                 PROVE  s.deadline <= client[pipe[i].client].deadline + RequestTimeout
                        /\ pipe[i].state # "fresh"
        BY <1>1, <2>3 DEF Timely, Linked
    <3>1. now < client[pipe[i].client].deadline /\ pipe[i].state # "fresh"
        BY <1>1 DEF Timely, Linked
    <3>2. client[pipe[i].client].deadline \in Nat
        BY DEF Sound, Typed, CallState
    <3>3. RequestTimeout \in Nat /\ now \in Nat
        BY ServerAssumption
    <3> QED BY <2>3, <3>1, <3>2, <3>3
  <2>7. Moves(i) /\ slot'[i] = s /\ pipe'[i] = pipe[i] /\ Shrunk(pipe[i], pipe[i]) /\ RestTyped
    BY <1>2, <1>3, <2>1, <2>3 DEF Moves, Sound, Typed, Shrunk, RestTyped
  <2> QED BY <1>1, <1>3, <2>4, <2>5, <2>6, <2>7, SlotStep DEF InstanceSound
<1> QED BY <1>4, <1>5

LEMMA TransferFailsSound ==
    ASSUME Sound, NEW i \in Instance, TransferFails(i), UNCHANGED clientVars
    PROVE  Sound'
<1>1. budget' \in [Event -> Nat]
    BY At, FaultType DEF TransferFails
<1> QED BY <1>1, FinishStep DEF TransferFails, InTransfer, clientVars

LEMMA ClientConnectedSound ==
    ASSUME Sound, NEW i \in Instance, ClientConnected(i), UNCHANGED clientVars
    PROVE  Sound'
<1> USE At
<1> DEFINE s == [slot[i] EXCEPT !.pc = "connected"]
<1>1. slot[i].phase = "Connecting" /\ slot[i].pc = "none" /\ slot[i] # NewSlot(FALSE)
      /\ pipe[i].client # NoClient
    BY DEF ClientConnected, InTransfer, NewSlot
<1>2. slot' = [slot EXCEPT ![i] = s] /\ pipe' = pipe
    BY DEF ClientConnected, Sound, Typed
<1>3. /\ s \in Slot /\ s.phase = "Connecting" /\ s.pc = "connected" /\ s.rearm = slot[i].rearm
      /\ s.pending = slot[i].pending /\ s.job = slot[i].job /\ s.record = slot[i].record
      /\ s.recreateScheduled = slot[i].recreateScheduled /\ s.request = slot[i].request
    BY <1>1 DEF Slot, Phase, Pc
<1> HIDE DEF s
<1>4. SlotSound(s) /\ Retried(s, life.running)
    BY <1>1, <1>3 DEF SlotSound, Retried, Working, Carrying, Attached, Executing, Served
<1>5. Linked(s, pipe[i]) /\ Timely(s, pipe[i], life.running)
    BY <1>1, <1>3 DEF Linked, Timely, Served, Pipe
<1>6. Moves(i) /\ slot'[i] = s /\ pipe'[i] = pipe[i] /\ Shrunk(pipe[i], pipe[i]) /\ RestTyped
    BY <1>2, <1>3 DEF Moves, Sound, Typed, Shrunk, RestTyped, ClientConnected
<1> QED BY <1>1, <1>4, <1>5, <1>6, SlotStep DEF InstanceSound, ClientConnected, clientVars

LEMMA DispatchRequestSound ==
    ASSUME Sound, NEW i \in Instance, DispatchRequest(i), UNCHANGED clientVars
    PROVE  Sound'
<1> USE At
<1> DEFINE s == [slot[i] EXCEPT !.phase = "RunningHandler", !.pc = "queued", !.pending = TRUE,
                                !.request = pipe[i].request]
           p == [pipe[i] EXCEPT !.request = NoRequest]
<1>1. slot[i].phase = "ReadingRequest" /\ slot[i].pc = "none" /\ slot[i] # NewSlot(FALSE)
    BY DEF DispatchRequest, InTransfer, NewSlot
<1>2. /\ pipe[i].request \in Request /\ pipe[i].request.id \in Id /\ pipe[i].client \in Client
      /\ pipe[i].request = wire[pipe[i].client]
    BY DEF DispatchRequest, Pipe, Request, Linked
<1>3. slot' = [slot EXCEPT ![i] = s] /\ pipe' = [pipe EXCEPT ![i] = p]
    BY DEF DispatchRequest, Sound, Typed
<1>4. /\ s \in Slot /\ s.phase = "RunningHandler" /\ s.pc = "queued" /\ s.rearm = slot[i].rearm
      /\ s.pending /\ s.job = slot[i].job /\ s.record = slot[i].record
      /\ s.recreateScheduled = slot[i].recreateScheduled /\ s.request = pipe[i].request
    BY <1>1, <1>2 DEF Slot, Phase, Pc
<1>5. /\ p \in Pipe /\ p.request = NoRequest /\ p.client = pipe[i].client /\ p.closed = pipe[i].closed
      /\ p.state = pipe[i].state /\ p.answer = pipe[i].answer /\ p.acknowledged = pipe[i].acknowledged
    BY DEF Pipe
<1> HIDE DEF s, p
<1>6. SlotSound(s) /\ Retried(s, life.running)
    BY <1>1, <1>2, <1>4 DEF SlotSound, Retried, Working, Carrying, Attached, Executing, Served
<1>7. client[pipe[i].client].pc # "writing"
    BY <1>2 DEF Sound, ClientSound
<1>8. Linked(s, p) /\ Timely(s, p, life.running) /\ Shrunk(p, pipe[i])
    BY <1>1, <1>2, <1>4, <1>5, <1>7 DEF Linked, Timely, Served, Shrunk
<1>9. CacheTyped(cache')
    BY <1>2, RegisterForm DEF DispatchRequest
<1>10. Moves(i) /\ slot'[i] = s /\ pipe'[i] = p
    BY <1>3, <1>4, <1>5 DEF Moves, Sound, Typed
<1>11. RestTyped
    BY <1>9 DEF RestTyped, DispatchRequest
<1> QED BY <1>1, <1>6, <1>8, <1>10, <1>11, SlotStep DEF InstanceSound, DispatchRequest, clientVars

LEMMA WriteResponseSound ==
    ASSUME Sound, NEW i \in Instance, WriteResponse(i), UNCHANGED clientVars
    PROVE  Sound'
<1> USE At
<1> DEFINE s == [slot[i] EXCEPT !.phase = "ReadingAcknowledgement"]
           p == [pipe[i] EXCEPT !.answer = slot[i].answer]
<1>1. slot[i].phase = "WritingResponse" /\ slot[i].pc = "none" /\ slot[i] # NewSlot(FALSE)
    BY DEF WriteResponse, InTransfer, NewSlot
<1>2. slot' = [slot EXCEPT ![i] = s] /\ pipe' = [pipe EXCEPT ![i] = p]
    BY DEF WriteResponse, Sound, Typed
<1>3. /\ s \in Slot /\ s.phase = "ReadingAcknowledgement" /\ s.pc = "none" /\ s.rearm = slot[i].rearm
      /\ s.pending = slot[i].pending /\ s.job = slot[i].job /\ s.record = slot[i].record
      /\ s.recreateScheduled = slot[i].recreateScheduled /\ s.request = slot[i].request
    BY <1>1 DEF Slot, Phase
<1>4. /\ p \in Pipe /\ p.request = pipe[i].request /\ p.client = pipe[i].client
      /\ p.closed = pipe[i].closed /\ p.state = pipe[i].state /\ p.acknowledged = pipe[i].acknowledged
    BY DEF Pipe, Slot
<1> HIDE DEF s, p
<1>5. SlotSound(s) /\ Retried(s, life.running)
    BY <1>1, <1>3 DEF SlotSound, Retried, Working, Carrying, Attached, Executing, Served
<1>6. Linked(s, p) /\ Timely(s, p, life.running) /\ Shrunk(p, pipe[i])
    BY <1>1, <1>3, <1>4 DEF Linked, Timely, Served, Shrunk
<1>7. Moves(i) /\ slot'[i] = s /\ pipe'[i] = p /\ RestTyped
    BY <1>2, <1>3, <1>4 DEF Moves, Sound, Typed, RestTyped, WriteResponse
<1> QED BY <1>1, <1>5, <1>6, <1>7, SlotStep DEF InstanceSound, WriteResponse, clientVars

LEMMA ReadAcknowledgementSound ==
    ASSUME Sound, NEW i \in Instance, ReadAcknowledgement(i), UNCHANGED clientVars
    PROVE  Sound'
<1> USE At
<1> DEFINE s == [slot[i] EXCEPT !.phase = "Disconnected", !.record = 0]
<1>1. slot[i].phase = "ReadingAcknowledgement" /\ slot[i].pc = "none" /\ slot[i] # NewSlot(FALSE)
    BY DEF ReadAcknowledgement, InTransfer, NewSlot
<1>0. slot[i].request.id \in Id
    BY <1>1 DEF SlotSound, Served, Request
<1>2. /\ s \in Slot /\ s.phase = "Disconnected" /\ s.pc = "none" /\ s.rearm = slot[i].rearm
      /\ s.pending = slot[i].pending /\ s.job = slot[i].job /\ s.record = 0
      /\ s.recreateScheduled = slot[i].recreateScheduled
    BY <1>1 DEF Slot, Phase
<1> HIDE DEF s
<1>3. SlotSound(s) /\ ~s.rearm
    BY <1>1, <1>2 DEF SlotSound, Working, Carrying, Attached, Executing, Served
<1>4. Linked(s, IdlePipe) /\ Timely(s, IdlePipe, TRUE) /\ Shrunk(IdlePipe, pipe[i]) /\ IdlePipe \in Pipe
    BY <1>2, PipeTypes, PipeAssumption DEF Linked, Timely, Shrunk, IdlePipe, AbsentPipe, Served
<1>5. PICK error \in ArmError : /\ FaultIf(error)
                                /\ slot' = [slot EXCEPT ![i] = Arm(s, IdlePipe, error).s]
                                /\ pipe' = [pipe EXCEPT ![i] = Arm(s, IdlePipe, error).p]
    BY DEF ReadAcknowledgement, SetArmed, s
<1>6. CacheTyped(cache')
    BY <1>0, CompleteDeliveryType DEF ReadAcknowledgement, Slot
<1>7. RestTyped
    BY <1>5, <1>6, FaultType DEF RestTyped, ReadAcknowledgement
<1> QED BY <1>1, <1>2, <1>3, <1>4, <1>5, <1>7, ArmStep DEF ReadAcknowledgement, clientVars

-----------------------------------------------------------------------------
(* The life cycle.                                                         *)

(* A step that leaves the slots, the pipes and the clients alone.          *)
LEMMA LifeStep ==
    ASSUME Sound, life' \in Life, UNCHANGED <<slot, pipe, client, wire, epoch, now>>, RestTyped,
           life'.running => life.running, Fallow'
    PROVE  Sound'
<1>1. Typed' /\ Distinct'
    BY DEF Sound, Typed, Distinct, RestTyped
<1>2. \A i \in Instance : InstanceSound(slot[i], pipe[i], life.running)'
    BY DEF Sound, InstanceSound, Linked, Timely, Retried
<1>3. \A c \in Client : ClientSound(c)'
    BY DEF Sound, ClientSound, Owns
<1> QED BY <1>1, <1>2, <1>3 DEF Sound

LEMMA LifeCycleSound ==
    ASSUME Sound, UNCHANGED clientVars,
           \/ Start \/ OnStartRetry \/ CreatePipesFails \/ RequestStop \/ Stop \/ RequestTokenStop
    PROVE  Sound'
<1> USE DEF clientVars
<1>0. life \in Life /\ budget \in [Event -> Nat] /\ executed \in [Request -> Nat]
      /\ mutationActive \in BOOLEAN /\ CacheTyped(cache) /\ Fallow
    BY DEF Sound, Typed
<1>1. CASE Start
  <2>1. RestTyped
    BY <1>0, <1>1, SpendType DEF Start, RestTyped, Event
  <2>2. life' \in Life /\ life'.running = life.running
    BY <1>0, <1>1 DEF Start, Life
  <2>3. Fallow'
    BY <1>0, <1>1 DEF Start, Life, Fallow
  <2> QED BY <1>1, <2>1, <2>2, <2>3, LifeStep DEF Start
<1>2. CASE OnStartRetry
  <2>1. RestTyped
    BY <1>0, <1>2 DEF OnStartRetry, RestTyped
  <2>2. life' \in Life /\ life'.running = life.running
    BY <1>0, <1>2 DEF OnStartRetry, Life
  <2>3. Fallow'
    BY <1>0, <1>2 DEF OnStartRetry, Life, Fallow
  <2> QED BY <1>2, <2>1, <2>2, <2>3, LifeStep DEF OnStartRetry
<1>3. CASE CreatePipesFails
  <2>1. RestTyped
    BY <1>0, <1>3, FaultType DEF CreatePipesFails, RestTyped
  <2>2. life' \in Life /\ life'.running = life.running
    BY <1>0, <1>3 DEF CreatePipesFails, Life
  <2>3. Fallow'
    BY <1>0, <1>3 DEF CreatePipesFails, Life, Fallow
  <2> QED BY <1>3, <2>1, <2>2, <2>3, LifeStep DEF CreatePipesFails
<1>4. CASE RequestStop
  <2>1. RestTyped
    BY <1>0, <1>4, SpendType DEF RequestStop, RestTyped, Event
  <2>2. life' \in Life /\ ~life'.running
    BY <1>0, <1>4 DEF RequestStop, StopLife, Life
  <2>3. Fallow'
    BY <1>0, <1>4 DEF RequestStop, StopLife, Life, Fallow
  <2> QED BY <1>4, <2>1, <2>2, <2>3, LifeStep DEF RequestStop
<1>5. CASE Stop
  <2>1. RestTyped
    BY <1>0, <1>5, SpendType DEF Stop, RestTyped, Event
  <2>2. life' \in Life /\ ~life'.running
    BY <1>0, <1>5 DEF Stop, StopLife, Life
  <2>3. Fallow'
    BY <1>0, <1>5 DEF Stop, StopLife, Life, Fallow
  <2> QED BY <1>5, <2>1, <2>2, <2>3, LifeStep DEF Stop
<1>6. CASE RequestTokenStop
  <2>1. RestTyped
    BY <1>0, <1>6 DEF RequestTokenStop, RestTyped
  <2>2. life' \in Life /\ life'.running = life.running
    BY <1>0, <1>6 DEF RequestTokenStop, Life
  <2>3. Fallow'
    BY <1>0, <1>6 DEF RequestTokenStop, Life, Fallow
  <2> QED BY <1>6, <2>1, <2>2, <2>3, LifeStep DEF RequestTokenStop
<1> QED BY <1>1, <1>2, <1>3, <1>4, <1>5, <1>6

LEMMA StopInHandlerSound ==
    ASSUME Sound, NEW i \in Instance, StopInHandler(i), UNCHANGED clientVars
    PROVE  Sound'
<1>1. RestTyped
    BY At, SpendType DEF StopInHandler, RestTyped, Event
<1>2. life' \in Life /\ ~life'.running
    BY At DEF StopInHandler, StopLife, Life
<1>3. slot[i] # NewSlot(FALSE)
    BY DEF StopInHandler, NewSlot
<1>4. Fallow'
    BY <1>3, At DEF Sound, StopInHandler, StopLife, Life, Fallow
<1> QED BY <1>1, <1>2, <1>4, LifeStep DEF StopInHandler, clientVars

LEMMA OnRequestPruneSound ==
    ASSUME Sound, OnRequestPrune, UNCHANGED clientVars
    PROVE  Sound'
<1>1. CacheTyped(cache) /\ now \in Nat /\ life \in Life
    BY DEF Sound, Typed
<1>2. RestTyped
    BY <1>1, PruneAndScheduleForm DEF OnRequestPrune, RestTyped, Sound, Typed
<1>3. Fallow'
    BY DEF Sound, Fallow, OnRequestPrune
<1> QED BY <1>1, <1>2, <1>3, LifeStep DEF OnRequestPrune, clientVars

(* Every slot is new and every pipe is gone.                               *)
LEMMA ResetSound ==
    ASSUME Sound, UNCHANGED <<client, wire, now>>, epoch' \in Nat \ {0}, epoch <= epoch',
           life' \in Life, ~life'.running, RestTyped,
           slot' = [i \in Instance |-> NewSlot(FALSE)], pipe' = [i \in Instance |-> AbsentPipe]
    PROVE  Sound'
<1>1. Typed' /\ Distinct' /\ Fallow'
    BY NewSlotType, PipeTypes DEF Sound, Typed, Distinct, Fallow, RestTyped
<1>2. SlotSound(NewSlot(FALSE)) /\ Linked(NewSlot(FALSE), AbsentPipe)'
    BY PipeAssumption DEF SlotSound, Linked, NewSlot, NoJob, AbsentPipe, Working, Carrying, Attached, Executing, Served
<1>3. \A i \in Instance : InstanceSound(slot[i], pipe[i], life.running)'
    BY <1>2, PipeAssumption DEF InstanceSound, Timely, Retried, AbsentPipe
<1>4. ASSUME NEW c \in Client PROVE ClientSound(c)'
  <2>1. \A i \in Instance : pipe'[i].client # c /\ pipe'[i].request # wire[c]
    BY PipeAssumption DEF AbsentPipe, Sound, Typed
  <2>2. client[c].expected \in Nat /\ epoch \in Nat
    BY DEF Sound, Typed, CallState
  <2>3. client[c].expected <= epoch'
    BY <2>2 DEF Sound, ClientSound
  <2> QED BY <2>1, <2>3 DEF Sound, ClientSound, Owns
<1> QED BY <1>1, <1>3, <1>4 DEF Sound

LEMMA StopDrainedSound ==
    ASSUME Sound, StopDrained, UNCHANGED clientVars
    PROVE  Sound'
<1>1. RestTyped
    BY StopCacheForm DEF StopDrained, RestTyped, Sound, Typed
<1>2. life' \in Life /\ life'.running = life.running
    BY DEF StopDrained, Life, Sound, Typed
<1>3. ~life.running
    BY DEF StopDrained, Sound, Fallow
<1>4. epoch' \in Nat \ {0} /\ epoch <= epoch'
    BY DEF StopDrained, Sound, Typed
<1> QED BY <1>1, <1>2, <1>3, <1>4, ResetSound DEF StopDrained, clientVars

LEMMA EmptyCacheType == CacheTyped(EmptyCache)
BY DEF CacheTyped, EmptyCache

LEMMA CrashSound ==
    ASSUME Sound, Crash, UNCHANGED clientVars
    PROVE  Sound'
<1>1. RestTyped
    BY EmptyCacheType, SpendType DEF Crash, RestTyped, Sound, Typed, Event
<1>2. life' \in Life /\ ~life'.running
    BY DEF Crash, Life, NewLife
<1>3. epoch' \in Nat \ {0} /\ epoch <= epoch'
    BY DEF Crash, Sound, Typed
<1> QED BY <1>1, <1>2, <1>3, ResetSound DEF Crash, clientVars

LEMMA CreatePipesSound ==
    ASSUME Sound, NEW created \in SUBSET Instance, CreatePipes(created), UNCHANGED clientVars
    PROVE  Sound'
<1>1. \A i \in Instance : slot[i] = NewSlot(FALSE) /\ pipe'[i] \in {FreshPipe, AbsentPipe}
    BY DEF CreatePipes, Sound, Fallow
<1>2. ~life.running /\ budget \in [Event -> Nat]
    BY DEF CreatePipes, Sound, Fallow, Typed
<1>3. pipe' \in [Instance -> Pipe]
    BY PipeTypes DEF CreatePipes
<1>4. Typed' /\ Distinct' /\ Fallow'
  <2>1. RestTyped
    BY <1>2, FaultType DEF CreatePipes, RestTyped, Sound, Typed
  <2> QED BY <1>3, <2>1 DEF CreatePipes, clientVars, Sound, Typed, Distinct, Fallow, RestTyped
<1>5. \A i \in Instance : InstanceSound(slot[i], pipe[i], life.running)'
  <2> SUFFICES ASSUME NEW i \in Instance PROVE InstanceSound(slot[i], pipe[i], life.running)'
    OBVIOUS
  <2>1. slot'[i] = NewSlot(FALSE) /\ slot[i] = NewSlot(FALSE) /\ ~life'.running
    BY <1>1, <1>2 DEF CreatePipes
  <2>2. SlotSound(slot'[i]) /\ Retried(slot'[i], life'.running)
    BY <2>1, At DEF Retried
  <2>3. Linked(slot[i], pipe[i])' /\ Timely(slot[i], pipe[i], life.running)'
    BY <1>1, <2>1, PipeAssumption DEF Linked, Timely, FreshPipe, AbsentPipe, NewSlot, Served
  <2> QED BY <2>2, <2>3 DEF InstanceSound
<1>6. \A i \in Instance : Shrunk(pipe'[i], pipe[i])
  <2>1. /\ FreshPipe.request = NoRequest /\ FreshPipe.client = NoClient
        /\ AbsentPipe.request = NoRequest /\ AbsentPipe.client = NoClient
    BY DEF FreshPipe, AbsentPipe
  <2> QED BY <1>1, <2>1 DEF Shrunk
<1>7. \A c \in Client : ClientSound(c)'
    BY <1>3, <1>5, <1>6, ClientsUndisturbed DEF CreatePipes, clientVars, InstanceSound
<1> QED BY <1>4, <1>5, <1>7 DEF Sound

LEMMA InstallPipesSound ==
    ASSUME Sound, InstallPipes, UNCHANGED clientVars
    PROVE  Sound'
<1>1. /\ life.starting /\ \A i \in Instance : slot[i] = NewSlot(FALSE)
      /\ life \in Life /\ ~life.running
    BY DEF InstallPipes, Sound, Fallow, Typed
<1>2. RestTyped
    BY DEF InstallPipes, RestTyped, Sound, Typed
<1>3. CASE ~life.desired \/ life.stopRequested \/ life.stopping
  <2>1. life' \in Life /\ ~life'.running
    BY <1>1, <1>3 DEF InstallPipes, Life
  <2>2. slot' = [i \in Instance |-> NewSlot(FALSE)]
    BY <1>1, <1>3 DEF InstallPipes, Sound, Typed
  <2>3. pipe' = [i \in Instance |-> AbsentPipe]
    BY <1>3 DEF InstallPipes
  <2>4. epoch' \in Nat \ {0} /\ epoch <= epoch'
    BY DEF InstallPipes, Sound, Typed
  <2> QED BY <1>2, <2>1, <2>2, <2>3, <2>4, ResetSound DEF InstallPipes, clientVars
<1>4. CASE life.desired /\ ~life.stopRequested /\ ~life.stopping
  <2> DEFINE fresh(i) == NewSlot(pipe[i].state # "absent")
             armed(i) == ArmRunning(fresh(i), pipe[i], "none")
  <2>1. /\ slot' = [i \in Instance |-> armed(i).s]
        /\ pipe' = [i \in Instance |-> armed(i).p]
        /\ life' = [life EXCEPT !.running = TRUE, !.starting = FALSE, !.retry = FALSE, !.token = FALSE]
    BY <1>4 DEF InstallPipes
  <2>2. life' \in Life /\ life'.running /\ ~life'.starting /\ ~life'.retry /\ ~life'.stopRequested
        /\ ~life'.stopping
    BY <1>1, <1>4, <2>1 DEF Life
  <2>3. ASSUME NEW i \in Instance
        PROVE  /\ armed(i).s \in Slot /\ armed(i).p \in Pipe
               /\ InstanceSound(armed(i).s, armed(i).p, TRUE) /\ Shrunk(armed(i).p, pipe[i])
    <3> DEFINE s == fresh(i)
    <3>1. s \in Slot /\ s.phase = "Disconnected" /\ s.pc = "none" /\ ~s.rearm
        BY NewSlotType DEF NewSlot
    <3>2. SlotSound(s)
        BY DEF SlotSound, NewSlot, NoJob, Working, Carrying, Attached, Executing, Served
    <3>3. Linked(slot[i], pipe[i]) /\ Timely(slot[i], pipe[i], FALSE) /\ slot[i].phase = "Disconnected"
          /\ slot[i].pc = "none" /\ pipe[i] \in Pipe
        BY <1>1, At DEF NewSlot, Timely
    <3>4. Linked(s, pipe[i]) /\ Timely(s, pipe[i], TRUE)
        BY <3>1, <3>3 DEF Linked, Timely, Served
    <3>5. "none" \in ArmError
        BY DEF ArmError
    <3> HIDE DEF s
    <3>6. LET a == ArmRunning(s, pipe[i], "none")
          IN /\ a.s \in Slot /\ a.p \in Pipe
             /\ InstanceSound(a.s, a.p, TRUE) /\ Shrunk(a.p, pipe[i])
        BY <3>1, <3>2, <3>3, <3>4, <3>5, ArmType
    <3> QED BY <3>6 DEF s
  <2> HIDE DEF armed
  <2>4. slot' \in [Instance -> Slot] /\ pipe' \in [Instance -> Pipe]
    BY <2>1, <2>3
  <2>5. \A i \in Instance : InstanceSound(slot'[i], pipe'[i], TRUE) /\ Shrunk(pipe'[i], pipe[i])
    BY <2>1, <2>3
  <2>6. \A i \in Instance : InstanceSound(slot[i], pipe[i], life.running)'
    BY <2>2, <2>5 DEF InstanceSound, Linked, Timely, Retried, InstallPipes, clientVars
  <2>7. \A c \in Client : ClientSound(c)'
    BY <2>4, <2>5, <2>6, ClientsUndisturbed DEF InstallPipes, clientVars, InstanceSound
  <2>8. Typed' /\ Distinct' /\ Fallow'
    BY <1>2, <2>2, <2>4 DEF InstallPipes, clientVars, Sound, Typed, Distinct, Fallow, RestTyped
  <2> QED BY <2>6, <2>7, <2>8 DEF Sound
<1> QED BY <1>1, <1>3, <1>4 DEF Life

LEMMA ServerStepSound ==
    ASSUME Sound, ServerStep
    PROVE  Sound'
<1>1. CASE LifeCycle
    BY <1>1, LifeCycleSound, CreatePipesSound, InstallPipesSound, StopDrainedSound, CrashSound
    DEF ServerStep, LifeCycle
<1>2. CASE OnRequestPrune
    BY <1>2, OnRequestPruneSound DEF ServerStep
<1>3. ASSUME NEW i \in Instance, Connection(i) PROVE Sound'
    BY <1>3, OnRearmReadySound, DetachPipeSound, RecreatePipeInstanceSound, ClientConnectedSound,
       HandleConnectedInstanceSound, TransferFailsSound, DispatchRequestSound, WriteResponseSound,
       ReadAcknowledgementSound
    DEF ServerStep, Connection
<1>4. ASSUME NEW i \in Instance, Handling(i) PROVE Sound'
    BY <1>4, HandlerBeginsSound, ApartmentUnavailableSound, ExecuteOnceSound, TakeAnswerSound,
       StopWaitingSound, HandleSound, HandlerReturnsSound, ReleasePendingSound, RespondSound,
       StopInHandlerSound
    DEF ServerStep, Handling
<1> QED BY <1>1, <1>2, <1>3, <1>4 DEF ServerStep, Server

-----------------------------------------------------------------------------
(* The steps of a client and of the clock.                                 *)

LEMMA CallStep ==
    ASSUME Sound, NEW c \in Client, NEW d \in CallState, client' = [client EXCEPT ![c] = d],
           UNCHANGED <<wire, epoch, now, serverVars>>, budget' \in [Event -> Nat],
           pipe' \in [Instance -> Pipe],
           \A i \in Instance : pipe'[i] = pipe[i] \/ (pipe'[i].client = c /\ pipe[i].client \in {c, NoClient}),
           \A i \in Instance : pipe'[i].client = c =>
                Linked(slot[i], pipe[i])' /\ Timely(slot[i], pipe[i], life.running)',
           ClientSound(c)'
    PROVE  Sound'
<1>1. Typed' /\ Distinct' /\ Fallow'
    BY DEF Sound, Typed, Distinct, Fallow, serverVars
<1>2. ASSUME NEW i \in Instance PROVE InstanceSound(slot[i], pipe[i], life.running)'
  <2>1. SlotSound(slot[i])' /\ Retried(slot[i], life.running)'
    BY At DEF serverVars
  <2>2. CASE pipe'[i].client # c
    <3>1. pipe'[i] = pipe[i] /\ pipe[i].client # c /\ slot'[i] = slot[i] /\ life' = life
        BY <2>2 DEF serverVars
    <3>2. pipe[i].client \in Client => client'[pipe[i].client] = client[pipe[i].client]
        BY <3>1 DEF Sound, Typed
    <3>3. slot[i].phase \in Served => pipe[i].client \in Client
        BY At DEF Linked, Served
    <3>4. Linked(slot[i], pipe[i])'
        BY <3>1, <3>2, <3>3, At DEF Linked
    <3>5. Timely(slot[i], pipe[i], life.running)'
        BY <3>1, <3>2, At DEF Timely
    <3> QED BY <2>1, <3>4, <3>5 DEF InstanceSound
  <2> QED BY <2>1, <2>2 DEF InstanceSound
<1>3. ASSUME NEW e \in Client, e # c PROVE ClientSound(e)'
  <2>1. ClientSound(e) /\ client'[e] = client[e] /\ wire[e] \in Request /\ wire[e] # wire[c]
    BY <1>3 DEF Sound, Typed, Distinct
  <2>2. \A i \in Instance : pipe'[i].client = e <=> pipe[i].client = e
    BY <1>3, PipeAssumption
  <2>3. \A i \in Instance : pipe'[i].client = e => pipe'[i] = pipe[i]
    BY <1>3
  <2>4. \A i \in Instance : pipe'[i].request = wire[e] => pipe'[i].client = e /\ pipe[i].request = wire[e]
    BY <1>2, <2>1, <2>3, PipeAssumption DEF InstanceSound, Linked, Sound, Distinct
  <2> QED BY <2>1, <2>2, <2>3, <2>4 DEF ClientSound, Owns
<1> QED BY <1>1, <1>2, <1>3 DEF Sound

LEMMA CallOf ==
    ASSUME Sound, NEW c \in Client
    PROVE  /\ client[c] \in CallState /\ ClientSound(c) /\ wire[c] \in Request /\ epoch \in Nat \ {0}
           /\ now \in Nat /\ budget \in [Event -> Nat] /\ pipe \in [Instance -> Pipe]
           /\ client \in [Client -> CallState]
BY DEF Sound, Typed

LEMMA BeginSound ==
    ASSUME Sound, NEW c \in Client, Begin(c), UNCHANGED serverVars
    PROVE  Sound'
<1> USE CallOf
<1> DEFINE d == [client[c] EXCEPT !.pc = "opening", !.deadline = now + OverallTimeout]
<1>1. now + OverallTimeout \in Nat
    BY ClientAssumption
<1>2. /\ d \in CallState /\ d.pc = "opening" /\ d.deadline = now + OverallTimeout
      /\ d.attempt = client[c].attempt /\ d.expected = client[c].expected
      /\ d.outcome = client[c].outcome
    BY <1>1 DEF CallState
<1>3. client' = [client EXCEPT ![c] = d] /\ pipe' = pipe
    BY DEF Begin
<1> HIDE DEF d
<1>4. client[c].expected = NoServer /\ \A i \in Instance : pipe[i].client # c /\ pipe[i].request # wire[c]
    BY DEF Begin, ClientSound
<1>5. budget' \in [Event -> Nat]
    BY SpendType DEF Begin, Event
<1>6. client'[c] = d /\ client[c].pc = "idle" /\ UNCHANGED <<wire, epoch, now, serverVars>>
    BY <1>3 DEF Begin
<1>7. ClientSound(c)'
  <2>1. ClientSound(c) /\ d.deadline <= now + OverallTimeout
    BY <1>1, <1>2
  <2>2. d.attempt = "first" /\ d.expected = NoServer /\ d.outcome = "none" /\ d.expected <= epoch
    BY <1>2, <1>4, <1>6, <2>1 DEF ClientSound
  <2> QED BY <1>2, <1>3, <1>4, <1>6, <2>1, <2>2 DEF ClientSound, Owns
<1> QED BY <1>2, <1>3, <1>4, <1>5, <1>6, <1>7, CallStep

LEMMA OpenSound ==
    ASSUME Sound, NEW c \in Client, NEW i \in Instance, Open(c, i), UNCHANGED serverVars
    PROVE  Sound'
<1> USE CallOf, At
<1> DEFINE d == [client[c] EXCEPT !.pc = "writing", !.expected = epoch]
           p == [pipe[i] EXCEPT !.client = c,
                                !.state = IF pipe[i].state = "listening" THEN "connected" ELSE pipe[i].state]
<1>1. /\ d \in CallState /\ d.pc = "writing" /\ d.deadline = client[c].deadline
      /\ d.attempt = client[c].attempt /\ d.expected = epoch
      /\ d.outcome = client[c].outcome
    BY DEF CallState
<1>2. /\ p \in Pipe /\ p.client = c /\ p.closed = pipe[i].closed /\ p.request = pipe[i].request
      /\ p.answer = pipe[i].answer /\ p.acknowledged = pipe[i].acknowledged
      /\ p.state = (IF pipe[i].state = "listening" THEN "connected" ELSE pipe[i].state)
    BY DEF Pipe, PipeState
<1>3. client' = [client EXCEPT ![c] = d] /\ pipe' = [pipe EXCEPT ![i] = p]
    BY DEF Open
<1> HIDE DEF d, p
<1>4. /\ pipe[i].client = NoClient /\ pipe[i].state \in {"fresh", "listening"} /\ client[c].pc = "opening"
      /\ now < client[c].deadline
    BY DEF Open, CanOpen
<1>5. pipe[i].request = NoRequest
    BY <1>4, PipeAssumption DEF Linked
<1>6. /\ pipe'[i] = p /\ \A j \in Instance \ {i} : pipe'[j] = pipe[j]
      /\ pipe' \in [Instance -> Pipe] /\ client'[c] = d
    BY <1>2, <1>3
<1>7. slot[i].phase \notin {"ReadingRequest"} \cup Served
    BY <1>4 DEF Linked
<1>8. Linked(slot[i], pipe[i])' /\ Timely(slot[i], pipe[i], life.running)'
  <2>1. slot'[i] = slot[i] /\ life' = life /\ now' = now /\ wire' = wire
    BY DEF serverVars, Open
  <2>2. Linked(slot[i], pipe[i])'
    BY <1>2, <1>4, <1>5, <1>6, <1>7, <2>1, PipeAssumption DEF Linked
  <2>3. Timely(slot[i], pipe[i], life.running)'
    BY <1>1, <1>2, <1>4, <1>6, <1>7, <2>1 DEF Timely
  <2> QED BY <2>2, <2>3
<1>9. ASSUME NEW j \in Instance \ {i}, pipe'[j].client = c
      PROVE  Linked(slot[j], pipe[j])' /\ Timely(slot[j], pipe[j], life.running)'
  <2>1. pipe'[j] = pipe[j] /\ pipe[j].closed /\ slot'[j] = slot[j]
    BY <1>4, <1>6, <1>9 DEF ClientSound, Owns, serverVars, Pipe
  <2> QED BY <1>1, <1>6, <1>9, <2>1 DEF Linked, Timely, Open, serverVars
<1>10. ClientSound(c)'
  <2>1. \A j \in Instance : pipe[j].request # wire[c] /\ ~Owns(j, c)
    BY <1>4 DEF ClientSound
  <2>2. \A j \in Instance : pipe'[j].request # wire[c]
    BY <1>2, <1>5, <1>6, <2>1, PipeAssumption
  <2>3. \A j \in Instance : Owns(j, c)' => j = i
    BY <1>6, <2>1 DEF Owns
  <2>4. \A j \in Instance : ~(pipe'[j].client = c /\ pipe'[j].acknowledged)
    BY <1>2, <1>4, <1>6, <1>7 DEF ClientSound, Linked, Served
  <2>5. wire' = wire /\ epoch' = epoch /\ now' = now /\ epoch # 0 /\ client'[c] = d
    BY <1>6 DEF Open
  <2> QED BY <1>1, <1>4, <2>2, <2>3, <2>4, <2>5 DEF ClientSound, NoServer
<1>11. \A j \in Instance : pipe'[j] = pipe[j] \/ (pipe'[j].client = c /\ pipe[j].client \in {c, NoClient})
    BY <1>2, <1>4, <1>6
<1>12. UNCHANGED <<wire, epoch, now, serverVars>> /\ budget' \in [Event -> Nat]
    BY DEF Open
<1>13. \A j \in Instance : pipe'[j].client = c =>
            Linked(slot[j], pipe[j])' /\ Timely(slot[j], pipe[j], life.running)'
    BY <1>8, <1>9
<1> QED BY <1>1, <1>3, <1>6, <1>10, <1>11, <1>12, <1>13, CallStep

LEMMA WriteRequestSound ==
    ASSUME Sound, NEW c \in Client, NEW i \in Instance, WriteRequest(c, i), UNCHANGED serverVars
    PROVE  Sound'
<1> USE CallOf, At
<1> DEFINE d == [client[c] EXCEPT !.pc = "reading"]
           p == [pipe[i] EXCEPT !.request = wire[c]]
<1>1. /\ d \in CallState /\ d.pc = "reading" /\ d.deadline = client[c].deadline
      /\ d.attempt = client[c].attempt /\ d.expected = client[c].expected
      /\ d.outcome = client[c].outcome
    BY DEF CallState
<1>2. /\ p \in Pipe /\ p.client = pipe[i].client /\ p.closed = pipe[i].closed /\ p.request = wire[c]
      /\ p.answer = pipe[i].answer /\ p.acknowledged = pipe[i].acknowledged /\ p.state = pipe[i].state
    BY DEF Pipe
<1>3. client' = [client EXCEPT ![c] = d] /\ pipe' = [pipe EXCEPT ![i] = p]
    BY DEF WriteRequest
<1> HIDE DEF d, p
<1>4. pipe[i].client = c /\ ~pipe[i].closed /\ client[c].pc = "writing"
    BY DEF WriteRequest, Owns
<1>5. /\ pipe'[i] = p /\ \A j \in Instance \ {i} : pipe'[j] = pipe[j]
      /\ pipe' \in [Instance -> Pipe] /\ client'[c] = d
    BY <1>2, <1>3
<1>6. slot[i].phase \notin Served
    BY <1>4 DEF Linked
<1>7. UNCHANGED <<wire, epoch, now, life, slot, serverVars>> /\ budget' \in [Event -> Nat]
    BY DEF WriteRequest, serverVars
<1>8. Linked(slot[i], pipe[i])' /\ Timely(slot[i], pipe[i], life.running)'
  <2>1. Linked(slot[i], pipe[i])'
    BY <1>2, <1>4, <1>5, <1>6, <1>7, PipeAssumption DEF Linked
  <2>2. Timely(slot[i], pipe[i], life.running)'
    BY <1>1, <1>2, <1>4, <1>5, <1>7 DEF Timely
  <2> QED BY <2>1, <2>2
<1>9. ASSUME NEW j \in Instance \ {i}, pipe'[j].client = c
      PROVE  Linked(slot[j], pipe[j])' /\ Timely(slot[j], pipe[j], life.running)'
  <2> QED BY <1>1, <1>5, <1>7, <1>9 DEF Linked, Timely
<1>10. ClientSound(c)'
  <2>1. \A j \in Instance : pipe[j].request # wire[c] /\ (Owns(j, c) => j = i)
    BY <1>4 DEF ClientSound, Owns
  <2>2. \A j \in Instance : pipe'[j].request = wire[c] => j = i /\ Owns(j, c)'
    BY <1>2, <1>4, <1>5, <2>1 DEF Owns
  <2>3. \A j \in Instance : (Owns(j, c)' => Owns(j, c)) /\ (pipe'[j].client = c => pipe[j].client = c)
                            /\ pipe'[j].acknowledged = pipe[j].acknowledged
    BY <1>2, <1>5 DEF Owns
  <2>4. \A j \in Instance : ~(pipe'[j].client = c /\ pipe'[j].acknowledged)
    BY <1>4, <2>3 DEF ClientSound
  <2> QED BY <1>1, <1>4, <1>5, <1>7, <2>1, <2>2, <2>3, <2>4 DEF ClientSound
<1>11. \A j \in Instance : pipe'[j] = pipe[j] \/ (pipe'[j].client = c /\ pipe[j].client \in {c, NoClient})
    BY <1>2, <1>4, <1>5
<1>12. \A j \in Instance : pipe'[j].client = c =>
            Linked(slot[j], pipe[j])' /\ Timely(slot[j], pipe[j], life.running)'
    BY <1>8, <1>9
<1> QED BY <1>1, <1>3, <1>5, <1>7, <1>10, <1>11, <1>12, CallStep

LEMMA ReadResponseSound ==
    ASSUME Sound, NEW c \in Client, NEW i \in Instance, NEW acknowledged \in BOOLEAN,
           ReadResponse(c, i, acknowledged), UNCHANGED serverVars
    PROVE  Sound'
<1> USE CallOf, At
<1> DEFINE d == [client[c] EXCEPT !.pc = "done", !.outcome = "complete", !.answer = pipe[i].answer]
           p == [pipe[i] EXCEPT !.closed = TRUE, !.acknowledged = acknowledged]
<1>1. /\ d \in CallState /\ d.pc = "done" /\ d.deadline = client[c].deadline
      /\ d.attempt = client[c].attempt /\ d.expected = client[c].expected
      /\ d.outcome = "complete"
    BY DEF CallState, Pipe
<1>2. /\ p \in Pipe /\ p.client = pipe[i].client /\ p.closed /\ p.request = pipe[i].request
      /\ p.answer = pipe[i].answer /\ p.state = pipe[i].state
    BY DEF Pipe
<1>3. client' = [client EXCEPT ![c] = d] /\ pipe' = [pipe EXCEPT ![i] = p]
    BY DEF ReadResponse
<1> HIDE DEF d, p
<1>4. /\ pipe[i].client = c /\ ~pipe[i].closed /\ client[c].pc = "reading"
      /\ slot[i].phase = "ReadingAcknowledgement"
    BY DEF ReadResponse, Owns, Linked
<1>5. /\ pipe'[i] = p /\ \A j \in Instance \ {i} : pipe'[j] = pipe[j]
      /\ pipe' \in [Instance -> Pipe] /\ client'[c] = d
    BY <1>2, <1>3
<1>6. UNCHANGED <<wire, epoch, now, life, slot, serverVars>> /\ budget' \in [Event -> Nat]
    BY FaultType DEF ReadResponse, serverVars
<1>7. Linked(slot[i], pipe[i])' /\ Timely(slot[i], pipe[i], life.running)'
  <2>1. Linked(slot[i], pipe[i])'
    BY <1>2, <1>4, <1>5, <1>6, PipeAssumption DEF Linked, Served
  <2>2. Timely(slot[i], pipe[i], life.running)'
    BY <1>1, <1>2, <1>4, <1>5, <1>6 DEF Timely
  <2> QED BY <2>1, <2>2
<1>8. ASSUME NEW j \in Instance \ {i}, pipe'[j].client = c
      PROVE  Linked(slot[j], pipe[j])' /\ Timely(slot[j], pipe[j], life.running)'
  <2> QED BY <1>1, <1>5, <1>6, <1>8 DEF Linked, Timely
<1>9. ClientSound(c)'
  <2>1. \A j \in Instance : Owns(j, c) => j = i
    BY <1>4 DEF ClientSound, Owns
  <2>2. \A j \in Instance : pipe[j].request # wire[c]
    BY <1>4, <2>1, PipeAssumption DEF ClientSound, Linked, Served
  <2>3. \A j \in Instance : pipe'[j].request # wire[c] /\ ~Owns(j, c)' /\ (pipe'[j].client = c => pipe[j].client = c)
    BY <1>2, <1>5, <2>1, <2>2 DEF Owns
  <2> QED BY <1>1, <1>4, <1>5, <1>6, <2>3 DEF ClientSound
<1>10. \A j \in Instance : pipe'[j] = pipe[j] \/ (pipe'[j].client = c /\ pipe[j].client \in {c, NoClient})
    BY <1>2, <1>4, <1>5
<1>11. \A j \in Instance : pipe'[j].client = c =>
            Linked(slot[j], pipe[j])' /\ Timely(slot[j], pipe[j], life.running)'
    BY <1>7, <1>8
<1> QED BY <1>1, <1>3, <1>5, <1>6, <1>9, <1>10, <1>11, CallStep

(* A client that lets go of its pipes: what it wrote stays readable.       *)
LEMMA LetGoStep ==
    ASSUME Sound, NEW c \in Client, NEW d \in CallState, client' = [client EXCEPT ![c] = d],
           \/ pipe' = pipe /\ \A i \in Instance : ~Owns(i, c)
           \/ pipe' = Closed(pipe, c),
           UNCHANGED <<wire, epoch, now, serverVars>>, budget' \in [Event -> Nat],
           client[c].pc \notin {"idle", "done"}, d.pc \in {"opening", "done"},
           d.pc = "opening" => \A i \in Instance : pipe[i].request # wire[c],
           d.deadline = client[c].deadline, d.expected = client[c].expected,
           d.pc = "opening" /\ d.attempt # "replay" => d.expected = NoServer,
           d.attempt = "replay" => d.expected # NoServer,
           d.outcome = "unavailable" => d.expected = NoServer,
           d.outcome = "none" <=> d.pc # "done"
    PROVE  Sound'
<1> USE CallOf, At
<1>1. ASSUME NEW i \in Instance
      PROVE  /\ pipe'[i].client = pipe[i].client /\ pipe'[i].request = pipe[i].request
             /\ pipe'[i].answer = pipe[i].answer /\ pipe'[i].acknowledged = pipe[i].acknowledged
             /\ pipe'[i].state = pipe[i].state /\ pipe'[i] \in Pipe
             /\ pipe'[i].client = c => pipe'[i].closed
             /\ pipe'[i].client # c => pipe'[i] = pipe[i]
  <2>1. pipe[i] \in Pipe
    OBVIOUS
  <2>2. CASE pipe' = pipe /\ \A j \in Instance : ~Owns(j, c)
    BY <2>1, <2>2 DEF Owns, Pipe
  <2>3. CASE pipe' = Closed(pipe, c)
    <3>1. pipe'[i] = IF pipe[i].client = c THEN [pipe[i] EXCEPT !.closed = TRUE] ELSE pipe[i]
        BY <2>3 DEF Closed
    <3> QED BY <2>1, <3>1 DEF Pipe
  <2> QED BY <2>2, <2>3
<1>2. pipe' \in [Instance -> Pipe]
  <2>1. CASE pipe' = pipe
    BY <2>1
  <2>2. CASE pipe' = Closed(pipe, c)
    <3>1. pipe' = [i \in Instance |-> pipe'[i]]
        BY <2>2 DEF Closed
    <3> QED BY <1>1, <3>1
  <2> QED BY <2>1, <2>2
<1>3. client'[c] = d /\ slot' = slot /\ life' = life
    BY DEF serverVars
<1>4. ASSUME NEW i \in Instance, pipe'[i].client = c
      PROVE  Linked(slot[i], pipe[i])' /\ Timely(slot[i], pipe[i], life.running)'
  <2>1. /\ pipe'[i].client = c /\ pipe[i].client = c /\ pipe'[i].request = pipe[i].request
        /\ pipe'[i].answer = pipe[i].answer /\ pipe'[i].acknowledged = pipe[i].acknowledged
        /\ pipe'[i].state = pipe[i].state /\ pipe'[i].closed
    BY <1>1, <1>4
  <2>2. Linked(slot[i], pipe[i])'
    BY <1>3, <2>1 DEF Linked
  <2>3. Timely(slot[i], pipe[i], life.running)'
    BY <1>3, <2>1 DEF Timely
  <2> QED BY <2>2, <2>3
<1>5. ClientSound(c)'
  <2>1. ClientSound(c) /\ \A i \in Instance : ~Owns(i, c)'
    BY <1>1 DEF Owns
  <2>2. \A i \in Instance : ~(pipe[i].client = c /\ pipe[i].acknowledged)
    BY <2>1 DEF ClientSound
  <2>3. d.expected <= epoch /\ d.deadline <= now + OverallTimeout
    BY <2>1 DEF ClientSound
  <2>4. \A i \in Instance : pipe'[i].request = wire[c] => d.pc = "done"
    BY <1>1
  <2>5. \A i \in Instance : pipe'[i].client = c => d.expected # NoServer
    BY <1>1, <2>1 DEF ClientSound
  <2>6. \A i \in Instance : ~(pipe'[i].client = c /\ pipe'[i].acknowledged)
    BY <1>1, <2>2
  <2> QED BY <1>3, <2>1, <2>3, <2>4, <2>5, <2>6 DEF ClientSound
<1>6. \A i \in Instance : pipe'[i] = pipe[i] \/ (pipe'[i].client = c /\ pipe[i].client \in {c, NoClient})
    BY <1>1
<1> QED BY <1>2, <1>3, <1>4, <1>5, <1>6, CallStep

LEMMA ToReplayType ==
    ASSUME Sound, NEW c \in Client, CanReplay(c)
    PROVE  /\ ToReplay(c) \in CallState /\ ToReplay(c).pc = "opening"
           /\ ToReplay(c).attempt = "replay" /\ ToReplay(c).deadline = client[c].deadline
           /\ ToReplay(c).expected = client[c].expected
           /\ ToReplay(c).outcome = client[c].outcome
<1>1. client[c] \in CallState
    BY CallOf
<1>2. client[c].attempt = "replay" => client[c].replays + 1 \in 0 .. MaxReplayAttempts
    BY <1>1, ClientAssumption DEF CallState, CanReplay
<1>3. 1 \in 0 .. MaxReplayAttempts
    BY ClientAssumption
<1> QED BY <1>1, <1>2, <1>3 DEF CallState, ToReplay, Attempt

LEMMA IndeterminateSound ==
    ASSUME Sound, NEW c \in Client, Indeterminate(c), UNCHANGED serverVars
    PROVE  Sound'
<1> USE CallOf
<1>1. /\ client[c].pc \in {"writing", "reading"} /\ pipe' = Closed(pipe, c)
      /\ UNCHANGED <<wire, epoch, now, serverVars>>
    BY DEF Indeterminate
<1>2. budget' \in [Event -> Nat]
    BY FaultType DEF Indeterminate
<1>3. client[c].expected # NoServer /\ client[c].outcome = "none"
    BY <1>1 DEF ClientSound
<1>4. CASE CanReplay(c)
  <2>1. client' = [client EXCEPT ![c] = ToReplay(c)]
    BY <1>4 DEF Indeterminate
  <2>2. \A i \in Instance : pipe[i].request # wire[c]
    BY <1>1, <1>4, PipeAssumption DEF Indeterminate, CanReplay, ClientSound
  <2> QED BY <1>1, <1>2, <1>3, <1>4, <2>1, <2>2, ToReplayType, LetGoStep
<1>5. CASE ~CanReplay(c)
  <2> DEFINE d == [client[c] EXCEPT !.pc = "done", !.outcome = "indeterminate"]
  <2>1. /\ d \in CallState /\ d.pc = "done" /\ d.outcome = "indeterminate"
        /\ d.attempt = client[c].attempt /\ d.deadline = client[c].deadline
        /\ d.expected = client[c].expected
    BY DEF CallState
  <2>2. client' = [client EXCEPT ![c] = d]
    BY <1>5 DEF Indeterminate
  <2> HIDE DEF d
  <2> QED BY <1>1, <1>2, <1>3, <2>1, <2>2, LetGoStep
<1> QED BY <1>4, <1>5

LEMMA NotConnectedSound ==
    ASSUME Sound, NEW c \in Client, NotConnected(c), UNCHANGED serverVars
    PROVE  Sound'
<1> USE CallOf
<1>1. client[c].pc = "opening" /\ UNCHANGED <<wire, epoch, now, budget, serverVars>>
    BY DEF NotConnected
<1>2. /\ client[c].outcome = "none" /\ \A i \in Instance : ~Owns(i, c) /\ pipe[i].request # wire[c]
      /\ client[c].attempt = "replay" => client[c].expected # NoServer
      /\ client[c].attempt # "replay" => client[c].expected = NoServer
    BY <1>1 DEF ClientSound
<1>3. CASE client' = [client EXCEPT ![c].attempt = "launched"] /\ UNCHANGED pipe /\ client[c].attempt = "first"
  <2> DEFINE d == [client[c] EXCEPT !.attempt = "launched"]
  <2>1. /\ d \in CallState /\ d.pc = "opening" /\ d.outcome = "none" /\ d.attempt = "launched"
        /\ d.deadline = client[c].deadline /\ d.expected = client[c].expected
    BY <1>1, <1>2 DEF CallState, Attempt
  <2>2. client' = [client EXCEPT ![c] = d]
    BY <1>3
  <2> HIDE DEF d
  <2> QED BY <1>1, <1>2, <1>3, <2>1, <2>2, LetGoStep
<1>4. CASE /\ client' = [client EXCEPT ![c] = ToReplay(c)] /\ UNCHANGED pipe
           /\ client[c].attempt = "replay" /\ CanReplay(c)
    BY <1>1, <1>2, <1>4, ToReplayType, LetGoStep
<1>5. CASE End(c, GiveUp(c))
  <2> DEFINE d == [client[c] EXCEPT !.pc = "done", !.outcome = GiveUp(c)]
  <2>1. GiveUp(c) = "unavailable" => client[c].attempt # "replay"
    BY DEF GiveUp
  <2>2. GiveUp(c) \in {"unavailable", "indeterminate"}
    BY DEF GiveUp
  <2>3. /\ d \in CallState /\ d.pc = "done" /\ d.outcome = GiveUp(c)
        /\ d.attempt = client[c].attempt /\ d.deadline = client[c].deadline
        /\ d.expected = client[c].expected
    BY <2>2 DEF CallState
  <2>4. client' = [client EXCEPT ![c] = d] /\ pipe' = Closed(pipe, c)
    BY <1>5 DEF End
  <2> HIDE DEF d
  <2> QED BY <1>1, <1>2, <2>1, <2>2, <2>3, <2>4, LetGoStep
<1> QED BY <1>3, <1>4, <1>5 DEF NotConnected

LEMMA ClientStepSound ==
    ASSUME Sound, NEW c \in Client, ClientStep(c), UNCHANGED serverVars
    PROVE  Sound'
BY BeginSound, IndeterminateSound, NotConnectedSound, OpenSound, WriteRequestSound, ReadResponseSound
   DEF ClientStep

-----------------------------------------------------------------------------
(* Time passes only when no connection is left waiting to be taken up.     *)

LEMMA TickSound ==
    ASSUME Sound, Tick
    PROVE  Sound'
<1>1. /\ now \in 0 .. Horizon /\ now < Horizon /\ now' = now + 1 /\ Horizon \in Nat
      /\ UNCHANGED <<pipe, epoch, serverVars, clientVars>>
    BY CacheAssumption DEF Tick, Sound, Typed
<1>2. Typed' /\ Distinct' /\ Fallow'
  <2>1. budget' \in [Event -> Nat]
    BY SpendType DEF Tick, Event, Sound, Typed
  <2>2. now' \in 0 .. Horizon
    BY <1>1
  <2> QED BY <1>1, <2>1, <2>2 DEF Sound, Typed, Distinct, Fallow, serverVars, clientVars
<1>3. ASSUME NEW i \in Instance PROVE InstanceSound(slot[i], pipe[i], life.running)'
  <2>1. InstanceSound(slot[i], pipe[i], life.running) /\ pipe[i] \in Pipe
    BY DEF Sound, Typed
  <2>2. pipe[i].client \in Client =>
            pipe[i].state # "fresh" /\ (life.running => slot[i].phase # "Connecting")
    BY PipeAssumption DEF Tick
  <2> QED BY <1>1, <2>1, <2>2 DEF InstanceSound, Linked, Timely, serverVars, clientVars
<1>4. ASSUME NEW c \in Client PROVE ClientSound(c)'
  <2>1. ClientSound(c) /\ client[c].deadline \in Nat /\ now \in Nat
    BY <1>1 DEF Sound, Typed, CallState
  <2>2. client[c].deadline <= now + OverallTimeout => client[c].deadline <= now' + OverallTimeout
    BY <1>1, <2>1, ClientAssumption
  <2> QED BY <1>1, <2>1, <2>2 DEF ClientSound, Owns, clientVars
<1> QED BY <1>2, <1>3, <1>4 DEF Sound

LEMMA SoundStutters ==
    ASSUME Sound, UNCHANGED vars
    PROVE  Sound'
<1> USE DEF vars, serverVars, clientVars
<1>1. Typed' /\ Distinct' /\ Fallow'
    BY DEF Sound, Typed, Distinct, Fallow
<1>2. \A i \in Instance : InstanceSound(slot[i], pipe[i], life.running)'
    BY DEF Sound, InstanceSound, Linked, Timely
<1>3. \A c \in Client : ClientSound(c)'
    BY DEF Sound, ClientSound, Owns
<1> QED BY <1>1, <1>2, <1>3 DEF Sound

LEMMA InitSound == Init => Sound
<1> SUFFICES ASSUME Init PROVE Sound
    OBVIOUS
<1>1. /\ pipe = [i \in Instance |-> AbsentPipe] /\ epoch = 1 /\ now = 0 /\ budget \in [Event -> Nat]
      /\ life = NewLife /\ slot = [i \in Instance |-> NewSlot(FALSE)] /\ cache = EmptyCache
      /\ mutationActive = FALSE /\ executed = [r \in Request |-> 0]
      /\ wire \in [Client -> Request] /\ client = [c \in Client |-> NewClient]
    BY BudgetAssumption DEF Init, ServerInit, ClientInit
<1>2. NewClient \in CallState
    BY ClientAssumption DEF NewClient, CallState, Attempt, NoServer
<1>3. NewLife \in Life
    BY DEF NewLife, Life
<1>4. Typed
  <2>1. now \in 0 .. Horizon
    BY <1>1, CacheAssumption
  <2>2. slot \in [Instance -> Slot] /\ pipe \in [Instance -> Pipe]
    BY <1>1, NewSlotType, PipeTypes
  <2>3. executed \in [Request -> Nat] /\ client \in [Client -> CallState] /\ epoch \in Nat \ {0}
    BY <1>1, <1>2
  <2> QED BY <1>1, <1>3, <2>1, <2>2, <2>3, EmptyCacheType DEF Typed
<1>5. Distinct
    BY DEF Init, ClientInit, Distinct
<1>6. Fallow
    BY <1>1 DEF Fallow, NewLife
<1>7. \A i \in Instance : InstanceSound(slot[i], pipe[i], life.running)
    BY <1>1, PipeAssumption DEF InstanceSound, SlotSound, Linked, Timely, Retried, NewSlot, NoJob,
       NewLife, AbsentPipe, Working, Carrying, Attached, Executing, Served
<1>8. \A c \in Client : ClientSound(c)
    BY <1>1, PipeAssumption DEF ClientSound, NewClient, AbsentPipe, Owns, NoServer
<1> QED BY <1>4, <1>5, <1>6, <1>7, <1>8 DEF Sound

(***************************************************************************)
(* What a slot, its pipe and the client on it are at the same time, for    *)
(* any number of instances and clients and whatever breaks: the request a  *)
(* handler works on is the request of the client that still holds, or held *)
(* last, that pipe; a client has one open pipe; an acknowledgement waits   *)
(* only for a slot that delivers (PipeInstance, TrySendOnce).              *)
(***************************************************************************)
THEOREM ChannelSound == Spec => []Sound
<1>1. Init => Sound
    BY InitSound
<1>2. Sound /\ [Next]_vars => Sound'
  <2> SUFFICES ASSUME Sound, [Next]_vars PROVE Sound'
    OBVIOUS
  <2>1. CASE Tick
    BY <2>1, TickSound
  <2>2. CASE ServerStep
    BY <2>2, ServerStepSound DEF ServerStep
  <2>3. CASE ClientsStep
    BY <2>3, ClientStepSound DEF ClientsStep
  <2>4. CASE UNCHANGED vars
    BY <2>4, SoundStutters
  <2> QED BY <2>1, <2>2, <2>3, <2>4 DEF Next
<1> QED BY <1>1, <1>2, PTL DEF Spec

(***************************************************************************)
(* Every variable of the control channel keeps its type.                   *)
(***************************************************************************)
THEOREM ChannelTypeOK == Spec => []TypeOK
<1>1. Sound => TypeOK
    BY DEF Sound, Typed, TypeOK, PipeTypeOK, ServerTypeOK, ClientTypeOK, Life, Slot, Pipe, CallState
<1> QED BY <1>1, ChannelSound, PTL

(***************************************************************************)
(* A running server never loses a pipe instance, however arming, creating  *)
(* and connecting fail (ArmConnectionLocked, ScheduleRearmLocked,          *)
(* OnRearmReady, RecreatePipeInstance).                                    *)
(***************************************************************************)
THEOREM InstancesAreKept == Spec => []NoInstanceIsLost
<1>1. Sound => NoInstanceIsLost
    BY DEF Sound, InstanceSound, Retried, Linked, NoInstanceIsLost
<1> QED BY <1>1, ChannelSound, PTL
=============================================================================
