------------------------ MODULE ControlChannelProofs ------------------------
(***************************************************************************)
(* The control channel keeps its promise, for every set of clients, pipe   *)
(* instances and requests, for every limit of the cache and for every way  *)
(* connections break, servers stop and processes die: a command is handed  *)
(* to the handler at most once (CommandsRunAtMostOnce), the cache neither  *)
(* leaks nor loses a delivery (DeliveriesAreCounted), and what a caller is *)
(* told is what ControlCall allows (ImplementsControlCall).                *)
(*                                                                         *)
(* On top of Sound (ControlPipeProofs), the invariant says why the record  *)
(* of a command that ran is still there whenever the command can arrive    *)
(* again: a request on its way to the handler is registered, an answer on  *)
(* its way out is an active delivery, a request that can still be read is  *)
(* younger than a record lives, and the record is acknowledged only when   *)
(* its client has finished.  A step first changes one slot and the cache   *)
(* together (HoldsStep) and then prunes (PruneHolds).                      *)
(***************************************************************************)
EXTENDS ControlPipeProofs, FiniteSetTheorems, WellFoundedInduction, NaturalsInduction

(* What a slot holds of the cache, for the id of its request.              *)
Answering(s) == s.record # 0 \/ (s.pc \in {"answered", "responding"} /\ s.job.code = "Result")

Registers(s, id) == (s.pending \/ s.job.pending) /\ s.request.id = id
Delivers(s, id) == Answering(s) /\ s.request.id = id
Executes(s, id) == s.pc \in Executing /\ s.request.id = id

Recorded(C, r) == C.records[r.id] # NoRecord /\ C.records[r.id].body = r.body

(* The run of the record a slot refers to.                                 *)
RunOf(s) == IF s.record # 0 THEN s.record ELSE s.job.run

(* A slot that needs a record has the right one.                           *)
Backed(C, s, E) ==
    /\ s.pc \in {"queued", "begun"} /\ E[s.request] > 0 => Recorded(C, s.request)
    /\ s.pc \in Attached \/ Answering(s) =>
            Recorded(C, s.request) /\ C.records[s.request.id].run = RunOf(s)
    /\ s.pc \in Executing => ~C.records[s.request.id].complete
    /\ Answering(s) => C.records[s.request.id].complete

(* The registrations and the deliveries of an id are counted.              *)
Accounted(C, S, id) ==
    /\ C.pending[id] = Cardinality({j \in Instance : Registers(S[j], id)})
    /\ C.records[id] # NoRecord =>
            C.records[id].active = Cardinality({j \in Instance : Delivers(S[j], id)})

(* A record is of a request that ran, or runs.                             *)
RecordSound(C, S, E, id) ==
    C.records[id] # NoRecord =>
        /\ E[[id |-> id, body |-> C.records[id].body]] > 0
        /\ ~C.records[id].complete =>
                ~C.records[id].acknowledged /\ \E j \in Instance : Executes(S[j], id)

OneExecutor(S) == \A id \in Id : \A j, k \in Instance : Executes(S[j], id) /\ Executes(S[k], id) => j = k

Holds(C, S, E) ==
    /\ \A j \in Instance : Backed(C, S[j], E)
    /\ \A id \in Id : Accounted(C, S, id) /\ RecordSound(C, S, E, id)
    /\ OneExecutor(S)

(* A copy of the client's request can still arrive at this server process. *)
Unread(c) ==
    \/ /\ client[c].pc \in {"opening", "writing", "reading"}
       /\ client[c].expected = epoch /\ now < client[c].deadline
    \/ /\ now < client[c].deadline + RequestTimeout
       /\ \E i \in Instance : pipe[i].request = wire[c]

(* The record r keeps client c's command from running again.               *)
Memorable(r, c) ==
    /\ r # NoRecord /\ r.body = wire[c].body /\ ~r.acknowledged
    /\ r.complete => client[c].deadline <= r.completed + OverallTimeout

Remembers(C, E, c) == E[wire[c]] > 0 /\ Unread(c) => Memorable(C.records[wire[c].id], c)

(* A request whose client has found no server yet has not run.             *)
Sent == \A c \in Client : client[c].expected = NoServer => executed[wire[c]] = 0

(* A result is the answer of a request that ran.                           *)
AnswerSound(a, E) == a # NoAnswer /\ a.code = "Result" => E[a.request] > 0

Answers ==
    /\ \A i \in Instance : AnswerSound(pipe[i].answer, executed) /\ AnswerSound(slot[i].answer, executed)
    /\ \A c \in Client : AnswerSound(client[c].answer, executed)

CacheInv ==
    /\ Holds(cache, slot, executed)
    /\ \A c \in Client : Remembers(cache, executed, c)
    /\ CommandsRunAtMostOnce /\ Sent /\ Answers

IInv == Sound /\ CacheInv

-----------------------------------------------------------------------------
(* Counting: a set of instances that changes at one of them.               *)

One(b) == IF b THEN 1 ELSE 0

LEMMA CountMoves ==
    ASSUME NEW S \in SUBSET Instance, NEW T \in SUBSET Instance, NEW i \in Instance,
           \A j \in Instance \ {i} : j \in S <=> j \in T
    PROVE  /\ Cardinality(S) \in Nat /\ Cardinality(T) \in Nat
           /\ Cardinality(T) + One(i \in S) = Cardinality(S) + One(i \in T)
<1>1. IsFiniteSet(S) /\ IsFiniteSet(T)
    BY PipeAssumption, FS_Subset
<1>2. Cardinality(S) \in Nat /\ Cardinality(T) \in Nat
    BY <1>1, FS_CardinalityType
<1>3. CASE i \in S /\ i \notin T
  <2>1. T = S \ {i}
    BY <1>3
  <2>2. Cardinality(T) = Cardinality(S) - 1
    BY <1>1, <1>3, <2>1, FS_RemoveElement
  <2> QED BY <1>2, <1>3, <2>2 DEF One
<1>4. CASE i \notin S /\ i \in T
  <2>1. S = T \ {i}
    BY <1>4
  <2>2. Cardinality(S) = Cardinality(T) - 1
    BY <1>1, <1>4, <2>1, FS_RemoveElement
  <2> QED BY <1>2, <1>4, <2>2 DEF One
<1>5. CASE i \in S <=> i \in T
  <2>1. S = T
    BY <1>5
  <2> QED BY <1>2, <1>5, <2>1 DEF One
<1> QED BY <1>3, <1>4, <1>5

LEMMA CountZero ==
    ASSUME NEW S \in SUBSET Instance
    PROVE  Cardinality(S) = 0 <=> S = {}
BY PipeAssumption, FS_Subset, FS_EmptySet

-----------------------------------------------------------------------------
(* Dropping records that nobody needs.                                     *)

(* The slots of a server, each as Sound has it.                            *)
Slots(S) == S \in [Instance -> Slot] /\ \A j \in Instance : SlotSound(S[j])

LEMMA SlotsSound ==
    /\ Sound => Slots(slot)
    /\ Sound' => Slots(slot') /\ \A i \in Instance : slot'[i] \in Slot /\ SlotSound(slot'[i])
BY DEF Sound, Typed, InstanceSound, Slots

(* A slot that needs a record has its id in hand.                          *)
LEMMA NeedsRequest ==
    ASSUME NEW s \in Slot, SlotSound(s)
    PROVE  /\ s.pc \in {"queued"} \cup Working \/ Answering(s) \/ s.pending \/ s.job.pending =>
                    s.request \in Request /\ s.request.id \in Id
           /\ s.pc \in {"queued"} \cup Carrying => s.pending \/ s.job.pending
           /\ s.record # 0 => s.pc = "none"
BY WorkingPhase DEF SlotSound, Slot, Served, Answering, Working, Carrying, Phase, Request

LEMMA PruneHolds ==
    ASSUME NEW C, NEW D, NEW S, NEW E, Slots(S), CacheTyped(C), Holds(C, S, E), D.pending = C.pending,
           \A id \in Id : \/ D.records[id] = C.records[id]
                          \/ D.records[id] = NoRecord /\ Idle(C.records[id], C.pending[id])
    PROVE  Holds(D, S, E)
<1>1. ASSUME NEW id \in Id, D.records[id] # C.records[id], NEW j \in Instance
      PROVE  ~Registers(S[j], id) /\ ~Delivers(S[j], id)
  <2>1. C.pending[id] = 0 /\ C.records[id] # NoRecord /\ C.records[id].active = 0
    BY <1>1 DEF Idle
  <2>2. /\ Cardinality({k \in Instance : Registers(S[k], id)}) = 0
        /\ Cardinality({k \in Instance : Delivers(S[k], id)}) = 0
    BY <2>1 DEF Holds, Accounted
  <2>3. /\ {k \in Instance : Registers(S[k], id)} = {}
        /\ {k \in Instance : Delivers(S[k], id)} = {}
    BY <2>2, CountZero
  <2> QED BY <2>3
<1>2. ASSUME NEW j \in Instance PROVE Backed(D, S[j], E)
  <2>1. Backed(C, S[j], E) /\ S[j] \in Slot /\ SlotSound(S[j])
    BY DEF Holds, Slots
  <2>2. S[j].pc \in {"queued"} \cup Carrying \/ Answering(S[j]) =>
            D.records[S[j].request.id] = C.records[S[j].request.id]
    BY <1>1, <2>1, NeedsRequest DEF Registers, Delivers, Working
  <2> QED BY <2>1, <2>2 DEF Backed, Recorded, Carrying, Attached, Executing
<1>3. ASSUME NEW id \in Id PROVE Accounted(D, S, id) /\ RecordSound(D, S, E, id)
    BY DEF Holds, Accounted, RecordSound
<1> QED BY <1>2, <1>3 DEF Holds

-----------------------------------------------------------------------------
(* One slot and the cache change together.                                 *)

(* A record stays the record of the same run, and finished if it was.      *)
Persists(r, q) ==
    r # NoRecord => q # NoRecord /\ q.body = r.body /\ q.run = r.run /\ (r.complete => q.complete)

(* What happens to the record of an id whose slot becomes t from s.        *)
RecordMoves(r, q, s, t, id) ==
    /\ q.active + One(Delivers(s, id)) = r.active + One(Delivers(t, id))
    /\ r.complete => q.complete
    /\ ~r.complete /\ q.complete => Executes(s, id) /\ ~Executes(t, id)
    /\ ~q.complete => q.acknowledged = r.acknowledged /\ (Executes(s, id) => Executes(t, id))

RecordStarts(q, t, F, id) ==
    /\ q.active = 0 /\ ~q.complete /\ ~q.acknowledged /\ Executes(t, id) /\ ~Delivers(t, id)
    /\ F[[id |-> id, body |-> q.body]] > 0

LEMMA HoldsStep ==
    ASSUME NEW C, NEW D, NEW S, NEW T, NEW E, NEW F, NEW i \in Instance,
           CacheTyped(C), CacheTyped(D), Slots(S), Slots(T),
           E \in [Request -> Nat], F \in [Request -> Nat], Holds(C, S, E),
           \A j \in Instance \ {i} : T[j] = S[j],
           \A id \in Id : /\ Persists(C.records[id], D.records[id])
                          /\ D.pending[id] + One(Registers(S[i], id)) = C.pending[id] + One(Registers(T[i], id))
                          /\ IF C.records[id] = NoRecord
                             THEN D.records[id] # NoRecord => RecordStarts(D.records[id], T[i], F, id)
                             ELSE RecordMoves(C.records[id], D.records[id], S[i], T[i], id)
                          /\ Executes(T[i], id) => Executes(S[i], id) \/ C.records[id] = NoRecord,
           \A r \in Request : E[r] <= F[r] /\ (F[r] > 0 => E[r] > 0 \/ Recorded(D, r)),
           Backed(D, T[i], F)
    PROVE  Holds(D, T, F)
<1>1. ASSUME NEW j \in Instance PROVE Backed(D, T[j], F)
  <2>1. CASE j = i
    BY <2>1
  <2>2. CASE j # i
    <3>1. T[j] = S[j] /\ Backed(C, S[j], E) /\ S[j] \in Slot /\ SlotSound(S[j])
        BY <2>2 DEF Holds, Slots
    <3>2. S[j].pc \in {"queued"} \cup Working \/ Answering(S[j]) =>
                S[j].request \in Request /\ S[j].request.id \in Id
        BY <3>1, NeedsRequest
    <3>3. S[j].pc \in Executing => ~D.records[S[j].request.id].complete
      <4> SUFFICES ASSUME S[j].pc \in Executing PROVE ~D.records[S[j].request.id].complete
          OBVIOUS
      <4> DEFINE id == S[j].request.id
      <4>1. id \in Id /\ Executes(S[j], id) /\ C.records[id] # NoRecord /\ ~C.records[id].complete
          BY <3>1, <3>2 DEF Executes, Backed, Recorded, Working, Carrying, Attached
      <4>2. ~Executes(S[i], id)
          BY <2>2, <4>1 DEF Holds, OneExecutor
      <4> QED BY <4>1, <4>2 DEF RecordMoves
    <3>4. S[j].pc \in {"queued", "begun"} /\ F[S[j].request] > 0 => Recorded(D, S[j].request)
        BY <3>1, <3>2 DEF Backed, Recorded, Persists, Working, Carrying
    <3>5. S[j].pc \in Attached \/ Answering(S[j]) =>
                Recorded(D, S[j].request) /\ D.records[S[j].request.id].run = RunOf(S[j])
        BY <3>1, <3>2 DEF Backed, Recorded, Persists, Working, Carrying
    <3>6. Answering(S[j]) => D.records[S[j].request.id].complete
        BY <3>1, <3>2 DEF Backed, Recorded, Persists
    <3> QED BY <3>1, <3>3, <3>4, <3>5, <3>6 DEF Backed
  <2> QED BY <2>1, <2>2
<1>2. ASSUME NEW id \in Id PROVE Accounted(D, T, id)
  <2> DEFINE R(U) == {j \in Instance : Registers(U[j], id)}
             V(U) == {j \in Instance : Delivers(U[j], id)}
  <2>1. Accounted(C, S, id) /\ C.pending[id] \in Nat /\ D.pending[id] \in Nat
    BY DEF Holds, CacheTyped
  <2>2. /\ Cardinality(R(S)) \in Nat /\ Cardinality(R(T)) \in Nat
        /\ Cardinality(R(T)) + One(i \in R(S)) = Cardinality(R(S)) + One(i \in R(T))
    <3>1. R(S) \in SUBSET Instance /\ R(T) \in SUBSET Instance /\ \A j \in Instance \ {i} : j \in R(S) <=> j \in R(T)
        OBVIOUS
    <3> HIDE DEF R
    <3> QED BY <3>1, CountMoves
  <2>3. /\ Cardinality(V(S)) \in Nat /\ Cardinality(V(T)) \in Nat
        /\ Cardinality(V(T)) + One(i \in V(S)) = Cardinality(V(S)) + One(i \in V(T))
    <3>1. V(S) \in SUBSET Instance /\ V(T) \in SUBSET Instance /\ \A j \in Instance \ {i} : j \in V(S) <=> j \in V(T)
        OBVIOUS
    <3> HIDE DEF V
    <3> QED BY <3>1, CountMoves
  <2>4. /\ One(i \in R(S)) = One(Registers(S[i], id)) /\ One(i \in R(T)) = One(Registers(T[i], id))
        /\ One(i \in V(S)) = One(Delivers(S[i], id)) /\ One(i \in V(T)) = One(Delivers(T[i], id))
    BY DEF One
  <2>5. C.pending[id] = Cardinality(R(S)) /\ (C.records[id] # NoRecord => C.records[id].active = Cardinality(V(S)))
    BY <2>1 DEF Accounted
  <2>6. \A b : One(b) \in {0, 1}
    BY DEF One
  <2>7. D.pending[id] = Cardinality(R(T))
    <3> HIDE DEF R
    <3> QED BY <2>1, <2>2, <2>4, <2>5, <2>6
  <2>8. D.records[id] # NoRecord => D.records[id].active = Cardinality(V(T))
    <3> SUFFICES ASSUME D.records[id] # NoRecord PROVE D.records[id].active = Cardinality(V(T))
        OBVIOUS
    <3>1. D.records[id].active \in Nat
        BY NoRecordHasNoRun DEF CacheTyped, Record
    <3>2. CASE C.records[id] # NoRecord
      <4>1. D.records[id].active + One(Delivers(S[i], id)) = C.records[id].active + One(Delivers(T[i], id))
          BY <3>2 DEF RecordMoves
      <4> HIDE DEF V
      <4> QED BY <2>3, <2>4, <2>5, <2>6, <3>1, <3>2, <4>1
    <3>3. CASE C.records[id] = NoRecord
      <4>1. D.records[id].active = 0 /\ ~Delivers(T[i], id)
          BY <3>3 DEF RecordStarts
      <4>2. ASSUME NEW j \in Instance PROVE ~Delivers(S[j], id)
          BY <3>3 DEF Holds, Backed, Recorded, Delivers
      <4>3. V(T) = {}
          BY <4>1, <4>2
      <4> QED BY <4>1, <4>3, FS_EmptySet
    <3> QED BY <3>2, <3>3
  <2> QED BY <2>7, <2>8 DEF Accounted
<1>3. ASSUME NEW id \in Id, D.records[id] # NoRecord PROVE RecordSound(D, T, F, id)
  <2>1. CASE C.records[id] = NoRecord
    BY <1>3, <2>1 DEF RecordSound, RecordStarts
  <2>2. CASE C.records[id] # NoRecord
    <3>1. D.records[id].body = C.records[id].body /\ RecordSound(C, S, E, id)
        BY <2>2 DEF Persists, Holds
    <3>2. [id |-> id, body |-> D.records[id].body] \in Request
        BY <1>3, NoRecordHasNoRun DEF CacheTyped, Record, Request
    <3>3. F[[id |-> id, body |-> D.records[id].body]] > 0
      <4> DEFINE r == [id |-> id, body |-> D.records[id].body]
      <4>1. E[r] > 0 /\ E[r] <= F[r] /\ E[r] \in Nat /\ F[r] \in Nat
          BY <2>2, <3>1, <3>2 DEF RecordSound
      <4> QED BY <4>1
    <3>4. ~D.records[id].complete => ~D.records[id].acknowledged /\ \E j \in Instance : Executes(T[j], id)
      <4> SUFFICES ASSUME ~D.records[id].complete
                   PROVE  ~D.records[id].acknowledged /\ \E j \in Instance : Executes(T[j], id)
          OBVIOUS
      <4>1. ~C.records[id].complete /\ D.records[id].acknowledged = C.records[id].acknowledged
            /\ (Executes(S[i], id) => Executes(T[i], id))
          BY <2>2 DEF RecordMoves
      <4>2. PICK j \in Instance : Executes(S[j], id)
          BY <2>2, <3>1, <4>1 DEF RecordSound
      <4>3. Executes(T[j], id)
          BY <4>1, <4>2
      <4> QED BY <2>2, <3>1, <4>1, <4>3 DEF RecordSound
    <3> QED BY <3>3, <3>4 DEF RecordSound
  <2> QED BY <2>1, <2>2
<1>4. OneExecutor(T)
  <2> SUFFICES ASSUME NEW id \in Id, NEW j \in Instance, NEW k \in Instance,
                      Executes(T[j], id), Executes(T[k], id), j # k
               PROVE  FALSE
    BY DEF OneExecutor
  <2>1. ASSUME NEW m \in Instance, m # i, Executes(T[m], id), Executes(T[i], id) PROVE FALSE
    <3>1. Executes(S[m], id)
        BY <2>1
    <3>2. C.records[id] # NoRecord
        BY <3>1 DEF Holds, Backed, Recorded, Executes, Attached, Executing
    <3>3. Executes(S[i], id)
        BY <2>1, <3>2
    <3> QED BY <2>1, <3>1, <3>3 DEF Holds, OneExecutor
  <2>2. CASE j # i /\ k # i
    BY <2>2 DEF Holds, OneExecutor
  <2> QED BY <2>1, <2>2
<1> QED BY <1>1, <1>2, <1>3, <1>4 DEF Holds, RecordSound

(* Slots that hold of the cache what they held.                            *)
LEMMA SlotsHold ==
    ASSUME NEW C, NEW S, NEW T, NEW E, Holds(C, S, E),
           \A j \in Instance : /\ Backed(C, T[j], E)
                               /\ \A id \in Id : /\ Registers(T[j], id) <=> Registers(S[j], id)
                                                 /\ Delivers(T[j], id) <=> Delivers(S[j], id)
                                                 /\ Executes(T[j], id) <=> Executes(S[j], id)
    PROVE  Holds(C, T, E)
<1>1. ASSUME NEW id \in Id PROVE Accounted(C, T, id) /\ RecordSound(C, T, E, id)
  <2>1. /\ {j \in Instance : Registers(T[j], id)} = {j \in Instance : Registers(S[j], id)}
        /\ {j \in Instance : Delivers(T[j], id)} = {j \in Instance : Delivers(S[j], id)}
    OBVIOUS
  <2>2. Accounted(C, T, id)
    BY <2>1 DEF Holds, Accounted
  <2>3. RecordSound(C, T, E, id)
    BY DEF Holds, RecordSound
  <2> QED BY <2>2, <2>3
<1>2. OneExecutor(T)
    BY DEF Holds, OneExecutor
<1> QED BY <1>1, <1>2 DEF Holds

(* A slot that holds nothing of the cache.                                 *)
Passive(s) ==
    /\ ~s.pending /\ ~s.job.pending /\ ~Answering(s)
    /\ s.pc \notin {"queued"} \cup Working

LEMMA PassivePhase ==
    ASSUME NEW s \in Slot, SlotSound(s)
    PROVE  /\ s.phase \in {"Disconnected", "Connecting", "ReadingRequest"} => Passive(s)
           /\ s.phase \in {"WritingResponse", "ReadingAcknowledgement"} /\ s.record = 0 => Passive(s)
BY DEF SlotSound, Passive, Answering, Working, Carrying, Attached, Executing

LEMMA PassiveHolds ==
    ASSUME NEW s, Passive(s), NEW C, NEW E
    PROVE  Backed(C, s, E) /\ \A id : ~Registers(s, id) /\ ~Delivers(s, id) /\ ~Executes(s, id)
BY DEF Passive, Backed, Registers, Delivers, Executes, Working, Carrying, Attached, Executing

LEMMA PassiveStep ==
    ASSUME CacheInv, NEW i \in Instance, \A j \in Instance \ {i} : slot'[j] = slot[j],
           Passive(slot[i]), Passive(slot'[i])
    PROVE  Holds(cache, slot', executed)
<1>1. \A j \in Instance : Backed(cache, slot[j], executed) /\ Holds(cache, slot, executed)
    BY DEF CacheInv, Holds
<1> QED BY <1>1, PassiveHolds, SlotsHold

-----------------------------------------------------------------------------
(* What a step of the server puts into pipes and answers.                  *)

LEMMA ArmRunningSheds ==
    ASSUME NEW s \in Slot, NEW p \in Pipe, NEW error
    PROVE  LET a == ArmRunning(s, p, error)
           IN /\ a.s.answer = s.answer /\ a.s.phase \in {s.phase, "Disconnected", "Connecting"}
              /\ a.p.request \in {p.request, NoRequest} /\ a.p.answer \in {p.answer, NoAnswer}
<1> DEFINE a == ArmRunning(s, p, error)
<1>1. CASE p.state = "absent" \/ error # "none"
  <2>1. PICK b \in BOOLEAN : a = [s |-> ScheduleRearmLocked([s EXCEPT !.recreateRequired = b]), p |-> p]
    BY <1>1 DEF ArmRunning, Slot
  <2> DEFINE u == [s EXCEPT !.recreateRequired = b]
  <2>2. u \in Slot /\ u.answer = s.answer
    BY DEF Slot
  <2> HIDE DEF u
  <2>3. ScheduleRearmLocked(u).answer = s.answer /\ ScheduleRearmLocked(u).phase = "Disconnected"
    BY <2>2, RearmType
  <2> QED BY <2>1, <2>3 DEF u
<1>2. CASE p.state # "absent" /\ error = "none"
    BY <1>2 DEF ArmRunning, ScheduleRearmLocked, Slot, Pipe, ListeningPipe, IdlePipe, AbsentPipe
<1> QED BY <1>1, <1>2

LEMMA ArmSheds ==
    ASSUME NEW s \in Slot, NEW p \in Pipe, NEW error
    PROVE  LET a == Arm(s, p, error)
           IN /\ a.s.answer = s.answer /\ a.s.phase \in {s.phase, "Disconnected", "Connecting"}
              /\ a.p.request \in {p.request, NoRequest} /\ a.p.answer \in {p.answer, NoAnswer}
BY ArmRunningSheds DEF Arm

(* Nothing but Respond makes an answer, and nothing enters a pipe but the  *)
(* answer of its slot.                                                     *)
Sheds(i) ==
    /\ pipe'[i].request \in {pipe[i].request, NoRequest}
    /\ pipe'[i].answer \in {pipe[i].answer, slot[i].answer, NoAnswer}
    /\ slot'[i].answer \in {slot[i].answer, NoAnswer}

LEMMA StaySheds ==
    ASSUME NEW i, UNCHANGED <<pipe[i], slot[i]>>
    PROVE  Sheds(i)
BY DEF Sheds

(* Slot i becomes what arming s on the pipe p leaves.                      *)
LEMMA ArmedSheds ==
    ASSUME Sound, NEW i \in Instance, NEW s \in Slot, NEW p \in Pipe, NEW error,
           s.answer = slot[i].answer,
           p.request \in {pipe[i].request, NoRequest}, p.answer \in {pipe[i].answer, NoAnswer},
           slot' = [slot EXCEPT ![i] = Arm(s, p, error).s],
           pipe' = [pipe EXCEPT ![i] = Arm(s, p, error).p]
    PROVE  /\ \A j \in Instance : Sheds(j)
           /\ \A j \in Instance \ {i} : slot'[j] = slot[j]
           /\ slot'[i].phase \in {s.phase, "Disconnected", "Connecting"}
<1>1. slot \in [Instance -> Slot] /\ pipe \in [Instance -> Pipe]
    BY DEF Sound, Typed
<1>2. slot'[i] = Arm(s, p, error).s /\ pipe'[i] = Arm(s, p, error).p
    BY <1>1
<1>3. \A j \in Instance \ {i} : slot'[j] = slot[j] /\ pipe'[j] = pipe[j]
    BY <1>1
<1>4. Sheds(i) /\ slot'[i].phase \in {s.phase, "Disconnected", "Connecting"}
    BY <1>2, ArmSheds DEF Sheds
<1> QED BY <1>3, <1>4, StaySheds

LEMMA FinishSheds ==
    ASSUME Sound, NEW i \in Instance, Finish(i)
    PROVE  /\ \A j \in Instance : Sheds(j)
           /\ \A j \in Instance \ {i} : slot'[j] = slot[j]
           /\ slot'[i].phase \in {"Disconnected", "Connecting"}
<1> DEFINE s == Finished(slot[i])
<1>1. s \in Slot /\ s.answer = slot[i].answer /\ s.phase = "Disconnected"
    BY At DEF Finished, Slot, Phase, Pc
<1>2. IdlePipe \in Pipe /\ IdlePipe.request = NoRequest /\ IdlePipe.answer = NoAnswer
    BY PipeTypes DEF IdlePipe, AbsentPipe
<1>3. /\ slot' = [slot EXCEPT ![i] = Arm(s, IdlePipe, "none").s]
      /\ pipe' = [pipe EXCEPT ![i] = Arm(s, IdlePipe, "none").p]
    BY DEF Finish
<1> HIDE DEF s
<1> QED BY <1>1, <1>2, <1>3, ArmedSheds

-----------------------------------------------------------------------------
(* The steps of the server that execute nothing.                           *)

LEMMA QuietStep ==
    ASSUME IInv, Sound', UNCHANGED <<client, wire, now, epoch, executed>>,
           \A i \in Instance : /\ pipe'[i].request \in {pipe[i].request, NoRequest}
                               /\ pipe'[i].answer \in {pipe[i].answer, slot[i].answer, NoAnswer}
                               /\ slot'[i].answer \in {slot[i].answer, NoAnswer}
                                    \/ AnswerSound(slot'[i].answer, executed),
           Holds(cache', slot', executed),
           \A c \in Client : Unread(c) /\ Memorable(cache.records[wire[c].id], c)
                                => Memorable(cache'.records[wire[c].id], c)
    PROVE  CacheInv'
<1>1. \A c \in Client : Unread(c)' => Unread(c)
  <2> SUFFICES ASSUME NEW c \in Client, Unread(c)' PROVE Unread(c)
    OBVIOUS
  <2>1. wire[c] # NoRequest
    BY PipeAssumption DEF IInv, Sound, Typed
  <2>2. \A i \in Instance : pipe'[i].request = wire[c] => pipe[i].request = wire[c]
    BY <2>1
  <2> QED BY <2>2 DEF Unread
<1>2. \A c \in Client : Remembers(cache, executed, c)'
    BY <1>1 DEF IInv, CacheInv, Remembers, Memorable
<1>3. Answers'
    BY DEF IInv, CacheInv, Answers, AnswerSound
<1>4. CommandsRunAtMostOnce' /\ Sent'
    BY DEF IInv, CacheInv, CommandsRunAtMostOnce, Sent
<1> QED BY <1>2, <1>3, <1>4 DEF CacheInv

LEMMA ShedStep ==
    ASSUME IInv, Sound', UNCHANGED <<client, wire, now, epoch, executed, cache>>,
           \A i \in Instance : Sheds(i), Holds(cache, slot', executed)
    PROVE  CacheInv'
BY QuietStep DEF Sheds

(* The phases in which a slot has no request.                              *)
Early == {"Disconnected", "Connecting", "ReadingRequest"}

LEMMA EarlyStep ==
    ASSUME IInv, Sound', NEW i \in Instance,
           UNCHANGED <<client, wire, now, epoch, executed, cache>>,
           \A j \in Instance : Sheds(j), \A j \in Instance \ {i} : slot'[j] = slot[j],
           Passive(slot[i]), slot'[i].phase \in Early
    PROVE  CacheInv'
<1>1. Passive(slot'[i])
  <2>1. slot'[i] \in Slot /\ SlotSound(slot'[i])
    BY SlotsSound
  <2> QED BY <2>1, PassivePhase DEF Early
<1>2. Holds(cache, slot', executed)
    BY <1>1, PassiveStep DEF IInv
<1> QED BY <1>2, ShedStep

LEMMA SoundOf == IInv => Sound /\ CacheInv
BY DEF IInv

LEMMA OnRearmReadyCache ==
    ASSUME IInv, Sound', NEW i \in Instance, OnRearmReady(i), UNCHANGED clientVars
    PROVE  CacheInv'
<1> USE SoundOf, At
<1>1. slot[i].phase = "Disconnected" /\ Passive(slot[i])
    BY PassivePhase DEF OnRearmReady, SlotSound
<1>2. UNCHANGED <<client, wire, now, epoch, executed, cache>>
    BY DEF OnRearmReady, clientVars
<1>3. slot \in [Instance -> Slot]
    BY DEF Sound, Typed
<1>4. CASE ~life.running \/ slot[i].recreateRequired
  <2>1. \E s \in Slot : s.phase = "Disconnected" /\ s.answer = slot[i].answer /\ slot' = [slot EXCEPT ![i] = s]
    <3>1. CASE ~life.running
      <4> DEFINE s == [slot[i] EXCEPT !.rearm = FALSE]
      <4>1. s \in Slot /\ s.phase = "Disconnected" /\ s.answer = slot[i].answer
          BY <1>1 DEF Slot
      <4>2. slot' = [slot EXCEPT ![i] = s]
          BY <3>1 DEF OnRearmReady
      <4> QED BY <4>1, <4>2
    <3>2. CASE life.running /\ slot[i].recreateRequired
      <4> DEFINE s == [slot[i] EXCEPT !.rearm = FALSE, !.recreateScheduled = TRUE,
                            !.pc = IF slot[i].recreateScheduled THEN slot[i].pc ELSE "recreating"]
      <4>1. s \in Slot /\ s.phase = "Disconnected" /\ s.answer = slot[i].answer
          BY <1>1 DEF Slot, Pc
      <4>2. slot' = [slot EXCEPT ![i] = s]
          BY <3>2 DEF OnRearmReady
      <4> QED BY <4>1, <4>2
    <3> QED BY <1>4, <3>1, <3>2
  <2>2. pipe' = pipe
    BY <1>4 DEF OnRearmReady
  <2>3. /\ \A j \in Instance : Sheds(j)
        /\ \A j \in Instance \ {i} : slot'[j] = slot[j]
        /\ slot'[i].phase = "Disconnected"
    BY <1>3, <2>1, <2>2 DEF Sheds
  <2> QED BY <1>1, <1>2, <2>3, EarlyStep DEF Early
<1>5. CASE life.running /\ ~slot[i].recreateRequired
  <2> DEFINE s == [slot[i] EXCEPT !.rearm = FALSE]
  <2>1. s \in Slot /\ s.phase = "Disconnected" /\ s.answer = slot[i].answer
    BY <1>1 DEF Slot
  <2>2. PICK error \in ArmError : /\ slot' = [slot EXCEPT ![i] = Arm(s, pipe[i], error).s]
                                  /\ pipe' = [pipe EXCEPT ![i] = Arm(s, pipe[i], error).p]
    BY <1>5 DEF OnRearmReady, SetArmed
  <2> HIDE DEF s
  <2>3. /\ \A j \in Instance : Sheds(j)
        /\ \A j \in Instance \ {i} : slot'[j] = slot[j]
        /\ slot'[i].phase \in Early
    BY <2>1, <2>2, ArmedSheds DEF Early
  <2> QED BY <1>1, <1>2, <2>3, EarlyStep
<1> QED BY <1>4, <1>5

LEMMA DetachPipeCache ==
    ASSUME IInv, Sound', NEW i \in Instance, DetachPipe(i), UNCHANGED clientVars
    PROVE  CacheInv'
<1> USE SoundOf, At
<1>1. slot[i].phase = "Disconnected" /\ Passive(slot[i])
  <2>1. slot[i].phase \in Phase
    BY DEF Slot
  <2>2. slot[i].phase = "Disconnected"
    BY <2>1 DEF DetachPipe, SlotSound, Phase, Working, Carrying, Attached, Executing
  <2> QED BY <2>2, PassivePhase
<1>2. UNCHANGED <<client, wire, now, epoch, executed, cache>>
    BY DEF DetachPipe, clientVars
<1>3. slot \in [Instance -> Slot] /\ pipe \in [Instance -> Pipe]
    BY DEF Sound, Typed
<1>4. \E s \in Slot : s.phase = "Disconnected" /\ s.answer = slot[i].answer /\ slot' = [slot EXCEPT ![i] = s]
  <2>1. CASE slot' = [slot EXCEPT ![i].pc = "creating"]
    <3> DEFINE s == [slot[i] EXCEPT !.pc = "creating"]
    <3>1. s \in Slot /\ s.phase = "Disconnected" /\ s.answer = slot[i].answer
        BY <1>1 DEF Slot, Pc
    <3> QED BY <2>1, <3>1
  <2>2. CASE slot' = [slot EXCEPT ![i].pc = "none", ![i].recreateScheduled = FALSE]
    <3> DEFINE s == [slot[i] EXCEPT !.pc = "none", !.recreateScheduled = FALSE]
    <3>1. s \in Slot /\ s.phase = "Disconnected" /\ s.answer = slot[i].answer
        BY <1>1 DEF Slot, Pc
    <3> QED BY <2>2, <3>1
  <2> QED BY <2>1, <2>2 DEF DetachPipe
<1>5. pipe' = pipe \/ pipe' = [pipe EXCEPT ![i] = AbsentPipe]
    BY DEF DetachPipe
<1>6. /\ \A j \in Instance : Sheds(j)
      /\ \A j \in Instance \ {i} : slot'[j] = slot[j]
      /\ slot'[i].phase = "Disconnected"
  <2>1. PICK s \in Slot : s.phase = "Disconnected" /\ s.answer = slot[i].answer /\ slot' = [slot EXCEPT ![i] = s]
    BY <1>4
  <2>2. slot'[i] = s /\ \A j \in Instance \ {i} : slot'[j] = slot[j] /\ pipe'[j] = pipe[j]
    BY <1>3, <1>5, <2>1
  <2>3. pipe'[i] = pipe[i] \/ pipe'[i] = AbsentPipe
    BY <1>3, <1>5
  <2>4. Sheds(i)
    BY <2>1, <2>2, <2>3 DEF Sheds, AbsentPipe
  <2> QED BY <2>1, <2>2, <2>4, StaySheds
<1> QED BY <1>1, <1>2, <1>6, EarlyStep DEF Early

LEMMA RecreatePipeInstanceCache ==
    ASSUME IInv, Sound', NEW i \in Instance, RecreatePipeInstance(i), UNCHANGED clientVars
    PROVE  CacheInv'
<1> USE SoundOf, At
<1>1. slot[i].phase = "Disconnected" /\ Passive(slot[i])
  <2>1. slot[i].phase \in Phase
    BY DEF Slot
  <2>2. slot[i].phase = "Disconnected"
    BY <2>1 DEF RecreatePipeInstance, SlotSound, Phase, Working, Carrying, Attached, Executing
  <2> QED BY <2>2, PassivePhase
<1>2. UNCHANGED <<client, wire, now, epoch, executed, cache>>
    BY DEF RecreatePipeInstance, clientVars
<1>3. slot \in [Instance -> Slot]
    BY DEF Sound, Typed
<1> DEFINE s == [slot[i] EXCEPT !.pc = "none", !.recreateScheduled = FALSE]
<1>4. s \in Slot /\ s.phase = "Disconnected" /\ s.answer = slot[i].answer
    BY <1>1 DEF Slot, Pc
<1>5. CASE slot' = [slot EXCEPT ![i] = s] /\ UNCHANGED pipe
  <2> HIDE DEF s
  <2>1. /\ \A j \in Instance : Sheds(j)
        /\ \A j \in Instance \ {i} : slot'[j] = slot[j]
        /\ slot'[i].phase = "Disconnected"
    BY <1>3, <1>4, <1>5 DEF Sheds
  <2> QED BY <1>1, <1>2, <2>1, EarlyStep DEF Early
<1>6. CASE slot' = [slot EXCEPT ![i] = ScheduleRearmLocked([s EXCEPT !.recreateRequired = TRUE])] /\ UNCHANGED pipe
  <2> HIDE DEF s
  <2> DEFINE u == [s EXCEPT !.recreateRequired = TRUE]
             t == ScheduleRearmLocked(u)
  <2>1. u \in Slot /\ u.answer = slot[i].answer
    BY <1>4 DEF Slot
  <2> HIDE DEF u
  <2>2. t.answer = slot[i].answer /\ t.phase = "Disconnected"
    BY <2>1, RearmType
  <2>3. slot' = [slot EXCEPT ![i] = t]
    BY <1>6 DEF u
  <2> HIDE DEF t
  <2>4. /\ \A j \in Instance : Sheds(j)
        /\ \A j \in Instance \ {i} : slot'[j] = slot[j]
        /\ slot'[i].phase = "Disconnected"
    BY <1>3, <1>6, <2>2, <2>3 DEF Sheds
  <2> QED BY <1>1, <1>2, <2>4, EarlyStep DEF Early
<1>7. CASE SetArmed(i, [s EXCEPT !.recreateRequired = FALSE, !.failures = 0], FreshPipe)
  <2> HIDE DEF s
  <2> DEFINE u == [s EXCEPT !.recreateRequired = FALSE, !.failures = 0]
  <2>1. u \in Slot /\ u.phase = "Disconnected" /\ u.answer = slot[i].answer
    BY <1>4 DEF Slot
  <2>2. PICK error \in ArmError : /\ slot' = [slot EXCEPT ![i] = Arm(u, FreshPipe, error).s]
                                  /\ pipe' = [pipe EXCEPT ![i] = Arm(u, FreshPipe, error).p]
    BY <1>7 DEF SetArmed
  <2> HIDE DEF u
  <2>3. FreshPipe \in Pipe /\ FreshPipe.request = NoRequest /\ FreshPipe.answer = NoAnswer
    BY PipeTypes DEF FreshPipe, AbsentPipe
  <2>4. /\ \A j \in Instance : Sheds(j)
        /\ \A j \in Instance \ {i} : slot'[j] = slot[j]
        /\ slot'[i].phase \in Early
    BY <2>1, <2>2, <2>3, ArmedSheds DEF Early
  <2> QED BY <1>1, <1>2, <2>4, EarlyStep
<1> QED BY <1>5, <1>6, <1>7 DEF RecreatePipeInstance

LEMMA ClientConnectedCache ==
    ASSUME IInv, Sound', NEW i \in Instance, ClientConnected(i), UNCHANGED clientVars
    PROVE  CacheInv'
<1> USE SoundOf, At
<1>1. slot[i].phase = "Connecting" /\ Passive(slot[i])
    BY PassivePhase DEF ClientConnected
<1>2. UNCHANGED <<client, wire, now, epoch, executed, cache, pipe>>
    BY DEF ClientConnected, clientVars
<1>3. slot \in [Instance -> Slot]
    BY DEF Sound, Typed
<1> DEFINE s == [slot[i] EXCEPT !.pc = "connected"]
<1>4. s.phase = "Connecting" /\ s.answer = slot[i].answer
    BY <1>1 DEF Slot
<1>5. slot' = [slot EXCEPT ![i] = s]
    BY DEF ClientConnected
<1> HIDE DEF s
<1>6. /\ \A j \in Instance : Sheds(j)
      /\ \A j \in Instance \ {i} : slot'[j] = slot[j]
      /\ slot'[i].phase = "Connecting"
    BY <1>2, <1>3, <1>4, <1>5 DEF Sheds
<1> QED BY <1>1, <1>2, <1>6, EarlyStep DEF Early

(* A connection that ends with nothing to deliver leaves the cache alone.  *)
LEMMA FinishQuietly ==
    ASSUME IInv, Sound', NEW i \in Instance, Finish(i), Passive(slot[i]), slot[i].record = 0,
           UNCHANGED <<client, wire, now, epoch, executed>>
    PROVE  CacheInv'
<1>1. cache' = cache
    BY DEF Finish, FinishedCache, Passive
<1>2. /\ \A j \in Instance : Sheds(j)
      /\ \A j \in Instance \ {i} : slot'[j] = slot[j]
      /\ slot'[i].phase \in Early
    BY SoundOf, FinishSheds DEF Early
<1> QED BY <1>1, <1>2, EarlyStep

LEMMA HandleConnectedInstanceCache ==
    ASSUME IInv, Sound', NEW i \in Instance, NEW trusted \in BOOLEAN,
           HandleConnectedInstance(i, trusted), UNCHANGED clientVars
    PROVE  CacheInv'
<1> USE SoundOf, At
<1>1. slot[i].phase = "Connecting" /\ Passive(slot[i]) /\ slot[i].record = 0
  <2>1. slot[i].phase \in Phase
    BY DEF Slot
  <2>2. slot[i].phase = "Connecting"
    BY <2>1 DEF HandleConnectedInstance, SlotSound, Phase, Working, Carrying, Attached, Executing
  <2> QED BY <2>2, PassivePhase DEF Passive, Answering
<1>2. UNCHANGED <<client, wire, now, epoch, executed>>
    BY DEF HandleConnectedInstance, clientVars
<1>3. CASE Finish(i)
    BY <1>1, <1>2, <1>3, FinishQuietly
<1>4. CASE ~Finish(i)
  <2> DEFINE s == [slot[i] EXCEPT !.pc = "none", !.phase = "ReadingRequest",
                                  !.request = NoRequest, !.answer = NoAnswer, !.record = 0,
                                  !.deadline = now + RequestTimeout, !.failures = 0]
  <2>1. s.phase = "ReadingRequest" /\ s.answer = NoAnswer
    BY DEF Slot
  <2>2. slot' = [slot EXCEPT ![i] = s] /\ UNCHANGED <<pipe, cache>>
    BY <1>4 DEF HandleConnectedInstance
  <2> HIDE DEF s
  <2>3. slot \in [Instance -> Slot]
    BY DEF Sound, Typed
  <2>4. /\ \A j \in Instance : Sheds(j)
        /\ \A j \in Instance \ {i} : slot'[j] = slot[j]
        /\ slot'[i].phase = "ReadingRequest"
    BY <2>1, <2>2, <2>3 DEF Sheds
  <2> QED BY <1>1, <1>2, <2>2, <2>4, EarlyStep DEF Early
<1> QED BY <1>3, <1>4

(* The life cycle leaves the slots and the cache alone, but for the start  *)
(* of a server whose slots are new.                                        *)
LEMMA LifeStepCache ==
    ASSUME IInv, Sound', UNCHANGED <<client, wire, now, epoch, executed, cache, slot>>,
           \A i \in Instance : pipe'[i] = pipe[i] \/ (pipe'[i].request = NoRequest /\ pipe'[i].answer = NoAnswer)
    PROVE  CacheInv'
<1>1. \A i \in Instance : Sheds(i)
    BY DEF Sheds
<1>2. Holds(cache, slot', executed)
    BY DEF IInv, CacheInv
<1> QED BY <1>1, <1>2, ShedStep

LEMMA CreatePipesCache ==
    ASSUME IInv, Sound', NEW created \in SUBSET Instance, CreatePipes(created), UNCHANGED clientVars
    PROVE  CacheInv'
<1>1. \A i \in Instance : pipe'[i].request = NoRequest /\ pipe'[i].answer = NoAnswer
    BY DEF CreatePipes, FreshPipe, AbsentPipe
<1>2. UNCHANGED <<client, wire, now, epoch, executed, cache, slot>>
    BY DEF CreatePipes, clientVars
<1> QED BY <1>1, <1>2, LifeStepCache

LEMMA InstallPipesCache ==
    ASSUME IInv, Sound', InstallPipes, UNCHANGED clientVars
    PROVE  CacheInv'
<1> USE SoundOf
<1>1. UNCHANGED <<client, wire, now, epoch, executed, cache>>
    BY DEF InstallPipes, clientVars
<1>2. CASE ~life.desired \/ life.stopRequested \/ life.stopping
  <2>1. \A i \in Instance : pipe'[i].request = NoRequest /\ pipe'[i].answer = NoAnswer
    BY <1>2 DEF InstallPipes, AbsentPipe
  <2>2. slot' = slot
    BY <1>2 DEF InstallPipes
  <2> QED BY <1>1, <2>1, <2>2, LifeStepCache
<1>3. CASE ~(~life.desired \/ life.stopRequested \/ life.stopping)
  <2>1. life'.running
    BY <1>3 DEF InstallPipes, Sound, Typed, Life
  <2>2. \A i \in Instance : slot[i] = NewSlot(FALSE)
    BY DEF InstallPipes, Sound, Fallow
  <2>3. ASSUME NEW i \in Instance
        PROVE  Sheds(i) /\ slot'[i].phase \in Early
    <3> DEFINE s == NewSlot(pipe[i].state # "absent")
    <3>1. slot'[i] = ArmRunning(s, pipe[i], "none").s /\ pipe'[i] = ArmRunning(s, pipe[i], "none").p
        BY <1>3 DEF InstallPipes
    <3>2. s \in Slot /\ pipe[i] \in Pipe
        BY At, NewSlotType
    <3>3. s.answer = NoAnswer /\ s.phase = "Disconnected"
        BY DEF NewSlot
    <3> HIDE DEF s
    <3>4. LET a == ArmRunning(s, pipe[i], "none")
          IN /\ a.s.answer = s.answer /\ a.s.phase \in {s.phase, "Disconnected", "Connecting"}
             /\ a.p.request \in {pipe[i].request, NoRequest} /\ a.p.answer \in {pipe[i].answer, NoAnswer}
        BY <3>2, ArmRunningSheds
    <3> QED BY <3>1, <3>3, <3>4 DEF Sheds, Early
  <2>4. \A i \in Instance : Passive(slot[i]) /\ Passive(slot'[i])
    <3>1. \A i \in Instance : slot[i].phase = "Disconnected"
        BY <2>2 DEF NewSlot
    <3>2. \A i \in Instance : slot[i] \in Slot /\ SlotSound(slot[i]) /\ slot'[i] \in Slot /\ SlotSound(slot'[i])
        BY At, SlotsSound
    <3> QED BY <2>3, <3>1, <3>2, PassivePhase DEF Early
  <2>5. Holds(cache, slot', executed)
    BY <2>4, PassiveHolds, SlotsHold DEF CacheInv
  <2> QED BY <1>1, <2>3, <2>5, ShedStep
<1> QED BY <1>2, <1>3

-----------------------------------------------------------------------------
(* The callback at work on a slot.                                         *)

(* Slot i becomes t, which holds of the cache what the slot held.          *)
LEMMA TurnStep ==
    ASSUME IInv, Sound', NEW i \in Instance, NEW t, slot' = [slot EXCEPT ![i] = t],
           UNCHANGED <<client, wire, now, epoch, executed, cache>>,
           pipe'[i].request = pipe[i].request, pipe'[i].answer \in {pipe[i].answer, slot[i].answer},
           \A j \in Instance \ {i} : pipe'[j] = pipe[j],
           t.answer = slot[i].answer \/ AnswerSound(t.answer, executed),
           t.request = slot[i].request,
           t.pending \/ t.job.pending <=> slot[i].pending \/ slot[i].job.pending,
           Answering(t) <=> Answering(slot[i]),
           t.pc \in Executing <=> slot[i].pc \in Executing,
           Backed(cache, t, executed)
    PROVE  CacheInv'
<1>1. slot'[i] = t /\ \A j \in Instance \ {i} : slot'[j] = slot[j]
    BY DEF IInv, Sound, Typed
<1>2. \A j \in Instance : Backed(cache, slot'[j], executed)
    BY <1>1 DEF IInv, CacheInv, Holds
<1>3. \A j \in Instance : \A id \in Id :
        /\ Registers(slot'[j], id) <=> Registers(slot[j], id)
        /\ Delivers(slot'[j], id) <=> Delivers(slot[j], id)
        /\ Executes(slot'[j], id) <=> Executes(slot[j], id)
    BY <1>1 DEF Registers, Delivers, Executes
<1>4. Holds(cache, slot, executed)
    BY DEF IInv, CacheInv
<1>5. Holds(cache, slot', executed)
    BY <1>2, <1>3, <1>4, SlotsHold
<1>6. \A j \in Instance : /\ pipe'[j].request \in {pipe[j].request, NoRequest}
                          /\ pipe'[j].answer \in {pipe[j].answer, slot[j].answer, NoAnswer}
                          /\ slot'[j].answer \in {slot[j].answer, NoAnswer}
                                \/ AnswerSound(slot'[j].answer, executed)
    BY <1>1
<1> QED BY <1>5, <1>6, QuietStep

LEMMA BackedAt ==
    ASSUME IInv, NEW i \in Instance
    PROVE  Backed(cache, slot[i], executed) /\ Holds(cache, slot, executed)
BY DEF IInv, CacheInv, Holds

LEMMA WriteResponseCache ==
    ASSUME IInv, Sound', NEW i \in Instance, WriteResponse(i), UNCHANGED clientVars
    PROVE  CacheInv'
<1> USE SoundOf, At
<1> DEFINE t == [slot[i] EXCEPT !.phase = "ReadingAcknowledgement"]
           p == [pipe[i] EXCEPT !.answer = slot[i].answer]
<1>1. /\ t.answer = slot[i].answer /\ t.request = slot[i].request /\ t.pending = slot[i].pending
      /\ t.job = slot[i].job /\ t.pc = slot[i].pc /\ t.record = slot[i].record
    BY DEF Slot
<1>2. p.request = pipe[i].request /\ p.answer = slot[i].answer
    BY DEF Pipe
<1>3. slot' = [slot EXCEPT ![i] = t] /\ pipe' = [pipe EXCEPT ![i] = p]
    BY DEF WriteResponse
<1> HIDE DEF t, p
<1>4. pipe'[i] = p /\ \A j \in Instance \ {i} : pipe'[j] = pipe[j]
    BY <1>3 DEF Sound, Typed
<1>5. UNCHANGED <<client, wire, now, epoch, executed, cache>>
    BY DEF WriteResponse, clientVars
<1>6. (Answering(t) <=> Answering(slot[i])) /\ Backed(cache, t, executed)
    BY <1>1, BackedAt DEF Answering, Backed, RunOf
<1> QED BY <1>1, <1>2, <1>3, <1>4, <1>5, <1>6, TurnStep

LEMMA HandlerBeginsCache ==
    ASSUME IInv, Sound', NEW i \in Instance, HandlerBegins(i), UNCHANGED clientVars
    PROVE  CacheInv'
<1> USE SoundOf, At
<1> DEFINE job == [NoJob EXCEPT !.request = slot[i].request, !.pending = slot[i].pending]
           t == [slot[i] EXCEPT !.pc = IF life.running THEN "begun" ELSE "answered",
                                !.pending = FALSE, !.job = job]
<1>1. /\ slot[i].pc = "queued" /\ slot[i].pending /\ ~Answering(slot[i])
      /\ UNCHANGED <<client, wire, now, epoch, executed, cache, pipe>>
    BY NeedsRequest DEF HandlerBegins, clientVars, SlotSound, Answering
<1>2. job.pending /\ job.code = "OperationFailed"
    BY <1>1 DEF NoJob
<1> HIDE DEF job
<1>3. /\ t.answer = slot[i].answer /\ t.request = slot[i].request /\ t.job = job /\ t.record = slot[i].record
      /\ t.pc \in {"begun", "answered"}
    BY DEF Slot
<1>4. slot' = [slot EXCEPT ![i] = t]
    BY DEF HandlerBegins, job
<1> HIDE DEF t
<1>5. ~Answering(t) /\ t.pc \notin Attached /\ slot[i].pc \notin Executing
    BY <1>1, <1>2, <1>3 DEF Answering, Attached, Executing
<1>6. Backed(cache, t, executed)
    BY <1>1, <1>3, <1>5, BackedAt DEF Backed, Attached
<1> QED BY <1>1, <1>2, <1>3, <1>4, <1>5, <1>6, TurnStep DEF Attached

LEMMA ApartmentUnavailableCache ==
    ASSUME IInv, Sound', NEW i \in Instance, ApartmentUnavailable(i), UNCHANGED clientVars
    PROVE  CacheInv'
<1> USE SoundOf, At
<1> DEFINE t == [slot[i] EXCEPT !.pc = "answered"]
<1>1. slot[i].pc = "begun" /\ UNCHANGED <<client, wire, now, epoch, executed, cache, pipe>>
    BY DEF ApartmentUnavailable, clientVars
<1>2. /\ t.answer = slot[i].answer /\ t.request = slot[i].request /\ t.job = slot[i].job
      /\ t.record = slot[i].record /\ t.pending = slot[i].pending /\ t.pc = "answered"
    BY DEF Slot
<1>3. slot' = [slot EXCEPT ![i] = t]
    BY DEF ApartmentUnavailable
<1> HIDE DEF t
<1>4. ~Answering(slot[i]) /\ ~Answering(t)
    BY <1>1, <1>2, NeedsRequest DEF Answering, SlotSound
<1>5. t.pc \notin Attached \cup Executing /\ slot[i].pc \notin Executing
    BY <1>1, <1>2 DEF Attached, Executing
<1>6. Backed(cache, t, executed)
    BY <1>2, <1>4, <1>5 DEF Backed
<1> QED BY <1>1, <1>2, <1>3, <1>4, <1>5, <1>6, TurnStep

LEMMA StopWaitingCache ==
    ASSUME IInv, Sound', NEW i \in Instance, StopWaiting(i), UNCHANGED clientVars
    PROVE  CacheInv'
<1> USE SoundOf, At
<1> DEFINE code == IF life.token THEN "Unavailable" ELSE "Busy"
           job == [slot[i].job EXCEPT !.run = 0, !.code = code]
           t == [slot[i] EXCEPT !.pc = "answered", !.job = job]
<1>1. slot[i].pc = "waiting" /\ UNCHANGED <<client, wire, now, epoch, executed, cache, pipe>>
    BY DEF StopWaiting, clientVars
<1>2. slot[i].job \in Job
    BY DEF Slot
<1>3. job.pending = slot[i].job.pending /\ job.code # "Result"
    BY <1>2 DEF Job
<1>4. slot' = [slot EXCEPT ![i] = t]
  <2>1. slot \in [Instance -> Slot]
    BY DEF Sound, Typed
  <2>2. slot' = [slot EXCEPT ![i].pc = "answered", ![i].job.run = 0, ![i].job.code = code]
    BY DEF StopWaiting
  <2> HIDE DEF code
  <2> QED BY <1>2, <2>1, <2>2 DEF Slot, Job
<1> HIDE DEF job
<1>5. /\ t.answer = slot[i].answer /\ t.request = slot[i].request /\ t.job = job
      /\ t.record = slot[i].record /\ t.pending = slot[i].pending /\ t.pc = "answered"
    BY DEF Slot
<1> HIDE DEF t
<1>6. ~Answering(slot[i]) /\ ~Answering(t)
    BY <1>1, <1>3, <1>5, NeedsRequest DEF Answering
<1>7. t.pc \notin Attached \cup Executing /\ slot[i].pc \notin Executing
    BY <1>1, <1>5 DEF Attached, Executing
<1>8. Backed(cache, t, executed)
    BY <1>5, <1>6, <1>7 DEF Backed
<1> QED BY <1>1, <1>3, <1>4, <1>5, <1>6, <1>7, <1>8, TurnStep

LEMMA HandleCache ==
    ASSUME IInv, Sound', NEW i \in Instance, Handle(i), UNCHANGED clientVars
    PROVE  CacheInv'
<1> USE SoundOf, At
<1> DEFINE m == (~life.token /\ slot[i].job.request.body \in Mutating) /\ ~mutationActive
           job == [slot[i].job EXCEPT !.mutation = m]
           t == [slot[i] EXCEPT !.pc = "dispatched", !.job = job]
<1>1. slot[i].pc = "handling" /\ UNCHANGED <<client, wire, now, epoch, executed, cache, pipe>>
    BY DEF Handle, clientVars
<1>2. slot[i].job \in Job
    BY DEF Slot
<1>3. job.pending = slot[i].job.pending /\ job.run = slot[i].job.run
    BY <1>2 DEF Job
<1>4. slot' = [slot EXCEPT ![i] = t]
    BY <1>2 DEF Handle, Sound, Typed, Slot, Job
<1> HIDE DEF job
<1>5. /\ t.answer = slot[i].answer /\ t.request = slot[i].request /\ t.job = job
      /\ t.record = slot[i].record /\ t.pending = slot[i].pending /\ t.pc = "dispatched"
    BY DEF Slot
<1> HIDE DEF t
<1>6. ~Answering(slot[i]) /\ ~Answering(t)
    BY <1>1, <1>5, NeedsRequest DEF Answering
<1>7. {t.pc, slot[i].pc} \subseteq Attached /\ {t.pc, slot[i].pc} \subseteq Executing
    BY <1>1, <1>5 DEF Attached, Executing
<1>8. Backed(cache, t, executed)
    BY <1>1, <1>3, <1>5, <1>6, <1>7, BackedAt DEF Backed, RunOf
<1> QED BY <1>1, <1>3, <1>4, <1>5, <1>6, <1>7, <1>8, TurnStep

(* DispatchRequest: the copy that is read now is young enough for the      *)
(* record of an earlier copy to be there still.                            *)
LEMMA DispatchRequestCache ==
    ASSUME IInv, Sound', NEW i \in Instance, DispatchRequest(i), UNCHANGED clientVars
    PROVE  CacheInv'
<1> USE SoundOf, At
<1> DEFINE r == pipe[i].request
           t == [slot[i] EXCEPT !.phase = "RunningHandler", !.pc = "queued", !.pending = TRUE, !.request = r]
           p == [pipe[i] EXCEPT !.request = NoRequest]
<1>1. /\ slot[i].phase = "ReadingRequest" /\ r \in Request /\ r.id \in Id
      /\ UNCHANGED <<client, wire, now, epoch, executed>>
    BY DEF DispatchRequest, clientVars, Pipe, Request
<1>2. t.answer = slot[i].answer /\ t.request = r /\ t.pending /\ t.pc = "queued" /\ t.record = slot[i].record
    BY DEF Slot
<1>3. p.request = NoRequest /\ p.answer = pipe[i].answer
    BY DEF Pipe
<1>4. /\ slot' = [slot EXCEPT ![i] = t] /\ pipe' = [pipe EXCEPT ![i] = p]
      /\ cache' = RegisterPending(cache, r.id)
    BY DEF DispatchRequest
<1> HIDE DEF t, p
<1>5. /\ CacheTyped(cache') /\ cache'.records = cache.records
      /\ cache'.pending = [cache.pending EXCEPT ![r.id] = cache.pending[r.id] + 1]
    BY <1>1, <1>4, RegisterForm
<1>6. /\ slot'[i] = t /\ pipe'[i] = p /\ \A j \in Instance \ {i} : slot'[j] = slot[j] /\ pipe'[j] = pipe[j]
    BY <1>4 DEF Sound, Typed
<1>7. Passive(slot[i])
    BY <1>1, PassivePhase
<1>8. executed[r] > 0 => Recorded(cache, r)
  <2>1. PICK c \in Client : pipe[i].client = c /\ r = wire[c]
    BY <1>1, PipeAssumption DEF Linked
  <2>2. /\ now < slot[i].deadline /\ slot[i].deadline <= client[c].deadline + RequestTimeout
        /\ slot[i].deadline \in Nat /\ client[c].deadline + RequestTimeout \in Nat
    <3>1. client[c].deadline \in Nat /\ slot[i].deadline \in Nat /\ RequestTimeout \in Nat
        BY CallOf, ServerAssumption DEF CallState, Slot
    <3>2. now < slot[i].deadline /\ life.running /\ Timely(slot[i], pipe[i], life.running)
        BY DEF DispatchRequest
    <3>3. slot[i].deadline <= client[c].deadline + RequestTimeout
        BY <1>1, <2>1, <3>2 DEF Timely
    <3> QED BY <3>1, <3>2, <3>3
  <2>3. now < client[c].deadline + RequestTimeout
    BY <2>2
  <2>4. Unread(c)
    BY <2>1, <2>3 DEF Unread
  <2> QED BY <2>1, <2>4 DEF CacheInv, Remembers, Memorable, Recorded
<1>9. ~Answering(t)
    BY <1>2, <1>7 DEF Passive, Answering
<1>10. Backed(cache', t, executed)
    BY <1>2, <1>5, <1>8, <1>9 DEF Backed, Recorded, Attached, Executing
<1>11. \A id \in Id : /\ ~Registers(slot[i], id) /\ ~Delivers(slot[i], id) /\ ~Executes(slot[i], id)
                      /\ ~Delivers(t, id) /\ ~Executes(t, id)
                      /\ Registers(t, id) <=> id = r.id
    BY <1>2, <1>7, <1>9 DEF Passive, Registers, Delivers, Executes, Working, Carrying, Attached, Executing
<1>12. Holds(cache', slot', executed)
  <2>1. ASSUME NEW id \in Id
        PROVE /\ Persists(cache.records[id], cache'.records[id])
              /\ cache'.pending[id] + One(Registers(slot[i], id)) = cache.pending[id] + One(Registers(slot'[i], id))
              /\ IF cache.records[id] = NoRecord
                 THEN cache'.records[id] # NoRecord => RecordStarts(cache'.records[id], slot'[i], executed, id)
                 ELSE RecordMoves(cache.records[id], cache'.records[id], slot[i], slot'[i], id)
              /\ Executes(slot'[i], id) => Executes(slot[i], id) \/ cache.records[id] = NoRecord
    <3>1. cache.pending \in [Id -> Nat]
        BY DEF CacheTyped
    <3>2. cache'.pending[id] + 0 = cache.pending[id] + (IF id = r.id THEN 1 ELSE 0)
        BY <1>1, <1>5, <3>1
    <3> QED BY <1>5, <1>6, <1>11, <3>2 DEF Persists, RecordMoves, One
  <2>2. \A q \in Request : executed[q] <= executed[q] /\ (executed[q] > 0 => executed[q] > 0 \/ Recorded(cache', q))
    OBVIOUS
  <2>3. Holds(cache, slot, executed) /\ Slots(slot) /\ Slots(slot')
    BY SlotsSound DEF CacheInv
  <2> QED BY <1>5, <1>6, <1>10, <2>1, <2>2, <2>3, HoldsStep
<1>13. \A j \in Instance : /\ pipe'[j].request \in {pipe[j].request, NoRequest}
                           /\ pipe'[j].answer \in {pipe[j].answer, slot[j].answer, NoAnswer}
                           /\ slot'[j].answer \in {slot[j].answer, NoAnswer}
    BY <1>2, <1>3, <1>6
<1> QED BY <1>1, <1>5, <1>12, <1>13, QuietStep

-----------------------------------------------------------------------------
(* The steps that change records.                                          *)

(* A record that can still be needed has not expired: RetentionAssumption. *)
LEMMA MemoryOutlives ==
    ASSUME Sound, NEW c \in Client, NEW r \in Record, NEW pending, Unread(c), Memorable(r, c)
    PROVE  ~Expired(r, pending, now) /\ Pruned(r, pending, now) = r
<1>1. /\ client[c].deadline \in Nat /\ now \in Nat /\ OverallTimeout \in Nat /\ RequestTimeout \in Nat
      /\ RequestRecordLifetime \in Nat /\ r.completed \in Nat
    BY CallOf, ClientAssumption, ServerAssumption, CacheAssumption DEF CallState, Record
<1>2. now < client[c].deadline + RequestTimeout
    BY <1>1 DEF Unread
<1>3. r.complete => ~(now - r.completed >= RequestRecordLifetime)
    BY <1>1, <1>2, RetentionAssumption DEF Memorable
<1>4. ~Expired(r, pending, now)
    BY <1>3 DEF Expired, Idle, RetainedSince, Retention, Memorable
<1> QED BY <1>4 DEF Pruned

LEMMA ClientId ==
    ASSUME Sound, NEW c \in Client
    PROVE  wire[c] \in Request /\ wire[c].id \in Id /\ wire[c].body \in Body
BY CallOf DEF Request

(* Pruning drops no record that a slot or a client needs.                  *)
LEMMA PrunedHolds ==
    ASSUME Sound, NEW C, NEW D, NEW S, NEW E, Slots(S), CacheTyped(C), Holds(C, S, E),
           D.pending = C.pending,
           \A id \in Id : D.records[id] = Pruned(C.records[id], C.pending[id], now)
    PROVE  /\ Holds(D, S, E)
           /\ \A c \in Client : Unread(c) /\ Memorable(C.records[wire[c].id], c) =>
                    Memorable(D.records[wire[c].id], c)
<1>1. \A id \in Id : \/ D.records[id] = C.records[id]
                     \/ D.records[id] = NoRecord /\ Idle(C.records[id], C.pending[id])
    BY DEF Pruned, Expired
<1>2. Holds(D, S, E)
    BY <1>1, PruneHolds
<1>3. ASSUME NEW c \in Client, Unread(c), Memorable(C.records[wire[c].id], c)
      PROVE  Memorable(D.records[wire[c].id], c)
  <2>1. wire[c].id \in Id /\ C.records[wire[c].id] \in Record
    BY <1>3, ClientId, NoRecordHasNoRun DEF CacheTyped, Memorable
  <2> QED BY <1>3, <2>1, MemoryOutlives
<1> QED BY <1>2, <1>3

LEMMA OnRequestPruneCache ==
    ASSUME IInv, Sound', OnRequestPrune, UNCHANGED clientVars
    PROVE  CacheInv'
<1> USE SoundOf
<1>1. UNCHANGED <<client, wire, now, epoch, executed, pipe, slot>> /\ cache' = PruneAndSchedule(cache, now)
    BY DEF OnRequestPrune, clientVars
<1>2. CacheTyped(cache) /\ now \in Nat /\ Slots(slot) /\ Holds(cache, slot, executed)
    BY SlotsSound DEF Sound, Typed, CacheInv
<1>3. /\ cache'.pending = cache.pending
      /\ \A id \in Id : cache'.records[id] = Pruned(cache.records[id], cache.pending[id], now)
    BY <1>1, <1>2, PruneAndScheduleForm
<1>4. /\ Holds(cache', slot, executed)
      /\ \A c \in Client : Unread(c) /\ Memorable(cache.records[wire[c].id], c) =>
                Memorable(cache'.records[wire[c].id], c)
    BY <1>2, <1>3, PrunedHolds
<1>5. \A i \in Instance : /\ pipe'[i].request \in {pipe[i].request, NoRequest}
                          /\ pipe'[i].answer \in {pipe[i].answer, slot[i].answer, NoAnswer}
                          /\ slot'[i].answer \in {slot[i].answer, NoAnswer}
    BY <1>1
<1> QED BY <1>1, <1>4, <1>5, QuietStep

(* One record and one slot change, and the cache is pruned.                *)
LEMMA RecordStep ==
    ASSUME IInv, NEW D, NEW i \in Instance, NEW id \in Id, NEW q \in Record,
           Slots(slot'), \A j \in Instance \ {i} : slot'[j] = slot[j],
           D.pending = cache.pending,
           D.records[id] = Pruned(q, cache.pending[id], now),
           \A k \in Id \ {id} : D.records[k] = Pruned(cache.records[k], cache.pending[k], now),
           cache.records[id] # NoRecord, Persists(cache.records[id], q),
           RecordMoves(cache.records[id], q, slot[i], slot'[i], id),
           \A k \in Id : Registers(slot[i], k) <=> Registers(slot'[i], k),
           \A k \in Id \ {id} : /\ Delivers(slot[i], k) <=> Delivers(slot'[i], k)
                                /\ Executes(slot[i], k) <=> Executes(slot'[i], k),
           Executes(slot'[i], id) => Executes(slot[i], id),
           Backed([cache EXCEPT !.records = [cache.records EXCEPT ![id] = q]], slot'[i], executed),
           \A c \in Client : wire[c].id = id /\ Unread(c) /\ Memorable(cache.records[id], c) => Memorable(q, c)
    PROVE  /\ Holds(D, slot', executed)
           /\ \A c \in Client : Unread(c) /\ Memorable(cache.records[wire[c].id], c) =>
                    Memorable(D.records[wire[c].id], c)
<1> DEFINE e == [cache EXCEPT !.records = [cache.records EXCEPT ![id] = q]]
<1> USE SoundOf
<1>1. CacheTyped(cache) /\ executed \in [Request -> Nat] /\ Slots(slot) /\ Holds(cache, slot, executed)
    BY SlotsSound DEF Sound, Typed, CacheInv
<1>2. CacheTyped(e) /\ e.pending = cache.pending /\ e.records = [cache.records EXCEPT ![id] = q]
    BY <1>1 DEF CacheTyped
<1> HIDE DEF e
<1>3. e.records[id] = q /\ \A k \in Id \ {id} : e.records[k] = cache.records[k]
    BY <1>1, <1>2 DEF CacheTyped
<1>4. Holds(e, slot', executed)
  <2>1. ASSUME NEW k \in Id
        PROVE /\ Persists(cache.records[k], e.records[k])
              /\ e.pending[k] + One(Registers(slot[i], k)) = cache.pending[k] + One(Registers(slot'[i], k))
              /\ IF cache.records[k] = NoRecord
                 THEN e.records[k] # NoRecord => RecordStarts(e.records[k], slot'[i], executed, k)
                 ELSE RecordMoves(cache.records[k], e.records[k], slot[i], slot'[i], k)
              /\ Executes(slot'[i], k) => Executes(slot[i], k) \/ cache.records[k] = NoRecord
    <3>1. One(Registers(slot[i], k)) = One(Registers(slot'[i], k))
        BY DEF One
    <3>2. k # id => Persists(cache.records[k], e.records[k])
                    /\ RecordMoves(cache.records[k], e.records[k], slot[i], slot'[i], k)
        BY <1>3 DEF Persists, RecordMoves, One
    <3> QED BY <1>2, <1>3, <3>1, <3>2
  <2>2. \A r \in Request : executed[r] <= executed[r] /\ (executed[r] > 0 => executed[r] > 0 \/ Recorded(e, r))
    BY <1>1
  <2>3. Backed(e, slot'[i], executed)
    BY DEF e
  <2> QED BY <1>1, <1>2, <2>1, <2>2, <2>3, HoldsStep
<1>5. \A k \in Id : D.records[k] = Pruned(e.records[k], e.pending[k], now)
    BY <1>2, <1>3
<1>6. \A c \in Client : Unread(c) /\ Memorable(cache.records[wire[c].id], c) => Memorable(e.records[wire[c].id], c)
    BY <1>3, ClientId
<1> QED BY <1>2, <1>4, <1>5, <1>6, PrunedHolds

LEMMA SameRequest ==
    ASSUME NEW r \in Request, NEW q \in Request, r.id = q.id, r.body = q.body
    PROVE  r = q
BY DEF Request

(* A delivery ends: the slot lets go of its record, which is acknowledged  *)
(* only when its client cannot ask again.                                  *)
LEMMA DeliveryEnds ==
    ASSUME IInv, NEW i \in Instance, NEW acknowledged \in BOOLEAN, NEW D, Answering(slot[i]),
           D = CompleteDelivery(cache, slot[i].request.id, RunOf(slot[i]), acknowledged, now),
           ~slot[i].pending, ~slot[i].job.pending, slot[i].pc \notin Executing,
           Slots(slot'), \A j \in Instance \ {i} : slot'[j] = slot[j], Passive(slot'[i]),
           acknowledged => \A c \in Client : wire[c] = slot[i].request => ~Unread(c)
    PROVE  /\ Holds(D, slot', executed)
           /\ \A c \in Client : Unread(c) /\ Memorable(cache.records[wire[c].id], c) =>
                    Memorable(D.records[wire[c].id], c)
<1> USE SoundOf, At
<1> DEFINE id == slot[i].request.id
           r == cache.records[id]
           q == Delivered(r, acknowledged, now)
<1>1. slot[i].request \in Request /\ id \in Id
    BY NeedsRequest
<1>2. r # NoRecord /\ r.body = slot[i].request.body /\ r.run = RunOf(slot[i]) /\ r.complete
    BY BackedAt DEF Backed, Recorded
<1>3. r \in Record
    BY <1>1, <1>2, NoRecordHasNoRun DEF CacheTyped
<1>4. /\ D.pending = cache.pending
      /\ D.records[id] = Pruned(q, cache.pending[id], now)
      /\ \A k \in Id \ {id} : D.records[k] = Pruned(cache.records[k], cache.pending[k], now)
  <2>1. D = CompleteDelivery(cache, id, cache.records[id].run, acknowledged, now)
    BY <1>2
  <2>2. CacheTyped(cache) /\ now \in Nat /\ cache.records[id] # NoRecord /\ cache.records[id].complete
    BY <1>2
  <2> HIDE DEF id
  <2>3. LET d == CompleteDelivery(cache, id, cache.records[id].run, acknowledged, now)
        IN /\ d.pending = cache.pending
           /\ d.records[id] = Pruned(Delivered(cache.records[id], acknowledged, now),
                                     cache.pending[id], now)
           /\ \A k \in Id \ {id} : d.records[k] = Pruned(cache.records[k], cache.pending[k], now)
    BY <1>1, <2>2, CompleteDeliveryForm
  <2> QED BY <2>1, <2>3
<1>5. /\ q \in Record /\ q.run = r.run /\ q.body = r.body /\ q.complete = r.complete
      /\ q.active = Less(r.active) /\ q.acknowledged = (r.acknowledged \/ acknowledged)
      /\ q.completed = r.completed
  <2>1. now \in Nat
    OBVIOUS
  <2> HIDE DEF r
  <2> QED BY <1>3, <2>1, DeliveredForm
<1> HIDE DEF q
<1>6. Delivers(slot[i], id) /\ \A k \in Id \ {id} : ~Delivers(slot[i], k)
    BY DEF Delivers
<1>7. r.active \in Nat /\ r.active # 0
  <2>1. r.active = Cardinality({j \in Instance : Delivers(slot[j], id)}) /\ r.active \in Nat
    BY <1>1, <1>2, <1>3, BackedAt DEF Holds, Accounted, Record
  <2> QED BY <1>6, <2>1, CountZero
<1>8. /\ \A k : ~Registers(slot'[i], k) /\ ~Delivers(slot'[i], k) /\ ~Executes(slot'[i], k)
      /\ \A C : Backed(C, slot'[i], executed)
    BY PassiveHolds
<1>9. \A k : ~Registers(slot[i], k) /\ ~Executes(slot[i], k)
    BY DEF Registers, Executes
<1>10. Persists(r, q) /\ RecordMoves(r, q, slot[i], slot'[i], id)
  <2>1. q.active + 1 = r.active + 0
    BY <1>5, <1>7 DEF Less
  <2>2. q # NoRecord
    BY <1>5, NoRecordHasNoRun
  <2> QED BY <1>2, <1>5, <1>6, <1>8, <1>9, <2>1, <2>2 DEF Persists, RecordMoves, One
<1>11. \A c \in Client : wire[c].id = id /\ Unread(c) /\ Memorable(r, c) => Memorable(q, c)
  <2> SUFFICES ASSUME NEW c \in Client, wire[c].id = id, Unread(c), Memorable(r, c) PROVE Memorable(q, c)
    OBVIOUS
  <2>1. wire[c] = slot[i].request
    BY <1>1, <1>2, ClientId, SameRequest DEF Memorable
  <2>2. q.acknowledged = r.acknowledged /\ q # NoRecord
    BY <1>3, <1>5, <2>1, NoRecordHasNoRun DEF Record
  <2> QED BY <1>5, <2>2 DEF Memorable
<1> HIDE DEF id, r
<1>12. cache.records[id] # NoRecord /\ r = cache.records[id]
    BY <1>2 DEF r
<1> QED BY <1>1, <1>4, <1>5, <1>6, <1>8, <1>9, <1>10, <1>11, <1>12, RecordStep

LEMMA EarlyPassive ==
    ASSUME Sound', NEW i \in Instance, slot'[i].phase \in Early
    PROVE  Passive(slot'[i])
BY SlotsSound, PassivePhase DEF Early

LEMMA TransferFailsCache ==
    ASSUME IInv, Sound', NEW i \in Instance, TransferFails(i), UNCHANGED clientVars
    PROVE  CacheInv'
<1> USE SoundOf, At
<1>1. /\ Finish(i) /\ slot[i].pc = "none" /\ slot[i].phase \notin {"Disconnected", "RunningHandler"}
      /\ UNCHANGED <<client, wire, now, epoch, executed>>
    BY DEF TransferFails, InTransfer, clientVars
<1>2. /\ \A j \in Instance : Sheds(j)
      /\ \A j \in Instance \ {i} : slot'[j] = slot[j]
      /\ slot'[i].phase \in Early
    BY <1>1, FinishSheds DEF Early
<1>3. ~slot[i].pending /\ ~slot[i].job.pending /\ slot[i].pc \notin {"queued"} \cup Working
    BY <1>1 DEF SlotSound, Working, Carrying, Attached, Executing
<1>4. CASE slot[i].record = 0
  <2>1. Passive(slot[i])
    BY <1>1, <1>3, <1>4 DEF Passive, Answering
  <2> QED BY <1>1, <1>4, <2>1, FinishQuietly
<1>5. CASE slot[i].record # 0
  <2>1. Answering(slot[i]) /\ RunOf(slot[i]) = slot[i].record /\ slot[i].pc \notin Executing
    BY <1>3, <1>5 DEF Answering, RunOf, Working, Carrying, Attached
  <2>2. cache' = CompleteDelivery(cache, slot[i].request.id, RunOf(slot[i]), FALSE, now)
    BY <1>1, <1>3, <1>5, <2>1 DEF Finish, FinishedCache
  <2>3. Passive(slot'[i]) /\ Slots(slot')
    BY <1>2, EarlyPassive, SlotsSound
  <2>4. /\ Holds(cache', slot', executed)
        /\ \A c \in Client : Unread(c) /\ Memorable(cache.records[wire[c].id], c) =>
                Memorable(cache'.records[wire[c].id], c)
    BY <1>2, <1>3, <2>1, <2>2, <2>3, DeliveryEnds
  <2> QED BY <1>1, <1>2, <2>4, QuietStep DEF Sheds
<1> QED BY <1>4, <1>5

(* Only a client that has read the answer acknowledges it.                 *)
LEMMA ReadAcknowledgementCache ==
    ASSUME IInv, Sound', NEW i \in Instance, ReadAcknowledgement(i), UNCHANGED clientVars
    PROVE  CacheInv'
<1> USE SoundOf, At
<1> DEFINE s == [slot[i] EXCEPT !.phase = "Disconnected", !.record = 0]
<1>1. /\ slot[i].pc = "none" /\ slot[i].phase = "ReadingAcknowledgement" /\ pipe[i].acknowledged
      /\ UNCHANGED <<client, wire, now, epoch, executed>>
    BY DEF ReadAcknowledgement, InTransfer, clientVars
<1>2. s \in Slot /\ s.phase = "Disconnected" /\ s.answer = slot[i].answer
    BY DEF Slot, Phase
<1>3. PICK error \in ArmError : /\ slot' = [slot EXCEPT ![i] = Arm(s, IdlePipe, error).s]
                                /\ pipe' = [pipe EXCEPT ![i] = Arm(s, IdlePipe, error).p]
    BY DEF ReadAcknowledgement, SetArmed
<1> HIDE DEF s
<1>4. IdlePipe \in Pipe /\ IdlePipe.request = NoRequest /\ IdlePipe.answer = NoAnswer
    BY PipeTypes DEF IdlePipe, AbsentPipe
<1>5. /\ \A j \in Instance : Sheds(j)
      /\ \A j \in Instance \ {i} : slot'[j] = slot[j]
      /\ slot'[i].phase \in Early
    BY <1>2, <1>3, <1>4, ArmedSheds DEF Early
<1>6. ~slot[i].pending /\ ~slot[i].job.pending /\ slot[i].pc \notin {"queued"} \cup Working
    BY <1>1 DEF SlotSound, Working, Carrying, Attached, Executing
<1>7. CASE slot[i].record = 0
  <2>1. Passive(slot[i])
    BY <1>1, <1>6, <1>7 DEF Passive, Answering
  <2>2. cache' = cache
    BY <1>7 DEF ReadAcknowledgement
  <2> QED BY <1>1, <1>5, <2>1, <2>2, EarlyStep
<1>8. CASE slot[i].record # 0
  <2>1. Answering(slot[i]) /\ RunOf(slot[i]) = slot[i].record /\ slot[i].pc \notin Executing
    BY <1>6, <1>8 DEF Answering, RunOf, Working, Carrying, Attached
  <2>2. cache' = CompleteDelivery(cache, slot[i].request.id, RunOf(slot[i]), TRUE, now)
    BY <1>8, <2>1 DEF ReadAcknowledgement
  <2>3. Passive(slot'[i]) /\ Slots(slot')
    BY <1>5, EarlyPassive, SlotsSound
  <2>4. ASSUME NEW c \in Client, wire[c] = slot[i].request PROVE ~Unread(c)
    <3>1. pipe[i].client \in Client /\ slot[i].request = wire[pipe[i].client]
        BY <1>1 DEF Linked, Served
    <3>2. pipe[i].client = c
        BY <2>4, <3>1 DEF Sound, Distinct
    <3>3. client[c].pc = "done" /\ \A j \in Instance : pipe[j].request # wire[c]
        BY <1>1, <3>2, CallOf DEF ClientSound
    <3> QED BY <3>3 DEF Unread
  <2>5. /\ Holds(cache', slot', executed)
        /\ \A c \in Client : Unread(c) /\ Memorable(cache.records[wire[c].id], c) =>
                Memorable(cache'.records[wire[c].id], c)
    BY <1>5, <1>6, <2>1, <2>2, <2>3, <2>4, DeliveryEnds
  <2> QED BY <1>1, <1>5, <2>5, QuietStep DEF Sheds
<1> QED BY <1>7, <1>8

(* A result is of a request that ran.                                      *)
LEMMA AnsweringRan ==
    ASSUME IInv, NEW i \in Instance, Answering(slot[i]) \/ slot[i].pc \in Attached
    PROVE  slot[i].request \in Request /\ slot[i].request.id \in Id /\ executed[slot[i].request] > 0
<1> USE SoundOf, At
<1>1. slot[i].request \in Request /\ slot[i].request.id \in Id
    BY NeedsRequest DEF Working, Carrying
<1>2. Recorded(cache, slot[i].request)
    BY BackedAt DEF Backed
<1>3. slot[i].request = [id |-> slot[i].request.id, body |-> cache.records[slot[i].request.id].body]
    BY <1>1, <1>2 DEF Recorded, Request
<1> QED BY <1>1, <1>2, <1>3, BackedAt DEF Holds, RecordSound, Recorded

LEMMA RespondCache ==
    ASSUME IInv, Sound', NEW i \in Instance, Respond(i), UNCHANGED clientVars
    PROVE  CacheInv'
<1> USE SoundOf, At
<1> DEFINE job == slot[i].job
<1>1. /\ slot[i].pc = "responding" /\ UNCHANGED <<client, wire, now, epoch, executed, pipe>>
    BY DEF Respond, clientVars
<1>2. /\ slot[i].phase = "RunningHandler" /\ ~slot[i].pending /\ ~job.pending /\ slot[i].record = 0
      /\ slot[i].pc \notin Executing /\ job.request = slot[i].request
      /\ job.code = "Result" => job.run # 0
    BY <1>1, WorkingPhase DEF SlotSound, Working, Carrying, Attached, Executing
<1>3. Answering(slot[i]) <=> job.code = "Result"
    BY <1>1, <1>2 DEF Answering
<1>4. slot \in [Instance -> Slot] /\ NoJob.pending = FALSE
    BY DEF Sound, Typed, NoJob
<1>5. CASE life.running
  <2> DEFINE answer == [request |-> job.request, code |-> job.code]
             record == IF job.code = "Result" THEN job.run ELSE 0
             t == [slot[i] EXCEPT !.pc = "none", !.phase = "WritingResponse", !.answer = answer,
                                  !.record = record, !.job = NoJob]
  <2>1. slot' = [slot EXCEPT ![i] = t] /\ cache' = cache
    BY <1>2, <1>5 DEF Respond
  <2>2. AnswerSound(answer, executed)
    BY <1>2, <1>3, AnsweringRan DEF AnswerSound
  <2>3. record # 0 <=> job.code = "Result"
    BY <1>2
  <2> HIDE DEF answer
  <2>4. /\ t.answer = answer /\ t.request = slot[i].request /\ t.pending = slot[i].pending /\ t.job = NoJob
        /\ t.pc = "none" /\ t.record = record
    BY DEF Slot
  <2> HIDE DEF t
  <2>5. Answering(t) <=> Answering(slot[i])
    BY <1>3, <2>3, <2>4 DEF Answering
  <2>6. t.pc \notin Executing /\ t.pc \notin Attached
    BY <2>4 DEF Executing, Attached
  <2>7. Answering(t) => RunOf(t) = RunOf(slot[i])
    BY <1>2, <1>3, <2>3, <2>4, <2>5 DEF RunOf
  <2>8. Backed(cache, t, executed)
    BY <2>4, <2>5, <2>6, <2>7, BackedAt DEF Backed
  <2> QED BY <1>1, <1>2, <1>4, <2>1, <2>2, <2>4, <2>5, <2>6, <2>8, TurnStep
<1>6. CASE ~life.running
  <2> DEFINE t == [slot[i] EXCEPT !.pc = "none", !.job = NoJob]
  <2>1. slot' = [slot EXCEPT ![i] = t]
    BY <1>6 DEF Respond
  <2>2. /\ t.answer = slot[i].answer /\ t.request = slot[i].request /\ t.pending = slot[i].pending
        /\ t.job = NoJob /\ t.pc = "none" /\ t.record = slot[i].record
    BY DEF Slot
  <2> HIDE DEF t
  <2>3. Passive(t)
    BY <1>2, <1>4, <2>2 DEF Passive, Answering, Working, Carrying, Attached, Executing
  <2>4. CASE job.code = "Result"
    <3>1. slot'[i] = t /\ \A j \in Instance \ {i} : slot'[j] = slot[j]
        BY <1>4, <2>1
    <3>2. cache' = CompleteDelivery(cache, slot[i].request.id, RunOf(slot[i]), FALSE, now)
        BY <1>2, <1>6, <2>4 DEF Respond, RunOf
    <3>3. /\ Holds(cache', slot', executed)
          /\ \A c \in Client : Unread(c) /\ Memorable(cache.records[wire[c].id], c) =>
                    Memorable(cache'.records[wire[c].id], c)
        BY <1>2, <1>3, <2>3, <2>4, <3>1, <3>2, DeliveryEnds, SlotsSound
    <3>4. \A j \in Instance : slot'[j].answer = slot[j].answer
        BY <2>2, <3>1
    <3> QED BY <1>1, <3>3, <3>4, QuietStep
  <2>5. CASE job.code # "Result"
    <3>1. cache' = cache
        BY <1>6, <2>5 DEF Respond
    <3>2. Backed(cache, t, executed) /\ ~Answering(t) /\ t.pc \notin Executing
        BY <2>2, <2>3, PassiveHolds DEF Passive, Executing
    <3> QED BY <1>1, <1>2, <1>3, <1>4, <2>1, <2>2, <2>5, <3>1, <3>2, TurnStep
  <2> QED BY <2>4, <2>5
<1> QED BY <1>5, <1>6

(* ReleasePending ends the registration; the answer is by now a delivery.  *)
LEMMA ReleasePendingCache ==
    ASSUME IInv, Sound', NEW i \in Instance, ReleasePending(i), UNCHANGED clientVars
    PROVE  CacheInv'
<1> USE SoundOf, At
<1> DEFINE job == [slot[i].job EXCEPT !.pending = FALSE]
           t == [slot[i] EXCEPT !.pc = "responding", !.job = job]
           id == slot[i].request.id
<1>1. slot[i].pc = "answered" /\ UNCHANGED <<client, wire, now, epoch, executed, pipe>>
    BY DEF ReleasePending, clientVars
<1>2. slot[i].job \in Job /\ slot[i].job.request = slot[i].request /\ id \in Id /\ ~slot[i].pending
    BY <1>1, JobOf DEF Working, SlotSound
<1>3. ~job.pending /\ job.code = slot[i].job.code /\ job.run = slot[i].job.run
    BY <1>2 DEF Job
<1>4. slot' = [slot EXCEPT ![i] = t]
  <2>1. slot \in [Instance -> Slot]
    BY DEF Sound, Typed
  <2>2. slot' = [slot EXCEPT ![i].pc = "responding", ![i].job.pending = FALSE]
    BY DEF ReleasePending
  <2> QED BY <1>2, <2>1, <2>2 DEF Slot, Job
<1> HIDE DEF job
<1>5. /\ t.answer = slot[i].answer /\ t.request = slot[i].request /\ t.pending = slot[i].pending
      /\ t.job = job /\ t.pc = "responding" /\ t.record = slot[i].record
    BY DEF Slot
<1> HIDE DEF t
<1>6. Answering(t) <=> Answering(slot[i])
    BY <1>1, <1>3, <1>5 DEF Answering
<1>7. {t.pc, slot[i].pc} \cap (Attached \cup Executing) = {} /\ RunOf(t) = RunOf(slot[i])
    BY <1>1, <1>3, <1>5 DEF RunOf, Attached, Executing
<1>8. CASE ~slot[i].job.pending
  <2>1. cache' = cache
    BY <1>8 DEF ReleasePending
  <2>2. Backed(cache, t, executed)
    BY <1>5, <1>6, <1>7, BackedAt DEF Backed
  <2> QED BY <1>1, <1>2, <1>3, <1>4, <1>5, <1>6, <1>7, <1>8, <2>1, <2>2, TurnStep
<1>9. CASE slot[i].job.pending
  <2>1. cache' = CompletePendingDelivery(cache, id)
    BY <1>2, <1>9 DEF ReleasePending
  <2>2. /\ CacheTyped(cache') /\ cache'.records = cache.records
        /\ cache'.pending = [cache.pending EXCEPT ![id] = Less(cache.pending[id])]
    BY <1>2, <2>1, CompletePendingForm
  <2>3. slot'[i] = t /\ \A j \in Instance \ {i} : slot'[j] = slot[j]
    BY <1>4 DEF Sound, Typed
  <2>4. \A k \in Id : (Registers(slot[i], k) <=> k = id) /\ ~Registers(t, k)
                      /\ (Delivers(t, k) <=> Delivers(slot[i], k)) /\ ~Executes(t, k) /\ ~Executes(slot[i], k)
    BY <1>2, <1>3, <1>5, <1>6, <1>7, <1>9 DEF Registers, Delivers, Executes
  <2>5. cache.pending \in [Id -> Nat] /\ cache.pending[id] # 0
    <3>1. cache.pending \in [Id -> Nat] /\ cache.pending[id] = Cardinality({j \in Instance : Registers(slot[j], id)})
        BY <1>2, BackedAt DEF CacheTyped, Holds, Accounted
    <3> QED BY <1>2, <2>4, <3>1, CountZero
  <2>6. \A k \in Id : cache'.pending[k] + (IF k = id THEN 1 ELSE 0) = cache.pending[k]
    BY <1>2, <2>2, <2>5 DEF Less
  <2>7. ASSUME NEW k \in Id
        PROVE /\ Persists(cache.records[k], cache'.records[k])
              /\ cache'.pending[k] + One(Registers(slot[i], k)) = cache.pending[k] + One(Registers(slot'[i], k))
              /\ IF cache.records[k] = NoRecord
                 THEN cache'.records[k] # NoRecord => RecordStarts(cache'.records[k], slot'[i], executed, k)
                 ELSE RecordMoves(cache.records[k], cache'.records[k], slot[i], slot'[i], k)
              /\ Executes(slot'[i], k) => Executes(slot[i], k) \/ cache.records[k] = NoRecord
    <3>1. cache'.pending[k] + One(Registers(slot[i], k)) = cache.pending[k] + 0
        BY <2>4, <2>5, <2>6 DEF One
    <3>2. One(Registers(slot'[i], k)) = 0 /\ One(Delivers(slot'[i], k)) = One(Delivers(slot[i], k))
        BY <2>3, <2>4 DEF One
    <3> QED BY <2>2, <2>3, <2>4, <3>1, <3>2 DEF Persists, RecordMoves
  <2>8. Backed(cache', t, executed)
    BY <1>5, <1>6, <1>7, <2>2, BackedAt DEF Backed, Recorded
  <2>9. \A r \in Request : executed[r] <= executed[r] /\ (executed[r] > 0 => executed[r] > 0 \/ Recorded(cache', r))
    OBVIOUS
  <2>10. Holds(cache', slot', executed)
    BY <2>2, <2>3, <2>7, <2>8, <2>9, BackedAt, SlotsSound, HoldsStep
  <2>11. \A j \in Instance : slot'[j].answer = slot[j].answer
    BY <1>5, <2>3
  <2> QED BY <1>1, <2>2, <2>10, <2>11, QuietStep
<1> QED BY <1>8, <1>9

LEMMA TakeAnswerCache ==
    ASSUME IInv, Sound', NEW i \in Instance, TakeAnswer(i), UNCHANGED clientVars
    PROVE  CacheInv'
<1> USE SoundOf, At
<1> DEFINE job == [slot[i].job EXCEPT !.code = "Result"]
           t == [slot[i] EXCEPT !.pc = "answered", !.job = job]
           id == slot[i].request.id
           r == cache.records[id]
           q == Claimed(r)
<1>1. slot[i].pc = "waiting" /\ UNCHANGED <<client, wire, now, epoch, executed, pipe>>
    BY DEF TakeAnswer, clientVars
<1>2. slot[i].job \in Job /\ slot[i].job.request = slot[i].request /\ id \in Id /\ slot[i].pc \in Attached
    BY <1>1, JobOf DEF Working, Carrying, Attached
<1>3. job.pending = slot[i].job.pending /\ job.code = "Result" /\ job.run = slot[i].job.run
    BY <1>2 DEF Job
<1>4. slot' = [slot EXCEPT ![i] = t]
  <2>1. slot \in [Instance -> Slot]
    BY DEF Sound, Typed
  <2>2. slot' = [slot EXCEPT ![i].pc = "answered", ![i].job.code = "Result"]
    BY DEF TakeAnswer
  <2> QED BY <1>2, <2>1, <2>2 DEF Slot, Job
<1> HIDE DEF job
<1>5. /\ t.answer = slot[i].answer /\ t.request = slot[i].request /\ t.pending = slot[i].pending
      /\ t.job = job /\ t.pc = "answered" /\ t.record = slot[i].record
    BY DEF Slot
<1> HIDE DEF t
<1>6. slot'[i] = t /\ \A j \in Instance \ {i} : slot'[j] = slot[j]
    BY <1>4 DEF Sound, Typed
<1>7. slot[i].record = 0 /\ ~Answering(slot[i]) /\ Answering(t)
    BY <1>1, <1>3, <1>5, NeedsRequest DEF Answering
<1>8. r # NoRecord /\ r.body = slot[i].request.body /\ r.run = slot[i].job.run /\ r.complete
    BY <1>2, <1>7, BackedAt DEF Backed, Recorded, RunOf, TakeAnswer
<1>9. /\ CacheTyped(cache') /\ cache'.pending = cache.pending
      /\ cache'.records = [cache.records EXCEPT ![id] = q]
      /\ q \in Record /\ q.active = r.active + 1 /\ q.run = r.run /\ q.body = r.body
      /\ q.complete = r.complete /\ q.acknowledged = r.acknowledged /\ q.completed = r.completed
  <2>1. cache' = [cache EXCEPT !.records[id].active = @ + 1]
    BY <1>2 DEF TakeAnswer
  <2>2. CacheTyped(cache) /\ id \in Id /\ cache.records[id] # NoRecord
    BY <1>2, <1>8
  <2> HIDE DEF id
  <2> QED BY ONLY <2>1, <2>2, ClaimForm
<1> HIDE DEF q
<1>10. q # NoRecord /\ cache'.records[id] = q /\ \A k \in Id \ {id} : cache'.records[k] = cache.records[k]
    BY <1>2, <1>9, NoRecordHasNoRun DEF CacheTyped
<1>11. t.pc \notin Attached \cup Executing /\ slot[i].pc \notin Executing
    BY <1>1, <1>5 DEF Attached, Executing
<1>12. Backed(cache', t, executed)
  <2>1. /\ cache'.records[t.request.id] = q /\ q.body = t.request.body /\ RunOf(t) = q.run
        /\ q.complete /\ q # NoRecord
    BY <1>3, <1>5, <1>7, <1>8, <1>9, <1>10 DEF RunOf
  <2> QED BY <1>5, <1>7, <1>11, <2>1 DEF Backed, Recorded
<1>13. ASSUME NEW k \in Id
       PROVE /\ Persists(cache.records[k], cache'.records[k])
             /\ cache'.pending[k] + One(Registers(slot[i], k)) = cache.pending[k] + One(Registers(slot'[i], k))
             /\ IF cache.records[k] = NoRecord
                THEN cache'.records[k] # NoRecord => RecordStarts(cache'.records[k], slot'[i], executed, k)
                ELSE RecordMoves(cache.records[k], cache'.records[k], slot[i], slot'[i], k)
             /\ Executes(slot'[i], k) => Executes(slot[i], k) \/ cache.records[k] = NoRecord
  <2>1. /\ One(Registers(slot'[i], k)) = One(Registers(slot[i], k)) /\ ~Executes(t, k) /\ ~Executes(slot[i], k)
        /\ ~Delivers(slot[i], k) /\ (Delivers(t, k) <=> k = id)
    BY <1>3, <1>5, <1>6, <1>7, <1>11 DEF Registers, Executes, Delivers
  <2>2. CASE k = id
    <3>1. q.active + 0 = r.active + 1
        BY <1>8, <1>9 DEF Record
    <3> QED BY <1>6, <1>8, <1>9, <1>10, <2>1, <2>2, <3>1 DEF Persists, RecordMoves, One
  <2>3. CASE k # id
    BY <1>6, <1>9, <1>10, <2>1, <2>3 DEF Persists, RecordMoves, One
  <2> QED BY <2>2, <2>3
<1>14. \A x \in Request : executed[x] <= executed[x] /\ (executed[x] > 0 => executed[x] > 0 \/ Recorded(cache', x))
    OBVIOUS
<1>15. Holds(cache', slot', executed)
    BY <1>6, <1>9, <1>12, <1>13, <1>14, BackedAt, SlotsSound, HoldsStep
<1>16. \A c \in Client : Memorable(cache.records[wire[c].id], c) => Memorable(cache'.records[wire[c].id], c)
  <2> SUFFICES ASSUME NEW c \in Client, Memorable(cache.records[wire[c].id], c)
               PROVE  Memorable(cache'.records[wire[c].id], c)
    OBVIOUS
  <2>1. CASE wire[c].id = id
    BY <1>9, <1>10, <2>1 DEF Memorable
  <2>2. CASE wire[c].id # id
    BY <1>10, <2>2, ClientId
  <2> QED BY <2>1, <2>2
<1>17. \A j \in Instance : slot'[j].answer = slot[j].answer
    BY <1>5, <1>6
<1> QED BY <1>1, <1>15, <1>16, <1>17, QuietStep

LEMMA HandlerReturnsCache ==
    ASSUME IInv, Sound', NEW i \in Instance, HandlerReturns(i), UNCHANGED clientVars
    PROVE  CacheInv'
<1> USE SoundOf, At
<1> DEFINE job == [slot[i].job EXCEPT !.code = "Result", !.mutation = FALSE]
           t == [slot[i] EXCEPT !.pc = "answered", !.job = job]
           id == slot[i].request.id
           r == cache.records[id]
           q == Completed(r, now)
<1>1. slot[i].pc = "dispatched" /\ UNCHANGED <<client, wire, now, epoch, executed, pipe>>
    BY DEF HandlerReturns, clientVars
<1>2. /\ slot[i].job \in Job /\ slot[i].job.request = slot[i].request /\ id \in Id
      /\ slot[i].pc \in Attached /\ slot[i].pc \in Executing
    BY <1>1, JobOf DEF Working, Carrying, Attached, Executing
<1>3. job.pending = slot[i].job.pending /\ job.code = "Result" /\ job.run = slot[i].job.run
    BY <1>2 DEF Job
<1>4. slot' = [slot EXCEPT ![i] = t]
  <2>1. slot \in [Instance -> Slot]
    BY DEF Sound, Typed
  <2>2. slot' = [slot EXCEPT ![i].pc = "answered", ![i].job.code = "Result", ![i].job.mutation = FALSE]
    BY DEF HandlerReturns
  <2> QED BY <1>2, <2>1, <2>2 DEF Slot, Job
<1> HIDE DEF job
<1>5. /\ t.answer = slot[i].answer /\ t.request = slot[i].request /\ t.pending = slot[i].pending
      /\ t.job = job /\ t.pc = "answered" /\ t.record = slot[i].record
    BY DEF Slot
<1> HIDE DEF t
<1>6. slot'[i] = t /\ \A j \in Instance \ {i} : slot'[j] = slot[j]
    BY <1>4 DEF Sound, Typed
<1>7. slot[i].record = 0 /\ ~Answering(slot[i]) /\ Answering(t)
    BY <1>1, <1>3, <1>5, NeedsRequest DEF Answering
<1>8. r # NoRecord /\ r.body = slot[i].request.body /\ r.run = slot[i].job.run /\ ~r.complete
    BY <1>2, <1>7, BackedAt DEF Backed, Recorded, RunOf
<1>9. r \in Record /\ now \in Nat
    BY <1>2, <1>8, NoRecordHasNoRun DEF CacheTyped
<1>10. /\ cache'.pending = cache.pending
       /\ cache'.records[id] = Pruned(q, cache.pending[id], now)
       /\ \A k \in Id \ {id} : cache'.records[k] = Pruned(cache.records[k], cache.pending[k], now)
  <2>1. cache' = CompleteRecord(cache, id, cache.records[id].run, now)
    BY <1>2, <1>8 DEF HandlerReturns
  <2> QED BY <1>2, <1>8, <1>9, <2>1, CompleteRecordForm
<1>11. /\ q \in Record /\ q.run = r.run /\ q.body = r.body /\ q.complete /\ q.active = r.active + 1
       /\ q.acknowledged = r.acknowledged /\ q.completed = now /\ q # NoRecord
  <2> HIDE DEF r
  <2>1. q \in Record => q # NoRecord
    BY NoRecordHasNoRun
  <2> QED BY <1>9, <2>1, CompletedForm
<1> HIDE DEF q
<1>12. t.pc \notin Attached \cup Executing
    BY <1>5 DEF Attached, Executing
<1>13. \A k : /\ Registers(slot[i], k) <=> Registers(t, k)
              /\ ~Delivers(slot[i], k) /\ (Delivers(t, k) <=> k = id)
              /\ ~Executes(t, k) /\ (Executes(slot[i], k) <=> k = id)
    BY <1>2, <1>3, <1>5, <1>7, <1>12 DEF Registers, Delivers, Executes
<1>14. Persists(r, q) /\ RecordMoves(r, q, slot[i], slot'[i], id)
  <2>1. q.active + 0 = r.active + 1
    BY <1>9, <1>11 DEF Record
  <2> QED BY <1>6, <1>8, <1>11, <1>13, <2>1 DEF Persists, RecordMoves, One
<1>15. Backed([cache EXCEPT !.records = [cache.records EXCEPT ![id] = q]], slot'[i], executed)
  <2> DEFINE e == [cache EXCEPT !.records = [cache.records EXCEPT ![id] = q]]
  <2>1. e.records[id] = q
    BY <1>2 DEF CacheTyped
  <2> HIDE DEF e
  <2>2. Backed(e, t, executed)
    BY <1>3, <1>5, <1>7, <1>8, <1>11, <1>12, <2>1 DEF Backed, Recorded, RunOf
  <2> QED BY <1>6, <2>2 DEF e
<1>16. \A c \in Client : wire[c].id = id /\ Unread(c) /\ Memorable(r, c) => Memorable(q, c)
  <2> SUFFICES ASSUME NEW c \in Client, Unread(c), Memorable(r, c) PROVE Memorable(q, c)
    OBVIOUS
  <2>1. client[c].pc # "idle"
    BY CallOf DEF Unread, ClientSound
  <2>2. client[c].deadline <= now + OverallTimeout
    BY <2>1, CallOf DEF ClientSound
  <2> QED BY <1>11, <2>2 DEF Memorable
<1>17. Slots(slot') /\ \A j \in Instance \ {i} : slot'[j] = slot[j]
    BY <1>6, SlotsSound
<1>18. cache.records[id] # NoRecord /\ r = cache.records[id]
    BY <1>8
<1> HIDE DEF r, id
<1>19. /\ Holds(cache', slot', executed)
       /\ \A c \in Client : Unread(c) /\ Memorable(cache.records[wire[c].id], c) =>
                Memorable(cache'.records[wire[c].id], c)
    BY <1>2, <1>6, <1>10, <1>11, <1>13, <1>14, <1>15, <1>16, <1>17, <1>18, RecordStep
<1>20. \A j \in Instance : slot'[j].answer = slot[j].answer
    BY <1>5, <1>6
<1> QED BY <1>1, <1>19, <1>20, QuietStep

-----------------------------------------------------------------------------
(* ExecuteOnce.                                                            *)

(* ExecuteOnce finds a request that ran: the registration has kept its     *)
(* record from being dropped, before this step and in it.                  *)
LEMMA RanIsFound ==
    ASSUME NEW C, NEW E, NEW s, Backed(C, s, E), s.pc = "begun", C.records[s.request.id] = NoRecord
    PROVE  ~(E[s.request] > 0)
BY DEF Backed, Recorded

(* The slot is answered with a code of the server's own or waits for the   *)
(* record it found; the cache dropped only what nobody needs.              *)
LEMMA NotExecuted ==
    ASSUME IInv, Sound', NEW i \in Instance, slot[i].pc = "begun", NEW pc, NEW job \in Job,
           slot' = [slot EXCEPT ![i].pc = pc, ![i].job = job], job.pending = slot[i].job.pending,
           \/ pc = "answered" /\ job.code # "Result"
           \/ pc = "waiting" /\ Recorded(cache', slot[i].request)
              /\ cache'.records[slot[i].request.id].run = job.run,
           Holds(cache', slot, executed),
           \A c \in Client : Unread(c) /\ Memorable(cache.records[wire[c].id], c)
                                => Memorable(cache'.records[wire[c].id], c),
           UNCHANGED <<client, wire, now, epoch, executed, pipe>>
    PROVE  CacheInv'
<1> USE SoundOf, At
<1> DEFINE t == [slot[i] EXCEPT !.pc = pc, !.job = job]
<1>1. /\ t.answer = slot[i].answer /\ t.request = slot[i].request /\ t.pending = slot[i].pending
      /\ t.job = job /\ t.pc = pc /\ t.record = slot[i].record
    BY DEF Slot
<1>2. slot'[i] = t /\ \A j \in Instance \ {i} : slot'[j] = slot[j]
    BY DEF Sound, Typed
<1> HIDE DEF t
<1>3. slot[i].record = 0 /\ ~Answering(slot[i]) /\ ~Answering(t) /\ RunOf(t) = job.run
    BY <1>1, NeedsRequest DEF Answering, RunOf
<1>4. t.pc \notin Executing /\ slot[i].pc \notin Executing /\ t.pc \notin {"queued", "begun"}
    BY <1>1 DEF Executing
<1>5. Backed(cache', t, executed)
    BY <1>1, <1>3, <1>4 DEF Backed, Attached, Executing
<1>6. \A j \in Instance : /\ Backed(cache', slot'[j], executed)
                          /\ \A id \in Id : /\ Registers(slot'[j], id) <=> Registers(slot[j], id)
                                            /\ Delivers(slot'[j], id) <=> Delivers(slot[j], id)
                                            /\ Executes(slot'[j], id) <=> Executes(slot[j], id)
    BY <1>1, <1>2, <1>3, <1>4, <1>5 DEF Holds, Registers, Delivers, Executes
<1>7. Holds(cache', slot', executed)
    BY <1>6, SlotsHold
<1>8. \A j \in Instance : slot'[j].answer = slot[j].answer
    BY <1>1, <1>2
<1> QED BY <1>7, <1>8, QuietStep

(* A request is executed: it has not been before, and the record that will *)
(* keep it from being executed again is in place.                          *)
LEMMA Executed ==
    ASSUME IInv, Sound', NEW i \in Instance, NEW C, CacheTyped(C), slot[i].pc = "begun",
           Holds(C, slot, executed), C.records[slot[i].request.id] = NoRecord,
           \A c \in Client : Unread(c) /\ Memorable(cache.records[wire[c].id], c)
                                => Memorable(C.records[wire[c].id], c),
           NEW run \in Nat \ {0}, cache' = NewRecord(C, slot[i].request, run),
           NEW job \in Job, job.run = run, job.pending = slot[i].job.pending,
           slot' = [slot EXCEPT ![i].pc = "handling", ![i].job = job],
           executed' = [executed EXCEPT ![slot[i].request] = executed[slot[i].request] + 1],
           UNCHANGED <<client, wire, now, epoch, pipe>>
    PROVE  CacheInv'
<1> USE SoundOf, At
<1> DEFINE t == [slot[i] EXCEPT !.pc = "handling", !.job = job]
           request == slot[i].request
           id == slot[i].request.id
           q == cache'.records[id]
<1>1. /\ t.answer = slot[i].answer /\ t.request = slot[i].request /\ t.pending = slot[i].pending
      /\ t.job = job /\ t.pc = "handling" /\ t.record = slot[i].record
    BY DEF Slot
<1>2. slot'[i] = t /\ \A j \in Instance \ {i} : slot'[j] = slot[j]
    BY DEF Sound, Typed
<1> HIDE DEF t
<1>3. request \in Request /\ id \in Id
    BY NeedsRequest DEF Working, Carrying
<1>4. slot[i].record = 0 /\ ~Answering(slot[i]) /\ ~Answering(t) /\ RunOf(t) = run
    BY <1>1, NeedsRequest DEF Answering, RunOf
<1>5. t.pc \in Executing /\ t.pc \in Attached /\ slot[i].pc \notin Executing
    BY <1>1 DEF Executing, Attached
<1>6. executed[request] = 0
  <2>1. Backed(C, slot[i], executed) /\ executed[request] \in Nat
    BY <1>3 DEF Holds
  <2> QED BY <2>1, RanIsFound
<1>7. /\ CacheTyped(cache') /\ cache'.pending = C.pending /\ q \in Record /\ q.run = run
      /\ q.body = request.body /\ ~q.complete /\ ~q.acknowledged /\ q.active = 0
      /\ \A k \in Id \ {id} : cache'.records[k] = C.records[k]
  <2> HIDE DEF request
  <2>1. cache' = NewRecord(C, request, run) /\ id = request.id
    BY DEF request
  <2> QED BY <1>3, <2>1, NewRecordForm
<1>8. q # NoRecord
    BY <1>7, NoRecordHasNoRun
<1> HIDE DEF q
<1>9. executed' \in [Request -> Nat] /\ executed'[request] = 1 /\ \A r \in Request \ {request} : executed'[r] = executed[r]
    BY <1>3, <1>6
<1>10. Recorded(cache', request)
    BY <1>7, <1>8 DEF Recorded, q
<1>11. Backed(cache', t, executed')
  <2>1. cache'.records[t.request.id] = q
    BY <1>1 DEF q
  <2> QED BY <1>1, <1>4, <1>5, <1>7, <1>10, <2>1 DEF Backed
<1>12. ASSUME NEW k \in Id
       PROVE /\ Persists(C.records[k], cache'.records[k])
             /\ cache'.pending[k] + One(Registers(slot[i], k)) = C.pending[k] + One(Registers(slot'[i], k))
             /\ IF C.records[k] = NoRecord
                THEN cache'.records[k] # NoRecord => RecordStarts(cache'.records[k], slot'[i], executed', k)
                ELSE RecordMoves(C.records[k], cache'.records[k], slot[i], slot'[i], k)
             /\ Executes(slot'[i], k) => Executes(slot[i], k) \/ C.records[k] = NoRecord
  <2>1. /\ One(Registers(slot'[i], k)) = One(Registers(slot[i], k)) /\ ~Executes(slot[i], k)
        /\ ~Delivers(slot[i], k) /\ ~Delivers(t, k) /\ (Executes(t, k) <=> k = id)
    BY <1>1, <1>2, <1>4, <1>5 DEF Registers, Executes, Delivers
  <2>2. CASE k = id
    <3>1. request = [id |-> id, body |-> q.body]
        BY <1>3, <1>7 DEF Request
    <3>2. executed'[[id |-> id, body |-> q.body]] > 0
        BY <1>9, <3>1
    <3>3. RecordStarts(q, t, executed', k)
        BY <1>7, <2>1, <2>2, <3>2 DEF RecordStarts
    <3> QED BY <1>2, <1>7, <2>1, <2>2, <3>3 DEF Persists, q
  <2>3. CASE k # id
    <3>1. cache'.records[k] = C.records[k] /\ ~Executes(t, k)
        BY <1>7, <2>1, <2>3
    <3> QED BY <1>2, <1>7, <2>1, <3>1 DEF Persists, RecordMoves, One
  <2> QED BY <2>2, <2>3
<1>13. ASSUME NEW r \in Request PROVE executed[r] <= executed'[r] /\ (executed'[r] > 0 => executed[r] > 0 \/ Recorded(cache', r))
  <2>1. executed[r] \in Nat
    OBVIOUS
  <2> QED BY <1>6, <1>9, <1>10, <2>1
<1>14. Holds(cache', slot', executed')
  <2>1. Slots(slot) /\ Slots(slot') /\ executed \in [Request -> Nat] /\ Backed(cache', slot'[i], executed')
    BY <1>2, <1>11, SlotsSound
  <2>2. CacheTyped(C) /\ CacheTyped(cache') /\ Holds(C, slot, executed) /\ executed' \in [Request -> Nat]
    BY <1>7, <1>9
  <2>3. \A r \in Request : executed[r] <= executed'[r] /\ (executed'[r] > 0 => executed[r] > 0 \/ Recorded(cache', r))
    BY <1>13
  <2>4. i \in Instance /\ \A j \in Instance \ {i} : slot'[j] = slot[j]
    BY <1>2
  <2> QED BY ONLY <1>12, <2>1, <2>2, <2>3, <2>4, HoldsStep
<1>15. \A c \in Client : Remembers(cache, executed, c)'
  <2> SUFFICES ASSUME NEW c \in Client, executed'[wire[c]] > 0, Unread(c)
               PROVE  Memorable(cache'.records[wire[c].id], c)
    BY DEF Remembers, Memorable, Unread
  <2>1. CASE wire[c] = request
    <3>1. cache'.records[wire[c].id] = q
        BY <2>1 DEF q
    <3> QED BY <1>7, <1>8, <2>1, <3>1 DEF Memorable
  <2>2. CASE wire[c] # request
    <3>1. executed[wire[c]] > 0
        BY <1>9, <2>2, ClientId
    <3>2. Memorable(C.records[wire[c].id], c)
        BY <3>1 DEF CacheInv, Remembers
    <3>3. wire[c].id \in Id /\ wire[c].id # id
        BY <3>2, ClientId DEF Memorable
    <3> QED BY <1>7, <3>2, <3>3
  <2> QED BY <2>1, <2>2
<1>16. CommandsRunAtMostOnce'
  <2>1. \A r \in Request : executed'[r] <= 1
    BY <1>9 DEF CacheInv, CommandsRunAtMostOnce
  <2> QED BY <2>1 DEF CommandsRunAtMostOnce
<1>17. Sent'
  <2> SUFFICES ASSUME NEW c \in Client, client[c].expected = NoServer PROVE executed'[wire[c]] = 0
    BY DEF Sent
  <2>1. slot[i].phase = "RunningHandler"
    BY WorkingPhase DEF Working, Carrying
  <2>2. pipe[i].client \in Client /\ request = wire[pipe[i].client]
    BY <2>1 DEF Linked, Served
  <2>3. client[pipe[i].client].expected # NoServer
    BY <2>2, CallOf DEF ClientSound
  <2>4. wire[c] # request
    BY <2>2, <2>3 DEF Sound, Distinct
  <2> QED BY <1>9, <2>4, ClientId DEF CacheInv, Sent
<1>18. Answers'
  <2>1. ASSUME NEW a \in Answer \cup {NoAnswer}, AnswerSound(a, executed) PROVE AnswerSound(a, executed')
    <3> SUFFICES ASSUME a # NoAnswer, a.code = "Result" PROVE executed'[a.request] > 0
        BY DEF AnswerSound
    <3>1. a.request \in Request /\ executed[a.request] > 0
        BY <2>1 DEF Answer, AnswerSound
    <3> QED BY <1>9, <3>1
  <2>2. \A j \in Instance : slot'[j].answer = slot[j].answer /\ slot[j].answer \in Answer \cup {NoAnswer}
                            /\ pipe[j].answer \in Answer \cup {NoAnswer}
    BY <1>1, <1>2 DEF Slot, Pipe
  <2>3. \A c \in Client : client[c].answer \in Answer \cup {NoAnswer}
    BY CallOf DEF CallState
  <2> QED BY <2>1, <2>2, <2>3 DEF CacheInv, Answers
<1> QED BY <1>14, <1>15, <1>16, <1>17, <1>18 DEF CacheInv

LEMMA ExecuteOnceCache ==
    ASSUME IInv, Sound', NEW i \in Instance, ExecuteOnce(i), UNCHANGED clientVars
    PROVE  CacheInv'
<1> USE SoundOf, At
<1> DEFINE request == slot[i].request
           pruned == PruneRequestRecords(cache, now)
           existing == pruned.records[request.id]
           run == executed[request] + 1
<1>1. /\ slot[i].pc = "begun" /\ slot[i].job \in Job /\ slot[i].job.request = request
      /\ request \in Request /\ request.id \in Id /\ UNCHANGED <<client, wire, now, epoch, pipe>>
    BY JobOf DEF ExecuteOnce, Working, Carrying, clientVars
<1>2. run \in Nat \ {0} /\ slot \in [Instance -> Slot]
    BY <1>1 DEF Sound, Typed
<1>3. /\ CacheTyped(pruned) /\ pruned.pending = cache.pending
      /\ \A id \in Id : pruned.records[id] = Pruned(cache.records[id], cache.pending[id], now)
    BY PruneForm
<1> HIDE DEF pruned
<1>4. /\ Holds(pruned, slot, executed)
      /\ \A c \in Client : Unread(c) /\ Memorable(cache.records[wire[c].id], c) =>
                Memorable(pruned.records[wire[c].id], c)
  <2>1. Slots(slot) /\ Holds(cache, slot, executed) /\ CacheTyped(cache)
    BY SlotsSound, BackedAt
  <2> QED BY <1>3, <2>1, PrunedHolds
<1>5. ASSUME NEW code \in ServerCode, ReturnCode(i, code)
      PROVE  /\ \E job \in Job : /\ job.pending = slot[i].job.pending /\ job.code # "Result"
                                 /\ slot' = [slot EXCEPT ![i].pc = "answered", ![i].job = job]
             /\ slot'[i].pc = "answered"
  <2> DEFINE job == [slot[i].job EXCEPT !.code = code]
  <2>1. job \in Job /\ job.pending = slot[i].job.pending /\ job.code # "Result"
    BY <1>1 DEF Job, ServerCode
  <2>2. slot' = [slot EXCEPT ![i].pc = "answered", ![i].job = job]
    BY <1>2, <1>5 DEF ReturnCode, Slot
  <2>3. slot'[i].pc = "answered"
    BY <1>2, <2>2 DEF Slot
  <2> QED BY <2>1, <2>2, <2>3
<1>6. ASSUME NEW pc \in {"waiting", "handling"}, NEW n \in Nat \ {0},
             slot' = [slot EXCEPT ![i].pc = pc, ![i].job.run = n]
      PROVE  /\ \E job \in Job : /\ job.pending = slot[i].job.pending /\ job.run = n
                                 /\ slot' = [slot EXCEPT ![i].pc = pc, ![i].job = job]
             /\ slot'[i].pc = pc
  <2> DEFINE job == [slot[i].job EXCEPT !.run = n]
  <2>1. job \in Job /\ job.pending = slot[i].job.pending /\ job.run = n
    BY <1>1 DEF Job
  <2>2. slot' = [slot EXCEPT ![i].pc = pc, ![i].job = job]
    BY <1>2, <1>6 DEF Slot
  <2>3. slot'[i].pc = pc
    BY <1>2, <2>2 DEF Slot
  <2> QED BY <2>1, <2>2, <2>3
<1>7. CASE existing # NoRecord
  <2>1. cache' = pruned
    BY <1>1, <1>7 DEF ExecuteOnce, pruned
  <2>2. existing.run \in Nat \ {0}
    BY <1>1, <1>3, <1>7, NoRecordHasNoRun DEF CacheTyped, Record
  <2>3. CASE existing.body # request.body
    <3>1. ReturnCode(i, "InvalidRequest") /\ "InvalidRequest" \in ServerCode
        BY <1>1, <1>7, <2>3 DEF ExecuteOnce, pruned, ServerCode
    <3>2. PICK job \in Job : /\ job.pending = slot[i].job.pending /\ job.code # "Result"
                             /\ slot' = [slot EXCEPT ![i].pc = "answered", ![i].job = job]
        BY <1>5, <3>1
    <3>3. executed' = executed
        BY <1>5, <3>1 DEF ExecuteOnce
    <3> QED BY <1>1, <1>4, <2>1, <3>2, <3>3, NotExecuted
  <2>4. CASE existing.body = request.body
    <3>1. slot' = [slot EXCEPT ![i].pc = "waiting", ![i].job.run = existing.run]
        BY <1>1, <1>7, <2>4 DEF ExecuteOnce, pruned
    <3>2. PICK job \in Job : /\ job.pending = slot[i].job.pending /\ job.run = existing.run
                             /\ slot' = [slot EXCEPT ![i].pc = "waiting", ![i].job = job]
        BY <1>6, <2>2, <3>1
    <3>3. executed' = executed
      <4>1. slot'[i].pc = "waiting"
          BY <1>6, <2>2, <3>1
      <4> QED BY <4>1 DEF ExecuteOnce
    <3>4. Recorded(cache', slot[i].request) /\ cache'.records[slot[i].request.id].run = job.run
        BY <1>7, <2>1, <2>4, <3>2 DEF Recorded
    <3> HIDE DEF request, existing
    <3> QED BY <1>1, <1>4, <2>1, <3>2, <3>3, <3>4, NotExecuted
  <2> QED BY <2>3, <2>4
<1>8. CASE existing = NoRecord
  <2>1. PICK gone \in Evictions(pruned) :
            LET roomy == Without(pruned, gone)
            IN IF LacksCapacity(roomy) THEN cache' = roomy /\ ReturnCode(i, "Busy")
               ELSE /\ cache' = NewRecord(roomy, request, run)
                    /\ slot' = [slot EXCEPT ![i].pc = "handling", ![i].job.run = run]
    BY <1>1, <1>8 DEF ExecuteOnce, pruned
  <2> DEFINE roomy == Without(pruned, gone)
  <2>2. /\ CacheTyped(roomy) /\ roomy.pending = pruned.pending
        /\ \A id \in Id : \/ roomy.records[id] = pruned.records[id]
                          \/ /\ roomy.records[id] = NoRecord
                             /\ Idle(pruned.records[id], pruned.pending[id]) /\ pruned.records[id].acknowledged
    BY <1>3, EvictionForm
  <2>3. \/ cache' = roomy /\ ReturnCode(i, "Busy")
        \/ /\ cache' = NewRecord(roomy, request, run)
           /\ slot' = [slot EXCEPT ![i].pc = "handling", ![i].job.run = run]
    BY <2>1
  <2> HIDE DEF roomy
  <2>4. Holds(roomy, slot, executed)
    <3>1. Slots(slot)
        BY SlotsSound
    <3> QED BY <1>3, <1>4, <2>2, <3>1, PruneHolds
  <2>5. \A c \in Client : Unread(c) /\ Memorable(cache.records[wire[c].id], c) =>
                Memorable(roomy.records[wire[c].id], c)
    BY <1>4, <2>2, ClientId DEF Memorable
  <2>6. CASE cache' = roomy /\ ReturnCode(i, "Busy")
    <3>1. "Busy" \in ServerCode
        BY DEF ServerCode
    <3>2. PICK job \in Job : /\ job.pending = slot[i].job.pending /\ job.code # "Result"
                             /\ slot' = [slot EXCEPT ![i].pc = "answered", ![i].job = job]
        BY <1>5, <2>6, <3>1
    <3>3. executed' = executed
        BY <1>5, <2>6, <3>1 DEF ExecuteOnce
    <3> QED BY <1>1, <2>4, <2>5, <2>6, <3>2, <3>3, NotExecuted
  <2>7. CASE /\ cache' = NewRecord(roomy, request, run)
             /\ slot' = [slot EXCEPT ![i].pc = "handling", ![i].job.run = run]
    <3>1. PICK job \in Job : /\ job.pending = slot[i].job.pending /\ job.run = run
                             /\ slot' = [slot EXCEPT ![i].pc = "handling", ![i].job = job]
        BY <1>2, <1>6, <2>7
    <3>2. executed' = [executed EXCEPT ![slot[i].request] = executed[slot[i].request] + 1]
        BY <1>1, <1>2, <1>6, <2>7 DEF ExecuteOnce
    <3>3. roomy.records[slot[i].request.id] = NoRecord
        BY <1>1, <1>8, <2>2
    <3> HIDE DEF run, existing
    <3> QED BY <1>1, <1>2, <2>2, <2>4, <2>5, <2>7, <3>1, <3>2, <3>3, Executed
  <2> QED BY <2>3, <2>6, <2>7
<1> QED BY <1>7, <1>8

-----------------------------------------------------------------------------
(* The end of a server and of its process.                                 *)

LEMMA NewSlots ==
    ASSUME NEW C, NEW S, NEW E, \A j \in Instance : S[j] = NewSlot(FALSE),
           \A id \in Id : /\ C.pending[id] = 0
                          /\ C.records[id] # NoRecord =>
                                /\ C.records[id].active = 0 /\ C.records[id].complete
                                /\ E[[id |-> id, body |-> C.records[id].body]] > 0
    PROVE  Holds(C, S, E)
<1>1. Passive(NewSlot(FALSE))
    BY DEF Passive, NewSlot, NoJob, Answering, Working, Carrying, Attached, Executing
<1>2. \A j \in Instance : /\ Backed(C, S[j], E)
                          /\ \A id : ~Registers(S[j], id) /\ ~Delivers(S[j], id) /\ ~Executes(S[j], id)
    BY <1>1, PassiveHolds
<1>3. \A id \in Id : /\ {j \in Instance : Registers(S[j], id)} = {}
                     /\ {j \in Instance : Delivers(S[j], id)} = {}
    BY <1>2
<1>4. \A id \in Id : Accounted(C, S, id)
    BY <1>3, FS_EmptySet DEF Accounted
<1> QED BY <1>2, <1>4 DEF Holds, RecordSound, OneExecutor

(* A drained server has finished every execution: Stop forgets no command  *)
(* that ran.                                                               *)
LEMMA StopDrainedCache ==
    ASSUME IInv, Sound', StopDrained, UNCHANGED clientVars
    PROVE  CacheInv'
<1> USE SoundOf
<1>1. /\ UNCHANGED <<client, wire, now, epoch, executed>> /\ cache' = StopCache(cache)
      /\ \A i \in Instance : slot'[i] = NewSlot(FALSE) /\ pipe'[i] = AbsentPipe
    BY DEF StopDrained, clientVars
<1>2. CacheTyped(cache) /\ Holds(cache, slot, executed)
    BY DEF Sound, Typed, CacheInv
<1>3. /\ cache'.pending = [id \in Id |-> 0]
      /\ \A id \in Id : cache'.records[id] =
            IF cache.records[id] # NoRecord /\ cache.records[id].complete
            THEN Settled(cache.records[id]) ELSE NoRecord
    BY <1>1, <1>2, StopCacheForm
<1>4. ASSUME NEW id \in Id, cache.records[id] # NoRecord
      PROVE  LET r == cache.records[id] q == cache'.records[id]
             IN /\ q \in Record /\ q # NoRecord /\ q.active = 0 /\ q.body = r.body /\ q.complete /\ r.complete
                /\ q.acknowledged = r.acknowledged /\ q.completed = r.completed
                /\ executed[[id |-> id, body |-> r.body]] > 0
  <2>1. RecordSound(cache, slot, executed, id) /\ cache.records[id] \in Record
    BY <1>2, <1>4, NoRecordHasNoRun DEF Holds, CacheTyped
  <2>2. cache.records[id].complete
    BY <1>4, <2>1 DEF RecordSound, Executes, Executing, StopDrained, Drained
  <2>3. cache'.records[id] = Settled(cache.records[id])
    BY <1>3, <1>4, <2>2
  <2>4. cache'.records[id] # NoRecord
    BY <2>1, <2>3, SettledForm, NoRecordHasNoRun
  <2> QED BY <1>4, <2>1, <2>2, <2>3, <2>4, SettledForm DEF RecordSound
<1>5. Holds(cache', slot', executed)
  <2>1. ASSUME NEW id \in Id
        PROVE  /\ cache'.pending[id] = 0
               /\ cache'.records[id] # NoRecord =>
                    /\ cache'.records[id].active = 0 /\ cache'.records[id].complete
                    /\ executed[[id |-> id, body |-> cache'.records[id].body]] > 0
    BY <1>3, <1>4
  <2> QED BY <1>1, <2>1, NewSlots
<1>6. \A c \in Client : Memorable(cache.records[wire[c].id], c) => Memorable(cache'.records[wire[c].id], c)
    BY <1>4, ClientId DEF Memorable
<1>7. \A i \in Instance : pipe'[i].request = NoRequest /\ pipe'[i].answer = NoAnswer /\ slot'[i].answer = NoAnswer
    BY <1>1 DEF NewSlot, AbsentPipe
<1> QED BY <1>1, <1>5, <1>6, <1>7, QuietStep

(* A replay is bound to the process that may have run the command.         *)
LEMMA CrashCache ==
    ASSUME IInv, Sound', Crash, UNCHANGED clientVars
    PROVE  CacheInv'
<1> USE SoundOf
<1>1. /\ UNCHANGED <<client, wire, now, executed>> /\ cache' = EmptyCache /\ epoch' = epoch + 1
      /\ \A i \in Instance : slot'[i] = NewSlot(FALSE) /\ pipe'[i] = AbsentPipe
    BY DEF Crash, clientVars
<1>2. Holds(cache', slot', executed)
  <2>1. \A id \in Id : cache'.pending[id] = 0 /\ cache'.records[id] = NoRecord
    BY <1>1 DEF EmptyCache
  <2> QED BY <1>1, <2>1, NewSlots
<1>3. \A i \in Instance : pipe'[i].request = NoRequest /\ pipe'[i].answer = NoAnswer /\ slot'[i].answer = NoAnswer
    BY <1>1 DEF NewSlot, AbsentPipe
<1>4. ASSUME NEW c \in Client PROVE ~Unread(c)'
  <2>1. client[c].expected <= epoch /\ client[c].expected \in Nat /\ epoch \in Nat /\ wire[c] # NoRequest
    BY CallOf, PipeAssumption DEF ClientSound, CallState
  <2>2. client'[c].expected # epoch'
    BY <1>1, <2>1
  <2> QED BY <1>1, <1>3, <2>1, <2>2 DEF Unread
<1>5. \A c \in Client : Remembers(cache, executed, c)'
    BY <1>4 DEF Remembers
<1>6. CommandsRunAtMostOnce' /\ Sent'
    BY <1>1 DEF CacheInv, CommandsRunAtMostOnce, Sent
<1>7. Answers'
    BY <1>1, <1>3 DEF CacheInv, Answers, AnswerSound
<1> QED BY <1>1, <1>2, <1>5, <1>6, <1>7 DEF CacheInv

LEMMA ServerStepCache ==
    ASSUME IInv, Sound', ServerStep
    PROVE  CacheInv'
<1>1. Server /\ UNCHANGED clientVars
    BY DEF ServerStep
<1>2. CASE LifeCycle
  <2>1. CASE Start \/ OnStartRetry \/ CreatePipesFails \/ RequestStop \/ Stop \/ RequestTokenStop
    <3>1. UNCHANGED <<client, wire, now, epoch, executed, cache, slot, pipe>>
        BY <1>1, <2>1 DEF Start, OnStartRetry, CreatePipesFails, RequestStop, Stop, RequestTokenStop, clientVars
    <3> QED BY <3>1, LifeStepCache
  <2> QED BY <1>1, <1>2, <2>1, CreatePipesCache, InstallPipesCache, StopDrainedCache, CrashCache
          DEF LifeCycle
<1>3. CASE OnRequestPrune
    BY <1>1, <1>3, OnRequestPruneCache
<1>4. ASSUME NEW i \in Instance, Connection(i) PROVE CacheInv'
    BY <1>1, <1>4, OnRearmReadyCache, DetachPipeCache, RecreatePipeInstanceCache, ClientConnectedCache,
       HandleConnectedInstanceCache, TransferFailsCache, DispatchRequestCache, WriteResponseCache,
       ReadAcknowledgementCache DEF Connection
<1>5. ASSUME NEW i \in Instance, Handling(i) PROVE CacheInv'
  <2>1. CASE StopInHandler(i)
    <3>1. UNCHANGED <<client, wire, now, epoch, executed, cache, slot, pipe>>
        BY <1>1, <2>1 DEF StopInHandler, clientVars
    <3> QED BY <3>1, LifeStepCache
  <2> QED BY <1>1, <1>5, <2>1, HandlerBeginsCache, ApartmentUnavailableCache, ExecuteOnceCache, TakeAnswerCache,
             StopWaitingCache, HandleCache, HandlerReturnsCache, ReleasePendingCache, RespondCache
          DEF Handling
<1> QED BY <1>1, <1>2, <1>3, <1>4, <1>5 DEF Server


-----------------------------------------------------------------------------
(* The steps of the clients.                                               *)

(* The cache remembers what it remembered if a client's step lets no copy  *)
(* of a request that ran arrive that could not arrive before.              *)
LEMMA CallCache ==
    ASSUME IInv, NEW c \in Client, NEW d, client' = [client EXCEPT ![c] = d],
           UNCHANGED <<wire, epoch, now, serverVars>>,
           \A i \in Instance : /\ pipe'[i].answer = pipe[i].answer
                               /\ pipe'[i].request \in {pipe[i].request, wire[c]},
           AnswerSound(d.answer, executed),
           executed[wire[c]] > 0 /\ Unread(c)' => Unread(c) /\ d.deadline = client[c].deadline,
           d.expected = NoServer => client[c].expected = NoServer
    PROVE  CacheInv'
<1>1. /\ Sound /\ CacheInv /\ client'[c] = d /\ \A e \in Client \ {c} : client'[e] = client[e]
      /\ UNCHANGED <<slot, cache, executed>>
    BY SoundOf, CallOf DEF serverVars, Sound, Typed
<1>2. Holds(cache', slot', executed') /\ CommandsRunAtMostOnce'
    BY <1>1 DEF CacheInv, CommandsRunAtMostOnce
<1>3. ASSUME NEW e \in Client PROVE Remembers(cache, executed, e)'
  <2>1. Remembers(cache, executed, e)
    BY <1>1 DEF CacheInv
  <2>2. executed[wire[e]] > 0 /\ Unread(e)' => Unread(e) /\ client'[e].deadline = client[e].deadline
    <3>1. CASE e = c
        BY <1>1, <3>1
    <3>2. CASE e # c
      <4>1. wire[e] # wire[c]
          BY <1>1, <3>2 DEF Sound, Distinct
      <4>2. \A i \in Instance : pipe'[i].request = wire[e] => pipe[i].request = wire[e]
          BY <4>1
      <4> QED BY <1>1, <3>2, <4>2 DEF Unread
    <3> QED BY <3>1, <3>2
  <2> QED BY <1>1, <2>1, <2>2 DEF Remembers, Memorable
<1>4. Sent'
    BY <1>1 DEF CacheInv, Sent
<1>5. Answers'
    BY <1>1 DEF CacheInv, Answers
<1> QED BY <1>2, <1>3, <1>4, <1>5 DEF CacheInv

(* A client's own answer, and its deadlines.                               *)
LEMMA AnswerOf ==
    ASSUME IInv, NEW c \in Client
    PROVE  /\ AnswerSound(client[c].answer, executed)
           /\ \A i \in Instance : AnswerSound(pipe[i].answer, executed)
           /\ client[c].expected = NoServer => executed[wire[c]] = 0
           /\ client[c] \in CallState /\ ClientSound(c) /\ epoch # NoServer /\ pipe \in [Instance -> Pipe]
           /\ wire[c] # NoRequest
BY CallOf, PipeAssumption DEF IInv, CacheInv, Answers, Sent, Sound, Typed, NoServer

LEMMA BeginCache ==
    ASSUME IInv, NEW c \in Client, Begin(c), UNCHANGED serverVars
    PROVE  CacheInv'
<1> USE AnswerOf
<1> DEFINE d == [client[c] EXCEPT !.pc = "opening", !.deadline = now + OverallTimeout]
<1>1. /\ d.expected = client[c].expected /\ d.answer = client[c].answer
    BY DEF CallState
<1>2. client' = [client EXCEPT ![c] = d] /\ UNCHANGED <<wire, epoch, now, pipe>> /\ client[c].pc = "idle"
    BY DEF Begin
<1>3. client[c].expected = NoServer
    BY <1>2 DEF ClientSound
<1>4. ~(executed[wire[c]] > 0)
    BY <1>3
<1>5. \A i \in Instance : pipe'[i].answer = pipe[i].answer /\ pipe'[i].request \in {pipe[i].request, wire[c]}
    BY <1>2
<1>6. d.expected = NoServer => client[c].expected = NoServer
    BY <1>3
<1>7. AnswerSound(d.answer, executed)
    BY <1>1
<1>8. UNCHANGED <<wire, epoch, now, serverVars>>
    BY <1>2
<1> HIDE DEF d
<1> QED BY ONLY IInv, c \in Client, <1>2, <1>4, <1>5, <1>6, <1>7, <1>8, CallCache

LEMMA OpenCache ==
    ASSUME IInv, NEW c \in Client, NEW i \in Instance, Open(c, i), UNCHANGED serverVars
    PROVE  CacheInv'
<1> USE AnswerOf
<1> DEFINE d == [client[c] EXCEPT !.pc = "writing", !.expected = epoch]
           p == [pipe[i] EXCEPT !.client = c,
                                !.state = IF pipe[i].state = "listening" THEN "connected" ELSE pipe[i].state]
<1>1. /\ d.expected = epoch /\ d.answer = client[c].answer /\ d.deadline = client[c].deadline
      /\ p.request = pipe[i].request /\ p.answer = pipe[i].answer
    BY DEF CallState, Pipe
<1>2. /\ client' = [client EXCEPT ![c] = d] /\ UNCHANGED <<wire, epoch, now>>
      /\ client[c].pc = "opening" /\ now < client[c].deadline
      /\ client[c].expected \in {NoServer, epoch} /\ pipe' = [pipe EXCEPT ![i] = p]
    BY DEF Open, IsSameLiveServer
<1> HIDE DEF d, p
<1>3. \A j \in Instance : pipe'[j].answer = pipe[j].answer /\ pipe'[j].request = pipe[j].request
    BY <1>1, <1>2
<1>4. executed[wire[c]] > 0 => Unread(c)
    BY <1>2 DEF Unread
<1> QED BY <1>1, <1>2, <1>3, <1>4, CallCache

LEMMA WriteRequestCache ==
    ASSUME IInv, NEW c \in Client, NEW i \in Instance, WriteRequest(c, i), UNCHANGED serverVars
    PROVE  CacheInv'
<1> USE AnswerOf
<1> DEFINE d == [client[c] EXCEPT !.pc = "reading"]
           p == [pipe[i] EXCEPT !.request = wire[c]]
<1>1. /\ d.expected = client[c].expected /\ d.answer = client[c].answer /\ d.deadline = client[c].deadline
      /\ p.request = wire[c] /\ p.answer = pipe[i].answer
    BY DEF CallState, Pipe
<1>2. /\ client' = [client EXCEPT ![c] = d] /\ UNCHANGED <<wire, epoch, now>>
      /\ client[c].pc = "writing" /\ now < client[c].deadline /\ Owns(i, c) /\ pipe' = [pipe EXCEPT ![i] = p]
    BY DEF WriteRequest
<1> HIDE DEF d, p
<1>3. \A j \in Instance : pipe'[j].answer = pipe[j].answer /\ pipe'[j].request \in {pipe[j].request, wire[c]}
    BY <1>1, <1>2
<1>4. Unread(c)
    BY <1>2 DEF Unread, ClientSound
<1>5. Unread(c) /\ d.deadline = client[c].deadline
    BY <1>1, <1>4
<1>6. d.expected = NoServer => client[c].expected = NoServer
    BY <1>1
<1>7. AnswerSound(d.answer, executed)
    BY <1>1
<1>8. UNCHANGED <<wire, epoch, now, serverVars>>
    BY <1>2
<1> QED BY ONLY IInv, c \in Client, <1>2, <1>3, <1>5, <1>6, <1>7, <1>8, CallCache

LEMMA ReadResponseCache ==
    ASSUME IInv, NEW c \in Client, NEW i \in Instance, NEW acknowledged \in BOOLEAN,
           ReadResponse(c, i, acknowledged), UNCHANGED serverVars
    PROVE  CacheInv'
<1> USE AnswerOf
<1> DEFINE d == [client[c] EXCEPT !.pc = "done", !.outcome = "complete", !.answer = pipe[i].answer]
           p == [pipe[i] EXCEPT !.closed = TRUE, !.acknowledged = acknowledged]
<1>1. /\ d.expected = client[c].expected /\ d.answer = pipe[i].answer /\ d.deadline = client[c].deadline
      /\ d.pc = "done" /\ p.request = pipe[i].request /\ p.answer = pipe[i].answer
    BY DEF CallState, Pipe
<1>2. /\ client' = [client EXCEPT ![c] = d] /\ UNCHANGED <<wire, epoch, now>> /\ pipe' = [pipe EXCEPT ![i] = p]
    BY DEF ReadResponse
<1> HIDE DEF d, p
<1>3. \A j \in Instance : pipe'[j].answer = pipe[j].answer /\ pipe'[j].request \in {pipe[j].request, wire[c]}
    BY <1>1, <1>2
<1>4. \A j \in Instance : pipe'[j].request = pipe[j].request
    BY <1>1, <1>2
<1>5. Unread(c)' => Unread(c) /\ d.deadline = client[c].deadline
    BY <1>1, <1>2, <1>4 DEF Unread
<1>6. d.expected = NoServer => client[c].expected = NoServer
    BY <1>1
<1>7. AnswerSound(d.answer, executed)
    BY <1>1
<1>8. UNCHANGED <<wire, epoch, now, serverVars>>
    BY <1>2
<1> QED BY ONLY IInv, c \in Client, <1>2, <1>3, <1>5, <1>6, <1>7, <1>8, CallCache

(* A client that lets go of its pipes, or tries again in time.             *)
LEMMA LetGoCache ==
    ASSUME IInv, NEW c \in Client, NEW d, client' = [client EXCEPT ![c] = d],
           pipe' = pipe \/ pipe' = Closed(pipe, c), UNCHANGED <<wire, epoch, now, serverVars>>,
           client[c].pc \in {"opening", "writing", "reading"},
           d.deadline = client[c].deadline, d.expected = client[c].expected, d.answer = client[c].answer
    PROVE  CacheInv'
<1> USE AnswerOf
<1>1. ASSUME NEW j \in Instance
      PROVE  pipe'[j].answer = pipe[j].answer /\ pipe'[j].request = pipe[j].request
  <2>1. pipe[j] \in Pipe
    OBVIOUS
  <2>2. pipe'[j] = pipe[j] \/ pipe'[j] = [pipe[j] EXCEPT !.closed = TRUE]
    BY DEF Closed
  <2> QED BY <2>1, <2>2 DEF Pipe
<1>2. Unread(c)' => Unread(c)
    BY <1>1 DEF Unread
<1>3. \A j \in Instance : pipe'[j].answer = pipe[j].answer /\ pipe'[j].request \in {pipe[j].request, wire[c]}
    BY <1>1
<1>4. AnswerSound(d.answer, executed)
    OBVIOUS
<1> QED BY ONLY IInv, c \in Client, client' = [client EXCEPT ![c] = d], UNCHANGED <<wire, epoch, now, serverVars>>,
            d.deadline = client[c].deadline, d.expected = client[c].expected, <1>2, <1>3, <1>4, CallCache

LEMMA IndeterminateCache ==
    ASSUME IInv, NEW c \in Client, Indeterminate(c), UNCHANGED serverVars
    PROVE  CacheInv'
<1> USE AnswerOf
<1> DEFINE d == IF CanReplay(c) THEN ToReplay(c)
                ELSE [client[c] EXCEPT !.pc = "done", !.outcome = "indeterminate"]
<1>1. d.deadline = client[c].deadline /\ d.expected = client[c].expected /\ d.answer = client[c].answer
    BY DEF CallState, ToReplay
<1>2. /\ client' = [client EXCEPT ![c] = d] /\ pipe' = Closed(pipe, c) /\ UNCHANGED <<wire, epoch, now>>
      /\ client[c].pc \in {"writing", "reading"}
    BY DEF Indeterminate
<1> HIDE DEF d
<1> QED BY <1>1, <1>2, LetGoCache

LEMMA NotConnectedCache ==
    ASSUME IInv, NEW c \in Client, NotConnected(c), UNCHANGED serverVars
    PROVE  CacheInv'
<1> USE AnswerOf
<1>1. client[c].pc = "opening" /\ UNCHANGED <<wire, epoch, now>>
    BY DEF NotConnected
<1>2. PICK d \in {[client[c] EXCEPT !.attempt = "launched"], ToReplay(c),
                  [client[c] EXCEPT !.pc = "done", !.outcome = GiveUp(c)]} :
            client' = [client EXCEPT ![c] = d] /\ (pipe' = pipe \/ pipe' = Closed(pipe, c))
    BY DEF NotConnected, End
<1>3. d.deadline = client[c].deadline /\ d.expected = client[c].expected /\ d.answer = client[c].answer
    BY DEF CallState, ToReplay
<1> QED BY <1>1, <1>2, <1>3, LetGoCache

LEMMA ClientsStepCache ==
    ASSUME IInv, ClientsStep
    PROVE  CacheInv'
BY BeginCache, IndeterminateCache, NotConnectedCache, OpenCache, WriteRequestCache, ReadResponseCache
   DEF ClientsStep, ClientStep

-----------------------------------------------------------------------------
(* Time, and the invariant as a whole.                                     *)

LEMMA IdleStepCache ==
    ASSUME IInv, Tick \/ UNCHANGED vars
    PROVE  CacheInv'
<1>1. UNCHANGED <<pipe, epoch, slot, cache, executed, client, wire>> /\ now' \in {now, now + 1}
    BY DEF Tick, vars, serverVars, clientVars
<1>2. Sound /\ CacheInv /\ now \in Nat
    BY SoundOf, CacheAssumption DEF Sound, Typed
<1>3. ASSUME NEW c \in Client PROVE Remembers(cache, executed, c)'
  <2>1. client[c].deadline \in Nat /\ Remembers(cache, executed, c)
    BY <1>2 DEF Sound, Typed, CallState, CacheInv
  <2>2. /\ now' < client[c].deadline => now < client[c].deadline
        /\ now' < client[c].deadline + RequestTimeout => now < client[c].deadline + RequestTimeout
    BY <1>1, <1>2, <2>1, ServerAssumption
  <2>3. Unread(c)' => Unread(c)
    BY <1>1, <2>2 DEF Unread
  <2> QED BY <1>1, <2>1, <2>3 DEF Remembers, Memorable
<1> QED BY <1>1, <1>2, <1>3 DEF CacheInv, CommandsRunAtMostOnce, Sent, Answers

LEMMA InitCache == Init => CacheInv
<1> SUFFICES ASSUME Init PROVE CacheInv
    OBVIOUS
<1>1. /\ pipe = [i \in Instance |-> AbsentPipe] /\ slot = [i \in Instance |-> NewSlot(FALSE)]
      /\ cache = EmptyCache /\ executed = [r \in Request |-> 0]
      /\ wire \in [Client -> Request] /\ client = [c \in Client |-> NewClient]
    BY DEF Init, ServerInit, ClientInit
<1>2. Holds(cache, slot, executed)
  <2>1. \A id \in Id : cache.pending[id] = 0 /\ cache.records[id] = NoRecord
    BY <1>1 DEF EmptyCache
  <2>2. \A i \in Instance : slot[i] = NewSlot(FALSE)
    BY <1>1
  <2> QED BY <2>1, <2>2, NewSlots
<1>3. \A c \in Client : executed[wire[c]] = 0
    BY <1>1
<1>4. (\A c \in Client : Remembers(cache, executed, c)) /\ CommandsRunAtMostOnce /\ Sent
    BY <1>1, <1>3 DEF Remembers, CommandsRunAtMostOnce, Sent
<1>5. Answers
    BY <1>1 DEF Answers, AnswerSound, AbsentPipe, NewSlot, NewClient
<1> QED BY <1>2, <1>4, <1>5 DEF CacheInv

LEMMA StepIInv == IInv /\ [Next]_vars => IInv'
<1> SUFFICES ASSUME IInv, [Next]_vars PROVE IInv'
    OBVIOUS
<1>1. CASE Tick
    BY <1>1, TickSound, IdleStepCache DEF IInv
<1>2. CASE ServerStep
  <2>1. Sound'
    BY <1>2, ServerStepSound DEF ServerStep, IInv
  <2> QED BY <1>2, <2>1, ServerStepCache DEF IInv
<1>3. CASE ClientsStep
    BY <1>3, ClientStepSound, ClientsStepCache DEF ClientsStep, IInv
<1>4. CASE UNCHANGED vars
    BY <1>4, SoundStutters, IdleStepCache DEF IInv
<1> QED BY <1>1, <1>2, <1>3, <1>4 DEF Next

(***************************************************************************)
(* Whenever a command that ran can arrive again, the cache still has the   *)
(* record that keeps it from running: the slots that work on a request     *)
(* hold it, and it outlives every copy of the request that can be read     *)
(* (DispatchRequestLocked, ExecuteOnce, PruneRequestRecords).              *)
(***************************************************************************)
THEOREM ChannelInvariant == Spec => []IInv
<1>1. Init => IInv
    BY InitSound, InitCache DEF IInv
<1> QED BY <1>1, StepIInv, PTL DEF Spec

(***************************************************************************)
(* No command is handed to the handler twice, however connections break,   *)
(* clients replay, the cache fills, records expire, servers stop and start *)
(* again and processes die (ExecuteOnce, ReplayIndeterminate).             *)
(***************************************************************************)
THEOREM AtMostOnce == Spec => []CommandsRunAtMostOnce
<1>1. IInv => CommandsRunAtMostOnce
    BY DEF IInv, CacheInv
<1> QED BY <1>1, ChannelInvariant, PTL


(***************************************************************************)
(* An answer on its way out is one the cache holds, counted once for every *)
(* slot and callback that delivers it, and a request on its way to the     *)
(* handler is registered once (ExecuteOnce, CompletePendingDelivery):      *)
(* nothing is leaked or dropped early, for any number of slots at once.    *)
(***************************************************************************)
THEOREM CountsAreExact == Spec => []DeliveriesAreCounted
<1>1. IInv => DeliveriesAreCounted
  <2> SUFFICES ASSUME IInv, NEW id \in Id
               PROVE  /\ cache.pending[id] = Cardinality(Registrations(id))
                      /\ Deliveries(id) # {} => cache.records[id] # NoRecord /\ cache.records[id].complete
                      /\ cache.records[id] # NoRecord => cache.records[id].active = Cardinality(Deliveries(id))
    BY DEF DeliveriesAreCounted
  <2>1. \A j \in Instance : SlotSound(slot[j]) /\ Backed(cache, slot[j], executed)
    BY DEF IInv, Sound, InstanceSound, CacheInv, Holds
  <2>2. Accounted(cache, slot, id)
    BY DEF IInv, CacheInv, Holds
  <2>3. Registrations(id) = {j \in Instance : Registers(slot[j], id)}
    BY <2>1 DEF Registrations, Registers, SlotSound
  <2>4. Deliveries(id) = {j \in Instance : Delivers(slot[j], id)}
    BY <2>1 DEF Deliveries, Delivers, Answering, SlotSound, Working
  <2>5. \A j \in Instance : Delivers(slot[j], id) => cache.records[id] # NoRecord /\ cache.records[id].complete
    BY <2>1 DEF Backed, Delivers, Recorded
  <2> QED BY <2>2, <2>3, <2>4, <2>5 DEF Accounted
<1> QED BY <1>1, ChannelInvariant, PTL

-----------------------------------------------------------------------------
(* The channel implements ControlCall.                                     *)

(* The refinement mapping of Call.                                         *)
Ran == {c \in Client : executed[wire[c]] > 0}

ToldTo(c) ==
    CASE client[c].outcome = "none" -> "nothing"
      [] client[c].outcome = "unavailable" -> "refused"
      [] client[c].outcome = "complete" /\ client[c].answer.code = "Result"
         /\ client[c].answer.request = wire[c] -> "result"
      [] OTHER -> "unknown"


(* Every step of the server leaves what ran, or runs one client's command. *)
LEMMA ServerRuns ==
    ASSUME Sound, ServerStep
    PROVE  /\ UNCHANGED <<client, wire>>
           /\ \/ UNCHANGED executed
              \/ \E c \in Client : executed' = [executed EXCEPT ![wire[c]] = @ + 1]
<1>1. Server /\ UNCHANGED <<client, wire>>
    BY DEF ServerStep, clientVars
<1>2. ASSUME NEW i \in Instance, ExecuteOnce(i)
      PROVE  executed' = executed \/ \E c \in Client : executed' = [executed EXCEPT ![wire[c]] = @ + 1]
  <2>1. slot[i].pc = "begun" /\ InstanceSound(slot[i], pipe[i], life.running) /\ slot[i] \in Slot
    BY <1>2 DEF ExecuteOnce, Sound, Typed
  <2>2. slot[i].phase = "RunningHandler" /\ slot[i].job.request = slot[i].request
    BY <2>1, WorkingPhase DEF InstanceSound, SlotSound, Working, Carrying
  <2>3. pipe[i].client \in Client /\ slot[i].job.request = wire[pipe[i].client]
    BY <2>1, <2>2 DEF InstanceSound, Linked, Served
  <2>4. executed' = executed \/ executed' = [executed EXCEPT ![slot[i].job.request] = @ + 1]
    BY <1>2 DEF ExecuteOnce
  <2> QED BY <2>3, <2>4
<1>3. ASSUME LifeCycle \/ OnRequestPrune PROVE executed' = executed
    BY <1>3 DEF LifeCycle, Start, OnStartRetry, CreatePipes, CreatePipesFails, InstallPipes, RequestStop, Stop,
       StopDrained, RequestTokenStop, Crash, OnRequestPrune
<1>4. ASSUME NEW i \in Instance, Connection(i) PROVE executed' = executed
  <2>1. CASE OnRearmReady(i)
    BY <2>1 DEF OnRearmReady
  <2>2. CASE DetachPipe(i)
    BY <2>2 DEF DetachPipe
  <2>3. CASE RecreatePipeInstance(i)
    BY <2>3 DEF RecreatePipeInstance
  <2>4. CASE ClientConnected(i)
    BY <2>4 DEF ClientConnected
  <2>5. ASSUME NEW trusted \in BOOLEAN, HandleConnectedInstance(i, trusted) PROVE executed' = executed
    BY <2>5 DEF HandleConnectedInstance
  <2>6. CASE TransferFails(i)
    BY <2>6 DEF TransferFails
  <2>7. CASE DispatchRequest(i)
    BY <2>7 DEF DispatchRequest
  <2>8. CASE WriteResponse(i)
    BY <2>8 DEF WriteResponse
  <2>9. CASE ReadAcknowledgement(i)
    BY <2>9 DEF ReadAcknowledgement
  <2> QED BY <1>4, <2>1, <2>2, <2>3, <2>4, <2>5, <2>6, <2>7, <2>8, <2>9 DEF Connection
<1>5. ASSUME NEW i \in Instance, Handling(i), ~ExecuteOnce(i) PROVE executed' = executed
  <2>1. CASE HandlerBegins(i)
    BY <2>1 DEF HandlerBegins
  <2>2. CASE ApartmentUnavailable(i)
    BY <2>2 DEF ApartmentUnavailable
  <2>3. CASE TakeAnswer(i)
    BY <2>3 DEF TakeAnswer
  <2>4. CASE StopWaiting(i)
    BY <2>4 DEF StopWaiting
  <2>5. CASE Handle(i)
    BY <2>5 DEF Handle
  <2>6. CASE HandlerReturns(i)
    BY <2>6 DEF HandlerReturns
  <2>7. CASE ReleasePending(i)
    BY <2>7 DEF ReleasePending
  <2>8. CASE Respond(i)
    BY <2>8 DEF Respond
  <2>9. CASE StopInHandler(i)
    BY <2>9 DEF StopInHandler
  <2> QED BY <1>5, <2>1, <2>2, <2>3, <2>4, <2>5, <2>6, <2>7, <2>8, <2>9 DEF Handling
<1> QED BY <1>1, <1>2, <1>3, <1>4, <1>5 DEF Server

(* A step of a client changes that client, which had not been told.        *)
LEMMA ClientTells ==
    ASSUME Sound, NEW c \in Client, ClientStep(c), UNCHANGED serverVars
    PROVE  /\ UNCHANGED <<wire, executed>> /\ client[c].outcome = "none"
           /\ \E d : /\ client' = [client EXCEPT ![c] = d]
                     /\ d.outcome = "complete" => d.answer # NoAnswer
<1> USE CallOf
<1>1. UNCHANGED <<wire, executed>> /\ client[c].pc # "done"
    BY DEF ClientStep, Begin, Indeterminate, NotConnected, Open, WriteRequest, ReadResponse, serverVars
<1>2. client[c].outcome = "none" /\ client[c] \in CallState
    BY <1>1 DEF ClientSound
<1>3. ASSUME NEW d \in {[client[c] EXCEPT !.pc = "opening", !.deadline = now + OverallTimeout],
                        [client[c] EXCEPT !.pc = "done", !.outcome = "indeterminate"],
                        [client[c] EXCEPT !.pc = "done", !.outcome = GiveUp(c)],
                        [client[c] EXCEPT !.attempt = "launched"], ToReplay(c),
                        [client[c] EXCEPT !.pc = "writing", !.expected = epoch],
                        [client[c] EXCEPT !.pc = "reading"]}
      PROVE  d.outcome # "complete"
    BY <1>2 DEF CallState, ToReplay, GiveUp
<1>4. CASE Begin(c) \/ Indeterminate(c) \/ NotConnected(c) \/ \E i \in Instance : Open(c, i) \/ WriteRequest(c, i)
  <2>1. \E d \in {[client[c] EXCEPT !.pc = "opening", !.deadline = now + OverallTimeout],
                  [client[c] EXCEPT !.pc = "done", !.outcome = "indeterminate"],
                  [client[c] EXCEPT !.pc = "done", !.outcome = GiveUp(c)],
                  [client[c] EXCEPT !.attempt = "launched"], ToReplay(c),
                  [client[c] EXCEPT !.pc = "writing", !.expected = epoch],
                  [client[c] EXCEPT !.pc = "reading"]} : client' = [client EXCEPT ![c] = d]
    BY <1>4 DEF Begin, Indeterminate, NotConnected, End, Open, WriteRequest
  <2> QED BY <1>1, <1>2, <1>3, <2>1
<1>5. ASSUME NEW i \in Instance, NEW acknowledged \in BOOLEAN, ReadResponse(c, i, acknowledged)
      PROVE  \E d : client' = [client EXCEPT ![c] = d] /\ d.answer # NoAnswer
  <2> DEFINE d == [client[c] EXCEPT !.pc = "done", !.outcome = "complete", !.answer = pipe[i].answer]
  <2>1. client' = [client EXCEPT ![c] = d] /\ d.answer # NoAnswer
    BY <1>2, <1>5 DEF ReadResponse, CallState
  <2> HIDE DEF d
  <2> QED BY <2>1
<1> QED BY <1>1, <1>2, <1>4, <1>5 DEF ClientStep

ToldAll == [c \in Client |-> ToldTo(c)]

LEMMA ServerStepRefines ==
    ASSUME IInv, IInv', ServerStep
    PROVE  ToldAll' = ToldAll /\ (Ran' = Ran \/ \E c \in Client : c \notin Ran /\ ToldTo(c) # "refused" /\ Ran' = Ran \cup {c})
<1>1. Sound /\ Sound' /\ CacheInv /\ CacheInv'
    BY DEF IInv
<1>2. UNCHANGED <<client, wire>>
    BY <1>1, ServerRuns
<1>3. ToldAll' = ToldAll
    BY <1>2 DEF ToldAll, ToldTo
<1>4. CASE UNCHANGED executed
    BY <1>2, <1>3, <1>4 DEF Ran
<1>5. ASSUME NEW c \in Client, executed' = [executed EXCEPT ![wire[c]] = @ + 1]
      PROVE  c \notin Ran /\ ToldTo(c) # "refused" /\ Ran' = Ran \cup {c}
  <2>1. /\ executed \in [Request -> Nat] /\ wire \in [Client -> Request] /\ Distinct
        /\ executed'[wire[c]] <= 1 /\ client[c] \in CallState /\ ClientSound(c)
        /\ client'[c].expected = NoServer => executed'[wire'[c]] = 0
    BY <1>1 DEF Sound, Typed, CacheInv, CommandsRunAtMostOnce, Sent
  <2>2. executed[wire[c]] \in Nat /\ executed'[wire[c]] = executed[wire[c]] + 1
    BY <1>5, <2>1
  <2>3. executed[wire[c]] = 0 /\ executed'[wire[c]] > 0
    BY <2>1, <2>2
  <2>4. client[c].outcome # "unavailable"
    BY <1>2, <2>1, <2>3 DEF ClientSound
  <2>5. ToldTo(c) # "refused"
    BY <2>4 DEF ToldTo
  <2>6. \A e \in Client \ {c} : executed'[wire'[e]] = executed[wire[e]]
    BY <1>2, <1>5, <2>1 DEF Distinct
  <2> QED BY <1>2, <2>3, <2>5, <2>6 DEF Ran
<1> QED BY <1>1, <1>3, <1>4, <1>5, ServerRuns

LEMMA ClientStepRefines ==
    ASSUME IInv, IInv', NEW c \in Client, ClientStep(c), UNCHANGED serverVars
    PROVE  /\ Ran' = Ran
           /\ \/ ToldAll' = ToldAll
              \/ \E what \in {"result", "refused", "unknown"} :
                    /\ ToldTo(c) = "nothing" /\ ToldAll' = [ToldAll EXCEPT ![c] = what]
                    /\ what = "result" => c \in Ran
                    /\ what = "refused" => c \notin Ran
<1>1. Sound /\ CacheInv' /\ Sound' /\ UNCHANGED <<wire, executed>> /\ client[c].outcome = "none"
    BY ClientTells DEF IInv
<1>2. PICK d : client' = [client EXCEPT ![c] = d] /\ (d.outcome = "complete" => d.answer # NoAnswer)
    BY <1>1, ClientTells
<1>3. client'[c] = d /\ \A e \in Client \ {c} : client'[e] = client[e]
    BY <1>1, <1>2 DEF Sound, Typed
<1>4. Ran' = Ran
    BY <1>1 DEF Ran
<1>5. ToldTo(c) = "nothing" /\ \A e \in Client \ {c} : ToldTo(e)' = ToldTo(e)
    BY <1>1, <1>3 DEF ToldTo
<1>6. /\ AnswerSound(d.answer, executed) /\ ClientSound(c)'
      /\ d.expected = NoServer => executed[wire[c]] = 0
    BY <1>1, <1>3 DEF CacheInv, Answers, Sent, Sound
<1>7. ToldTo(c)' = "result" => c \in Ran
    BY <1>1, <1>2, <1>3, <1>6 DEF ToldTo, AnswerSound, Ran
<1>8. ToldTo(c)' = "refused" => c \notin Ran
    BY <1>1, <1>3, <1>6 DEF ToldTo, ClientSound, Ran
<1>9. ToldTo(c)' \in {"nothing", "result", "refused", "unknown"}
    BY DEF ToldTo
<1>10. ToldAll' = [ToldAll EXCEPT ![c] = ToldTo(c)']
    BY <1>5 DEF ToldAll
<1>11. CASE ToldTo(c)' = "nothing"
    BY <1>4, <1>5, <1>10, <1>11 DEF ToldAll
<1> QED BY <1>4, <1>5, <1>7, <1>8, <1>9, <1>10, <1>11

(***************************************************************************)
(* The channel implements ControlCall: every step of a client, a slot, a   *)
(* callback or a failure is a step of the promise or none of it.  A caller *)
(* is told a result only of a command that ran, and is refused only when   *)
(* its command has not run and never will (SendRequest, ExecuteOnce).      *)
(***************************************************************************)
THEOREM Refinement == Spec => ImplementsControlCall
<1>1. Init => Call!Init
  <2> SUFFICES ASSUME Init PROVE Call!Init
    OBVIOUS
  <2>1. \A c \in Client : executed[wire[c]] = 0 /\ client[c].outcome = "none"
    BY DEF Init, ServerInit, ClientInit, NewClient
  <2> QED BY <2>1 DEF Call!Init
<1>2. IInv /\ IInv' /\ [Next]_vars => [Call!Next]_<<Ran, ToldAll>>
  <2> SUFFICES ASSUME IInv, IInv', [Next]_vars PROVE [Call!Next]_<<Ran, ToldAll>>
    OBVIOUS
  <2>1. CASE Tick \/ UNCHANGED vars
    <3>1. UNCHANGED <<client, wire, executed>>
        BY <2>1 DEF Tick, vars, serverVars, clientVars
    <3> QED BY <3>1 DEF Ran, ToldAll, ToldTo
  <2>2. CASE ServerStep
    BY <2>2, ServerStepRefines DEF Call!Next, Call!Run, Ran, ToldAll, ToldTo
  <2>3. CASE ClientsStep
    <3>1. PICK c \in Client : ClientStep(c) /\ UNCHANGED serverVars
        BY <2>3 DEF ClientsStep
    <3>2. CASE Ran' = Ran /\ ToldAll' = ToldAll
        BY <3>2
    <3>3. ASSUME NEW what \in {"result", "refused", "unknown"}, Ran' = Ran,
                 ToldTo(c) = "nothing", ToldAll' = [ToldAll EXCEPT ![c] = what],
                 what = "result" => c \in Ran, what = "refused" => c \notin Ran
          PROVE  Call!Tell(c, what) /\ what \in Call!Told \ {"nothing"}
        BY <3>3 DEF Call!Tell, Call!Told, Ran, ToldAll, ToldTo
    <3>4. ASSUME NEW what \in Call!Told \ {"nothing"}, Call!Tell(c, what) PROVE Call!Next
        BY <3>4 DEF Call!Next
    <3> QED BY <3>1, <3>2, <3>3, <3>4, ClientStepRefines
  <2> QED BY <2>1, <2>2, <2>3 DEF Next
<1>3. Spec => Call!Spec
  <2>1. IInv /\ IInv' /\ [Next]_vars =>
            [Call!Next]_<<{c \in Client : executed[wire[c]] > 0},
                          [c \in Client |->
                              CASE client[c].outcome = "none" -> "nothing"
                                [] client[c].outcome = "unavailable" -> "refused"
                                [] client[c].outcome = "complete" /\ client[c].answer.code = "Result"
                                   /\ client[c].answer.request = wire[c] -> "result"
                                [] OTHER -> "unknown"]>>
    BY <1>2 DEF Ran, ToldAll, ToldTo
  <2> QED BY <1>1, <2>1, ChannelInvariant, PTL DEF Spec, Call!Spec
<1> QED BY <1>3 DEF ImplementsControlCall

-----------------------------------------------------------------------------
(* The bytes of a set of records.                                          *)

Bytes(c, S) == MapThenSumSet(LAMBDA id : c.records[id].bytes, S)

(* The function that adds them up, one element of the set after the other. *)
Adds(f, c, S) ==
    f = [s \in SUBSET S |-> IF s = {} THEN 0
                            ELSE LET x == CHOOSE x \in s : TRUE
                                 IN c.records[x].bytes + f[s \ {x}]]

First(s) == CHOOSE x \in s : TRUE

Weighed(c, S) == IsFiniteSet(S) /\ \A x \in S : c.records[x].bytes \in Nat

(* Among finite sets, some are least.                                      *)
LEMMA LeastSet ==
    ASSUME NEW S, IsFiniteSet(S), NEW F \in SUBSET (SUBSET S), F # {}
    PROVE  \E s \in F : \A t \in SUBSET s : t # s => t \notin F
<1>1. IsWellFoundedOn(StrictSubsetOrdering(S), FiniteSubsetsOf(S))
    BY FS_StrictSubsetOrderingWellFounded
<1>2. F \subseteq FiniteSubsetsOf(S)
    BY FS_Subset DEF FiniteSubsetsOf
<1>3. PICK s \in F : \A t \in F : ~(<<t, s>> \in StrictSubsetOrdering(S))
    BY <1>1, <1>2, WFMin
<1>4. \A t \in SUBSET s : t # s => t \notin F
    <2> SUFFICES ASSUME NEW t \in SUBSET s, t # s, t \in F PROVE FALSE
        OBVIOUS
    <2>1. s \in SUBSET S /\ t \in SUBSET S
        BY <1>3
    <2>2. <<t, s>> \in StrictSubsetOrdering(S)
        BY <2>1 DEF StrictSubsetOrdering
    <2> QED BY <1>3, <2>2
<1> QED BY <1>3, <1>4

LEMMA FirstIn == ASSUME NEW s, s # {} PROVE First(s) \in s
BY DEF First

LEMMA AddsAt ==
    ASSUME NEW c, NEW S, NEW f, Adds(f, c, S), NEW s \in SUBSET S
    PROVE  f[s] = IF s = {} THEN 0 ELSE c.records[First(s)].bytes + f[s \ {First(s)}]
<1> DEFINE body(t) == IF t = {} THEN 0 ELSE LET x == CHOOSE x \in t : TRUE IN c.records[x].bytes + f[t \ {x}]
<1>1. f = [t \in SUBSET S |-> body(t)]
    BY Zenon DEF Adds
<1>2. body(s) = IF s = {} THEN 0 ELSE c.records[First(s)].bytes + f[s \ {First(s)}]
    BY Zenon DEF First
<1> HIDE DEF body
<1>3. f[s] = body(s)
    BY <1>1
<1> QED BY <1>2, <1>3

(* Two of them agree where both are defined.                               *)
LEMMA AddsAgree ==
    ASSUME NEW c, NEW S, NEW T, NEW f, NEW g, Adds(f, c, S), Adds(g, c, T),
           IsFiniteSet(S), NEW u \in SUBSET S, u \in SUBSET T
    PROVE  f[u] = g[u]
<1> DEFINE F == {s \in SUBSET u : f[s] # g[s]}
<1> SUFFICES ASSUME F # {} PROVE FALSE
    OBVIOUS
<1>1. IsFiniteSet(u)
    BY FS_Subset
<1>2. PICK s \in F : \A t \in SUBSET s : t # s => t \notin F
    <2>1. F \in SUBSET (SUBSET u) /\ IsFiniteSet(u)
        BY <1>1
    <2> HIDE DEF F
    <2> QED BY <2>1, LeastSet
<1>3. s \in SUBSET S /\ s \in SUBSET T /\ s \in SUBSET u
    OBVIOUS
<1>4. s # {}
    <2>1. s = {} => f[s] = 0 /\ g[s] = 0
        BY <1>3, AddsAt
    <2> QED BY <1>2, <2>1
<1>5. First(s) \in s
    BY <1>4, FirstIn
<1>6. f[s \ {First(s)}] = g[s \ {First(s)}]
    BY <1>2, <1>3, <1>5
<1>7. f[s] = c.records[First(s)].bytes + f[s \ {First(s)}]
    BY <1>3, <1>4, AddsAt
<1>8. g[s] = c.records[First(s)].bytes + g[s \ {First(s)}]
    BY <1>3, <1>4, AddsAt
<1> QED BY <1>2, <1>6, <1>7, <1>8

(* There is one for every finite set.                                      *)
LEMMA AddsExists ==
    ASSUME NEW c, NEW S, IsFiniteSet(S)
    PROVE  \E f : Adds(f, c, S)
<1> DEFINE F == {s \in SUBSET S : ~\E f : Adds(f, c, s)}
<1> SUFFICES ASSUME F # {} PROVE FALSE
    OBVIOUS
<1>1. PICK s \in F : \A t \in SUBSET s : t # s => t \notin F
    <2>1. F \in SUBSET (SUBSET S) /\ IsFiniteSet(S)
        OBVIOUS
    <2> HIDE DEF F
    <2> QED BY <2>1, LeastSet
<1>2. s \in SUBSET S /\ ~\E f : Adds(f, c, s)
    OBVIOUS
<1>3. IsFiniteSet(s)
    BY <1>2, FS_Subset
<1> DEFINE G(t) == CHOOSE g : Adds(g, c, t)
<1>4. \A t \in SUBSET s : t # s => Adds(G(t), c, t)
    <2> SUFFICES ASSUME NEW t \in SUBSET s, t # s PROVE Adds(G(t), c, t)
        OBVIOUS
    <2>1. \E g : Adds(g, c, t)
        BY <1>1, <1>2
    <2> QED BY <2>1, Zenon
<1> HIDE DEF G
<1> DEFINE V(t) == IF t = {} THEN 0 ELSE c.records[First(t)].bytes + G(t \ {First(t)})[t \ {First(t)}]
           f == [t \in SUBSET s |-> V(t)]
<1>5. \A t \in SUBSET s : t # s => f[t] = G(t)[t]
    <2> SUFFICES ASSUME NEW t \in SUBSET s, t # s PROVE f[t] = G(t)[t]
        OBVIOUS
    <2>1. f[t] = V(t)
        OBVIOUS
    <2>2. CASE t = {}
        BY <1>4, <2>1, <2>2, AddsAt
    <2>3. CASE t # {}
        <3> DEFINE x == First(t)
                   r == t \ {x}
        <3>1. x \in t
            BY <2>3, FirstIn
        <3>2. G(t)[t] = c.records[x].bytes + G(t)[r]
            BY <1>4, <2>3, AddsAt
        <3>3. r \in SUBSET s /\ r # s /\ r \in SUBSET t
            BY <3>1
        <3>4. IsFiniteSet(t)
            BY <1>3, FS_Subset
        <3>5. G(t)[r] = G(r)[r]
            BY <1>4, <3>3, <3>4, AddsAgree
        <3>6. f[t] = c.records[x].bytes + G(r)[r]
            BY <2>1, <2>3
        <3> QED BY <3>2, <3>5, <3>6
    <2> QED BY <2>2, <2>3
<1>6. \A t \in SUBSET s : V(t) = IF t = {} THEN 0 ELSE LET x == CHOOSE x \in t : TRUE
                                                        IN c.records[x].bytes + f[t \ {x}]
    <2> SUFFICES ASSUME NEW t \in SUBSET s
                 PROVE  V(t) = IF t = {} THEN 0 ELSE c.records[First(t)].bytes + f[t \ {First(t)}]
        BY Zenon DEF First
    <2>1. CASE t = {}
        BY <2>1
    <2>2. CASE t # {}
        <3>1. First(t) \in t
            BY <2>2, FirstIn
        <3>2. t \ {First(t)} \in SUBSET s /\ t \ {First(t)} # s
            BY <3>1
        <3>3. f[t \ {First(t)}] = G(t \ {First(t)})[t \ {First(t)}]
            BY <1>5, <3>2
        <3> QED BY <2>2, <3>3
    <2> QED BY <2>1, <2>2
<1>7. f = [t \in SUBSET s |-> V(t)]
    OBVIOUS
<1> HIDE DEF f, V
<1>8. [t \in SUBSET s |-> V(t)] =
        [t \in SUBSET s |-> IF t = {} THEN 0 ELSE LET x == CHOOSE x \in t : TRUE
                                                  IN c.records[x].bytes + f[t \ {x}]]
    BY <1>6, Zenon
<1>9. Adds(f, c, s)
    BY <1>7, <1>8, Zenon DEF Adds
<1> QED BY <1>2, <1>9

LEMMA BytesAdd ==
    ASSUME NEW c, NEW S, IsFiniteSet(S)
    PROVE  \E f : Bytes(c, S) = f[S] /\ Adds(f, c, S)
<1> DEFINE f == CHOOSE f : Adds(f, c, S)
<1>1. Adds(f, c, S)
    BY AddsExists, Zenon
<1>2. Bytes(c, S) = f[S]
    BY Zenon DEF Bytes, MapThenSumSet, MapThenFoldSet, Adds
<1> QED BY <1>1, <1>2

LEMMA BytesFirst ==
    ASSUME NEW c, NEW S, IsFiniteSet(S)
    PROVE  Bytes(c, S) = IF S = {} THEN 0 ELSE c.records[First(S)].bytes + Bytes(c, S \ {First(S)})
<1>1. PICK f : Bytes(c, S) = f[S] /\ Adds(f, c, S)
    BY BytesAdd
<1>2. f[S] = IF S = {} THEN 0 ELSE c.records[First(S)].bytes + f[S \ {First(S)}]
    BY <1>1, AddsAt
<1> DEFINE T == S \ {First(S)}
<1>3. IsFiniteSet(T) /\ T \in SUBSET S /\ T \in SUBSET T
    BY FS_Subset
<1>4. PICK g : Bytes(c, T) = g[T] /\ Adds(g, c, T)
    BY <1>3, BytesAdd
<1>5. f[T] = g[T]
    BY <1>1, <1>3, <1>4, AddsAgree
<1> QED BY <1>1, <1>2, <1>4, <1>5

LEMMA BytesType ==
    ASSUME NEW c, NEW S, Weighed(c, S)
    PROVE  Bytes(c, S) \in Nat
<1> DEFINE F == {s \in SUBSET S : Bytes(c, s) \notin Nat}
<1> SUFFICES ASSUME F # {} PROVE FALSE
    BY DEF Weighed
<1>1. PICK s \in F : \A t \in SUBSET s : t # s => t \notin F
    <2>1. F \in SUBSET (SUBSET S) /\ IsFiniteSet(S)
        BY DEF Weighed
    <2> HIDE DEF F
    <2> QED BY <2>1, LeastSet
<1>2. IsFiniteSet(s)
    BY FS_Subset DEF Weighed
<1>3. s # {}
    <2>1. s = {} => Bytes(c, s) = 0
        BY <1>2, BytesFirst
    <2> QED BY <1>1, <2>1
<1>4. First(s) \in s
    BY <1>3, FirstIn
<1>5. Bytes(c, s \ {First(s)}) \in Nat
    BY <1>1, <1>4
<1>6. c.records[First(s)].bytes \in Nat
    BY <1>4 DEF Weighed
<1> QED BY <1>2, <1>3, <1>5, <1>6, BytesFirst

(* Any element can be the first one.                                       *)
LEMMA BytesOf ==
    ASSUME NEW c, NEW S, Weighed(c, S), NEW y \in S
    PROVE  Bytes(c, S) = c.records[y].bytes + Bytes(c, S \ {y})
<1> DEFINE F == {s \in SUBSET S : \E z \in s : Bytes(c, s) # c.records[z].bytes + Bytes(c, s \ {z})}
<1> SUFFICES ASSUME F # {} PROVE FALSE
    BY DEF Weighed
<1>1. PICK s \in F : \A t \in SUBSET s : t # s => t \notin F
    <2>1. F \in SUBSET (SUBSET S) /\ IsFiniteSet(S)
        BY DEF Weighed
    <2> HIDE DEF F
    <2> QED BY <2>1, LeastSet
<1>2. PICK z \in s : Bytes(c, s) # c.records[z].bytes + Bytes(c, s \ {z})
    OBVIOUS
<1> DEFINE x == First(s)
           t == s \ {x, z}
<1>3. IsFiniteSet(s) /\ IsFiniteSet(s \ {z}) /\ IsFiniteSet(t) /\ t \in SUBSET S
    BY FS_Subset DEF Weighed
<1>4. x \in s
    BY FirstIn
<1>5. Bytes(c, s) = c.records[x].bytes + Bytes(c, s \ {x})
    BY <1>3, BytesFirst
<1>6. x # z
    BY <1>2, <1>5
<1>7. /\ s \ {x} \in SUBSET s /\ s \ {x} # s /\ z \in s \ {x} /\ (s \ {x}) \ {z} = t
      /\ s \ {z} \in SUBSET s /\ s \ {z} # s /\ x \in s \ {z} /\ (s \ {z}) \ {x} = t
    BY <1>4, <1>6
<1>8. s \ {x} \in SUBSET S /\ s \ {z} \in SUBSET S
    OBVIOUS
<1>9. Bytes(c, s \ {x}) = c.records[z].bytes + Bytes(c, t)
    <2>1. s \ {x} \notin F
        BY <1>1, <1>7
    <2> QED BY <1>7, <1>8, <2>1
<1>10. Bytes(c, s \ {z}) = c.records[x].bytes + Bytes(c, t)
    <2>1. s \ {z} \notin F
        BY <1>1, <1>7
    <2> QED BY <1>7, <1>8, <2>1
<1>11. c.records[x].bytes \in Nat /\ c.records[z].bytes \in Nat
    BY <1>4 DEF Weighed
<1>12. Bytes(c, t) \in Nat
    BY <1>3, BytesType DEF Weighed
<1> HIDE DEF x, t
<1> QED BY <1>2, <1>5, <1>9, <1>10, <1>11, <1>12

(* Only what the records of the set weigh counts.                          *)
LEMMA BytesAlike ==
    ASSUME NEW c, NEW d, NEW S, IsFiniteSet(S), \A x \in S : c.records[x].bytes = d.records[x].bytes
    PROVE  Bytes(c, S) = Bytes(d, S)
<1> DEFINE F == {s \in SUBSET S : Bytes(c, s) # Bytes(d, s)}
<1> SUFFICES ASSUME F # {} PROVE FALSE
    OBVIOUS
<1>1. PICK s \in F : \A t \in SUBSET s : t # s => t \notin F
    <2>1. F \in SUBSET (SUBSET S) /\ IsFiniteSet(S)
        OBVIOUS
    <2> HIDE DEF F
    <2> QED BY <2>1, LeastSet
<1>2. IsFiniteSet(s)
    BY FS_Subset
<1>3. s # {}
    <2>1. s = {} => Bytes(c, s) = 0 /\ Bytes(d, s) = 0
        BY <1>2, BytesFirst
    <2> QED BY <1>1, <2>1
<1>4. First(s) \in s
    BY <1>3, FirstIn
<1>5. Bytes(c, s \ {First(s)}) = Bytes(d, s \ {First(s)})
    BY <1>1, <1>4
<1> QED BY <1>2, <1>3, <1>4, <1>5, BytesFirst

(* A part of it can be taken away.                                         *)
LEMMA BytesApart ==
    ASSUME NEW c, NEW S, Weighed(c, S), NEW T \in SUBSET S
    PROVE  Bytes(c, S) = Bytes(c, T) + Bytes(c, S \ T)
<1> DEFINE F == {s \in SUBSET S : Bytes(c, S) # Bytes(c, s) + Bytes(c, S \ s)}
<1> SUFFICES ASSUME F # {} PROVE FALSE
    OBVIOUS
<1>1. PICK s \in F : \A t \in SUBSET s : t # s => t \notin F
    <2>1. F \in SUBSET (SUBSET S) /\ IsFiniteSet(S)
        BY DEF Weighed
    <2> HIDE DEF F
    <2> QED BY <2>1, LeastSet
<1>2. s \in SUBSET S /\ Bytes(c, S) # Bytes(c, s) + Bytes(c, S \ s)
    OBVIOUS
<1>3. \A t \in SUBSET S : Weighed(c, t) /\ Bytes(c, t) \in Nat
    BY FS_Subset, BytesType DEF Weighed
<1>4. s # {}
    <2>1. Bytes(c, {}) = 0
        BY BytesFirst, FS_EmptySet
    <2>2. S \ {} = S
        OBVIOUS
    <2> QED BY <1>2, <1>3, <2>1, <2>2
<1> DEFINE y == First(s)
           t == s \ {y}
           r == S \ t
<1>5. y \in s
    BY <1>4, FirstIn
<1>6. t \in SUBSET S /\ t \in SUBSET s /\ t # s /\ r \in SUBSET S /\ y \in r /\ r \ {y} = S \ s
    BY <1>2, <1>5
<1>7. Bytes(c, S) = Bytes(c, t) + Bytes(c, r)
    <2>1. t \notin F
        BY <1>1, <1>6
    <2> QED BY <1>6, <2>1
<1>8. Bytes(c, r) = c.records[y].bytes + Bytes(c, S \ s)
    BY <1>3, <1>6, BytesOf
<1>9. Bytes(c, s) = c.records[y].bytes + Bytes(c, t)
    BY <1>2, <1>3, <1>5, BytesOf
<1>10. c.records[y].bytes \in Nat /\ Bytes(c, t) \in Nat /\ Bytes(c, S \ s) \in Nat
    BY <1>2, <1>3, <1>5, <1>6 DEF Weighed
<1> HIDE DEF y, t, r
<1> QED BY <1>2, <1>7, <1>8, <1>9, <1>10

-----------------------------------------------------------------------------
(* The limits of the cache.                                                *)

(* The records are as many and weigh as much as they may, and the count of *)
(* their bytes is right.                                                   *)
Limited(c) ==
    /\ IsFiniteSet(Kept(c)) /\ Cardinality(Kept(c)) <= MaxRequestRecords
    /\ \A id \in Kept(c) : c.records[id].bytes # 0
    /\ c.bytes = Bytes(c, Kept(c)) /\ c.bytes <= MaxRequestCacheBytes

(* The timer comes for every record that nothing needs.                    *)
Awaited(c) == \A expiry \in Expiries(c) : c.pruneAt <= expiry

Bounded(c) == CacheTyped(c) /\ Limited(c) /\ Awaited(c)

LEMMA KeptWeighs ==
    ASSUME NEW c, CacheTyped(c), IsFiniteSet(Kept(c)), NEW S \in SUBSET Kept(c)
    PROVE  Weighed(c, S) /\ Bytes(c, S) \in Nat
<1>1. \A x \in S : c.records[x] \in Record
    BY NoRecordHasNoRun DEF Kept, CacheTyped
<1>2. Weighed(c, S)
    BY <1>1, FS_Subset DEF Weighed, Record
<1> QED BY <1>2, BytesType

(* What records hold beside their bytes does not matter.                   *)
LEMMA LimitedAlike ==
    ASSUME NEW c, Limited(c), NEW d, d.bytes = c.bytes,
           \A id \in Id : d.records[id] = NoRecord <=> c.records[id] = NoRecord,
           \A id \in Kept(c) : d.records[id].bytes = c.records[id].bytes
    PROVE  Limited(d)
<1>1. Kept(d) = Kept(c)
    BY DEF Kept
<1>2. Bytes(d, Kept(c)) = Bytes(c, Kept(c))
    BY BytesAlike DEF Limited
<1> QED BY <1>1, <1>2 DEF Limited

LEMMA WithoutLimited ==
    ASSUME NEW c, CacheTyped(c), Limited(c), NEW gone \in SUBSET Kept(c)
    PROVE  LET d == Without(c, gone)
           IN /\ CacheTyped(d) /\ Limited(d)
              /\ Kept(d) = Kept(c) \ gone
              /\ d.pruneAt = c.pruneAt
<1> DEFINE d == Without(c, gone)
           K == Kept(c)
<1>1. gone \in SUBSET Id
    BY DEF Kept
<1>2. CacheTyped(d) /\ \A id \in Id : d.records[id] = IF id \in gone THEN NoRecord ELSE c.records[id]
    BY <1>1, WithoutForm
<1>3. d.bytes = c.bytes - Bytes(c, gone) /\ d.pruneAt = c.pruneAt
    BY DEF Without, CacheTyped, Bytes
<1> HIDE DEF d
<1>4. Kept(d) = K \ gone
    BY <1>1, <1>2 DEF Kept
<1>5. IsFiniteSet(K) /\ IsFiniteSet(K \ gone) /\ Cardinality(K \ gone) <= Cardinality(K)
    BY FS_Subset DEF Limited
<1>6. /\ Weighed(c, K) /\ Bytes(c, K) \in Nat
      /\ Bytes(c, gone) \in Nat /\ Bytes(c, K \ gone) \in Nat
    BY <1>5, KeptWeighs
<1>7. Bytes(c, K) = Bytes(c, gone) + Bytes(c, K \ gone)
    BY <1>6, BytesApart
<1>8. \A id \in K \ gone : d.records[id] = c.records[id]
    BY <1>2 DEF Kept
<1>9. Bytes(c, K \ gone) = Bytes(d, K \ gone)
    BY <1>5, <1>8, BytesAlike
<1>10. d.bytes = Bytes(d, Kept(d))
    BY <1>3, <1>4, <1>6, <1>7, <1>9 DEF Limited
<1>11. d.bytes <= MaxRequestCacheBytes
    <2>1. c.bytes \in Nat /\ c.bytes <= MaxRequestCacheBytes
        BY <1>6 DEF Limited
    <2> QED BY <2>1, <1>3, <1>6, CacheAssumption
<1>12. Cardinality(Kept(d)) <= MaxRequestRecords
    <2>1. Cardinality(K) \in Nat /\ Cardinality(K \ gone) \in Nat /\ Cardinality(K) <= MaxRequestRecords
        BY <1>5, FS_CardinalityType DEF Limited
    <2> QED BY <1>4, <1>5, <2>1, CacheAssumption
<1>13. \A id \in Kept(d) : d.records[id].bytes # 0
    BY <1>4, <1>8 DEF Limited
<1>14. Limited(d)
    BY <1>4, <1>5, <1>10, <1>11, <1>12, <1>13 DEF Limited
<1> QED BY <1>2, <1>3, <1>4, <1>14 DEF d

(* A record nothing needs was one before, and is the same.                 *)
LEMMA AwaitedStays ==
    ASSUME NEW c, Awaited(c), NEW d, d.pruneAt = c.pruneAt,
           \A id \in Kept(d) : IsIdle(d, id) =>
                id \in Kept(c) /\ IsIdle(c, id) /\ d.records[id] = c.records[id]
    PROVE  Awaited(d)
<1>1. Expiries(d) \subseteq Expiries(c)
    BY DEF Expiries
<1> QED BY <1>1 DEF Awaited

LEMMA LeastNatural ==
    ASSUME NEW S \in SUBSET Nat, S # {}
    PROVE  Min(S) \in S /\ \A y \in S : Min(S) <= y
<1> DEFINE R == {pair \in Nat \X Nat : pair[1] < pair[2]}
<1>1. IsWellFoundedOn(R, Nat)
    BY NatLessThanWellFounded DEF OpToRel
<1>2. \A x, y \in Nat : y < x => <<y, x>> \in R
    OBVIOUS
<1> HIDE DEF R
<1>3. PICK x \in S : \A y \in S : ~(<<y, x>> \in R)
    BY <1>1, WFMin
<1>4. \A y \in S : x <= y
    <2> SUFFICES ASSUME NEW y \in S PROVE x <= y
        OBVIOUS
    <2>1. x \in Nat /\ y \in Nat
        BY <1>3
    <2>2. ~(y < x)
        BY <1>2, <1>3, <2>1, Zenon
    <2> QED BY <2>1, <2>2
<1> QED BY <1>3, <1>4 DEF Min

(* The timer is set for the first of them.                                 *)
LEMMA ScheduleBounded ==
    ASSUME NEW c, CacheTyped(c), Limited(c)
    PROVE  Bounded(ScheduleRequestPruneLocked(c))
<1> DEFINE d == ScheduleRequestPruneLocked(c)
           at == IF Expiries(c) = {} THEN Never ELSE Min(Expiries(c))
<1>1. CacheTyped(d) /\ d.pending = c.pending /\ d.records = c.records
    BY ScheduleForm
<1>2. d.bytes = c.bytes /\ d.pruneAt = at
    <2>1. d = [c EXCEPT !.pruneAt = at]
        BY DEF ScheduleRequestPruneLocked
    <2> HIDE DEF d, at
    <2> QED BY <2>1 DEF CacheTyped
<1> HIDE DEF d
<1>3. Limited(d)
    BY <1>1, <1>2, LimitedAlike
<1>4. Expiries(d) = Expiries(c)
    BY <1>1 DEF Expiries, Kept, IsIdle
<1>5. Expiries(c) \subseteq Nat
    <2> SUFFICES ASSUME NEW id \in Kept(c)
                 PROVE  RetainedSince(c.records[id]) + Retention(c.records[id]) \in Nat
        BY DEF Expiries
    <2>1. c.records[id] \in Record
        BY NoRecordHasNoRun DEF Kept, CacheTyped
    <2>2. RetainedSince(c.records[id]) \in Nat /\ Retention(c.records[id]) \in Nat
        BY <2>1, CacheAssumption DEF Record, RetainedSince, Retention
    <2> HIDE DEF Kept
    <2> QED BY <2>2
<1>6. Awaited(d)
    BY <1>2, <1>4, <1>5, LeastNatural DEF Awaited
<1> QED BY <1>1, <1>3, <1>6 DEF Bounded, d

(* Dropping records keeps the timer: it may come for nothing.              *)
LEMMA WithoutBounded ==
    ASSUME NEW c, Bounded(c), NEW gone \in SUBSET Kept(c)
    PROVE  Bounded(Without(c, gone))
<1> DEFINE d == Without(c, gone)
<1>1. CacheTyped(d) /\ Limited(d) /\ Kept(d) = Kept(c) \ gone /\ d.pruneAt = c.pruneAt
    BY WithoutLimited DEF Bounded
<1>2. d.pending = c.pending /\ \A id \in Id : d.records[id] = IF id \in gone THEN NoRecord ELSE c.records[id]
    BY WithoutForm DEF Bounded, Kept
<1> HIDE DEF d
<1>3. \A id \in Kept(d) : IsIdle(d, id) =>
            id \in Kept(c) /\ IsIdle(c, id) /\ d.records[id] = c.records[id]
    BY <1>1, <1>2 DEF Kept, IsIdle
<1>4. Awaited(d)
    BY <1>1, <1>3, AwaitedStays DEF Bounded
<1> QED BY <1>1, <1>4 DEF Bounded, d

LEMMA PruneBounded ==
    ASSUME NEW c, Bounded(c), NEW time \in Nat
    PROVE  Bounded(PruneRequestRecords(c, time))
BY WithoutBounded DEF PruneRequestRecords

(* Where the timer is set after pruning, it does not matter when it was to *)
(* come before.                                                            *)
LEMMA PruneAndScheduleBounded ==
    ASSUME NEW c, CacheTyped(c), Limited(c), NEW time \in Nat
    PROVE  Bounded(PruneAndSchedule(c, time))
<1> DEFINE gone == {id \in Kept(c) : /\ IsIdle(c, id)
                                     /\ time - RetainedSince(c.records[id]) >= Retention(c.records[id])}
           d == PruneRequestRecords(c, time)
<1>1. gone \in SUBSET Kept(c) /\ d = Without(c, gone)
    BY DEF PruneRequestRecords
<1> HIDE DEF gone, d
<1>2. CacheTyped(d) /\ Limited(d)
    BY <1>1, WithoutLimited
<1> QED BY <1>2, ScheduleBounded DEF PruneAndSchedule, d

LEMMA RegisterBounded ==
    ASSUME NEW c, Bounded(c), NEW id \in Id
    PROVE  Bounded(RegisterPending(c, id))
<1> DEFINE d == RegisterPending(c, id)
<1>1. CacheTyped(d) /\ d.records = c.records /\ d.pending = [c.pending EXCEPT ![id] = c.pending[id] + 1]
    BY RegisterForm DEF Bounded
<1>2. d.bytes = c.bytes /\ d.pruneAt = c.pruneAt
    BY DEF RegisterPending, Bounded, CacheTyped
<1> HIDE DEF d
<1>3. Limited(d)
    BY <1>1, <1>2, LimitedAlike DEF Bounded
<1>4. \A k \in Kept(d) : IsIdle(d, k) => k \in Kept(c) /\ IsIdle(c, k) /\ d.records[k] = c.records[k]
    <2> SUFFICES ASSUME NEW k \in Kept(d), IsIdle(d, k)
                 PROVE  k \in Kept(c) /\ IsIdle(c, k) /\ d.records[k] = c.records[k]
        OBVIOUS
    <2>1. k \in Id /\ k \in Kept(c)
        BY <1>1 DEF Kept
    <2>2. c.pending[id] \in Nat /\ c.pending \in [Id -> Nat]
        BY DEF Bounded, CacheTyped
    <2>3. d.pending[k] = 0
        BY DEF IsIdle
    <2>4. c.pending[k] = 0
        BY <1>1, <2>1, <2>2, <2>3
    <2> QED BY <1>1, <2>1, <2>4 DEF IsIdle
<1>5. Awaited(d)
    BY <1>2, <1>4, AwaitedStays DEF Bounded
<1> QED BY <1>1, <1>3, <1>5 DEF Bounded, d

LEMMA CompletePendingBounded ==
    ASSUME NEW c, Bounded(c), NEW id \in Id
    PROVE  Bounded(CompletePendingDelivery(c, id))
<1> DEFINE e == [c EXCEPT !.pending[id] = Less(c.pending[id])]
<1>1. CompletePendingDelivery(c, id) = ScheduleRequestPruneLocked(e)
    BY DEF CompletePendingDelivery, Less
<1>2. Less(c.pending[id]) \in Nat
    BY LessType DEF CacheTyped, Bounded
<1>3. CacheTyped(e) /\ e.records = c.records /\ e.bytes = c.bytes
    BY <1>2 DEF CacheTyped, Bounded
<1> HIDE DEF e
<1>4. Limited(e)
    BY <1>3, LimitedAlike DEF Bounded
<1> QED BY <1>1, <1>3, <1>4, ScheduleBounded

LEMMA CompleteDeliveryBounded ==
    ASSUME NEW c, Bounded(c), NEW id \in Id, NEW run \in Nat \ {0}, NEW acknowledged \in BOOLEAN,
           NEW time \in Nat
    PROVE  Bounded(CompleteDelivery(c, id, run, acknowledged, time))
<1>1. CASE c.records[id].run # run \/ ~c.records[id].complete
    BY <1>1 DEF CompleteDelivery
<1>2. CASE c.records[id].run = run /\ c.records[id].complete
  <2> DEFINE r == c.records[id]
             e == [c EXCEPT !.records[id].active = Less(r.active),
                            !.records[id].acknowledged = r.acknowledged \/ acknowledged,
                            !.records[id].delivered = time]
  <2>1. r \in Record
    BY <1>2, NoRecordHasNoRun DEF CacheTyped, Bounded, NoRecord
  <2>2. CompleteDelivery(c, id, run, acknowledged, time) = PruneAndSchedule(e, time)
    BY <1>2 DEF CompleteDelivery, Less
  <2>3. DOMAIN e = DOMAIN c /\ e.pending = c.pending /\ e.bytes = c.bytes
    BY DEF CacheTyped, Bounded
  <2>4. e.records = [c.records EXCEPT ![id] = Delivered(r, acknowledged, time)]
    BY <2>1 DEF CacheTyped, Bounded, Delivered, Record
  <2>5. Delivered(r, acknowledged, time) \in Record
    BY <2>1, DeliveredForm
  <2>11. Delivered(r, acknowledged, time).bytes = r.bytes
    BY <2>1 DEF Delivered, Record
  <2> HIDE DEF e
  <2>6. CacheTyped(e)
    BY <2>3, <2>4, <2>5 DEF CacheTyped, Bounded
  <2>7. /\ e.records[id] = Delivered(r, acknowledged, time)
        /\ \A k \in Id \ {id} : e.records[k] = c.records[k]
    BY <2>4 DEF CacheTyped, Bounded
  <2>8. \A k \in Id : e.records[k] = NoRecord <=> c.records[k] = NoRecord
    BY <2>1, <2>5, <2>7, NoRecordHasNoRun DEF CacheTyped, Record
  <2>9. \A k \in Kept(c) : e.records[k].bytes = c.records[k].bytes
    BY <2>11, <2>7 DEF Kept
  <2>10. Limited(e)
    BY <2>3, <2>8, <2>9, LimitedAlike DEF Bounded
  <2> QED BY <2>2, <2>6, <2>10, PruneAndScheduleBounded
<1> QED BY <1>1, <1>2

LEMMA EvictionBounded ==
    ASSUME NEW c, Bounded(c), NEW gone \in Evictions(c)
    PROVE  Bounded(Without(c, gone))
BY WithoutBounded DEF Evictions, Evictable

LEMMA NewRecordBounded ==
    ASSUME NEW c, Bounded(c), NEW request \in Request, NEW run \in Nat \ {0},
           c.records[request.id] = NoRecord, ~LacksCapacity(c)
    PROVE  Bounded(NewRecord(c, request, run))
<1> DEFINE id == request.id
           d == NewRecord(c, request, run)
           K == Kept(c)
<1>1. id \in Id /\ id \notin K
    BY DEF Request, Kept
<1>2. /\ CacheTyped(d) /\ d.pending = c.pending /\ d.records[id] \in Record /\ ~d.records[id].complete
      /\ \A k \in Id \ {id} : d.records[k] = c.records[k]
    BY NewRecordForm DEF Bounded
<1>3. d.bytes = c.bytes + ReservedBytes /\ d.pruneAt = c.pruneAt /\ d.records[id].bytes = ReservedBytes
    BY <1>1 DEF NewRecord, Bounded, CacheTyped
<1> HIDE DEF d
<1>4. Kept(d) = K \cup {id} /\ id \notin K /\ Kept(d) \ {id} = K
    BY <1>1, <1>2, NoRecordHasNoRun DEF Kept
<1> HIDE DEF id
<1>5. IsFiniteSet(K) /\ Cardinality(K) \in Nat /\ IsFiniteSet(Kept(d)) /\ Cardinality(Kept(d)) = Cardinality(K) + 1
    BY <1>4, FS_AddElement, FS_CardinalityType DEF Bounded, Limited
<1>6. Bytes(c, K) \in Nat /\ Weighed(d, Kept(d))
    BY <1>2, <1>5, KeptWeighs DEF Bounded
<1>7. Bytes(d, Kept(d)) = ReservedBytes + Bytes(d, K)
    BY <1>3, <1>4, <1>6, BytesOf
<1>8. \A k \in K : d.records[k] = c.records[k]
    BY <1>1, <1>2 DEF Kept
<1>9. Bytes(c, K) = Bytes(d, K)
    BY <1>5, <1>8, BytesAlike
<1>10. c.bytes = Bytes(c, K) /\ ReservedBytes \in Nat \ {0} /\ MaxRequestRecords \in Nat
       /\ MaxRequestCacheBytes \in Nat
    BY CacheAssumption DEF Bounded, Limited
<1>11. d.bytes = Bytes(d, Kept(d))
    BY <1>3, <1>6, <1>7, <1>9, <1>10
<1>12. d.bytes <= MaxRequestCacheBytes /\ Cardinality(Kept(d)) <= MaxRequestRecords
    BY <1>3, <1>5, <1>6, <1>10 DEF LacksCapacity
<1>13. \A k \in Kept(d) : d.records[k].bytes # 0
    BY <1>3, <1>4, <1>8, <1>10 DEF Bounded, Limited
<1>14. Limited(d)
    BY <1>5, <1>11, <1>12, <1>13 DEF Limited
<1>15. \A k \in Kept(d) : IsIdle(d, k) => k \in Kept(c) /\ IsIdle(c, k) /\ d.records[k] = c.records[k]
    BY <1>2, <1>4, <1>8 DEF IsIdle
<1>16. Awaited(d)
    BY <1>3, <1>15, AwaitedStays DEF Bounded
<1> QED BY <1>2, <1>14, <1>16 DEF Bounded, d

LEMMA ClaimBounded ==
    ASSUME NEW c, Bounded(c), NEW id \in Id, c.records[id] # NoRecord
    PROVE  Bounded([c EXCEPT !.records[id].active = @ + 1])
<1> DEFINE d == [c EXCEPT !.records[id].active = @ + 1]
           r == Claimed(c.records[id])
<1>1. /\ CacheTyped(d) /\ d.pending = c.pending /\ d.records = [c.records EXCEPT ![id] = r]
      /\ r \in Record /\ r.active = c.records[id].active + 1
    BY ClaimForm DEF Bounded
<1>2. d.bytes = c.bytes /\ d.pruneAt = c.pruneAt
    BY DEF Bounded, CacheTyped
<1>3. c.records[id] \in Record
    BY NoRecordHasNoRun DEF Bounded, CacheTyped
<1>4. r.bytes = c.records[id].bytes /\ r.active # 0
    BY <1>1, <1>3 DEF Claimed, Record
<1> HIDE DEF d, r
<1>5. d.records[id] = r /\ \A k \in Id \ {id} : d.records[k] = c.records[k]
    BY <1>1 DEF Bounded, CacheTyped
<1>6. \A k \in Id : d.records[k] = NoRecord <=> c.records[k] = NoRecord
    BY <1>1, <1>3, <1>5, NoRecordHasNoRun
<1>7. \A k \in Kept(c) : d.records[k].bytes = c.records[k].bytes
    BY <1>4, <1>5 DEF Kept
<1>8. Limited(d)
    BY <1>2, <1>6, <1>7, LimitedAlike DEF Bounded
<1>9. \A k \in Kept(d) : IsIdle(d, k) => k \in Kept(c) /\ IsIdle(c, k) /\ d.records[k] = c.records[k]
    BY <1>1, <1>4, <1>5, <1>6 DEF IsIdle, Kept
<1>10. Awaited(d)
    BY <1>2, <1>9, AwaitedStays DEF Bounded
<1> QED BY <1>1, <1>8, <1>10 DEF Bounded, d

LEMMA CompleteRecordBounded ==
    ASSUME NEW c, Bounded(c), NEW id \in Id, NEW run \in Nat \ {0}, NEW time \in Nat
    PROVE  Bounded(CompleteRecord(c, id, run, time))
<1>1. CASE c.records[id].run # run
    BY <1>1 DEF CompleteRecord
<1>2. CASE c.records[id].run = run
  <2> DEFINE r == c.records[id]
             e == [c EXCEPT !.records[id].complete = TRUE,
                            !.records[id].active = r.active + 1,
                            !.records[id].completed = time,
                            !.records[id].bytes = FinishedBytes,
                            !.bytes = c.bytes - (r.bytes - FinishedBytes)]
             K == Kept(c)
  <2>1. r \in Record
    BY <1>2, NoRecordHasNoRun DEF CacheTyped, Bounded, NoRecord
  <2>2. CompleteRecord(c, id, run, time) = PruneAndSchedule(e, time)
    BY <1>2 DEF CompleteRecord
  <2>3. DOMAIN e = DOMAIN c /\ e.pending = c.pending /\ e.bytes = c.bytes - (r.bytes - FinishedBytes)
    BY DEF CacheTyped, Bounded
  <2>4. e.records = [c.records EXCEPT ![id] = Completed(r, time)]
    BY <2>1 DEF CacheTyped, Bounded, Completed, Record
  <2>5. Completed(r, time) \in Record
    BY <2>1, CompletedForm
  <2>6. Completed(r, time).bytes = FinishedBytes
    BY <2>1 DEF Completed, Record
  <2> HIDE DEF e
  <2>7. CacheTyped(e)
    BY <2>3, <2>4, <2>5 DEF CacheTyped, Bounded
  <2>8. /\ e.records[id] = Completed(r, time)
        /\ \A k \in Id \ {id} : e.records[k] = c.records[k]
    BY <2>4 DEF CacheTyped, Bounded
  <2>9. id \in K /\ Kept(e) = K
    BY <2>1, <2>5, <2>8, NoRecordHasNoRun DEF Kept
  <2>10. IsFiniteSet(K) /\ IsFiniteSet(K \ {id})
    BY FS_Subset DEF Bounded, Limited
  <2>11. /\ Weighed(c, K) /\ Weighed(e, K)
         /\ Bytes(c, K \ {id}) \in Nat
    BY <2>7, <2>9, <2>10, KeptWeighs DEF Bounded
  <2>12. Bytes(c, K) = r.bytes + Bytes(c, K \ {id})
    BY <2>9, <2>11, BytesOf
  <2>13. Bytes(e, K) = FinishedBytes + Bytes(e, K \ {id})
    BY <2>6, <2>8, <2>9, <2>11, BytesOf
  <2>14. Bytes(c, K \ {id}) = Bytes(e, K \ {id})
    <3>1. \A k \in K \ {id} : c.records[k].bytes = e.records[k].bytes
        BY <2>8 DEF Kept
    <3> QED BY <2>10, <3>1, BytesAlike
  <2>15. r.bytes \in Nat \ {0} /\ c.bytes = Bytes(c, K) /\ c.bytes <= MaxRequestCacheBytes
         /\ MaxRequestCacheBytes \in Nat
    BY <2>1, <2>9, CacheAssumption DEF Record, Bounded, Limited
  <2>16. e.bytes = Bytes(e, K) /\ e.bytes <= MaxRequestCacheBytes
    <3> DEFINE rest == Bytes(c, K \ {id})
               b == r.bytes
    <3>1. rest \in Nat /\ b \in Nat \ {0} /\ c.bytes = b + rest /\ e.bytes = c.bytes - (b - 1)
          /\ Bytes(e, K) = 1 + rest
        BY <2>3, <2>11, <2>12, <2>13, <2>14, <2>15 DEF FinishedBytes
    <3> HIDE DEF rest, b
    <3> QED BY <2>15, <3>1
  <2>17. \A k \in K : e.records[k].bytes # 0
    BY <2>6, <2>8 DEF Bounded, Limited, Kept, FinishedBytes
  <2>18. Limited(e)
    BY <2>9, <2>16, <2>17 DEF Bounded, Limited
  <2> QED BY <2>2, <2>7, <2>18, PruneAndScheduleBounded
<1> QED BY <1>1, <1>2

LEMMA StopCacheBounded ==
    ASSUME NEW c, Bounded(c)
    PROVE  Bounded(StopCache(c))
<1> DEFINE gone == {id \in Kept(c) : ~c.records[id].complete}
           a == [c EXCEPT !.pending = [id \in Id |-> 0]]
           k == Without(a, gone)
           m == [id \in Id |-> IF k.records[id] = NoRecord THEN NoRecord ELSE Settled(k.records[id])]
           e == [k EXCEPT !.records = m]
<1>1. StopCache(c) = ScheduleRequestPruneLocked(e)
    BY DEF StopCache, Settled
<1>2. CacheTyped(a) /\ a.bytes = c.bytes /\ a.records = c.records
    BY DEF CacheTyped, Bounded
<1>3. gone \in SUBSET Kept(c)
    OBVIOUS
<1> HIDE DEF gone, a
<1>4. Limited(a) /\ Kept(a) = Kept(c)
    BY <1>2, LimitedAlike DEF Bounded, Kept
<1>5. CacheTyped(k) /\ Limited(k)
    BY <1>2, <1>3, <1>4, WithoutLimited
<1> HIDE DEF k
<1>6. \A id \in Id : m[id] = IF k.records[id] = NoRecord THEN NoRecord ELSE Settled(k.records[id])
    OBVIOUS
<1>7. DOMAIN m = Id /\ m = [id \in DOMAIN m |-> m[id]]
    OBVIOUS
<1>8. k.records \in [Id -> Record \cup {NoRecord}] /\ \A r \in Record : Settled(r) \in Record /\ Settled(r).bytes = r.bytes
    BY <1>5 DEF CacheTyped, Settled, Record
<1>9. CacheTyped(e) /\ e.bytes = k.bytes /\ e.records = m
    <2> HIDE DEF m
    <2>1. \A id \in Id : m[id] \in Record \cup {NoRecord}
        BY <1>6, <1>8
    <2>2. m \in [Id -> Record \cup {NoRecord}]
        BY <1>7, <2>1
    <2> QED BY <1>5, <2>2 DEF CacheTyped
<1> HIDE DEF m, e
<1>10. \A id \in Id : e.records[id] = NoRecord <=> k.records[id] = NoRecord
    BY <1>6, <1>8, <1>9, NoRecordHasNoRun
<1>11. \A id \in Kept(k) : e.records[id].bytes = k.records[id].bytes
    BY <1>6, <1>8, <1>9 DEF Kept
<1>12. Limited(e)
    BY <1>5, <1>9, <1>10, <1>11, LimitedAlike
<1> QED BY <1>1, <1>9, <1>12, ScheduleBounded

LEMMA EmptyCacheBounded == Bounded(EmptyCache)
<1>1. Kept(EmptyCache) = {} /\ EmptyCache.bytes = 0
    BY DEF EmptyCache, Kept
<1>2. Bytes(EmptyCache, {}) = 0
    BY BytesFirst, FS_EmptySet
<1>3. Limited(EmptyCache)
    BY <1>1, <1>2, FS_EmptySet, CacheAssumption DEF Limited
<1>4. Awaited(EmptyCache)
    BY <1>1 DEF Awaited, Expiries
<1> QED BY <1>3, <1>4, EmptyCacheType DEF Bounded

-----------------------------------------------------------------------------
(* Every step keeps the cache within its limits.                           *)

LEMMA FinishBounded ==
    ASSUME Sound, Bounded(cache), NEW i \in Instance
    PROVE  Bounded(FinishedCache(slot[i]))
<1>1. slot[i] \in Slot /\ now \in Nat /\ SlotSound(slot[i])
    BY At
<1>2. slot[i].pending \/ slot[i].record # 0 => slot[i].request.id \in Id
    BY <1>1 DEF SlotSound, Slot, Phase, Request, Served
<1> DEFINE d == IF slot[i].pending THEN CompletePendingDelivery(cache, slot[i].request.id) ELSE cache
<1>3. Bounded(d)
    BY <1>2, CompletePendingBounded
<1> HIDE DEF d
<1>4. slot[i].record # 0 => Bounded(CompleteDelivery(d, slot[i].request.id, slot[i].record, FALSE, now))
    BY <1>1, <1>2, <1>3, CompleteDeliveryBounded DEF Slot
<1> QED BY <1>3, <1>4 DEF FinishedCache, d

LEMMA ConnectionBounded ==
    ASSUME Sound, Bounded(cache), NEW i \in Instance, Connection(i)
    PROVE  Bounded(cache')
<1>1. slot[i] \in Slot /\ pipe[i] \in Pipe /\ now \in Nat /\ SlotSound(slot[i])
    BY At
<1>2. CASE UNCHANGED cache
    BY <1>2
<1>3. CASE Finish(i)
    BY <1>3, FinishBounded DEF Finish
<1>4. CASE DispatchRequest(i)
  <2>1. cache' = RegisterPending(cache, pipe[i].request.id) /\ pipe[i].request # NoRequest
    BY <1>4 DEF DispatchRequest
  <2>2. pipe[i].request.id \in Id
    BY <1>1, <2>1 DEF Pipe, Request
  <2> QED BY <2>1, <2>2, RegisterBounded
<1>5. CASE ReadAcknowledgement(i)
  <2>1. slot[i].request.id \in Id
    BY <1>1, <1>5 DEF ReadAcknowledgement, SlotSound, Served, Request
  <2>2. slot[i].record # 0 => Bounded(CompleteDelivery(cache, slot[i].request.id, slot[i].record, TRUE, now))
    BY <1>1, <2>1, CompleteDeliveryBounded DEF Slot
  <2> QED BY <1>5, <2>2 DEF ReadAcknowledgement
<1>6. OnRearmReady(i) \/ DetachPipe(i) \/ RecreatePipeInstance(i) \/ ClientConnected(i) \/ WriteResponse(i)
      => UNCHANGED cache
    BY DEF OnRearmReady, DetachPipe, RecreatePipeInstance, ClientConnected, WriteResponse
<1>7. (\E trusted \in BOOLEAN : HandleConnectedInstance(i, trusted)) \/ TransferFails(i)
      => Finish(i) \/ UNCHANGED cache
    BY DEF HandleConnectedInstance, TransferFails
<1> QED BY <1>2, <1>3, <1>4, <1>5, <1>6, <1>7 DEF Connection

(* Looking a request up prunes, makes room and adds a record only where    *)
(* there is room.                                                          *)
LEMMA ExecuteOnceBounded ==
    ASSUME Sound, Bounded(cache), NEW i \in Instance, ExecuteOnce(i)
    PROVE  Bounded(cache')
<1> DEFINE request == slot[i].job.request
           pruned == PruneRequestRecords(cache, now)
           run == executed[request] + 1
<1>1. slot[i].pc = "begun" /\ slot[i].pc \in Working
    BY DEF ExecuteOnce, Working, Carrying
<1>2. request \in Request /\ request.id \in Id
    BY <1>1, JobOf
<1>3. now \in Nat /\ run \in Nat \ {0}
    BY <1>2, At
<1>4. Bounded(pruned)
    BY <1>3, PruneBounded
<1>5. \/ cache' = pruned
      \/ /\ pruned.records[request.id] = NoRecord
         /\ \E gone \in Evictions(pruned) :
               LET roomy == Without(pruned, gone)
               IN \/ cache' = roomy
                  \/ ~LacksCapacity(roomy) /\ cache' = NewRecord(roomy, request, run)
    BY Zenon DEF ExecuteOnce
<1> HIDE DEF pruned, request, run
<1>6. CASE cache' = pruned
    BY <1>4, <1>6
<1>7. ASSUME pruned.records[request.id] = NoRecord, NEW gone \in Evictions(pruned),
             \/ cache' = Without(pruned, gone)
             \/ /\ ~LacksCapacity(Without(pruned, gone))
                /\ cache' = NewRecord(Without(pruned, gone), request, run)
      PROVE  Bounded(cache')
  <2> DEFINE roomy == Without(pruned, gone)
  <2>1. Bounded(roomy)
    BY <1>4, EvictionBounded
  <2>2. roomy.records[request.id] = NoRecord
    BY <1>2, <1>4, <1>7, EvictionForm DEF Bounded
  <2> HIDE DEF roomy
  <2>3. CASE cache' = roomy
    BY <2>1, <2>3
  <2>4. CASE ~LacksCapacity(roomy) /\ cache' = NewRecord(roomy, request, run)
    BY <1>2, <1>3, <2>1, <2>2, <2>4, NewRecordBounded
  <2> QED BY <1>7, <2>3, <2>4 DEF roomy
<1> QED BY <1>5, <1>6, <1>7, Zenon

LEMMA HandlingBounded ==
    ASSUME Sound, Bounded(cache), NEW i \in Instance, Handling(i)
    PROVE  Bounded(cache')
<1> DEFINE job == slot[i].job
<1>1. slot[i] \in Slot /\ now \in Nat /\ SlotSound(slot[i])
    BY At
<1>2. slot[i].pc \in Working => job \in Job /\ job.request.id \in Id
    BY JobOf
<1>3. CASE UNCHANGED cache
    BY <1>3
<1>4. CASE TakeAnswer(i)
  <2>1. slot[i].pc = "waiting" /\ slot[i].pc \in Working
    BY <1>4 DEF TakeAnswer, Working, Carrying, Attached
  <2>2. job.run # 0 /\ cache.records[job.request.id].run = job.run
    BY <1>1, <1>4, <2>1, Zenon DEF TakeAnswer, SlotSound, Attached
  <2>3. cache.records[job.request.id] # NoRecord
    BY <2>2 DEF NoRecord
  <2>4. cache' = [cache EXCEPT !.records[job.request.id].active = @ + 1]
    BY <1>4 DEF TakeAnswer
  <2> HIDE DEF job
  <2> QED BY <1>2, <2>1, <2>3, <2>4, ClaimBounded
<1>5. CASE HandlerReturns(i)
  <2>1. slot[i].pc = "dispatched" /\ slot[i].pc \in Working
    BY <1>5 DEF HandlerReturns, Working, Carrying, Attached, Executing
  <2>2. job.run \in Nat \ {0}
    BY <1>1, <1>2, <2>1 DEF SlotSound, Attached, Executing, Job
  <2>3. cache' = CompleteRecord(cache, job.request.id, job.run, now)
    BY <1>5 DEF HandlerReturns
  <2> QED BY <1>1, <1>2, <2>1, <2>2, <2>3, CompleteRecordBounded
<1>6. CASE ReleasePending(i)
  <2>1. slot[i].pc \in Working
    BY <1>6 DEF ReleasePending, Working
  <2> QED BY <1>2, <1>6, <2>1, CompletePendingBounded DEF ReleasePending
<1>7. CASE Respond(i)
  <2>1. slot[i].pc \in Working
    BY <1>7 DEF Respond, Working
  <2>2. job.code = "Result" => job.run \in Nat \ {0}
    BY <1>1, <1>2, <2>1 DEF SlotSound, Job
  <2>3. job.code = "Result" => Bounded(CompleteDelivery(cache, job.request.id, job.run, FALSE, now))
    BY <1>1, <1>2, <2>1, <2>2, CompleteDeliveryBounded
  <2> QED BY <1>7, <2>3 DEF Respond
<1>8. HandlerBegins(i) \/ ApartmentUnavailable(i) \/ StopWaiting(i) \/ Handle(i) \/ StopInHandler(i)
      => UNCHANGED cache
    BY DEF HandlerBegins, ApartmentUnavailable, StopWaiting, Handle, StopInHandler
<1> QED BY <1>3, <1>4, <1>5, <1>6, <1>7, <1>8, ExecuteOnceBounded DEF Handling

LEMMA LifeCycleBounded ==
    ASSUME Bounded(cache), LifeCycle
    PROVE  Bounded(cache')
<1>1. \/ UNCHANGED cache
      \/ cache' = StopCache(cache)
      \/ cache' = EmptyCache
    BY DEF LifeCycle, Start, OnStartRetry, CreatePipesFails, CreatePipes, InstallPipes, RequestStop, Stop,
           RequestTokenStop, StopDrained, Crash
<1> QED BY <1>1, StopCacheBounded, EmptyCacheBounded

LEMMA StepBounded == Sound /\ Bounded(cache) /\ [Next]_vars => Bounded(cache')
<1> SUFFICES ASSUME Sound, Bounded(cache), [Next]_vars PROVE Bounded(cache')
    OBVIOUS
<1>1. CASE UNCHANGED cache
    BY <1>1
<1>2. CASE Server
  <2>1. CASE OnRequestPrune
    BY <2>1, At, PruneAndScheduleBounded DEF OnRequestPrune, Bounded, Sound, Typed
  <2> QED BY <1>2, <2>1, LifeCycleBounded, ConnectionBounded, HandlingBounded DEF Server
<1>3. Tick \/ ClientsStep \/ UNCHANGED vars => UNCHANGED cache
    BY DEF Tick, ClientsStep, ClientStep, vars, serverVars
<1> QED BY <1>1, <1>2, <1>3 DEF Next, ServerStep

CacheLimited == Bounded(cache)

(***************************************************************************)
(* The cache of answers never outgrows its two limits, its byte count is   *)
(* the sum of what its records take, and the timer comes in time for every *)
(* record that nothing needs (ExecuteOnce, PruneRequestRecords,            *)
(* ScheduleRequestPruneLocked), for every number of records and every size *)
(* of the cache.                                                           *)
(***************************************************************************)
THEOREM CacheStaysBounded == Spec => []CacheIsBounded
<1>1. Init => CacheLimited
    BY EmptyCacheBounded DEF Init, ServerInit, CacheLimited
<1>2. CacheLimited => CacheIsBounded
    BY DEF CacheLimited, Bounded, Limited, Awaited, CacheIsBounded, Bytes
<1>3. Sound /\ CacheLimited /\ [Next]_vars => CacheLimited'
    BY StepBounded DEF CacheLimited
<1> QED BY <1>1, <1>2, <1>3, ChannelSound, PTL DEF Spec

(***************************************************************************)
(* The cache can neither grow past its limits nor lose count of who still  *)
(* needs a record: no record stays for ever, and none is dropped while a   *)
(* delivery or a request on its way to the handler needs it (ExecuteOnce,  *)
(* CompleteDelivery, CompletePendingDelivery, Stop).                       *)
(***************************************************************************)
THEOREM CacheIsKept == Spec => []CacheIsSound
BY ChannelTypeOK, CountsAreExact, CacheStaysBounded, PTL DEF CacheIsSound
=============================================================================
