-------------------------- MODULE StartupTaskProofs --------------------------
(***************************************************************************)
(* Proofs about StartupTask, for any set of subscribers and any budgets:   *)
(* no handler runs and nothing is drained after Stop or Unsubscribe has    *)
(* returned (NothingRunsAfterReturn), what is shown as settled answers the *)
(* newest request (SettledAnswersTheLatestRequest), and whoever subscribes *)
(* is told what was published last (SubscribersAreUpToDate).               *)
(*                                                                         *)
(* None of the three is inductive.  The second is about answers that are   *)
(* still on their way: an operation of the newest revision is the newest   *)
(* request itself, and a value the system gave for it is one it has had    *)
(* since (Sound).  The third is about publications that are still being    *)
(* told: who is behind is in the queue, is at hand, or is among those the  *)
(* publication at hand has yet to reach (WillBeTold).                      *)
(***************************************************************************)
EXTENDS StartupTask, SequenceTheorems, FiniteSetTheorems, TLAPS

Operation == [revision : Nat, kind : {"none", "desired", "refresh"}, desired : BOOLEAN]

Requests == [revision : Nat, latest : Operation, settled : BOOLEAN, inFlight : Operation]

Snapshot == [publication : Nat, revision : Nat, enabled : BOOLEAN, known : BOOLEAN,
             busy : BOOLEAN, failed : BOOLEAN]

RequestItem == [kind : {"request"}, what : {"desired", "refresh"}, desired : BOOLEAN]
DeliverItem == [kind : {"deliver"}, to : Subscriber]
QueryItem == [kind : {"query"}, op : Operation]
CompleteItem == [kind : {"complete"}, op : Operation, known : BOOLEAN, actual : BOOLEAN]
PublishItem == [kind : {"publish"}, snapshot : Snapshot, rest : Seq(Subscriber), start : Operation]

QueueItem == RequestItem \cup DeliverItem \cup QueryItem \cup CompleteItem
Item == {NoItem} \cup QueueItem \cup PublishItem

Pending == [op : Operation, step : {"set", "query", "answer"}, known : BOOLEAN, actual : BOOLEAN]
Work == [queue : Seq(QueueItem), drainer : {NoOne, "ui", "pool"}, item : Item,
         delivering : Subscriber \cup {NoOne}]
Entry == [pc : {"out", "in", "leaving", "gone"}, told : Nat, seen : BOOLEAN]

(* The types of what the proofs speak of.                                  *)
Typed ==
    /\ os \in [enabled : BOOLEAN, since : SUBSET BOOLEAN]
    /\ requests \in Requests
    /\ published \in [snapshot : Snapshot, confirmed : [known : BOOLEAN, enabled : BOOLEAN],
                      saved : BOOLEAN]
    /\ work \in Work
    /\ async \in SUBSET Pending
    /\ entry \in [Subscriber -> Entry]
    /\ life \in [stopped : BOOLEAN, down : BOOLEAN]

(***************************************************************************)
(* The queue: what is queued or at hand has a thread that drains it, and a *)
(* running handler is the one the publication at hand is being told to.    *)
(***************************************************************************)
Drained ==
    /\ work.queue # <<>> \/ work.item # NoItem => work.drainer # NoOne
    /\ work.delivering # NoOne =>
          /\ ItemIs("publish") /\ work.item.rest # <<>>
          /\ work.delivering = Head(work.item.rest)
          /\ entry[work.delivering].told = work.item.snapshot.publication + 1
    /\ \A s \in Subscriber : entry[s].pc = "gone" /\ ~life.stopped => work.delivering # s
    /\ life.down => life.stopped /\ work.drainer = NoOne

(***************************************************************************)
(* The requests: an operation of the newest revision is the newest request *)
(* (unless that has been given up), and a value the system gave for it is  *)
(* one it has had since that request.                                      *)
(***************************************************************************)
Current(op) ==
    /\ op \in Operation /\ op.revision > 0 /\ op.revision <= requests.revision
    /\ op.revision = requests.revision /\ requests.latest # NoOperation => op = requests.latest

Answers(op, known, actual) ==
    /\ Current(op)
    /\ known /\ op.revision = requests.revision => actual \in os.since

Sound(item) ==
    /\ item.kind = "query" => Current(item.op)
    /\ item.kind = "complete" => Answers(item.op, item.known, item.actual)
    /\ item.kind = "publish" => item.start = NoOperation \/ Current(item.start)

Requested ==
    /\ requests.latest # NoOperation =>
          requests.revision > 0 /\ requests.latest.revision = requests.revision
    /\ requests.revision > 0 => os.enabled \in os.since
    /\ \A a \in async : Answers(a.op, a.known, a.actual)
    /\ \A i \in DOMAIN work.queue : Sound(work.queue[i])
    /\ Sound(work.item)

Settled ==
    /\ published.snapshot.revision = requests.revision
    /\ SettledAnswersTheLatestRequest

(***************************************************************************)
(* The publications: who is subscribed has been told the last one, or will *)
(* be, and has not been told a later one.                                  *)
(***************************************************************************)
IsUpToDate(s) ==
    /\ entry[s].told = published.snapshot.publication + 1
    /\ entry[s].seen = published.snapshot.enabled

IsQueued(s) == \E i \in DOMAIN work.queue : work.queue[i].kind = "deliver" /\ work.queue[i].to = s

WillBeTold(s) ==
    \/ IsQueued(s)
    \/ ItemIs("deliver") /\ work.item.to = s
    \/ ItemIs("publish") /\ \E i \in DOMAIN work.item.rest : work.item.rest[i] = s

IsServed(s) ==
    \/ IsUpToDate(s)
    \/ entry[s].told <= published.snapshot.publication /\ WillBeTold(s)

Told ==
    /\ \A s \in Subscriber : entry[s].pc = "out" => entry[s].told = 0
    /\ ~life.stopped =>
          /\ ItemIs("publish") => work.item.snapshot = published.snapshot
          /\ \A s \in Subscriber : entry[s].pc = "in" => IsServed(s)

IInv == Typed /\ Drained /\ Requested /\ Settled /\ Told
-----------------------------------------------------------------------------

(***************************************************************************)
(* The operators.                                                          *)
(***************************************************************************)

(* A publication is told to everyone who is subscribed (Handlers).         *)
LEMMA HandlersAreAll ==
    ASSUME StartupAssumption, Typed
    PROVE  /\ Handlers \in Seq(Subscriber)
           /\ \A s \in Subscriber : entry[s].pc = "in" =>
                 \E i \in DOMAIN Handlers : Handlers[i] = s
  <1> DEFINE S == {s \in Subscriber : entry[s].pc = "in"}
             n == Cardinality(S)
  <1>1. IsFiniteSet(S)
    BY FS_Subset DEF StartupAssumption
  <1>2. n \in Nat /\ ExistsBijection(1 .. n, S)
    BY <1>1, FS_CardinalityType, Zenon
  <1>3. \E f \in [1 .. n -> S] : IsInjective(f)
    <2>1. PICK f \in [1 .. n -> S] : \A a, b \in 1 .. n : f[a] = f[b] => a = b
      BY <1>2 DEF ExistsBijection, Bijection, Injection, IsInjective
    <2> QED
      BY <2>1 DEF IsInjective
  <1>4. Handlers \in [1 .. n -> S] /\ IsInjective(Handlers)
    BY <1>3 DEF Handlers, SetToSeq
  <1>5. Handlers \in Injection(1 .. n, S)
    BY <1>4 DEF Injection
  <1>6. Cardinality(1 .. n) = n
    BY <1>2, FS_Interval
  <1>7. Handlers \in Surjection(1 .. n, S)
    <2> HIDE DEF S
    <2>1. \A T, f : f \in Injection(1 .. n, T) /\ IsFiniteSet(T) =>
                (Cardinality(1 .. n) = Cardinality(T) <=> f \in Surjection(1 .. n, T))
      BY FS_Injection, Zenon
    <2> QED
      BY <2>1, <1>1, <1>5, <1>6
  <1>8. Handlers \in Seq(Subscriber)
    <2>1. Handlers \in [1 .. n -> Subscriber]
      BY <1>4
    <2> HIDE DEF n
    <2> QED
      BY <1>2, <2>1, SeqDef
  <1>9. ASSUME NEW s \in Subscriber, entry[s].pc = "in"
        PROVE  \E i \in DOMAIN Handlers : Handlers[i] = s
    BY <1>4, <1>7, <1>9 DEF Surjection
  <1> QED
    BY <1>8, <1>9

(* Post appends to the queue and leaves no queue without a thread.         *)
LEMMA PostedItem ==
    ASSUME StartupAssumption, Typed, NEW t \in {"ui", "pool"}, NEW item \in QueueItem,
           work' = Posted(t, item)
    PROVE  /\ work'.queue \in Seq(QueueItem) /\ work'.queue = Append(work.queue, item)
           /\ work'.drainer \in {"ui", "pool"}
           /\ work'.item = work.item
           /\ work'.delivering = work.delivering
           /\ work' \in Work
           /\ Len(work'.queue) = Len(work.queue) + 1
           /\ work'.queue[Len(work.queue) + 1] = item
           /\ \A i \in 1 .. Len(work.queue) : work'.queue[i] = work.queue[i]
           /\ \A i \in DOMAIN work'.queue : i \in DOMAIN work.queue \/ work'.queue[i] = item
  <1> DEFINE q == work.queue
  <1>1. q \in Seq(QueueItem) /\ work.item \in Item /\ work.delivering \in Subscriber \cup {NoOne}
        /\ work.drainer \in {NoOne, "ui", "pool"}
    BY DEF Typed, Work
  <1>2. /\ work'.queue = Append(q, item)
        /\ work'.drainer = (IF work.drainer = NoOne THEN t ELSE work.drainer)
        /\ work'.item = work.item /\ work'.delivering = work.delivering
        /\ work' = [queue |-> work'.queue, drainer |-> work'.drainer, item |-> work'.item,
                    delivering |-> work'.delivering]
    BY DEF Typed, Work, Posted
  <1> HIDE DEF q
  <1>3. /\ Append(q, item) \in Seq(QueueItem) /\ Len(Append(q, item)) = Len(q) + 1
        /\ Append(q, item)[Len(q) + 1] = item
        /\ \A i \in 1 .. Len(q) : Append(q, item)[i] = q[i]
        /\ DOMAIN q = 1 .. Len(q) /\ Len(q) \in Nat
        /\ DOMAIN Append(q, item) = 1 .. Len(q) + 1
    BY <1>1
  <1>4. \A i \in DOMAIN Append(q, item) : i \in DOMAIN q \/ Append(q, item)[i] = item
    BY <1>3
  <1>5. work'.drainer \in {"ui", "pool"}
    BY <1>1, <1>2
  <1>6. work' \in Work
    BY <1>1, <1>2, <1>3, <1>5 DEF Work
  <1> QED
    BY <1>2, <1>3, <1>4, <1>5, <1>6 DEF q
(* The item at hand is done with.                                          *)
LEMMA ItemDone ==
    ASSUME StartupAssumption, Typed, Drained, UNCHANGED <<entry, life>>,
           ItemIs("publish") => work.item.rest = <<>>,
           work' = [work EXCEPT !.item = NoItem]
    PROVE  /\ Drained' /\ work' \in Work
           /\ work'.queue = work.queue /\ work'.item = NoItem
  <1>1. work.delivering = NoOne
    BY DEF Drained
  <1>2. /\ work' \in Work /\ work'.queue = work.queue /\ work'.item = NoItem
        /\ work'.drainer = work.drainer /\ work'.delivering = NoOne
    BY <1>1 DEF Typed, Work, Item
  <1>3. \A s \in Subscriber : NoOne # s
    BY DEF StartupAssumption
  <1> QED
    BY <1>2, <1>3 DEF Drained

(* The item at hand becomes a publication.                                 *)
LEMMA ItemPublished ==
    ASSUME StartupAssumption, Typed, Drained, UNCHANGED <<entry, life>>,
           work.item # NoItem, ~ItemIs("publish"),
           NEW item \in PublishItem, work' = [work EXCEPT !.item = item]
    PROVE  /\ Drained' /\ work' \in Work
           /\ work'.queue = work.queue /\ work'.item = item
  <1>1. work.delivering = NoOne
    BY DEF Drained
  <1>2. /\ work' \in Work /\ work'.queue = work.queue /\ work'.item = item
        /\ work'.drainer = work.drainer /\ work'.delivering = NoOne
    BY <1>1 DEF Typed, Work, Item
  <1>3. \A s \in Subscriber : NoOne # s
    BY DEF StartupAssumption
  <1> QED
    BY <1>2, <1>3 DEF Drained

(* A thread posts an item.                                                 *)
LEMMA PostingDrained ==
    ASSUME StartupAssumption, Typed, Drained, NEW t \in {"ui", "pool"}, NEW item \in QueueItem,
           ~life.stopped, UNCHANGED life,
           \A s \in Subscriber :
                /\ entry'[s].told = entry[s].told
                /\ entry'[s].pc = "gone" => entry[s].pc = "gone",
           work' = Posted(t, item)
    PROVE  Drained'
  <1>1. /\ work'.drainer # NoOne /\ work'.item = work.item /\ work'.delivering = work.delivering
    BY PostedItem DEF StartupAssumption
  <1>2. work.delivering \in Subscriber \cup {NoOne}
    BY DEF Typed, Work
  <1> QED
    BY <1>1, <1>2 DEF Drained, ItemIs

(* No new request: the newest one stands or is given up.                   *)
NothingIsRequested ==
    /\ requests' \in Requests
    /\ requests'.revision = requests.revision
    /\ requests'.latest \in {requests.latest, NoOperation}

LEMMA UnchangedRequests ==
    ASSUME Typed, requests' = requests
    PROVE  NothingIsRequested
  BY DEF Typed, NothingIsRequested

(* Without a new request every item stays sound, whatever other values the *)
(* system has in the meantime.                                             *)
LEMMA StaysSound ==
    ASSUME NothingIsRequested, os.since \subseteq os'.since
    PROVE  /\ \A op, known, actual : Answers(op, known, actual) => Answers(op, known, actual)'
           /\ \A item : Sound(item) => Sound(item)'
  BY DEF NothingIsRequested, Current, Answers, Sound

(* Items leave the queue, or move to the hand.                             *)
LEMMA QueueStaysSound ==
    ASSUME Requested, NothingIsRequested, os.since \subseteq os'.since,
           os'.enabled \in os'.since \/ os' = os,
           \A a \in async' : a \in async \/ Answers(a.op, a.known, a.actual)',
           \A i \in DOMAIN work'.queue :
              \/ \E j \in DOMAIN work.queue : work'.queue[i] = work.queue[j]
              \/ Sound(work.queue[i])',
           work'.item = work.item \/ Sound(work.item)'
    PROVE  Requested'
  <1>1. /\ \A op, known, actual : Answers(op, known, actual) => Answers(op, known, actual)'
        /\ \A item : Sound(item) => Sound(item)'
    BY StaysSound
  <1>2. \A a \in async' : Answers(a.op, a.known, a.actual)'
    BY <1>1 DEF Requested
  <1>3. \A i \in DOMAIN work'.queue : Sound(work.queue[i])'
    BY <1>1 DEF Requested
  <1>4. Sound(work.item)'
    BY <1>1 DEF Requested
  <1> QED
    BY <1>2, <1>3, <1>4 DEF Requested, NothingIsRequested
(* What is published stands, and nobody is forgotten.                      *)
LEMMA StaysSettled ==
    ASSUME Settled, published' = published, NothingIsRequested, os.since \subseteq os'.since,
           ~life'.stopped => ~life.stopped
    PROVE  Settled'
  BY DEF Settled, SettledAnswersTheLatestRequest, NothingIsRequested, NoOperation

LEMMA StaysTold ==
    ASSUME Told, published'.snapshot = published.snapshot,
           ~life'.stopped => ~life.stopped,
           \A s \in Subscriber :
                /\ entry'[s].told = entry[s].told /\ entry'[s].seen = entry[s].seen
                /\ entry'[s].pc = "in" => entry[s].pc = "in"
                /\ entry'[s].pc = "out" => entry[s].pc = "out",
           ItemIs("publish")' => /\ ItemIs("publish")
                                 /\ work'.item.snapshot = work.item.snapshot,
           \A s \in Subscriber : ~life.stopped /\ entry'[s].pc = "in" =>
                (WillBeTold(s) => IsUpToDate(s) \/ WillBeTold(s)')
    PROVE  Told'
  <1>1. ASSUME NEW s \in Subscriber, ~life'.stopped, entry'[s].pc = "in"
        PROVE  IsServed(s)'
    <2>1. IsServed(s)
      BY <1>1 DEF Told
    <2>2. IsUpToDate(s) => IsUpToDate(s)'
      BY DEF IsUpToDate
    <2> QED
      BY <1>1, <2>1, <2>2 DEF IsServed
  <1>2. ~life'.stopped /\ ItemIs("publish")' => work'.item.snapshot = published'.snapshot
    BY DEF Told
  <1>3. \A s \in Subscriber : entry'[s].pc = "out" => entry'[s].told = 0
    BY DEF Told
  <1> QED
    BY <1>1, <1>2, <1>3 DEF Told

(* The queue only grows.                                                   *)
LEMMA PostedStaysTold ==
    ASSUME StartupAssumption, Typed, NEW t \in {"ui", "pool"}, NEW item \in QueueItem,
           work' = Posted(t, item), NEW s \in Subscriber, WillBeTold(s)
    PROVE  WillBeTold(s)'
  <1>1. /\ work'.item = work.item
        /\ \A i \in DOMAIN work.queue : i \in DOMAIN work'.queue /\ work'.queue[i] = work.queue[i]
    <2>1. work.queue \in Seq(QueueItem)
      BY DEF Typed, Work
    <2>2. /\ work'.queue \in Seq(QueueItem) /\ Len(work'.queue) = Len(work.queue) + 1
          /\ work'.item = work.item
          /\ \A i \in 1 .. Len(work.queue) : work'.queue[i] = work.queue[i]
      BY PostedItem
    <2>3. Len(work.queue) \in Nat /\ DOMAIN work.queue = 1 .. Len(work.queue)
          /\ DOMAIN work'.queue = 1 .. Len(work'.queue)
      BY <2>1, <2>2
    <2> QED
      BY <2>2, <2>3
  <1>2. IsQueued(s) => IsQueued(s)'
    BY <1>1 DEF IsQueued
  <1> QED
    BY <1>1, <1>2 DEF WillBeTold, ItemIs

-----------------------------------------------------------------------------

(***************************************************************************)
(* The callers: requests, subscriptions, Stop.                             *)
(***************************************************************************)
LEMMA RequestSound ==
    ASSUME StartupAssumption, IInv, NEW kind \in {"desired", "refresh"}, NEW desired \in BOOLEAN,
           Request(kind, desired)
    PROVE  IInv'
  <1> DEFINE item == [kind |-> "request", what |-> kind, desired |-> desired]
  <1>1. item \in QueueItem /\ Caller \in {"ui", "pool"} /\ work' = Posted(Caller, item)
        /\ Sound(item)'
    BY DEF QueueItem, RequestItem, Caller, Request, Sound
  <1>2. ~life.stopped /\ UNCHANGED <<os, requests, published, async, entry, life>>
    BY DEF Request
  <1> HIDE DEF item
  <1> USE DEF IInv
  <1>3. /\ work' \in Work /\ work'.item = work.item
        /\ \A i \in DOMAIN work'.queue :
              (\E j \in DOMAIN work.queue : work'.queue[i] = work.queue[j]) \/ work'.queue[i] = item
    <2>1. /\ work' \in Work /\ work'.item = work.item
          /\ \A i \in 1 .. Len(work.queue) : work'.queue[i] = work.queue[i]
          /\ \A i \in DOMAIN work'.queue : i \in DOMAIN work.queue \/ work'.queue[i] = item
      BY <1>1, PostedItem
    <2>2. work.queue \in Seq(QueueItem)
      BY DEF Typed, Work
    <2> QED
      BY <2>1, <2>2
  <1>4. Typed'
    BY <1>2, <1>3 DEF Typed
  <1>5. Drained'
    BY <1>1, <1>2, PostingDrained
  <1>6. Requested'
    BY <1>1, <1>2, <1>3, QueueStaysSound, UnchangedRequests
  <1>7. Settled'
    BY <1>2, StaysSettled, UnchangedRequests
  <1>8. Told'
    <2>1. \A s \in Subscriber : WillBeTold(s) => WillBeTold(s)'
      BY <1>1, PostedStaysTold
    <2> QED
      BY <1>2, <1>3, <2>1, StaysTold DEF ItemIs
  <1> QED
    BY <1>4, <1>5, <1>6, <1>7, <1>8

LEMMA SubscribeSound ==
    ASSUME StartupAssumption, IInv, NEW s \in Subscriber, Subscribe(s)
    PROVE  IInv'
  <1> DEFINE item == [kind |-> "deliver", to |-> s]
  <1>1. item \in QueueItem /\ Caller \in {"ui", "pool"} /\ work' = Posted(Caller, item)
        /\ Sound(item)'
    BY DEF QueueItem, DeliverItem, Caller, Subscribe, Sound
  <1>2. ~life.stopped /\ UNCHANGED <<os, requests, published, async, life>>
    BY DEF Subscribe
  <1>a. item.kind = "deliver" /\ item.to = s
    OBVIOUS
  <1> HIDE DEF item
  <1> USE DEF IInv
  <1>3. /\ work' \in Work /\ work'.item = work.item
        /\ \A i \in DOMAIN work'.queue :
              (\E j \in DOMAIN work.queue : work'.queue[i] = work.queue[j]) \/ work'.queue[i] = item
        /\ \E i \in DOMAIN work'.queue : work'.queue[i] = item
    <2>1. /\ work' \in Work /\ work'.item = work.item
          /\ \A i \in 1 .. Len(work.queue) : work'.queue[i] = work.queue[i]
          /\ \A i \in DOMAIN work'.queue : i \in DOMAIN work.queue \/ work'.queue[i] = item
          /\ work'.queue \in Seq(QueueItem) /\ Len(work'.queue) = Len(work.queue) + 1
          /\ work'.queue[Len(work.queue) + 1] = item
      BY <1>1, PostedItem
    <2>2. work.queue \in Seq(QueueItem)
      BY DEF Typed, Work
    <2>3. Len(work.queue) + 1 \in DOMAIN work'.queue
      BY <2>1, <2>2
    <2> QED
      BY <2>1, <2>2, <2>3
  <1>4. /\ entry[s].pc = "out" /\ entry' \in [Subscriber -> Entry]
        /\ \A u \in Subscriber : entry'[u].told = entry[u].told /\ entry'[u].seen = entry[u].seen
        /\ \A u \in Subscriber : u # s => entry'[u] = entry[u]
        /\ entry'[s].pc = "in"
    BY DEF Subscribe, Typed, Entry
  <1>5. Typed'
    BY <1>2, <1>3, <1>4 DEF Typed
  <1>6. Drained'
    BY <1>1, <1>2, <1>4, PostingDrained
  <1>7. Requested'
    BY <1>1, <1>2, <1>3, QueueStaysSound, UnchangedRequests
  <1>8. Settled'
    BY <1>2, StaysSettled, UnchangedRequests
  <1>9. Told'
    <2>1. ASSUME NEW u \in Subscriber, entry'[u].pc = "in", u # s
          PROVE  IsServed(u)'
      <3>1. WillBeTold(u) => WillBeTold(u)'
        BY <1>1, PostedStaysTold
      <3> QED
        BY <1>2, <1>4, <2>1, <3>1 DEF Told, IsServed, IsUpToDate
    <2>2. IsServed(s)'
      <3>1. entry[s].told = 0 /\ published.snapshot.publication \in Nat
        BY <1>4 DEF Told, Typed, Snapshot
      <3>2. IsQueued(s)'
        BY <1>3, <1>a DEF IsQueued
      <3> QED
        BY <1>2, <1>4, <3>1, <3>2 DEF IsServed, WillBeTold
    <2>3. \A u \in Subscriber : entry'[u].pc = "out" => entry'[u].told = 0
      BY <1>4 DEF Told
    <2> QED
      BY <1>2, <1>3, <2>1, <2>2, <2>3 DEF Told, ItemIs
  <1> QED
    BY <1>5, <1>6, <1>7, <1>8, <1>9

(* An entry that leaves: Unsubscribe, and its return once no handler of it *)
(* runs.                                                                   *)
LEMMA UnsubscribeSound ==
    ASSUME StartupAssumption, IInv, NEW s \in Subscriber, Unsubscribe(s) \/ UnsubscribeReturns(s)
    PROVE  IInv'
  <1> USE DEF IInv
  <1>1. UNCHANGED <<os, requests, published, work, async, life>>
    BY DEF Unsubscribe, UnsubscribeReturns
  <1>2. /\ entry' \in [Subscriber -> Entry]
        /\ \A u \in Subscriber : entry'[u].told = entry[u].told /\ entry'[u].seen = entry[u].seen
        /\ \A u \in Subscriber : u # s => entry'[u] = entry[u]
        /\ entry'[s].pc \in {"leaving", "gone"}
        /\ entry'[s].pc = "gone" => work.delivering # s
    BY DEF Unsubscribe, UnsubscribeReturns, Typed, Entry
  <1>3. Typed'
    BY <1>1, <1>2 DEF Typed
  <1>4. Drained'
    <2>1. work.delivering \in Subscriber \cup {NoOne}
      BY DEF Typed, Work
    <2> QED
      BY <1>1, <1>2, <2>1 DEF Drained, ItemIs
  <1>5. Requested'
    BY <1>1 DEF Requested, Answers, Sound, Current
  <1>6. Settled'
    BY <1>1, StaysSettled, UnchangedRequests
  <1>7. Told'
    <2>1. \A u \in Subscriber : WillBeTold(u) => WillBeTold(u)'
      BY <1>1 DEF WillBeTold, IsQueued, ItemIs
    <2> QED
      BY <1>1, <1>2, <2>1, StaysTold DEF ItemIs
  <1> QED
    BY <1>3, <1>4, <1>5, <1>6, <1>7
(* Stop abandons the queue; what is at hand runs on.                       *)
LEMMA StopSound ==
    ASSUME StartupAssumption, IInv, Stop
    PROVE  IInv'
  <1> USE DEF IInv
  <1>1. /\ ~life.stopped /\ life' = [stopped |-> TRUE, down |-> FALSE]
        /\ UNCHANGED <<os, requests, async>>
        /\ work' = [work EXCEPT !.queue = <<>>]
    BY DEF Stop
  <1>2. /\ work' \in Work /\ work'.queue = <<>> /\ work'.item = work.item
        /\ work'.drainer = work.drainer /\ work'.delivering = work.delivering
    <2>1. <<>> \in Seq(QueueItem)
      OBVIOUS
    <2> QED
      BY <1>1, <2>1 DEF Typed, Work
  <1>3. /\ entry' \in [Subscriber -> Entry]
        /\ \A s \in Subscriber : /\ entry'[s].told = entry[s].told /\ entry'[s].seen = entry[s].seen
                                 /\ entry'[s].pc = "out" => entry[s].pc = "out"
    BY DEF Stop, Typed, Entry
  <1>4. /\ published' \in [snapshot : Snapshot, confirmed : [known : BOOLEAN, enabled : BOOLEAN],
                           saved : BOOLEAN]
        /\ published'.snapshot.revision = published.snapshot.revision
    <2> DEFINE old == published.snapshot
               new == IF old.busy THEN [old EXCEPT !.busy = FALSE, !.publication = @ + 1] ELSE old
    <2>1. old \in Snapshot
      BY DEF Typed
    <2>2. new \in Snapshot /\ new.revision = old.revision
      <3>1. old.publication + 1 \in Nat
        BY <2>1 DEF Snapshot
      <3>2. CASE old.busy
        <4>1. new = [old EXCEPT !.busy = FALSE, !.publication = old.publication + 1]
          BY <3>2
        <4> QED
          BY <2>1, <3>1, <4>1 DEF Snapshot
      <3> QED
        BY <2>1, <3>2
    <2>3. published' = [published EXCEPT !.snapshot = new]
      BY DEF Stop
    <2> HIDE DEF new, old
    <2>4. /\ published' \in [snapshot : Snapshot, confirmed : [known : BOOLEAN, enabled : BOOLEAN],
                             saved : BOOLEAN]
          /\ published'.snapshot = new
      BY <2>2, <2>3 DEF Typed
    <2> QED
      BY <2>2, <2>4 DEF old
  <1>5. Typed'
    BY <1>1, <1>2, <1>3, <1>4 DEF Typed
  <1>6. Drained'
    <2>1. work.delivering \in Subscriber \cup {NoOne}
      BY DEF Typed, Work
    <2> QED
      BY <1>1, <1>2, <1>3, <2>1 DEF Drained, ItemIs
  <1>7. Requested'
    <2>1. DOMAIN work'.queue = {}
      BY <1>2
    <2> QED
      BY <1>1, <1>2, <2>1, QueueStaysSound, UnchangedRequests DEF Requested
  <1>8. Settled'
    BY <1>1, <1>4 DEF Settled, SettledAnswersTheLatestRequest
  <1>9. Told'
    BY <1>1, <1>3 DEF Told
  <1> QED
    BY <1>5, <1>6, <1>7, <1>8, <1>9

LEMMA StopReturnsSound ==
    ASSUME StartupAssumption, IInv, StopReturns
    PROVE  IInv'
  <1> USE DEF IInv
  <1>1. /\ life.stopped /\ work.drainer = NoOne
        /\ UNCHANGED <<os, requests, published, work, async, entry>>
    BY DEF StopReturns, MayReturnFromStop
  <1>2. life' \in [stopped : BOOLEAN, down : BOOLEAN] /\ life'.stopped
    BY <1>1 DEF StopReturns, Typed
  <1>3. Typed'
    BY <1>1, <1>2 DEF Typed
  <1>4. Drained'
    BY <1>1, <1>2 DEF Drained, ItemIs
  <1>5. Requested'
    BY <1>1 DEF Requested, Answers, Sound, Current
  <1>6. Settled'
    BY <1>1, <1>2, StaysSettled, UnchangedRequests
  <1>7. Told'
    BY <1>1, <1>2 DEF Told
  <1> QED
    BY <1>3, <1>4, <1>5, <1>6, <1>7

-----------------------------------------------------------------------------

(***************************************************************************)
(* The thread that drains.                                                 *)
(***************************************************************************)

(* The head of the queue comes to hand.                                    *)
LEMMA TakeItemSound ==
    ASSUME StartupAssumption, IInv, TakeItem
    PROVE  IInv'
  <1> USE DEF IInv
  <1>1. /\ work.drainer # NoOne /\ work.item = NoItem
        /\ UNCHANGED <<os, requests, published, async, entry, life>>
    BY DEF TakeItem
  <1>2. work.delivering = NoOne
    BY <1>1 DEF Drained, ItemIs, NoItem
  <1>3. ~life.down
    BY <1>1 DEF Drained
  <1>4. work.queue \in Seq(QueueItem)
    BY DEF Typed, Work
  <1>5. CASE work.queue = <<>>
    <2>1. /\ work' \in Work /\ work'.queue = <<>> /\ work'.item = NoItem
          /\ work'.delivering = NoOne
      BY <1>1, <1>2, <1>5 DEF TakeItem, Typed, Work
    <2>2. Typed'
      BY <1>1, <2>1 DEF Typed
    <2>3. Drained'
      BY <1>1, <1>2, <1>3, <2>1, <1>5 DEF Drained, StartupAssumption
    <2>4. Requested'
      BY <1>1, <1>5, <2>1, QueueStaysSound, UnchangedRequests
    <2>5. Settled'
      BY <1>1, StaysSettled, UnchangedRequests
    <2>6. Told'
      <3>1. \A s \in Subscriber : WillBeTold(s) => WillBeTold(s)'
        BY <1>1, <1>5, <2>1 DEF WillBeTold, IsQueued, ItemIs
      <3> QED
        BY <1>1, <2>1, <3>1, StaysTold DEF ItemIs
    <2> QED
      BY <2>2, <2>3, <2>4, <2>5, <2>6
  <1>6. CASE work.queue # <<>>
    <2> DEFINE q == work.queue
    <2>1. /\ Head(q) \in QueueItem /\ Tail(q) \in Seq(QueueItem) /\ Head(q) = q[1]
          /\ Len(q) \in Nat /\ Len(q) > 0 /\ Len(Tail(q)) = Len(q) - 1
          /\ DOMAIN q = 1 .. Len(q) /\ DOMAIN Tail(q) = 1 .. Len(q) - 1
          /\ \A i \in 1 .. Len(q) - 1 : Tail(q)[i] = q[i + 1]
      BY <1>4, <1>6
    <2>2. /\ work' \in Work /\ work'.queue = Tail(q) /\ work'.item = Head(q)
          /\ work'.drainer = work.drainer /\ work'.delivering = NoOne
      BY <1>1, <1>2, <1>6, <2>1 DEF TakeItem, Typed, Work, Item
    <2>3. work'.item.kind # "publish"
      BY <2>1, <2>2 DEF QueueItem, RequestItem, DeliverItem, QueryItem, CompleteItem
    <2>4. \A i \in DOMAIN work'.queue : i + 1 \in DOMAIN q /\ work'.queue[i] = q[i + 1]
      BY <2>1, <2>2
    <2>5. \A i \in DOMAIN q : q[i] = work'.item \/ \E j \in DOMAIN work'.queue : work'.queue[j] = q[i]
      <3>1. SUFFICES ASSUME NEW i \in 1 .. Len(q), i # 1
                     PROVE  \E j \in DOMAIN work'.queue : work'.queue[j] = q[i]
        BY <2>1, <2>2
      <3>2. i - 1 \in 1 .. Len(q) - 1 /\ (i - 1) + 1 = i
        BY <3>1, <2>1
      <3> QED
        BY <3>2, <2>1, <2>2
    <2>6. Typed'
      BY <1>1, <2>2 DEF Typed
    <2>7. Drained'
      BY <1>1, <1>3, <2>2 DEF Drained, StartupAssumption
    <2>8. Requested'
      <3>1. Sound(q[1])
        BY <2>1 DEF Requested
      <3>2. Sound(work.item)'
        BY <1>1, <2>1, <2>2, <3>1 DEF Sound, Answers, Current
      <3>3. \A i \in DOMAIN work'.queue : \E j \in DOMAIN work.queue : work'.queue[i] = work.queue[j]
        BY <2>4
      <3> QED
        BY <1>1, <3>2, <3>3, QueueStaysSound, UnchangedRequests
    <2>9. Settled'
      BY <1>1, StaysSettled, UnchangedRequests
    <2>10. Told'
      <3>1. ASSUME NEW s \in Subscriber, WillBeTold(s)
            PROVE  WillBeTold(s)'
        <4>1. IsQueued(s)
          BY <1>1, <3>1 DEF WillBeTold, ItemIs, NoItem
        <4>2. PICK i \in DOMAIN q : q[i].kind = "deliver" /\ q[i].to = s
          BY <4>1 DEF IsQueued
        <4> QED
          BY <4>2, <2>5 DEF WillBeTold, IsQueued, ItemIs
      <3> QED
        BY <1>1, <2>3, <3>1, StaysTold DEF ItemIs
    <2> QED
      BY <2>6, <2>7, <2>8, <2>9, <2>10
  <1> QED
    BY <1>5, <1>6
(* What is at hand is of its kind's type.                                  *)
LEMMA AtHand ==
    ASSUME Typed
    PROVE  /\ ItemIs("request") => work.item \in RequestItem
           /\ ItemIs("deliver") => work.item \in DeliverItem
           /\ ItemIs("query") => work.item \in QueryItem
           /\ ItemIs("complete") => work.item \in CompleteItem
           /\ ItemIs("publish") => work.item \in PublishItem
           /\ \A kind \in {"request", "deliver", "query", "complete", "publish"} :
                 ItemIs(kind) => work.item # NoItem
  <1>1. work.item \in Item
    BY DEF Typed, Work
  <1> QED
    BY <1>1 DEF Item, QueueItem, RequestItem, DeliverItem, QueryItem, CompleteItem, PublishItem,
                NoItem, ItemIs

(* An item that nothing needs any more.                                    *)
LEMMA DroppedStaysSound ==
    ASSUME StartupAssumption, IInv, UNCHANGED <<os, published, entry, life>>, NothingIsRequested,
           async' \in SUBSET Pending,
           \A a \in async' : a \in async \/ Answers(a.op, a.known, a.actual),
           ItemIs("publish") => work.item.rest = <<>>,
           ItemIs("deliver") => life.stopped,
           work' = [work EXCEPT !.item = NoItem]
    PROVE  IInv'
  <1> USE DEF IInv
  <1>1. Drained' /\ work' \in Work /\ work'.queue = work.queue /\ work'.item = NoItem
    BY ItemDone
  <1>2. Typed'
    BY <1>1 DEF Typed, NothingIsRequested
  <1>3. Requested'
    <2>1. Sound(work.item)'
      BY <1>1 DEF Sound, NoItem
    <2>2. \A a \in async' : a \in async \/ Answers(a.op, a.known, a.actual)'
      BY StaysSound
    <2> QED
      BY <1>1, <2>1, <2>2, QueueStaysSound
  <1>4. Settled'
    BY StaysSettled
  <1>5. Told'
    <2>1. ASSUME NEW s \in Subscriber, ~life.stopped, WillBeTold(s)
          PROVE  WillBeTold(s)'
      <3>1. IsQueued(s)
        BY <2>1 DEF WillBeTold
      <3> QED
        BY <1>1, <3>1 DEF WillBeTold, IsQueued
    <2>2. ~ItemIs("publish")'
      BY <1>1 DEF ItemIs, NoItem
    <2> QED
      BY <2>1, <2>2, StaysTold
  <1> QED
    BY <1>1, <1>2, <1>3, <1>4, <1>5

LEMMA DropItemSound ==
    ASSUME StartupAssumption, IInv, DropItem
    PROVE  IInv'
  <1>1. /\ UNCHANGED <<os, requests, published, async, entry, life>> /\ life.stopped
        /\ work' = [work EXCEPT !.item = NoItem] /\ ~ItemIs("publish")
    BY DEF DropItem, ItemIs
  <1>2. async' \in SUBSET Pending /\ \A a \in async' : a \in async
    BY <1>1 DEF IInv, Typed
  <1> QED
    BY <1>1, <1>2, DroppedStaysSound, UnchangedRequests DEF IInv

(* An operation begins: it is of a sound item, and nothing is known of it. *)
LEMMA StartedIsSound ==
    ASSUME NEW op \in Operation, Current(op), NEW step \in {"set", "query"}
    PROVE  LET a == [op |-> op, step |-> step, known |-> FALSE, actual |-> FALSE]
           IN  a \in Pending /\ Answers(a.op, a.known, a.actual)
  BY DEF Pending, Answers

LEMMA HandleQuerySound ==
    ASSUME StartupAssumption, IInv, HandleQuery
    PROVE  IInv'
  <1> USE DEF IInv
  <1> DEFINE a == [op |-> work.item.op, step |-> "query", known |-> FALSE, actual |-> FALSE]
  <1>1. /\ UNCHANGED <<os, requests, published, entry, life>> /\ ItemIs("query")
        /\ work' = [work EXCEPT !.item = NoItem] /\ async' = async \cup {a}
    BY DEF HandleQuery
  <1>2. work.item \in QueryItem /\ work.item.kind = "query"
    BY <1>1, AtHand DEF ItemIs
  <1>3. work.item.op \in Operation /\ Current(work.item.op)
    BY <1>2 DEF QueryItem, Requested, Sound
  <1>4. a \in Pending /\ Answers(a.op, a.known, a.actual)
    BY <1>3, StartedIsSound
  <1> HIDE DEF a
  <1>5. async' \in SUBSET Pending /\ \A b \in async' : b \in async \/ Answers(b.op, b.known, b.actual)
    BY <1>1, <1>4 DEF Typed
  <1>6. ~ItemIs("publish") /\ ~ItemIs("deliver")
    BY <1>2 DEF ItemIs
  <1> QED
    BY <1>1, <1>5, <1>6, DroppedStaysSound, UnchangedRequests

(* Everyone was told: the operation of a request begins.                   *)
LEMMA PublishedSound ==
    ASSUME StartupAssumption, IInv, Published
    PROVE  IInv'
  <1> USE DEF IInv
  <1>1. /\ UNCHANGED <<os, requests, published, entry, life>> /\ ItemIs("publish")
        /\ work.item.rest = <<>> /\ work' = [work EXCEPT !.item = NoItem]
        /\ async' = IF work.item.start = NoOperation \/ life.stopped THEN async ELSE Start(work.item.start)
    BY DEF Published
  <1>2. work.item \in PublishItem /\ work.item.kind = "publish" /\ ~ItemIs("deliver")
    BY <1>1, AtHand DEF ItemIs
  <1>3. work.item.start \in Operation /\ (work.item.start = NoOperation \/ Current(work.item.start))
    BY <1>2 DEF PublishItem, Requested, Sound
  <1>4. async' \in SUBSET Pending /\ \A b \in async' : b \in async \/ Answers(b.op, b.known, b.actual)
    <2>1. CASE async' = async
      BY <2>1 DEF Typed
    <2>2. CASE async' = Start(work.item.start) /\ Current(work.item.start)
      <3> DEFINE op == work.item.start
                 a == [op |-> op, step |-> IF op.kind = "desired" THEN "set" ELSE "query",
                       known |-> FALSE, actual |-> FALSE]
      <3>1. a \in Pending /\ Answers(a.op, a.known, a.actual)
        BY <1>3, <2>2, StartedIsSound
      <3>2. async' = async \cup {a}
        BY <2>2 DEF Start
      <3> HIDE DEF a
      <3> QED
        BY <3>1, <3>2 DEF Typed
    <2> QED
      BY <1>1, <1>3, <2>1, <2>2
  <1> QED
    BY <1>1, <1>2, <1>4, DroppedStaysSound, UnchangedRequests
(* A new subscriber is told what is published.                             *)
LEMMA HandleDeliverSound ==
    ASSUME StartupAssumption, IInv, HandleDeliver
    PROVE  IInv'
  <1> USE DEF IInv
  <1> DEFINE item == [kind |-> "publish", snapshot |-> published.snapshot,
                      rest |-> <<work.item.to>>, start |-> NoOperation]
  <1>1. /\ UNCHANGED <<os, requests, published, async, entry, life>> /\ ItemIs("deliver")
        /\ work' = [work EXCEPT !.item = item]
    BY DEF HandleDeliver
  <1>2. work.item \in DeliverItem /\ work.item.kind = "deliver" /\ work.item # NoItem
        /\ ~ItemIs("publish")
    BY <1>1, AtHand DEF ItemIs
  <1>3. work.item.to \in Subscriber /\ <<work.item.to>> \in Seq(Subscriber)
    BY <1>2 DEF DeliverItem
  <1>4. published.snapshot \in Snapshot /\ NoOperation \in Operation
    BY DEF Typed, Operation, NoOperation
  <1>5. item \in PublishItem
    BY <1>3, <1>4 DEF PublishItem
  <1>6. /\ item.kind = "publish" /\ item.snapshot = published.snapshot
        /\ item.start = NoOperation
        /\ \E i \in DOMAIN item.rest : item.rest[i] = work.item.to
    BY <1>3
  <1> HIDE DEF item
  <1>7. Drained' /\ work' \in Work /\ work'.queue = work.queue /\ work'.item = item
    BY <1>1, <1>2, <1>5, ItemPublished
  <1>8. Typed'
    BY <1>1, <1>7 DEF Typed
  <1>9. Requested'
    <2>1. Sound(work.item)'
      BY <1>6, <1>7 DEF Sound
    <2> QED
      BY <1>1, <1>7, <2>1, QueueStaysSound, UnchangedRequests
  <1>10. Settled'
    BY <1>1, StaysSettled, UnchangedRequests
  <1>11. Told'
    <2>1. ASSUME NEW s \in Subscriber, WillBeTold(s)
          PROVE  WillBeTold(s)'
      <3>1. CASE IsQueued(s)
        BY <1>7, <3>1 DEF WillBeTold, IsQueued
      <3>2. CASE work.item.to = s
        BY <1>6, <1>7, <3>2 DEF WillBeTold, ItemIs
      <3> QED
        BY <1>2, <2>1, <3>1, <3>2 DEF WillBeTold
    <2>2. ~life'.stopped => \A s \in Subscriber : entry'[s].pc = "in" => IsServed(s)'
      <3>1. ASSUME NEW s \in Subscriber, ~life.stopped, entry[s].pc = "in"
            PROVE  IsServed(s)'
        <4>1. IsServed(s)
          BY <3>1 DEF Told
        <4>2. IsUpToDate(s) => IsUpToDate(s)'
          BY <1>1 DEF IsUpToDate
        <4> QED
          BY <1>1, <2>1, <4>1, <4>2 DEF IsServed
      <3> QED
        BY <1>1, <3>1
    <2>3. \A s \in Subscriber : entry'[s].pc = "out" => entry'[s].told = 0
      BY <1>1 DEF Told
    <2> QED
      BY <1>1, <1>6, <1>7, <2>2, <2>3 DEF Told
  <1> QED
    BY <1>7, <1>8, <1>9, <1>10, <1>11

(* The publication passes its first subscriber, who needs no telling.      *)
LEMMA PassedStaysSound ==
    ASSUME StartupAssumption, IInv, UNCHANGED <<os, requests, published, async, entry, life>>,
           ItemIs("publish"), work.item.rest # <<>>,
           work' = [work EXCEPT !.delivering = NoOne, !.item.rest = Tail(work.item.rest)],
           ~life.stopped /\ entry[Head(work.item.rest)].pc = "in" => IsUpToDate(Head(work.item.rest))
    PROVE  IInv'
  <1> USE DEF IInv
  <1> DEFINE rest == work.item.rest
             item == [work.item EXCEPT !.rest = Tail(rest)]
  <1>1. work.item \in PublishItem /\ work.item.kind = "publish"
    BY AtHand DEF ItemIs
  <1>2. rest \in Seq(Subscriber) /\ rest # <<>>
    BY <1>1 DEF PublishItem
  <1>3. /\ Tail(rest) \in Seq(Subscriber) /\ Head(rest) = rest[1] /\ Len(rest) \in Nat
        /\ DOMAIN rest = 1 .. Len(rest) /\ DOMAIN Tail(rest) = 1 .. Len(rest) - 1
        /\ \A i \in 1 .. Len(rest) - 1 : Tail(rest)[i] = rest[i + 1]
    BY <1>2
  <1>4. \A i \in DOMAIN rest : rest[i] = Head(rest) \/ \E j \in DOMAIN Tail(rest) : Tail(rest)[j] = rest[i]
    <2>1. SUFFICES ASSUME NEW i \in 1 .. Len(rest), i # 1
                   PROVE  \E j \in DOMAIN Tail(rest) : Tail(rest)[j] = rest[i]
      BY <1>3
    <2>2. i - 1 \in 1 .. Len(rest) - 1 /\ (i - 1) + 1 = i
      BY <2>1, <1>3
    <2> QED
      BY <2>2, <1>3
  <1>5. /\ item \in PublishItem /\ item.kind = "publish" /\ item.snapshot = work.item.snapshot
        /\ item.rest = Tail(rest) /\ item.start = work.item.start
    BY <1>1, <1>3 DEF PublishItem
  <1>6. work' = [work EXCEPT !.delivering = NoOne, !.item = item]
    BY DEF Typed, Work
  <1> HIDE DEF item
  <1>7. /\ work' \in Work /\ work'.queue = work.queue /\ work'.item = item
        /\ work'.drainer = work.drainer /\ work'.delivering = NoOne
    BY <1>5, <1>6 DEF Typed, Work, Item
  <1>8. Typed'
    BY <1>7 DEF Typed
  <1>9. Drained'
    <2>1. work.item # NoItem
      BY <1>1 DEF NoItem
    <2> QED
      BY <1>7, <2>1 DEF Drained, StartupAssumption
  <1>10. Requested'
    <2>1. Sound(work.item)'
      BY <1>1, <1>5, <1>7 DEF Requested, Sound, Current
    <2> QED
      BY <1>7, <2>1, QueueStaysSound, UnchangedRequests
  <1>11. Settled'
    BY StaysSettled, UnchangedRequests
  <1>12. Told'
    <2>1. ASSUME NEW s \in Subscriber, ~life.stopped, entry[s].pc = "in", WillBeTold(s)
          PROVE  IsUpToDate(s) \/ WillBeTold(s)'
      <3>1. CASE IsQueued(s)
        BY <1>7, <3>1 DEF WillBeTold, IsQueued
      <3>2. CASE \E i \in DOMAIN rest : rest[i] = s
        <4>1. CASE s = Head(rest)
          BY <2>1, <4>1
        <4>2. CASE \E j \in DOMAIN Tail(rest) : Tail(rest)[j] = s
          BY <1>5, <1>7, <4>2 DEF WillBeTold, ItemIs
        <4> QED
          BY <1>4, <3>2, <4>1, <4>2
      <3> QED
        BY <1>1, <2>1, <3>1, <3>2 DEF WillBeTold, ItemIs
    <2> QED
      BY <1>5, <1>7, <2>1, StaysTold DEF ItemIs
  <1> QED
    BY <1>8, <1>9, <1>10, <1>11, <1>12

LEMMA HandlerReturnsSound ==
    ASSUME StartupAssumption, IInv, HandlerReturns
    PROVE  IInv'
  <1> USE DEF IInv
  <1> DEFINE s == Head(work.item.rest)
  <1>1. /\ UNCHANGED <<os, requests, published, async, entry, life>>
        /\ work.delivering # NoOne
        /\ work' = [work EXCEPT !.delivering = NoOne, !.item.rest = Tail(work.item.rest)]
    BY DEF HandlerReturns
  <1>2. /\ ItemIs("publish") /\ work.item.rest # <<>> /\ work.delivering = s
        /\ entry[s].told = work.item.snapshot.publication + 1
    BY <1>1 DEF Drained
  <1>3. s \in Subscriber
    BY <1>1, <1>2 DEF Typed, Work
  <1>4. ASSUME ~life.stopped, entry[s].pc = "in"
        PROVE  IsUpToDate(s)
    <2>1. entry[s].told = published.snapshot.publication + 1 /\ published.snapshot.publication \in Nat
      BY <1>2, <1>4 DEF Told, Typed, Snapshot
    <2>2. IsServed(s)
      BY <1>3, <1>4 DEF Told
    <2> HIDE DEF s
    <2> QED
      BY <2>1, <2>2 DEF IsServed
  <1> QED
    BY <1>1, <1>2, <1>4, PassedStaysSound

(* The publication reaches a subscriber: it is told, or needs no telling.  *)
LEMMA DeliverSound ==
    ASSUME StartupAssumption, IInv, Deliver
    PROVE  IInv'
  <1> USE DEF IInv
  <1> DEFINE s == Head(work.item.rest)
  <1>1. /\ ItemIs("publish") /\ work.item.rest # <<>> /\ work.delivering = NoOne
        /\ UNCHANGED <<os, requests, published, async, life>>
    BY DEF Deliver
  <1>2. work.item \in PublishItem /\ work.item.kind = "publish" /\ ~ItemIs("deliver")
    BY <1>1, AtHand DEF ItemIs
  <1>3. work.item.rest \in Seq(Subscriber) /\ work.item.snapshot \in Snapshot /\ s \in Subscriber
    BY <1>1, <1>2 DEF PublishItem
  <1>4. CASE ~Wants(s, work.item.snapshot)
    <2>1. UNCHANGED entry /\ work' = [work EXCEPT !.item.rest = Tail(work.item.rest)]
      BY <1>4 DEF Deliver
    <2>2. work' = [work EXCEPT !.delivering = NoOne, !.item.rest = Tail(work.item.rest)]
      BY <1>1, <2>1 DEF Typed, Work
    <2>3. ASSUME ~life.stopped, entry[s].pc = "in"
          PROVE  IsUpToDate(s)
      <3>1. work.item.snapshot = published.snapshot
        BY <1>1, <2>3 DEF Told
      <3>2. IsServed(s)
        BY <1>3, <2>3 DEF Told
      <3>3. entry[s].told \in Nat /\ published.snapshot.publication \in Nat
        BY <1>3 DEF Typed, Entry, Snapshot
      <3>4. ~(published.snapshot.publication + 1 > entry[s].told)
        BY <1>4, <2>3, <3>1 DEF Wants
      <3> HIDE DEF s
      <3> QED
        BY <3>2, <3>3, <3>4 DEF IsServed
    <2> QED
      BY <1>1, <2>1, <2>2, <2>3, PassedStaysSound
  <1>5. CASE Wants(s, work.item.snapshot)
    <2>1. /\ entry' = [entry EXCEPT ![s].told = work.item.snapshot.publication + 1,
                                    ![s].seen = work.item.snapshot.enabled]
          /\ work' = [work EXCEPT !.delivering = s]
      BY <1>5 DEF Deliver
    <2>2. ~life.stopped /\ entry[s].pc = "in"
      BY <1>5 DEF Wants
    <2>3. /\ work' \in Work /\ work'.queue = work.queue /\ work'.item = work.item
          /\ work'.drainer = work.drainer /\ work'.delivering = s
      BY <1>3, <2>1 DEF Typed, Work
    <2>4. work.item.snapshot.publication + 1 \in Nat /\ work.item.snapshot.enabled \in BOOLEAN
      BY <1>3 DEF Snapshot
    <2>5. /\ entry' \in [Subscriber -> Entry]
          /\ entry'[s].pc = "in" /\ entry'[s].told = work.item.snapshot.publication + 1
          /\ entry'[s].seen = work.item.snapshot.enabled
          /\ \A u \in Subscriber : u # s => entry'[u] = entry[u]
      <3> DEFINE told == work.item.snapshot.publication + 1
                 seen == work.item.snapshot.enabled
      <3>1. entry \in [Subscriber -> Entry] /\ entry[s] \in Entry
        BY <1>3 DEF Typed
      <3>2. entry' = [entry EXCEPT ![s] = [entry[s] EXCEPT !.told = told, !.seen = seen]]
        BY <1>3, <2>1, <3>1
      <3>3. told \in Nat /\ seen \in BOOLEAN
        BY <2>4
      <3> HIDE DEF told, seen
      <3>4. /\ [entry[s] EXCEPT !.told = told, !.seen = seen] \in Entry
            /\ [entry[s] EXCEPT !.told = told, !.seen = seen].pc = entry[s].pc
            /\ [entry[s] EXCEPT !.told = told, !.seen = seen].told = told
            /\ [entry[s] EXCEPT !.told = told, !.seen = seen].seen = seen
        BY <3>1, <3>3 DEF Entry
      <3> HIDE DEF s
      <3>5. /\ entry' \in [Subscriber -> Entry]
            /\ entry'[s] = [entry[s] EXCEPT !.told = told, !.seen = seen]
            /\ \A u \in Subscriber : u # s => entry'[u] = entry[u]
        BY <1>3, <3>1, <3>2, <3>4
      <3> QED
        BY <2>2, <3>4, <3>5 DEF told, seen
    <2>6. Typed'
      BY <1>1, <2>3, <2>5 DEF Typed
    <2>7. Drained'
      <3>1. s # NoOne
        BY <1>3 DEF StartupAssumption
      <3>2. work'.delivering # NoOne =>
              /\ ItemIs("publish")' /\ work'.item.rest # <<>> /\ work'.delivering = Head(work'.item.rest)
              /\ entry'[work'.delivering].told = work'.item.snapshot.publication + 1
        BY <1>1, <2>3, <2>5 DEF ItemIs
      <3>3. \A u \in Subscriber : entry'[u].pc = "gone" /\ ~life'.stopped => work'.delivering # u
        BY <2>3, <2>5
      <3>4. /\ work'.queue # <<>> \/ work'.item # NoItem => work'.drainer # NoOne
            /\ life'.down => life'.stopped /\ work'.drainer = NoOne
        BY <1>1, <2>3 DEF Drained
      <3> QED
        BY <3>2, <3>3, <3>4 DEF Drained
    <2>8. Requested'
      BY <1>1, <2>3, QueueStaysSound, UnchangedRequests
    <2>9. Settled'
      BY <1>1, StaysSettled, UnchangedRequests
    <2>10. Told'
      <3>1. work.item.snapshot = published.snapshot
        BY <1>1, <2>2 DEF Told
      <3>2. \A u \in Subscriber : WillBeTold(u) => WillBeTold(u)'
        BY <2>3 DEF WillBeTold, IsQueued, ItemIs
      <3>3. ASSUME NEW u \in Subscriber, entry'[u].pc = "in"
            PROVE  IsServed(u)'
        <4>1. CASE u = s
          <5>1. IsUpToDate(u)'
            BY <1>1, <2>5, <3>1, <4>1 DEF IsUpToDate
          <5> QED
            BY <5>1 DEF IsServed
        <4>2. CASE u # s
          <5>1. entry'[u] = entry[u] /\ IsServed(u)
            BY <2>2, <2>5, <3>3, <4>2 DEF Told
          <5>2. IsUpToDate(u) => IsUpToDate(u)'
            BY <1>1, <5>1 DEF IsUpToDate
          <5> QED
            BY <1>1, <3>2, <5>1, <5>2 DEF IsServed
        <4> QED
          BY <4>1, <4>2
      <3>4. \A u \in Subscriber : entry'[u].pc = "out" => entry'[u].told = 0
        BY <2>5 DEF Told
      <3> QED
        BY <1>1, <2>3, <3>1, <3>3, <3>4 DEF Told, ItemIs
    <2> QED
      BY <2>6, <2>7, <2>8, <2>9, <2>10
  <1> QED
    BY <1>4, <1>5
(* Whoever is subscribed is among those a new publication is told to.      *)
LEMMA PublishingTells ==
    ASSUME StartupAssumption, IInv, UNCHANGED <<entry, life>>,
           published'.snapshot.publication = published.snapshot.publication + 1,
           ItemIs("publish")', work'.item.snapshot = published'.snapshot,
           work'.item.rest = Handlers
    PROVE  Told'
  <1> USE DEF IInv
  <1>1. ASSUME NEW s \in Subscriber, ~life.stopped, entry[s].pc = "in"
        PROVE  IsServed(s)'
    <2>1. IsServed(s)
      BY <1>1 DEF Told
    <2>2. entry[s].told \in Nat /\ published.snapshot.publication \in Nat
      BY DEF Typed, Entry, Snapshot
    <2>3. entry[s].told <= published.snapshot.publication + 1
      BY <2>1, <2>2 DEF IsServed, IsUpToDate
    <2>4. \E i \in DOMAIN Handlers : Handlers[i] = s
      BY <1>1, HandlersAreAll
    <2>5. WillBeTold(s)'
      BY <2>4 DEF WillBeTold
    <2> QED
      BY <2>3, <2>5 DEF IsServed
  <1>2. \A s \in Subscriber : entry'[s].pc = "out" => entry'[s].told = 0
    BY DEF Told
  <1> QED
    BY <1>1, <1>2 DEF Told

(* A request that is not coalesced: the newest one, shown as busy.         *)
LEMMA HandleRequestSound ==
    ASSUME StartupAssumption, IInv, HandleRequest
    PROVE  IInv'
  <1> USE DEF IInv
  <1> DEFINE given == work.item
             old == published.snapshot
             next == RecordRequest(requests, given.what, given.desired)
             op == [revision |-> requests.revision + 1, kind |-> given.what, desired |-> given.desired]
  <1>1. ItemIs("request") /\ ~life.stopped /\ UNCHANGED <<async, entry, life>>
    BY DEF HandleRequest
  <1>2. given \in RequestItem /\ given # NoItem /\ given.kind = "request"
        /\ ~ItemIs("publish") /\ ~ItemIs("deliver")
    BY <1>1, AtHand DEF ItemIs
  <1>3. CASE IsCoalesced(requests, given.what, given.desired)
    <2>1. UNCHANGED <<os, requests, published>> /\ work' = [work EXCEPT !.item = NoItem]
      BY <1>3 DEF HandleRequest
    <2>2. async' \in SUBSET Pending /\ \A a \in async' : a \in async
      BY <1>1 DEF Typed
    <2> QED
      BY <1>1, <1>2, <2>1, <2>2, DroppedStaysSound, UnchangedRequests
  <1>4. CASE ~IsCoalesced(requests, given.what, given.desired)
    <2> DEFINE start == IF requests.inFlight = NoOperation THEN next.inFlight ELSE NoOperation
               snapshot == published'.snapshot
               item == [kind |-> "publish", snapshot |-> snapshot, rest |-> Handlers, start |-> start]
    <2>1. /\ requests' = next /\ os' = [os EXCEPT !.since = {os.enabled}]
          /\ work' = [work EXCEPT !.item = item]
      BY <1>4 DEF HandleRequest, Publish
    <2>2. /\ requests.revision \in Nat /\ requests.revision + 1 \in Nat /\ op \in Operation
          /\ requests.revision + 1 > requests.revision /\ requests.revision + 1 > 0
          /\ NoOperation \in Operation /\ requests.inFlight \in Operation
      BY <1>2 DEF Typed, Requests, RequestItem, Operation, NoOperation
    <2>3. /\ next = [revision |-> op.revision, latest |-> op, settled |-> FALSE,
                     inFlight |-> IF requests.inFlight = NoOperation THEN op ELSE requests.inFlight]
          /\ op.revision = requests.revision + 1
      BY DEF RecordRequest
    <2>4. /\ requests'.revision = requests.revision + 1 /\ requests'.latest = op
          /\ requests' \in Requests
          /\ start \in {op, NoOperation}
      BY <2>1, <2>2, <2>3 DEF Requests
    <2>5. /\ old \in Snapshot /\ old.publication + 1 \in Nat
          /\ published \in [snapshot : Snapshot, confirmed : [known : BOOLEAN, enabled : BOOLEAN],
                            saved : BOOLEAN]
      BY DEF Typed, Snapshot
    <2>6. /\ published' \in [snapshot : Snapshot, confirmed : [known : BOOLEAN, enabled : BOOLEAN],
                             saved : BOOLEAN]
          /\ snapshot \in Snapshot /\ snapshot.busy /\ snapshot.revision = op.revision
          /\ snapshot.publication = old.publication + 1
      <3> DEFINE n == requests.revision + 1
                 p == old.publication + 1
      <3>1. n \in Nat /\ p \in Nat /\ next.revision = n /\ given.desired \in BOOLEAN
        BY <1>2, <2>2, <2>3, <2>5 DEF RequestItem
      <3>2. PICK new \in Snapshot : /\ new.busy /\ new.revision = n /\ new.publication = p
                                    /\ published' = [published EXCEPT !.snapshot = new]
        <4>1. CASE given.what = "desired"
          <5> DEFINE new == [old EXCEPT !.revision = n, !.busy = TRUE, !.failed = FALSE,
                                        !.enabled = given.desired, !.known = FALSE, !.publication = p]
          <5>1. published' = [published EXCEPT !.snapshot = new]
            BY <1>4, <3>1, <4>1, <2>5 DEF HandleRequest, Publish, Snapshot
          <5> HIDE DEF n, p, given, old
          <5>2. new \in Snapshot /\ new.busy /\ new.revision = n /\ new.publication = p
            BY <2>5, <3>1 DEF Snapshot
          <5> QED
            BY <5>1, <5>2
        <4>2. CASE given.what # "desired"
          <5> DEFINE new == [old EXCEPT !.revision = n, !.busy = TRUE, !.failed = FALSE, !.publication = p]
          <5>1. published' = [published EXCEPT !.snapshot = new]
            BY <1>4, <3>1, <4>2, <2>5 DEF HandleRequest, Publish, Snapshot
          <5> HIDE DEF n, p, given, old
          <5>2. new \in Snapshot /\ new.busy /\ new.revision = n /\ new.publication = p
            BY <2>5, <3>1 DEF Snapshot
          <5> QED
            BY <5>1, <5>2
        <4> QED
          BY <4>1, <4>2
      <3> HIDE DEF n, p, op
      <3>3. published' \in [snapshot : Snapshot, confirmed : [known : BOOLEAN, enabled : BOOLEAN],
                            saved : BOOLEAN] /\ snapshot = new
        BY <2>5, <3>2
      <3> QED
        BY <2>3, <3>2, <3>3 DEF n, p
    <2>7. Handlers \in Seq(Subscriber)
      BY HandlersAreAll
    <2>8. item \in PublishItem
      BY <2>2, <2>4, <2>6, <2>7 DEF PublishItem
    <2>9. /\ item.kind = "publish" /\ item.snapshot = snapshot /\ item.rest = Handlers
          /\ item.start = start
      OBVIOUS
    <2>10. /\ os' \in [enabled : BOOLEAN, since : SUBSET BOOLEAN]
           /\ os'.enabled = os.enabled /\ os'.since = {os.enabled}
      BY <2>1 DEF Typed
    <2> HIDE DEF item, start, op, next, snapshot
    <2>11. Drained' /\ work' \in Work /\ work'.queue = work.queue /\ work'.item = item
      BY <1>1, <1>2, <2>1, <2>8, ItemPublished
    <2>12. Typed'
      BY <1>1, <2>4, <2>6, <2>10, <2>11 DEF Typed
    <2>13. Requested'
      <3>1. ASSUME NEW o, Current(o)
            PROVE  Current(o)' /\ (o.revision # requests'.revision)
        <4>1. o \in Operation /\ o.revision \in Nat /\ o.revision <= requests.revision /\ o.revision > 0
          BY <3>1 DEF Current, Operation
        <4> QED
          BY <2>2, <2>4, <4>1 DEF Current
      <3>2. Current(requests.latest)'
        BY <2>2, <2>3, <2>4 DEF Current
      <3>3. \A i \in DOMAIN work'.queue : Sound(work.queue[i])'
        BY <2>11, <3>1 DEF Requested, Sound, Answers
      <3>4. \A a \in async' : Answers(a.op, a.known, a.actual)'
        BY <1>1, <3>1 DEF Requested, Answers
      <3>5. Sound(work.item)'
        <4>1. work'.item.kind = "publish" /\ work'.item.start \in {requests'.latest, NoOperation}
          BY <2>4, <2>9, <2>11
        <4> QED
          BY <3>2, <4>1 DEF Sound
      <3> QED
        BY <2>2, <2>3, <2>4, <2>10, <3>3, <3>4, <3>5 DEF Requested
    <2>14. Settled'
      BY <2>3, <2>4, <2>6 DEF Settled, SettledAnswersTheLatestRequest, snapshot
    <2>15. Told'
      BY <1>1, <2>6, <2>9, <2>11, PublishingTells DEF ItemIs, snapshot
    <2> QED
      BY <2>11, <2>12, <2>13, <2>14, <2>15
  <1> QED
    BY <1>3, <1>4
(* An answer: it is published when it is the newest request's, and starts  *)
(* the newest request when that has been waiting for it.                   *)
LEMMA CompletedRequests ==
    ASSUME Typed, Requested, NEW op, Current(op), NEW retain \in BOOLEAN,
           requests' = Complete(requests, op, retain)
    PROVE  /\ NothingIsRequested
           /\ AnswersLatest(requests, op) => op = requests.latest /\ op.revision = requests.revision
           /\ ~AnswersLatest(requests, op) /\ requests'.inFlight # NoOperation =>
                 requests'.inFlight \in Operation /\ Current(requests'.inFlight)
  <1>1. /\ requests \in Requests /\ NoOperation \in Operation /\ NoOperation.revision = 0
        /\ op.revision > 0 /\ op.revision \in Nat
    BY DEF Typed, Current, Operation, NoOperation
  <1>2. requests.latest \in Operation /\ requests.inFlight \in Operation
    BY <1>1 DEF Requests
  <1>3. CASE AnswersLatest(requests, op)
    <2>1. requests' = [requests EXCEPT !.inFlight = NoOperation, !.settled = retain,
                                       !.latest = IF retain THEN requests.latest ELSE NoOperation]
      BY <1>3 DEF Complete
    <2>2. NothingIsRequested
      BY <1>1, <1>2, <2>1 DEF NothingIsRequested, Requests
    <2>3. requests.latest # NoOperation
      BY <1>1, <1>3 DEF AnswersLatest
    <2> QED
      BY <1>3, <2>2, <2>3 DEF AnswersLatest, Requested, Current
  <1>4. CASE ~AnswersLatest(requests, op)
    <2>1. \E now \in {NoOperation, requests.latest} : requests' = [requests EXCEPT !.inFlight = now]
      BY <1>4 DEF Complete, StartSuperseding
    <2>2. NothingIsRequested /\ requests'.inFlight \in {NoOperation, requests.latest}
      BY <1>1, <1>2, <2>1 DEF NothingIsRequested, Requests
    <2> QED
      BY <1>1, <1>2, <1>4, <2>2 DEF Requested, Current, Requests
  <1> QED
    BY <1>3, <1>4

LEMMA HandleCompleteSound ==
    ASSUME StartupAssumption, IInv, HandleComplete
    PROVE  IInv'
  <1> USE DEF IInv
  <1> DEFINE given == work.item
             op == given.op
             isWish == op.kind = "desired"
             reached == ~isWish \/ (given.known /\ given.actual = op.desired)
             failed == ~given.known \/ (isWish /\ given.actual # op.desired)
             next == Complete(requests, op, reached)
             old == published.snapshot
             seen == IF given.known THEN [known |-> TRUE, enabled |-> given.actual] ELSE published.confirmed
  <1>1. ItemIs("complete") /\ ~life.stopped /\ UNCHANGED <<os, entry, life>> /\ requests' = next
    BY DEF HandleComplete
  <1>2. /\ given \in CompleteItem /\ given # NoItem /\ given.kind = "complete"
        /\ ~ItemIs("publish") /\ ~ItemIs("deliver")
    BY <1>1, AtHand DEF ItemIs
  <1>3. /\ op \in Operation /\ given.known \in BOOLEAN /\ given.actual \in BOOLEAN
        /\ Answers(op, given.known, given.actual) /\ Current(op)
    BY <1>2 DEF CompleteItem, Requested, Sound, Answers
  <1>4. op.desired \in BOOLEAN /\ reached \in BOOLEAN /\ failed \in BOOLEAN
    BY <1>3 DEF Operation
  <1>5. /\ NothingIsRequested
        /\ AnswersLatest(requests, op) => op = requests.latest /\ op.revision = requests.revision
        /\ ~AnswersLatest(requests, op) /\ requests'.inFlight # NoOperation =>
              requests'.inFlight \in Operation /\ Current(requests'.inFlight)
    BY <1>1, <1>3, <1>4, CompletedRequests
  <1>6. CASE ~AnswersLatest(requests, op)
    <2> DEFINE now == requests'.inFlight
    <2>1. /\ UNCHANGED published /\ work' = [work EXCEPT !.item = NoItem]
          /\ async' = IF now = NoOperation THEN async ELSE Start(now)
      BY <1>1, <1>6 DEF HandleComplete
    <2>2. now # NoOperation => now \in Operation /\ Current(now)
      BY <1>5, <1>6
    <2> HIDE DEF now
    <2>3. async' \in SUBSET Pending /\ \A b \in async' : b \in async \/ Answers(b.op, b.known, b.actual)
      <3>1. CASE async' = async
        BY <3>1 DEF Typed
      <3>2. CASE async' = Start(now) /\ now # NoOperation
        <4> DEFINE a == [op |-> now, step |-> IF now.kind = "desired" THEN "set" ELSE "query",
                         known |-> FALSE, actual |-> FALSE]
        <4>1. a \in Pending /\ Answers(a.op, a.known, a.actual)
          BY <2>2, <3>2, StartedIsSound
        <4>2. async' = async \cup {a}
          BY <3>2 DEF Start
        <4> HIDE DEF a
        <4> QED
          BY <4>1, <4>2 DEF Typed
      <3> QED
        BY <2>1, <3>1, <3>2
    <2> QED
      BY <1>1, <1>2, <1>5, <2>1, <2>3, DroppedStaysSound
  <1>7. CASE AnswersLatest(requests, op)
    <2> DEFINE new == [publication |-> old.publication + 1, revision |-> op.revision,
                       known |-> seen.known, enabled |-> seen.enabled, busy |-> FALSE,
                       failed |-> failed]
               item == [kind |-> "publish", snapshot |-> new, rest |-> Handlers, start |-> NoOperation]
               saved == IF given.known THEN given.actual ELSE published.saved
    <2>1. /\ published' = [confirmed |-> seen, saved |-> saved, snapshot |-> new]
          /\ work' = [work EXCEPT !.item = item] /\ UNCHANGED async
      <3>1. /\ published' = [confirmed |-> seen, saved |-> saved, snapshot |-> new]
            /\ work' = [work EXCEPT !.item = [kind |-> "publish", snapshot |-> published'.snapshot,
                                              rest |-> Handlers, start |-> NoOperation]]
            /\ UNCHANGED async
        BY <1>7, Zenon DEF HandleComplete
      <3>2. published'.snapshot = new
        BY <3>1
      <3> QED
        BY <3>1, <3>2, Zenon
    <2>2. /\ old \in Snapshot /\ old.publication + 1 \in Nat /\ op.revision \in Nat
          /\ published.confirmed \in [known : BOOLEAN, enabled : BOOLEAN] /\ published.saved \in BOOLEAN
      BY <1>3 DEF Typed, Snapshot, Operation
    <2>3. seen \in [known : BOOLEAN, enabled : BOOLEAN] /\ saved \in BOOLEAN
      BY <1>3, <2>2
    <2>4. /\ ~failed => given.known /\ seen.enabled = given.actual
          /\ ~failed /\ isWish => seen.enabled = op.desired
      BY <1>3, <1>4
    <2>5. op = requests.latest /\ op.revision = requests.revision
      BY <1>5, <1>7
    <2> HIDE DEF seen, saved, failed
    <2>6. new \in Snapshot
      BY <1>4, <2>2, <2>3 DEF Snapshot
    <2>7. /\ new.publication = old.publication + 1 /\ new.revision = requests.revision
          /\ new.enabled = seen.enabled /\ new.failed = failed
      BY <2>5
    <2>8. NoOperation \in Operation /\ Handlers \in Seq(Subscriber)
      BY HandlersAreAll DEF Operation, NoOperation
    <2>9. item \in PublishItem
      BY <2>6, <2>8 DEF PublishItem
    <2>10. /\ item.kind = "publish" /\ item.snapshot = new /\ item.rest = Handlers
           /\ item.start = NoOperation
      OBVIOUS
    <2> HIDE DEF new, item
    <2>11. /\ published' \in [snapshot : Snapshot, confirmed : [known : BOOLEAN, enabled : BOOLEAN],
                              saved : BOOLEAN]
           /\ published'.snapshot = new
      BY <2>1, <2>3, <2>6
    <2>12. Drained' /\ work' \in Work /\ work'.queue = work.queue /\ work'.item = item
      BY <1>1, <1>2, <2>1, <2>9, ItemPublished
    <2>13. Typed'
      BY <1>1, <1>5, <2>1, <2>11, <2>12 DEF Typed, NothingIsRequested
    <2>14. Requested'
      <3>1. Sound(work.item)'
        BY <2>10, <2>12 DEF Sound
      <3> QED
        BY <1>1, <1>5, <2>1, <2>12, <3>1, QueueStaysSound
    <2>15. Settled'
      <3>1. ASSUME ~failed
            PROVE  /\ new.enabled \in os.since
                   /\ requests'.latest.kind = "desired" => new.enabled = requests'.latest.desired
        <4>1. new.enabled \in os.since
          BY <1>3, <2>4, <2>5, <2>7, <3>1 DEF Answers
        <4>2. ASSUME requests'.latest.kind = "desired"
              PROVE  new.enabled = requests'.latest.desired
          <5>1. requests'.latest = op
            BY <1>5, <2>5, <4>2 DEF NothingIsRequested, NoOperation
          <5> QED
            BY <2>4, <2>7, <3>1, <4>2, <5>1
        <4> QED
          BY <4>1, <4>2
      <3>2. requests'.revision = requests.revision
        BY <1>5 DEF NothingIsRequested
      <3> QED
        BY <1>1, <2>7, <2>11, <3>1, <3>2 DEF Settled, SettledAnswersTheLatestRequest
    <2>16. Told'
      BY <1>1, <2>7, <2>10, <2>11, <2>12, PublishingTells DEF ItemIs
    <2> QED
      BY <2>12, <2>13, <2>14, <2>15, <2>16
  <1> QED
    BY <1>6, <1>7
-----------------------------------------------------------------------------

(***************************************************************************)
(* The system, and whoever changes the setting behind the application's    *)
(* back.                                                                   *)
(***************************************************************************)

(* What the system says is posted, unless Stop has been called.            *)
LEMMA SaidStaysSound ==
    ASSUME StartupAssumption, IInv, UNCHANGED <<requests, published, entry, life>>,
           os' \in [enabled : BOOLEAN, since : SUBSET BOOLEAN], os.since \subseteq os'.since,
           os'.enabled \in os'.since \/ os' = os,
           async' \in SUBSET Pending, async' \subseteq async,
           NEW item \in QueryItem \cup CompleteItem, Sound(item), Post(item)
    PROVE  IInv'
  <1> USE DEF IInv
  <1>1. item \in QueueItem /\ item.kind # "publish"
    BY DEF QueueItem, QueryItem, CompleteItem
  <1>2. NothingIsRequested
    BY UnchangedRequests
  <1>3. Sound(item)'
    BY <1>2, StaysSound
  <1>4. /\ work' \in Work /\ work'.item = work.item
        /\ \A i \in DOMAIN work'.queue :
              (\E j \in DOMAIN work.queue : work'.queue[i] = work.queue[j]) \/ work'.queue[i] = item
    <2>1. CASE life.stopped
      BY <2>1 DEF Post, Typed
    <2>2. CASE ~life.stopped
      <3>1. work' = Posted("pool", item)
        BY <2>2 DEF Post
      <3>2. /\ work' \in Work /\ work'.item = work.item
            /\ \A i \in 1 .. Len(work.queue) : work'.queue[i] = work.queue[i]
            /\ \A i \in DOMAIN work'.queue : i \in DOMAIN work.queue \/ work'.queue[i] = item
        BY <1>1, <3>1, PostedItem
      <3>3. work.queue \in Seq(QueueItem)
        BY DEF Typed, Work
      <3> QED
        BY <3>2, <3>3
    <2> QED
      BY <2>1, <2>2
  <1>5. Typed'
    BY <1>4 DEF Typed
  <1>6. Drained'
    <2>1. CASE life.stopped
      BY <2>1 DEF Post, Drained, ItemIs
    <2>2. CASE ~life.stopped
      BY <1>1, <2>2, PostingDrained DEF Post
    <2> QED
      BY <2>1, <2>2
  <1>7. Requested'
    <2>1. \A i \in DOMAIN work'.queue :
             \/ \E j \in DOMAIN work.queue : work'.queue[i] = work.queue[j]
             \/ Sound(work.queue[i])'
      BY <1>3, <1>4
    <2> QED
      BY <1>2, <1>4, <2>1, QueueStaysSound
  <1>8. Settled'
    BY <1>2, StaysSettled
  <1>9. Told'
    <2>1. ASSUME NEW s \in Subscriber, ~life.stopped, WillBeTold(s)
          PROVE  WillBeTold(s)'
      BY <1>1, <2>1, PostedStaysTold DEF Post
    <2> QED
      BY <1>4, <2>1, StaysTold DEF ItemIs
  <1> QED
    BY <1>5, <1>6, <1>7, <1>8, <1>9

(* The system carries a wish out or refuses it; a query follows.           *)
LEMMA SystemSetsSound ==
    ASSUME StartupAssumption, IInv, NEW a \in async, SystemSets(a)
    PROVE  IInv'
  <1> USE DEF IInv
  <1> DEFINE item == [kind |-> "query", op |-> a.op]
  <1>1. a \in Pending /\ a.op \in Operation /\ a.op.desired \in BOOLEAN /\ Current(a.op)
    BY DEF Typed, Pending, Operation, Requested, Answers
  <1>2. item \in QueryItem /\ Sound(item)
    BY <1>1 DEF QueryItem, Sound
  <1>3. Post(item)
    BY DEF SystemSets
  <1> HIDE DEF item
  <1>4. /\ os' \in [enabled : BOOLEAN, since : SUBSET BOOLEAN] /\ os.since \subseteq os'.since
        /\ os'.enabled \in os'.since \/ os' = os
    <2>1. CASE os' = [enabled |-> a.op.desired, since |-> os.since \cup {a.op.desired}]
      BY <1>1, <2>1 DEF Typed
    <2>2. CASE os' = os
      BY <2>2 DEF Typed
    <2> QED
      BY <2>1, <2>2 DEF SystemSets
  <1>5. /\ UNCHANGED <<requests, published, entry, life>> /\ async' \subseteq async
        /\ async' \in SUBSET Pending
    BY DEF SystemSets, Typed
  <1> QED
    BY <1>2, <1>3, <1>4, <1>5, SaidStaysSound

(* The system answers a query with the value it has now, if at all.        *)
LEMMA SystemAnswersSound ==
    ASSUME StartupAssumption, IInv, NEW a \in async, SystemAnswers(a)
    PROVE  IInv'
  <1> USE DEF IInv
  <1>1. /\ a \in Pending /\ Answers(a.op, a.known, a.actual) /\ Current(a.op) /\ os.enabled \in BOOLEAN
    BY DEF Typed, Requested, Answers
  <1>2. requests.revision > 0
    BY <1>1 DEF Current, Operation, Typed, Requests
  <1>3. UNCHANGED <<os, requests, published, work, entry, life>>
    BY DEF SystemAnswers
  <1>4. PICK b \in Pending : /\ async' = (async \ {a}) \cup {b}
                             /\ Answers(b.op, b.known, b.actual)
    <2>1. CASE async' = (async \ {a}) \cup {[a EXCEPT !.step = "answer", !.known = TRUE, !.actual = os.enabled]}
      <3> DEFINE b == [a EXCEPT !.step = "answer", !.known = TRUE, !.actual = os.enabled]
      <3>1. b \in Pending /\ b.op = a.op /\ b.actual = os.enabled
        BY <1>1 DEF Pending
      <3>2. Answers(b.op, b.known, b.actual)
        BY <1>1, <1>2, <3>1 DEF Answers, Requested
      <3> QED
        BY <2>1, <3>1, <3>2
    <2>2. CASE async' = (async \ {a}) \cup {[a EXCEPT !.step = "answer"]}
      <3> DEFINE b == [a EXCEPT !.step = "answer"]
      <3>1. b \in Pending /\ b.op = a.op /\ b.known = a.known /\ b.actual = a.actual
        BY <1>1 DEF Pending
      <3> QED
        BY <1>1, <2>2, <3>1
    <2> QED
      BY <2>1, <2>2 DEF SystemAnswers
  <1>5. Typed'
    BY <1>3, <1>4 DEF Typed
  <1>6. Drained'
    BY <1>3 DEF Drained, ItemIs
  <1>7. Requested'
    <2>1. \A c \in async' : c \in async \/ Answers(c.op, c.known, c.actual)'
      BY <1>3, <1>4 DEF Answers, Current
    <2> QED
      BY <1>3, <2>1, QueueStaysSound, UnchangedRequests
  <1>8. Settled'
    BY <1>3, StaysSettled, UnchangedRequests
  <1>9. Told'
    <2>1. \A s \in Subscriber : WillBeTold(s) => WillBeTold(s)'
      BY <1>3 DEF WillBeTold, IsQueued, ItemIs
    <2> QED
      BY <1>3, <2>1, StaysTold DEF ItemIs
  <1> QED
    BY <1>5, <1>6, <1>7, <1>8, <1>9

LEMMA AnswerArrivesSound ==
    ASSUME StartupAssumption, IInv, NEW a \in async, AnswerArrives(a)
    PROVE  IInv'
  <1> USE DEF IInv
  <1> DEFINE item == [kind |-> "complete", op |-> a.op, known |-> a.known, actual |-> a.actual]
  <1>1. a \in Pending /\ Answers(a.op, a.known, a.actual)
    BY DEF Typed, Requested
  <1>2. item \in CompleteItem /\ Sound(item)
    BY <1>1 DEF CompleteItem, Pending, Sound
  <1>3. Post(item)
    BY DEF AnswerArrives
  <1> HIDE DEF item
  <1>4. /\ UNCHANGED <<os, requests, published, entry, life>> /\ async' \subseteq async
        /\ async' \in SUBSET Pending
    BY DEF AnswerArrives, Typed
  <1>5. os' \in [enabled : BOOLEAN, since : SUBSET BOOLEAN]
    BY <1>4 DEF Typed
  <1> QED
    BY <1>2, <1>3, <1>4, <1>5, SaidStaysSound

LEMMA UserChangesSystemSound ==
    ASSUME StartupAssumption, IInv, UserChangesSystem
    PROVE  IInv'
  <1> USE DEF IInv
  <1>1. /\ os' = [enabled |-> ~os.enabled, since |-> os.since \cup {~os.enabled}]
        /\ UNCHANGED <<requests, published, work, async, entry, life>>
    BY DEF UserChangesSystem
  <1>2. /\ os' \in [enabled : BOOLEAN, since : SUBSET BOOLEAN] /\ os.since \subseteq os'.since
        /\ os'.enabled \in os'.since
    BY <1>1 DEF Typed
  <1>3. Typed'
    BY <1>1, <1>2 DEF Typed
  <1>4. Drained'
    BY <1>1 DEF Drained, ItemIs
  <1>5. Requested'
    BY <1>1, <1>2, QueueStaysSound, UnchangedRequests
  <1>6. Settled'
    BY <1>1, <1>2, StaysSettled, UnchangedRequests
  <1>7. Told'
    <2>1. \A s \in Subscriber : WillBeTold(s) => WillBeTold(s)'
      BY <1>1 DEF WillBeTold, IsQueued, ItemIs
    <2> QED
      BY <1>1, <2>1, StaysTold DEF ItemIs
  <1> QED
    BY <1>3, <1>4, <1>5, <1>6, <1>7

LEMMA StutterSound ==
    ASSUME IInv, UNCHANGED vars
    PROVE  IInv'
  <1> USE DEF IInv, vars
  <1>1. Typed'
    BY DEF Typed
  <1>2. Drained'
    BY DEF Drained, ItemIs
  <1>3. Requested'
    BY DEF Requested, Answers, Sound, Current
  <1>4. Settled'
    BY StaysSettled, UnchangedRequests
  <1>5. Told'
    <2>1. \A s \in Subscriber : WillBeTold(s) => WillBeTold(s)'
      BY DEF WillBeTold, IsQueued, ItemIs
    <2> QED
      BY <2>1, StaysTold DEF ItemIs
  <1> QED
    BY <1>1, <1>2, <1>3, <1>4, <1>5

-----------------------------------------------------------------------------

(***************************************************************************)
(* The invariant of the startup task: whatever is asked, refused, changed  *)
(* behind the application's back, subscribed or stopped, in any order,     *)
(* what is queued or at hand is being drained, answers on their way belong *)
(* to the request they are for, and who subscribes is served.              *)
(***************************************************************************)
THEOREM StartupInvariant ==
    ASSUME StartupAssumption
    PROVE  Spec => []IInv
  <1>1. Init => IInv
    <2> SUFFICES ASSUME Init PROVE IInv
      OBVIOUS
    <2>1. Typed
      <3>1. NoOperation \in Operation /\ NoSnapshot \in Snapshot /\ <<>> \in Seq(QueueItem)
        BY DEF Operation, NoOperation, Snapshot, NoSnapshot
      <3>2. requests \in Requests
        BY <3>1 DEF Init, Requests
      <3>3. work \in Work
        BY <3>1 DEF Init, Work, Item
      <3>4. entry \in [Subscriber -> Entry]
        BY DEF Init, Entry
      <3> QED
        BY <3>1, <3>2, <3>3, <3>4 DEF Init, Typed
    <2>2. Drained
      BY DEF Init, Drained
    <2>3. Requested
      <3>1. DOMAIN work.queue = {}
        BY DEF Init
      <3> QED
        BY <3>1 DEF Init, Requested, Sound, NoItem
    <2>4. Settled
      BY DEF Init, Settled, SettledAnswersTheLatestRequest, NoSnapshot
    <2>5. Told
      BY DEF Init, Told, ItemIs, NoItem
    <2> QED
      BY <2>1, <2>2, <2>3, <2>4, <2>5 DEF IInv
  <1>2. IInv /\ [Next]_vars => IInv'
    <2> SUFFICES ASSUME IInv, [Next]_vars PROVE IInv'
      OBVIOUS
    <2>1. CASE Drain
      BY <2>1, TakeItemSound, DropItemSound, HandleRequestSound, HandleCompleteSound, HandleQuerySound,
         HandleDeliverSound, DeliverSound, HandlerReturnsSound, PublishedSound DEF Drain
    <2>2. CASE System
      BY <2>2, SystemSetsSound, SystemAnswersSound, AnswerArrivesSound DEF System
    <2>3. CASE Callers
      BY <2>3, RequestSound, SubscribeSound, UnsubscribeSound, StopSound, StopReturnsSound DEF Callers
    <2>4. CASE UserChangesSystem
      BY <2>4, UserChangesSystemSound
    <2>5. CASE UNCHANGED vars
      BY <2>5, StutterSound
    <2> QED
      BY <2>1, <2>2, <2>3, <2>4, <2>5 DEF Next
  <1> QED
    BY <1>1, <1>2, PTL DEF Spec

(***************************************************************************)
(* After Stop or Unsubscribe has returned no handler of theirs runs, and   *)
(* nothing is drained.                                                     *)
(***************************************************************************)
THEOREM StartupNothingRunsAfterReturn ==
    ASSUME StartupAssumption
    PROVE  Spec => []NothingRunsAfterReturn
  <1>1. IInv => NothingRunsAfterReturn
    BY DEF IInv, Drained, NothingRunsAfterReturn, ItemIs, NoItem
  <1> QED
    BY <1>1, StartupInvariant, PTL

(***************************************************************************)
(* What is shown as settled answers the newest request, never an older one *)
(* (LatestStartupTaskRequestState), with a value the system has had since. *)
(***************************************************************************)
THEOREM StartupAnswersTheLatestRequest ==
    ASSUME StartupAssumption
    PROVE  Spec => []SettledAnswersTheLatestRequest
  <1>1. IInv => SettledAnswersTheLatestRequest
    BY DEF IInv, Settled
  <1> QED
    BY <1>1, StartupInvariant, PTL

(***************************************************************************)
(* Whenever nobody drains the queue, every subscriber was told the latest  *)
(* publication, and no older one after it.                                 *)
(***************************************************************************)
THEOREM StartupSubscribersAreUpToDate ==
    ASSUME StartupAssumption
    PROVE  Spec => []SubscribersAreUpToDate
  <1>1. IInv => SubscribersAreUpToDate
    <2> SUFFICES ASSUME IInv, work.drainer = NoOne, ~life.stopped,
                        NEW s \in Subscriber, entry[s].pc = "in"
                 PROVE  IsUpToDate(s)
      BY DEF SubscribersAreUpToDate, IsUpToDate
    <2>1. work.queue = <<>> /\ work.item = NoItem
      BY DEF IInv, Drained
    <2>2. ~WillBeTold(s)
      BY <2>1 DEF WillBeTold, IsQueued, ItemIs, NoItem
    <2>3. IsServed(s)
      BY DEF IInv, Told
    <2> QED
      BY <2>2, <2>3 DEF IsServed
  <1> QED
    BY <1>1, StartupInvariant, PTL
==============================================================================
