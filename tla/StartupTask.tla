----------------------------- MODULE StartupTask -----------------------------
(***************************************************************************)
(* "Start with Windows": StartupTaskCoordinator.cpp and its request policy *)
(* LatestStartupTaskRequestState.hpp.  Requests, answers of the system and *)
(* deliveries are work items of one queue, drained by whichever thread     *)
(* found it idle.  The setting itself belongs to the system, which may     *)
(* refuse a change and which the user may change behind the application's  *)
(* back; only the newest request is answered.                              *)
(***************************************************************************)
EXTENDS Naturals, Sequences, FiniteSets, SequencesExt

CONSTANTS
    Subscriber,  \* who observes the setting
    NoOne,
    Budgets      \* requests, changes behind the application's back, faults ...

VARIABLES
    os,          \* the startup task as the system holds it, and its values since the last request
    requests,    \* LatestStartupTaskRequestState
    published,   \* State::Published and the confirmed value
    work,        \* State::Pending, DrainThread and the item at hand
    async,       \* Set and Query operations the system has not answered
    entry,       \* State::Handlers
    life,        \* State::Stopped and the step of Stop
    budget

\* What the proofs take of the constants; the threads that drain are "ui" and "pool".
StartupAssumption == IsFiniteSet(Subscriber) /\ NoOne \notin Subscriber \cup {"ui", "pool"}

vars == <<os, requests, published, work, async, entry, life, budget>>

Spend(k) == budget[k] > 0 /\ budget' = [budget EXCEPT ![k] = @ - 1]

NoOperation == [revision |-> 0, kind |-> "none", desired |-> FALSE]
NoItem == [kind |-> "none"]

(***************************************************************************)
(* LatestStartupTaskRequestState: the newest request wins; one operation   *)
(* is with the system at a time.                                           *)
(***************************************************************************)
RecordRequest(r, kind, desired) ==
    LET op == [revision |-> r.revision + 1, kind |-> kind, desired |-> desired]
    IN  [revision |-> op.revision, latest |-> op, settled |-> FALSE,
         inFlight |-> IF r.inFlight = NoOperation THEN op ELSE r.inFlight]

\* The same wish again, or a refresh while an answer is awaited, changes nothing.
IsCoalesced(r, kind, desired) ==
    IF kind = "desired"
    THEN r.latest.kind = "desired" /\ r.latest.desired = desired
    ELSE ~r.settled /\ r.latest # NoOperation

AnswerAnything(r, op) == TRUE
AnswersLatest(r, op) == r.latest.revision = op.revision

StartSuperseding(r) == [r EXCEPT !.inFlight = r.latest]

Complete(r, op, retain) ==
    IF AnswersLatest(r, op)
    THEN [r EXCEPT !.inFlight = NoOperation, !.settled = retain,
                   !.latest = IF retain THEN @ ELSE NoOperation]
    ELSE IF r.latest = NoOperation THEN [r EXCEPT !.inFlight = NoOperation]
    ELSE StartSuperseding(r)

---------------------------------------------------------------------------
(***************************************************************************)
(* The queue.  Post appends; a thread that finds it idle drains it.        *)
(***************************************************************************)
Posted(t, item) ==
    [work EXCEPT !.queue = Append(@, item), !.drainer = IF @ = NoOne THEN t ELSE @]

\* A caller is the drainer only when its own call has not returned.
Caller == "ui"
CallerIsFree == work.drainer # Caller

Request(kind, desired) ==
    /\ CallerIsFree /\ ~life.stopped /\ Spend("requests")
    /\ work' = Posted(Caller, [kind |-> "request", what |-> kind, desired |-> desired])
    /\ UNCHANGED <<os, requests, published, async, entry, life>>

Subscribe(s) ==
    /\ entry[s].pc = "out" /\ CallerIsFree /\ ~life.stopped /\ Spend("subscriptions")
    /\ entry' = [entry EXCEPT ![s].pc = "in"]
    /\ work' = Posted(Caller, [kind |-> "deliver", to |-> s])
    /\ UNCHANGED <<os, requests, published, async, life>>

Unsubscribe(s) ==
    /\ entry[s].pc = "in" /\ CallerIsFree /\ Spend("subscriptions")
    /\ entry' = [entry EXCEPT ![s].pc = "leaving"]
    /\ UNCHANGED <<os, requests, published, work, async, life>>

\* Off the draining thread it returns when a running handler of s has.
UnsubscribeReturns(s) ==
    /\ entry[s].pc = "leaving" /\ work.delivering # s
    /\ entry' = [entry EXCEPT ![s].pc = "gone"]
    /\ UNCHANGED <<os, requests, published, work, async, life, budget>>

TakeItem ==
    /\ work.drainer # NoOne /\ work.item = NoItem
    /\ work' = IF work.queue = <<>> THEN [work EXCEPT !.drainer = NoOne]
               ELSE [work EXCEPT !.item = Head(work.queue), !.queue = Tail(@)]
    /\ UNCHANGED <<os, requests, published, async, entry, life, budget>>

ItemIs(kind) == work.item.kind = kind

DropItem ==
    /\ work.item.kind \in {"request", "complete", "query", "deliver"} /\ life.stopped
    /\ work' = [work EXCEPT !.item = NoItem]
    /\ UNCHANGED <<os, requests, published, async, entry, life, budget>>

Handlers == SetToSeq({s \in Subscriber : entry[s].pc = "in"})

\* Publish: the next publication, told to those who are subscribed now; then `start` begins.
Publish(snapshot, start) ==
    /\ published' = [published EXCEPT !.snapshot = [snapshot EXCEPT !.publication = @ + 1]]
    /\ work' = [work EXCEPT !.item = [kind |-> "publish", snapshot |-> published'.snapshot,
                                      rest |-> Handlers, start |-> start]]

HandleRequest ==
    LET item == work.item
        next == RecordRequest(requests, item.what, item.desired)
        old  == published.snapshot
    IN  /\ ItemIs("request") /\ ~life.stopped
        /\ IF IsCoalesced(requests, item.what, item.desired)
           THEN /\ work' = [work EXCEPT !.item = NoItem]
                /\ UNCHANGED <<os, requests, published>>
           ELSE /\ requests' = next
                /\ os' = [os EXCEPT !.since = {os.enabled}]
                /\ Publish(IF item.what = "desired"
                           THEN [old EXCEPT !.revision = next.revision, !.busy = TRUE, !.failed = FALSE,
                                            !.enabled = item.desired, !.known = FALSE]
                           ELSE [old EXCEPT !.revision = next.revision, !.busy = TRUE, !.failed = FALSE],
                           IF requests.inFlight = NoOperation THEN next.inFlight ELSE NoOperation)
        /\ UNCHANGED <<async, entry, life, budget>>

Start(op) == async \cup {[op |-> op, step |-> IF op.kind = "desired" THEN "set" ELSE "query",
                          known |-> FALSE, actual |-> FALSE]}

HandleComplete ==
    LET item    == work.item
        op      == item.op
        isWish  == op.kind = "desired"
        reached == ~isWish \/ (item.known /\ item.actual = op.desired)
        failed  == ~item.known \/ (isWish /\ item.actual # op.desired)
        next    == Complete(requests, op, reached)
        seen    == IF item.known THEN [known |-> TRUE, enabled |-> item.actual] ELSE published.confirmed
        old     == published.snapshot
    IN  /\ ItemIs("complete") /\ ~life.stopped
        /\ requests' = next
        /\ IF AnswersLatest(requests, op)
           THEN /\ published' = [confirmed |-> seen,
                                 saved |-> IF item.known THEN item.actual ELSE published.saved,
                                 snapshot |-> [publication |-> old.publication + 1,
                                               revision |-> op.revision, known |-> seen.known,
                                               enabled |-> seen.enabled, busy |-> FALSE,
                                               failed |-> failed]]
                /\ work' = [work EXCEPT !.item = [kind |-> "publish", snapshot |-> published'.snapshot,
                                                  rest |-> Handlers, start |-> NoOperation]]
                /\ UNCHANGED async
           ELSE /\ async' = IF next.inFlight = NoOperation THEN async ELSE Start(next.inFlight)
                /\ work' = [work EXCEPT !.item = NoItem]
                /\ UNCHANGED published
        /\ UNCHANGED <<os, entry, life, budget>>

HandleQuery ==
    /\ ItemIs("query") /\ ~life.stopped
    /\ async' = async \cup {[op |-> work.item.op, step |-> "query", known |-> FALSE, actual |-> FALSE]}
    /\ work' = [work EXCEPT !.item = NoItem]
    /\ UNCHANGED <<os, requests, published, entry, life, budget>>

\* A new subscriber is told what is published when its turn comes.
HandleDeliver ==
    /\ ItemIs("deliver") /\ ~life.stopped
    /\ work' = [work EXCEPT !.item = [kind |-> "publish", snapshot |-> published.snapshot,
                                      rest |-> <<work.item.to>>, start |-> NoOperation]]
    /\ UNCHANGED <<os, requests, published, async, entry, life, budget>>

\* entry[s].told is one more than the last publication told; nothing was told at 0.
Wants(s, snapshot) ==
    /\ ~life.stopped /\ entry[s].pc = "in"
    /\ snapshot.publication + 1 > entry[s].told

Deliver ==
    LET s == Head(work.item.rest)
    IN  /\ ItemIs("publish") /\ work.item.rest # <<>> /\ work.delivering = NoOne
        /\ IF Wants(s, work.item.snapshot)
           THEN /\ entry' = [entry EXCEPT ![s].told = work.item.snapshot.publication + 1,
                                          ![s].seen = work.item.snapshot.enabled]
                /\ work' = [work EXCEPT !.delivering = s]
           ELSE /\ work' = [work EXCEPT !.item.rest = Tail(@)]
                /\ UNCHANGED entry
        /\ UNCHANGED <<os, requests, published, async, life, budget>>

HandlerReturns ==
    /\ work.delivering # NoOne
    /\ work' = [work EXCEPT !.delivering = NoOne, !.item.rest = Tail(@)]
    /\ UNCHANGED <<os, requests, published, async, entry, life, budget>>

Published ==
    /\ ItemIs("publish") /\ work.item.rest = <<>>
    /\ async' = IF work.item.start = NoOperation \/ life.stopped THEN async ELSE Start(work.item.start)
    /\ work' = [work EXCEPT !.item = NoItem]
    /\ UNCHANGED <<os, requests, published, entry, life, budget>>

---------------------------------------------------------------------------
(***************************************************************************)
(* The system: it carries a wish out or refuses it, and answers queries,   *)
(* on threads of its own; what it says is posted to the queue.             *)
(***************************************************************************)
Post(item) == work' = IF life.stopped THEN work ELSE Posted("pool", item)

SystemSets(a) ==
    /\ a.step = "set"
    /\ \/ /\ os' = [enabled |-> a.op.desired, since |-> os.since \cup {a.op.desired}]
          /\ UNCHANGED budget
       \/ Spend("faults") /\ UNCHANGED os
    /\ async' = async \ {a}
    /\ Post([kind |-> "query", op |-> a.op])
    /\ UNCHANGED <<requests, published, entry, life>>

SystemAnswers(a) ==
    /\ a.step = "query"
    /\ \/ /\ async' = (async \ {a}) \cup {[a EXCEPT !.step = "answer", !.known = TRUE, !.actual = os.enabled]}
          /\ UNCHANGED budget
       \/ /\ async' = (async \ {a}) \cup {[a EXCEPT !.step = "answer"]}
          /\ Spend("faults")
    /\ UNCHANGED <<os, requests, published, work, entry, life>>

AnswerArrives(a) ==
    /\ a.step = "answer"
    /\ async' = async \ {a}
    /\ Post([kind |-> "complete", op |-> a.op, known |-> a.known, actual |-> a.actual])
    /\ UNCHANGED <<os, requests, published, entry, life, budget>>

UserChangesSystem ==
    /\ Spend("changes")
    /\ os' = [enabled |-> ~os.enabled, since |-> os.since \cup {~os.enabled}]
    /\ UNCHANGED <<requests, published, work, async, entry, life>>

(***************************************************************************)
(* Stop abandons the queue and waits for the draining thread.              *)
(***************************************************************************)
Stop ==
    LET old == published.snapshot
    IN  /\ ~life.stopped /\ CallerIsFree /\ Spend("stops")
        /\ life' = [stopped |-> TRUE, down |-> FALSE]
        /\ published' = [published EXCEPT !.snapshot =
                IF old.busy THEN [old EXCEPT !.busy = FALSE, !.publication = @ + 1] ELSE old]
        /\ work' = [work EXCEPT !.queue = <<>>]
        /\ entry' = [s \in Subscriber |-> IF entry[s].pc = "in" THEN [entry[s] EXCEPT !.pc = "gone"]
                                          ELSE entry[s]]
        /\ UNCHANGED <<os, requests, async>>

MayReturnFromStop == work.drainer = NoOne

StopReturns ==
    /\ life.stopped /\ ~life.down /\ MayReturnFromStop
    /\ life' = [life EXCEPT !.down = TRUE]
    /\ UNCHANGED <<os, requests, published, work, async, entry, budget>>

---------------------------------------------------------------------------
NoSnapshot == [publication |-> 0, revision |-> 0, enabled |-> FALSE, known |-> FALSE,
               busy |-> FALSE, failed |-> FALSE]

Init ==
    /\ \E enabled \in BOOLEAN : os = [enabled |-> enabled, since |-> {}]
    /\ requests = [revision |-> 0, latest |-> NoOperation, inFlight |-> NoOperation, settled |-> FALSE]
    /\ published = [snapshot |-> NoSnapshot, confirmed |-> [known |-> FALSE, enabled |-> FALSE],
                    saved |-> FALSE]
    /\ work = [queue |-> <<>>, drainer |-> NoOne, item |-> NoItem, delivering |-> NoOne]
    /\ async = {}
    /\ entry = [s \in Subscriber |-> [pc |-> "out", told |-> 0, seen |-> FALSE]]
    /\ life = [stopped |-> FALSE, down |-> FALSE]
    /\ budget \in Budgets

Drain == \/ TakeItem \/ DropItem \/ HandleRequest \/ HandleComplete \/ HandleQuery
         \/ HandleDeliver \/ Deliver \/ HandlerReturns \/ Published
System == \E a \in async : SystemSets(a) \/ SystemAnswers(a) \/ AnswerArrives(a)
Callers == \/ \E b \in BOOLEAN : Request("desired", b)
           \/ Request("refresh", FALSE)
           \/ \E s \in Subscriber : Subscribe(s) \/ Unsubscribe(s) \/ UnsubscribeReturns(s)
           \/ Stop \/ StopReturns

Next == Drain \/ System \/ Callers \/ UserChangesSystem

\* A thread that drains runs on, and the system answers every operation, if only with an error.
Fairness == WF_vars(Drain) /\ WF_vars(System)

Spec == Init /\ [][Next]_vars /\ Fairness

---------------------------------------------------------------------------
(***************************************************************************)
(* What is shown as settled answers the newest request: its revision, a    *)
(* value the system had since that request was made, and, unless it is     *)
(* shown as failed, the value that was asked for.  An answer to an older   *)
(* request never passes for it (Complete, RecordRequest).                  *)
(***************************************************************************)
SettledAnswersTheLatestRequest ==
    LET shown == published.snapshot
    IN  ~shown.busy /\ ~life.stopped /\ shown.revision > 0 =>
            /\ shown.revision = requests.revision
            /\ shown.known /\ ~shown.failed =>
                  /\ shown.enabled \in os.since
                  /\ requests.latest.kind = "desired" => shown.enabled = requests.latest.desired

(***************************************************************************)
(* Whenever nobody drains the queue, every subscriber was told the latest  *)
(* publication and no older one after it.                                  *)
(***************************************************************************)
SubscribersAreUpToDate ==
    work.drainer = NoOne /\ ~life.stopped =>
        \A s \in Subscriber : entry[s].pc = "in" =>
            /\ entry[s].told = published.snapshot.publication + 1
            /\ entry[s].seen = published.snapshot.enabled

\* After Stop or Unsubscribe has returned no handler of theirs runs, and nothing is drained.
NothingRunsAfterReturn ==
    /\ \A s \in Subscriber : entry[s].pc = "gone" /\ ~life.stopped => work.delivering # s
    /\ life.down => work.drainer = NoOne /\ work.delivering = NoOne

\* A request, accepted and not stopped, is answered or given up: nothing stays busy.
IsBusy == published.snapshot.busy
=============================================================================
