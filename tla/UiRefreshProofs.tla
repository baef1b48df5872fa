--------------------------- MODULE UiRefreshProofs ---------------------------
(***************************************************************************)
(* Proofs about UiRefresh, for any flags, retry mask, delays and budgets:  *)
(* no requested redraw is left without something that will draw it         *)
(* (PendingIsAwaited), and no pass begins after Stop.                      *)
(*                                                                         *)
(* PendingIsAwaited is not inductive.  It counts every thread inside       *)
(* Queue(), but a thread whose ticket has been overtaken posts a task that *)
(* draws nothing; if it were all that is left, its posting would end the   *)
(* wait for nothing.  So the invariant asks for more: a thread that has    *)
(* yet to store its ticket, the task or the poster of the ticket that      *)
(* counts, a poster that was refused, the timer or the pass (Driven).      *)
(***************************************************************************)
EXTENDS UiRefresh, SequenceTheorems, TLAPS

Phase == {"out", "queue", "ticket", "stored", "refused"}

(* The types of what the proofs speak of.                                  *)
Typed ==
    /\ pending \in [flags : SUBSET Flag, scheduled : BOOLEAN, cancelled : BOOLEAN]
    /\ ticket \in [next : Nat, queued : Nat]
    /\ posted \in Seq(Nat)
    /\ caller \in [Thread -> [pc : Phase, ticket : Nat]]
    /\ timer \in {"off", "armed", "due"}
    /\ drain \in [pc : {"idle", "applying", "applied", "completing"},
                  flags : SUBSET Flag, succeeded : BOOLEAN]
    /\ stopped \in BOOLEAN

(* A thread inside Queue() that has yet to take or to store its ticket,    *)
(* that will arm the timer, or whose ticket counts.                        *)
IsOnItsWay(t) ==
    \/ caller[t].pc \in {"queue", "ticket", "refused"}
    \/ caller[t].pc = "stored" /\ caller[t].ticket = ticket.queued

(* The task of the ticket that counts is in the UI thread's queue.         *)
IsPosted == \E i \in DOMAIN posted : posted[i] = ticket.queued

Driven ==
    \/ \E t \in Thread : IsOnItsWay(t)
    \/ IsPosted
    \/ timer # "off"
    \/ drain.pc # "idle"

IInv ==
    /\ Typed
    /\ pending.cancelled <=> stopped
    /\ stopped => pending.flags = {} /\ ~pending.scheduled
    /\ pending.flags # {} => pending.scheduled
    /\ pending.scheduled => Driven
-----------------------------------------------------------------------------


(***************************************************************************)
(* The operators.                                                          *)
(***************************************************************************)

(* Merging and completing keep the types; a merge reserves a pass for what *)
(* it adds (UiRefreshCoalescer::Request, CompleteDrain).                   *)
LEMMA MergedFlags ==
    ASSUME NEW p \in [flags : SUBSET Flag, scheduled : BOOLEAN, cancelled : BOOLEAN],
           NEW flags \in SUBSET Flag, p.flags # {} => p.scheduled
    PROVE  /\ Merged(p, flags) \in [flags : SUBSET Flag, scheduled : BOOLEAN, cancelled : BOOLEAN]
           /\ Merged(p, flags).cancelled = p.cancelled
           /\ p.cancelled => Merged(p, flags) = p
           /\ Merged(p, flags).flags # {} => Merged(p, flags).scheduled
           /\ ~p.scheduled /\ Merged(p, flags).scheduled => IsFirst(p, flags)
  BY DEF Merged, IsFirst

LEMMA CompletedDrain ==
    ASSUME NEW p \in [flags : SUBSET Flag, scheduled : BOOLEAN, cancelled : BOOLEAN],
           p.flags # {} => p.scheduled
    PROVE  /\ CompleteDrain(p) \in [flags : SUBSET Flag, scheduled : BOOLEAN, cancelled : BOOLEAN]
           /\ CompleteDrain(p).cancelled = p.cancelled
           /\ CompleteDrain(p).flags = p.flags
           /\ CompleteDrain(p).scheduled <=> p.scheduled /\ p.flags # {}
  BY DEF CompleteDrain, IsDrained

(* A thread that enters Queue() is on its way.                             *)
LEMMA EnteringDrives ==
    ASSUME Typed, NEW t \in Thread, caller' = EnterQueue(t)
    PROVE  /\ caller' \in [Thread -> [pc : Phase, ticket : Nat]]
           /\ \A u \in Thread : u # t => caller'[u] = caller[u]
           /\ stopped => caller' = caller
           /\ ~stopped => caller'[t].pc = "queue"
  BY DEF Typed, EnterQueue, Phase

(* What drives the redraw, apart from the threads, when it is undisturbed. *)
LEMMA OthersDrive ==
    ASSUME Driven, ticket' = ticket, posted' = posted, timer' = timer, drain' = drain,
           \A t \in Thread : IsOnItsWay(t) => IsOnItsWay(t)'
    PROVE  Driven'
  BY DEF Driven, IsPosted

(***************************************************************************)
(* Queue().                                                                *)
(***************************************************************************)
LEMMA TakeTicketSound ==
    ASSUME IInv, NEW t \in Thread, TakeTicket(t)
    PROVE  IInv'
  <1> USE DEF IInv, TakeTicket
  <1>1. Typed'
    <2>1. ticket.next \in Nat /\ ticket.next + 1 \in Nat
      BY DEF Typed
    <2>2. [pc |-> "ticket", ticket |-> ticket.next + 1] \in [pc : Phase, ticket : Nat]
      BY <2>1 DEF Phase
    <2>3. ticket' \in [next : Nat, queued : Nat]
      BY <2>1 DEF Typed
    <2> QED
      BY <2>2, <2>3 DEF Typed
  <1>2. caller'[t].pc = "ticket"
    BY DEF Typed
  <1>3. Driven'
    BY <1>2 DEF Driven, IsOnItsWay
  <1> QED
    BY <1>1, <1>3

LEMMA StoreTicketSound ==
    ASSUME IInv, NEW t \in Thread, StoreTicket(t)
    PROVE  IInv'
  <1> USE DEF IInv, StoreTicket
  <1>1. Typed'
    BY DEF Typed, Phase
  <1>2. caller'[t].pc = "stored" /\ caller'[t].ticket = ticket'.queued
    BY DEF Typed
  <1>3. Driven'
    BY <1>2 DEF Driven, IsOnItsWay
  <1> QED
    BY <1>1, <1>3

LEMMA EnqueueSound ==
    ASSUME IInv, NEW t \in Thread, Enqueue(t)
    PROVE  IInv'
  <1> USE DEF IInv, Enqueue
  <1>1. caller[t].ticket \in Nat /\ posted \in Seq(Nat) /\ posted' = Append(posted, caller[t].ticket)
    BY DEF Typed
  <1>2. posted' \in Seq(Nat) /\ Len(posted') = Len(posted) + 1
        /\ posted'[Len(posted) + 1] = caller[t].ticket
        /\ \A i \in 1 .. Len(posted) : posted'[i] = posted[i]
    BY <1>1
  <1>3. caller' \in [Thread -> [pc : Phase, ticket : Nat]]
    BY DEF Typed, Outside, Phase
  <1>4. Typed'
    BY <1>2, <1>3 DEF Typed
  <1>5. ASSUME Driven PROVE Driven'
    <2>1. CASE IsOnItsWay(t)
      <3>1. posted'[Len(posted) + 1] = ticket'.queued
        BY <1>2, <2>1 DEF IsOnItsWay
      <3>2. Len(posted) + 1 \in DOMAIN posted'
        BY <1>1, <1>2
      <3> QED
        BY <3>1, <3>2 DEF Driven, IsPosted
    <2>2. CASE IsPosted
      BY <1>1, <1>2, <2>2 DEF Driven, IsPosted
    <2>3. ASSUME NEW u \in Thread, u # t, IsOnItsWay(u) PROVE Driven'
      <3>1. caller'[u] = caller[u]
        BY <2>3 DEF Typed
      <3> QED
        BY <2>3, <3>1 DEF Driven, IsOnItsWay
    <2>4. CASE timer # "off" \/ drain.pc # "idle"
      BY <2>4 DEF Driven
    <2> QED
      BY <1>5, <2>1, <2>2, <2>3, <2>4 DEF Driven
  <1> QED
    BY <1>4, <1>5

LEMMA EnqueueFailsSound ==
    ASSUME IInv, NEW t \in Thread, EnqueueFails(t)
    PROVE  IInv'
  <1> USE DEF IInv, EnqueueFails
  <1>1. Typed'
    BY DEF Typed, Phase
  <1>2. caller'[t].pc = "refused"
    BY DEF Typed
  <1>3. Driven'
    BY <1>2 DEF Driven, IsOnItsWay
  <1> QED
    BY <1>1, <1>3

LEMMA QueueGivesUpSound ==
    ASSUME IInv, NEW t \in Thread, QueueGivesUp(t)
    PROVE  IInv'
  <1> USE DEF IInv, QueueGivesUp
  <1>1. ticket' \in [next : Nat, queued : Nat]
    BY DEF Typed
  <1>2. caller' \in [Thread -> [pc : Phase, ticket : Nat]]
    BY DEF Typed, Outside, Phase
  <1>3. timer' \in {"off", "armed", "due"} /\ (~stopped => timer' = "armed")
    BY DEF Typed, WithdrawAndRetry, Armed
  <1>4. Typed'
    BY <1>1, <1>2, <1>3 DEF Typed
  <1>5. ~stopped => Driven'
    BY <1>3 DEF Driven
  <1> QED
    BY <1>4, <1>5

LEMMA RequestSound ==
    ASSUME IInv, NEW flags \in SUBSET Flag, Request(flags)
    PROVE  IInv'
  <1> USE DEF IInv, Request
  <1> DEFINE t == "requester"
  <1>0. t \in Thread
    BY DEF Thread
  <1>1. /\ pending' \in [flags : SUBSET Flag, scheduled : BOOLEAN, cancelled : BOOLEAN]
        /\ pending'.cancelled = pending.cancelled
        /\ pending.cancelled => pending' = pending
        /\ pending'.flags # {} => pending'.scheduled
        /\ ~pending.scheduled /\ pending'.scheduled => IsFirst(pending, flags)
    BY MergedFlags DEF Typed
  <1>2. caller' \in [Thread -> [pc : Phase, ticket : Nat]]
    BY <1>0, EnteringDrives DEF Typed
  <1>3. Typed'
    BY <1>1, <1>2 DEF Typed
  <1>4. ASSUME pending'.scheduled PROVE Driven'
    <2>1. ~stopped
      BY <1>1, <1>4
    <2>2. CASE IsFirst(pending, flags)
      <3>1. caller'[t].pc = "queue"
        BY <1>0, <2>1, <2>2, EnteringDrives
      <3> QED
        BY <1>0, <3>1 DEF Driven, IsOnItsWay
    <2>3. CASE ~IsFirst(pending, flags)
      <3>1. Driven
        BY <1>1, <1>4, <2>3
      <3>2. \A u \in Thread : IsOnItsWay(u) => IsOnItsWay(u)'
        BY <2>3 DEF IsOnItsWay
      <3> QED
        BY <3>1, <3>2, OthersDrive
    <2> QED
      BY <2>2, <2>3
  <1> QED
    BY <1>1, <1>3, <1>4


(***************************************************************************)
(* The timer, the pass and the end.                                        *)
(***************************************************************************)
LEMMA TimerSound ==
    ASSUME IInv, Timer
    PROVE  IInv'
  <1> USE DEF IInv
  <1>0. "timer" \in Thread
    BY DEF Thread
  <1>1. CASE TimerExpires
    BY <1>1 DEF TimerExpires, Typed, Driven
  <1>2. CASE OnTimer
    <2>1. \/ timer' = "off" /\ caller' = EnterQueue("timer")
          \/ timer' = Armed /\ UNCHANGED caller
      BY <1>2 DEF OnTimer
    <2>2. UNCHANGED <<pending, ticket, posted, drain, stopped>>
      BY <1>2 DEF OnTimer
    <2>3. caller' \in [Thread -> [pc : Phase, ticket : Nat]]
      BY <1>0, <2>1, EnteringDrives DEF Typed
    <2>4. timer' \in {"off", "armed", "due"}
      BY <2>1 DEF Typed, Armed
    <2>5. Typed'
      BY <2>2, <2>3, <2>4 DEF Typed
    <2>6. ASSUME ~stopped PROVE Driven'
      <3>1. CASE caller' = EnterQueue("timer")
        <4>1. caller'["timer"].pc = "queue"
          BY <1>0, <2>6, <3>1, EnteringDrives
        <4> QED
          BY <1>0, <4>1 DEF Driven, IsOnItsWay
      <3>2. CASE timer' = Armed
        BY <2>6, <3>2 DEF Armed, Driven
      <3> QED
        BY <2>1, <3>1, <3>2
    <2> QED
      BY <2>2, <2>5, <2>6
  <1> QED
    BY <1>1, <1>2 DEF Timer

LEMMA RunTaskSound ==
    ASSUME IInv, RunTask
    PROVE  IInv'
  <1> USE DEF IInv
  <1> DEFINE t == Head(posted)
  <1>1. /\ posted # <<>> /\ posted' = Tail(posted) /\ drain = Idle
        /\ ticket' = IF ticket.queued = t THEN [ticket EXCEPT !.queued = 0] ELSE ticket
        /\ UNCHANGED <<caller, timer, stopped>>
        /\ Claims(t) => /\ drain' = [pc |-> "applying", flags |-> pending.flags, succeeded |-> FALSE]
                        /\ pending' = [pending EXCEPT !.flags = {}]
        /\ ~Claims(t) => UNCHANGED <<drain, pending>>
    BY DEF RunTask
  <1>2. posted \in Seq(Nat) /\ t = posted[1] /\ Len(posted) \in Nat \ {0}
    BY <1>1 DEF Typed
  <1>3. posted' \in Seq(Nat) /\ Len(posted') = Len(posted) - 1
        /\ \A i \in 1 .. Len(posted') : posted'[i] = posted[i + 1]
    BY <1>1, <1>2
  <1>4. /\ pending' \in [flags : SUBSET Flag, scheduled : BOOLEAN, cancelled : BOOLEAN]
        /\ pending'.cancelled = pending.cancelled /\ pending'.scheduled = pending.scheduled
        /\ pending'.flags \subseteq pending.flags
    BY <1>1 DEF Typed
  <1>5. drain' \in [pc : {"idle", "applying", "applied", "completing"},
                    flags : SUBSET Flag, succeeded : BOOLEAN]
    <2>1. pending.flags \in SUBSET Flag
      BY DEF Typed
    <2>2. CASE Claims(t)
      <3>1. drain' = [pc |-> "applying", flags |-> pending.flags, succeeded |-> FALSE]
        BY <1>1, <2>2
      <3> QED
        BY <2>1, <3>1
    <2>3. CASE ~Claims(t)
      BY <1>1, <2>3 DEF Typed
    <2> QED
      BY <2>2, <2>3
  <1>6. ticket' \in [next : Nat, queued : Nat]
    BY <1>1 DEF Typed
  <1>7. Typed'
    BY <1>1, <1>3, <1>4, <1>5, <1>6 DEF Typed
  <1>8. ASSUME pending'.scheduled PROVE Driven'
    <2>1. Driven /\ ~stopped
      BY <1>4, <1>8
    <2>2. CASE Claims(t)
      <3>1. drain'.pc = "applying"
        BY <1>1, <2>2
      <3> QED
        BY <3>1 DEF Driven
    <2>3. CASE ~Claims(t)
      <3>1. ticket.queued # t /\ ticket' = ticket /\ drain' = drain
        BY <1>1, <2>1, <2>3 DEF Claims
      <3>2. CASE IsPosted
        <4>1. PICK i \in DOMAIN posted : posted[i] = ticket.queued
          BY <3>2 DEF IsPosted
        <4>2. i \in 1 .. Len(posted) /\ i # 1
          BY <1>2, <3>1, <4>1
        <4>3. i - 1 \in 1 .. Len(posted') /\ (i - 1) + 1 = i
          <5>1. Len(posted') = Len(posted) - 1 /\ Len(posted) \in Nat
            BY <1>2, <1>3
          <5> HIDE <1>1, <1>2, <1>3 DEF t
          <5> QED
            BY <4>2, <5>1
        <4>4. posted'[i - 1] = ticket'.queued /\ i - 1 \in DOMAIN posted'
          BY <1>3, <3>1, <4>1, <4>3
        <4> QED
          BY <4>4 DEF Driven, IsPosted
      <3>3. CASE ~IsPosted
        BY <1>1, <2>1, <3>1, <3>3 DEF Driven, IsOnItsWay
      <3> QED
        BY <3>2, <3>3
    <2> QED
      BY <2>2, <2>3
  <1> QED
    BY <1>1, <1>4, <1>7, <1>8

LEMMA ApplySound ==
    ASSUME IInv, Apply
    PROVE  IInv'
  <1> USE DEF IInv
  <1>1. /\ drain' \in [pc : {"idle", "applying", "applied", "completing"},
                       flags : SUBSET Flag, succeeded : BOOLEAN]
        /\ drain'.pc = "applied"
    BY DEF Apply, Typed
  <1>2. UNCHANGED <<pending, ticket, posted, caller, timer, stopped>>
    BY DEF Apply
  <1>3. Typed' /\ Driven'
    BY <1>1, <1>2 DEF Typed, Driven
  <1> QED
    BY <1>2, <1>3

LEMMA RetrySound ==
    ASSUME IInv, Retry
    PROVE  IInv'
  <1> USE DEF IInv
  <1>1. UNCHANGED <<ticket, posted, caller, timer, stopped>>
    BY DEF Retry
  <1>2. CASE stopped
    <2>1. drain' = Idle /\ pending' = pending
      BY <1>2 DEF Retry
    <2> QED
      BY <1>1, <1>2, <2>1 DEF Typed, Idle
  <1>3. CASE ~stopped
    <2>1. /\ drain' = [drain EXCEPT !.pc = "completing"]
          /\ pending' = IF drain.succeeded THEN pending
                        ELSE Merged(pending, drain.flags \cap RetryMask)
      BY <1>3 DEF Retry
    <2>2. drain.flags \cap RetryMask \in SUBSET Flag
      BY DEF Typed
    <2>3. /\ pending' \in [flags : SUBSET Flag, scheduled : BOOLEAN, cancelled : BOOLEAN]
          /\ pending'.cancelled = pending.cancelled
          /\ pending'.flags # {} => pending'.scheduled
      BY <2>1, <2>2, MergedFlags DEF Typed
    <2>4. /\ drain' \in [pc : {"idle", "applying", "applied", "completing"},
                         flags : SUBSET Flag, succeeded : BOOLEAN]
          /\ drain'.pc = "completing"
      BY <2>1 DEF Typed
    <2>5. Typed' /\ Driven'
      BY <1>1, <2>3, <2>4 DEF Typed, Driven
    <2> QED
      BY <1>1, <1>3, <2>3, <2>5
  <1> QED
    BY <1>2, <1>3

LEMMA EndDrainSound ==
    ASSUME IInv, EndDrain
    PROVE  IInv'
  <1> USE DEF IInv
  <1>0. "ui" \in Thread
    BY DEF Thread
  <1>1. /\ UNCHANGED <<ticket, posted, stopped>> /\ drain' = Idle
        /\ pending' = CompleteDrain(pending)
        /\ caller' = caller \/ caller' = EnterQueue("ui")
        /\ timer' = timer \/ timer' = Armed
    BY DEF EndDrain
  <1>2. /\ pending' \in [flags : SUBSET Flag, scheduled : BOOLEAN, cancelled : BOOLEAN]
        /\ pending'.cancelled = pending.cancelled /\ pending'.flags = pending.flags
        /\ pending'.scheduled <=> pending.scheduled /\ pending.flags # {}
    BY <1>1, CompletedDrain DEF Typed
  <1>3. caller' \in [Thread -> [pc : Phase, ticket : Nat]]
    BY <1>0, <1>1, EnteringDrives DEF Typed
  <1>4. timer' \in {"off", "armed", "due"}
    BY <1>1 DEF Typed, Armed
  <1>5. Typed'
    BY <1>1, <1>2, <1>3, <1>4 DEF Typed, Idle
  <1>6. ASSUME pending'.scheduled PROVE Driven'
    <2>1. ~stopped /\ ~(pending.cancelled \/ IsDrained(pending))
      BY <1>2, <1>6 DEF IsDrained
    <2>2. CASE drain.succeeded
      <3>1. caller' = EnterQueue("ui")
        BY <2>1, <2>2 DEF EndDrain
      <3>2. caller'["ui"].pc = "queue"
        BY <1>0, <2>1, <3>1, EnteringDrives
      <3> QED
        BY <1>0, <3>2 DEF Driven, IsOnItsWay
    <2>3. CASE ~drain.succeeded
      <3>1. timer' = Armed
        BY <2>1, <2>3 DEF EndDrain
      <3> QED
        BY <2>1, <3>1 DEF Armed, Driven
    <2> QED
      BY <2>2, <2>3
  <1> QED
    BY <1>1, <1>2, <1>5, <1>6

LEMMA StopSound ==
    ASSUME IInv, Stop
    PROVE  IInv'
  <1> USE DEF IInv, Stop
  <1>1. pending'.flags = {} /\ pending'.scheduled = FALSE /\ pending'.cancelled = TRUE
    BY DEF Cancelled
  <1>2. Typed'
    BY DEF Typed, Cancelled
  <1> QED
    BY <1>1, <1>2

(***************************************************************************)
(* The theorems.                                                           *)
(***************************************************************************)
LEMMA InitIsSound == Init => IInv
  <1> SUFFICES ASSUME Init PROVE IInv
    OBVIOUS
  <1>1. /\ pending.flags = {} /\ pending.scheduled = FALSE /\ pending.cancelled = FALSE
        /\ stopped = FALSE
        /\ pending \in [flags : SUBSET Flag, scheduled : BOOLEAN, cancelled : BOOLEAN]
    BY DEF Init
  <1>2. ticket \in [next : Nat, queued : Nat] /\ posted \in Seq(Nat)
    BY DEF Init
  <1>3. caller \in [Thread -> [pc : Phase, ticket : Nat]]
    BY DEF Init, Outside, Phase
  <1>4. drain \in [pc : {"idle", "applying", "applied", "completing"},
                   flags : SUBSET Flag, succeeded : BOOLEAN]
    BY DEF Init, Idle
  <1> QED
    BY <1>1, <1>2, <1>3, <1>4 DEF IInv, Typed, Init

LEMMA StepIsSound ==
    ASSUME IInv, Next
    PROVE  IInv'
  BY TakeTicketSound, StoreTicketSound, EnqueueSound, EnqueueFailsSound, QueueGivesUpSound,
     RequestSound, TimerSound, RunTaskSound, ApplySound, RetrySound, EndDrainSound, StopSound
     DEF Next, Queueing, Drain

(* Whatever is reserved is driven by something that will draw it.          *)
THEOREM RefreshInvariant == Spec => []IInv
  <1>1. IInv /\ UNCHANGED vars => IInv'
    BY DEF IInv, Typed, Driven, IsOnItsWay, IsPosted, vars
  <1> QED
    BY <1>1, InitIsSound, StepIsSound, PTL DEF Spec

(* No wakeup is lost, for any number of requests, refusals and failures: a *)
(* redraw that was asked for has a pass reserved, and a thread, a task, a  *)
(* timer or a pass that will get to it (UiRefreshScheduler::Queue, Drain). *)
THEOREM RefreshIsAwaited == Spec => []PendingIsAwaited
  <1>1. IInv => PendingIsAwaited
    <2> SUFFICES ASSUME IInv, Driven PROVE Awaited
      BY DEF IInv, PendingIsAwaited
    <2>1. \A t \in Thread : IsOnItsWay(t) => caller[t] # Outside
      BY DEF IsOnItsWay, Outside
    <2>2. drain.pc # "idle" => drain # Idle
      BY DEF Idle
    <2> QED
      BY <2>1, <2>2 DEF Driven, IsPosted, Awaited
  <1> QED
    BY <1>1, RefreshInvariant, PTL

(* Once the scheduler is stopped no pass begins, although tasks that were  *)
(* posted before go on arriving (UiRefreshScheduler::Stop).                *)
THEOREM NothingIsDrawnAfterStop == Spec => [][NoPassBeginsWhenStopped]_vars
  <1>1. IInv /\ [Next]_vars => [NoPassBeginsWhenStopped]_vars
    <2> SUFFICES ASSUME IInv, Next, stopped, drain'.pc = "applying"
                 PROVE  drain.pc = "applying"
      BY DEF NoPassBeginsWhenStopped
    <2>1. drain \in [pc : {"idle", "applying", "applied", "completing"},
                     flags : SUBSET Flag, succeeded : BOOLEAN]
      BY DEF IInv, Typed
    <2>2. CASE Queueing \/ Timer \/ Stop \/ \E f \in SUBSET Flag : Request(f)
      BY <2>2 DEF Queueing, TakeTicket, StoreTicket, Enqueue, EnqueueFails, QueueGivesUp, Timer,
                  TimerExpires, OnTimer, Stop, Request
    <2>3. CASE Drain
      <3>1. CASE RunTask
        BY <3>1 DEF RunTask, Claims
      <3>2. CASE Apply
        BY <3>2 DEF Apply
      <3>3. CASE Retry
        BY <2>1, <3>3 DEF Retry, Idle
      <3>4. CASE EndDrain
        BY <3>4 DEF EndDrain, Idle
      <3> QED
        BY <2>3, <3>1, <3>2, <3>3, <3>4 DEF Drain
    <2> QED
      BY <2>2, <2>3 DEF Next
  <1> QED
    BY <1>1, RefreshInvariant, PTL DEF Spec
=============================================================================
