------------------------ MODULE PowerTransitionProofs ------------------------
(***************************************************************************)
(* Proofs about PowerTransition, for any devices, pool threads, number of  *)
(* attempts and bounds: the recovery after a suspend is exact              *)
(* (RecoveryIsExact), and no device is reconnected while the system is     *)
(* suspended or the application exits.                                     *)
(*                                                                         *)
(* The fences of the code are the generation, the delivery number and      *)
(* three flags.  What makes them work is that a job carries the generation *)
(* it was admitted in, that a cancelled cycle is left behind by every job  *)
(* (Fenced), that a job is held in one place only (HeldOnce), and that the *)
(* window procedure goes through its phases with the flags it expects      *)
(* (Phases): only so may InstallReconnect clear the delivery in flight.    *)
(***************************************************************************)
EXTENDS PowerTransition, FiniteSetTheorems, TLAPS

(* What the UI thread relies on between the steps of a suspend, a resume   *)
(* and the delivery made without a timer.                                  *)
Phases ==
    /\ pc[UI] = "SuspendDevices" => powerSuspended /\ cancelled
    /\ pc[UI] \notin {"Idle", "SuspendDevices"} => ~powerSuspended /\ ~exiting
    /\ pc[UI] = "Schedule" => local[UI].generation = generation /\ ~cancelled
    /\ powerSuspended \/ pc[UI] = "ResumeDevices" => ~reconnect

(* No job is ahead of the counters, and none belongs to a cycle that was   *)
(* cancelled and not begun anew.                                           *)
Fenced ==
    \A job \in Outstanding :
        /\ job.generation <= generation /\ (cancelled => job.generation < generation)
        /\ job.delivery <= deliverySequence

(* A delivery is on one thread or once in the queue.                       *)
HeldOnce ==
    /\ \A t, u \in Thread :
           pc[t] = "Call" /\ pc[u] = "Call" /\ local[t].delivery = local[u].delivery => t = u
    /\ \A t \in Thread, q \in queue : pc[t] = "Call" => q.delivery # local[t].delivery
    /\ \A q, r \in queue : q.delivery = r.delivery => q = r

(* The flag and the delivery that is on its way belong together.           *)
InFlight ==
    /\ deliveryInFlight => reconnect /\ ~cancelled
    /\ \A job \in Live : deliveryInFlight /\ job.delivery = deliverySequence
    /\ deliveryInFlight /\ ~exiting => Live # {}

(* Every device of the live delivery has an attempt left.                  *)
AttemptsAreLeft == \A job \in Live : \A d \in job.ids : resumed[d] < MaxAttempts

(* A held timer belongs to a cycle that is not cancelled.                  *)
TimerIsCurrent == cancelTimer # 0 => ~cancelled

Fences == Phases /\ Fenced /\ HeldOnce /\ InFlight /\ AttemptsAreLeft /\ TimerIsCurrent

IInv ==
    /\ TypeOK
    /\ Fences
    /\ AttemptsAreReal /\ OwedAreTargets /\ TargetsAreDriven
-----------------------------------------------------------------------------


(***************************************************************************)
(* The jobs on their way.                                                  *)
(***************************************************************************)

(* A job is on its way when it is queued or a thread is about to hand it   *)
(* over (Outstanding).                                                     *)
LEMMA OutstandingJobs ==
    ASSUME NEW job
    PROVE  job \in Outstanding <=>
               job \in queue \/ \E t \in Thread : pc[t] = "Call" /\ job = local[t]
  BY DEF Outstanding

(* An outstanding job has the fields of a delivery.                        *)
LEMMA OutstandingTyped ==
    ASSUME TypeOK
    PROVE  Outstanding \subseteq Delivery
  BY DEF Outstanding, TypeOK

(* Jobs of the same delivery are the same job (HeldOnce).                  *)
LEMMA JobsDiffer ==
    ASSUME HeldOnce, NEW i \in Outstanding, NEW j \in Outstanding, i.delivery = j.delivery
    PROVE  i = j
  BY OutstandingJobs DEF HeldOnce

(* No step of a suspend or a resume touches the jobs.                      *)
JobsStay ==
    /\ queue' = queue
    /\ \A u \in Thread : /\ pc'[u] = "Call" <=> pc[u] = "Call"
                         /\ pc[u] = "Call" => local'[u] = local[u]

(* Then what is outstanding is the same, and held in the same places.      *)
LEMMA JobsStayTheSame ==
    ASSUME JobsStay
    PROVE  Outstanding' = Outstanding /\ (HeldOnce => HeldOnce')
  <1>1. Outstanding' = Outstanding
    BY DEF Outstanding, JobsStay
  <1>2. HeldOnce => HeldOnce'
    BY DEF HeldOnce, JobsStay
  <1> QED
    BY <1>1, <1>2

(* A thread that neither had a job nor gets one leaves the jobs alone.     *)
LEMMA QuietThread ==
    ASSUME TypeOK, NEW t \in Thread, NEW label, NEW work, pc[t] # "Call", label # "Call",
           queue' = queue, pc' = [pc EXCEPT ![t] = label], local' = [local EXCEPT ![t] = work]
    PROVE  JobsStay
  BY DEF JobsStay, TypeOK

(* What a step leaves alone of the jobs, the cycle and the flags.          *)
CycleStays ==
    /\ JobsStay
    /\ UNCHANGED <<generation, deliverySequence, reconnect, deliveryInFlight, cancelled>>
    /\ exiting => exiting'

(* The fences about the jobs are then undisturbed, when the attempts are.  *)
LEMMA CycleStaysFenced ==
    ASSUME Fences, CycleStays, UNCHANGED resumed
    PROVE  Fenced' /\ HeldOnce' /\ InFlight' /\ AttemptsAreLeft' /\ Live' = Live
  <1>1. Outstanding' = Outstanding /\ HeldOnce'
    BY JobsStayTheSame DEF Fences, CycleStays
  <1>2. Live' = Live
    BY <1>1 DEF Live, IsCurrent, CycleStays
  <1>3. Fenced'
    BY <1>1 DEF Fences, Fenced, CycleStays
  <1>4. InFlight'
    BY <1>2 DEF Fences, InFlight, CycleStays
  <1>5. AttemptsAreLeft'
    BY <1>2 DEF Fences, AttemptsAreLeft
  <1> QED
    BY <1>1, <1>2, <1>3, <1>4, <1>5

(* A cycle that is invalidated leaves every job behind.                    *)
LEMMA InvalidatedIsFenced ==
    ASSUME TypeOK, Fences, JobsStay, Invalidate
    PROVE  Fenced' /\ HeldOnce' /\ InFlight' /\ AttemptsAreLeft'
  <1>1. Outstanding' = Outstanding /\ HeldOnce'
    BY JobsStayTheSame DEF Fences
  <1>2. Live' = {}
    BY DEF Live, IsCurrent, Invalidate
  <1>3. Fenced'
    <2> SUFFICES ASSUME NEW job \in Outstanding
                 PROVE  job.generation < generation' /\ job.delivery <= deliverySequence'
      BY <1>1, OutstandingTyped DEF Fenced, Invalidate, TypeOK, Delivery
    <2>1. job.generation \in Nat /\ job.generation <= generation /\ job.delivery <= deliverySequence
      BY OutstandingTyped DEF Fences, Fenced, Delivery
    <2> QED
      BY <2>1 DEF Invalidate, TypeOK
  <1>4. InFlight' /\ AttemptsAreLeft'
    BY <1>2 DEF InFlight, AttemptsAreLeft, Invalidate
  <1> QED
    BY <1>1, <1>3, <1>4


(***************************************************************************)
(* The window procedure.                                                   *)
(***************************************************************************)
LEMMA InitIsSound == Init => IInv
  <1> SUFFICES ASSUME Init PROVE IInv
    OBVIOUS
  <1> USE PowerTransitionAssumption
  <1>1. TypeOK
    BY DEF Init, TypeOK, Delivery, NoDelivery, Thread
  <1>2. Outstanding = {} /\ Live = {}
    BY DEF Init, Outstanding, Live
  <1>3. Fences
    BY <1>2 DEF Init, Fences, Phases, Fenced, HeldOnce, InFlight, AttemptsAreLeft,
                TimerIsCurrent, Thread
  <1>4. AttemptsAreReal /\ OwedAreTargets /\ TargetsAreDriven
    BY DEF Init, AttemptsAreReal, OwedAreTargets, TargetsAreDriven
  <1> QED
    BY <1>1, <1>3, <1>4 DEF IInv

LEMMA HandleSuspendSound ==
    ASSUME IInv, HandleSuspend
    PROVE  IInv'
  <1> USE DEF IInv, HandleSuspend
  <1>1. UI \in Thread /\ NoDelivery \in Delivery
    BY DEF Thread, NoDelivery, Delivery
  <1>2. JobsStay
    BY <1>1 DEF JobsStay, TypeOK, Goto
  <1>3. TypeOK'
    <2>1. generation' \in Nat /\ [NoDelivery EXCEPT !.generation = generation'] \in Delivery
      BY DEF TypeOK, Invalidate, NoDelivery, Delivery
    <2>2. pc' \in [Thread -> {"Idle", "SuspendDevices", "ResumeDevices", "Schedule", "Deliver", "Call"}]
      BY DEF TypeOK, Goto
    <2>3. local' \in [Thread -> Delivery]
      BY <2>1 DEF TypeOK
    <2> QED
      BY <2>1, <2>2, <2>3 DEF TypeOK, Invalidate, CancelResumeReconnectTimer, history
  <1>4. Fenced' /\ HeldOnce' /\ InFlight' /\ AttemptsAreLeft'
    BY <1>2, InvalidatedIsFenced
  <1>5. Phases' /\ TimerIsCurrent'
    BY <1>1 DEF Phases, TimerIsCurrent, Invalidate, Goto, TypeOK, CancelResumeReconnectTimer
  <1>6. AttemptsAreReal' /\ OwedAreTargets' /\ TargetsAreDriven'
    BY DEF AttemptsAreReal, OwedAreTargets, TargetsAreDriven, Invalidate, history,
           CancelResumeReconnectTimer
  <1> QED
    BY <1>3, <1>4, <1>5, <1>6 DEF Fences

LEMMA SuspendDevicesSound ==
    ASSUME IInv, NEW ids \in SUBSET Device, SuspendDevices(ids)
    PROVE  IInv'
  <1> USE DEF IInv
  <1>1. UI \in Thread /\ NoDelivery \in Delivery
    BY DEF Thread, NoDelivery, Delivery
  <1>2. /\ pc[UI] = "SuspendDevices" /\ powerSuspended /\ cancelled /\ ~reconnect
        /\ ~deliveryInFlight /\ cancelTimer = 0
    BY DEF SuspendDevices, Fences, Phases, InFlight, TimerIsCurrent
  <1>3. JobsStay
    BY <1>1, <1>2 DEF JobsStay, TypeOK, Done, SuspendDevices
  <1>4. Outstanding' = Outstanding /\ HeldOnce'
    BY <1>3, JobsStayTheSame DEF Fences
  <1>5. Live' = {}
    <2> SUFFICES ASSUME NEW job \in Outstanding, generation = job.generation PROVE FALSE
      BY <1>4 DEF Live, IsCurrent, SuspendDevices
    <2> QED
      BY <1>2, OutstandingTyped DEF Fences, Fenced, TypeOK, Delivery
  <1>6. Fenced' /\ InFlight' /\ AttemptsAreLeft'
    <2>1. Fenced'
      BY <1>2, <1>4 DEF Fences, Fenced, SuspendDevices
    <2> QED
      BY <2>1, <1>2, <1>5 DEF InFlight, AttemptsAreLeft, SuspendDevices
  <1>7. TypeOK'
    <2>1. /\ DOMAIN targets' \subseteq Device /\ targets' \in [DOMAIN targets' -> 0 .. MaxAttempts]
          /\ owed' \subseteq Device /\ resumed' \in [Device -> Nat] /\ cancelled' \in BOOLEAN
      <3>1. CASE generation # local[UI].generation \/ exiting
        BY <3>1 DEF TypeOK, SuspendDevices, history
      <3>2. CASE ~(generation # local[UI].generation \/ exiting)
        <4>1. /\ targets' = [d \in DOMAIN targets \cup ids |-> 0]
              /\ owed' = owed \cup ids /\ resumed' = [d \in Device |-> 0] /\ cancelled' = FALSE
          BY <3>2 DEF SuspendDevices, BeginCycle
        <4>2. DOMAIN targets' = DOMAIN targets \cup ids /\ 0 \in 0 .. MaxAttempts
          BY <4>1, PowerTransitionAssumption
        <4>3. targets' \in [DOMAIN targets' -> 0 .. MaxAttempts]
          BY <4>1, <4>2
        <4> QED
          BY <4>1, <4>2, <4>3 DEF TypeOK
      <3> QED
        BY <3>1, <3>2
    <2>2. pc' \in [Thread -> {"Idle", "SuspendDevices", "ResumeDevices", "Schedule", "Deliver", "Call"}]
      BY DEF TypeOK, SuspendDevices, Done
    <2>3. local' \in [Thread -> Delivery]
      BY <1>1 DEF TypeOK, SuspendDevices, Done
    <2> QED
      BY <2>1, <2>2, <2>3 DEF TypeOK, SuspendDevices, timer
  <1>8. Phases' /\ TimerIsCurrent'
    BY <1>1, <1>2 DEF Phases, TimerIsCurrent, SuspendDevices, Done, TypeOK, timer
  <1>9. AttemptsAreReal' /\ OwedAreTargets' /\ TargetsAreDriven'
    <2>1. CASE generation # local[UI].generation \/ exiting
      BY <2>1, <1>2 DEF AttemptsAreReal, OwedAreTargets, TargetsAreDriven, SuspendDevices, history,
                        timer
    <2>2. CASE ~(generation # local[UI].generation \/ exiting)
      <3>1. /\ DOMAIN targets' = DOMAIN targets \cup ids /\ owed' = owed \cup ids
            /\ \A d \in DOMAIN targets' : targets'[d] = 0
            /\ resumed' = [d \in Device |-> 0] /\ cancelTimer' = 0
        BY <2>2, <1>2 DEF SuspendDevices, BeginCycle, timer
      <3>2. DOMAIN targets' \subseteq Device
        BY <3>1 DEF TypeOK
      <3> QED
        BY <3>1, <3>2, PowerTransitionAssumption DEF AttemptsAreReal, OwedAreTargets, TargetsAreDriven
    <2> QED
      BY <2>1, <2>2
  <1> QED
    BY <1>4, <1>6, <1>7, <1>8, <1>9 DEF Fences

(* A suspend or a resume that fails: the UI thread gives up.               *)
LEMMA GivingUpIsSound ==
    ASSUME IInv, NEW p \in Thread, pc[p] # "Call", Done(p), failures' \in Nat,
           UNCHANGED <<powerSuspended, exiting, recovery, timer, queue, history>>
    PROVE  IInv'
  <1> USE DEF IInv, recovery, timer, history
  <1>1. NoDelivery \in Delivery
    BY DEF NoDelivery, Delivery
  <1>2. CycleStays
    BY DEF CycleStays, JobsStay, TypeOK, Done
  <1>3. TypeOK'
    BY <1>1 DEF TypeOK, Done
  <1>4. Phases' /\ TimerIsCurrent'
    BY DEF Fences, Phases, TimerIsCurrent, Done, TypeOK
  <1>5. AttemptsAreReal' /\ OwedAreTargets' /\ TargetsAreDriven'
    BY DEF AttemptsAreReal, OwedAreTargets, TargetsAreDriven
  <1> QED
    BY <1>2, <1>3, <1>4, <1>5, CycleStaysFenced DEF Fences

LEMMA FailuresSound ==
    ASSUME IInv, SuspendFails \/ ResumeFails \/ \E p \in Pool : ApartmentUnavailable(p)
    PROVE  IInv'
  <1>1. failures' \in Nat
    BY DEF SuspendFails, ResumeFails, ApartmentUnavailable, Fails, IInv, TypeOK
  <1> QED
    BY <1>1, GivingUpIsSound DEF SuspendFails, ResumeFails, ApartmentUnavailable, Thread

LEMMA HandleResumeSound ==
    ASSUME IInv, HandleResume
    PROVE  IInv'
  <1> USE DEF IInv, HandleResume, recovery, timer, history
  <1>1. UI \in Thread
    BY DEF Thread
  <1>2. CycleStays
    BY <1>1 DEF CycleStays, JobsStay, TypeOK, Goto
  <1>3. TypeOK'
    BY <1>1 DEF TypeOK, Goto
  <1>4. Phases' /\ TimerIsCurrent'
    BY <1>1 DEF Fences, Phases, TimerIsCurrent, Goto, TypeOK
  <1>5. AttemptsAreReal' /\ OwedAreTargets' /\ TargetsAreDriven'
    BY DEF AttemptsAreReal, OwedAreTargets, TargetsAreDriven
  <1> QED
    BY <1>2, <1>3, <1>4, <1>5, CycleStaysFenced DEF Fences


LEMMA InstallReconnectSound ==
    ASSUME IInv, InstallReconnect
    PROVE  IInv'
  <1> USE DEF IInv, history
  <1>1. UI \in Thread /\ NoDelivery \in Delivery
    BY DEF Thread, NoDelivery, Delivery
  <1>2. /\ pc[UI] = "ResumeDevices" /\ ~powerSuspended /\ ~exiting /\ ~reconnect
        /\ ~deliveryInFlight /\ Live = {}
    BY DEF InstallReconnect, Fences, Phases, InFlight
  <1>3. TypeOK'
    <2>1. pc' \in [Thread -> {"Idle", "SuspendDevices", "ResumeDevices", "Schedule", "Deliver", "Call"}]
      BY DEF TypeOK, InstallReconnect, Done, Goto
    <2>2. [NoDelivery EXCEPT !.generation = generation] \in Delivery
      BY DEF TypeOK, NoDelivery, Delivery
    <2>3. local' \in [Thread -> Delivery]
      BY <1>1, <2>2 DEF TypeOK, InstallReconnect, Done
    <2> QED
      BY <2>1, <2>3 DEF TypeOK, InstallReconnect, CancelResumeReconnectTimer, recovery
  <1>4. JobsStay
    BY <1>1, <1>2 DEF JobsStay, TypeOK, InstallReconnect, Done, Goto
  <1>5. Outstanding' = Outstanding /\ HeldOnce'
    BY <1>4, JobsStayTheSame DEF Fences
  <1>6. Live' = {}
    BY <1>2, <1>5 DEF Live, IsCurrent, InstallReconnect, recovery
  <1>7. Fenced' /\ InFlight' /\ AttemptsAreLeft'
    <2>1. Fenced'
      BY <1>5 DEF Fences, Fenced, InstallReconnect, recovery
    <2>2. InFlight'
      BY <1>2, <1>6 DEF InFlight, InstallReconnect, recovery
    <2> QED
      BY <2>1, <2>2, <1>6 DEF AttemptsAreLeft
  <1>8. Phases'
    <2>1. CASE cancelled \/ DOMAIN targets = {}
      BY <2>1, <1>1, <1>2 DEF Phases, InstallReconnect, Done, TypeOK, recovery
    <2>2. CASE ~(cancelled \/ DOMAIN targets = {})
      <3>1. local'[UI].generation = generation
        BY <2>2, <1>1 DEF InstallReconnect, NoDelivery, TypeOK
      <3> QED
        BY <2>2, <3>1, <1>1, <1>2 DEF Phases, InstallReconnect, Goto, TypeOK
    <2> QED
      BY <2>1, <2>2
  <1>9. TimerIsCurrent' /\ AttemptsAreReal' /\ OwedAreTargets' /\ TargetsAreDriven'
    BY DEF TimerIsCurrent, AttemptsAreReal, OwedAreTargets, TargetsAreDriven, InstallReconnect,
           CancelResumeReconnectTimer, recovery
  <1> QED
    BY <1>3, <1>5, <1>7, <1>8, <1>9 DEF Fences

LEMMA ScheduleSound ==
    ASSUME IInv, Schedule
    PROVE  IInv'
  <1> USE DEF IInv, Schedule, recovery, history
  <1>1. UI \in Thread /\ NoDelivery \in Delivery
    BY DEF Thread, NoDelivery, Delivery
  <1>2. ~powerSuspended /\ ~exiting /\ local[UI].generation = generation /\ ~cancelled
    BY DEF Fences, Phases
  <1>3. CycleStays
    BY <1>1 DEF CycleStays, JobsStay, TypeOK, Done
  <1>4. TypeOK'
    BY <1>1, <1>2 DEF TypeOK, Done
  <1>5. Phases'
    BY <1>1 DEF Fences, Phases, Done, TypeOK
  <1>6. TimerIsCurrent' /\ AttemptsAreReal' /\ OwedAreTargets' /\ TargetsAreDriven'
    BY <1>2 DEF TimerIsCurrent, AttemptsAreReal, OwedAreTargets, TargetsAreDriven
  <1> QED
    BY <1>3, <1>4, <1>5, <1>6, CycleStaysFenced DEF Fences

LEMMA TimerUnavailableSound ==
    ASSUME IInv, TimerUnavailable
    PROVE  IInv'
  <1> USE DEF IInv, TimerUnavailable, recovery, timer, history
  <1>1. UI \in Thread
    BY DEF Thread
  <1>2. CycleStays
    BY <1>1 DEF CycleStays, JobsStay, TypeOK, Goto
  <1>3. TypeOK'
    BY <1>1 DEF TypeOK, Goto
  <1>4. Phases' /\ TimerIsCurrent'
    BY <1>1 DEF Fences, Phases, TimerIsCurrent, Goto, TypeOK
  <1>5. AttemptsAreReal' /\ OwedAreTargets' /\ TargetsAreDriven'
    BY DEF AttemptsAreReal, OwedAreTargets, TargetsAreDriven
  <1> QED
    BY <1>2, <1>3, <1>4, <1>5, CycleStaysFenced DEF Fences

LEMMA NotifyDeviceConnectedSound ==
    ASSUME IInv, NEW d \in Device, NotifyDeviceConnected(d)
    PROVE  IInv'
  <1> USE DEF IInv, threads
  <1>1. /\ DOMAIN targets' = DOMAIN targets \ {d}
        /\ \A e \in DOMAIN targets' : targets'[e] = targets[e]
        /\ targets' \in [DOMAIN targets' -> 0 .. MaxAttempts]
    BY DEF NotifyDeviceConnected, Restrict, TypeOK
  <1>2. CycleStays
    BY DEF CycleStays, JobsStay, NotifyDeviceConnected
  <1>3. TypeOK'
    <2>1. DOMAIN targets' \subseteq Device /\ owed' \subseteq Device
      BY <1>1 DEF TypeOK, NotifyDeviceConnected
    <2>2. cancelTimer' \in Nat /\ ticking' \in BOOLEAN
      <3>1. CancelResumeReconnectTimer \/ UNCHANGED timer
        BY Zenon DEF NotifyDeviceConnected
      <3>2. CASE CancelResumeReconnectTimer
        BY <3>2 DEF CancelResumeReconnectTimer
      <3>3. CASE UNCHANGED timer
        BY <3>3 DEF TypeOK, timer
      <3> QED
        BY <3>1, <3>2, <3>3
    <2>3. UNCHANGED <<powerSuspended, exiting, generation, deliverySequence, reconnect,
                      deliveryInFlight, cancelled, pc, local, queue, failures, resumed>>
      BY DEF NotifyDeviceConnected
    <2> QED
      BY <1>1, <2>1, <2>2, <2>3 DEF TypeOK
  <1>4. Phases' /\ TimerIsCurrent'
    BY DEF Fences, Phases, TimerIsCurrent, NotifyDeviceConnected, CancelResumeReconnectTimer, timer
  <1>5. AttemptsAreReal' /\ OwedAreTargets'
    BY <1>1 DEF AttemptsAreReal, OwedAreTargets, NotifyDeviceConnected
  <1>6. TargetsAreDriven'
    BY <1>1 DEF TargetsAreDriven, NotifyDeviceConnected, CancelResumeReconnectTimer, timer
  <1> QED
    BY <1>2, <1>3, <1>4, <1>5, <1>6, CycleStaysFenced DEF Fences, NotifyDeviceConnected

LEMMA PerformTeardownSound ==
    ASSUME IInv, PerformTeardown
    PROVE  IInv'
  <1> USE DEF IInv, PerformTeardown, recovery, timer, history
  <1>1. \A job \in Outstanding' : job \in Outstanding
    BY DEF Outstanding
  <1>2. \A job \in Live' : job \in Live
    BY <1>1 DEF Live, IsCurrent
  <1>3. TypeOK' /\ Phases' /\ TimerIsCurrent'
    BY DEF TypeOK, Fences, Phases, TimerIsCurrent
  <1>4. Fenced' /\ HeldOnce'
    BY <1>1 DEF Fences, Fenced, HeldOnce
  <1>5. InFlight' /\ AttemptsAreLeft'
    BY <1>2 DEF Fences, InFlight, AttemptsAreLeft
  <1>6. AttemptsAreReal' /\ OwedAreTargets' /\ TargetsAreDriven'
    BY DEF AttemptsAreReal, OwedAreTargets, TargetsAreDriven
  <1> QED
    BY <1>3, <1>4, <1>5, <1>6 DEF Fences

LEMMA CancelSound ==
    ASSUME IInv, Cancel
    PROVE  IInv'
  <1> USE DEF IInv
  <1>0. /\ Invalidate /\ CancelResumeReconnectTimer
        /\ targets' = [d \in {} |-> 0] /\ owed' = {}
        /\ UNCHANGED <<powerSuspended, exiting, pc, local, queue, failures, resumed>> /\ exiting
    BY DEF Cancel, threads
  <1>1. JobsStay
    BY <1>0 DEF JobsStay
  <1>2. TypeOK'
    <2>1. targets' \in [DOMAIN targets' -> 0 .. MaxAttempts] /\ DOMAIN targets' = {}
      BY <1>0
    <2>2. generation' \in Nat
      BY <1>0 DEF TypeOK, Invalidate
    <2>3. cancelTimer' \in Nat /\ ticking' \in BOOLEAN
      BY <1>0 DEF CancelResumeReconnectTimer
    <2>4. cancelled' \in BOOLEAN /\ reconnect' \in BOOLEAN /\ deliveryInFlight' \in BOOLEAN
      BY <1>0 DEF Invalidate
    <2>5. UNCHANGED <<powerSuspended, exiting, deliverySequence, pc, local, queue, failures, resumed>>
      BY <1>0 DEF Invalidate
    <2> QED
      BY <1>0, <2>1, <2>2, <2>3, <2>4, <2>5 DEF TypeOK
  <1>3. Fenced' /\ HeldOnce' /\ InFlight' /\ AttemptsAreLeft'
    BY <1>0, <1>1, InvalidatedIsFenced
  <1>4. Phases' /\ TimerIsCurrent'
    BY <1>0 DEF Fences, Phases, TimerIsCurrent, Invalidate, CancelResumeReconnectTimer
  <1>5. AttemptsAreReal' /\ OwedAreTargets' /\ TargetsAreDriven'
    BY <1>0 DEF AttemptsAreReal, OwedAreTargets, TargetsAreDriven, CancelResumeReconnectTimer,
                Invalidate
  <1> QED
    BY <1>2, <1>3, <1>4, <1>5 DEF Fences


(***************************************************************************)
(* Ticks.                                                                  *)
(***************************************************************************)
LEMMA FireTimerSound ==
    ASSUME IInv, NEW p \in Pool, FireTimer(p)
    PROVE  IInv'
  <1> USE DEF IInv, FireTimer, recovery, timer, history
  <1>1. p \in Thread /\ p # UI
    BY PowerTransitionAssumption DEF Thread
  <1>2. [NoDelivery EXCEPT !.generation = cancelTimer] \in Delivery
    BY DEF NoDelivery, Delivery, TypeOK
  <1>3. CycleStays
    BY <1>1 DEF CycleStays, JobsStay, TypeOK, Goto
  <1>4. TypeOK'
    BY <1>1, <1>2 DEF TypeOK, Goto
  <1>5. Phases' /\ TimerIsCurrent'
    BY <1>1 DEF Fences, Phases, TimerIsCurrent, Goto, TypeOK
  <1>6. AttemptsAreReal' /\ OwedAreTargets' /\ TargetsAreDriven'
    BY DEF AttemptsAreReal, OwedAreTargets, TargetsAreDriven
  <1> QED
    BY <1>3, <1>4, <1>5, <1>6, CycleStaysFenced DEF Fences

(* What a tick that stops the timer of its own cycle leaves of the timer.  *)
LEMMA StopsKeepsTheTimer ==
    ASSUME TypeOK, NEW g, Stops(g)
    PROVE  /\ cancelTimer' = cancelTimer /\ ticking' \in BOOLEAN
           /\ ticking /\ cancelTimer # g => ticking'
  BY DEF Stops, TypeOK

LEMMA StopTickSound ==
    ASSUME IInv, NEW t \in Thread, StopTick(t)
    PROVE  IInv'
  <1> USE DEF IInv, recovery, history
  <1>1. NoDelivery \in Delivery
    BY DEF NoDelivery, Delivery
  <1>2. /\ cancelTimer' = cancelTimer /\ ticking' \in BOOLEAN
        /\ ticking /\ cancelTimer # local[t].generation => ticking'
    BY StopsKeepsTheTimer DEF StopTick
  <1>3. CycleStays
    BY DEF CycleStays, JobsStay, TypeOK, Done, StopTick
  <1>4. TypeOK'
    BY <1>1, <1>2 DEF TypeOK, Done, StopTick
  <1>5. Phases' /\ TimerIsCurrent'
    BY <1>2 DEF Fences, Phases, TimerIsCurrent, Done, TypeOK, StopTick
  <1>6. AttemptsAreReal' /\ OwedAreTargets'
    BY DEF AttemptsAreReal, OwedAreTargets, StopTick
  <1>7. TargetsAreDriven'
    BY <1>2 DEF TargetsAreDriven, Fences, TimerIsCurrent, StopTick
  <1> QED
    BY <1>3, <1>4, <1>5, <1>6, <1>7, CycleStaysFenced DEF Fences, StopTick

LEMMA SkipTickSound ==
    ASSUME IInv, NEW t \in Thread, SkipTick(t)
    PROVE  IInv'
  <1>1. failures' \in Nat /\ pc[t] # "Call"
    BY DEF SkipTick, IInv, TypeOK
  <1> QED
    BY <1>1, GivingUpIsSound DEF SkipTick

(* SelectEligible keeps the targets that have an attempt left, and an owed *)
(* device is one of them until its attempts are spent.                     *)
LEMMA SelectionIsExact ==
    ASSUME IInv, NEW t \in Thread, DeliverResumeReconnect(t)
    PROVE  /\ DOMAIN targets' = Eligible /\ targets' \in [Eligible -> 0 .. MaxAttempts]
           /\ \A d \in Eligible : /\ d \in DOMAIN targets /\ d \in Device /\ targets'[d] = targets[d]
                                  /\ resumed[d] = targets[d] /\ resumed[d] < MaxAttempts
           /\ owed' \subseteq Eligible
  <1> USE DEF IInv
  <1>1. targets' = [d \in Eligible |-> targets[d]] /\ ~cancelled
    BY DEF DeliverResumeReconnect, MayDeliver, Restrict
  <1>2. Eligible \subseteq DOMAIN targets /\ DOMAIN targets \subseteq Device
    BY DEF Eligible, TypeOK
  <1>3. \A d \in DOMAIN targets : targets[d] = resumed[d] /\ targets[d] \in 0 .. MaxAttempts
    BY <1>1 DEF AttemptsAreReal, TypeOK
  <1>4. targets' \in [Eligible -> 0 .. MaxAttempts]
    BY <1>1, <1>2, <1>3
  <1>5. owed' \subseteq Eligible
    BY <1>3 DEF DeliverResumeReconnect, OwedAreTargets, Eligible
  <1> QED
    BY <1>1, <1>2, <1>3, <1>4, <1>5 DEF Eligible

(* A tick that finds nothing to deliver, or no recovery to deliver for.    *)
LEMMA DeliverNothingSound ==
    ASSUME IInv, NEW t \in Thread, DeliverResumeReconnect(t), ~(Eligible # {} /\ reconnect)
    PROVE  Fenced' /\ HeldOnce' /\ InFlight' /\ AttemptsAreLeft'
  <1> USE DEF IInv
  <1>1. /\ pc[t] = "Deliver" /\ ~deliveryInFlight /\ deliveryInFlight' = FALSE /\ Done(t)
        /\ deliverySequence' = deliverySequence + 1
        /\ UNCHANGED <<exiting, generation, cancelled, queue>>
    BY DEF DeliverResumeReconnect, MayDeliver
  <1>2. JobsStay
    BY <1>1 DEF JobsStay, Done, TypeOK
  <1>3. Outstanding' = Outstanding /\ HeldOnce'
    BY <1>2, JobsStayTheSame DEF Fences
  <1>4. Live' = {}
    BY <1>1, <1>3 DEF Live, IsCurrent, Fences, InFlight
  <1>5. Fenced'
    <2> SUFFICES ASSUME NEW job \in Outstanding
                 PROVE  job.delivery <= deliverySequence'
      BY <1>1, <1>3 DEF Fences, Fenced
    <2> QED
      BY <1>1, OutstandingTyped DEF Fences, Fenced, Delivery, TypeOK
  <1> QED
    BY <1>1, <1>3, <1>4, <1>5 DEF InFlight, AttemptsAreLeft

(* The delivery a tick starts is the only one that is live.                *)
LEMMA DeliverOneSound ==
    ASSUME IInv, NEW t \in Thread, DeliverResumeReconnect(t), Eligible # {}, reconnect
    PROVE  Fenced' /\ HeldOnce' /\ InFlight' /\ AttemptsAreLeft'
  <1> USE DEF IInv
  <1> DEFINE job == local'[t]
  <1>1. /\ pc[t] = "Deliver" /\ ~deliveryInFlight /\ deliveryInFlight' = TRUE /\ Goto(t, "Call")
        /\ local' = [local EXCEPT ![t].delivery = deliverySequence', ![t].ids = Eligible]
        /\ deliverySequence' = deliverySequence + 1
        /\ ~cancelled /\ generation = local[t].generation
        /\ UNCHANGED <<exiting, generation, reconnect, cancelled, queue, resumed>>
    BY DEF DeliverResumeReconnect, MayDeliver
  <1>2. job.delivery = deliverySequence + 1 /\ job.generation = generation /\ job.ids = Eligible
    BY <1>1 DEF TypeOK, Delivery
  <1>3. /\ \A u \in Thread : pc'[u] = "Call" <=> u = t \/ pc[u] = "Call"
        /\ \A u \in Thread : u # t => local'[u] = local[u]
    BY <1>1 DEF TypeOK, Goto
  <1> HIDE DEF job
  <1>4. Outstanding' = Outstanding \cup {job}
    BY <1>1, <1>3 DEF Outstanding, job
  <1>5. \A k \in Outstanding : k.delivery \in Nat /\ k.delivery <= deliverySequence
    BY OutstandingTyped DEF Fences, Fenced, Delivery
  <1>6. deliverySequence \in Nat /\ generation \in Nat
    BY DEF TypeOK
  <1>7. HeldOnce'
    <2>1. \A u \in Thread : pc[u] = "Call" => local[u].delivery # job.delivery
      BY <1>2, <1>5, <1>6 DEF Outstanding
    <2>2. \A q \in queue : q.delivery # job.delivery
      BY <1>2, <1>5, <1>6 DEF Outstanding
    <2> QED
      <3>1. ASSUME NEW u \in Thread, NEW v \in Thread, pc'[u] = "Call", pc'[v] = "Call",
                   local'[u].delivery = local'[v].delivery
            PROVE  u = v
        <4>1. u # t => pc[u] = "Call" /\ local'[u] = local[u]
          BY <1>3, <3>1
        <4>2. v # t => pc[v] = "Call" /\ local'[v] = local[v]
          BY <1>3, <3>1
        <4> QED
          BY <2>1, <3>1, <4>1, <4>2 DEF Fences, HeldOnce, job
      <3>2. ASSUME NEW u \in Thread, NEW q \in queue, pc'[u] = "Call"
            PROVE  q.delivery # local'[u].delivery
        BY <1>3, <2>2, <3>2 DEF Fences, HeldOnce, job
      <3> QED
        BY <1>1, <3>1, <3>2 DEF Fences, HeldOnce
  <1>8. Live = {}
    BY <1>1 DEF Fences, InFlight
  <1>9. Live' = {job}
    BY <1>1, <1>2, <1>4, <1>8 DEF Live, IsCurrent
  <1>10. Fenced'
    BY <1>1, <1>2, <1>4, <1>5, <1>6 DEF Fences, Fenced
  <1>11. InFlight'
    BY <1>1, <1>2, <1>9 DEF InFlight
  <1>12. AttemptsAreLeft'
    BY <1>1, <1>2, <1>9, SelectionIsExact DEF AttemptsAreLeft
  <1> QED
    BY <1>7, <1>10, <1>11, <1>12

LEMMA DeliverResumeReconnectSound ==
    ASSUME IInv, NEW t \in Thread, DeliverResumeReconnect(t)
    PROVE  IInv'
  <1> USE DEF IInv
  <1>1. NoDelivery \in Delivery
    BY DEF NoDelivery, Delivery
  <1>2. /\ pc[t] = "Deliver" /\ deliverySequence' = deliverySequence + 1
        /\ ~cancelled /\ generation = local[t].generation /\ DOMAIN targets # {}
        /\ deliveryInFlight' = (Eligible # {} /\ reconnect)
        /\ UNCHANGED <<powerSuspended, exiting, generation, reconnect, cancelled, queue, failures,
                       resumed>>
    BY DEF DeliverResumeReconnect, MayDeliver
  <1>3. \/ Done(t)
        \/ /\ Goto(t, "Call")
           /\ local' = [local EXCEPT ![t].delivery = deliverySequence', ![t].ids = Eligible]
    BY DEF DeliverResumeReconnect
  <1>4. cancelTimer' = cancelTimer /\ ticking' \in BOOLEAN /\ (Eligible # {} => ticking' = ticking)
    <2>1. CASE Eligible = {}
      BY <2>1, StopsKeepsTheTimer DEF DeliverResumeReconnect
    <2>2. CASE Eligible # {}
      BY <2>2 DEF DeliverResumeReconnect, timer, TypeOK
    <2> QED
      BY <2>1, <2>2
  <1>5. TypeOK'
    <2>1. /\ DOMAIN targets' \subseteq Device /\ targets' \in [DOMAIN targets' -> 0 .. MaxAttempts]
          /\ owed' \subseteq Device
      BY SelectionIsExact
    <2>2. pc' \in [Thread -> {"Idle", "SuspendDevices", "ResumeDevices", "Schedule", "Deliver", "Call"}]
      BY <1>3 DEF TypeOK, Done, Goto
    <2>3. deliverySequence' \in Nat /\ Eligible \subseteq Device
      BY <1>2 DEF TypeOK, Eligible
    <2>4. local' \in [Thread -> Delivery]
      BY <1>1, <1>3, <2>3 DEF TypeOK, Done, Delivery
    <2>5. deliveryInFlight' \in BOOLEAN
      BY <1>2
    <2> QED
      BY <1>2, <1>4, <2>1, <2>2, <2>3, <2>4, <2>5 DEF TypeOK
  <1>6. Fenced' /\ HeldOnce' /\ InFlight' /\ AttemptsAreLeft'
    BY DeliverNothingSound, DeliverOneSound
  <1>7. Phases'
    <2>1. \A u \in Thread : u # t => pc'[u] = pc[u] /\ local'[u] = local[u]
      BY <1>3 DEF TypeOK, Done, Goto
    <2>2. pc'[t] \in {"Idle", "Call"}
      BY <1>3 DEF TypeOK, Done, Goto
    <2>3. UI \in Thread
      BY DEF Thread
    <2> QED
      BY <1>2, <2>1, <2>2, <2>3 DEF Fences, Phases
  <1>8. TimerIsCurrent'
    BY <1>2, <1>4 DEF Fences, TimerIsCurrent
  <1>9. AttemptsAreReal' /\ OwedAreTargets'
    BY <1>2, SelectionIsExact DEF AttemptsAreReal, OwedAreTargets
  <1>10. TargetsAreDriven'
    BY <1>2, <1>4, SelectionIsExact DEF TargetsAreDriven
  <1> QED
    BY <1>5, <1>6, <1>7, <1>8, <1>9, <1>10 DEF Fences


(***************************************************************************)
(* The host's callback and its completion.                                 *)
(***************************************************************************)

(* A live job is the one in flight, and its completion counts.             *)
LEMMA CompletedSound ==
    ASSUME IInv, NEW job \in Outstanding, NEW attempted \in SUBSET job.ids,
           attempted # {} => IsCurrent(job.generation),
           Completed(job, attempted),
           resumed' = [d \in Device |-> IF d \in attempted THEN resumed[d] + 1 ELSE resumed[d]],
           Outstanding' = Outstanding \ {job}, HeldOnce',
           UNCHANGED <<exiting, generation, deliverySequence, reconnect, cancelled, owed>>
    PROVE  /\ Fenced' /\ InFlight' /\ AttemptsAreLeft' /\ AttemptsAreReal' /\ OwedAreTargets'
           /\ DOMAIN targets' = DOMAIN targets /\ targets' \in [DOMAIN targets -> 0 .. MaxAttempts]
           /\ deliveryInFlight' \in BOOLEAN /\ resumed' \in [Device -> Nat]
  <1> USE DEF IInv
  <1>1. /\ DOMAIN targets \subseteq Device /\ targets \in [DOMAIN targets -> 0 .. MaxAttempts]
        /\ deliveryInFlight \in BOOLEAN /\ resumed \in [Device -> Nat] /\ MaxAttempts \in Nat
    BY PowerTransitionAssumption DEF TypeOK
  <1>2. job.ids \subseteq Device
    BY OutstandingTyped DEF Delivery
  <1>3. resumed' \in [Device -> Nat]
    BY <1>1
  <1>4. Fenced'
    BY DEF Fences, Fenced
  <1>5. Live' = Live \ {job}
    BY DEF Live, IsCurrent
  <1>6. CASE job \in Live
    <2>1. /\ IsCurrent(job.generation) /\ deliverySequence = job.delivery /\ deliveryInFlight
          /\ ~cancelled
      BY <1>6 DEF Live, Fences, InFlight, IsCurrent
    <2>2. /\ targets' = [d \in DOMAIN targets |->
                             IF d \in attempted THEN targets[d] + 1 ELSE targets[d]]
          /\ deliveryInFlight' = FALSE
      BY <2>1 DEF Completed
    <2>3. Live' = {}
      <3> SUFFICES ASSUME NEW k \in Live PROVE k = job
        BY <1>5
      <3>1. k \in Outstanding /\ k.delivery = deliverySequence
        BY DEF Live, Fences, InFlight
      <3> QED
        BY <2>1, <3>1, JobsDiffer DEF Fences
    <2>4. \A d \in attempted : resumed[d] < MaxAttempts
      BY <1>6 DEF Fences, AttemptsAreLeft
    <2>5. \A d \in DOMAIN targets : targets[d] = resumed[d]
      BY <2>1 DEF AttemptsAreReal
    <2>6. \A d \in Device : resumed'[d] <= MaxAttempts
      BY <1>1, <2>4 DEF AttemptsAreReal
    <2>7. \A d \in DOMAIN targets : targets'[d] = resumed'[d]
      BY <1>1, <2>2, <2>5
    <2>8. DOMAIN targets' = DOMAIN targets /\ targets' \in [DOMAIN targets -> 0 .. MaxAttempts]
      <3>1. DOMAIN targets' = DOMAIN targets
        BY <2>2
      <3>2. \A d \in DOMAIN targets : targets'[d] \in 0 .. MaxAttempts
        BY <1>1, <1>3, <2>6, <2>7
      <3> QED
        BY <2>2, <3>1, <3>2
    <2> QED
      BY <1>3, <1>4, <2>2, <2>3, <2>6, <2>7, <2>8
         DEF InFlight, AttemptsAreLeft, AttemptsAreReal, OwedAreTargets
  <1>7. CASE job \notin Live
    <2>1. ~IsCurrent(job.generation)
      BY <1>7 DEF Live
    <2>2. attempted = {} /\ UNCHANGED <<targets, deliveryInFlight>>
      BY <2>1 DEF Completed
    <2>3. \A d \in Device : resumed'[d] = resumed[d]
      BY <2>2
    <2>4. Live' = Live
      BY <1>5, <1>7
    <2>5. InFlight'
      BY <2>2, <2>4 DEF Fences, InFlight
    <2>6. AttemptsAreLeft'
      <3>1. \A k \in Live : k.ids \subseteq Device
        BY OutstandingTyped DEF Live, Delivery
      <3> QED
        BY <2>3, <2>4, <3>1 DEF Fences, AttemptsAreLeft
    <2>7. AttemptsAreReal' /\ OwedAreTargets'
      BY <1>1, <2>2, <2>3 DEF AttemptsAreReal, OwedAreTargets
    <2> QED
      BY <1>1, <1>3, <1>4, <2>2, <2>5, <2>6, <2>7
  <1> QED
    BY <1>6, <1>7

(* A thread that hands its job over, or gives it up, no longer holds it.   *)
LEMMA HandedOver ==
    ASSUME IInv, NEW t \in Thread, pc[t] = "Call", Done(t)
    PROVE  /\ \A u \in Thread : u # t => pc'[u] = pc[u] /\ local'[u] = local[u]
           /\ pc'[t] = "Idle" /\ local[t] \in Outstanding
           /\ pc' \in [Thread -> {"Idle", "SuspendDevices", "ResumeDevices", "Schedule", "Deliver", "Call"}]
           /\ local' \in [Thread -> Delivery]
  <1>1. NoDelivery \in Delivery
    BY DEF NoDelivery, Delivery
  <1> QED
    BY <1>1 DEF IInv, TypeOK, Done, Outstanding

LEMMA ThreadGivesUp ==
    ASSUME IInv, NEW t \in Thread, pc[t] = "Call", Done(t), queue' = queue
    PROVE  Outstanding' = Outstanding \ {local[t]} /\ HeldOnce'
  <1> USE HandedOver DEF IInv
  <1>1. \A u \in Thread : pc'[u] = "Call" => u # t /\ pc[u] = "Call" /\ local'[u] = local[u]
    OBVIOUS
  <1>2. \A u \in Thread : pc[u] = "Call" /\ u # t => pc'[u] = "Call" /\ local[u] # local[t]
    BY DEF Fences, HeldOnce
  <1>3. \A q \in queue : q # local[t]
    BY DEF Fences, HeldOnce
  <1>4. Outstanding' = Outstanding \ {local[t]}
    BY <1>1, <1>2, <1>3 DEF Outstanding
  <1>5. HeldOnce'
    BY <1>1 DEF Fences, HeldOnce
  <1> QED
    BY <1>4, <1>5


LEMMA CallAcceptedSound ==
    ASSUME IInv, NEW p \in Pool, CallAccepted(p)
    PROVE  IInv'
  <1> USE DEF IInv, CallAccepted, recovery, timer, history
  <1>1. p \in Thread /\ p # UI /\ local[p] \in Delivery
    BY PowerTransitionAssumption DEF Thread, TypeOK
  <1>2. \A u \in Thread : pc'[u] = "Call" <=> u # p /\ pc[u] = "Call"
    BY <1>1, HandedOver
  <1>3. \A u \in Thread : u # p => local'[u] = local[u]
    BY <1>1, HandedOver
  <1>4. Outstanding' = Outstanding
    <2>1. \A job \in Outstanding : job \in Outstanding'
      BY <1>1, <1>2, <1>3 DEF Outstanding
    <2>2. \A job \in Outstanding' : job \in Outstanding
      BY <1>1, <1>2, <1>3 DEF Outstanding
    <2> QED
      BY <2>1, <2>2
  <1>5. HeldOnce'
    <2>1. \A t, u \in Thread :
              pc'[t] = "Call" /\ pc'[u] = "Call" /\ local'[t].delivery = local'[u].delivery => t = u
      BY <1>2, <1>3 DEF Fences, HeldOnce
    <2>2. \A t \in Thread, q \in queue' : pc'[t] = "Call" => q.delivery # local'[t].delivery
      BY <1>1, <1>2, <1>3 DEF Fences, HeldOnce
    <2>3. \A q, r \in queue' : q.delivery = r.delivery => q = r
      BY <1>1 DEF Fences, HeldOnce
    <2> QED
      BY <2>1, <2>2, <2>3 DEF HeldOnce
  <1>6. Live' = Live
    BY <1>4 DEF Live, IsCurrent
  <1>7. Fenced' /\ InFlight' /\ AttemptsAreLeft'
    BY <1>4, <1>6 DEF Fences, Fenced, InFlight, AttemptsAreLeft
  <1>8. TypeOK'
    BY <1>1, HandedOver DEF TypeOK
  <1>9. Phases' /\ TimerIsCurrent'
    BY <1>1, HandedOver DEF Fences, Phases, TimerIsCurrent, Thread
  <1>10. AttemptsAreReal' /\ OwedAreTargets' /\ TargetsAreDriven'
    BY DEF AttemptsAreReal, OwedAreTargets, TargetsAreDriven
  <1> QED
    BY <1>5, <1>7, <1>8, <1>9, <1>10 DEF Fences

(* A completion leaves the timer and the lifecycle alone, so with what it  *)
(* does to the jobs and targets the whole invariant is kept.               *)
LEMMA CompletionKeepsTheRest ==
    ASSUME IInv, DOMAIN targets' = DOMAIN targets,
           UNCHANGED <<powerSuspended, exiting, generation, reconnect, cancelled, timer>>,
           (pc' = pc /\ local' = local) \/ \E t \in Thread : pc[t] = "Call" /\ Done(t)
    PROVE  Phases' /\ TimerIsCurrent' /\ TargetsAreDriven'
  <1> USE DEF IInv
  <1>1. UI \in Thread
    BY DEF Thread
  <1>2. (pc'[UI] = pc[UI] /\ local'[UI] = local[UI]) \/ pc'[UI] = "Idle"
    BY <1>1, HandedOver
  <1>3. Phases'
    BY <1>2 DEF Fences, Phases
  <1>4. TimerIsCurrent' /\ TargetsAreDriven'
    BY DEF Fences, TimerIsCurrent, TargetsAreDriven, timer
  <1> QED
    BY <1>3, <1>4

LEMMA CallRejectedSound ==
    ASSUME IInv, NEW p \in Pool, CallRejected(p)
    PROVE  IInv'
  <1> USE DEF IInv
  <1>1. p \in Thread /\ pc[p] = "Call" /\ Done(p) /\ Completed(local[p], {})
    BY DEF CallRejected, Thread
  <1>2. UNCHANGED <<powerSuspended, exiting, generation, deliverySequence, reconnect, cancelled,
                    timer, queue, owed, resumed>>
    BY DEF CallRejected, history
  <1>3. local[p] \in Outstanding /\ Outstanding' = Outstanding \ {local[p]} /\ HeldOnce'
    BY <1>1, <1>2, HandedOver, ThreadGivesUp
  <1>4. resumed' = [d \in Device |-> IF d \in {} THEN resumed[d] + 1 ELSE resumed[d]]
    BY <1>2 DEF TypeOK
  <1>5. /\ Fenced' /\ InFlight' /\ AttemptsAreLeft' /\ AttemptsAreReal' /\ OwedAreTargets'
        /\ DOMAIN targets' = DOMAIN targets /\ targets' \in [DOMAIN targets -> 0 .. MaxAttempts]
        /\ deliveryInFlight' \in BOOLEAN /\ resumed' \in [Device -> Nat]
    BY <1>1, <1>2, <1>3, <1>4, CompletedSound
  <1>6. failures' \in Nat
    BY DEF CallRejected, TypeOK
  <1>7. TypeOK'
    BY <1>1, <1>2, <1>5, <1>6, HandedOver DEF TypeOK, timer
  <1>8. Phases' /\ TimerIsCurrent' /\ TargetsAreDriven'
    BY <1>1, <1>2, <1>5, CompletionKeepsTheRest
  <1> QED
    BY <1>3, <1>5, <1>7, <1>8 DEF Fences

(* The task on the UI thread, wherever it was held.                        *)
LEMMA ReconnectSound ==
    ASSUME IInv, NEW job \in Outstanding, Reconnect(job),
           Outstanding' = Outstanding \ {job}, HeldOnce', queue' \subseteq queue,
           (pc' = pc /\ local' = local) \/ \E t \in Thread : pc[t] = "Call" /\ Done(t)
    PROVE  IInv'
  <1> USE DEF IInv
  <1> DEFINE attempted == IF IsResumeReconnectGenerationCurrent(job.generation) THEN job.ids ELSE {}
  <1>1. /\ Completed(job, attempted)
        /\ resumed' = [d \in Device |-> IF d \in attempted THEN resumed[d] + 1 ELSE resumed[d]]
        /\ UNCHANGED <<powerSuspended, exiting, generation, deliverySequence, reconnect, cancelled,
                       timer, failures, owed>>
    BY DEF Reconnect
  <1>2. attempted \subseteq job.ids /\ (attempted # {} => IsCurrent(job.generation))
    BY DEF IsResumeReconnectGenerationCurrent
  <1> HIDE DEF attempted
  <1>3. /\ Fenced' /\ InFlight' /\ AttemptsAreLeft' /\ AttemptsAreReal' /\ OwedAreTargets'
        /\ DOMAIN targets' = DOMAIN targets /\ targets' \in [DOMAIN targets -> 0 .. MaxAttempts]
        /\ deliveryInFlight' \in BOOLEAN /\ resumed' \in [Device -> Nat]
    BY <1>1, <1>2, CompletedSound
  <1>4. /\ pc' \in [Thread -> {"Idle", "SuspendDevices", "ResumeDevices", "Schedule", "Deliver", "Call"}]
        /\ local' \in [Thread -> Delivery]
    BY HandedOver DEF TypeOK
  <1>5. TypeOK'
    BY <1>1, <1>3, <1>4 DEF TypeOK, timer
  <1>6. Phases' /\ TimerIsCurrent' /\ TargetsAreDriven'
    BY <1>1, <1>3, CompletionKeepsTheRest
  <1> QED
    BY <1>3, <1>5, <1>6 DEF Fences

LEMMA RunTaskSound ==
    ASSUME IInv, NEW job \in queue, RunTask(job)
    PROVE  IInv'
  <1>1. job \in Outstanding /\ Reconnect(job) /\ queue' = queue \ {job} /\ pc' = pc /\ local' = local
    BY DEF RunTask, Outstanding
  <1>2. Outstanding' = Outstanding \ {job}
    BY <1>1 DEF Outstanding, IInv, Fences, HeldOnce
  <1>3. HeldOnce'
    BY <1>1 DEF IInv, Fences, HeldOnce
  <1> QED
    BY <1>1, <1>2, <1>3, ReconnectSound

LEMMA CallInlineSound ==
    ASSUME IInv, CallInline
    PROVE  IInv'
  <1>1. UI \in Thread /\ pc[UI] = "Call" /\ Done(UI) /\ queue' = queue /\ Reconnect(local[UI])
    BY DEF CallInline, Thread
  <1>2. local[UI] \in Outstanding /\ Outstanding' = Outstanding \ {local[UI]} /\ HeldOnce'
    BY <1>1, HandedOver, ThreadGivesUp
  <1> QED
    BY <1>1, <1>2, ReconnectSound

(***************************************************************************)
(* The theorems.                                                           *)
(***************************************************************************)
LEMMA StepIsSound ==
    ASSUME IInv, Next
    PROVE  IInv'
  <1>1. CASE Host
    BY <1>1, HandleSuspendSound, SuspendDevicesSound, FailuresSound, HandleResumeSound,
       InstallReconnectSound, ScheduleSound, TimerUnavailableSound, PerformTeardownSound,
       CancelSound, CallInlineSound, NotifyDeviceConnectedSound DEF Host
  <1>2. CASE \E t \in Thread : Tick(t)
    BY <1>2, StopTickSound, SkipTickSound, DeliverResumeReconnectSound DEF Tick
  <1>3. CASE \E p \in Pool : FireTimer(p) \/ ApartmentUnavailable(p) \/ CallAccepted(p) \/ CallRejected(p)
    BY <1>3, FireTimerSound, FailuresSound, CallAcceptedSound, CallRejectedSound
  <1>4. CASE \E job \in queue : RunTask(job)
    BY <1>4, RunTaskSound
  <1> QED
    BY <1>1, <1>2, <1>3, <1>4 DEF Next

(* The invariant that carries the recovery through any order of suspends,  *)
(* resumes, ticks, completions and the exit.                               *)
THEOREM RecoveryInvariant == Spec => []IInv
  <1>1. IInv /\ UNCHANGED vars => IInv'
    <2> SUFFICES ASSUME IInv, UNCHANGED vars PROVE IInv'
      OBVIOUS
    <2> USE DEF vars, recovery, timer, threads, history
    <2>1. Outstanding' = Outstanding /\ Live' = Live
      BY DEF Outstanding, Live, IsCurrent
    <2>2. TypeOK' /\ AttemptsAreReal' /\ OwedAreTargets' /\ TargetsAreDriven'
      BY DEF IInv, TypeOK, AttemptsAreReal, OwedAreTargets, TargetsAreDriven
    <2>3. Fences'
      BY <2>1 DEF IInv, Fences, Phases, Fenced, HeldOnce, InFlight, AttemptsAreLeft, TimerIsCurrent
    <2> QED
      BY <2>2, <2>3 DEF IInv
  <1> QED
    BY <1>1, InitIsSound, StepIsSound, PTL DEF Spec

(* At most one delivery is live, because all that are live carry the       *)
(* current number and a number is given once.                              *)
LEMMA AtMostOneIsLive ==
    ASSUME IInv
    PROVE  OneDeliveryAtATime
  <1>1. \A i, j \in Live : i = j
    BY JobsDiffer DEF IInv, Fences, InFlight, Live
  <1>2. Cardinality(Live) <= 1
    <2>1. CASE Live = {}
      BY <2>1, FS_EmptySet
    <2>2. CASE Live # {}
      <3>1. PICK job : job \in Live
        BY <2>2
      <3>2. Live = {job}
        BY <1>1, <3>1
      <3>3. Cardinality({job}) = 1
        BY FS_Singleton
      <3> QED
        BY <3>2, <3>3
    <2> QED
      BY <2>1, <2>2
  <1> QED
    BY <1>2 DEF IInv, Fences, InFlight, OneDeliveryAtATime

(* The recovery after a suspend is exact, for any number of devices and of *)
(* ticks that overlap: one delivery at a time and none lost, attempts      *)
(* counted only when made, no device in use at a suspend forgotten, and a  *)
(* timer that is held fires for the current cycle (HandlePowerResume,      *)
(* DeliverResumeReconnect, OnTimer).                                       *)
THEOREM RecoveryExact == Spec => []RecoveryIsExact
  <1>1. IInv => RecoveryIsExact
    BY AtMostOneIsLive DEF IInv, RecoveryIsExact
  <1> QED
    BY <1>1, RecoveryInvariant, PTL

(* No device is reconnected while the system is suspended or after the     *)
(* application began to exit, by whatever was queued or ticking before     *)
(* (IsResumeReconnectGenerationCurrent).                                   *)
THEOREM NoReconnectWhileSuspended == Spec => [][NoReconnectWhileSuspendedStep]_vars
  <1>1. ASSUME IInv, NEW job \in Outstanding, Reconnect(job), ~exiting
        PROVE  NoReconnectWhileSuspendedStep
    <2> SUFFICES ASSUME NEW d \in Device, resumed'[d] > resumed[d]
                 PROVE  ~powerSuspended
      BY <1>1 DEF NoReconnectWhileSuspendedStep
    <2>1. IsResumeReconnectGenerationCurrent(job.generation)
      <3> SUFFICES ASSUME ~IsResumeReconnectGenerationCurrent(job.generation) PROVE FALSE
        OBVIOUS
      <3>1. resumed'[d] = resumed[d]
        BY <1>1 DEF Reconnect
      <3> QED
        BY <3>1, <1>1 DEF IInv, TypeOK
    <2>2. job \in Live
      BY <2>1 DEF Live, IsResumeReconnectGenerationCurrent
    <2> QED
      BY <1>1, <2>2 DEF IInv, Fences, InFlight, Phases
  <1>2. IInv /\ [Next]_vars => [NoReconnectWhileSuspendedStep]_vars
    <2> SUFFICES ASSUME IInv, Next PROVE NoReconnectWhileSuspendedStep
      OBVIOUS
    <2>1. CASE \E job \in queue : RunTask(job)
      BY <1>1, <2>1 DEF RunTask, Outstanding
    <2>2. CASE CallInline
      <3>1. ~exiting /\ local[UI] \in Outstanding
        BY <2>2 DEF CallInline, IInv, Fences, Phases, Outstanding, Thread
      <3> QED
        BY <1>1, <2>2, <3>1 DEF CallInline
    <2>3. CASE \E ids \in SUBSET Device : SuspendDevices(ids)
      <3>1. \A d \in Device : resumed'[d] = 0 \/ resumed'[d] = resumed[d]
        BY <2>3 DEF SuspendDevices, history
      <3> QED
        BY <3>1 DEF IInv, TypeOK, NoReconnectWhileSuspendedStep
    <2>4. CASE ~((\E job \in queue : RunTask(job)) \/ CallInline
                   \/ \E ids \in SUBSET Device : SuspendDevices(ids))
      <3>1. resumed' = resumed
        <4>1. CASE Host
          BY <2>4, <4>1 DEF Host, HandleSuspend, SuspendFails, HandleResume, ResumeFails,
             InstallReconnect, Schedule, TimerUnavailable, PerformTeardown, Cancel,
             NotifyDeviceConnected, history
        <4>2. CASE ~Host
          BY <2>4, <4>2 DEF Next, Tick, StopTick, SkipTick, DeliverResumeReconnect, FireTimer,
             ApartmentUnavailable, CallAccepted, CallRejected, history
        <4> QED
          BY <4>1, <4>2
      <3> QED
        BY <3>1 DEF IInv, TypeOK, NoReconnectWhileSuspendedStep
    <2> QED
      BY <2>1, <2>2, <2>3, <2>4
  <1> QED
    BY <1>2, RecoveryInvariant, PTL DEF Spec
=============================================================================
