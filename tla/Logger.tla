-------------------------------- MODULE Logger --------------------------------
(***************************************************************************)
(* The logger (util/Logger): callers on any thread put lines into a ring   *)
(* kept for emergencies and into a bounded queue that one worker writes to *)
(* the log file; a shutdown refuses new calls and leaves the release of    *)
(* queue and worker to a thread-pool callback; crash handlers dump the     *)
(* ring through a file handle of their own.                                *)
(*                                                                         *)
(* A line in the ring is the ordinal of its Add and an item of the queue   *)
(* the ordinal of its posting; what the lines say is left out, and so are  *)
(* the rotation of the file and the pattern of its lines.                  *)
(***************************************************************************)
EXTENDS Naturals, Sequences

CONSTANTS Writer,    \* threads that log
          Dumper,    \* threads that dump the ring
          Capacity,  \* of the queue (10000 in the program)
          TailSize,  \* of the ring (100 in the program)
          Budgets    \* how many calls, dumps, shutdowns, faults and timeouts a behaviour has

VARIABLES state,     \* LogState: ActiveCalls, Closing, Finished, Dropped, Errors, Pool, File
          writer,    \* what each thread's SubmitLog is at
          queue,     \* the pool's queue: items, posted so far, overrun_counter
          file,      \* the items in the log file, and the drops its last line reports, if it does
          tail,      \* EmergencyState: Lines, Next, Count, the holder of TailLock, Scratch, Dumping
          dumper,    \* what each thread's Dump is at
          closer,    \* the thread in Shutdown
          budget

vars == <<state, writer, queue, file, tail, dumper, closer, budget>>

Spend(what) == budget[what] > 0 /\ budget' = [budget EXCEPT ![what] = @ - 1]

Idle == [at |-> "idle"]
Torn == 0            \* a line being copied
Nobody == "nobody"   \* holds TailLock

Init ==
    /\ state = [active |-> 0, closing |-> FALSE, finished |-> FALSE, dropped |-> 0, errors |-> 0,
                pool |-> "running", release |-> "owned"]
    /\ writer = [w \in Writer |-> Idle]
    /\ queue = [items |-> <<>>, posted |-> 0, overruns |-> 0]
    /\ file = [items |-> <<>>, reported |-> {}, open |-> TRUE]
    /\ tail = [lines |-> [i \in 0..TailSize - 1 |-> Torn], next |-> 0, count |-> 0, added |-> 0,
               holder |-> Nobody, scratch |-> <<>>, dumping |-> FALSE]
    /\ dumper = [d \in Dumper |-> Idle]
    /\ closer = "idle"
    /\ budget \in Budgets

---------------------------------------------------------------------------
\* ObserveDrops: the greatest count anyone has read.
StoreDrops(s, count) == [s EXCEPT !.dropped = count]
ObserveDrops(s, count) == [s EXCEPT !.dropped = IF @ < count THEN count ELSE @]

\* SubmitLog admits a call unless the logger is closing.
AdmitAlways(w) == state' = [state EXCEPT !.active = @ + 1]
Admit(w) == ~state.closing /\ state' = [state EXCEPT !.active = @ + 1]

Submit(w, kind) ==
    /\ writer[w].at = "idle" /\ Spend("calls")
    /\ Admit(w)
    /\ writer' = [writer EXCEPT ![w] = [at |-> IF kind = "flush" THEN "posting" ELSE "adding", kind |-> kind]]
    /\ UNCHANGED <<queue, file, tail, dumper, closer>>

\* EmergencyState::Add: the line is copied under TailLock, ...
AddBegin(w) ==
    /\ writer[w].at = "adding" /\ tail.holder = Nobody
    /\ tail' = [tail EXCEPT !.holder = w, !.lines[tail.next] = Torn]
    /\ writer' = [writer EXCEPT ![w].at = "copying"]
    /\ UNCHANGED <<state, queue, file, dumper, closer, budget>>

\* ... then the ring moves on; only some lines go to the file as well.
AddEnd(w) ==
    /\ writer[w].at = "copying"
    /\ tail' = [tail EXCEPT !.lines[tail.next] = tail.added + 1, !.added = @ + 1, !.holder = Nobody,
                            !.next = (@ + 1) % TailSize, !.count = IF @ < TailSize THEN @ + 1 ELSE @]
    /\ writer' = [writer EXCEPT ![w].at = IF writer[w].kind = "line" THEN "posting" ELSE "observing"]
    /\ UNCHANGED <<state, queue, file, dumper, closer, budget>>

\* The queue overruns its oldest item when it is full.
Posted(q) ==
    [items |-> Append(IF Len(q.items) = Capacity THEN Tail(q.items) ELSE q.items, q.posted + 1),
     posted |-> q.posted + 1,
     overruns |-> IF Len(q.items) = Capacity THEN q.overruns + 1 ELSE q.overruns]

Post(w) ==
    /\ writer[w].at = "posting"
    /\ queue' = Posted(queue)
    /\ writer' = [writer EXCEPT ![w].at = "observing"]
    /\ UNCHANGED <<state, file, tail, dumper, closer, budget>>

\* The line cannot be encoded or no memory is left: the call ends without it.
SubmitFails(w) ==
    /\ writer[w].at \in {"adding", "posting"} /\ Spend("faults")
    /\ state' = [state EXCEPT !.errors = @ + 1]
    /\ writer' = [writer EXCEPT ![w].at = "observing"]
    /\ UNCHANGED <<queue, file, tail, dumper, closer>>

\* The scope_exit of SubmitLog reads the overrun counter ...
ReadOverruns(w) ==
    /\ writer[w].at = "observing"
    /\ writer' = [writer EXCEPT ![w] = [at |-> "leaving", seen |-> queue.overruns]]
    /\ UNCHANGED <<state, queue, file, tail, dumper, closer, budget>>

\* ... and leaves the call.
Leave(w) ==
    /\ writer[w].at = "leaving"
    /\ state' = [ObserveDrops(state, writer[w].seen) EXCEPT !.active = @ - 1]
    /\ writer' = [writer EXCEPT ![w] = Idle]
    /\ UNCHANGED <<queue, file, tail, dumper, closer, budget>>

\* The pool's worker takes the oldest item; a failing file counts as an error.
WorkerWrites(ok) ==
    /\ state.pool = "running" /\ queue.items # <<>>
    /\ ok \/ budget.faults > 0
    /\ budget' = IF ok THEN budget ELSE [budget EXCEPT !.faults = @ - 1]
    /\ queue' = [queue EXCEPT !.items = Tail(@)]
    /\ file' = IF ok THEN [file EXCEPT !.items = Append(@, Head(queue.items))] ELSE file
    /\ state' = IF ok THEN state ELSE [state EXCEPT !.errors = @ + 1]
    /\ UNCHANGED <<writer, tail, dumper, closer>>

---------------------------------------------------------------------------
\* Logger::Shutdown: the first one hands the release to the thread pool; all wait.
Shutdown ==
    /\ closer = "idle" /\ Spend("stops")
    /\ closer' = "waiting"
    /\ state' = [state EXCEPT !.closing = TRUE, !.release = IF @ = "owned" THEN "submitted" ELSE @]
    /\ UNCHANGED <<writer, queue, file, tail, dumper>>

ShutdownReturns ==
    /\ closer = "waiting"
    /\ state.finished \/ budget.timeouts > 0
    /\ budget' = IF state.finished THEN budget ELSE [budget EXCEPT !.timeouts = @ - 1]
    /\ closer' = IF state.finished THEN "done" ELSE "idle"
    /\ UNCHANGED <<state, writer, queue, file, tail, dumper>>

\* LogRelease::Run waits for the calls under way, ...
CallsAreOverOrNot == state.release = "submitted"
CallsAreOver == state.release = "submitted" /\ state.active = 0

ReleaseBegins ==
    /\ CallsAreOver
    /\ state' = [ObserveDrops(state, queue.overruns) EXCEPT !.release = "draining"]
    /\ UNCHANGED <<writer, queue, file, tail, dumper, closer, budget>>

\* ... lets the worker empty the queue and joins it, ...
PoolResets ==
    /\ state.release = "draining" /\ queue.items = <<>>
    /\ state' = [state EXCEPT !.pool = "gone", !.release = "reporting"]
    /\ UNCHANGED <<writer, queue, file, tail, dumper, closer, budget>>

\* ... reports what was dropped, unless the file fails, and closes the file.
ReleaseEnds(ok) ==
    /\ state.release = "reporting"
    /\ IF ok THEN budget' = budget ELSE Spend("faults")
    /\ file' = [file EXCEPT !.reported = IF ok THEN {state.dropped} ELSE {}, !.open = FALSE]
    /\ state' = [state EXCEPT !.finished = TRUE, !.release = "done", !.errors = IF ok THEN @ ELSE @ + 1]
    /\ UNCHANGED <<writer, queue, tail, dumper, closer>>

---------------------------------------------------------------------------
\* EmergencyLog::Dump: one at a time, by the Dumping flag.
GateAlwaysOpen == TRUE
DumpGate == ~tail.dumping

DumpBegins(d) ==
    /\ dumper[d].at = "idle" /\ Spend("dumps")
    /\ IF DumpGate
       THEN /\ tail' = [tail EXCEPT !.dumping = TRUE]
            /\ dumper' = [dumper EXCEPT ![d] = [at |-> "snapshot"]]
       ELSE UNCHANGED <<tail, dumper>>
    /\ UNCHANGED <<state, writer, queue, file, closer>>

\* EmergencyState::Snapshot, oldest line first; skipped while a line is being added.
SnapshotLines(t) ==
    LET first == IF t.count = TailSize THEN t.next ELSE 0
    IN  [i \in 1..t.count |-> t.lines[(first + i - 1) % TailSize]]

DumpSnapshot(d) ==
    /\ dumper[d].at = "snapshot"
    /\ tail' = IF tail.holder = Nobody THEN [tail EXCEPT !.scratch = SnapshotLines(tail)] ELSE tail
    /\ dumper' = [dumper EXCEPT ![d] = [at |-> "writing", available |-> tail.holder = Nobody,
                                        count |-> tail.count, newest |-> tail.added, out |-> <<>>]]
    /\ UNCHANGED <<state, writer, queue, file, closer, budget>>

\* The lines are written from Scratch one by one; the write may fail and end the dump.
IsWritten(r) == r.available => Len(r.out) = r.count

DumpLine(d) ==
    /\ dumper[d].at = "writing" /\ ~IsWritten(dumper[d])
    /\ dumper' = [dumper EXCEPT ![d].out = Append(@, tail.scratch[Len(@) + 1])]
    /\ UNCHANGED <<state, writer, queue, file, tail, closer, budget>>

DumpEnds(d) ==
    /\ dumper[d].at = "writing"
    /\ IF IsWritten(dumper[d]) THEN budget' = budget ELSE Spend("faults")
    /\ dumper' = [dumper EXCEPT ![d] = Idle]
    /\ tail' = [tail EXCEPT !.dumping = FALSE]
    /\ UNCHANGED <<state, writer, queue, file, closer>>

---------------------------------------------------------------------------
CallRunsOn(w) == AddBegin(w) \/ AddEnd(w) \/ Post(w) \/ ReadOverruns(w) \/ Leave(w)
Release == ReleaseBegins \/ PoolResets \/ \E ok \in BOOLEAN : ReleaseEnds(ok)
DumpRunsOn(d) == DumpSnapshot(d) \/ DumpLine(d) \/ DumpEnds(d)

Next ==
    \/ \E w \in Writer : \/ \E kind \in {"flush", "trace", "line"} : Submit(w, kind)
                         \/ CallRunsOn(w) \/ SubmitFails(w)
    \/ \E ok \in BOOLEAN : WorkerWrites(ok)
    \/ Shutdown \/ ShutdownReturns \/ Release
    \/ \E d \in Dumper : DumpBegins(d) \/ DumpRunsOn(d)

---------------------------------------------------------------------------
(***************************************************************************)
(* The pool outlives every call that uses it, and once the release is over *)
(* every item ever posted is in the file, or among the dropped ones, or    *)
(* counted as an error; the file's last line reports the drops, all of     *)
(* them, unless that line was an error too; the items in the file are in   *)
(* order, and a Shutdown that returned true saw all of this.               *)
(***************************************************************************)
EveryItemIsAccountedFor ==
    /\ state.pool = "gone" => \A w \in Writer : writer[w].at = "idle"
    /\ closer = "done" => state.finished
    /\ state.finished =>
         /\ queue.items = <<>> /\ ~file.open
         /\ Len(file.items) + queue.overruns <= queue.posted
         /\ queue.posted <= Len(file.items) + queue.overruns + state.errors
         /\ state.dropped = queue.overruns
         /\ file.reported = {queue.overruns} \/ (file.reported = {} /\ state.errors > 0)
         /\ \A i \in 1..Len(file.items) - 1 : file.items[i] < file.items[i + 1]

(***************************************************************************)
(* What a dump has written are successive lines of the log, ending with    *)
(* the newest one when it is complete, none of them half-copied and none   *)
(* of them from the snapshot of another dump.                              *)
(***************************************************************************)
DumpsAreWhole ==
    \A d \in Dumper :
      LET r == dumper[d]
      IN  r.at = "writing" =>
            \A i \in 1..Len(r.out) : r.out[i] = (r.newest - r.count) + i

\* Statistics never counts fewer drops than it has counted before (ObserveDrops).
DropsOnlyGrow == state'.dropped >= state.dropped

\* A shutdown was asked for and its release is not over yet.
IsClosing == state.closing /\ ~state.finished
===============================================================================
