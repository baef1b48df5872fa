----------------------------- MODULE CommandPipe -----------------------------
(***************************************************************************)
(* The named pipe instances between the control server and its clients, as *)
(* both sides use them.  The pipe is the operating system's: a byte stream *)
(* whose framing (CommandPipeIo.cpp, CommandProtocol.hpp) makes a request, *)
(* an answer and an acknowledgement one value each.  What a client wrote   *)
(* before it closed its end can still be read.                             *)
(***************************************************************************)
EXTENDS RequestCache

CONSTANTS Client, Instance, NoClient, NoRequest, NoAnswer,
          Budgets   \* the bounds of a behaviour, one of: how often each kind of event may happen

VARIABLES
    pipe,     \* [Instance -> the pipe's state]
    epoch,    \* which server process owns the pipes (its process id and creation time)
    now,      \* the steady clock
    budget    \* what is left of the bounds

Event == {"calls", "starts", "stops", "faults", "breaks", "crashes", "ticks"}
ASSUME BudgetAssumption == Budgets \subseteq [Event -> Nat]

Spend(event) == budget[event] > 0 /\ budget' = [budget EXCEPT ![event] = @ - 1]

\* A connection ends at one side because the other side ended it or time ran out; that
\* it breaks without either is bounded.
BreakUnless(expected) == IF expected THEN UNCHANGED budget ELSE Spend("breaks")

Answer == [request : Request, code : {"Result"} \cup ServerCode]

\* Options::PipeInstanceCount is a number; the three sentinels are nobody's value.
ASSUME PipeAssumption ==
    /\ IsFiniteSet(Instance)
    /\ NoClient \notin Client /\ NoRequest \notin Request /\ NoAnswer \notin Answer

\* absent: not created; fresh: created and never connected (a client may already open
\* it); idle: disconnected, clients find it busy; listening: ConnectNamedPipe is pending.
PipeState == {"absent", "fresh", "idle", "listening", "connected"}

AbsentPipe == [state |-> "absent", client |-> NoClient, closed |-> FALSE,
               request |-> NoRequest, answer |-> NoAnswer, acknowledged |-> FALSE]
FreshPipe == [AbsentPipe EXCEPT !.state = "fresh"]
IdlePipe == [AbsentPipe EXCEPT !.state = "idle"]
ListeningPipe == [AbsentPipe EXCEPT !.state = "listening"]

CanOpen(i) == pipe[i].state \in {"fresh", "listening"} /\ pipe[i].client = NoClient
Owns(i, c) == pipe[i].client = c /\ ~pipe[i].closed

PipeTypeOK ==
    /\ pipe \in [Instance -> [state : PipeState, client : Client \cup {NoClient}, closed : BOOLEAN,
                              request : Request \cup {NoRequest}, answer : Answer \cup {NoAnswer},
                              acknowledged : BOOLEAN]]
    /\ epoch \in Nat
    /\ now \in 0 .. Horizon
    /\ budget \in [Event -> Nat]
=============================================================================
