--------------------------- MODULE ControlChannel ---------------------------
(***************************************************************************)
(* The control path end to end: clients of the command line, the pipes and *)
(* the server in the app, with connections that break anywhere, answers    *)
(* and acknowledgements that are lost, replays, a server that is stopped   *)
(* and started again and a process that dies.                              *)
(***************************************************************************)
EXTENDS ControlServer, ControlClient

vars == <<pipe, epoch, now, budget, serverVars, clientVars>>

\* The bounds of the source (55 s, 5 s and 90 s): a replay cannot outlive the answer.
ASSUME RetentionAssumption == OverallTimeout + RequestTimeout < RequestRecordLifetime

Init ==
    /\ pipe = [i \in Instance |-> AbsentPipe]
    /\ epoch = 1
    /\ now = 0
    /\ budget \in Budgets
    /\ ServerInit
    /\ ClientInit

\* A unit of the clock is a second or more: the thread pool accepts a connection and
\* takes in a request that has arrived before the next one begins.  Nothing else is
\* assumed of how fast anyone is.  No time is spent before the first call.
Tick ==
    /\ now < Horizon /\ Spend("ticks")
    /\ \E c \in Client : client[c].pc # "idle"
    /\ \A i \in Instance : pipe[i].client # NoClient =>
            /\ pipe[i].state # "fresh"
            /\ life.running => /\ slot[i].phase # "Connecting"
                               /\ slot[i].phase = "ReadingRequest" => pipe[i].request = NoRequest
    /\ now' = now + 1
    /\ UNCHANGED <<pipe, epoch, serverVars, clientVars>>

ServerStep == Server /\ UNCHANGED clientVars
ClientsStep == \E c \in Client : ClientStep(c) /\ UNCHANGED serverVars

Next == Tick \/ ServerStep \/ ClientsStep

Spec == Init /\ [][Next]_vars

TypeOK == PipeTypeOK /\ ServerTypeOK /\ ClientTypeOK

(***************************************************************************)
(* A client whose connection broke sends its command again, the cache may  *)
(* be full and records expire: no command is ever handed to the handler    *)
(* twice, by one server process or by two.                                 *)
(***************************************************************************)
CommandsRunAtMostOnce == \A r \in Request : executed[r] <= 1

\* The deliveries of an answer: slots that write it and callbacks that hold it.
Deliveries(id) ==
    {i \in Instance : slot[i].record # 0 /\ slot[i].request.id = id}
        \cup {i \in Instance : /\ slot[i].pc \in {"answered", "responding"}
                               /\ slot[i].job.code = "Result" /\ slot[i].job.request.id = id}

Registrations(id) ==
    {i \in Instance : slot[i].pending /\ slot[i].request.id = id}
        \cup {i \in Instance : slot[i].job.pending /\ slot[i].job.request.id = id}

(***************************************************************************)
(* Every answer being delivered is one the cache still holds, with exactly *)
(* as many active deliveries as there are, and every request on its way to *)
(* the handler is registered once: neither can leak (the record would stay *)
(* for ever) or be dropped early (the command could run again).            *)
(***************************************************************************)
DeliveriesAreCounted ==
    \A id \in Id :
        /\ cache.pending[id] = Cardinality(Registrations(id))
        /\ Deliveries(id) # {} => cache.records[id] # NoRecord /\ cache.records[id].complete
        /\ cache.records[id] # NoRecord => cache.records[id].active = Cardinality(Deliveries(id))

(***************************************************************************)
(* The cache stays within its two limits, its byte count is the sum of its *)
(* records, and a record nobody needs has the prune timer coming for it.   *)
(***************************************************************************)
CacheIsBounded ==
    /\ Cardinality(Kept(cache)) <= MaxRequestRecords
    /\ cache.bytes <= MaxRequestCacheBytes
    /\ cache.bytes = MapThenSumSet(LAMBDA id : cache.records[id].bytes, Kept(cache))
    /\ \A expiry \in Expiries(cache) : cache.pruneAt <= expiry

(***************************************************************************)
(* The cache can neither grow past its limits nor lose count of who still  *)
(* needs a record (RequestCache, CompletePendingDelivery).                 *)
(***************************************************************************)
CacheIsSound == TypeOK /\ DeliveriesAreCounted /\ CacheIsBounded

(***************************************************************************)
(* A running server never loses a pipe instance: one that serves nobody    *)
(* and does not listen has a retry coming, or a callback at work on it,    *)
(* and a listening slot has a pipe that listens.                           *)
(***************************************************************************)
NoInstanceIsLost ==
    life.running => \A i \in Instance :
        /\ slot[i].phase = "Disconnected" => slot[i].rearm \/ slot[i].pc # "none"
        /\ slot[i].phase = "Connecting" /\ slot[i].pc = "none" => pipe[i].state \in {"listening", "connected"}

(***************************************************************************)
(* The channel implements ControlCall: a caller is told the result only by *)
(* an answer the handler gave, and is refused only if nothing of its       *)
(* request reached a server.                                               *)
(***************************************************************************)
Call == INSTANCE ControlCall WITH
            Caller <- Client,
            ran <- {c \in Client : executed[wire[c]] > 0},
            told <- [c \in Client |->
                        CASE client[c].outcome = "none" -> "nothing"
                          [] client[c].outcome = "unavailable" -> "refused"
                          [] client[c].outcome = "complete" /\ client[c].answer.code = "Result"
                             /\ client[c].answer.request = wire[c] -> "result"
                          [] OTHER -> "unknown"]

ImplementsControlCall == Call!Spec
=============================================================================
