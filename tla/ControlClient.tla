---------------------------- MODULE ControlClient ----------------------------
(***************************************************************************)
(* The command line client: SendRequest (CommandClient.cpp) over the named *)
(* pipe transport (Win32CommandTransport.cpp).  One client is one run of   *)
(* the control executable: an attempt, a replay of it to the same server   *)
(* process while the outcome is unknown, or the launch of the app and one  *)
(* more attempt when nothing was sent.                                     *)
(***************************************************************************)
EXTENDS CommandPipe

CONSTANTS
    MaxReplayAttempts,  \* c_maxReplayAttempts (2)
    OverallTimeout      \* overallTimeoutMs, in clock units

ASSUME ClientAssumption == MaxReplayAttempts \in Nat \ {0} /\ OverallTimeout \in Nat

VARIABLES
    wire,   \* [Client -> its request, with the correlation id it drew]
    client  \* [Client -> where SendRequest is]

clientVars == <<wire, client>>

NoServer == 0   \* no server process observed yet

\* attempt: which call of TrySendOnce this is; expected: the server a replay is bound to.
Attempt == {"first", "replay", "launched"}
NewClient == [pc |-> "idle", attempt |-> "first", replays |-> 0, expected |-> NoServer,
              deadline |-> 0, outcome |-> "none", answer |-> NoAnswer]

\* Correlation ids are random: two clients have different ones, or one of them is not
\* this program's and reuses an id for another request.
ClientInit ==
    /\ wire \in [Client -> Request]
    /\ \A c, d \in Client : c # d => wire[c] # wire[d]
    /\ client = [c \in Client |-> NewClient]

Begin(c) ==
    /\ client[c].pc = "idle" /\ Spend("calls")
    /\ client' = [client EXCEPT ![c].pc = "opening", ![c].deadline = now + OverallTimeout]
    /\ UNCHANGED <<wire, pipe, epoch, now>>

\* The client ends: its handle is closed, what it wrote stays readable.
Closed(p, c) == [i \in Instance |-> IF p[i].client = c THEN [p[i] EXCEPT !.closed = TRUE] ELSE p[i]]

End(c, outcome) ==
    /\ client' = [client EXCEPT ![c].pc = "done", ![c].outcome = outcome]
    /\ pipe' = Closed(pipe, c)

(***************************************************************************)
(* TrySendOnce.                                                            *)
(***************************************************************************)
\* A pipe is open and its server is the one a replay needs.
IsSameLiveServer(c) == client[c].expected \in {NoServer, epoch}

Open(c, i) ==
    /\ client[c].pc = "opening" /\ now < client[c].deadline
    /\ CanOpen(i)
    /\ IsSameLiveServer(c)
    /\ client' = [client EXCEPT ![c].pc = "writing", ![c].expected = epoch]
    /\ pipe' = [pipe EXCEPT ![i].client = c,
                            ![i].state = IF @ = "listening" THEN "connected" ELSE @]
    /\ UNCHANGED <<wire, epoch, now, budget>>

WriteRequest(c, i) ==
    /\ client[c].pc = "writing" /\ Owns(i, c) /\ now < client[c].deadline
    /\ pipe' = [pipe EXCEPT ![i].request = wire[c]]
    /\ client' = [client EXCEPT ![c].pc = "reading"]
    /\ UNCHANGED <<wire, epoch, now, budget>>

\* The answer of this request is read; the acknowledgement may be lost.
ReadResponse(c, i, acknowledged) ==
    /\ client[c].pc = "reading" /\ Owns(i, c)
    /\ pipe[i].answer # NoAnswer /\ pipe[i].answer.request.id = wire[c].id
    /\ client' = [client EXCEPT ![c].pc = "done", ![c].outcome = "complete",
                                ![c].answer = pipe[i].answer]
    /\ pipe' = [pipe EXCEPT ![i].closed = TRUE, ![i].acknowledged = acknowledged]
    /\ BreakUnless(acknowledged)
    /\ UNCHANGED <<wire, epoch, now>>

(***************************************************************************)
(* SendRequest and ReplayIndeterminate: what follows an attempt.           *)
(***************************************************************************)
CanReplayForEver(c) == now < client[c].deadline

CanReplay(c) ==
    /\ now < client[c].deadline
    /\ client[c].attempt = "replay" => client[c].replays < MaxReplayAttempts

ToReplay(c) == [client[c] EXCEPT !.pc = "opening", !.attempt = "replay",
                                 !.replays = IF client[c].attempt = "replay" THEN @ + 1 ELSE 1]

\* The write or the read failed: the request may have been executed.  A write that is
\* reported as failed left no complete request behind; a read fails because the server
\* ended the connection, at the exchange's deadline, or for an answer that cannot be
\* used, the last two long after the server took the request in.
Indeterminate(c) ==
    /\ client[c].pc \in {"writing", "reading"}
    /\ BreakUnless(now >= client[c].deadline \/ \A i \in Instance : ~Owns(i, c))
    /\ \A i \in Instance : Owns(i, c) /\ now < client[c].deadline => pipe[i].request = NoRequest
    /\ pipe' = Closed(pipe, c)
    /\ client' = [client EXCEPT ![c] =
            IF CanReplay(c) THEN ToReplay(c)
            ELSE [client[c] EXCEPT !.pc = "done", !.outcome = "indeterminate"]]
    /\ UNCHANGED <<wire, epoch, now>>

\* A client that never wrote its request knows that it was not executed.
GiveUpUnavailable(c) == "unavailable"

GiveUp(c) == IF client[c].attempt = "replay" THEN "indeterminate" ELSE "unavailable"

\* No pipe could be opened in time (busy, missing, or refused).  A first attempt has the
\* app launched, which may not be possible; a replay tries again or is bound to a
\* server that is gone.
NotConnected(c) ==
    /\ client[c].pc = "opening"
    /\ \/ /\ client[c].attempt = "first" /\ now < client[c].deadline
          /\ client' = [client EXCEPT ![c].attempt = "launched"]
          /\ UNCHANGED pipe
       \/ /\ client[c].attempt = "replay" /\ CanReplay(c)
          /\ client' = [client EXCEPT ![c] = ToReplay(c)]
          /\ UNCHANGED pipe
       \/ End(c, GiveUp(c))
    /\ UNCHANGED <<wire, epoch, now, budget>>

ClientStep(c) ==
    \/ Begin(c) \/ Indeterminate(c) \/ NotConnected(c)
    \/ \E i \in Instance : Open(c, i) \/ WriteRequest(c, i)
    \/ \E i \in Instance, acknowledged \in BOOLEAN : ReadResponse(c, i, acknowledged)

ClientTypeOK ==
    /\ wire \in [Client -> Request]
    /\ \A c \in Client :
        /\ client[c].pc \in {"idle", "opening", "writing", "reading", "done"}
        /\ client[c].attempt \in Attempt
        /\ client[c].replays \in 0 .. MaxReplayAttempts
        /\ client[c].outcome \in {"none", "complete", "unavailable", "indeterminate"}
=============================================================================
