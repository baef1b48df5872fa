--------------------------- MODULE MCSettingsStore ---------------------------
(***************************************************************************)
(* Model checking of the settings store.  The threads that call it are     *)
(* alike, and so are the subscribers.                                      *)
(***************************************************************************)
EXTENDS SettingsStore, TLC

(* The files there may be at first, with or without a load, and the bounds *)
(* on what callers ask for.                                                *)
Scope(files, loads, flushAttempts, attempts, modes, maxRevision, observers, answers) ==
    [files |-> files, loads |-> loads, flushAttempts |-> flushAttempts, attempts |-> attempts,
     modes |-> modes, maxRevision |-> maxRevision, observers |-> observers, answers |-> answers]

AnyFile == {"Missing", "Valid", "Stale", "Corrupt"}
AnyMode == {"Flush", "DiscardStartupFailure"}

(* Saving: every file and both modes over two revisions, and a third       *)
(* revision without a load.  Delivery to two subscribers, with a load that *)
(* is itself a change, and with a shutdown.                                *)
SafetyScopes ==
    {Scope(AnyFile, TRUE, {2}, {2}, AnyMode, 2, {}, FALSE),
     Scope({"Valid"}, FALSE, {2}, {1}, {"Flush"}, 3, {}, FALSE),
     Scope({"Valid"}, TRUE, {}, {}, {}, 2, Subscriber, FALSE),
     Scope({"Valid"}, FALSE, {}, {1}, {"Flush"}, 2, Subscriber, FALSE)}

(* Where storage answers: saving with flushes in between, and delivery.    *)
(* Where it does not, or a callback hangs: shutdown.                       *)
ProgressScopes ==
    {Scope({"Missing"}, FALSE, {1}, {}, {}, 1, {}, TRUE),
     Scope({"Missing"}, FALSE, {}, {}, {}, 2, Subscriber, TRUE),
     Scope({"Stale"}, TRUE, {}, {1}, {"Flush"}, 1, {}, FALSE),
     Scope({"Missing"}, FALSE, {}, {1}, {"Flush"}, 1, Subscriber, FALSE)}

Alike == Permutations(Client) \cup Permutations(Subscriber)
=============================================================================
