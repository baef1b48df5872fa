---------------------------- MODULE MCController ----------------------------
(***************************************************************************)
(* Instances of AppController's parts: its use cases (AppCalls, extended), *)
(* its event stream (AppEvents), the resolution of a target, checked       *)
(* against a reference over every small set of records, and the commands   *)
(* that come in from outside: the command line of the client and the       *)
(* adapter in the server.  A behaviour is about one of them, the subject.  *)
(***************************************************************************)
EXTENDS AppCalls

CONSTANTS o1, o2, NoOne

VARIABLES subject, example
VARIABLES eOwner, eThread, eFence, eStream, eObserver, eLife, eUi, eHistory, eBudget
VARIABLES lArgv, lParse, aHandler, aMutationActive, aAnswer, aBudget

eventVars == <<eOwner, eThread, eFence, eStream, eObserver, eLife, eUi, eHistory, eBudget>>
commandVars == <<lArgv, lParse, aHandler, aMutationActive, aAnswer, aBudget>>
allVars == <<subject, example, vars, eventVars, commandVars>>

(***************************************************************************)
(* The use cases: each scenario has its calls, its spontaneous changes and *)
(* the state the devices are in at first.                                  *)
(***************************************************************************)
MCName == [d \in {"d1", "d2"} |-> IF d = "d1" THEN {1, 2} ELSE {2}]
MCHex  == [d \in {"d1", "d2"} |-> IF d = "d1" THEN {7} ELSE {8}]

ById1 == [kind |-> "Id", id |-> "d1"]
ByDefault == [kind |-> "Default"]
ByName(t) == [kind |-> "Name", text |-> t]
ByAuto(t) == [kind |-> "Auto", text |-> t, id |-> "none", digits |-> 0, hex |-> {}]

Left(d, i, s, c, r, x) ==
    [devices |-> d, inventory |-> i, startup |-> s, context |-> c, rejections |-> r, stops |-> x]

Scenario(calls, left, s1, s2, last) ==
    [calls |-> calls, left |-> left, state |-> ("d1" :> s1 @@ "d2" :> s2), last |-> last,
     inventory |-> {"d1"}, alias |-> {2}]

MCBudgets == {
    Scenario({<<"Status", NoSelector, FALSE>>, <<"ClearDefault", NoSelector, FALSE>>,
              <<"SetDefault", ById1, FALSE>>}, Left(1, 0, 0, 0, 0, 0), "Connected", "Idle", "d1"),
    Scenario({<<"ListDevices", NoSelector, FALSE>>, <<"MutateSettings", NoSelector, FALSE>>,
              <<"StartupTask", NoSelector, FALSE>>}, Left(1, 0, 1, 0, 0, 1), "Connected", "Idle", "none"),
    Scenario({<<"Status", NoSelector, FALSE>>, <<"ListDevices", NoSelector, FALSE>>},
             Left(2, 0, 1, 0, 0, 0), "Connected", "Idle", "none"),
    Scenario({<<"Connect", ById1, FALSE>>, <<"ToggleLast", ByDefault, TRUE>>,
              <<"Disconnect", ByName({1, 2}), FALSE>>}, Left(3, 0, 0, 1, 1, 0), "Idle", "Idle", "d1"),
    Scenario({<<"ReconnectAll", NoSelector, FALSE>>, <<"DisconnectAll", NoSelector, FALSE>>},
             Left(4, 0, 0, 1, 1, 1), "Connected", "Connected", "d1"),
    Scenario({<<"ReconnectAll", NoSelector, TRUE>>, <<"ShowDevicePicker", NoSelector, FALSE>>,
              <<"Reconnect", ByAuto({2}), TRUE>>, <<"ShowSettings", NoSelector, FALSE>>},
             Left(1, 1, 0, 1, 1, 1), "Connected", "Idle", "none"),
    Scenario({<<"SetAlias", ByName({2}), FALSE>>, <<"SetAlias", [kind |-> "Last"], FALSE>>,
              <<"Connect", [kind |-> "Alias", text |-> {2}], FALSE>>, <<"ToggleLast", ByDefault, FALSE>>},
             Left(1, 1, 0, 0, 1, 1), "Connected", "Idle", "none")}

CallsUnused == owner = NoOne /\ control = NoOne /\ call = NoOne /\ history = NoOne /\ budget = NoOne

(***************************************************************************)
(* The events.                                                             *)
(***************************************************************************)
EventBudget(f, s, u, a, r, d, h) ==
    [facts |-> f, settings |-> s, startup |-> u, attach |-> a, resets |-> r, shutdowns |-> d, shows |-> h]
EventBudgets == {EventBudget(2, 0, 0, 1, 1, 0, 0), EventBudget(3, 0, 0, 1, 0, 0, 1),
                 EventBudget(1, 1, 0, 2, 0, 1, 0), EventBudget(0, 1, 2, 1, 0, 0, 0)}

Events == INSTANCE AppEvents WITH
    Device <- {"d1"}, Observer <- {o1, o2}, Presenter <- o1, Budgets <- EventBudgets,
    owner <- eOwner, thread <- eThread, fence <- eFence, stream <- eStream,
    observer <- eObserver, life <- eLife, ui <- eUi, history <- eHistory, budget <- eBudget

EventsUnused ==
    /\ eOwner = NoOne /\ eThread = NoOne /\ eFence = NoOne /\ eStream = NoOne
    /\ eObserver = NoOne /\ eLife = NoOne /\ eUi = NoOne /\ eHistory = NoOne /\ eBudget = NoOne

(***************************************************************************)
(* The resolution of a query: every pair of records and every query.       *)
(***************************************************************************)
Texts == SUBSET {1, 2}
Given == Texts \ {NoText}

Examples == [inventory : {[d \in {"d1", "d2"} |-> [name |-> IF d = "d1" THEN a ELSE b]] : a, b \in Given},
             saved : {[d \in {"d1"} |-> [name |-> a, alias |-> b]] : a, b \in Texts},
             text : Given, id : {"d1", "none"}, hex : {{7}, {}}, digits : {5, 6}, kind : {"Auto", "Name", "Mac"}]

NoExample == [kind |-> "none"]

Resolved(e) ==
    LET devices == MergeDevices(e.inventory, <<>>, e.saved) IN Resolve(e, devices, "none", "none", MCHex)

(***************************************************************************)
(* Every command line of up to four words, and two requests at a time.     *)
(***************************************************************************)
Words == {"--json", "--id", "--last", "--value", "--", "a", "b", "a|b", ""}
LinesOf == [w \in Words |-> CASE w = "a|b" -> <<"a", "b">> [] OTHER -> <<w>>]

Request(c, t, f, p) == [command |-> c, target |-> t, flags |-> f, payload |-> p]
Requests ==
    {Request(c, "None", f, <<"">>) : c \in {"List", "Status", "DefaultShow", "AliasList", "Show", "DisconnectAll"},
                                     f \in SUBSET {"Json", "Raw"}}
    \cup {Request(c, "Id", f, <<"a">>) : c \in {"Connect", "AliasClear"}, f \in SUBSET {"Json", "Raw"}}
    \cup {Request("AliasSet", "Name", f, <<"a", "b">>) : f \in SUBSET {"Json", "Raw"}}
    \cup {Request("Connect", "Id", {}, <<"">>)}
RequestBudgets ==
    {[requests |-> Requests, count |-> 1],
     [requests |-> {Request("Connect", "Id", {}, <<"a">>), Request("DisconnectAll", "None", {}, <<"">>),
                    Request("Show", "None", {}, <<"">>)}, count |-> 3]}

Control == INSTANCE CommandAdapter WITH
    Word <- Words, Dashed <- {"--json", "--id", "--last", "--value", "--"}, Lines <- LinesOf,
    Typed <- {"Connect", "AliasSet", "DefaultSet", "ToggleLast", "Status", "help", "unknown"},
    MaxWords <- 4, Handler <- {o1, o2}, Budgets <- RequestBudgets,
    argv <- lArgv, parse <- lParse, handler <- aHandler, mutationActive <- aMutationActive,
    answer <- aAnswer, budget <- aBudget

NoLine == lArgv = NoOne /\ lParse = NoOne
NoRequests == aHandler = NoOne /\ aMutationActive = NoOne /\ aAnswer = NoOne /\ aBudget = NoOne
CommandsUnused == NoLine /\ NoRequests

MCInit ==
    \/ subject = "calls" /\ Init /\ EventsUnused /\ CommandsUnused /\ example = NoExample
    \/ subject = "events" /\ Events!Init /\ CallsUnused /\ CommandsUnused /\ example = NoExample
    \/ subject = "resolve" /\ example \in Examples /\ EventsUnused /\ CallsUnused /\ CommandsUnused
    \/ subject = "line" /\ Control!ParseInit /\ NoRequests /\ EventsUnused /\ CallsUnused /\ example = NoExample
    \/ subject = "adapter" /\ Control!AdapterInit /\ NoLine /\ EventsUnused /\ CallsUnused /\ example = NoExample

MCNext ==
    \/ subject = "calls" /\ Next /\ UNCHANGED <<subject, example, eventVars, commandVars>>
    \/ subject = "events" /\ Events!Next /\ UNCHANGED <<subject, example, vars, commandVars>>
    \/ /\ subject = "line" /\ Control!ParseStep
       /\ UNCHANGED <<subject, example, vars, eventVars, aHandler, aMutationActive, aAnswer, aBudget>>
    \/ /\ subject = "adapter" /\ Control!AdapterNext
       /\ UNCHANGED <<subject, example, vars, eventVars, lArgv, lParse>>

MCSpec == MCInit /\ [][MCNext]_allVars

---------------------------------------------------------------------------
\* A snapshot is of one instant although CaptureSnapshot reads three owners one after
\* the other; the result codes of the use cases are true, and Shutdown drains them; see
\* AppCalls.
CallsTellTheTruth ==
    subject = "calls" => SnapshotsAreCoherent /\ AnswersAreTrue /\ NoCallReachesTheOwners

\* SnapshotAndSubscribe and the stream join without a gap, and no handler is left
\* running behind Reset or Shutdown; see AppEvents.
StreamIsWhole ==
    subject = "events" => Events!ObserversMissNothing /\ Events!NothingRunsAfterReturn

\* A notification is not shown for a fact the device has left behind; see AppEvents.
NotificationsAreCurrent == [][subject = "events" => Events!ShowsTheLatest]_allVars

\* How well a record fits an automatic query, from 1 (its id) to 5 (not at all).
Fit(e, d) ==
    LET r == MergeDevices(e.inventory, <<>>, e.saved)[d]
    IN  CASE d = e.id -> 1
          [] e.text \in {r.name, r.alias} -> 2
          [] e.digits >= 6 /\ e.hex # {} /\ e.hex \subseteq MCHex[d] -> 3
          [] e.text \subseteq r.name \/ e.text \subseteq r.alias -> 4
          [] OTHER -> 5

\* Resolve with an automatic selector: a device is taken only when no other fits
\* as well or better, nothing is taken when none fits, and a command never reaches
\* a device by a weaker resemblance while another bears the name that was asked for.
TheBestFitIsTaken ==
    subject = "resolve" /\ example.kind = "Auto" =>
        LET e == example
            best == CHOOSE n \in 1..5 : /\ \E d \in {"d1", "d2"} : Fit(e, d) = n
                                        /\ \A d \in {"d1", "d2"} : Fit(e, d) >= n
            fits == {d \in {"d1", "d2"} : Fit(e, d) = best}
        IN  Resolved(e) = CASE best = 5   -> Unresolved("NotFound")
                            [] fits = {"d1"} -> Resolution("Success", "d1", TRUE)
                            [] fits = {"d2"} -> Resolution("Success", "d2", TRUE)
                            [] OTHER      -> Unresolved("Ambiguous")

\* From what was typed to the device it is about: a request says what was typed
\* (ParseWithCli, IsRequestValid), and its target is the device that fits best (Resolve).
RequestsAreUnderstood ==
    /\ TheBestFitIsTaken
    /\ subject = "line" => Control!RequestsSayWhatWasTyped

\* Responses disclose no id and no name in privacy mode, have the form that was asked
\* for and an exit code that tells what was begun from what was not; and mutations
\* exclude each other; see CommandAdapter.
ResponsesKeepToTheRequest ==
    subject = "adapter" => Control!ResponsesKeepToTheRequest /\ Control!MutationsDoNotOverlap
=============================================================================
