--------------------------- MODULE CommandAdapter ---------------------------
(***************************************************************************)
(* The server's side of a command (control/ControlCommandAdapter): a       *)
(* request is validated, dispatched to AppController and its result turned *)
(* into an exit code and a text or JSON payload.  Requests of several      *)
(* connections are handled on several threads.                             *)
(*                                                                         *)
(* Of a payload only its form is kept and which facts about devices it     *)
(* discloses: "id", "name", "display" (the display name the controller     *)
(* made), "alias", and for the request's own text "typed" (the target) and *)
(* "given" (the alias to be set).  The order in which devices are listed,  *)
(* the wording and the resource status are left out.                       *)
(***************************************************************************)
EXTENDS CommandLine, FiniteSets

CONSTANTS Handler,       \* threads that handle requests
          Budgets        \* the requests that may arrive in a behaviour, and how many of them do

VARIABLES handler,       \* what each thread is at
          mutationActive,
          answer,        \* the last request that was answered, its result and its response
          budget

IdleHandler == [at |-> "idle"]

AdapterInit ==
    /\ handler = [h \in Handler |-> IdleHandler]
    /\ mutationActive = FALSE
    /\ answer = {}
    /\ budget \in Budgets

IsMutating(c) == c \in {"Connect", "Disconnect", "Reconnect", "ToggleLast", "DisconnectAll", "ReconnectAll",
                        "DefaultSet", "DefaultClear", "AliasSet", "AliasClear"}
IsQuery(c) == c \in {"List", "Status", "DefaultShow", "AliasList"}

\* DeviceSelector: a text that is not empty, or one of the two selectors without a text.
MakeSelector(target, text) ==
    CASE target \in Explicit             -> text # NoText
      [] target \in {"Last", "Default"}  -> text = NoText
      [] OTHER                           -> FALSE

---------------------------------------------------------------------------
(***************************************************************************)
(* Results of AppController (MakeFailure, MakeTargetResult,                *)
(* DeviceQueryResult): a device and a target come with the privacy mode    *)
(* read together with them, a query's devices with their snapshot.         *)
(***************************************************************************)
Codes == {"Success", "InvalidInput", "NotFound", "Ambiguous", "OperationFailed", "Unavailable",
          "Busy", "Cancelled", "TimedOut", "Indeterminate", "InternalError"}

\* A device the controller knows has a display name; the default that is only an id has none.
DeviceRecord(name, alias) ==
    [name |-> IF name THEN {"name"} ELSE {}, alias |-> IF alias THEN {"alias"} ELSE {},
     display |-> {"display"}, connected |-> name]
BareRecord == [name |-> {}, alias |-> {}, display |-> {}, connected |-> FALSE]

MakeFailure(code, phase) ==
    [code |-> code, phase |-> phase, devices |-> {}, target |-> {}, exists |-> FALSE, privacy |-> {}]

MakeTargetResult(code, target, exists, privacy) ==
    [MakeFailure(code, "Started") EXCEPT !.target = target, !.exists = exists, !.privacy = {privacy}]

DeviceQueryResult(devices, privacy) ==
    [MakeFailure("Success", "Started") EXCEPT !.devices = devices, !.privacy = {privacy}]

QueryResults(devices) == {DeviceQueryResult(devices, p) : p \in BOOLEAN}
TargetResults(device) ==
    {MakeTargetResult(c, {device}, e, p) : c \in Codes \ {"NotFound", "Ambiguous"}, e \in BOOLEAN, p \in BOOLEAN}
UntargetedResults == {MakeTargetResult(c, {}, FALSE, p) : c \in Codes, p \in BOOLEAN}

Results(r, device) ==
    {MakeFailure(c, ph) : c \in {"Cancelled", "TimedOut", "Unavailable", "InternalError"},
                          ph \in {"NotStarted", "Started"}}
    \cup IF IsQuery(r.command) THEN QueryResults({device})
         ELSE IF r.command \in Targeted THEN TargetResults(device) \cup UntargetedResults
         ELSE UntargetedResults

---------------------------------------------------------------------------
(***************************************************************************)
(* The formatting of responses: what each part of a payload discloses.     *)
(***************************************************************************)
\* A display name, else the alias, else the name, else the id.
Label(d) == IF d.display # {} THEN d.display ELSE IF d.alias # {} THEN d.alias
            ELSE IF d.name # {} THEN d.name ELSE {"id"}

DeviceDisplayName(d, redact) == IF redact THEN {} ELSE Label(d)
ResponseIdPlain(redact) == {"id"}
ResponseId(redact) == IF redact THEN {} ELSE {"id"}
ResponseName(d, redact) == IF redact THEN {} ELSE d.name

InsertDeviceJson(d, redact) ==
    ResponseId(redact) \cup ResponseName(d, redact) \cup d.alias \cup DeviceDisplayName(d, redact)

ToExitCodeWithoutPhase(result) ==
    CASE result.code = "InvalidInput"              -> "InvalidRequest"
      [] result.code \in {"Cancelled", "TimedOut"} -> "Unavailable"
      [] result.code = "InternalError"             -> "Indeterminate"
      [] OTHER                                     -> result.code
ToExitCode(result) ==
    CASE result.code = "InvalidInput" -> "InvalidRequest"
      [] result.code \in {"Cancelled", "TimedOut"} ->
             IF result.phase = "NotStarted" THEN "Unavailable" ELSE "Indeterminate"
      [] result.code = "InternalError" -> "Indeterminate"
      [] OTHER -> result.code

Form(r) == IF "Json" \in r.flags THEN "json" ELSE "text"
Response(code, form, shows) == [code |-> code, form |-> form, shows |-> shows]
MessageResponse(r, code, shows) == Response(code, Form(r), shows)
NoPayload(code) == Response(code, "empty", {})

TargetFacts(r, result, redact) ==
    IF result.target = {} THEN {"typed"} ELSE UNION {DeviceDisplayName(d, redact) : d \in result.target}

FailureMessage(r, result, redact) ==
    CASE result.code \in {"NotFound", "Ambiguous"} -> {"typed"}
      [] result.code \in {"Unavailable", "Busy", "Cancelled"} -> {}
      [] r.command \in {"Connect", "ToggleLast", "Disconnect", "Reconnect", "ReconnectAll", "AliasSet", "AliasClear"} ->
             TargetFacts(r, result, redact)
      [] OTHER -> {}

\* The display name of an operation's target; an id that was typed stands for itself.
DisplayName(r, result, redact) ==
    IF result.target = {} THEN (IF r.target = "Id" /\ ~redact THEN {"typed"} ELSE {})
    ELSE UNION {DeviceDisplayName(d, redact) : d \in result.target}

SuccessMessage(r, result, redact) ==
    CASE r.command \notin Targeted -> {}
      [] r.command = "AliasSet"    -> DisplayName(r, result, redact) \cup {"given"}
      [] OTHER                     -> DisplayName(r, result, redact)

\* The device the answer to "default show" is about is one of the listed ones or its bare id.
DefaultFacts(r, result, redact) ==
    UNION {DeviceDisplayName(d, redact) : d \in result.devices}
      \cup (IF "Json" \in r.flags THEN ResponseId(redact) ELSE {})

FormatQuery(r, result, redact) ==
    LET listed == IF r.command = "Status" THEN {d \in result.devices : d.connected} ELSE result.devices
        fields(d) == CASE "Json" \in r.flags       -> InsertDeviceJson(d, redact)
                       [] r.command = "AliasList"  -> DeviceDisplayName(d, redact) \cup ResponseId(redact) \cup d.alias
                       [] OTHER                    -> DeviceDisplayName(d, redact) \cup ResponseId(redact)
    IN  MessageResponse(r, "Success", IF r.command = "DefaultShow" THEN DefaultFacts(r, result, redact)
                                      ELSE UNION {fields(d) : d \in listed})

\* No target was found: the answer is a message only.
IsResolutionFailure(result) ==
    /\ result.code \in {"InvalidInput", "NotFound", "Ambiguous"}
    /\ result.target = {} \/ ~result.exists

JsonName(r, result, redact) ==
    CASE redact                    -> {}
      [] result.target = {}        -> IF r.target = "Id" THEN {"typed"} ELSE {}
      [] r.command = "AliasClear" /\ result.code = "Success" ->
             UNION {IF d.name = {} THEN {"id"} ELSE d.name : d \in result.target}
      [] OTHER                     -> UNION {Label(d) : d \in result.target}

FormatOperation(r, result, redact) ==
    LET code == ToExitCode(result)
        message == CASE result.code = "Success"  -> SuccessMessage(r, result, redact)
                     [] result.code = "TimedOut" -> DisplayName(r, result, redact)
                     [] OTHER                    -> FailureMessage(r, result, redact)
        fields == IF "Json" \in r.flags THEN ResponseId(redact) \cup JsonName(r, result, redact) ELSE {}
    IN  CASE result.code = "InternalError"  -> NoPayload(code)
          [] IsResolutionFailure(result)    -> MessageResponse(r, code, FailureMessage(r, result, redact))
          [] OTHER                          -> MessageResponse(r, code, message \cup fields)

IsPreDispatchTermination(result) == result.phase = "NotStarted" /\ result.code \in {"Cancelled", "TimedOut"}

Redact(r, result) == TRUE \in result.privacy /\ "Raw" \notin r.flags

FormatResponse(r, result) ==
    CASE IsPreDispatchTermination(result) \/ (IsQuery(r.command) /\ result.privacy = {}) ->
             MessageResponse(r, "Unavailable", {})
      [] IsQuery(r.command) -> FormatQuery(r, result, Redact(r, result))
      [] OTHER              -> FormatOperation(r, result, Redact(r, result))

---------------------------------------------------------------------------
(***************************************************************************)
(* ControlCommandAdapter::Handle.                                          *)
(***************************************************************************)
Answers(h, r, response, result) ==
    /\ handler' = [handler EXCEPT ![h] = IdleHandler]
    /\ answer' = {[request |-> r, response |-> response, result |-> result]}

Unentered == MakeFailure("none", "NotStarted")

\* m_mutationActive admits one mutation; "over" says that the stop or the deadline came first.
ReleaseOnRefusal(active) == FALSE
KeepOnRefusal(active) == active

Handle(h, r, over) ==
    /\ handler[h].at = "idle" /\ r \in budget.requests /\ budget.count > 0
    /\ budget' = [budget EXCEPT !.count = @ - 1]
    /\ \E mutation \in {~over /\ IsMutating(r.command)} :
         CASE ~IsRequestValid(r) ->
                /\ Answers(h, r, MessageResponse(r, IF over THEN "Unavailable" ELSE "InvalidRequest", {}), Unentered)
                /\ UNCHANGED mutationActive
           [] IsRequestValid(r) /\ mutation /\ mutationActive ->
                /\ Answers(h, r, MessageResponse(r, "Busy", {}), Unentered)
                /\ mutationActive' = KeepOnRefusal(mutationActive)
           [] OTHER ->
                /\ handler' = [handler EXCEPT ![h] = [at |-> "dispatched", request |-> r, mutation |-> mutation]]
                /\ mutationActive' = (mutationActive \/ mutation)
                /\ UNCHANGED answer

Release(h) == mutationActive' = (mutationActive /\ ~handler[h].mutation)

\* Dispatch and FormatResponse; a selector that cannot be made is invalid input.  No
\* request comes to that: IsRequestValid and DeviceSelector admit the same texts.
Dispatch(h, device) ==
    /\ handler[h].at = "dispatched"
    /\ LET r == handler[h].request
           refused == r.command \in Targeted /\ ~MakeSelector(r.target, RequestTargetText(r))
       IN  \E result \in IF refused THEN {MakeFailure("InvalidInput", "Started")} ELSE Results(r, device) :
             Answers(h, r, FormatResponse(r, result), result)
    /\ Release(h)
    /\ UNCHANGED budget

DispatchThrows(h) ==
    /\ handler[h].at = "dispatched"
    /\ Answers(h, handler[h].request, NoPayload("Indeterminate"), MakeFailure("InternalError", "Started"))
    /\ Release(h)
    /\ UNCHANGED budget

AdapterNext ==
    \E h \in Handler :
      \/ \E r \in budget.requests, over \in BOOLEAN : Handle(h, r, over)
      \/ \E d \in {DeviceRecord(name, alias) : name, alias \in BOOLEAN} \cup {BareRecord} : Dispatch(h, d)
      \/ DispatchThrows(h)

---------------------------------------------------------------------------
(***************************************************************************)
(* A response keeps to its request.                                        *)
(*  - In privacy mode, and without --raw, it discloses no id, no name and  *)
(*    no display name the controller holds.  What the request itself says  *)
(*    may be repeated.  Aliases are not among these, although USAGE.md     *)
(*    (line 38) says that they are redacted: the lists print them in every *)
(*    mode, in InsertDeviceJson and in the text of "alias list".  No other *)
(*    response does.                                                       *)
(*  - It has the requested form, or none at all.                           *)
(*  - It says success exactly when the controller did.                     *)
(*  - A command that was cut short, by its deadline or a stop, is said to  *)
(*    be unavailable, and so safe to send again, only if it had not been   *)
(*    begun; otherwise its outcome could not be confirmed.  A controller   *)
(*    that refuses a command as unavailable after it was entered is passed *)
(*    on as it is.                                                         *)
(***************************************************************************)
IsRedacted(a) == TRUE \in a.result.privacy /\ "Raw" \notin a.request.flags

Secrets == {"id", "name", "display"}
PrintsAliases == {"List", "Status", "AliasList"}

CutShort(a) == a.result.code \in {"Cancelled", "TimedOut"} /\ ~IsQuery(a.request.command)

ResponsesKeepToTheRequest ==
    \A a \in answer :
      /\ IsRedacted(a) => a.response.shows \cap Secrets = {}
      /\ IsRedacted(a) /\ "alias" \in a.response.shows => a.request.command \in PrintsAliases
      /\ a.response.form \in {Form(a.request), "empty"}
      /\ a.response.code = "Success" <=> a.result.code = "Success"
      /\ a.response.code = "Success" => a.response.form # "empty"
      /\ CutShort(a) => a.response.code = IF a.result.phase = "NotStarted" THEN "Unavailable" ELSE "Indeterminate"
      /\ a.response.code = "Unavailable" /\ ~IsQuery(a.request.command) =>
           a.result.phase = "NotStarted" \/ a.result.code = "Unavailable"

\* Two commands that change something are never in the controller together, and one
\* that is refused, fails or throws does not keep the next one out (m_mutationActive).
MutationsDoNotOverlap ==
    LET mutating == {h \in Handler : handler[h].at = "dispatched" /\ handler[h].mutation}
    IN  Cardinality(mutating) = IF mutationActive THEN 1 ELSE 0
=============================================================================
