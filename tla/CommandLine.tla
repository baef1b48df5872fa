----------------------------- MODULE CommandLine -----------------------------
(***************************************************************************)
(* The command line of apc2ctl (control/CliParser) and the rules a request *)
(* must keep on the wire (control/CommandProtocol).  A behaviour reads one *)
(* command line, argument by argument.                                     *)
(*                                                                         *)
(* A word is a string up to case; what matters of it is whether it begins  *)
(* with a dash and which lines it consists of.  The texts of help and of   *)
(* error messages are left out: a failure is "failed".  CLI11 runs the     *)
(* callbacks in the order of the arguments, so each argument is split off  *)
(* and applied in one step.  The bound on a payload's length is left out.  *)
(***************************************************************************)
EXTENDS Naturals, Sequences, TLC

CONSTANTS Word,      \* words a user may type after the command
          Dashed,    \* the ones that begin with a dash
          Lines,     \* the lines each word consists of
          Typed,     \* commands a user may type
          MaxWords   \* longest command line that is read

VARIABLES argv,      \* the command and the words after it
          parse      \* what ParseWithCli has made of it

Relative == {"Connect", "Disconnect", "Reconnect", "ToggleLast"}
Targeted == Relative \cup {"DefaultSet", "AliasClear", "AliasSet"}
Targetless == {"List", "Status", "DisconnectAll", "ReconnectAll", "Show", "Settings",
               "DefaultShow", "DefaultClear", "AliasList"}
Commands == Targeted \cup Targetless

Selectors == ("--id" :> "Id") @@ ("--name" :> "Name") @@ ("--mac" :> "Mac") @@ ("--alias" :> "Alias")
Flags == ("--json" :> "Json") @@ ("--raw" :> "Raw")
Stateful == ("--last" :> "Last") @@ ("--default" :> "Default")
Explicit == {"Id", "Name", "Mac", "Auto", "Alias"}

NoText == <<"">>
NoRequest == [command |-> "none", target |-> "None", flags |-> {}, payload |-> NoText]

ParseInit ==
    /\ argv \in UNION {[1..n -> Word] : n \in 0..MaxWords}
    /\ \E c \in Typed :
         parse = [at |-> 1, ended |-> FALSE, positional |-> {}, alias |-> {}, how |-> "reading",
                  request |-> [NoRequest EXCEPT !.command = c]]

Command == parse.request.command
TakesTarget == Command \in Targeted
TakesAlias == Command = "AliasSet"

Reading == parse.how = "reading" /\ parse.at <= Len(argv) /\ Command \in Commands
This == argv[parse.at]
Next1 == parse.at + 1
Fail == parse' = [parse EXCEPT !.how = "failed"]
Goes(p, to) == parse' = [p EXCEPT !.at = to]

\* select: a second target of any kind is refused.
Select(p, kind) ==
    IF p.request.target # "None" \/ p.positional # {} THEN [p EXCEPT !.how = "failed"]
    ELSE [p EXCEPT !.request.target = kind]

EndOfOptions ==
    /\ Reading /\ TakesTarget /\ ~parse.ended /\ This = "--"
    /\ Goes([parse EXCEPT !.ended = TRUE], Next1)

FlagGiven ==
    /\ Reading /\ ~parse.ended /\ This \in DOMAIN Flags
    /\ Goes([parse EXCEPT !.request.flags = @ \cup {Flags[This]}], Next1)

\* --last and --default are for the commands on connections only.
StatefulSelector ==
    /\ Reading /\ ~parse.ended /\ TakesTarget /\ ~TakesAlias /\ This \in DOMAIN Stateful
    /\ IF Command \in Relative THEN Goes(Select(parse, Stateful[This]), Next1) ELSE Fail

\* ReadOptionValue: where the value of the option at i is, 0 when it has none.
ValueOfNext(i) == IF i + 1 > Len(argv) THEN 0 ELSE i + 1
ReadOptionValue(i) ==
    CASE i + 1 > Len(argv)     -> 0
      [] argv[i + 1] = "--"    -> IF i + 2 > Len(argv) THEN 0 ELSE i + 2
      [] argv[i + 1] \in Dashed -> 0
      [] OTHER                 -> i + 1

IsGiven(v) == v > 0 /\ Lines[argv[v]] # NoText

SelectorWithValue ==
    /\ Reading /\ ~parse.ended /\ TakesTarget /\ This \in DOMAIN Selectors
    /\ \E v \in {ReadOptionValue(parse.at)} :
         IF IsGiven(v)
         THEN Goes([Select(parse, Selectors[This]) EXCEPT !.request.payload = Lines[argv[v]]], v + 1)
         ELSE Fail

AliasValue ==
    /\ Reading /\ ~parse.ended /\ TakesAlias /\ This = "--value"
    /\ \E v \in {ReadOptionValue(parse.at)} :
         IF IsGiven(v) /\ parse.alias = {} THEN Goes([parse EXCEPT !.alias = {argv[v]}], v + 1) ELSE Fail

\* Any other word is a target, then the alias of "alias set"; a dash needs "--" before it.
IsOption(w) == \/ w = "--" \/ w \in DOMAIN Flags
               \/ TakesTarget /\ w \in DOMAIN Selectors
               \/ TakesTarget /\ IF TakesAlias THEN w = "--value" ELSE w \in DOMAIN Stateful

Positional ==
    /\ Reading
    /\ parse.ended \/ ~IsOption(This) \/ (This = "--" /\ ~TakesTarget)
    /\ CASE ~TakesTarget \/ (~parse.ended /\ This \in Dashed) -> Fail
         [] parse.request.target = "None" /\ parse.positional = {} ->
              Goes([parse EXCEPT !.positional = {This}], Next1)
         [] TakesAlias /\ parse.alias = {} -> Goes([parse EXCEPT !.alias = {This}], Next1)
         [] OTHER -> Fail

\* The end of ParseWithCli.
WithTarget(p) ==
    LET r == p.request
    IN  CASE p.positional # {} -> [r EXCEPT !.target = "Auto", !.payload = Lines[CHOOSE w \in p.positional : TRUE]]
          [] r.target = "None" /\ r.command = "ToggleLast" -> [r EXCEPT !.target = "Default"]
          [] OTHER -> r

WithAlias(p, r) == IF r.command = "AliasSet" /\ p.alias # {}
                   THEN [r EXCEPT !.payload = @ \o Lines[CHOOSE w \in p.alias : TRUE]] ELSE r

IsComplete(p, r) ==
    /\ r.command \in Targeted =>
         r.target # "None" /\ (r.target \notin {"Last", "Default"} => r.payload # NoText)
    /\ r.command = "AliasSet" => \E w \in p.alias : Lines[w] # NoText

ParseEnds ==
    /\ parse.how = "reading" /\ (parse.at > Len(argv) \/ Command \notin Commands)
    /\ \E r \in {WithTarget(parse)} :
         parse' = CASE Command = "help" -> [parse EXCEPT !.how = "help"]
                    [] Command = "unknown" \/ ~IsComplete(parse, r) -> [parse EXCEPT !.how = "failed"]
                    [] OTHER -> [parse EXCEPT !.how = "send", !.request = WithAlias(parse, r)]

ParseStep ==
    /\ \/ EndOfOptions \/ FlagGiven \/ StatefulSelector \/ SelectorWithValue \/ AliasValue
       \/ Positional \/ ParseEnds
    /\ UNCHANGED argv

---------------------------------------------------------------------------
(***************************************************************************)
(* JsonRequested: what the client goes by when it has to report an error   *)
(* of its own.                                                             *)
(***************************************************************************)
SkipAll(i) == i + 2
Skip(i) == CASE i < Len(argv) /\ argv[i + 1] = "--" -> i + 1 + (IF Len(argv) - i < 2 THEN 1 ELSE 2)
             [] i < Len(argv) /\ argv[i + 1] \notin Dashed -> i + 2
             [] OTHER -> i + 1

JsonRequested ==
    LET From[i \in 1..Len(argv) + 2] ==
            IF i > Len(argv) \/ argv[i] = "--" THEN FALSE
            ELSE IF argv[i] \in DOMAIN Selectors \cup {"--value"} THEN From[Skip(i)]
            ELSE argv[i] = "--json" \/ From[i + 1]
    IN  From[1]

(***************************************************************************)
(* The wire: IsRequestValid, and what the server reads out of a request    *)
(* (RequestTargetText, RequestAlias).                                      *)
(***************************************************************************)
IsRequestValid(r) ==
    CASE r.command \in Targetless -> r.target = "None" /\ r.payload = NoText
      [] r.command \in Relative   -> \/ r.target \in Explicit /\ r.payload # NoText
                                     \/ r.target \in {"Last", "Default"} /\ r.payload = NoText
      [] r.command \in {"DefaultSet", "AliasClear"} -> r.target \in Explicit /\ r.payload # NoText
      [] r.command = "AliasSet"   -> /\ r.target \in Explicit /\ Len(r.payload) = 2
                                     /\ r.payload[1] # "" /\ r.payload[2] # ""
      [] OTHER -> FALSE

RequestTargetText(r) == IF r.command = "AliasSet" THEN <<r.payload[1]>> ELSE r.payload
RequestAlias(r) == IF r.command = "AliasSet" THEN Tail(r.payload) ELSE NoText

---------------------------------------------------------------------------
(***************************************************************************)
(* A command line that is sent says what was typed.  Nothing typed is      *)
(* ignored; nothing that begins with a dash is taken for a name unless     *)
(* "--" stands before it; the target and the alias the server reads are    *)
(* the typed ones, whatever line breaks are in them, or the request is     *)
(* refused as invalid; and an error of the client's own is reported in the *)
(* form the request asks for.                                              *)
(***************************************************************************)
Preceded(w) == \E i, j \in DOMAIN argv : i < j /\ argv[i] = "--" /\ argv[j] = w

RequestsSayWhatWasTyped ==
    parse.how = "send" =>
      LET r == parse.request
          taken == {argv[i] : i \in {j \in DOMAIN argv : argv[j] \notin Dashed \/ Preceded(argv[j])}}
          plain == {argv[i] : i \in {j \in DOMAIN argv : argv[j] \notin Dashed}}
      IN  /\ ("Json" \in r.flags) = JsonRequested
          /\ IF IsRequestValid(r)
             THEN /\ \A w \in plain : Lines[w] \in {RequestTargetText(r), RequestAlias(r)}
                  /\ r.target \in Explicit => \E w \in taken : Lines[w] = RequestTargetText(r)
                  /\ r.command = "AliasSet" => \E w \in taken : Lines[w] = RequestAlias(r)
             ELSE r.command = "AliasSet" /\ Len(r.payload) > 2
=============================================================================
