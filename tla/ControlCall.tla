----------------------------- MODULE ControlCall -----------------------------
(***************************************************************************)
(* What the control channel promises a caller, with nothing of how: a      *)
(* command runs at most once, whatever is lost or repeated on the way; a   *)
(* caller told the result was told it of a command that ran; a caller told *)
(* that the app is not available had a command that has not run and never  *)
(* will; and everyone else is told that the outcome is not known.          *)
(***************************************************************************)
CONSTANT Caller

VARIABLES ran,       \* the callers whose command has run
          told       \* [Caller -> what it was told]

Told == {"nothing", "result", "refused", "unknown"}

Init == ran = {} /\ told = [c \in Caller |-> "nothing"]

Run(c) ==
    /\ c \notin ran /\ told[c] # "refused"
    /\ ran' = ran \cup {c}
    /\ UNCHANGED told

Tell(c, what) ==
    /\ told[c] = "nothing"
    /\ what = "result" => c \in ran
    /\ what = "refused" => c \notin ran
    /\ told' = [told EXCEPT ![c] = what]
    /\ UNCHANGED ran

Next == \E c \in Caller : Run(c) \/ \E what \in Told \ {"nothing"} : Tell(c, what)

Spec == Init /\ [][Next]_<<ran, told>>
=============================================================================
