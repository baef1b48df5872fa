-------------------------- MODULE SettingsPresenter -------------------------
(***************************************************************************)
(* SettingsWindowPresenter.cpp: one settings window at a time, made by     *)
(* Show, closed by Close, by the user or by XAML.                          *)
(*                                                                         *)
(* All of it is on the UI thread, but Window.Close and Window.Activate     *)
(* pump messages: while a call is inside one of them the window may close, *)
(* and the presenter may be called again.  stack holds the calls under     *)
(* way, the innermost last.                                                *)
(***************************************************************************)
EXTENDS Naturals, Sequences, SequencesExt

CONSTANTS
    MaxWindows,
    MaxDepth,  \* calls inside one another
    Budgets    \* calls, user's closes, failing calls, destructions

VARIABLES current, win, stack, made, answer, ended, budget

vars == <<current, win, stack, made, answer, ended, budget>>

Window == 1 .. MaxWindows
NoWindow == 0

Spend(k) == budget[k] > 0 /\ budget' = [budget EXCEPT ![k] = @ - 1]
Attempt(ok) == IF ok THEN UNCHANGED budget ELSE Spend("faults")

Top == Last(stack)
Runs(call, at) == stack # <<>> /\ Top.call = call /\ Top.at = at
Pumping == stack # <<>> => Top.at \in {"activating", "closing"}
Replace(f) == stack' = Append(Front(stack), f)
Return(value) == stack' = Front(stack) /\ answer' = [call |-> Top.call, value |-> value]

Frame(call) == [call |-> call, at |-> "begin", window |-> NoWindow, after |-> "answer", since |-> made]

(***************************************************************************)
(* HandleWindowClosed, with the Closed handler revoked; and AbandonWindow, *)
(* which forgets a window that would not close.                            *)
(***************************************************************************)
Forgotten(w) == [w EXCEPT !.closed = TRUE, !.closing = FALSE, !.held = FALSE, !.registered = FALSE]
HandleWindowClosed(w) == IF w.closed \/ ~w.held THEN w ELSE Forgotten(w)
CurrentWithout(w) == IF current = w THEN NoWindow ELSE current

\* What follows CloseWindow where it was called.
ProceedAnyway(after, closed, w) ==
    IF after = "create" THEN Replace([Top EXCEPT !.at = "create"]) /\ UNCHANGED answer
                        ELSE Return(after = "answer" /\ closed)
Proceed(after, closed, w) ==
    CASE after = "create" /\ closed -> Replace([Top EXCEPT !.at = "create"]) /\ UNCHANGED answer
      [] after = "answer" -> Return(closed)
      [] OTHER -> Return(FALSE)

\* CloseWindow up to Window.Close.
BeginClose(w, s, after) ==
    IF s.closed \/ ~s.held
    THEN /\ current' = CurrentWithout(w) /\ win' = [win EXCEPT ![w] = s]
         /\ Proceed(after, TRUE, w)
    ELSE IF s.closing
    THEN /\ win' = [win EXCEPT ![w] = s] /\ UNCHANGED current
         /\ Proceed(after, FALSE, w)
    ELSE /\ win' = [win EXCEPT ![w] = [s EXCEPT !.closing = TRUE]]
         /\ Replace([Top EXCEPT !.at = "closing", !.window = w, !.after = after])
         /\ UNCHANGED <<current, answer>>

CloseReturns ==
    /\ stack # <<>> /\ Top.at = "closing"
    /\ LET w == Top.window
       IN  /\ win' = [win EXCEPT ![w] = [HandleWindowClosed(@) EXCEPT !.native = "gone"]]
           /\ current' = CurrentWithout(w)
           /\ Proceed(Top.after, TRUE, w)
    /\ UNCHANGED <<made, ended, budget>>

\* Window.Close fails; the destructor then abandons the window.
CloseThrows ==
    /\ stack # <<>> /\ Top.at = "closing" /\ Spend("faults")
    /\ LET w == Top.window
           s == [win[w] EXCEPT !.closing = FALSE]
       IN  /\ win' = [win EXCEPT ![w] = IF Top.call = "End" THEN Forgotten(s) ELSE s]
           /\ current' = IF s.closed \/ Top.call = "End" THEN CurrentWithout(w) ELSE current
           /\ Proceed(Top.after, s.closed, w)
    /\ UNCHANGED <<made, ended>>

\* The user, or XAML, closes a window; without a handler nobody hears of it.
WindowCloses(w) ==
    /\ Pumping /\ win[w].native = "open" /\ Spend("closes")
    /\ win' = [win EXCEPT ![w] = [IF win[w].registered THEN HandleWindowClosed(@) ELSE @
                                  EXCEPT !.native = "gone"]]
    /\ current' = IF win[w].registered THEN CurrentWithout(w) ELSE current
    /\ UNCHANGED <<stack, made, answer, ended>>

---------------------------------------------------------------------------
\* Window.Close raises Closed last: nothing is pumped between the two returns.
Reentrant == stack # <<>> /\ Top.at = "closing" => ~win[Top.window].closed

Call(call) ==
    /\ Pumping /\ Reentrant /\ ~ended /\ Len(stack) < MaxDepth /\ Spend("calls")
    /\ stack' = Append(stack, Frame(call))
    /\ UNCHANGED <<current, win, made, answer, ended>>

Usable(w) == w.held /\ ~w.closed /\ w.activated /\ w.native = "open"

\* Show brings a window that works to the front, or closes one that does not.
ShowBegin(ok) ==
    /\ Runs("Show", "begin") /\ Attempt(ok)
    /\ IF current = NoWindow \/ win[current].closed \/ ~win[current].held
       THEN /\ ok /\ current' = NoWindow /\ Replace([Top EXCEPT !.at = "create"])
            /\ UNCHANGED <<win, answer>>
       ELSE IF ok /\ Usable(win[current]) THEN Return(TRUE) /\ UNCHANGED <<current, win>>
       ELSE BeginClose(current, win[current], "create")
    /\ UNCHANGED <<made, ended>>

NoWin == [native |-> "none", held |-> FALSE, registered |-> FALSE, closing |-> FALSE, closed |-> FALSE,
          activated |-> FALSE]
Opened(registered) == [NoWin EXCEPT !.native = "open", !.held = TRUE, !.registered = registered]

\* A new window: XAML may not make it, or fail while it is set up.
ShowCreate(outcome) ==
    /\ Runs("Show", "create") /\ made < MaxWindows
    /\ Attempt(outcome = "made")
    /\ IF outcome = "none" THEN Return(FALSE) /\ UNCHANGED <<current, win, made>>
       ELSE \E w \in {made + 1} :
              /\ made' = w /\ current' = w
              /\ IF outcome = "made"
                 THEN /\ win' = [win EXCEPT ![w] = Opened(TRUE)]
                      /\ Replace([Top EXCEPT !.at = "activating", !.window = w]) /\ UNCHANGED answer
                 ELSE /\ win' = [win EXCEPT ![w] = [Opened(outcome = "late") EXCEPT !.closing = TRUE]]
                      /\ Replace([Top EXCEPT !.at = "closing", !.window = w, !.after = "fail"])
                      /\ UNCHANGED answer
    /\ UNCHANGED ended

\* Activate returns; a window that did not initialize is closed again.
ActivateReturns(initialized) ==
    /\ Runs("Show", "activating") /\ Attempt(initialized)
    /\ LET w == Top.window
       IN  IF win[w].closed \/ current # w
           THEN initialized /\ Return(FALSE) /\ UNCHANGED <<current, win>>
           ELSE IF initialized
           THEN /\ win' = [win EXCEPT ![w].activated = TRUE] /\ Return(TRUE) /\ UNCHANGED current
           ELSE BeginClose(w, win[w], "fail")
    /\ UNCHANGED <<made, ended>>

CloseBegin(call) ==
    /\ Runs(call, "begin")
    /\ IF current = NoWindow THEN Return(TRUE) /\ UNCHANGED <<current, win>>
       ELSE BeginClose(current, win[current], "answer")
    /\ UNCHANGED <<made, ended, budget>>

\* ~SettingsWindowPresenter.
End ==
    /\ stack = <<>> /\ ~ended /\ Spend("ends")
    /\ ended' = TRUE /\ stack' = <<Frame("End")>>
    /\ UNCHANGED <<current, win, made, answer>>

---------------------------------------------------------------------------
Init ==
    /\ current = NoWindow /\ win = [w \in Window |-> NoWin] /\ stack = <<>> /\ made = 0
    /\ answer = [call |-> "none", value |-> FALSE] /\ ended = FALSE
    /\ budget \in Budgets

Next ==
    \/ \E call \in {"Show", "Close"} : Call(call)
    \/ \E ok \in BOOLEAN : ShowBegin(ok) \/ ActivateReturns(ok)
    \/ \E outcome \in {"made", "none", "early", "late"} : ShowCreate(outcome)
    \/ \E call \in {"Close", "End"} : CloseBegin(call)
    \/ CloseReturns \/ CloseThrows \/ (\E w \in Window : WindowCloses(w)) \/ End

---------------------------------------------------------------------------
\* No settings window is ever on the screen that the presenter has lost: the
\* only open one is Current, through failures, reentrant calls and windows that
\* close under the presenter's hands (the destructor may abandon one).
PresenterKnowsItsWindow ==
    ~ended => \A w \in Window : win[w].native = "open" => current = w

\* Show answers true only with a window that is open and activated, and Close
\* only when no window is left that was there when it was called.
PresenterAnswersTrulyStep ==
    Len(stack') < Len(stack) /\ answer'.value =>
      CASE answer'.call = "Show" -> current' # NoWindow /\ win'[current'].native = "open"
        [] answer'.call = "Close" -> \A w \in 1 .. Top.since : win'[w].native # "open"
        [] OTHER -> TRUE

=============================================================================
