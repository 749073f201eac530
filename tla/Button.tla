-------------------------------- MODULE Button --------------------------------
(***************************************************************************)
(* The button plugin: a group of labels over checkboxes or radio buttons,  *)
(* and a button that tells the state of what it has started.               *)
(***************************************************************************)
EXTENDS Naturals, Sequences, FiniteSets

CONSTANTS
  Label,       \* the buttons of the group
  MaxPending,  \* bound on the timers of setState
  None

VARIABLE button   \* a record; see Init

\* checked: the inputs of the group; active: the labels.  moved and told are
\* history: did the last click change its input, and how many 'change' events
\* did the page get for it?  pending: the states whose timer runs; last is
\* history, the state whose timer was the last to run.
Init ==
  \E type \in {"radio", "checkbox"}, on \in SUBSET Label, other \in {None, "other"} :
    /\ type = "radio" => Cardinality(on) <= 1
    /\ button = [type |-> type, checked |-> on, active |-> on, moved |-> FALSE, told |-> 0,
                 text |-> "own", resetText |-> None, other |-> other, pending |-> <<>>,
                 last |-> None, isLoading |-> FALSE, disabled |-> FALSE]

Flip(set, x) == IF x \in set THEN set \ {x} ELSE set \cup {x}

\* Mutant: the input decides, as it is when the handler runs.
toggle_Follows(s, b, told) ==
  LET changed == ~(s.type = "radio" /\ b \in s.checked)
      active == IF s.type = "radio" THEN {b} ELSE Flip(s.active, b)
  IN [s EXCEPT !.active = active, !.told = IF changed THEN told + 1 ELSE told,
               !.checked = IF b \notin active THEN @ \ {b}
                           ELSE IF s.type = "radio" THEN {b} ELSE @ \cup {b}]

\* told: what the browser tells the page itself.  A radio button that is checked
\* unchecks the others.  A button outside a group goes like a checkbox, with
\* aria-pressed for its input.
toggle(s, b, told) ==
  LET changed == IF s.type = "radio" THEN b \notin s.checked
                 ELSE (b \in s.checked) = (b \in s.active)
      active == IF s.type = "radio" THEN {b} ELSE Flip(s.active, b)
  IN [s EXCEPT !.active = active, !.told = IF changed THEN told + 1 ELSE told,
               !.checked = IF b \notin active THEN @ \ {b}
                           ELSE IF s.type = "radio" THEN {b} ELSE @ \cup {b}]

\* A click on a label, whose default action is prevented; or one on the input,
\* by the keyboard too, which the browser has changed before the handler runs.
Click(b) ==
  \E input \in BOOLEAN :
    LET moves == button.type = "checkbox" \/ b \notin button.checked
        checked == IF ~input THEN button.checked
                   ELSE IF button.type = "radio" THEN {b} ELSE Flip(button.checked, b)
    IN button' = [toggle([button EXCEPT !.checked = checked], b, IF input /\ moves THEN 1 ELSE 0)
                    EXCEPT !.moved = moves]

\* Mutant: the text to go back to is read every time.
setState_Rereads(state) ==
  /\ Len(button.pending) < MaxPending
  /\ button' = [button EXCEPT !.resetText = button.text, !.pending = Append(@, state)]

setState(state) ==
  /\ Len(button.pending) < MaxPending
  /\ button' = [button EXCEPT !.resetText = IF @ = None THEN button.text ELSE @,
                              !.pending = Append(@, state)]

\* The text of a state, from the data of the element or the options; without one
\* the text stays.
Text(s, state) ==
  CASE state = "loading" -> "loading"
    [] state = "reset" -> s.resetText
    [] state = "other" -> IF s.other = None THEN s.text ELSE s.other

\* The timer of setState; timers of 0 ms run in order.
Timer ==
  /\ button.pending # <<>>
  /\ LET state == Head(button.pending)
         loads == state = "loading"
     IN button' = [button EXCEPT !.pending = Tail(@), !.last = state,
                                 !.text = Text(button, state),
                                 !.disabled = loads \/ (@ /\ ~button.isLoading),
                                 !.isLoading = loads]

Next ==
  \/ \E b \in Label : Click(b)
  \/ \E state \in {"loading", "reset", "other"} : setState(state)
  \/ Timer

-----------------------------------------------------------------------------
\* Whether label or input is clicked: what looks pressed is what the form will
\* send, and the page is told of a change exactly once.
PressedIsChecked ==
  /\ button.active = button.checked
  /\ button.type = "radio" => Cardinality(button.active) <= 1
  /\ button.told = IF button.moved THEN 1 ELSE 0

\* When its timers have run, a button can be used unless it is loading, and one
\* that was reset says what it said at first.
SaysItsState ==
  button.pending = <<>> =>
    /\ button.disabled = (button.last = "loading")
    /\ button.last = "reset" => button.text = "own"
=============================================================================
