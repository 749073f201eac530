--------------------------------- MODULE Alert ---------------------------------
(***************************************************************************)
(* The alert plugin: boxes with a dismiss button that fades them out and   *)
(* removes them, or other boxes that the button names.                     *)
(***************************************************************************)
EXTENDS Naturals, FiniteSets, Transition

CONSTANTS
  Box,        \* the alerts of a page, one dismiss button in each
  MaxEnding   \* bound on the handlers that wait for one box

VARIABLE alert   \* a record; see Init

\* shown: the boxes in the document; bound: those with an Alert object; target:
\* what the button of a box names.  told[b] counts the 'closed' events that the
\* page got for b: it listens until the box is removed.  dismissed is history.
Init ==
  \E target \in [Box -> SUBSET Box], fade \in SUBSET Box, transition \in BOOLEAN :
    alert = [shown |-> Box, bound |-> {}, listens |-> Box, target |-> target,
             fade |-> fade, transition |-> transition, ending |-> [b \in Box |-> <<>>],
             told |-> [b \in Box |-> 0], dismissed |-> {}]

\* Mutant: the boxes are detached, and keep their handlers.
removeElement_Detaches(s, boxes) ==
  [s EXCEPT
     !.shown = @ \ boxes,
     !.told = [b \in Box |-> IF b \in boxes \cap s.listens THEN @[b] + 1 ELSE @[b]],
     !.ending = [b \in Box |-> IF b \in boxes THEN <<>> ELSE @[b]]]

\* Detached first, so that the event reaches the handlers of the box alone;
\* remove() takes them, and whatever else waits for the end of its transition.
removeElement(s, boxes) ==
  [s EXCEPT
     !.shown = @ \ boxes,
     !.told = [b \in Box |-> IF b \in boxes \cap s.listens THEN @[b] + 1 ELSE @[b]],
     !.listens = @ \ boxes,
     !.ending = [b \in Box |-> IF b \in boxes THEN <<>> ELSE @[b]]]

\* What the button names, or the box it is in when that is not in the document.
close(s, b, veto) ==
  LET found == s.target[b] \cap s.shown
      boxes == IF found = {} THEN {b} ELSE found
      t == [s EXCEPT !.dismissed = @ \cup boxes]
  IN IF veto THEN s
     ELSE IF Animates(s, boxes \cap s.fade # {})
       THEN [t EXCEPT !.ending = [c \in Box |-> IF c \in boxes THEN Append(@[c], boxes) ELSE @[c]]]
     ELSE removeElement(t, boxes)

Room == \A b \in Box : Len(alert.ending[b]) + 2 <= MaxEnding

\* A click on the button: the box with an object handles it, and the document.
Dismiss(b) ==
  /\ Room /\ b \in alert.shown
  /\ \E vetoes \in [{1, 2} -> BOOLEAN] :
       LET t == IF b \in alert.bound THEN close(alert, b, vetoes[1]) ELSE alert
       IN alert' = close(t, b, vetoes[2])

\* alert('close') on the box, and alert() alone: both make an object.
Call(b) ==
  /\ Room /\ b \in alert.shown
  /\ LET s == [alert EXCEPT !.bound = @ \cup {b}]
         own == [s EXCEPT !.target[b] = {b}]
     IN \/ alert' = s
        \/ \E veto \in BOOLEAN : alert' = [close(own, b, veto) EXCEPT !.target = s.target]

Ends(b) ==
  /\ alert.ending[b] # <<>>
  /\ alert' = TransitionEnd(alert, b, removeElement)

Next == \E b \in Box : Dismiss(b) \/ Call(b) \/ Ends(b)

-----------------------------------------------------------------------------
\* However often a box is dismissed while it fades, by its own button and by
\* others, the page hears once that it is gone, and one that was dismissed goes.
ClosedOnce ==
  \A b \in Box :
    /\ alert.told[b] = IF b \in alert.shown THEN 0 ELSE 1
    /\ b \in alert.dismissed \cap alert.shown => alert.ending[b] # <<>>
=============================================================================
