------------------------------- MODULE Collapse -------------------------------
(***************************************************************************)
(* The collapse plugin: panels that open and close by a click, on their    *)
(* own (the navigation bar of every page) or as an accordion.              *)
(***************************************************************************)
EXTENDS Naturals, Transition

CONSTANTS
  Panel,     \* the panels, numbered in the order of the document
  MaxEnding, \* bound on the handlers that wait for one panel
  None

VARIABLE
  collapse   \* a record; see Init

\* Events whose default action a page may prevent.
Vetoes == SUBSET {"show", "hide"}

In(s, p) == "in" \in s.class[p]

\* class: of a panel; collapsed: does its trigger have that class; data: its
\* Collapse object, if it has one; parent: are the panels an accordion?
Init ==
  \E parent, transition \in BOOLEAN, open \in SUBSET Panel :
    /\ parent => \A p, q \in open : p = q
    /\ collapse = [class |-> [p \in Panel |-> IF p \in open THEN {"collapse", "in"}
                                              ELSE {"collapse"}],
                   collapsed |-> [p \in Panel |-> p \notin open],
                   data |-> [p \in Panel |-> None],
                   ending |-> [p \in Panel |-> <<>>],
                   parent |-> parent, transition |-> transition, calm |-> TRUE]

Object(busy, parent) == [transitioning |-> busy, parent |-> parent]

\* Mutant: closing leaves the class of the transition.
Complete_Leaves(s, h) ==
  [s EXCEPT
     !.class[h.panel] = IF h.shown THEN (@ \ {"collapsing"}) \cup {"collapse", "in"}
                        ELSE @ \cup {"collapse"},
     !.data[h.panel] = IF h.owner THEN Object(FALSE, @.parent) ELSE @]

\* The end of show and of hide.  h.owner: the object is the panel's still.
Complete(s, h) ==
  [s EXCEPT
     !.class[h.panel] = (@ \ {"collapsing"}) \cup (IF h.shown THEN {"collapse", "in"}
                                                   ELSE {"collapse"}),
     !.data[h.panel] = IF h.owner THEN Object(FALSE, @.parent) ELSE @]

\* Mutant: only opening tells the trigger.
Begins_Quietly(s, p, shown, parent, owner) ==
  LET t == [s EXCEPT
              !.class[p] = IF shown THEN (@ \ {"collapse"}) \cup {"collapsing"}
                           ELSE (@ \cup {"collapsing"}) \ {"collapse", "in"},
              !.collapsed[p] = @ /\ ~shown,
              !.data[p] = IF owner THEN Object(TRUE, parent) ELSE @]
  IN Waits(t, p, [panel |-> p, shown |-> shown, owner |-> owner], TRUE, Complete)

\* What show and hide do when nothing keeps them from it.
Begins(s, p, shown, parent, owner) ==
  LET t == [s EXCEPT
              !.class[p] = IF shown THEN (@ \ {"collapse"}) \cup {"collapsing"}
                           ELSE (@ \cup {"collapsing"}) \ {"collapse", "in"},
              !.collapsed[p] = ~shown,
              !.data[p] = IF owner THEN Object(TRUE, parent) ELSE @]
  IN Waits(t, p, [panel |-> p, shown |-> shown, owner |-> owner], TRUE, Complete)

Busy(s, p) == s.data[p] # None /\ s.data[p].transitioning

hide(s, p, parent, veto) ==
  IF Busy(s, p) \/ ~In(s, p) \/ "hide" \in veto THEN s
  ELSE Begins(s, p, FALSE, parent, TRUE)

\* addAriaAndCollapsedClass, for the panel or for each one of the accordion.
Labels(s, p, parent) ==
  [s EXCEPT !.collapsed = [q \in Panel |-> IF parent \/ q = p THEN ~In(s, q) ELSE @[q]]]

\* Plugin.call(actives, 'hide').  A panel without an object gets one, which
\* knows no parent: data-parent is an attribute of the trigger.
HideActive(q, s, veto) ==
  LET t == IF s.data[q] # None THEN s
           ELSE [Labels(s, q, FALSE) EXCEPT !.data[q] = Object(FALSE, FALSE)]
  IN hide(t, q, t.data[q].parent, veto)

\* data('bs.collapse', null): whoever animates these panels still is forgotten.
Forget(s, panels) ==
  [s EXCEPT
     !.data = [p \in Panel |-> IF p \in panels THEN None ELSE @[p]],
     !.ending = [p \in Panel |-> IF p \notin panels THEN @[p]
                  ELSE [i \in DOMAIN @[p] |-> [@[p][i] EXCEPT !.owner = FALSE]]]]

\* Mutant: a transition under way does not matter.
show_Impatient(s, p, parent, new, veto) ==
  IF In(s, p) \/ "show" \in veto THEN s ELSE Begins(s, p, TRUE, parent, TRUE)

\* The first active panel speaks for all.  If it has no object, all the objects
\* of the active panels are dropped when they have been told to hide, which
\* changes nothing of another panel.
show(s, p, parent, new, veto) ==
  LET actives == {q \in Panel : parent /\ s.class[q] \cap {"in", "collapsing"} # {}}
      first == CHOOSE q \in actives : \A r \in actives : q <= r
      known == actives # {} /\ s.data[first] # None
      Told(q) == IF q \in actives THEN HideActive(q, s, veto) ELSE s
      hidden == [s EXCEPT !.class = [q \in Panel |-> Told(q).class[q]],
                          !.collapsed = [q \in Panel |-> Told(q).collapsed[q]],
                          !.data = [q \in Panel |-> Told(q).data[q]],
                          !.ending = [q \in Panel |-> Told(q).ending[q]]]
  IN IF Busy(s, p) \/ In(s, p) \/ (known /\ Busy(s, first)) \/ "show" \in veto THEN s
     ELSE IF known \/ actives = {} THEN Begins(hidden, p, TRUE, parent, TRUE)
     ELSE Begins(Forget(hidden, actives), p, TRUE, parent, new \/ p \notin actives)

toggle(s, p, parent, new, veto) ==
  IF In(s, p) THEN hide(s, p, parent, veto) ELSE show(s, p, parent, new, veto)

\* A click on the trigger of a panel without an object makes one, which toggles
\* the panel before it is stored.
Create(s, p, veto) ==
  LET t == toggle(Labels(s, p, s.parent), p, s.parent, TRUE, veto)
  IN IF t.data[p] = None THEN [t EXCEPT !.data[p] = Object(FALSE, s.parent)] ELSE t

Click(p) ==
  /\ Len(collapse.ending[p]) < MaxEnding
  /\ \E veto \in Vetoes :
       LET calm == /\ collapse.calm /\ "hide" \notin veto
                   /\ \A q \in Panel : collapse.ending[q] # <<>> => collapse.data[q] # None
           s == [collapse EXCEPT !.calm = calm]
       IN collapse' = IF s.data[p] = None THEN Create(s, p, veto)
                      ELSE toggle(s, p, s.data[p].parent, FALSE, veto)

Ends(p) ==
  /\ collapse.ending[p] # <<>>
  /\ collapse' = TransitionEnd(collapse, p, Complete)

Next == \E p \in Panel : Click(p) \/ Ends(p)

-----------------------------------------------------------------------------
\* A panel at rest is open or closed, and answers to the next click: however
\* the clicks fall into transitions, none leaves it half open or waiting.
Settled ==
  \A p \in Panel : collapse.ending[p] = <<>> =>
    "collapsing" \notin collapse.class[p] /\ ~Busy(collapse, p)

\* On its own, a panel at rest has a trigger that says whether it is open.
TriggersAgree ==
  \A p \in Panel : collapse.ending[p] = <<>> /\ ~collapse.parent =>
    collapse.collapsed[p] = ~In(collapse, p)

\* The panels of an accordion end up closed but for one, unless a page vetoes
\* that or a click comes while an open panel of the markup closes for the first
\* time: its object is dropped then, and with it the knowledge that it moves.
Exclusive ==
  Rests(collapse) /\ collapse.parent /\ collapse.calm =>
    \A p, q \in Panel : In(collapse, p) /\ In(collapse, q) => p = q
=============================================================================
