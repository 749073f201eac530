---------------------------------- MODULE Tab ----------------------------------
(***************************************************************************)
(* The tab plugin: a click on a tab activates its item in the list and,    *)
(* when the old pane has faded out, its pane.                              *)
(***************************************************************************)
EXTENDS Naturals, FiniteSets, Transition

CONSTANTS
  Pane,       \* the panes, one for each tab
  MaxEnding   \* bound on the handlers that wait for one pane

VARIABLE tab  \* a record; see Init

\* item: the active items of the list; active, in, fade: the panes with these
\* classes; hurried is history: a click came while a pane faded.
Init ==
  \E p \in Pane, fade \in {{}, Pane}, transition \in BOOLEAN :
    tab = [item |-> {p}, active |-> {p}, in |-> {p} \cap fade, fade |-> fade,
           ending |-> [q \in Pane |-> <<>>], transition |-> transition, hurried |-> FALSE]

\* Mutant: the new pane is shown beside the old one.
Swaps_Beside(s, h) ==
  [s EXCEPT !.active = @ \cup {h.to}, !.in = IF h.animated THEN @ \cup {h.to} ELSE @,
            !.fade = IF h.animated THEN @ ELSE @ \ {h.to}]

\* next() of activate: the panes that were active give way to the new one.
Swaps(s, h) ==
  [s EXCEPT
     !.active = (@ \ h.from) \cup {h.to},
     !.in = IF h.animated THEN @ \cup {h.to} ELSE @,
     !.fade = IF h.animated THEN @ ELSE @ \ {h.to}]

\* activate, for the pane.  Every active pane has its handler; 'in' goes at once.
activate(s, p) ==
  LET animated == s.transition /\ s.fade # {}
      h == [to |-> p, from |-> s.active, animated |-> animated]
      t == IF animated /\ s.active # {}
             THEN [s EXCEPT !.ending = [q \in Pane |-> IF q \in s.active THEN Append(@[q], h)
                                                       ELSE @[q]]]
             ELSE Swaps(s, h)
  IN [t EXCEPT !.in = @ \ s.active]

\* show: not for the active tab, nor when a page vetoes it.  The item changes at
\* once, since activate is given no callback for it.
show(p) ==
  /\ p \notin tab.item
  /\ \A q \in Pane : Len(tab.ending[q]) < MaxEnding
  /\ tab' = activate([tab EXCEPT !.item = {p}, !.hurried = @ \/ ~Rests(tab)], p)

Ends(p) ==
  /\ tab.ending[p] # <<>>
  /\ tab' = TransitionEnd(tab, p, Swaps)

Next == \E p \in Pane : show(p) \/ Ends(p)

-----------------------------------------------------------------------------
Shown(p) == p \in tab.active /\ (p \in tab.fade => p \in tab.in)

\* At rest, just the pane of the active tab can be seen, unless the user was
\* faster than the fade: then panes of the tabs in between stay.  The pages of
\* this server have no fading panes, so that no click is too fast for them.
OnePane == Rests(tab) /\ ~tab.hurried => {p \in Pane : Shown(p)} = tab.item
=============================================================================
