------------------------------- MODULE Dropdown -------------------------------
(***************************************************************************)
(* The dropdown plugin: menus that a click on their toggle opens, and that *)
(* a click anywhere closes; keys walk through the items.                   *)
(*                                                                         *)
(* A click on a toggle is handled by toggle, which keeps the document's    *)
(* clearMenus from it by returning false; where it returns early, the      *)
(* document gets the click too.                                            *)
(***************************************************************************)
EXTENDS Integers

CONSTANTS
  Menu,    \* the menus, numbered in the order of the document
  Items,   \* Items[m]: how many items of menu m can have the focus
  None

VARIABLE dropdown   \* a record; see Init

\* open: the menus with this class; backdrop: the element that catches the
\* clicks on a touch device, None or the menu it was made for; focus: <<m, 0>>
\* for the toggle of m, <<m, i>> for its item i.
Init ==
  \E touch, navbar \in BOOLEAN, disabled \in SUBSET Menu :
    dropdown = [open |-> {}, backdrop |-> None, focus |-> None,
                touch |-> touch, navbar |-> navbar, disabled |-> disabled]

\* What a page may prevent.
Vetoes == [show: BOOLEAN, hide: SUBSET Menu]

\* inside: the menu whose input was clicked, or None.  e is the click until the
\* first menu gets its 'hide': from then on an input keeps no menu open.  What
\* is hidden loses the focus.
clearMenus(s, inside, veto) ==
  LET kept == {m \in s.open : m = inside /\ \A n \in s.open : m <= n}
      open == kept \cup (s.open \cap veto.hide)
      hidden == s.focus # None /\ s.focus[2] > 0 /\ s.focus[1] \notin open
  IN [s EXCEPT !.backdrop = None, !.open = open,
               !.focus = IF hidden THEN None ELSE @]

\* Mutant: the document does not get the click that a page refused.
toggle_Swallows(s, m, veto) ==
  LET t == clearMenus(s, None, veto)
      shown == [t EXCEPT !.backdrop = IF s.touch /\ ~s.navbar THEN m ELSE @]
  IN IF m \in s.disabled \/ m \in s.open THEN t
     ELSE IF veto.show THEN shown
     ELSE [shown EXCEPT !.open = @ \cup {m}, !.focus = <<m, 0>>]

\* The backdrop is made before a page is asked.
toggle(s, m, veto) ==
  LET t == clearMenus(s, None, veto)
      shown == [t EXCEPT !.backdrop = IF s.touch /\ ~s.navbar THEN m ELSE @]
  IN IF m \in s.disabled \/ m \in s.open THEN t
     ELSE IF veto.show THEN clearMenus(shown, None, veto)
     ELSE [shown EXCEPT !.open = @ \cup {m}, !.focus = <<m, 0>>]

Click(m) == \E veto \in Vetoes : dropdown' = toggle(dropdown, m, veto)

\* Anywhere else: on an input of a menu, on the backdrop or on the page.  The
\* right button closes nothing; a form in the menu keeps its clicks to itself.
ClickElsewhere ==
  \E inside \in dropdown.open \cup {None}, veto \in Vetoes :
    dropdown' = clearMenus(dropdown, inside, veto)

\* The index after an arrow key, among n items; -1 stands for the toggle.
Walks(index, key, n) ==
  LET up == IF key = "up" /\ index > 0 THEN index - 1 ELSE index
      down == IF key = "down" /\ up < n - 1 THEN up + 1 ELSE up
  IN IF down = -1 THEN 0 ELSE down

\* keydown, on the toggle or in the menu that has the focus.  Space on an item
\* only gives it the focus again.
Keydown(key) ==
  LET m == dropdown.focus[1]
      index == dropdown.focus[2] - 1
      clicks == (m \notin dropdown.open /\ key # "escape") \/ (m \in dropdown.open /\ key = "escape")
  IN /\ dropdown.focus # None /\ m \notin dropdown.disabled
     /\ IF clicks
          THEN \E veto \in Vetoes :
                 LET t == IF key = "escape" THEN [dropdown EXCEPT !.focus = <<m, 0>>]
                          ELSE dropdown
                 IN dropdown' = IF index = -1 THEN toggle(t, m, veto)
                                ELSE clearMenus(t, None, veto)
          ELSE /\ m \in dropdown.open /\ Items[m] > 0
               /\ dropdown' = [dropdown EXCEPT !.focus = <<m, Walks(index, key, Items[m]) + 1>>]

\* Tab, or a click, moves the focus.
Focus ==
  \E m \in Menu : \E i \in 0 .. Items[m] :
    /\ i > 0 => m \in dropdown.open
    /\ dropdown' = [dropdown EXCEPT !.focus = <<m, i>>]

Next ==
  \/ \E m \in Menu : Click(m)
  \/ ClickElsewhere \/ Focus
  \/ \E key \in {"up", "down", "escape", "space"} : Keydown(key)

-----------------------------------------------------------------------------
\* The layer that catches the clicks of a touch device goes with the menu it was
\* made for: it never lies over a page without an open menu.
BackdropServes == dropdown.backdrop # None => dropdown.backdrop \in dropdown.open
=============================================================================
