--------------------------------- MODULE Affix ---------------------------------
(***************************************************************************)
(* The affix plugin: an element that scrolls with the top of the page, is  *)
(* fixed to the window below that, and stops above the footer.             *)
(***************************************************************************)
EXTENDS Integers

CONSTANTS
  Doc, Win, Height,  \* heights of the document, the window and the element
  Natural, Pin,      \* where the element is in the page, and when it is fixed
  Tops, Bottoms,     \* the offsets a page may ask for; None for no offset
  None

VARIABLE affix   \* a record; see Init

\* Where the element must end, and where its top is then.
Footer(s) == IF s.bottom = None THEN Doc ELSE Doc - s.bottom
Limit(s) == Footer(s) - Height

\* Where the top of the element is, as the page's style sheet and css('top')
\* place it.
Top(s) ==
  CASE s.affixed = "fixed" -> s.scroll + Pin
    [] s.affixed = "bottom" /\ s.css # None -> s.css
    [] OTHER -> Natural

\* Mutant: a pinned element waits until the footer has left the window.
getState_Sticky(s) ==
  LET top == IF s.affixed = None THEN s.scroll ELSE Top(s)
      height == IF s.affixed = None THEN Win ELSE Height
  IN IF s.top # None /\ s.affixed = "top" THEN IF s.scroll < s.top THEN "top" ELSE "fixed"
     ELSE IF s.affixed = "bottom" THEN IF s.scroll + Win <= Footer(s) THEN "fixed" ELSE "bottom"
     ELSE IF s.top # None /\ s.scroll <= s.top THEN "top"
     ELSE IF s.bottom # None /\ top + height >= Footer(s) THEN "bottom"
     ELSE "fixed"

\* "fixed" is the code's false.  The first time, the window collides.
getState(s) ==
  LET top == IF s.affixed = None THEN s.scroll ELSE Top(s)
      height == IF s.affixed = None THEN Win ELSE Height
      free == IF s.top # None THEN s.scroll + Pin <= Top(s) ELSE s.scroll + Win <= Footer(s)
  IN IF s.top # None /\ s.affixed = "top" THEN IF s.scroll < s.top THEN "top" ELSE "fixed"
     ELSE IF s.affixed = "bottom" THEN IF free THEN "fixed" ELSE "bottom"
     ELSE IF s.top # None /\ s.scroll <= s.top THEN "top"
     ELSE IF s.bottom # None /\ top + height >= Footer(s) THEN "bottom"
     ELSE "fixed"

\* checks is history: how often the element was checked where it is, up to 2.
\* A page that vetoes a change has lost css('top') all the same.
checkPosition(s, veto) ==
  LET state == getState(s)
      t == [s EXCEPT !.affixed = state, !.checks = IF @ < 2 THEN @ + 1 ELSE @,
                     !.css = IF state = "bottom" THEN Limit(s) ELSE None]
  IN IF ~s.visible THEN s
     ELSE IF state # s.affixed /\ veto THEN [s EXCEPT !.css = None, !.checks = 0]
     ELSE t

\* timer: a click has asked for a check.
Init ==
  \E top \in Tops, bottom \in Bottoms, scroll \in 0 .. Doc - Win, visible, veto \in BOOLEAN :
    affix = checkPosition([scroll |-> scroll, top |-> top, bottom |-> bottom,
                           visible |-> visible, affixed |-> None, css |-> None,
                           timer |-> FALSE, checks |-> 0], veto)

\* The target scrolls, by any distance, or says it has.
Scroll ==
  \E y \in 0 .. Doc - Win, veto \in BOOLEAN :
    affix' = checkPosition([affix EXCEPT !.scroll = y, !.checks = IF y = affix.scroll THEN @ ELSE 0],
                           veto)

\* checkPositionWithEventLoop
Click == affix' = [affix EXCEPT !.timer = TRUE]

Timer ==
  /\ affix.timer
  /\ \E veto \in BOOLEAN : affix' = checkPosition([affix EXCEPT !.timer = FALSE], veto)

\* The page shows or hides the element.
Page == affix' = [affix EXCEPT !.visible = ~@, !.checks = 0]

Next == Scroll \/ Click \/ Timer \/ Page

-----------------------------------------------------------------------------
\* From wherever the user jumps, two checks place the element: above the footer
\* and, with an offset at the top, in the page up to there and fixed below that
\* for as long as the footer lets it.  One check is not enough.
InPlace ==
  affix.checks = 2 =>
    /\ affix.bottom # None => Top(affix) <= Limit(affix)
    /\ affix.top # None =>
         LET fixed == affix.scroll + Pin
             placed == IF affix.bottom # None /\ Limit(affix) < fixed THEN Limit(affix) ELSE fixed
         IN \/ affix.scroll >= affix.top /\ Top(affix) = placed
            \/ affix.scroll <= affix.top /\ Top(affix) = Natural
=============================================================================
