------------------------------- MODULE ScrollSpy -------------------------------
(***************************************************************************)
(* The scrollspy plugin: marks in a navigation list the section the user   *)
(* has scrolled to.  Where the sections are is read once, and again when a *)
(* scroll event finds that the height of the document has changed.         *)
(***************************************************************************)
EXTENDS Naturals, FiniteSets

CONSTANTS
  Layouts,   \* [height |-> of the document, at |-> where its visible sections are;
             \* there is always one]
  View,      \* height of what scrolls
  Offset,    \* options.offset
  None

VARIABLE spy   \* a record; see Init

\* The sections that begin above y, and the lowest of some.
Reached(at, y) == {t \in DOMAIN at : at[t] <= y}
Lowest(at, sections) == CHOOSE t \in sections : \A u \in sections : at[u] <= at[t]

refresh(s) == [s EXCEPT !.known = s.layout.at, !.scrollHeight = s.layout.height]

\* scrollTop >= maxScroll, without the offset on both sides.
AtEnd(s) == s.scroll >= s.layout.height - View

\* Mutant: the sections are where they were.
process_Trusts(s) ==
  LET reached == Reached(s.known, s.scroll + Offset)
  IN [s EXCEPT !.activeTarget =
        IF AtEnd(s) THEN Lowest(s.known, DOMAIN s.known)
        ELSE IF reached = {} THEN None ELSE Lowest(s.known, reached)]

\* The sections are read again after process has read them: an event that finds
\* another height still goes by the old ones.  The marks in the list follow
\* activeTarget, in activate and clear.
process(s) ==
  LET reached == Reached(s.known, s.scroll + Offset)
      t == IF s.scrollHeight # s.layout.height THEN refresh(s) ELSE s
  IN [t EXCEPT !.activeTarget =
        IF AtEnd(s) THEN Lowest(s.known, DOMAIN s.known)
        ELSE IF reached = {} THEN None ELSE Lowest(s.known, reached)]

\* checks is history: how many events the present layout has seen, up to 2.
Init ==
  \E layout \in Layouts :
    spy = process(refresh([layout |-> layout, scroll |-> 0, pending |-> FALSE, checks |-> 0,
                           known |-> <<>>, scrollHeight |-> 0, activeTarget |-> None]))

\* The user scrolls; the event comes later, one for all there was to see.
Scroll ==
  \E y \in 0 .. spy.layout.height - View :
    spy' = [spy EXCEPT !.scroll = y, !.pending = TRUE]

Event ==
  /\ spy.pending
  /\ spy' = [process(spy) EXCEPT !.pending = FALSE, !.checks = IF @ < 2 THEN @ + 1 ELSE @]

\* The page moves, shows and hides sections, and may tell the plugin.
Page ==
  \E layout \in Layouts, told \in BOOLEAN :
    LET end == layout.height - View
        s == [spy EXCEPT !.layout = layout, !.checks = 0, !.scroll = IF @ > end THEN end ELSE @]
    IN spy' = IF told THEN refresh(s) ELSE s

Next == Scroll \/ Event \/ Page

-----------------------------------------------------------------------------
\* The page has changed and nothing tells: it is as high as before.
Unnoticed == spy.scrollHeight = spy.layout.height /\ spy.known # spy.layout.at

\* The second event after a change that the plugin can notice marks the section
\* the user sees, whatever had been marked by then.
MarksWhatIsSeen ==
  spy.checks = 2 /\ ~spy.pending /\ ~Unnoticed =>
    LET at == spy.layout.at
        reached == Reached(at, spy.scroll + Offset)
    IN spy.activeTarget = IF AtEnd(spy) THEN Lowest(at, DOMAIN at)
                          ELSE IF reached = {} THEN None ELSE Lowest(at, reached)
=============================================================================
