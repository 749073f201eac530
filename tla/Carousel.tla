------------------------------- MODULE Carousel -------------------------------
(***************************************************************************)
(* The carousel plugin: items that slide by a click, a key, a call or a    *)
(* timer, one at a time.                                                   *)
(***************************************************************************)
EXTENDS Handlers

CONSTANTS
  N,        \* how many items there are, from 0 on
  MaxTo,    \* bound on the calls of to that wait for a slide
  MaxSlid,  \* bound on the 'slid' events to come
  None

VARIABLE carousel   \* a record; see Init

Item == 0 .. N - 1

\* The timer of setInterval, by the handle the object has for it: 0 for none.
\* live: those that run.
NewHandle(s) == CHOOSE h \in 1 .. 9 : h \notin s.live \cup {s.interval}

\* Mutant: the timer that runs is forgotten.
cycle_Adds(s, e) ==
  LET t == [s EXCEPT !.paused = e /\ @]
      handle == NewHandle(s)
  IN IF s.cycles /\ ~t.paused THEN [t EXCEPT !.interval = handle, !.live = @ \cup {handle}] ELSE t

\* e: called for an event, or by pause.
cycle(s, e) ==
  LET t == [s EXCEPT !.paused = e /\ @, !.live = @ \ {s.interval}]
      handle == NewHandle(s)
  IN IF s.cycles /\ ~t.paused THEN [t EXCEPT !.interval = handle, !.live = @ \cup {handle}] ELSE t

\* Mutant: stops the timer before the slide is told to end.
pause_First(s, e) ==
  LET t == [s EXCEPT !.paused = @ \/ ~e, !.live = @ \ {s.interval}, !.interval = 0]
  IN IF s.next # None THEN cycle(t, TRUE) ELSE t

\* The end of a transition that it triggers, on the element of the carousel, is
\* none to the item that slides.
pause(s, e) ==
  LET t == [s EXCEPT !.paused = @ \/ ~e]
      u == IF s.next # None THEN cycle(t, TRUE) ELSE t
  IN [u EXCEPT !.live = @ \ {u.interval}, !.interval = 0]

\* A carousel that cycles starts to count anew.
slide(s, item, veto) ==
  LET p == IF s.interval # 0 THEN pause(s, FALSE) ELSE s
      t == IF s.transition THEN [p EXCEPT !.next = item]
           ELSE [p EXCEPT !.active = item]
  IN IF item = s.active \/ item \in veto THEN s
     ELSE IF s.interval # 0 THEN cycle(t, FALSE) ELSE t

\* The item before or after the active one; the same one where it does not wrap.
getItemForDirection(s, type) ==
  CASE type = "prev" -> IF s.active > 0 THEN s.active - 1 ELSE IF s.wrap THEN N - 1 ELSE 0
    [] type = "next" -> IF s.active < N - 1 THEN s.active + 1 ELSE IF s.wrap THEN 0 ELSE N - 1

\* next and prev
Moves(s, type, veto) ==
  IF s.next # None THEN s ELSE slide(s, getItemForDirection(s, type), veto)

Restart(s) == [cycle(pause(s, FALSE), FALSE) EXCEPT !.still = FALSE]

\* While an item slides, to waits for 'slid'.
to(s, pos, veto) ==
  IF s.next # None THEN [s EXCEPT !.waiting = Append(@, pos)]
  ELSE IF pos = s.active THEN Restart(s)
  ELSE slide(s, pos, veto)

\* active, next: the item that is shown and the one that slides in.  slid: how
\* many events are to come.  still is history: the mouse has come and not gone,
\* and nothing has started the carousel since.  One that is made by data-ride
\* starts by itself.
Init ==
  \E cycles, hover, wrap, transition, ride \in BOOLEAN :
    LET made == [active |-> 0, next |-> None, paused |-> FALSE,
                 interval |-> 0, live |-> {}, waiting |-> <<>>, slid |-> 0, still |-> FALSE,
                 cycles |-> cycles, hover |-> hover, wrap |-> wrap, transition |-> transition]
    IN carousel = IF ride /\ cycles THEN Restart(made) ELSE made

Vetoes == {{}} \cup {{i} : i \in Item}

\* A key, a control of the page or a call.
Move ==
  \E type \in {"next", "prev"}, veto \in Vetoes : carousel' = Moves(carousel, type, veto)

To ==
  /\ Len(carousel.waiting) < MaxTo
  /\ \E pos \in Item, veto \in Vetoes : carousel' = to(carousel, pos, veto)

\* The calls pause, cycle and, without an action, both.
Call ==
  carousel' \in {pause(carousel, FALSE), [cycle(carousel, FALSE) EXCEPT !.still = FALSE]}
                  \cup IF carousel.cycles THEN {Restart(carousel)} ELSE {}

Mouse ==
  /\ carousel.hover
  /\ carousel' \in {[pause(carousel, TRUE) EXCEPT !.still = TRUE],
                    [cycle(carousel, TRUE) EXCEPT !.still = FALSE]}

Tick ==
  /\ carousel.live # {}
  /\ \E veto \in Vetoes : carousel' = Moves(carousel, "next", veto)

\* Mutant: the event comes before the slide has ended.
Ends_Early ==
  /\ carousel.next # None
  /\ carousel' = [carousel EXCEPT !.active = carousel.next, !.next = None]

\* The transition ends; 'slid' comes in an event of its own.
Ends ==
  /\ carousel.next # None /\ carousel.slid < MaxSlid
  /\ carousel' = [carousel EXCEPT !.active = carousel.next, !.next = None, !.slid = @ + 1]

\* Each call that waits is made again, and may wait again.
Slid ==
  /\ carousel.slid > 0
  /\ \E veto \in Vetoes :
       carousel' = InTurn([carousel EXCEPT !.slid = @ - 1, !.waiting = <<>>],
                          carousel.waiting, LAMBDA s, pos : to(s, pos, veto))

Next == Move \/ To \/ Call \/ Mouse \/ Tick \/ Ends \/ Slid

-----------------------------------------------------------------------------
\* Whatever starts and stops it, a carousel has one timer at most and knows it:
\* it never moves faster and faster, nor on when it was stopped.
OneTimer == carousel.live \subseteq {carousel.interval}

\* Under the mouse it does not move on its own, even if the mouse came while an
\* item slid; unless it was started again, as a click on the indicator of the
\* item that is shown does.
StillUnderMouse == carousel.still => carousel.live = {}

\* No call of to is forgotten: while one waits, a 'slid' event is to come.
ToIsHeard == carousel.waiting # <<>> => carousel.next # None \/ carousel.slid > 0
=============================================================================
