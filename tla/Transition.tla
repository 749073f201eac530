------------------------------ MODULE Transition ------------------------------
(***************************************************************************)
(* How the plugins of the pages wait for CSS transitions.  A widget is a   *)
(* record s; s.transition says whether the browser animates, and           *)
(* s.ending[el] holds the handlers that wait for the end of a transition   *)
(* of element el, in the order they were bound.                            *)
(***************************************************************************)
EXTENDS Handlers

\* Can transitions be waited for, and does the element have the class for one?
Animates(s, fade) == s.transition /\ fade

\* one('bsTransitionEnd', handler).emulateTransitionEnd(duration), or the
\* handler at once.
Waits(s, el, handler, fade, Run(_, _)) ==
  IF Animates(s, fade) THEN [s EXCEPT !.ending[el] = Append(@, handler)]
  ELSE Run(s, handler)

\* The browser reports the end, or the timer of one of the handlers does.  Each
\* handler that is bound by then runs, once, and all their timers are void.
TransitionEnd(s, el, Run(_, _)) ==
  InTurn([s EXCEPT !.ending[el] = <<>>], s.ending[el], Run)

\* Nothing is under way.
Rests(s) == \A el \in DOMAIN s.ending : s.ending[el] = <<>>
=============================================================================
