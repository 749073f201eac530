-------------------------------- MODULE Tooltip --------------------------------
(***************************************************************************)
(* The tooltip and popover plugins: a tip that comes with the mouse, the   *)
(* focus, a click or a call, after a delay if there is one, and goes.      *)
(* Where it is placed is in TipPlacement.                                  *)
(***************************************************************************)
EXTENDS Naturals, Transition

CONSTANTS
  MaxEnding,  \* bound on the handlers that wait for the tip
  None

VARIABLE tip   \* a record; see Init

\* enabled: and there is something to say.  inState: what keeps the tip open.
\* timer: what setTimeout will do.  attached, in, fade: the tip's element in the
\* document, and its classes.  A tip made after destroy is the second element;
\* handlers on the first may run still.  bound: the handlers of the element are.
\* veto: the events a page refuses, chosen for each step.
\* History: driven, by triggers alone, and never refused; calm, never shown while
\* it faded out; hurried, turned while it faded in and out;
\* dying, destroy was called; revived, and a delayed tip was to come when it ended.
Init ==
  \E triggers \in {{"hover", "focus"}, {"click"}, {}}, delay \in SUBSET {"show", "hide"},
     animation, transition \in BOOLEAN :
    tip = [enabled |-> TRUE, hoverState |-> None, inState |-> {}, timer |-> None,
           element |-> 1, attached |-> FALSE, in |-> FALSE, fade |-> FALSE,
           described |-> FALSE, bound |-> TRUE, ending |-> [e \in 1 .. 2 |-> <<>>], veto |-> {},
           triggers |-> triggers, delay |-> delay, animation |-> animation,
           transition |-> transition, driven |-> TRUE, calm |-> TRUE, hurried |-> FALSE,
           dying |-> FALSE, revived |-> FALSE]

\* Mutant: a tip that was asked for again goes all the same.
Hidden_Goes(s, el) == [s EXCEPT !.attached = @ /\ s.element # el, !.described = FALSE]

\* complete of hide, on the element el: one that was asked for again stays.
Hidden(s, el) ==
  [s EXCEPT !.attached = @ /\ (s.hoverState = "in" \/ s.element # el), !.described = FALSE]

\* Mutant: a tip that was asked for again stays.
Destroyed_Keeps(s, el) ==
  [Hidden(s, el) EXCEPT !.in = FALSE, !.fade = FALSE, !.element = 2, !.bound = FALSE,
                        !.revived = @ \/ s.timer # None]

\* complete of hide for destroy: the object has no tip any more.
Destroyed(s, el) ==
  [Hidden(s, el) EXCEPT !.attached = FALSE, !.in = FALSE, !.fade = FALSE,
                        !.element = 2, !.bound = FALSE, !.revived = @ \/ s.timer # None]

HideEnds(s, h) == IF h.what = "destroyed" THEN Destroyed(s, h.on) ELSE Hidden(s, h.on)

\* hide(callback): what the end does comes before hoverState is forgotten when
\* nothing is animated.
hide(s, what) ==
  LET h == [what |-> what, on |-> s.element]
  IN IF "hide" \in s.veto THEN s
     ELSE [Waits([s EXCEPT !.in = FALSE], s.element, h, s.fade, HideEnds) EXCEPT !.hoverState = None]

Awaits(s, what) == \E i \in DOMAIN s.ending[s.element] : s.ending[s.element][i].what = what

\* Both events make sure that only the newest timer runs.
Turns(s, hoverState) ==
  [s EXCEPT !.timer = None, !.hoverState = hoverState,
            !.hurried = @ \/ (Awaits(s, "hidden") /\ Awaits(s, "shown"))]

\* leave, once inState is known.
leave(s) ==
  LET t == Turns(s, "out")
  IN IF s.inState # {} THEN s
     ELSE IF "hide" \in s.delay THEN [t EXCEPT !.timer = "hide"] ELSE hide(t, "hidden")

\* What waits for the tip; shown leaves a tip that nobody wants by then.
Complete(s, h) ==
  IF h.what # "shown" THEN HideEnds(s, h)
  ELSE LET t == [s EXCEPT !.hoverState = None]
       IN IF s.hoverState = "out" THEN leave(t) ELSE t

show(s) ==
  LET t == [s EXCEPT !.attached = TRUE, !.in = TRUE, !.fade = s.animation, !.described = TRUE,
                     !.calm = @ /\ ~Awaits(s, "hidden")]
  IN IF "show" \in s.veto \/ ~s.enabled THEN s
     ELSE Waits(t, s.element, [what |-> "shown", on |-> s.element], t.fade, Complete)

\* enter, once inState is known.
enter(s) ==
  LET t == Turns(s, "in")
  IN IF s.in \/ s.hoverState = "in" THEN [s EXCEPT !.hoverState = "in"]
     ELSE IF "show" \in s.delay THEN [t EXCEPT !.timer = "show"] ELSE show(t)

destroy(s) == hide([s EXCEPT !.timer = None], "destroyed")

\* A step of the object in its page.
Does(Step(_)) ==
  \E veto \in SUBSET {"show", "hide"} :
    tip' = [Step([tip EXCEPT !.veto = veto, !.driven = @ /\ veto = {}]) EXCEPT !.veto = {}]

Room == \A el \in 1 .. 2 : Len(tip.ending[el]) < MaxEnding

Event(trigger) == tip.bound /\ Room /\ trigger \in tip.triggers

\* mouseenter, focusin; mouseleave, focusout
Enter(trigger) ==
  /\ Event(trigger) /\ trigger \notin tip.inState
  /\ Does(LAMBDA s : enter([s EXCEPT !.inState = @ \cup {trigger}]))

Leave(trigger) ==
  /\ Event(trigger) /\ trigger \in tip.inState
  /\ Does(LAMBDA s : leave([s EXCEPT !.inState = @ \ {trigger}]))

\* toggle, with a click
Click ==
  /\ Event("click")
  /\ Does(LAMBDA s : IF s.inState = {}
                       THEN enter([s EXCEPT !.inState = {"click"}])
                     ELSE leave([s EXCEPT !.inState = {}]))

\* toggle, without one
toggle(s) == IF s.in THEN leave(s) ELSE enter(s)

Call ==
  /\ tip.bound /\ Room
  /\ \/ Does(LAMBDA s : show([s EXCEPT !.driven = FALSE]))
     \/ Does(LAMBDA s : hide([s EXCEPT !.driven = FALSE], "hidden"))
     \/ Does(LAMBDA s : toggle([s EXCEPT !.driven = FALSE]))
     \/ Does(LAMBDA s : [s EXCEPT !.driven = FALSE, !.enabled = ~@])
     \/ Does(LAMBDA s : destroy([s EXCEPT !.dying = @ \/ "hide" \notin s.veto]))

\* The function of setTimeout.
Timer ==
  /\ tip.timer # None
  /\ Does(LAMBDA s : LET t == [s EXCEPT !.timer = None]
                     IN IF s.timer = "show" /\ s.hoverState = "in" THEN show(t)
                        ELSE IF s.timer = "hide" /\ s.hoverState = "out" THEN hide(t, "hidden")
                        ELSE t)

Ends(el) ==
  /\ tip.ending[el] # <<>>
  /\ Does(LAMBDA s : TransitionEnd(s, el, Complete))

Next ==
  \/ \E trigger \in {"hover", "focus"} : Enter(trigger) \/ Leave(trigger)
  \/ Click \/ Call \/ Timer
  \/ \E el \in 1 .. 2 : Ends(el)

-----------------------------------------------------------------------------
AtRest == Rests(tip) /\ tip.timer = None

\* A tip that triggers alone open and close is there just as long as one of them
\* wants it, delays and fades or not, and is announced to screen readers then.
\* Two things break this: shown while it fades out, a tip is not announced; asked
\* to come or go once more while it fades in and out at once, it may do neither.
FollowsItsTriggers ==
  AtRest /\ tip.driven /\ tip.bound /\ ~tip.dying /\ ~tip.hurried =>
    /\ tip.attached = (tip.inState # {}) /\ tip.in = tip.attached
    /\ tip.calm => tip.described = tip.attached

\* Of a tip that was destroyed nothing is left or comes back, though it was asked
\* for while it faded, unless with a delay: that tip comes when it may, to stay.
DestroyedIsGone == ~tip.bound /\ AtRest /\ ~tip.revived => ~tip.attached
=============================================================================
