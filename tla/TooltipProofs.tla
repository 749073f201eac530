----------------------------- MODULE TooltipProofs -----------------------------
(***************************************************************************)
(* A tip goes with its triggers, and goes for good when it is destroyed.   *)
(*                                                                         *)
(* Gone: a tip that was destroyed is out of the document and no delayed    *)
(* one is to come, unless it was asked for when destroy ended (revived).   *)
(*                                                                         *)
(* Follows, for a tip that triggers alone drive: it is there or coming     *)
(* (TipUp), or gone or going (TipDown), as the triggers want it or as the  *)
(* timer will soon have it; the handlers that wait are hides with at most  *)
(* a show at the end of them, or one show and one hide (TurnedOnce).       *)
(***************************************************************************)
EXTENDS TransitionProofs

-----------------------------------------------------------------------------
(***************************************************************************)
(* Tooltip.                                                                *)
(***************************************************************************)
TipHandler == [what : {"shown", "hidden", "destroyed"}, on : 1 .. 2]

TipState ==
  [enabled : BOOLEAN, hoverState : {None, "in", "out"}, inState : SUBSET {"hover", "focus", "click"},
   timer : {None, "show", "hide"}, element : 1 .. 2, attached : BOOLEAN, in : BOOLEAN,
   fade : BOOLEAN, described : BOOLEAN, bound : BOOLEAN, ending : [1 .. 2 -> Seq(TipHandler)],
   veto : SUBSET {"show", "hide"}, triggers : SUBSET {"hover", "focus", "click"},
   delay : SUBSET {"show", "hide"}, animation : BOOLEAN, transition : BOOLEAN, driven : BOOLEAN,
   calm : BOOLEAN, hurried : BOOLEAN, dying : BOOLEAN, revived : BOOLEAN]

\* What no operation changes but a step itself.
SameTip(t, s) ==
  /\ t.enabled = s.enabled /\ t.inState = s.inState /\ t.veto = s.veto /\ t.delay = s.delay
  /\ t.animation = s.animation /\ t.transition = s.transition /\ t.driven = s.driven
  /\ t.dying = s.dying

\* A tip that is gone does not come back by itself.
Gone(s) == ~s.bound /\ ~s.revived => ~s.attached /\ s.timer # "show"

\* What every operation does.
Goes(t, s) ==
  /\ t \in TipState /\ SameTip(t, s) /\ (t.bound => s.bound) /\ (s.revived => t.revived)
  /\ s.hurried => t.hurried
  /\ Gone(s) => Gone(t)

LEMMA TipHidden ==
  ASSUME NEW s \in TipState, NEW el \in 1 .. 2
  PROVE  LET t == Tip!Hidden(s, el)
         IN /\ t \in TipState /\ Goes(t, s)
            /\ t = [s EXCEPT !.attached = s.attached /\ (s.hoverState = "in" \/ s.element # el),
                             !.described = FALSE]
<1> DEFINE a == s.attached /\ (s.hoverState = "in" \/ s.element # el)
           t == [s EXCEPT !.attached = a, !.described = FALSE]
<1>1. t = Tip!Hidden(s, el) /\ a \in BOOLEAN /\ (a => s.attached)
  BY DEF Tip!Hidden
<1> HIDE DEF a
<1>2. t \in TipState
  BY <1>1 DEF TipState
<1>3. Goes(t, s)
  BY <1>1, <1>2 DEF TipState, Goes, SameTip, Gone
<1> QED BY <1>1, <1>2, <1>3 DEF a
LEMMA GoesOn ==
  ASSUME NEW s, NEW t, NEW u, Goes(t, s), Goes(u, t)
  PROVE  Goes(u, s)
BY DEF Goes, SameTip

LEMMA GoesNot ==
  ASSUME NEW s \in TipState
  PROVE  Goes(s, s)
BY DEF Goes, SameTip

LEMMA TipDestroyed ==
  ASSUME NEW s \in TipState, NEW el \in 1 .. 2
  PROVE  Goes(Tip!Destroyed(s, el), s)
<1> DEFINE h == Tip!Hidden(s, el)
           r == h.revived \/ s.timer # None
           t == [h EXCEPT !.attached = FALSE, !.in = FALSE, !.fade = FALSE,
                          !.element = 2, !.bound = FALSE, !.revived = r]
<1>1. h \in TipState /\ Goes(h, s) /\ h.timer = s.timer
  <2>1. /\ h \in TipState /\ Goes(h, s)
        /\ h = [s EXCEPT !.attached = s.attached /\ (s.hoverState = "in" \/ s.element # el),
                         !.described = FALSE]
    BY TipHidden
  <2> QED BY <2>1 DEF TipState
<1>2. t = Tip!Destroyed(s, el)
  BY Zenon DEF Tip!Destroyed
<1>3. r \in BOOLEAN /\ (h.revived => r) /\ (~r => h.timer # "show")
  BY <1>1, TipAssumption DEF TipState
<1> HIDE DEF h, r
<1>4. /\ t \in TipState /\ SameTip(t, h) /\ ~t.bound /\ ~t.attached /\ t.timer = h.timer
      /\ t.revived = r /\ t.hurried = h.hurried
  <2>1. t \in TipState
    <3> DEFINE two == 2
               g == [h EXCEPT !.attached = FALSE, !.in = FALSE, !.fade = FALSE]
               f == [g EXCEPT !.element = two, !.bound = FALSE]
    <3>1. g \in TipState
      BY <1>1 DEF TipState
    <3>2. t = [f EXCEPT !.revived = r] /\ two \in 1 .. 2
      OBVIOUS
    <3> HIDE DEF g, t, two
    <3>3. f \in TipState
      BY <3>1, <3>2 DEF TipState
    <3> HIDE DEF f
    <3> QED BY <1>3, <3>2, <3>3 DEF TipState
  <2>2. SameTip(t, h)
    BY <1>1 DEF TipState, SameTip
  <2>3. /\ ~t.bound /\ ~t.attached /\ t.timer = h.timer
        /\ t.revived = r /\ t.hurried = h.hurried
    BY <1>1 DEF TipState
  <2> QED BY <2>1, <2>2, <2>3
<1> HIDE DEF t
<1>5. Goes(t, h)
  BY <1>3, <1>4 DEF Goes, Gone
<1> QED BY <1>1, <1>2, <1>5, GoesOn

LEMMA TipHideEnds ==
  ASSUME NEW s \in TipState, NEW h \in TipHandler
  PROVE  /\ Goes(Tip!HideEnds(s, h), s)
         /\ h.what # "destroyed" => Tip!HideEnds(s, h).bound = s.bound
<1>1. h.on \in 1 .. 2
  BY DEF TipHandler
<1>2. CASE h.what = "destroyed"
  BY <1>1, <1>2, TipDestroyed DEF Tip!HideEnds
<1>3. CASE h.what # "destroyed"
  <2> DEFINE t == Tip!Hidden(s, h.on)
  <2>1. /\ t \in TipState /\ Goes(t, s)
        /\ t = [s EXCEPT !.attached = s.attached /\ (s.hoverState = "in" \/ s.element # h.on),
                         !.described = FALSE]
    BY <1>1, TipHidden
  <2>2. t.bound = s.bound
    BY <2>1 DEF TipState
  <2> QED BY <1>3, <2>1, <2>2 DEF Tip!HideEnds
<1> QED BY <1>2, <1>3

\* A handler that is bound changes nothing else.
TipAppend(s, h) == [s EXCEPT !.ending[s.element] = Append(@, h)]

LEMMA TipAppends ==
  ASSUME NEW s \in TipState, NEW h \in TipHandler
  PROVE  LET t == TipAppend(s, h)
         IN /\ t \in TipState
            /\ t = [s EXCEPT !.ending = [s.ending EXCEPT ![s.element] = Append(s.ending[s.element], h)]]
            /\ Goes(t, s) /\ t.bound = s.bound
<1> DEFINE e == [s.ending EXCEPT ![s.element] = Append(s.ending[s.element], h)]
           t == [s EXCEPT !.ending = e]
<1>1. e \in [1 .. 2 -> Seq(TipHandler)]
  <2>1. s.element \in 1 .. 2 /\ s.ending \in [1 .. 2 -> Seq(TipHandler)]
    BY DEF TipState
  <2>2. Append(s.ending[s.element], h) \in Seq(TipHandler)
    BY <2>1
  <2> QED BY <2>1, <2>2
<1>2. TipAppend(s, h) = t
  BY Zenon DEF TipAppend
<1> HIDE DEF e
<1>3. t \in TipState /\ SameTip(t, s) /\ t.bound = s.bound /\ t.revived = s.revived
      /\ t.attached = s.attached /\ t.timer = s.timer /\ t.hurried = s.hurried
  BY <1>1 DEF TipState, SameTip
<1> QED BY <1>2, <1>3 DEF e, Goes, Gone

LEMMA TipHides ==
  ASSUME NEW s \in TipState, NEW what \in {"hidden", "destroyed"}
  PROVE  LET t == Tip!hide(s, what)
         IN Goes(t, s) /\ (what = "hidden" => t.bound = s.bound)
<1> DEFINE h == [what |-> what, on |-> s.element]
           u == [s EXCEPT !.in = FALSE]
           v == IF s.transition /\ s.fade THEN TipAppend(u, h) ELSE Tip!HideEnds(u, h)
           t == [v EXCEPT !.hoverState = None]
<1>1. Tip!hide(s, what) \in {s, t}
  <2>1. u.element = s.element /\ u.transition = s.transition
    BY DEF TipState
  <2>2. Tip!hide(s, what) = IF "hide" \in s.veto THEN s
                            ELSE [IF u.transition /\ s.fade
                                    THEN [u EXCEPT !.ending[s.element] = Append(@, h)]
                                  ELSE Tip!HideEnds(u, h) EXCEPT !.hoverState = None]
    BY Zenon DEF Tip!hide, Tip!Waits, Tip!Animates
  <2> HIDE DEF u, h
  <2> QED BY <2>1, <2>2 DEF TipAppend
<1>2. h \in TipHandler /\ h.what = what
  BY DEF TipHandler, TipState
<1>3. u \in TipState /\ Goes(u, s) /\ u.bound = s.bound
  BY DEF TipState, Goes, SameTip, Gone
<1> HIDE DEF u, h
<1>4. v \in TipState /\ Goes(v, u) /\ (what = "hidden" => v.bound = u.bound)
  BY <1>2, <1>3, TipAppends, TipHideEnds DEF Goes
<1> HIDE DEF v
<1>5. Goes(t, v) /\ t.bound = v.bound
  BY <1>4 DEF TipState, Goes, SameTip, Gone
<1> HIDE DEF t
<1>6. Goes(t, s)
  BY <1>3, <1>4, <1>5, GoesOn
<1> QED BY <1>1, <1>3, <1>4, <1>5, <1>6, GoesNot
LEMMA TipTurns ==
  ASSUME NEW s \in TipState, NEW hoverState \in {"in", "out"}
  PROVE  LET t == Tip!Turns(s, hoverState)
         IN /\ Goes(t, s) /\ t.bound = s.bound /\ t.timer = None /\ t.hoverState = hoverState
            /\ t = [s EXCEPT !.timer = None, !.hoverState = hoverState, !.hurried = t.hurried]
            /\ t.hurried <=> s.hurried \/ (Tip!Awaits(s, "hidden") /\ Tip!Awaits(s, "shown"))
<1> DEFINE b == s.hurried \/ (Tip!Awaits(s, "hidden") /\ Tip!Awaits(s, "shown"))
           t == [s EXCEPT !.timer = None, !.hoverState = hoverState, !.hurried = b]
<1>1. t = Tip!Turns(s, hoverState)
  BY Zenon DEF Tip!Turns
<1>2. b \in BOOLEAN /\ (s.hurried => b)
  BY DEF TipState
<1>3. None # "show"
  BY TipAssumption
<1> HIDE DEF b
<1>4. t \in TipState
  BY <1>2 DEF TipState
<1>5. /\ SameTip(t, s) /\ t.bound = s.bound /\ t.timer = None /\ t.hoverState = hoverState
      /\ t.hurried = b /\ t.revived = s.revived /\ t.attached = s.attached
  BY DEF TipState, SameTip
<1>6. t = [s EXCEPT !.timer = None, !.hoverState = hoverState, !.hurried = t.hurried]
  BY <1>5
<1> HIDE DEF t
<1>7. Goes(t, s)
  BY <1>2, <1>3, <1>4, <1>5 DEF Goes, Gone
<1> QED BY <1>1, <1>5, <1>6, <1>7 DEF b

LEMMA TipLeaves ==
  ASSUME NEW s \in TipState
  PROVE  LET t == Tip!leave(s) IN Goes(t, s) /\ t.bound = s.bound
<1> DEFINE u == Tip!Turns(s, "out")
           v == [u EXCEPT !.timer = "hide"]
           w == Tip!hide(u, "hidden")
<1>1. Tip!leave(s) \in {s, v, w}
  BY Zenon DEF Tip!leave
<1>2. Goes(u, s) /\ u.bound = s.bound /\ u \in TipState
  BY TipTurns DEF Goes
<1> HIDE DEF u
<1>3. Goes(v, u) /\ v.bound = u.bound
  BY <1>2 DEF TipState, Goes, SameTip, Gone
<1>4. Goes(w, u) /\ w.bound = u.bound
  BY <1>2, TipHides
<1> HIDE DEF v, w
<1>5. Goes(v, s) /\ Goes(w, s)
  BY <1>2, <1>3, <1>4, GoesOn
<1> QED BY <1>1, <1>2, <1>3, <1>4, <1>5, GoesNot

LEMMA TipCompletes ==
  ASSUME NEW s \in TipState, NEW h \in TipHandler
  PROVE  /\ Goes(Tip!Complete(s, h), s)
         /\ h.what # "destroyed" => Tip!Complete(s, h).bound = s.bound
<1> DEFINE u == [s EXCEPT !.hoverState = None]
<1>1. CASE h.what # "shown"
  BY <1>1, TipHideEnds DEF Tip!Complete
<1>2. CASE h.what = "shown"
  <2>1. Tip!Complete(s, h) \in {u, Tip!leave(u)}
    BY <1>2, Zenon DEF Tip!Complete
  <2>2. u \in TipState /\ Goes(u, s) /\ u.bound = s.bound
    BY DEF TipState, Goes, SameTip, Gone
  <2> HIDE DEF u
  <2>3. Goes(Tip!leave(u), u) /\ Tip!leave(u).bound = u.bound
    BY <2>2, TipLeaves
  <2>4. Goes(Tip!leave(u), s)
    BY <2>2, <2>3, GoesOn
  <2> QED BY <2>1, <2>2, <2>3, <2>4
<1> QED BY <1>1, <1>2

\* The tip that show puts on the page.
TipPut(s) ==
  [s EXCEPT !.attached = TRUE, !.in = TRUE, !.fade = s.animation, !.described = TRUE,
            !.calm = s.calm /\ ~Tip!Awaits(s, "hidden")]

Opener(s) == [what |-> "shown", on |-> s.element]

LEMMA TipPuts ==
  ASSUME NEW s \in TipState
  PROVE  LET t == TipPut(s)
         IN /\ t \in TipState /\ SameTip(t, s) /\ t.bound = s.bound /\ t.revived = s.revived
            /\ t.attached /\ t.in /\ t.fade = s.animation /\ t.described
            /\ t.calm <=> s.calm /\ ~Tip!Awaits(s, "hidden")
            /\ t.hoverState = s.hoverState /\ t.timer = s.timer /\ t.element = s.element
            /\ t.ending = s.ending /\ t.hurried = s.hurried
<1> DEFINE c == s.calm /\ ~Tip!Awaits(s, "hidden")
           a == s.animation
           g == [s EXCEPT !.attached = TRUE, !.in = TRUE, !.fade = a]
           t == [g EXCEPT !.described = TRUE, !.calm = c]
<1>1. t = TipPut(s)
  BY Zenon DEF TipPut
<1>2. c \in BOOLEAN /\ a \in BOOLEAN
  BY DEF TipState
<1> HIDE DEF c
<1>3. g \in TipState /\ SameTip(g, s)
  BY <1>2 DEF TipState, SameTip
<1>4. /\ g.bound = s.bound /\ g.revived = s.revived /\ g.attached /\ g.in /\ g.fade = s.animation
      /\ g.hoverState = s.hoverState /\ g.timer = s.timer /\ g.element = s.element
      /\ g.ending = s.ending /\ g.hurried = s.hurried
  BY <1>2 DEF TipState
<1> HIDE DEF a, g
<1>5. t \in TipState /\ SameTip(t, g)
  BY <1>2, <1>3 DEF TipState, SameTip
<1>6. /\ t.bound = g.bound /\ t.revived = g.revived /\ t.attached = g.attached /\ t.in = g.in
      /\ t.fade = g.fade /\ t.described /\ t.calm = c
      /\ t.hoverState = g.hoverState /\ t.timer = g.timer /\ t.element = g.element
      /\ t.ending = g.ending /\ t.hurried = g.hurried
  BY <1>2, <1>3 DEF TipState
<1> HIDE DEF t
<1> QED BY <1>1, <1>3, <1>4, <1>5, <1>6 DEF c, SameTip

LEMMA TipShowDoes ==
  ASSUME NEW s
  PROVE  Tip!show(s) = IF "show" \in s.veto \/ ~s.enabled THEN s
                       ELSE IF TipPut(s).transition /\ TipPut(s).fade
                              THEN [TipPut(s) EXCEPT !.ending[s.element] = Append(@, Opener(s))]
                            ELSE Tip!Complete(TipPut(s), Opener(s))
BY Zenon DEF Tip!show, Tip!Waits, Tip!Animates, TipPut, Opener

LEMMA TipShows ==
  ASSUME NEW s \in TipState, s.bound \/ s.revived
  PROVE  LET t == Tip!show(s) IN Goes(t, s) /\ t.bound = s.bound
<1> DEFINE u == TipPut(s)
           h == Opener(s)
<1>1. /\ u \in TipState /\ Goes(u, s) /\ u.bound = s.bound /\ u.element = s.element
  BY TipPuts DEF Goes, Gone
<1>2. Tip!show(s) \in {s, TipAppend(u, h), Tip!Complete(u, h)}
  BY <1>1, TipShowDoes, Zenon DEF TipAppend
<1>3. h \in TipHandler /\ h.what = "shown"
  BY DEF TipHandler, TipState, Opener
<1> HIDE DEF u, h
<1>4. Goes(TipAppend(u, h), u) /\ TipAppend(u, h).bound = u.bound
  BY <1>1, <1>3, TipAppends
<1>5. Goes(Tip!Complete(u, h), u) /\ Tip!Complete(u, h).bound = u.bound
  BY <1>1, <1>3, TipCompletes
<1>6. Goes(TipAppend(u, h), s) /\ Goes(Tip!Complete(u, h), s)
  BY <1>1, <1>4, <1>5, GoesOn
<1> QED BY <1>1, <1>2, <1>4, <1>5, <1>6, GoesNot

LEMMA TipEnters ==
  ASSUME NEW s \in TipState, s.bound
  PROVE  Goes(Tip!enter(s), s)
<1> DEFINE u == Tip!Turns(s, "in")
           i == [s EXCEPT !.hoverState = "in"]
           v == [u EXCEPT !.timer = "show"]
<1>1. Tip!enter(s) \in {i, v, Tip!show(u)}
  BY Zenon DEF Tip!enter
<1>2. Goes(u, s) /\ u.bound = s.bound /\ u \in TipState
  BY TipTurns DEF Goes
<1>3. Goes(i, s)
  BY DEF TipState, Goes, SameTip, Gone
<1> HIDE DEF u, i
<1>4. Goes(v, u)
  BY <1>2 DEF TipState, Goes, SameTip, Gone
<1>5. Goes(Tip!show(u), u)
  BY <1>2, TipShows
<1> HIDE DEF v
<1> QED BY <1>1, <1>2, <1>3, <1>4, <1>5, GoesOn
\* Handlers of the one tip there is before destroy.
Handler(what) == [what |-> what, on |-> 1]

\* The tip fades out, once or more; it fades in at last; it was turned while it
\* faded in.
FadesOut(w) == \A i \in 1 .. Len(w) : w[i] = Handler("hidden")
FadesIn(w) ==
  /\ w # <<>> /\ w[Len(w)] = Handler("shown")
  /\ \A i \in 1 .. Len(w) - 1 : w[i] = Handler("hidden")
TurnedOnce(w) == Len(w) = 2 /\ w[1] = Handler("shown") /\ w[2] = Handler("hidden")

LEMMA HandlersMore ==
  ASSUME NEW w \in Seq(TipHandler)
  PROVE  /\ FadesOut(w) => /\ FadesOut(Append(w, Handler("hidden")))
                           /\ FadesIn(Append(w, Handler("shown")))
         /\ FadesIn(w) /\ Len(w) <= 1 => TurnedOnce(Append(w, Handler("hidden")))
         /\ \A what \in {"hidden", "shown"} :
              /\ Append(w, Handler(what)) # <<>> /\ Append(w, Handler(what)) \in Seq(TipHandler)
              /\ Len(Append(w, Handler(what))) = Len(w) + 1
<1> DEFINE n == Len(w)
<1>1. Handler("hidden") \in TipHandler /\ Handler("shown") \in TipHandler
  BY DEF Handler, TipHandler
<1>2. ASSUME NEW h \in TipHandler
      PROVE  /\ Append(w, h) # <<>> /\ Append(w, h) \in Seq(TipHandler) /\ Len(Append(w, h)) = n + 1
             /\ Append(w, h)[n + 1] = h /\ \A i \in 1 .. n : Append(w, h)[i] = w[i]
  <2>1. /\ Append(w, h) \in Seq(TipHandler) /\ Len(Append(w, h)) = n + 1
        /\ Append(w, h)[n + 1] = h /\ \A i \in 1 .. n : Append(w, h)[i] = w[i]
    OBVIOUS
  <2>2. n + 1 # 0
    OBVIOUS
  <2> HIDE DEF n
  <2>3. Append(w, h) # <<>>
    BY <2>1, <2>2
  <2> QED BY <2>1, <2>3
<1>3. n \in Nat
  OBVIOUS
<1> HIDE DEF n
<1>4. \A i \in 1 .. n + 1 : i \in 1 .. n \/ i = n + 1
  BY <1>3
<1>5. ASSUME FadesOut(w) PROVE FadesOut(Append(w, Handler("hidden")))
  BY <1>1, <1>2, <1>4, <1>5 DEF FadesOut, n
<1>6. ASSUME FadesOut(w) PROVE FadesIn(Append(w, Handler("shown")))
  <2> DEFINE v == Append(w, Handler("shown"))
  <2>1. v # <<>> /\ Len(v) = n + 1 /\ v[n + 1] = Handler("shown") /\ \A i \in 1 .. n : v[i] = w[i]
    BY <1>1, <1>2
  <2> HIDE DEF v
  <2>2. n + 1 - 1 = n
    BY <1>3
  <2>3. \A i \in 1 .. n : v[i] = Handler("hidden")
    BY <1>6, <2>1 DEF FadesOut, n
  <2>4. v[Len(v)] = Handler("shown") /\ Len(v) - 1 = n
    <3>1. v[Len(v)] = Handler("shown")
      BY <2>1, Zenon
    <3>2. Len(v) - 1 = n
      BY <1>3, <2>1
    <3> QED BY <3>1, <3>2
  <2>5. FadesIn(v)
    BY <2>1, <2>3, <2>4 DEF FadesIn
  <2> QED BY <2>5 DEF v
<1>7. ASSUME FadesIn(w), n <= 1 PROVE TurnedOnce(Append(w, Handler("hidden")))
  <2>1. n = 1
    <3>1. n # 0
      BY <1>7 DEF FadesIn, n
    <3> QED BY <1>3, <1>7, <3>1
  <2>2. w[1] = Handler("shown")
    BY <1>7, <2>1 DEF FadesIn, n
  <2> DEFINE v == Append(w, Handler("hidden"))
  <2>3. Len(v) = n + 1 /\ v[n + 1] = Handler("hidden") /\ \A i \in 1 .. n : v[i] = w[i]
    BY <1>1, <1>2
  <2> HIDE DEF v
  <2> QED BY <2>1, <2>2, <2>3 DEF TurnedOnce, v
<1>8. ASSUME NEW what \in {"hidden", "shown"}
      PROVE  /\ Append(w, Handler(what)) # <<>> /\ Append(w, Handler(what)) \in Seq(TipHandler)
             /\ Len(Append(w, Handler(what))) = n + 1
  BY <1>1, <1>2
<1> QED BY <1>5, <1>6, <1>7, <1>8 DEF n

\* What is under way while triggers alone drive the tip.
TipBase(s) ==
  /\ s \in TipState /\ s.enabled /\ s.element = 1 /\ (s.fade => s.animation)
  /\ s.ending[2] = <<>> /\ (s.ending[1] # <<>> => s.animation /\ s.transition)

\* There, or coming.
TipUp(s, want) ==
  /\ s.in /\ s.attached /\ s.fade = s.animation /\ (s.calm => s.described)
  /\ want => s.hoverState \in {None, "in"} /\ s.timer \in {None, "hide"}
  /\ ~want => s.hoverState = "out" /\ s.timer = "hide"
  /\ \/ s.ending[1] = <<>>
     \/ FadesIn(s.ending[1]) /\ (Len(s.ending[1]) > 1 => s.hoverState = "in" /\ ~s.calm)

\* Gone, or going.
TipDown(s, want) ==
  /\ ~s.in
  /\ want => s.hoverState = "in" /\ s.timer = "show"
  /\ ~want => \/ s.hoverState = None /\ s.timer = None
              \/ s.hoverState = "out" /\ s.timer = "hide"
  /\ FadesOut(s.ending[1]) \/ (TurnedOnce(s.ending[1]) /\ s.hoverState = None)
  /\ s.ending[1] = <<>> => ~s.described /\ (s.hoverState = None => ~s.attached)

Follows(s, want) == TipBase(s) /\ (TipUp(s, want) \/ TipDown(s, want))

LEMMA TipAwaits ==
  ASSUME NEW s \in TipState, s.element = 1
  PROVE  /\ FadesOut(s.ending[1]) /\ s.ending[1] # <<>> => Tip!Awaits(s, "hidden")
         /\ TurnedOnce(s.ending[1]) => Tip!Awaits(s, "hidden") /\ Tip!Awaits(s, "shown")
         /\ FadesIn(s.ending[1]) /\ Len(s.ending[1]) > 1 =>
              Tip!Awaits(s, "hidden") /\ Tip!Awaits(s, "shown")
<1> DEFINE w == s.ending[1]
           n == Len(w)
<1>0. w \in Seq(TipHandler) /\ DOMAIN w = 1 .. n /\ n \in Nat /\ (w # <<>> => n # 0)
  BY DEF TipState
<1>1. \A what : (\E i \in 1 .. n : w[i] = Handler(what)) => Tip!Awaits(s, what)
  BY <1>0 DEF Tip!Awaits, Handler
<1> HIDE DEF w, n
<1>2. ASSUME FadesOut(w), w # <<>> PROVE Tip!Awaits(s, "hidden")
  <2>1. 1 \in 1 .. n
    BY <1>0, <1>2
  <2> QED BY <1>1, <1>2, <2>1 DEF FadesOut, n
<1>3. ASSUME TurnedOnce(w) PROVE Tip!Awaits(s, "hidden") /\ Tip!Awaits(s, "shown")
  <2>1. n = 2 /\ w[1] = Handler("shown") /\ w[2] = Handler("hidden")
    BY <1>3 DEF TurnedOnce, n
  <2>2. 1 \in 1 .. n /\ 2 \in 1 .. n
    BY <2>1
  <2> QED BY <1>1, <2>1, <2>2
<1>4. ASSUME FadesIn(w), n > 1 PROVE Tip!Awaits(s, "hidden") /\ Tip!Awaits(s, "shown")
  <2>1. n \in 1 .. n /\ 1 \in 1 .. n - 1 /\ 1 \in 1 .. n
    BY <1>0, <1>4
  <2>2. w[n] = Handler("shown") /\ w[1] = Handler("hidden")
    BY <1>4, <2>1 DEF FadesIn, n
  <2> QED BY <1>1, <2>1, <2>2
<1> QED BY <1>2, <1>3, <1>4 DEF w, n
(***************************************************************************)
(* A step: what the page vetoes, what the operation does, and no veto.     *)
(***************************************************************************)
Prompt(veto) == [widget EXCEPT !.veto = veto, !.driven = @ /\ veto = {}]

\* What an operation starts from is this near to the tip.
Near(s) ==
  /\ s \in TipState /\ (s.bound <=> widget.bound)
  /\ Gone(widget) => Gone(s)
  /\ s.driven => widget.driven
  /\ widget.hurried => s.hurried
  /\ widget.dying => s.dying

TipSteps(u) == widget' = [u EXCEPT !.veto = {}]

TipSafe(s) == s \in TipState /\ s.veto = {} /\ Gone(s)

LEMMA TipPrompts ==
  ASSUME TipSafe(widget), NEW veto \in SUBSET {"show", "hide"}
  PROVE  LET s == Prompt(veto)
         IN /\ Near(s) /\ Gone(s) /\ s.timer = widget.timer /\ s.hoverState = widget.hoverState
            /\ s.inState = widget.inState /\ s.ending = widget.ending /\ s.veto = veto
            /\ s.revived = widget.revived /\ s.bound = widget.bound
            /\ s.driven => s = widget
<1> DEFINE d == widget.driven /\ veto = {}
           s == [widget EXCEPT !.veto = veto, !.driven = d]
<1>1. s = Prompt(veto)
  BY Zenon DEF Prompt
<1>2. d \in BOOLEAN /\ (d => widget.driven /\ veto = {})
  BY DEF TipSafe, TipState
<1>3. d => s = widget
  <2> SUFFICES ASSUME d PROVE s = widget
    OBVIOUS
  <2>1. widget.veto = {} /\ veto = {} /\ widget.driven /\ widget.driven \in BOOLEAN /\ d = widget.driven
    BY <1>2 DEF TipSafe, TipState
  <2> HIDE DEF d
  <2>2. s = [widget EXCEPT !.veto = widget.veto, !.driven = widget.driven]
    BY <2>1
  <2> QED BY <2>2 DEF TipSafe, TipState
<1> HIDE DEF d
<1>4. s \in TipState
  BY <1>2 DEF TipSafe, TipState
<1>5. /\ s.timer = widget.timer /\ s.hoverState = widget.hoverState
      /\ s.inState = widget.inState /\ s.ending = widget.ending /\ s.veto = veto /\ s.driven = d
      /\ s.bound = widget.bound /\ s.revived = widget.revived /\ s.attached = widget.attached
      /\ s.hurried = widget.hurried /\ s.dying = widget.dying
  BY DEF TipSafe, TipState
<1> HIDE DEF s
<1> QED BY <1>1, <1>2, <1>3, <1>4, <1>5 DEF Near, Gone, TipSafe

\* The operation is done.
LEMMA TipStepped ==
  ASSUME TipSafe(widget), NEW s, NEW u, Near(s), Goes(u, s), TipSteps(u)
  PROVE  /\ TipSafe(widget')
         /\ widget'.driven => s.driven /\ widget.driven
         /\ widget'.bound => widget.bound
         /\ widget'.inState = s.inState
         /\ ~widget'.dying => ~s.dying /\ ~widget.dying
         /\ ~widget'.hurried => ~u.hurried /\ ~widget.hurried
<1>1. u \in TipState /\ Gone(u)
  BY DEF Near, Goes, TipSafe
<1> DEFINE t == [u EXCEPT !.veto = {}]
<1>2. t \in TipState
  BY <1>1 DEF TipState
<1>3. /\ t.veto = {} /\ t.bound = u.bound /\ t.revived = u.revived /\ t.attached = u.attached
      /\ t.timer = u.timer /\ t.driven = u.driven /\ t.inState = u.inState /\ t.dying = u.dying
      /\ t.hurried = u.hurried
  BY <1>1 DEF TipState
<1>4. widget' = t
  BY DEF TipSteps
<1> HIDE DEF t
<1>5. TipSafe(t)
  BY <1>1, <1>2, <1>3 DEF TipSafe, Gone
<1>6. u.driven = s.driven /\ u.inState = s.inState /\ u.dying = s.dying /\ (u.bound => s.bound)
  BY DEF Goes, SameTip
<1>7. (s.hurried => u.hurried) /\ (widget.hurried => s.hurried)
  BY DEF Near, Goes
<1>8. (s.driven => widget.driven) /\ (s.bound => widget.bound) /\ (widget.dying => s.dying)
  BY DEF Near
<1>9. t.driven = s.driven /\ t.inState = s.inState /\ t.dying = s.dying /\ (t.bound => s.bound)
  BY <1>3, <1>6
<1> QED BY <1>3, <1>4, <1>5, <1>7, <1>8, <1>9

\* A trigger that wants the tip, or no longer does.
TipWith(s, inState) == [s EXCEPT !.inState = inState]

LEMMA TipWanted ==
  ASSUME NEW s, Near(s), NEW inState \in SUBSET {"hover", "focus", "click"}
  PROVE  LET t == TipWith(s, inState)
         IN Near(t) /\ t.bound = s.bound /\ t.inState = inState /\ t.driven = s.driven
<1> DEFINE t == [s EXCEPT !.inState = inState]
<1>0. t = TipWith(s, inState) /\ s \in TipState
  BY Zenon DEF TipWith, Near
<1>1. t \in TipState
  BY <1>0 DEF TipState
<1>2. /\ t.bound = s.bound /\ t.revived = s.revived /\ t.attached = s.attached
      /\ t.timer = s.timer /\ t.driven = s.driven /\ t.inState = inState /\ t.dying = s.dying
      /\ t.hurried = s.hurried
  BY <1>0 DEF TipState
<1> HIDE DEF t
<1> QED BY <1>0, <1>1, <1>2 DEF Near, Gone

\* A call is no trigger.
TipCalled(s) == [s EXCEPT !.driven = FALSE]

LEMMA TipCalls ==
  ASSUME NEW s, Near(s)
  PROVE  LET t == TipCalled(s) IN Near(t) /\ t.bound = s.bound /\ ~t.driven /\ t \in TipState
<1> DEFINE t == [s EXCEPT !.driven = FALSE]
<1>0. t = TipCalled(s) /\ s \in TipState
  BY Zenon DEF TipCalled, Near
<1>1. t \in TipState
  BY <1>0 DEF TipState
<1>2. /\ t.bound = s.bound /\ t.revived = s.revived /\ t.attached = s.attached
      /\ t.timer = s.timer /\ ~t.driven /\ t.dying = s.dying
      /\ t.hurried = s.hurried
  BY <1>0 DEF TipState
<1> HIDE DEF t
<1> QED BY <1>0, <1>1, <1>2 DEF Near, Gone
(***************************************************************************)
(* Handlers that wait for the tip, in turn.                                *)
(***************************************************************************)
TipRun(f, s, w) ==
  f[0] = s /\ \A i \in 1 .. Len(w) : f[i] = Tip!Complete(f[i - 1], w[i])

LEMMA TipRuns ==
  ASSUME NEW s, NEW w, Len(w) \in Nat
  PROVE  LET ran[i \in 0 .. Len(w)] ==
               IF i = 0 THEN s ELSE Tip!Complete(ran[i - 1], w[i])
         IN TipRun(ran, s, w)
<1> DEFINE n == Len(w)
           Eq(f, m) == f = [i \in 0 .. m |-> IF i = 0 THEN s
                                            ELSE Tip!Complete(f[i - 1], w[i])]
           S == {m \in 0 .. n : ~\E f : Eq(f, m)}
           ran == CHOOSE f : Eq(f, n)
<1>1. S = {}
  <2> SUFFICES ASSUME S # {} PROVE FALSE
    OBVIOUS
  <2>0. S \subseteq Nat
    OBVIOUS
  <2>1. PICK x \in S : \A y \in S : x <= y
    <3> HIDE DEF S
    <3> QED BY <2>0, LeastNumber
  <2>2. Eq([i \in 0 .. 0 |-> s], 0)
    OBVIOUS
  <2>3. x \in 1 .. n /\ x - 1 \in 0 .. n /\ x - 1 \notin S
    <3>1. x # 0
      <4> HIDE DEF Eq
      <4> QED BY <2>2
    <3> HIDE DEF Eq
    <3> QED BY <2>0, <2>1, <3>1
  <2>4. PICK f : Eq(f, x - 1)
    <3> HIDE DEF Eq
    <3> QED BY <2>3
  <2> DEFINE g == [i \in 0 .. x |-> IF i = x THEN Tip!Complete(f[x - 1], w[x]) ELSE f[i]]
  <2>5. \A i \in 0 .. x : g[i] = IF i = 0 THEN s ELSE Tip!Complete(g[i - 1], w[i])
    <3> SUFFICES ASSUME NEW i \in 0 .. x
                 PROVE  g[i] = IF i = 0 THEN s ELSE Tip!Complete(g[i - 1], w[i])
      OBVIOUS
    <3>0. \A j \in 0 .. x - 1 : f[j] = IF j = 0 THEN s ELSE Tip!Complete(f[j - 1], w[j])
      BY <2>4
    <3>1. CASE i = x
      <4>1. g[i] = Tip!Complete(f[x - 1], w[x]) /\ g[i - 1] = f[x - 1]
        BY <2>3, <3>1
      <4> HIDE DEF g
      <4> QED BY <2>3, <3>1, <4>1
    <3>2. CASE i # x
      <4>1. i \in 0 .. x - 1 /\ g[i] = f[i] /\ (i # 0 => g[i - 1] = f[i - 1])
        BY <2>3, <3>2
      <4> HIDE DEF g
      <4> QED BY <3>0, <4>1
    <3> QED BY <3>1, <3>2
  <2>6. Eq(g, x)
    <3>1. DOMAIN g = 0 .. x /\ g = [i \in 0 .. x |-> g[i]]
      OBVIOUS
    <3> HIDE DEF g
    <3> QED BY <2>5, <3>1
  <2> HIDE DEF Eq, g
  <2> QED BY <2>1, <2>3, <2>6
<1>2. Eq(ran, n)
  <2>1. \E f : Eq(f, n)
    <3>1. n \notin S /\ n \in 0 .. n
      <4> HIDE DEF S
      <4> QED BY <1>1
    <3> HIDE DEF Eq
    <3> QED BY <3>1
  <2> HIDE DEF Eq
  <2> QED BY <2>1
<1>3. ran[0] = s /\ \A i \in 1 .. n : ran[i] = Tip!Complete(ran[i - 1], w[i])
  <2> HIDE DEF ran
  <2> QED BY <1>2
<1>4. TipRun(ran, s, w)
  <2> HIDE DEF ran
  <2> QED BY <1>3 DEF TipRun
<1> QED BY <1>4

LEMMA TipRunGoes ==
  ASSUME NEW s \in TipState, NEW w \in Seq(TipHandler), NEW f, TipRun(f, s, w)
  PROVE  Goes(f[Len(w)], s)
<1> DEFINE n == Len(w)
           D == {t \in TipState : Goes(t, s)}
<1>1. n \in Nat /\ \A i \in 1 .. n : w[i] \in TipHandler
  OBVIOUS
<1>2. f[0] = s /\ \A i \in 1 .. n : f[i] = Tip!Complete(f[i - 1], w[i])
  BY DEF TipRun
<1> HIDE DEF n
<1>3. f[0] \in D
  BY <1>2, GoesNot
<1>4. ASSUME NEW i \in 0 + 1 .. n, f[i - 1] \in D PROVE f[i] \in D
  <2>1. i \in 1 .. n /\ w[i] \in TipHandler
    BY <1>1
  <2>2. Goes(Tip!Complete(f[i - 1], w[i]), f[i - 1])
    BY <1>4, <2>1, TipCompletes
  <2>3. Goes(f[i], f[i - 1]) /\ Goes(f[i - 1], s)
    BY <1>2, <1>4, <2>1, <2>2
  <2>4. Goes(f[i], s) /\ f[i] \in TipState
    BY <2>3, GoesOn DEF Goes
  <2> QED BY <2>4
<1> HIDE DEF D
<1>5. f[n] \in D
  BY <1>1, <1>3, <1>4, Stays
<1> QED BY <1>5 DEF D, n

\* The handlers of one element no longer wait.
TipEmptied(s, el) == [s EXCEPT !.ending[el] = <<>>]

LEMMA TipEmpties ==
  ASSUME NEW s, Near(s), NEW el \in 1 .. 2
  PROVE  LET t == TipEmptied(s, el)
         IN Near(t) /\ t \in TipState /\ t.bound = s.bound /\ t.driven = s.driven /\ t.inState = s.inState
<1> DEFINE e == [s.ending EXCEPT ![el] = <<>>]
           t == [s EXCEPT !.ending = e]
<1>0. t = TipEmptied(s, el) /\ s \in TipState
  BY Zenon DEF TipEmptied, Near
<1>1. e \in [1 .. 2 -> Seq(TipHandler)]
  BY <1>0 DEF TipState
<1> HIDE DEF e
<1>2. t \in TipState
  BY <1>0, <1>1 DEF TipState
<1>3. /\ t.bound = s.bound /\ t.revived = s.revived /\ t.attached = s.attached
      /\ t.timer = s.timer /\ t.driven = s.driven /\ t.dying = s.dying
      /\ t.hurried = s.hurried /\ t.inState = s.inState
  BY <1>0 DEF TipState
<1> HIDE DEF t
<1> QED BY <1>0, <1>2, <1>3 DEF Near, Gone

LEMMA TipEnds ==
  ASSUME TipSafe(widget), NEW el \in 1 .. 2, Tip!Ends(el)
  PROVE  \E veto \in SUBSET {"show", "hide"} :
           LET s == TipEmptied(Prompt(veto), el)
               w == widget.ending[el]
           IN w # <<>> /\ \E f : TipRun(f, s, w) /\ TipSteps(f[Len(w)])
<1>1. PICK veto \in SUBSET {"show", "hide"} :
        widget' = [Tip!TransitionEnd(Prompt(veto), el, Tip!Complete) EXCEPT !.veto = {}]
  BY Zenon DEF Tip!Ends, Tip!Does, Prompt
<1> DEFINE w == widget.ending[el]
           s == TipEmptied(Prompt(veto), el)
<1>2. w # <<>>
  BY Zenon DEF Tip!Ends
<1>3. Prompt(veto).ending = widget.ending
  BY TipPrompts
<1>4. Tip!TransitionEnd(Prompt(veto), el, Tip!Complete)
        = LET f[i \in 0 .. Len(w)] == IF i = 0 THEN s ELSE Tip!Complete(f[i - 1], w[i])
          IN f[Len(w)]
  BY <1>3, Zenon DEF Tip!TransitionEnd, Tip!InTurn, TipEmptied
<1>5. Len(w) \in Nat
  BY DEF TipSafe, TipState
<1> HIDE DEF w, s
<1>6. LET f[i \in 0 .. Len(w)] == IF i = 0 THEN s ELSE Tip!Complete(f[i - 1], w[i])
      IN TipRun(f, s, w)
  BY <1>5, TipRuns
<1>7. PICK f : TipRun(f, s, w) /\ Tip!TransitionEnd(Prompt(veto), el, Tip!Complete) = f[Len(w)]
  BY <1>4, <1>6, Zenon
<1>8. TipSteps(f[Len(w)])
  BY <1>1, <1>7 DEF TipSteps
<1> QED BY <1>2, <1>7, <1>8 DEF s, w
\* What an action does.
TipEntering ==
  \E veto \in SUBSET {"show", "hide"}, inState \in SUBSET {"hover", "focus", "click"} :
    widget.bound /\ inState # {} /\ TipSteps(Tip!enter(TipWith(Prompt(veto), inState)))

TipLeaving ==
  \E veto \in SUBSET {"show", "hide"}, inState \in SUBSET {"hover", "focus", "click"} :
    widget.inState # {} /\ TipSteps(Tip!leave(TipWith(Prompt(veto), inState)))

LEMMA TipEvents ==
  ASSUME TipSafe(widget)
  PROVE  /\ \A trigger : /\ Tip!Enter(trigger) => TipEntering
                         /\ Tip!Leave(trigger) => TipLeaving
         /\ Tip!Click => TipEntering \/ TipLeaving
<1>0. widget.triggers \subseteq {"hover", "focus", "click"}
  BY DEF TipSafe, TipState
<1>1. \A veto \in SUBSET {"show", "hide"} : Prompt(veto).inState \subseteq {"hover", "focus", "click"}
  BY TipPrompts DEF Near, TipState
<1>2. ASSUME NEW trigger, Tip!Enter(trigger) PROVE TipEntering
  <2>1. trigger \in widget.triggers /\ widget.bound
    BY <1>2, Zenon DEF Tip!Enter, Tip!Event
  <2>2. PICK veto \in SUBSET {"show", "hide"} :
          widget' = [Tip!enter([Prompt(veto) EXCEPT !.inState = @ \cup {trigger}]) EXCEPT !.veto = {}]
    BY <1>2, Zenon DEF Tip!Enter, Tip!Does, Prompt
  <2> DEFINE X == Prompt(veto).inState \cup {trigger}
  <2>3. X # {} /\ X \in SUBSET {"hover", "focus", "click"}
    BY <1>0, <1>1, <2>1
  <2>4. TipSteps(Tip!enter(TipWith(Prompt(veto), X)))
    BY <2>2, Zenon DEF TipSteps, TipWith
  <2> QED BY <2>1, <2>3, <2>4 DEF TipEntering
<1>3. ASSUME NEW trigger, Tip!Leave(trigger) PROVE TipLeaving
  <2>1. widget.inState # {}
    BY <1>3, Zenon DEF Tip!Leave
  <2>2. PICK veto \in SUBSET {"show", "hide"} :
          widget' = [Tip!leave([Prompt(veto) EXCEPT !.inState = @ \ {trigger}]) EXCEPT !.veto = {}]
    BY <1>3, Zenon DEF Tip!Leave, Tip!Does, Prompt
  <2> DEFINE X == Prompt(veto).inState \ {trigger}
  <2>3. X \in SUBSET {"hover", "focus", "click"}
    BY <1>1
  <2>4. TipSteps(Tip!leave(TipWith(Prompt(veto), X)))
    BY <2>2, Zenon DEF TipSteps, TipWith
  <2> QED BY <2>1, <2>3, <2>4 DEF TipLeaving
<1>4. ASSUME Tip!Click PROVE TipEntering \/ TipLeaving
  <2>1. widget.bound
    BY <1>4, Zenon DEF Tip!Click, Tip!Event
  <2>2. PICK veto \in SUBSET {"show", "hide"} :
          widget' = [IF Prompt(veto).inState = {}
                       THEN Tip!enter([Prompt(veto) EXCEPT !.inState = {"click"}])
                     ELSE Tip!leave([Prompt(veto) EXCEPT !.inState = {}]) EXCEPT !.veto = {}]
    BY <1>4, Zenon DEF Tip!Click, Tip!Does, Prompt
  <2>3. \/ TipSteps(Tip!enter(TipWith(Prompt(veto), {"click"})))
        \/ widget.inState # {} /\ TipSteps(Tip!leave(TipWith(Prompt(veto), {})))
    <3>1. Prompt(veto).inState = widget.inState
      BY TipPrompts
    <3> QED BY <2>2, <3>1, Zenon DEF TipSteps, TipWith
  <2>4. /\ {"click"} \in SUBSET {"hover", "focus", "click"} /\ {"click"} # {}
        /\ {} \in SUBSET {"hover", "focus", "click"}
    OBVIOUS
  <2> QED BY <2>1, <2>3, <2>4, Zenon DEF TipEntering, TipLeaving
<1> QED BY <1>2, <1>3, <1>4

\* The function of setTimeout, whose handle is forgotten first.
TipTimed(s) == [s EXCEPT !.timer = None]

TipTimes(s) ==
  IF s.timer = "show" /\ s.hoverState = "in" THEN Tip!show(TipTimed(s))
  ELSE IF s.timer = "hide" /\ s.hoverState = "out" THEN Tip!hide(TipTimed(s), "hidden")
  ELSE TipTimed(s)

LEMMA TipTimer ==
  ASSUME TipSafe(widget), Tip!Timer
  PROVE  widget.timer # None /\ \E veto \in SUBSET {"show", "hide"} : TipSteps(TipTimes(Prompt(veto)))
<1>1. PICK veto \in SUBSET {"show", "hide"} :
        widget' = [LET s == Prompt(veto)
                       t == [s EXCEPT !.timer = None]
                   IN IF s.timer = "show" /\ s.hoverState = "in" THEN Tip!show(t)
                      ELSE IF s.timer = "hide" /\ s.hoverState = "out" THEN Tip!hide(t, "hidden")
                      ELSE t EXCEPT !.veto = {}]
  BY Zenon DEF Tip!Timer, Tip!Does, Prompt
<1>2. widget.timer # None
  BY Zenon DEF Tip!Timer
<1> QED BY <1>1, <1>2, Zenon DEF TipSteps, TipTimes, TipTimed

LEMMA TipForgets ==
  ASSUME NEW s, Near(s), s.timer # None
  PROVE  LET t == TipTimed(s)
         IN /\ Near(t) /\ t.bound = s.bound /\ t.revived = s.revived /\ t.timer = None /\ t.driven = s.driven
            /\ t.inState = s.inState
<1> DEFINE t == [s EXCEPT !.timer = None]
<1>0. t = TipTimed(s) /\ s \in TipState
  BY Zenon DEF TipTimed, Near
<1>1. t \in TipState
  BY <1>0 DEF TipState
<1>2. /\ t.bound = s.bound /\ t.revived = s.revived /\ t.attached = s.attached
      /\ t.timer = None /\ t.driven = s.driven /\ t.inState = s.inState /\ t.dying = s.dying
      /\ t.hurried = s.hurried
  BY <1>0 DEF TipState
<1>3. None # "show"
  BY TipAssumption
<1> HIDE DEF t
<1> QED BY <1>0, <1>1, <1>2, <1>3 DEF Near, Gone

\* A call, and what it starts from.
TipCalling ==
  \E s, u : Near(s) /\ (s.driven => s.dying) /\ Goes(u, s) /\ TipSteps(u)

\* destroy is called, unless the page refuses it.
TipDying(s) == [s EXCEPT !.dying = @ \/ "hide" \notin s.veto]

LEMMA TipDies ==
  ASSUME TipSafe(widget), NEW veto \in SUBSET {"show", "hide"}
  PROVE  LET t == TipDying(Prompt(veto)) IN Near(t) /\ (t.driven => t.dying)
<1> DEFINE s == Prompt(veto)
           d == s.dying \/ "hide" \notin s.veto
           t == [s EXCEPT !.dying = d]
<1>0. t = TipDying(s)
  BY Zenon DEF TipDying
<1>1. Near(s) /\ s \in TipState /\ (s.driven => s = widget)
  BY TipPrompts DEF Near
<1>2. (s.dying => d) /\ d \in BOOLEAN /\ (s.driven => d)
  BY <1>1 DEF TipState, TipSafe
<1> HIDE DEF s, d
<1>3. t \in TipState
  BY <1>1, <1>2 DEF TipState
<1>4. /\ t.bound = s.bound /\ t.revived = s.revived /\ t.attached = s.attached
      /\ t.timer = s.timer /\ t.driven = s.driven /\ t.dying = d
      /\ t.hurried = s.hurried
  BY <1>1 DEF TipState
<1> HIDE DEF t
<1>5. Near(t) /\ (t.driven => t.dying)
  BY <1>1, <1>2, <1>3, <1>4 DEF Near, Gone
<1> QED BY <1>0, <1>5 DEF s

LEMMA TipDestroys ==
  ASSUME NEW s, Near(s)
  PROVE  Goes(Tip!destroy(s), s)
<1> DEFINE u == [s EXCEPT !.timer = None]
<1>0. s \in TipState
  BY DEF Near
<1>1. u \in TipState /\ Goes(u, s)
  BY <1>0, TipAssumption DEF TipState, Goes, SameTip, Gone
<1>2. Tip!destroy(s) = Tip!hide(u, "destroyed")
  BY Zenon DEF Tip!destroy
<1> HIDE DEF u
<1>3. Goes(Tip!hide(u, "destroyed"), u)
  BY <1>1, TipHides
<1> QED BY <1>1, <1>2, <1>3, GoesOn

LEMMA TipCall ==
  ASSUME TipSafe(widget), Tip!Call
  PROVE  TipCalling
<1>0. widget.bound
  BY Zenon DEF Tip!Call
<1>1. ASSUME NEW veto \in SUBSET {"show", "hide"}
      PROVE  LET s == TipCalled(Prompt(veto))
             IN Near(s) /\ s \in TipState /\ s.bound /\ ~s.driven
  BY <1>0, TipPrompts, TipCalls
<1>2. ASSUME NEW veto \in SUBSET {"show", "hide"}, NEW u, TipSteps(u),
             Goes(u, TipCalled(Prompt(veto)))
      PROVE  TipCalling
  BY <1>1, <1>2 DEF TipCalling
<1>3. CASE Tip!Does(LAMBDA s : Tip!show([s EXCEPT !.driven = FALSE]))
  <2>1. PICK veto \in SUBSET {"show", "hide"} : TipSteps(Tip!show(TipCalled(Prompt(veto))))
    BY <1>3, Zenon DEF Tip!Does, Prompt, TipSteps, TipCalled
  <2> QED BY <1>1, <1>2, <2>1, TipShows
<1>4. CASE Tip!Does(LAMBDA s : Tip!hide([s EXCEPT !.driven = FALSE], "hidden"))
  <2>1. PICK veto \in SUBSET {"show", "hide"} : TipSteps(Tip!hide(TipCalled(Prompt(veto)), "hidden"))
    BY <1>4, Zenon DEF Tip!Does, Prompt, TipSteps, TipCalled
  <2> QED BY <1>1, <1>2, <2>1, TipHides
<1>5. CASE Tip!Does(LAMBDA s : Tip!toggle([s EXCEPT !.driven = FALSE]))
  <2>1. PICK veto \in SUBSET {"show", "hide"} : TipSteps(Tip!toggle(TipCalled(Prompt(veto))))
    BY <1>5, Zenon DEF Tip!Does, Prompt, TipSteps, TipCalled
  <2> DEFINE s == TipCalled(Prompt(veto))
  <2>2. Tip!toggle(s) \in {Tip!leave(s), Tip!enter(s)}
    BY Zenon DEF Tip!toggle
  <2>3. s \in TipState /\ s.bound
    BY <1>1
  <2>4. TipSteps(Tip!toggle(s))
    BY <2>1
  <2> HIDE DEF s
  <2>5. Goes(Tip!toggle(s), s)
    BY <2>2, <2>3, TipLeaves, TipEnters
  <2> QED BY <1>2, <2>4, <2>5 DEF s
<1>6. CASE Tip!Does(LAMBDA s : [s EXCEPT !.driven = FALSE, !.enabled = ~@])
  <2>1. PICK veto \in SUBSET {"show", "hide"} :
          TipSteps([Prompt(veto) EXCEPT !.driven = FALSE, !.enabled = ~@])
    BY <1>6, Zenon DEF Tip!Does, Prompt, TipSteps
  <2> DEFINE s == TipCalled(Prompt(veto))
             e == ~s.enabled
             u == [s EXCEPT !.enabled = e]
  <2>2. Prompt(veto) \in TipState
    BY TipPrompts DEF Near
  <2>3. u = [Prompt(veto) EXCEPT !.driven = FALSE, !.enabled = ~@]
    BY <2>2, Zenon DEF TipCalled, TipState
  <2>4. TipSteps(u)
    BY <2>1, <2>3
  <2>5. s \in TipState /\ Near(s) /\ ~s.driven /\ e \in BOOLEAN
    BY <1>1
  <2> HIDE DEF s, e
  <2>6. u \in TipState /\ ~u.driven
    BY <2>5 DEF TipState
  <2>7. /\ u.bound = s.bound /\ u.revived = s.revived /\ u.attached = s.attached
        /\ u.timer = s.timer /\ u.dying = s.dying /\ u.hurried = s.hurried
    BY <2>5 DEF TipState
  <2> HIDE DEF u
  <2>8. Near(u)
    BY <2>5, <2>6, <2>7 DEF Near, Gone
  <2> QED BY <2>4, <2>6, <2>8, GoesNot DEF TipCalling
<1>7. CASE Tip!Does(LAMBDA s : Tip!destroy([s EXCEPT !.dying = @ \/ "hide" \notin s.veto]))
  <2>1. PICK veto \in SUBSET {"show", "hide"} : TipSteps(Tip!destroy(TipDying(Prompt(veto))))
    BY <1>7, Zenon DEF Tip!Does, Prompt, TipSteps, TipDying
  <2> DEFINE t == TipDying(Prompt(veto))
  <2>2. Near(t) /\ (t.driven => t.dying) /\ TipSteps(Tip!destroy(t))
    BY <2>1, TipDies
  <2> HIDE DEF t
  <2>3. Goes(Tip!destroy(t), t)
    BY <2>2, TipDestroys
  <2> QED BY <2>2, <2>3 DEF TipCalling
<1> QED BY <1>3, <1>4, <1>5, <1>6, <1>7, Zenon DEF Tip!Call

\* Nothing brings back a tip that is gone.
LEMMA TipNextSafe ==
  ASSUME TipSafe(widget), Tip!Next
  PROVE  TipSafe(widget')
<1>1. ASSUME TipEntering PROVE TipSafe(widget')
  <2>1. PICK veto \in SUBSET {"show", "hide"}, inState \in SUBSET {"hover", "focus", "click"} :
          widget.bound /\ TipSteps(Tip!enter(TipWith(Prompt(veto), inState)))
    BY <1>1 DEF TipEntering
  <2> DEFINE s == TipWith(Prompt(veto), inState)
  <2>2. Near(s) /\ s.bound /\ TipSteps(Tip!enter(s))
    BY <2>1, TipPrompts, TipWanted
  <2> HIDE DEF s
  <2>3. Goes(Tip!enter(s), s)
    BY <2>2, TipEnters DEF Near
  <2> QED BY <2>2, <2>3, TipStepped
<1>2. ASSUME TipLeaving PROVE TipSafe(widget')
  <2>1. PICK veto \in SUBSET {"show", "hide"}, inState \in SUBSET {"hover", "focus", "click"} :
          TipSteps(Tip!leave(TipWith(Prompt(veto), inState)))
    BY <1>2 DEF TipLeaving
  <2> DEFINE s == TipWith(Prompt(veto), inState)
  <2>2. Near(s) /\ TipSteps(Tip!leave(s))
    BY <2>1, TipPrompts, TipWanted
  <2> HIDE DEF s
  <2>3. Goes(Tip!leave(s), s)
    BY <2>2, TipLeaves DEF Near
  <2> QED BY <2>2, <2>3, TipStepped
<1>3. CASE Tip!Call
  BY <1>3, TipCall, TipStepped DEF TipCalling
<1>4. CASE Tip!Timer
  <2>1. PICK veto \in SUBSET {"show", "hide"} : TipSteps(TipTimes(Prompt(veto)))
    BY <1>4, TipTimer
  <2> DEFINE s == Prompt(veto)
             t == TipTimed(s)
  <2>2. Near(s) /\ Gone(s) /\ s.timer # None
    BY <1>4, TipTimer, TipPrompts
  <2>3. Near(t) /\ t.bound = s.bound /\ t.revived = s.revived
    BY <2>2, TipForgets
  <2>4. TipSteps(TipTimes(s))
    BY <2>1
  <2> HIDE DEF s
  <2>5. TipTimes(s) = t \/ TipTimes(s) = Tip!hide(t, "hidden")
          \/ (s.timer = "show" /\ TipTimes(s) = Tip!show(t))
    BY Zenon DEF TipTimes
  <2> HIDE DEF t
  <2>6. s.timer = "show" => t.bound \/ t.revived
    BY <2>2, <2>3 DEF Gone
  <2>7. t \in TipState
    BY <2>3 DEF Near
  <2>8. Goes(TipTimes(s), t)
    BY <2>5, <2>6, <2>7, GoesNot, TipHides, TipShows
  <2> QED BY <2>3, <2>4, <2>8, TipStepped
<1>5. ASSUME NEW el \in 1 .. 2, Tip!Ends(el) PROVE TipSafe(widget')
  <2>1. PICK veto \in SUBSET {"show", "hide"} :
          LET s == TipEmptied(Prompt(veto), el)
              w == widget.ending[el]
          IN \E f : TipRun(f, s, w) /\ TipSteps(f[Len(w)])
    BY <1>5, TipEnds
  <2> DEFINE s == TipEmptied(Prompt(veto), el)
             w == widget.ending[el]
  <2>2. PICK f : TipRun(f, s, w) /\ TipSteps(f[Len(w)])
    BY <2>1
  <2>3. Near(s) /\ s \in TipState
    BY TipPrompts, TipEmpties
  <2>4. w \in Seq(TipHandler)
    BY DEF TipSafe, TipState
  <2> HIDE DEF s, w
  <2>5. Goes(f[Len(w)], s)
    BY <2>2, <2>3, <2>4, TipRunGoes
  <2> QED BY <2>2, <2>3, <2>5, TipStepped
<1> QED BY <1>1, <1>2, <1>3, <1>4, <1>5, TipEvents, Zenon DEF Tip!Next
LEMMA TipInit == Tip!Init => TipSafe(widget)
<1> SUFFICES ASSUME Tip!Init PROVE TipSafe(widget)
  OBVIOUS
<1>1. PICK triggers \in {{"hover", "focus"}, {"click"}, {}}, delay \in SUBSET {"show", "hide"},
           animation \in BOOLEAN, transition \in BOOLEAN :
        widget = [enabled |-> TRUE, hoverState |-> None, inState |-> {}, timer |-> None,
           element |-> 1, attached |-> FALSE, in |-> FALSE, fade |-> FALSE,
           described |-> FALSE, bound |-> TRUE, ending |-> [e \in 1 .. 2 |-> <<>>], veto |-> {},
           triggers |-> triggers, delay |-> delay, animation |-> animation,
           transition |-> transition, driven |-> TRUE, calm |-> TRUE, hurried |-> FALSE,
           dying |-> FALSE, revived |-> FALSE]
  BY DEF Tip!Init
<1>2. triggers \subseteq {"hover", "focus", "click"}
  OBVIOUS
<1>3. widget \in TipState
  BY <1>1, <1>2 DEF TipState
<1> QED BY <1>1, <1>3 DEF TipSafe, Gone

LEMMA TipKept == Spec => [](plugin = "tooltip" => TipSafe(widget))
<1> DEFINE Inv == plugin = "tooltip" => TipSafe(widget)
<1>1. Init => Inv
  BY TipInit DEF Init
<1>2. Inv /\ [Next]_<<plugin, widget>> => Inv'
  <2>1. CASE UNCHANGED <<plugin, widget>>
    BY <2>1 DEF TipSafe, Gone
  <2>2. CASE Next
    BY <2>2, TipNextSafe DEF Next
  <2> QED BY <2>1, <2>2
<1> QED BY <1>1, <1>2, PTL DEF Spec

\* Of a tip that was destroyed nothing is left or comes back, unless one was to
\* come after a delay (destroy, hide and complete of tooltip.js).
THEOREM TipDestroyedGone == Spec => []DestroyedIsGone
<1>1. (plugin = "tooltip" => TipSafe(widget)) => DestroyedIsGone
  BY DEF TipSafe, Gone, DestroyedIsGone, Tip!DestroyedIsGone
<1> QED BY <1>1, TipKept, PTL
(***************************************************************************)
(* A tip that triggers alone drive follows them.                           *)
(***************************************************************************)
\* hide ends in a tip that nobody wants.
HideReady(s) ==
  /\ TipBase(s) /\ s.veto = {} /\ s.hoverState = "out" /\ s.timer = None
  /\ \/ FadesOut(s.ending[1])
     \/ FadesIn(s.ending[1]) /\ Len(s.ending[1]) <= 1 /\ s.fade = s.animation

\* The end of hide on the one element.
HiddenFirst(t, s) ==
  /\ t \in TipState
  /\ t.enabled = s.enabled /\ t.element = s.element /\ t.fade = s.fade
  /\ t.ending = s.ending /\ t.animation = s.animation /\ t.transition = s.transition
  /\ t.timer = s.timer /\ t.in = s.in /\ ~t.described /\ t.hoverState = s.hoverState
  /\ t.attached <=> s.attached /\ s.hoverState = "in"
  /\ t.calm = s.calm /\ t.inState = s.inState /\ t.veto = s.veto

LEMMA TipHiddenFirst ==
  ASSUME NEW s \in TipState, s.element = 1
  PROVE  HiddenFirst(Tip!Hidden(s, 1), s)
<1> DEFINE one == 1
           a == s.attached /\ (s.hoverState = "in" \/ s.element # one)
           t == [s EXCEPT !.attached = a, !.described = FALSE]
<1>1. one \in 1 .. 2 /\ a \in BOOLEAN /\ (a <=> s.attached /\ s.hoverState = "in")
  BY DEF TipState
<1>2. t = Tip!Hidden(s, one)
  BY Zenon DEF Tip!Hidden
<1> HIDE DEF a
<1>3. t \in TipState
  BY <1>1 DEF TipState
<1>4. /\ t.enabled = s.enabled /\ t.element = s.element /\ t.fade = s.fade
      /\ t.ending = s.ending /\ t.animation = s.animation /\ t.transition = s.transition
      /\ t.timer = s.timer /\ t.in = s.in /\ ~t.described /\ t.hoverState = s.hoverState
      /\ t.attached = a
      /\ t.calm = s.calm /\ t.inState = s.inState /\ t.veto = s.veto
  BY <1>1 DEF TipState
<1> HIDE DEF t
<1>5. HiddenFirst(t, s)
  BY <1>1, <1>3, <1>4 DEF HiddenFirst
<1> QED BY <1>2, <1>5

LEMMA HideFollows ==
  ASSUME NEW s, HideReady(s)
  PROVE  Follows(Tip!hide(s, "hidden"), FALSE)
<1> DEFINE w == s.ending[1]
           h == Handler("hidden")
           a == Append(w, h)
           u == [s EXCEPT !.in = FALSE]
           v == TipAppend(u, h)
           x == Tip!Hidden(u, 1)
           y == [v EXCEPT !.hoverState = None]
           z == [x EXCEPT !.hoverState = None]
<1>1. /\ s \in TipState /\ s.enabled /\ s.element = 1 /\ (s.fade => s.animation)
      /\ s.ending[2] = <<>> /\ (w # <<>> => s.animation /\ s.transition)
      /\ s.veto = {} /\ s.hoverState = "out" /\ s.timer = None
  BY DEF HideReady, TipBase
<1>2. w \in Seq(TipHandler) /\ h \in TipHandler
  BY <1>1 DEF TipState, Handler, TipHandler
<1>3. FadesOut(a) \/ TurnedOnce(a)
  BY <1>2, HandlersMore DEF HideReady
<1>4. a # <<>>
  BY <1>2, HandlersMore
<1>5. FadesOut(w) \/ (s.transition /\ s.fade)
  BY <1>1 DEF HideReady, FadesIn
<1>6. Tip!hide(s, "hidden") = IF s.transition /\ s.fade THEN y ELSE z
  <2>1. u.element = s.element /\ u.transition = s.transition
    BY <1>1 DEF TipState
  <2>2. Tip!hide(s, "hidden") = IF "hide" \in s.veto THEN s
                            ELSE [IF u.transition /\ s.fade
                                    THEN [u EXCEPT !.ending[s.element] = Append(@, [what |-> "hidden", on |-> s.element])]
                                  ELSE Tip!HideEnds(u, [what |-> "hidden", on |-> s.element])
                                  EXCEPT !.hoverState = None]
    BY Zenon DEF Tip!hide, Tip!Waits, Tip!Animates
  <2>3. [what |-> "hidden", on |-> s.element] = h /\ h.what # "destroyed" /\ h.on = 1
    BY <1>1 DEF Handler
  <2>4. Tip!HideEnds(u, h) = x
    BY <2>3 DEF Tip!HideEnds
  <2>5. TipAppend(u, h) = [u EXCEPT !.ending[s.element] = Append(@, h)]
    BY <2>1, Zenon DEF TipAppend
  <2> HIDE DEF u, h, x
  <2> QED BY <1>1, <2>1, <2>2, <2>3, <2>4, <2>5
<1> HIDE DEF w, h, a
<1>7. /\ u \in TipState /\ u.enabled = s.enabled /\ u.element = s.element /\ u.fade = s.fade
      /\ u.ending = s.ending /\ u.animation = s.animation /\ u.transition = s.transition
      /\ u.hoverState = s.hoverState /\ u.timer = s.timer /\ ~u.in
  BY <1>1 DEF TipState
<1> HIDE DEF u
<1>8. s.transition /\ s.fade => Follows(y, FALSE)
  <2>1. v \in TipState /\ v = [u EXCEPT !.ending = [u.ending EXCEPT ![u.element] = Append(u.ending[u.element], h)]]
    BY <1>2, <1>7, TipAppends
  <2> DEFINE e == [s.ending EXCEPT ![1] = a]
  <2>2. v = [u EXCEPT !.ending = e]
    BY <1>1, <1>7, <2>1 DEF a, w
  <2>3. e[1] = a /\ e[2] = s.ending[2]
    BY <1>1 DEF TipState
  <2> HIDE DEF v, e
  <2>4. /\ v.enabled = u.enabled /\ v.element = u.element /\ v.fade = u.fade
        /\ v.ending = e /\ v.animation = u.animation /\ v.transition = u.transition
        /\ v.timer = u.timer /\ v.in = u.in
    BY <1>7, <2>2 DEF TipState
  <2>5. /\ y \in TipState /\ y.enabled = v.enabled /\ y.element = v.element /\ y.fade = v.fade
        /\ y.ending = v.ending /\ y.animation = v.animation /\ y.transition = v.transition
        /\ y.timer = v.timer /\ y.in = v.in /\ y.hoverState = None
    BY <2>1 DEF TipState
  <2> HIDE DEF y
  <2>6. ASSUME s.transition, s.fade PROVE TipBase(y)
    BY <1>1, <1>7, <2>3, <2>4, <2>5, <2>6 DEF TipBase
  <2>7. TipDown(y, FALSE)
    <3>1. y.ending[1] = a /\ ~y.in /\ y.hoverState = None /\ y.timer = None
      BY <1>1, <1>7, <2>3, <2>4, <2>5
    <3>2. FadesOut(y.ending[1]) \/ TurnedOnce(y.ending[1])
      BY <1>3, <3>1
    <3> QED BY <1>4, <3>1, <3>2 DEF TipDown
  <2> QED BY <2>6, <2>7 DEF Follows
<1>9. ~(s.transition /\ s.fade) => Follows(z, FALSE)
  <2>1. HiddenFirst(x, u)
    BY <1>1, <1>7, TipHiddenFirst
  <2> HIDE DEF x
  <2>2. /\ x \in TipState
        /\ x.enabled = u.enabled /\ x.element = u.element /\ x.fade = u.fade
        /\ x.ending = u.ending /\ x.animation = u.animation /\ x.transition = u.transition
        /\ x.timer = u.timer /\ x.in = u.in /\ ~x.described
        /\ x.attached <=> u.attached /\ u.hoverState = "in"
    BY <2>1 DEF HiddenFirst
  <2>3. ~x.attached
    BY <1>1, <1>7, <2>2
  <2>4. /\ z \in TipState /\ z.enabled = x.enabled /\ z.element = x.element /\ z.fade = x.fade
        /\ z.ending = x.ending /\ z.animation = x.animation /\ z.transition = x.transition
        /\ z.timer = x.timer /\ z.in = x.in /\ z.hoverState = None /\ z.described = x.described
        /\ z.attached = x.attached
    BY <2>2 DEF TipState
  <2> HIDE DEF z
  <2>5. TipBase(z)
    BY <1>1, <1>7, <2>2, <2>4 DEF TipBase, w
  <2>6. ~(s.transition /\ s.fade) => FadesOut(w)
    BY <1>5
  <2>7. ~(s.transition /\ s.fade) => TipDown(z, FALSE)
    <3>1. z.ending[1] = w /\ ~z.in /\ z.hoverState = None /\ z.timer = None
          /\ ~z.described /\ ~z.attached
      BY <1>1, <1>7, <2>2, <2>3, <2>4 DEF w
    <3>2. ~(s.transition /\ s.fade) => FadesOut(z.ending[1])
      BY <2>6, <3>1
    <3> QED BY <3>1, <3>2 DEF TipDown
  <2> QED BY <2>5, <2>7 DEF Follows
<1> HIDE DEF y, z
<1> QED BY <1>6, <1>8, <1>9
\* What enter and leave begin with.
TurnsTo(t, s, hoverState) ==
  /\ t \in TipState
  /\ t.enabled = s.enabled /\ t.element = s.element /\ t.fade = s.fade
  /\ t.ending = s.ending /\ t.animation = s.animation /\ t.transition = s.transition
  /\ t.timer = None /\ t.in = s.in /\ t.described = s.described /\ t.hoverState = hoverState
  /\ t.attached = s.attached /\ t.calm = s.calm /\ t.inState = s.inState /\ t.veto = s.veto
  /\ t.delay = s.delay
  /\ ~t.hurried => ~(Tip!Awaits(s, "hidden") /\ Tip!Awaits(s, "shown"))

LEMMA TipTurnsTo ==
  ASSUME NEW s \in TipState, NEW hoverState \in {"in", "out"}
  PROVE  TurnsTo(Tip!Turns(s, hoverState), s, hoverState)
<1> DEFINE t == Tip!Turns(s, hoverState)
           b == t.hurried
<1>1. /\ t = [s EXCEPT !.timer = None, !.hoverState = hoverState, !.hurried = b]
      /\ b <=> s.hurried \/ (Tip!Awaits(s, "hidden") /\ Tip!Awaits(s, "shown"))
      /\ t \in TipState
  BY TipTurns DEF Goes
<1> HIDE DEF t
<1>2. /\ t.enabled = s.enabled /\ t.element = s.element /\ t.fade = s.fade
      /\ t.ending = s.ending /\ t.animation = s.animation /\ t.transition = s.transition
      /\ t.timer = None /\ t.in = s.in /\ t.described = s.described /\ t.hoverState = hoverState
      /\ t.attached = s.attached /\ t.calm = s.calm /\ t.inState = s.inState /\ t.veto = s.veto
      /\ t.delay = s.delay
  <2> HIDE DEF b
  <2> QED BY <1>1 DEF TipState
<1>3. TurnsTo(t, s, hoverState)
  BY <1>1, <1>2 DEF TurnsTo
<1> QED BY <1>3 DEF t

\* leave ends in a tip that nobody wants.
LeaveReady(s) ==
  /\ TipBase(s) /\ s.veto = {} /\ s.inState = {}
  /\ \/ /\ s.in /\ s.attached /\ s.fade = s.animation /\ (s.calm => s.described)
        /\ s.ending[1] = <<>> \/ FadesIn(s.ending[1])
     \/ /\ ~s.in /\ FadesOut(s.ending[1])
        /\ s.ending[1] = <<>> => ~s.described

LEMMA LeavesFollow ==
  ASSUME NEW s, LeaveReady(s), ~Tip!leave(s).hurried
  PROVE  Follows(Tip!leave(s), FALSE)
<1> DEFINE w == s.ending[1]
           u == Tip!Turns(s, "out")
           v == [u EXCEPT !.timer = "hide"]
<1>1. /\ s \in TipState /\ s.enabled /\ s.element = 1 /\ (s.fade => s.animation)
      /\ s.ending[2] = <<>> /\ (w # <<>> => s.animation /\ s.transition)
      /\ s.veto = {} /\ s.inState = {}
  BY DEF LeaveReady, TipBase
<1>2. TurnsTo(u, s, "out")
  BY <1>1, TipTurnsTo
<1>3. Tip!leave(s) = IF "hide" \in u.delay THEN v ELSE Tip!hide(u, "hidden")
  <2>1. u.delay = s.delay
    BY <1>2 DEF TurnsTo
  <2>2. Tip!leave(s) = IF s.inState # {} THEN s
                       ELSE IF "hide" \in s.delay THEN v ELSE Tip!hide(u, "hidden")
    BY Zenon DEF Tip!leave
  <2> HIDE DEF u
  <2> QED BY <1>1, <2>1, <2>2
<1>4. Goes(Tip!hide(u, "hidden"), u)
  <2>1. u \in TipState
    BY <1>2 DEF TurnsTo
  <2> HIDE DEF u
  <2> QED BY <2>1, TipHides
<1> HIDE DEF u
<1>5. /\ u \in TipState /\ u.enabled /\ u.element = 1 /\ (u.fade => u.animation)
      /\ u.ending = s.ending /\ (w # <<>> => u.animation /\ u.transition)
      /\ u.hoverState = "out" /\ u.timer = None /\ u.veto = {}
      /\ u.in = s.in /\ u.described = s.described /\ u.attached = s.attached
      /\ u.calm = s.calm /\ u.fade = s.fade /\ u.animation = s.animation
  BY <1>1, <1>2 DEF TurnsTo
<1>6. /\ v \in TipState /\ v.enabled = u.enabled /\ v.element = u.element /\ v.fade = u.fade
      /\ v.ending = u.ending /\ v.animation = u.animation /\ v.transition = u.transition
      /\ v.timer = "hide" /\ v.in = u.in /\ v.described = u.described /\ v.hoverState = u.hoverState
      /\ v.attached = u.attached /\ v.calm = u.calm /\ v.hurried = u.hurried
  BY <1>5 DEF TipState
<1> HIDE DEF v
<1>7. ~u.hurried
  BY <1>3, <1>4, <1>6 DEF Goes
<1>8. FadesIn(w) => ~(Len(w) > 1)
  BY <1>1, <1>2, <1>7, TipAwaits DEF TurnsTo
<1>9. Len(w) \in Nat
  BY <1>1 DEF TipState
<1>10. HideReady(u)
  <2>1. TipBase(u)
    BY <1>1, <1>5 DEF TipBase, w
  <2>2. w = <<>> => FadesOut(w)
    BY DEF FadesOut
  <2>3. FadesIn(w) => Len(w) <= 1
    BY <1>8, <1>9
  <2>4. FadesOut(w) \/ (FadesIn(w) /\ s.fade = s.animation)
    BY <2>2 DEF LeaveReady, w
  <2> QED BY <1>5, <2>1, <2>3, <2>4 DEF HideReady, w
<1>11. TipBase(v)
  BY <1>1, <1>5, <1>6 DEF TipBase, w
<1>12. TipUp(v, FALSE) \/ TipDown(v, FALSE)
  <2>1. CASE /\ s.in /\ s.attached /\ s.fade = s.animation /\ (s.calm => s.described)
             /\ w = <<>> \/ FadesIn(w)
    <3>1. /\ v.in /\ v.attached /\ v.fade = v.animation /\ (v.calm => v.described)
          /\ v.ending[1] = w /\ v.hoverState = "out" /\ v.timer = "hide"
      BY <1>5, <1>6, <2>1 DEF w
    <3> HIDE DEF w
    <3> QED BY <1>8, <2>1, <3>1 DEF TipUp
  <2>2. CASE ~s.in /\ FadesOut(w) /\ (w = <<>> => ~s.described)
    <3>1. /\ ~v.in /\ v.described = s.described
          /\ v.ending[1] = w /\ v.hoverState = "out" /\ v.timer = "hide"
      BY <1>5, <1>6, <2>2 DEF w
    <3> HIDE DEF w
    <3> QED BY <2>2, <3>1, TipAssumption DEF TipDown
  <2> QED BY <2>1, <2>2 DEF LeaveReady
<1>13. Follows(Tip!hide(u, "hidden"), FALSE)
  BY <1>10, HideFollows
<1> QED BY <1>3, <1>11, <1>12, <1>13 DEF Follows
\* show ends in a tip that somebody wants.
ShowReady(s) ==
  /\ TipBase(s) /\ s.veto = {} /\ s.hoverState = "in" /\ s.timer = None
  /\ FadesOut(s.ending[1])

LEMMA ShowFollows ==
  ASSUME NEW s, ShowReady(s)
  PROVE  Follows(Tip!show(s), TRUE)
<1> DEFINE w == s.ending[1]
           h == Handler("shown")
           a == Append(w, h)
           u == TipPut(s)
           v == TipAppend(u, h)
           z == [u EXCEPT !.hoverState = None]
<1>1. /\ s \in TipState /\ s.enabled /\ s.element = 1 /\ (s.fade => s.animation)
      /\ s.ending[2] = <<>> /\ (w # <<>> => s.animation /\ s.transition)
      /\ s.veto = {} /\ s.hoverState = "in" /\ s.timer = None /\ FadesOut(w)
  BY DEF ShowReady, TipBase
<1>2. w \in Seq(TipHandler) /\ h \in TipHandler
  BY <1>1 DEF TipState, Handler, TipHandler
<1>3. FadesIn(a) /\ a # <<>> /\ Len(a) = Len(w) + 1
  BY <1>1, <1>2, HandlersMore
<1>4. Len(a) > 1 => Tip!Awaits(s, "hidden")
  <2>1. Len(w) + 1 > 1 => w # <<>>
    OBVIOUS
  <2> QED BY <1>1, <1>3, <2>1, TipAwaits
<1>5. /\ u \in TipState /\ SameTip(u, s)
      /\ u.attached /\ u.in /\ u.fade = s.animation /\ u.described
      /\ u.calm <=> s.calm /\ ~Tip!Awaits(s, "hidden")
      /\ u.hoverState = s.hoverState /\ u.timer = s.timer /\ u.element = s.element
      /\ u.ending = s.ending
  BY <1>1, TipPuts
<1>6. Opener(s) = h /\ h.what = "shown"
  BY <1>1 DEF Opener, Handler
<1>7. /\ Tip!show(s) = IF u.transition /\ u.fade
                         THEN [u EXCEPT !.ending[s.element] = Append(@, h)]
                       ELSE Tip!Complete(u, h)
  <2>1. Tip!show(s) = IF "show" \in s.veto \/ ~s.enabled THEN s
                       ELSE IF u.transition /\ u.fade
                              THEN [u EXCEPT !.ending[s.element] = Append(@, Opener(s))]
                            ELSE Tip!Complete(u, Opener(s))
    BY TipShowDoes
  <2> HIDE DEF u, h
  <2> QED BY <1>1, <1>6, <2>1
<1> HIDE DEF u, h, a
<1>8. u.element = 1 /\ u.hoverState = "in" /\ u.timer = None /\ u.enabled /\ u.animation = s.animation
      /\ u.transition = s.transition
  BY <1>1, <1>5 DEF SameTip
<1>9. Tip!Complete(u, h) = z
  <2>1. Tip!Complete(u, h) = IF u.hoverState = "out" THEN Tip!leave(z) ELSE z
    BY <1>6, Zenon DEF Tip!Complete
  <2> HIDE DEF z
  <2> QED BY <1>8, <2>1
<1>10. [u EXCEPT !.ending[s.element] = Append(@, h)] = v
  BY <1>1, <1>8, Zenon DEF TipAppend
<1>11. s.transition /\ s.animation => Follows(v, TRUE)
  <2> DEFINE e == [s.ending EXCEPT ![1] = a]
  <2>1. v \in TipState /\ v = [u EXCEPT !.ending = [u.ending EXCEPT ![u.element] = Append(u.ending[u.element], h)]]
    BY <1>2, <1>5, TipAppends
  <2>2. v = [u EXCEPT !.ending = e]
    BY <1>1, <1>5, <1>8, <2>1 DEF a
  <2>3. e[1] = a /\ e[2] = s.ending[2]
    BY <1>1 DEF TipState
  <2> HIDE DEF v, e
  <2>4. /\ v.enabled = u.enabled /\ v.element = u.element /\ v.fade = u.fade
        /\ v.ending = e /\ v.animation = u.animation /\ v.transition = u.transition
        /\ v.timer = u.timer /\ v.in = u.in /\ v.attached = u.attached /\ v.described = u.described
        /\ v.hoverState = u.hoverState /\ v.calm = u.calm
    BY <1>5, <2>2 DEF TipState
  <2>5. ASSUME s.transition, s.animation PROVE TipBase(v)
    BY <1>1, <1>5, <1>8, <2>1, <2>3, <2>4, <2>5 DEF TipBase
  <2>6. TipUp(v, TRUE)
    <3>1. v.in /\ v.attached /\ v.described /\ v.fade = v.animation
      BY <1>5, <1>8, <2>4
    <3>2. v.ending[1] = a /\ v.timer = None /\ v.hoverState = "in"
      BY <1>8, <2>3, <2>4
    <3>3. Len(a) > 1 => ~v.calm
      BY <1>4, <1>5, <2>4
    <3> QED BY <1>3, <3>1, <3>2, <3>3 DEF TipUp
  <2> QED BY <2>5, <2>6 DEF Follows
<1>12. ~(s.transition /\ s.animation) => Follows(z, TRUE)
  <2>1. /\ z \in TipState /\ z.enabled = u.enabled /\ z.element = u.element /\ z.fade = u.fade
        /\ z.ending = u.ending /\ z.animation = u.animation /\ z.transition = u.transition
        /\ z.timer = u.timer /\ z.in = u.in /\ z.attached = u.attached /\ z.described = u.described
        /\ z.hoverState = None /\ z.calm = u.calm
    BY <1>5 DEF TipState
  <2> HIDE DEF z
  <2>2. ASSUME ~(s.transition /\ s.animation) PROVE z.ending[1] = <<>>
    BY <1>1, <1>5, <2>1, <2>2
  <2>3. ASSUME ~(s.transition /\ s.animation) PROVE TipBase(z)
    BY <1>1, <1>5, <1>8, <2>1, <2>2, <2>3 DEF TipBase
  <2>4. ASSUME ~(s.transition /\ s.animation) PROVE TipUp(z, TRUE)
    <3>1. z.in /\ z.attached /\ z.described /\ z.fade = z.animation
      BY <1>5, <1>8, <2>1
    <3>2. z.timer = None /\ z.hoverState = None
      BY <1>8, <2>1
    <3> QED BY <2>2, <2>4, <3>1, <3>2 DEF TipUp
  <2> QED BY <2>3, <2>4 DEF Follows
<1>13. u.transition /\ u.fade <=> s.transition /\ s.animation
  BY <1>5, <1>8
<1> HIDE DEF v, z
<1> QED BY <1>7, <1>9, <1>10, <1>11, <1>12, <1>13

\* enter ends in a tip that somebody wants, whether one was wanted before or not.
LEMMA EntersFollow ==
  ASSUME NEW s, NEW want \in BOOLEAN, Follows(s, want), s.veto = {}, ~Tip!enter(s).hurried,
         s.bound
  PROVE  Follows(Tip!enter(s), TRUE)
<1> DEFINE w == s.ending[1]
           u == Tip!Turns(s, "in")
           v == [u EXCEPT !.timer = "show"]
           i == [s EXCEPT !.hoverState = "in"]
<1>1. /\ s \in TipState /\ s.enabled /\ s.element = 1 /\ (s.fade => s.animation)
      /\ s.ending[2] = <<>> /\ (w # <<>> => s.animation /\ s.transition)
  BY DEF Follows, TipBase
<1>2. TurnsTo(u, s, "in") /\ u.bound = s.bound
  BY <1>1, TipTurnsTo, TipTurns
<1>3. Tip!enter(s) = IF s.in \/ s.hoverState = "in" THEN i
                     ELSE IF "show" \in s.delay THEN v ELSE Tip!show(u)
  BY Zenon DEF Tip!enter
<1>4. Goes(Tip!show(u), u)
  <2>1. u \in TipState /\ u.bound
    BY <1>2 DEF TurnsTo
  <2> HIDE DEF u
  <2> QED BY <2>1, TipShows
<1> HIDE DEF u
<1>5. /\ u \in TipState /\ u.enabled /\ u.element = 1 /\ (u.fade => u.animation)
      /\ u.ending = s.ending /\ (w # <<>> => u.animation /\ u.transition)
      /\ u.hoverState = "in" /\ u.timer = None /\ u.veto = {}
      /\ u.in = s.in /\ u.described = s.described /\ u.attached = s.attached
      /\ u.calm = s.calm /\ u.fade = s.fade /\ u.animation = s.animation
  BY <1>1, <1>2 DEF TurnsTo
<1>6. /\ v \in TipState /\ v.enabled = u.enabled /\ v.element = u.element /\ v.fade = u.fade
      /\ v.ending = u.ending /\ v.animation = u.animation /\ v.transition = u.transition
      /\ v.timer = "show" /\ v.in = u.in /\ v.described = u.described /\ v.hoverState = u.hoverState
      /\ v.attached = u.attached /\ v.calm = u.calm /\ v.hurried = u.hurried
  BY <1>5 DEF TipState
<1>7. /\ i \in TipState /\ i.enabled = s.enabled /\ i.element = s.element /\ i.fade = s.fade
      /\ i.ending = s.ending /\ i.animation = s.animation /\ i.transition = s.transition
      /\ i.timer = s.timer /\ i.in = s.in /\ i.described = s.described /\ i.hoverState = "in"
      /\ i.attached = s.attached /\ i.calm = s.calm
  BY <1>1 DEF TipState
<1>8. s.hoverState = "in" => i = s
  BY <1>1 DEF TipState
<1> HIDE DEF i, v
<1>9. CASE s.in
  <2>1. TipUp(s, want)
    BY <1>9 DEF Follows, TipDown
  <2>2. TipBase(i)
    BY <1>1, <1>7 DEF TipBase, w
  <2>3. TipUp(i, TRUE)
    <3>1. i.timer \in {None, "hide"}
      BY <1>7, <2>1 DEF TipUp
    <3> QED BY <1>7, <2>1, <3>1 DEF TipUp
  <2> QED BY <1>3, <1>9, <2>2, <2>3 DEF Follows
<1>10. CASE ~s.in /\ s.hoverState = "in"
  <2>1. TipDown(s, want)
    BY <1>10 DEF Follows, TipUp
  <2>2. want = TRUE
    BY <1>10, <2>1, TipAssumption DEF TipDown
  <2>3. Tip!enter(s) = s
    BY <1>3, <1>8, <1>10
  <2> QED BY <2>2, <2>3
<1>11. CASE ~s.in /\ s.hoverState # "in"
  <2>1. TipDown(s, want)
    BY <1>11 DEF Follows, TipUp
  <2>2. Tip!enter(s) = IF "show" \in s.delay THEN v ELSE Tip!show(u)
    BY <1>3, <1>11
  <2>3. ~u.hurried
    BY <1>4, <1>6, <2>2 DEF Goes
  <2>4. FadesOut(w) /\ (w = <<>> => ~s.described)
    <3>1. ~TurnedOnce(w)
      BY <1>1, <1>2, <2>3, TipAwaits DEF TurnsTo
    <3> QED BY <2>1, <3>1 DEF TipDown
  <2>5. ShowReady(u)
    <3>1. TipBase(u)
      BY <1>1, <1>5 DEF TipBase, w
    <3> QED BY <1>5, <2>4, <3>1 DEF ShowReady, w
  <2>6. TipBase(v)
    BY <1>1, <1>5, <1>6 DEF TipBase, w
  <2>7. TipDown(v, TRUE)
    <3>1. ~v.in /\ v.hoverState = "in" /\ v.timer = "show" /\ v.ending[1] = w
          /\ v.described = s.described
      BY <1>5, <1>6, <1>11 DEF w
    <3> HIDE DEF w
    <3> QED BY <2>4, <3>1, TipAssumption DEF TipDown
  <2>8. Follows(Tip!show(u), TRUE)
    BY <2>5, ShowFollows
  <2> QED BY <2>2, <2>6, <2>7, <2>8 DEF Follows
<1> QED BY <1>9, <1>10, <1>11
LEMMA TimerFollows ==
  ASSUME NEW s, NEW want \in BOOLEAN, Follows(s, want), s.veto = {}, s.timer # None
  PROVE  Follows(TipTimes(s), want)
<1> DEFINE w == s.ending[1]
           t == TipTimed(s)
<1>1. /\ s \in TipState /\ s.enabled /\ s.element = 1 /\ (s.fade => s.animation)
      /\ s.ending[2] = <<>> /\ (w # <<>> => s.animation /\ s.transition)
  BY DEF Follows, TipBase
<1>2. TipTimes(s) = IF s.timer = "show" /\ s.hoverState = "in" THEN Tip!show(t)
                    ELSE IF s.timer = "hide" /\ s.hoverState = "out" THEN Tip!hide(t, "hidden")
                    ELSE t
  BY Zenon DEF TipTimes
<1>3. /\ t \in TipState /\ t.enabled = s.enabled /\ t.element = s.element /\ t.fade = s.fade
      /\ t.ending = s.ending /\ t.animation = s.animation /\ t.transition = s.transition
      /\ t.timer = None /\ t.in = s.in /\ t.described = s.described /\ t.hoverState = s.hoverState
      /\ t.attached = s.attached /\ t.calm = s.calm /\ t.veto = s.veto
  BY <1>1 DEF TipState, TipTimed
<1> HIDE DEF t
<1>4. TipBase(t)
  BY <1>1, <1>3 DEF TipBase, w
<1>5. s.timer \in {"show", "hide"}
  BY <1>1 DEF TipState
<1>6. CASE s.timer = "show"
  <2>1. TipDown(s, want) /\ want = TRUE
    BY <1>6, TipAssumption DEF Follows, TipUp, TipDown
  <2>2. s.hoverState = "in" /\ FadesOut(w)
    BY <2>1, TipAssumption DEF TipDown
  <2>3. ShowReady(t)
    BY <1>3, <1>4, <2>2 DEF ShowReady, w
  <2>4. Follows(Tip!show(t), TRUE)
    BY <2>3, ShowFollows
  <2> QED BY <1>2, <1>6, <2>1, <2>2, <2>4
<1>7. CASE s.timer = "hide" /\ want = TRUE
  <2>1. TipUp(s, want) /\ s.hoverState \in {None, "in"}
    BY <1>7, TipAssumption DEF Follows, TipUp, TipDown
  <2>2. TipTimes(s) = t
    BY <1>2, <1>7, <2>1, TipAssumption
  <2>3. TipUp(t, want)
    BY <1>3, <1>7, <2>1 DEF TipUp
  <2> QED BY <1>4, <2>2, <2>3 DEF Follows
<1>8. CASE s.timer = "hide" /\ want = FALSE
  <2>1. s.hoverState = "out"
    BY <1>8, TipAssumption DEF Follows, TipUp, TipDown
  <2>2. TipTimes(s) = Tip!hide(t, "hidden")
    BY <1>2, <1>8, <2>1
  <2>3. HideReady(t)
    <3>1. CASE TipDown(s, want)
      <4>1. FadesOut(w)
        BY <2>1, <3>1, TipAssumption DEF TipDown
      <4> QED BY <1>3, <1>4, <2>1, <4>1 DEF HideReady, w
    <3>2. CASE TipUp(s, want)
      <4>1. s.fade = s.animation /\ (w = <<>> \/ (FadesIn(w) /\ ~(Len(w) > 1)))
        BY <2>1, <3>2 DEF TipUp
      <4>2. FadesOut(<<>>)
        BY DEF FadesOut
      <4>3. Len(w) \in Nat
        BY <1>1 DEF TipState
      <4>4. FadesOut(w) \/ (FadesIn(w) /\ Len(w) <= 1)
        <5> HIDE DEF w
        <5> QED BY <4>1, <4>2, <4>3
      <4>5. t.ending[1] = w /\ t.hoverState = "out" /\ t.timer = None /\ t.veto = {}
            /\ t.fade = t.animation
        BY <1>3, <2>1, <4>1
      <4> QED BY <1>4, <4>4, <4>5 DEF HideReady
    <3> QED BY <3>1, <3>2 DEF Follows
  <2>4. Follows(Tip!hide(t, "hidden"), FALSE)
    BY <2>3, HideFollows
  <2> QED BY <1>8, <2>2, <2>4
<1> QED BY <1>5, <1>6, <1>7, <1>8

(***************************************************************************)
(* The transitions of the tip end.                                         *)
(***************************************************************************)
\* Nothing waits any more, or all of it has begun to run.
Faded(s, want) ==
  /\ TipBase(s) /\ s.ending[1] = <<>> /\ s.veto = {} /\ (s.inState # {} <=> want)

\* There; gone, but for the last of the handlers.
FadedIn(s, want) == Faded(s, want) /\ TipUp(s, want)
FadedOut(s, want) ==
  /\ Faded(s, want) /\ ~s.in
  /\ want => s.hoverState = "in" /\ s.timer = "show"
  /\ ~want => \/ s.hoverState = None /\ s.timer = None
              \/ s.hoverState = "out" /\ s.timer = "hide"

LEMMA HiddenFades ==
  ASSUME NEW s, NEW want \in BOOLEAN
  PROVE  LET t == Tip!Complete(s, Handler("hidden"))
         IN /\ FadedIn(s, want) /\ s.hoverState = "in" /\ ~s.calm =>
                 FadedIn(t, want) /\ t.hoverState = "in" /\ ~t.calm
            /\ FadedOut(s, want) => FadedOut(t, want) /\ Follows(t, want)
<1> DEFINE t == Tip!Hidden(s, 1)
<1>1. Tip!Complete(s, Handler("hidden")) = t
  <2>1. Handler("hidden").what = "hidden" /\ Handler("hidden").on = 1
    BY DEF Handler
  <2> QED BY <2>1 DEF Tip!Complete, Tip!HideEnds
<1>2. Faded(s, want) => HiddenFirst(t, s)
  BY TipHiddenFirst DEF Faded, TipBase
<1> HIDE DEF t
<1>3. Faded(s, want) => Faded(t, want)
  BY <1>2 DEF Faded, TipBase, HiddenFirst
<1>4. ASSUME FadedIn(s, want), s.hoverState = "in", ~s.calm
      PROVE  FadedIn(t, want) /\ t.hoverState = "in" /\ ~t.calm
  BY <1>2, <1>3, <1>4 DEF FadedIn, TipUp, HiddenFirst
<1>5. ASSUME FadedOut(s, want) PROVE FadedOut(t, want) /\ Follows(t, want)
  <2>1. HiddenFirst(t, s) /\ Faded(t, want)
    BY <1>2, <1>3, <1>5 DEF FadedOut
  <2>2. FadedOut(t, want)
    BY <1>5, <2>1 DEF FadedOut, HiddenFirst
  <2>3. t.ending[1] = <<>> /\ FadesOut(t.ending[1])
    BY <2>1 DEF Faded, FadesOut
  <2>4. ~t.described /\ (t.hoverState = None => ~t.attached)
    BY <2>1, TipAssumption DEF HiddenFirst
  <2>5. TipDown(t, want)
    BY <2>2, <2>3, <2>4 DEF FadedOut, TipDown
  <2> QED BY <2>1, <2>2, <2>5 DEF Faded, Follows
<1> QED BY <1>1, <1>4, <1>5

LEMMA ShownFades ==
  ASSUME NEW s, NEW want \in BOOLEAN
  PROVE  LET t == Tip!Complete(s, Handler("shown"))
         IN /\ FadedIn(s, want) /\ ~t.hurried => Follows(t, want)
            /\ FadedOut(s, want) /\ s.hoverState = None => t = s
<1> DEFINE u == [s EXCEPT !.hoverState = None]
           t == Tip!Complete(s, Handler("shown"))
<1>1. t = IF s.hoverState = "out" THEN Tip!leave(u) ELSE u
  <2>1. Handler("shown").what = "shown"
    BY DEF Handler
  <2> QED BY <2>1, Zenon DEF Tip!Complete
<1> HIDE DEF t
<1>2. ASSUME Faded(s, want)
      PROVE  /\ u \in TipState /\ u.enabled = s.enabled /\ u.element = s.element /\ u.fade = s.fade
             /\ u.ending = s.ending /\ u.animation = s.animation /\ u.transition = s.transition
             /\ u.timer = s.timer /\ u.in = s.in /\ u.described = s.described /\ u.hoverState = None
             /\ u.attached = s.attached /\ u.calm = s.calm /\ u.veto = s.veto /\ u.inState = s.inState
  BY <1>2 DEF TipState, Faded, TipBase
<1>3. Faded(s, want) /\ s.hoverState = None => u = s
  BY DEF TipState, Faded, TipBase
<1> HIDE DEF u
<1>4. ASSUME FadedIn(s, want), ~t.hurried PROVE Follows(t, want)
  <2>1. Faded(s, want) /\ TipUp(s, want)
    BY <1>4 DEF FadedIn
  <2>2. Faded(u, want)
    BY <1>2, <2>1 DEF Faded, TipBase
  <2>3. CASE s.hoverState = "out"
    <3>1. want = FALSE
      BY <2>1, <2>3, TipAssumption DEF TipUp
    <3>2. LeaveReady(u)
      BY <1>2, <2>1, <2>2, <3>1 DEF LeaveReady, Faded, TipUp
    <3> QED BY <1>1, <1>4, <2>3, <3>1, <3>2, LeavesFollow
  <2>4. CASE s.hoverState # "out"
    <3>1. want = TRUE
      BY <2>1, <2>4 DEF TipUp
    <3>2. TipUp(u, want)
      BY <1>2, <2>1, <3>1 DEF TipUp, Faded
    <3> QED BY <1>1, <2>2, <2>4, <3>2 DEF Follows, Faded
  <2> QED BY <2>3, <2>4
<1>5. FadedOut(s, want) /\ s.hoverState = None => t = s
  BY <1>1, <1>3, TipAssumption DEF FadedOut
<1> QED BY <1>4, <1>5 DEF t
LEMMA EndsFollow ==
  ASSUME NEW s, NEW want \in BOOLEAN, Follows(s, want), s.veto = {}, s.inState # {} <=> want,
         s.ending[1] # <<>>,
         NEW f, TipRun(f, TipEmptied(s, 1), s.ending[1]), ~f[Len(s.ending[1])].hurried
  PROVE  Follows(f[Len(s.ending[1])], want)
<1> DEFINE w == s.ending[1]
           n == Len(w)
           e == [s.ending EXCEPT ![1] = <<>>]
           t == TipEmptied(s, 1)
<1>1. /\ s \in TipState /\ s.enabled /\ s.element = 1 /\ (s.fade => s.animation)
      /\ s.ending[2] = <<>> /\ (w # <<>> => s.animation /\ s.transition)
  BY DEF Follows, TipBase
<1>2. w \in Seq(TipHandler) /\ n \in Nat /\ n # 0
  BY <1>1 DEF TipState
<1>3. e[1] = <<>> /\ e[2] = <<>> /\ e \in [1 .. 2 -> Seq(TipHandler)]
  BY <1>1 DEF TipState
<1>4. /\ t \in TipState /\ t.enabled = s.enabled /\ t.element = s.element /\ t.fade = s.fade
      /\ t.ending = e /\ t.animation = s.animation /\ t.transition = s.transition
      /\ t.timer = s.timer /\ t.in = s.in /\ t.described = s.described /\ t.hoverState = s.hoverState
      /\ t.attached = s.attached /\ t.calm = s.calm /\ t.veto = s.veto /\ t.inState = s.inState
  <2>1. t = [s EXCEPT !.ending = e]
    BY Zenon DEF TipEmptied
  <2> HIDE DEF e
  <2> QED BY <1>1, <1>3, <2>1 DEF TipState
<1>5. f[0] = t /\ \A i \in 1 .. n : f[i] = Tip!Complete(f[i - 1], w[i])
  BY DEF TipRun
<1>6. ~f[n].hurried
  OBVIOUS
<1>7. Follows(s, want) /\ s.veto = {} /\ (s.inState # {} <=> want) /\ w # <<>>
  OBVIOUS
<1> HIDE DEF w, n, e, t
<1>8. Faded(t, want)
  BY <1>1, <1>3, <1>4, <1>7 DEF Faded, TipBase
<1>9. n \in 1 .. n /\ n - 1 \in Nat
  BY <1>2
<1>10. CASE TipUp(s, want)
  <2>1. FadesIn(w) /\ (Len(w) > 1 => s.hoverState = "in" /\ ~s.calm)
    BY <1>7, <1>10 DEF TipUp, w
  <2>2. FadedIn(t, want)
    BY <1>3, <1>4, <1>8, <1>10 DEF FadedIn, TipUp
  <2>3. FadedIn(f[n - 1], want)
    <3>1. CASE n = 1
      BY <1>5, <2>2, <3>1
    <3>2. CASE n # 1
      <4> DEFINE D == {u \in TipState : FadedIn(u, want) /\ u.hoverState = "in" /\ ~u.calm}
                 m == n - 1
      <4>1. n > 1
        BY <1>2, <3>2
      <4>2. f[0] \in D
        BY <1>4, <1>5, <2>1, <2>2, <4>1 DEF n
      <4>3. ASSUME NEW i \in 0 + 1 .. m, f[i - 1] \in D PROVE f[i] \in D
        <5>1. i \in 1 .. n /\ w[i] = Handler("hidden")
          BY <1>2, <2>1, <4>3 DEF FadesIn, n
        <5>2. f[i] = Tip!Complete(f[i - 1], Handler("hidden"))
          BY <1>5, <5>1
        <5> DEFINE g == f[i - 1]
        <5>3. FadedIn(g, want) /\ g.hoverState = "in" /\ ~g.calm
          BY <4>3
        <5>4. f[i] = Tip!Complete(g, Handler("hidden"))
          BY <5>2
        <5> HIDE DEF g
        <5>5. FadedIn(f[i], want) /\ f[i].hoverState = "in" /\ ~f[i].calm
          BY <5>3, <5>4, HiddenFades
        <5> QED BY <5>5 DEF FadedIn, Faded, TipBase
      <4>4. m \in Nat /\ 0 \in 0 .. m
        BY <1>2, <1>9
      <4> HIDE DEF D, m
      <4>5. f[m] \in D
        BY <4>2, <4>3, <4>4, Stays
      <4> QED BY <4>5 DEF D, m
    <3> QED BY <3>1, <3>2
  <2>4. w[n] = Handler("shown")
    BY <2>1 DEF FadesIn, n
  <2> DEFINE g == f[n - 1]
  <2>5. FadedIn(g, want) /\ f[n] = Tip!Complete(g, Handler("shown"))
    BY <1>5, <1>9, <2>3, <2>4
  <2> HIDE DEF g
  <2>6. Follows(f[n], want)
    BY <1>6, <2>5, ShownFades
  <2> QED BY <2>6 DEF n, w
<1>11. CASE TipDown(s, want)
  <2>1. FadedOut(t, want)
    BY <1>4, <1>8, <1>11 DEF FadedOut, TipDown
  <2>2. FadedOut(f[n - 1], want) /\ w[n] = Handler("hidden")
    <3>1. CASE FadesOut(w)
      <4> DEFINE D == {u \in TipState : FadedOut(u, want)}
                 m == n - 1
      <4>1. \A i \in 1 .. n : w[i] = Handler("hidden")
        BY <3>1 DEF FadesOut, n
      <4>2. f[0] \in D
        BY <1>4, <1>5, <2>1
      <4>3. ASSUME NEW i \in 0 + 1 .. m, f[i - 1] \in D PROVE f[i] \in D
        <5>1. i \in 1 .. n
          BY <1>2, <4>3
        <5> DEFINE g == f[i - 1]
        <5>2. f[i] = Tip!Complete(g, Handler("hidden"))
          BY <1>5, <4>1, <5>1
        <5>3. FadedOut(g, want)
          BY <4>3
        <5> HIDE DEF g
        <5>4. FadedOut(f[i], want)
          BY <5>2, <5>3, HiddenFades
        <5> QED BY <5>4 DEF FadedOut, Faded, TipBase
      <4>4. m \in Nat /\ 0 \in 0 .. m
        BY <1>2, <1>9
      <4> HIDE DEF D, m
      <4>5. f[m] \in D
        BY <4>2, <4>3, <4>4, Stays
      <4> QED BY <1>9, <4>1, <4>5 DEF D, m
    <3>2. CASE TurnedOnce(w) /\ s.hoverState = None
      <4>1. n = 2 /\ w[1] = Handler("shown") /\ w[2] = Handler("hidden")
        BY <3>2 DEF TurnedOnce, n
      <4>2. 1 \in 1 .. n
        BY <4>1
      <4>3. f[1] = Tip!Complete(t, Handler("shown"))
        BY <1>5, <4>1, <4>2
      <4>4. f[1] = t
        BY <1>4, <2>1, <3>2, <4>3, ShownFades
      <4> QED BY <2>1, <4>1, <4>4
    <3> QED BY <1>11, <3>1, <3>2 DEF TipDown, w
  <2> DEFINE g == f[n - 1]
  <2>3. FadedOut(g, want) /\ f[n] = Tip!Complete(g, Handler("hidden"))
    BY <1>5, <1>9, <2>2
  <2> HIDE DEF g
  <2>4. Follows(f[n], want)
    BY <2>3, HiddenFades
  <2> QED BY <2>4 DEF n, w
<1> QED BY <1>7, <1>10, <1>11 DEF Follows
\* What Follows says is of no trigger, and survives the end of a step.
LEMMA FollowsOn ==
  ASSUME NEW s, NEW want \in BOOLEAN, Follows(s, want)
  PROVE  /\ \A inState \in SUBSET {"hover", "focus", "click"} :
              Follows(TipWith(s, inState), want) /\ TipWith(s, inState).veto = s.veto
         /\ TipSteps(s) => Follows(widget', want)
<1>1. s \in TipState
  BY DEF Follows, TipBase
<1>2. ASSUME NEW X \in SUBSET {"hover", "focus", "click"}
      PROVE  Follows(TipWith(s, X), want) /\ TipWith(s, X).veto = s.veto
  <2> DEFINE t == TipWith(s, X)
  <2>1. /\ t \in TipState /\ t.enabled = s.enabled /\ t.element = s.element /\ t.fade = s.fade
        /\ t.ending = s.ending /\ t.animation = s.animation /\ t.transition = s.transition
        /\ t.timer = s.timer /\ t.in = s.in /\ t.described = s.described /\ t.hoverState = s.hoverState
        /\ t.attached = s.attached /\ t.calm = s.calm /\ t.veto = s.veto
    BY <1>1 DEF TipState, TipWith
  <2> HIDE DEF t
  <2>2. Follows(t, want)
    BY <2>1 DEF Follows, TipBase, TipUp, TipDown
  <2> QED BY <2>1, <2>2 DEF t
<1>3. ASSUME TipSteps(s) PROVE Follows(widget', want)
  <2> DEFINE t == [s EXCEPT !.veto = {}]
  <2>1. /\ t \in TipState /\ t.enabled = s.enabled /\ t.element = s.element /\ t.fade = s.fade
        /\ t.ending = s.ending /\ t.animation = s.animation /\ t.transition = s.transition
        /\ t.timer = s.timer /\ t.in = s.in /\ t.described = s.described /\ t.hoverState = s.hoverState
        /\ t.attached = s.attached /\ t.calm = s.calm
    BY <1>1 DEF TipState
  <2>2. widget' = t
    BY <1>3 DEF TipSteps
  <2> HIDE DEF t
  <2>3. Follows(t, want)
    BY <2>1 DEF Follows, TipBase, TipUp, TipDown
  <2> QED BY <2>2, <2>3
<1> QED BY <1>2, <1>3

\* Triggers alone drive the tip, one turn at a time.
Driven(s) == s.driven /\ s.bound /\ ~s.dying /\ ~s.hurried

DoesFollow(s) == \E want \in BOOLEAN : (s.inState # {} <=> want) /\ Follows(s, want)

TipOK(s) == TipSafe(s) /\ (Driven(s) => DoesFollow(s))

LEMMA TipEntersOK ==
  ASSUME TipOK(widget), TipEntering, Driven(widget')
  PROVE  DoesFollow(widget')
<1>0. TipSafe(widget)
  BY DEF TipOK
<1>1. PICK veto \in SUBSET {"show", "hide"}, inState \in SUBSET {"hover", "focus", "click"} :
        widget.bound /\ inState # {} /\ TipSteps(Tip!enter(TipWith(Prompt(veto), inState)))
  BY DEF TipEntering
<1> DEFINE s == TipWith(Prompt(veto), inState)
           u == Tip!enter(s)
<1>2. Near(s) /\ s.bound /\ s.inState = inState /\ s.driven = Prompt(veto).driven
  BY <1>0, <1>1, TipPrompts, TipWanted
<1>3. Goes(u, s) /\ TipSteps(u)
  <2> HIDE DEF s
  <2> QED BY <1>1, <1>2, TipEnters DEF Near, s
<1>4. s.driven => s = TipWith(widget, inState)
  BY <1>0, <1>2, TipPrompts
<1>5. /\ s.driven /\ Driven(widget) /\ ~u.hurried /\ widget'.inState = inState
  <2> HIDE DEF s, u
  <2> QED BY <1>0, <1>2, <1>3, TipStepped DEF Driven
<1>6. PICK want \in BOOLEAN : Follows(widget, want)
  BY <1>5 DEF TipOK, DoesFollow
<1>7. Follows(s, want) /\ s.veto = {}
  BY <1>0, <1>4, <1>5, <1>6, FollowsOn DEF TipSafe
<1> HIDE DEF s
<1>8. Follows(u, TRUE)
  BY <1>2, <1>5, <1>7, EntersFollow
<1> HIDE DEF u
<1>9. Follows(widget', TRUE)
  BY <1>3, <1>8, FollowsOn
<1> QED BY <1>1, <1>5, <1>9 DEF DoesFollow

LEMMA TipLeavesOK ==
  ASSUME TipOK(widget), TipLeaving, Driven(widget')
  PROVE  DoesFollow(widget')
<1>0. TipSafe(widget)
  BY DEF TipOK
<1>1. PICK veto \in SUBSET {"show", "hide"}, inState \in SUBSET {"hover", "focus", "click"} :
        widget.inState # {} /\ TipSteps(Tip!leave(TipWith(Prompt(veto), inState)))
  BY DEF TipLeaving
<1> DEFINE s == TipWith(Prompt(veto), inState)
           u == Tip!leave(s)
<1>2. Near(s) /\ s.inState = inState /\ s.driven = Prompt(veto).driven
  BY <1>0, TipPrompts, TipWanted
<1>3. Goes(u, s) /\ TipSteps(u)
  <2> HIDE DEF s
  <2> QED BY <1>1, <1>2, TipLeaves DEF Near, s
<1>4. s.driven => s = TipWith(widget, inState)
  BY <1>0, <1>2, TipPrompts
<1>5. /\ s.driven /\ Driven(widget) /\ ~u.hurried /\ widget'.inState = inState
  <2> HIDE DEF s, u
  <2> QED BY <1>0, <1>2, <1>3, TipStepped DEF Driven
<1>6. Follows(widget, TRUE)
  BY <1>1, <1>5 DEF TipOK, DoesFollow
<1>7. Follows(s, TRUE) /\ s.veto = {}
  BY <1>0, <1>4, <1>5, <1>6, FollowsOn DEF TipSafe
<1> HIDE DEF s
<1>8. CASE inState # {}
  <2>1. u = s
    BY <1>2, <1>8, Zenon DEF Tip!leave
  <2> HIDE DEF u
  <2>2. Follows(widget', TRUE)
    BY <1>3, <1>7, <2>1, FollowsOn
  <2> QED BY <1>5, <1>8, <2>2 DEF DoesFollow
<1>9. CASE inState = {}
  <2>1. LeaveReady(s)
    <3>1. TipBase(s)
      BY <1>7 DEF Follows
    <3>2. TipUp(s, TRUE) \/ TipDown(s, TRUE)
      BY <1>7 DEF Follows
    <3> QED BY <1>2, <1>7, <1>9, <3>1, <3>2, TipAssumption DEF LeaveReady, TipUp, TipDown
  <2>2. Follows(u, FALSE)
    BY <1>5, <2>1, LeavesFollow
  <2> HIDE DEF u
  <2>3. Follows(widget', FALSE)
    BY <1>3, <2>2, FollowsOn
  <2> QED BY <1>5, <1>9, <2>3 DEF DoesFollow
<1> QED BY <1>8, <1>9

LEMMA TipTimesOK ==
  ASSUME TipOK(widget), Tip!Timer, Driven(widget')
  PROVE  DoesFollow(widget')
<1>0. TipSafe(widget)
  BY DEF TipOK
<1>1. PICK veto \in SUBSET {"show", "hide"} : TipSteps(TipTimes(Prompt(veto)))
  BY <1>0, TipTimer
<1> DEFINE s == Prompt(veto)
           t == TipTimed(s)
           u == TipTimes(s)
<1>2. /\ Near(s) /\ Gone(s) /\ s.timer # None /\ s.inState = widget.inState
      /\ s.driven => s = widget
  BY <1>0, TipTimer, TipPrompts
<1>3. TipSteps(u)
  BY <1>1
<1> HIDE DEF s
<1>4. Near(t) /\ t.bound = s.bound /\ t.revived = s.revived /\ t.driven = s.driven
      /\ t.inState = s.inState
  BY <1>2, TipForgets
<1>5. u = t \/ u = Tip!hide(t, "hidden") \/ (s.timer = "show" /\ u = Tip!show(t))
  BY Zenon DEF TipTimes
<1> HIDE DEF t
<1>6. Goes(u, t)
  <2>1. s.timer = "show" => t.bound \/ t.revived
    BY <1>2, <1>4 DEF Gone
  <2>2. t \in TipState
    BY <1>4 DEF Near
  <2> HIDE DEF u
  <2> QED BY <1>5, <2>1, <2>2, GoesNot, TipHides, TipShows
<1>7. /\ t.driven /\ Driven(widget) /\ widget'.inState = t.inState
  <2> HIDE DEF u
  <2> QED BY <1>0, <1>3, <1>4, <1>6, TipStepped DEF Driven
<1>8. s = widget
  BY <1>2, <1>4, <1>7
<1>9. PICK want \in BOOLEAN : (widget.inState # {} <=> want) /\ Follows(widget, want)
  BY <1>7 DEF TipOK, DoesFollow
<1>10. Follows(u, want)
  BY <1>0, <1>2, <1>8, <1>9, TimerFollows DEF TipSafe
<1> HIDE DEF u
<1>11. Follows(widget', want)
  BY <1>3, <1>10, FollowsOn
<1> QED BY <1>2, <1>4, <1>7, <1>9, <1>11 DEF DoesFollow

LEMMA TipEndsOK ==
  ASSUME TipOK(widget), NEW el \in 1 .. 2, Tip!Ends(el), Driven(widget')
  PROVE  DoesFollow(widget')
<1>0. TipSafe(widget)
  BY DEF TipOK
<1>1. PICK veto \in SUBSET {"show", "hide"} :
        LET s == TipEmptied(Prompt(veto), el)
            w == widget.ending[el]
        IN w # <<>> /\ \E f : TipRun(f, s, w) /\ TipSteps(f[Len(w)])
  BY <1>0, TipEnds
<1> DEFINE s == TipEmptied(Prompt(veto), el)
           w == widget.ending[el]
<1>2. PICK f : TipRun(f, s, w) /\ TipSteps(f[Len(w)])
  BY <1>1
<1> DEFINE u == f[Len(w)]
<1>3. Near(s) /\ s \in TipState /\ s.driven = Prompt(veto).driven /\ s.inState = Prompt(veto).inState
  BY <1>0, TipPrompts, TipEmpties
<1>4. w \in Seq(TipHandler) /\ w # <<>>
  BY <1>0, <1>1 DEF TipSafe, TipState
<1>5. s.driven => s = TipEmptied(widget, el)
  BY <1>0, <1>3, TipPrompts
<1>6. s.inState = widget.inState
  BY <1>0, <1>3, TipPrompts
<1>7. Goes(u, s) /\ TipSteps(u)
  <2> HIDE DEF s, w
  <2> QED BY <1>2, <1>3, <1>4, TipRunGoes
<1>8. s.driven /\ Driven(widget) /\ ~u.hurried /\ widget'.inState = s.inState
  <2> HIDE DEF s, u
  <2> QED BY <1>0, <1>3, <1>7, TipStepped DEF Driven
<1>9. PICK want \in BOOLEAN : (widget.inState # {} <=> want) /\ Follows(widget, want)
  BY <1>8 DEF TipOK, DoesFollow
<1>10. el = 1
  <2>1. widget.ending[2] = <<>>
    BY <1>9 DEF Follows, TipBase
  <2> QED BY <1>4, <2>1
<1>11. TipRun(f, TipEmptied(widget, 1), widget.ending[1]) /\ widget.ending[1] # <<>>
       /\ u = f[Len(widget.ending[1])]
  BY <1>2, <1>4, <1>5, <1>8, <1>10
<1> HIDE DEF u
<1>12. Follows(u, want)
  BY <1>0, <1>8, <1>9, <1>11, EndsFollow DEF TipSafe
<1>13. Follows(widget', want)
  BY <1>7, <1>12, FollowsOn
<1> QED BY <1>6, <1>8, <1>9, <1>13 DEF DoesFollow

LEMMA TipNextOK ==
  ASSUME TipOK(widget), Tip!Next
  PROVE  TipOK(widget')
<1>1. TipSafe(widget) /\ TipSafe(widget')
  BY TipNextSafe DEF TipOK
<1>2. ASSUME Driven(widget') PROVE DoesFollow(widget')
  <2>1. ~Tip!Call
    <3> SUFFICES ASSUME Tip!Call PROVE FALSE
      OBVIOUS
    <3>1. PICK s, u : Near(s) /\ (s.driven => s.dying) /\ Goes(u, s) /\ TipSteps(u)
      BY <1>1, TipCall DEF TipCalling
    <3>2. (widget'.driven => s.driven) /\ (~widget'.dying => ~s.dying)
      BY <1>1, <3>1, TipStepped
    <3> QED BY <1>2, <3>1, <3>2 DEF Driven
  <2>2. TipEntering => DoesFollow(widget')
    BY <1>2, TipEntersOK
  <2>3. TipLeaving => DoesFollow(widget')
    BY <1>2, TipLeavesOK
  <2>4. Tip!Timer => DoesFollow(widget')
    BY <1>2, TipTimesOK
  <2>5. ASSUME NEW el \in 1 .. 2, Tip!Ends(el) PROVE DoesFollow(widget')
    BY <1>2, <2>5, TipEndsOK
  <2> QED BY <1>1, <2>1, <2>2, <2>3, <2>4, <2>5, TipEvents, Zenon DEF Tip!Next
<1> QED BY <1>1, <1>2 DEF TipOK

LEMMA TipFollowKept == Spec => [](plugin = "tooltip" => TipOK(widget))
<1> DEFINE Inv == plugin = "tooltip" => TipOK(widget)
<1>1. Init => Inv
  <2> SUFFICES ASSUME Tip!Init PROVE TipOK(widget)
    BY DEF Init
  <2>1. TipSafe(widget)
    BY TipInit
  <2>2. /\ widget.enabled /\ widget.element = 1 /\ ~widget.fade /\ widget.ending[1] = <<>>
        /\ widget.ending[2] = <<>> /\ ~widget.in /\ widget.hoverState = None /\ widget.timer = None
        /\ ~widget.described /\ ~widget.attached /\ widget.inState = {}
    BY DEF Tip!Init
  <2>3. TipBase(widget)
    BY <2>1, <2>2 DEF TipBase, TipSafe
  <2>4. TipDown(widget, FALSE)
    BY <2>2 DEF TipDown, FadesOut
  <2>5. DoesFollow(widget)
    BY <2>2, <2>3, <2>4 DEF DoesFollow, Follows
  <2> QED BY <2>1, <2>5 DEF TipOK
<1>2. Inv /\ [Next]_<<plugin, widget>> => Inv'
  <2>1. CASE UNCHANGED <<plugin, widget>>
    BY <2>1 DEF TipOK, TipSafe, Gone, Driven, DoesFollow, Follows, TipBase, TipUp, TipDown,
                FadesIn, FadesOut, TurnedOnce, Handler
  <2>2. CASE Next
    BY <2>2, TipNextOK DEF Next
  <2> QED BY <2>1, <2>2
<1> QED BY <1>1, <1>2, PTL DEF Spec

\* A tip that triggers alone drive is there just as long as one wants it, and is
\* announced then unless shown while it faded out (enter, leave, show, hide).
THEOREM TipFollows == Spec => []FollowsItsTriggers
<1>1. (plugin = "tooltip" => TipOK(widget)) => FollowsItsTriggers
  <2> SUFFICES ASSUME TipOK(widget), Tip!AtRest, Driven(widget)
               PROVE  /\ widget.attached = (widget.inState # {}) /\ widget.in = widget.attached
                      /\ widget.calm => widget.described = widget.attached
    BY DEF FollowsItsTriggers, Tip!FollowsItsTriggers, Driven
  <2>1. widget \in TipState
    BY DEF TipOK, TipSafe
  <2>2. widget.ending[1] = <<>> /\ widget.timer = None
    BY <2>1 DEF Tip!AtRest, Tip!Rests, TipState
  <2>3. PICK want \in BOOLEAN : (widget.inState # {} <=> want) /\ Follows(widget, want)
    BY DEF TipOK, DoesFollow
  <2>4. CASE want = TRUE
    <3>1. TipUp(widget, TRUE)
      BY <2>2, <2>3, <2>4, TipAssumption DEF Follows, TipDown
    <3>2. /\ widget.in /\ widget.attached /\ (widget.calm => widget.described) /\ widget.inState # {}
      BY <2>3, <2>4, <3>1 DEF TipUp
    <3> QED BY <2>1, <3>2 DEF TipState
  <2>5. CASE want = FALSE
    <3>1. TipDown(widget, FALSE)
      BY <2>2, <2>3, <2>5, TipAssumption DEF Follows, TipUp
    <3>2. /\ ~widget.in /\ ~widget.attached /\ ~widget.described /\ widget.inState = {}
      BY <2>2, <2>3, <2>5, <3>1, TipAssumption DEF TipDown
    <3> QED BY <2>1, <3>2 DEF TipState
  <2> QED BY <2>4, <2>5
<1> QED BY <1>1, TipFollowKept, PTL
=============================================================================
