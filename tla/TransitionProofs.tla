--------------------------- MODULE TransitionProofs ----------------------------
(***************************************************************************)
(* Plugins that wait for transitions: carousel, alert, tab and modal.      *)
(*                                                                         *)
(* Handlers that wait run in turn, each on what the one before has left.   *)
(* What they make together is a function of how many have run; a thing     *)
(* that each of them keeps is kept by all, for there is no first one to    *)
(* lose it (Stays): the least number of a set takes the place of an        *)
(* induction.  The invariants say what handlers will find that run late:   *)
(*                                                                         *)
(*   Carousel  one timer or none; while it stands still, none to start     *)
(*             anew; while a call of to waits, a 'slid' event is to come.  *)
(*   Alert     a box that was dismissed and is still shown has a handler   *)
(*             that waits, and each handler of a box removes that box.     *)
(*   Tab       one pane shows, or comes when the one other has gone,       *)
(*             unless a tab was clicked while a pane went.                 *)
(*   Modal     handlers once each while it is meant to be shown; if calm,  *)
(*             it is closed, opening or closing, and what is waited for    *)
(*             is what that takes: a backdrop, the dialog, or both.        *)
(***************************************************************************)
EXTENDS Widgets, Sequences, WellFoundedInduction, TLAPS

-----------------------------------------------------------------------------
(***************************************************************************)
(* Handlers that run in turn.                                              *)
(***************************************************************************)
LEMMA LeastNumber ==
  ASSUME NEW S, S \subseteq Nat, S # {}
  PROVE  \E x \in S : \A y \in S : x <= y
<1>1. PICK x \in S : \A y \in S : <<y, x>> \notin OpToRel(<, Nat)
  BY NatLessThanWellFounded, WFMin, Zenon
<1>2. \A y \in S : ~(y < x)
  BY <1>1 DEF OpToRel
<1> QED BY <1>2

\* What every run keeps, from the k-th on, holds after the last.
LEMMA Stays ==
  ASSUME NEW n \in Nat, NEW k \in 0 .. n, NEW D, NEW f, f[k] \in D,
         \A i \in k + 1 .. n : f[i - 1] \in D => f[i] \in D
  PROVE  f[n] \in D
<1> DEFINE S == {i \in k .. n : f[i] \notin D}
<1> SUFFICES ASSUME S # {} PROVE FALSE
  OBVIOUS
<1>0. S \subseteq Nat
  OBVIOUS
<1> HIDE DEF S
<1>1. PICK x \in S : \A y \in S : x <= y
  BY <1>0, LeastNumber
<1>2. x \in k + 1 .. n /\ x - 1 \in k .. n
  BY DEF S
<1>3. x - 1 \notin S
  BY <1>1, <1>2
<1> QED BY <1>2, <1>3 DEF S

\* The i-th of n runs makes G[i][d] of d; none leaves D.
IsRun(f, n, D, s, G) ==
  f \in [0 .. n -> D] /\ f[0] = s /\ \A i \in 1 .. n : f[i] = G[i][f[i - 1]]

LEMMA RunsExist ==
  ASSUME NEW n \in Nat, NEW D, NEW s \in D, NEW G \in [1 .. n -> [D -> D]]
  PROVE  \E f : IsRun(f, n, D, s, G)
<1> DEFINE Runs(m, f) == f[0] = s /\ \A i \in 1 .. m : f[i] = G[i][f[i - 1]]
           S == {m \in 0 .. n : ~\E f \in [0 .. m -> D] : Runs(m, f)}
<1>8. SUFFICES S = {}
  <2>1. n \in 0 .. n /\ n \notin S
    BY <1>8
  <2>2. \E f \in [0 .. n -> D] : Runs(n, f)
    BY <2>1
  <2> QED BY <2>2 DEF IsRun
<1> SUFFICES ASSUME S # {} PROVE FALSE
  OBVIOUS
<1>0. S \subseteq Nat
  OBVIOUS
<1>1. PICK x \in S : \A y \in S : x <= y
  <2> HIDE DEF S
  <2> QED BY <1>0, LeastNumber
<1>2. x # 0
  <2>1. [i \in 0 .. 0 |-> s] \in [0 .. 0 -> D] /\ Runs(0, [i \in 0 .. 0 |-> s])
    OBVIOUS
  <2> QED BY <2>1
<1>3. x \in 1 .. n /\ x - 1 \in 0 .. n
  BY <1>2
<1>4. PICK f \in [0 .. x - 1 -> D] : Runs(x - 1, f)
  <2>1. x - 1 \notin S
    <3> HIDE DEF S
    <3> QED BY <1>0, <1>1, <1>3
  <2> HIDE DEF Runs
  <2> QED BY <1>3, <2>1
<1> DEFINE g == [i \in 0 .. x |-> IF i = x THEN G[x][f[x - 1]] ELSE f[i]]
<1>5. g \in [0 .. x -> D]
  BY <1>3, <1>4
<1>6. Runs(x, g)
  <2>1. g[0] = s
    BY <1>3, <1>4
  <2>2. ASSUME NEW i \in 1 .. x PROVE g[i] = G[i][g[i - 1]]
    <3>1. i - 1 \in 0 .. x - 1 /\ g[i - 1] = f[i - 1]
      BY <1>3
    <3>2. CASE i = x
      BY <3>1, <3>2
    <3>3. CASE i # x
      <4>1. i \in 1 .. x - 1 /\ i \in 0 .. x
        BY <3>3, <1>3
      <4>2. g[i] = f[i]
        BY <3>3, <4>1
      <4>3. f[i] = G[i][f[i - 1]]
        BY <4>1, <1>4
      <4> QED BY <3>1, <4>2, <4>3
    <3> QED BY <3>2, <3>3
  <2> QED BY <2>1, <2>2
<1>7. x \notin S
  BY <1>3, <1>5, <1>6
<1> QED BY <1>1, <1>7

-----------------------------------------------------------------------------
(***************************************************************************)
(* Carousel.                                                               *)
(***************************************************************************)
Slide ==
  [active : Slides!Item, next : Slides!Item \cup {None}, paused : BOOLEAN, interval : 0 .. 9,
   live : SUBSET (1 .. 9), waiting : Seq(Slides!Item), slid : Nat, still : BOOLEAN,
   cycles : BOOLEAN, hover : BOOLEAN, wrap : BOOLEAN, transition : BOOLEAN]

\* A carousel that stands still under the mouse has no timer to start anew.
SlidesOK ==
  {s \in Slide : /\ s.live \subseteq {s.interval}
                 /\ s.still => s.interval = 0
                 /\ s.waiting # <<>> => s.next # None \/ s.slid > 0}

LEMMA SlidesHandle ==
  ASSUME NEW s \in SlidesOK
  PROVE  Slides!NewHandle(s) \in 1 .. 9
<1>1. \E h \in 1 .. 9 : h \notin s.live \cup {s.interval}
  <2>1. s.interval = 1 => 2 \notin s.live \cup {s.interval}
    BY DEF SlidesOK
  <2>2. s.interval # 1 => 1 \notin s.live \cup {s.interval}
    BY DEF SlidesOK
  <2> QED BY <2>1, <2>2
<1> QED BY <1>1 DEF Slides!NewHandle

\* What cycle, pause and slide leave alone.
SameCalls(t, s) == t.waiting = s.waiting /\ t.slid = s.slid /\ t.active = s.active
                   /\ t.cycles = s.cycles /\ t.transition = s.transition

LEMMA SlidesCycle ==
  ASSUME NEW s \in SlidesOK, NEW e \in BOOLEAN
  PROVE  LET t == Slides!cycle(s, e)
         IN /\ t \in Slide /\ t.live \subseteq {t.interval}
            /\ SameCalls(t, s) /\ t.next = s.next /\ t.still = s.still
<1> DEFINE h == Slides!NewHandle(s)
           r == [s EXCEPT !.paused = e /\ @, !.live = @ \ {s.interval}]
           u == [r EXCEPT !.interval = h, !.live = @ \cup {h}]
<1>1. h \in 1 .. 9
  BY SlidesHandle
<1>2. s \in Slide /\ s.live \ {s.interval} = {}
  BY DEF SlidesOK
<1>3. r \in Slide /\ r.live = {} /\ r.interval = s.interval /\ r.still = s.still
      /\ SameCalls(r, s) /\ r.next = s.next
  <2> HIDE DEF h
  <2> QED BY <1>2 DEF Slide, SameCalls
<1>4. u \in Slide /\ u.live = {h} /\ u.interval = h /\ u.still = s.still
      /\ SameCalls(u, s) /\ u.next = s.next
  <2> HIDE DEF h, r
  <2>1. r.live \cup {h} = {h} /\ {h} \in SUBSET (1 .. 9) /\ h \in 0 .. 9
    BY <1>1, <1>3
  <2>2. u = [r EXCEPT !.interval = h, !.live = {h}]
    BY <2>1
  <2> QED BY <1>3, <2>1, <2>2 DEF Slide, SameCalls
<1>5. Slides!cycle(s, e) \in {r, u}
  BY DEF Slides!cycle
<1> HIDE DEF h, r, u
<1> QED BY <1>3, <1>4, <1>5

LEMMA SlidesPause ==
  ASSUME NEW s \in SlidesOK, NEW e \in BOOLEAN
  PROVE  LET t == Slides!pause(s, e)
         IN /\ t \in SlidesOK /\ t.live = {} /\ t.interval = 0
            /\ SameCalls(t, s) /\ t.next = s.next /\ t.still = s.still
<1> DEFINE r == [s EXCEPT !.paused = @ \/ ~e]
           u == IF s.next # None THEN Slides!cycle(r, TRUE) ELSE r
           t == [u EXCEPT !.live = @ \ {u.interval}, !.interval = 0]
<1>1. r \in SlidesOK /\ SameCalls(r, s) /\ r.next = s.next /\ r.still = s.still
  BY DEF SlidesOK, Slide, SameCalls
<1>2. u \in Slide /\ u.live \subseteq {u.interval}
      /\ SameCalls(u, s) /\ u.next = s.next /\ u.still = s.still
  <2> HIDE DEF r
  <2>1. CASE s.next = None
    BY <1>1, <2>1 DEF SlidesOK
  <2>2. CASE s.next # None
    <3>1. /\ u \in Slide /\ u.live \subseteq {u.interval}
          /\ SameCalls(u, r) /\ u.next = r.next /\ u.still = r.still
      BY <1>1, <2>2, SlidesCycle
    <3> QED BY <1>1, <3>1 DEF SameCalls
  <2> QED BY <2>1, <2>2
<1>3. t \in Slide /\ t.live = {} /\ t.interval = 0
      /\ SameCalls(t, s) /\ t.next = s.next /\ t.still = s.still
  <2> HIDE DEF u
  <2>0. u.live \ {u.interval} = {} /\ 0 \in 0 .. 9 /\ {} \in SUBSET (1 .. 9)
    BY <1>2
  <2>1. t = [u EXCEPT !.live = {}, !.interval = 0]
    BY <2>0, Zenon
  <2> HIDE DEF t
  <2> QED BY <1>2, <2>0, <2>1 DEF Slide, SameCalls
<1>4. t \in SlidesOK
  <2> HIDE DEF t
  <2> QED BY <1>3 DEF SlidesOK, SameCalls
<1> QED BY <1>3, <1>4 DEF Slides!pause

\* Every step but the mouse's leaves the history of the mouse alone, or ends it.
LEMMA SlidesSlide ==
  ASSUME NEW s \in SlidesOK, NEW item \in Slides!Item, NEW veto
  PROVE  LET t == Slides!slide(s, item, veto)
         IN t \in SlidesOK /\ t.waiting = s.waiting
<1> DEFINE p == IF s.interval # 0 THEN Slides!pause(s, FALSE) ELSE s
           t == IF s.transition THEN [p EXCEPT !.next = item] ELSE [p EXCEPT !.active = item]
<1>1. p \in SlidesOK /\ SameCalls(p, s) /\ p.next = s.next /\ p.still = s.still
  BY SlidesPause DEF SameCalls
<1>2. t \in SlidesOK /\ t.waiting = s.waiting /\ t.still = s.still
  <2> HIDE DEF p
  <2>1. item # None
    BY CarouselAssumption, AffixAssumption DEF Slides!Item
  <2> QED BY <1>1, <2>1 DEF SlidesOK, Slide, SameCalls
<1>3. s.interval # 0 =>
        Slides!cycle(t, FALSE) \in SlidesOK /\ Slides!cycle(t, FALSE).waiting = s.waiting
  <2> DEFINE u == Slides!cycle(t, FALSE)
  <2> SUFFICES ASSUME s.interval # 0 PROVE u \in SlidesOK /\ u.waiting = s.waiting
    OBVIOUS
  <2> HIDE DEF t
  <2>1. /\ u \in Slide /\ u.live \subseteq {u.interval}
        /\ SameCalls(u, t) /\ u.next = t.next /\ u.still = t.still
    BY <1>2, SlidesCycle
  <2>2. ~u.still
    BY <1>2, <2>1 DEF SlidesOK
  <2> HIDE DEF u
  <2> QED BY <1>2, <2>1, <2>2 DEF SlidesOK, SameCalls
<1> QED BY <1>2, <1>3 DEF Slides!slide

LEMMA SlidesRestart ==
  ASSUME NEW s \in SlidesOK
  PROVE  Slides!Restart(s) \in SlidesOK /\ Slides!Restart(s).waiting = s.waiting
<1> DEFINE p == Slides!pause(s, FALSE)
           u == Slides!cycle(p, FALSE)
<1>1. p \in SlidesOK /\ SameCalls(p, s) /\ p.next = s.next
  BY SlidesPause
<1>2. u \in Slide /\ u.live \subseteq {u.interval} /\ SameCalls(u, p) /\ u.next = p.next
  <2> HIDE DEF p
  <2> QED BY <1>1, SlidesCycle
<1> HIDE DEF p, u
<1>3. [u EXCEPT !.still = FALSE] \in SlidesOK /\ [u EXCEPT !.still = FALSE].waiting = s.waiting
  BY <1>1, <1>2 DEF SlidesOK, SameCalls, Slide
<1> QED BY <1>3 DEF Slides!Restart, p, u

LEMMA SlidesTo ==
  ASSUME NEW s \in SlidesOK, NEW pos \in Slides!Item, NEW veto
  PROVE  Slides!to(s, pos, veto) \in SlidesOK
<1>1. CASE s.next # None
  <2>1. [s EXCEPT !.waiting = Append(@, pos)] \in SlidesOK
    <3>1. Append(s.waiting, pos) \in Seq(Slides!Item)
      BY DEF SlidesOK, Slide
    <3> QED BY <1>1, <3>1 DEF SlidesOK, Slide
  <2> QED BY <1>1, <2>1 DEF Slides!to
<1>2. CASE s.next = None
  BY <1>2, SlidesRestart, SlidesSlide DEF Slides!to
<1> QED BY <1>1, <1>2

LEMMA SlidesDirection ==
  ASSUME NEW s \in SlidesOK, NEW type \in {"next", "prev"}
  PROVE  Slides!getItemForDirection(s, type) \in Slides!Item
BY CarouselAssumption DEF Slides!getItemForDirection, SlidesOK, Slide, Slides!Item

LEMMA SlidesMoves ==
  ASSUME NEW s \in SlidesOK, NEW type \in {"next", "prev"}, NEW veto
  PROVE  Slides!Moves(s, type, veto) \in SlidesOK
BY SlidesDirection, SlidesSlide DEF Slides!Moves

\* The calls that waited are made in turn.
LEMMA SlidesInTurn ==
  ASSUME NEW s \in SlidesOK, NEW calls \in Seq(Slides!Item), NEW veto
  PROVE  LET ran[i \in 0 .. Len(calls)] ==
               IF i = 0 THEN s ELSE Slides!to(ran[i - 1], calls[i], veto)
         IN ran[Len(calls)] \in SlidesOK
<1> DEFINE n == Len(calls)
           G == [i \in 1 .. n |-> [t \in SlidesOK |-> Slides!to(t, calls[i], veto)]]
           Eq(f) == f = [i \in 0 .. n |-> IF i = 0 THEN s ELSE Slides!to(f[i - 1], calls[i], veto)]
           ran == CHOOSE f : Eq(f)
<1>1. n \in Nat /\ \A i \in 1 .. n : calls[i] \in Slides!Item
  OBVIOUS
<1>2. G \in [1 .. n -> [SlidesOK -> SlidesOK]]
  BY <1>1, SlidesTo
<1>3. PICK f : IsRun(f, n, SlidesOK, s, G)
  <2> HIDE DEF n, G
  <2> QED BY <1>1, <1>2, RunsExist
<1>4. Eq(f)
  <2>1. ASSUME NEW i \in 1 .. n PROVE f[i] = Slides!to(f[i - 1], calls[i], veto)
    BY <1>3 DEF IsRun
  <2> HIDE DEF n
  <2>2. \A i \in 0 .. n : f[i] = IF i = 0 THEN s ELSE Slides!to(f[i - 1], calls[i], veto)
    BY <1>1, <1>3, <2>1 DEF IsRun
  <2> QED BY <1>3, <2>2 DEF IsRun
<1>5. Eq(ran)
  <2> HIDE DEF Eq
  <2> QED BY <1>4
<1>6. ran[0] \in SlidesOK
  <2> HIDE DEF n, ran
  <2> QED BY <1>1, <1>5
<1>7. \A i \in 1 .. n : ran[i - 1] \in SlidesOK => ran[i] \in SlidesOK
  <2> HIDE DEF ran
  <2> QED BY <1>1, <1>5, SlidesTo
<1>8. ran[n] \in SlidesOK
  <2> HIDE DEF ran, n
  <2> QED BY <1>1, <1>6, <1>7, Stays
<1> QED BY <1>8

LEMMA SlidesInit == Slides!Init => widget \in SlidesOK
<1> SUFFICES ASSUME Slides!Init PROVE widget \in SlidesOK
  OBVIOUS
<1>1. PICK cycles \in BOOLEAN, hover \in BOOLEAN, wrap \in BOOLEAN, transition \in BOOLEAN,
           ride \in BOOLEAN :
        LET made == [active |-> 0, next |-> None, paused |-> FALSE, interval |-> 0, live |-> {},
                     waiting |-> <<>>, slid |-> 0, still |-> FALSE, cycles |-> cycles,
                     hover |-> hover, wrap |-> wrap, transition |-> transition]
        IN widget = IF ride /\ cycles THEN Slides!Restart(made) ELSE made
  BY DEF Slides!Init
<1> DEFINE made == [active |-> 0, next |-> None, paused |-> FALSE, interval |-> 0, live |-> {},
                    waiting |-> <<>>, slid |-> 0, still |-> FALSE, cycles |-> cycles,
                    hover |-> hover, wrap |-> wrap, transition |-> transition]
<1>2. made \in SlidesOK
  BY CarouselAssumption DEF SlidesOK, Slide, Slides!Item
<1>3. widget \in {made, Slides!Restart(made)}
  BY <1>1
<1> HIDE DEF made
<1> QED BY <1>2, <1>3, SlidesRestart

LEMMA SlidesStep == widget \in SlidesOK /\ Slides!Next => widget' \in SlidesOK
<1> SUFFICES ASSUME widget \in SlidesOK, Slides!Next PROVE widget' \in SlidesOK
  OBVIOUS
<1>1. CASE Slides!Move \/ Slides!Tick
  BY <1>1, SlidesMoves DEF Slides!Move, Slides!Tick
<1>2. CASE Slides!To
  BY <1>2, SlidesTo DEF Slides!To
\* Without the mouse: cycle ends the history, pause keeps what it says.
<1>3. ASSUME NEW e \in BOOLEAN
      PROVE  /\ [Slides!cycle(widget, e) EXCEPT !.still = FALSE] \in SlidesOK
             /\ Slides!pause(widget, e) \in SlidesOK
             /\ [Slides!pause(widget, e) EXCEPT !.still = TRUE] \in SlidesOK
  <2> DEFINE t == Slides!cycle(widget, e)
             u == Slides!pause(widget, e)
  <2>1. /\ t \in Slide /\ t.live \subseteq {t.interval}
        /\ SameCalls(t, widget) /\ t.next = widget.next
    BY SlidesCycle
  <2>2. u \in SlidesOK /\ u.interval = 0
    BY SlidesPause
  <2> HIDE DEF t, u
  <2>3. [t EXCEPT !.still = FALSE] \in SlidesOK
    BY <2>1 DEF SlidesOK, Slide, SameCalls
  <2>4. [u EXCEPT !.still = TRUE] \in SlidesOK
    BY <2>2 DEF SlidesOK, Slide
  <2> QED BY <2>2, <2>3, <2>4 DEF t, u
<1>4. CASE Slides!Call
  BY <1>3, <1>4, SlidesRestart DEF Slides!Call
<1>5. CASE Slides!Mouse
  BY <1>3, <1>5 DEF Slides!Mouse
<1>6. CASE Slides!Ends
  <2>1. widget \in Slide /\ widget.live \subseteq {widget.interval}
        /\ (widget.still => widget.interval = 0)
    BY DEF SlidesOK
  <2>2. widget.slid + 1 \in Nat /\ widget.slid + 1 > 0 /\ widget.next \in Slides!Item
    BY <1>6, <2>1 DEF Slides!Ends, Slide
  <2>3. widget' = [widget EXCEPT !.active = widget.next, !.next = None, !.slid = widget.slid + 1]
    BY <1>6 DEF Slides!Ends
  <2>4. widget' \in Slide /\ widget'.live = widget.live /\ widget'.interval = widget.interval
        /\ widget'.still = widget.still /\ widget'.slid > 0
    BY <2>1, <2>2, <2>3 DEF Slide
  <2> QED BY <2>1, <2>4 DEF SlidesOK
<1>7. CASE Slides!Slid
  <2> DEFINE s == [widget EXCEPT !.slid = @ - 1, !.waiting = <<>>]
  <2>1. PICK veto \in Slides!Vetoes :
          /\ widget.slid > 0
          /\ widget' = LET ran[i \in 0 .. Len(widget.waiting)] ==
                            IF i = 0 THEN s ELSE Slides!to(ran[i - 1], widget.waiting[i], veto)
                      IN ran[Len(widget.waiting)]
    BY <1>7, Zenon DEF Slides!Slid, Slides!InTurn
  <2>2. widget \in Slide /\ widget.live \subseteq {widget.interval}
        /\ (widget.still => widget.interval = 0) /\ widget.waiting \in Seq(Slides!Item)
    BY DEF SlidesOK, Slide
  <2>3. widget.slid - 1 \in Nat /\ <<>> \in Seq(Slides!Item)
    BY <2>1, <2>2 DEF Slide
  <2>4. s \in SlidesOK
    BY <2>2, <2>3 DEF SlidesOK, Slide
  <2> HIDE DEF s
  <2> QED BY <2>1, <2>2, <2>4, SlidesInTurn
<1> QED BY <1>1, <1>2, <1>4, <1>5, <1>6, <1>7 DEF Slides!Next

LEMMA SlidesKept == Spec => [](plugin = "carousel" => widget \in SlidesOK)
<1> DEFINE Inv == plugin = "carousel" => widget \in SlidesOK
<1>1. Init => Inv
  BY SlidesInit DEF Init
<1>2. Inv /\ [Next]_<<plugin, widget>> => Inv'
  BY SlidesStep DEF Next
<1> QED BY <1>1, <1>2, PTL DEF Spec

\* Whatever starts and stops it, a carousel has one timer at most and knows it
\* (cycle, pause and slide of carousel.js).
THEOREM CarouselOneTimer == Spec => []OneTimer
<1>1. (plugin = "carousel" => widget \in SlidesOK) => OneTimer
  BY DEF SlidesOK, OneTimer, Slides!OneTimer
<1> QED BY <1>1, SlidesKept, PTL

\* Under the mouse it does not move on its own, even if the mouse came while an
\* item slid (the mouseenter handler of carousel.js).
THEOREM CarouselStill == Spec => []StillUnderMouse
<1>1. (plugin = "carousel" => widget \in SlidesOK) => StillUnderMouse
  BY DEF SlidesOK, Slide, StillUnderMouse, Slides!StillUnderMouse
<1> QED BY <1>1, SlidesKept, PTL

\* No call of to is forgotten: while one waits, a 'slid' event is to come (to of
\* carousel.js).
THEOREM CarouselHears == Spec => []ToIsHeard
<1>1. (plugin = "carousel" => widget \in SlidesOK) => ToIsHeard
  BY DEF SlidesOK, ToIsHeard, Slides!ToIsHeard
<1> QED BY <1>1, SlidesKept, PTL

-----------------------------------------------------------------------------
(***************************************************************************)
(* Alert.                                                                  *)
(***************************************************************************)
AlertBox ==
  [shown : SUBSET Box, bound : SUBSET Box, listens : SUBSET Box, target : [Box -> SUBSET Box],
   fade : SUBSET Box, transition : BOOLEAN, ending : [Box -> Seq(SUBSET Box)],
   told : [Box -> Nat], dismissed : SUBSET Box]

\* All dismissed boxes that are still shown, but for those in late, wait to go; a
\* handler of a box removes that box, among others.
AlertsOK(late) ==
  {s \in AlertBox :
     /\ s.listens = s.shown
     /\ \A b \in Box :
          /\ s.told[b] = IF b \in s.shown THEN 0 ELSE 1
          /\ \A i \in 1 .. Len(s.ending[b]) : b \in s.ending[b][i]
          /\ b \in (s.dismissed \cap s.shown) \ late => s.ending[b] # <<>>}

LEMMA AlertsInit == Alerts!Init => widget \in AlertsOK({})
BY DEF Alerts!Init, AlertsOK, AlertBox

\* Boxes that are removed are late no more.
LEMMA AlertsRemove ==
  ASSUME NEW late, NEW s \in AlertsOK(late), NEW boxes \in SUBSET Box
  PROVE  Alerts!removeElement(s, boxes) \in AlertsOK(late \ boxes)
<1> DEFINE told == [b \in Box |-> IF b \in boxes \cap s.listens THEN s.told[b] + 1 ELSE s.told[b]]
           ending == [b \in Box |-> IF b \in boxes THEN <<>> ELSE s.ending[b]]
           t == [s EXCEPT !.shown = s.shown \ boxes, !.told = told,
                          !.listens = s.listens \ boxes, !.ending = ending]
<1>1. s \in AlertBox /\ s.listens = s.shown
  BY DEF AlertsOK
<1>2. told \in [Box -> Nat] /\ ending \in [Box -> Seq(SUBSET Box)]
  BY <1>1 DEF AlertBox
<1>3. t \in AlertBox /\ t.shown = s.shown \ boxes /\ t.listens = t.shown /\ t.told = told
      /\ t.ending = ending /\ t.dismissed = s.dismissed
  <2> HIDE DEF told, ending
  <2> QED BY <1>1, <1>2 DEF AlertBox
<1>4. ASSUME NEW b \in Box
      PROVE  /\ told[b] = IF b \in t.shown THEN 0 ELSE 1
             /\ \A i \in 1 .. Len(ending[b]) : b \in ending[b][i]
             /\ b \in (t.dismissed \cap t.shown) \ (late \ boxes) => ending[b] # <<>>
  <2> HIDE DEF t
  <2> QED BY <1>1, <1>3 DEF AlertsOK
<1>5. t \in AlertsOK(late \ boxes)
  <2> HIDE DEF t, told, ending
  <2> QED BY <1>3, <1>4 DEF AlertsOK
<1> QED BY <1>5, Zenon DEF Alerts!removeElement

LEMMA AlertsClose ==
  ASSUME NEW s \in AlertsOK({}), NEW b \in Box, NEW veto \in BOOLEAN
  PROVE  Alerts!close(s, b, veto) \in AlertsOK({}) /\ Alerts!close(s, b, veto).target = s.target
<1> DEFINE found == s.target[b] \cap s.shown
           boxes == IF found = {} THEN {b} ELSE found
           t == [s EXCEPT !.dismissed = s.dismissed \cup boxes]
           ending == [c \in Box |-> IF c \in boxes THEN Append(t.ending[c], boxes) ELSE t.ending[c]]
           u == [t EXCEPT !.ending = ending]
<1>1. boxes \in SUBSET Box
  BY DEF AlertsOK, AlertBox
<1>2. t \in AlertsOK(boxes) /\ t.target = s.target
  <2> HIDE DEF boxes
  <2> QED BY <1>1 DEF AlertsOK, AlertBox
<1>3. Alerts!removeElement(t, boxes) \in AlertsOK({}) /\ Alerts!removeElement(t, boxes).target = s.target
  <2> HIDE DEF boxes, t
  <2>1. boxes \ boxes = {}
    OBVIOUS
  <2>2. Alerts!removeElement(t, boxes).target = t.target
    BY <1>2 DEF Alerts!removeElement, AlertsOK, AlertBox
  <2> QED BY <1>1, <1>2, <2>1, <2>2, AlertsRemove
<1>4. u \in AlertsOK({}) /\ u.target = s.target
  <2> HIDE DEF boxes, t
  <2>1. t \in AlertBox /\ t.listens = t.shown
    BY <1>2 DEF AlertsOK
  <2>2. ending \in [Box -> Seq(SUBSET Box)]
    BY <1>1, <2>1 DEF AlertBox
  <2>3. ASSUME NEW c \in Box
        PROVE  /\ \A i \in 1 .. Len(ending[c]) : c \in ending[c][i]
               /\ c \in (t.dismissed \cap t.shown) \ {} => ending[c] # <<>>
               /\ t.told[c] = IF c \in t.shown THEN 0 ELSE 1
    <3>1. t.ending[c] \in Seq(SUBSET Box)
      BY <2>1 DEF AlertBox
    <3>2. /\ \A i \in 1 .. Len(t.ending[c]) : c \in t.ending[c][i]
          /\ c \in (t.dismissed \cap t.shown) \ boxes => t.ending[c] # <<>>
          /\ t.told[c] = IF c \in t.shown THEN 0 ELSE 1
      BY <1>2 DEF AlertsOK
    <3> QED BY <1>1, <3>1, <3>2
  <2> HIDE DEF ending
  <2>4. u \in AlertBox /\ u.listens = u.shown /\ u.ending = ending /\ u.told = t.told
        /\ u.shown = t.shown /\ u.dismissed = t.dismissed /\ u.target = t.target
    BY <2>1, <2>2 DEF AlertBox
  <2> HIDE DEF u
  <2> QED BY <1>2, <2>3, <2>4 DEF AlertsOK
<1>5. Alerts!close(s, b, veto) \in {s, u, Alerts!removeElement(t, boxes)}
  BY Zenon DEF Alerts!close
<1> HIDE DEF t, u, boxes
<1> QED BY <1>3, <1>4, <1>5

\* The handlers of b: the first removes b, the others leave it so.
LEMMA AlertsInTurn ==
  ASSUME NEW b \in Box, NEW s \in AlertsOK({b}), NEW handlers \in Seq(SUBSET Box),
         handlers # <<>>, \A i \in 1 .. Len(handlers) : b \in handlers[i]
  PROVE  LET ran[i \in 0 .. Len(handlers)] ==
               IF i = 0 THEN s ELSE Alerts!removeElement(ran[i - 1], handlers[i])
         IN ran[Len(handlers)] \in AlertsOK({})
<1> DEFINE n == Len(handlers)
           D == AlertsOK({b})
           G == [i \in 1 .. n |-> [t \in D |-> Alerts!removeElement(t, handlers[i])]]
           Eq(f) == f = [i \in 0 .. n |-> IF i = 0 THEN s
                                         ELSE Alerts!removeElement(f[i - 1], handlers[i])]
           ran == CHOOSE f : Eq(f)
<1>1. n \in Nat /\ 1 \in 0 .. n /\ \A i \in 1 .. n : handlers[i] \in SUBSET Box /\ b \in handlers[i]
  OBVIOUS
<1>2. ASSUME NEW t \in D, NEW i \in 1 .. n
      PROVE  Alerts!removeElement(t, handlers[i]) \in AlertsOK({})
  <2>1. {b} \ handlers[i] = {}
    BY <1>1
  <2> HIDE DEF n
  <2> QED BY <1>1, <2>1, AlertsRemove
<1>3. s \in D /\ AlertsOK({}) \subseteq D
  BY DEF AlertsOK
<1>4. G \in [1 .. n -> [D -> D]]
  <2> HIDE DEF D, n
  <2> QED BY <1>2, <1>3
<1>5. PICK f : IsRun(f, n, D, s, G)
  <2> HIDE DEF n, G
  <2> QED BY <1>1, <1>4, RunsExist
<1>6. Eq(f)
  <2>1. ASSUME NEW i \in 1 .. n PROVE f[i] = Alerts!removeElement(f[i - 1], handlers[i])
    <3> HIDE DEF n, D
    <3>1. f[i - 1] \in D /\ f[i] = G[i][f[i - 1]]
      BY <1>1, <1>5 DEF IsRun
    <3> QED BY <3>1
  <2> HIDE DEF n
  <2>2. \A i \in 0 .. n : f[i] = IF i = 0 THEN s ELSE Alerts!removeElement(f[i - 1], handlers[i])
    BY <1>1, <1>5, <2>1 DEF IsRun
  <2> QED BY <1>5, <2>2 DEF IsRun
<1>7. Eq(ran)
  <2> HIDE DEF Eq
  <2> QED BY <1>6
<1>8. ran[0] = s /\ \A i \in 1 .. n : ran[i] = Alerts!removeElement(ran[i - 1], handlers[i])
  <2> HIDE DEF n, ran
  <2> QED BY <1>1, <1>7
<1>9. ran[1] \in AlertsOK({})
  <2> HIDE DEF n, ran, D
  <2> QED BY <1>1, <1>2, <1>3, <1>8
<1>10. \A i \in 2 .. n : ran[i - 1] \in AlertsOK({}) => ran[i] \in AlertsOK({})
  <2> HIDE DEF n, ran, D
  <2> QED BY <1>1, <1>2, <1>3, <1>8
<1>11. ran[n] \in AlertsOK({})
  <2> HIDE DEF ran, n
  <2> QED BY <1>1, <1>9, <1>10, Stays
<1> QED BY <1>11

LEMMA AlertsStep == widget \in AlertsOK({}) /\ Alerts!Next => widget' \in AlertsOK({})
<1> SUFFICES ASSUME widget \in AlertsOK({}), NEW b \in Box,
                    Alerts!Dismiss(b) \/ Alerts!Call(b) \/ Alerts!Ends(b)
             PROVE  widget' \in AlertsOK({})
  BY DEF Alerts!Next
<1>1. CASE Alerts!Dismiss(b)
  <2>1. PICK vetoes \in [{1, 2} -> BOOLEAN] :
          widget' = Alerts!close(IF b \in widget.bound THEN Alerts!close(widget, b, vetoes[1]) ELSE widget,
                                 b, vetoes[2])
    BY <1>1 DEF Alerts!Dismiss
  <2>2. vetoes[1] \in BOOLEAN /\ vetoes[2] \in BOOLEAN
    OBVIOUS
  <2> QED BY <2>1, <2>2, AlertsClose
<1>2. CASE Alerts!Call(b)
  <2> DEFINE s == [widget EXCEPT !.bound = @ \cup {b}]
             own == [s EXCEPT !.target[b] = {b}]
  <2>1. s \in AlertsOK({}) /\ s.target \in [Box -> SUBSET Box]
    BY DEF AlertsOK, AlertBox
  <2>2. own \in AlertsOK({})
    <3> HIDE DEF s
    <3>1. [s.target EXCEPT ![b] = {b}] \in [Box -> SUBSET Box]
      BY <2>1
    <3> QED BY <2>1, <3>1 DEF AlertsOK, AlertBox
  <2>3. ASSUME NEW veto \in BOOLEAN
        PROVE  [Alerts!close(own, b, veto) EXCEPT !.target = s.target] \in AlertsOK({})
    <3> DEFINE t == Alerts!close(own, b, veto)
    <3>1. t \in AlertsOK({})
      <4> HIDE DEF own
      <4> QED BY <2>2, AlertsClose
    <3>2. [t EXCEPT !.target = s.target] \in AlertsOK({})
      <4> HIDE DEF s, t
      <4> QED BY <2>1, <3>1 DEF AlertsOK, AlertBox
    <3> QED BY <3>2
  <2>4. widget' = s \/ \E veto \in BOOLEAN :
                         widget' = [Alerts!close(own, b, veto) EXCEPT !.target = s.target]
    BY <1>2, Zenon DEF Alerts!Call
  <2> HIDE DEF s, own
  <2> QED BY <2>1, <2>3, <2>4
<1>3. CASE Alerts!Ends(b)
  <2> DEFINE s == [widget EXCEPT !.ending[b] = <<>>]
             handlers == widget.ending[b]
  <2>1. /\ handlers # <<>>
        /\ widget' = LET ran[i \in 0 .. Len(handlers)] ==
                          IF i = 0 THEN s ELSE Alerts!removeElement(ran[i - 1], handlers[i])
                    IN ran[Len(handlers)]
    BY <1>3, Zenon DEF Alerts!Ends, Alerts!TransitionEnd, Alerts!InTurn
  <2>2. widget \in AlertBox /\ widget.listens = widget.shown
    BY DEF AlertsOK
  <2>3. handlers \in Seq(SUBSET Box) /\ \A i \in 1 .. Len(handlers) : b \in handlers[i]
    BY <2>2 DEF AlertsOK, AlertBox
  <2>4. s \in AlertsOK({b})
    <3>1. [widget.ending EXCEPT ![b] = <<>>] \in [Box -> Seq(SUBSET Box)]
      BY <2>2 DEF AlertBox
    <3>2. /\ s \in AlertBox /\ s.listens = s.shown /\ s.shown = widget.shown
          /\ s.dismissed = widget.dismissed /\ s.told = widget.told
          /\ s.ending[b] = <<>> /\ \A c \in Box \ {b} : s.ending[c] = widget.ending[c]
      BY <2>2, <3>1 DEF AlertBox
    <3> HIDE DEF s
    <3> QED BY <3>2 DEF AlertsOK
  <2> HIDE DEF s, handlers
  <2> QED BY <2>1, <2>3, <2>4, AlertsInTurn
<1> QED BY <1>1, <1>2, <1>3

\* However often a box is dismissed while it fades, by its own button and by
\* others, the page hears once that it is gone, and one that was dismissed goes
\* (close and removeElement of alert.js).
THEOREM AlertsClosedOnce == Spec => []ClosedOnce
<1> DEFINE Inv == plugin = "alert" => widget \in AlertsOK({})
<1>1. Init => Inv
  BY AlertsInit DEF Init
<1>2. Inv /\ [Next]_<<plugin, widget>> => Inv'
  BY AlertsStep DEF Next
<1>3. Inv => ClosedOnce
  BY DEF AlertsOK, ClosedOnce, Alerts!ClosedOnce
<1> QED BY <1>1, <1>2, <1>3, PTL DEF Spec

-----------------------------------------------------------------------------
(***************************************************************************)
(* Tab.                                                                    *)
(***************************************************************************)
Swap == [to : Pane, from : SUBSET Pane, animated : BOOLEAN]

TabList ==
  [item : SUBSET Pane, active : SUBSET Pane, in : SUBSET Pane, fade : SUBSET Pane,
   ending : [Pane -> Seq(Swap)], transition : BOOLEAN, hurried : BOOLEAN]

\* Pane p is there, or fades in when q has faded out.
ShowsPane(s, p) ==
  /\ s.item = {p} /\ s.active = {p} /\ (p \in s.fade => p \in s.in)
  /\ \A r \in Pane : s.ending[r] = <<>>

FadesTo(s, p, q) ==
  /\ s.item = {p} /\ s.active = {q}
  /\ s.ending[q] = <<[to |-> p, from |-> {q}, animated |-> TRUE]>>
  /\ \A r \in Pane \ {q} : s.ending[r] = <<>>

TabsOK(s) ==
  /\ s \in TabList
  /\ \/ s.hurried
     \/ \E p \in Pane : ShowsPane(s, p)
     \/ \E p, q \in Pane : FadesTo(s, p, q)

LEMMA TabsFading ==
  ASSUME NEW s, NEW p, NEW q, FadesTo(s, p, q)
  PROVE  s.ending[q] # <<>>
<1> DEFINE h == [to |-> p, from |-> {q}, animated |-> TRUE]
<1>1. s.ending[q] = <<h>>
  BY DEF FadesTo
<1> HIDE DEF h
<1> QED BY <1>1

LEMMA TabsInit == Tabs!Init => TabsOK(widget)
<1> SUFFICES ASSUME NEW p \in Pane, NEW fade \in {{}, Pane}, NEW transition \in BOOLEAN,
                    widget = [item |-> {p}, active |-> {p}, in |-> {p} \cap fade, fade |-> fade,
                              ending |-> [q \in Pane |-> <<>>], transition |-> transition,
                              hurried |-> FALSE]
             PROVE  TabsOK(widget)
  BY DEF Tabs!Init
<1>1. ShowsPane(widget, p)
  BY DEF ShowsPane
<1>2. widget \in TabList
  BY DEF TabList
<1> QED BY <1>1, <1>2 DEF TabsOK

LEMMA TabsSwap ==
  ASSUME NEW s \in TabList, NEW h \in Swap
  PROVE  LET t == Tabs!Swaps(s, h)
         IN /\ t \in TabList /\ t.hurried = s.hurried /\ t.item = s.item /\ t.ending = s.ending
            /\ t.active = (s.active \ h.from) \cup {h.to}
            /\ t.in = (IF h.animated THEN s.in \cup {h.to} ELSE s.in)
            /\ t.fade = (IF h.animated THEN s.fade ELSE s.fade \ {h.to})
BY DEF Tabs!Swaps, TabList, Swap

LEMMA TabsInTurn ==
  ASSUME NEW s \in TabList, NEW handlers \in Seq(Swap)
  PROVE  LET ran[i \in 0 .. Len(handlers)] ==
               IF i = 0 THEN s ELSE Tabs!Swaps(ran[i - 1], handlers[i])
             t == ran[Len(handlers)]
         IN /\ t \in TabList /\ t.hurried = s.hurried
            /\ Len(handlers) = 1 => t = Tabs!Swaps(s, handlers[1])
<1> DEFINE n == Len(handlers)
           D == {t \in TabList : t.hurried = s.hurried}
           G == [i \in 1 .. n |-> [t \in D |-> Tabs!Swaps(t, handlers[i])]]
           Eq(f) == f = [i \in 0 .. n |-> IF i = 0 THEN s ELSE Tabs!Swaps(f[i - 1], handlers[i])]
           ran == CHOOSE f : Eq(f)
<1>1. n \in Nat /\ s \in D /\ \A i \in 1 .. n : handlers[i] \in Swap
  OBVIOUS
<1>2. ASSUME NEW t \in D, NEW i \in 1 .. n
      PROVE  Tabs!Swaps(t, handlers[i]) \in D
  <2> HIDE DEF n
  <2> QED BY <1>1, TabsSwap
<1>3. G \in [1 .. n -> [D -> D]]
  <2> HIDE DEF D, n
  <2> QED BY <1>2
<1>4. PICK f : IsRun(f, n, D, s, G)
  <2> HIDE DEF n, G, D
  <2> QED BY <1>1, <1>3, RunsExist
<1>5. Eq(f)
  <2>1. ASSUME NEW i \in 1 .. n PROVE f[i] = Tabs!Swaps(f[i - 1], handlers[i])
    <3> HIDE DEF n, D
    <3>1. f[i - 1] \in D /\ f[i] = G[i][f[i - 1]]
      BY <1>1, <1>4 DEF IsRun
    <3> QED BY <3>1
  <2> HIDE DEF n, D
  <2>2. \A i \in 0 .. n : f[i] = IF i = 0 THEN s ELSE Tabs!Swaps(f[i - 1], handlers[i])
    BY <1>1, <1>4, <2>1 DEF IsRun
  <2> QED BY <1>4, <2>2 DEF IsRun
<1>6. Eq(ran)
  <2> HIDE DEF Eq
  <2> QED BY <1>5
<1>7. ran[0] = s /\ \A i \in 1 .. n : ran[i] = Tabs!Swaps(ran[i - 1], handlers[i])
  <2> HIDE DEF n, ran
  <2> QED BY <1>1, <1>6
<1>8. ran[n] \in D
  <2> HIDE DEF n, ran, D
  <2>1. \A i \in 1 .. n : ran[i - 1] \in D => ran[i] \in D
    BY <1>2, <1>7
  <2> QED BY <1>1, <1>7, <2>1, Stays
<1>9. n = 1 => ran[n] = Tabs!Swaps(s, handlers[1])
  <2> HIDE DEF n, ran
  <2> QED BY <1>7
<1> HIDE DEF ran
<1> QED BY <1>8, <1>9 DEF ran

LEMMA TabsShow ==
  ASSUME TabsOK(widget), NEW p \in Pane, Tabs!show(p)
  PROVE  TabsOK(widget')
<1> DEFINE s == [widget EXCEPT !.item = {p}, !.hurried = @ \/ ~Tabs!Rests(widget)]
           animated == s.transition /\ s.fade # {}
           h == [to |-> p, from |-> s.active, animated |-> animated]
           ending == [q \in Pane |-> IF q \in s.active THEN Append(s.ending[q], h) ELSE s.ending[q]]
           waits == [s EXCEPT !.ending = ending]
           t == IF animated /\ s.active # {} THEN waits ELSE Tabs!Swaps(s, h)
<1>1. widget' = [t EXCEPT !.in = @ \ s.active] /\ p \notin widget.item
  BY Zenon DEF Tabs!show, Tabs!activate
<1>2. /\ s \in TabList /\ s.item = {p} /\ s.active = widget.active /\ s.ending = widget.ending
      /\ ~s.hurried => ~widget.hurried /\ \A q \in Pane : widget.ending[q] = <<>>
  BY DEF TabsOK, TabList, Tabs!Rests
<1>3. h \in Swap /\ h.to = p /\ h.from = s.active /\ h.animated = animated
  <2> HIDE DEF s
  <2> QED BY <1>2 DEF Swap, TabList
<1>4. ending \in [Pane -> Seq(Swap)]
  <2> HIDE DEF s, h
  <2> QED BY <1>2, <1>3 DEF TabList
<1>5. waits \in TabList /\ waits.hurried = s.hurried /\ waits.item = s.item /\ waits.active = s.active
      /\ waits.ending = ending
  <2> HIDE DEF s, ending
  <2> QED BY <1>2, <1>4 DEF TabList
<1>6. t \in TabList /\ t.hurried = s.hurried /\ t.item = {p}
  <2> HIDE DEF s, h, waits
  <2> QED BY <1>2, <1>3, <1>5, TabsSwap
<1>7. widget' \in TabList /\ widget'.hurried = s.hurried /\ widget'.item = {p}
      /\ widget'.active = t.active /\ widget'.ending = t.ending /\ widget'.fade = t.fade
      /\ widget'.in = t.in \ s.active
  <2> HIDE DEF s, t
  <2> QED BY <1>1, <1>2, <1>6 DEF TabList
<1>8. ASSUME ~s.hurried
      PROVE  (\E r \in Pane : ShowsPane(widget', r)) \/ (\E r, q \in Pane : FadesTo(widget', r, q))
  <2>1. PICK r \in Pane : r # p /\ s.active = {r}
    <3>1. PICK r \in Pane : ShowsPane(widget, r) \/ \E q \in Pane : FadesTo(widget, r, q)
      <4> HIDE DEF s
      <4> QED BY <1>2, <1>8 DEF TabsOK
    <3>2. ~\E q \in Pane : FadesTo(widget, r, q)
      <4> HIDE DEF s
      <4> QED BY <1>2, <1>8, TabsFading
    <3> HIDE DEF s
    <3> QED BY <1>1, <1>2, <3>1, <3>2 DEF ShowsPane
  <2>2. \A q \in Pane : s.ending[q] = <<>>
    <3> HIDE DEF s
    <3> QED BY <1>2, <1>8
  <2>3. CASE animated
    <3>1. t = waits
      <4> HIDE DEF s, waits
      <4> QED BY <2>1, <2>3
    <3>2. ending[r] = <<[to |-> p, from |-> {r}, animated |-> TRUE]>>
      <4>1. h = [to |-> p, from |-> {r}, animated |-> TRUE]
        <5> HIDE DEF s
        <5> QED BY <2>1, <2>3
      <4>2. ending[r] = Append(<<>>, h)
        <5> HIDE DEF s, h
        <5> QED BY <2>1, <2>2
      <4> HIDE DEF h, ending
      <4> QED BY <4>1, <4>2
    <3>3. \A q \in Pane \ {r} : ending[q] = <<>>
      <4> HIDE DEF s, h
      <4> QED BY <2>1, <2>2
    <3>4. FadesTo(widget', p, r)
      <4> HIDE DEF t, s, ending, waits
      <4> QED BY <1>5, <1>7, <2>1, <3>1, <3>2, <3>3 DEF FadesTo
    <3> QED BY <3>4
  <2>4. CASE ~animated
    <3>1. t = Tabs!Swaps(s, h)
      <4> HIDE DEF s, h, waits
      <4> QED BY <2>4
    <3>2. t.active = (s.active \ s.active) \cup {p} /\ t.fade = s.fade \ {p} /\ t.ending = s.ending
      <4> HIDE DEF s, h, t, animated
      <4> QED BY <1>2, <1>3, <2>4, <3>1, TabsSwap
    <3>3. ShowsPane(widget', p)
      <4> HIDE DEF t, s
      <4> QED BY <1>7, <2>2, <3>2 DEF ShowsPane
    <3> QED BY <3>3
  <2> QED BY <2>3, <2>4
<1> HIDE DEF s, t
<1> QED BY <1>7, <1>8 DEF TabsOK

LEMMA TabsEnd ==
  ASSUME TabsOK(widget), NEW r \in Pane, Tabs!Ends(r)
  PROVE  TabsOK(widget')
<1> DEFINE s == [widget EXCEPT !.ending[r] = <<>>]
           handlers == widget.ending[r]
<1>1. /\ handlers # <<>>
      /\ widget' = LET ran[i \in 0 .. Len(handlers)] ==
                        IF i = 0 THEN s ELSE Tabs!Swaps(ran[i - 1], handlers[i])
                  IN ran[Len(handlers)]
  BY Zenon DEF Tabs!Ends, Tabs!TransitionEnd, Tabs!InTurn
<1>2. widget \in TabList /\ handlers \in Seq(Swap)
  BY DEF TabsOK, TabList
<1>3. s \in TabList /\ s.hurried = widget.hurried /\ s.item = widget.item /\ s.active = widget.active
      /\ s.in = widget.in /\ s.fade = widget.fade
      /\ s.ending[r] = <<>> /\ \A q \in Pane \ {r} : s.ending[q] = widget.ending[q]
  <2>1. [widget.ending EXCEPT ![r] = <<>>] \in [Pane -> Seq(Swap)]
    BY <1>2 DEF TabList
  <2> QED BY <1>2, <2>1 DEF TabList
<1>4. /\ widget' \in TabList /\ widget'.hurried = widget.hurried
      /\ Len(handlers) = 1 => widget' = Tabs!Swaps(s, handlers[1])
  <2> HIDE DEF s, handlers
  <2> QED BY <1>1, <1>2, <1>3, TabsInTurn
<1>5. ASSUME ~widget.hurried PROVE \E p \in Pane : ShowsPane(widget', p)
  <2>1. PICK p \in Pane, q \in Pane : FadesTo(widget, p, q)
    BY <1>1, <1>5 DEF TabsOK, ShowsPane
  <2>2. q = r
    BY <1>1, <2>1 DEF FadesTo
  <2> DEFINE h == [to |-> p, from |-> {r}, animated |-> TRUE]
  <2>3. handlers = <<h>> /\ h \in Swap
    BY <2>1, <2>2 DEF FadesTo, Swap
  <2>4. widget' = Tabs!Swaps(s, h)
    <3> HIDE DEF handlers, h, s
    <3> QED BY <1>4, <2>3
  <2>5. widget'.item = {p} /\ widget'.active = ({r} \ {r}) \cup {p} /\ p \in widget'.in
        /\ \A x \in Pane : widget'.ending[x] = <<>>
    <3>1. h.to = p /\ h.from = {r} /\ h.animated
      OBVIOUS
    <3>2. s.item = {p} /\ s.active = {r} /\ \A x \in Pane : s.ending[x] = <<>>
      <4> HIDE DEF s
      <4> QED BY <1>3, <2>1, <2>2 DEF FadesTo
    <3>3. s \in TabList /\ h \in Swap
      BY <1>3, <2>3
    <3> HIDE DEF h, s
    <3>4. LET t == Tabs!Swaps(s, h)
          IN t.item = s.item /\ t.ending = s.ending /\ t.active = (s.active \ h.from) \cup {h.to}
             /\ t.in = (IF h.animated THEN s.in \cup {h.to} ELSE s.in)
      BY <3>3, TabsSwap
    <3>5. p \in s.in \cup {h.to}
      BY <3>1
    <3> QED BY <2>4, <3>1, <3>2, <3>4, <3>5
  <2>6. ShowsPane(widget', p)
    BY <2>5 DEF ShowsPane
  <2> QED BY <2>6
<1> QED BY <1>4, <1>5 DEF TabsOK

\* At rest just the pane of the active tab can be seen, unless a tab was clicked
\* while a pane faded (activate of tab.js).
THEOREM TabsOnePane == Spec => []OnePane
<1> DEFINE Inv == plugin = "tab" => TabsOK(widget)
<1>1. Init => Inv
  BY TabsInit DEF Init
<1>2. Inv /\ [Next]_<<plugin, widget>> => Inv'
  <2>1. CASE UNCHANGED <<plugin, widget>>
    BY <2>1 DEF TabsOK, ShowsPane, FadesTo
  <2>2. CASE Next
    BY <2>2, TabsShow, TabsEnd DEF Next, Tabs!Next
  <2> QED BY <2>1, <2>2
<1>3. Inv => OnePane
  <2> SUFFICES ASSUME TabsOK(widget), Tabs!Rests(widget), ~widget.hurried
               PROVE  {p \in Pane : Tabs!Shown(p)} = widget.item
    BY DEF OnePane, Tabs!OnePane
  <2>1. \A p, q \in Pane : ~FadesTo(widget, p, q)
    <3>1. \A q \in Pane : widget.ending[q] = <<>>
      BY DEF Tabs!Rests, TabsOK, TabList
    <3> QED BY <3>1, TabsFading
  <2>2. PICK p \in Pane : ShowsPane(widget, p)
    BY <2>1 DEF TabsOK
  <2> QED BY <2>2 DEF ShowsPane, Tabs!Shown
<1> QED BY <1>1, <1>2, <1>3, PTL DEF Spec

-----------------------------------------------------------------------------
(***************************************************************************)
(* Modal.                                                                  *)
(***************************************************************************)
Step == {"enters", "leaves", "removes", "focus", "hideModal"}

\* The names of the backdrops are left open: a run of handlers may use up those
\* that the bound allows.
DialogState(E) ==
  [isShown : BOOLEAN, display : BOOLEAN, in : BOOLEAN, backdrops : SUBSET E, own : E,
   ignoreBackdropClick : BOOLEAN, open : BOOLEAN, padding : Nat, originalBodyPad : Nat,
   listeners : [dismiss : Nat, click : Nat, keydown : Nat, resize : Nat, focusin : BOOLEAN],
   waiting : Seq([el : E, step : Step]), calm : BOOLEAN,
   backdrop : {"yes", "static", "no"}, keyboard : BOOLEAN, animates : BOOLEAN, tall : BOOLEAN]

Fixtures == {None, "dialog", "element"}

IsDialog(s) == \E E : Fixtures \subseteq E /\ s \in DialogState(E)

\* t listens to what s listens to.
Hears(t, s) ==
  /\ IsDialog(t) /\ t.isShown = s.isShown /\ t.keyboard = s.keyboard /\ t.calm = s.calm
  /\ t.listeners.dismiss = s.listeners.dismiss /\ t.listeners.resize = s.listeners.resize
  /\ t.listeners.keydown = s.listeners.keydown

DialogListens(s) ==
  LET n == IF s.isShown THEN 1 ELSE 0
  IN /\ IsDialog(s)
     /\ s.listeners.dismiss = n /\ s.listeners.resize = n
     /\ s.listeners.keydown = IF s.keyboard THEN n ELSE 0

Listeners == [dismiss : Nat, click : Nat, keydown : Nat, resize : Nat, focusin : BOOLEAN]

LEMMA ListensMore ==
  ASSUME NEW E, NEW s \in DialogState(E)
  PROVE  LET l == Dialog!Listens(s)
         IN /\ l \in Listeners
            /\ l.dismiss = s.listeners.dismiss + 1 /\ l.resize = s.listeners.resize + 1
            /\ l.keydown = IF s.keyboard THEN s.listeners.keydown + 1 ELSE s.listeners.keydown
<1> DEFINE k == s.listeners
           a == k.dismiss + 1
           b == k.resize + 1
           c == IF s.keyboard THEN k.keydown + 1 ELSE k.keydown
           l == [k EXCEPT !.dismiss = a, !.resize = b, !.keydown = c]
<1>1. Dialog!Listens(s) = l
  BY DEF Dialog!Listens
<1>2. k \in Listeners /\ a \in Nat /\ b \in Nat /\ c \in Nat
  BY DEF DialogState, Listeners
<1>3. l \in Listeners /\ l.dismiss = a /\ l.resize = b /\ l.keydown = c
  <2> HIDE DEF a, b, c, k
  <2> QED BY <1>2 DEF Listeners
<1> HIDE DEF l
<1> QED BY <1>1, <1>3

LEMMA DialogWider ==
  ASSUME NEW E, NEW F, E \subseteq F
  PROVE  DialogState(E) \subseteq DialogState(F)
<1>1. [el : E, step : Step] \subseteq [el : F, step : Step]
  OBVIOUS
<1>2. Seq([el : E, step : Step]) \subseteq Seq([el : F, step : Step])
  <2> DEFINE A == [el : E, step : Step]
             B == [el : F, step : Step]
  <2>1. A \subseteq B
    BY <1>1
  <2> HIDE DEF A, B
  <2> SUFFICES ASSUME NEW w \in Seq(A) PROVE w \in Seq(B)
    BY DEF A, B
  <2>2. \A i \in 1 .. Len(w) : w[i] \in B
    BY <2>1
  <2> QED BY <2>2
<1> DEFINE V == Seq([el : E, step : Step])
           W == Seq([el : F, step : Step])
<1> HIDE DEF V, W
<1>3. V \subseteq W
  BY <1>2 DEF V, W
<1> QED BY <1>3 DEF DialogState, V, W

LEMMA DialogWaits ==
  ASSUME NEW E, NEW s \in DialogState(E), NEW el \in E, NEW step \in Step
  PROVE  LET t == Dialog!Waits(s, el, step)
         IN t \in DialogState(E) /\ (Fixtures \subseteq E => Hears(t, s))
<1> DEFINE W == [el : E, step : Step]
           x == [el |-> el, step |-> step]
           v == Append(s.waiting, x)
           t == [s EXCEPT !.waiting = v]
<1>1. s.waiting \in Seq(W) /\ x \in W
  BY DEF DialogState
<1>2. v \in Seq([el : E, step : Step])
  <2> HIDE DEF W, x
  <2>1. v \in Seq(W)
    BY <1>1
  <2> QED BY <2>1 DEF W
<1> HIDE DEF v
<1>3. t \in DialogState(E) /\ t.isShown = s.isShown /\ t.keyboard = s.keyboard
      /\ t.listeners = s.listeners /\ t.calm = s.calm
  BY <1>2 DEF DialogState
<1> HIDE DEF t
<1>4. Fixtures \subseteq E => Hears(t, s)
  BY <1>3 DEF Hears, IsDialog
<1> QED BY <1>3, <1>4 DEF Dialog!Waits, t, v

LEMMA DialogRuns ==
  ASSUME NEW s, IsDialog(s), NEW step \in Step \ {"hideModal"}
  PROVE  Hears(Dialog!Runs(s, step), s)
<1>0. Hears(s, s)
  BY DEF Hears
<1>1. Hears(Dialog!Enters(s), s)
  <2> DEFINE t == [s EXCEPT !.display = TRUE, !.in = TRUE, !.listeners.focusin = TRUE]
  <2>0. PICK E : Fixtures \subseteq E /\ s \in DialogState(E)
    BY DEF IsDialog
  <2>1. t \in DialogState(E) /\ Hears(t, s)
    BY <2>0 DEF Hears, IsDialog, DialogState
  <2> HIDE DEF t
  <2>2. Hears(Dialog!Waits(t, "dialog", "focus"), t)
    BY <2>0, <2>1, DialogWaits DEF Step, Fixtures
  <2>3. Dialog!Enters(s) = IF s.animates THEN Dialog!Waits(t, "dialog", "focus") ELSE t
    BY <2>0 DEF Dialog!Enters, t, DialogState
  <2> QED BY <2>1, <2>2, <2>3 DEF Hears
<1>2. ASSUME NEW r, Hears(r, s) PROVE Hears(Dialog!Leaves(r), s)
  <2>0. PICK E : Fixtures \subseteq E /\ r \in DialogState(E)
    BY <1>2 DEF Hears, IsDialog
  <2>1. Dialog!Leaves(r) \in DialogState(E)
    BY <2>0 DEF Dialog!Leaves, DialogState
  <2>2. Dialog!Leaves(r).isShown = r.isShown /\ Dialog!Leaves(r).keyboard = r.keyboard
        /\ Dialog!Leaves(r).listeners = r.listeners /\ Dialog!Leaves(r).calm = r.calm
    BY <2>0 DEF Dialog!Leaves, DialogState
  <2> QED BY <1>2, <2>0, <2>1, <2>2 DEF Hears, IsDialog
<1>3. Hears(Dialog!Removes(s), s)
  <2> DEFINE t == [s EXCEPT !.backdrops = @ \ {s.own}, !.own = None]
  <2>0. PICK E : Fixtures \subseteq E /\ s \in DialogState(E)
    BY DEF IsDialog
  <2>1. t \in DialogState(E) /\ Hears(t, s)
    BY <2>0 DEF Hears, IsDialog, DialogState, Fixtures
  <2> HIDE DEF t
  <2> QED BY <2>1, <1>2 DEF Dialog!Removes, t
<1> QED BY <1>0, <1>1, <1>2, <1>3 DEF Dialog!Runs, Step

LEMMA DialogBackdrop ==
  ASSUME NEW s, IsDialog(s), NEW step \in {"enters", "leaves"}
  PROVE  Hears(Dialog!backdrop(s, step), s)
<1> DEFINE new == CHOOSE b \in Backdrop : b \notin s.backdrops
           added == [s EXCEPT !.own = new, !.backdrops = @ \cup {new}, !.listeners.click = @ + 1]
<1>0. PICK E : Fixtures \subseteq E /\ s \in DialogState(E)
  BY DEF IsDialog
<1> DEFINE F == E \cup {new}
<1>1. Fixtures \subseteq F /\ added \in DialogState(F) /\ Hears(added, s) /\ s \in DialogState(F)
  <2> HIDE DEF new
  <2>1. s \in DialogState(F)
    BY <1>0, DialogWider
  <2> HIDE DEF F
  <2>2. new \in F /\ Fixtures \subseteq F
    BY <1>0 DEF F
  <2> DEFINE l == [s.listeners EXCEPT !.click = @ + 1]
  <2>5. l \in [dismiss : Nat, click : Nat, keydown : Nat, resize : Nat, focusin : BOOLEAN]
    BY <2>1 DEF DialogState
  <2>6. added = [s EXCEPT !.own = new, !.backdrops = @ \cup {new}, !.listeners = l]
    BY <2>1 DEF DialogState
  <2>3. added \in DialogState(F) /\ added.isShown = s.isShown /\ added.keyboard = s.keyboard
        /\ added.calm = s.calm
        /\ added.listeners = [s.listeners EXCEPT !.click = @ + 1]
    <3> HIDE DEF added
    <3>1. added.listeners = l
      BY <2>1, <2>6 DEF DialogState
    <3>2. added \in DialogState(F) /\ added.isShown = s.isShown /\ added.keyboard = s.keyboard
        /\ added.calm = s.calm
      <4> HIDE DEF l
      <4> QED BY <2>1, <2>2, <2>5, <2>6 DEF DialogState
    <3> QED BY <3>1, <3>2
  <2>4. /\ added.listeners.dismiss = s.listeners.dismiss
        /\ added.listeners.resize = s.listeners.resize
        /\ added.listeners.keydown = s.listeners.keydown
    <3> HIDE DEF added
    <3> QED BY <2>1, <2>3 DEF DialogState
  <2> HIDE DEF added
  <2> QED BY <2>1, <2>2, <2>3, <2>4 DEF Hears, IsDialog
<1>2. /\ Dialog!backdrop(s, step) \in
          {Dialog!Waits(added, new, step), Dialog!Runs(added, step),
           Dialog!Waits(s, s.own, "removes"), Dialog!Removes(s), Dialog!Runs(s, step)}
  BY Zenon DEF Dialog!backdrop
<1>3. Dialog!Removes(s) = Dialog!Runs(s, "removes")
  BY DEF Dialog!Runs
<1>4. new \in F /\ s.own \in F
  <2> HIDE DEF new
  <2> QED BY <1>0 DEF DialogState
<1> HIDE DEF added, new, F
<1>5. Hears(Dialog!Waits(added, new, step), added)
  BY <1>1, <1>4, DialogWaits DEF Step
<1>6. Hears(Dialog!Runs(added, step), added) /\ Hears(Dialog!Runs(s, step), s)
      /\ Hears(Dialog!Removes(s), s)
  BY <1>1, <1>3, DialogRuns DEF Hears, Step
<1>7. Hears(Dialog!Waits(s, s.own, "removes"), s)
  BY <1>1, <1>4, DialogWaits DEF Step
<1> QED BY <1>1, <1>2, <1>5, <1>6, <1>7 DEF Hears

LEMMA DialogHides ==
  ASSUME NEW s, IsDialog(s)
  PROVE  Hears(Dialog!HideModal(s), s)
<1> DEFINE t == [s EXCEPT !.display = FALSE]
<1>1. Hears(t, s)
  BY DEF Hears, IsDialog, DialogState
<1> HIDE DEF t
<1>2. Hears(Dialog!backdrop(t, "leaves"), t)
  BY <1>1, DialogBackdrop DEF Hears
<1> QED BY <1>1, <1>2 DEF Dialog!HideModal, Hears, t

LEMMA DialogShows ==
  ASSUME NEW s, DialogListens(s)
  PROVE  /\ DialogListens(Dialog!show(s))
         /\ ~s.calm \/ (s.open /\ ~s.isShown) => ~Dialog!show(s).calm
         /\ DialogListens(Dialog!hide(s)) /\ Dialog!hide(s).calm = s.calm
<1>0. PICK E : Fixtures \subseteq E /\ s \in DialogState(E)
  BY DEF DialogListens, IsDialog
<1>1. /\ DialogListens(Dialog!show(s))
      /\ ~s.calm \/ (s.open /\ ~s.isShown) => ~Dialog!show(s).calm
  <2> DEFINE u == Dialog!SetsScrollbar(s)
             t == [u EXCEPT
                    !.isShown = TRUE, !.open = TRUE, !.listeners = Dialog!Listens(s),
                    !.calm = @ /\ ~s.open]
  <2>1. u \in DialogState(E) /\ Hears(u, s)
    <3> DEFINE pad == IF s.tall /\ ~s.open THEN s.padding + 1 ELSE s.padding
    <3>0. u = [s EXCEPT !.originalBodyPad = s.padding, !.padding = pad]
          /\ pad \in Nat /\ s.padding \in Nat
      BY <1>0 DEF Dialog!SetsScrollbar, DialogState
    <3> HIDE DEF pad, u
    <3>1. u \in DialogState(E) /\ u.isShown = s.isShown /\ u.keyboard = s.keyboard
          /\ u.listeners = s.listeners /\ u.calm = s.calm
      BY <1>0, <3>0 DEF DialogState
    <3> HIDE DEF u
    <3> QED BY <1>0, <3>1 DEF Hears, IsDialog
  <2>2. Dialog!show(s) = IF s.isShown THEN s ELSE Dialog!backdrop(t, "enters")
    BY Zenon DEF Dialog!show
  <2>3. CASE ~s.isShown
    <3> HIDE DEF u
    <3>1. t \in DialogState(E) /\ t.isShown /\ t.keyboard = u.keyboard
          /\ t.listeners.dismiss = u.listeners.dismiss + 1
          /\ t.listeners.resize = u.listeners.resize + 1
          /\ t.listeners.keydown = (IF s.keyboard THEN u.listeners.keydown + 1
                                    ELSE u.listeners.keydown)
          /\ (~s.calm \/ s.open => ~t.calm)
      <4> DEFINE l == Dialog!Listens(s)
      <4>1. /\ l \in Listeners
            /\ l.dismiss = s.listeners.dismiss + 1 /\ l.resize = s.listeners.resize + 1
            /\ l.keydown = (IF s.keyboard THEN s.listeners.keydown + 1 ELSE s.listeners.keydown)
        BY <1>0, ListensMore
      <4> DEFINE calm == u.calm /\ ~s.open
      <4>3. calm \in BOOLEAN /\ t = [u EXCEPT !.isShown = TRUE, !.open = TRUE, !.listeners = l,
                                              !.calm = calm]
        BY <2>1 DEF DialogState
      <4> HIDE DEF calm
      <4> HIDE DEF l, t
      <4>2. t \in DialogState(E) /\ t.isShown /\ t.keyboard = u.keyboard /\ t.listeners = l
            /\ t.calm = calm
        BY <2>1, <4>1, <4>3 DEF DialogState, Listeners
      <4> HIDE DEF t
      <4> QED BY <2>1, <4>1, <4>2 DEF Hears, calm
    <3> HIDE DEF t
    <3>2. DialogListens(t)
      BY <1>0, <2>1, <2>3, <3>1 DEF DialogListens, Hears, IsDialog
    <3>3. Hears(Dialog!backdrop(t, "enters"), t)
      BY <3>2, DialogBackdrop DEF DialogListens
    <3> QED BY <2>2, <2>3, <3>1, <3>2, <3>3 DEF DialogListens, Hears
  <2> QED BY <2>2, <2>3
<1>2. DialogListens(Dialog!hide(s)) /\ Dialog!hide(s).calm = s.calm
  <2> DEFINE t == [s EXCEPT !.isShown = FALSE, !.in = FALSE, !.listeners = Dialog!NoListeners]
  <2>1. t \in DialogState(E) /\ DialogListens(t) /\ t.calm = s.calm
    BY <1>0 DEF DialogListens, IsDialog, Dialog!NoListeners, DialogState
  <2>2. Dialog!hide(s) \in {s, Dialog!Waits(t, "element", "hideModal"), Dialog!HideModal(t)}
    BY Zenon DEF Dialog!hide
  <2> HIDE DEF t
  <2>3. Hears(Dialog!Waits(t, "element", "hideModal"), t) /\ Hears(Dialog!HideModal(t), t)
    BY <1>0, <2>1, DialogWaits, DialogHides DEF DialogListens, Step, Fixtures
  <2> QED BY <2>1, <2>2, <2>3 DEF DialogListens, Hears
<1> QED BY <1>1, <1>2

IsTurn(f, s, w, el) ==
  f[0] = s /\ \A i \in 1 .. Len(w) : f[i] = Dialog!Ended(f[i - 1], el, w[i])

LEMMA DialogTurn ==
  ASSUME NEW s, NEW w, NEW el, Len(w) \in Nat
  PROVE  LET ran[i \in 0 .. Len(w)] ==
               IF i = 0 THEN s ELSE Dialog!Ended(ran[i - 1], el, w[i])
         IN IsTurn(ran, s, w, el)
<1> DEFINE n == Len(w)
           Eq(f, m) == f = [i \in 0 .. m |-> IF i = 0 THEN s
                                            ELSE Dialog!Ended(f[i - 1], el, w[i])]
           S == {m \in 0 .. n : ~\E f : Eq(f, m)}
           ran == CHOOSE f : Eq(f, n)
<1>1. S = {}
  <2> SUFFICES ASSUME S # {} PROVE FALSE
    OBVIOUS
  <2>0. S \subseteq Nat
    OBVIOUS
  <2>1. PICK x \in S : \A y \in S : x <= y
    <3> HIDE DEF S
    <3> QED BY <2>0, LeastNumber
  <2>2. Eq([i \in 0 .. 0 |-> s], 0)
    OBVIOUS
  <2>3. x \in 1 .. n /\ x - 1 \in 0 .. n /\ x - 1 \notin S
    <3>1. x # 0
      <4> HIDE DEF Eq
      <4> QED BY <2>2
    <3> HIDE DEF Eq
    <3> QED BY <2>0, <2>1, <3>1
  <2>4. PICK f : Eq(f, x - 1)
    <3> HIDE DEF Eq
    <3> QED BY <2>3
  <2> DEFINE g == [i \in 0 .. x |-> IF i = x THEN Dialog!Ended(f[x - 1], el, w[x]) ELSE f[i]]
  <2>5. \A i \in 0 .. x : g[i] = IF i = 0 THEN s ELSE Dialog!Ended(g[i - 1], el, w[i])
    <3> SUFFICES ASSUME NEW i \in 0 .. x
                 PROVE  g[i] = IF i = 0 THEN s ELSE Dialog!Ended(g[i - 1], el, w[i])
      OBVIOUS
    <3>0. \A j \in 0 .. x - 1 : f[j] = IF j = 0 THEN s ELSE Dialog!Ended(f[j - 1], el, w[j])
      BY <2>4
    <3>1. CASE i = x
      <4>1. g[i] = Dialog!Ended(f[x - 1], el, w[x]) /\ g[i - 1] = f[x - 1]
        BY <2>3, <3>1
      <4> HIDE DEF g
      <4> QED BY <2>3, <3>1, <4>1
    <3>2. CASE i # x
      <4>1. i \in 0 .. x - 1 /\ g[i] = f[i] /\ (i # 0 => g[i - 1] = f[i - 1])
        BY <2>3, <3>2
      <4> HIDE DEF g
      <4> QED BY <3>0, <4>1
    <3> QED BY <3>1, <3>2
  <2>6. Eq(g, x)
    <3>1. DOMAIN g = 0 .. x /\ g = [i \in 0 .. x |-> g[i]]
      OBVIOUS
    <3> HIDE DEF g
    <3> QED BY <2>5, <3>1
  <2> HIDE DEF Eq, g
  <2> QED BY <2>1, <2>3, <2>6
<1>2. Eq(ran, n)
  <2>1. \E f : Eq(f, n)
    <3>1. n \notin S /\ n \in 0 .. n
      <4> HIDE DEF S
      <4> QED BY <1>1
    <3> HIDE DEF Eq
    <3> QED BY <3>1
  <2> HIDE DEF Eq
  <2> QED BY <2>1
<1>3. ran[0] = s /\ \A i \in 1 .. n : ran[i] = Dialog!Ended(ran[i - 1], el, w[i])
  <2> HIDE DEF ran
  <2> QED BY <1>2
<1>4. IsTurn(ran, s, w, el)
  <2> HIDE DEF ran
  <2> QED BY <1>3 DEF IsTurn
<1> QED BY <1>4

\* t is what is left of the first k of w when those that wait for el have gone.
Sifts(t, k, w, el) ==
  \E g \in [1 .. Len(t) -> 1 .. k] :
    /\ \A i, j \in 1 .. Len(t) : i < j => g[i] < g[j]
    /\ \A i \in 1 .. Len(t) : t[i] = w[g[i]]
    /\ \A j \in 1 .. k : w[j].el # el <=> \E i \in 1 .. Len(t) : g[i] = j

LEMMA SiftsMore ==
  ASSUME NEW W, NEW w \in Seq(W), NEW el, NEW k \in 1 .. Len(w), NEW t \in Seq(W),
         Sifts(t, k - 1, w, el)
  PROVE  LET u == IF w[k].el = el THEN t ELSE Append(t, w[k])
         IN u \in Seq(W) /\ Sifts(u, k, w, el)
<1>1. PICK g \in [1 .. Len(t) -> 1 .. k - 1] :
        /\ \A i, j \in 1 .. Len(t) : i < j => g[i] < g[j]
        /\ \A i \in 1 .. Len(t) : t[i] = w[g[i]]
        /\ \A j \in 1 .. k - 1 : w[j].el # el <=> \E i \in 1 .. Len(t) : g[i] = j
  BY DEF Sifts
<1>2. CASE w[k].el = el
  <2>1. g \in [1 .. Len(t) -> 1 .. k]
    OBVIOUS
  <2>2. \A j \in 1 .. k : w[j].el # el <=> \E i \in 1 .. Len(t) : g[i] = j
    <3> TAKE j \in 1 .. k
    <3>1. CASE j = k
      BY <1>2, <3>1
    <3>2. CASE j # k
      BY <1>1, <3>2
    <3> QED BY <3>1, <3>2
  <2> QED BY <1>1, <1>2, <2>1, <2>2 DEF Sifts
<1>3. CASE w[k].el # el
  <2> DEFINE u == Append(t, w[k])
             n == Len(t)
             h == [i \in 1 .. n + 1 |-> IF i = n + 1 THEN k ELSE g[i]]
  <2>1. /\ u \in Seq(W) /\ Len(u) = n + 1 /\ n \in Nat /\ u[n + 1] = w[k]
        /\ \A i \in 1 .. n : u[i] = t[i]
    OBVIOUS
  <2> HIDE DEF u, n
  <2>2. /\ h[n + 1] = k /\ \A i \in 1 .. n : h[i] = g[i] /\ g[i] \in 1 .. k - 1
        /\ h \in [1 .. n + 1 -> 1 .. k]
    BY <2>1 DEF n
  <2> HIDE DEF h
  <2>0. \A i \in 1 .. n + 1 : i = n + 1 \/ i \in 1 .. n
    BY <2>1
  <2>3. \A i, j \in 1 .. n + 1 : i < j => h[i] < h[j]
    <3>1. \A i, j \in 1 .. n : i < j => g[i] < g[j]
      BY <1>1 DEF n
    <3> TAKE i, j \in 1 .. n + 1
    <3> HAVE i < j
    <3>2. i \in 1 .. n
      BY <2>1
    <3>3. CASE j = n + 1
      BY <2>2, <3>2, <3>3
    <3>4. CASE j \in 1 .. n
      BY <2>2, <3>1, <3>2, <3>4
    <3> QED BY <2>0, <3>3, <3>4
  <2>4. \A i \in 1 .. n + 1 : u[i] = w[h[i]]
    <3>1. \A i \in 1 .. n : t[i] = w[g[i]]
      BY <1>1 DEF n
    <3> QED BY <2>1, <2>2, <3>1
  <2>5. \A j \in 1 .. k : w[j].el # el <=> \E i \in 1 .. n + 1 : h[i] = j
    <3> TAKE j \in 1 .. k
    <3>1. CASE j = k
      BY <1>3, <2>1, <2>2, <3>1
    <3>2. CASE j # k
      <4>1. w[j].el # el <=> \E i \in 1 .. n : g[i] = j
        BY <1>1, <3>2 DEF n
      <4>2. (\E i \in 1 .. n + 1 : h[i] = j) <=> \E i \in 1 .. n : g[i] = j
        <5>1. \A i \in 1 .. n : i \in 1 .. n + 1
          BY <2>1
        <5> QED BY <2>0, <2>2, <3>2, <5>1
      <4> QED BY <4>1, <4>2
    <3> QED BY <3>1, <3>2
  <2>6. Sifts(u, k, w, el)
    <3>1. Len(u) = n + 1 /\ h \in [1 .. Len(u) -> 1 .. k]
      BY <2>1, <2>2
    <3>2. /\ \A i, j \in 1 .. Len(u) : i < j => h[i] < h[j]
          /\ \A i \in 1 .. Len(u) : u[i] = w[h[i]]
          /\ \A j \in 1 .. k : w[j].el # el <=> \E i \in 1 .. Len(u) : h[i] = j
      BY <3>1, <2>3, <2>4, <2>5, Zenon
    <3> QED BY <3>1, <3>2, Zenon DEF Sifts
  <2> QED BY <1>3, <2>1, <2>6 DEF u
<1> QED BY <1>2, <1>3

LEMMA OthersKept ==
  ASSUME NEW W, NEW w \in Seq(W), NEW el
  PROVE  LET t == Dialog!Others(w, el)
         IN t \in Seq(W) /\ Sifts(t, Len(w), w, el)
<1> DEFINE n == Len(w)
           D == Seq(W)
           Keeps(t, i) == IF w[i].el = el THEN t ELSE Append(t, w[i])
           G == [i \in 1 .. n |-> [t \in D |-> Keeps(t, i)]]
           Eq(f) == f = [i \in 0 .. n |-> IF i = 0 THEN <<>> ELSE Keeps(f[i - 1], i)]
           ran == CHOOSE f : Eq(f)
<1>1. n \in Nat /\ <<>> \in D
  OBVIOUS
<1>2. ASSUME NEW t \in D, NEW i \in 1 .. n
      PROVE  Keeps(t, i) \in D
  OBVIOUS
<1>3. G \in [1 .. n -> [D -> D]]
  <2> HIDE DEF D, n, Keeps
  <2> QED BY <1>2
<1>4. PICK f : IsRun(f, n, D, <<>>, G)
  <2> HIDE DEF n, G, D
  <2> QED BY <1>1, <1>3, RunsExist
<1>5. Eq(f)
  <2> HIDE DEF n, D, Keeps
  <2>1. ASSUME NEW i \in 1 .. n PROVE f[i] = Keeps(f[i - 1], i)
    <3>1. f[i - 1] \in D /\ f[i] = G[i][f[i - 1]]
      BY <1>1, <1>4 DEF IsRun
    <3> QED BY <3>1
  <2>2. \A i \in 0 .. n : f[i] = IF i = 0 THEN <<>> ELSE Keeps(f[i - 1], i)
    BY <1>1, <1>4, <2>1 DEF IsRun
  <2> QED BY <1>4, <2>2 DEF IsRun
<1>6. Eq(ran)
  <2> HIDE DEF Eq
  <2> QED BY <1>5
<1>7. ran[0] = <<>> /\ \A i \in 1 .. n : ran[i] = Keeps(ran[i - 1], i)
  <2> HIDE DEF n, ran, Keeps
  <2> QED BY <1>1, <1>6
<1> DEFINE good == {i \in 0 .. n : ran[i] \in D /\ Sifts(ran[i], i, w, el)}
           bad == (0 .. n) \ good
<1>8. 0 \in good
  <2>1. Sifts(<<>>, 0, w, el)
    <3> DEFINE g == [i \in {} |-> 0]
    <3>1. 1 .. Len(<<>>) = {} /\ 1 .. 0 = {}
      OBVIOUS
    <3>2. g \in [{} -> {}]
      OBVIOUS
    <3> HIDE DEF g
    <3> QED BY <3>1, <3>2, Zenon DEF Sifts
  <2>2. 0 \in 0 .. n
    BY <1>1
  <2> HIDE DEF n, ran
  <2> QED BY <1>1, <1>7, <2>1, <2>2
<1>9. \A i \in 1 .. n : i - 1 \in good => i \in good
  <2> HIDE DEF ran
  <2> SUFFICES ASSUME NEW i \in 1 .. n, ran[i - 1] \in D, Sifts(ran[i - 1], i - 1, w, el)
               PROVE  i \in 0 .. n /\ ran[i] \in D /\ Sifts(ran[i], i, w, el)
    OBVIOUS
  <2>1. Keeps(ran[i - 1], i) \in Seq(W) /\ Sifts(Keeps(ran[i - 1], i), i, w, el)
    BY SiftsMore
  <2>2. ran[i] = Keeps(ran[i - 1], i)
    BY <1>7
  <2> HIDE DEF Keeps
  <2> QED BY <2>1, <2>2
<1>10. n \in good
  <2> SUFFICES ASSUME n \notin good PROVE FALSE
    OBVIOUS
  <2> HIDE DEF good, n
  <2>1. bad \subseteq Nat /\ bad # {}
    BY <1>1
  <2>2. PICK x \in bad : \A y \in bad : x <= y
    <3> HIDE DEF bad
    <3> QED BY <2>1, LeastNumber
  <2>3. x \in 1 .. n /\ x - 1 \in 0 .. n
    BY <1>1, <1>8
  <2>4. x - 1 \notin bad
    BY <2>2, <2>3
  <2> QED BY <1>9, <2>3, <2>4
<1>11. Dialog!Others(w, el) = ran[n]
  BY Zenon DEF Dialog!Others, Dialog!InTurn
<1> HIDE DEF ran
<1> QED BY <1>10, <1>11

LEMMA DialogSifted ==
  ASSUME NEW E, NEW s \in DialogState(E), NEW el
  PROVE  LET t == [s EXCEPT !.waiting = Dialog!Others(@, el)]
         IN /\ t \in DialogState(E) /\ t.isShown = s.isShown /\ t.keyboard = s.keyboard
            /\ t.listeners = s.listeners /\ t.calm = s.calm
<1> DEFINE W == [el : E, step : Step]
           v == Dialog!Others(s.waiting, el)
<1>1. s.waiting \in Seq(W)
  BY DEF DialogState
<1>2. v \in Seq([el : E, step : Step])
  <2> HIDE DEF W
  <2>1. v \in Seq(W)
    BY <1>1, OthersKept
  <2> QED BY <2>1 DEF W
<1> HIDE DEF v
<1> QED BY <1>2 DEF DialogState, v

LEMMA DialogEnds ==
  ASSUME DialogListens(widget), NEW i \in 1 .. Len(widget.waiting), Dialog!Ends(i)
  PROVE  DialogListens(widget') /\ widget'.calm = widget.calm
<1> DEFINE w == widget.waiting
           el == w[i].el
           s == [widget EXCEPT !.waiting = Dialog!Others(@, el)]
           ran == CHOOSE f : f = [j \in 0 .. Len(w) |->
                                    IF j = 0 THEN s ELSE Dialog!Ended(f[j - 1], el, w[j])]
<1>0. PICK E : Fixtures \subseteq E /\ widget \in DialogState(E)
  BY DEF DialogListens, IsDialog
<1>1. widget' = ran[Len(w)]
  BY Zenon DEF Dialog!Ends, Dialog!InTurn
<1>2. Len(w) \in Nat /\ \A j \in 1 .. Len(w) : w[j].step \in Step
  <2> DEFINE W == [el : E, step : Step]
  <2>1. w \in Seq(W)
    BY <1>0 DEF DialogState
  <2> HIDE DEF w
  <2>2. Len(w) \in Nat /\ \A j \in 1 .. Len(w) : w[j] \in W
    <3> HIDE DEF W
    <3> QED BY <2>1
  <2> QED BY <2>2
<1>3. IsTurn(ran, s, w, el)
  <2> HIDE DEF s, w, el
  <2> QED BY <1>2, DialogTurn
<1>4. Hears(s, widget)
  BY <1>0, DialogSifted DEF Hears, IsDialog
<1> DEFINE D == {t \in {ran[j] : j \in 0 .. Len(w)} : Hears(t, widget)}
<1> HIDE DEF ran, s, w, el
<1>5. ran[0] \in D
  BY <1>2, <1>3, <1>4 DEF IsTurn
<1>6. \A j \in 1 .. Len(w) : ran[j - 1] \in D => ran[j] \in D
  <2> SUFFICES ASSUME NEW j \in 1 .. Len(w), Hears(ran[j - 1], widget)
               PROVE  j \in 0 .. Len(w) /\ Hears(ran[j], widget)
    OBVIOUS
  <2> DEFINE r == ran[j - 1]
  <2>1. ran[j] = Dialog!Ended(r, el, w[j]) /\ j \in 0 .. Len(w) /\ w[j].step \in Step
    BY <1>2, <1>3 DEF IsTurn
  <2>2. IsDialog(r)
    BY DEF Hears
  <2> HIDE DEF r
  <2>3. Hears(Dialog!HideModal(r), r)
    BY <2>2, DialogHides
  <2>4. w[j].step # "hideModal" => Hears(Dialog!Runs(r, w[j].step), r)
    BY <2>1, <2>2, DialogRuns
  <2>5. Dialog!Ended(r, el, w[j]) =
          IF w[j].el # el THEN r
          ELSE IF w[j].step = "hideModal" THEN Dialog!HideModal(r)
          ELSE Dialog!Runs(r, w[j].step)
    BY DEF Dialog!Ended
  <2>6. Hears(ran[j], r)
    BY <2>1, <2>2, <2>3, <2>4, <2>5 DEF Hears
  <2> QED BY <2>1, <2>6 DEF Hears, r
<1>7. ran[Len(w)] \in D
  <2> HIDE DEF D
  <2> QED BY <1>2, <1>5, <1>6, Stays
<1>8. Hears(widget', widget)
  BY <1>1, <1>7
<1> QED BY <1>8 DEF Hears, DialogListens

LEMMA DialogStep ==
  ASSUME DialogListens(widget), Dialog!Next
  PROVE  DialogListens(widget') /\ (~widget.calm => ~widget'.calm)
<1> DEFINE OK(s) == DialogListens(s) /\ (~widget.calm => ~s.calm)
<1>0. PICK E : Fixtures \subseteq E /\ widget \in DialogState(E)
  BY DEF DialogListens, IsDialog
<1>1. ASSUME NEW s, OK(s), Dialog!Hides(s) PROVE OK(widget')
  BY <1>1, DialogShows DEF Dialog!Hides
<1>2. CASE Dialog!Toggle \/ Dialog!Call
  BY <1>1, <1>2, DialogShows DEF Dialog!Toggle, Dialog!Call, Dialog!Shows
<1>3. CASE Dialog!Dismiss \/ Dialog!Escape
  BY <1>1, <1>3 DEF Dialog!Dismiss, Dialog!Escape
<1>4. ASSUME NEW ignore \in BOOLEAN
      PROVE  OK([widget EXCEPT !.ignoreBackdropClick = ignore])
  <2> DEFINE t == [widget EXCEPT !.ignoreBackdropClick = ignore]
  <2>1. t \in DialogState(E) /\ t.isShown = widget.isShown /\ t.keyboard = widget.keyboard
        /\ t.listeners = widget.listeners /\ t.calm = widget.calm
    BY <1>0 DEF DialogState
  <2> HIDE DEF t
  <2> QED BY <1>0, <2>1 DEF DialogListens, IsDialog, t
<1>5. CASE Dialog!DragOut
  <2>1. PICK click \in BOOLEAN :
          widget' = [widget EXCEPT !.ignoreBackdropClick = ~(click /\ widget.listeners.click > 0)]
    BY <1>5 DEF Dialog!DragOut
  <2> DEFINE ignore == ~(click /\ widget.listeners.click > 0)
  <2>2. ignore \in BOOLEAN
    OBVIOUS
  <2> HIDE DEF ignore
  <2> QED BY <1>4, <2>1, <2>2 DEF ignore
<1>6. CASE Dialog!ClickBackdrop
  <2> DEFINE t == [widget EXCEPT !.ignoreBackdropClick = FALSE]
  <2>1. widget' = t \/ Dialog!Hides(t)
    BY <1>6, Zenon DEF Dialog!ClickBackdrop
  <2>2. OK(t)
    BY <1>4
  <2> HIDE DEF t
  <2> QED BY <1>1, <2>1, <2>2
<1>7. CASE \E i \in 1 .. Len(widget.waiting) : Dialog!Ends(i)
  BY <1>7, DialogEnds
<1> QED BY <1>2, <1>3, <1>5, <1>6, <1>7 DEF Dialog!Next

LEMMA DialogInit ==
  ASSUME Dialog!Init
  PROVE  DialogListens(widget)
<1>1. PICK backdrop \in {"yes", "static", "no"}, keyboard \in BOOLEAN, fade \in BOOLEAN,
           transition \in BOOLEAN, tall \in BOOLEAN :
        widget =
           [isShown |-> FALSE, display |-> FALSE, in |-> FALSE,
            backdrops |-> {}, own |-> None, ignoreBackdropClick |-> FALSE,
            open |-> FALSE, padding |-> 0, originalBodyPad |-> 0,
            listeners |-> Dialog!NoListeners, waiting |-> <<>>, calm |-> TRUE,
            backdrop |-> backdrop, keyboard |-> keyboard,
            animates |-> fade /\ transition, tall |-> tall]
  BY DEF Dialog!Init
<1> DEFINE animates == fade /\ transition
<1>2. animates \in BOOLEAN
  OBVIOUS
<1>3. widget \in DialogState(Fixtures)
  <2> HIDE DEF animates
  <2>1. <<>> \in Seq([el : Fixtures, step : Step]) /\ None \in Fixtures
    BY DEF Fixtures
  <2>2. widget.animates = animates
    BY <1>1 DEF animates
  <2> HIDE DEF animates
  <2> QED BY <1>1, <1>2, <2>1, <2>2 DEF DialogState, Dialog!NoListeners
<1> QED BY <1>1, <1>3 DEF DialogListens, IsDialog, Dialog!NoListeners

\* However its transitions overlap, a modal listens to its buttons, to the keys
\* and to the window while it is meant to be shown, once for each, and to
\* nothing else then (show, hide, escape and resize of modal.js).
THEOREM ModalListens == Spec => []ListensWhileShown
<1> DEFINE Inv == plugin = "modal" => DialogListens(widget)
<1>1. Init => Inv
  BY DialogInit DEF Init
<1>2. Inv /\ [Next]_<<plugin, widget>> => Inv'
  <2>1. CASE UNCHANGED <<plugin, widget>>
    BY <2>1 DEF DialogListens, IsDialog
  <2>2. CASE Next
    BY <2>2, DialogStep DEF Next
  <2> QED BY <2>1, <2>2
<1>3. Inv => ListensWhileShown
  BY DEF DialogListens, ListensWhileShown, Dialog!ListensWhileShown
<1> QED BY <1>1, <1>2, <1>3, PTL DEF Spec

\* The modal was never opened while it closed.  Those that wait for the dialog
\* do nothing; besides them at most two wait.
Focus == [el |-> "dialog", step |-> "focus"]
Entry(s) == [el |-> s.own, step |-> "enters"]
Hiding == [el |-> "element", step |-> "hideModal"]
Removal(s) == [el |-> s.own, step |-> "removes"]

NoneWaits(w) == \A j \in 1 .. Len(w) : w[j] = Focus
OneWaits(w, x) ==
  \E k \in 1 .. Len(w) : w[k] = x /\ \A j \in 1 .. Len(w) \ {k} : w[j] = Focus
TwoWait(w, x, y) ==
  \E k, l \in 1 .. Len(w) :
    k < l /\ w[k] = x /\ w[l] = y /\ \A j \in 1 .. Len(w) \ {k, l} : w[j] = Focus

OverOne(s) ==
  IF s.backdrop = "no" THEN s.own = None /\ s.backdrops = {}
  ELSE s.own \in Backdrop /\ s.backdrops = {s.own}

Closed(s) ==
  /\ ~s.isShown /\ ~s.open /\ ~s.display /\ s.own = None /\ s.backdrops = {}
  /\ s.padding = 0 /\ s.originalBodyPad = 0 /\ NoneWaits(s.waiting)

Opening(s) ==
  /\ s.isShown /\ s.open /\ OverOne(s) /\ s.originalBodyPad = 0
  /\ \/ NoneWaits(s.waiting) /\ s.display /\ s.in /\ s.listeners.focusin
     \/ s.animates /\ s.own # None /\ OneWaits(s.waiting, Entry(s))

Closing(s) ==
  /\ ~s.isShown /\ s.open /\ OverOne(s) /\ s.originalBodyPad = 0 /\ s.animates
  /\ \/ s.own # None /\ TwoWait(s.waiting, Entry(s), Hiding)
     \/ OneWaits(s.waiting, Hiding)
     \/ s.own # None /\ ~s.display /\ OneWaits(s.waiting, Removal(s))

LEMMA WaitingMore ==
  ASSUME NEW W, NEW w \in Seq(W), NEW x \in W
  PROVE  /\ Append(w, x) \in Seq(W)
         /\ NoneWaits(w) => OneWaits(Append(w, x), x) /\ (x = Focus => NoneWaits(Append(w, x)))
<1> DEFINE n == Len(w)
           v == Append(w, x)
<1>1. /\ v \in Seq(W) /\ Len(v) = n + 1 /\ n \in Nat /\ v[n + 1] = x
      /\ \A i \in 1 .. n : v[i] = w[i]
  OBVIOUS
<1> HIDE DEF v, n
<1>2. \A i \in 1 .. n + 1 : i = n + 1 \/ i \in 1 .. n
  BY <1>1
<1>3. n + 1 \in 1 .. n + 1 /\ \A i \in 1 .. n : i \in 1 .. n + 1 /\ i < n + 1 /\ i # n + 1
  BY <1>1
<1>4. ASSUME NoneWaits(w) PROVE OneWaits(v, x) /\ (x = Focus => NoneWaits(v))
  <2>1. \A j \in 1 .. n : v[j] = Focus
    BY <1>1, <1>4 DEF NoneWaits, n
  <2>2. \A j \in 1 .. n + 1 \ {n + 1} : v[j] = Focus
    BY <1>2, <2>1
  <2> QED BY <1>1, <1>2, <1>3, <2>1, <2>2 DEF OneWaits, NoneWaits
<1> QED BY <1>1, <1>4 DEF v

LEMMA WaitingTwo ==
  ASSUME NEW W, NEW w \in Seq(W), NEW x \in W, NEW y, OneWaits(w, y)
  PROVE  TwoWait(Append(w, x), y, x) /\ (x = Focus => OneWaits(Append(w, x), y))
<1> DEFINE n == Len(w)
           v == Append(w, x)
<1>1. /\ v \in Seq(W) /\ Len(v) = n + 1 /\ n \in Nat /\ v[n + 1] = x
      /\ \A i \in 1 .. n : v[i] = w[i]
  OBVIOUS
<1> HIDE DEF v, n
<1>2. \A i \in 1 .. n + 1 : i = n + 1 \/ i \in 1 .. n
  BY <1>1
<1>3. n + 1 \in 1 .. n + 1 /\ \A i \in 1 .. n : i \in 1 .. n + 1 /\ i < n + 1 /\ i # n + 1
  BY <1>1
<1>4. PICK k \in 1 .. n : w[k] = y /\ \A j \in 1 .. n \ {k} : w[j] = Focus
  BY DEF OneWaits, n
<1>5. /\ k \in 1 .. n + 1 /\ v[k] = y /\ k < n + 1
      /\ \A j \in 1 .. n + 1 \ {k, n + 1} : v[j] = Focus
      /\ x = Focus => \A j \in 1 .. n + 1 \ {k} : v[j] = Focus
  BY <1>1, <1>2, <1>3, <1>4
<1> QED BY <1>1, <1>3, <1>5 DEF TwoWait, OneWaits, v

\* What is left when those that wait for el have gone.
LEMMA WaitingLess ==
  ASSUME NEW W, NEW w \in Seq(W), NEW el
  PROVE  LET v == Dialog!Others(w, el)
         IN /\ NoneWaits(w) => NoneWaits(v)
            /\ \A x : OneWaits(w, x) => IF x.el = el THEN NoneWaits(v) ELSE OneWaits(v, x)
            /\ \A x, y : TwoWait(w, x, y) /\ y.el # el =>
                          IF x.el = el THEN OneWaits(v, y) ELSE TwoWait(v, x, y)
<1> DEFINE v == Dialog!Others(w, el)
           m == Len(v)
           n == Len(w)
<1>1. v \in Seq(W) /\ Sifts(v, n, w, el)
  BY OthersKept
<1>2. m \in Nat /\ n \in Nat
  <2> HIDE DEF v
  <2> QED BY <1>1
<1>3. PICK g \in [1 .. m -> 1 .. n] :
        /\ \A i, j \in 1 .. m : i < j => g[i] < g[j]
        /\ \A i \in 1 .. m : v[i] = w[g[i]]
        /\ \A j \in 1 .. n : w[j].el # el <=> \E i \in 1 .. m : g[i] = j
  <2> HIDE DEF v
  <2> QED BY <1>1 DEF Sifts
<1> HIDE DEF v, m, n
<1>4. ASSUME NoneWaits(w) PROVE NoneWaits(v)
  BY <1>3, <1>4 DEF NoneWaits, m, n
<1>5. \A i \in 1 .. m : w[g[i]].el # el /\ g[i] \in 1 .. n
  BY <1>3
<1>6. \A i, j \in 1 .. m : g[i] = g[j] => i = j
  BY <1>2, <1>3
<1>7. ASSUME NEW x, OneWaits(w, x)
      PROVE  IF x.el = el THEN NoneWaits(v) ELSE OneWaits(v, x)
  <2>1. PICK k \in 1 .. n : w[k] = x /\ \A j \in 1 .. n \ {k} : w[j] = Focus
    BY <1>7 DEF OneWaits, n
  <2>2. CASE x.el = el
    <3>1. \A i \in 1 .. m : g[i] # k
      BY <1>5, <2>1, <2>2
    <3> QED BY <1>3, <1>5, <2>1, <2>2, <3>1 DEF NoneWaits, m
  <2>3. CASE x.el # el
    <3>1. PICK a \in 1 .. m : g[a] = k
      BY <1>3, <2>1, <2>3
    <3>2. \A i \in 1 .. m \ {a} : g[i] \in 1 .. n \ {k}
      BY <1>5, <1>6, <3>1
    <3> QED BY <1>3, <2>1, <2>3, <3>1, <3>2 DEF OneWaits, m
  <2> QED BY <2>2, <2>3
<1>8. ASSUME NEW x, NEW y, TwoWait(w, x, y), y.el # el
      PROVE  IF x.el = el THEN OneWaits(v, y) ELSE TwoWait(v, x, y)
  <2>1. PICK k \in 1 .. n, l \in 1 .. n :
          k < l /\ w[k] = x /\ w[l] = y /\ \A j \in 1 .. n \ {k, l} : w[j] = Focus
    BY <1>8 DEF TwoWait, n
  <2>2. PICK b \in 1 .. m : g[b] = l
    BY <1>3, <1>8, <2>1
  <2>3. CASE x.el = el
    <3>1. \A i \in 1 .. m : g[i] # k
      BY <1>5, <2>1, <2>3
    <3>2. \A i \in 1 .. m \ {b} : g[i] \in 1 .. n \ {k, l}
      BY <1>5, <1>6, <2>2, <3>1
    <3>3. v[b] = y /\ \A i \in 1 .. m \ {b} : v[i] = Focus
      BY <1>3, <2>1, <2>2, <3>2
    <3> QED BY <2>3, <3>3 DEF OneWaits, m
  <2>4. CASE x.el # el
    <3>1. PICK a \in 1 .. m : g[a] = k
      BY <1>3, <2>1, <2>4
    <3>2. \A i \in 1 .. m \ {a, b} : g[i] \in 1 .. n \ {k, l}
      BY <1>5, <1>6, <2>2, <3>1
    <3>3. a < b
      <4>1. ~(b < a) /\ a # b
        <5>1. b < a => l < k
          BY <1>3, <2>2, <3>1
        <5> QED BY <1>2, <2>1, <2>2, <3>1, <5>1
      <4> QED BY <1>2, <4>1
    <3>4. v[a] = x /\ v[b] = y /\ \A i \in 1 .. m \ {a, b} : v[i] = Focus
      BY <1>3, <2>1, <2>2, <3>1, <3>2
    <3> QED BY <2>4, <3>3, <3>4 DEF TwoWait, m
  <2> QED BY <2>3, <2>4
<1> QED BY <1>4, <1>7, <1>8 DEF v

\* Of those that are due one alone does anything.
LEMMA DialogTurnsOnce ==
  ASSUME NEW s, NEW w, NEW el, Len(w) \in Nat, NEW f, IsTurn(f, s, w, el),
         NEW k \in 1 .. Len(w),
         \A j \in 1 .. Len(w) \ {k} : w[j].el # el \/ w[j] = Focus
  PROVE  f[Len(w)] = Dialog!Ended(s, el, w[k])
<1> DEFINE n == Len(w)
           e == Dialog!Ended(s, el, w[k])
<1>1. \A r : Dialog!Ended(r, el, Focus) = r
  BY DEF Dialog!Ended, Dialog!Runs, Focus
<1>2. \A r : \A j \in 1 .. n \ {k} : Dialog!Ended(r, el, w[j]) = r
  BY <1>1 DEF Dialog!Ended
<1>3. \A j \in 1 .. n \ {k} : f[j] = f[j - 1]
  BY <1>2 DEF IsTurn
<1> HIDE DEF n, e
<1>4. n \in Nat /\ k \in 0 .. n /\ k \in 1 .. n /\ k - 1 \in Nat /\ 0 \in 0 .. k - 1
  BY DEF n
<1>5. f[k - 1] = s
  <2>1. \A i \in 0 + 1 .. k - 1 : f[i] = f[i - 1]
    BY <1>3, <1>4
  <2>2. f[0] \in {s}
    BY DEF IsTurn
  <2>3. f[k - 1] \in {s}
    <3> DEFINE D == {s}
    <3>1. f[0] \in D /\ \A i \in 0 + 1 .. k - 1 : f[i - 1] \in D => f[i] \in D
      BY <2>1, <2>2
    <3> HIDE DEF D
    <3>2. f[k - 1] \in D
      BY <1>4, <3>1, Stays
    <3> QED BY <3>2 DEF D
  <2> QED BY <2>3
<1>6. f[k] = e
  BY <1>4, <1>5 DEF IsTurn, n, e
<1>7. f[n] \in {e}
  <2> DEFINE D == {e}
  <2>1. f[k] \in D /\ \A i \in k + 1 .. n : f[i - 1] \in D => f[i] \in D
    BY <1>3, <1>4, <1>6
  <2> HIDE DEF D
  <2>2. f[n] \in D
    BY <1>4, <2>1, Stays
  <2> QED BY <2>2 DEF D
<1> QED BY <1>7 DEF n, e

\* What show and hide leave alone when they do not say so.
Body(t, s) ==
  /\ t.isShown = s.isShown /\ t.open = s.open /\ t.own = s.own /\ t.backdrops = s.backdrops
  /\ t.padding = s.padding /\ t.originalBodyPad = s.originalBodyPad
  /\ t.backdrop = s.backdrop /\ t.animates = s.animates

LEMMA EntersDoes ==
  ASSUME NEW E, Fixtures \subseteq E, NEW s \in DialogState(E)
  PROVE  LET t == Dialog!Enters(s)
         IN /\ t \in DialogState(E) /\ Body(t, s)
            /\ t.display /\ t.in /\ t.listeners.focusin
            /\ t.waiting = IF s.animates THEN Append(s.waiting, Focus) ELSE s.waiting
<1> DEFINE l == [s.listeners EXCEPT !.focusin = TRUE]
           t == [s EXCEPT !.display = TRUE, !.in = TRUE, !.listeners.focusin = TRUE]
           v == [t EXCEPT !.waiting = Append(@, Focus)]
<1>1. Dialog!Enters(s) = IF s.animates THEN v ELSE t
  BY DEF Dialog!Enters, Dialog!Waits, DialogState, Focus
<1>2. t \in DialogState(E) /\ Body(t, s) /\ t.display /\ t.in /\ t.listeners.focusin
      /\ t.waiting = s.waiting
  BY DEF DialogState, Body
<1>3. v \in DialogState(E)
  <2> HIDE DEF t
  <2>1. v = Dialog!Waits(t, "dialog", "focus")
    BY DEF Dialog!Waits, Focus
  <2>2. "dialog" \in E /\ "focus" \in Step
    BY DEF Fixtures, Step
  <2> HIDE DEF v
  <2> QED BY <1>2, <2>1, <2>2, DialogWaits
<1> HIDE DEF t
<1>4. Body(v, t) /\ v.display = t.display /\ v.in = t.in /\ v.listeners = t.listeners
      /\ v.waiting = Append(t.waiting, Focus)
  BY <1>2 DEF DialogState, Body
<1> HIDE DEF v
<1> QED BY <1>1, <1>2, <1>3, <1>4 DEF Body

LEMMA LeavesDoes ==
  ASSUME NEW E, NEW s \in DialogState(E)
  PROVE  LET t == Dialog!Leaves(s)
         IN /\ t \in DialogState(E) /\ ~t.open /\ t.padding = s.originalBodyPad
            /\ t.originalBodyPad = s.originalBodyPad /\ t.isShown = s.isShown
            /\ t.own = s.own /\ t.backdrops = s.backdrops /\ t.display = s.display
            /\ t.waiting = s.waiting
BY DEF Dialog!Leaves, DialogState

LEMMA RemovesDoes ==
  ASSUME NEW E, Fixtures \subseteq E, NEW s \in DialogState(E)
  PROVE  LET t == Dialog!Removes(s)
         IN /\ t \in DialogState(E) /\ ~t.open /\ t.padding = s.originalBodyPad
            /\ t.originalBodyPad = s.originalBodyPad /\ t.isShown = s.isShown
            /\ t.own = None /\ t.backdrops = s.backdrops \ {s.own} /\ t.display = s.display
            /\ t.waiting = s.waiting
<1> DEFINE r == [s EXCEPT !.backdrops = @ \ {s.own}, !.own = None]
<1>1. r \in DialogState(E) /\ r.originalBodyPad = s.originalBodyPad /\ r.isShown = s.isShown
      /\ r.own = None /\ r.backdrops = s.backdrops \ {s.own} /\ r.display = s.display
      /\ r.waiting = s.waiting
  BY DEF DialogState, Fixtures
<1> HIDE DEF r
<1> QED BY <1>1, LeavesDoes DEF Dialog!Removes, r

LEMMA HideModalDoes ==
  ASSUME NEW E, Fixtures \subseteq E, NEW s \in DialogState(E), ~s.isShown
  PROVE  LET t == Dialog!HideModal(s)
         IN /\ t \in DialogState(E) /\ ~t.isShown /\ ~t.display
            /\ t.originalBodyPad = s.originalBodyPad
            /\ IF s.own # None /\ s.animates
                 THEN Body(t, s) /\ t.waiting = Append(s.waiting, Removal(s))
               ELSE /\ ~t.open /\ t.padding = s.originalBodyPad /\ t.own = None
                    /\ t.backdrops = (IF s.own = None THEN s.backdrops
                                      ELSE s.backdrops \ {s.own})
                    /\ t.waiting = s.waiting
<1> DEFINE r == [s EXCEPT !.display = FALSE]
<1>1. r \in DialogState(E) /\ Body(r, s) /\ ~r.display /\ r.waiting = s.waiting
  BY DEF DialogState, Body
<1>2. Dialog!HideModal(s) =
        IF s.own # None THEN IF s.animates THEN Dialog!Waits(r, s.own, "removes")
                             ELSE Dialog!Removes(r)
        ELSE Dialog!Leaves(r)
  <2> HIDE DEF r
  <2>1. Dialog!HideModal(s) = Dialog!backdrop(r, "leaves")
    BY DEF Dialog!HideModal, r
  <2> QED BY <1>1, <2>1 DEF Dialog!backdrop, Dialog!Runs, Body
<1> HIDE DEF r
<1>3. CASE s.own # None /\ s.animates
  <2> DEFINE t == Dialog!Waits(r, s.own, "removes")
  <2>1. t \in DialogState(E)
    <3>1. s.own \in E /\ "removes" \in Step
      BY DEF DialogState, Step
    <3> QED BY <1>1, <3>1, DialogWaits
  <2>2. Body(t, r) /\ t.display = r.display /\ t.waiting = Append(r.waiting, Removal(s))
    BY <1>1 DEF Dialog!Waits, DialogState, Body, Removal
  <2> HIDE DEF t
  <2> QED BY <1>1, <1>2, <1>3, <2>1, <2>2 DEF Body, t
<1>4. CASE s.own # None /\ ~s.animates
  <2> DEFINE t == Dialog!Removes(r)
  <2>1. /\ t \in DialogState(E) /\ ~t.open /\ t.padding = r.originalBodyPad
        /\ t.originalBodyPad = r.originalBodyPad /\ t.isShown = r.isShown
        /\ t.own = None /\ t.backdrops = r.backdrops \ {r.own} /\ t.display = r.display
        /\ t.waiting = r.waiting
    BY <1>1, RemovesDoes
  <2> HIDE DEF t
  <2> QED BY <1>1, <1>2, <1>4, <2>1 DEF Body, t
<1>5. CASE s.own = None
  <2> DEFINE t == Dialog!Leaves(r)
  <2>1. /\ t \in DialogState(E) /\ ~t.open /\ t.padding = r.originalBodyPad
        /\ t.originalBodyPad = r.originalBodyPad /\ t.isShown = r.isShown
        /\ t.own = r.own /\ t.backdrops = r.backdrops /\ t.display = r.display
        /\ t.waiting = r.waiting
    BY <1>1, LeavesDoes
  <2> HIDE DEF t
  <2> QED BY <1>1, <1>2, <1>5, <2>1 DEF Body, t
<1> QED BY <1>3, <1>4, <1>5

LEMMA ClosedShows ==
  ASSUME NEW E, Fixtures \cup Backdrop \subseteq E, NEW s \in DialogState(E), Closed(s),
         \E b \in Backdrop : b \notin s.backdrops
  PROVE  Dialog!show(s) \in DialogState(E) /\ Opening(Dialog!show(s))
<1> DEFINE u == Dialog!SetsScrollbar(s)
           r == [u EXCEPT !.isShown = TRUE, !.open = TRUE, !.listeners = Dialog!Listens(s),
                          !.calm = @ /\ ~s.open]
           new == CHOOSE b \in Backdrop : b \notin r.backdrops
           l == [r.listeners EXCEPT !.click = @ + 1]
           added == [r EXCEPT !.own = new, !.backdrops = @ \cup {new}, !.listeners.click = @ + 1]
           x == [el |-> new, step |-> "enters"]
<1>1. r \in DialogState(E) /\ r.isShown /\ r.open /\ r.own = None /\ r.backdrops = {}
      /\ r.originalBodyPad = 0 /\ r.waiting = s.waiting /\ r.backdrop = s.backdrop
      /\ r.animates = s.animates
  <2> DEFINE pad == IF s.tall /\ ~s.open THEN s.padding + 1 ELSE s.padding
             calm == u.calm /\ ~s.open
             k == Dialog!Listens(s)
  <2>1. u = [s EXCEPT !.originalBodyPad = 0, !.padding = pad] /\ pad \in Nat
    BY DEF Dialog!SetsScrollbar, DialogState, Closed
  <2>2. k \in Listeners
    BY ListensMore
  <2> HIDE DEF pad, k, u
  <2>3. u \in DialogState(E) /\ u.originalBodyPad = 0 /\ u.waiting = s.waiting
        /\ u.own = s.own /\ u.backdrops = s.backdrops /\ u.backdrop = s.backdrop
        /\ u.animates = s.animates
    BY <2>1 DEF DialogState, Body
  <2>4. calm \in BOOLEAN /\ r = [u EXCEPT !.isShown = TRUE, !.open = TRUE, !.listeners = k,
                                          !.calm = calm]
    BY <2>3 DEF DialogState, k
  <2> HIDE DEF calm, r
  <2> QED BY <2>2, <2>3, <2>4 DEF DialogState, Listeners, Closed
<1>2. Dialog!show(s) = Dialog!backdrop(r, "enters")
  BY Zenon DEF Dialog!show, Closed
<1> HIDE DEF r
<1>3. /\ r.backdrop = "no" => Dialog!show(s) = Dialog!Enters(r)
      /\ r.backdrop # "no" => Dialog!show(s) = IF r.animates THEN Dialog!Waits(added, new, "enters")
                                               ELSE Dialog!Enters(added)
  BY <1>1, <1>2, Zenon DEF Dialog!backdrop, Dialog!Runs
<1>4. new \in Backdrop /\ new \notin r.backdrops /\ new \in E /\ new # None
  <2>1. \E b \in Backdrop : b \notin r.backdrops
    BY <1>1 DEF Closed
  <2>2. new \in Backdrop /\ new \notin r.backdrops
    BY <2>1
  <2> HIDE DEF new
  <2> QED BY <2>2, DialogAssumption
<1> HIDE DEF new
<1>5. added \in DialogState(E) /\ added.own = new /\ added.backdrops = {new}
      /\ added.isShown /\ added.open /\ added.originalBodyPad = 0
      /\ added.waiting = s.waiting /\ added.backdrop = s.backdrop
      /\ added.animates = s.animates
  <2>1. l \in Listeners
    BY <1>1 DEF DialogState, Listeners
  <2>2. added = [r EXCEPT !.own = new, !.backdrops = @ \cup {new}, !.listeners = l]
    BY <1>1 DEF DialogState
  <2> HIDE DEF l, added
  <2> QED BY <1>1, <1>4, <2>1, <2>2 DEF DialogState, Listeners
<1> HIDE DEF added
<1>6. NoneWaits(s.waiting) /\ s.waiting \in Seq([el : E, step : Step])
  BY DEF Closed, DialogState
<1>7. Focus \in [el : E, step : Step] /\ x \in [el : E, step : Step]
  BY <1>4 DEF Focus, Fixtures, Step
<1> DEFINE W == [el : E, step : Step]
<1>8. NoneWaits(Append(s.waiting, Focus)) /\ OneWaits(Append(s.waiting, x), x)
  <2>1. s.waiting \in Seq(W) /\ Focus \in W /\ x \in W
    BY <1>6, <1>7
  <2> HIDE DEF W, x
  <2> QED BY <1>6, <2>1, WaitingMore
<1>9. CASE r.backdrop = "no"
  <2>1. LET t == Dialog!Enters(r)
        IN /\ t \in DialogState(E) /\ Body(t, r) /\ t.display /\ t.in /\ t.listeners.focusin
           /\ t.waiting = IF r.animates THEN Append(r.waiting, Focus) ELSE r.waiting
    BY <1>1, EntersDoes
  <2> QED BY <1>1, <1>3, <1>6, <1>8, <1>9, <2>1 DEF Opening, OverOne, Body
<1>10. CASE r.backdrop # "no" /\ ~r.animates
  <2>1. LET t == Dialog!Enters(added)
        IN /\ t \in DialogState(E) /\ Body(t, added) /\ t.display /\ t.in /\ t.listeners.focusin
           /\ t.waiting = IF added.animates THEN Append(added.waiting, Focus) ELSE added.waiting
    BY <1>5, EntersDoes
  <2> QED BY <1>1, <1>3, <1>4, <1>5, <1>6, <1>10, <2>1 DEF Opening, OverOne, Body
<1>11. CASE r.backdrop # "no" /\ r.animates
  <2> DEFINE t == Dialog!Waits(added, new, "enters")
  <2>1. t \in DialogState(E)
    BY <1>4, <1>5, DialogWaits DEF Step
  <2>2. Body(t, added) /\ t.waiting = Append(added.waiting, x)
    BY <1>5 DEF Dialog!Waits, DialogState, Body
  <2>3. Entry(t) = x
    BY <1>5, <2>2 DEF Entry, Body
  <2> HIDE DEF t, x
  <2>4. Opening(t)
    BY <1>1, <1>4, <1>5, <1>8, <1>11, <2>2, <2>3 DEF Opening, OverOne, Body
  <2> QED BY <1>3, <1>11, <2>1, <2>4 DEF t
<1> QED BY <1>9, <1>10, <1>11

LEMMA OpeningHides ==
  ASSUME NEW E, Fixtures \cup Backdrop \subseteq E, NEW s \in DialogState(E), Opening(s)
  PROVE  LET t == Dialog!hide(s) IN t \in DialogState(E) /\ (Closing(t) \/ Closed(t))
<1> DEFINE r == [s EXCEPT !.isShown = FALSE, !.in = FALSE, !.listeners = Dialog!NoListeners]
           W == [el : E, step : Step]
<1>1. /\ r \in DialogState(E) /\ ~r.isShown /\ r.open = s.open /\ r.own = s.own
      /\ r.backdrops = s.backdrops /\ r.originalBodyPad = 0 /\ r.backdrop = s.backdrop
      /\ r.animates = s.animates /\ r.waiting = s.waiting
  BY DEF DialogState, Dialog!NoListeners, Opening
<1>2. Dialog!hide(s) = IF s.animates THEN Dialog!Waits(r, "element", "hideModal")
                       ELSE Dialog!HideModal(r)
  BY Zenon DEF Dialog!hide, Opening
<1> HIDE DEF r
<1>3. CASE s.animates
  <2> DEFINE t == Dialog!Waits(r, "element", "hideModal")
  <2>1. t \in DialogState(E)
    <3>1. "element" \in E /\ "hideModal" \in Step
      BY DEF Fixtures, Step
    <3> QED BY <1>1, <3>1, DialogWaits
  <2>2. Body(t, r) /\ t.waiting = Append(s.waiting, Hiding)
    BY <1>1 DEF Dialog!Waits, DialogState, Body, Hiding
  <2>3. s.waiting \in Seq(W) /\ Hiding \in W
    BY DEF DialogState, Hiding, Fixtures, Step
  <2>4. Entry(t) = Entry(s)
    BY <1>1, <2>2 DEF Entry, Body
  <2> HIDE DEF t, W
  <2>5. /\ NoneWaits(s.waiting) => OneWaits(t.waiting, Hiding)
        /\ OneWaits(s.waiting, Entry(s)) => TwoWait(t.waiting, Entry(s), Hiding)
    <3>1. NoneWaits(s.waiting) => OneWaits(Append(s.waiting, Hiding), Hiding)
      BY <2>3, WaitingMore
    <3>2. OneWaits(s.waiting, Entry(s)) => TwoWait(Append(s.waiting, Hiding), Entry(s), Hiding)
      BY <2>3, WaitingTwo
    <3> QED BY <2>2, <3>1, <3>2
  <2>6. Closing(t)
    BY <1>1, <1>3, <2>2, <2>4, <2>5 DEF Opening, Closing, OverOne, Body
  <2> QED BY <1>2, <1>3, <2>1, <2>6 DEF t
<1>4. CASE ~s.animates
  <2> DEFINE t == Dialog!HideModal(r)
  <2>1. /\ t \in DialogState(E) /\ ~t.isShown /\ ~t.display
        /\ t.originalBodyPad = r.originalBodyPad
        /\ IF r.own # None /\ r.animates
             THEN Body(t, r) /\ t.waiting = Append(r.waiting, Removal(r))
           ELSE /\ ~t.open /\ t.padding = r.originalBodyPad /\ t.own = None
                /\ t.backdrops = (IF r.own = None THEN r.backdrops ELSE r.backdrops \ {r.own})
                /\ t.waiting = r.waiting
    BY <1>1, HideModalDoes
  <2>2. s.own # None => r.backdrops = {s.own}
    BY <1>1 DEF Opening, OverOne
  <2>3. s.own = None => r.backdrops = {}
    BY <1>1, DialogAssumption DEF Opening, OverOne
  <2> HIDE DEF t
  <2>4. Closed(t)
    BY <1>1, <1>4, <2>1, <2>2, <2>3 DEF Opening, Closed
  <2> QED BY <1>2, <1>4, <2>1, <2>4 DEF t
<1> QED BY <1>3, <1>4

\* What ends of a modal that opens or closes.
LEMMA DialogEndsOne ==
  ASSUME NEW E, Fixtures \cup Backdrop \subseteq E, widget \in DialogState(E),
         NEW i \in 1 .. Len(widget.waiting), Dialog!Ends(i),
         \A j \in 1 .. Len(widget.waiting) \ {i} :
           widget.waiting[j].el # widget.waiting[i].el \/ widget.waiting[j] = Focus
  PROVE  LET x == widget.waiting[i]
             s == [widget EXCEPT !.waiting = Dialog!Others(@, x.el)]
         IN widget' = IF x.step = "hideModal" THEN Dialog!HideModal(s) ELSE Dialog!Runs(s, x.step)
<1> DEFINE w == widget.waiting
           el == w[i].el
           s == [widget EXCEPT !.waiting = Dialog!Others(@, el)]
           ran == CHOOSE f : f = [j \in 0 .. Len(w) |->
                                    IF j = 0 THEN s ELSE Dialog!Ended(f[j - 1], el, w[j])]
<1>1. widget' = ran[Len(w)]
  BY Zenon DEF Dialog!Ends, Dialog!InTurn
<1>2. Len(w) \in Nat
  BY DEF DialogState
<1>3. IsTurn(ran, s, w, el)
  <2> HIDE DEF s, w, el
  <2> QED BY <1>2, DialogTurn
<1> HIDE DEF s, ran
<1>4. ran[Len(w)] = Dialog!Ended(s, el, w[i])
  BY <1>2, <1>3, DialogTurnsOnce
<1>5. Dialog!Ended(s, el, w[i]) = IF w[i].step = "hideModal" THEN Dialog!HideModal(s)
                                ELSE Dialog!Runs(s, w[i].step)
  BY DEF Dialog!Ended
<1> QED BY <1>1, <1>4, <1>5 DEF s

LEMMA DialogEndsCalm ==
  ASSUME NEW E, Fixtures \cup Backdrop \subseteq E, widget \in DialogState(E),
         NEW i \in 1 .. Len(widget.waiting), Dialog!Ends(i),
         Closed(widget) \/ Opening(widget) \/ Closing(widget)
  PROVE  /\ widget' \in DialogState(E)
         /\ Closed(widget') \/ Opening(widget') \/ Closing(widget')
<1> DEFINE w == widget.waiting
           x == w[i]
           s == [widget EXCEPT !.waiting = Dialog!Others(@, x.el)]
           W == [el : E, step : Step]
           v == Dialog!Others(w, x.el)
<1>1. w \in Seq(W)
  BY DEF DialogState
<1>2. s \in DialogState(E)
  BY DialogSifted
<1>3. Body(s, widget) /\ s.waiting = v /\ s.display = widget.display /\ s.in = widget.in
      /\ s.listeners = widget.listeners
  <2> HIDE DEF v
  <2>1. s = [widget EXCEPT !.waiting = v]
    BY DEF DialogState, v
  <2> HIDE DEF s
  <2> QED BY <2>1 DEF DialogState, Body
<1>4. /\ NoneWaits(w) => NoneWaits(v)
      /\ \A y : OneWaits(w, y) => IF y.el = x.el THEN NoneWaits(v) ELSE OneWaits(v, y)
      /\ \A y, z : TwoWait(w, y, z) /\ z.el # x.el =>
                    IF y.el = x.el THEN OneWaits(v, z) ELSE TwoWait(v, y, z)
  <2> HIDE DEF W, w, x
  <2> QED BY <1>1, WaitingLess
<1>5. (Entry(s) = Entry(widget) /\ Removal(s) = Removal(widget))
  BY <1>3 DEF Entry, Removal, Body
<1>6. OverOne(widget) => OverOne(s) /\ (widget.own # None => widget.own \notin {"dialog", "element"})
  BY <1>3, DialogAssumption DEF OverOne, Body
<1> DEFINE Next1 == widget' = IF x.step = "hideModal" THEN Dialog!HideModal(s)
                              ELSE Dialog!Runs(s, x.step)
<1>7. (\A j \in 1 .. Len(w) \ {i} : w[j].el # x.el \/ w[j] = Focus) => Next1
  BY DialogEndsOne
<1>8. Dialog!Runs(s, "focus") = s /\ Dialog!Runs(s, "enters") = Dialog!Enters(s)
      /\ Dialog!Runs(s, "removes") = Dialog!Removes(s)
  BY DEF Dialog!Runs
<1> HIDE DEF s, v, Next1
<1>9. ASSUME NoneWaits(w)
      PROVE  x = Focus /\ Next1
  BY <1>7, <1>9 DEF NoneWaits
<1>10. ASSUME NEW y, OneWaits(w, y), y.el # "dialog"
       PROVE  (x = Focus \/ x = y) /\ Next1
  BY <1>7, <1>10 DEF OneWaits, Focus
<1>11. ASSUME NEW y, NEW z, TwoWait(w, y, z), y.el # "dialog", z.el # "dialog", y.el # z.el,
              y.el \in Backdrop
       PROVE  (x = Focus \/ x = y) /\ Next1
  <2>1. PICK k \in 1 .. Len(w), l \in 1 .. Len(w) :
          k < l /\ w[k] = y /\ w[l] = z /\ \A j \in 1 .. Len(w) \ {k, l} : w[j] = Focus
    BY <1>11 DEF TwoWait
  <2>2. i # l
    <3>1. \A j \in 1 .. i - 1 : w[j].el \notin Backdrop
      BY DEF Dialog!Ends, Dialog!Due
    <3>2. i = l => k \in 1 .. i - 1
      BY <1>1, <2>1
    <3> HIDE DEF w
    <3> QED BY <1>11, <2>1, <3>1, <3>2
  <2>0. i \in 1 .. Len(w)
    OBVIOUS
  <2> HIDE DEF w
  <2>3. Focus.el = "dialog"
    BY DEF Focus
  <2>4. CASE i = k
    <3>0. x = y
      BY <2>1, <2>4
    <3>1. \A j \in 1 .. Len(w) \ {i} : w[j].el # x.el \/ w[j] = Focus
      <4>1. \A j \in 1 .. Len(w) : j = k \/ j = l \/ w[j] = Focus
        BY <2>1
      <4> HIDE DEF x
      <4> QED BY <1>11, <2>1, <2>4, <3>0, <4>1
    <3> QED BY <1>7, <3>0, <3>1
  <2>5. CASE i # k
    <3>1. x = Focus
      BY <2>0, <2>1, <2>2, <2>5
    <3>2. \A j \in 1 .. Len(w) \ {i} : w[j].el # x.el \/ w[j] = Focus
      <4>1. \A j \in 1 .. Len(w) : j = k \/ j = l \/ w[j] = Focus
        BY <2>1
      <4> HIDE DEF x
      <4> QED BY <1>11, <2>1, <2>3, <3>1, <4>1
    <3> QED BY <1>7, <3>1, <3>2
  <2> QED BY <2>4, <2>5
<1>12. Next1 /\ x = Focus => widget' = s
  BY <1>8 DEF Next1, Focus
<1>13. Next1 /\ x.step = "enters" => widget' = Dialog!Enters(s)
  BY <1>8 DEF Next1
<1>14. LET t == Dialog!Enters(s)
       IN /\ t \in DialogState(E) /\ Body(t, s) /\ t.display /\ t.in /\ t.listeners.focusin
          /\ t.waiting = IF s.animates THEN Append(v, Focus) ELSE v
  BY <1>2, <1>3, EntersDoes
<1>15. v \in Seq(W) /\ Focus \in W
  <2>1. s.waiting \in Seq(W)
    BY <1>2 DEF DialogState
  <2>2. Focus \in W
    BY DEF Focus, Fixtures, Step
  <2> HIDE DEF W
  <2> QED BY <1>3, <2>1, <2>2
<1>16. /\ NoneWaits(v) => NoneWaits(Append(v, Focus))
       /\ OneWaits(v, Hiding) => OneWaits(Append(v, Focus), Hiding)
  <2> HIDE DEF W
  <2>1. NoneWaits(v) => NoneWaits(Append(v, Focus))
    BY <1>15, WaitingMore
  <2>2. OneWaits(v, Hiding) => OneWaits(Append(v, Focus), Hiding)
    BY <1>15, WaitingTwo
  <2> QED BY <2>1, <2>2
<1> HIDE DEF w, x, W
<1>17. CASE Closed(widget)
  <2>1. NoneWaits(w)
    BY <1>17 DEF Closed, w
  <2>2. Closed(s)
    BY <1>3, <1>4, <1>17, <2>1 DEF Closed, Body
  <2> QED BY <1>2, <1>9, <1>12, <2>1, <2>2
<1>18. CASE Opening(widget)
  <2>1. CASE NoneWaits(w) /\ widget.display /\ widget.in /\ widget.listeners.focusin
    <3>1. Opening(s)
      BY <1>3, <1>4, <1>6, <1>18, <2>1 DEF Opening, Body
    <3> QED BY <1>2, <1>9, <1>12, <2>1, <3>1
  <2>2. CASE widget.animates /\ widget.own # None /\ OneWaits(w, Entry(widget))
    <3>1. Entry(widget).el \notin {"dialog", "element"} /\ Entry(widget).step = "enters"
      BY <1>6, <1>18, <2>2 DEF Opening, Entry
    <3>2. CASE x = Focus
      <4>1. OneWaits(v, Entry(s))
        BY <1>4, <1>5, <2>2, <3>1, <3>2 DEF Focus
      <4>2. Opening(s)
        BY <1>3, <1>6, <1>18, <2>2, <4>1 DEF Opening, Body
      <4> QED BY <1>2, <1>10, <1>12, <2>2, <3>1, <3>2, <4>2
    <3>3. CASE x = Entry(widget)
      <4>1. NoneWaits(v)
        BY <1>4, <2>2, <3>3
      <4>2. Opening(Dialog!Enters(s))
        BY <1>3, <1>6, <1>14, <1>16, <1>18, <4>1 DEF Opening, OverOne, Body
      <4> QED BY <1>10, <1>13, <1>14, <2>2, <3>1, <3>3, <4>2
    <3> QED BY <1>10, <2>2, <3>1, <3>2, <3>3
  <2> QED BY <1>18, <2>1, <2>2 DEF Opening, w
<1>19. CASE Closing(widget)
  <2>1. CASE widget.own # None /\ TwoWait(w, Entry(widget), Hiding)
    <3>1. /\ Entry(widget).el \notin {"dialog", "element"} /\ Entry(widget).step = "enters"
          /\ Entry(widget).el \in Backdrop /\ Hiding.el = "element"
      BY <1>6, <1>19, <2>1 DEF Closing, OverOne, Entry, Hiding
    <3>2. (x = Focus \/ x = Entry(widget)) /\ Next1
      BY <1>11, <2>1, <3>1
    <3>3. CASE x = Focus
      <4>1. TwoWait(v, Entry(s), Hiding)
        BY <1>4, <1>5, <2>1, <3>1, <3>3 DEF Focus
      <4>2. Closing(s)
        BY <1>3, <1>6, <1>19, <2>1, <4>1 DEF Closing, Body
      <4> QED BY <1>2, <1>12, <3>2, <3>3, <4>2
    <3>4. CASE x = Entry(widget)
      <4>1. OneWaits(v, Hiding)
        BY <1>4, <2>1, <3>1, <3>4
      <4>2. Closing(Dialog!Enters(s))
        BY <1>3, <1>6, <1>14, <1>16, <1>19, <4>1 DEF Closing, OverOne, Body
      <4> QED BY <1>13, <1>14, <3>1, <3>2, <3>4, <4>2
    <3> QED BY <3>2, <3>3, <3>4
  <2>2. CASE OneWaits(w, Hiding)
    <3>1. Hiding.el = "element" /\ Hiding.step = "hideModal"
      BY DEF Hiding
    <3>2. (x = Focus \/ x = Hiding) /\ Next1
      BY <1>10, <2>2, <3>1
    <3>3. CASE x = Focus
      <4>1. OneWaits(v, Hiding)
        BY <1>4, <2>2, <3>1, <3>3 DEF Focus
      <4>2. Closing(s)
        BY <1>3, <1>6, <1>19, <4>1 DEF Closing, Body
      <4> QED BY <1>2, <1>12, <3>2, <3>3, <4>2
    <3>4. CASE x = Hiding
      <4> DEFINE t == Dialog!HideModal(s)
      <4>1. widget' = t
        BY <3>1, <3>2, <3>4 DEF Next1
      <4>2. NoneWaits(v) /\ ~s.isShown
        BY <1>3, <1>4, <1>19, <2>2, <3>4 DEF Closing, Body
      <4>3. /\ t \in DialogState(E) /\ ~t.isShown /\ ~t.display
            /\ t.originalBodyPad = s.originalBodyPad
            /\ IF s.own # None /\ s.animates
                 THEN Body(t, s) /\ t.waiting = Append(s.waiting, Removal(s))
               ELSE /\ ~t.open /\ t.padding = s.originalBodyPad /\ t.own = None
                    /\ t.backdrops = (IF s.own = None THEN s.backdrops
                                      ELSE s.backdrops \ {s.own})
                    /\ t.waiting = s.waiting
        BY <1>2, <4>2, HideModalDoes
      <4> HIDE DEF t
      <4>4. CASE s.own # None
        <5>1. Removal(s) \in W
          BY <1>2 DEF W, DialogState, Removal, Step
        <5>2. OneWaits(Append(v, Removal(s)), Removal(s))
          BY <1>15, <4>2, <5>1, WaitingMore
        <5>3. s.animates
          BY <1>3, <1>19 DEF Closing, Body
        <5>4. Removal(t) = Removal(s)
          BY <4>3, <4>4, <5>3 DEF Removal, Body
        <5>5. Closing(t)
          BY <1>3, <1>6, <1>19, <4>3, <4>4, <5>2, <5>3, <5>4 DEF Closing, OverOne, Body
        <5> QED BY <4>1, <4>3, <5>5
      <4>5. CASE s.own = None
        <5>1. s.backdrops = {}
          BY <1>6, <1>19, <4>5, DialogAssumption DEF Closing, OverOne
        <5>2. Closed(t)
          BY <1>3, <1>19, <4>2, <4>3, <4>5, <5>1 DEF Closed, Closing, Body
        <5> QED BY <4>1, <4>3, <5>2
      <4> QED BY <4>4, <4>5
    <3> QED BY <3>2, <3>3, <3>4
  <2>3. CASE widget.own # None /\ ~widget.display /\ OneWaits(w, Removal(widget))
    <3>1. Removal(widget).el \notin {"dialog", "element"} /\ Removal(widget).step = "removes"
      BY <1>6, <1>19, <2>3 DEF Closing, Removal
    <3>2. (x = Focus \/ x = Removal(widget)) /\ Next1
      BY <1>10, <2>3, <3>1
    <3>3. CASE x = Focus
      <4>1. OneWaits(v, Removal(s))
        BY <1>4, <1>5, <2>3, <3>1, <3>3 DEF Focus
      <4>2. Closing(s)
        BY <1>3, <1>6, <1>19, <2>3, <4>1 DEF Closing, Body
      <4> QED BY <1>2, <1>12, <3>2, <3>3, <4>2
    <3>4. CASE x = Removal(widget)
      <4> DEFINE t == Dialog!Removes(s)
      <4>1. widget' = t
        BY <1>8, <3>1, <3>2, <3>4 DEF Next1
      <4>2. NoneWaits(v)
        BY <1>4, <2>3, <3>4
      <4>3. /\ t \in DialogState(E) /\ ~t.open /\ t.padding = s.originalBodyPad
            /\ t.originalBodyPad = s.originalBodyPad /\ t.isShown = s.isShown
            /\ t.own = None /\ t.backdrops = s.backdrops \ {s.own} /\ t.display = s.display
            /\ t.waiting = s.waiting
        BY <1>2, RemovesDoes
      <4>4. s.backdrops = {s.own}
        BY <1>3, <1>6, <1>19, <2>3 DEF Closing, OverOne, Body
      <4> HIDE DEF t
      <4>5. Closed(t)
        BY <1>3, <1>19, <2>3, <4>2, <4>3, <4>4 DEF Closed, Closing, Body
      <4> QED BY <4>1, <4>3, <4>5
    <3> QED BY <3>2, <3>3, <3>4
  <2> QED BY <1>19, <2>1, <2>2, <2>3 DEF Closing, w
<1> QED BY <1>17, <1>18, <1>19

\* A modal that was never opened while it closed is closed, or on its way.
DialogOK(s) ==
  DialogListens(s) /\ (s.calm => Closed(s) \/ Opening(s) \/ Closing(s))

LEMMA DialogCalmHides ==
  ASSUME NEW E, Fixtures \cup Backdrop \subseteq E, NEW s \in DialogState(E),
         Closed(s) \/ Opening(s) \/ Closing(s), Dialog!Hides(s)
  PROVE  Closed(widget') \/ Opening(widget') \/ Closing(widget')
<1>1. ~s.isShown => Dialog!hide(s) = s
  BY DEF Dialog!hide
<1>2. Opening(s) => Closing(Dialog!hide(s)) \/ Closed(Dialog!hide(s))
  BY OpeningHides
<1>3. Closed(s) \/ Closing(s) => ~s.isShown
  BY DEF Closed, Closing
<1> QED BY <1>1, <1>2, <1>3 DEF Dialog!Hides

LEMMA DialogCalmStep ==
  ASSUME DialogOK(widget), Dialog!Next, widget'.calm
  PROVE  Closed(widget') \/ Opening(widget') \/ Closing(widget')
<1> DEFINE OK(s) == Closed(s) \/ Opening(s) \/ Closing(s)
<1>1. OK(widget) /\ DialogListens(widget)
  BY DialogStep DEF DialogOK
<1>2. PICK E : Fixtures \cup Backdrop \subseteq E /\ widget \in DialogState(E)
  <2>1. PICK F : Fixtures \subseteq F /\ widget \in DialogState(F)
    BY <1>1 DEF DialogListens, IsDialog
  <2>2. widget \in DialogState(F \cup Backdrop)
    BY <2>1, DialogWider
  <2> QED BY <2>1, <2>2
<1> SUFFICES OK(widget')
  OBVIOUS
<1> HIDE DEF OK
<1>3. ASSUME NEW s \in DialogState(E), OK(s), Dialog!Hides(s) PROVE OK(widget')
  BY <1>2, <1>3, DialogCalmHides DEF OK
<1>4. ASSUME Dialog!Room, Dialog!Shows PROVE OK(widget')
  <2>1. CASE widget' = widget
    BY <1>1, <2>1
  <2>2. CASE widget' = Dialog!show(widget)
    <3>1. CASE widget.isShown
      <4>1. Dialog!show(widget) = widget
        BY <3>1 DEF Dialog!show
      <4> QED BY <1>1, <2>2, <4>1
    <3>2. CASE ~widget.isShown
      <4>1. ~widget.open
        BY <1>1, <2>2, <3>2, DialogShows
      <4>2. Closed(widget)
        BY <1>1, <3>2, <4>1 DEF OK, Opening, Closing
      <4>3. \E b \in Backdrop : b \notin widget.backdrops
        BY <1>4 DEF Dialog!Room
      <4>4. Opening(Dialog!show(widget))
        BY <1>2, <4>2, <4>3, ClosedShows
      <4> QED BY <2>2, <4>4 DEF OK
    <3> QED BY <3>1, <3>2
  <2> QED BY <1>4, <2>1, <2>2 DEF Dialog!Shows
<1>5. CASE Dialog!Toggle \/ Dialog!Call
  BY <1>1, <1>2, <1>3, <1>4, <1>5 DEF Dialog!Toggle, Dialog!Call
<1>6. CASE Dialog!Dismiss \/ Dialog!Escape
  BY <1>1, <1>2, <1>3, <1>6 DEF Dialog!Dismiss, Dialog!Escape
<1>7. ASSUME NEW ignore \in BOOLEAN
      PROVE  LET t == [widget EXCEPT !.ignoreBackdropClick = ignore]
             IN t \in DialogState(E) /\ OK(t)
  <2> DEFINE t == [widget EXCEPT !.ignoreBackdropClick = ignore]
  <2>1. t \in DialogState(E) /\ Body(t, widget) /\ t.waiting = widget.waiting
        /\ t.display = widget.display /\ t.in = widget.in /\ t.listeners = widget.listeners
    BY <1>2 DEF DialogState, Body
  <2> HIDE DEF t
  <2>2. Entry(t) = Entry(widget) /\ Removal(t) = Removal(widget)
    BY <2>1 DEF Entry, Removal, Body
  <2>3. OK(t)
    BY <1>1, <2>1, <2>2 DEF OK, Closed, Opening, Closing, OverOne, Body
  <2> QED BY <2>1, <2>3 DEF t
<1>8. CASE Dialog!DragOut
  <2>1. PICK click \in BOOLEAN :
          widget' = [widget EXCEPT !.ignoreBackdropClick = ~(click /\ widget.listeners.click > 0)]
    BY <1>8 DEF Dialog!DragOut
  <2> DEFINE ignore == ~(click /\ widget.listeners.click > 0)
  <2>2. ignore \in BOOLEAN
    OBVIOUS
  <2> HIDE DEF ignore
  <2> QED BY <1>7, <2>1, <2>2 DEF ignore
<1>9. CASE Dialog!ClickBackdrop
  <2> DEFINE t == [widget EXCEPT !.ignoreBackdropClick = FALSE]
  <2>1. widget' = t \/ Dialog!Hides(t)
    BY <1>9, Zenon DEF Dialog!ClickBackdrop
  <2>2. t \in DialogState(E) /\ OK(t)
    BY <1>7
  <2> HIDE DEF t
  <2> QED BY <1>3, <2>1, <2>2
<1>10. CASE \E i \in 1 .. Len(widget.waiting) : Dialog!Ends(i)
  <2>1. PICK i \in 1 .. Len(widget.waiting) : Dialog!Ends(i)
    BY <1>10
  <2>2. Closed(widget) \/ Opening(widget) \/ Closing(widget)
    BY <1>1 DEF OK
  <2> QED BY <1>2, <2>1, <2>2, DialogEndsCalm DEF OK
<1> QED BY <1>5, <1>6, <1>8, <1>9, <1>10 DEF Dialog!Next

LEMMA DialogStays == Spec => [](plugin = "modal" => DialogOK(widget))
<1> DEFINE Inv == plugin = "modal" => DialogOK(widget)
<1>1. Init => Inv
  <2> SUFFICES ASSUME Dialog!Init PROVE DialogOK(widget)
    BY DEF Init
  <2>1. Closed(widget)
    <3>1. widget.waiting = <<>> /\ Len(<<>>) = 0
      BY DEF Dialog!Init
    <3>2. NoneWaits(widget.waiting)
      BY <3>1 DEF NoneWaits
    <3> QED BY <3>2 DEF Closed, Dialog!Init
  <2> QED BY <2>1, DialogInit DEF DialogOK
<1>2. Inv /\ [Next]_<<plugin, widget>> => Inv'
  <2>1. CASE UNCHANGED <<plugin, widget>>
    <3>1. widget' = widget /\ plugin' = plugin
      BY <2>1
    <3> QED BY <3>1 DEF DialogOK, DialogListens, IsDialog, Closed, Opening, Closing, OverOne,
                       Entry, Removal
  <2>2. CASE Next
    <3> SUFFICES ASSUME DialogOK(widget), Dialog!Next PROVE DialogOK(widget')
      BY <2>2 DEF Next
    <3> QED BY DialogStep, DialogCalmStep DEF DialogOK
  <2> QED BY <2>1, <2>2
<1> QED BY <1>1, <1>2, PTL DEF Spec

\* A modal that has closed leaves no backdrop, no locked page and no padding,
\* unless it was opened again while it closed (hideModal and removeBackdrop of
\* modal.js).
THEOREM ModalClosesClean == Spec => []ClosesClean
<1>1. (plugin = "modal" => DialogOK(widget)) => ClosesClean
  <2> SUFFICES ASSUME DialogOK(widget), widget.waiting = <<>>, ~widget.isShown, widget.calm
               PROVE  Closed(widget)
    BY DEF ClosesClean, Dialog!ClosesClean, Closed
  <2>1. Len(widget.waiting) = 0
    OBVIOUS
  <2> QED BY <2>1 DEF DialogOK, Opening, Closing, OneWaits, TwoWait
<1> QED BY <1>1, DialogStays, PTL

\* One that has opened is seen over one backdrop, if it has any, and keeps the
\* focus, however fast its backdrop comes in (show and backdrop of modal.js).
THEOREM ModalOpensWhole == Spec => []OpensWhole
<1>1. ASSUME DialogOK(widget) PROVE Dialog!OpensWhole
  <2>1. ASSUME widget.waiting = <<>>, widget.isShown, widget.calm
        PROVE  /\ widget.display /\ widget.in /\ widget.open /\ widget.listeners.focusin
               /\ OverOne(widget)
    <3>1. Len(widget.waiting) = 0
      BY <2>1
    <3>2. Opening(widget)
      BY <1>1, <2>1 DEF DialogOK, Closed, Closing
    <3> QED BY <3>1, <3>2 DEF Opening, OneWaits
  <2> QED BY <2>1 DEF Dialog!OpensWhole, OverOne
<1>2. (plugin = "modal" => DialogOK(widget)) => OpensWhole
  BY <1>1 DEF OpensWhole
<1> QED BY <1>2, DialogStays, PTL
=============================================================================
