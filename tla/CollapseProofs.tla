---------------------------- MODULE CollapseProofs -----------------------------
(***************************************************************************)
(* The panels of an accordion, and panels on their own.                    *)
(*                                                                         *)
(* PanelsOK: whoever animates a panel has a handler that waits for it, and *)
(* nobody else is animated (Orderly); the trigger of a panel on its own    *)
(* says what the panel is or will be (AloneOK).                            *)
(*                                                                         *)
(* AccordionOK, for an accordion whose hide was not refused and which was  *)
(* not clicked while a panel without an object moved: each panel stands,   *)
(* or one transition of it is under way, and one at most is or will be     *)
(* open.  Exclusive alone is not kept: two panels move at once.            *)
(***************************************************************************)
EXTENDS TransitionProofs

-----------------------------------------------------------------------------
(***************************************************************************)
(* Collapse.                                                               *)
(***************************************************************************)
Ending == [panel : Panel, shown : BOOLEAN, owner : BOOLEAN]
Object == [transitioning : BOOLEAN, parent : BOOLEAN]

PanelState ==
  [class : [Panel -> SUBSET {"collapse", "in", "collapsing"}], collapsed : [Panel -> BOOLEAN],
   data : [Panel -> {None} \cup Object], ending : [Panel -> Seq(Ending)],
   parent : BOOLEAN, transition : BOOLEAN, calm : BOOLEAN]

SamePanel(t, s, q) ==
  /\ t.class[q] = s.class[q] /\ t.collapsed[q] = s.collapsed[q]
  /\ t.data[q] = s.data[q] /\ t.ending[q] = s.ending[q]

SamePage(t, s) == t.parent = s.parent /\ t.transition = s.transition /\ t.calm = s.calm

\* From s to t panel p begins to open or to close, which it has done at once when
\* nothing is animated.
Moves(t, s, p, shown, parent, owner) ==
  /\ t \in PanelState /\ SamePage(t, s) /\ \A q \in Panel \ {p} : SamePanel(t, s, q)
  /\ t.collapsed[p] = ~shown
  /\ t.data[p] = IF owner THEN Panels!Object(s.transition, parent) ELSE s.data[p]
  /\ t.ending[p] = IF s.transition
                     THEN Append(s.ending[p], [panel |-> p, shown |-> shown, owner |-> owner])
                   ELSE s.ending[p]
  /\ s.transition => /\ "collapsing" \in t.class[p]
                     /\ "in" \in t.class[p] <=> shown /\ "in" \in s.class[p]
  /\ ~s.transition => "collapsing" \notin t.class[p] /\ ("in" \in t.class[p] <=> shown)

LEMMA PanelsObject ==
  /\ \A b, parent \in BOOLEAN : /\ Panels!Object(b, parent) \in Object
                               /\ Panels!Object(b, parent) # None
                               /\ Panels!Object(b, parent).parent = parent
                               /\ Panels!Object(b, parent).transitioning = b
  /\ \A o \in Object : o.parent \in BOOLEAN /\ o.transitioning \in BOOLEAN
BY PanelAssumption DEF Object, Panels!Object

LEMMA PanelsComplete ==
  ASSUME NEW s \in PanelState, NEW h \in Ending, h.owner => s.data[h.panel] # None
  PROVE  LET t == Panels!Complete(s, h)
             p == h.panel
         IN /\ t \in PanelState /\ SamePage(t, s) /\ \A q \in Panel \ {p} : SamePanel(t, s, q)
            /\ t.collapsed[p] = s.collapsed[p] /\ t.ending[p] = s.ending[p]
            /\ t.data[p] = (IF h.owner THEN Panels!Object(FALSE, s.data[p].parent) ELSE s.data[p])
            /\ "collapsing" \notin t.class[p]
            /\ "in" \in t.class[p] <=> h.shown \/ "in" \in s.class[p]
<1> DEFINE p == h.panel
           c == (s.class[p] \ {"collapsing"}) \cup (IF h.shown THEN {"collapse", "in"} ELSE {"collapse"})
           d == IF h.owner THEN Panels!Object(FALSE, s.data[p].parent) ELSE s.data[p]
           t == [s EXCEPT !.class[p] = c, !.data[p] = d]
<1>1. t = Panels!Complete(s, h)
  BY Zenon DEF Panels!Complete
<1>2. p \in Panel /\ s.class[p] \in SUBSET {"collapse", "in", "collapsing"}
      /\ s.data[p] \in {None} \cup Object
  BY DEF PanelState, Ending
<1>3. d \in {None} \cup Object
  <2>1. h.owner => s.data[p] \in Object
    BY <1>2
  <2>2. h.owner => Panels!Object(FALSE, s.data[p].parent) \in Object
    BY <2>1, PanelsObject
  <2> QED BY <1>2, <2>2
<1>4. c \in SUBSET {"collapse", "in", "collapsing"} /\ "collapsing" \notin c
      /\ ("in" \in c <=> h.shown \/ "in" \in s.class[p])
  BY <1>2
<1> HIDE DEF c, d, p
<1>5. /\ t \in PanelState /\ t.class = [s.class EXCEPT ![p] = c] /\ t.collapsed = s.collapsed
      /\ t.data = [s.data EXCEPT ![p] = d] /\ t.ending = s.ending /\ SamePage(t, s)
  BY <1>2, <1>3, <1>4 DEF PanelState, SamePage
<1> HIDE DEF t
<1>6. \A q \in Panel \ {p} : SamePanel(t, s, q)
  BY <1>5 DEF SamePanel, PanelState
<1>7. t.class[p] = c /\ t.data[p] = d
  BY <1>2, <1>5 DEF PanelState
<1> QED BY <1>1, <1>4, <1>5, <1>6, <1>7 DEF p, d

LEMMA PanelsBegin ==
  ASSUME NEW s \in PanelState, NEW p \in Panel, NEW shown \in BOOLEAN, NEW parent \in BOOLEAN,
         NEW owner \in BOOLEAN
  PROVE  Moves(Panels!Begins(s, p, shown, parent, owner), s, p, shown, parent, owner)
<1> DEFINE h == [panel |-> p, shown |-> shown, owner |-> owner]
           c == IF shown THEN (s.class[p] \ {"collapse"}) \cup {"collapsing"}
                ELSE (s.class[p] \cup {"collapsing"}) \ {"collapse", "in"}
           d == IF owner THEN Panels!Object(TRUE, parent) ELSE s.data[p]
           t == [s EXCEPT !.class[p] = c, !.collapsed[p] = ~shown, !.data[p] = d]
           u == [t EXCEPT !.ending[p] = Append(@, h)]
<1>1. Panels!Begins(s, p, shown, parent, owner) =
        IF t.transition THEN u ELSE Panels!Complete(t, h)
  BY DEF Panels!Begins, Panels!Waits, Panels!Animates, PanelState
<1>2. /\ c \in SUBSET {"collapse", "in", "collapsing"} /\ "collapsing" \in c
      /\ "in" \in c <=> shown /\ "in" \in s.class[p]
  BY DEF PanelState
<1>3. d \in {None} \cup Object /\ (owner => d # None /\ d.parent = parent)
  BY PanelsObject DEF PanelState
<1>4. h \in Ending /\ h.panel = p /\ h.shown = shown /\ h.owner = owner
  BY DEF Ending
<1> HIDE DEF c, h
<1>5. /\ t \in PanelState /\ SamePage(t, s) /\ t.class = [s.class EXCEPT ![p] = c]
      /\ t.collapsed = [s.collapsed EXCEPT ![p] = ~shown]
      /\ t.data = [s.data EXCEPT ![p] = d] /\ t.ending = s.ending
  <2>1. (~shown) \in BOOLEAN
    OBVIOUS
  <2> HIDE DEF d
  <2> QED BY <1>2, <1>3, <2>1 DEF PanelState, SamePage
<1> HIDE DEF t
<1>6. /\ \A q \in Panel \ {p} : SamePanel(t, s, q)
      /\ t.class[p] = c /\ t.collapsed[p] = ~shown /\ t.data[p] = d /\ t.ending[p] = s.ending[p]
  <2> HIDE DEF d
  <2> QED BY <1>5 DEF SamePanel, PanelState
<1>7. CASE s.transition
  <2>1. Append(s.ending[p], h) \in Seq(Ending)
    <3>1. s.ending[p] \in Seq(Ending)
      BY DEF PanelState
    <3> QED BY <1>4, <3>1
  <2>2. /\ u \in PanelState /\ SamePage(u, t) /\ u.class = t.class /\ u.collapsed = t.collapsed
        /\ u.data = t.data /\ u.ending = [t.ending EXCEPT ![p] = Append(s.ending[p], h)]
    BY <1>5, <1>6, <2>1 DEF PanelState, SamePage
  <2> HIDE DEF u
  <2>3. /\ \A q \in Panel \ {p} : SamePanel(u, s, q)
        /\ u.ending[p] = Append(s.ending[p], h)
    BY <1>5, <1>6, <2>2 DEF SamePanel, PanelState
  <2>4. Moves(u, s, p, shown, parent, owner)
    BY <1>2, <1>5, <1>6, <1>7, <2>2, <2>3 DEF Moves, SamePage, h, Panels!Object
  <2> QED BY <1>1, <1>5, <1>7, <2>4 DEF SamePage
<1>8. CASE ~s.transition
  <2> DEFINE v == Panels!Complete(t, h)
  <2>1. /\ v \in PanelState /\ SamePage(v, t) /\ \A q \in Panel \ {p} : SamePanel(v, t, q)
        /\ v.collapsed[p] = t.collapsed[p] /\ v.ending[p] = t.ending[p]
        /\ v.data[p] = (IF owner THEN Panels!Object(FALSE, t.data[p].parent) ELSE t.data[p])
        /\ "collapsing" \notin v.class[p]
        /\ "in" \in v.class[p] <=> shown \/ "in" \in t.class[p]
    <3> HIDE DEF d
    <3>1. h.owner => t.data[h.panel] # None
      BY <1>3, <1>4, <1>6
    <3> QED BY <1>4, <1>5, <3>1, PanelsComplete
  <2> HIDE DEF v
  <2>2. v.data[p] = (IF owner THEN Panels!Object(s.transition, parent) ELSE s.data[p])
    <3>1. owner => d.parent = parent
      BY <1>3
    <3>2. ~owner => d = s.data[p]
      OBVIOUS
    <3>3. s.transition = FALSE
      BY <1>8 DEF PanelState
    <3> HIDE DEF d
    <3>4. CASE owner
      BY <1>6, <2>1, <3>1, <3>3, <3>4
    <3>5. CASE ~owner
      BY <1>6, <2>1, <3>2, <3>5
    <3> QED BY <3>4, <3>5
  <2> HIDE DEF d
  <2>3. Moves(v, s, p, shown, parent, owner)
    <3>1. v \in PanelState /\ SamePage(v, s)
      BY <1>5, <2>1 DEF SamePage
    <3>2. \A q \in Panel \ {p} : SamePanel(v, s, q)
      BY <1>6, <2>1 DEF SamePanel
    <3>3. v.collapsed[p] = ~shown /\ v.ending[p] = s.ending[p]
      BY <1>6, <2>1
    <3>4. "collapsing" \notin v.class[p] /\ ("in" \in v.class[p] <=> shown)
      BY <1>2, <1>6, <2>1
    <3> QED BY <1>8, <2>2, <3>1, <3>2, <3>3, <3>4 DEF Moves
  <2> QED BY <1>1, <1>5, <1>8, <2>3 DEF SamePage, v
<1> QED BY <1>7, <1>8

PanelTurn(f, s, w) ==
  f[0] = s /\ \A i \in 1 .. Len(w) : f[i] = Panels!Complete(f[i - 1], w[i])

LEMMA PanelsTurn ==
  ASSUME NEW s, NEW w, Len(w) \in Nat
  PROVE  LET ran[i \in 0 .. Len(w)] ==
               IF i = 0 THEN s ELSE Panels!Complete(ran[i - 1], w[i])
         IN PanelTurn(ran, s, w)
<1> DEFINE n == Len(w)
           Eq(f, m) == f = [i \in 0 .. m |-> IF i = 0 THEN s
                                            ELSE Panels!Complete(f[i - 1], w[i])]
           S == {m \in 0 .. n : ~\E f : Eq(f, m)}
           ran == CHOOSE f : Eq(f, n)
<1>1. S = {}
  <2> SUFFICES ASSUME S # {} PROVE FALSE
    OBVIOUS
  <2>0. S \subseteq Nat
    OBVIOUS
  <2>1. PICK x \in S : \A y \in S : x <= y
    <3> HIDE DEF S
    <3> QED BY <2>0, LeastNumber
  <2>2. Eq([i \in 0 .. 0 |-> s], 0)
    OBVIOUS
  <2>3. x \in 1 .. n /\ x - 1 \in 0 .. n /\ x - 1 \notin S
    <3>1. x # 0
      <4> HIDE DEF Eq
      <4> QED BY <2>2
    <3> HIDE DEF Eq
    <3> QED BY <2>0, <2>1, <3>1
  <2>4. PICK f : Eq(f, x - 1)
    <3> HIDE DEF Eq
    <3> QED BY <2>3
  <2> DEFINE g == [i \in 0 .. x |-> IF i = x THEN Panels!Complete(f[x - 1], w[x]) ELSE f[i]]
  <2>5. \A i \in 0 .. x : g[i] = IF i = 0 THEN s ELSE Panels!Complete(g[i - 1], w[i])
    <3> SUFFICES ASSUME NEW i \in 0 .. x
                 PROVE  g[i] = IF i = 0 THEN s ELSE Panels!Complete(g[i - 1], w[i])
      OBVIOUS
    <3>0. \A j \in 0 .. x - 1 : f[j] = IF j = 0 THEN s ELSE Panels!Complete(f[j - 1], w[j])
      BY <2>4
    <3>1. CASE i = x
      <4>1. g[i] = Panels!Complete(f[x - 1], w[x]) /\ g[i - 1] = f[x - 1]
        BY <2>3, <3>1
      <4> HIDE DEF g
      <4> QED BY <2>3, <3>1, <4>1
    <3>2. CASE i # x
      <4>1. i \in 0 .. x - 1 /\ g[i] = f[i] /\ (i # 0 => g[i - 1] = f[i - 1])
        BY <2>3, <3>2
      <4> HIDE DEF g
      <4> QED BY <3>0, <4>1
    <3> QED BY <3>1, <3>2
  <2>6. Eq(g, x)
    <3>1. DOMAIN g = 0 .. x /\ g = [i \in 0 .. x |-> g[i]]
      OBVIOUS
    <3> HIDE DEF g
    <3> QED BY <2>5, <3>1
  <2> HIDE DEF Eq, g
  <2> QED BY <2>1, <2>3, <2>6
<1>2. Eq(ran, n)
  <2>1. \E f : Eq(f, n)
    <3>1. n \notin S /\ n \in 0 .. n
      <4> HIDE DEF S
      <4> QED BY <1>1
    <3> HIDE DEF Eq
    <3> QED BY <3>1
  <2> HIDE DEF Eq
  <2> QED BY <2>1
<1>3. ran[0] = s /\ \A i \in 1 .. n : ran[i] = Panels!Complete(ran[i - 1], w[i])
  <2> HIDE DEF ran
  <2> QED BY <1>2
<1>4. PanelTurn(ran, s, w)
  <2> HIDE DEF ran
  <2> QED BY <1>3 DEF PanelTurn
<1> QED BY <1>4

\* Whoever animates a panel waits for it, and nobody else is animated.
Orderly(s, p) ==
  /\ Panels!Busy(s, p) => \E i \in 1 .. Len(s.ending[p]) : s.ending[p][i].owner
  /\ "collapsing" \in s.class[p] => s.ending[p] # <<>>
  /\ \A i \in 1 .. Len(s.ending[p]) :
       s.ending[p][i].panel = p /\ (s.ending[p][i].owner => s.data[p] # None)

\* The transitions of panel p have ended.
Arrives(t, s, p) ==
  /\ t \in PanelState /\ SamePage(t, s) /\ \A q \in Panel \ {p} : SamePanel(t, s, q)
  /\ t.collapsed[p] = s.collapsed[p] /\ t.ending[p] = <<>>
  /\ "collapsing" \notin t.class[p] /\ ~Panels!Busy(t, p)
  /\ t.data[p] = None <=> s.data[p] = None
  /\ t.data[p] # None => t.data[p].parent = s.data[p].parent
  /\ Len(s.ending[p]) = 1 =>
       ("in" \in t.class[p] <=> s.ending[p][1].shown \/ "in" \in s.class[p])

LEMMA PanelsArrive ==
  ASSUME NEW s \in PanelState, NEW p \in Panel, Orderly(s, p), s.ending[p] # <<>>,
         NEW f, PanelTurn(f, [s EXCEPT !.ending[p] = <<>>], s.ending[p])
  PROVE  Arrives(f[Len(s.ending[p])], s, p)
<1> DEFINE w == s.ending[p]
           n == Len(w)
           u == [s EXCEPT !.ending[p] = <<>>]
           d(t) == /\ t.data[p] = None <=> s.data[p] = None
                   /\ t.data[p] # None => t.data[p].parent = s.data[p].parent
           D == {t \in PanelState : /\ SamePage(t, s) /\ \A q \in Panel \ {p} : SamePanel(t, s, q)
                                    /\ t.collapsed[p] = s.collapsed[p] /\ t.ending[p] = <<>>
                                    /\ d(t)}
           B == {t \in D : ~Panels!Busy(t, p)}
<1>0. w \in Seq(Ending) /\ n \in Nat /\ n # 0
      /\ \A i \in 1 .. n : w[i] \in Ending /\ w[i].panel = p /\ (w[i].owner => s.data[p] # None)
  BY DEF PanelState, Orderly
<1>1. u \in D /\ u.class = s.class /\ u.data = s.data
  <2>1. [s.ending EXCEPT ![p] = <<>>] \in [Panel -> Seq(Ending)]
    BY DEF PanelState
  <2>2. /\ u \in PanelState /\ SamePage(u, s) /\ u.class = s.class /\ u.data = s.data
        /\ u.collapsed = s.collapsed /\ u.ending = [s.ending EXCEPT ![p] = <<>>]
    BY <2>1 DEF PanelState, SamePage
  <2> HIDE DEF u
  <2> QED BY <2>2 DEF SamePanel, PanelState
<1>2. ASSUME NEW t \in D, NEW i \in 1 .. n
      PROVE  /\ Panels!Complete(t, w[i]) \in D /\ "collapsing" \notin Panels!Complete(t, w[i]).class[p]
             /\ "in" \in Panels!Complete(t, w[i]).class[p] <=> w[i].shown \/ "in" \in t.class[p]
             /\ w[i].owner \/ t \in B => Panels!Complete(t, w[i]) \in B
  <2> DEFINE v == Panels!Complete(t, w[i])
             h == w[i]
  <2>0. t \in PanelState /\ h \in Ending /\ h.panel = p /\ (h.owner => t.data[p] # None)
    BY <1>0
  <2>1. /\ v \in PanelState /\ SamePage(v, t) /\ \A q \in Panel \ {p} : SamePanel(v, t, q)
        /\ v.collapsed[p] = t.collapsed[p] /\ v.ending[p] = t.ending[p]
        /\ v.data[p] = (IF h.owner THEN Panels!Object(FALSE, t.data[p].parent) ELSE t.data[p])
        /\ "collapsing" \notin v.class[p]
        /\ "in" \in v.class[p] <=> h.shown \/ "in" \in t.class[p]
    <3> HIDE DEF D, w
    <3> QED BY <2>0, PanelsComplete
  <2> HIDE DEF v, h
  <2>2. d(v) /\ (h.owner => ~Panels!Busy(v, p)) /\ (~h.owner => v.data[p] = t.data[p])
    <3>1. d(t)
      OBVIOUS
    <3>2. CASE h.owner
      <4>1. t.data[p] \in Object
        BY <2>0, <3>2 DEF PanelState
      <4>2. /\ Panels!Object(FALSE, t.data[p].parent) # None
            /\ Panels!Object(FALSE, t.data[p].parent).parent = t.data[p].parent
            /\ Panels!Object(FALSE, t.data[p].parent).transitioning = FALSE
        BY <4>1, PanelsObject
      <4> QED BY <2>0, <2>1, <3>1, <3>2, <4>2 DEF Panels!Busy
    <3>3. CASE ~h.owner
      BY <2>1, <3>1, <3>3
    <3> QED BY <3>2, <3>3
  <2>3. v \in D
    <3>1. t \in D /\ SamePage(t, s) /\ (\A q \in Panel \ {p} : SamePanel(t, s, q))
          /\ t.collapsed[p] = s.collapsed[p] /\ t.ending[p] = <<>>
      OBVIOUS
    <3> HIDE DEF d
    <3> QED BY <2>1, <2>2, <3>1 DEF SamePage, SamePanel
  <2>4. h.owner \/ t \in B => v \in B
    <3> HIDE DEF D
    <3> QED BY <2>2, <2>3 DEF Panels!Busy
  <2> HIDE DEF D, B
  <2> QED BY <2>1, <2>3, <2>4 DEF v, h
<1>3. f[0] = u /\ \A i \in 1 .. n : f[i] = Panels!Complete(f[i - 1], w[i])
  BY DEF PanelTurn
<1> HIDE DEF u, w, n, D, B
<1>4. ASSUME NEW m \in 0 .. n PROVE f[m] \in D
  <2>1. \A i \in 0 + 1 .. m : f[i - 1] \in D => f[i] \in D
    BY <1>0, <1>2, <1>3
  <2> QED BY <1>0, <1>1, <1>3, <2>1, Stays
<1>5. ASSUME NEW k \in 0 .. n, f[k] \in B PROVE f[n] \in B
  <2>1. ASSUME NEW i \in k + 1 .. n, f[i - 1] \in B PROVE f[i] \in B
    <3>1. i \in 1 .. n
      BY <1>0
    <3>2. f[i - 1] \in D
      BY <2>1 DEF B
    <3>3. Panels!Complete(f[i - 1], w[i]) \in B
      BY <1>2, <2>1, <3>1, <3>2
    <3> QED BY <1>3, <3>1, <3>3
  <2> QED BY <1>0, <1>5, <2>1, Stays
<1>6. f[n] \in B
  <2>1. CASE Panels!Busy(s, p)
    <3>1. PICK i \in 1 .. n : w[i].owner
      BY <2>1 DEF Orderly, n, w
    <3>2. i - 1 \in 0 .. n /\ i \in 0 .. n
      BY <1>0
    <3>3. f[i - 1] \in D
      BY <1>4, <3>2
    <3>4. f[i] \in B
      BY <1>2, <1>3, <3>1, <3>3
    <3> QED BY <1>5, <3>2, <3>4
  <2>2. CASE ~Panels!Busy(s, p)
    <3>1. u \in B
      BY <1>1, <2>2 DEF B, Panels!Busy
    <3> QED BY <1>0, <1>3, <1>5, <3>1
  <2> QED BY <2>1, <2>2
<1>7. "collapsing" \notin f[n].class[p]
  <2>1. n - 1 \in 0 .. n /\ n \in 1 .. n
    BY <1>0
  <2> QED BY <1>2, <1>3, <1>4, <2>1
<1>8. n = 1 => ("in" \in f[n].class[p] <=> w[1].shown \/ "in" \in s.class[p])
  BY <1>1, <1>2, <1>3
<1> QED BY <1>6, <1>7, <1>8 DEF Arrives, B, D, n, w
AllOrderly(s) == \A q \in Panel : Orderly(s, q)

LEMMA MovesOrderly ==
  ASSUME NEW s \in PanelState, NEW p \in Panel, NEW t, NEW shown \in BOOLEAN,
         NEW parent \in BOOLEAN, NEW owner \in BOOLEAN, Orderly(s, p),
         Moves(t, s, p, shown, parent, owner)
  PROVE  Orderly(t, p)
<1> DEFINE h == [panel |-> p, shown |-> shown, owner |-> owner]
<1>0. /\ h \in Ending /\ h.panel = p /\ h.shown = shown /\ h.owner = owner
      /\ s.ending[p] \in Seq(Ending) /\ s.data[p] \in {None} \cup Object
  BY DEF Ending, PanelState
<1>1. owner => t.data[p] # None /\ (t.data[p].transitioning <=> s.transition)
  BY PanelsObject DEF Moves, PanelState
<1>2. ~owner => t.data[p] = s.data[p]
  BY DEF Moves
<1>3. CASE s.transition
  <2>1. t.ending[p] = Append(s.ending[p], h) /\ "collapsing" \in t.class[p]
    BY <1>3 DEF Moves
  <2> HIDE DEF h
  <2> DEFINE n == Len(s.ending[p])
  <2>2. /\ n \in Nat /\ Len(t.ending[p]) = n + 1 /\ t.ending[p][n + 1] = h
        /\ \A i \in 1 .. n : t.ending[p][i] = s.ending[p][i]
    BY <1>0, <2>1
  <2> HIDE DEF n
  <2>3. t.ending[p] # <<>>
    BY <2>2
  <2>4. \A i \in 1 .. n + 1 : i \in 1 .. n \/ i = n + 1
    BY <2>2
  <2>5. n + 1 \in 1 .. n + 1 /\ \A i \in 1 .. n : i \in 1 .. n + 1
    BY <2>2
  <2>6. Panels!Busy(t, p) => \E i \in 1 .. n + 1 : t.ending[p][i].owner
    <3>1. CASE owner
      BY <1>0, <2>2, <2>5, <3>1
    <3>2. CASE ~owner
      BY <1>2, <2>2, <2>5, <3>2 DEF Orderly, Panels!Busy, n
    <3> QED BY <3>1, <3>2
  <2>7. ASSUME NEW i \in 1 .. n + 1
        PROVE  t.ending[p][i].panel = p /\ (t.ending[p][i].owner => t.data[p] # None)
    <3>1. CASE i = n + 1
      BY <1>0, <1>1, <2>2, <3>1
    <3>2. CASE i \in 1 .. n
      BY <1>1, <1>2, <2>2, <3>2 DEF Orderly, n
    <3> QED BY <2>4, <3>1, <3>2
  <2> QED BY <2>2, <2>3, <2>6, <2>7 DEF Orderly
<1>4. CASE ~s.transition
  <2>1. t.ending[p] = s.ending[p] /\ "collapsing" \notin t.class[p]
    BY <1>4 DEF Moves
  <2> QED BY <1>1, <1>2, <1>4, <2>1 DEF Orderly, Panels!Busy
<1> QED BY <1>3, <1>4

\* A panel that is on its own.
AloneOK(s, p) ==
  /\ s.data[p] # None => ~s.data[p].parent
  /\ s.ending[p] # <<>> =>
       /\ Len(s.ending[p]) = 1 /\ Panels!Busy(s, p)
       /\ s.collapsed[p] = ~s.ending[p][1].shown /\ "in" \notin s.class[p]
  /\ s.ending[p] = <<>> => s.collapsed[p] = ("in" \notin s.class[p])

LEMMA MovesAlone ==
  ASSUME NEW s \in PanelState, NEW p \in Panel, NEW t, NEW shown \in BOOLEAN,
         s.ending[p] = <<>>, shown => "in" \notin s.class[p],
         Moves(t, s, p, shown, FALSE, TRUE)
  PROVE  AloneOK(t, p)
<1>1. t.data[p] # None /\ ~t.data[p].parent /\ (t.data[p].transitioning <=> s.transition)
  BY PanelsObject DEF Moves, PanelState
<1>2. CASE s.transition
  <2> DEFINE h == [panel |-> p, shown |-> shown, owner |-> TRUE]
  <2>1. t.ending[p] = Append(<<>>, h) /\ h.shown = shown
    BY <1>2 DEF Moves
  <2>2. t.ending[p] = <<h>> /\ Len(t.ending[p]) = 1 /\ t.ending[p][1].shown = shown
    BY <2>1
  <2>3. t.ending[p] # <<>>
    BY <2>2
  <2> QED BY <1>1, <1>2, <2>2, <2>3 DEF Moves, AloneOK, Panels!Busy
<1>3. CASE ~s.transition
  BY <1>1, <1>3 DEF Moves, AloneOK
<1> QED BY <1>2, <1>3

LEMMA SameKept ==
  ASSUME NEW s, NEW t, NEW q, SamePanel(t, s, q)
  PROVE  (Orderly(s, q) => Orderly(t, q)) /\ (AloneOK(s, q) => AloneOK(t, q))
BY DEF SamePanel, Orderly, AloneOK, Panels!Busy

LEMMA PanelsLabels ==
  ASSUME NEW s \in PanelState, NEW p \in Panel, NEW parent \in BOOLEAN
  PROVE  LET t == Panels!Labels(s, p, parent)
         IN /\ t \in PanelState /\ SamePage(t, s)
            /\ t.class = s.class /\ t.data = s.data /\ t.ending = s.ending
            /\ \A q \in Panel : t.collapsed[q] = (IF parent \/ q = p THEN "in" \notin s.class[q]
                                                  ELSE s.collapsed[q])
<1> DEFINE c == [q \in Panel |-> IF parent \/ q = p THEN ~Panels!In(s, q) ELSE s.collapsed[q]]
           t == [s EXCEPT !.collapsed = c]
<1>1. t = Panels!Labels(s, p, parent)
  BY DEF Panels!Labels
<1>2. c \in [Panel -> BOOLEAN]
  BY DEF PanelState, Panels!In
<1>3. \A q \in Panel : c[q] = (IF parent \/ q = p THEN "in" \notin s.class[q] ELSE s.collapsed[q])
  BY DEF Panels!In
<1> HIDE DEF c
<1>4. /\ t \in PanelState /\ SamePage(t, s)
      /\ t.class = s.class /\ t.data = s.data /\ t.ending = s.ending /\ t.collapsed = c
  BY <1>2 DEF PanelState, SamePage
<1> QED BY <1>1, <1>3, <1>4

HidesNot(s, p, veto) == Panels!Busy(s, p) \/ "in" \notin s.class[p] \/ "hide" \in veto

LEMMA PanelsHide ==
  ASSUME NEW s \in PanelState, NEW p \in Panel, NEW parent \in BOOLEAN, NEW veto
  PROVE  LET t == Panels!hide(s, p, parent, veto)
         IN /\ HidesNot(s, p, veto) => t = s
            /\ ~HidesNot(s, p, veto) => Moves(t, s, p, FALSE, parent, TRUE)
BY PanelsBegin DEF Panels!hide, Panels!In, HidesNot

\* t is s where panel q has an object, which knows no parent if it is new.
Knows(t, s, q) ==
  /\ t \in PanelState /\ SamePage(t, s) /\ t.class = s.class /\ t.ending = s.ending
  /\ t.data[q] \in Object
  /\ s.data[q] # None => t = s
  /\ s.data[q] = None => ~Panels!Busy(t, q)

LEMMA PanelsTell ==
  ASSUME NEW s \in PanelState, NEW q \in Panel, NEW veto
  PROVE  LET u == Panels!HideActive(q, s, veto)
         IN \E t : /\ Knows(t, s, q)
                   /\ HidesNot(t, q, veto) => u = t
                   /\ ~HidesNot(t, q, veto) => Moves(u, t, q, FALSE, t.data[q].parent, TRUE)
<1> DEFINE l == Panels!Labels(s, q, FALSE)
           o == Panels!Object(FALSE, FALSE)
           t == IF s.data[q] # None THEN s ELSE [l EXCEPT !.data[q] = o]
<1>1. Panels!HideActive(q, s, veto) = Panels!hide(t, q, t.data[q].parent, veto)
  BY Zenon DEF Panels!HideActive
<1>2. Knows(t, s, q)
  <2>1. CASE s.data[q] # None
    BY <2>1 DEF Knows, SamePage, PanelState
  <2>2. CASE s.data[q] = None
    <3>1. l \in PanelState /\ SamePage(l, s) /\ l.class = s.class /\ l.data = s.data
          /\ l.ending = s.ending
      BY PanelsLabels
    <3>2. o \in Object /\ o # None /\ ~o.transitioning
      BY PanelsObject
    <3> HIDE DEF l, o
    <3> DEFINE v == [l EXCEPT !.data[q] = o]
    <3>3. /\ v \in PanelState /\ SamePage(v, l) /\ v.class = l.class /\ v.ending = l.ending
          /\ v.data = [l.data EXCEPT ![q] = o]
      BY <3>1, <3>2 DEF PanelState, SamePage
    <3>4. t = v
      BY <2>2
    <3> HIDE DEF v, t
    <3>5. v.data[q] = o
      BY <3>1, <3>3 DEF PanelState
    <3> QED BY <2>2, <3>1, <3>2, <3>3, <3>4, <3>5 DEF Knows, SamePage, Panels!Busy
  <2> QED BY <2>1, <2>2
<1> HIDE DEF t
<1>3. t.data[q].parent \in BOOLEAN /\ t \in PanelState
  BY <1>2, PanelsObject DEF Knows
<1>4. LET u == Panels!hide(t, q, t.data[q].parent, veto)
      IN /\ HidesNot(t, q, veto) => u = t
         /\ ~HidesNot(t, q, veto) => Moves(u, t, q, FALSE, t.data[q].parent, TRUE)
  BY <1>3, PanelsHide
<1> QED BY <1>1, <1>2, <1>4

LEMMA TellsOrderly ==
  ASSUME NEW s \in PanelState, NEW q \in Panel, NEW veto, Orderly(s, q)
  PROVE  LET u == Panels!HideActive(q, s, veto) IN u \in PanelState /\ Orderly(u, q)
<1> DEFINE u == Panels!HideActive(q, s, veto)
<1>1. PICK t : /\ Knows(t, s, q)
               /\ HidesNot(t, q, veto) => u = t
               /\ ~HidesNot(t, q, veto) => Moves(u, t, q, FALSE, t.data[q].parent, TRUE)
  BY PanelsTell
<1> HIDE DEF u
<1>2. t \in PanelState /\ Orderly(t, q) /\ t.data[q].parent \in BOOLEAN
  <2>1. CASE s.data[q] # None
    BY <1>1, <2>1, PanelsObject DEF Knows
  <2>2. CASE s.data[q] = None
    <3>1. t.data[q] # None
      BY <1>1, PanelAssumption DEF Knows, Object
    <3>2. /\ t \in PanelState /\ t.class = s.class /\ t.ending = s.ending
          /\ t.data[q] \in Object /\ ~Panels!Busy(t, q)
      BY <1>1, <2>2 DEF Knows
    <3>3. Orderly(t, q)
      BY <2>2, <3>1, <3>2 DEF Orderly
    <3> QED BY <3>2, <3>3, PanelsObject
  <2> QED BY <2>1, <2>2
<1>3. CASE u = t
  BY <1>2, <1>3 DEF u
<1>4. CASE Moves(u, t, q, FALSE, t.data[q].parent, TRUE)
  <2> DEFINE b == t.data[q].parent
  <2>1. b \in BOOLEAN /\ Moves(u, t, q, FALSE, b, TRUE)
    BY <1>2, <1>4
  <2> HIDE DEF b
  <2>2. Orderly(u, q)
    BY <1>2, <2>1, MovesOrderly
  <2>3. u \in PanelState
    BY <2>1 DEF Moves
  <2> QED BY <2>2, <2>3 DEF u
<1> QED BY <1>1, <1>3, <1>4

Told(s, A, q, veto) == IF q \in A THEN Panels!HideActive(q, s, veto) ELSE s

\* s when the panels of A have been told to hide.
Hidden(s, A, veto) ==
  [s EXCEPT !.class = [q \in Panel |-> Told(s, A, q, veto).class[q]],
            !.collapsed = [q \in Panel |-> Told(s, A, q, veto).collapsed[q]],
            !.data = [q \in Panel |-> Told(s, A, q, veto).data[q]],
            !.ending = [q \in Panel |-> Told(s, A, q, veto).ending[q]]]

LEMMA PanelsHidden ==
  ASSUME NEW s \in PanelState, NEW A \in SUBSET Panel, NEW veto, AllOrderly(s)
  PROVE  LET t == Hidden(s, A, veto)
         IN /\ t \in PanelState /\ SamePage(t, s)
            /\ AllOrderly(t) /\ \A q \in Panel : SamePanel(t, Told(s, A, q, veto), q)
<1> DEFINE c == [q \in Panel |-> Told(s, A, q, veto).class[q]]
           l == [q \in Panel |-> Told(s, A, q, veto).collapsed[q]]
           d == [q \in Panel |-> Told(s, A, q, veto).data[q]]
           e == [q \in Panel |-> Told(s, A, q, veto).ending[q]]
           t == Hidden(s, A, veto)
<1>1. \A q \in Panel : Told(s, A, q, veto) \in PanelState /\ Orderly(Told(s, A, q, veto), q)
  BY TellsOrderly DEF Told, AllOrderly
<1>2. \A q \in Panel : /\ Told(s, A, q, veto).class[q] \in SUBSET {"collapse", "in", "collapsing"}
                       /\ Told(s, A, q, veto).collapsed[q] \in BOOLEAN
                       /\ Told(s, A, q, veto).data[q] \in {None} \cup Object
                       /\ Told(s, A, q, veto).ending[q] \in Seq(Ending)
  <2>1. ASSUME NEW q \in Panel, NEW u \in PanelState
        PROVE  /\ u.class[q] \in SUBSET {"collapse", "in", "collapsing"}
               /\ u.collapsed[q] \in BOOLEAN
               /\ u.data[q] \in {None} \cup Object
               /\ u.ending[q] \in Seq(Ending)
    BY DEF PanelState
  <2> QED BY <1>1, <2>1
<1>3. /\ c \in [Panel -> SUBSET {"collapse", "in", "collapsing"}] /\ l \in [Panel -> BOOLEAN]
      /\ d \in [Panel -> {None} \cup Object] /\ e \in [Panel -> Seq(Ending)]
  BY <1>2
<1>4. t = [s EXCEPT !.class = c, !.collapsed = l, !.data = d, !.ending = e]
  BY Zenon DEF Hidden
<1>5. \A q \in Panel : /\ c[q] = Told(s, A, q, veto).class[q]
                       /\ l[q] = Told(s, A, q, veto).collapsed[q]
                       /\ d[q] = Told(s, A, q, veto).data[q]
                       /\ e[q] = Told(s, A, q, veto).ending[q]
  OBVIOUS
<1> HIDE DEF c, l, d, e, t
<1>6. /\ t \in PanelState /\ SamePage(t, s)
      /\ t.class = c /\ t.collapsed = l /\ t.data = d /\ t.ending = e
  BY <1>3, <1>4 DEF PanelState, SamePage
<1>7. \A q \in Panel : SamePanel(t, Told(s, A, q, veto), q)
  BY <1>5, <1>6 DEF SamePanel
<1>8. \A q \in Panel : Orderly(t, q)
  BY <1>1, <1>7, SameKept
<1> QED BY <1>6, <1>7, <1>8 DEF t, AllOrderly

\* The objects of the panels of A are dropped.
Forgotten(t, s, q) ==
  /\ t.class[q] = s.class[q] /\ t.collapsed[q] = s.collapsed[q] /\ t.data[q] = None
  /\ Len(t.ending[q]) = Len(s.ending[q])
  /\ \A i \in 1 .. Len(s.ending[q]) : /\ t.ending[q][i].panel = s.ending[q][i].panel
                                      /\ t.ending[q][i].shown = s.ending[q][i].shown
                                      /\ ~t.ending[q][i].owner

LEMMA PanelsForget ==
  ASSUME NEW s \in PanelState, NEW A \in SUBSET Panel
  PROVE  LET t == Panels!Forget(s, A)
         IN /\ t \in PanelState /\ SamePage(t, s)
            /\ \A q \in A : Forgotten(t, s, q)
            /\ \A q \in Panel \ A : SamePanel(t, s, q)
<1> DEFINE g(q) == [i \in DOMAIN s.ending[q] |-> [s.ending[q][i] EXCEPT !.owner = FALSE]]
           d == [q \in Panel |-> IF q \in A THEN None ELSE s.data[q]]
           e == [q \in Panel |-> IF q \notin A THEN s.ending[q] ELSE g(q)]
           t == Panels!Forget(s, A)
<1>1. t = [s EXCEPT !.data = d, !.ending = e]
  BY Zenon DEF Panels!Forget
<1>2. ASSUME NEW q \in Panel
      PROVE  /\ g(q) \in Seq(Ending) /\ Len(g(q)) = Len(s.ending[q])
             /\ \A i \in 1 .. Len(s.ending[q]) : /\ g(q)[i].panel = s.ending[q][i].panel
                                                 /\ g(q)[i].shown = s.ending[q][i].shown
                                                 /\ ~g(q)[i].owner
  <2> DEFINE w == s.ending[q]
             n == Len(w)
  <2>1. w \in Seq(Ending) /\ n \in Nat /\ DOMAIN w = 1 .. n /\ \A i \in 1 .. n : w[i] \in Ending
    BY DEF PanelState
  <2> DEFINE v == [i \in 1 .. n |-> [w[i] EXCEPT !.owner = FALSE]]
  <2>2. g(q) = v
    BY <2>1
  <2>3. \A h \in Ending : LET k == [h EXCEPT !.owner = FALSE]
                          IN k \in Ending /\ k.panel = h.panel /\ k.shown = h.shown /\ ~k.owner
    BY DEF Ending
  <2> HIDE DEF w, n, g
  <2>4. v \in [1 .. n -> Ending]
    BY <2>1, <2>3
  <2>5. v \in Seq(Ending) /\ Len(v) = n
    BY <2>1, <2>4
  <2>6. \A i \in 1 .. n : v[i].panel = w[i].panel /\ v[i].shown = w[i].shown /\ ~v[i].owner
    BY <2>1, <2>3
  <2> HIDE DEF v
  <2> QED BY <2>2, <2>5, <2>6 DEF w, n
<1>3. d \in [Panel -> {None} \cup Object] /\ e \in [Panel -> Seq(Ending)]
  <2> HIDE DEF g
  <2> QED BY <1>2 DEF PanelState
<1>4. \A q \in Panel : /\ d[q] = (IF q \in A THEN None ELSE s.data[q])
                       /\ e[q] = (IF q \notin A THEN s.ending[q] ELSE g(q))
  <2> HIDE DEF g
  <2> QED OBVIOUS
<1> HIDE DEF d, e, t, g
<1>5. /\ t \in PanelState /\ SamePage(t, s) /\ t.class = s.class /\ t.collapsed = s.collapsed
      /\ t.data = d /\ t.ending = e
  BY <1>1, <1>3 DEF PanelState, SamePage
<1>6. \A q \in Panel \ A : SamePanel(t, s, q)
  BY <1>4, <1>5 DEF SamePanel
<1>7. \A q \in A : Forgotten(t, s, q)
  BY <1>2, <1>4, <1>5 DEF Forgotten
<1> QED BY <1>5, <1>6, <1>7 DEF t

LEMMA ForgottenOrderly ==
  ASSUME NEW s, NEW t, NEW q, Orderly(s, q), Forgotten(t, s, q),
         t \in PanelState, s \in PanelState, q \in Panel
  PROVE  Orderly(t, q)
<1>1. t.ending[q] = <<>> => s.ending[q] = <<>>
  <2>1. t.ending[q] \in Seq(Ending) /\ s.ending[q] \in Seq(Ending)
    BY DEF PanelState
  <2>2. Len(t.ending[q]) = Len(s.ending[q])
    BY DEF Forgotten
  <2> QED BY <2>1, <2>2
<1> QED BY <1>1 DEF Orderly, Forgotten, Panels!Busy
Actives(s, parent) == {q \in Panel : parent /\ s.class[q] \cap {"in", "collapsing"} # {}}
First(A) == CHOOSE q \in A : \A r \in A : q <= r
Known(s, A) == A # {} /\ s.data[First(A)] # None

ShowsNot(s, p, A, veto) ==
  Panels!Busy(s, p) \/ "in" \in s.class[p] \/ (Known(s, A) /\ Panels!Busy(s, First(A)))
  \/ "show" \in veto

\* What show makes of s when A are the active panels.
ShowsAs(t, s, p, A, parent, new, veto) ==
  /\ ShowsNot(s, p, A, veto) => t = s
  /\ ~ShowsNot(s, p, A, veto) =>
       /\ Known(s, A) \/ A = {} =>
            t = Panels!Begins(Hidden(s, A, veto), p, TRUE, parent, TRUE)
       /\ ~(Known(s, A) \/ A = {}) =>
            t = Panels!Begins(Panels!Forget(Hidden(s, A, veto), A), p, TRUE, parent,
                              new \/ p \notin A)

LEMMA PanelsShow ==
  ASSUME NEW s, NEW p, NEW parent, NEW new, NEW veto
  PROVE  ShowsAs(Panels!show(s, p, parent, new, veto), s, p, Actives(s, parent), parent, new, veto)
<1> DEFINE A == Actives(s, parent)
           H == Hidden(s, A, veto)
<1>1. Panels!show(s, p, parent, new, veto) =
        IF Panels!Busy(s, p) \/ "in" \in s.class[p] \/ (Known(s, A) /\ Panels!Busy(s, First(A)))
           \/ "show" \in veto THEN s
        ELSE IF Known(s, A) \/ A = {} THEN Panels!Begins(H, p, TRUE, parent, TRUE)
        ELSE Panels!Begins(Panels!Forget(H, A), p, TRUE, parent, new \/ p \notin A)
  BY Zenon DEF Panels!show, Panels!In, Actives, First, Known, Hidden, Told
<1> HIDE DEF A, H
<1>2. /\ ShowsNot(s, p, A, veto) => Panels!show(s, p, parent, new, veto) = s
      /\ ~ShowsNot(s, p, A, veto) =>
           /\ Known(s, A) \/ A = {} =>
                Panels!show(s, p, parent, new, veto) = Panels!Begins(H, p, TRUE, parent, TRUE)
           /\ ~(Known(s, A) \/ A = {}) =>
                Panels!show(s, p, parent, new, veto) =
                  Panels!Begins(Panels!Forget(H, A), p, TRUE, parent, new \/ p \notin A)
  BY <1>1, Zenon DEF ShowsNot
<1> QED BY <1>2, Zenon DEF ShowsAs, A, H

MovesSome(t, s, p) == \E shown, parent, owner \in BOOLEAN : Moves(t, s, p, shown, parent, owner)

LEMMA MovesAllOrderly ==
  ASSUME NEW s \in PanelState, NEW p \in Panel, NEW t, AllOrderly(s), MovesSome(t, s, p)
  PROVE  t \in PanelState /\ SamePage(t, s) /\ AllOrderly(t)
<1>0. PICK shown \in BOOLEAN, parent \in BOOLEAN, owner \in BOOLEAN :
        Moves(t, s, p, shown, parent, owner)
  BY DEF MovesSome
<1>1. Orderly(t, p)
  BY <1>0, MovesOrderly DEF AllOrderly
<1>2. \A q \in Panel \ {p} : SamePanel(t, s, q)
  BY <1>0 DEF Moves
<1>3. \A q \in Panel \ {p} : Orderly(t, q)
  BY <1>2, SameKept DEF AllOrderly
<1> QED BY <1>0, <1>1, <1>3 DEF AllOrderly, Moves

LEMMA ShowsOrderly ==
  ASSUME NEW s \in PanelState, NEW p \in Panel, NEW parent \in BOOLEAN, NEW new \in BOOLEAN,
         NEW veto, AllOrderly(s)
  PROVE  LET t == Panels!show(s, p, parent, new, veto)
         IN t \in PanelState /\ SamePage(t, s) /\ AllOrderly(t)
<1> DEFINE A == Actives(s, parent)
           H == Hidden(s, A, veto)
           F == Panels!Forget(H, A)
           t == Panels!show(s, p, parent, new, veto)
<1>0. A \in SUBSET Panel
  BY DEF Actives
<1>1. \/ t = s
      \/ t = Panels!Begins(H, p, TRUE, parent, TRUE)
      \/ t = Panels!Begins(F, p, TRUE, parent, new \/ p \notin A)
  <2>1. ShowsAs(t, s, p, A, parent, new, veto)
    BY PanelsShow
  <2> HIDE DEF A, t
  <2> QED BY <2>1, Zenon DEF ShowsAs
<1> HIDE DEF A, H, F, t
<1>2. H \in PanelState /\ SamePage(H, s) /\ AllOrderly(H)
  BY <1>0, PanelsHidden DEF H
<1>3. F \in PanelState /\ SamePage(F, H) /\ AllOrderly(F)
  <2>1. /\ F \in PanelState /\ SamePage(F, H) /\ \A q \in A : Forgotten(F, H, q)
        /\ \A q \in Panel \ A : SamePanel(F, H, q)
    BY <1>0, <1>2, PanelsForget DEF F
  <2>2. \A q \in A : Orderly(F, q)
    BY <1>0, <1>2, <2>1, ForgottenOrderly DEF AllOrderly
  <2>3. \A q \in Panel \ A : Orderly(F, q)
    BY <1>2, <2>1, SameKept DEF AllOrderly
  <2> QED BY <2>1, <2>2, <2>3 DEF AllOrderly
<1>4. CASE t = s
  BY <1>4 DEF t, SamePage
<1>5. ASSUME NEW u \in PanelState, SamePage(u, s), AllOrderly(u),
             NEW b \in BOOLEAN, t = Panels!Begins(u, p, TRUE, parent, b)
      PROVE  t \in PanelState /\ SamePage(t, s) /\ AllOrderly(t)
  <2>1. MovesSome(t, u, p)
    BY <1>5, PanelsBegin DEF MovesSome
  <2>2. t \in PanelState /\ SamePage(t, u) /\ AllOrderly(t)
    BY <1>5, <2>1, MovesAllOrderly
  <2> QED BY <1>5, <2>2 DEF SamePage
<1>6. CASE t = Panels!Begins(H, p, TRUE, parent, TRUE)
  BY <1>2, <1>5, <1>6 DEF t
<1>7. CASE t = Panels!Begins(F, p, TRUE, parent, new \/ p \notin A)
  <2> DEFINE b == new \/ p \notin A
  <2>1. b \in BOOLEAN /\ SamePage(F, s)
    BY <1>2, <1>3 DEF SamePage
  <2> HIDE DEF b
  <2>2. t = Panels!Begins(F, p, TRUE, parent, b)
    BY <1>7 DEF b
  <2> QED BY <1>3, <1>5, <2>1, <2>2 DEF t
<1> QED BY <1>1, <1>4, <1>6, <1>7

LEMMA ShowsAlone ==
  ASSUME NEW s \in PanelState, NEW p \in Panel, NEW new \in BOOLEAN, NEW veto,
         AllOrderly(s)
  PROVE  LET t == Panels!show(s, p, FALSE, new, veto)
         IN t = s \/ (/\ ~Panels!Busy(s, p) /\ "in" \notin s.class[p]
                      /\ Moves(t, s, p, TRUE, FALSE, TRUE))
<1> DEFINE A == Actives(s, FALSE)
           H == Hidden(s, A, veto)
           t == Panels!show(s, p, FALSE, new, veto)
<1>0. A = {}
  BY DEF Actives
<1>1. \/ t = s
      \/ /\ ~Panels!Busy(s, p) /\ "in" \notin s.class[p]
         /\ t = Panels!Begins(H, p, TRUE, FALSE, TRUE)
  <2>1. ShowsAs(t, s, p, A, FALSE, new, veto)
    BY PanelsShow
  <2> HIDE DEF A, t
  <2> QED BY <1>0, <2>1, Zenon DEF ShowsAs, ShowsNot
<1> HIDE DEF A, H, t
<1>2. H \in PanelState /\ SamePage(H, s) /\ \A q \in Panel : SamePanel(H, s, q)
  <2>1. H \in PanelState /\ SamePage(H, s) /\ \A q \in Panel : SamePanel(H, Told(s, A, q, veto), q)
    BY <1>0, PanelsHidden DEF H
  <2> QED BY <1>0, <2>1 DEF Told
<1>3. CASE t = Panels!Begins(H, p, TRUE, FALSE, TRUE)
  <2>1. Moves(t, H, p, TRUE, FALSE, TRUE)
    BY <1>2, <1>3, PanelsBegin
  <2>2. Moves(t, s, p, TRUE, FALSE, TRUE)
    BY <1>2, <2>1 DEF Moves, SamePage, SamePanel
  <2> QED BY <1>1, <2>2 DEF t
<1> QED BY <1>1, <1>3 DEF t

AllAlone(s) == \A q \in Panel : AloneOK(s, q)

PanelsOK(s) == s \in PanelState /\ AllOrderly(s) /\ (~s.parent => AllAlone(s))

LEMMA AloneRests ==
  ASSUME NEW s, NEW p, AloneOK(s, p), ~Panels!Busy(s, p)
  PROVE  s.ending[p] = <<>>
BY DEF AloneOK

LEMMA MovesAllAlone ==
  ASSUME NEW s \in PanelState, NEW p \in Panel, NEW t, NEW shown \in BOOLEAN, AllAlone(s),
         ~Panels!Busy(s, p), shown => "in" \notin s.class[p], Moves(t, s, p, shown, FALSE, TRUE)
  PROVE  AllAlone(t)
<1>1. s.ending[p] = <<>>
  BY AloneRests DEF AllAlone
<1>2. AloneOK(t, p)
  BY <1>1, MovesAlone
<1>3. \A q \in Panel \ {p} : SamePanel(t, s, q)
  BY DEF Moves
<1>4. \A q \in Panel \ {p} : AloneOK(t, q)
  BY <1>3, SameKept DEF AllAlone
<1> QED BY <1>2, <1>4 DEF AllAlone

LEMMA PanelsHides ==
  ASSUME NEW s, PanelsOK(s), NEW p \in Panel, NEW parent \in BOOLEAN, NEW veto,
         ~s.parent => ~parent
  PROVE  LET t == Panels!hide(s, p, parent, veto) IN PanelsOK(t) /\ SamePage(t, s)
<1> DEFINE t == Panels!hide(s, p, parent, veto)
<1>1. s \in PanelState
  BY DEF PanelsOK
<1>2. /\ HidesNot(s, p, veto) => t = s
      /\ ~HidesNot(s, p, veto) => Moves(t, s, p, FALSE, parent, TRUE)
  BY <1>1, PanelsHide
<1> HIDE DEF t
<1>3. CASE ~HidesNot(s, p, veto)
  <2>1. MovesSome(t, s, p)
    BY <1>2, <1>3 DEF MovesSome
  <2>2. t \in PanelState /\ SamePage(t, s) /\ AllOrderly(t)
    BY <1>1, <2>1, MovesAllOrderly DEF PanelsOK
  <2>3. ~s.parent => AllAlone(t)
    <3> SUFFICES ASSUME ~s.parent PROVE AllAlone(t)
      OBVIOUS
    <3>1. Moves(t, s, p, FALSE, FALSE, TRUE) /\ AllAlone(s) /\ ~Panels!Busy(s, p)
      BY <1>2, <1>3 DEF PanelsOK, HidesNot
    <3> QED BY <1>1, <3>1, MovesAllAlone
  <2> QED BY <2>2, <2>3 DEF PanelsOK, SamePage, t
<1>4. CASE HidesNot(s, p, veto)
  BY <1>2, <1>4 DEF SamePage, t
<1> QED BY <1>3, <1>4

LEMMA PanelsShows ==
  ASSUME NEW s, PanelsOK(s), NEW p \in Panel, NEW parent \in BOOLEAN, NEW new \in BOOLEAN,
         NEW veto, ~s.parent => ~parent
  PROVE  LET t == Panels!show(s, p, parent, new, veto) IN PanelsOK(t) /\ SamePage(t, s)
<1> DEFINE t == Panels!show(s, p, parent, new, veto)
<1>1. s \in PanelState /\ AllOrderly(s)
  BY DEF PanelsOK
<1>2. t \in PanelState /\ SamePage(t, s) /\ AllOrderly(t)
  BY <1>1, ShowsOrderly
<1>3. ASSUME ~s.parent PROVE AllAlone(t)
  <2>1. t = Panels!show(s, p, FALSE, new, veto)
    BY <1>3
  <2>2. t = s \/ (/\ ~Panels!Busy(s, p) /\ "in" \notin s.class[p]
                  /\ Moves(t, s, p, TRUE, FALSE, TRUE))
    <3> HIDE DEF t
    <3> QED BY <1>1, <2>1, ShowsAlone
  <2>3. AllAlone(s)
    BY <1>3 DEF PanelsOK
  <2> HIDE DEF t
  <2> QED BY <1>1, <2>2, <2>3, MovesAllAlone
<1> HIDE DEF t
<1> QED BY <1>2, <1>3 DEF PanelsOK, SamePage, t

LEMMA PanelsToggles ==
  ASSUME NEW s, PanelsOK(s), NEW p \in Panel, NEW parent \in BOOLEAN, NEW new \in BOOLEAN,
         NEW veto, ~s.parent => ~parent
  PROVE  LET t == Panels!toggle(s, p, parent, new, veto) IN PanelsOK(t) /\ SamePage(t, s)
<1>1. CASE Panels!In(s, p)
  BY <1>1, PanelsHides DEF Panels!toggle
<1>2. CASE ~Panels!In(s, p)
  BY <1>2, PanelsShows DEF Panels!toggle
<1> QED BY <1>1, <1>2

LEMMA PanelsCreate ==
  ASSUME NEW s, PanelsOK(s), NEW p \in Panel, NEW veto, s.data[p] = None
  PROVE  PanelsOK(Panels!Create(s, p, veto)) /\ SamePage(Panels!Create(s, p, veto), s)
<1> DEFINE l == Panels!Labels(s, p, s.parent)
           t == Panels!toggle(l, p, s.parent, TRUE, veto)
           o == Panels!Object(FALSE, s.parent)
           u == [t EXCEPT !.data[p] = o]
<1>0. s \in PanelState /\ s.parent \in BOOLEAN /\ ~Panels!Busy(s, p)
  BY DEF PanelsOK, PanelState, Panels!Busy
<1>1. PanelsOK(l) /\ SamePage(l, s)
  <2>1. /\ l \in PanelState /\ SamePage(l, s)
        /\ l.class = s.class /\ l.data = s.data /\ l.ending = s.ending
        /\ \A q \in Panel : l.collapsed[q] = (IF s.parent \/ q = p THEN "in" \notin s.class[q]
                                              ELSE s.collapsed[q])
    BY <1>0, PanelsLabels
  <2> HIDE DEF l
  <2>2. AllOrderly(l)
    <3> SUFFICES ASSUME NEW q \in Panel PROVE Orderly(l, q)
      BY DEF AllOrderly
    <3>1. Orderly(s, q)
      BY DEF PanelsOK, AllOrderly
    <3>2. l.class[q] = s.class[q] /\ l.data[q] = s.data[q] /\ l.ending[q] = s.ending[q]
      BY <2>1
    <3> QED BY <3>1, <3>2 DEF Orderly, Panels!Busy
  <2>3. ASSUME ~s.parent PROVE AllAlone(l)
    <3>1. \A q \in Panel \ {p} : SamePanel(l, s, q)
      BY <2>1, <2>3 DEF SamePanel
    <3>2. \A q \in Panel \ {p} : AloneOK(l, q)
      BY <2>3, <3>1, SameKept DEF PanelsOK, AllAlone
    <3>3. s.ending[p] = <<>>
      BY <1>0, <2>3, AloneRests DEF PanelsOK, AllAlone
    <3>4. AloneOK(l, p)
      BY <2>1, <3>3 DEF AloneOK
    <3> QED BY <3>2, <3>4 DEF AllAlone
  <2> QED BY <2>1, <2>2, <2>3 DEF PanelsOK, SamePage
<1> HIDE DEF l
<1>2. PanelsOK(t) /\ SamePage(t, l)
  <2> DEFINE b == s.parent
  <2>1. b \in BOOLEAN /\ (~l.parent => ~b) /\ PanelsOK(l)
    BY <1>0, <1>1 DEF SamePage
  <2> HIDE DEF b
  <2>2. LET r == Panels!toggle(l, p, b, TRUE, veto) IN PanelsOK(r) /\ SamePage(r, l)
    BY <2>1, PanelsToggles
  <2> QED BY <2>2 DEF b
<1> HIDE DEF t
<1>3. ASSUME t.data[p] = None PROVE PanelsOK(u) /\ SamePage(u, t)
  <2>1. o \in Object /\ o # None /\ o.parent = s.parent /\ ~o.transitioning
    BY <1>0, PanelsObject
  <2> HIDE DEF o
  <2>2. /\ u \in PanelState /\ SamePage(u, t) /\ u.class = t.class /\ u.collapsed = t.collapsed
        /\ u.ending = t.ending /\ u.data = [t.data EXCEPT ![p] = o]
    BY <1>2, <2>1 DEF PanelsOK, PanelState, SamePage
  <2> HIDE DEF u
  <2>3. u.data[p] = o /\ \A q \in Panel \ {p} : SamePanel(u, t, q)
    BY <1>2, <2>2 DEF PanelsOK, PanelState, SamePanel
  <2>4. Orderly(u, p)
    BY <1>2, <1>3, <2>1, <2>2, <2>3 DEF PanelsOK, AllOrderly, Orderly, Panels!Busy
  <2>5. AllOrderly(u)
    BY <1>2, <2>3, <2>4, SameKept DEF PanelsOK, AllOrderly
  <2>6. ASSUME ~t.parent PROVE AllAlone(u)
    <3>1. AllAlone(t)
      BY <1>2, <2>6 DEF PanelsOK
    <3>2. t.ending[p] = <<>>
      BY <1>3, <3>1, AloneRests DEF AllAlone, Panels!Busy
    <3>3. ~s.parent
      BY <1>1, <1>2, <2>6 DEF SamePage
    <3>4. AloneOK(u, p)
      BY <2>1, <2>2, <2>3, <3>1, <3>2, <3>3 DEF AllAlone, AloneOK
    <3> QED BY <2>3, <3>1, <3>4, SameKept DEF AllAlone
  <2> QED BY <2>2, <2>5, <2>6 DEF PanelsOK, SamePage
<1>4. Panels!Create(s, p, veto) = IF t.data[p] = None THEN u ELSE t
  BY Zenon DEF Panels!Create, t, l
<1> HIDE DEF u
<1> QED BY <1>1, <1>2, <1>3, <1>4 DEF SamePage

LEMMA PanelsArrived ==
  ASSUME NEW s, NEW t, NEW p \in Panel, PanelsOK(s), Arrives(t, s, p), s.ending[p] # <<>>
  PROVE  PanelsOK(t)
<1>1. \A q \in Panel \ {p} : SamePanel(t, s, q)
  BY DEF Arrives
<1>2. Orderly(t, p)
  BY DEF Arrives, Orderly
<1>3. AllOrderly(t)
  BY <1>1, <1>2, SameKept DEF PanelsOK, AllOrderly
<1>4. ASSUME ~s.parent PROVE AllAlone(t)
  <2>1. AllAlone(s)
    BY <1>4 DEF PanelsOK
  <2>2. AloneOK(t, p)
    <3>1. AloneOK(s, p)
      BY <2>1 DEF AllAlone
    <3> QED BY <3>1 DEF Arrives, AloneOK
  <2> QED BY <1>1, <2>1, <2>2, SameKept DEF AllAlone
<1> QED BY <1>3, <1>4 DEF PanelsOK, Arrives, SamePage
\* A click, as it finds the panels.
Clicked(s, veto) ==
  [s EXCEPT !.calm = /\ s.calm /\ "hide" \notin veto
                     /\ \A q \in Panel : s.ending[q] # <<>> => s.data[q] # None]

Clicks(t, s, p, veto) ==
  t = IF s.data[p] = None THEN Panels!Create(s, p, veto)
      ELSE Panels!toggle(s, p, s.data[p].parent, FALSE, veto)

LEMMA ClickClicks ==
  ASSUME NEW p \in Panel, Panels!Click(p)
  PROVE  \E veto : Clicks(widget', Clicked(widget, veto), p, veto)
BY Zenon DEF Panels!Click, Clicks, Clicked

LEMMA PanelsClicked ==
  ASSUME NEW s \in PanelState, NEW p \in Panel, NEW veto
  PROVE  LET t == Clicked(s, veto)
         IN /\ t \in PanelState
            /\ t.class = s.class /\ t.collapsed = s.collapsed /\ t.data = s.data
            /\ t.ending = s.ending /\ t.parent = s.parent /\ t.transition = s.transition
            /\ t.calm = (/\ s.calm /\ "hide" \notin veto
                         /\ \A q \in Panel : s.ending[q] # <<>> => s.data[q] # None)
<1> DEFINE c == /\ s.calm /\ "hide" \notin veto
                /\ \A q \in Panel : s.ending[q] # <<>> => s.data[q] # None
           t == [s EXCEPT !.calm = c]
<1>1. c \in BOOLEAN
  OBVIOUS
<1>2. t = Clicked(s, veto)
  BY Zenon DEF Clicked
<1> HIDE DEF c
<1>3. /\ t \in PanelState
      /\ t.class = s.class /\ t.collapsed = s.collapsed /\ t.data = s.data
      /\ t.ending = s.ending /\ t.parent = s.parent /\ t.transition = s.transition
      /\ t.calm = c
  BY <1>1 DEF PanelState
<1> QED BY <1>2, <1>3 DEF c

LEMMA ClickKeeps ==
  ASSUME NEW p \in Panel, PanelsOK(widget), Panels!Click(p)
  PROVE  PanelsOK(widget')
<1>1. PICK veto : Clicks(widget', Clicked(widget, veto), p, veto)
  BY ClickClicks
<1> DEFINE s == Clicked(widget, veto)
<1>2. PanelsOK(s)
  <2>1. /\ s \in PanelState
        /\ s.class = widget.class /\ s.collapsed = widget.collapsed /\ s.data = widget.data
        /\ s.ending = widget.ending /\ s.parent = widget.parent
    BY PanelsClicked DEF PanelsOK
  <2> HIDE DEF s
  <2>2. \A q \in Panel : SamePanel(s, widget, q)
    BY <2>1 DEF SamePanel
  <2>3. AllOrderly(s) /\ (AllAlone(widget) => AllAlone(s))
    BY <2>2, SameKept DEF PanelsOK, AllOrderly, AllAlone
  <2> QED BY <2>1, <2>3 DEF PanelsOK
<1>3. Clicks(widget', s, p, veto)
  BY <1>1
<1> HIDE DEF s
<1>4. CASE s.data[p] = None
  BY <1>2, <1>3, <1>4, PanelsCreate DEF Clicks
<1>5. CASE s.data[p] # None
  <2> DEFINE b == s.data[p].parent
  <2>1. widget' = Panels!toggle(s, p, b, FALSE, veto)
    BY <1>3, <1>5 DEF Clicks
  <2>2. b \in BOOLEAN
    BY <1>2, <1>5, PanelsObject DEF PanelsOK, PanelState
  <2>3. ~s.parent => ~b
    BY <1>2, <1>5 DEF PanelsOK, AllAlone, AloneOK
  <2> HIDE DEF b
  <2>4. LET t == Panels!toggle(s, p, b, FALSE, veto) IN PanelsOK(t) /\ SamePage(t, s)
    BY <1>2, <2>2, <2>3, PanelsToggles
  <2> QED BY <2>1, <2>4
<1> QED BY <1>4, <1>5

LEMMA EndsArrives ==
  ASSUME NEW p \in Panel, PanelsOK(widget), Panels!Ends(p)
  PROVE  Arrives(widget', widget, p) /\ widget.ending[p] # <<>>
<1> DEFINE w == widget.ending[p]
           s == [widget EXCEPT !.ending[p] = <<>>]
           ran == CHOOSE f : f = [i \in 0 .. Len(w) |->
                                    IF i = 0 THEN s ELSE Panels!Complete(f[i - 1], w[i])]
<1>1. w # <<>> /\ widget' = LET f[i \in 0 .. Len(w)] ==
                                  IF i = 0 THEN s ELSE Panels!Complete(f[i - 1], w[i])
                            IN f[Len(w)]
  BY Zenon DEF Panels!Ends, Panels!TransitionEnd, Panels!InTurn
<1>2. Len(w) \in Nat /\ widget \in PanelState /\ Orderly(widget, p)
  BY DEF PanelsOK, PanelState, AllOrderly
<1>3. PICK f : PanelTurn(f, s, w) /\ widget' = f[Len(w)]
  <2> HIDE DEF s, w
  <2>1. LET f[i \in 0 .. Len(w)] ==
              IF i = 0 THEN s ELSE Panels!Complete(f[i - 1], w[i])
        IN PanelTurn(f, s, w)
    BY <1>2, PanelsTurn
  <2> QED BY <1>1, <2>1, Zenon
<1> QED BY <1>1, <1>2, <1>3, PanelsArrive

LEMMA PanelsInit == Panels!Init => PanelsOK(widget)
<1> SUFFICES ASSUME Panels!Init PROVE PanelsOK(widget)
  OBVIOUS
<1>1. PICK parent \in BOOLEAN, transition \in BOOLEAN, open \in SUBSET Panel :
        widget = [class |-> [p \in Panel |-> IF p \in open THEN {"collapse", "in"}
                                             ELSE {"collapse"}],
                  collapsed |-> [p \in Panel |-> p \notin open],
                  data |-> [p \in Panel |-> None],
                  ending |-> [p \in Panel |-> <<>>],
                  parent |-> parent, transition |-> transition, calm |-> TRUE]
  BY DEF Panels!Init
<1>2. widget \in PanelState
  BY <1>1 DEF PanelState
<1>3. \A p \in Panel : /\ widget.class[p] = (IF p \in open THEN {"collapse", "in"} ELSE {"collapse"})
                       /\ widget.collapsed[p] = (p \notin open)
                       /\ widget.data[p] = None /\ widget.ending[p] = <<>>
  BY <1>1
<1>4. AllOrderly(widget)
  BY <1>3 DEF AllOrderly, Orderly, Panels!Busy
<1>5. AllAlone(widget)
  BY <1>3 DEF AllAlone, AloneOK
<1> QED BY <1>2, <1>4, <1>5 DEF PanelsOK

LEMMA PanelsKept == Spec => [](plugin = "collapse" => PanelsOK(widget))
<1> DEFINE Inv == plugin = "collapse" => PanelsOK(widget)
<1>1. Init => Inv
  BY PanelsInit DEF Init
<1>2. Inv /\ [Next]_<<plugin, widget>> => Inv'
  <2>1. CASE UNCHANGED <<plugin, widget>>
    BY <2>1 DEF PanelsOK, AllOrderly, Orderly, AllAlone, AloneOK, Panels!Busy
  <2>2. CASE Next
    <3>1. ASSUME NEW p \in Panel, PanelsOK(widget), Panels!Ends(p) PROVE PanelsOK(widget')
      BY <3>1, EndsArrives, PanelsArrived
    <3> QED BY <2>2, <3>1, ClickKeeps DEF Next, Panels!Next
  <2> QED BY <2>1, <2>2
<1> QED BY <1>1, <1>2, PTL DEF Spec

\* A panel at rest is open or closed and answers the next click (show, hide and
\* complete of collapse.js).
THEOREM CollapseSettled == Spec => []Settled
<1>1. (plugin = "collapse" => PanelsOK(widget)) => Settled
  BY DEF PanelsOK, AllOrderly, Orderly, Settled, Panels!Settled
<1> QED BY <1>1, PanelsKept, PTL

\* The trigger of a panel on its own says whether it is open.
THEOREM CollapseTriggers == Spec => []TriggersAgree
<1>1. (plugin = "collapse" => PanelsOK(widget)) => TriggersAgree
  BY DEF PanelsOK, AllAlone, AloneOK, TriggersAgree, Panels!TriggersAgree, Panels!In
<1> QED BY <1>1, PanelsKept, PTL
\* A panel of an accordion waits for one transition at most, of an object of its
\* own if it opens.
Stands(s, p) ==
  /\ s.ending[p] # <<>> =>
       /\ Len(s.ending[p]) = 1 /\ "collapsing" \in s.class[p] /\ "in" \notin s.class[p]
       /\ s.data[p] # None => Panels!Busy(s, p)
       /\ s.ending[p][1].shown => s.data[p] # None
  /\ s.data[p] # None => s.data[p].parent

WillBeOpen(s, p) ==
  IF s.ending[p] # <<>> THEN s.ending[p][1].shown ELSE "in" \in s.class[p]

\* One panel at most is open or opens.  A panel the markup has open, which has no
\* object yet, is the only one.
AccordionOK(s) ==
  /\ \A p \in Panel : Stands(s, p)
  /\ \A p \in Panel : s.data[p] = None /\ "in" \in s.class[p] =>
       \A r \in Panel \ {p} : s.ending[r] = <<>> /\ "in" \notin s.class[r]
  /\ \A p, q \in Panel : WillBeOpen(s, p) /\ WillBeOpen(s, q) => p = q

LEMMA SameStands ==
  ASSUME NEW s, NEW t, NEW q, SamePanel(t, s, q)
  PROVE  (Stands(s, q) => Stands(t, q)) /\ (WillBeOpen(t, q) <=> WillBeOpen(s, q))
BY DEF SamePanel, Stands, WillBeOpen, Panels!Busy

LEMMA MovesStands ==
  ASSUME NEW s \in PanelState, NEW p \in Panel, NEW t, NEW shown \in BOOLEAN,
         s.ending[p] = <<>>, shown => "in" \notin s.class[p],
         Moves(t, s, p, shown, TRUE, TRUE)
  PROVE  Stands(t, p) /\ t.data[p] # None /\ (WillBeOpen(t, p) <=> shown)
<1>1. t.data[p] # None /\ t.data[p].parent /\ (t.data[p].transitioning <=> s.transition)
  BY PanelsObject DEF Moves, PanelState
<1>2. CASE s.transition
  <2> DEFINE h == [panel |-> p, shown |-> shown, owner |-> TRUE]
  <2>1. t.ending[p] = Append(<<>>, h) /\ h.shown = shown
    BY <1>2 DEF Moves
  <2>2. Len(t.ending[p]) = 1 /\ t.ending[p][1].shown = shown
    BY <2>1
  <2>3. t.ending[p] # <<>>
    BY <2>2
  <2> QED BY <1>1, <1>2, <2>2, <2>3 DEF Moves, Stands, WillBeOpen, Panels!Busy
<1>3. CASE ~s.transition
  BY <1>1, <1>3 DEF Moves, Stands, WillBeOpen
<1> QED BY <1>2, <1>3

\* No panel is open nor opens.
Nobody(s) == \A q \in Panel : Stands(s, q) /\ ~WillBeOpen(s, q)

LEMMA NobodyShows ==
  ASSUME NEW s \in PanelState, Nobody(s), NEW p \in Panel, s.ending[p] = <<>>, NEW t,
         Moves(t, s, p, TRUE, TRUE, TRUE)
  PROVE  AccordionOK(t) /\ t.data[p] # None
<1>1. \A q \in Panel : Stands(s, q) /\ ~WillBeOpen(s, q) /\ "in" \notin s.class[q]
  BY DEF Nobody, Stands, WillBeOpen
<1>2. Stands(t, p) /\ t.data[p] # None /\ WillBeOpen(t, p)
  BY <1>1, MovesStands
<1>3. \A q \in Panel \ {p} : SamePanel(t, s, q)
  BY DEF Moves
<1>4. \A q \in Panel \ {p} : Stands(t, q) /\ ~WillBeOpen(t, q) /\ "in" \notin t.class[q]
  <2> SUFFICES ASSUME NEW q \in Panel \ {p}
               PROVE  Stands(t, q) /\ ~WillBeOpen(t, q) /\ "in" \notin t.class[q]
    OBVIOUS
  <2>1. SamePanel(t, s, q) /\ t.class[q] = s.class[q]
    BY <1>3 DEF SamePanel
  <2> QED BY <1>1, <2>1, SameStands
<1> QED BY <1>2, <1>4 DEF AccordionOK

\* A calm accordion as a click finds it.
Ready(s) ==
  /\ PanelsOK(s) /\ AccordionOK(s) /\ s.parent
  /\ \A q \in Panel : s.ending[q] # <<>> => s.data[q] # None

LEMMA ReadyRests ==
  ASSUME NEW s, Ready(s), NEW q \in Panel, ~Panels!Busy(s, q)
  PROVE  s.ending[q] = <<>> /\ "collapsing" \notin s.class[q]
BY DEF Ready, AccordionOK, Stands, PanelsOK, AllOrderly, Orderly

LEMMA ReadyHides ==
  ASSUME NEW s, Ready(s), NEW p \in Panel, NEW veto
  PROVE  LET t == Panels!hide(s, p, TRUE, veto)
         IN t = s \/ (AccordionOK(t) /\ t.data[p] # None)
<1> DEFINE t == Panels!hide(s, p, TRUE, veto)
<1>0. s \in PanelState
  BY DEF Ready, PanelsOK
<1>1. /\ HidesNot(s, p, veto) => t = s
      /\ ~HidesNot(s, p, veto) => Moves(t, s, p, FALSE, TRUE, TRUE)
  BY <1>0, PanelsHide
<1> HIDE DEF t
<1>2. ASSUME ~HidesNot(s, p, veto) PROVE AccordionOK(t) /\ t.data[p] # None
  <2>1. /\ Moves(t, s, p, FALSE, TRUE, TRUE) /\ "in" \in s.class[p] /\ s.ending[p] = <<>>
    BY <1>1, <1>2, ReadyRests DEF HidesNot
  <2>2. Stands(t, p) /\ t.data[p] # None /\ ~WillBeOpen(t, p)
    BY <1>0, <2>1, MovesStands
  <2>3. ASSUME NEW q \in Panel \ {p}
        PROVE  /\ Stands(t, q) /\ (WillBeOpen(t, q) <=> WillBeOpen(s, q))
               /\ ~(t.data[q] = None /\ "in" \in t.class[q])
    <3>1. SamePanel(t, s, q)
      BY <2>1 DEF Moves
    <3>2. Stands(s, q) /\ ~(s.data[q] = None /\ "in" \in s.class[q])
      BY <2>1 DEF Ready, AccordionOK
    <3>3. t.data[q] = s.data[q] /\ t.class[q] = s.class[q]
      BY <3>1 DEF SamePanel
    <3> QED BY <3>1, <3>2, <3>3, SameStands
  <2>4. \A q, r \in Panel : WillBeOpen(s, q) /\ WillBeOpen(s, r) => q = r
    BY DEF Ready, AccordionOK
  <2> QED BY <2>2, <2>3, <2>4 DEF AccordionOK
<1> QED BY <1>1, <1>2 DEF t

LEMMA FirstIsActive ==
  ASSUME NEW A \in SUBSET Panel, A # {}
  PROVE  First(A) \in A
<1>1. \E x \in A : \A y \in A : x <= y
  BY PanelAssumption, LeastNumber
<1> QED BY <1>1 DEF First

\* What an active panel of a calm accordion does when it is told to hide: nothing
\* if it waits, and it closes if it is open.
LEMMA ReadyTold ==
  ASSUME NEW s, Ready(s), NEW f \in Panel, "in" \in s.class[f], ~Panels!Busy(s, f), NEW veto,
         "hide" \notin veto
  PROVE  LET u == Panels!HideActive(f, s, veto)
         IN /\ s.data[f] # None => Stands(u, f) /\ ~WillBeOpen(u, f)
            /\ s.data[f] = None => /\ u.ending[f] # <<>> => /\ Len(u.ending[f]) = 1
                                                           /\ ~u.ending[f][1].shown
                                                           /\ "collapsing" \in u.class[f]
                                   /\ "in" \notin u.class[f]
<1> DEFINE u == Panels!HideActive(f, s, veto)
<1>0. s \in PanelState
  BY DEF Ready, PanelsOK
<1>1. PICK t : /\ Knows(t, s, f)
               /\ HidesNot(t, f, veto) => u = t
               /\ ~HidesNot(t, f, veto) => Moves(u, t, f, FALSE, t.data[f].parent, TRUE)
  BY <1>0, PanelsTell
<1> HIDE DEF u
<1>2. t \in PanelState /\ t.ending[f] = <<>> /\ ~HidesNot(t, f, veto)
  BY <1>1, ReadyRests DEF Knows, HidesNot
<1>3. CASE s.data[f] # None
  <2>1. t = s /\ t.data[f].parent = TRUE
    <3>1. t = s
      BY <1>1, <1>3 DEF Knows
    <3>2. s.data[f].parent /\ s.data[f].parent \in BOOLEAN
      BY <1>0, <1>3, PanelsObject DEF Ready, AccordionOK, Stands, PanelState
    <3> QED BY <3>1, <3>2
  <2>2. Moves(u, s, f, FALSE, TRUE, TRUE) /\ s.ending[f] = <<>>
    BY <1>1, <1>2, <2>1
  <2> QED BY <1>0, <1>3, <2>2, MovesStands DEF u
<1>4. CASE s.data[f] = None
  <2> DEFINE b == t.data[f].parent
             h == [panel |-> f, shown |-> FALSE, owner |-> TRUE]
  <2>1. Moves(u, t, f, FALSE, b, TRUE)
    BY <1>1, <1>2
  <2> HIDE DEF b
  <2>2. "in" \notin u.class[f]
    BY <1>2, <2>1 DEF Moves, PanelState
  <2>3. u.ending[f] = (IF t.transition THEN Append(<<>>, h) ELSE <<>>)
    BY <1>2, <2>1 DEF Moves
  <2>4. CASE t.transition
    <3>1. Len(u.ending[f]) = 1 /\ ~u.ending[f][1].shown
      BY <2>3, <2>4
    <3> QED BY <1>4, <2>1, <2>2, <2>4, <3>1 DEF Moves, u
  <2>5. CASE ~t.transition
    BY <1>4, <2>2, <2>3, <2>5 DEF u
  <2> QED BY <2>4, <2>5
<1> QED BY <1>3, <1>4

LEMMA ReadyShows ==
  ASSUME NEW s, Ready(s), NEW p \in Panel, NEW new \in BOOLEAN, NEW veto, "hide" \notin veto
  PROVE  LET t == Panels!show(s, p, TRUE, new, veto)
         IN t = s \/ (AccordionOK(t) /\ t.data[p] # None)
<1> DEFINE A == Actives(s, TRUE)
           H == Hidden(s, A, veto)
           F == Panels!Forget(H, A)
           t == Panels!show(s, p, TRUE, new, veto)
<1>0. s \in PanelState /\ AllOrderly(s)
  BY DEF Ready, PanelsOK
<1>1. ShowsAs(t, s, p, A, TRUE, new, veto)
  BY PanelsShow
<1>2. A \in SUBSET Panel /\ \A q \in Panel : q \in A <=> "in" \in s.class[q] \/ "collapsing" \in s.class[q]
  BY DEF Actives
<1> HIDE DEF A, t
<1>3. SUFFICES ASSUME ~ShowsNot(s, p, A, veto) PROVE AccordionOK(t) /\ t.data[p] # None
  BY <1>1, Zenon DEF ShowsAs, t
<1>4. /\ s.ending[p] = <<>> /\ p \notin A
  BY <1>2, <1>3, ReadyRests DEF ShowsNot
<1>5. /\ H \in PanelState /\ \A q \in Panel : SamePanel(H, Told(s, A, q, veto), q)
  BY <1>0, <1>2, PanelsHidden
<1>6. /\ F \in PanelState /\ \A q \in A : Forgotten(F, H, q)
      /\ \A q \in Panel \ A : SamePanel(F, H, q)
  <2> HIDE DEF H
  <2> QED BY <1>2, <1>5, PanelsForget
<1>7. /\ Known(s, A) \/ A = {} => t = Panels!Begins(H, p, TRUE, TRUE, TRUE)
      /\ ~(Known(s, A) \/ A = {}) => t = Panels!Begins(F, p, TRUE, TRUE, TRUE)
  <2> DEFINE b == new \/ p \notin A
  <2>1. b = TRUE
    BY <1>4
  <2>2. /\ Known(s, A) \/ A = {} => t = Panels!Begins(H, p, TRUE, TRUE, TRUE)
        /\ ~(Known(s, A) \/ A = {}) => t = Panels!Begins(F, p, TRUE, TRUE, b)
    BY <1>1, <1>3, Zenon DEF ShowsAs
  <2> HIDE DEF b, H
  <2> QED BY <2>1, <2>2
<1> HIDE DEF H, F
<1>8. ASSUME NEW u \in PanelState, Nobody(u), SamePanel(u, s, p),
             t = Panels!Begins(u, p, TRUE, TRUE, TRUE)
      PROVE  AccordionOK(t) /\ t.data[p] # None
  <2>1. Moves(t, u, p, TRUE, TRUE, TRUE)
    BY <1>8, PanelsBegin
  <2>2. u.ending[p] = <<>>
    BY <1>4, <1>8 DEF SamePanel
  <2> QED BY <1>8, <2>1, <2>2, NobodyShows
<1>9. \A q \in Panel \ A : SamePanel(H, s, q)
  BY <1>5 DEF Told
<1>10. \A q \in Panel \ A : Stands(s, q) /\ ~WillBeOpen(s, q)
  BY <1>2 DEF Ready, AccordionOK, Stands, WillBeOpen
<1>11. \A q \in Panel \ A : Stands(H, q) /\ ~WillBeOpen(H, q)
  BY <1>9, <1>10, SameStands
<1>12. CASE A = {}
  <2>1. Nobody(H)
    BY <1>11, <1>12 DEF Nobody
  <2> QED BY <1>4, <1>5, <1>7, <1>8, <1>9, <1>12, <2>1
<1> DEFINE f == First(A)
<1>13. ASSUME A # {}, ~Panels!Busy(s, f) PROVE f \in A /\ "in" \in s.class[f] /\ s.ending[f] = <<>>
  <2>1. f \in A
    BY <1>2, <1>13, FirstIsActive
  <2> HIDE DEF f
  <2>2. s.ending[f] = <<>> /\ "collapsing" \notin s.class[f]
    BY <1>2, <1>13, <2>1, ReadyRests
  <2> QED BY <1>2, <2>1, <2>2
<1>14. CASE Known(s, A)
  <2>1. A # {} /\ s.data[f] # None /\ ~Panels!Busy(s, f)
    BY <1>3, <1>14 DEF Known, ShowsNot
  <2> HIDE DEF f
  <2>2. f \in A /\ f \in Panel /\ "in" \in s.class[f] /\ s.ending[f] = <<>>
    BY <1>2, <1>13, <2>1
  <2>3. WillBeOpen(s, f)
    BY <2>2 DEF WillBeOpen
  <2>4. Stands(H, f) /\ ~WillBeOpen(H, f)
    <3>1. SamePanel(H, Panels!HideActive(f, s, veto), f)
      BY <1>5, <2>2 DEF Told
    <3>2. LET u == Panels!HideActive(f, s, veto) IN Stands(u, f) /\ ~WillBeOpen(u, f)
      BY <2>1, <2>2, ReadyTold
    <3> QED BY <3>1, <3>2, SameStands
  <2>5. ASSUME NEW q \in A \ {f} PROVE Stands(H, q) /\ ~WillBeOpen(H, q)
    <3>0. q \in Panel /\ Stands(s, q)
      BY <1>2 DEF Ready, AccordionOK
    <3>1. ~WillBeOpen(s, q)
      BY <2>2, <2>3, <3>0 DEF Ready, AccordionOK
    <3>2. s.ending[q] # <<>>
      <4>1. s.ending[q] = <<>> => "collapsing" \notin s.class[q]
        BY <1>0, <3>0 DEF AllOrderly, Orderly
      <4> QED BY <1>2, <3>0, <3>1, <4>1 DEF WillBeOpen
    <3>3. s.data[q] # None /\ Panels!Busy(s, q)
      BY <3>0, <3>2 DEF Ready, Stands
    <3>4. Panels!HideActive(q, s, veto) = s
      <4>1. PICK v : /\ Knows(v, s, q)
                     /\ HidesNot(v, q, veto) => Panels!HideActive(q, s, veto) = v
        BY <1>0, <3>0, PanelsTell
      <4> QED BY <3>3, <4>1 DEF Knows, HidesNot
    <3>5. SamePanel(H, s, q)
      BY <1>5, <3>0, <3>4 DEF Told
    <3> QED BY <3>0, <3>1, <3>5, SameStands
  <2>6. Nobody(H)
    BY <1>11, <2>4, <2>5 DEF Nobody
  <2> QED BY <1>4, <1>5, <1>7, <1>8, <1>9, <1>14, <2>6
<1>15. CASE A # {} /\ ~Known(s, A)
  <2>1. s.data[f] = None /\ ~Panels!Busy(s, f)
    BY <1>15 DEF Known, Panels!Busy
  <2> HIDE DEF f
  <2>2. f \in A /\ f \in Panel /\ "in" \in s.class[f] /\ s.ending[f] = <<>>
    BY <1>2, <1>13, <1>15, <2>1
  <2>3. A = {f}
    <3>1. \A q \in Panel \ {f} : s.ending[q] = <<>> /\ "in" \notin s.class[q]
      BY <2>1, <2>2 DEF Ready, AccordionOK
    <3>2. \A q \in Panel \ {f} : "collapsing" \notin s.class[q]
      BY <1>0, <3>1 DEF AllOrderly, Orderly
    <3> QED BY <1>2, <2>2, <3>1, <3>2
  <2>4. Stands(F, f) /\ ~WillBeOpen(F, f)
    <3> DEFINE u == Panels!HideActive(f, s, veto)
    <3>1. SamePanel(H, u, f)
      BY <1>5, <2>2 DEF Told
    <3>2. /\ u.ending[f] # <<>> => /\ Len(u.ending[f]) = 1
                                   /\ ~u.ending[f][1].shown
                                   /\ "collapsing" \in u.class[f]
          /\ "in" \notin u.class[f]
      BY <2>1, <2>2, ReadyTold
    <3> HIDE DEF u
    <3>3. Forgotten(F, H, f)
      BY <1>6, <2>2
    <3>4. F.ending[f] # <<>> => u.ending[f] # <<>>
      <4>1. F.ending[f] \in Seq(Ending) /\ H.ending[f] \in Seq(Ending)
        BY <1>5, <1>6, <2>2 DEF PanelState
      <4>2. Len(F.ending[f]) = Len(H.ending[f]) /\ H.ending[f] = u.ending[f]
        BY <3>1, <3>3 DEF SamePanel, Forgotten
      <4> QED BY <4>1, <4>2
    <3>5. /\ F.class[f] = u.class[f] /\ F.data[f] = None /\ Len(F.ending[f]) = Len(u.ending[f])
          /\ Len(u.ending[f]) = 1 => F.ending[f][1].shown = u.ending[f][1].shown
      BY <3>1, <3>3 DEF SamePanel, Forgotten
    <3> QED BY <3>2, <3>4, <3>5 DEF Stands, WillBeOpen
  <2>5. \A q \in Panel \ {f} : SamePanel(F, H, q)
    BY <1>6, <2>3
  <2>6. Nobody(F)
    BY <1>11, <2>3, <2>4, <2>5, SameStands DEF Nobody
  <2>7. SamePanel(F, s, p)
    BY <1>4, <1>6, <1>9 DEF SamePanel
  <2> QED BY <1>6, <1>7, <1>8, <1>15, <2>6, <2>7
<1> QED BY <1>12, <1>14, <1>15

LEMMA ReadyToggles ==
  ASSUME NEW s, Ready(s), NEW p \in Panel, NEW new \in BOOLEAN, NEW veto, "hide" \notin veto
  PROVE  LET t == Panels!toggle(s, p, TRUE, new, veto)
         IN t = s \/ (AccordionOK(t) /\ t.data[p] # None)
<1>1. CASE Panels!In(s, p)
  BY <1>1, ReadyHides DEF Panels!toggle
<1>2. CASE ~Panels!In(s, p)
  BY <1>2, ReadyShows DEF Panels!toggle
<1> QED BY <1>1, <1>2

LEMMA ReadyCreates ==
  ASSUME NEW s, Ready(s), NEW p \in Panel, NEW veto, "hide" \notin veto, s.data[p] = None
  PROVE  AccordionOK(Panels!Create(s, p, veto))
<1> DEFINE l == Panels!Labels(s, p, s.parent)
           t == Panels!toggle(l, p, s.parent, TRUE, veto)
           o == Panels!Object(FALSE, s.parent)
           u == [t EXCEPT !.data[p] = o]
<1>0. s \in PanelState /\ s.parent = TRUE
  BY DEF Ready, PanelsOK, PanelState
<1>1. Panels!Create(s, p, veto) = IF t.data[p] = None THEN u ELSE t
  BY Zenon DEF Panels!Create
<1>2. /\ l \in PanelState /\ SamePage(l, s)
      /\ l.class = s.class /\ l.data = s.data /\ l.ending = s.ending
  BY <1>0, PanelsLabels
<1> HIDE DEF l
<1>3. \A q \in Panel :
        /\ Orderly(l, q) <=> Orderly(s, q)
        /\ Stands(l, q) <=> Stands(s, q)
        /\ WillBeOpen(l, q) <=> WillBeOpen(s, q)
  <2> SUFFICES ASSUME NEW q \in Panel
               PROVE  /\ Orderly(l, q) <=> Orderly(s, q)
                      /\ Stands(l, q) <=> Stands(s, q)
                      /\ WillBeOpen(l, q) <=> WillBeOpen(s, q)
    OBVIOUS
  <2>1. l.class[q] = s.class[q] /\ l.data[q] = s.data[q] /\ l.ending[q] = s.ending[q]
    BY <1>2
  <2>2. Orderly(l, q) <=> Orderly(s, q)
    BY <2>1 DEF Orderly, Panels!Busy
  <2>3. Stands(l, q) <=> Stands(s, q)
    BY <2>1 DEF Stands, Panels!Busy
  <2>4. WillBeOpen(l, q) <=> WillBeOpen(s, q)
    BY <2>1 DEF WillBeOpen
  <2> QED BY <2>2, <2>3, <2>4
<1>4. Ready(l)
  <2>1. l.parent
    BY <1>0, <1>2 DEF SamePage
  <2>2. PanelsOK(l)
    BY <1>2, <1>3, <2>1 DEF Ready, PanelsOK, AllOrderly
  <2>3. AccordionOK(l)
    BY <1>2, <1>3 DEF Ready, AccordionOK
  <2> QED BY <1>2, <2>1, <2>2, <2>3 DEF Ready
<1>5. t = l \/ (AccordionOK(t) /\ t.data[p] # None)
  <2>1. t = Panels!toggle(l, p, TRUE, TRUE, veto)
    BY <1>0
  <2> HIDE DEF t
  <2> QED BY <1>4, <2>1, ReadyToggles
<1> HIDE DEF t
<1>6. ASSUME t = l PROVE AccordionOK(u)
  <2>1. o # None /\ o \in Object /\ o.parent /\ ~o.transitioning
    BY <1>0, PanelsObject
  <2> HIDE DEF o
  <2>2. u = [l EXCEPT !.data[p] = o]
    BY <1>6
  <2>3. /\ u.class = l.class /\ u.ending = l.ending /\ u.data = [l.data EXCEPT ![p] = o]
    BY <1>2, <2>2 DEF PanelState
  <2> HIDE DEF u
  <2>4. u.data[p] = o /\ \A q \in Panel \ {p} : u.data[q] = l.data[q]
    BY <1>2, <2>3 DEF PanelState
  <2>5. l.ending[p] = <<>>
    BY <1>2 DEF Ready
  <2>6. Stands(u, p)
    BY <2>1, <2>3, <2>4, <2>5 DEF Stands
  <2>7. ASSUME NEW q \in Panel \ {p} PROVE Stands(u, q)
    <3>1. Stands(l, q) /\ u.class[q] = l.class[q] /\ u.data[q] = l.data[q] /\ u.ending[q] = l.ending[q]
      BY <1>4, <2>3, <2>4 DEF Ready, AccordionOK
    <3> QED BY <3>1 DEF Stands, Panels!Busy
  <2>8. \A q \in Panel : WillBeOpen(u, q) <=> WillBeOpen(l, q)
    BY <2>3 DEF WillBeOpen
  <2>9. \A q \in Panel : u.data[q] = None => l.data[q] = None
    BY <2>1, <2>4
  <2>10. AccordionOK(l)
    BY <1>4 DEF Ready
  <2> QED BY <2>3, <2>6, <2>7, <2>8, <2>9, <2>10 DEF AccordionOK
<1>7. t = l => t.data[p] = None
  BY <1>2
<1> HIDE DEF u
<1> QED BY <1>1, <1>5, <1>6, <1>7

LEMMA ArrivesAccordion ==
  ASSUME NEW s, NEW t, NEW p \in Panel, AccordionOK(s), Arrives(t, s, p), s.ending[p] # <<>>
  PROVE  AccordionOK(t)
<1>1. \A q \in Panel \ {p} : SamePanel(t, s, q)
  BY DEF Arrives
<1>2. /\ Stands(s, p) /\ Len(s.ending[p]) = 1 /\ "in" \notin s.class[p]
      /\ s.ending[p][1].shown => s.data[p] # None
  BY DEF AccordionOK, Stands
<1>3. /\ t.ending[p] = <<>> /\ ("in" \in t.class[p] <=> s.ending[p][1].shown)
      /\ t.data[p] = None <=> s.data[p] = None
      /\ t.data[p] # None => t.data[p].parent = s.data[p].parent
  BY <1>2 DEF Arrives
<1>4. Stands(t, p) /\ (WillBeOpen(t, p) <=> WillBeOpen(s, p))
  BY <1>2, <1>3 DEF Stands, WillBeOpen
<1>5. \A q \in Panel : Stands(t, q) /\ (WillBeOpen(t, q) <=> WillBeOpen(s, q))
  BY <1>1, <1>4, SameStands DEF AccordionOK
<1>6. ASSUME NEW q \in Panel, t.data[q] = None, "in" \in t.class[q] PROVE FALSE
  <2>1. q # p
    BY <1>2, <1>3, <1>6
  <2>2. s.data[q] = None /\ "in" \in s.class[q]
    BY <1>1, <1>6, <2>1 DEF SamePanel
  <2>3. s.ending[p] = <<>>
    BY <2>1, <2>2 DEF AccordionOK
  <2> QED BY <2>3
<1>7. \A q, r \in Panel : WillBeOpen(s, q) /\ WillBeOpen(s, r) => q = r
  BY DEF AccordionOK
<1> QED BY <1>5, <1>6, <1>7 DEF AccordionOK

AccordionStays(s) == PanelsOK(s) /\ (s.parent /\ s.calm => AccordionOK(s))

LEMMA AccordionClicks ==
  ASSUME NEW p \in Panel, AccordionStays(widget), Panels!Click(p)
  PROVE  AccordionStays(widget')
<1>0. PanelsOK(widget) /\ PanelsOK(widget')
  BY ClickKeeps DEF AccordionStays
<1>1. PICK veto : Clicks(widget', Clicked(widget, veto), p, veto)
  BY ClickClicks
<1> DEFINE s == Clicked(widget, veto)
<1>2. /\ s \in PanelState
      /\ s.class = widget.class /\ s.collapsed = widget.collapsed /\ s.data = widget.data
      /\ s.ending = widget.ending /\ s.parent = widget.parent /\ s.transition = widget.transition
      /\ s.calm = (/\ widget.calm /\ "hide" \notin veto
                   /\ \A q \in Panel : widget.ending[q] # <<>> => widget.data[q] # None)
  BY <1>0, PanelsClicked DEF PanelsOK
<1>3. Clicks(widget', s, p, veto)
  BY <1>1
<1> HIDE DEF s
<1>4. \A q \in Panel : SamePanel(s, widget, q)
  BY <1>2 DEF SamePanel
<1>5. PanelsOK(s)
  <2>1. AllOrderly(s) /\ (AllAlone(widget) => AllAlone(s))
    BY <1>0, <1>4, SameKept DEF PanelsOK, AllOrderly, AllAlone
  <2> QED BY <1>0, <1>2, <2>1 DEF PanelsOK
<1>6. ASSUME s.parent, s.calm PROVE Ready(s) /\ "hide" \notin veto
  <2>1. /\ widget.parent /\ widget.calm /\ "hide" \notin veto
        /\ \A q \in Panel : widget.ending[q] # <<>> => widget.data[q] # None
    BY <1>2, <1>6
  <2>2. AccordionOK(widget)
    BY <2>1 DEF AccordionStays
  <2>3. \A q \in Panel : Stands(s, q) /\ (WillBeOpen(s, q) <=> WillBeOpen(widget, q))
    BY <1>4, <2>2, SameStands DEF AccordionOK
  <2>4. AccordionOK(s)
    BY <1>2, <2>2, <2>3 DEF AccordionOK
  <2> QED BY <1>2, <1>5, <1>6, <2>1, <2>4 DEF Ready
<1>7. CASE s.data[p] = None
  <2>1. widget' = Panels!Create(s, p, veto)
    BY <1>3, <1>7 DEF Clicks
  <2>2. SamePage(widget', s)
    BY <1>5, <1>7, <2>1, PanelsCreate
  <2>3. Ready(s) /\ "hide" \notin veto => AccordionOK(widget')
    BY <1>7, <2>1, ReadyCreates
  <2> QED BY <1>0, <1>6, <2>2, <2>3 DEF AccordionStays, SamePage
<1>8. CASE s.data[p] # None
  <2> DEFINE b == s.data[p].parent
  <2>1. widget' = Panels!toggle(s, p, b, FALSE, veto)
    BY <1>3, <1>8 DEF Clicks
  <2>2. b \in BOOLEAN /\ (~s.parent => ~b) /\ (AccordionOK(s) => b)
    <3>1. s.data[p] \in Object
      BY <1>2, <1>8 DEF PanelState
    <3> QED BY <1>5, <1>8, <3>1, PanelsObject DEF PanelsOK, AllAlone, AloneOK, AccordionOK, Stands
  <2> HIDE DEF b
  <2>3. LET t == Panels!toggle(s, p, b, FALSE, veto) IN PanelsOK(t) /\ SamePage(t, s)
    BY <1>5, <2>2, PanelsToggles
  <2>4. ASSUME s.parent, s.calm PROVE AccordionOK(widget')
    <3>1. Ready(s) /\ "hide" \notin veto /\ AccordionOK(s)
      BY <1>6, <2>4 DEF Ready
    <3>2. b = TRUE
      BY <2>2, <3>1
    <3>3. widget' = Panels!toggle(s, p, TRUE, FALSE, veto)
      BY <2>1, <3>2
    <3>4. widget' = s \/ AccordionOK(widget')
      BY <3>1, <3>3, ReadyToggles
    <3> QED BY <3>1, <3>4
  <2> QED BY <1>0, <2>1, <2>3, <2>4 DEF AccordionStays, SamePage
<1> QED BY <1>7, <1>8

LEMMA AccordionKept == Spec => [](plugin = "collapse" => AccordionStays(widget))
<1> DEFINE Inv == plugin = "collapse" => AccordionStays(widget)
<1>1. Init => Inv
  <2> SUFFICES ASSUME Panels!Init PROVE AccordionStays(widget)
    BY DEF Init
  <2>1. PanelsOK(widget)
    BY PanelsInit
  <2>2. PICK parent \in BOOLEAN, transition \in BOOLEAN, open \in SUBSET Panel :
          /\ parent => \A p, q \in open : p = q
          /\ widget = [class |-> [p \in Panel |-> IF p \in open THEN {"collapse", "in"}
                                                  ELSE {"collapse"}],
                       collapsed |-> [p \in Panel |-> p \notin open],
                       data |-> [p \in Panel |-> None],
                       ending |-> [p \in Panel |-> <<>>],
                       parent |-> parent, transition |-> transition, calm |-> TRUE]
    BY DEF Panels!Init
  <2>3. \A p \in Panel : /\ "in" \in widget.class[p] <=> p \in open
                         /\ widget.data[p] = None /\ widget.ending[p] = <<>>
    BY <2>2
  <2>4. widget.parent => \A p, q \in open : p = q
    BY <2>2
  <2>5. widget.parent => AccordionOK(widget)
    BY <2>3, <2>4 DEF AccordionOK, Stands, WillBeOpen
  <2> QED BY <2>1, <2>5 DEF AccordionStays
<1>2. Inv /\ [Next]_<<plugin, widget>> => Inv'
  <2>1. CASE UNCHANGED <<plugin, widget>>
    BY <2>1 DEF AccordionStays, PanelsOK, AllOrderly, Orderly, AllAlone, AloneOK, Panels!Busy,
                AccordionOK, Stands, WillBeOpen
  <2>2. CASE Next
    <3>1. ASSUME NEW p \in Panel, AccordionStays(widget), Panels!Ends(p)
          PROVE  AccordionStays(widget')
      <4>1. PanelsOK(widget) /\ Arrives(widget', widget, p) /\ widget.ending[p] # <<>>
        BY <3>1, EndsArrives DEF AccordionStays
      <4>2. PanelsOK(widget')
        BY <4>1, PanelsArrived
      <4>3. AccordionOK(widget) => AccordionOK(widget')
        BY <4>1, ArrivesAccordion
      <4> QED BY <3>1, <4>1, <4>2, <4>3 DEF AccordionStays, Arrives, SamePage
    <3> QED BY <2>2, <3>1, AccordionClicks DEF Next, Panels!Next
  <2> QED BY <2>1, <2>2
<1> QED BY <1>1, <1>2, PTL DEF Spec

\* A calm accordion at rest has one open panel at most (show of collapse.js).
THEOREM CollapseExclusive == Spec => []Exclusive
<1>1. (plugin = "collapse" => AccordionStays(widget)) => Exclusive
  <2> SUFFICES ASSUME PanelsOK(widget), AccordionOK(widget), Panels!Rests(widget)
               PROVE  \A p, q \in Panel : "in" \in widget.class[p] /\ "in" \in widget.class[q] => p = q
    BY DEF AccordionStays, Exclusive, Panels!Exclusive, Panels!In
  <2>1. \A p \in Panel : widget.ending[p] = <<>>
    BY DEF Panels!Rests, PanelsOK, PanelState
  <2> QED BY <2>1 DEF AccordionOK, WillBeOpen
<1> QED BY <1>1, AccordionKept, PTL
=============================================================================
