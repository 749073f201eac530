----------------------------- MODULE WidgetsProofs -----------------------------
(***************************************************************************)
(* Plugins whose steps are one change each of the page, with one           *)
(* invariant for each: it names the fields of the record and adds to the   *)
(* property what the next handler will rely on.                            *)
(*                                                                         *)
(*   Dropdown    the property itself.                                      *)
(*   Button      the text to go back to is the first one, once read.       *)
(*   ScrollSpy   one event finds a new height, the next marks by it.       *)
(*   placement   the record is always what one placing computes.           *)
(*   Affix       what one check finds out, and what a second makes of it.  *)
(*                                                                         *)
(* What the menus, labels, layouts and lengths are does not matter; of the *)
(* lengths it does that the page has room for the element (the named       *)
(* assumptions of Widgets).                                                *)
(***************************************************************************)
EXTENDS Widgets, Sequences, FiniteSetTheorems, TLAPS

-----------------------------------------------------------------------------
(***************************************************************************)
(* Dropdown.                                                               *)
(***************************************************************************)
MenuFields == {"open", "backdrop", "focus", "touch", "navbar", "disabled"}

MenusInv == DOMAIN widget = MenuFields /\ Menus!BackdropServes

LEMMA MenusInit == Menus!Init => MenusInv
BY DEF Menus!Init, MenusInv, MenuFields, Menus!BackdropServes

\* The backdrop goes with every click, and comes with a menu that opens.
LEMMA MenusClear ==
  ASSUME NEW s, DOMAIN s = MenuFields, NEW inside, NEW veto
  PROVE  /\ DOMAIN Menus!clearMenus(s, inside, veto) = MenuFields
         /\ Menus!clearMenus(s, inside, veto).backdrop = None
BY DEF Menus!clearMenus, MenuFields

LEMMA MenusToggle ==
  ASSUME NEW s, DOMAIN s = MenuFields, NEW m, NEW veto
  PROVE  LET t == Menus!toggle(s, m, veto)
         IN DOMAIN t = MenuFields /\ (t.backdrop # None => t.backdrop \in t.open)
<1> DEFINE t == Menus!clearMenus(s, None, veto)
           shown == [t EXCEPT !.backdrop = IF s.touch /\ ~s.navbar THEN m ELSE @]
<1>1. DOMAIN t = MenuFields /\ t.backdrop = None
  BY MenusClear
<1>2. DOMAIN shown = MenuFields /\ shown.backdrop \in {None, m}
  BY <1>1 DEF MenuFields
<1>3. Menus!toggle(s, m, veto) =
        IF m \in s.disabled \/ m \in s.open THEN t
        ELSE IF veto.show THEN Menus!clearMenus(shown, None, veto)
        ELSE [shown EXCEPT !.open = @ \cup {m}, !.focus = <<m, 0>>]
  BY DEF Menus!toggle
<1> HIDE DEF t, shown
<1>4. LET r == Menus!clearMenus(shown, None, veto) IN DOMAIN r = MenuFields /\ r.backdrop = None
  BY <1>2, MenusClear
<1>5. LET r == [shown EXCEPT !.open = @ \cup {m}, !.focus = <<m, 0>>]
      IN DOMAIN r = MenuFields /\ r.backdrop = shown.backdrop /\ m \in r.open
  BY <1>2 DEF MenuFields
<1> QED BY <1>1, <1>2, <1>3, <1>4, <1>5

LEMMA MenusStep == MenusInv /\ Menus!Next => MenusInv'
<1> SUFFICES ASSUME MenusInv, Menus!Next PROVE MenusInv'
  OBVIOUS
<1>0. DOMAIN widget = MenuFields
  BY DEF MenusInv
<1>1. ASSUME NEW m, NEW veto, widget' = Menus!toggle(widget, m, veto) PROVE MenusInv'
  BY <1>0, <1>1, MenusToggle DEF MenusInv, Menus!BackdropServes
<1>2. ASSUME NEW inside, NEW veto, widget' = Menus!clearMenus(widget, inside, veto) PROVE MenusInv'
  BY <1>0, <1>2, MenusClear DEF MenusInv, Menus!BackdropServes
<1>3. ASSUME NEW f, widget' = [widget EXCEPT !.focus = f] PROVE MenusInv'
  BY <1>0, <1>3 DEF MenusInv, Menus!BackdropServes, MenuFields
<1>4. CASE \E m \in Menu : Menus!Click(m)
  BY <1>1, <1>4 DEF Menus!Click
<1>5. CASE Menus!ClickElsewhere
  BY <1>2, <1>5 DEF Menus!ClickElsewhere
<1>6. CASE Menus!Focus
  BY <1>3, <1>6 DEF Menus!Focus
<1>7. ASSUME NEW key, Menus!Keydown(key) PROVE MenusInv'
  <2> DEFINE m == widget.focus[1]
             t == IF key = "escape" THEN [widget EXCEPT !.focus = <<m, 0>>] ELSE widget
  <2>1. DOMAIN t = MenuFields
    BY <1>0 DEF MenuFields
  <2>2. \/ \E veto : widget' = Menus!toggle(t, m, veto) \/ widget' = Menus!clearMenus(t, None, veto)
        \/ \E f : widget' = [widget EXCEPT !.focus = f]
    BY <1>7 DEF Menus!Keydown
  <2> HIDE DEF t, m
  <2>3. ASSUME NEW veto, widget' = Menus!toggle(t, m, veto) PROVE MenusInv'
    BY <2>1, <2>3, MenusToggle DEF MenusInv, Menus!BackdropServes
  <2>4. ASSUME NEW veto, widget' = Menus!clearMenus(t, None, veto) PROVE MenusInv'
    BY <2>1, <2>4, MenusClear DEF MenusInv, Menus!BackdropServes
  <2> QED BY <1>3, <2>2, <2>3, <2>4
<1> QED BY <1>4, <1>5, <1>6, <1>7 DEF Menus!Next

\* The layer that catches the clicks of a touch device never lies over a page
\* without the menu it was made for (toggle and clearMenus of dropdown.js).
THEOREM MenusBackdrop == Spec => []BackdropServes
<1> DEFINE Inv == plugin = "dropdown" => MenusInv
<1>1. Init => Inv
  BY MenusInit DEF Init
<1>2. Inv /\ [Next]_<<plugin, widget>> => Inv'
  <2>1. CASE UNCHANGED <<plugin, widget>>
    BY <2>1 DEF MenusInv, Menus!BackdropServes
  <2>2. CASE Next
    BY <2>2, MenusStep DEF Next
  <2> QED BY <2>1, <2>2
<1>3. Inv => BackdropServes
  BY DEF MenusInv, BackdropServes
<1> QED BY <1>1, <1>2, <1>3, PTL DEF Spec

-----------------------------------------------------------------------------
(***************************************************************************)
(* Button.                                                                 *)
(***************************************************************************)
ButtonFields == {"type", "checked", "active", "moved", "told", "text", "resetText", "other",
                 "pending", "last", "isLoading", "disabled"}

GroupInv ==
  /\ DOMAIN widget = ButtonFields /\ widget.type \in {"radio", "checkbox"}
  /\ Buttons!PressedIsChecked

\* The text to go back to is read before the first timer runs, and is "own".
StateInv ==
  /\ DOMAIN widget = ButtonFields
  /\ widget.pending \in Seq({"loading", "reset", "other"})
  /\ widget.resetText \in {None, "own"}
  /\ widget.resetText = None => widget.pending = <<>> /\ widget.text = "own"
  /\ widget.disabled = (widget.last = "loading") /\ widget.isLoading = (widget.last = "loading")
  /\ widget.last = "reset" => widget.text = "own"

LEMMA ButtonsCardinality == \A S : Buttons!Cardinality(S) = Cardinality(S)
BY DEF Buttons!Cardinality, Cardinality

LEMMA ButtonsInit == Buttons!Init => GroupInv /\ StateInv
<1> SUFFICES ASSUME Buttons!Init PROVE GroupInv /\ StateInv
  OBVIOUS
<1>1. PICK type \in {"radio", "checkbox"}, on \in SUBSET Label, other \in {None, "other"} :
        /\ type = "radio" => Cardinality(on) <= 1
        /\ widget = [type |-> type, checked |-> on, active |-> on, moved |-> FALSE, told |-> 0,
                     text |-> "own", resetText |-> None, other |-> other, pending |-> <<>>,
                     last |-> None, isLoading |-> FALSE, disabled |-> FALSE]
  BY ButtonsCardinality DEF Buttons!Init
<1>2. GroupInv
  <2>1. DOMAIN widget = ButtonFields /\ widget.type = type /\ widget.active = on
        /\ widget.checked = on /\ widget.told = 0 /\ ~widget.moved
    BY <1>1 DEF ButtonFields
  <2> QED BY <1>1, <2>1, ButtonsCardinality DEF GroupInv, Buttons!PressedIsChecked
<1>3. StateInv
  <2>1. /\ DOMAIN widget = ButtonFields /\ widget.pending = <<>> /\ widget.resetText = None
        /\ widget.text = "own" /\ widget.last = None
        /\ widget.isLoading = FALSE /\ widget.disabled = FALSE
    BY <1>1 DEF ButtonFields
  <2>2. widget.pending \in Seq({"loading", "reset", "other"})
    BY <2>1
  <2> QED BY <2>1, <2>2, ButtonAssumption, Zenon DEF StateInv
<1> QED BY <1>2, <1>3

\* A click, on the label or on its input: who tells the page of a change.
LEMMA GroupClick ==
  ASSUME GroupInv, NEW b \in Label, Buttons!Click(b)
  PROVE  GroupInv' /\ (StateInv => StateInv')
<1>1. PICK input \in BOOLEAN :
        LET moves == widget.type = "checkbox" \/ b \notin widget.checked
            checked == IF ~input THEN widget.checked
                       ELSE IF widget.type = "radio" THEN {b}
                       ELSE Buttons!Flip(widget.checked, b)
        IN widget' = [Buttons!toggle([widget EXCEPT !.checked = checked], b,
                                     IF input /\ moves THEN 1 ELSE 0) EXCEPT !.moved = moves]
  BY DEF Buttons!Click
<1> DEFINE moves == widget.type = "checkbox" \/ b \notin widget.checked
           checked == IF ~input THEN widget.checked
                      ELSE IF widget.type = "radio" THEN {b} ELSE Buttons!Flip(widget.checked, b)
           s == [widget EXCEPT !.checked = checked]
           told == IF input /\ moves THEN 1 ELSE 0
           t == Buttons!toggle(s, b, told)
           active == IF s.type = "radio" THEN {b} ELSE Buttons!Flip(s.active, b)
           changed == IF s.type = "radio" THEN b \notin s.checked
                      ELSE (b \in s.checked) = (b \in s.active)
<1>2. DOMAIN s = ButtonFields /\ s.type = widget.type /\ s.checked = checked
      /\ s.active = widget.checked /\ widget.type \in {"radio", "checkbox"}
  BY DEF GroupInv, ButtonFields, Buttons!PressedIsChecked
<1>3. t = [s EXCEPT !.active = active, !.told = IF changed THEN told + 1 ELSE told,
                    !.checked = IF b \notin active THEN @ \ {b}
                                ELSE IF s.type = "radio" THEN {b} ELSE @ \cup {b}]
  BY Zenon DEF Buttons!toggle
<1>4. widget' = [t EXCEPT !.moved = moves]
  BY <1>1
<1>5. /\ DOMAIN widget' = ButtonFields /\ widget'.type = widget.type /\ widget'.active = active
      /\ widget'.told = (IF changed THEN told + 1 ELSE told) /\ widget'.moved = moves
      /\ widget'.checked = IF b \notin active THEN checked \ {b}
                           ELSE IF widget.type = "radio" THEN {b} ELSE checked \cup {b}
      /\ \A f \in ButtonFields \ {"active", "told", "moved", "checked"} : widget'[f] = widget[f]
  <2> DEFINE kept == ButtonFields \ {"active", "told", "moved", "checked"}
             toldNow == IF changed THEN told + 1 ELSE told
             checkedNow == IF b \notin active THEN checked \ {b}
                           ELSE IF widget.type = "radio" THEN {b} ELSE checked \cup {b}
  <2>1. \A f \in kept : s[f] = widget[f]
    <3> HIDE DEF checked
    <3> QED BY DEF GroupInv
  <2>2. t = [s EXCEPT !.active = active, !.told = toldNow, !.checked = checkedNow]
    BY <1>2, <1>3
  <2> HIDE DEF active, toldNow, checkedNow, s, t, moves
  <2>3. /\ DOMAIN t = ButtonFields /\ t.active = active /\ t.told = toldNow
        /\ t.checked = checkedNow /\ \A f \in kept : t[f] = s[f]
    BY <1>2, <2>2 DEF ButtonFields
  <2>4. /\ DOMAIN widget' = ButtonFields /\ widget'.moved = moves
        /\ \A f \in ButtonFields \ {"moved"} : widget'[f] = t[f]
    BY <1>4, <2>3 DEF ButtonFields
  <2>5. widget'.type = widget.type
    BY <2>1, <2>3, <2>4 DEF ButtonFields
  <2> QED BY <2>1, <2>3, <2>4, <2>5 DEF toldNow, checkedNow, ButtonFields
<1>6. widget'.active = widget'.checked
  <2>1. active = IF widget.type = "radio" THEN {b}
                 ELSE IF b \in widget.checked THEN widget.checked \ {b} ELSE widget.checked \cup {b}
    BY <1>2, Zenon DEF Buttons!Flip
  <2>2. checked = IF ~input THEN widget.checked ELSE active
    BY <1>2, Zenon
  <2> HIDE DEF active, checked
  <2> QED BY <1>5, <2>1, <2>2
<1>7. widget'.told = IF widget'.moved THEN 1 ELSE 0
  <2>1. changed <=> (~input /\ moves)
    <3>1. checked = IF ~input THEN widget.checked ELSE active
      BY <1>2, Zenon
    <3>2. input /\ widget.type = "radio" => b \in checked
      BY <3>1, <1>2
    <3>3. input /\ widget.type = "checkbox" => ~(b \in checked <=> b \in widget.checked)
      BY <3>1, <1>2 DEF Buttons!Flip
    <3> HIDE DEF checked, active
    <3> QED BY <1>2, <3>1, <3>2, <3>3
  <2> HIDE DEF changed, moves
  <2> QED BY <1>5, <2>1
<1>8. widget'.type = "radio" => Buttons!Cardinality(widget'.active) <= 1
  <2>1. widget'.type = "radio" => widget'.active = {b}
    <3>1. s.type = "radio" => active = {b}
      OBVIOUS
    <3> HIDE DEF active, s
    <3> QED BY <1>2, <1>5, <3>1
  <2>2. Buttons!Cardinality({b}) = 1
    BY FS_Singleton, ButtonsCardinality, Zenon
  <2> QED BY <2>1, <2>2
<1>9. StateInv => StateInv'
  <2> HIDE DEF active, checked, changed, told, moves
  <2>1. /\ widget'.pending = widget.pending /\ widget'.resetText = widget.resetText
        /\ widget'.text = widget.text /\ widget'.last = widget.last
        /\ widget'.disabled = widget.disabled /\ widget'.isLoading = widget.isLoading
    BY <1>5 DEF ButtonFields
  <2> QED BY <1>5, <2>1 DEF StateInv
<1> HIDE DEF active, checked, changed, told, moves
<1> QED BY <1>2, <1>5, <1>6, <1>7, <1>8, <1>9 DEF GroupInv, Buttons!PressedIsChecked

\* setState and its timers leave the group alone.
LEMMA OthersKeepGroup ==
  ASSUME GroupInv, Buttons!Timer \/ (\E state : Buttons!setState(state))
  PROVE  GroupInv'
<1>1. \A f \in {"type", "checked", "active", "moved", "told"} : widget'[f] = widget[f]
  BY DEF Buttons!Timer, Buttons!setState, GroupInv, ButtonFields
<1>2. DOMAIN widget' = ButtonFields
  BY DEF Buttons!Timer, Buttons!setState, GroupInv, ButtonFields
<1> QED BY <1>1, <1>2 DEF GroupInv, Buttons!PressedIsChecked

LEMMA StateStep ==
  ASSUME StateInv, Buttons!Timer \/ (\E state \in {"loading", "reset", "other"} : Buttons!setState(state))
  PROVE  StateInv'
<1>1. ASSUME NEW state \in {"loading", "reset", "other"}, Buttons!setState(state) PROVE StateInv'
  <2>1. /\ widget'.pending = Append(widget.pending, state) /\ DOMAIN widget' = ButtonFields
        /\ widget'.resetText = (IF widget.resetText = None THEN widget.text ELSE widget.resetText)
        /\ \A f \in ButtonFields \ {"pending", "resetText"} : widget'[f] = widget[f]
    BY <1>1 DEF Buttons!setState, StateInv, ButtonFields
  <2>2. widget'.resetText = "own"
    BY <2>1 DEF StateInv
  <2> QED BY <2>1, <2>2, ButtonAssumption DEF StateInv, ButtonFields
<1>2. CASE Buttons!Timer
  <2> DEFINE state == Head(widget.pending)
  <2>1. /\ state \in {"loading", "reset", "other"} /\ widget.resetText = "own"
        /\ Tail(widget.pending) \in Seq({"loading", "reset", "other"})
    BY <1>2 DEF Buttons!Timer, StateInv
  <2>2. /\ widget'.pending = Tail(widget.pending) /\ DOMAIN widget' = ButtonFields
        /\ widget'.last = state /\ widget'.text = Buttons!Text(widget, state)
        /\ widget'.disabled = ((state = "loading") \/ (widget.disabled /\ ~widget.isLoading))
        /\ widget'.isLoading = (state = "loading") /\ widget'.resetText = widget.resetText
    BY <1>2 DEF Buttons!Timer, StateInv, ButtonFields
  <2>3. state = "reset" => widget'.text = "own"
    BY <2>1, <2>2 DEF Buttons!Text
  <2> QED BY <2>1, <2>2, <2>3, ButtonAssumption DEF StateInv
<1> QED BY <1>1, <1>2

\* Whether a label or its input is clicked, what looks pressed is what the form
\* will send, and the page hears of a change once (toggle of button.js).
THEOREM ButtonsPressed == Spec => []PressedIsChecked
<1> DEFINE Inv == plugin = "button" => GroupInv
<1>1. Init => Inv
  BY ButtonsInit DEF Init
<1>2. Inv /\ [Next]_<<plugin, widget>> => Inv'
  <2>1. CASE UNCHANGED <<plugin, widget>>
    BY <2>1 DEF GroupInv, Buttons!PressedIsChecked
  <2>2. CASE Next
    BY <2>2, GroupClick, OthersKeepGroup DEF Next, Buttons!Next
  <2> QED BY <2>1, <2>2
<1>3. Inv => PressedIsChecked
  BY DEF GroupInv, PressedIsChecked
<1> QED BY <1>1, <1>2, <1>3, PTL DEF Spec

\* When its timers have run a button is not left disabled, and one that was
\* reset says what it said at first (setState of button.js).
THEOREM ButtonsSay == Spec => []SaysItsState
<1> DEFINE Inv == plugin = "button" => GroupInv /\ StateInv
<1>1. Init => Inv
  BY ButtonsInit DEF Init
<1>2. Inv /\ [Next]_<<plugin, widget>> => Inv'
  <2>1. CASE UNCHANGED <<plugin, widget>>
    BY <2>1 DEF GroupInv, StateInv, Buttons!PressedIsChecked
  <2>2. CASE Next
    BY <2>2, GroupClick, OthersKeepGroup, StateStep DEF Next, Buttons!Next
  <2> QED BY <2>1, <2>2
<1>3. Inv => SaysItsState
  BY DEF StateInv, SaysItsState, Buttons!SaysItsState
<1> QED BY <1>1, <1>2, <1>3, PTL DEF Spec

-----------------------------------------------------------------------------
(***************************************************************************)
(* ScrollSpy.                                                              *)
(***************************************************************************)
SpyFields == {"layout", "scroll", "pending", "checks", "known", "scrollHeight", "activeTarget"}

Seen(s) ==
  LET at == s.known
      reached == Spy!Reached(at, s.scroll + Offset)
  IN IF Spy!AtEnd(s) THEN Spy!Lowest(at, DOMAIN at)
     ELSE IF reached = {} THEN None ELSE Spy!Lowest(at, reached)

\* After one event the plugin has noticed what it can; after two the mark is
\* that of what it knows.
SpyInv ==
  /\ DOMAIN widget = SpyFields /\ widget.checks \in 0 .. 2
  /\ widget.checks >= 1 => widget.scrollHeight = widget.layout.height
  /\ widget.checks = 2 /\ ~widget.pending => widget.activeTarget = Seen(widget)

LEMMA SpyProcess ==
  ASSUME NEW s, DOMAIN s = SpyFields
  PROVE  /\ DOMAIN Spy!process(s) = SpyFields
         /\ Spy!process(s).scrollHeight = s.layout.height
         /\ Spy!process(s).layout = s.layout /\ Spy!process(s).scroll = s.scroll
         /\ Spy!process(s).pending = s.pending /\ Spy!process(s).checks = s.checks
         /\ Spy!process(s).activeTarget = Seen(s)
         /\ s.scrollHeight = s.layout.height => Spy!process(s).known = s.known
BY DEF Spy!process, Spy!refresh, SpyFields, Seen

LEMMA SpyInit == Spy!Init => SpyInv
<1> SUFFICES ASSUME Spy!Init PROVE SpyInv
  OBVIOUS
<1>1. PICK layout \in Layouts :
        widget = Spy!process(Spy!refresh([layout |-> layout, scroll |-> 0, pending |-> FALSE,
                   checks |-> 0, known |-> <<>>, scrollHeight |-> 0, activeTarget |-> None]))
  BY DEF Spy!Init
<1> DEFINE s == Spy!refresh([layout |-> layout, scroll |-> 0, pending |-> FALSE,
                   checks |-> 0, known |-> <<>>, scrollHeight |-> 0, activeTarget |-> None])
<1>2. DOMAIN s = SpyFields /\ s.checks = 0
  BY DEF Spy!refresh, SpyFields
<1>3. widget = Spy!process(s)
  BY <1>1
<1> HIDE DEF s
<1>4. DOMAIN widget = SpyFields /\ widget.checks = 0
  BY <1>2, <1>3, SpyProcess
<1> QED BY <1>4 DEF SpyInv

LEMMA SpyStep == SpyInv /\ Spy!Next => SpyInv'
<1> SUFFICES ASSUME SpyInv, Spy!Next PROVE SpyInv'
  OBVIOUS
<1>1. CASE Spy!Scroll
  <2>1. PICK y : widget' = [widget EXCEPT !.scroll = y, !.pending = TRUE]
    BY <1>1 DEF Spy!Scroll
  <2>2. /\ DOMAIN widget' = SpyFields /\ widget'.pending /\ widget'.checks = widget.checks
        /\ widget'.scrollHeight = widget.scrollHeight /\ widget'.layout = widget.layout
    BY <2>1 DEF SpyInv, SpyFields
  <2> QED BY <2>2 DEF SpyInv
<1>2. CASE Spy!Event
  <2> DEFINE p == Spy!process(widget)
  <2>1. /\ DOMAIN p = SpyFields /\ p.scrollHeight = widget.layout.height /\ p.activeTarget = Seen(widget)
        /\ p.layout = widget.layout /\ p.scroll = widget.scroll /\ p.checks = widget.checks
        /\ widget.scrollHeight = widget.layout.height => p.known = widget.known
    BY SpyProcess DEF SpyInv
  <2>2. widget' = [p EXCEPT !.pending = FALSE, !.checks = IF @ < 2 THEN @ + 1 ELSE @]
    BY <1>2 DEF Spy!Event
  <2> HIDE DEF p
  <2>3. /\ DOMAIN widget' = SpyFields /\ widget'.scrollHeight = p.scrollHeight
        /\ widget'.layout = p.layout /\ widget'.scroll = p.scroll /\ widget'.known = p.known
        /\ widget'.activeTarget = p.activeTarget
        /\ widget'.checks = IF p.checks < 2 THEN p.checks + 1 ELSE p.checks
    BY <2>1, <2>2 DEF SpyFields
  <2>4. widget'.checks \in 1 .. 2 /\ (widget'.checks = 2 => widget.checks >= 1)
    BY <2>1, <2>3 DEF SpyInv
  <2>5. widget'.known = widget.known => Seen(widget') = Seen(widget)
    BY <2>1, <2>3 DEF Seen, Spy!AtEnd
  <2>6. widget'.checks = 2 => widget'.activeTarget = Seen(widget')
    BY <2>1, <2>3, <2>4, <2>5 DEF SpyInv
  <2> QED BY <2>1, <2>3, <2>4, <2>6 DEF SpyInv
<1>3. CASE Spy!Page
  <2>1. DOMAIN widget' = SpyFields /\ widget'.checks = 0
    BY <1>3 DEF Spy!Page, Spy!refresh, SpyInv, SpyFields
  <2> QED BY <2>1 DEF SpyInv
<1> QED BY <1>1, <1>2, <1>3 DEF Spy!Next

\* Two scroll events after a change of the page that can be noticed, the section
\* marked is the one the user sees (process and refresh of scrollspy.js).
THEOREM SpyMarks == Spec => []MarksWhatIsSeen
<1> DEFINE Inv == plugin = "scrollspy" => SpyInv
<1>1. Init => Inv
  BY SpyInit DEF Init
<1>2. Inv /\ [Next]_<<plugin, widget>> => Inv'
  <2>1. CASE UNCHANGED <<plugin, widget>>
    BY <2>1 DEF SpyInv
  <2>2. CASE Next
    BY <2>2, SpyStep DEF Next
  <2> QED BY <2>1, <2>2
<1>3. Inv => MarksWhatIsSeen
  <2> SUFFICES ASSUME SpyInv, widget.checks = 2, ~widget.pending, ~Spy!Unnoticed
               PROVE  LET at == widget.layout.at
                          reached == Spy!Reached(at, widget.scroll + Offset)
                      IN widget.activeTarget = IF Spy!AtEnd(widget) THEN Spy!Lowest(at, DOMAIN at)
                                               ELSE IF reached = {} THEN None ELSE Spy!Lowest(at, reached)
    BY Zenon DEF MarksWhatIsSeen, Spy!MarksWhatIsSeen
  <2>1. widget.known = widget.layout.at
    BY DEF SpyInv, Spy!Unnoticed
  <2>2. widget.activeTarget = Seen(widget)
    BY DEF SpyInv
  <2> QED BY <2>1, <2>2, Zenon DEF Seen
<1> QED BY <1>1, <1>2, <1>3, PTL DEF Spec

-----------------------------------------------------------------------------
(***************************************************************************)
(* The place of a tip.                                                     *)
(***************************************************************************)
PlaceInv ==
  \E el \in Elements, size, actual \in Sizes, padding \in Paddings, margin \in Margins,
     auto \in BOOLEAN, placement \in {"top", "bottom", "left", "right"}, scroll \in Int :
    widget = Place!Place(el, size, actual, placement, auto, padding, margin, scroll)

\* The push along a side brings a tip that fits into the window.
LEMMA PushFits ==
  ASSUME NEW start \in Int, NEW length \in Int, NEW end \in Int, NEW padding \in Int,
         length + 2 * padding <= end
  PROVE  LET delta == IF start - padding < 0 THEN padding - start
                      ELSE IF start + padding + length > end THEN end - start - padding - length
                      ELSE 0
         IN start + delta >= padding /\ start + delta + length <= end - padding
OBVIOUS

LEMMA PlaceSound == PlaceInv => Place!InWindow /\ Place!PointsAtElement
<1> SUFFICES ASSUME NEW el \in Elements, NEW size \in Sizes, NEW actual \in Sizes,
                    NEW padding \in Paddings, NEW margin \in Margins, NEW auto \in BOOLEAN,
                    NEW scroll \in Int, NEW placement \in {"top", "bottom", "left", "right"},
                    widget = Place!Place(el, size, actual, placement, auto, padding, margin, scroll)
             PROVE  Place!InWindow /\ Place!PointsAtElement
  BY DEF PlaceInv
<1> DEFINE pos == Place!getPosition(el, scroll)
           viewport == Place!getViewport(scroll)
           side == IF auto THEN Place!Side(placement, pos, viewport, size) ELSE placement
           offset == Place!getCalculatedOffset(side, pos, size)
           at == Place!Margined(side, offset, size, actual, Place!Margin(side, margin))
           delta == Place!getViewportAdjustedDelta(side, at, actual, viewport, padding)
           tip == Place!applyPlacement(side, offset, size, actual, Place!Margin(side, margin),
                                       viewport, padding)
<1>1. /\ el.top \in Int /\ el.left \in Int /\ el.width \in Int /\ el.height \in Int
      /\ size.width \in Int /\ size.height \in Int /\ actual.width \in Int
      /\ actual.height \in Int /\ padding \in Int /\ margin \in Int
      /\ Window.width \in Int /\ Window.height \in Int
  BY PlacementAssumption
<1>2. side \in {"top", "bottom", "left", "right"}
  BY DEF Place!Side
<1>3. /\ widget.tip = tip /\ widget.side = side /\ widget.el = el /\ widget.actual = actual
      /\ widget.size = size /\ widget.padding = padding /\ widget.margin = margin
      /\ widget.scroll = scroll
  BY DEF Place!Place
<1> HIDE DEF side
<1>4. /\ offset.top = CASE side = "bottom" -> el.top + el.height
                         [] side = "top" -> el.top - size.height
                         [] OTHER -> el.top + el.height \div 2 - size.height \div 2
      /\ offset.left = CASE side = "left" -> el.left - size.width
                          [] side = "right" -> el.left + el.width
                          [] OTHER -> el.left + el.width \div 2 - size.width \div 2
  BY DEF Place!getCalculatedOffset, Place!getPosition
<1>5. /\ at.top = CASE side = "bottom" -> el.top + el.height + margin
                     [] side = "top" -> el.top - actual.height - margin
                     [] OTHER -> el.top + el.height \div 2 - size.height \div 2
      /\ at.left = CASE side = "left" -> el.left - size.width - margin
                      [] side = "right" -> el.left + el.width + margin
                      [] OTHER -> el.left + el.width \div 2 - size.width \div 2
      /\ at.top \in Int /\ at.left \in Int
  <2>1. /\ at.top = offset.top
                      + (CASE side = "top" -> -margin [] side = "bottom" -> margin [] OTHER -> 0)
                      + (IF side = "top" THEN size.height - actual.height ELSE 0)
        /\ at.left = offset.left
                       + (CASE side = "left" -> -margin [] side = "right" -> margin [] OTHER -> 0)
    BY DEF Place!Margined, Place!Margin
  <2> HIDE DEF at, offset
  <2>2. CASE side = "top"
    BY <1>1, <1>4, <2>1, <2>2
  <2>3. CASE side = "bottom"
    BY <1>1, <1>4, <2>1, <2>3
  <2>4. CASE side \in {"left", "right"}
    BY <1>1, <1>4, <2>1, <2>4
  <2> QED BY <1>2, <2>2, <2>3, <2>4
<1>6. delta = LET start == IF Place!Vertical(side) THEN at.left ELSE at.top - scroll
                  length == IF Place!Vertical(side) THEN actual.width ELSE actual.height
                  end == IF Place!Vertical(side) THEN Window.width ELSE Window.height
              IN IF start - padding < 0 THEN padding - start
                 ELSE IF start + padding + length > end THEN end - start - padding - length
                 ELSE 0
  BY DEF Place!getViewportAdjustedDelta, Place!getViewport
<1>7. /\ tip.top = IF Place!Vertical(side) THEN at.top ELSE at.top + delta
      /\ tip.left = IF Place!Vertical(side) THEN at.left + delta ELSE at.left
      /\ tip.arrow = LET arrowDelta == 2 * delta - IF Place!Vertical(side) THEN size.width - actual.width
                                                   ELSE size.height - actual.height
                         length == IF Place!Vertical(side) THEN actual.width ELSE actual.height
                     IN (length - arrowDelta) \div 2
  BY DEF Place!applyPlacement
<1> HIDE DEF pos, viewport, offset, at, delta, tip
<1>8. delta \in Int
  BY <1>1, <1>5, <1>6
<1>9. Place!InWindow
  <2>1. at.top \in Int /\ at.left \in Int
    BY <1>5
  <2>2. CASE Place!Vertical(side)
    BY <1>1, <1>3, <1>6, <1>7, <1>8, <2>1, <2>2, PushFits DEF Place!InWindow
  <2>3. CASE ~Place!Vertical(side)
    BY <1>1, <1>3, <1>6, <1>7, <1>8, <2>1, <2>3, PushFits DEF Place!InWindow
  <2> QED BY <2>2, <2>3
<1>10. widget.tip.arrow = IF Place!Vertical(side) THEN el.left + el.width \div 2 - widget.tip.left
                          ELSE el.top + el.height \div 2 - widget.tip.top
  <2>1. \A length, was, d \in Int : (length - (2 * d - (was - length))) \div 2 = was \div 2 - d
    OBVIOUS
  <2>2. CASE Place!Vertical(side)
    <3>1. tip.arrow = size.width \div 2 - delta
      BY <1>1, <1>7, <1>8, <2>1, <2>2
    <3>2. at.left = el.left + el.width \div 2 - size.width \div 2
      BY <1>5, <2>2 DEF Place!Vertical
    <3> QED BY <1>1, <1>3, <1>7, <1>8, <2>2, <3>1, <3>2
  <2>3. CASE ~Place!Vertical(side)
    <3>1. tip.arrow = size.height \div 2 - delta
      BY <1>1, <1>7, <1>8, <2>1, <2>3
    <3>2. at.top = el.top + el.height \div 2 - size.height \div 2
      BY <1>2, <1>5, <2>3 DEF Place!Vertical
    <3> QED BY <1>1, <1>3, <1>7, <1>8, <2>3, <3>1, <3>2
  <2> QED BY <2>2, <2>3
<1>11. CASE side = "top"
  <2>1. tip.top = el.top - actual.height - margin
    BY <1>1, <1>5, <1>7, <1>11 DEF Place!Vertical
  <2> QED BY <1>1, <1>3, <1>9, <1>10, <1>11, <2>1 DEF Place!PointsAtElement
<1>12. CASE side = "bottom"
  <2>1. tip.top = el.top + el.height + margin
    BY <1>1, <1>5, <1>7, <1>12 DEF Place!Vertical
  <2> QED BY <1>1, <1>3, <1>9, <1>10, <1>12, <2>1 DEF Place!PointsAtElement
<1>13. CASE side = "right"
  <2>1. tip.left = el.left + el.width + margin
    BY <1>1, <1>5, <1>7, <1>13 DEF Place!Vertical
  <2> QED BY <1>1, <1>3, <1>9, <1>10, <1>13, <2>1 DEF Place!PointsAtElement
<1>14. CASE side = "left"
  <2>1. tip.left = el.left - size.width - margin
    BY <1>1, <1>5, <1>7, <1>14 DEF Place!Vertical
  <2> QED BY <1>1, <1>3, <1>9, <1>10, <1>14, <2>1 DEF Place!PointsAtElement
<1> QED BY <1>2, <1>11, <1>12, <1>13, <1>14

LEMMA PlaceInit == Place!Init => PlaceInv
BY DEF Place!Init, PlaceInv

LEMMA PlaceStep == PlaceInv /\ Place!Next => PlaceInv'
<1> SUFFICES ASSUME NEW el \in Elements, NEW size \in Sizes, NEW actual \in Sizes,
                    NEW padding \in Paddings, NEW margin \in Margins, NEW auto \in BOOLEAN,
                    NEW scroll \in Int, NEW placement \in {"top", "bottom", "left", "right"},
                    widget = Place!Place(el, size, actual, placement, auto, padding, margin, scroll),
                    Place!Again
             PROVE  PlaceInv'
  BY DEF PlaceInv, Place!Next
<1>1. /\ widget.el = el /\ widget.size = size /\ widget.actual = actual
      /\ widget.asked = placement /\ widget.padding = padding /\ widget.margin = margin
  BY DEF Place!Place
<1>2. PICK scrolled \in Scrolls, now \in BOOLEAN :
        widget' = Place!Place(el, size, actual, placement, now, padding, margin, scrolled)
  BY <1>1 DEF Place!Again
<1> QED BY <1>2, PlacementAssumption DEF PlaceInv

LEMMA Placed == Spec => [](plugin = "placement" => PlaceInv)
<1> DEFINE Inv == plugin = "placement" => PlaceInv
<1>1. Init => Inv
  BY PlaceInit DEF Init
<1>2. Inv /\ [Next]_<<plugin, widget>> => Inv'
  <2>1. CASE UNCHANGED <<plugin, widget>>
    BY <2>1 DEF PlaceInv
  <2>2. CASE Next
    BY <2>2, PlaceStep DEF Next
  <2> QED BY <2>1, <2>2
<1> QED BY <1>1, <1>2, PTL DEF Spec

\* Along its side a tip that fits lies inside the window, however far the page is
\* scrolled (getViewportAdjustedDelta of tooltip.js).
THEOREM TipsInWindow == Spec => []InWindow
<1>1. (plugin = "placement" => PlaceInv) => InWindow
  BY PlaceSound DEF InWindow
<1> QED BY <1>1, Placed, PTL

\* Wherever it was pushed, a tip stands its margin away from its element and its
\* arrow points at the middle of it (applyPlacement and replaceArrow of tooltip.js).
THEOREM TipsPoint == Spec => []PointsAtElement
<1>1. (plugin = "placement" => PlaceInv) => PointsAtElement
  BY PlaceSound DEF PointsAtElement
<1> QED BY <1>1, Placed, PTL

-----------------------------------------------------------------------------
(***************************************************************************)
(* Affix.                                                                  *)
(***************************************************************************)
AffixState ==
  [scroll : Int, top : Tops, bottom : Bottoms, visible : BOOLEAN,
   affixed : {None, "fixed", "top", "bottom"}, css : {None} \cup Int, timer : BOOLEAN,
   checks : 0 .. 2]

\* css('top') is there only for an element at its footer, and puts it above that.
Pinned(s) ==
  /\ s \in AffixState
  /\ s.affixed = "bottom" => s.bottom # None
  /\ s.affixed = "top" => s.top # None
  /\ s.css # None => s.affixed = "bottom" /\ s.css = Fixed!Limit(s)

\* After one check: it stopped where the scroll position can be.
Once(s) ==
  /\ s.affixed # None
  /\ s.affixed = "top" => s.scroll <= s.top
  /\ s.affixed = "bottom" => s.css # None /\ (s.top # None => s.scroll > s.top)

\* After two.
Twice(s) ==
  /\ s.bottom # None => Fixed!Top(s) <= Fixed!Limit(s)
  /\ s.top # None =>
       LET fixed == s.scroll + Pin
           placed == IF s.bottom # None /\ Fixed!Limit(s) < fixed THEN Fixed!Limit(s) ELSE fixed
       IN \/ s.scroll >= s.top /\ Fixed!Top(s) = placed
          \/ s.scroll <= s.top /\ Fixed!Top(s) = Natural

Affixed(s) == Pinned(s) /\ (s.checks >= 1 => Once(s)) /\ (s.checks = 2 => Twice(s))

LEMMA AffixLengths ==
  ASSUME NEW s, Pinned(s)
  PROVE  /\ s.scroll \in Int /\ Pin \in Int /\ Win \in Int /\ Height \in Int /\ Natural \in Int
         /\ Fixed!Footer(s) \in Int /\ Fixed!Limit(s) \in Int /\ Fixed!Top(s) \in Int
         /\ Fixed!Limit(s) = Fixed!Footer(s) - Height /\ Pin + Height <= Win
         /\ s.top # None => s.top \in Int /\ s.top + Pin = Natural
         /\ s.bottom # None => Natural <= Fixed!Limit(s)
<1>1. /\ s.top # None => s.top \in Int /\ s.top + Pin = Natural
      /\ s.bottom # None => s.bottom \in Nat /\ Natural + Height + s.bottom <= Doc
      /\ s.scroll \in Int /\ s.css \in {None} \cup Int
  BY AffixAssumption DEF Pinned, AffixState
<1>2. /\ Pin \in Int /\ Win \in Int /\ Height \in Int /\ Natural \in Int /\ Doc \in Int /\ Pin + Height <= Win
  BY AffixAssumption
<1>3. /\ Fixed!Footer(s) \in Int /\ Fixed!Limit(s) \in Int
      /\ Fixed!Limit(s) = Fixed!Footer(s) - Height
      /\ s.bottom # None => Natural <= Fixed!Limit(s)
  BY <1>1, <1>2 DEF Fixed!Footer, Fixed!Limit
<1>4. Fixed!Top(s) \in Int
  BY <1>1, <1>2 DEF Fixed!Top
<1> QED BY <1>1, <1>2, <1>3, <1>4

\* What a check finds.
LEMMA AffixGetState ==
  ASSUME NEW s, Pinned(s)
  PROVE  LET state == Fixed!getState(s)
         IN /\ state \in {"fixed", "top", "bottom"}
            /\ state = "top" => s.top # None /\ s.scroll <= s.top
            /\ state = "bottom" => s.bottom # None /\ (s.top # None => s.scroll > s.top)
<1> DEFINE free == IF s.top # None THEN s.scroll + Pin <= Fixed!Top(s)
                   ELSE s.scroll + Win <= Fixed!Footer(s)
           state == Fixed!getState(s)
<1>1. CASE s.top # None /\ s.affixed = "top"
  BY <1>1, AffixLengths DEF Fixed!getState
<1>2. CASE s.affixed = "bottom"
  <2>1. state = IF free THEN "fixed" ELSE "bottom"
    BY <1>2 DEF Fixed!getState
  <2>2. s.bottom # None
    BY <1>2 DEF Pinned
  <2>3. Fixed!Top(s) = IF s.css # None THEN Fixed!Limit(s) ELSE Natural
    BY <1>2 DEF Fixed!Top, Pinned
  <2>4. ~free /\ s.top # None => s.scroll > s.top
    BY <2>2, <2>3, AffixLengths
  <2> QED BY <2>1, <2>2, <2>4
<1>3. CASE ~(s.top # None /\ s.affixed = "top") /\ s.affixed # "bottom"
  BY <1>3, AffixLengths DEF Fixed!getState
<1> QED BY <1>1, <1>2, <1>3

\* A second check puts the element in its place.
LEMMA AffixSecond ==
  ASSUME NEW s, Pinned(s), Once(s), NEW t, Pinned(t), t.scroll = s.scroll, t.top = s.top,
         t.bottom = s.bottom, t.affixed = Fixed!getState(s),
         t.css = IF t.affixed = "bottom" THEN Fixed!Limit(t) ELSE None
  PROVE  Twice(t)
<1> DEFINE y == s.scroll
           limit == Fixed!Limit(s)
<1>1. Fixed!Footer(t) = Fixed!Footer(s) /\ Fixed!Limit(t) = limit
  BY DEF Fixed!Footer, Fixed!Limit
<1>2. Fixed!Top(t) = CASE t.affixed = "fixed" -> y + Pin
                       [] t.affixed = "bottom" -> limit
                       [] OTHER -> Natural
  BY <1>1, AffixLengths, AffixAssumption DEF Fixed!Top
<1>3. CASE s.affixed = "top"
  <2>1. t.affixed = IF y < s.top THEN "top" ELSE "fixed"
    BY <1>3 DEF Fixed!getState, Pinned
  <2>2. s.top # None /\ y <= s.top
    BY <1>3 DEF Once, Pinned
  <2> QED BY <1>1, <1>2, <2>1, <2>2, AffixLengths DEF Twice
<1>4. CASE s.affixed = "bottom"
  <2>1. Fixed!Top(s) = limit /\ s.bottom # None /\ (s.top # None => y > s.top)
    BY <1>4 DEF Once, Pinned, Fixed!Top
  <2>2. t.affixed = IF (IF s.top # None THEN y + Pin <= limit ELSE y + Win <= Fixed!Footer(s))
                    THEN "fixed" ELSE "bottom"
    BY <1>4, <2>1 DEF Fixed!getState
  <2> QED BY <1>1, <1>2, <2>1, <2>2, AffixLengths DEF Twice
<1>5. CASE s.affixed = "fixed"
  <2>1. t.affixed = IF s.top # None /\ y <= s.top THEN "top"
                    ELSE IF s.bottom # None /\ y + Pin + Height >= Fixed!Footer(s) THEN "bottom"
                    ELSE "fixed"
    BY <1>5, AffixAssumption DEF Fixed!getState, Fixed!Top
  <2> QED BY <1>1, <1>2, <2>1, AffixLengths DEF Twice
<1>6. s.affixed \in {"fixed", "top", "bottom"}
  BY DEF Once, Pinned, AffixState
<1> QED BY <1>3, <1>4, <1>5, <1>6

LEMMA AffixCheck ==
  ASSUME NEW s, Affixed(s), NEW veto \in BOOLEAN
  PROVE  Affixed(Fixed!checkPosition(s, veto))
<1> DEFINE state == Fixed!getState(s)
           t == [s EXCEPT !.affixed = state, !.checks = IF @ < 2 THEN @ + 1 ELSE @,
                          !.css = IF state = "bottom" THEN Fixed!Limit(s) ELSE None]
           u == [s EXCEPT !.css = None, !.checks = 0]
<1>1. Fixed!checkPosition(s, veto) = IF ~s.visible THEN s
                                     ELSE IF state # s.affixed /\ veto THEN u ELSE t
  BY DEF Fixed!checkPosition
<1>2. Pinned(s) /\ s \in AffixState
  BY DEF Affixed, Pinned
<1>3. Affixed(u)
  <2>1. u.checks = 0 /\ u.css = None /\ u.affixed = s.affixed /\ u.top = s.top /\ u.bottom = s.bottom
    BY <1>2 DEF AffixState
  <2>2. u \in AffixState
    <3>1. ASSUME NEW css \in {None} \cup Int, NEW checks \in 0 .. 2
          PROVE  [s EXCEPT !.css = css, !.checks = checks] \in AffixState
      BY <1>2 DEF AffixState
    <3>2. 0 \in 0 .. 2 /\ None \in {None} \cup Int
      OBVIOUS
    <3> QED BY <3>1, <3>2, Zenon
  <2> HIDE DEF u
  <2> QED BY <1>2, <2>1, <2>2 DEF Affixed, Pinned
<1>4. Affixed(t)
  <2>1. /\ state \in {"fixed", "top", "bottom"}
        /\ state = "top" => s.top # None /\ s.scroll <= s.top
        /\ state = "bottom" => s.bottom # None /\ (s.top # None => s.scroll > s.top)
    BY <1>2, AffixGetState
  <2>2. Fixed!Limit(s) \in Int
    BY <1>2, AffixLengths
  <2> HIDE DEF state
  <2>3. /\ t \in AffixState /\ t.affixed = state /\ t.scroll = s.scroll /\ t.top = s.top
        /\ t.bottom = s.bottom /\ t.css = IF state = "bottom" THEN Fixed!Limit(s) ELSE None
        /\ t.checks = IF s.checks < 2 THEN s.checks + 1 ELSE s.checks
    <3> DEFINE css == IF state = "bottom" THEN Fixed!Limit(s) ELSE None
               checks == IF s.checks < 2 THEN s.checks + 1 ELSE s.checks
    <3>1. css \in {None} \cup Int /\ checks \in 0 .. 2
      BY <1>2, <2>2 DEF AffixState
    <3>2. t = [s EXCEPT !.affixed = state, !.checks = checks, !.css = css]
      OBVIOUS
    <3> HIDE DEF css, checks, t
    <3>3. t \in AffixState
      BY <1>2, <2>1, <3>1, <3>2 DEF AffixState
    <3>4. /\ t.affixed = state /\ t.scroll = s.scroll /\ t.top = s.top
          /\ t.bottom = s.bottom /\ t.css = css /\ t.checks = checks
      BY <1>2, <3>2 DEF AffixState
    <3> QED BY <3>3, <3>4 DEF css, checks
  <2> HIDE DEF t
  <2>4. Fixed!Limit(t) = Fixed!Limit(s)
    BY <2>3 DEF Fixed!Limit, Fixed!Footer
  <2>5. Pinned(t)
    BY <2>1, <2>3, <2>4 DEF Pinned
  <2>6. Once(t)
    BY <2>1, <2>2, <2>3, AffixAssumption DEF Once
  <2>7. t.checks = 2 => s.checks >= 1
    BY <1>2, <2>3 DEF AffixState
  <2>8. Once(s) => Twice(t)
    BY <1>2, <2>3, <2>4, <2>5, AffixSecond DEF state
  <2> QED BY <2>5, <2>6, <2>7, <2>8 DEF Affixed
<1> QED BY <1>1, <1>3, <1>4

LEMMA AffixInit == Fixed!Init => Affixed(widget)
<1> SUFFICES ASSUME NEW top \in Tops, NEW bottom \in Bottoms, NEW scroll \in 0 .. Doc - Win,
                    NEW visible \in BOOLEAN, NEW veto \in BOOLEAN,
                    widget = Fixed!checkPosition([scroll |-> scroll, top |-> top, bottom |-> bottom,
                               visible |-> visible, affixed |-> None, css |-> None,
                               timer |-> FALSE, checks |-> 0], veto)
             PROVE  Affixed(widget)
  BY DEF Fixed!Init
<1> DEFINE s == [scroll |-> scroll, top |-> top, bottom |-> bottom, visible |-> visible,
                 affixed |-> None, css |-> None, timer |-> FALSE, checks |-> 0]
<1>1. s \in AffixState
  BY AffixAssumption DEF AffixState
<1>2. Affixed(s)
  BY <1>1, AffixAssumption DEF Affixed, Pinned
<1> HIDE DEF s
<1> QED BY <1>2, AffixCheck DEF s

LEMMA AffixStep == Affixed(widget) /\ Fixed!Next => Affixed(widget')
<1> SUFFICES ASSUME Affixed(widget), Fixed!Next PROVE Affixed(widget')
  OBVIOUS
<1>0. widget \in AffixState
  BY DEF Affixed, Pinned
<1>1. CASE Fixed!Scroll
  <2>1. PICK y \in 0 .. Doc - Win, veto \in BOOLEAN :
          widget' = Fixed!checkPosition([widget EXCEPT !.scroll = y,
                      !.checks = IF y = widget.scroll THEN @ ELSE 0], veto)
    BY <1>1 DEF Fixed!Scroll
  <2> DEFINE s == [widget EXCEPT !.scroll = y, !.checks = IF y = widget.scroll THEN @ ELSE 0]
  <2>2. s \in AffixState /\ (y = widget.scroll => s = widget) /\ (y # widget.scroll => s.checks = 0)
        /\ \A f \in {"top", "bottom", "affixed", "css"} : s[f] = widget[f]
    <3> DEFINE checks == IF y = widget.scroll THEN widget.checks ELSE 0
    <3>1. checks \in 0 .. 2 /\ y \in Int /\ s = [widget EXCEPT !.scroll = y, !.checks = checks]
      BY <1>0, AffixAssumption DEF AffixState
    <3>2. y = widget.scroll => s = widget
      BY <1>0 DEF AffixState
    <3> HIDE DEF s
    <3>3. s.checks = checks /\ \A f \in {"top", "bottom", "affixed", "css"} : s[f] = widget[f]
      BY <1>0, <3>1 DEF AffixState
    <3>4. s \in AffixState
      <4> HIDE DEF checks
      <4> QED BY <1>0, <3>1 DEF AffixState
    <3> QED BY <3>2, <3>3, <3>4
  <2>3. widget' = Fixed!checkPosition(s, veto)
    BY <2>1
  <2> HIDE DEF s
  <2>4. CASE y = widget.scroll
    BY <2>2, <2>3, <2>4, AffixCheck
  <2>5. CASE y # widget.scroll
    <3>1. Fixed!Limit(s) = Fixed!Limit(widget)
      BY <2>2 DEF Fixed!Limit, Fixed!Footer
    <3>2. Pinned(s)
      BY <2>2, <3>1 DEF Affixed, Pinned
    <3>3. Affixed(s)
      BY <2>2, <2>5, <3>2 DEF Affixed
    <3> QED BY <2>3, <3>3, AffixCheck
  <2> QED BY <2>4, <2>5
<1>2. ASSUME NEW timer \in BOOLEAN PROVE Affixed([widget EXCEPT !.timer = timer])
  <2> DEFINE s == [widget EXCEPT !.timer = timer]
  <2>1. s \in AffixState
        /\ \A f \in {"scroll", "top", "bottom", "affixed", "css", "checks"} : s[f] = widget[f]
    BY <1>0 DEF AffixState
  <2> HIDE DEF s
  <2>2. Fixed!Limit(s) = Fixed!Limit(widget) /\ Fixed!Top(s) = Fixed!Top(widget)
    BY <2>1 DEF Fixed!Limit, Fixed!Footer, Fixed!Top
  <2>3. Pinned(s)
    BY <2>1, <2>2 DEF Affixed, Pinned
  <2>4. (s.checks >= 1 => Once(s)) /\ (s.checks = 2 => Twice(s))
    BY <2>1, <2>2 DEF Affixed, Once, Twice
  <2> QED BY <2>3, <2>4 DEF Affixed, s
<1>3. CASE Fixed!Click
  BY <1>2, <1>3 DEF Fixed!Click
<1>4. CASE Fixed!Timer
  <2>1. PICK veto \in BOOLEAN : widget' = Fixed!checkPosition([widget EXCEPT !.timer = FALSE], veto)
    BY <1>4 DEF Fixed!Timer
  <2> QED BY <1>2, <2>1, AffixCheck
<1>5. CASE Fixed!Page
  <2> DEFINE s == [widget EXCEPT !.visible = ~@, !.checks = 0]
  <2>1. s \in AffixState /\ s.checks = 0
        /\ \A f \in {"scroll", "top", "bottom", "affixed", "css"} : s[f] = widget[f]
    <3>1. s.checks = 0 /\ \A f \in {"scroll", "top", "bottom", "affixed", "css"} : s[f] = widget[f]
      BY <1>0 DEF AffixState
    <3>2. ASSUME NEW visible \in BOOLEAN, NEW checks \in 0 .. 2
          PROVE  [widget EXCEPT !.visible = visible, !.checks = checks] \in AffixState
      BY <1>0 DEF AffixState
    <3>3. 0 \in 0 .. 2 /\ (~widget.visible) \in BOOLEAN
      OBVIOUS
    <3>4. s \in AffixState
      BY <3>2, <3>3, Zenon
    <3> QED BY <3>1, <3>4
  <2>2. widget' = s
    BY <1>5 DEF Fixed!Page
  <2> HIDE DEF s
  <2>3. Fixed!Limit(s) = Fixed!Limit(widget)
    BY <2>1 DEF Fixed!Limit, Fixed!Footer
  <2>4. Pinned(s)
    BY <2>1, <2>3 DEF Affixed, Pinned
  <2> QED BY <2>1, <2>2, <2>4 DEF Affixed
<1> QED BY <1>1, <1>3, <1>4, <1>5 DEF Fixed!Next

\* From wherever the user jumps, two checks place the element: above the footer,
\* and with an offset at the top in the page down to there and fixed below it
\* (getState and checkPosition of affix.js).
THEOREM AffixInPlace == Spec => []InPlace
<1> DEFINE Inv == plugin = "affix" => Affixed(widget)
<1>1. Init => Inv
  BY AffixInit DEF Init
<1>2. Inv /\ [Next]_<<plugin, widget>> => Inv'
  <2>1. CASE UNCHANGED <<plugin, widget>>
    BY <2>1
  <2>2. CASE Next
    BY <2>2, AffixStep DEF Next
  <2> QED BY <2>1, <2>2
<1>3. Inv => InPlace
  BY DEF Affixed, Twice, InPlace, Fixed!InPlace
<1> QED BY <1>1, <1>2, <1>3, PTL DEF Spec
=============================================================================
