--------------------------------- MODULE Modal ---------------------------------
(***************************************************************************)
(* The modal plugin: a dialog over a backdrop.  Backdrop, dialog and the   *)
(* modal itself have transitions of their own, and the body is changed     *)
(* while the modal is open.                                                *)
(***************************************************************************)
EXTENDS Handlers

CONSTANTS
  Backdrop,    \* names of backdrop elements; bounds how many there are
  MaxWaiting,  \* bound on the transitions waited for
  MaxLeak,     \* bound on the padding and the click handlers that pile up
  None

VARIABLE modal   \* a record; see Init

\* The handlers of the modal, and of the window for it.
NoListeners == [dismiss |-> 0, click |-> 0, keydown |-> 0, resize |-> 0,
                 focusin |-> FALSE]

\* isShown, $backdrop and ignoreBackdropClick are the object's, display and in
\* the element's; backdrops are those in the document.  open and padding are
\* the body's, originalBodyPad what it had.  waiting: what waits for the end of
\* a transition, in the order it was bound.  calm is history: the modal was
\* never opened again before it had closed.
Init ==
  \E backdrop \in {"yes", "static", "no"}, keyboard, fade, transition, tall \in BOOLEAN :
    modal = [isShown |-> FALSE, display |-> FALSE, in |-> FALSE,
             backdrops |-> {}, own |-> None, ignoreBackdropClick |-> FALSE,
             open |-> FALSE, padding |-> 0, originalBodyPad |-> 0,
             listeners |-> NoListeners, waiting |-> <<>>, calm |-> TRUE,
             backdrop |-> backdrop, keyboard |-> keyboard,
             animates |-> fade /\ transition, tall |-> tall]

\* The callbacks.  A backdrop that comes in goes on with the dialog, or with the
\* end of hideModal when the modal was opened again.
Waits(s, el, step) == [s EXCEPT !.waiting = Append(@, [el |-> el, step |-> step])]

\* The callback of show: the element is shown, whoever has hidden it meanwhile.
Enters(s) ==
  LET t == [s EXCEPT !.display = TRUE, !.in = TRUE, !.listeners.focusin = TRUE]
  IN IF s.animates THEN Waits(t, "dialog", "focus") ELSE t

\* Mutant: the body keeps its padding.
Leaves_Padded(s) == [s EXCEPT !.open = FALSE]

\* The callback of hideModal.
Leaves(s) == [s EXCEPT !.open = FALSE, !.padding = s.originalBodyPad]

\* callbackRemove: removes the backdrop the object has by then.
Removes(s) == Leaves([s EXCEPT !.backdrops = @ \ {s.own}, !.own = None])

Runs(s, step) ==
  CASE step = "enters" -> Enters(s)
    [] step = "leaves" -> Leaves(s)
    [] step = "removes" -> Removes(s)
    [] step = "focus" -> s

\* backdrop(callback): a new one when the modal is shown, the end of the old one
\* when it is not.
backdrop(s, step) ==
  LET new == CHOOSE b \in Backdrop : b \notin s.backdrops
      added == [s EXCEPT !.own = new, !.backdrops = @ \cup {new}, !.listeners.click = @ + 1]
  IN IF s.isShown /\ s.backdrop # "no"
       THEN IF s.animates THEN Waits(added, new, step) ELSE Runs(added, step)
     ELSE IF ~s.isShown /\ s.own # None
       THEN IF s.animates THEN Waits(s, s.own, "removes") ELSE Removes(s)
     ELSE Runs(s, step)

HideModal(s) == backdrop([s EXCEPT !.display = FALSE], "leaves")

\* checkScrollbar, setScrollbar: a page that is too tall has a scrollbar, unless
\* the body is in use by a modal already.
SetsScrollbar(s) ==
  [s EXCEPT !.originalBodyPad = s.padding,
            !.padding = IF s.tall /\ ~s.open THEN @ + 1 ELSE @]

\* show: its click handler for data-dismiss, escape and resize.
Listens(s) ==
  [s.listeners EXCEPT !.dismiss = @ + 1, !.resize = @ + 1,
                      !.keydown = IF s.keyboard THEN @ + 1 ELSE @]

\* Mutant: an open modal is opened once more.
show_Again(s) ==
  LET t == [SetsScrollbar(s) EXCEPT
              !.isShown = TRUE, !.open = TRUE, !.listeners = Listens(s),
              !.calm = @ /\ (s.isShown \/ ~s.open)]
  IN backdrop(t, "enters")

show(s) ==
  LET t == [SetsScrollbar(s) EXCEPT
              !.isShown = TRUE, !.open = TRUE, !.listeners = Listens(s),
              !.calm = @ /\ ~s.open]
  IN IF s.isShown THEN s ELSE backdrop(t, "enters")

\* Mutant: the click handlers stay.
hide_Listens(s) ==
  LET t == [s EXCEPT !.isShown = FALSE, !.in = FALSE,
                     !.listeners = [@ EXCEPT !.keydown = 0, !.resize = 0]]
  IN IF ~s.isShown THEN s ELSE IF s.animates THEN Waits(t, "element", "hideModal")
     ELSE HideModal(t)

hide(s) ==
  LET t == [s EXCEPT !.isShown = FALSE, !.in = FALSE, !.listeners = NoListeners]
  IN IF ~s.isShown THEN s ELSE IF s.animates THEN Waits(t, "element", "hideModal")
     ELSE HideModal(t)

\* The page may veto either.
Shows == modal' \in {modal, show(modal)}
Hides(s) == modal' \in {s, hide(s)}

\* The bounds, all together.
Room ==
  /\ Len(modal.waiting) < MaxWaiting /\ \E b \in Backdrop : b \notin modal.backdrops
  /\ modal.padding < MaxLeak /\ modal.listeners.click < MaxLeak

\* A click on the trigger of the modal, or a call of the plugin.
Toggle == Room /\ IF modal.isShown THEN Hides(modal) ELSE Shows
Call == Room /\ (Shows \/ Hides(modal))

\* A button with data-dismiss, and the Escape key.
Dismiss == Room /\ modal.display /\ modal.listeners.dismiss > 0 /\ Hides(modal)
Escape == Room /\ modal.display /\ modal.listeners.keydown > 0 /\ Hides(modal)

\* Pressed inside the dialog and released outside, which the browser may or may
\* not take for a click on the modal.
DragOut ==
  /\ modal.display /\ modal.listeners.dismiss > 0
  /\ \E click \in BOOLEAN :
       modal' = [modal EXCEPT !.ignoreBackdropClick = ~(click /\ modal.listeners.click > 0)]

ClickBackdrop ==
  /\ Room /\ modal.display /\ modal.listeners.click > 0
  /\ LET s == [modal EXCEPT !.ignoreBackdropClick = FALSE]
     IN IF modal.backdrop = "static" \/ (modal.ignoreBackdropClick /\ modal.listeners.click = 1)
          THEN modal' = s
          ELSE Hides(s)

\* A transition takes 150 ms for a backdrop, at most 300 ms for the dialog and
\* 150 to 300 ms for the modal: no transition overtakes a backdrop's that began
\* before it, and a dialog's or modal's may be overtaken.
Due(i) ==
  \A j \in 1 .. i - 1 : modal.waiting[j].el \notin Backdrop \cup {modal.waiting[i].el}

\* What waits for another element keeps waiting.
Others(waiting, el) ==
  InTurn(<<>>, waiting, LAMBDA kept, w : IF w.el = el THEN kept ELSE Append(kept, w))

\* What waits for el runs.
Ended(s, el, w) ==
  IF w.el # el THEN s ELSE IF w.step = "hideModal" THEN HideModal(s) ELSE Runs(s, w.step)

Ends(i) ==
  LET el == modal.waiting[i].el
  IN /\ Due(i)
     /\ el = "element" => \E b \in Backdrop : b \notin modal.backdrops
     /\ modal' = InTurn([modal EXCEPT !.waiting = Others(@, el)], modal.waiting,
                        LAMBDA s, w : Ended(s, el, w))

Next ==
  \/ Toggle \/ Call \/ Dismiss \/ Escape \/ DragOut \/ ClickBackdrop
  \/ \E i \in 1 .. Len(modal.waiting) : Ends(i)

-----------------------------------------------------------------------------
\* A modal that has closed leaves nothing behind: no backdrop over the page, no
\* locked scrolling, no padding; unless it was opened again while it closed.  Of
\* one that closed while it opened the class in and the document's focusin handler
\* do stay behind, and nothing is said of them.
ClosesClean ==
  modal.waiting = <<>> /\ ~modal.isShown /\ modal.calm =>
    ~modal.display /\ modal.backdrops = {} /\ ~modal.open /\ modal.padding = 0

\* One that has opened is seen, over the one backdrop it will take away, if any.
OpensWhole ==
  modal.waiting = <<>> /\ modal.isShown /\ modal.calm =>
    /\ modal.display /\ modal.in /\ modal.open /\ modal.listeners.focusin
    /\ IF modal.backdrop = "no" THEN modal.backdrops = {}
       ELSE modal.own \in Backdrop /\ modal.backdrops = {modal.own}

\* Whatever overlaps, a modal answers to its buttons, keys and the window just
\* as long as it is meant to be shown, and once for each.
ListensWhileShown ==
  LET n == IF modal.isShown THEN 1 ELSE 0
  IN /\ modal.listeners.dismiss = n /\ modal.listeners.resize = n
     /\ modal.listeners.keydown = IF modal.keyboard THEN n ELSE 0
=============================================================================
