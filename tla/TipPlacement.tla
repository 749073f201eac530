----------------------------- MODULE TipPlacement -----------------------------
(***************************************************************************)
(* Where the tooltip plugin places a tip: beside its element, on the other *)
(* side if 'auto' finds no room, pushed along that side into the window.   *)
(* All lengths are even, so that halves are exact.  The viewport is the    *)
(* body, which fills the window, as it is by default.                      *)
(***************************************************************************)
EXTENDS Integers

CONSTANTS
  Window,   \* [width, height]
  Length,   \* height of the document
  Scrolls,  \* how far it may be scrolled
  Elements, \* boxes [top, left, width, height] of elements, in the document
  Sizes,    \* sizes [width, height] of tips
  Paddings, \* options.viewport.padding
  Margins   \* how far a style sheet keeps a tip from its element

VARIABLE placed   \* what was asked for and what show made of it

Vertical(placement) == placement \in {"top", "bottom"}

\* getPosition: top and left are in the document, right and bottom are in the
\* window, in which the body ends where the document does.
getPosition(el, scroll) ==
  [top |-> el.top, left |-> el.left, width |-> el.width, height |-> el.height,
   right |-> el.left + el.width, bottom |-> el.top + el.height - scroll]

getViewport(scroll) ==
  [top |-> 0, left |-> 0, width |-> Window.width, height |-> Window.height,
   right |-> Window.width, bottom |-> Length - scroll, scroll |-> scroll]

\* The side that 'auto' takes when this one is asked for.
Side(placement, pos, viewport, size) ==
  CASE placement = "bottom" /\ pos.bottom + size.height > viewport.bottom -> "top"
    [] placement = "top" /\ pos.top - size.height < viewport.top -> "bottom"
    [] placement = "right" /\ pos.right + size.width > viewport.width -> "left"
    [] placement = "left" /\ pos.left - size.width < viewport.left -> "right"
    [] OTHER -> placement

getCalculatedOffset(placement, pos, size) ==
  [top |-> CASE placement = "bottom" -> pos.top + pos.height
             [] placement = "top" -> pos.top - size.height
             [] OTHER -> pos.top + pos.height \div 2 - size.height \div 2,
   left |-> CASE placement = "left" -> pos.left - size.width
              [] placement = "right" -> pos.left + pos.width
              [] OTHER -> pos.left + pos.width \div 2 - size.width \div 2]

\* Mutant: the window is where the document begins.
getViewportAdjustedDelta_Unscrolled(placement, offset, size, viewport, padding) ==
  LET start == IF Vertical(placement) THEN offset.left ELSE offset.top
      length == IF Vertical(placement) THEN size.width ELSE size.height
      end == IF Vertical(placement) THEN viewport.width ELSE viewport.height
  IN IF start - padding < 0 THEN padding - start
     ELSE IF start + padding + length > end THEN end - start - padding - length
     ELSE 0

\* How far to push it along its side.
getViewportAdjustedDelta(placement, offset, size, viewport, padding) ==
  LET start == IF Vertical(placement) THEN offset.left ELSE offset.top - viewport.scroll
      length == IF Vertical(placement) THEN size.width ELSE size.height
      end == IF Vertical(placement) THEN viewport.width ELSE viewport.height
  IN IF start - padding < 0 THEN padding - start
     ELSE IF start + padding + length > end THEN end - start - padding - length
     ELSE 0

\* The margins of a tip of class side: on top of an element or to the left of it
\* they are negative.
Margin(side, margin) ==
  [top |-> CASE side = "top" -> -margin [] side = "bottom" -> margin [] OTHER -> 0,
   left |-> CASE side = "left" -> -margin [] side = "right" -> margin [] OTHER -> 0]

\* The offset with the margins, and put back against the element if the tip has
\* changed its height.
Margined(placement, offset, size, actual, margin) ==
  [top |-> offset.top + margin.top
             + IF placement = "top" THEN size.height - actual.height ELSE 0,
   left |-> offset.left + margin.left]

\* Mutant: the arrow does not follow a tip that has changed its size.
applyPlacement_OldArrow(placement, offset, size, actual, margin, viewport, padding) ==
  LET at == Margined(placement, offset, size, actual, margin)
      delta == getViewportAdjustedDelta(placement, at, actual, viewport, padding)
      length == IF Vertical(placement) THEN actual.width ELSE actual.height
  IN [top |-> IF Vertical(placement) THEN at.top ELSE at.top + delta,
      left |-> IF Vertical(placement) THEN at.left + delta ELSE at.left,
      arrow |-> (length - 2 * delta) \div 2]

\* applyPlacement: the tip may change its size where it is put.  replaceArrow puts
\* the arrow at 50 * (1 - arrowDelta / length) percent of the tip's length.
applyPlacement(placement, offset, size, actual, margin, viewport, padding) ==
  LET at == Margined(placement, offset, size, actual, margin)
      delta == getViewportAdjustedDelta(placement, at, actual, viewport, padding)
      arrowDelta == 2 * delta - IF Vertical(placement) THEN size.width - actual.width
                                ELSE size.height - actual.height
      length == IF Vertical(placement) THEN actual.width ELSE actual.height
  IN [top |-> IF Vertical(placement) THEN at.top ELSE at.top + delta,
      left |-> IF Vertical(placement) THEN at.left + delta ELSE at.left,
      arrow |-> (length - arrowDelta) \div 2]

\* The part of show that places the tip.
Place(el, size, actual, placement, auto, padding, margin, scroll) ==
  LET pos == getPosition(el, scroll)
      viewport == getViewport(scroll)
      side == IF auto THEN Side(placement, pos, viewport, size) ELSE placement
      offset == getCalculatedOffset(side, pos, size)
  IN [el |-> el, size |-> size, actual |-> actual, asked |-> placement, side |-> side,
      padding |-> padding, margin |-> margin, scroll |-> scroll,
      tip |-> applyPlacement(side, offset, size, actual, Margin(side, margin), viewport, padding)]

Init ==
  \E el \in Elements, size, actual \in Sizes, padding \in Paddings, margin \in Margins,
     auto \in BOOLEAN, placement \in {"top", "bottom", "left", "right"} :
    placed = Place(el, size, actual, placement, auto, padding, margin, 0)

\* The page scrolls, and the tip is shown again.
Again ==
  \E scroll \in Scrolls, auto \in BOOLEAN :
    placed' = Place(placed.el, placed.size, placed.actual, placed.asked, auto, placed.padding,
                    placed.margin, scroll)

Next == Again

-----------------------------------------------------------------------------
\* Along its side, a tip that fits into the window with its padding is inside it,
\* however far the page is scrolled.
InWindow ==
  LET tip == placed.tip
      end(length) == length - placed.padding
  IN IF Vertical(placed.side)
       THEN placed.actual.width + 2 * placed.padding <= Window.width =>
              /\ tip.left >= placed.padding
              /\ tip.left + placed.actual.width <= end(Window.width)
     ELSE placed.actual.height + 2 * placed.padding <= Window.height =>
            /\ tip.top - placed.scroll >= placed.padding
            /\ tip.top - placed.scroll + placed.actual.height <= end(Window.height)

\* Wherever it was pushed, and whatever its size has become, a tip stands its margin
\* away from its element and its arrow points at the middle of it.  A tip on the
\* left must not have changed its width: it is not put back against the element.
PointsAtElement ==
  LET tip == placed.tip
      el == placed.el
  IN /\ tip.arrow = IF Vertical(placed.side) THEN el.left + el.width \div 2 - tip.left
                    ELSE el.top + el.height \div 2 - tip.top
     /\ placed.margin =
          CASE placed.side = "top" -> el.top - (tip.top + placed.actual.height)
            [] placed.side = "bottom" -> tip.top - (el.top + el.height)
            [] placed.side = "right" -> tip.left - (el.left + el.width)
            [] placed.side = "left" -> el.left - (tip.left + placed.size.width)
=============================================================================
