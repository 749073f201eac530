-------------------------------- MODULE Widgets --------------------------------
(***************************************************************************)
(* The plugins of the pages: base.html loads all of them on every page.    *)
(* Each is a component of its own, which shares nothing with the others    *)
(* but the transitions of module Transition; a behaviour is that of one.   *)
(***************************************************************************)
EXTENDS Integers

CONSTANTS
  Panel, Pane, Menu, Items, Backdrop, Box, Label,       \* elements of a page
  Doc, Win, Height, Natural, Pin, Tops, Bottoms,        \* lengths; see Affix
  Layouts, View, Offset,                                \* see ScrollSpy
  N,                                                    \* items of the carousel
  Window, Length, Scrolls, Elements, Sizes, Paddings, Margins,   \* see TipPlacement
  MaxEnding, MaxWaiting, MaxLeak, MaxPending, MaxTo, MaxSlid,   \* bounds
  None

\* A fixed element fits into the window, is taken from the page just where it
\* would be fixed, and lies above the footer in the page.
ASSUME AffixAssumption ==
  /\ {Doc, Win, Height, Natural, Pin} \subseteq Nat /\ Pin + Height <= Win /\ Win <= Doc
  /\ \A top \in Tops \ {None} : top \in Int /\ top + Pin = Natural
  /\ \A bottom \in Bottoms \ {None} : bottom \in Nat /\ Natural + Height + bottom <= Doc
  /\ None \notin Int \cup {"fixed", "top", "bottom"}

ASSUME ButtonAssumption == None \notin {"own", "loading"}

ASSUME CarouselAssumption == N \in Nat \ {0}

ASSUME DialogAssumption == Backdrop \cap {"dialog", "element", None} = {}

ASSUME PanelAssumption == Panel \subseteq Nat /\ None \notin [transitioning : BOOLEAN, parent : BOOLEAN]

ASSUME PlacementAssumption ==
  /\ Window \in [width: Int, height: Int] /\ Length \in Int /\ Scrolls \subseteq Int
  /\ Elements \subseteq [top: Int, left: Int, width: Int, height: Int]
  /\ Sizes \subseteq [width: Int, height: Int] /\ Paddings \subseteq Int /\ Margins \subseteq Int

ASSUME TipAssumption == None \notin {"in", "out", "show", "hide"}

VARIABLES
  plugin,  \* the name of the plugin
  widget   \* its state

Panels == INSTANCE Collapse WITH collapse <- widget
Tabs == INSTANCE Tab WITH tab <- widget
Menus == INSTANCE Dropdown WITH dropdown <- widget
Dialog == INSTANCE Modal WITH modal <- widget
Alerts == INSTANCE Alert WITH alert <- widget
Buttons == INSTANCE Button WITH button <- widget
Fixed == INSTANCE Affix WITH affix <- widget
Spy == INSTANCE ScrollSpy WITH spy <- widget
Slides == INSTANCE Carousel WITH carousel <- widget
Tip == INSTANCE Tooltip WITH tip <- widget
Place == INSTANCE TipPlacement WITH placed <- widget

Init ==
  \/ plugin = "collapse" /\ Panels!Init
  \/ plugin = "tab" /\ Tabs!Init
  \/ plugin = "dropdown" /\ Menus!Init
  \/ plugin = "modal" /\ Dialog!Init
  \/ plugin = "alert" /\ Alerts!Init
  \/ plugin = "button" /\ Buttons!Init
  \/ plugin = "affix" /\ Fixed!Init
  \/ plugin = "scrollspy" /\ Spy!Init
  \/ plugin = "carousel" /\ Slides!Init
  \/ plugin = "tooltip" /\ Tip!Init
  \/ plugin = "placement" /\ Place!Init

Next ==
  /\ UNCHANGED plugin
  /\ \/ plugin = "collapse" /\ Panels!Next
     \/ plugin = "tab" /\ Tabs!Next
     \/ plugin = "dropdown" /\ Menus!Next
     \/ plugin = "modal" /\ Dialog!Next
     \/ plugin = "alert" /\ Alerts!Next
     \/ plugin = "button" /\ Buttons!Next
     \/ plugin = "affix" /\ Fixed!Next
     \/ plugin = "scrollspy" /\ Spy!Next
     \/ plugin = "carousel" /\ Slides!Next
     \/ plugin = "tooltip" /\ Tip!Next
     \/ plugin = "placement" /\ Place!Next

Spec == Init /\ [][Next]_<<plugin, widget>>

-----------------------------------------------------------------------------
\* A panel at rest is open or closed and answers the next click.
Settled == plugin = "collapse" => Panels!Settled
\* The trigger of a panel on its own says whether it is open.
TriggersAgree == plugin = "collapse" => Panels!TriggersAgree
\* An accordion at rest has one open panel at most.
Exclusive == plugin = "collapse" => Panels!Exclusive
\* Just the pane of the active tab is shown.
OnePane == plugin = "tab" => Tabs!OnePane
\* The layer that catches clicks goes with its menu.
BackdropServes == plugin = "dropdown" => Menus!BackdropServes
\* A closed dialog leaves nothing on the page.
ClosesClean == plugin = "modal" => Dialog!ClosesClean
\* An open dialog is seen, over one backdrop.
OpensWhole == plugin = "modal" => Dialog!OpensWhole
\* A dialog answers to its buttons and keys just while it is meant to be shown.
ListensWhileShown == plugin = "modal" => Dialog!ListensWhileShown
\* An alert that is dismissed goes, and the page hears of it once.
ClosedOnce == plugin = "alert" => Alerts!ClosedOnce
\* What looks pressed is what the form will send, told once.
PressedIsChecked == plugin = "button" => Buttons!PressedIsChecked
\* A button that was loading can be used again, and reads as before.
SaysItsState == plugin = "button" => Buttons!SaysItsState
\* Two checks put an affixed element where it belongs.
InPlace == plugin = "affix" => Fixed!InPlace
\* Two events mark the section the user sees.
MarksWhatIsSeen == plugin = "scrollspy" => Spy!MarksWhatIsSeen
\* A carousel has one timer at most.
OneTimer == plugin = "carousel" => Slides!OneTimer
\* A carousel does not move on its own under the mouse.
StillUnderMouse == plugin = "carousel" => Slides!StillUnderMouse
\* A call of to that waits will be made.
ToIsHeard == plugin = "carousel" => Slides!ToIsHeard
\* A tip is there as long as one of its triggers wants it.
FollowsItsTriggers == plugin = "tooltip" => Tip!FollowsItsTriggers
\* Of a destroyed tip nothing is left.
DestroyedIsGone == plugin = "tooltip" => Tip!DestroyedIsGone
\* A tip that fits is inside the window.
InWindow == plugin = "placement" => Place!InWindow
\* The arrow of a tip points at its element.
PointsAtElement == plugin = "placement" => Place!PointsAtElement
=============================================================================
