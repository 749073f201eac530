SPECIFICATION Spec
CONSTANTS
  Panel = {1, 2, 3}
  Pane = {1, 2, 3}
  Menu = {1, 2, 3}
  Items <- Items3
  Backdrop = {b1, b2, b3}
  Box = {x1, x2}
  Label = {l1, l2}
  Doc = 14
  Win = 6
  Height = 2
  Natural = 3
  Pin = 1
  Tops <- Tops2
  Bottoms <- Bottoms2
  Layouts <- Layouts4
  View = 2
  Offset = 1
  N = 3
  Window <- SmallWindow
  Length = 24
  Scrolls = {0, 6, 12}
  Elements <- Boxes
  Sizes <- Tips
  Paddings = {0, 2}
  Margins = {3, 10}
  MaxEnding = 3
  MaxWaiting = 4
  MaxLeak = 3
  MaxPending = 2
  MaxTo = 2
  MaxSlid = 2
  None = None
INVARIANTS
  Settled TriggersAgree Exclusive OnePane BackdropServes
  ClosesClean OpensWhole ListensWhileShown ClosedOnce PressedIsChecked SaysItsState
  InPlace MarksWhatIsSeen OneTimer StillUnderMouse ToIsHeard
  FollowsItsTriggers DestroyedIsGone InWindow PointsAtElement
CHECK_DEADLOCK FALSE
