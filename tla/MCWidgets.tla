------------------------------ MODULE MCWidgets ------------------------------
\* The pages that module Widgets is checked for.
EXTENDS Widgets, TLC

Items3 == <<2, 0, 3>>

Tops2 == {2, None}
Bottoms2 == {3, None}

\* Two layouts of one height, a shorter and a longer document.
Layouts4 ==
  {[height |-> 8, at |-> ("a" :> 1 @@ "b" :> 4)],
   [height |-> 8, at |-> ("a" :> 1 @@ "b" :> 3)],
   [height |-> 6, at |-> ("a" :> 2)],
   [height |-> 9, at |-> ("a" :> 1 @@ "b" :> 3 @@ "c" :> 6)]}

SmallWindow == [width |-> 16, height |-> 12]
Boxes == [top : {0, 8, 16}, left : {0, 6, 12}, width : {4}, height : {2, 4}]
Tips == [width : {4, 8}, height : {2, 6}]
=============================================================================
