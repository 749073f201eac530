------------------------------- MODULE Handlers -------------------------------
(***************************************************************************)
(* The handlers of an event run in the order they were bound, each on the  *)
(* page as the one before has left it.                                     *)
(***************************************************************************)
EXTENDS Naturals, Sequences

InTurn(s, handlers, Run(_, _)) ==
  LET ran[i \in 0 .. Len(handlers)] ==
        IF i = 0 THEN s ELSE Run(ran[i - 1], handlers[i])
  IN ran[Len(handlers)]
=============================================================================
