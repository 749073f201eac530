----------------------------- MODULE TileService -----------------------------
(***************************************************************************)
(* What the tile server promises its clients, whatever it caches,          *)
(* prefetches or writes back later: a request is answered once, with a     *)
(* picture of the place that was asked for, as its source has served it    *)
(* some time; or as the limits of the source say; or with an error, where  *)
(* there is a reason for one.                                              *)
(***************************************************************************)
EXTENDS Naturals

CONSTANTS
  Client,
  Place,     \* what one may ask for
  Verdict,   \* Verdict[p]: is the place "open", or answered "blank" or "red"?
  Failing,   \* places that a request may fail for
  None

VARIABLES
  version,  \* version[p]: how often the source has changed the picture
  asked,    \* asked[c]: the place that client c waits for
  answer    \* answer[c]: what it was told

vars == <<version, asked, answer>>

Plain(kind) == [kind |-> kind, place |-> None, version |-> 0]

\* The answers a request for the place may get now.
Answers(p) ==
  (IF Verdict[p] = "open"
     THEN {[kind |-> "tile", place |-> p, version |-> v] : v \in 0 .. version[p]}
   ELSE {Plain(Verdict[p])})
  \cup {Plain("error") : x \in {p} \cap Failing}

Init ==
  /\ version = [p \in Place |-> 0]
  /\ asked = [c \in Client |-> None]
  /\ answer = [c \in Client |-> Plain("none")]

\* A request, which may be answered at once.
Ask(c, p) ==
  /\ asked[c] = None
  /\ asked' = [asked EXCEPT ![c] = p]
  /\ \E a \in Answers(p) \cup {Plain("none")} : answer' = [answer EXCEPT ![c] = a]
  /\ UNCHANGED version

Reply(c) ==
  /\ asked[c] # None /\ answer[c] = Plain("none")
  /\ \E a \in Answers(asked[c]) : answer' = [answer EXCEPT ![c] = a]
  /\ UNCHANGED <<version, asked>>

\* The client has its answer.
Done(c) ==
  /\ asked[c] # None /\ answer[c] # Plain("none")
  /\ asked' = [asked EXCEPT ![c] = None]
  /\ answer' = [answer EXCEPT ![c] = Plain("none")]
  /\ UNCHANGED version

Publish(p) ==
  /\ version' = [version EXCEPT ![p] = @ + 1]
  /\ UNCHANGED <<asked, answer>>

Next ==
  \/ \E c \in Client : Reply(c) \/ Done(c) \/ \E p \in Place : Ask(c, p)
  \/ \E p \in Place : Publish(p)

Spec == Init /\ [][Next]_vars

\* No client waits for ever.
Answered == \A c \in Client : asked[c] # None ~> asked[c] = None

Promise == Spec /\ Answered
=============================================================================
