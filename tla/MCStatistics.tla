----------------------------- MODULE MCStatistics -----------------------------
(***************************************************************************)
(* The counters and the pages.  The pipeline does not look at the file, so *)
(* that the file may stand still while the counters are looked at: with    *)
(* every fault, "crashes" has two requests and no operators, "operators"   *)
(* has a request that is counted, one that is not made yet, two operators  *)
(* and a crash.  "pages" begins with a request that is counted and one     *)
(* that is about to be, and goes on with one operator and without faults.  *)
(***************************************************************************)
EXTENDS Statistics

CONSTANTS r1, r2, o1, o2

VARIABLE scenario

\* Two of TILEJET_LIST_STATS.
Collections == <<"stats_total", "stats_by_status">>

\* The requests in counted are in every collection, the increments of those in
\* sent in their stream; the others are not made yet.
Start(counted, sent, crashed, asked) ==
  /\ filed = counted \cup sent /\ toLog = {} /\ logs = {}
  /\ batch = {} /\ inserted = FALSE /\ sending = {}
  /\ docs = [r \in Request |-> IF r \in filed THEN 1 ELSE 0]
  /\ stats = {[request |-> r, crash |-> 0] : r \in sent}
  /\ taken = {} /\ todo = {} /\ inc = None /\ at = 1
  /\ counters = [c \in Stat |-> [r \in Request |-> IF r \in counted THEN 1 ELSE 0]]
  /\ op = [o \in Operators |-> None] /\ step = [o \in Operators |-> 1] /\ updates = FALSE
  /\ crashes = crashed /\ ops = asked /\ again = {} /\ lost = {}
  /\ Pages!FileInit

MCInit ==
  \/ scenario = "crashes" /\ Start({}, {}, 0, MaxOps)
  \/ scenario = "operators" /\ Start({r1}, {}, 0, 0)
  \/ scenario = "pages" /\ Start({r1}, {r2}, MaxCrashes, MaxOps - 1)

MCNext ==
  /\ UNCHANGED scenario
  /\ IF scenario = "pages" THEN Next /\ UNCHANGED <<docs, again, lost, op[o2]>>
                           ELSE Next /\ UNCHANGED files

\* The file stands still but in "pages", so that no behaviour of it is fair there:
\* what must happen in the end is asked of "pages" only.
MCSpec == MCInit /\ [][MCNext]_<<vars, scenario>> /\ FileFairness
=============================================================================
