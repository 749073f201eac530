------------------------------- MODULE StatsFile -------------------------------
(***************************************************************************)
(* How the counters reach the pages.  update_stats of cron-update-stats.py *)
(* and the Celery task taskUpdateStats read the counters, rewrite one file *)
(* of statistics and set one key of the default memcached; stats_json and  *)
(* sources_json read them there.                                           *)
(*                                                                         *)
(* An action ends where the code waits for MongoDB or the file system.     *)
(***************************************************************************)
EXTENDS Naturals, Sequences, Functions

CONSTANTS
  ListStats,    \* TILEJET_LIST_STATS: the collections of counters, in order
  Writer,       \* "cron" and "task"
  STATS_SAVE_MEMORY,
  MaxFails,     \* bound on the writes to the file that fail
  None,         \* no file, no key, an empty page
  Empty,        \* a file without text
  Broken        \* any text that json.loads raises on, and the page it makes

VARIABLES
  counters,     \* of StatsPipeline
  updates,      \* "default" queue: is a taskUpdateStats waiting?
  pc, doc, seen,  \* writers: where they are, the statistics, the collections read
  fd,           \* the file a writer has open: "none", "here" or "unlinked"
  file,         \* what the name of the file leads to
  mixed,        \* did two writers open the file that is there at the same time?
  memory,       \* memcached "default", key stats_tilerequests
  view, shown,  \* a reader: where it is, what it was shown last
  fails

writers == <<pc, doc, seen, fd>>
fileVars == <<writers, file, mixed, memory, view, shown, fails>>

Stat == {ListStats[i] : i \in 1 .. Len(ListStats)}

\* What the documents of the collections add up to.
Totals == [c \in Stat |-> SumFunction(counters[c])]

FileInit ==
  /\ pc = [w \in Writer |-> "idle"]
  /\ doc = [w \in Writer |-> [c \in Stat |-> 0]]
  /\ seen = [w \in Writer |-> 0]
  /\ fd = [w \in Writer |-> "none"]
  /\ file = None /\ mixed = FALSE /\ memory = None
  /\ view = "idle" /\ shown = None /\ fails = 0

Goes(w, from, to) == pc[w] = from /\ pc' = [pc EXCEPT ![w] = to]

-----------------------------------------------------------------------------
(***************************************************************************)
(* Writers.                                                                *)
(***************************************************************************)

\* cron-update-stats.py loops; a task is started for each message.
Start(w) ==
  /\ Goes(w, "idle", "gather")
  /\ seen' = [seen EXCEPT ![w] = 0]
  /\ IF w = "cron" THEN UNCHANGED updates ELSE updates /\ updates' = FALSE
  /\ UNCHANGED <<counters, doc, fd, file, mixed, memory, view, shown, fails>>

\* Mutant: a collection that was read before is not read again.
Gather_Once(w) ==
  LET c == ListStats[seen[w] + 1]
  IN /\ Goes(w, "gather", IF seen[w] + 1 = Len(ListStats) THEN "check" ELSE "gather")
     /\ doc' = [doc EXCEPT ![w][c] = IF @ = 0 THEN Totals[c] ELSE @]
     /\ seen' = [seen EXCEPT ![w] = @ + 1]
     /\ UNCHANGED <<counters, updates, fd, file, mixed, memory, view, shown, fails>>

\* One query for each collection, while the daemon goes on counting.
Gather(w) ==
  LET c == ListStats[seen[w] + 1]
  IN /\ Goes(w, "gather", IF seen[w] + 1 = Len(ListStats) THEN "check" ELSE "gather")
     /\ doc' = [doc EXCEPT ![w][c] = Totals[c]]
     /\ seen' = [seen EXCEPT ![w] = @ + 1]
     /\ UNCHANGED <<counters, updates, fd, file, mixed, memory, view, shown, fails>>

\* commit_to_file: os.path.isfile.
Check(w) ==
  /\ Goes(w, "check", IF file = None THEN "open" ELSE "remove")
  /\ UNCHANGED <<counters, updates, doc, seen, fd, file, mixed, memory, view, shown, fails>>

\* os.remove.  When the other writer has removed the file already it raises:
\* the task fails, and supervisord starts the cron script again.
Remove(w) ==
  /\ IF file = None
       THEN Goes(w, "remove", "idle") /\ UNCHANGED <<file, fd>>
       ELSE /\ Goes(w, "remove", "open")
            /\ file' = None
            /\ fd' = [v \in Writer |-> IF fd[v] = "here" THEN "unlinked" ELSE fd[v]]
  /\ UNCHANGED <<counters, updates, doc, seen, mixed, memory, view, shown, fails>>

\* open(filename, 'w') makes the file, or empties the one that is there.
Open(w) ==
  /\ Goes(w, "open", "write")
  /\ file' = Empty
  /\ fd' = [fd EXCEPT ![w] = "here"]
  /\ mixed' = \E v \in Writer \ {w} : fd[v] = "here"
  /\ UNCHANGED <<counters, updates, doc, seen, memory, view, shown, fails>>

\* The first part of the text gets to the disk.
Write(w) ==
  /\ Goes(w, "write", "close")
  /\ file' = IF fd[w] = "here" THEN Broken ELSE file
  /\ UNCHANGED <<counters, updates, doc, seen, fd, mixed, memory, view, shown, fails>>

\* Mutant: the file keeps what was in it.
Close_Appends(w) ==
  /\ Goes(w, "close", IF STATS_SAVE_MEMORY THEN "cache" ELSE "idle")
  /\ UNCHANGED file
  /\ fd' = [fd EXCEPT ![w] = "none"]
  /\ UNCHANGED <<counters, updates, doc, seen, mixed, memory, view, shown, fails>>

\* The rest.  Where two writers shared the file, the longer text may stick out.
Close(w) ==
  /\ Goes(w, "close", IF STATS_SAVE_MEMORY THEN "cache" ELSE "idle")
  /\ IF fd[w] = "here"
       THEN file' \in {doc[w]} \cup {t \in {Broken} : mixed}
       ELSE UNCHANGED file
  /\ fd' = [fd EXCEPT ![w] = "none"]
  /\ UNCHANGED <<counters, updates, doc, seen, mixed, memory, view, shown, fails>>

\* Disk full, no permission: the exception is printed, and the file stays as it is.
WriteFails(w) ==
  /\ fails < MaxFails /\ fails' = fails + 1
  /\ pc[w] \in {"open", "write", "close"}
  /\ pc' = [pc EXCEPT ![w] = IF STATS_SAVE_MEMORY THEN "cache" ELSE "idle"]
  /\ fd' = [fd EXCEPT ![w] = "none"]
  /\ UNCHANGED <<counters, updates, doc, seen, file, mixed, memory, view, shown>>

\* commit_to_cache.
Cache(w) ==
  /\ Goes(w, "cache", "idle")
  /\ memory' = doc[w]
  /\ UNCHANGED <<counters, updates, doc, seen, fd, file, mixed, view, shown, fails>>

\* The key's timeout.
Forget ==
  /\ memory # None /\ memory' = None
  /\ UNCHANGED <<counters, updates, writers, file, mixed, view, shown, fails>>

-----------------------------------------------------------------------------
(***************************************************************************)
(* A reader: stats_json.                                                   *)
(***************************************************************************)
Shows(what) == view' = "idle" /\ shown' = what

\* memcached first, then the file, if there is one.
View ==
  /\ view = "idle"
  /\ IF STATS_SAVE_MEMORY /\ memory # None THEN Shows(memory)
     ELSE IF file = None THEN Shows(None)
     ELSE view' = "read" /\ UNCHANGED shown
  /\ UNCHANGED <<counters, updates, writers, file, mixed, memory, fails>>

\* A file that has gone since, or is empty, is nothing; a broken one raises.
Read ==
  /\ view = "read"
  /\ Shows(CASE file \in {None, Empty} -> None
             [] file = Broken -> Broken
             [] OTHER -> file)
  /\ UNCHANGED <<counters, updates, writers, file, mixed, memory, fails>>

-----------------------------------------------------------------------------
Works(w) ==
  Gather(w) \/ Check(w) \/ Remove(w) \/ Open(w) \/ Write(w) \/ Close(w) \/ Cache(w)

FileNext ==
  \/ \E w \in Writer : Start(w) \/ Works(w) \/ WriteFails(w)
  \/ Forget \/ View \/ Read
=============================================================================
