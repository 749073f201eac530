------------------------------ MODULE Statistics ------------------------------
(***************************************************************************)
(* From the request to the page: StatsPipeline counts, StatsFile publishes *)
(* the counters.  They share the counters and the queue of update tasks.   *)
(***************************************************************************)
EXTENDS StatsPipeline

CONSTANTS Writer, STATS_SAVE_MEMORY, MaxFails, Empty, Broken

VARIABLES pc, doc, seen, fd, file, mixed, memory, view, shown, fails

Pages == INSTANCE StatsFile

files == <<pc, doc, seen, fd, file, mixed, memory, view, shown, fails>>
vars == <<pipelineVars, files>>

Init == PipelineInit /\ Pages!FileInit

\* What a step of StatsFile leaves alone.
UNCHANGED_Pipeline ==
  UNCHANGED <<handler, logs, logsDaemon, docs, stats, statsDaemon, op, step, ops,
              crashes, history>>

Next ==
  \/ PipelineNext /\ UNCHANGED files
  \/ Pages!FileNext /\ UNCHANGED_Pipeline

\* The cron script goes round for ever, Celery runs its tasks, requests are served.
FileFairness ==
  /\ \A w \in Writer : WF_vars((Pages!Start(w) \/ Pages!Works(w)) /\ UNCHANGED_Pipeline)
  /\ WF_vars((Pages!View \/ Pages!Read) /\ UNCHANGED_Pipeline)

Spec == Init /\ [][Next]_vars /\ FileFairness

-----------------------------------------------------------------------------
\* Whatever goes wrong with the file, it comes right again: half a text, two
\* texts in one file, no file or an old one never stay when requests and
\* reloads stop.
FileHeals == []<>(file = Pages!Totals)

\* What the pages show in the end is what the counters say, or nothing: two
\* writers may overtake each other, but old statistics do not stay.
PagesCatchUp == <>[](shown \in {Pages!Totals, None, Broken})
=============================================================================
