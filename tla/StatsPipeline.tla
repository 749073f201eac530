----------------------------- MODULE StatsPipeline -----------------------------
(***************************************************************************)
(* How tile requests are counted.  A request's line goes to a log file and *)
(* to the "logs" stream; the logs daemon makes documents of the lines,     *)
(* stores them and sends their increments to the "statistics" stream; the  *)
(* statistics daemon adds them to the counters, one collection after the   *)
(* other.  Both take batches of a stream.  Operators clear and rebuild     *)
(* documents and counters meanwhile, several of them at the same time.     *)
(*                                                                         *)
(* An action ends where the code waits for MongoDB, a stream or a file.    *)
(***************************************************************************)
EXTENDS Naturals, Sequences

CONSTANTS
  Request,      \* tile requests
  ListStats,    \* TILEJET_LIST_STATS: the collections of counters, in order
  Operators,    \* operators' requests that may be under way together
  Operations,   \* what they ask for
  Faults,       \* what may go wrong
  MaxCrashes,   \* bound on crashes of the daemons
  MaxOps,       \* bound on operators' requests
  None

Stat == {ListStats[i] : i \in 1 .. Len(ListStats)}

ASSUME StatsAssumption ==
  /\ ListStats \in Seq(STRING) /\ ListStats # <<>>
  /\ \A i, j \in 1 .. Len(ListStats) : ListStats[i] = ListStats[j] => i = j
  /\ Operations \subseteq {"logs_clear", "logs_reload", "stats_clear", "stats_reload"}
  /\ Faults \subseteq {"mongo", "stream"}
  /\ MaxCrashes \in Nat /\ MaxOps \in Nat
  /\ None \notin {"logs_reload", "stats_clear", "stats_reload"}
  /\ None \notin [request : Request, crash : 0 .. MaxCrashes]

VARIABLES
  filed,           \* requests whose line is in a log file
  toLog,           \* of these, those whose handler has not come to the stream yet
  logs,            \* "logs" stream
  batch,           \* logs daemon: the batch in work,
  inserted,        \*   whether its documents were sent to MongoDB,
  sending,         \*   and what of it is to be sent on after that
  docs,            \* docs[r]: how many documents MongoDB holds of request r
  stats,           \* "statistics" stream
  taken, todo,     \* statistics daemon: the batch in work, the rest of it,
  inc, at,         \*   the message begun, the next collection
  counters,        \* counters[c][r]: how often r is counted in c; MongoDB holds the sum
  op, step,        \* operators: what they are at, the next collection
  updates,         \* "default" queue: is a taskUpdateStats waiting?
  crashes, ops,
  again, lost      \* history: requests that were delivered or read again, or dropped

handler == <<filed, toLog>>
logsDaemon == <<batch, inserted, sending>>
statsDaemon == <<taken, todo, inc, at>>
operator == <<op, step, updates, ops>>
history == <<again, lost>>
pipelineVars == <<handler, logs, logsDaemon, docs, stats, statsDaemon, counters,
                  operator, crashes, history>>

Last == Len(ListStats)

\* A line that is read again makes a second message: crash tells the two apart.
Message == [request : Request, crash : 0 .. MaxCrashes]
Requests(messages) == {m.request : m \in messages}

\* Requests whose document, or whose increment of c, is still to be written.
Undocumented == toLog \cup logs \cup {r \in batch : ~inserted}
Uncounted(c) ==
  Undocumented \cup sending \cup Requests(stats)
  \cup Requests({m \in todo : m = inc => \E i \in at .. Last : ListStats[i] = c})

PipelineInit ==
  /\ filed = {} /\ toLog = {}
  /\ logs = {} /\ batch = {} /\ inserted = FALSE /\ sending = {}
  /\ docs = [r \in Request |-> 0]
  /\ stats = {} /\ taken = {} /\ todo = {} /\ inc = None /\ at = 1
  /\ counters = [c \in Stat |-> [r \in Request |-> 0]]
  /\ op = [o \in Operators |-> None] /\ step = [o \in Operators |-> 1] /\ updates = FALSE
  /\ crashes = 0 /\ ops = 0
  /\ again = {} /\ lost = {}

-----------------------------------------------------------------------------
(***************************************************************************)
(* Request handlers: logTileRequest.                                       *)
(***************************************************************************)
WriteLine(r) ==
  /\ r \notin filed
  /\ filed' = filed \cup {r}
  /\ toLog' = toLog \cup {r}
  /\ UNCHANGED <<logs, logsDaemon, docs, stats, statsDaemon, counters, operator,
                 crashes, history>>

\* The stream may be down: the handler raises, and nobody sends the line again.
SendLine(r) ==
  /\ r \in toLog
  /\ toLog' = toLog \ {r}
  /\ \/ logs' = logs \cup {r} /\ UNCHANGED lost
     \/ "stream" \in Faults /\ logs' = logs /\ lost' = lost \cup {r}
  /\ UNCHANGED <<filed, logsDaemon, docs, stats, statsDaemon, counters, operator,
                 crashes, again>>

-----------------------------------------------------------------------------
(***************************************************************************)
(* The logs daemon: TileJetBrokerLogs._post, called with a batch.          *)
(***************************************************************************)
TakeLines(b) ==
  /\ batch = {} /\ b # {} /\ b \subseteq logs
  /\ batch' = b
  /\ logs' = logs \ b
  /\ UNCHANGED <<handler, inserted, sending, docs, stats, statsDaemon, counters, operator,
                 crashes, history>>

\* The documents are inserted without an acknowledgement (w=0): nobody notices
\* which of them MongoDB refuses, and the increments are sent in any case.
Insert ==
  /\ batch # {} /\ ~inserted
  /\ inserted' = TRUE
  /\ sending' = batch
  /\ \E stored \in SUBSET batch :
       /\ "mongo" \in Faults \/ stored = batch
       /\ docs' = [r \in Request |-> IF r \in stored THEN docs[r] + 1 ELSE docs[r]]
  /\ UNCHANGED <<handler, logs, batch, stats, statsDaemon, counters, operator,
                 crashes, history>>

\* Mutant: a message that was sent is still to be sent.
SendStats_Keeps(r) ==
  /\ r \in sending
  /\ stats' = stats \cup {[request |-> r, crash |-> crashes]}
  /\ UNCHANGED <<handler, logs, logsDaemon, docs, statsDaemon, counters, operator,
                 crashes, history>>

SendStats(r) ==
  /\ r \in sending
  /\ stats' = stats \cup {[request |-> r, crash |-> crashes]}
  /\ sending' = sending \ {r}
  /\ UNCHANGED <<handler, logs, batch, inserted, docs, statsDaemon, counters, operator,
                 crashes, history>>

\* _post returns.  It acknowledges nothing by itself: until now the batch is the
\* stream's as much as the daemon's.
LinesDone ==
  /\ inserted /\ sending = {}
  /\ batch' = {} /\ inserted' = FALSE
  /\ UNCHANGED <<handler, logs, sending, docs, stats, statsDaemon, counters, operator,
                 crashes, history>>

\* The daemon dies, and supervisord starts it again: some of the batch is
\* delivered again, what was sent on already included, and the rest is lost.
LogsDaemonDies ==
  /\ batch # {} /\ crashes < MaxCrashes
  /\ crashes' = crashes + 1
  /\ batch' = {} /\ inserted' = FALSE /\ sending' = {}
  /\ \E back \in SUBSET batch :
       /\ logs' = logs \cup back
       /\ again' = again \cup {r \in back : inserted}
       /\ lost' = lost \cup ((IF inserted THEN sending ELSE batch) \ back)
  /\ UNCHANGED <<handler, docs, stats, statsDaemon, counters, operator>>

-----------------------------------------------------------------------------
(***************************************************************************)
(* The statistics daemon: TileJetBrokerStats._post, called with a batch.   *)
(***************************************************************************)
TakeStats(b) ==
  /\ taken = {} /\ b # {} /\ b \subseteq stats
  /\ taken' = b /\ todo' = b
  /\ stats' = stats \ b
  /\ UNCHANGED <<handler, logs, logsDaemon, docs, inc, at, counters, operator, crashes, history>>

\* A message that was begun is in work until the last collection.
InWork(m) == m \in todo /\ inc \in {None, m}

\* Mutants: stops before the last collection; goes on after it.
GoesOn_OffByOne(m) ==
  IF at + 1 < Last THEN inc' = m /\ at' = at + 1 /\ UNCHANGED todo
                   ELSE inc' = None /\ at' = 1 /\ todo' = todo \ {m}
GoesOn_PastEnd(m) ==
  IF at <= Last THEN inc' = m /\ at' = at + 1 /\ UNCHANGED todo
                ELSE inc' = None /\ at' = 1 /\ todo' = todo \ {m}

\* The next collection of the message m, or the next message.
GoesOn(m) ==
  IF at < Last THEN inc' = m /\ at' = at + 1 /\ UNCHANGED todo
               ELSE inc' = None /\ at' = 1 /\ todo' = todo \ {m}

\* update with upsert and $inc, unacknowledged as well.
Increment(m) ==
  /\ InWork(m)
  /\ \/ counters' = [counters EXCEPT ![ListStats[at]][m.request] = @ + 1] /\ UNCHANGED lost
     \/ "mongo" \in Faults /\ UNCHANGED counters /\ lost' = lost \cup {m.request}
  /\ GoesOn(m)
  /\ UNCHANGED <<handler, logs, logsDaemon, docs, stats, taken, operator, crashes, again>>

StatsDone ==
  /\ taken # {} /\ todo = {}
  /\ taken' = {}
  /\ UNCHANGED <<handler, logs, logsDaemon, docs, stats, todo, inc, at, counters, operator,
                 crashes, history>>

\* As LogsDaemonDies: whatever of the batch was begun is counted again.
StatsDaemonDies ==
  /\ taken # {} /\ crashes < MaxCrashes
  /\ crashes' = crashes + 1
  /\ taken' = {} /\ todo' = {} /\ inc' = None /\ at' = 1
  /\ \E back \in SUBSET taken :
       /\ stats' = stats \cup back
       /\ again' = again \cup Requests({m \in back : m \in todo => m = inc})
       /\ lost' = lost \cup Requests(todo \ back)
  /\ UNCHANGED <<handler, logs, logsDaemon, docs, counters, operator>>

-----------------------------------------------------------------------------
(***************************************************************************)
(* Operators: logs_clear, logs_reload, stats_clear, stats_reload, each in  *)
(* a request handler of its own.  What clearLogs, reloadLogs, clearStats   *)
(* and reloadStats do is in a library.                                     *)
(***************************************************************************)
Begins(o, operation) ==
  /\ op[o] = None /\ operation \in Operations /\ ops < MaxOps
  /\ ops' = ops + 1
  /\ UNCHANGED step

Ends(o) == op' = [op EXCEPT ![o] = None] /\ step' = [step EXCEPT ![o] = 1]

\* logs_clear, and the first half of logs_reload.
ClearLogs(o, operation) ==
  /\ operation \in {"logs_clear", "logs_reload"}
  /\ Begins(o, operation)
  /\ op' = [op EXCEPT ![o] = IF operation = "logs_clear" THEN None ELSE operation]
  /\ docs' = [r \in Request |-> 0]
  /\ UNCHANGED <<handler, logs, logsDaemon, stats, statsDaemon, counters, updates,
                 crashes, history>>

\* Reads the log files.  A line that is in a file may be under way as well, or
\* another operator may have read it meanwhile.
ReloadLogs(o) ==
  /\ op[o] = "logs_reload"
  /\ docs' = [r \in Request |-> IF r \in filed THEN docs[r] + 1 ELSE docs[r]]
  /\ again' = again \cup {r \in filed : docs[r] > 0 \/ r \in Undocumented}
  /\ Ends(o)
  /\ UNCHANGED <<handler, logs, logsDaemon, stats, statsDaemon, counters, updates,
                 ops, crashes, lost>>

BeginStats(o, operation) ==
  /\ operation \in {"stats_clear", "stats_reload"}
  /\ Begins(o, operation)
  /\ op' = [op EXCEPT ![o] = operation]
  /\ UNCHANGED <<handler, logs, logsDaemon, docs, stats, statsDaemon, counters, updates,
                 crashes, history>>

\* One collection after the other.  When all are done, stats_reload has the
\* file of statistics updated too.
StepStats(o) ==
  LET c == ListStats[step[o]]
      new == [r \in Request |-> IF op[o] = "stats_clear" THEN 0 ELSE docs[r]]
  IN /\ op[o] \in {"stats_clear", "stats_reload"}
     /\ counters' = [counters EXCEPT ![c] = new]
     /\ again' = again \cup {r \in Uncounted(c) : new[r] > 0}
     /\ lost' = lost \cup {r \in Request : new[r] = 0 /\ counters[c][r] > 0}
     /\ IF step[o] < Last
          THEN step' = [step EXCEPT ![o] = @ + 1] /\ UNCHANGED <<op, updates>>
          ELSE Ends(o) /\ updates' = (updates \/ op[o] = "stats_reload")
     /\ UNCHANGED <<handler, logs, logsDaemon, docs, stats, statsDaemon, ops, crashes>>

-----------------------------------------------------------------------------
Daemons ==
  \/ \E b \in SUBSET logs : TakeLines(b)
  \/ Insert \/ (\E r \in sending : SendStats(r)) \/ LinesDone
  \/ \E b \in SUBSET stats : TakeStats(b)
  \/ (\E m \in todo : Increment(m)) \/ StatsDone

Operator(o) ==
  \/ \E operation \in Operations : ClearLogs(o, operation) \/ BeginStats(o, operation)
  \/ ReloadLogs(o) \/ StepStats(o)

PipelineNext ==
  \/ \E r \in Request : WriteLine(r) \/ SendLine(r)
  \/ Daemons \/ \E o \in Operators : Operator(o)
  \/ LogsDaemonDies \/ StatsDaemonDies

PipelineSpec == PipelineInit /\ [][PipelineNext]_pipelineVars

-----------------------------------------------------------------------------
(***************************************************************************)
(* Properties.                                                             *)
(***************************************************************************)

\* Every variable has its type; a line under way has been written to its file.
PipelineTypeOK ==
  /\ filed \subseteq Request /\ toLog \subseteq filed
  /\ logs \subseteq filed /\ batch \subseteq filed
  /\ inserted \in BOOLEAN /\ sending \subseteq batch
  /\ (~inserted => sending = {}) /\ (inserted => batch # {})
  /\ docs \in [Request -> Nat]
  /\ stats \subseteq Message /\ taken \subseteq Message /\ Requests(stats \cup taken) \subseteq filed
  /\ todo \subseteq taken /\ inc \in todo \cup {None}
  /\ at \in 1 .. Last /\ (inc = None => at = 1)
  /\ counters \in [Stat -> [Request -> Nat]]
  /\ op \in [Operators -> {None, "logs_reload", "stats_clear", "stats_reload"}]
  /\ step \in [Operators -> 1 .. Last] /\ updates \in BOOLEAN
  /\ crashes \in 0 .. MaxCrashes /\ ops \in 0 .. MaxOps
  /\ again \subseteq Request /\ lost \subseteq Request

\* A request is counted twice in a collection only if a stream delivered it
\* again after a crash, or a reload took it in while it was still under way.
CountedOnce ==
  \A r \in Request \ again : docs[r] <= 1 /\ \A c \in Stat : counters[c][r] <= 1

\* A request that has been logged gets into every collection, unless a crash,
\* an unacknowledged write or an operator dropped it: no interleaving of the
\* daemons and the reloads skips one.
NoneMissed ==
  \A r \in filed \ lost, c \in Stat : r \in Uncounted(c) \/ counters[c][r] > 0
=============================================================================
