---------------------------- MODULE StatisticsProofs ----------------------------
(***************************************************************************)
(* Nothing is counted twice, and nothing is missed, but for what a crash,  *)
(* a write that nobody acknowledges or an operator did to it: for every    *)
(* set of requests, every list of collections and every interleaving of    *)
(* handlers, daemons, operators and writers of the file.                   *)
(*                                                                         *)
(* NoneMissed is inductive with the types.  CountedOnce is not: that a     *)
(* counter is at most 1 says nothing of an increment that is still to      *)
(* come.  CountInv adds that a request that was never delivered again is   *)
(* in one place of the pipeline only, and that what lies behind that place *)
(* is still 0.                                                             *)
(***************************************************************************)
EXTENDS Statistics, TLAPS

\* The message of the daemon's batch is still to be added to c.
Pending(m, c) == m \in todo /\ (m = inc => \E i \in at .. Last : ListStats[i] = c)

\* The request is under way to c, as a message or as a line.
Sent(r, c) ==
  \/ \E m \in stats : m.request = r
  \/ \E m \in todo : m.request = r /\ Pending(m, c)
Waits(r, c) ==
  r \in toLog \/ r \in logs \/ (r \in batch /\ ~inserted) \/ r \in sending \/ Sent(r, c)

\* The request has no message, in the stream or in the daemon's batch.
NoMessage(r) == \A m \in stats \cup taken : m.request # r

\* The request is under way in one place, with one message at most.  A message
\* that is done stays in its batch, so does a line that was sent on.
OnePlace(r) ==
  /\ r \in toLog => r \notin logs /\ r \notin batch /\ NoMessage(r)
  /\ r \in logs => r \notin batch /\ NoMessage(r)
  /\ r \in batch /\ (~inserted \/ r \in sending) => NoMessage(r)
  /\ \A m, n \in stats \cup taken : m.request = r /\ n.request = r => m = n
  /\ \A m \in stats : m.request = r => m \notin taken

\* What is still to be written of it is not written yet, and the rest is once.
Fresh(r) ==
  /\ OnePlace(r)
  /\ docs[r] <= 1 /\ (r \in Undocumented => docs[r] = 0)
  /\ \A c \in Stat : counters[c][r] <= 1 /\ (Waits(r, c) => counters[c][r] = 0)

\* Nothing is written of a request that has not been made.
Unfiled(r) == docs[r] = 0 /\ \A c \in Stat : counters[c][r] = 0

CountInv ==
  /\ \A r \in Request \ filed : Unfiled(r)
  /\ \A r \in Request \ again : Fresh(r)

\* The steps of the writers and readers of the file, seen from the pipeline.
FileStands ==
  /\ UNCHANGED <<handler, logs, logsDaemon, docs, stats, statsDaemon, counters, op, step, ops,
                 crashes, history>>
  /\ updates' \in BOOLEAN

PipelineStep == PipelineNext \/ FileStands

-----------------------------------------------------------------------------
(***************************************************************************)
(* The list of collections.                                                *)
(***************************************************************************)
LEMMA ListFacts ==
  /\ Last \in Nat /\ Last >= 1
  /\ \A i \in 1 .. Last : ListStats[i] \in Stat
  /\ \A i, j \in 1 .. Last : ListStats[i] = ListStats[j] => i = j
  /\ \A c \in Stat : \E i \in 1 .. Last : ListStats[i] = c
<1>1. Len(ListStats) \in Nat /\ Len(ListStats) >= 1
      /\ DOMAIN ListStats = 1 .. Len(ListStats)
  BY StatsAssumption
<1> QED BY <1>1, StatsAssumption DEF Last, Stat

\* What the message in work has still to be added to: everything at the start,
\* then all that does not come before.
LEMMA UncountedAtStart ==
  ASSUME NEW c \in Stat
  PROVE  \E i \in 1 .. Last : ListStats[i] = c
BY ListFacts

LEMMA UncountedNext ==
  ASSUME NEW a \in 1 .. Last, NEW c \in Stat
  PROVE  (\E i \in a .. Last : ListStats[i] = c)
         <=> c = ListStats[a] \/ \E i \in a + 1 .. Last : ListStats[i] = c
<1>1. a .. Last = {a} \cup a + 1 .. Last
  BY ListFacts
<1> QED BY <1>1

LEMMA CountedIsPast ==
  ASSUME NEW a \in 1 .. Last
  PROVE  ~\E i \in a + 1 .. Last : ListStats[i] = ListStats[a]
<1>1. \A i \in a + 1 .. Last : i \in 1 .. Last /\ i # a
  BY ListFacts
<1> QED BY <1>1, ListFacts

-----------------------------------------------------------------------------
(***************************************************************************)
(* Types.                                                                  *)
(***************************************************************************)
LEMMA InitTyped == PipelineInit => PipelineTypeOK
<1> SUFFICES ASSUME PipelineInit PROVE PipelineTypeOK
  OBVIOUS
<1> USE DEF PipelineInit
<1>1. docs \in [Request -> Nat] /\ counters \in [Stat -> [Request -> Nat]]
  BY Zenon
<1>2. 1 \in 1 .. Last /\ 0 \in 0 .. MaxCrashes /\ 0 \in 0 .. MaxOps
  BY ListFacts, StatsAssumption
<1>3. op \in [Operators -> {None, "logs_reload", "stats_clear", "stats_reload"}]
      /\ step \in [Operators -> 1 .. Last]
  BY <1>2
<1> QED BY <1>1, <1>2, <1>3 DEF PipelineTypeOK, Requests

\* An operator who ends, or goes on with the next collection.
LEMMA EndsTyped ==
  ASSUME PipelineTypeOK, NEW o \in Operators, Ends(o)
  PROVE  /\ op' \in [Operators -> {None, "logs_reload", "stats_clear", "stats_reload"}]
         /\ step' \in [Operators -> 1 .. Last]
BY ListFacts DEF Ends, PipelineTypeOK

\* The rest of the batch and the message begun.
LEMMA GoesOnTyped ==
  ASSUME PipelineTypeOK, NEW m, InWork(m), GoesOn(m)
  PROVE  /\ m \in Message /\ m.request \in Request /\ m \in todo /\ m # None
         /\ at \in 1 .. Last /\ ListStats[at] \in Stat
         /\ todo' \subseteq taken /\ inc' \in todo' \cup {None}
         /\ at' \in 1 .. Last /\ (inc' = None => at' = 1)
<1> HIDE DEF Last, Stat
<1>1. m \in Message /\ m.request \in Request /\ m \in todo /\ m # None
  BY StatsAssumption DEF InWork, PipelineTypeOK, Message
<1>2. at \in 1 .. Last /\ ListStats[at] \in Stat
  BY ListFacts DEF PipelineTypeOK
<1>3. todo' \subseteq taken /\ inc' \in todo' \cup {None}
  BY <1>1 DEF GoesOn, PipelineTypeOK
<1>4. at' \in 1 .. Last /\ (inc' = None => at' = 1)
  BY <1>1, <1>2, ListFacts DEF GoesOn
<1> QED BY <1>1, <1>2, <1>3, <1>4

LEMMA StepTyped == PipelineTypeOK /\ [PipelineStep]_pipelineVars => PipelineTypeOK'
<1> SUFFICES ASSUME PipelineTypeOK, [PipelineStep]_pipelineVars PROVE PipelineTypeOK'
  OBVIOUS
<1> USE DEF handler, logsDaemon, statsDaemon, operator, history, PipelineTypeOK, Requests
<1> HIDE DEF Last, Stat
<1>1. ASSUME NEW r \in Request, WriteLine(r) \/ SendLine(r) PROVE PipelineTypeOK'
  BY <1>1 DEF WriteLine, SendLine
<1>2. ASSUME NEW b \in SUBSET logs, TakeLines(b) PROVE PipelineTypeOK'
  BY <1>2 DEF TakeLines
<1>3. CASE Insert
  BY <1>3 DEF Insert
<1>4. ASSUME NEW r \in sending, SendStats(r) PROVE PipelineTypeOK'
  <2>1. r \in Request /\ [request |-> r, crash |-> crashes] \in Message
    BY DEF Message
  <2>2. stats' \subseteq Message /\ Requests(stats' \cup taken) \subseteq filed
    BY <1>4, <2>1 DEF SendStats
  <2> QED BY <1>4, <2>2 DEF SendStats
<1>5. CASE LinesDone
  BY <1>5 DEF LinesDone
<1>6. CASE LogsDaemonDies
  <2>1. again' \subseteq Request /\ lost' \subseteq Request /\ logs' \subseteq filed
    BY <1>6, Zenon DEF LogsDaemonDies
  <2>2. crashes' \in 0 .. MaxCrashes
    BY <1>6, StatsAssumption DEF LogsDaemonDies
  <2>3. /\ batch' = {} /\ inserted' = FALSE /\ sending' = {}
        /\ UNCHANGED <<handler, docs, stats, statsDaemon, counters, operator>>
    BY <1>6 DEF LogsDaemonDies
  <2> QED BY <2>1, <2>2, <2>3
<1>7. ASSUME NEW b \in SUBSET stats, TakeStats(b) PROVE PipelineTypeOK'
  BY <1>7, ListFacts DEF TakeStats
<1>8. ASSUME NEW m \in todo, Increment(m) PROVE PipelineTypeOK'
  <2>1. InWork(m) /\ GoesOn(m)
    BY <1>8 DEF Increment
  <2>2. m.request \in Request /\ ListStats[at] \in Stat
    BY <2>1, GoesOnTyped
  <2>3. counters' \in [Stat -> [Request -> Nat]]
    <3>1. counters' = counters \/ counters' = [counters EXCEPT ![ListStats[at]][m.request] = @ + 1]
      BY <1>8, Zenon DEF Increment
    <3>2. counters \in [Stat -> [Request -> Nat]]
      OBVIOUS
    <3> HIDE DEF PipelineTypeOK
    <3> QED BY <2>2, <3>1, <3>2
  <2>4. /\ todo' \subseteq taken /\ inc' \in todo' \cup {None}
        /\ at' \in 1 .. Last /\ (inc' = None => at' = 1)
    BY <2>1, GoesOnTyped
  <2> QED BY <1>8, <2>2, <2>3, <2>4 DEF Increment
<1>9. CASE StatsDone
  BY <1>9 DEF StatsDone
<1>10. CASE StatsDaemonDies
  <2>1. again' \subseteq Request /\ lost' \subseteq Request /\ crashes' \in 0 .. MaxCrashes
    BY <1>10, StatsAssumption DEF StatsDaemonDies, Message
  <2>2. stats' \subseteq Message /\ Requests(stats') \subseteq filed
    BY <1>10 DEF StatsDaemonDies
  <2> QED BY <1>10, <2>1, <2>2, ListFacts DEF StatsDaemonDies
<1>11. ASSUME NEW o \in Operators, NEW a \in Operations, ClearLogs(o, a) \/ BeginStats(o, a)
       PROVE  PipelineTypeOK'
  <2>1. ops' \in 0 .. MaxOps /\ step' = step
    BY <1>11, StatsAssumption DEF ClearLogs, BeginStats, Begins
  <2>2. op' \in [Operators -> {None, "logs_reload", "stats_clear", "stats_reload"}]
    BY <1>11 DEF ClearLogs, BeginStats
  <2>3. docs' \in [Request -> Nat]
    BY <1>11 DEF ClearLogs, BeginStats
  <2> QED BY <1>11, <2>1, <2>2, <2>3 DEF ClearLogs, BeginStats
<1>12. ASSUME NEW o \in Operators, ReloadLogs(o) PROVE PipelineTypeOK'
  <2>1. docs' \in [Request -> Nat] /\ again' \subseteq Request
    BY <1>12 DEF ReloadLogs
  <2>2. Ends(o)
    BY <1>12 DEF ReloadLogs
  <2> QED BY <1>12, <2>1, <2>2, EndsTyped DEF ReloadLogs
<1>13. ASSUME NEW o \in Operators, StepStats(o) PROVE PipelineTypeOK'
  <2> DEFINE c == ListStats[step[o]]
             new == [r \in Request |-> IF op[o] = "stats_clear" THEN 0 ELSE docs[r]]
  <2>1. c \in Stat /\ new \in [Request -> Nat]
    BY ListFacts
  <2>2. Uncounted(c) \subseteq Request
    BY DEF Uncounted, Undocumented, Message
  <2>3. /\ counters' = [counters EXCEPT ![c] = new]
        /\ again' \subseteq Request /\ lost' \subseteq Request
    BY <1>13, <2>2 DEF StepStats
  <2>4. counters' \in [Stat -> [Request -> Nat]]
    <3>1. counters \in [Stat -> [Request -> Nat]]
      OBVIOUS
    <3> HIDE DEF c, new, PipelineTypeOK
    <3> QED BY <2>1, <2>3, <3>1
  <2>5. /\ op' \in [Operators -> {None, "logs_reload", "stats_clear", "stats_reload"}]
        /\ step' \in [Operators -> 1 .. Last]
    <3>1. CASE step[o] < Last
      <4>1. op' = op /\ step' = [step EXCEPT ![o] = @ + 1]
        BY <1>13, <3>1 DEF StepStats
      <4>2. step[o] + 1 \in 1 .. Last
        BY <3>1, ListFacts
      <4> QED BY <4>1, <4>2
    <3>2. CASE ~(step[o] < Last)
      <4>1. Ends(o)
        BY <1>13, <3>2 DEF StepStats
      <4> QED BY <4>1, EndsTyped
    <3> QED BY <3>1, <3>2
  <2>6. updates' \in BOOLEAN
    BY <1>13, Zenon DEF StepStats
  <2> HIDE DEF new
  <2> QED BY <1>13, <2>3, <2>4, <2>5, <2>6 DEF StepStats
<1>14. CASE FileStands
  BY <1>14 DEF FileStands
<1>15. CASE UNCHANGED pipelineVars
  BY <1>15 DEF pipelineVars
<1> QED BY <1>1, <1>2, <1>3, <1>4, <1>5, <1>6, <1>7, <1>8, <1>9, <1>10, <1>11, <1>12, <1>13,
           <1>14, <1>15
        DEF PipelineStep, PipelineNext, Daemons, Operator

-----------------------------------------------------------------------------
(***************************************************************************)
(* Nothing is missed.                                                      *)
(***************************************************************************)
LEMMA UncountedPlaces ==
  ASSUME NEW r, NEW c
  PROVE  r \in Uncounted(c) <=> Waits(r, c)
BY DEF Uncounted, Undocumented, Requests, Waits, Sent, Pending

LEMMA UncountedPlacesNext ==
  ASSUME NEW r, NEW c
  PROVE  (r \in Uncounted(c))' <=> Waits(r, c)'
BY DEF Uncounted, Undocumented, Requests, Waits, Sent, Pending

LEMMA InitNoneMissed == PipelineInit => NoneMissed
BY DEF PipelineInit, NoneMissed

\* NoneMissed in terms of the places.
Awaited(r, c) == Waits(r, c) \/ counters[c][r] > 0

LEMMA NoneMissedPlaces == NoneMissed <=> \A r \in filed \ lost, c \in Stat : Awaited(r, c)
BY UncountedPlaces DEF NoneMissed, Awaited

LEMMA NoneMissedPlacesNext ==
  NoneMissed' <=> \A r \in filed' \ lost', c \in Stat : Awaited(r, c)'
BY UncountedPlacesNext DEF NoneMissed, Awaited

\* What a message of the rest of the batch is still to be added to, after one
\* increment of the message n.
LEMMA GoesOnPending ==
  ASSUME PipelineTypeOK, NEW n, InWork(n), GoesOn(n), NEW m, NEW c \in Stat
  PROVE  Pending(m, c)' <=> Pending(m, c) /\ ~(m = n /\ c = ListStats[at])
<1> HIDE DEF Last, Stat
<1>1. n \in todo /\ n # None /\ at \in 1 .. Last /\ inc \in {None, n} /\ (inc = None => at = 1)
      /\ None \notin todo
  BY GoesOnTyped, StatsAssumption DEF InWork, PipelineTypeOK, Message
<1>2. CASE at < Last
  <2>1. inc' = n /\ at' = at + 1 /\ todo' = todo
    BY <1>2 DEF GoesOn
  <2>2. CASE m # n
    BY <1>1, <2>1, <2>2 DEF Pending
  <2>3. CASE m = n
    <3>1. Pending(m, c) <=> \E i \in at .. Last : ListStats[i] = c
      BY <1>1, <2>3, UncountedAtStart DEF Pending
    <3>2. Pending(m, c)' <=> \E i \in at + 1 .. Last : ListStats[i] = c
      BY <1>1, <2>1, <2>3 DEF Pending
    <3> QED BY <1>1, <2>3, <3>1, <3>2, UncountedNext, CountedIsPast
  <2> QED BY <2>2, <2>3
<1>3. CASE ~(at < Last)
  <2>1. inc' = None /\ todo' = todo \ {n} /\ at = Last
    BY <1>1, <1>3, ListFacts DEF GoesOn
  <2>2. CASE m # n
    BY <1>1, <2>1, <2>2 DEF Pending
  <2>3. CASE m = n
    <3>1. ~Pending(m, c)'
      BY <2>1, <2>3 DEF Pending
    <3>2. ~\E i \in at + 1 .. Last : ListStats[i] = c
      BY <2>1, ListFacts
    <3>3. Pending(m, c) => \E i \in at .. Last : ListStats[i] = c
      BY <1>1, <2>3, UncountedAtStart DEF Pending
    <3> QED BY <1>1, <2>3, <3>1, <3>2, <3>3, UncountedNext
  <2> QED BY <2>2, <2>3
<1> QED BY <1>2, <1>3

\* One increment leaves the other places of the pipeline alone.
LEMMA IncrementPlaces ==
  ASSUME PipelineTypeOK, NEW n, Increment(n), NEW r, NEW c \in Stat
  PROVE  /\ Waits(r, c)' => Waits(r, c)
         /\ Waits(r, c) => Waits(r, c)' \/ (r = n.request /\ c = ListStats[at])
<1> HIDE DEF Last, Stat
<1>1. InWork(n) /\ GoesOn(n) /\ UNCHANGED <<toLog, logs, batch, inserted, sending, stats>>
  BY DEF Increment, handler, logsDaemon
<1>2. \A m : Pending(m, c)' <=> Pending(m, c) /\ ~(m = n /\ c = ListStats[at])
  BY <1>1, GoesOnPending
<1>3. \A m : (m \in todo' => m \in todo) /\ (Pending(m, c)' => m \in todo')
  BY <1>1 DEF GoesOn, Pending
<1>4. stats' = stats
  BY <1>1
<1>5. Sent(r, c)' => Sent(r, c)
  BY <1>2, <1>3, <1>4 DEF Sent
<1>6. ASSUME NEW m \in todo, m.request = r, Pending(m, c), ~(r = n.request /\ c = ListStats[at])
      PROVE  Sent(r, c)'
  <2>1. Pending(m, c)' /\ m \in todo'
    BY <1>2, <1>3, <1>6
  <2> QED BY <1>6, <2>1 DEF Sent
<1>7. Sent(r, c) => Sent(r, c)' \/ (r = n.request /\ c = ListStats[at])
  BY <1>4, <1>6 DEF Sent
<1>8. UNCHANGED <<toLog, logs, batch, inserted, sending>>
  BY <1>1
<1> QED BY <1>5, <1>7, <1>8 DEF Waits

\* The statistics daemon stands, and no message leaves its stream.
LEMMA StandsSent ==
  ASSUME UNCHANGED <<todo, inc, at>>, stats \subseteq stats', NEW r, NEW c, Sent(r, c)
  PROVE  Sent(r, c)'
<1>1. \A m : Pending(m, c)' <=> Pending(m, c)
  BY DEF Pending
<1> QED BY <1>1 DEF Sent

\* A counter after one increment, or after one that MongoDB did not take.
LEMMA IncrementCounts ==
  ASSUME PipelineTypeOK, NEW n, Increment(n), NEW r \in Request, NEW c \in Stat
  PROVE  /\ counters[c][r] \in Nat /\ n.request \in Request
         /\ ~(r = n.request /\ c = ListStats[at]) => counters'[c][r] = counters[c][r]
         /\ counters'[c][r] \in {counters[c][r], counters[c][r] + 1}
         /\ r \notin lost' /\ r = n.request /\ c = ListStats[at]
              => counters'[c][r] = counters[c][r] + 1
<1> HIDE DEF Last, Stat
<1>1. n.request \in Request /\ ListStats[at] \in Stat
  BY GoesOnTyped DEF Increment
<1>2. counters \in [Stat -> [Request -> Nat]]
  BY DEF PipelineTypeOK
<1>3. \/ counters' = [counters EXCEPT ![ListStats[at]][n.request] = @ + 1]
      \/ counters' = counters /\ n.request \in lost'
  BY DEF Increment
<1>4. CASE counters' = counters /\ n.request \in lost'
  BY <1>1, <1>2, <1>4
<1>5. CASE counters' = [counters EXCEPT ![ListStats[at]][n.request] = @ + 1]
  <2>1. counters'[c][r] = IF r = n.request /\ c = ListStats[at] THEN counters[c][r] + 1
                                                                ELSE counters[c][r]
    BY <1>1, <1>2, <1>5
  <2> QED BY <1>1, <1>2, <2>1
<1> QED BY <1>3, <1>4, <1>5

LEMMA IncrementMisses ==
  ASSUME PipelineTypeOK, NEW n, Increment(n), NEW r \in filed \ lost', NEW c \in Stat, Awaited(r, c)
  PROVE  Awaited(r, c)'
<1> HIDE DEF Last, Stat
<1>1. r \in Request
  BY DEF PipelineTypeOK
<1> QED BY <1>1, IncrementPlaces, IncrementCounts DEF Awaited

\* A clear or a reload of one collection: what it sets to 0 is under way, or was
\* 0 before, or is lost.
LEMMA StepStatsMisses ==
  ASSUME PipelineTypeOK, NEW o \in Operators, StepStats(o),
         NEW r \in filed \ lost', NEW c \in Stat, Awaited(r, c)
  PROVE  Awaited(r, c)'
<1> DEFINE d == ListStats[step[o]]
           new == [q \in Request |-> IF op[o] = "stats_clear" THEN 0 ELSE docs[q]]
<1> HIDE DEF Last, Stat
<1>1. d \in Stat /\ r \in Request /\ new[r] \in Nat /\ counters \in [Stat -> [Request -> Nat]]
  BY ListFacts DEF PipelineTypeOK
<1>2. /\ counters' = [counters EXCEPT ![d] = new]
      /\ ~(new[r] = 0 /\ counters[d][r] > 0)
      /\ UNCHANGED <<toLog, logs, batch, inserted, sending, stats, todo, inc, at>>
  BY <1>1 DEF StepStats, handler, logsDaemon, statsDaemon
<1> HIDE DEF new, d
<1>3. CASE counters[c][r] > 0
  <2>1. counters'[c][r] > 0
    BY <1>1, <1>2, <1>3
  <2> QED BY <2>1 DEF Awaited
<1>4. CASE ~(counters[c][r] > 0)
  BY <1>2, <1>4, StandsSent DEF Awaited, Waits
<1> QED BY <1>3, <1>4

LEMMA StepMisses ==
  PipelineTypeOK /\ NoneMissed /\ [PipelineStep]_pipelineVars => NoneMissed'
<1> SUFFICES ASSUME PipelineTypeOK, [PipelineStep]_pipelineVars,
                    \A r \in filed \ lost, c \in Stat : Awaited(r, c),
                    NEW r \in filed' \ lost', NEW c \in Stat
             PROVE  Awaited(r, c)'
  BY NoneMissedPlaces, NoneMissedPlacesNext
<1> USE DEF handler, logsDaemon, statsDaemon, operator, history, Awaited, Waits
<1> HIDE DEF Last, Stat
<1>0. ASSUME UNCHANGED <<todo, inc, at>>, stats \subseteq stats', Sent(r, c) PROVE Sent(r, c)'
  BY <1>0, StandsSent
<1>1. ASSUME NEW q \in Request, WriteLine(q) \/ SendLine(q) PROVE Awaited(r, c)'
  BY <1>0, <1>1 DEF WriteLine, SendLine
<1>2. ASSUME NEW b \in SUBSET logs, TakeLines(b) PROVE Awaited(r, c)'
  <2>1. ~inserted
    BY <1>2 DEF TakeLines, PipelineTypeOK
  <2> QED BY <1>0, <1>2, <2>1 DEF TakeLines
<1>3. CASE Insert
  <2>1. Sent(r, c) => Sent(r, c)'
    BY <1>0, <1>3 DEF Insert
  <2>2. sending' = batch /\ UNCHANGED <<toLog, logs, lost, counters, filed>>
        /\ (inserted => FALSE)
    BY <1>3 DEF Insert
  <2>3. sending = {}
    BY <2>2 DEF PipelineTypeOK
  <2> QED BY <2>1, <2>2, <2>3
<1>4. ASSUME NEW q \in sending, SendStats(q) PROVE Awaited(r, c)'
  <2>1. Sent(r, c) => Sent(r, c)'
    BY <1>0, <1>4 DEF SendStats
  <2>2. CASE q = r
    <3>1. \E m \in stats' : m.request = r
      <4> DEFINE m == [request |-> q, crash |-> crashes]
      <4>1. m \in stats' /\ m.request = r
        BY <1>4, <2>2 DEF SendStats
      <4> QED BY <4>1
    <3> QED BY <3>1 DEF Sent
  <2> QED BY <1>4, <2>1, <2>2 DEF SendStats
<1>5. CASE LinesDone
  BY <1>0, <1>5 DEF LinesDone
<1>6. CASE LogsDaemonDies
  <2>1. Sent(r, c) => Sent(r, c)'
    BY <1>0, <1>6 DEF LogsDaemonDies
  <2>2. /\ r \in batch /\ ~inserted => r \in logs'
        /\ r \in sending => r \in logs'
        /\ r \in logs => r \in logs'
    <3>1. PICK back \in SUBSET batch :
            /\ logs' = logs \cup back
            /\ lost' = lost \cup ((IF inserted THEN sending ELSE batch) \ back)
      BY <1>6 DEF LogsDaemonDies
    <3>2. CASE inserted
      BY <3>1, <3>2
    <3>3. CASE ~inserted
      BY <3>1, <3>3 DEF PipelineTypeOK
    <3> QED BY <3>2, <3>3
  <2> QED BY <1>6, <2>1, <2>2 DEF LogsDaemonDies
<1>7. ASSUME NEW b \in SUBSET stats, TakeStats(b) PROVE Awaited(r, c)'
  <2>1. /\ inc = None /\ None \notin b /\ todo = {}
        /\ inc' = inc /\ todo' = b /\ stats' = stats \ b
    BY <1>7, StatsAssumption DEF TakeStats, PipelineTypeOK, Message
  <2>2. \A m \in b : Pending(m, c)'
    BY <2>1 DEF Pending
  <2>3. Sent(r, c) => Sent(r, c)'
    BY <2>1, <2>2 DEF Sent
  <2> QED BY <1>7, <2>3 DEF TakeStats
<1>8. ASSUME NEW m \in todo, Increment(m) PROVE Awaited(r, c)'
  <2>1. r \in filed \ lost
    BY <1>8 DEF Increment
  <2> QED BY <1>8, <2>1, IncrementMisses
<1>9. CASE StatsDone
  BY <1>0, <1>9 DEF StatsDone
<1>10. CASE StatsDaemonDies
  <2>1. r \notin lost
    BY <1>10 DEF StatsDaemonDies
  <2>2. Sent(r, c) => \E m \in stats' : m.request = r
    BY <1>10 DEF StatsDaemonDies, Requests, Sent, Pending, PipelineTypeOK
  <2> QED BY <1>10, <2>2 DEF StatsDaemonDies, Sent
<1>11. ASSUME NEW o \in Operators, NEW a \in Operations, ClearLogs(o, a) \/ BeginStats(o, a)
       PROVE  Awaited(r, c)'
  BY <1>0, <1>11 DEF ClearLogs, BeginStats
<1>12. ASSUME NEW o \in Operators, ReloadLogs(o) PROVE Awaited(r, c)'
  BY <1>0, <1>12 DEF ReloadLogs
<1>13. ASSUME NEW o \in Operators, StepStats(o) PROVE Awaited(r, c)'
  <2>1. r \in filed \ lost
    BY <1>13 DEF StepStats
  <2> QED BY <1>13, <2>1, StepStatsMisses
<1>14. CASE FileStands
  BY <1>0, <1>14 DEF FileStands
<1>15. CASE UNCHANGED pipelineVars
  BY <1>0, <1>15 DEF pipelineVars
<1> QED BY <1>1, <1>2, <1>3, <1>4, <1>5, <1>6, <1>7, <1>8, <1>9, <1>10, <1>11, <1>12, <1>13,
           <1>14, <1>15
        DEF PipelineStep, PipelineNext, Daemons, Operator

-----------------------------------------------------------------------------
(***************************************************************************)
(* Nothing is counted twice.                                               *)
(***************************************************************************)
LEMMA InitCount == PipelineInit => CountInv
BY DEF PipelineInit, CountInv, Unfiled, Fresh, OnePlace, NoMessage, Undocumented, Waits, Sent

\* A request that has not been made is nowhere.
LEMMA StepUnfiled ==
  ASSUME PipelineTypeOK, [PipelineStep]_pipelineVars, NEW r \in Request \ filed', Unfiled(r)
  PROVE  Unfiled(r)'
<1> USE DEF handler, logsDaemon, statsDaemon, operator, history, Unfiled
<1> HIDE DEF Last, Stat
<1>1. r \notin filed
  BY DEF PipelineStep, PipelineNext, Daemons, Operator, FileStands,
     WriteLine, SendLine, TakeLines, Insert, SendStats, LinesDone, LogsDaemonDies, TakeStats,
     Increment, StatsDone, StatsDaemonDies, ClearLogs, BeginStats, ReloadLogs, StepStats, pipelineVars
<1>2. CASE docs' = docs /\ counters' = counters
  BY <1>2
<1>3. CASE Insert
  <2>1. r \notin batch
    BY <1>1 DEF PipelineTypeOK
  <2>2. docs'[r] = docs[r] /\ counters' = counters
    BY <1>3, <2>1 DEF Insert
  <2> QED BY <2>2
<1>4. ASSUME NEW m \in todo, Increment(m) PROVE Unfiled(r)'
  <2>1. r # m.request
    BY <1>1 DEF PipelineTypeOK, Requests
  <2>2. \A c \in Stat : counters'[c][r] = counters[c][r]
    BY <1>4, <2>1, IncrementCounts
  <2> QED BY <1>4, <2>2 DEF Increment
<1>5. ASSUME NEW o \in Operators, NEW a \in Operations, ClearLogs(o, a) PROVE Unfiled(r)'
  BY <1>5 DEF ClearLogs
<1>6. ASSUME NEW o \in Operators, ReloadLogs(o) PROVE Unfiled(r)'
  BY <1>1, <1>6 DEF ReloadLogs
<1>7. ASSUME NEW o \in Operators, StepStats(o) PROVE Unfiled(r)'
  <2> DEFINE new == [q \in Request |-> IF op[o] = "stats_clear" THEN 0 ELSE docs[q]]
  <2>1. new[r] = 0 /\ counters' = [counters EXCEPT ![ListStats[step[o]]] = new] /\ docs' = docs
    BY <1>7 DEF StepStats
  <2> HIDE DEF new
  <2>2. \A c \in Stat : counters'[c][r] = 0
    BY <2>1 DEF PipelineTypeOK
  <2> QED BY <2>1, <2>2
<1>8. \/ docs' = docs /\ counters' = counters
      \/ Insert
      \/ \E m \in todo : Increment(m)
      \/ \E o \in Operators : ReloadLogs(o) \/ StepStats(o) \/ \E a \in Operations : ClearLogs(o, a)
  BY DEF PipelineStep, PipelineNext, Daemons, Operator, FileStands,
     WriteLine, SendLine, TakeLines, SendStats, LinesDone, LogsDaemonDies, TakeStats, StatsDone,
     StatsDaemonDies, BeginStats, pipelineVars
<1> QED BY <1>2, <1>3, <1>4, <1>5, <1>6, <1>7, <1>8

\* The steps that write no document and no counter, and leave the request under
\* way only where it was, in one place.
LEMMA QuietFresh ==
  ASSUME NEW r, Fresh(r), UNCHANGED <<docs, counters>>, OnePlace(r)',
         (r \in Undocumented)' => r \in Undocumented,
         \A c \in Stat : Waits(r, c)' => Waits(r, c)
  PROVE  Fresh(r)'
BY DEF Fresh

\* Nothing of the streams and the daemons has changed.
LEMMA PlacesStand ==
  ASSUME UNCHANGED <<toLog, logs, batch, inserted, sending, stats, taken, todo, inc, at>>, NEW r
  PROVE  /\ OnePlace(r) => OnePlace(r)'
         /\ (r \in Undocumented)' <=> r \in Undocumented
         /\ \A c : Waits(r, c)' <=> Waits(r, c)
<1>1. (NoMessage(r)' <=> NoMessage(r)) /\ \A m, c : Pending(m, c)' <=> Pending(m, c)
  BY DEF NoMessage, Pending
<1>2. \A c : Sent(r, c)' <=> Sent(r, c)
  BY <1>1 DEF Sent
<1> QED BY <1>1, <1>2 DEF OnePlace, Undocumented, Waits

\* A step that leaves the statistics stream and daemon alone.
LEMMA MessagesStand ==
  ASSUME UNCHANGED <<stats, taken, todo, inc, at>>, NEW r
  PROVE  (NoMessage(r)' <=> NoMessage(r)) /\ \A c : Sent(r, c)' <=> Sent(r, c)
<1>1. \A m, c : Pending(m, c)' <=> Pending(m, c)
  BY DEF Pending
<1> QED BY <1>1 DEF NoMessage, Sent

\* A line that is sent on has no message, and then it has one.
LEMMA SendStatsFresh ==
  ASSUME PipelineTypeOK, NEW q \in sending, SendStats(q), NEW r \in Request, Fresh(r)
  PROVE  Fresh(r)'
<1> DEFINE new == [request |-> q, crash |-> crashes]
<1>1. /\ stats' = stats \cup {new} /\ new.request = q /\ sending' = sending \ {q}
      /\ inserted
      /\ UNCHANGED <<toLog, logs, batch, inserted, taken, todo, inc, at, docs, counters>>
  BY DEF SendStats, handler, logsDaemon, statsDaemon, PipelineTypeOK
<1> HIDE DEF new
<1>2. \A m, c : Pending(m, c)' <=> Pending(m, c)
  BY <1>1 DEF Pending
<1>3. CASE q # r
  <2>1. (NoMessage(r)' <=> NoMessage(r)) /\ \A c : Sent(r, c)' <=> Sent(r, c)
    BY <1>1, <1>2, <1>3 DEF NoMessage, Sent
  <2>2. OnePlace(r)'
    BY <1>1, <1>3, <2>1 DEF OnePlace, Fresh
  <2>3. (r \in Undocumented)' => r \in Undocumented
    BY <1>1 DEF Undocumented
  <2>4. \A c \in Stat : Waits(r, c)' => Waits(r, c)
    BY <1>1, <1>3, <2>1 DEF Waits
  <2> QED BY <1>1, <2>2, <2>3, <2>4, QuietFresh
<1>4. CASE q = r
  <2>1. r \in batch /\ r \in sending /\ NoMessage(r) /\ r \notin toLog /\ r \notin logs
    BY <1>1, <1>4 DEF Fresh, OnePlace, PipelineTypeOK
  <2>2. OnePlace(r)'
    BY <1>1, <1>4, <2>1 DEF OnePlace, NoMessage
  <2>3. (r \in Undocumented)' => r \in Undocumented
    BY <1>1 DEF Undocumented
  <2>4. \A c \in Stat : Waits(r, c)
    BY <2>1 DEF Waits
  <2> QED BY <1>1, <2>2, <2>3, <2>4, QuietFresh
<1> QED BY <1>3, <1>4

\* A batch that is delivered again: what was inserted is read again, the rest is
\* as it was.
LEMMA LogsDaemonDiesFresh ==
  ASSUME PipelineTypeOK, LogsDaemonDies, NEW r \in Request \ again', Fresh(r)
  PROVE  Fresh(r)'
<1>1. PICK back \in SUBSET batch :
        /\ logs' = logs \cup back
        /\ again' = again \cup {s \in back : inserted}
  BY DEF LogsDaemonDies
<1>2. /\ batch' = {} /\ sending' = {}
      /\ UNCHANGED <<toLog, stats, taken, todo, inc, at, docs, counters>>
  BY DEF LogsDaemonDies, handler, statsDaemon
<1>3. (NoMessage(r)' <=> NoMessage(r)) /\ \A c : Sent(r, c)' <=> Sent(r, c)
  BY <1>2, MessagesStand
<1>4. r \in back => r \in batch /\ ~inserted
  BY <1>1
<1>5. OnePlace(r)'
  BY <1>1, <1>2, <1>3, <1>4 DEF OnePlace, Fresh
<1>6. (r \in Undocumented)' => r \in Undocumented
  BY <1>1, <1>2, <1>4 DEF Undocumented
<1>7. \A c \in Stat : Waits(r, c)' => Waits(r, c)
  BY <1>1, <1>2, <1>3, <1>4 DEF Waits
<1> QED BY <1>2, <1>5, <1>6, <1>7, QuietFresh

LEMMA TakeStatsFresh ==
  ASSUME PipelineTypeOK, NEW b \in SUBSET stats, TakeStats(b), NEW r \in Request, Fresh(r)
  PROVE  Fresh(r)'
<1>1. /\ taken = {} /\ taken' = b /\ todo' = b /\ stats' = stats \ b
      /\ UNCHANGED <<toLog, logs, batch, inserted, sending, docs, counters>>
  BY DEF TakeStats, handler, logsDaemon
<1>2. NoMessage(r) => NoMessage(r)'
  BY <1>1 DEF NoMessage
<1>3. OnePlace(r)'
  BY <1>1, <1>2 DEF OnePlace, Fresh
<1>4. \A c : Sent(r, c)' => Sent(r, c)
  BY <1>1 DEF Sent
<1>5. \A c \in Stat : Waits(r, c)' => Waits(r, c)
  BY <1>1, <1>4 DEF Waits
<1>6. (r \in Undocumented)' => r \in Undocumented
  BY <1>1 DEF Undocumented
<1> QED BY <1>1, <1>3, <1>5, <1>6, QuietFresh

LEMMA StatsDoneFresh ==
  ASSUME StatsDone, NEW r \in Request, Fresh(r)
  PROVE  Fresh(r)'
<1>1. taken' = {} /\ UNCHANGED <<toLog, logs, batch, inserted, sending, stats, todo, inc, at,
                                 docs, counters>>
  BY DEF StatsDone, handler, logsDaemon
<1>2. NoMessage(r) => NoMessage(r)'
  BY <1>1 DEF NoMessage
<1>3. OnePlace(r)'
  BY <1>1, <1>2 DEF OnePlace, Fresh
<1>4. \A m, c : Pending(m, c)' <=> Pending(m, c)
  BY <1>1 DEF Pending
<1>5. \A c : Sent(r, c)' => Sent(r, c)
  BY <1>1, <1>4 DEF Sent
<1>6. \A c \in Stat : Waits(r, c)' => Waits(r, c)
  BY <1>1, <1>5 DEF Waits
<1>7. (r \in Undocumented)' => r \in Undocumented
  BY <1>1 DEF Undocumented
<1> QED BY <1>1, <1>3, <1>6, <1>7, QuietFresh

\* A batch that is delivered again: a message that was begun is read again, the
\* others have not been added to anything.
LEMMA StatsDaemonDiesFresh ==
  ASSUME PipelineTypeOK, StatsDaemonDies, NEW r \in Request \ again', Fresh(r)
  PROVE  Fresh(r)'
<1>1. PICK back \in SUBSET taken :
        /\ stats' = stats \cup back
        /\ again' = again \cup Requests({m \in back : m \in todo => m = inc})
  BY DEF StatsDaemonDies
<1>2. /\ taken' = {} /\ todo' = {}
      /\ UNCHANGED <<toLog, logs, batch, inserted, sending, docs, counters>>
  BY DEF StatsDaemonDies, handler, logsDaemon
<1>3. \A m \in back : m.request = r => m \in todo /\ m # inc
  BY <1>1 DEF Requests
<1>4. NoMessage(r) => NoMessage(r)'
  BY <1>1, <1>2 DEF NoMessage
<1>5. OnePlace(r)'
  BY <1>1, <1>2, <1>4 DEF OnePlace, Fresh
<1>6. \A c : Sent(r, c)' => Sent(r, c)
  BY <1>1, <1>2, <1>3 DEF Sent, Pending
<1>7. \A c \in Stat : Waits(r, c)' => Waits(r, c)
  BY <1>2, <1>6 DEF Waits
<1>8. (r \in Undocumented)' => r \in Undocumented
  BY <1>2 DEF Undocumented
<1> QED BY <1>2, <1>5, <1>7, <1>8, QuietFresh

\* One increment of a request that is nowhere else.
LEMMA IncrementFresh ==
  ASSUME PipelineTypeOK, NEW n \in todo, Increment(n), NEW r \in Request, Fresh(r)
  PROVE  Fresh(r)'
<1> HIDE DEF Last, Stat
<1>1. /\ UNCHANGED <<toLog, logs, batch, inserted, sending, stats, taken, docs>>
      /\ InWork(n) /\ GoesOn(n)
  BY DEF Increment, handler, logsDaemon
<1>2. OnePlace(r)' /\ ((r \in Undocumented)' => r \in Undocumented)
  BY <1>1 DEF OnePlace, NoMessage, Fresh, Undocumented
<1>3. ASSUME NEW c \in Stat PROVE counters'[c][r] <= 1 /\ (Waits(r, c)' => counters'[c][r] = 0)
  <2>1. CASE ~(r = n.request /\ c = ListStats[at])
    BY <2>1, IncrementCounts, IncrementPlaces DEF Fresh
  <2>2. CASE r = n.request /\ c = ListStats[at]
    <3>1. at \in 1 .. Last /\ n \in taken
      BY <1>1, GoesOnTyped DEF PipelineTypeOK
    <3>2. Pending(n, c)
      BY <2>2, <3>1 DEF Pending
    <3>3. counters[c][r] = 0
      BY <2>2, <3>2 DEF Fresh, Waits, Sent
    <3>4. counters'[c][r] <= 1
      BY <3>3, IncrementCounts
    <3>5. /\ r \notin toLog /\ r \notin logs /\ ~(r \in batch /\ (~inserted \/ r \in sending))
          /\ \A m \in stats \cup taken : m.request = r => m = n
          /\ n \notin stats
      BY <2>2, <3>1 DEF Fresh, OnePlace, NoMessage
    <3>6. ~Pending(n, c)' /\ \A m \in todo' : m \in taken
      <4>1. ~Pending(n, c)'
        BY <1>1, <2>2, GoesOnPending
      <4> QED BY <1>1, <4>1, GoesOnTyped
    <3>7. ~Sent(r, c)'
      BY <1>1, <3>5, <3>6 DEF Sent
    <3>8. ~Waits(r, c)'
      BY <1>1, <3>5, <3>7 DEF Waits, PipelineTypeOK
    <3> QED BY <3>4, <3>8
  <2> QED BY <2>1, <2>2
<1> QED BY <1>1, <1>2, <1>3 DEF Fresh

\* A collection that is cleared or reloaded takes in what is not under way to it.
LEMMA StepStatsFresh ==
  ASSUME PipelineTypeOK, NEW o \in Operators, StepStats(o), NEW r \in Request \ again', Fresh(r)
  PROVE  Fresh(r)'
<1> DEFINE d == ListStats[step[o]]
           new == [q \in Request |-> IF op[o] = "stats_clear" THEN 0 ELSE docs[q]]
<1> HIDE DEF Last, Stat
<1>1. d \in Stat /\ r \in Request /\ new[r] \in Nat /\ new[r] <= 1
  BY ListFacts DEF PipelineTypeOK, Fresh
<1>2. /\ counters' = [counters EXCEPT ![d] = new]
      /\ r \in Uncounted(d) => ~(new[r] > 0)
      /\ UNCHANGED <<toLog, logs, batch, inserted, sending, stats, taken, todo, inc, at, docs>>
  BY <1>1 DEF StepStats, handler, logsDaemon, statsDaemon
<1> HIDE DEF new, d
<1>3. Waits(r, d) => new[r] = 0
  BY <1>1, <1>2, UncountedPlaces
<1>4. ASSUME NEW c \in Stat PROVE counters'[c][r] <= 1 /\ (Waits(r, c) => counters'[c][r] = 0)
  <2>1. counters'[c] = IF c = d THEN new ELSE counters[c]
    BY <1>2 DEF PipelineTypeOK
  <2> QED BY <1>1, <1>3, <2>1 DEF Fresh
<1>5. /\ OnePlace(r)' /\ ((r \in Undocumented)' => r \in Undocumented)
      /\ \A c \in Stat : Waits(r, c)' => Waits(r, c)
  BY <1>2, PlacesStand DEF Fresh
<1> QED BY <1>2, <1>4, <1>5 DEF Fresh

LEMMA StepFresh ==
  ASSUME PipelineTypeOK, \A q \in Request \ filed : Unfiled(q), [PipelineStep]_pipelineVars,
         NEW r \in Request \ again', Fresh(r)
  PROVE  Fresh(r)'
<1> USE DEF handler, logsDaemon, statsDaemon, operator, history
<1> HIDE DEF Last, Stat
<1>0. docs[r] \in Nat
  BY DEF PipelineTypeOK
<1>1. ASSUME NEW q \in Request, WriteLine(q) \/ SendLine(q) PROVE Fresh(r)'
  <2>1. /\ UNCHANGED <<batch, inserted, sending, stats, taken, todo, inc, at, docs, counters>>
        /\ UNCHANGED <<stats, taken, todo, inc, at>>
    BY <1>1 DEF WriteLine, SendLine
  <2>2. (NoMessage(r)' <=> NoMessage(r)) /\ \A c : Sent(r, c)' <=> Sent(r, c)
    BY <2>1, MessagesStand
  <2>3. CASE WriteLine(q) /\ q = r
    <3>1. r \notin filed /\ toLog' = toLog \cup {r} /\ logs' = logs
      BY <2>3 DEF WriteLine
    <3>2. r \notin logs /\ r \notin batch /\ NoMessage(r) /\ Unfiled(r)
      BY <3>1 DEF PipelineTypeOK, NoMessage, Requests
    <3>3. OnePlace(r)'
      BY <2>1, <2>2, <3>1, <3>2 DEF Fresh, OnePlace
    <3> QED BY <2>1, <3>2, <3>3 DEF Fresh, Unfiled
  <2>4. CASE (WriteLine(q) /\ q # r) \/ SendLine(q)
    <3>1. /\ r \in toLog' => r \in toLog
          /\ r \in logs' => r \in logs \/ (r \in toLog /\ r \notin toLog')
      BY <2>4 DEF WriteLine, SendLine
    <3>2. OnePlace(r)'
      BY <2>1, <2>2, <3>1 DEF Fresh, OnePlace
    <3>3. (r \in Undocumented)' => r \in Undocumented
      BY <2>1, <3>1 DEF Undocumented
    <3>4. \A c \in Stat : Waits(r, c)' => Waits(r, c)
      BY <2>1, <2>2, <3>1 DEF Waits
    <3> QED BY <2>1, <3>2, <3>3, <3>4, QuietFresh
  <2> QED BY <1>1, <2>3, <2>4
<1>2. ASSUME NEW b \in SUBSET logs, TakeLines(b) PROVE Fresh(r)'
  <2>1. /\ batch = {} /\ batch' = b /\ logs' = logs \ b /\ ~inserted
        /\ UNCHANGED <<toLog, inserted, sending, stats, taken, todo, inc, at, docs, counters>>
    BY <1>2 DEF TakeLines, PipelineTypeOK
  <2>2. (NoMessage(r)' <=> NoMessage(r)) /\ \A c : Sent(r, c)' <=> Sent(r, c)
    BY <2>1, MessagesStand
  <2>3. OnePlace(r)'
    BY <2>1, <2>2 DEF Fresh, OnePlace
  <2>4. (r \in Undocumented)' => r \in Undocumented
    BY <2>1 DEF Undocumented
  <2>5. \A c \in Stat : Waits(r, c)' => Waits(r, c)
    BY <2>1, <2>2 DEF Waits
  <2> QED BY <2>1, <2>3, <2>4, <2>5, QuietFresh
<1>3. CASE Insert
  <2>1. /\ ~inserted /\ inserted' = TRUE /\ sending' = batch
        /\ UNCHANGED <<toLog, logs, batch, stats, taken, todo, inc, at, counters>>
    BY <1>3 DEF Insert
  <2>2. (NoMessage(r)' <=> NoMessage(r)) /\ \A c : Sent(r, c)' <=> Sent(r, c)
    BY <2>1, MessagesStand
  <2>3. OnePlace(r)'
    BY <2>1, <2>2 DEF Fresh, OnePlace
  <2>4. docs'[r] \in {docs[r], docs[r] + 1} /\ (r \notin batch => docs'[r] = docs[r])
    BY <1>3 DEF Insert
  <2>5. r \in batch => r \in Undocumented /\ r \notin toLog /\ r \notin logs
    BY <2>1 DEF Undocumented, Fresh, OnePlace
  <2>6. docs'[r] <= 1 /\ ((r \in Undocumented)' => docs'[r] = 0)
    BY <1>0, <2>1, <2>4, <2>5 DEF Fresh, Undocumented
  <2>7. \A c \in Stat : Waits(r, c)' => Waits(r, c)
    BY <2>1, <2>2 DEF Waits
  <2> QED BY <2>1, <2>3, <2>6, <2>7 DEF Fresh
<1>4. ASSUME NEW q \in sending, SendStats(q) PROVE Fresh(r)'
  BY <1>4, SendStatsFresh
<1>5. CASE LinesDone
  <2>1. /\ batch' = {} /\ inserted
        /\ UNCHANGED <<toLog, logs, sending, stats, taken, todo, inc, at, docs, counters>>
    BY <1>5 DEF LinesDone
  <2>2. (NoMessage(r)' <=> NoMessage(r)) /\ \A c : Sent(r, c)' <=> Sent(r, c)
    BY <2>1, MessagesStand
  <2>3. OnePlace(r)'
    BY <2>1, <2>2 DEF Fresh, OnePlace
  <2>4. (r \in Undocumented)' => r \in Undocumented
    BY <2>1 DEF Undocumented
  <2>5. \A c \in Stat : Waits(r, c)' => Waits(r, c)
    BY <2>1, <2>2 DEF Waits
  <2> QED BY <2>1, <2>3, <2>4, <2>5, QuietFresh
<1>6. CASE LogsDaemonDies
  BY <1>6, LogsDaemonDiesFresh
<1>7. ASSUME NEW b \in SUBSET stats, TakeStats(b) PROVE Fresh(r)'
  BY <1>7, TakeStatsFresh
<1>8. ASSUME NEW m \in todo, Increment(m) PROVE Fresh(r)'
  BY <1>8, IncrementFresh
<1>9. CASE StatsDone
  BY <1>9, StatsDoneFresh
<1>10. CASE StatsDaemonDies
  BY <1>10, StatsDaemonDiesFresh
<1>11. ASSUME NEW o \in Operators, NEW a \in Operations, ClearLogs(o, a) \/ BeginStats(o, a)
       PROVE  Fresh(r)'
  <2>1. /\ UNCHANGED <<toLog, logs, batch, inserted, sending, stats, taken, todo, inc, at, counters>>
        /\ docs'[r] \in {0, docs[r]}
    BY <1>11 DEF ClearLogs, BeginStats
  <2> QED BY <2>1, PlacesStand DEF Fresh
<1>12. ASSUME NEW o \in Operators, ReloadLogs(o) PROVE Fresh(r)'
  <2>1. /\ UNCHANGED <<toLog, logs, batch, inserted, sending, stats, taken, todo, inc, at, counters>>
        /\ docs'[r] = IF r \in filed THEN docs[r] + 1 ELSE docs[r]
        /\ r \in filed => ~(docs[r] > 0) /\ r \notin Undocumented
    BY <1>12 DEF ReloadLogs
  <2>2. docs'[r] <= 1 /\ (r \in Undocumented => docs'[r] = 0)
    BY <1>0, <2>1 DEF Fresh
  <2> QED BY <2>1, <2>2, PlacesStand DEF Fresh
<1>13. ASSUME NEW o \in Operators, StepStats(o) PROVE Fresh(r)'
  BY <1>13, StepStatsFresh
<1>14. CASE FileStands \/ UNCHANGED pipelineVars
  <2>1. UNCHANGED <<toLog, logs, batch, inserted, sending, stats, taken, todo, inc, at,
                    docs, counters>>
    BY <1>14 DEF FileStands, pipelineVars
  <2> QED BY <2>1, PlacesStand DEF Fresh
<1> QED BY <1>1, <1>2, <1>3, <1>4, <1>5, <1>6, <1>7, <1>8, <1>9, <1>10, <1>11, <1>12, <1>13, <1>14
        DEF PipelineStep, PipelineNext, Daemons, Operator

LEMMA StepCount ==
  PipelineTypeOK /\ CountInv /\ [PipelineStep]_pipelineVars => CountInv'
<1> SUFFICES ASSUME PipelineTypeOK, CountInv, [PipelineStep]_pipelineVars PROVE CountInv'
  OBVIOUS
<1>1. filed \subseteq filed' /\ again \subseteq again'
  BY DEF PipelineStep, PipelineNext, Daemons, Operator, FileStands, handler, history,
     WriteLine, SendLine, TakeLines, Insert, SendStats, LinesDone, LogsDaemonDies, TakeStats,
     Increment, StatsDone, StatsDaemonDies, ClearLogs, BeginStats, ReloadLogs, StepStats, pipelineVars
<1>2. ASSUME NEW r \in Request \ filed' PROVE Unfiled(r)'
  BY <1>1, <1>2, StepUnfiled DEF CountInv
<1>3. ASSUME NEW r \in Request \ again' PROVE Fresh(r)'
  BY <1>1, <1>3, StepFresh DEF CountInv
<1> QED BY <1>2, <1>3 DEF CountInv

LEMMA CountInvCounts == CountInv => CountedOnce
BY DEF CountInv, Fresh, CountedOnce

-----------------------------------------------------------------------------
(***************************************************************************)
(* The theorems, for the pipeline by itself and beside the file.           *)
(***************************************************************************)
LEMMA PipelineSteps == [PipelineNext]_pipelineVars => [PipelineStep]_pipelineVars
BY DEF PipelineStep

\* A step of the whole is one of the pipeline, or the pipeline stands.
LEMMA StatisticsSteps == PipelineTypeOK /\ [Next]_vars => [PipelineStep]_pipelineVars
<1> SUFFICES ASSUME PipelineTypeOK, [Next]_vars PROVE [PipelineStep]_pipelineVars
  OBVIOUS
<1>1. ASSUME Pages!FileNext, UNCHANGED_Pipeline PROVE FileStands
  <2>1. counters' = counters /\ updates' \in {updates, FALSE}
    BY <1>1 DEF Pages!FileNext, Pages!Start, Pages!Works, Pages!Gather, Pages!Check, Pages!Remove,
       Pages!Open, Pages!Write, Pages!Close, Pages!WriteFails, Pages!Cache, Pages!Forget,
       Pages!View, Pages!Read
  <2>2. updates' \in BOOLEAN
    BY <2>1, Zenon DEF PipelineTypeOK
  <2> QED BY <1>1, <2>1, <2>2 DEF FileStands, UNCHANGED_Pipeline
<1>2. CASE UNCHANGED vars
  BY <1>2 DEF vars
<1> QED BY <1>1, <1>2 DEF Next, PipelineStep

\* The places of the pipeline hold requests that were made, and its daemons and
\* operators are inside the list of collections (TileJetBrokerLogs._post,
\* TileJetBrokerStats._post, logTileRequest and the operators' views).
THEOREM PipelineTyped == PipelineSpec => []PipelineTypeOK
BY InitTyped, StepTyped, PipelineSteps, PTL DEF PipelineSpec

THEOREM StatisticsTyped == Spec => []PipelineTypeOK
BY InitTyped, StepTyped, StatisticsSteps, PTL DEF Spec, Init

\* No request is missed: what is in a log file is under way to each collection,
\* or counted there, or a crash, a write or an operator dropped it.
THEOREM StatisticsMissNone == Spec => []NoneMissed
BY InitNoneMissed, StepMisses, StatisticsSteps, StatisticsTyped, PTL DEF Spec, Init

\* No request is counted twice unless it was delivered or read again.
THEOREM StatisticsCountOnce == Spec => []CountedOnce
<1>1. Spec => []CountInv
  BY InitCount, StepCount, StatisticsSteps, StatisticsTyped, PTL DEF Spec, Init
<1> QED BY <1>1, CountInvCounts, PTL

THEOREM PipelineCounts == PipelineSpec => [](NoneMissed /\ CountedOnce)
<1>1. PipelineSpec => []NoneMissed
  BY InitNoneMissed, StepMisses, PipelineSteps, PipelineTyped, PTL DEF PipelineSpec
<1>2. PipelineSpec => []CountInv
  BY InitCount, StepCount, PipelineSteps, PipelineTyped, PTL DEF PipelineSpec
<1> QED BY <1>1, <1>2, CountInvCounts, PTL
=============================================================================
