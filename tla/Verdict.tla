------------------------------ MODULE Verdict ------------------------------
(***************************************************************************)
(* What becomes of the rows a run extracted, and what the user is told:    *)
(* the load and its outcome (core/pipeline_runner.py, _execute and         *)
(* run_pipeline_by_name), core/row_counts.py, core/quality.py,             *)
(* core/notify.py and store/run_store.py with its statistics.              *)
(*                                                                         *)
(* dlt and the destination are external: a load stores every row, or some  *)
(* tables of it and fails, with a failed job in its result or by raising.  *)
(* Execute models the attempts within a load and the files it publishes;   *)
(* one step stands for them here.  One handler reads the statistics.       *)
(***************************************************************************)
EXTENDS Extract

CONSTANTS Resource, \* the table that is not named by the source's tables
          Null,     \* the rows with an empty field that must not be empty
          Oldest    \* the hour of the oldest row that is fresh

Checks == {"row_count", "not_null", "no_duplicates", "freshness"}
Verdicts == {"good", "warn", "bad"}
Messages == Verdicts \cup {"none", "lost"}

ASSUME VerdictAssumption ==
  /\ Resource \notin {Bare(t) : t \in Tables}
  /\ IsFiniteSet(Rows) /\ Null \subseteq Rows
  /\ Oldest \in Nat
  /\ \A k \in Configs :
       /\ k.checks \subseteq Checks
       /\ k.write \in {"replace", "append", "merge"}
       /\ k.minimum \in Nat
       /\ k.alerts \subseteq {"on_success", "on_failure"}

VARIABLES copies,    \* how often a row is at the destination
          known,     \* the tables dlt has created there
          again,     \* this run is loading for the second time
          written,   \* the tables this run's result counts
          success,   \* the load had no failed job
          failed,    \* the checks that failed, and where
          message,   \* what the message about this run says that has come through
          recorded,  \* this run is in the history
          history,   \* the verdict of every recorded run, in order
          stats,     \* what the reader of the statistics has counted
          loaded,    \* auxiliary: the tables this run wrote rows to
          uncounted  \* auxiliary: one of them was not counted

judging == <<again, written, success, failed, message, recorded, loaded, uncounted>>
vars == <<phase, source, judging, copies, known, history, stats>>

Table(r) == IF c.kind = "sql" THEN Bare(Home[r]) ELSE Resource
Names == {Table(r) : r \in Rows}
Fetched == {r \in Rows : seen[r] > 0}
Stored(t) == {r \in Rows : copies[r] > 0 /\ Table(r) = t}

Init ==
  /\ SourceInit
  /\ copies = Nowhere /\ known = {}
  /\ again = FALSE /\ written = {} /\ success = FALSE /\ failed = {}
  /\ message = "none" /\ recorded = FALSE
  /\ loaded = {} /\ uncounted = FALSE
  /\ history = <<>>
  /\ stats = <<>>

Keeps(others) == UNCHANGED others /\ UNCHANGED source
Goes(from, to) == phase = from /\ phase' = to
-----------------------------------------------------------------------------
Start ==
  /\ stats = <<>>   \* bound: no run starts while the statistics are read
  /\ Begin({r \in Rows : copies[r] > 0})
  /\ again' = FALSE /\ written' = {} /\ success' = FALSE /\ failed' = {}
  /\ message' = "none" /\ recorded' = FALSE
  /\ loaded' = {} /\ uncounted' = FALSE
  /\ UNCHANGED <<copies, known, history, stats>>

Extracting ==
  /\ Read
  /\ UNCHANGED <<judging, copies, known, history, stats>>

\* What a table holds once the rows have been written to it.
Copies(r) ==
  CASE c.write = "replace" -> seen[r]
    [] c.write = "append"  -> copies[r] + seen[r]
    [] c.write = "merge"   -> IF copies[r] + seen[r] > 0 THEN 1 ELSE 0

Store(tables) ==
  /\ copies' = [r \in Rows |-> IF Table(r) \in tables THEN Copies(r) ELSE copies[r]]
  /\ known' = known \cup tables
  /\ loaded' = loaded \cup tables

Ahead == {Table(r) : r \in Fetched}

Load ==
  /\ Goes("load", "count")
  /\ Store(Ahead)
  /\ success' = TRUE
  /\ Keeps(<<again, written, failed, message, recorded, uncounted, history, stats>>)

\* Nothing is counted or checked after failed jobs, so no check has failed.
LoadFailsJobs ==
  /\ Goes("load", "notify")
  /\ \E tables \in SUBSET Ahead : Store(tables)
  /\ Keeps(<<again, written, success, failed, message, recorded, uncounted, history,
             stats>>)

LoadRaises ==
  /\ phase = "load"
  /\ \E tables \in SUBSET Ahead : Store(tables)
  /\ Raise
  /\ UNCHANGED <<again, written, success, failed, message, recorded, uncounted, history,
                 stats>>

\* The load broke on an earlier package or a constraint: it is cleared away and
\* everything is extracted once more, but not what the cursor has passed.
LoadAgain ==
  /\ ~again /\ again' = TRUE
  /\ Goes("load", "fetch")
  /\ page' = Origin /\ seen' = Nowhere
  /\ \E tables \in SUBSET Ahead : Store(tables)
  /\ due' = {r \in due : Passed(r) => copies'[r] > 0}
  /\ UNCHANGED <<c, part, tries, mark, runs, held, changes, odd, written, success, failed,
                 message, recorded, uncounted, history, stats>>

\* get_row_counts: by dlt's trace, which names the tables that got rows; else
\* for files by the completed jobs; else by SQL every table dlt knows, up to the
\* one that fails, and then by the jobs if they say.
Counts ==
  (IF Ahead # {} THEN {Ahead} ELSE {})
    \cup IF c.files THEN {{}, loaded} ELSE SUBSET known

Count ==
  /\ Goes("count", "check")
  /\ written' \in Counts
  /\ uncounted' = ~(loaded \subseteq written')
  /\ Keeps(<<again, success, failed, message, recorded, loaded, copies, known, history,
             stats>>)

\* The checks, each a query of a whole table.
Quantity(t) == Cardinality({x \in Stored(t) \X (1..4 * MaxRuns) : x[2] <= copies[x[1]]})

Applies(check) == check # "no_duplicates" \/ c.write # "append"

Fails(check, t) ==
  /\ Applies(check)
  /\ \/ t \notin known
     \/ CASE check = "row_count"     -> Quantity(t) < c.minimum
          [] check = "not_null"      -> Stored(t) \cap Null # {}
          [] check = "no_duplicates" -> \E r \in Stored(t) : copies[r] > 1
          [] check = "freshness"     -> \A r \in Stored(t) : Hour[r] < Oldest

Targets_OneTable == IF written = {} THEN {} ELSE {CHOOSE t \in written : TRUE}
Targets == IF c.table = None THEN written ELSE {c.table}

\* run_quality_checks: not for files.  A check whose query fails has failed, and
\* so have all when there is no connection.  Bound: one query fails.
Check ==
  /\ Goes("check", "notify")
  /\ \/ c.files /\ failed' = {}
     \/ ~c.files /\ failed' = {<<"connection", None>>}
     \/ /\ ~c.files
        /\ LET all == c.checks \X Targets
           IN  \E broken \in {{}} \cup {{x} : x \in all} :
                 failed' = broken \cup {x \in all : Fails(x[1], x[2])}
  /\ Keeps(<<again, written, success, message, recorded, loaded, uncounted, copies,
             known, history, stats>>)

\* The connection is made as the checks begin, out of reach of their handlers.
CheckRaises ==
  /\ phase = "check" /\ ~c.files
  /\ Raise
  /\ UNCHANGED <<judging, copies, known, history, stats>>

\* maybe_notify_run: what it says, whether the user wants to know, and the
\* sending, which may come to nothing - there is no chat or no token, or Telegram
\* does not answer - and is only logged then.  A run that raised has left before.
Good_FailedJobsToo == failed = {}
Good == success /\ failed = {}

Telling_OfTheLoad == IF success THEN "good" ELSE "bad"
Telling == IF Good THEN "good" ELSE IF success THEN "warn" ELSE "bad"

Wanted == \/ (Good /\ "on_success" \in c.alerts)
          \/ (~Good /\ "on_failure" \in c.alerts)

Notify ==
  /\ Goes("notify", "record")
  /\ message' \in IF Wanted THEN {Telling, "lost"} ELSE {"none"}
  /\ Keeps(<<again, written, success, failed, recorded, loaded, uncounted, copies, known,
             history, stats>>)

\* record_run_result and record_run_failure; a write that fails is only logged.
Outcome_Step == IF phase = "record" /\ Good THEN "good" ELSE phase

Outcome == IF phase = "raised" THEN "bad" ELSE Telling

Record ==
  /\ phase \in {"record", "raised"} /\ phase' = "idle"
  /\ \/ history' = Append(history, Outcome) /\ recorded' = TRUE
     \/ UNCHANGED <<history, recorded>>
  /\ Forget
  /\ UNCHANGED <<c, mark, runs, held, changes, due, odd, again, written, success, failed,
                 message, loaded, uncounted, copies, known, stats>>

\* In a background job the history is opened within the try statement: when that
\* fails, the run is taken for one that raised, whatever the user was told.
HistoryFails ==
  /\ phase = "record"
  /\ Raise
  /\ UNCHANGED <<judging, copies, known, history, stats>>
-----------------------------------------------------------------------------
\* RunStore.stats: each number is a query of its own.
Tally(v) == Cardinality({i \in 1..Len(history) : history[i] = v})
Numbers_TotalLast == <<Tally("good"), Tally("warn"), Tally("bad"), Len(history)>>
Numbers == <<Len(history), Tally("good"), Tally("warn"), Tally("bad")>>

ReadStats ==
  /\ phase \in {"record", "raised", "idle"}
  \* bound: the statistics are begun when a run is about to be recorded
  /\ stats = <<>> => phase # "idle"
  /\ Len(stats) < 4
  /\ stats' = Append(stats, Numbers[Len(stats) + 1])
  /\ UNCHANGED <<phase, source, judging, copies, known, history>>

ShowStats ==
  /\ Len(stats) = 4
  /\ stats' = <<>>
  /\ UNCHANGED <<phase, source, judging, copies, known, history>>

Changing ==
  /\ \/ \E r \in Rows : Appear(r)
     \/ \E i \in 1..Len(held) : Vanish(i)
  /\ UNCHANGED <<judging, copies, known, history, stats>>

Run == \/ Extracting \/ Load \/ LoadFailsJobs \/ LoadRaises \/ LoadAgain
       \/ Count \/ Check \/ CheckRaises \/ Notify \/ Record \/ HistoryFails
Next == Start \/ Run \/ ReadStats \/ ShowStats \/ Changing

\* Every request has a timeout, and whatever else a run waits for is taken to
\* answer.
Spec == Init /\ [][Next]_vars /\ WF_vars(Run)
-----------------------------------------------------------------------------
TypeOK ==
  /\ SourceTypeOK
  /\ phase \in {"idle", "source", "fetch", "load", "count", "check", "notify", "record",
                "raised"}
  /\ copies \in [Rows -> Nat]
  /\ known \subseteq Names /\ written \subseteq Names /\ loaded \subseteq Names
  /\ failed \subseteq (Checks \cup {"connection"}) \X (Names \cup {None, c.table})
  /\ again \in BOOLEAN /\ success \in BOOLEAN /\ message \in Messages
  /\ recorded \in BOOLEAN /\ uncounted \in BOOLEAN
  /\ history \in Seq(Verdicts)
  /\ stats \in Seq(Nat)

(* A load that succeeded brought every row it was asked for, however the   *)
(* rows were spread over days, types, tables and pages, whatever requests  *)
(* were repeated, and whichever rows appeared meanwhile.                   *)
NothingLost == success /\ ~odd => \A r \in due : copies[r] > 0

(* What the newest entry of the history calls good has arrived: no run with*)
(* failed jobs, none that raised and none that was repeated passes for one *)
(* that loaded its rows.                                                   *)
GreenMeansLoaded ==
  phase = "idle" /\ recorded /\ history[Len(history)] = "good" /\ ~odd
    => \A r \in due : copies[r] > 0

(* What the newest entry of the history calls good is so: every table this *)
(* run wrote to, not only the first, passes what the user configured, rows *)
(* of earlier runs included.                                               *)
Clean(t) ==
  /\ "row_count" \in c.checks => Quantity(t) >= c.minimum
  /\ "not_null" \in c.checks => Stored(t) \cap Null = {}
  /\ "no_duplicates" \in c.checks /\ c.write # "append" => \A r \in Stored(t) : copies[r] = 1
  /\ "freshness" \in c.checks => \E r \in Stored(t) : Hour[r] >= Oldest

GreenMeansClean ==
  /\ phase = "idle" /\ recorded /\ history[Len(history)] = "good"
  /\ ~c.files /\ c.table = None /\ ~uncounted
  => \A t \in loaded : Clean(t)

(* The numbers of the statistics may be of different moments, but never of *)
(* fewer runs than their total, nor of more than there are.                *)
StatsAddUp ==
  Len(stats) = 4 =>
    /\ stats[1] <= stats[2] + stats[3] + stats[4]
    /\ stats[2] + stats[3] + stats[4] <= Len(history)

(* What a message says that has come through is so, and so when the user   *)
(* reads it: after a green one and after one of failed checks every row the*)
(* run was asked for is at the destination; after a green one every counted*)
(* table is as configured; and the history, written later, calls no run    *)
(* better than the message did, nor otherwise than bad where it differs.   *)
MessageIsTrue ==
  /\ message \in {"good", "warn"} /\ ~odd => \A r \in due : copies[r] > 0
  /\ message = "good" /\ ~c.files /\ c.table = None /\ ~uncounted => \A t \in loaded : Clean(t)
  /\ phase = "idle" /\ recorded /\ message \in Verdicts
       => history[Len(history)] \in {message, "bad"}

(* Every run ends: pages and attempts are counted.                         *)
RunsEnd == phase # "idle" ~> phase = "idle"
=============================================================================
