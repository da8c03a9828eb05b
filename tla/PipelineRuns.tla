---------------------------- MODULE PipelineRuns ----------------------------
(***************************************************************************)
(* Every way to run a pipeline, and what they share: the saved configs     *)
(* (ControlStore), the in-process guard _RUNNING_PIPELINES of              *)
(* core/pipeline_runner.py, the run history (RunStore) and the run queue,  *)
(* of which this module uses the abstract pool that RunQueue implements.   *)
(*                                                                         *)
(* A run is a thread ("runner") of one kind:                               *)
(*   "manual"    POST /run, in the request                                 *)
(*   "async"     POST /run/async, a background task (AsyncJobs has its job)*)
(*   "demo"      POST /api/demo/..., saves its config and runs it          *)
(*   "schedule"  a worker of the run queue (_default_executor)             *)
(*   "cli"       `chumoli run`: another process, with a guard of its own   *)
(*                                                                         *)
(* A step ends where another thread or process can observe or change what  *)
(* is shared: a store access or a locked block.                            *)
(***************************************************************************)
EXTENDS Naturals, Sequences, FiniteSets, Functions

CONSTANTS Names,      \* pipeline names
          DemoNames,  \* the demos' fixed names (demo_volume, ...)
          Runners,    \* threads that can run a pipeline
          Max,        \* slots of the run queue
          NoName

ASSUME RunsAssumption ==
  /\ DemoNames \subseteq Names
  /\ Max \in Nat \ {0}
  /\ NoName \notin Names

VARIABLES saved,     \* names that have a config in the ControlStore
          waiting,   \* the run queue: accepted by the scheduler, not started
          active,    \* the run queue: names that hold a slot
          leaked,    \* slots whose worker could not be started
          running,   \* keys of _RUNNING_PIPELINES of the API process
          pc, kind, name, out,   \* the runs: step, kind, pipeline, outcome
          row        \* row[r]: the row of the run r in RunStore: "success",
          \* "failure", or "lost" if it could not be written

Pool == INSTANCE WorkerPool

queue == <<waiting, active, leaked>>
run == <<pc, kind, name, out, row>>
vars == <<saved, queue, running, pc, kind, name, out, row>>

Kinds == {"manual", "async", "demo", "schedule", "cli"}

\* What became of a run: a RunResult, with or without failed load jobs; an
\* exception - KeyError apart, which is also how "no such pipeline" and "no
\* such connector" are said -; or PipelineAlreadyRunning.
Results == {"ok", "failedJobs"}
Errors == {"raised", "keyError"}
Outcomes == Results \cup Errors \cup {"busy"}

Init ==
  /\ saved = Names
  /\ waiting = <<>> /\ active = {} /\ leaked = {}
  /\ running = {}
  /\ pc = [r \in Runners |-> "idle"]
  /\ kind = [r \in Runners |-> "none"]
  /\ name = [r \in Runners |-> NoName]
  /\ out = [r \in Runners |-> "none"]
  /\ row = [r \in Runners |-> "none"]

\* Definitions named <definition>_<fault> are faulty variants of the definition
\* that follows them; PROJECT.json pairs each with the property that refutes it.

GoTo(r, label) == pc' = [pc EXCEPT ![r] = label]

\* The runner r starts on the pipeline n as a run of kind k, at step label.
Begin(r, k, n, label) ==
  /\ pc[r] = "idle"
  /\ GoTo(r, label)
  /\ kind' = [kind EXCEPT ![r] = k]
  /\ name' = [name EXCEPT ![r] = n]
  /\ UNCHANGED <<out, row>>

\* The run is over and its thread can serve another one.
End(r) ==
  /\ GoTo(r, "idle")
  /\ kind' = [kind EXCEPT ![r] = "none"]
  /\ name' = [name EXCEPT ![r] = NoName]
  /\ out' = [out EXCEPT ![r] = "none"]
  /\ row' = [row EXCEPT ![r] = "none"]
-----------------------------------------------------------------------------
(***************************************************************************)
(* Requests.                                                               *)
(***************************************************************************)

\* create_pipeline and delete_pipeline, as far as a run can tell.  Neither
\* looks at the guard.
Save(n) ==
  /\ n \notin saved
  /\ saved' = saved \cup {n}
  /\ UNCHANGED <<queue, running, run>>

Delete(n) ==
  /\ n \in saved
  /\ saved' = saved \ {n}
  /\ UNCHANGED <<queue, running, run>>

\* POST /run, and `chumoli run`.
ManualRequest(r, n) ==
  /\ Begin(r, "manual", n, "load")
  /\ UNCHANGED <<saved, queue, running>>

CliRequest(r, n) ==
  /\ Begin(r, "cli", n, "load")
  /\ UNCHANGED <<saved, queue, running>>

\* run_pipeline_async: 404 without a config, 409 while the name is in the
\* guard; else the background task, which is queued before it loads.
AsyncRequest(r, n) ==
  /\ n \in saved
  /\ n \notin running
  /\ Begin(r, "async", n, "load")
  /\ UNCHANGED <<saved, queue, running>>

\* demo_volume, demo_sql, demo_rest: the config is saved, then run.
DemoRequest(r, n) ==
  /\ n \in DemoNames
  /\ saved' = saved \cup {n}
  /\ Begin(r, "demo", n, "load")
  /\ UNCHANGED <<queue, running>>

\* A job of the scheduler fires: RunQueue.enqueue.  The job may be one that
\* a deleted pipeline has left behind (see Scheduler).
ScheduleFires(n) ==
  /\ Pool!Submit(n)
  /\ UNCHANGED <<saved, leaked, running, run>>

\* RunQueue._pump, the locked block: the oldest name takes a slot.  The thread
\* made for it, r, is still to be started.
Dispatch(r) ==
  /\ Pool!Dispatch
  /\ Begin(r, "schedule", Head(waiting), "start")
  /\ UNCHANGED <<saved, leaked, running>>

\* t.start(), outside the lock: the worker runs, or the start raises ("can't
\* start new thread") and nobody is left to give the slot back.
StartWorker(r) ==
  /\ pc[r] = "start"
  /\ GoTo(r, "open")
  /\ UNCHANGED <<saved, queue, running, kind, name, out, row>>

StartFails(r) ==
  /\ pc[r] = "start"
  /\ leaked' = leaked \cup {name[r]}
  /\ End(r)
  /\ UNCHANGED <<saved, waiting, active, running>>
-----------------------------------------------------------------------------
(***************************************************************************)
(* One run.                                                                *)
(***************************************************************************)

\* What the entry point of a run of kind k does last: the worker of the run
\* queue gives its slot back, the others answer.
Exit_Forgets(k) == "answer"
Exit(k) == IF k = "schedule" THEN "release" ELSE "answer"

\* _default_executor opens both stores before anything else; if that raises,
\* _worker logs it and nothing is recorded.
OpenStores_NoFinally(r) ==
  /\ pc[r] = "open"
  /\ GoTo(r, "load") \/ GoTo(r, "answer")
  /\ UNCHANGED <<saved, queue, running, kind, name, out, row>>

OpenStores(r) ==
  /\ pc[r] = "open"
  /\ GoTo(r, "load") \/ GoTo(r, "release")
  /\ UNCHANGED <<saved, queue, running, kind, name, out, row>>

\* The handler of the entry point k that gets the outcome o writes no row: the
\* CLI never does; POST /run answers every KeyError with 404, whoever raised
\* it; "busy" is skipped or answered 409, but the demos have one handler for
\* all exceptions.
Quiet(k, o) ==
  \/ k = "cli"
  \/ k = "manual" /\ o = "keyError"
  \/ k # "demo" /\ o = "busy"

\* Where a run goes with its outcome.
AfterRun(k, o) ==
  IF Quiet(k, o) THEN Exit(k) ELSE IF o \in Results THEN "record" ELSE "recordError"

\* run_pipeline_by_name: store.load(name), before the guard.  It returns the
\* config, finds none (KeyError), or the store cannot be read.
Load(r) ==
  /\ pc[r] = "load"
  /\ \/ /\ name[r] \in saved
        /\ GoTo(r, "guard")
        /\ UNCHANGED out
     \/ /\ name[r] \notin saved
        /\ out' = [out EXCEPT ![r] = "keyError"]
        /\ GoTo(r, AfterRun(kind[r], "keyError"))
     \/ /\ out' = [out EXCEPT ![r] = "raised"]
        /\ GoTo(r, AfterRun(kind[r], "raised"))
  /\ UNCHANGED <<saved, queue, running, kind, name, row>>

\* The guard that the process of a run looks at: the CLI's process has just
\* started, with an empty one.
Entered(r) == kind[r] # "cli" /\ name[r] \in running

\* run_pipeline_by_name, the locked block: PipelineAlreadyRunning, or the name
\* is entered.
Guard_NoCheck(r) ==
  /\ pc[r] = "guard"
  /\ running' = IF kind[r] = "cli" THEN running ELSE running \cup {name[r]}
  /\ GoTo(r, "work")
  /\ UNCHANGED <<saved, queue, kind, name, out, row>>

Guard_InsideTry(r) ==
  /\ pc[r] = "guard"
  /\ IF Entered(r)
     THEN /\ out' = [out EXCEPT ![r] = "busy"]
          /\ GoTo(r, "pop")
          /\ UNCHANGED running
     ELSE /\ running' = IF kind[r] = "cli" THEN running ELSE running \cup {name[r]}
          /\ GoTo(r, "work")
          /\ UNCHANGED out
  /\ UNCHANGED <<saved, queue, kind, name, row>>

Guard(r) ==
  /\ pc[r] = "guard"
  /\ IF Entered(r)
     THEN /\ out' = [out EXCEPT ![r] = "busy"]
          /\ GoTo(r, AfterRun(kind[r], "busy"))
          /\ UNCHANGED running
     ELSE /\ running' = IF kind[r] = "cli" THEN running ELSE running \cup {name[r]}
          /\ GoTo(r, "work")
          /\ UNCHANGED out
  /\ UNCHANGED <<saved, queue, kind, name, row>>

\* registry.get, _execute and the notification: the load itself.
Work(r) ==
  /\ pc[r] = "work"
  /\ \E o \in Results \cup Errors : out' = [out EXCEPT ![r] = o]
  /\ GoTo(r, "pop")
  /\ UNCHANGED <<saved, queue, running, kind, name, row>>

\* run_pipeline_by_name, finally: the name leaves the guard, then the result
\* or the exception reaches the entry point.
Pop_OnSuccess(r) ==
  /\ pc[r] = "pop"
  /\ running' = IF kind[r] = "cli" \/ out[r] \notin Results
                THEN running ELSE running \ {name[r]}
  /\ GoTo(r, AfterRun(kind[r], out[r]))
  /\ UNCHANGED <<saved, queue, kind, name, out, row>>

Pop(r) ==
  /\ pc[r] = "pop"
  /\ running' = IF kind[r] = "cli" THEN running ELSE running \ {name[r]}
  /\ GoTo(r, AfterRun(kind[r], out[r]))
  /\ UNCHANGED <<saved, queue, kind, name, out, row>>

\* record_run_result or record_run_failure: a row, or none if the write fails
\* (the exception is swallowed there).
RowOf_IgnoresFailedJobs(r) == IF pc[r] = "record" THEN "success" ELSE "failure"
RowOf(r) == IF pc[r] = "record" /\ out[r] = "ok" THEN "success" ELSE "failure"

Record(r) ==
  /\ pc[r] \in {"record", "recordError"}
  /\ \E entry \in {RowOf(r), "lost"} : row' = [row EXCEPT ![r] = entry]
  /\ GoTo(r, Exit(kind[r]))
  /\ UNCHANGED <<saved, queue, running, kind, name, out>>

\* In the API's handlers the RunStore is opened for the call, outside what
\* record_run_result protects, and opening it can raise (a locked database, a
\* full disk).  A request answers 500.  In _execute_run_job the exception of a
\* finished run lands in the handler for failed runs, which opens it again.
OpenHistoryFails(r) ==
  /\ pc[r] \in {"record", "recordError"}
  /\ kind[r] \in {"manual", "demo", "async"}
  /\ IF kind[r] = "async" /\ pc[r] = "record"
     THEN GoTo(r, "recordError") /\ UNCHANGED row
     ELSE GoTo(r, "answer") /\ row' = [row EXCEPT ![r] = "lost"]
  /\ UNCHANGED <<saved, queue, running, kind, name, out>>

Answer(r) ==
  /\ pc[r] = "answer"
  /\ End(r)
  /\ UNCHANGED <<saved, queue, running>>

\* _worker, finally: the slot is given back.
Release(r) ==
  /\ pc[r] = "release"
  /\ Pool!Finish(name[r])
  /\ End(r)
  /\ UNCHANGED <<saved, leaked, running>>

Step(r) ==
  \/ StartWorker(r) \/ StartFails(r) \/ OpenStores(r) \/ Load(r) \/ Guard(r)
  \/ Work(r) \/ Pop(r) \/ Record(r) \/ OpenHistoryFails(r) \/ Answer(r) \/ Release(r)

\* The API process stops and starts again: what it held in memory is gone,
\* the stores are not, and a CLI process goes on.
Restart ==
  LET keep(f, none) == [r \in Runners |-> IF kind[r] = "cli" THEN f[r] ELSE none]
  IN  /\ waiting' = <<>> /\ active' = {} /\ leaked' = {}
      /\ running' = {}
      /\ pc' = keep(pc, "idle")
      /\ kind' = keep(kind, "none")
      /\ name' = keep(name, NoName)
      /\ out' = keep(out, "none")
      /\ row' = keep(row, "none")
      /\ UNCHANGED saved

Next ==
  \/ \E n \in Names : Save(n) \/ Delete(n) \/ ScheduleFires(n)
  \/ \E r \in Runners, n \in Names :
       ManualRequest(r, n) \/ CliRequest(r, n) \/ AsyncRequest(r, n) \/ DemoRequest(r, n)
  \/ \E r \in Runners : Dispatch(r) \/ Step(r)
  \/ Restart

Spec == Init /\ [][Next]_vars

\* Threads that can run are scheduled and a load ends.  Nobody has to send a
\* request, fire a job or restart the process.
Fairness == \A r \in Runners : WF_vars(Step(r))

FairSpec == Spec /\ Fairness
-----------------------------------------------------------------------------
Labels == {"idle", "start", "open", "load", "guard", "work", "pop",
           "record", "recordError", "answer", "release"}

TypeOK ==
  /\ saved \in SUBSET Names /\ running \in SUBSET Names
  /\ active \in SUBSET Names /\ leaked \in SUBSET Names
  /\ waiting \in Seq(Names)
  /\ pc \in [Runners -> Labels]
  /\ kind \in [Runners -> Kinds \cup {"none"}]
  /\ name \in [Runners -> Names \cup {NoName}]
  /\ out \in [Runners -> Outcomes \cup {"none"}]
  /\ row \in [Runners -> {"none", "success", "failure", "lost"}]
  /\ \A r \in Runners : pc[r] # "idle" => name[r] \in Names /\ kind[r] \in Kinds
  /\ \A r \in Runners : pc[r] = "pop" => out[r] \in Results \cup Errors

\* r is between the locked block that enters its name in the guard of the API
\* process and the one that takes it out.
Guarded(r) == pc[r] \in {"work", "pop"} /\ kind[r] # "cli"

(* run_pipeline_by_name: the guard holds exactly the names that runs of    *)
(* this process are executing, each for one run - whoever loses, fails,    *)
(* raises or is deleted meanwhile.                                         *)
GuardIsExact ==
  /\ running = {name[r] : r \in {s \in Runners : Guarded(s)}}
  /\ \A r, s \in Runners : Guarded(r) /\ Guarded(s) /\ name[r] = name[s] => r = s

(* A slot of the run queue belongs to the one worker that runs its name or *)
(* is to be started for it, but for those that a failed start has left     *)
(* without one; and no worker is without a slot, so the queue's own runs   *)
(* and what was lost together stay within the limit.                       *)
Workers == {r \in Runners : kind[r] = "schedule"}

SlotsAreWorkers ==
  /\ active = {name[r] : r \in Workers} \cup leaked
  /\ \A r, s \in Workers : name[r] = name[s] => r = s
  /\ \A r \in Workers : name[r] \notin leaked
  /\ Cardinality(Workers) + Cardinality(leaked) <= Max

(* Every run of the API is in the history when it ends, as what it was,    *)
(* unless the history could not be written.  The exceptions are those the  *)
(* handlers make: nothing for a run refused as busy but for a demo, nothing*)
(* for a KeyError under POST /run, nothing for a worker that could not open*)
(* the stores; and a background run whose history failed to open once ends *)
(* as a failure (see FailedMeansLoadFailed for both).                      *)
HistoryIsHonest ==
  \A r \in Runners :
    LET unrecorded == \/ kind[r] = "cli"
                      \/ out[r] = "none"
                      \/ out[r] = "busy" /\ kind[r] # "demo"
                      \/ out[r] = "keyError" /\ kind[r] = "manual"
    IN  /\ row[r] = "success" => out[r] = "ok"
        /\ row[r] = "failure" => out[r] # "ok" \/ kind[r] = "async"
        /\ pc[r] \in {"answer", "release"} => (row[r] = "none" <=> unrecorded)

(* Whatever happens to a run, its name leaves the guard: a pipeline is     *)
(* never locked out.                                                       *)
GuardIsFreed == \A n \in Names : n \in running ~> n \notin running

(* A slot whose worker starts comes back, whether the worker ran, skipped  *)
(* a busy pipeline, found its config deleted or could not open the stores; *)
(* only a failed start keeps it, until the process is restarted.           *)
SlotIsFreed == \A n \in Names : n \in active \ leaked ~> n \notin active \ leaked
-----------------------------------------------------------------------------
(* run_queue.py, on CHUMOLI_MAX_CONCURRENT_RUNS: "Scheduler va manual async *)
(* ham shu navbat orqali" (the scheduler and the manual async runs go      *)
(* through this queue too); docs/architecture/scheduling-and-concurrency   *)
(* .md: "At most CHUMOLI_MAX_CONCURRENT_RUNS (default 2, cap 16) run at    *)
(* once".                                                                  *)
GlobalLimit ==
  Cardinality({r \in Runners : pc[r] = "work" /\ kind[r] \in {"schedule", "async"}}) <= Max

(* RunStore.stats: "failed: load itself failed".  So neither does a demo   *)
(* that is refused as busy, of which docs/status.md says that it "is       *)
(* intentionally not recorded as a failure", count as failed, nor a run    *)
(* that loaded everything and whose history could not be opened, of which  *)
(* record_run_result says: "a history write must never fail the run        *)
(* itself".                                                                *)
FailedMeansLoadFailed ==
  \A r \in Runners : row[r] = "failure" => out[r] \in Errors \cup {"failedJobs"}
=============================================================================
