------------------------------ MODULE RunJobs ------------------------------
(***************************************************************************)
(* A pipeline run in the background, from the button in the dashboard to   *)
(* the toast that says how it went: static/index.html (runPipeline,        *)
(* pollRun, showRunResult), and in api/app.py the table _RUN_JOBS, the     *)
(* handler that fills it, the background task that updates it without a    *)
(* lock, and the handler that is polled.                                   *)
(*                                                                         *)
(* All jobs here are of one pipeline: jobs of different pipelines meet     *)
(* only in the sweep, which looks at each job alone.  PipelineRuns has the *)
(* rest of what a run shares.                                              *)
(***************************************************************************)
EXTENDS Naturals, FiniteSets

CONSTANTS Jobs,       \* job ids (uuid4: each is used once)
          Clients,    \* browser tabs
          Elsewhere,  \* a run of the pipeline that no tab started
          Nobody

ASSUME JobsAssumption ==
  /\ Jobs \cap Clients = {}
  /\ {Elsewhere, Nobody} \cap (Jobs \cup Clients) = {}

VARIABLES table,     \* the ids in _RUN_JOBS
          status,    \* job["status"]
          detail,    \* job["result"] or job["error"] has been set
          finished,  \* job["finished_at"]: "no", "now", or "old" after an hour
          task, out, \* the background task of a job: step, outcome of its run
          holder,    \* whose entry the pipeline has in _RUNNING_PIPELINES
          ui,        \* a tab: what runPipeline or pollRun is waiting for
          rid,       \* the job id a tab polls
          told       \* the last toast of a tab

jobs == <<table, status, detail, finished>>
tabs == <<ui, rid, told>>
vars == <<table, status, detail, finished, task, out, holder, ui, rid, told>>

Init ==
  /\ table = {}
  /\ status = [j \in Jobs |-> "none"]
  /\ detail = [j \in Jobs |-> FALSE]
  /\ finished = [j \in Jobs |-> "no"]
  /\ task = [j \in Jobs |-> "none"]
  /\ out = [j \in Jobs |-> "none"]
  /\ holder = Nobody
  /\ ui = [c \in Clients |-> "idle"]
  /\ rid = [c \in Clients |-> Nobody]
  /\ told = [c \in Clients |-> "none"]

\* Definitions named <definition>_<fault> are faulty variants of the definition
\* that follows them; PROJECT.json pairs each with the property that refutes it.
-----------------------------------------------------------------------------
(***************************************************************************)
(* The tab.                                                                *)
(***************************************************************************)
Goes(c, step) == ui' = [ui EXCEPT ![c] = step]

Toast(c, message) == Goes(c, "idle") /\ told' = [told EXCEPT ![c] = message]

\* runPipeline: POST /run/async.  The button is disabled until the end.
Click(c) ==
  /\ ui[c] = "idle"
  /\ Goes(c, "posting")
  /\ rid' = [rid EXCEPT ![c] = Nobody]
  /\ told' = [told EXCEPT ![c] = "none"]
  /\ UNCHANGED <<jobs, task, out, holder>>

\* run_pipeline_async accepts: a job, a background task, and an answer with
\* the id, which arrives or is lost on the way.
PostAsync_NoId(c, j) ==
  /\ ui[c] = "posting"
  /\ holder = Nobody
  /\ task[j] = "none"
  /\ table' = table \cup {j}
  /\ status' = [status EXCEPT ![j] = "queued"]
  /\ task' = [task EXCEPT ![j] = "sweep"]
  /\ Goes(c, "polling")
  /\ UNCHANGED <<detail, finished, out, holder, rid, told>>

PostAsync(c, j) ==
  /\ ui[c] = "posting"
  /\ holder = Nobody
  /\ task[j] = "none"
  /\ table' = table \cup {j}
  /\ status' = [status EXCEPT ![j] = "queued"]
  /\ task' = [task EXCEPT ![j] = "sweep"]
  /\ \/ Goes(c, "polling") /\ rid' = [rid EXCEPT ![c] = j]
     \/ Goes(c, "syncing") /\ UNCHANGED rid
  /\ UNCHANGED <<detail, finished, out, holder, told>>

\* 409, and no fallback.
PostBusy(c) ==
  /\ ui[c] = "posting"
  /\ holder # Nobody
  /\ Toast(c, "busy")
  /\ UNCHANGED <<jobs, task, out, holder, rid>>

\* Any other error: runPipeline falls back to POST /run.
PostFails(c) ==
  /\ ui[c] = "posting"
  /\ Goes(c, "syncing")
  /\ UNCHANGED <<jobs, task, out, holder, rid, told>>

\* run_pipeline: the guard, the load, the answer.
SyncRun(c) ==
  /\ ui[c] = "syncing"
  /\ IF holder = Nobody
     THEN holder' = c /\ Goes(c, "loading") /\ UNCHANGED told
     ELSE Toast(c, "busy") /\ UNCHANGED holder
  /\ UNCHANGED <<jobs, task, out, rid>>

SyncAnswer(c) ==
  /\ ui[c] = "loading"
  /\ holder' = Nobody
  /\ \E message \in {"success", "failed", "error"} : Toast(c, message)
  /\ UNCHANGED <<jobs, task, out, rid>>

\* showRunResult(name, job.result || job); quality warnings make no difference
\* here.  Without a result it is given the job itself, which has no "success".
Shown(j) == IF detail[j] /\ out[j] = "ok" THEN "success" ELSE "failed"

\* A tick of pollRun that ends the polling: the job is gone, failed or done.
PollEnds(c) ==
  /\ ui[c] = "polling"
  /\ \/ rid[c] \notin table /\ Toast(c, "gone")
     \/ rid[c] \in table /\ status[rid[c]] = "error" /\ Toast(c, "error")
     \/ rid[c] \in table /\ status[rid[c]] = "done" /\ Toast(c, Shown(rid[c]))
  /\ UNCHANGED <<jobs, task, out, holder, rid>>

\* A tick that gives up: one failed request after the eighth tick, or 900
\* ticks without an end.  The run goes on.
PollGivesUp(c) ==
  /\ ui[c] = "polling"
  /\ Toast(c, "gaveUp")
  /\ UNCHANGED <<jobs, task, out, holder, rid>>
-----------------------------------------------------------------------------
(***************************************************************************)
(* The background task, _execute_run_job.                                  *)
(***************************************************************************)
At(j, step) == task[j] = step

Then(j, step) == task' = [task EXCEPT ![j] = step]

\* _cleanup_old_run_jobs: the first thing a task does.
Swept_AtOnce(j) == {k \in table : finished[k] = "no"}
Swept(j) == {k \in table : finished[k] # "old"}

Sweep(j) ==
  /\ At(j, "sweep")
  /\ table' = Swept(j)
  /\ Then(j, "begin")
  /\ UNCHANGED <<status, detail, finished, out, holder, tabs>>

\* The locked block: no job, no run; else job["status"] = "running".
BeginRun(j) ==
  /\ At(j, "begin")
  /\ IF j \in table
     THEN Then(j, "enter") /\ status' = [status EXCEPT ![j] = "running"]
     ELSE Then(j, "ended") /\ UNCHANGED status
  /\ UNCHANGED <<table, detail, finished, out, holder, tabs>>

\* run_pipeline_by_name: the config cannot be loaded, the pipeline is already
\* running, or the run enters the guard.
Enter(j) ==
  /\ At(j, "enter")
  /\ \/ /\ Then(j, "recordError")
        /\ out' = [out EXCEPT ![j] = "raised"]
        /\ UNCHANGED holder
     \/ /\ holder # Nobody
        /\ Then(j, "setError")
        /\ out' = [out EXCEPT ![j] = "busy"]
        /\ UNCHANGED holder
     \/ /\ holder = Nobody
        /\ holder' = j
        /\ Then(j, "work")
        /\ UNCHANGED out
  /\ UNCHANGED <<jobs, tabs>>

\* The load ends and the guard is left.
Work(j) ==
  /\ At(j, "work")
  /\ holder' = Nobody
  /\ \/ /\ \E o \in {"ok", "failedJobs"} : out' = [out EXCEPT ![j] = o]
        /\ Then(j, "record")
     \/ /\ out' = [out EXCEPT ![j] = "raised"]
        /\ Then(j, "recordError")
  /\ UNCHANGED <<jobs, tabs>>

\* record_run_result(_runs(), ...): opening the history may raise, and then
\* the handler for failed runs takes over.
Record(j) ==
  /\ At(j, "record")
  /\ Then(j, "setDone") \/ Then(j, "recordError")
  /\ UNCHANGED <<jobs, out, holder, tabs>>

\* record_run_failure(_runs(), ...), in the handler: if the history cannot be
\* opened there, the exception leaves the task by way of its finally block.
RecordError_NoFinally(j) ==
  /\ At(j, "recordError")
  /\ Then(j, "setError") \/ Then(j, "ended")
  /\ UNCHANGED <<jobs, out, holder, tabs>>

RecordError(j) ==
  /\ At(j, "recordError")
  /\ Then(j, "setError") \/ Then(j, "finally")
  /\ UNCHANGED <<jobs, out, holder, tabs>>

\* job["status"] = "done" or "error"; what goes with it is the next statement.
SetStatus_FinishedToo(j) ==
  /\ task[j] \in {"setDone", "setError"}
  /\ status' = [status EXCEPT ![j] = IF At(j, "setDone") THEN "done" ELSE "error"]
  /\ finished' = [finished EXCEPT ![j] = "now"]
  /\ Then(j, "setDetail")
  /\ UNCHANGED <<table, detail, out, holder, tabs>>

SetStatus(j) ==
  /\ task[j] \in {"setDone", "setError"}
  /\ status' = [status EXCEPT ![j] = IF At(j, "setDone") THEN "done" ELSE "error"]
  /\ Then(j, "setDetail")
  /\ UNCHANGED <<table, detail, finished, out, holder, tabs>>

SetDetail(j) ==
  /\ At(j, "setDetail")
  /\ detail' = [detail EXCEPT ![j] = TRUE]
  /\ Then(j, "finally")
  /\ UNCHANGED <<table, status, finished, out, holder, tabs>>

Finally(j) ==
  /\ At(j, "finally")
  /\ finished' = [finished EXCEPT ![j] = "now"]
  /\ Then(j, "ended")
  /\ UNCHANGED <<table, status, detail, out, holder, tabs>>

TaskStep(j) ==
  \/ Sweep(j) \/ BeginRun(j) \/ Enter(j) \/ Work(j) \/ Record(j) \/ RecordError(j)
  \/ SetStatus(j) \/ SetDetail(j) \/ Finally(j)
-----------------------------------------------------------------------------
(***************************************************************************)
(* Around them.                                                            *)
(***************************************************************************)

\* Another run of the pipeline, scheduled or from another place.
OtherRun ==
  /\ \/ holder = Nobody /\ holder' = Elsewhere
     \/ holder = Elsewhere /\ holder' = Nobody
  /\ UNCHANGED <<jobs, task, out, tabs>>

\* More than an hour passes.
Age(j) ==
  /\ finished[j] = "now"
  /\ finished' = [finished EXCEPT ![j] = "old"]
  /\ UNCHANGED <<table, status, detail, task, out, holder, tabs>>

\* The server restarts.  The tabs stay: a request that was under way fails.
Restart ==
  /\ table' = {}
  /\ task' = [j \in Jobs |-> IF task[j] = "none" THEN "none" ELSE "killed"]
  /\ holder' = Nobody
  /\ LET cut == {c \in Clients : ui[c] = "loading"}
     IN  /\ ui' = [c \in Clients |-> IF c \in cut THEN "idle" ELSE ui[c]]
         /\ told' = [c \in Clients |-> IF c \in cut THEN "error" ELSE told[c]]
  /\ UNCHANGED <<status, detail, finished, out, rid>>

Next ==
  \/ \E c \in Clients, j \in Jobs : PostAsync(c, j)
  \/ \E c \in Clients :
       \/ Click(c) \/ PostBusy(c) \/ PostFails(c) \/ SyncRun(c) \/ SyncAnswer(c)
       \/ PollEnds(c) \/ PollGivesUp(c)
  \/ \E j \in Jobs : TaskStep(j) \/ Age(j)
  \/ OtherRun
  \/ Restart

Spec == Init /\ [][Next]_vars

\* The thread pool runs the background tasks and a load ends; nobody has to
\* click, poll or restart.
FairSpec == Spec /\ \A j \in Jobs : WF_vars(TaskStep(j))
-----------------------------------------------------------------------------
TypeOK ==
  /\ table \in SUBSET Jobs
  /\ status \in [Jobs -> {"none", "queued", "running", "done", "error"}]
  /\ detail \in [Jobs -> BOOLEAN]
  /\ finished \in [Jobs -> {"no", "now", "old"}]
  /\ task \in [Jobs -> {"none", "sweep", "begin", "enter", "work", "record", "recordError",
                        "setDone", "setError", "setDetail", "finally", "ended", "killed"}]
  /\ out \in [Jobs -> {"none", "ok", "failedJobs", "raised", "busy"}]
  /\ holder \in Jobs \cup Clients \cup {Elsewhere, Nobody}
  /\ ui \in [Clients -> {"idle", "posting", "polling", "syncing", "loading"}]
  /\ rid \in [Clients -> Jobs \cup {Nobody}]
  /\ told \in [Clients -> {"none", "success", "failed", "error", "busy", "gone", "gaveUp"}]
  /\ \A c \in Clients : ui[c] = "polling" => rid[c] \in Jobs

(* What a tab that polled says is so.  "Success" is said of a load that    *)
(* succeeded; "failed" or "error" of a job that had ended, and never of one*)
(* under way; "gone" (the server was restarted) of a job that the server   *)
(* has killed, or that ended more than an hour before.                     *)
ToldTheTruth ==
  \A c \in Clients : ui[c] = "idle" /\ rid[c] # Nobody =>
    /\ told[c] = "success" => out[rid[c]] = "ok"
    /\ told[c] \in {"failed", "error"} =>
         status[rid[c]] \in {"done", "error"} /\ out[rid[c]] # "none"
    /\ told[c] = "gone" => task[rid[c]] = "killed" \/ finished[rid[c]] = "old"

(* A job only moves forward, though its fields are written one by one with *)
(* no lock: a tab that has seen it end never sees it run again or change   *)
(* its mind, and finished_at, which lets the sweep take it, comes last.    *)
Rank(s) == CASE s = "none" -> 0 [] s = "queued" -> 1 [] s = "running" -> 2
             [] s \in {"done", "error"} -> 3

JobsMoveForward ==
  [][\A j \in Jobs :
       /\ status'[j] # status[j] => Rank(status[j]) < Rank(status'[j])
       /\ finished[j] # "no" => status'[j] = status[j] /\ detail'[j] = detail[j]
       /\ j \in table \ table' => finished[j] = "old" \/ task'[j] = "killed"]_vars

(* Every accepted job ends - its task cannot die without the finally block *)
(* - unless the server does, so that the sweep can take it.                *)
JobsEnd ==
  \A j \in Jobs : j \in table ~> finished[j] # "no" \/ task[j] = "killed"
-----------------------------------------------------------------------------
(* tests/test_run_async.py polls until the status is "done" or "error" and *)
(* then reads status["result"]["success"]; pollRun does the same.  So a tab*)
(* says that a run failed only if it did.                                  *)
DoneMeansResult ==
  \A c \in Clients :
    rid[c] # Nobody /\ told[c] = "failed" => out[rid[c]] = "failedJobs"
=============================================================================
