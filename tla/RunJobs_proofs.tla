--------------------------- MODULE RunJobs_proofs ---------------------------
(***************************************************************************)
(* Proofs about RunJobs, for any number of jobs and tabs.                  *)
(***************************************************************************)
EXTENDS RunJobs, TLAPS

Ended == {"done", "error"}

\* What the fields of a job are at each step of its task.
JobInv ==
  \A j \in Jobs :
    /\ task[j] = "none" => status[j] = "none" /\ j \notin table
    /\ task[j] \in {"sweep", "begin"} => status[j] = "queued" /\ j \in table
    /\ task[j] \in {"enter", "work", "record", "recordError", "setDone", "setError"} =>
         status[j] = "running"
    /\ task[j] \in {"none", "sweep", "begin", "enter", "work"} => out[j] = "none"
    /\ task[j] \in {"record", "setDone"} => out[j] \in {"ok", "failedJobs"}
    /\ task[j] \in {"recordError", "setError", "setDetail", "finally", "ended"} => out[j] # "none"
    /\ task[j] = "setDetail" => status[j] \in Ended
    /\ task[j] = "killed" => j \notin table
    /\ status[j] \in Ended => out[j] # "none"
    /\ finished[j] # "no" => task[j] \in {"ended", "killed"}

\* A job whose id a tab has is in the table, or the server has good reason; a
\* tab has no id while it waits for one, or does without.
RidInv ==
  \A c \in Clients : rid[c] # Nobody =>
    /\ ui[c] \in {"polling", "idle"}
    /\ task[rid[c]] # "none"
    /\ rid[c] \in table \/ finished[rid[c]] = "old" \/ task[rid[c]] = "killed"

(* The variables keep their types, and a tab only polls with a job id.     *)
THEOREM TypeCorrect == Spec => []TypeOK
<1>1. Init => TypeOK
  BY DEF Init, TypeOK
<1>2. TypeOK /\ [Next]_vars => TypeOK'
  <2> SUFFICES ASSUME TypeOK, [Next]_vars PROVE TypeOK'
    OBVIOUS
  <2> USE DEF TypeOK, jobs, tabs, Goes, Toast, Then, At
  <2>1. ASSUME NEW c \in Clients, NEW j \in Jobs, PostAsync(c, j) PROVE TypeOK'
    BY <2>1 DEF PostAsync
  <2>2. ASSUME NEW c \in Clients, Click(c) \/ PostBusy(c) \/ PostFails(c) PROVE TypeOK'
    BY <2>2 DEF Click, PostBusy, PostFails
  <2>3. ASSUME NEW c \in Clients, SyncRun(c) \/ SyncAnswer(c) PROVE TypeOK'
    BY <2>3 DEF SyncRun, SyncAnswer
  <2>4. ASSUME NEW c \in Clients, PollEnds(c) \/ PollGivesUp(c) PROVE TypeOK'
    BY <2>4 DEF PollEnds, PollGivesUp, Shown
  <2>5. ASSUME NEW j \in Jobs, Sweep(j) \/ BeginRun(j) \/ Enter(j) \/ Work(j) PROVE TypeOK'
    BY <2>5 DEF Sweep, Swept, BeginRun, Enter, Work
  <2>6. ASSUME NEW j \in Jobs, Record(j) \/ RecordError(j) \/ SetStatus(j) \/ SetDetail(j)
                               \/ Finally(j) \/ Age(j)
        PROVE  TypeOK'
    BY <2>6 DEF Record, RecordError, SetStatus, SetDetail, Finally, Age
  <2>7. CASE OtherRun
    BY <2>7 DEF OtherRun
  <2>8. CASE Restart
    BY <2>8 DEF Restart
  <2>9. CASE UNCHANGED vars
    BY <2>9 DEF vars
  <2> QED
    BY <2>1, <2>2, <2>3, <2>4, <2>5, <2>6, <2>7, <2>8, <2>9 DEF Next, TaskStep
<1> QED
  BY <1>1, <1>2, PTL DEF Spec

IInv == TypeOK /\ JobInv /\ RidInv /\ ToldTheTruth

(* The invariant from which the rest follows: a task's step says what its  *)
(* job's fields are, and a tab's job id leads to its job.                  *)
THEOREM InductiveInvariant == Spec => []IInv
<1>1. Init => IInv
  BY DEF Init, IInv, TypeOK, JobInv, RidInv, ToldTheTruth, Ended
<1>2. IInv /\ TypeOK' /\ [Next]_vars => IInv'
  <2> SUFFICES ASSUME IInv, TypeOK', [Next]_vars
               PROVE  JobInv' /\ RidInv' /\ ToldTheTruth'
    BY DEF IInv
  <2> USE JobsAssumption
      DEF IInv, TypeOK, JobInv, RidInv, ToldTheTruth, Ended, jobs, tabs, Goes, Toast, Then, At
  <2>1. ASSUME NEW c \in Clients, NEW j \in Jobs, PostAsync(c, j)
        PROVE  JobInv' /\ RidInv' /\ ToldTheTruth'
    BY <2>1 DEF PostAsync
  <2>2. ASSUME NEW c \in Clients, Click(c) \/ PostBusy(c) \/ PostFails(c)
        PROVE  JobInv' /\ RidInv' /\ ToldTheTruth'
    BY <2>2 DEF Click, PostBusy, PostFails
  <2>3. ASSUME NEW c \in Clients, SyncRun(c) \/ SyncAnswer(c)
        PROVE  JobInv' /\ RidInv' /\ ToldTheTruth'
    BY <2>3 DEF SyncRun, SyncAnswer
  <2>4. ASSUME NEW c \in Clients, PollEnds(c) \/ PollGivesUp(c)
        PROVE  JobInv' /\ RidInv' /\ ToldTheTruth'
    BY <2>4 DEF PollEnds, PollGivesUp, Shown
  <2>5. ASSUME NEW j \in Jobs, Sweep(j)
        PROVE  JobInv' /\ RidInv' /\ ToldTheTruth'
    BY <2>5 DEF Sweep, Swept
  <2>6. ASSUME NEW j \in Jobs, BeginRun(j) \/ Enter(j) \/ Work(j)
        PROVE  JobInv' /\ RidInv' /\ ToldTheTruth'
    BY <2>6 DEF BeginRun, Enter, Work
  <2>7. ASSUME NEW j \in Jobs, Record(j) \/ RecordError(j) \/ SetStatus(j)
        PROVE  JobInv' /\ RidInv' /\ ToldTheTruth'
    BY <2>7 DEF Record, RecordError, SetStatus
  <2>8. ASSUME NEW j \in Jobs, SetDetail(j) \/ Finally(j) \/ Age(j)
        PROVE  JobInv' /\ RidInv' /\ ToldTheTruth'
    BY <2>8 DEF SetDetail, Finally, Age
  <2>9. CASE OtherRun
    BY <2>9 DEF OtherRun
  <2>10. CASE Restart
    BY <2>10 DEF Restart
  <2>11. CASE UNCHANGED vars
    BY <2>11 DEF vars
  <2> QED
    BY <2>1, <2>2, <2>3, <2>4, <2>5, <2>6, <2>7, <2>8, <2>9, <2>10, <2>11 DEF Next, TaskStep
<1> QED
  BY <1>1, <1>2, TypeCorrect, PTL DEF Spec

(* What a tab says about a job that it polled is so.                       *)
THEOREM TabsAreTruthful == Spec => []ToldTheTruth
<1>1. IInv => ToldTheTruth
  BY DEF IInv
<1> QED
  BY <1>1, InductiveInvariant, PTL

(* A job never goes back, and what a tab can have read of it when it has   *)
(* finished stays: the unlocked writes of the task are in an order that no *)
(* reader can see reversed.                                                *)
THEOREM JobsNeverGoBack == Spec => JobsMoveForward
<1> DEFINE Forward ==
      \A j \in Jobs :
        /\ status'[j] # status[j] => Rank(status[j]) < Rank(status'[j])
        /\ finished[j] # "no" => status'[j] = status[j] /\ detail'[j] = detail[j]
        /\ j \in table \ table' => finished[j] = "old" \/ task'[j] = "killed"
<1>0. /\ Rank("none") = 0 /\ Rank("queued") = 1 /\ Rank("running") = 2
      /\ Rank("done") = 3 /\ Rank("error") = 3
  BY DEF Rank
<1>1. IInv /\ [Next]_vars => [Forward]_vars
  <2> SUFFICES ASSUME IInv, Next PROVE Forward
    OBVIOUS
  <2> USE DEF IInv, TypeOK, JobInv, Ended, jobs, tabs, Then, At
  <2>1. ASSUME NEW c \in Clients, NEW j \in Jobs, PostAsync(c, j) PROVE Forward
    BY <2>1, <1>0 DEF PostAsync
  <2>2. ASSUME NEW c \in Clients,
               \/ Click(c) \/ PostBusy(c) \/ PostFails(c) \/ SyncRun(c)
               \/ SyncAnswer(c) \/ PollEnds(c) \/ PollGivesUp(c)
        PROVE  Forward
    BY <2>2 DEF Click, PostBusy, PostFails, SyncRun, SyncAnswer, PollEnds, PollGivesUp
  <2>3. ASSUME NEW j \in Jobs, Sweep(j) \/ BeginRun(j) \/ Enter(j) \/ Work(j) PROVE Forward
    BY <2>3, <1>0 DEF Sweep, Swept, BeginRun, Enter, Work
  <2>4. ASSUME NEW j \in Jobs, Record(j) \/ RecordError(j) \/ SetStatus(j) PROVE Forward
    BY <2>4, <1>0 DEF Record, RecordError, SetStatus
  <2>5. ASSUME NEW j \in Jobs, SetDetail(j) \/ Finally(j) \/ Age(j) PROVE Forward
    BY <2>5 DEF SetDetail, Finally, Age
  <2>6. CASE OtherRun
    BY <2>6 DEF OtherRun
  <2>7. CASE Restart
    BY <2>7 DEF Restart
  <2> QED
    BY <2>1, <2>2, <2>3, <2>4, <2>5, <2>6, <2>7 DEF Next, TaskStep
<1> QED
  BY <1>1, InductiveInvariant, PTL DEF Spec, JobsMoveForward
-----------------------------------------------------------------------------
(***************************************************************************)
(* What JobsEnd rests on: a job that has not ended has a task, and the task*)
(* goes on.                                                                *)
(***************************************************************************)

\* How many steps of its task are left for a job.
Left(step) ==
  CASE step = "sweep" -> 9 [] step = "begin" -> 8 [] step = "enter" -> 7
    [] step = "work" -> 6 [] step = "record" -> 5 [] step = "recordError" -> 4
    [] step \in {"setDone", "setError"} -> 3 [] step = "setDetail" -> 2
    [] step = "finally" -> 1 [] step \in {"none", "ended", "killed"} -> 0

(* A job in the table has finished_at, or a task that will still set it:   *)
(* no exception leaves the task by a way round the finally block.          *)
NoneForgotten == \A j \in Jobs : j \in table /\ finished[j] = "no" => Left(task[j]) > 0

(* A task stays where it is until it comes nearer to its end, whatever     *)
(* other tasks, runs and tabs do; only a restart cuts it off, and an ended *)
(* one never starts again.                                                 *)
TasksMoveOn ==
  [][\A j \in Jobs : task[j] # "none" =>
       UNCHANGED task[j] \/ task'[j] = "killed" \/ Left(task'[j]) < Left(task[j])]_vars

THEOREM TasksGoOn == Spec => []NoneForgotten /\ TasksMoveOn
<1> DEFINE On ==
      \A j \in Jobs : task[j] # "none" =>
        UNCHANGED task[j] \/ task'[j] = "killed" \/ Left(task'[j]) < Left(task[j])
<1>0. /\ Left("sweep") = 9 /\ Left("begin") = 8 /\ Left("enter") = 7 /\ Left("work") = 6
      /\ Left("record") = 5 /\ Left("recordError") = 4 /\ Left("setDone") = 3
      /\ Left("setError") = 3 /\ Left("setDetail") = 2 /\ Left("finally") = 1
      /\ Left("none") = 0 /\ Left("ended") = 0 /\ Left("killed") = 0
  BY DEF Left
<1>1. Init => NoneForgotten
  BY DEF Init, NoneForgotten
<1>2. IInv /\ NoneForgotten /\ [Next]_vars => NoneForgotten' /\ [On]_vars
  <2> SUFFICES ASSUME IInv, NoneForgotten, [Next]_vars PROVE NoneForgotten' /\ (UNCHANGED vars \/ On)
    OBVIOUS
  <2> USE <1>0 DEF IInv, TypeOK, JobInv, NoneForgotten, jobs, tabs, Then, At
  <2>1. ASSUME NEW c \in Clients, NEW j \in Jobs, PostAsync(c, j) PROVE NoneForgotten' /\ On
    BY <2>1 DEF PostAsync
  <2>2. ASSUME UNCHANGED <<table, finished, task>> PROVE NoneForgotten' /\ On
    BY <2>2
  <2>3. ASSUME NEW c \in Clients,
               \/ Click(c) \/ PostBusy(c) \/ PostFails(c) \/ SyncRun(c)
               \/ SyncAnswer(c) \/ PollEnds(c) \/ PollGivesUp(c)
        PROVE  NoneForgotten' /\ On
    BY <2>2, <2>3 DEF Click, PostBusy, PostFails, SyncRun, SyncAnswer, PollEnds, PollGivesUp
  <2>4. ASSUME NEW j \in Jobs, Sweep(j) \/ BeginRun(j) PROVE NoneForgotten' /\ On
    BY <2>4 DEF Sweep, Swept, BeginRun
  <2>5. ASSUME NEW j \in Jobs, Enter(j) \/ Work(j) PROVE NoneForgotten' /\ On
    BY <2>5 DEF Enter, Work
  <2>6. ASSUME NEW j \in Jobs, Record(j) \/ RecordError(j) \/ SetStatus(j) PROVE NoneForgotten' /\ On
    <3>1. UNCHANGED <<table, finished>>
      BY <2>6 DEF Record, RecordError, SetStatus
    <3>2. PICK to \in {"setDone", "recordError", "setError", "finally", "setDetail"} :
            task' = [task EXCEPT ![j] = to] /\ Left(to) < Left(task[j])
      BY <2>6 DEF Record, RecordError, SetStatus
    <3>3. Left(to) > 0 /\ task'[j] = to /\ \A k \in Jobs \ {j} : task'[k] = task[k]
      BY <3>2
    <3>4. NoneForgotten'
      BY <3>1, <3>3
    <3>5. On
      BY <3>2, <3>3
    <3> QED
      BY <3>4, <3>5
  <2>7. ASSUME NEW j \in Jobs, SetDetail(j) \/ Finally(j) \/ Age(j) PROVE NoneForgotten' /\ On
    BY <2>7 DEF SetDetail, Finally, Age
  <2>8. CASE OtherRun
    BY <2>2, <2>8 DEF OtherRun
  <2>9. CASE Restart
    BY <2>9 DEF Restart
  <2>10. CASE UNCHANGED vars
    BY <2>10 DEF vars
  <2> QED
    BY <2>1, <2>3, <2>4, <2>5, <2>6, <2>7, <2>8, <2>9, <2>10 DEF Next, TaskStep
<1> QED
  BY <1>1, <1>2, InductiveInvariant, PTL DEF Spec, TasksMoveOn
=============================================================================
