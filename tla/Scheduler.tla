----------------------------- MODULE Scheduler -----------------------------
(***************************************************************************)
(* core/scheduler.py with the handlers of api/app.py that change schedules:*)
(* the jobs of the in-process scheduler are a copy of the schedules in the *)
(* ControlStore, which every handler changes first and copies afterwards.  *)
(* What a job does when it fires is PipelineRuns!ScheduleFires.            *)
(*                                                                         *)
(* A step ends at a store access and where the module's lock is taken or   *)
(* released; the lock is held across the steps of one rebuild.             *)
(***************************************************************************)
EXTENDS Naturals, FiniteSets

CONSTANTS Names,     \* pipelines
          DemoNames, \* the demos' fixed names
          Timed,     \* schedules that give a job: an interval, a time of day
          Handlers,  \* threads of the API that serve requests
          Free       \* no thread has the lock

ASSUME SchedulerAssumption ==
  /\ DemoNames \subseteq Names
  /\ Free \notin Handlers
  /\ {"none", "manual", "airflow", "unusable", "absent"} \cap Timed = {}

\* "unusable": a daily_at in a timezone that does not exist.  It is stored; it
\* gets no job.
Schedules == Timed \cup {"manual", "airflow", "unusable"}

VARIABLES store,     \* store[n]: the schedule of n in the ControlStore
          started,   \* _started, and _scheduler is not None
          jobs,      \* jobs[n]: the schedule of the job pipeline:n
          lock,      \* who has _lock
          pc,
          snapshot,  \* what list_all returned to the thread with the lock
          missed     \* names saved by a path that does not reload, or whose
                     \* reload failed, since the last rebuild read the store

vars == <<store, started, jobs, lock, pc, snapshot, missed>>

NoJobs == [n \in Names |-> "none"]
Nothing == [n \in Names |-> "absent"]

\* Definitions named <definition>_<fault> are faulty variants of the definition
\* that follows them; PROJECT.json pairs each with the property that refutes it.

\* _add_jobs_from_store, for one pipeline.
Job_KeepsUnusable(s) == IF s \in {"manual", "airflow", "absent"} THEN "none" ELSE s
Job(s) == IF s \in Timed THEN s ELSE "none"

\* _startup: before any request is served the scheduler is started on what is
\* stored - or is not, if start_scheduler raises.
Boot(stored, up, js) ==
  \/ up = TRUE /\ js = [n \in Names |-> Job(stored[n])]
  \/ up = FALSE /\ js = NoJobs

Init ==
  /\ store = Nothing
  /\ started \in BOOLEAN
  /\ jobs = NoJobs
  /\ lock = Free
  /\ pc = [h \in Handlers |-> "idle"]
  /\ snapshot = Nothing
  /\ missed = {}

GoTo(h, label) == pc' = [pc EXCEPT ![h] = label]
-----------------------------------------------------------------------------
(***************************************************************************)
(* Requests.                                                               *)
(***************************************************************************)

\* create_pipeline: the save, and for kind=airflow a 422 after it.
SaveRequest_ReloadsTimed(h, n, s) ==
  /\ pc[h] = "idle"
  /\ store' = [store EXCEPT ![n] = s]
  /\ IF s = "airflow"
     THEN missed' = missed \cup {n} /\ UNCHANGED pc
     ELSE GoTo(h, IF s \in Timed THEN "reload" ELSE "idle") /\ UNCHANGED missed
  /\ UNCHANGED <<started, jobs, lock, snapshot>>

SaveRequest(h, n, s) ==
  /\ pc[h] = "idle"
  /\ store' = [store EXCEPT ![n] = s]
  /\ IF s = "airflow"
     THEN missed' = missed \cup {n} /\ UNCHANGED pc
     ELSE GoTo(h, "reload") /\ UNCHANGED missed
  /\ UNCHANGED <<started, jobs, lock, snapshot>>

\* delete_pipeline.
DeleteRequest_NoReload(h, n) ==
  /\ pc[h] = "idle"
  /\ store' = [store EXCEPT ![n] = "absent"]
  /\ UNCHANGED <<started, jobs, lock, pc, snapshot, missed>>

DeleteRequest(h, n) ==
  /\ pc[h] = "idle"
  /\ store' = [store EXCEPT ![n] = "absent"]
  /\ GoTo(h, "reload")
  /\ UNCHANGED <<started, jobs, lock, snapshot, missed>>

\* demo_volume, demo_sql, demo_rest: their config has the default schedule,
\* and nothing is reloaded.
DemoRequest(h, n) ==
  /\ pc[h] = "idle"
  /\ n \in DemoNames
  /\ store' = [store EXCEPT ![n] = "manual"]
  /\ missed' = missed \cup {n}
  /\ UNCHANGED <<started, jobs, lock, pc, snapshot>>

\* POST /api/scheduler/start, /stop and /reload.
SchedulerRequest(h) ==
  /\ pc[h] = "idle"
  /\ \E label \in {"start", "stop", "reload"} : GoTo(h, label)
  /\ UNCHANGED <<store, started, jobs, lock, snapshot, missed>>
-----------------------------------------------------------------------------
(***************************************************************************)
(* core/scheduler.py.                                                      *)
(***************************************************************************)

\* reload_jobs, under the lock: a running scheduler loses its jobs and gets new
\* ones; otherwise the lock is released before stop_scheduler and
\* start_scheduler are called.
Reload_AlreadyRunning(h) ==
  /\ pc[h] = "reload"
  /\ lock = Free
  /\ GoTo(h, IF started THEN "idle" ELSE "restop")
  /\ UNCHANGED <<store, started, jobs, lock, snapshot, missed>>

Reload(h) ==
  /\ pc[h] = "reload"
  /\ lock = Free
  /\ IF started
     THEN lock' = h /\ jobs' = NoJobs /\ GoTo(h, "read")
     ELSE GoTo(h, "restop") /\ UNCHANGED <<lock, jobs>>
  /\ UNCHANGED <<store, started, snapshot, missed>>

\* stop_scheduler, whatever the scheduler has become since reload_jobs looked.
Stop(h) ==
  /\ pc[h] \in {"stop", "restop"}
  /\ lock = Free
  /\ started' = FALSE
  /\ jobs' = NoJobs
  /\ GoTo(h, IF pc[h] = "stop" THEN "idle" ELSE "start")
  /\ UNCHANGED <<store, lock, snapshot, missed>>

\* start_scheduler: the running scheduler or a new one, without its jobs.
\* Opening the store raises before that, and then nothing has changed.
Start(h) ==
  /\ pc[h] = "start"
  /\ lock = Free
  /\ \/ lock' = h /\ jobs' = NoJobs /\ GoTo(h, "read")
     \/ GoTo(h, "idle") /\ UNCHANGED <<lock, jobs>>
  /\ UNCHANGED <<store, started, snapshot, missed>>

\* _add_jobs_from_store: list_all.  The lock keeps other rebuilds out, not
\* other handlers' saves.
Read(h) ==
  /\ pc[h] = "read"
  /\ snapshot' = store
  /\ missed' = {}
  /\ GoTo(h, "add")
  /\ UNCHANGED <<store, started, jobs, lock>>

\* list_all raises: the handlers log it, and the scheduler goes on, if it was
\* running, with the jobs it has left: none.
ReadFails(h) ==
  /\ pc[h] = "read"
  /\ missed' = Names
  /\ lock' = Free
  /\ GoTo(h, "idle")
  /\ UNCHANGED <<store, started, jobs, snapshot>>

\* _add_jobs_from_store: the add_job calls; then the scheduler runs.
Add(h) ==
  /\ pc[h] = "add"
  /\ jobs' = [n \in Names |-> Job(snapshot[n])]
  /\ started' = TRUE
  /\ lock' = Free
  /\ snapshot' = Nothing
  /\ GoTo(h, "idle")
  /\ UNCHANGED <<store, missed>>

Step(h) == Reload(h) \/ Stop(h) \/ Start(h) \/ Read(h) \/ ReadFails(h) \/ Add(h)

\* The process is restarted: see Boot.
Restart ==
  /\ Boot(store, started', jobs')
  /\ lock' = Free
  /\ pc' = [h \in Handlers |-> "idle"]
  /\ snapshot' = Nothing
  /\ missed' = {}
  /\ UNCHANGED store

Next ==
  \/ \E h \in Handlers, n \in Names :
       \/ \E s \in Schedules : SaveRequest(h, n, s)
       \/ DeleteRequest(h, n) \/ DemoRequest(h, n)
  \/ \E h \in Handlers : SchedulerRequest(h) \/ Step(h)
  \/ Restart

Spec == Init /\ [][Next]_vars

\* Handlers that can run are scheduled.  The lock need not be fair: a handler
\* that is kept waiting for it waits for others' rebuilds.
FairSpec == Spec /\ \A h \in Handlers : WF_vars(Step(h))
-----------------------------------------------------------------------------
Labels == {"idle", "reload", "restop", "stop", "start", "read", "add"}

TypeOK ==
  /\ store \in [Names -> Schedules \cup {"absent"}]
  /\ started \in BOOLEAN
  /\ jobs \in [Names -> Timed \cup {"none"}]
  /\ lock \in Handlers \cup {Free}
  /\ pc \in [Handlers -> Labels]
  /\ snapshot \in [Names -> Schedules \cup {"absent"}]
  /\ missed \in SUBSET Names
  /\ \A h \in Handlers : pc[h] \in {"read", "add"} <=> lock = h

\* A handler that is bound to read the store for a rebuild, or to stop the
\* scheduler first.
WillRead == {h \in Handlers : pc[h] \in {"reload", "restop", "read"}}

(* A running scheduler has the jobs that are stored, as soon as nobody is  *)
(* about to rebuild them, whichever saves, deletes, stops, starts and      *)
(* reloads overlapped - except for the names that were saved on a path     *)
(* that forgets to reload (see AlwaysReloaded) or after a failed one.      *)
JobsFollowStore ==
  started /\ lock = Free /\ WillRead = {} =>
    \A n \in Names \ missed : jobs[n] = Job(store[n])

(* A rebuild under way is only outdated by a handler that will rebuild     *)
(* again, or by a path that forgets to.                                    *)
SnapshotsAreFollowed ==
  \A h \in Handlers : pc[h] = "add" /\ WillRead = {} =>
    \A n \in Names \ missed : snapshot[n] = store[n]

(* A schedule that is saved gets its job, if it is not changed again, no   *)
(* reload fails and nobody stops the scheduler.                            *)
SavesTakeEffect ==
  \A n \in Names, t \in Timed :
    (store[n] = t /\ n \notin missed /\ started) ~>
      (jobs[n] = t \/ store[n] # t \/ n \in missed \/ ~started)
-----------------------------------------------------------------------------
(* create_pipeline: "Har doim reload: interval 1→60, interval→manual,      *)
(* daily_at o'zgarishi — eski job o'chirilishi shart" (always reload: the  *)
(* old job has to be removed).  So nothing but a failed reload can leave a *)
(* running scheduler with a job that is not what is stored.                *)
AlwaysReloaded ==
  started /\ lock = Free /\ WillRead = {} /\ missed # Names =>
    \A n \in Names : jobs[n] = Job(store[n])
=============================================================================
