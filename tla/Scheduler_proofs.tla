-------------------------- MODULE Scheduler_proofs --------------------------
(***************************************************************************)
(* Proofs about Scheduler, for any pipelines, schedules and handlers.      *)
(***************************************************************************)
EXTENDS Scheduler, TLAPS

(* The variables keep their types, and the handler that has the lock is the*)
(* one that rebuilds.                                                      *)
THEOREM TypeCorrect == Spec => []TypeOK
<1>1. Init => TypeOK
  BY SchedulerAssumption DEF Init, TypeOK, Nothing, NoJobs, Labels, Schedules
<1>2. TypeOK /\ [Next]_vars => TypeOK'
  <2> SUFFICES ASSUME TypeOK, [Next]_vars PROVE TypeOK'
    OBVIOUS
  <2> USE SchedulerAssumption DEF TypeOK, GoTo, Labels, Nothing, NoJobs, Schedules
  <2>1. ASSUME NEW h \in Handlers, NEW n \in Names, NEW s \in Schedules,
               SaveRequest(h, n, s)
        PROVE  TypeOK'
    BY <2>1 DEF SaveRequest
  <2>2. ASSUME NEW h \in Handlers, NEW n \in Names, DeleteRequest(h, n) PROVE TypeOK'
    BY <2>2 DEF DeleteRequest
  <2>3. ASSUME NEW h \in Handlers, NEW n \in Names, DemoRequest(h, n) PROVE TypeOK'
    BY <2>3 DEF DemoRequest
  <2>4. ASSUME NEW h \in Handlers, SchedulerRequest(h) PROVE TypeOK'
    BY <2>4 DEF SchedulerRequest
  <2>5. ASSUME NEW h \in Handlers, Reload(h) PROVE TypeOK'
    BY <2>5 DEF Reload
  <2>6. ASSUME NEW h \in Handlers, Stop(h) PROVE TypeOK'
    BY <2>6, SchedulerAssumption DEF Stop
  <2>7. ASSUME NEW h \in Handlers, Start(h) PROVE TypeOK'
    BY <2>7 DEF Start
  <2>8. ASSUME NEW h \in Handlers, Read(h) PROVE TypeOK'
    BY <2>8 DEF Read
  <2>9. ASSUME NEW h \in Handlers, ReadFails(h) PROVE TypeOK'
    BY <2>9 DEF ReadFails
  <2>10. ASSUME NEW h \in Handlers, Add(h) PROVE TypeOK'
    BY <2>10 DEF Add, Job
  <2>11. CASE Restart
    BY <2>11 DEF Restart, Boot, Job
  <2>12. CASE UNCHANGED vars
    BY <2>12 DEF vars
  <2> QED
    BY <2>1, <2>2, <2>3, <2>4, <2>5, <2>6, <2>7, <2>8, <2>9, <2>10, <2>11, <2>12
       DEF Next, Step
<1> QED
  BY <1>1, <1>2, PTL DEF Spec

(* The two invariants carry each other: a rebuild writes what the snapshot *)
(* says, and a snapshot is only outdated by a save whose handler has yet to*)
(* reload.                                                                 *)
IInv == TypeOK /\ SnapshotsAreFollowed /\ JobsFollowStore

THEOREM InductiveInvariant == Spec => []IInv
<1>1. Init => IInv
  BY SchedulerAssumption
     DEF Init, IInv, TypeOK, SnapshotsAreFollowed, JobsFollowStore, Nothing, NoJobs,
         Job, Labels, Schedules
<1>2. IInv /\ TypeOK' /\ [Next]_vars => IInv'
  <2> SUFFICES ASSUME IInv, TypeOK', [Next]_vars
               PROVE  SnapshotsAreFollowed' /\ JobsFollowStore'
    BY DEF IInv
  <2> USE DEF IInv, TypeOK, SnapshotsAreFollowed, JobsFollowStore, WillRead, GoTo
  <2>1. ASSUME NEW h \in Handlers, NEW n \in Names, NEW s \in Schedules,
               SaveRequest(h, n, s)
        PROVE  SnapshotsAreFollowed' /\ JobsFollowStore'
    <3>1. CASE s = "airflow"
      BY <2>1, <3>1 DEF SaveRequest
    <3>2. CASE s # "airflow"
      <4>1. h \in WillRead'
        BY <2>1, <3>2 DEF SaveRequest
      <4> QED
        BY <4>1
    <3> QED
      BY <3>1, <3>2
  <2>2. ASSUME NEW h \in Handlers, NEW n \in Names, DeleteRequest(h, n)
        PROVE  SnapshotsAreFollowed' /\ JobsFollowStore'
    <3>1. h \in WillRead'
      BY <2>2 DEF DeleteRequest
    <3> QED
      BY <3>1
  <2>3. ASSUME NEW h \in Handlers, NEW n \in Names, DemoRequest(h, n)
        PROVE  SnapshotsAreFollowed' /\ JobsFollowStore'
    BY <2>3 DEF DemoRequest
  <2>4. ASSUME NEW h \in Handlers, SchedulerRequest(h)
        PROVE  SnapshotsAreFollowed' /\ JobsFollowStore'
    BY <2>4 DEF SchedulerRequest
  <2>5. ASSUME NEW h \in Handlers, Reload(h)
        PROVE  SnapshotsAreFollowed' /\ JobsFollowStore'
    <3>1. h \in WillRead'
      BY <2>5 DEF Reload
    <3> QED
      BY <3>1
  <2>6. ASSUME NEW h \in Handlers, Stop(h)
        PROVE  SnapshotsAreFollowed' /\ JobsFollowStore'
    BY <2>6, SchedulerAssumption DEF Stop
  <2>7. ASSUME NEW h \in Handlers, Start(h)
        PROVE  SnapshotsAreFollowed' /\ JobsFollowStore'
    BY <2>7, SchedulerAssumption DEF Start
  <2>8. ASSUME NEW h \in Handlers, Read(h)
        PROVE  SnapshotsAreFollowed' /\ JobsFollowStore'
    BY <2>8, SchedulerAssumption DEF Read
  <2>9. ASSUME NEW h \in Handlers, ReadFails(h)
        PROVE  SnapshotsAreFollowed' /\ JobsFollowStore'
    BY <2>9 DEF ReadFails
  <2>10. ASSUME NEW h \in Handlers, Add(h)
         PROVE  SnapshotsAreFollowed' /\ JobsFollowStore'
    BY <2>10 DEF Add
  <2>11. CASE Restart
    BY <2>11 DEF Restart, Boot
  <2>12. CASE UNCHANGED vars
    BY <2>12 DEF vars
  <2> QED
    BY <2>1, <2>2, <2>3, <2>4, <2>5, <2>6, <2>7, <2>8, <2>9, <2>10, <2>11, <2>12
       DEF Next, Step
<1> QED
  BY <1>1, <1>2, TypeCorrect, PTL DEF Spec

(* A handler that rebuilds writes the schedules that are stored, or another*)
(* handler is about to rebuild after it.                                   *)
THEOREM SnapshotsAreCurrent == Spec => []SnapshotsAreFollowed
<1>1. IInv => SnapshotsAreFollowed
  BY DEF IInv
<1> QED
  BY <1>1, InductiveInvariant, PTL

(* Whatever handlers overlap, the jobs of a running scheduler end up as the*)
(* schedules that are stored.                                              *)
THEOREM JobsAreCurrent == Spec => []JobsFollowStore
<1>1. IInv => JobsFollowStore
  BY DEF IInv
<1> QED
  BY <1>1, InductiveInvariant, PTL
-----------------------------------------------------------------------------
(***************************************************************************)
(* What SavesTakeEffect rests on, with JobsFollowStore: a rebuild that has *)
(* to be made is made.                                                     *)
(***************************************************************************)

\* How many steps are left for a handler.
Left(step) ==
  CASE step = "reload" -> 5 [] step = "restop" -> 4 [] step = "start" -> 3
    [] step = "read" -> 2 [] step \in {"stop", "add"} -> 1 [] step = "idle" -> 0

(* A handler goes on until it is done: a rebuild that finds the scheduler  *)
(* stopped, or is overtaken by others, never begins again.                 *)
HandlersMoveOn ==
  [][\A h \in Handlers : pc[h] # "idle" => UNCHANGED pc[h] \/ Left(pc'[h]) < Left(pc[h])]_vars

THEOREM RebuildsGoOn == Spec => HandlersMoveOn
<1> DEFINE On ==
      \A h \in Handlers : pc[h] # "idle" => UNCHANGED pc[h] \/ Left(pc'[h]) < Left(pc[h])
<1>0. /\ Left("reload") = 5 /\ Left("restop") = 4 /\ Left("start") = 3 /\ Left("read") = 2
      /\ Left("add") = 1 /\ Left("stop") = 1 /\ Left("idle") = 0
  BY DEF Left
<1>1. TypeOK /\ [Next]_vars => [On]_vars
  <2> SUFFICES ASSUME TypeOK, Next PROVE On
    OBVIOUS
  <2> USE DEF TypeOK, GoTo, Labels
  <2>1. ASSUME NEW h \in Handlers, pc[h] = "idle", \A g \in Handlers \ {h} : UNCHANGED pc[g]
        PROVE  On
    BY <2>1
  <2>2. ASSUME NEW h \in Handlers, NEW n \in Names, NEW s \in Schedules, SaveRequest(h, n, s)
        PROVE  On
    BY <2>1, <2>2 DEF SaveRequest
  <2>3. ASSUME NEW h \in Handlers, NEW n \in Names,
               DeleteRequest(h, n) \/ DemoRequest(h, n)
        PROVE  On
    BY <2>1, <2>3 DEF DeleteRequest, DemoRequest
  <2>4. ASSUME NEW h \in Handlers, Reload(h) \/ Stop(h) \/ Start(h) PROVE On
    BY <1>0, <2>4 DEF Reload, Stop, Start
  <2>5. ASSUME NEW h \in Handlers, Read(h) \/ ReadFails(h) \/ Add(h) PROVE On
    BY <1>0, <2>5 DEF Read, ReadFails, Add
  <2>6. CASE Restart
    BY <1>0, <2>6 DEF Restart
  <2>7. ASSUME NEW h \in Handlers, SchedulerRequest(h) PROVE On
    BY <2>1, <2>7 DEF SchedulerRequest
  <2> QED
    BY <2>2, <2>3, <2>4, <2>5, <2>6, <2>7 DEF Next, Step
<1> QED
  BY <1>1, TypeCorrect, PTL DEF Spec, HandlersMoveOn
=============================================================================
