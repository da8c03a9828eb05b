------------------------ MODULE PipelineRuns_proofs ------------------------
(***************************************************************************)
(* Proofs about PipelineRuns, for any pipelines, runners and slots: the    *)
(* in-process guard is exact, the slots of the queue are those of its      *)
(* workers, and the history records what the runs were.                    *)
(***************************************************************************)
EXTENDS PipelineRuns, SequenceLemmas, FiniteSetTheorems, TLAPS

(* The variables keep their types, and a run past the guard has an outcome *)
(* before it gets to the finally block of run_pipeline_by_name.            *)
THEOREM TypeCorrect == Spec => []TypeOK
<1>1. Init => TypeOK
  BY RunsAssumption DEF Init, TypeOK, Labels
<1>2. TypeOK /\ [Next]_vars => TypeOK'
  <2> SUFFICES ASSUME TypeOK, [Next]_vars PROVE TypeOK'
    OBVIOUS
  <2> USE DEF TypeOK, queue, run, GoTo, Begin, End, Labels, Kinds, Outcomes, Results, Errors
  <2>1. ASSUME NEW n \in Names, Save(n) \/ Delete(n) PROVE TypeOK'
    BY <2>1 DEF Save, Delete
  <2>2. ASSUME NEW n \in Names, ScheduleFires(n) PROVE TypeOK'
    BY <2>2 DEF ScheduleFires, Pool!Submit
  <2>3. ASSUME NEW r \in Runners, NEW n \in Names, ManualRequest(r, n) PROVE TypeOK'
    BY <2>3 DEF ManualRequest
  <2>4. ASSUME NEW r \in Runners, NEW n \in Names, CliRequest(r, n) PROVE TypeOK'
    BY <2>4 DEF CliRequest
  <2>5. ASSUME NEW r \in Runners, NEW n \in Names, AsyncRequest(r, n) PROVE TypeOK'
    BY <2>5 DEF AsyncRequest
  <2>6. ASSUME NEW r \in Runners, NEW n \in Names, DemoRequest(r, n) PROVE TypeOK'
    BY <2>6 DEF DemoRequest
  <2>7. ASSUME NEW r \in Runners, Dispatch(r) PROVE TypeOK'
    <3>1. Head(waiting) \in Names /\ Tail(waiting) \in Seq(Names)
      BY <2>7 DEF Dispatch, Pool!Dispatch
    <3> QED
      BY <2>7, <3>1 DEF Dispatch, Pool!Dispatch
  <2>8. ASSUME NEW r \in Runners, StartWorker(r) \/ StartFails(r) \/ OpenStores(r)
        PROVE  TypeOK'
    BY <2>8 DEF StartWorker, StartFails, OpenStores
  <2>9. ASSUME NEW r \in Runners, Load(r) PROVE TypeOK'
    BY <2>9 DEF Load, AfterRun, Quiet, Exit
  <2>10. ASSUME NEW r \in Runners, Guard(r) PROVE TypeOK'
    BY <2>10 DEF Guard, Entered, AfterRun, Quiet, Exit
  <2>11. ASSUME NEW r \in Runners, Work(r) PROVE TypeOK'
    BY <2>11 DEF Work
  <2>12. ASSUME NEW r \in Runners, Pop(r) PROVE TypeOK'
    BY <2>12 DEF Pop, AfterRun, Quiet, Exit
  <2>13. ASSUME NEW r \in Runners, Record(r) PROVE TypeOK'
    BY <2>13 DEF Record, RowOf, Exit
  <2>14. ASSUME NEW r \in Runners, OpenHistoryFails(r) PROVE TypeOK'
    BY <2>14 DEF OpenHistoryFails
  <2>15. ASSUME NEW r \in Runners, Answer(r) PROVE TypeOK'
    BY <2>15 DEF Answer
  <2>16. ASSUME NEW r \in Runners, Release(r) PROVE TypeOK'
    BY <2>16 DEF Release, Pool!Finish
  <2>17. CASE Restart
    BY <2>17 DEF Restart
  <2>18. CASE UNCHANGED vars
    BY <2>18 DEF vars
  <2> QED
    BY <2>1, <2>2, <2>3, <2>4, <2>5, <2>6, <2>7, <2>8, <2>9, <2>10, <2>11,
       <2>12, <2>13, <2>14, <2>15, <2>16, <2>17, <2>18 DEF Next, Step
<1> QED
  BY <1>1, <1>2, PTL DEF Spec
-----------------------------------------------------------------------------
(***************************************************************************)
(* The inductive invariant: the guard is exact; the queue's slots are its  *)
(* workers', which needs that a queued name holds no slot; and where a run *)
(* is says what it can have recorded.                                      *)
(***************************************************************************)

\* The pool: each name once, waiting or holding one of at most Max slots.
QueueInv ==
  /\ IsInjective(waiting)
  /\ Range(waiting) \cap active = {}
  /\ IsFiniteSet(active)
  /\ Cardinality(active) <= Max

\* Slots belong to workers, one each, or are lost.
SlotInv ==
  /\ active = {name[r] : r \in Workers} \cup leaked
  /\ \A r, s \in Workers : name[r] = name[s] => r = s
  /\ \A r \in Workers : name[r] \notin leaked

\* Which steps a run of some kind can be at.
KindInv ==
  \A r \in Runners :
    /\ pc[r] = "idle" => kind[r] = "none"
    /\ pc[r] \in {"start", "open", "release"} => kind[r] = "schedule"
    /\ pc[r] = "answer" => kind[r] # "schedule"

\* What a run has got and written when it is at some step.
OutcomeInv ==
  \A r \in Runners :
    /\ pc[r] \in {"idle", "start", "open", "load", "guard", "work"} => out[r] = "none"
    /\ pc[r] \notin {"answer", "release"} => row[r] = "none"
    /\ pc[r] \in {"record", "recordError"} => out[r] # "none" /\ ~Quiet(kind[r], out[r])
    /\ pc[r] = "record" => out[r] \in Results
    /\ pc[r] = "recordError" => out[r] # "ok" \/ kind[r] = "async"

IInv ==
  /\ TypeOK
  /\ GuardIsExact
  /\ QueueInv
  /\ SlotInv
  /\ KindInv
  /\ OutcomeInv
  /\ HistoryIsHonest

LEMMA InitIInv == Init => IInv
<1> SUFFICES ASSUME Init PROVE IInv
  OBVIOUS
<1>1. TypeOK /\ KindInv /\ OutcomeInv /\ HistoryIsHonest
  BY RunsAssumption DEF Init, TypeOK, Labels, KindInv, OutcomeInv, HistoryIsHonest
<1>2. GuardIsExact
  BY DEF Init, GuardIsExact, Guarded
<1>3. QueueInv
  BY EmptyRange, FS_EmptySet, RunsAssumption DEF Init, QueueInv
<1>4. SlotInv
  BY DEF Init, SlotInv, Workers
<1> QED
  BY <1>1, <1>2, <1>3, <1>4 DEF IInv

\* The guard: only the locked blocks and a restart move a run in or out.
LEMMA GuardInv == IInv /\ TypeOK' /\ [Next]_vars => GuardIsExact'
<1> SUFFICES ASSUME IInv, TypeOK', [Next]_vars PROVE GuardIsExact'
  OBVIOUS
<1> USE DEF IInv, TypeOK, GuardIsExact, Guarded, queue, run, GoTo, Begin, End
<1>1. ASSUME NEW n \in Names, Save(n) \/ Delete(n) \/ ScheduleFires(n) PROVE GuardIsExact'
  BY <1>1 DEF Save, Delete, ScheduleFires
<1>2. ASSUME NEW r \in Runners, NEW n \in Names,
             ManualRequest(r, n) \/ CliRequest(r, n) \/ AsyncRequest(r, n) \/ DemoRequest(r, n)
      PROVE  GuardIsExact'
  BY <1>2 DEF ManualRequest, CliRequest, AsyncRequest, DemoRequest
<1>3. ASSUME NEW r \in Runners, Dispatch(r) PROVE GuardIsExact'
  BY <1>3 DEF Dispatch
<1>4. ASSUME NEW r \in Runners, StartWorker(r) \/ OpenStores(r) \/ Load(r) PROVE GuardIsExact'
  BY <1>4 DEF StartWorker, OpenStores, Load, AfterRun, Exit
<1>5. ASSUME NEW r \in Runners, Guard(r) PROVE GuardIsExact'
  BY <1>5 DEF Guard, Entered, AfterRun, Exit
<1>6. ASSUME NEW r \in Runners, Work(r) PROVE GuardIsExact'
  BY <1>6 DEF Work
<1>7. ASSUME NEW r \in Runners, Pop(r) PROVE GuardIsExact'
  BY <1>7 DEF Pop, AfterRun, Exit
<1>8. ASSUME NEW r \in Runners, Record(r) \/ OpenHistoryFails(r) PROVE GuardIsExact'
  BY <1>8 DEF Record, OpenHistoryFails, Exit
<1>9. ASSUME NEW r \in Runners, StartFails(r) \/ Answer(r) \/ Release(r) PROVE GuardIsExact'
  <2>1. /\ pc[r] \in {"start", "answer", "release"} /\ running' = running
        /\ pc' = [pc EXCEPT ![r] = "idle"]
        /\ \A s \in Runners \ {r} : UNCHANGED <<kind[s], name[s]>>
    BY <1>9 DEF StartFails, Answer, Release
  <2> QED
    BY <2>1
<1>10. CASE Restart
  BY <1>10 DEF Restart
<1>11. CASE UNCHANGED vars
  BY <1>11 DEF vars
<1> QED
  BY <1>1, <1>2, <1>3, <1>4, <1>5, <1>6, <1>7, <1>8, <1>9, <1>10, <1>11 DEF Next, Step

\* The run queue keeps its names apart and within Max.
LEMMA QueueIsKept == IInv /\ TypeOK' /\ [Next]_vars => QueueInv'
<1> SUFFICES ASSUME IInv, TypeOK', [Next]_vars PROVE QueueInv'
  OBVIOUS
<1>0. /\ waiting \in Seq(Names) /\ IsInjective(waiting) /\ Range(waiting) \cap active = {}
      /\ IsFiniteSet(active) /\ Cardinality(active) \in Nat /\ Cardinality(active) <= Max
  BY FS_CardinalityType DEF IInv, TypeOK, QueueInv
<1>1. ASSUME NEW n \in Names, ScheduleFires(n) PROVE QueueInv'
  <2>1. n \notin Range(waiting) \cup active
    BY <1>1 DEF ScheduleFires, Pool!Submit, Pool!Range, Range
  <2>2. waiting' = Append(waiting, n) /\ active' = active
    BY <1>1 DEF ScheduleFires, Pool!Submit
  <2> QED
    BY <1>0, <2>1, <2>2, AppendRange, AppendInjective DEF QueueInv
<1>2. ASSUME NEW r \in Runners, Dispatch(r) PROVE QueueInv'
  <2>1. waiting # <<>> /\ waiting' = Tail(waiting) /\ active' = active \cup {Head(waiting)}
    BY <1>2 DEF Dispatch, Pool!Dispatch
  <2>2. Cardinality(active) < Max
    BY <1>2 DEF Dispatch, Pool!Dispatch, Pool!Cardinality, Cardinality
  <2>3. /\ IsInjective(waiting') /\ Range(waiting') = Range(waiting) \ {Head(waiting)}
        /\ Head(waiting) \in Range(waiting)
    BY <1>0, <2>1, TailRange
  <2>4. /\ IsFiniteSet(active')
        /\ Cardinality(active') \in {Cardinality(active), Cardinality(active) + 1}
    BY <1>0, <2>1, FS_AddElement
  <2>5. Cardinality(active') <= Max
    BY <1>0, <2>2, <2>4, RunsAssumption
  <2> QED
    BY <1>0, <2>1, <2>3, <2>4, <2>5 DEF QueueInv
<1>3. ASSUME NEW r \in Runners, Release(r) PROVE QueueInv'
  <2>1. waiting' = waiting /\ active' = active \ {name[r]}
    BY <1>3 DEF Release, Pool!Finish
  <2>2. /\ IsFiniteSet(active')
        /\ Cardinality(active') \in {Cardinality(active), Cardinality(active) - 1}
    BY <1>0, <2>1, FS_RemoveElement
  <2>3. Cardinality(active') <= Max
    BY <1>0, <2>2, RunsAssumption
  <2> QED
    BY <1>0, <2>1, <2>2, <2>3 DEF QueueInv
<1>4. CASE Restart
  <2>1. waiting' = <<>> /\ active' = {}
    BY <1>4 DEF Restart
  <2> QED
    BY <2>1, EmptyRange, FS_EmptySet, RunsAssumption DEF QueueInv
<1>5. CASE UNCHANGED <<waiting, active>>
  BY <1>0, <1>5 DEF QueueInv
<1> QED
  BY <1>1, <1>2, <1>3, <1>4, <1>5 DEF Next, Step, vars, queue, Save, Delete, ManualRequest,
     CliRequest, AsyncRequest, DemoRequest, StartWorker, StartFails, OpenStores, Load, Guard, Work, Pop,
     Record, OpenHistoryFails, Answer

\* A slot is taken with its worker and given back with it.
LEMMA SlotsAreKept == IInv /\ TypeOK' /\ [Next]_vars => SlotInv'
<1> SUFFICES ASSUME IInv, TypeOK', [Next]_vars PROVE SlotInv'
  OBVIOUS
<1> USE DEF IInv, TypeOK, KindInv, SlotInv, Workers, queue, run
<1>1. ASSUME NEW r \in Runners, NEW n \in Names,
             ManualRequest(r, n) \/ CliRequest(r, n) \/ AsyncRequest(r, n) \/ DemoRequest(r, n)
      PROVE  SlotInv'
  BY <1>1 DEF ManualRequest, CliRequest, AsyncRequest, DemoRequest, Begin
<1>2. ASSUME NEW r \in Runners, Dispatch(r) PROVE SlotInv'
  <2>1. /\ waiting # <<>>
        /\ active' = active \cup {Head(waiting)}
    BY <1>2 DEF Dispatch, Pool!Dispatch
  <2>2. Head(waiting) \in Range(waiting)
    BY <2>1, TailRange DEF QueueInv
  <2> DEFINE h == Head(waiting)
  <2>3. h \notin active
    BY <2>2 DEF QueueInv
  <2>4. pc[r] = "idle" /\ kind[r] = "none" /\ leaked' = leaked /\ h \notin leaked
        /\ kind' = [kind EXCEPT ![r] = "schedule"] /\ name' = [name EXCEPT ![r] = h]
    BY <1>2, <2>3 DEF Dispatch, Begin
  <2> HIDE DEF h
  <2>5. active' = active \cup {h}
    BY <2>1 DEF h
  <2> QED
    BY <2>3, <2>4, <2>5
<1>3. ASSUME NEW r \in Runners, Answer(r) PROVE SlotInv'
  BY <1>3 DEF Answer, End
<1>4. ASSUME NEW r \in Runners, Release(r) PROVE SlotInv'
  BY <1>4 DEF Release, End, Pool!Finish
<1>5. CASE Restart
  BY <1>5 DEF Restart
<1>6. CASE UNCHANGED <<active, leaked, kind, name>>
  BY <1>6
<1>7. ASSUME NEW r \in Runners, StartFails(r) PROVE SlotInv'
  BY <1>7 DEF StartFails, End
<1> QED
  BY <1>1, <1>2, <1>3, <1>4, <1>5, <1>6, <1>7 DEF Next, Step, vars, Save, Delete, ScheduleFires,
     Pool!Submit, StartWorker, OpenStores, Load, Guard, Work, Pop, Record, OpenHistoryFails

\* Steps, outcomes and rows of a run go together.
LEMMA RunsAreKept ==
  IInv /\ TypeOK' /\ [Next]_vars => KindInv' /\ OutcomeInv' /\ HistoryIsHonest'
<1> DEFINE Inv == KindInv /\ OutcomeInv /\ HistoryIsHonest
<1> SUFFICES ASSUME IInv, TypeOK', [Next]_vars PROVE Inv'
  OBVIOUS
<1> USE DEF IInv, TypeOK, KindInv, OutcomeInv, HistoryIsHonest, run, GoTo, Results, Errors
<1>1. ASSUME NEW n \in Names, Save(n) \/ Delete(n) \/ ScheduleFires(n) PROVE Inv'
  BY <1>1 DEF Save, Delete, ScheduleFires
<1>2. ASSUME NEW r \in Runners, NEW n \in Names,
             ManualRequest(r, n) \/ CliRequest(r, n) \/ AsyncRequest(r, n) \/ DemoRequest(r, n)
      PROVE  Inv'
  BY <1>2 DEF ManualRequest, CliRequest, AsyncRequest, DemoRequest, Begin
<1>3. ASSUME NEW r \in Runners, Dispatch(r) PROVE Inv'
  BY <1>3 DEF Dispatch, Begin
<1>4. ASSUME NEW r \in Runners, StartWorker(r) \/ StartFails(r) \/ OpenStores(r) PROVE Inv'
  BY <1>4 DEF StartWorker, StartFails, OpenStores, End
<1>5. ASSUME NEW r \in Runners, Load(r) PROVE Inv'
  BY <1>5 DEF Load, AfterRun, Quiet, Exit, Kinds
<1>6. ASSUME NEW r \in Runners, Guard(r) PROVE Inv'
  BY <1>6 DEF Guard, Entered, AfterRun, Quiet, Exit, Kinds
<1>7. ASSUME NEW r \in Runners, Work(r) PROVE Inv'
  BY <1>7 DEF Work
<1>8. ASSUME NEW r \in Runners, Pop(r) PROVE Inv'
  BY <1>8 DEF Pop, AfterRun, Quiet, Exit, Kinds
<1>9. ASSUME NEW r \in Runners, Record(r) PROVE Inv'
  BY <1>9 DEF Record, RowOf, Quiet, Exit, Kinds
<1>10. ASSUME NEW r \in Runners, OpenHistoryFails(r) PROVE Inv'
  BY <1>10 DEF OpenHistoryFails, Quiet
<1>11. ASSUME NEW r \in Runners, Answer(r) PROVE Inv'
  BY <1>11 DEF Answer, End
<1>12. ASSUME NEW r \in Runners, Release(r) PROVE Inv'
  BY <1>12 DEF Release, End
<1>13. CASE Restart
  BY <1>13 DEF Restart
<1>14. CASE UNCHANGED vars
  BY <1>14 DEF vars
<1> QED
  BY <1>1, <1>2, <1>3, <1>4, <1>5, <1>6, <1>7, <1>8, <1>9, <1>10, <1>11, <1>12,
     <1>13, <1>14 DEF Next, Step

(* Every step of every thread, and a restart, preserve the invariant.      *)
THEOREM InductiveInvariant == Spec => []IInv
<1>1. Init => IInv
  BY InitIInv
<1>2. IInv /\ TypeOK' /\ [Next]_vars => IInv'
  BY GuardInv, QueueIsKept, SlotsAreKept, RunsAreKept DEF IInv
<1> QED
  BY <1>1, <1>2, TypeCorrect, PTL DEF Spec

(* In the API process the guard holds exactly the names that are being     *)
(* executed, one run each: a pipeline never runs twice there, and a run    *)
(* that loses, fails or raises leaves nothing behind.                      *)
THEOREM GuardHolds == Spec => []GuardIsExact
<1>1. IInv => GuardIsExact
  BY DEF IInv
<1> QED
  BY <1>1, InductiveInvariant, PTL

(* A slot is a worker's, one each, or lost to a failed start: at most Max  *)
(* scheduled runs are under way, and fewer by one for each slot lost.      *)
THEOREM SlotsHold == Spec => []SlotsAreWorkers
<1>1. IInv => SlotsAreWorkers
  <2> SUFFICES ASSUME IInv PROVE SlotsAreWorkers
    OBVIOUS
  <2> DEFINE held == {name[r] : r \in Workers}
  <2>1. SlotInv /\ IsFiniteSet(active) /\ Cardinality(active) <= Max
    BY DEF IInv, QueueInv
  <2>2. active = held \cup leaked /\ held \cap leaked = {}
    BY <2>1 DEF SlotInv
  <2>3. IsFiniteSet(held) /\ IsFiniteSet(leaked)
    BY <2>1, <2>2, FS_Subset
  <2>4. Cardinality(active) = Cardinality(held) + Cardinality(leaked)
    <3> HIDE DEF held
    <3>1. Cardinality(active) = Cardinality(held) + Cardinality(leaked) - Cardinality({})
      BY <2>2, <2>3, FS_Union
    <3> QED
      BY <2>3, <3>1, FS_EmptySet, FS_CardinalityType
  <2> DEFINE f == [r \in Workers |-> name[r]]
  <2>5. f \in Injection(Workers, held)
    BY <2>1 DEF SlotInv, Injection, IsInjective
  <2>6. Cardinality(Workers) <= Cardinality(held) /\ IsFiniteSet(Workers)
    BY <2>3, <2>5, FS_Injection
  <2>7. Cardinality(Workers) + Cardinality(leaked) <= Max
    BY <2>1, <2>3, <2>4, <2>6, FS_CardinalityType, RunsAssumption
  <2> QED
    BY <2>1, <2>7 DEF SlotInv, SlotsAreWorkers
<1> QED
  BY <1>1, InductiveInvariant, PTL

(* What a run leaves in the history when it ends is what it was.           *)
THEOREM HistoryHolds == Spec => []HistoryIsHonest
<1>1. IInv => HistoryIsHonest
  BY DEF IInv
<1> QED
  BY <1>1, InductiveInvariant, PTL
-----------------------------------------------------------------------------
(***************************************************************************)
(* The queue that this module uses is the pool that RunQueue implements,   *)
(* until a restart empties it.                                             *)
(***************************************************************************)

\* The process is gone, and with it what was queued.
Emptied == waiting' = <<>> /\ active' = {}

(* Whatever runs do with the queue - a job that fires, a name that takes a *)
(* slot, a worker that ends -, is a step of the pool, and a failed start   *)
(* none: to the pool the name is still active.  Only a restart is neither. *)
QueueIsPool == Pool!Init /\ [][Pool!Next \/ Emptied]_(Pool!poolVars)

THEOREM QueueRefines == Spec => QueueIsPool
<1>1. Init => Pool!Init
  BY DEF Init, Pool!Init
<1>2. IInv /\ [Next]_vars => [Pool!Next \/ Emptied]_(Pool!poolVars)
  <2> SUFFICES ASSUME IInv, [Next]_vars PROVE [Pool!Next \/ Emptied]_(Pool!poolVars)
    OBVIOUS
  <2> USE DEF Pool!poolVars, queue
  <2>1. ASSUME NEW n \in Names, ScheduleFires(n) PROVE Pool!Next
    BY <2>1 DEF ScheduleFires, Pool!Next
  <2>2. ASSUME NEW r \in Runners, Dispatch(r) PROVE Pool!Next
    BY <2>2 DEF Dispatch, Pool!Next
  <2>3. ASSUME NEW r \in Runners, Release(r) PROVE Pool!Next
    <3>1. name[r] \in Names
      BY <2>3 DEF Release, IInv, TypeOK
    <3> QED
      BY <2>3, <3>1 DEF Release, Pool!Next
  <2>4. CASE Restart
    BY <2>4 DEF Restart, Emptied
  <2>5. ASSUME NEW r \in Runners, Step(r), ~Release(r) PROVE UNCHANGED Pool!poolVars
    BY <2>5 DEF Step, StartWorker, StartFails, OpenStores, Load, Guard, Work, Pop, Record, OpenHistoryFails, Answer
  <2>6. ASSUME NEW r \in Runners, NEW n \in Names,
               ManualRequest(r, n) \/ CliRequest(r, n) \/ AsyncRequest(r, n) \/ DemoRequest(r, n)
        PROVE  UNCHANGED Pool!poolVars
    BY <2>6 DEF ManualRequest, CliRequest, AsyncRequest, DemoRequest
  <2>7. ASSUME NEW n \in Names, Save(n) \/ Delete(n) PROVE UNCHANGED Pool!poolVars
    BY <2>7 DEF Save, Delete
  <2>8. CASE UNCHANGED vars
    BY <2>8 DEF vars
  <2> QED
    BY <2>1, <2>2, <2>3, <2>4, <2>5, <2>6, <2>7, <2>8 DEF Next
<1> QED
  BY <1>1, <1>2, InductiveInvariant, PTL DEF Spec, QueueIsPool
-----------------------------------------------------------------------------
(***************************************************************************)
(* What GuardIsFreed and SlotIsFreed rest on: a run is always on its way   *)
(* to its end.                                                             *)
(***************************************************************************)

\* How many steps are left at most.
Left(step) == CASE step = "start" -> 9 [] step = "open" -> 8 [] step = "load" -> 7
                [] step = "guard" -> 6 [] step = "work" -> 5 [] step = "pop" -> 4
                [] step = "record" -> 3 [] step = "recordError" -> 2
                [] step \in {"answer", "release"} -> 1 [] step = "idle" -> 0

(* A run under way stays what it is until it has come nearer to its end,   *)
(* whoever else does what: no handler sends it back, not even the one that *)
(* opens the history a second time.  And a worker that gets to its finally *)
(* block still holds the slot that it gives back there.                    *)
RunsMoveOn ==
  [][\A r \in Runners : pc[r] # "idle" =>
       \/ Left(pc'[r]) < Left(pc[r])
       \/ UNCHANGED <<pc[r], kind[r], name[r], out[r], row[r]>>]_vars
SlotsToGive == \A r \in Runners : pc[r] = "release" => name[r] \in active \ leaked

THEOREM RunsReturn == Spec => RunsMoveOn /\ []SlotsToGive
<1> DEFINE On ==
      \A r \in Runners : pc[r] # "idle" =>
        \/ Left(pc'[r]) < Left(pc[r])
        \/ UNCHANGED <<pc[r], kind[r], name[r], out[r], row[r]>>
<1>0. /\ Left("start") = 9 /\ Left("open") = 8 /\ Left("load") = 7 /\ Left("guard") = 6 /\ Left("work") = 5
      /\ Left("pop") = 4 /\ Left("record") = 3 /\ Left("recordError") = 2
      /\ Left("answer") = 1 /\ Left("release") = 1 /\ Left("idle") = 0
  BY DEF Left
<1>1. IInv /\ [Next]_vars => [On]_vars
  <2> SUFFICES ASSUME IInv, Next PROVE On
    OBVIOUS
  <2> USE DEF IInv, TypeOK, GoTo, queue, run
  <2>1. ASSUME NEW r \in Runners, NEW to \in Labels, pc' = [pc EXCEPT ![r] = to],
               pc[r] = "idle" \/ Left(to) < Left(pc[r]),
               \A s \in Runners \ {r} : UNCHANGED <<kind[s], name[s], out[s], row[s]>>
        PROVE  On
    BY <2>1
  <2>2. ASSUME UNCHANGED run PROVE On
    BY <2>2
  <2>3. ASSUME NEW r \in Runners, NEW k, NEW n, NEW to \in Labels, Begin(r, k, n, to) PROVE On
    BY <2>1, <2>3 DEF Begin
  <2>4. ASSUME NEW r \in Runners, NEW n \in Names,
               ManualRequest(r, n) \/ CliRequest(r, n) \/ AsyncRequest(r, n) \/ DemoRequest(r, n)
        PROVE  On
    BY <2>3, <2>4 DEF ManualRequest, CliRequest, AsyncRequest, DemoRequest, Labels
  <2>5. ASSUME NEW r \in Runners, Dispatch(r) PROVE On
    BY <2>3, <2>5 DEF Dispatch, Labels
  <2>6. ASSUME NEW r \in Runners, StartWorker(r) \/ StartFails(r) \/ OpenStores(r) PROVE On
    BY <1>0, <2>1, <2>6 DEF StartWorker, StartFails, OpenStores, End, Labels
  <2>7. ASSUME NEW r \in Runners, Load(r) PROVE On
    BY <1>0, <2>1, <2>7 DEF Load, AfterRun, Exit, Labels
  <2>8. ASSUME NEW r \in Runners, Guard(r) PROVE On
    BY <1>0, <2>1, <2>8 DEF Guard, AfterRun, Exit, Labels
  <2>9. ASSUME NEW r \in Runners, Work(r) PROVE On
    <3>1. pc[r] = "work" /\ pc' = [pc EXCEPT ![r] = "pop"] /\ "pop" \in Labels
      BY <2>9 DEF Work, Labels
    <3>2. \A s \in Runners \ {r} : UNCHANGED <<kind[s], name[s], out[s], row[s]>>
      BY <2>9 DEF Work
    <3> QED
      BY <1>0, <2>1, <3>1, <3>2
  <2>10. ASSUME NEW r \in Runners, Pop(r) PROVE On
    <3> DEFINE to == AfterRun(kind[r], out[r])
    <3>1. to \in {"record", "recordError", "answer", "release"}
      BY DEF AfterRun, Exit
    <3>2. pc[r] = "pop" /\ pc' = [pc EXCEPT ![r] = to] /\ UNCHANGED <<kind, name, out, row>>
      BY <2>10 DEF Pop
    <3>3. to \in Labels /\ Left(to) < 4
      BY <1>0, <3>1 DEF Labels
    <3> HIDE DEF to
    <3> QED
      BY <1>0, <2>1, <3>2, <3>3
  <2>11. ASSUME NEW r \in Runners, Record(r) PROVE On
    <3> DEFINE to == Exit(kind[r])
    <3>1. to \in {"answer", "release"}
      BY DEF Exit
    <3>2. /\ pc[r] \in {"record", "recordError"} /\ pc' = [pc EXCEPT ![r] = to]
          /\ \A s \in Runners \ {r} : UNCHANGED <<kind[s], name[s], out[s], row[s]>>
      BY <2>11 DEF Record
    <3>3. to \in Labels /\ Left(to) < Left(pc[r])
      BY <1>0, <3>1, <3>2 DEF Labels
    <3> HIDE DEF to
    <3> QED
      BY <2>1, <3>2, <3>3
  <2>12. ASSUME NEW r \in Runners, OpenHistoryFails(r) PROVE On
    BY <1>0, <2>1, <2>12 DEF OpenHistoryFails, Labels
  <2>13. ASSUME NEW r \in Runners, Answer(r) \/ Release(r) PROVE On
    BY <1>0, <2>1, <2>13 DEF Answer, Release, End, Labels
  <2>14. CASE Restart
    BY <1>0, <2>14 DEF Restart, Labels
  <2>15. ASSUME NEW n \in Names, Save(n) \/ Delete(n) \/ ScheduleFires(n) PROVE On
    BY <2>2, <2>15 DEF Save, Delete, ScheduleFires
  <2> QED
    BY <2>4, <2>5, <2>6, <2>7, <2>8, <2>9, <2>10, <2>11, <2>12, <2>13, <2>14, <2>15
       DEF Next, Step
<1>2. IInv => SlotsToGive
  BY DEF IInv, SlotInv, KindInv, SlotsToGive, Workers
<1> QED
  BY <1>1, <1>2, InductiveInvariant, PTL DEF Spec, RunsMoveOn
=============================================================================
