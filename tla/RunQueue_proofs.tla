-------------------------- MODULE RunQueue_proofs --------------------------
(***************************************************************************)
(* Proofs about RunQueue, for any number of pipelines, threads and slots:  *)
(* its safety invariants, and that it implements WorkerPool.               *)
(***************************************************************************)
EXTENDS RunQueue, SequenceLemmas, FiniteSetTheorems, TLAPS

(***************************************************************************)
(* Type correctness.                                                       *)
(***************************************************************************)

(* The variables keep their types: only pipeline names are ever queued,    *)
(* held or leaked (enqueue, _pump, _worker).                               *)
THEOREM TypeCorrect == Spec => []TypeOK
<1>1. Init => TypeOK
  BY DEF Init, TypeOK, Threads, Holds
<1>2. TypeOK /\ [Next]_vars => TypeOK'
  <2> SUFFICES ASSUME TypeOK, [Next]_vars PROVE TypeOK'
    OBVIOUS
  <2> USE DEF TypeOK, Holds
  <2>1. ASSUME NEW t \in Callers, NEW n \in Names, Enqueue(t, n) PROVE TypeOK'
    BY <2>1, AppendRange DEF Enqueue, GoTo, Threads
  <2>2. ASSUME NEW t \in Threads, PumpReturn(t) PROVE TypeOK'
    BY <2>2 DEF PumpReturn, GoTo, queue
  <2>3. ASSUME NEW t \in Threads, PumpTake(t) PROVE TypeOK'
    <3>1. Head(q) \in Names /\ Tail(q) \in Seq(Names)
      BY <2>3 DEF PumpTake
    <3> QED
      BY <2>3, <3>1, QueueAssumption DEF PumpTake, GoTo
  <2>4. ASSUME NEW t \in Threads, NEW w \in Workers, Spawn(t, w) PROVE TypeOK'
    BY <2>4 DEF Spawn, queue, Threads
  <2>5. ASSUME NEW t \in Threads, SpawnFails(t) PROVE TypeOK'
    BY <2>5 DEF SpawnFails, GoTo, queue
  <2>6. ASSUME NEW w \in Workers, ExecutorEnds(w) PROVE TypeOK'
    BY <2>6 DEF ExecutorEnds, GoTo, queue, Threads
  <2>7. ASSUME NEW w \in Workers, Release(w) PROVE TypeOK'
    BY <2>7 DEF Release, GoTo, Threads
  <2>8. CASE UNCHANGED vars
    BY <2>8 DEF vars
  <2> QED
    BY <2>1, <2>2, <2>3, <2>4, <2>5, <2>6, <2>7, <2>8 DEF Next, Pump, Start
<1> QED
  BY <1>1, <1>2, PTL DEF Spec
-----------------------------------------------------------------------------
(***************************************************************************)
(* Safety.  The inductive invariant is the conjunction of the module's     *)
(* invariants with what they need: the names that hold a slot and the      *)
(* threads that pump are finitely many (or their cardinalities would say   *)
(* nothing), a leaked name still counts as running, and EnoughPumps, from  *)
(* which NoLostWakeup follows.                                             *)
(***************************************************************************)
IInv ==
  /\ TypeOK
  /\ IsFiniteSet(runningNames)
  /\ leaked \subseteq runningNames
  /\ BoundedRunning
  /\ OncePerPipeline
  /\ SlotHasOneOwner
  /\ IsFiniteSet(Pumping)
  /\ EnoughPumps

LEMMA InitIInv == Init => IInv
<1> SUFFICES ASSUME Init PROVE IInv
  OBVIOUS
<1>1. IsFiniteSet({}) /\ Cardinality({}) = 0
  BY FS_EmptySet
<1>2. TypeOK /\ SlotHasOneOwner
  BY DEF Init, TypeOK, Threads, Holds, SlotHasOneOwner
<1>3. OncePerPipeline
  BY EmptyRange DEF Init, OncePerPipeline
<1>5. IsFiniteSet(Pumping) /\ EnoughPumps
  <2>1. Pumping = {}
    BY DEF Init, Pumping
  <2> QED
    BY <2>1, <1>1 DEF Init, EnoughPumps
<1>4. IsFiniteSet(runningNames) /\ BoundedRunning /\ leaked \subseteq runningNames
  BY <1>1, QueueAssumption DEF Init, BoundedRunning
<1> QED
  BY <1>2, <1>3, <1>4, <1>5 DEF IInv

(***************************************************************************)
(* One lemma per action that does more than move a thread along.           *)
(***************************************************************************)
LEMMA EnqueueIInv ==
  ASSUME IInv, TypeOK', NEW t \in Callers, NEW n \in Names, Enqueue(t, n)
  PROVE  IInv'
<1> USE DEF IInv
<1>1. OncePerPipeline'
  BY AppendRange, AppendInjective DEF Enqueue, Accepts, OncePerPipeline, TypeOK
<1>2. SlotHasOneOwner'
  BY DEF SlotHasOneOwner, Holds, Enqueue, GoTo, TypeOK, Threads
<1>3. Pumping' = Pumping \cup {t} /\ t \notin Pumping
  BY DEF Pumping, Enqueue, GoTo, TypeOK, Threads
<1>4. IsFiniteSet(Pumping)' /\ EnoughPumps'
  <2>1. Len(q') = Len(q) + 1 /\ Len(q) \in Nat
    BY DEF Enqueue, TypeOK
  <2>2. /\ IsFiniteSet(Pumping')
        /\ Cardinality(Pumping') = Cardinality(Pumping) + 1
        /\ Cardinality(Pumping) \in Nat
        /\ Cardinality(runningNames) \in Nat
    BY <1>3, FS_AddElement, FS_CardinalityType
  <2> QED
    BY <2>1, <2>2, QueueAssumption DEF EnoughPumps, Enqueue
<1> QED
  BY <1>1, <1>2, <1>4 DEF Enqueue, BoundedRunning

LEMMA PumpReturnIInv ==
  ASSUME IInv, TypeOK', NEW t \in Threads, PumpReturn(t)
  PROVE  IInv'
<1> USE DEF IInv
<1>1. SlotHasOneOwner'
  BY DEF SlotHasOneOwner, Holds, PumpReturn, GoTo, queue, TypeOK
<1>2. Pumping' = Pumping \ {t} /\ t \in Pumping
  BY DEF Pumping, PumpReturn, GoTo, TypeOK
<1>3. IsFiniteSet(Pumping)' /\ EnoughPumps'
  <2>1. IsFiniteSet(Pumping') /\ Cardinality(Pumping') \in Nat
    BY <1>2, FS_RemoveElement, FS_CardinalityType
  <2>2. Cardinality(runningNames) \in Nat
    BY FS_CardinalityType
  <2>3. Len(q) = 0 \/ Max - Cardinality(runningNames) <= 0
    BY <2>2, QueueAssumption DEF PumpReturn, SlotFree, TypeOK
  <2> QED
    BY <2>1, <2>2, <2>3, QueueAssumption DEF EnoughPumps, PumpReturn, queue
<1> QED
  BY <1>1, <1>3 DEF PumpReturn, BoundedRunning, OncePerPipeline, queue

LEMMA PumpTakeIInv ==
  ASSUME IInv, TypeOK', NEW t \in Threads, PumpTake(t)
  PROVE  IInv'
<1> USE DEF IInv
<1>1. /\ IsInjective(Tail(q))
      /\ Range(Tail(q)) = Range(q) \ {Head(q)}
      /\ Head(q) \in queuedNames
      /\ Head(q) \notin runningNames
  BY TailRange DEF PumpTake, OncePerPipeline, TypeOK
<1>2. OncePerPipeline'
  BY <1>1 DEF PumpTake, OncePerPipeline
<1>3. /\ IsFiniteSet(runningNames')
      /\ Cardinality(runningNames') = Cardinality(runningNames) + 1
  BY <1>1, FS_AddElement DEF PumpTake
<1>4. BoundedRunning'
  BY <1>3, FS_CardinalityType, QueueAssumption
     DEF PumpTake, SlotFree, BoundedRunning
<1>5. SlotHasOneOwner'
  BY <1>1 DEF SlotHasOneOwner, Holds, PumpTake, GoTo, TypeOK
<1>6. Pumping' = Pumping \ {t} /\ t \in Pumping
  BY DEF Pumping, PumpTake, GoTo, TypeOK
<1>7. IsFiniteSet(Pumping)' /\ EnoughPumps'
  <2>1. Len(q') = Len(q) - 1 /\ Len(q) \in Nat
    BY DEF PumpTake, TypeOK
  <2>2. /\ IsFiniteSet(Pumping')
        /\ Cardinality(Pumping') = Cardinality(Pumping) - 1
        /\ Cardinality(Pumping) \in Nat
        /\ Cardinality(runningNames) \in Nat
    BY <1>6, FS_RemoveElement, FS_CardinalityType
  <2> QED
    BY <1>3, <2>1, <2>2, QueueAssumption DEF EnoughPumps
<1> QED
  BY <1>2, <1>3, <1>4, <1>5, <1>7 DEF PumpTake

LEMMA SpawnIInv ==
  ASSUME IInv, TypeOK', NEW t \in Threads, NEW w \in Workers, Spawn(t, w)
  PROVE  IInv'
<1> USE DEF IInv
<1>1. SlotHasOneOwner'
  BY DEF SlotHasOneOwner, Holds, Spawn, queue, TypeOK, Threads
<1>2. Pumping' = Pumping \cup {t} /\ t \notin Pumping
  BY DEF Pumping, Spawn, TypeOK, Threads
<1>3. IsFiniteSet(Pumping)' /\ EnoughPumps'
  <2>1. Len(q) \in Nat
    BY DEF TypeOK
  <2>2. /\ IsFiniteSet(Pumping')
        /\ Cardinality(Pumping') = Cardinality(Pumping) + 1
        /\ Cardinality(Pumping) \in Nat
        /\ Cardinality(runningNames) \in Nat
    BY <1>2, FS_AddElement, FS_CardinalityType
  <2> QED
    BY <2>1, <2>2, QueueAssumption DEF EnoughPumps, Spawn, queue
<1> QED
  BY <1>1, <1>3 DEF Spawn, BoundedRunning, OncePerPipeline, queue

LEMMA SpawnFailsIInv ==
  ASSUME IInv, TypeOK', NEW t \in Threads, SpawnFails(t)
  PROVE  IInv'
<1> USE DEF IInv
<1>1. item[t] \in runningNames
  BY DEF SpawnFails, SlotHasOneOwner, Holds
<1>2. SlotHasOneOwner'
  BY <1>1 DEF SlotHasOneOwner, Holds, SpawnFails, GoTo, queue, TypeOK
<1>3. Pumping' = Pumping
  BY DEF Pumping, SpawnFails, GoTo, TypeOK
<1> QED
  BY <1>1, <1>2, <1>3 DEF EnoughPumps, SpawnFails, BoundedRunning, OncePerPipeline, queue

LEMMA ExecutorEndsIInv ==
  ASSUME IInv, TypeOK', NEW w \in Workers, ExecutorEnds(w)
  PROVE  IInv'
<1> USE DEF IInv
<1>1. SlotHasOneOwner'
  BY DEF SlotHasOneOwner, Holds, ExecutorEnds, GoTo, queue, TypeOK, Threads
<1>2. Pumping' = Pumping
  BY DEF Pumping, ExecutorEnds, GoTo, TypeOK, Threads
<1> QED
  BY <1>1, <1>2 DEF EnoughPumps, ExecutorEnds, BoundedRunning, OncePerPipeline, queue

LEMMA ReleaseIInv ==
  ASSUME IInv, TypeOK', NEW w \in Workers, Release(w)
  PROVE  IInv'
<1> USE DEF IInv
<1>1. item[w] \in runningNames \ leaked
  BY DEF Release, SlotHasOneOwner, Holds, Threads
<1>2. /\ IsFiniteSet(runningNames')
      /\ Cardinality(runningNames') = Cardinality(runningNames) - 1
  BY <1>1, FS_RemoveElement DEF Release
<1>3. BoundedRunning'
  BY <1>2, FS_CardinalityType, QueueAssumption DEF BoundedRunning
<1>4. SlotHasOneOwner'
  BY <1>1 DEF SlotHasOneOwner, Holds, Release, GoTo, TypeOK, Threads
<1>5. Pumping' = Pumping \cup {w} /\ w \notin Pumping
  BY DEF Pumping, Release, GoTo, TypeOK, Threads
<1>6. IsFiniteSet(Pumping)' /\ EnoughPumps'
  <2>1. Len(q) \in Nat
    BY DEF TypeOK
  <2>2. /\ IsFiniteSet(Pumping')
        /\ Cardinality(Pumping') = Cardinality(Pumping) + 1
        /\ Cardinality(Pumping) \in Nat
        /\ Cardinality(runningNames) \in Nat
    BY <1>5, FS_AddElement, FS_CardinalityType
  <2> QED
    BY <1>2, <2>1, <2>2, QueueAssumption DEF EnoughPumps, Release
<1> QED
  BY <1>1, <1>2, <1>3, <1>4, <1>6 DEF Release, OncePerPipeline

(* The invariant is preserved by every step of every thread.               *)
THEOREM InductiveInvariant == Spec => []IInv
<1>1. Init => IInv
  BY InitIInv
<1>2. IInv /\ TypeOK' /\ [Next]_vars => IInv'
  <2> SUFFICES ASSUME IInv, TypeOK', [Next]_vars PROVE IInv'
    OBVIOUS
  <2>1. CASE UNCHANGED vars
    BY <2>1 DEF vars, IInv, BoundedRunning, OncePerPipeline, SlotHasOneOwner,
                Holds, Pumping, EnoughPumps
  <2> QED
    BY <2>1, EnqueueIInv, PumpReturnIInv, PumpTakeIInv, SpawnIInv,
       SpawnFailsIInv, ExecutorEndsIInv, ReleaseIInv DEF Next, Pump, Start
<1> QED
  BY <1>1, <1>2, TypeCorrect, PTL DEF Spec

(* The global limit: at most Max pipelines of the queue hold a slot.       *)
THEOREM ConcurrencyIsBounded == Spec => []BoundedRunning
<1>1. IInv => BoundedRunning
  BY DEF IInv
<1> QED
  BY <1>1, InductiveInvariant, PTL

(* A pipeline is queued once at most, and never while it runs.             *)
THEOREM NoDuplicates == Spec => []OncePerPipeline
<1>1. IInv => OncePerPipeline
  BY DEF IInv
<1> QED
  BY <1>1, InductiveInvariant, PTL

(* Two workers never execute the same pipeline, and a slot is never lost   *)
(* but by a thread that could not start.                                   *)
THEOREM SlotsAreOwned == Spec => []SlotHasOneOwner
<1>1. IInv => SlotHasOneOwner
  BY DEF IInv
<1> QED
  BY <1>1, InductiveInvariant, PTL

(* While a name waits and a slot is free, some thread is about to look at  *)
(* the queue: no wakeup is lost, even to a thread that could not start.    *)
THEOREM WakeupsAreKept == Spec => []NoLostWakeup
<1>1. IInv => NoLostWakeup
  <2> SUFFICES ASSUME IInv, q # <<>>, SlotFree PROVE Pumping # {}
    BY DEF NoLostWakeup
  <2>1. Len(q) >= 1 /\ Len(q) \in Nat
    BY DEF IInv, TypeOK
  <2>2. Max - Cardinality(runningNames) >= 1 /\ Cardinality(runningNames) \in Nat
    BY FS_CardinalityType, QueueAssumption DEF IInv, SlotFree
  <2>3. Cardinality(Pumping) >= 1
    BY <2>1, <2>2, FS_CardinalityType, QueueAssumption DEF IInv, EnoughPumps
  <2> QED
    BY <2>3, FS_EmptySet
<1> QED
  BY <1>1, InductiveInvariant, PTL
-----------------------------------------------------------------------------
(***************************************************************************)
(* Refinement.                                                             *)
(***************************************************************************)

(* Every step of every thread is a step of the first-in first-out pool, or *)
(* leaves the pool as it is: acceptance, order of dispatch, the bound and  *)
(* the release of a slot are those of WorkerPool.                          *)
THEOREM Refinement == Spec => ImplementsPool
<1>1. Init => Pool!Init
  BY DEF Init, Pool!Init
<1>2. IInv /\ [Next]_vars => [Pool!Next]_(Pool!poolVars)
  <2> SUFFICES ASSUME IInv, [Next]_vars PROVE [Pool!Next]_(Pool!poolVars)
    OBVIOUS
  <2> USE DEF Pool!poolVars
  <2>1. ASSUME NEW t \in Callers, NEW n \in Names, Enqueue(t, n) PROVE Pool!Submit(n)
    BY <2>1 DEF Enqueue, Accepts, IInv, OncePerPipeline, Range, Pool!Range, Pool!Submit
  <2>2. ASSUME NEW t \in Threads, PumpTake(t) PROVE Pool!Dispatch
    <3>1. Pool!Cardinality(runningNames) = Cardinality(runningNames)
      BY DEF Cardinality, Pool!Cardinality
    <3> QED
      BY <2>2, <3>1 DEF PumpTake, SlotFree, Pool!Dispatch
  <2>3. ASSUME NEW w \in Workers, Release(w) PROVE \E n \in Names : Pool!Finish(n)
    BY <2>3 DEF Release, IInv, TypeOK, SlotHasOneOwner, Holds, Threads, Pool!Finish
  <2>4. ASSUME NEW t \in Threads, PumpReturn(t) \/ Start(t) \/ SpawnFails(t)
        PROVE  UNCHANGED Pool!poolVars
    BY <2>4 DEF PumpReturn, Start, Spawn, SpawnFails, queue
  <2>5. ASSUME NEW w \in Workers, ExecutorEnds(w) PROVE UNCHANGED Pool!poolVars
    BY <2>5 DEF ExecutorEnds, queue
  <2>6. CASE UNCHANGED vars
    BY <2>6 DEF vars
  <2> QED
    BY <2>1, <2>2, <2>3, <2>4, <2>5, <2>6 DEF Next, Pump, Pool!Next
<1> QED
  BY <1>1, <1>2, InductiveInvariant, PTL DEF Spec, ImplementsPool, Pool!SafeSpec
-----------------------------------------------------------------------------
(***************************************************************************)
(* What SlotsComeBack rests on: a slot is always on its way back.          *)
(***************************************************************************)

\* How many steps are left for the owner of a slot.
Left(step) == CASE step = "spawn" -> 3 [] step = "exec" -> 2 [] step = "release" -> 1

(* The owner of a slot keeps it until it hands it on to one that is nearer *)
(* to giving it back, gives it back, or cannot be started: no other thread *)
(* delays it, takes it or drops it.                                        *)
SlotsMoveOn ==
  [][\A t \in Threads : Holds(t) =>
       \/ UNCHANGED <<pc[t], item[t]>>
       \/ \E u \in Threads : item'[u] = item[t] /\ Left(pc'[u]) < Left(pc[t])
       \/ item[t] \notin runningNames'
       \/ item[t] \in leaked']_vars

THEOREM SlotsGoOn == Spec => SlotsMoveOn
<1> DEFINE On ==
      \A t \in Threads : Holds(t) =>
        \/ UNCHANGED <<pc[t], item[t]>>
        \/ \E u \in Threads : item'[u] = item[t] /\ Left(pc'[u]) < Left(pc[t])
        \/ item[t] \notin runningNames'
        \/ item[t] \in leaked'
<1>0. Left("spawn") = 3 /\ Left("exec") = 2 /\ Left("release") = 1
  BY DEF Left
<1>1. TypeOK /\ [Next]_vars => [On]_vars
  <2> SUFFICES ASSUME TypeOK, Next PROVE On
    OBVIOUS
  <2> USE DEF TypeOK, Holds, GoTo, Threads
  <2>1. ASSUME NEW t \in Threads, pc[t] \in {"idle", "pump"},
               \A u \in Threads \ {t} : UNCHANGED <<pc[u], item[u]>>
        PROVE  On
    BY <2>1
  <2>2. ASSUME NEW t \in Callers, NEW n \in Names, Enqueue(t, n) PROVE On
    BY <2>1, <2>2 DEF Enqueue
  <2>3. ASSUME NEW t \in Threads, Pump(t) PROVE On
    BY <2>1, <2>3 DEF Pump, PumpReturn, PumpTake
  <2>4. ASSUME NEW t \in Threads, NEW w \in Workers, Spawn(t, w) PROVE On
    <3>1. /\ pc[t] = "spawn" /\ pc'[w] = "exec" /\ item'[w] = item[t] /\ pc[w] = "idle"
          /\ \A u \in Threads \ {t, w} : UNCHANGED <<pc[u], item[u]>>
      BY <2>4 DEF Spawn
    <3> QED
      BY <1>0, <3>1
  <2>5. ASSUME NEW t \in Threads, SpawnFails(t) PROVE On
    BY <2>5 DEF SpawnFails
  <2>6. ASSUME NEW w \in Workers, ExecutorEnds(w) PROVE On
    <3>1. /\ pc[w] = "exec" /\ pc'[w] = "release" /\ item' = item
          /\ \A u \in Threads \ {w} : UNCHANGED <<pc[u], item[u]>>
      BY <2>6 DEF ExecutorEnds
    <3> QED
      BY <1>0, <3>1
  <2>7. ASSUME NEW w \in Workers, Release(w) PROVE On
    BY <2>7 DEF Release
  <2> QED
    BY <2>2, <2>3, <2>4, <2>5, <2>6, <2>7 DEF Next, Start
<1> QED
  BY <1>1, TypeCorrect, PTL DEF Spec, SlotsMoveOn
-----------------------------------------------------------------------------
(***************************************************************************)
(* What QueuedNamesRun rests on, beside NoLostWakeup: names are dispatched *)
(* in the order in which they were accepted.                               *)
(***************************************************************************)

(* A name that waits keeps its place or moves up by one, and leaves the    *)
(* queue from its head only, into a slot: nothing overtakes or drops it.   *)
NamesMoveUp ==
  [][\A i \in 1 .. Len(q) :
       \/ i <= Len(q') /\ q'[i] = q[i]
       \/ i > 1 /\ i - 1 <= Len(q') /\ q'[i - 1] = q[i]
       \/ i = 1 /\ q[i] \in runningNames']_vars

THEOREM NamesGoOn == Spec => NamesMoveUp
<1> DEFINE Up ==
      \A i \in 1 .. Len(q) :
        \/ i <= Len(q') /\ q'[i] = q[i]
        \/ i > 1 /\ i - 1 <= Len(q') /\ q'[i - 1] = q[i]
        \/ i = 1 /\ q[i] \in runningNames'
<1>1. TypeOK /\ [Next]_vars => [Up]_vars
  <2> SUFFICES ASSUME TypeOK, Next PROVE Up
    OBVIOUS
  <2>0. q \in Seq(Names)
    BY DEF TypeOK
  <2>1. ASSUME q' = q PROVE Up
    BY <2>0, <2>1
  <2>2. ASSUME NEW t \in Callers, NEW n \in Names, Enqueue(t, n) PROVE Up
    BY <2>0, <2>2 DEF Enqueue
  <2>3. ASSUME NEW t \in Threads, PumpTake(t) PROVE Up
    <3>1. q # <<>> /\ q' = Tail(q) /\ q[1] \in runningNames'
      BY <2>0, <2>3 DEF PumpTake
    <3>2. Len(q') = Len(q) - 1 /\ \A i \in 2 .. Len(q) : q'[i - 1] = q[i]
      BY <2>0, <3>1
    <3> QED
      BY <2>0, <3>1, <3>2
  <2>4. ASSUME NEW t \in Threads, PumpReturn(t) \/ Start(t) \/ SpawnFails(t) PROVE q' = q
    BY <2>4 DEF PumpReturn, Start, Spawn, SpawnFails, queue
  <2>5. ASSUME NEW w \in Workers, ExecutorEnds(w) \/ Release(w) PROVE q' = q
    BY <2>5 DEF ExecutorEnds, Release, queue
  <2> QED
    BY <2>1, <2>2, <2>3, <2>4, <2>5 DEF Next, Pump
<1> QED
  BY <1>1, TypeCorrect, PTL DEF Spec, NamesMoveUp
=============================================================================
