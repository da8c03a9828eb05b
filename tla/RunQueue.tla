------------------------------ MODULE RunQueue ------------------------------
(***************************************************************************)
(* core/run_queue.py: the in-process run queue.  Scheduler callbacks call  *)
(* enqueue(); _pump() moves names from the queue to worker threads, at     *)
(* most Max at a time; a worker runs the executor, gives its slot back and *)
(* pumps again.                                                            *)
(*                                                                         *)
(* A step is what runs between two points where another thread can be      *)
(* scheduled: a `with self._lock` block, Thread.start(), the executor.     *)
(* Every thread has a pc:                                                  *)
(*   "idle"     outside the queue (a worker: not started, or ended)        *)
(*   "pump"     at the top of the loop of _pump                            *)
(*   "spawn"    in _pump, lock released, about to start the thread of item *)
(*   "exec"     in _worker, inside self._executor(name, trigger)           *)
(*   "release"  in the finally block of _worker, before the lock           *)
(* A QueueItem is its pipeline name: the trigger and the time it carries   *)
(* decide nothing here.                                                    *)
(***************************************************************************)
EXTENDS Naturals, Sequences, FiniteSets, Functions

CONSTANTS Names,         \* pipeline names, stripped and not empty
          Callers,       \* threads that call enqueue (APScheduler's pool)
          Workers,       \* threads _pump may start; a worker that ended is
                         \* used again, so this bounds those alive at once
          Max,           \* self._max
          StartFailures, \* how many times Thread.start() may raise
          NoItem         \* "holds no item"

Threads == Callers \cup Workers

ASSUME QueueAssumption ==
  /\ Max \in Nat \ {0}
  /\ StartFailures \in Nat
  /\ Callers \cap Workers = {}
  /\ NoItem \notin Names

VARIABLES q,             \* self._q
          queuedNames,   \* self._queued_names
          runningNames,  \* self._running_names
          pc,            \* pc[t]
          item,          \* item[t]: the QueueItem t holds in a local variable
          leaked         \* names whose thread could not be started: they are
                         \* in runningNames and nobody is left to remove them

queue == <<q, queuedNames, runningNames>>
vars == <<q, queuedNames, runningNames, pc, item, leaked>>

Init ==
  /\ q = <<>>
  /\ queuedNames = {}
  /\ runningNames = {}
  /\ pc = [t \in Threads |-> "idle"]
  /\ item = [t \in Threads |-> NoItem]
  /\ leaked = {}

GoTo(t, label) == pc' = [pc EXCEPT ![t] = label]

\* Definitions named <definition>_<fault> are faulty variants of the definition
\* that follows them; PROJECT.json pairs each with the property that refutes it.

\* enqueue(name): the locked block that accepts the name, then _pump().  A
\* refused name ("already_running", "already_queued") changes nothing.
Accepts_WhileRunning(n) == n \notin queuedNames
Accepts(n) == n \notin runningNames /\ n \notin queuedNames

Enqueue_EmptyName(t, n) ==
  /\ pc[t] = "idle"
  /\ Accepts(n)
  /\ q' \in {Append(q, n), Append(q, NoItem)}
  /\ queuedNames' = queuedNames \cup {n}
  /\ GoTo(t, "pump")
  /\ UNCHANGED <<runningNames, item, leaked>>

Enqueue_NoPump(t, n) ==
  /\ pc[t] = "idle"
  /\ Accepts(n)
  /\ q' = Append(q, n)
  /\ queuedNames' = queuedNames \cup {n}
  /\ UNCHANGED <<runningNames, pc, item, leaked>>

Enqueue(t, n) ==
  /\ pc[t] = "idle"
  /\ Accepts(n)
  /\ q' = Append(q, n)
  /\ queuedNames' = queuedNames \cup {n}
  /\ GoTo(t, "pump")
  /\ UNCHANGED <<runningNames, item, leaked>>

\* _pump, the locked block: no slot or nothing queued, so _pump returns.  A
\* caller leaves enqueue; a worker's thread ends.
SlotFree_OneTooMany == Cardinality(runningNames) <= Max
SlotFree == Cardinality(runningNames) < Max

PumpReturn(t) ==
  /\ pc[t] = "pump"
  /\ ~SlotFree \/ q = <<>>
  /\ GoTo(t, "idle")
  /\ UNCHANGED <<queue, item, leaked>>

\* _pump, the locked block: the oldest name leaves the queue and takes a slot.
PumpTake_Newest(t) ==
  /\ pc[t] = "pump"
  /\ SlotFree
  /\ q # <<>>
  /\ q' = SubSeq(q, 1, Len(q) - 1)
  /\ queuedNames' = queuedNames \ {q[Len(q)]}
  /\ runningNames' = runningNames \cup {q[Len(q)]}
  /\ item' = [item EXCEPT ![t] = q[Len(q)]]
  /\ GoTo(t, "spawn")
  /\ UNCHANGED leaked

PumpTake(t) ==
  /\ pc[t] = "pump"
  /\ SlotFree
  /\ q # <<>>
  /\ q' = Tail(q)
  /\ queuedNames' = queuedNames \ {Head(q)}
  /\ runningNames' = runningNames \cup {Head(q)}
  /\ item' = [item EXCEPT ![t] = Head(q)]
  /\ GoTo(t, "spawn")
  /\ UNCHANGED leaked

\* Thread(target=self._worker, args=(item,)).start(): worker w enters the
\* executor with the item and t is back at the top of the loop.
Spawn(t, w) ==
  /\ pc[t] = "spawn"
  /\ pc[w] = "idle"
  /\ pc' = [pc EXCEPT ![t] = "pump", ![w] = "exec"]
  /\ item' = [item EXCEPT ![t] = NoItem, ![w] = item[t]]
  /\ UNCHANGED <<queue, leaked>>

\* start() raises ("can't start new thread"): the exception leaves _pump,
\* which has no handler, with the name still in _running_names.
SpawnFails(t) ==
  /\ pc[t] = "spawn"
  /\ Cardinality(leaked) < StartFailures
  /\ leaked' = leaked \cup {item[t]}
  /\ item' = [item EXCEPT ![t] = NoItem]
  /\ GoTo(t, "idle")
  /\ UNCHANGED queue

\* _worker: the executor returns or raises (the exception is logged), or
\* there is none (logged, return).  All three reach the finally block.
ExecutorEnds(w) ==
  /\ pc[w] = "exec"
  /\ GoTo(w, "release")
  /\ UNCHANGED <<queue, item, leaked>>

\* _worker, finally: the slot is given back, then the worker pumps.
Release_NoPump(w) ==
  /\ pc[w] = "release"
  /\ runningNames' = runningNames \ {item[w]}
  /\ item' = [item EXCEPT ![w] = NoItem]
  /\ GoTo(w, "idle")
  /\ UNCHANGED <<q, queuedNames, leaked>>

Release_KeepsSlot(w) ==
  /\ pc[w] = "release"
  /\ item' = [item EXCEPT ![w] = NoItem]
  /\ GoTo(w, "pump")
  /\ UNCHANGED <<queue, leaked>>

Release(w) ==
  /\ pc[w] = "release"
  /\ runningNames' = runningNames \ {item[w]}
  /\ item' = [item EXCEPT ![w] = NoItem]
  /\ GoTo(w, "pump")
  /\ UNCHANGED <<q, queuedNames, leaked>>

Pump(t) == PumpReturn(t) \/ PumpTake(t)
Start(t) == \E w \in Workers : Spawn(t, w)

Next ==
  \/ \E t \in Callers, n \in Names : Enqueue(t, n)
  \/ \E t \in Threads : Pump(t) \/ Start(t) \/ SpawnFails(t)
  \/ \E w \in Workers : ExecutorEnds(w) \/ Release(w)

Spec == Init /\ [][Next]_vars

\* The operating system schedules every thread that can run.  That the
\* executor ends is an assumption about the pipelines, not about this code:
\* the queue has no timeout.  Nobody has to call enqueue.
Fairness ==
  /\ \A t \in Threads : WF_vars(Pump(t)) /\ WF_vars(Start(t) \/ SpawnFails(t))
  /\ \A w \in Workers : WF_vars(ExecutorEnds(w)) /\ WF_vars(Release(w))

FairSpec == Spec /\ Fairness
-----------------------------------------------------------------------------
\* The thread t is responsible for giving the slot of item[t] back.
Holds(t) == pc[t] \in {"spawn", "exec", "release"}

TypeOK ==
  /\ q \in Seq(Names)
  /\ queuedNames \in SUBSET Names
  /\ runningNames \in SUBSET Names
  /\ leaked \in SUBSET Names
  /\ pc \in [Threads -> {"idle", "pump", "spawn", "exec", "release"}]
  /\ item \in [Threads -> Names \cup {NoItem}]
  /\ \A t \in Threads : Holds(t) <=> item[t] # NoItem

(* At most Max names hold a slot, whichever threads pump at the same time: *)
(* "At most CHUMOLI_MAX_CONCURRENT_RUNS run at once" for what goes through *)
(* the queue.                                                              *)
BoundedRunning == Cardinality(runningNames) <= Max

(* A pipeline is in the queue once at most, and not while it holds a slot; *)
(* the set that enqueue() looks in is exactly what is in the deque.        *)
OncePerPipeline ==
  /\ IsInjective(q)
  /\ queuedNames = Range(q)
  /\ queuedNames \cap runningNames = {}

(* A slot belongs to one thread, which will give it back: two workers      *)
(* never execute the same pipeline, and a taken slot is never orphaned     *)
(* except by a thread that could not be started.                           *)
SlotHasOneOwner ==
  /\ \A t \in Threads : Holds(t) => item[t] \in runningNames \ leaked
  /\ \A t, u \in Threads : Holds(t) /\ Holds(u) /\ item[t] = item[u] => t = u
  /\ \A n \in runningNames \ leaked : \E t \in Threads : Holds(t) /\ item[t] = n

(* No wakeup is lost: while a name waits and a slot is free, some thread   *)
(* is about to look at the queue.  It holds even after a thread start has  *)
(* failed and torn its caller out of _pump, because every name that is     *)
(* queued and every slot that is given back brings a pump of its own.      *)
Pumping == {t \in Threads : pc[t] = "pump"}

NoLostWakeup == q # <<>> /\ SlotFree => Pumping # {}

(* Why: there are as many threads at the top of _pump as there are moves   *)
(* from the queue to a slot still to be made.                              *)
EnoughPumps ==
  \/ Len(q) <= Cardinality(Pumping)
  \/ Max - Cardinality(runningNames) <= Cardinality(Pumping)
-----------------------------------------------------------------------------
Pool == INSTANCE WorkerPool WITH waiting <- q, active <- runningNames

(* The queue implements the pool, step by step: acceptance, order of       *)
(* dispatch, bound and release.                                            *)
ImplementsPool == Pool!SafeSpec

(* Every accepted pipeline gets a slot, as long as not all slots have been *)
(* leaked (StartFailures < Max in the run).                                *)
QueuedNamesRun ==
  \A n \in Names : n \in queuedNames ~> n \in runningNames

(* Every slot whose thread was started is given back, so the pipeline can  *)
(* be enqueued again.                                                      *)
SlotsComeBack ==
  \A n \in Names : n \in runningNames ~> n \notin runningNames \/ n \in leaked
=============================================================================
