----------------------------- MODULE WorkerPool -----------------------------
(***************************************************************************)
(* What the run queue promises, without threads or locks: a first-in       *)
(* first-out pool of Max slots.  docs/architecture/                        *)
(* scheduling-and-concurrency.md states it in a list ("FIFO of pipeline    *)
(* names", "At most CHUMOLI_MAX_CONCURRENT_RUNS run at once", "Same        *)
(* pipeline cannot be both queued and running twice", "When a worker       *)
(* finishes, the next queued job starts"); RunQueue is the code that has   *)
(* to keep the promise, and PipelineRuns uses the pool in its place.       *)
(***************************************************************************)
EXTENDS Naturals, Sequences, FiniteSets, Functions

CONSTANTS Names,   \* pipeline names
          Max      \* slots

VARIABLES waiting,   \* accepted, not started: oldest first
          active     \* the names that hold a slot

poolVars == <<waiting, active>>

Init ==
  /\ waiting = <<>>
  /\ active = {}

\* A name is accepted unless it already waits or holds a slot.
Submit(n) ==
  /\ n \notin Range(waiting) \cup active
  /\ waiting' = Append(waiting, n)
  /\ UNCHANGED active

\* The oldest accepted name takes a free slot.
Dispatch ==
  /\ waiting # <<>>
  /\ Cardinality(active) < Max
  /\ waiting' = Tail(waiting)
  /\ active' = active \cup {Head(waiting)}

\* A slot is given back.
Finish(n) ==
  /\ n \in active
  /\ active' = active \ {n}
  /\ UNCHANGED waiting

Next ==
  \/ \E n \in Names : Submit(n) \/ Finish(n)
  \/ Dispatch

SafeSpec == Init /\ [][Next]_poolVars

\* A free slot does not stay free while a name waits.
Spec == SafeSpec /\ WF_poolVars(Dispatch)
=============================================================================
