------------------------------ MODULE Execute ------------------------------
(***************************************************************************)
(* One load from its source to its result, and what can happen to it       *)
(* meanwhile: core/pipeline_runner.py (_execute, _clear_pending_packages,  *)
(* and the recovery operations drop_pending_packages,                      *)
(* sync_from_destination and drop_resource).                               *)
(*                                                                         *)
(* Loads of different pipelines share the process and its environment, in  *)
(* which _execute says whether files are compressed.  Recovery looks at    *)
(* the guard of PipelineRuns (a pipeline is in it while it is not "idle"   *)
(* here) and then acts, without entering it.  dlt is external: it loads,   *)
(* fails or raises, and may leave a pending package behind, which blocks   *)
(* every later load until it is cleared.                                   *)
(***************************************************************************)
EXTENDS FilesystemExport

CONSTANTS Dest,     \* the kind of destination of a pipeline
          Csv,      \* the pipelines that write CSV
          Handlers, \* requests for recovery
          Nothing

ASSUME ExecuteAssumption ==
  /\ Dest \in [Names -> {"filesystem", "s3", "sql"}]
  /\ Csv \subseteq {n \in Names : Dest[n] # "sql"}
  /\ Nothing \notin Names

VARIABLES pc,        \* the step of a pipeline's load
          replace,   \* write_disposition is "replace"
          written,   \* how the last attempt wrote its files, or "none"
          attempts,  \* attempts that wrote to the staging folder
          pending,   \* dlt has a pending package of an earlier attempt
          plain,     \* the environment: DISABLE_COMPRESSION is set
          recovery,  \* the pipeline a request is about to act on
          whole,     \* auxiliary: what the last publishing has achieved
          stuck,     \* auxiliary: packages could not be cleared in this load
          mixed,     \* auxiliary: a load of another format has begun since
          disturbed  \* auxiliary: recovery acted during this load

locals == <<replace, written, stuck, mixed, disturbed>>
vars == <<export, pc, locals, attempts, pending, plain, recovery, whole>>

Init ==
  /\ ExportInit
  /\ pc = [n \in Names |-> "idle"]
  /\ replace = [n \in Names |-> FALSE]
  /\ written = [n \in Names |-> "none"]
  /\ attempts = [n \in Names |-> 0]
  /\ pending = [n \in Names |-> FALSE]
  /\ plain = FALSE
  /\ recovery = [h \in Handlers |-> Nothing]
  /\ whole = [n \in Names |-> "no"]
  /\ stuck = [n \in Names |-> FALSE]
  /\ mixed = [n \in Names |-> FALSE]
  /\ disturbed = [n \in Names |-> FALSE]
-----------------------------------------------------------------------------
Goes(n, step) == pc' = [pc EXCEPT ![n] = step]

\* The load returns or raises; what was local to it is gone.
Ends(n) ==
  /\ Goes(n, "idle")
  /\ replace' = [replace EXCEPT ![n] = FALSE]
  /\ written' = [written EXCEPT ![n] = "none"]
  /\ stuck' = [stuck EXCEPT ![n] = FALSE]
  /\ mixed' = [mixed EXCEPT ![n] = FALSE]
  /\ disturbed' = [disturbed EXCEPT ![n] = FALSE]

\* The run is in the guard.  Its config, with the write disposition, was read
\* before; an edit counts for the next run.
Enter(n) ==
  /\ pc[n] = "idle"
  /\ Dest[n] = "filesystem" => attempts[n] + 1 < MaxLoads  \* bound: room to retry
  /\ Goes(n, "source")
  /\ \E anew \in IF Dest[n] = "filesystem" THEN BOOLEAN ELSE {FALSE} :
       replace' = [replace EXCEPT ![n] = anew]  \* only publishing asks
  /\ UNCHANGED <<export, written, stuck, mixed, disturbed, attempts, pending, plain, recovery, whole>>

\* build_dlt_source or build_dlt_pipeline raises.
SourceFails(n) ==
  /\ pc[n] = "source"
  /\ Ends(n)
  /\ UNCHANGED <<export, attempts, pending, plain, recovery, whole>>

\* CSV files are not compressed; the format of other files is not to inherit
\* that.  The environment belongs to the process, so a load that has set it and
\* not read it yet gets what this one sets.
Files(n) == Dest[n] # "sql"

Setting_NoPop(n) == plain \/ n \in Csv
Setting(n) == IF Files(n) THEN n \in Csv ELSE plain

SetFormat(n) ==
  /\ pc[n] = "source"
  /\ Goes(n, "clear")
  /\ plain' = Setting(n)
  /\ mixed' = [o \in Names |-> \/ mixed[o]
                               \/ /\ pc[o] \in {"clear", "run", "wipe", "rerun"}
                                  /\ Files(n) /\ Files(o)
                                  /\ (n \in Csv) # (o \in Csv)]
  /\ UNCHANGED <<export, replace, written, stuck, disturbed, attempts, pending, recovery, whole>>

\* _clear_pending_packages: dlt aborts the packages, or else their directories
\* are removed, errors ignored.  Whatever becomes of that, the load goes on.
ClearPending(n, next) ==
  /\ Goes(n, next)
  /\ \/ /\ pending' = [pending EXCEPT ![n] = FALSE]
        /\ UNCHANGED stuck
     \/ /\ pending[n]
        /\ stuck' = [stuck EXCEPT ![n] = TRUE]
        /\ UNCHANGED pending
  /\ UNCHANGED <<export, replace, written, mixed, disturbed, attempts, plain, recovery, whole>>

Clear_NotAtAll(n) ==
  /\ pc[n] = "clear"
  /\ Goes(n, "run")
  /\ UNCHANGED <<export, locals, attempts, pending, plain, recovery, whole>>

Clear(n) == pc[n] = "clear" /\ ClearPending(n, "run")

Wipe_TryAgain(n) == pc[n] = "wipe" /\ ClearPending(n, "run")
Wipe(n) == pc[n] = "wipe" /\ ClearPending(n, "rerun")

\* pipeline.run, the first time or again after a wipe.
Attempting(n) == pc[n] \in {"run", "rerun"}

\* Raised with one of the texts of _is_pending_or_constraint_error: once, the
\* pending package is wiped and the load tried again.
RaisesPending(n) ==
  IF pc[n] = "run" THEN Goes(n, "wipe") /\ UNCHANGED locals ELSE Ends(n)

Blocked(n) ==
  /\ Attempting(n)
  /\ pending[n]
  /\ RaisesPending(n)
  /\ UNCHANGED <<export, attempts, pending, plain, recovery, whole>>

\* dlt writes: tables are emptied (in replace mode) and written; not all of
\* them when it fails.
Writes(n) ==
  IF Dest[n] = "filesystem"
  THEN /\ attempts' = [attempts EXCEPT ![n] = @ + 1]
       /\ whole' = [whole EXCEPT ![n] = "no"]
       /\ \E cleared \in SUBSET Tables : \E tables \in SUBSET cleared :
            staging' = [staging EXCEPT ![n] = Staged(n, replace[n], cleared, tables, attempts[n] + 1)]
  ELSE UNCHANGED <<staging, attempts, whole>>

\* Jobs have failed, or dlt raises; a package may be left.
LoadFails(n) ==
  /\ Attempting(n)
  /\ ~pending[n]
  /\ Writes(n)
  /\ \/ Ends(n) /\ \E left \in BOOLEAN : pending' = [pending EXCEPT ![n] = left]
     \/ RaisesPending(n) /\ pending' = [pending EXCEPT ![n] = TRUE]
  /\ UNCHANGED <<visible, torn, todo, published, plain, recovery>>

LoadSucceeds(n) ==
  /\ Attempting(n)
  /\ ~pending[n]
  /\ Writes(n)
  /\ written' = [written EXCEPT ![n] = IF plain THEN "plain" ELSE "compressed"]
  /\ IF Dest[n] = "filesystem"
     THEN Goes(n, "publish") /\ PublishBegin(n)
     ELSE Goes(n, "quality") /\ UNCHANGED <<todo, published>>
  /\ UNCHANGED <<visible, torn, replace, stuck, mixed, disturbed, pending, plain, recovery>>

\* Publishing: a table; the end; an exception, logged and without consequence.
Publish(n) ==
  /\ pc[n] = "publish"
  /\ \E t \in todo[n] : PublishTable(n, t, replace[n])
  /\ UNCHANGED <<pc, locals, attempts, pending, plain, recovery, whole>>

Achieved(n, kept) ==
  IF disturbed[n] THEN "no"
  ELSE IF ~replace[n] THEN "added"
  ELSE IF kept = {} THEN "exactly" ELSE "tables"

PublishEnds(n) ==
  /\ pc[n] = "publish"
  /\ Goes(n, "quality")
  /\ \E kept \in SUBSET Unknown(n) :
       /\ PublishSweep(n, replace[n], kept)
       /\ whole' = [whole EXCEPT ![n] = Achieved(n, kept)]
  /\ UNCHANGED <<locals, attempts, pending, plain, recovery>>

\* A crash in the middle of a table leaves what an exception there and a
\* Restart after it leave.
PublishFails(n) ==
  /\ pc[n] = "publish"
  /\ Goes(n, "quality")
  /\ \/ UNCHANGED <<visible, torn>>
     \/ \E t \in todo[n] : PublishCut(n, t, replace[n])
  /\ PublishStops(n)
  /\ UNCHANGED <<staging, locals, attempts, pending, plain, recovery, whole>>

\* The checks (none for files), the metrics and the result; whether they pass
\* is no matter here, and they may raise.
Quality(n) ==
  /\ pc[n] = "quality"
  /\ Ends(n)
  /\ UNCHANGED <<export, attempts, pending, plain, recovery, whole>>

Progress(n) ==
  \/ SourceFails(n) \/ SetFormat(n) \/ Clear(n) \/ Blocked(n) \/ LoadFails(n) \/ LoadSucceeds(n)
  \/ Wipe(n) \/ Publish(n) \/ PublishEnds(n) \/ PublishFails(n) \/ Quality(n)
-----------------------------------------------------------------------------
(***************************************************************************)
(* Recovery, and a crash.                                                  *)
(***************************************************************************)

\* _recovery_blocked_if_running lets the request pass.
RecoveryStarts(h) ==
  /\ recovery[h] = Nothing
  /\ \E n \in Names : pc[n] = "idle" /\ recovery' = [recovery EXCEPT ![h] = n]
  /\ UNCHANGED <<export, pc, locals, attempts, pending, plain, whole>>

\* drop_pending_packages: wiped, or not, which is not noticed.
DropPending(n) ==
  /\ \E left \in {FALSE, pending[n]} : pending' = [pending EXCEPT ![n] = left]
  /\ UNCHANGED <<staging, whole>>

\* drop_resource: the files of a table are gone from the staging folder, or
\* some of them when the command fails or is cut off after 60 seconds, which may
\* leave a package of its own.
DropResource(n) ==
  /\ \E left \in {TRUE, pending[n]} : pending' = [pending EXCEPT ![n] = left]
  /\ \E t \in Tables : \E lost \in SUBSET FilesOf(staging[n], {t}) :
       staging' = [staging EXCEPT ![n] = @ \ lost]
  /\ whole' = [whole EXCEPT ![n] = "no"]

\* sync_from_destination changes what dlt remembers, which is not modelled.
Sync == UNCHANGED <<staging, pending, whole>>

RecoveryActs(h) ==
  /\ recovery[h] # Nothing
  /\ LET n == recovery[h]
     IN  /\ DropPending(n) \/ DropResource(n) \/ Sync
         /\ disturbed' = [disturbed EXCEPT ![n] = pc[n] # "idle"]
  /\ recovery' = [recovery EXCEPT ![h] = Nothing]
  /\ UNCHANGED <<visible, torn, todo, published, pc, replace, written, stuck, mixed, attempts, plain>>

\* The server dies and comes back: what is on disk stays as it is.
Restart ==
  /\ pc' = [n \in Names |-> "idle"]
  /\ \E cut \in SUBSET {n \in Names : Attempting(n)} :
       pending' = [n \in Names |-> pending[n] \/ n \in cut]
  /\ plain' = FALSE
  /\ recovery' = [h \in Handlers |-> Nothing]
  /\ replace' = [n \in Names |-> FALSE]
  /\ written' = [n \in Names |-> "none"]
  /\ stuck' = [n \in Names |-> FALSE]
  /\ mixed' = [n \in Names |-> FALSE]
  /\ disturbed' = [n \in Names |-> FALSE]
  /\ todo' = [n \in Names |-> {}]
  /\ published' = [n \in Names |-> {}]
  /\ UNCHANGED <<staging, visible, torn, attempts, whole>>

Next ==
  \/ \E n \in Names : Enter(n) \/ Progress(n)
  \/ \E h \in Handlers : RecoveryStarts(h) \/ RecoveryActs(h)
  \/ Restart

Spec == Init /\ [][Next]_vars
-----------------------------------------------------------------------------
TypeOK ==
  /\ staging \in [Names -> SUBSET (Tables \X (1..MaxLoads))]
  /\ visible \in [Names -> SUBSET ((Tables \cup Strangers) \X (0..MaxLoads))]
  /\ torn \in [Names -> SUBSET ((Tables \cup Strangers) \X (0..MaxLoads))]
  /\ \A n \in Names : torn[n] \subseteq visible[n]
  /\ todo \in [Names -> SUBSET Tables]
  /\ \A n \in Names : todo[n] # {} => pc[n] = "publish"
  /\ published \in [Names -> SUBSET Tables]
  /\ pc \in [Names -> {"idle", "source", "clear", "run", "wipe", "rerun", "publish", "quality"}]
  /\ replace \in [Names -> BOOLEAN]
  /\ attempts \in [Names -> 0..MaxLoads]
  /\ pending \in [Names -> BOOLEAN]
  /\ plain \in BOOLEAN
  /\ written \in [Names -> {"none", "plain", "compressed"}]
  /\ recovery \in [Handlers -> Names \cup {Nothing}]
  /\ whole \in [Names -> {"no", "added", "tables", "exactly"}]
  /\ stuck \in [Names -> BOOLEAN]
  /\ mixed \in [Names -> BOOLEAN]
  /\ disturbed \in [Names -> BOOLEAN]

(* Publishing that got to its end has made the visible folder agree with   *)
(* the staging folder, whatever failed publishings, crashes and loads in   *)
(* the other mode had left in it: in append mode nothing of the staging    *)
(* folder is missing or cut short; in replace mode every table has its     *)
(* files, whole, and no other, and there is nothing else, unless it could  *)
(* not be deleted.                                                         *)
ExportIsWhole ==
  \A n \in Names :
    /\ whole[n] # "no" => staging[n] \subseteq visible[n] \ torn[n]
    /\ whole[n] \in {"tables", "exactly"} =>
         FilesOf(visible[n], TablesIn(staging[n])) = staging[n]
    /\ whole[n] = "exactly" => visible[n] = staging[n]

\* The files of the folder that a step cuts short.
Spoilt(n) == visible[n] \cap (torn'[n] \ torn[n])

(* The folder of the user only changes for a load that succeeded: no       *)
(* failed load, recovery or restart touches it.  Only a load in replace    *)
(* mode removes anything.  Any other spoils one whole file at most, when   *)
(* its publishing is cut off while it copies that file once more; the file *)
(* is in the staging folder still, and the next publishing mends it, as    *)
(* ExportIsWhole says.                                                     *)
ExportsAreKept ==
  [][\A n \in Names :
       /\ visible'[n] # visible[n] \/ torn'[n] # torn[n] => pc[n] = "publish"
       /\ \/ replace[n]
          \/ /\ visible[n] \subseteq visible'[n]
             /\ Spoilt(n) # {} => pc'[n] # "publish"
             /\ Spoilt(n) \subseteq staging'[n]
             /\ \A f, g \in Spoilt(n) : f = g]_vars

(* A package left behind by a failed or killed load blocks no later one,   *)
(* nor the second attempt of its own, unless it could not be cleared or    *)
(* recovery has left one during the load.                                  *)
StaleNeverBlocks ==
  \A n \in Names : Attempting(n) /\ pending[n] => stuck[n] \/ disturbed[n]

(* CSV exports are not compressed, and other files do not inherit that     *)
(* from an earlier CSV load - unless loads of both formats overlap.        *)
FormatIsOwn ==
  \A n \in Names : Files(n) /\ written[n] # "none" /\ ~mixed[n] =>
    written[n] = IF n \in Csv THEN "plain" ELSE "compressed"

\* How many steps are left at most, but for the tables that are published.
Left(step) == CASE step = "source" -> 7 [] step = "clear" -> 6 [] step = "run" -> 5
                [] step = "wipe" -> 4 [] step = "rerun" -> 3 [] step = "publish" -> 2
                [] step = "quality" -> 1 [] step = "idle" -> 0

(* A load only moves on: it is retried once at most, publishes each table  *)
(* once, and no failure on the way (of clearing, of publishing, of a crash)*)
(* sends it back.  So it ends if each step of it does.                     *)
LoadsMoveOn ==
  [][\A n \in Names : pc[n] # "idle" =>
       \/ Left(pc'[n]) < Left(pc[n])
       \/ pc'[n] = pc[n] /\ todo'[n] \subseteq todo[n]]_vars
-----------------------------------------------------------------------------
(* _recovery_blocked_if_running: "Recovery must never run while the        *)
(* pipeline is loading."  Here: no load has had recovery act on it.        *)
RecoveryNeverDuringLoad == \A n \in Names : ~disturbed[n]
=============================================================================
