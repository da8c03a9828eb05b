-------------------------- MODULE FilesystemExport --------------------------
(***************************************************************************)
(* The export of a load into a folder of the user: core/paths.py           *)
(* (publish_filesystem_export).  dlt writes into a hidden staging folder,  *)
(* and the tables found there are copied, one after the other, to the      *)
(* visible folder.  Nothing makes the copy atomic.                         *)
(*                                                                         *)
(* A file is a pair of the table it belongs to and the attempt to load     *)
(* that wrote it (dlt's load id); what else is in the visible folder (old  *)
(* metadata of dlt, files of the user or of another pipeline) is a file of *)
(* a stranger, written by no load.                                         *)
(***************************************************************************)
EXTENDS Naturals

CONSTANTS Names,     \* pipelines
          Tables,    \* tables a source may yield
          Strangers, \* what else is in a visible folder at first
          MaxLoads   \* bound on the attempts to load of a pipeline

ASSUME ExportAssumption == Tables \cap Strangers = {} /\ MaxLoads \in Nat

VARIABLES staging,   \* the files dlt has written
          visible,   \* the files in the folder of the user
          torn,      \* those of them that are cut short
          todo,      \* tables that publishing has listed and not reached
          published  \* tables it has copied

export == <<staging, visible, torn, todo, published>>

ExportInit ==
  /\ staging = [n \in Names |-> {}]
  /\ visible = [n \in Names |-> Strangers \X {0}]
  /\ torn = [n \in Names |-> {}]
  /\ todo = [n \in Names |-> {}]
  /\ published = [n \in Names |-> {}]

\* Definitions named <definition>_<fault> are faulty variants of the definition
\* that follows them; PROJECT.json pairs each with the property that refutes it.

FilesOf(files, tables) == {f \in files : f[1] \in tables}

TablesIn(files) == {f[1] : f \in files}

\* What dlt does to its bucket: attempt k empties tables (in replace mode) and
\* writes files of some of them.
Staged(n, anew, cleared, tables, k) ==
  (IF anew THEN staging[n] \ FilesOf(staging[n], cleared) ELSE staging[n]) \cup (tables \X {k})

\* The listing of the staging folder, made once.
PublishBegin(n) ==
  /\ todo' = [todo EXCEPT ![n] = TablesIn(staging'[n])]
  /\ published' = [published EXCEPT ![n] = {}]

\* One table: removed first, or copied on top of what is there - every file of
\* it again, the ones that are there too.  A table that has vanished from the
\* staging folder is skipped.
Copied(n, t, anew) ==
  IF t \in TablesIn(staging[n])
  THEN (visible[n] \ IF anew THEN FilesOf(visible[n], {t}) ELSE {}) \cup FilesOf(staging[n], {t})
  ELSE visible[n]

StillTorn_OnlyMissing(n, t, anew) ==
  (torn[n] \cap Copied(n, t, anew)) \ IF anew THEN FilesOf(staging[n], {t}) ELSE {}

StillTorn(n, t, anew) == (torn[n] \cap Copied(n, t, anew)) \ FilesOf(staging[n], {t})

PublishTable(n, t, anew) ==
  /\ t \in todo[n]
  /\ visible' = [visible EXCEPT ![n] = Copied(n, t, anew)]
  /\ torn' = [torn EXCEPT ![n] = StillTorn(n, t, anew)]
  /\ todo' = [todo EXCEPT ![n] = @ \ {t}]
  /\ published' = [published EXCEPT ![n] = @ \cup (TablesIn(staging[n]) \cap {t})]
  /\ UNCHANGED staging

\* An exception or a crash while a table is removed, or while it is copied: some
\* files of it are there, and one may be cut short, for shutil.copy2 empties its
\* target first, also when that was whole.  Where the table is not there yet
\* copytree does not stop at a file that it cannot copy.
RemovalCut(n, t) ==
  \E gone \in SUBSET FilesOf(visible[n], {t}) :
    /\ visible' = [visible EXCEPT ![n] = @ \ gone]
    /\ torn' = [torn EXCEPT ![n] = @ \ gone]

CopyCut(n, t, rest) ==
  \E done, cut \in SUBSET FilesOf(staging[n], {t}) :
    /\ FilesOf(rest, {t}) = {} \/ \A f, g \in cut : f = g
    /\ visible' = [visible EXCEPT ![n] = rest \cup done \cup cut]
    /\ torn' = [torn EXCEPT ![n] = ((@ \cap rest) \ done) \cup cut]

PublishCut(n, t, anew) ==
  /\ t \in todo[n] \cap TablesIn(staging[n])
  /\ \/ anew /\ RemovalCut(n, t)
     \/ CopyCut(n, t, IF anew THEN visible[n] \ FilesOf(visible[n], {t}) ELSE visible[n])

\* The end, in replace mode: whatever is not a table of the staging folder is
\* removed, errors ignored, and some may be kept.
Unknown(n) == FilesOf(visible[n], (TablesIn(visible[n]) \ TablesIn(staging[n])) \ published[n])

PublishStops_KeepsList(n) ==
  /\ published' = [published EXCEPT ![n] = {}]
  /\ UNCHANGED todo

PublishStops(n) ==
  /\ todo' = [todo EXCEPT ![n] = {}]
  /\ published' = [published EXCEPT ![n] = {}]

PublishSweep_InAppend(n, anew, kept) ==
  /\ todo[n] = {}
  /\ kept \subseteq Unknown(n)
  /\ visible' = [visible EXCEPT ![n] = (@ \ Unknown(n)) \cup kept]
  /\ torn' = [torn EXCEPT ![n] = @ \cap visible'[n]]
  /\ PublishStops(n)
  /\ UNCHANGED staging

PublishSweep(n, anew, kept) ==
  /\ todo[n] = {}
  /\ kept \subseteq Unknown(n)
  /\ visible' = [visible EXCEPT ![n] = IF anew THEN (@ \ Unknown(n)) \cup kept ELSE @]
  /\ torn' = [torn EXCEPT ![n] = @ \cap visible'[n]]
  /\ PublishStops(n)
  /\ UNCHANGED staging
=============================================================================
