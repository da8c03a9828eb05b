--------------------------- MODULE Execute_proofs ---------------------------
(***************************************************************************)
(* Proofs about Execute, for any pipelines, tables, formats, requests and  *)
(* any bound on the attempts.                                              *)
(***************************************************************************)
EXTENDS Execute, TLAPS

Steps == {"idle", "source", "clear", "run", "wipe", "rerun", "publish", "quality"}

(* The bound on attempts leaves room for the retry of every load that has  *)
(* begun.                                                                  *)
Room ==
  \A n \in Names : Dest[n] = "filesystem" =>
    /\ pc[n] \in {"source", "clear", "run"} => attempts[n] + 1 < MaxLoads
    /\ pc[n] \in {"wipe", "rerun"} => attempts[n] < MaxLoads

TypeInv == TypeOK /\ Room

LEMMA FilesOfIsSubset == ASSUME NEW F, NEW T PROVE FilesOf(F, T) \subseteq F
BY DEF FilesOf

LEMMA WritesType ==
  ASSUME TypeInv, NEW n \in Names, Attempting(n), Writes(n)
  PROVE  /\ staging' \in [Names -> SUBSET (Tables \X (1..MaxLoads))]
         /\ attempts' \in [Names -> 0..MaxLoads]
         /\ whole' \in [Names -> {"no", "added", "tables", "exactly"}]
         /\ \A m \in Names \ {n} : attempts'[m] = attempts[m]
         /\ Dest[n] = "filesystem" => attempts'[n] = attempts[n] + 1
<1> USE ExportAssumption DEF TypeInv, TypeOK, Room, Attempting
<1>1. CASE Dest[n] = "filesystem"
  <2>1. attempts[n] < MaxLoads /\ attempts[n] \in Nat
    BY <1>1
  <2>2. attempts' = [attempts EXCEPT ![n] = attempts[n] + 1] /\ whole' = [whole EXCEPT ![n] = "no"]
    BY <1>1 DEF Writes
  <2>3. PICK tables \in SUBSET Tables, cleared \in SUBSET Tables :
          staging' = [staging EXCEPT ![n] = Staged(n, replace[n], cleared, tables, attempts[n] + 1)]
    BY <1>1 DEF Writes
  <2>4. tables \X {attempts[n] + 1} \subseteq Tables \X (1..MaxLoads)
    BY <2>1
  <2>5. Staged(n, replace[n], cleared, tables, attempts[n] + 1) \subseteq Tables \X (1..MaxLoads)
    BY <2>4 DEF Staged
  <2> QED
    BY <2>1, <2>2, <2>3, <2>5
<1>2. CASE Dest[n] # "filesystem"
  BY <1>2 DEF Writes
<1> QED
  BY <1>1, <1>2

(* Publishing moves files of the staging folder to the visible one and     *)
(* makes up none.                                                          *)
ShownTyped ==
  /\ visible \in [Names -> SUBSET ((Tables \cup Strangers) \X (0..MaxLoads))]
  /\ torn \in [Names -> SUBSET ((Tables \cup Strangers) \X (0..MaxLoads))]
  /\ \A n \in Names : torn[n] \subseteq visible[n]

LEMMA ShownStep ==
  ASSUME TypeInv, NEW n \in Names, NEW V, NEW T,
         V \subseteq visible[n] \cup staging[n], T \subseteq V,
         visible' = [visible EXCEPT ![n] = V], torn' = [torn EXCEPT ![n] = T]
  PROVE  ShownTyped'
<1>1. staging[n] \subseteq (Tables \cup Strangers) \X (0..MaxLoads)
  BY ExportAssumption DEF TypeInv, TypeOK
<1>2. V \subseteq (Tables \cup Strangers) \X (0..MaxLoads)
  BY <1>1 DEF TypeInv, TypeOK
<1> QED
  BY <1>2 DEF TypeInv, TypeOK, ShownTyped

LEMMA TableType ==
  ASSUME TypeInv, NEW n \in Names, NEW t, NEW anew, PublishTable(n, t, anew)
  PROVE  ShownTyped'
<1>1. FilesOf(staging[n], {t}) \subseteq staging[n]
  BY FilesOfIsSubset
<1>2. Copied(n, t, anew) \subseteq visible[n] \cup staging[n]
  BY <1>1 DEF Copied
<1>3. StillTorn(n, t, anew) \subseteq Copied(n, t, anew)
  BY DEF StillTorn
<1> QED
  BY <1>2, <1>3, ShownStep DEF PublishTable

LEMMA SweepType ==
  ASSUME TypeInv, NEW n \in Names, NEW anew, NEW kept, PublishSweep(n, anew, kept)
  PROVE  ShownTyped'
<1>1. kept \subseteq visible[n]
  BY FilesOfIsSubset DEF PublishSweep, Unknown
<1> DEFINE V == IF anew THEN (visible[n] \ Unknown(n)) \cup kept ELSE visible[n]
<1>2. V \subseteq visible[n]
  BY <1>1
<1>3. visible' = [visible EXCEPT ![n] = V] /\ torn' = [torn EXCEPT ![n] = torn[n] \cap V]
  BY DEF PublishSweep, TypeInv, TypeOK
<1> HIDE DEF V
<1> QED
  BY <1>2, <1>3, ShownStep

LEMMA CutType ==
  ASSUME TypeInv, NEW n \in Names, NEW t, NEW anew, PublishCut(n, t, anew)
  PROVE  ShownTyped'
<1>1. ASSUME RemovalCut(n, t) PROVE ShownTyped'
  <2>1. PICK gone \in SUBSET FilesOf(visible[n], {t}) :
          /\ visible' = [visible EXCEPT ![n] = visible[n] \ gone]
          /\ torn' = [torn EXCEPT ![n] = torn[n] \ gone]
    BY <1>1 DEF RemovalCut
  <2>2. torn[n] \ gone \subseteq visible[n] \ gone
    BY DEF TypeInv, TypeOK
  <2> QED
    BY <2>1, <2>2, ShownStep
<1>2. ASSUME NEW rest, rest \subseteq visible[n], CopyCut(n, t, rest) PROVE ShownTyped'
  <2>1. PICK done \in SUBSET FilesOf(staging[n], {t}), cut \in SUBSET FilesOf(staging[n], {t}) :
          /\ visible' = [visible EXCEPT ![n] = rest \cup done \cup cut]
          /\ torn' = [torn EXCEPT ![n] = ((torn[n] \cap rest) \ done) \cup cut]
    BY <1>2 DEF CopyCut
  <2>2. FilesOf(staging[n], {t}) \subseteq staging[n]
    BY FilesOfIsSubset
  <2>3. /\ rest \cup done \cup cut \subseteq visible[n] \cup staging[n]
        /\ ((torn[n] \cap rest) \ done) \cup cut \subseteq rest \cup done \cup cut
    BY <1>2, <2>2
  <2> QED
    BY <2>1, <2>3, ShownStep
<1>3. (IF anew THEN visible[n] \ FilesOf(visible[n], {t}) ELSE visible[n]) \subseteq visible[n]
  OBVIOUS
<1> QED
  BY <1>1, <1>2, <1>3 DEF PublishCut

LEMMA EndsType ==
  ASSUME TypeInv, NEW n \in Names, Ends(n)
  PROVE  /\ pc' = [pc EXCEPT ![n] = "idle"]
         /\ pc' \in [Names -> Steps]
         /\ replace' \in [Names -> BOOLEAN]
         /\ written' \in [Names -> {"none", "plain", "compressed"}]
         /\ stuck' \in [Names -> BOOLEAN]
         /\ mixed' \in [Names -> BOOLEAN]
         /\ disturbed' \in [Names -> BOOLEAN]
BY DEF TypeInv, TypeOK, Ends, Goes, Steps

THEOREM TypeInvHolds == Spec => []TypeInv
<1>1. Init => TypeInv
  <2>1. Strangers \X {0} \subseteq (Tables \cup Strangers) \X (0..MaxLoads)
    BY ExportAssumption
  <2> SUFFICES ASSUME Init PROVE TypeInv
    OBVIOUS
  <2> USE DEF Init
  <2>2. /\ staging \in [Names -> SUBSET (Tables \X (1..MaxLoads))]
        /\ visible \in [Names -> SUBSET ((Tables \cup Strangers) \X (0..MaxLoads))]
        /\ torn \in [Names -> SUBSET ((Tables \cup Strangers) \X (0..MaxLoads))]
        /\ \A n \in Names : torn[n] \subseteq visible[n]
        /\ todo \in [Names -> SUBSET Tables]
        /\ published \in [Names -> SUBSET Tables]
        /\ \A n \in Names : todo[n] = {}
    BY <2>1 DEF ExportInit
  <2>3. attempts \in [Names -> 0..MaxLoads]
    BY ExportAssumption
  <2>4. Room
    BY DEF Room
  <2> QED
    BY <2>2, <2>3, <2>4 DEF TypeInv, TypeOK
<1>2. TypeInv /\ [Next]_vars => TypeInv'
  <2> SUFFICES ASSUME TypeInv, [Next]_vars PROVE TypeInv'
    OBVIOUS
  <2>1. ASSUME NEW n \in Names, Enter(n) PROVE TypeInv'
    BY <2>1, ExportAssumption DEF Enter, Goes, export, TypeInv, TypeOK, Room
  <2>2. ASSUME NEW n \in Names, SourceFails(n) PROVE TypeInv'
    BY <2>2, EndsType DEF SourceFails, export, TypeInv, TypeOK, Room, Steps
  <2>3. ASSUME NEW n \in Names, SetFormat(n) PROVE TypeInv'
    <3>1. plain' \in BOOLEAN
      <4>1. CASE Files(n)
        <5>1. plain' = (n \in Csv)
          BY <2>3, <4>1 DEF SetFormat, Setting
        <5> QED
          BY <5>1
      <4>2. CASE ~Files(n)
        BY <2>3, <4>2 DEF SetFormat, Setting, TypeInv, TypeOK
      <4> QED
        BY <4>1, <4>2
    <3>2. mixed' \in [Names -> BOOLEAN]
      BY <2>3 DEF SetFormat, TypeInv, TypeOK
    <3> QED
      BY <2>3, <3>1, <3>2 DEF SetFormat, Goes, export, TypeInv, TypeOK, Room
  <2>4. ASSUME NEW n \in Names, Clear(n) PROVE TypeInv'
    BY <2>4 DEF Clear, ClearPending, Goes, export, TypeInv, TypeOK, Room
  <2>5. ASSUME NEW n \in Names, Wipe(n) PROVE TypeInv'
    BY <2>5 DEF Wipe, ClearPending, Goes, export, TypeInv, TypeOK, Room
  <2>6. ASSUME NEW n \in Names, Blocked(n) PROVE TypeInv'
    <3>1. CASE pc[n] = "run"
      BY <2>6, <3>1, ExportAssumption
         DEF Blocked, RaisesPending, Goes, locals, export, TypeInv, TypeOK, Room
    <3>2. CASE pc[n] # "run"
      <4>1. Ends(n)
        BY <2>6, <3>2 DEF Blocked, RaisesPending
      <4> QED
        BY <2>6, <4>1, EndsType DEF Blocked, Attempting, export, TypeInv, TypeOK, Room, Steps
    <3> QED
      BY <3>1, <3>2
  <2>7. ASSUME NEW n \in Names, LoadFails(n) PROVE TypeInv'
    <3>1. Attempting(n) /\ Writes(n)
      BY <2>7 DEF LoadFails
    <3>2. pending' \in [Names -> BOOLEAN] /\ UNCHANGED <<visible, torn, todo, published, plain, recovery>>
      BY <2>7 DEF LoadFails, TypeInv, TypeOK
    <3>3. todo[n] = {}
      BY <3>1 DEF Attempting, TypeInv, TypeOK
    <3>4. CASE Ends(n)
      BY <3>1, <3>2, <3>3, <3>4, WritesType, EndsType DEF TypeInv, TypeOK, Room, Steps
    <3>5. CASE pc[n] = "run" /\ Goes(n, "wipe") /\ UNCHANGED locals
      BY <3>1, <3>2, <3>3, <3>5, WritesType, ExportAssumption
         DEF Goes, locals, TypeInv, TypeOK, Room
    <3> QED
      BY <2>7, <3>4, <3>5 DEF LoadFails, RaisesPending
  <2>8. ASSUME NEW n \in Names, LoadSucceeds(n) PROVE TypeInv'
    <3>1. Attempting(n) /\ Writes(n)
      BY <2>8 DEF LoadSucceeds
    <3>2. /\ UNCHANGED <<visible, torn, replace, stuck, mixed, disturbed, pending, plain, recovery>>
          /\ written' \in [Names -> {"none", "plain", "compressed"}]
      BY <2>8 DEF LoadSucceeds, TypeInv, TypeOK
    <3>3. todo[n] = {}
      BY <3>1 DEF Attempting, TypeInv, TypeOK
    <3>4. CASE Goes(n, "publish") /\ PublishBegin(n)
      <4>1. TablesIn(staging'[n]) \subseteq Tables
        BY <3>1, WritesType DEF TablesIn
      <4>2. todo' \in [Names -> SUBSET Tables] /\ published' \in [Names -> SUBSET Tables]
        BY <3>4, <4>1 DEF PublishBegin, TypeInv, TypeOK
      <4>3. \A m \in Names \ {n} : todo'[m] = todo[m]
        BY <3>4 DEF PublishBegin, TypeInv, TypeOK
      <4> QED
        BY <3>1, <3>2, <3>4, <4>2, <4>3, WritesType DEF Goes, TypeInv, TypeOK, Room
    <3>5. CASE Goes(n, "quality") /\ UNCHANGED <<todo, published>>
      BY <3>1, <3>2, <3>3, <3>5, WritesType DEF Goes, TypeInv, TypeOK, Room
    <3> QED
      BY <2>8, <3>4, <3>5 DEF LoadSucceeds
  <2>9. ASSUME NEW n \in Names, Publish(n) PROVE TypeInv'
    <3>1. PICK t \in todo[n] : PublishTable(n, t, replace[n])
      BY <2>9 DEF Publish
    <3>2. t \in Tables
      BY <3>1 DEF TypeInv, TypeOK
    <3>3. ShownTyped'
      BY <3>1, TableType
    <3>4. /\ todo' \in [Names -> SUBSET Tables]
          /\ \A m \in Names : todo'[m] \subseteq todo[m]
          /\ published' \in [Names -> SUBSET Tables]
          /\ UNCHANGED staging
      BY <3>1, <3>2 DEF PublishTable, TypeInv, TypeOK
    <3> QED
      BY <2>9, <3>3, <3>4 DEF Publish, locals, TypeInv, TypeOK, Room, ShownTyped
  <2>10. ASSUME NEW n \in Names, PublishEnds(n) PROVE TypeInv'
    <3>1. PICK kept \in SUBSET Unknown(n) :
            /\ PublishSweep(n, replace[n], kept)
            /\ whole' = [whole EXCEPT ![n] = Achieved(n, kept)]
      BY <2>10 DEF PublishEnds
    <3>2. whole' \in [Names -> {"no", "added", "tables", "exactly"}]
      BY <3>1 DEF Achieved, TypeInv, TypeOK
    <3>3. ShownTyped'
      BY <3>1, SweepType
    <3>5. /\ todo' = [todo EXCEPT ![n] = {}]
          /\ published' = [published EXCEPT ![n] = {}]
          /\ UNCHANGED staging
      BY <3>1 DEF PublishSweep, PublishStops
    <3> QED
      BY <2>10, <3>2, <3>3, <3>5 DEF PublishEnds, Goes, locals, TypeInv, TypeOK, Room, ShownTyped
  <2>11. ASSUME NEW n \in Names, PublishFails(n) PROVE TypeInv'
    <3>1. ShownTyped'
      <4>1. CASE UNCHANGED <<visible, torn>>
        BY <4>1 DEF ShownTyped, TypeInv, TypeOK
      <4> QED
        BY <2>11, <4>1, CutType DEF PublishFails
    <3> QED
      BY <2>11, <3>1 DEF PublishFails, PublishStops, Goes, locals, TypeInv, TypeOK, Room, ShownTyped
  <2>12. ASSUME NEW n \in Names, Quality(n) PROVE TypeInv'
    BY <2>12, EndsType DEF Quality, export, TypeInv, TypeOK, Room, Steps
  <2>13. ASSUME NEW h \in Handlers, RecoveryStarts(h) PROVE TypeInv'
    BY <2>13 DEF RecoveryStarts, export, locals, TypeInv, TypeOK, Room
  <2>14. ASSUME NEW h \in Handlers, RecoveryActs(h) PROVE TypeInv'
    <3>1. recovery[h] \in Names
      BY <2>14 DEF RecoveryActs, TypeInv, TypeOK
    <3>2. /\ staging' \in [Names -> SUBSET (Tables \X (1..MaxLoads))]
          /\ pending' \in [Names -> BOOLEAN]
          /\ whole' \in [Names -> {"no", "added", "tables", "exactly"}]
      <4>1. CASE DropPending(recovery[h])
        <5>1. PICK left \in {FALSE, pending[recovery[h]]} :
                pending' = [pending EXCEPT ![recovery[h]] = left]
          BY <4>1 DEF DropPending
        <5>2. left \in BOOLEAN
          <6>1. pending[recovery[h]] \in BOOLEAN
            BY <3>1 DEF TypeInv, TypeOK
          <6> QED
            BY <6>1, Zenon
        <5>3. pending' \in [Names -> BOOLEAN]
          BY <5>1, <5>2 DEF TypeInv, TypeOK
        <5> QED
          BY <4>1, <5>3 DEF DropPending, TypeInv, TypeOK
      <4>2. CASE DropResource(recovery[h])
        <5>1. PICK left \in {TRUE, pending[recovery[h]]} :
                pending' = [pending EXCEPT ![recovery[h]] = left]
          BY <4>2 DEF DropResource
        <5>2. left \in BOOLEAN
          <6>1. pending[recovery[h]] \in BOOLEAN
            BY <3>1 DEF TypeInv, TypeOK
          <6> QED
            BY <6>1, Zenon
        <5>3. pending' \in [Names -> BOOLEAN]
          BY <5>1, <5>2 DEF TypeInv, TypeOK
        <5> QED
          BY <3>1, <4>2, <5>3 DEF DropResource, TypeInv, TypeOK
      <4>3. CASE Sync
        BY <4>3 DEF Sync, TypeInv, TypeOK
      <4> QED
        BY <2>14, <4>1, <4>2, <4>3 DEF RecoveryActs
    <3> QED
      BY <2>14, <3>1, <3>2 DEF RecoveryActs, TypeInv, TypeOK, Room
  <2>15. CASE Restart
    BY <2>15 DEF Restart, TypeInv, TypeOK, Room
  <2>16. CASE UNCHANGED vars
    BY <2>16 DEF vars, export, locals, TypeInv, TypeOK, Room
  <2> QED
    BY <2>1, <2>2, <2>3, <2>4, <2>5, <2>6, <2>7, <2>8, <2>9, <2>10, <2>11, <2>12,
       <2>13, <2>14, <2>15, <2>16
    DEF Next, Progress
<1> QED
  BY <1>1, <1>2, PTL DEF Spec

(* Every variable keeps its type, nothing is listed for publishing unless  *)
(* a load publishes, and the bound on attempts is kept with every retry.   *)
THEOREM TypeCorrect == Spec => []TypeOK
<1>1. TypeInv => TypeOK
  BY DEF TypeInv
<1> QED
  BY <1>1, TypeInvHolds, PTL

(* What a load has set in the environment stays until it has written,      *)
(* unless a load of another format begins meanwhile.                       *)
EnvInv ==
  \A n \in Names : pc[n] \in {"clear", "run", "wipe", "rerun"} /\ Files(n) /\ ~mixed[n] =>
    (plain <=> n \in Csv)

ControlInv == StaleNeverBlocks /\ FormatIsOwn /\ EnvInv

LEMMA EndsControl ==
  ASSUME TypeOK, ControlInv, NEW n \in Names, Ends(n), plain' = plain,
         \A m \in Names \ {n} : pending'[m] = pending[m]
  PROVE  ControlInv'
BY DEF Ends, Goes, TypeOK, ControlInv, StaleNeverBlocks, FormatIsOwn, EnvInv, Attempting, Files

THEOREM ControlHolds == Spec => []ControlInv
<1>1. Init => ControlInv
  BY DEF Init, ControlInv, StaleNeverBlocks, FormatIsOwn, EnvInv, Attempting
<1>2. TypeOK /\ ControlInv /\ [Next]_vars => ControlInv'
  <2> SUFFICES ASSUME TypeOK, ControlInv, [Next]_vars PROVE ControlInv'
    OBVIOUS
  <2> USE DEF TypeOK, ControlInv, StaleNeverBlocks, FormatIsOwn, EnvInv, Attempting
  <2>1. ASSUME NEW n \in Names, Enter(n) PROVE ControlInv'
    BY <2>1 DEF Enter, Goes, Files
  <2>2. ASSUME NEW n \in Names, SourceFails(n) PROVE ControlInv'
    BY <2>2, EndsControl DEF SourceFails
  <2>3. ASSUME NEW n \in Names, SetFormat(n) PROVE ControlInv'
    <3>1. /\ pc' = [pc EXCEPT ![n] = "clear"] /\ UNCHANGED <<pending, stuck, disturbed, written>>
          /\ \A o \in Names : mixed[o] => mixed'[o]
      BY <2>3 DEF SetFormat, Goes
    <3>2. EnvInv'
      <4> SUFFICES ASSUME NEW o \in Names, pc'[o] \in {"clear", "run", "wipe", "rerun"},
                          Files(o), ~mixed'[o]
                   PROVE  plain' <=> o \in Csv
        BY DEF Files
      <4>1. CASE Files(n) /\ o = n
        BY <2>3, <4>1 DEF SetFormat, Setting
      <4>2. CASE Files(n) /\ o # n
        <5>1. n \in Csv <=> o \in Csv
          BY <2>3, <3>1, <4>2 DEF SetFormat
        <5> QED
          BY <2>3, <4>2, <5>1 DEF SetFormat, Setting
      <4>3. CASE ~Files(n)
        BY <2>3, <3>1, <4>3 DEF SetFormat, Setting
      <4> QED
        BY <4>1, <4>2, <4>3
    <3> QED
      BY <3>1, <3>2 DEF Files
  <2>4. ASSUME NEW n \in Names, Clear(n) PROVE ControlInv'
    BY <2>4 DEF Clear, ClearPending, Goes, Files
  <2>5. ASSUME NEW n \in Names, Wipe(n) PROVE ControlInv'
    BY <2>5 DEF Wipe, ClearPending, Goes, Files
  <2>6. ASSUME NEW n \in Names, Blocked(n) PROVE ControlInv'
    <3>1. CASE Goes(n, "wipe") /\ UNCHANGED locals
      BY <2>6, <3>1 DEF Blocked, Goes, locals, Files
    <3>2. CASE Ends(n)
      BY <2>6, <3>2, EndsControl DEF Blocked
    <3> QED
      BY <2>6, <3>1, <3>2 DEF Blocked, RaisesPending
  <2>7. ASSUME NEW n \in Names, LoadFails(n) PROVE ControlInv'
    <3>1. plain' = plain /\ \A m \in Names \ {n} : pending'[m] = pending[m]
      BY <2>7 DEF LoadFails
    <3>2. CASE Goes(n, "wipe") /\ UNCHANGED locals
      BY <2>7, <3>1, <3>2 DEF LoadFails, Goes, locals, Files
    <3>3. CASE Ends(n)
      BY <3>1, <3>3, EndsControl
    <3> QED
      BY <2>7, <3>2, <3>3 DEF LoadFails, RaisesPending
  <2>8. ASSUME NEW n \in Names, LoadSucceeds(n) PROVE ControlInv'
    <3>1. /\ UNCHANGED <<pending, stuck, mixed, disturbed, plain>>
          /\ pc[n] \in {"run", "rerun"}
          /\ pc' = [pc EXCEPT ![n] = "publish"] \/ pc' = [pc EXCEPT ![n] = "quality"]
          /\ written' = [written EXCEPT ![n] = IF plain THEN "plain" ELSE "compressed"]
      BY <2>8 DEF LoadSucceeds, Goes
    <3> QED
      BY <3>1 DEF Files
  <2>9. ASSUME NEW n \in Names, Publish(n) PROVE ControlInv'
    BY <2>9 DEF Publish, locals, Files
  <2>10. ASSUME NEW n \in Names, PublishEnds(n) PROVE ControlInv'
    BY <2>10 DEF PublishEnds, Goes, locals, Files
  <2>11. ASSUME NEW n \in Names, PublishFails(n) PROVE ControlInv'
    BY <2>11 DEF PublishFails, Goes, locals, Files
  <2>12. ASSUME NEW n \in Names, Quality(n) PROVE ControlInv'
    BY <2>12, EndsControl DEF Quality
  <2>13. ASSUME NEW h \in Handlers, RecoveryStarts(h) PROVE ControlInv'
    BY <2>13 DEF RecoveryStarts, locals, Files
  <2>14. ASSUME NEW h \in Handlers, RecoveryActs(h) PROVE ControlInv'
    <3>1. \A n \in Names \ {recovery[h]} : pending'[n] = pending[n]
      BY <2>14 DEF RecoveryActs, DropPending, DropResource, Sync
    <3>2. disturbed' = [disturbed EXCEPT ![recovery[h]] = pc[recovery[h]] # "idle"]
      BY <2>14 DEF RecoveryActs
    <3>3. UNCHANGED <<pc, stuck, written, mixed, plain>> /\ recovery[h] \in Names
      BY <2>14 DEF RecoveryActs
    <3>4. \A n \in Names \ {recovery[h]} : disturbed'[n] = disturbed[n]
      BY <3>2
    <3>5. Attempting(recovery[h]) => disturbed'[recovery[h]]
      BY <3>2, <3>3
    <3>6. StaleNeverBlocks'
      BY <3>1, <3>3, <3>4, <3>5
    <3> QED
      BY <3>3, <3>6 DEF Files
  <2>15. CASE Restart
    BY <2>15 DEF Restart, Files
  <2>16. CASE UNCHANGED vars
    BY <2>16 DEF vars, locals, Files
  <2> QED
    BY <2>1, <2>2, <2>3, <2>4, <2>5, <2>6, <2>7, <2>8, <2>9, <2>10, <2>11, <2>12,
       <2>13, <2>14, <2>15, <2>16
    DEF Next, Progress
<1> QED
  BY <1>1, <1>2, TypeCorrect, PTL DEF Spec

(* Packages of earlier loads block no load unless they could not be        *)
(* cleared or recovery left one.                                           *)
THEOREM NoStaleBlock == Spec => []StaleNeverBlocks
<1>1. ControlInv => StaleNeverBlocks
  BY DEF ControlInv
<1> QED
  BY <1>1, ControlHolds, PTL

(* Files have the compression of their format unless loads of both formats *)
(* overlap, however many pipelines there are.                              *)
THEOREM FormatsAreOwn == Spec => []FormatIsOwn
<1>1. ControlInv => FormatIsOwn
  BY DEF ControlInv
<1> QED
  BY <1>1, ControlHolds, PTL

(* While a load publishes undisturbed: each table of the staging folder is *)
(* still on the list or published, and what is published agrees with the   *)
(* staging folder.                                                         *)
Agrees(n, t) ==
  /\ FilesOf(staging[n], {t}) \subseteq visible[n] \ torn[n]
  /\ replace[n] => FilesOf(visible[n], {t}) = FilesOf(staging[n], {t})

PublishAt(n) ==
  pc[n] = "publish" =>
    /\ whole[n] = "no"
    /\ ~disturbed[n] =>
         /\ TablesIn(staging[n]) \subseteq todo[n] \cup published[n]
         /\ published[n] \subseteq TablesIn(staging[n])
         /\ \A t \in published[n] : Agrees(n, t)

WholeAt(n) ==
  /\ whole[n] # "no" => staging[n] \subseteq visible[n] \ torn[n]
  /\ whole[n] \in {"tables", "exactly"} => FilesOf(visible[n], TablesIn(staging[n])) = staging[n]
  /\ whole[n] = "exactly" => visible[n] = staging[n]

ExportAt(n) == PublishAt(n) /\ WholeAt(n)

ExportInv == \A n \in Names : ExportAt(n)

(* A step that leaves the folders of a pipeline alone, and does not make it*)
(* publish, keeps what is said of it.                                      *)
LEMMA Untouched ==
  ASSUME NEW m \in Names, ExportAt(m),
         staging'[m] = staging[m], visible'[m] = visible[m], torn'[m] = torn[m],
         whole'[m] = whole[m],
         pc'[m] = "publish" =>
           /\ pc[m] = "publish" /\ disturbed'[m] = disturbed[m] /\ replace'[m] = replace[m]
           /\ todo'[m] = todo[m] /\ published'[m] = published[m]
  PROVE  ExportAt(m)'
<1>1. WholeAt(m)'
  BY DEF ExportAt, WholeAt, FilesOf, TablesIn
<1>2. PublishAt(m)'
  BY DEF ExportAt, PublishAt, Agrees, FilesOf, TablesIn
<1> QED
  BY <1>1, <1>2 DEF ExportAt

(* Copying a table makes it agree, mends it, and leaves the others as they *)
(* are.                                                                    *)
LEMMA CopiedAgrees ==
  ASSUME NEW n \in Names, NEW t, NEW shown, shown = Copied(n, t, replace[n]),
         t \in TablesIn(staging[n])
  PROVE  /\ FilesOf(staging[n], {t}) \subseteq shown \ StillTorn(n, t, replace[n])
         /\ replace[n] => FilesOf(shown, {t}) = FilesOf(staging[n], {t})
         /\ \A u : u # t => FilesOf(shown, {u}) = FilesOf(visible[n], {u})
         /\ StillTorn(n, t, replace[n]) \subseteq torn[n]
BY DEF Copied, StillTorn, FilesOf

(* When nothing is left on the list, the whole folder agrees.              *)
LEMMA SweptIsWhole ==
  ASSUME NEW n \in Names, NEW kept \in SUBSET Unknown(n), NEW shown,
         shown = IF replace[n] THEN (visible[n] \ Unknown(n)) \cup kept ELSE visible[n],
         TablesIn(staging[n]) = published[n],
         \A t \in published[n] : Agrees(n, t)
  PROVE  /\ staging[n] \subseteq shown \ torn[n]
         /\ replace[n] => FilesOf(shown, TablesIn(staging[n])) = staging[n]
         /\ replace[n] /\ kept = {} => shown = staging[n]
<1>1. ASSUME NEW f \in staging[n] PROVE f[1] \in published[n] /\ f \in visible[n] \ torn[n]
  <2>1. f[1] \in TablesIn(staging[n])
    BY DEF TablesIn
  <2> QED
    BY <2>1 DEF Agrees, FilesOf
<1>2. ASSUME NEW f \in visible[n], replace[n], f[1] \in TablesIn(staging[n]) PROVE f \in staging[n]
  BY <1>2 DEF Agrees, FilesOf
<1>3. ASSUME NEW f \in Unknown(n)
      PROVE  f[1] \notin TablesIn(staging[n]) /\ f \in visible[n]
  BY DEF Unknown, FilesOf
<1>4. ASSUME NEW f \in visible[n], f \notin Unknown(n) PROVE f[1] \in TablesIn(staging[n])
  <2>1. f[1] \in TablesIn(visible[n])
    BY DEF TablesIn
  <2> QED
    BY <1>4, <2>1 DEF Unknown, FilesOf
<1>5. \A f \in staging[n] : f[1] \in TablesIn(staging[n])
  BY DEF TablesIn
<1>6. staging[n] \subseteq shown \ torn[n]
  BY <1>1, <1>3, <1>5
<1>7. ASSUME replace[n] PROVE FilesOf(shown, TablesIn(staging[n])) = staging[n]
  <2>1. FilesOf(shown, TablesIn(staging[n])) \subseteq staging[n]
    BY <1>2, <1>3, <1>7 DEF FilesOf
  <2>2. staging[n] \subseteq FilesOf(shown, TablesIn(staging[n]))
    BY <1>5, <1>6 DEF FilesOf
  <2> QED
    BY <2>1, <2>2
<1>8. ASSUME replace[n], kept = {} PROVE shown = staging[n]
  BY <1>2, <1>4, <1>6, <1>8
<1> QED
  BY <1>6, <1>7, <1>8

THEOREM ExportHolds == Spec => []ExportInv
<1>1. Init => ExportInv
  BY DEF Init, ExportInv, ExportAt, WholeAt, PublishAt
<1>2. TypeOK /\ ExportInv /\ [Next]_vars => ExportInv'
  <2> SUFFICES ASSUME TypeOK, ExportInv, [Next]_vars, NEW m \in Names PROVE ExportAt(m)'
    BY DEF ExportInv
  <2>0. ExportAt(m)
    BY DEF ExportInv
  <2> USE DEF TypeOK
  <2>1. ASSUME NEW n \in Names, Enter(n) PROVE ExportAt(m)'
    BY <2>0, <2>1, Untouched DEF Enter, Goes, export
  <2>2. ASSUME NEW n \in Names, SourceFails(n) \/ Quality(n) PROVE ExportAt(m)'
    BY <2>0, <2>2, Untouched DEF SourceFails, Quality, Ends, Goes, export
  <2>3. ASSUME NEW n \in Names, SetFormat(n) PROVE ExportAt(m)'
    BY <2>0, <2>3, Untouched DEF SetFormat, Goes, export
  <2>4. ASSUME NEW n \in Names, Clear(n) \/ Wipe(n) PROVE ExportAt(m)'
    BY <2>0, <2>4, Untouched DEF Clear, Wipe, ClearPending, Goes, export
  <2>5. ASSUME NEW n \in Names, Blocked(n) PROVE ExportAt(m)'
    BY <2>0, <2>5, Untouched DEF Blocked, RaisesPending, Ends, Goes, locals, export
  <2>6. ASSUME NEW n \in Names, Writes(n), UNCHANGED <<visible, torn>>, pc'[n] # "publish",
               \A o \in Names \ {n} :
                 /\ pc'[o] = pc[o] /\ disturbed'[o] = disturbed[o] /\ replace'[o] = replace[o]
                 /\ todo'[o] = todo[o] /\ published'[o] = published[o]
        PROVE  ExportAt(m)'
    <3>1. CASE m # n
      BY <2>0, <2>6, <3>1, Untouched DEF Writes
    <3>2. CASE m = n /\ Dest[n] # "filesystem"
      BY <2>0, <2>6, <3>2, Untouched DEF Writes
    <3>3. CASE m = n /\ Dest[n] = "filesystem"
      <4>1. whole'[n] = "no"
        BY <2>6, <3>3 DEF Writes
      <4> QED
        BY <2>6, <3>3, <4>1 DEF ExportAt, WholeAt, PublishAt
    <3> QED
      BY <3>1, <3>2, <3>3
  <2>7. ASSUME NEW n \in Names, LoadFails(n) PROVE ExportAt(m)'
    <3>1. Writes(n) /\ UNCHANGED <<visible, torn, todo, published>> /\ Attempting(n)
      BY <2>7 DEF LoadFails
    <3>2. Ends(n) \/ (Goes(n, "wipe") /\ UNCHANGED locals)
      <4>1. Ends(n) \/ RaisesPending(n)
        BY <2>7 DEF LoadFails
      <4> QED
        BY <4>1 DEF RaisesPending
    <3>3. /\ pc'[n] # "publish"
          /\ \A o \in Names \ {n} :
               pc'[o] = pc[o] /\ disturbed'[o] = disturbed[o] /\ replace'[o] = replace[o]
      <4>1. CASE Ends(n)
        BY <4>1 DEF Ends, Goes
      <4>2. CASE Goes(n, "wipe") /\ UNCHANGED locals
        BY <4>2 DEF Goes, locals
      <4> QED
        BY <3>2, <4>1, <4>2
    <3> QED
      BY <2>6, <3>1, <3>3
  <2>8. ASSUME NEW n \in Names, LoadSucceeds(n) PROVE ExportAt(m)'
    <3>1. Writes(n) /\ UNCHANGED <<visible, torn, replace, disturbed>>
      BY <2>8 DEF LoadSucceeds
    <3>2. CASE Dest[n] # "filesystem"
      <4>1. pc' = [pc EXCEPT ![n] = "quality"] /\ UNCHANGED <<todo, published>>
        BY <2>8, <3>2 DEF LoadSucceeds, Goes
      <4> QED
        BY <2>6, <3>1, <4>1
    <3>3. CASE Dest[n] = "filesystem" /\ m # n
      <4>1. pc' = [pc EXCEPT ![n] = "publish"] /\ PublishBegin(n)
        BY <2>8, <3>3 DEF LoadSucceeds, Goes
      <4> QED
        BY <2>0, <3>1, <3>3, <4>1, Untouched DEF Writes, PublishBegin
    <3>4. CASE Dest[n] = "filesystem" /\ m = n
      <4>1. todo'[n] = TablesIn(staging'[n]) /\ published'[n] = {} /\ whole'[n] = "no"
        BY <2>8, <3>1, <3>4 DEF LoadSucceeds, PublishBegin, Writes
      <4>2. TablesIn(staging[n])' = TablesIn(staging'[n])
        BY DEF TablesIn
      <4> QED
        BY <3>4, <4>1, <4>2 DEF ExportAt, WholeAt, PublishAt
    <3> QED
      BY <3>2, <3>3, <3>4
  <2>9. ASSUME NEW n \in Names, Publish(n) PROVE ExportAt(m)'
    <3>1. PICK t \in todo[n] : PublishTable(n, t, replace[n])
      BY <2>9 DEF Publish
    <3>2. pc[n] = "publish" /\ UNCHANGED <<pc, replace, disturbed, whole, staging>>
      BY <2>9, <3>1 DEF Publish, PublishTable, locals
    <3>3. CASE m # n
      BY <2>0, <3>1, <3>2, <3>3, Untouched DEF PublishTable
    <3>4. CASE m = n
      <4>1. whole[n] = "no"
        BY <2>0, <3>2, <3>4 DEF ExportAt, PublishAt
      <4>2. SUFFICES ASSUME ~disturbed[n]
                     PROVE  /\ TablesIn(staging[n]) \subseteq todo'[n] \cup published'[n]
                            /\ published'[n] \subseteq TablesIn(staging[n])
                            /\ \A u \in published'[n] : Agrees(n, u)'
        BY <3>2, <3>4, <4>1 DEF ExportAt, WholeAt, PublishAt, TablesIn
      <4>3. /\ TablesIn(staging[n]) \subseteq todo[n] \cup published[n]
            /\ published[n] \subseteq TablesIn(staging[n])
            /\ \A u \in published[n] : Agrees(n, u)
        BY <2>0, <3>2, <3>4, <4>2 DEF ExportAt, PublishAt
      <4>4. /\ visible'[n] = Copied(n, t, replace[n])
            /\ torn'[n] = StillTorn(n, t, replace[n])
            /\ todo'[n] = todo[n] \ {t}
            /\ published'[n] = published[n] \cup (TablesIn(staging[n]) \cap {t})
        BY <3>1 DEF PublishTable
      <4>5. ASSUME NEW u \in published'[n] PROVE Agrees(n, u)'
        <5>1. CASE t \in TablesIn(staging[n])
          <6>1. /\ FilesOf(staging[n], {t}) \subseteq visible'[n] \ torn'[n]
                /\ replace[n] => FilesOf(visible'[n], {t}) = FilesOf(staging[n], {t})
                /\ \A v : v # t => FilesOf(visible'[n], {v}) = FilesOf(visible[n], {v})
                /\ torn'[n] \subseteq torn[n]
            <7>1. /\ FilesOf(staging[n], {t}) \subseteq visible'[n] \ StillTorn(n, t, replace[n])
                  /\ replace[n] => FilesOf(visible'[n], {t}) = FilesOf(staging[n], {t})
                  /\ \A v : v # t => FilesOf(visible'[n], {v}) = FilesOf(visible[n], {v})
                  /\ StillTorn(n, t, replace[n]) \subseteq torn[n]
              BY <4>4, <5>1, CopiedAgrees
            <7> QED
              BY <4>4, <7>1
          <6>2. /\ FilesOf(staging[n], {u}) \subseteq visible'[n] \ torn'[n]
                /\ replace[n] => FilesOf(visible'[n], {u}) = FilesOf(staging[n], {u})
            <7>1. CASE u = t
              BY <6>1, <7>1
            <7>2. CASE u # t
              <8>1. Agrees(n, u)
                BY <4>3, <4>4, <4>5, <7>2
              <8>2. FilesOf(visible'[n], {u}) = FilesOf(visible[n], {u})
                BY <6>1, <7>2
              <8>3. FilesOf(staging[n], {u}) \subseteq FilesOf(visible[n], {u}) \ torn[n]
                BY <8>1 DEF Agrees, FilesOf
              <8>4. FilesOf(visible'[n], {u}) \subseteq visible'[n]
                BY FilesOfIsSubset
              <8> QED
                BY <6>1, <8>1, <8>2, <8>3, <8>4 DEF Agrees
            <7> QED
              BY <7>1, <7>2
          <6> QED
            BY <3>2, <6>2 DEF Agrees, FilesOf
        <5>2. CASE t \notin TablesIn(staging[n])
          <6>1. visible'[n] = visible[n] /\ torn'[n] \subseteq torn[n] /\ u \in published[n]
            BY <4>4, <4>5, <5>2 DEF Copied, StillTorn
          <6> QED
            BY <3>2, <4>3, <6>1 DEF Agrees, FilesOf
        <5> QED
          BY <5>1, <5>2
      <4> QED
        BY <4>3, <4>4, <4>5
    <3> QED
      BY <3>3, <3>4
  <2>10. ASSUME NEW n \in Names, PublishEnds(n) PROVE ExportAt(m)'
    <3>1. PICK kept \in SUBSET Unknown(n) :
            /\ PublishSweep(n, replace[n], kept)
            /\ whole' = [whole EXCEPT ![n] = Achieved(n, kept)]
      BY <2>10 DEF PublishEnds
    <3>2. /\ pc[n] = "publish" /\ pc' = [pc EXCEPT ![n] = "quality"]
          /\ UNCHANGED <<replace, disturbed, staging>> /\ todo[n] = {}
          /\ visible' = [visible EXCEPT ![n] = IF replace[n] THEN (visible[n] \ Unknown(n)) \cup kept
                                               ELSE visible[n]]
          /\ torn' = [torn EXCEPT ![n] = torn[n] \cap visible'[n]]
          /\ \A o \in Names \ {n} : todo'[o] = todo[o] /\ published'[o] = published[o]
      BY <2>10, <3>1 DEF PublishEnds, PublishSweep, PublishStops, Goes, locals
    <3>3. CASE m # n
      BY <2>0, <3>1, <3>2, <3>3, Untouched
    <3>4. CASE m = n /\ disturbed[n]
      BY <3>1, <3>2, <3>4 DEF Achieved, ExportAt, WholeAt, PublishAt
    <3>5. CASE m = n /\ ~disturbed[n]
      <4>1. TablesIn(staging[n]) = published[n] /\ \A t \in published[n] : Agrees(n, t)
        BY <2>0, <3>2, <3>5 DEF ExportAt, PublishAt
      <4>2. /\ visible'[n] = IF replace[n] THEN (visible[n] \ Unknown(n)) \cup kept ELSE visible[n]
            /\ torn'[n] = torn[n] \cap visible'[n]
        BY <3>2
      <4>3. /\ staging[n] \subseteq visible'[n] \ torn[n]
            /\ replace[n] => FilesOf(visible'[n], TablesIn(staging[n])) = staging[n]
            /\ replace[n] /\ kept = {} => visible'[n] = staging[n]
        BY <4>1, <4>2, SweptIsWhole
      <4>4. whole'[n] = Achieved(n, kept)
        BY <3>1
      <4>5. WholeAt(n)'
        BY <3>2, <3>5, <4>2, <4>3, <4>4 DEF WholeAt, Achieved, FilesOf, TablesIn
      <4> QED
        BY <3>2, <3>5, <4>5 DEF ExportAt, PublishAt
    <3> QED
      BY <3>3, <3>4, <3>5
  <2>11. ASSUME NEW n \in Names, PublishFails(n) PROVE ExportAt(m)'
    <3>1. /\ pc[n] = "publish" /\ pc' = [pc EXCEPT ![n] = "quality"]
          /\ UNCHANGED <<replace, disturbed, staging, whole>>
          /\ \A o \in Names \ {n} :
               /\ visible'[o] = visible[o] /\ torn'[o] = torn[o]
               /\ todo'[o] = todo[o] /\ published'[o] = published[o]
      BY <2>11 DEF PublishFails, PublishCut, RemovalCut, CopyCut, PublishStops, Goes, locals
    <3>2. CASE m # n
      BY <2>0, <3>1, <3>2, Untouched
    <3>3. CASE m = n
      BY <2>0, <3>1, <3>3 DEF ExportAt, WholeAt, PublishAt
    <3> QED
      BY <3>2, <3>3
  <2>12. ASSUME NEW h \in Handlers, RecoveryStarts(h) PROVE ExportAt(m)'
    BY <2>0, <2>12, Untouched DEF RecoveryStarts, export, locals
  <2>13. ASSUME NEW h \in Handlers, RecoveryActs(h) PROVE ExportAt(m)'
    <3>1. /\ UNCHANGED <<visible, torn, todo, published, pc, replace>>
          /\ disturbed' = [disturbed EXCEPT ![recovery[h]] = pc[recovery[h]] # "idle"]
          /\ recovery[h] \in Names
      BY <2>13 DEF RecoveryActs
    <3>2. \/ UNCHANGED <<staging, whole>>
          \/ /\ \A o \in Names \ {recovery[h]} : staging'[o] = staging[o]
             /\ whole' = [whole EXCEPT ![recovery[h]] = "no"]
      BY <2>13, <3>1 DEF RecoveryActs, DropPending, DropResource, Sync
    <3>3. CASE m # recovery[h]
      BY <2>0, <3>1, <3>2, <3>3, Untouched
    <3>4. CASE m = recovery[h] /\ pc[m] = "publish"
      BY <2>0, <3>1, <3>2, <3>4 DEF ExportAt, WholeAt, PublishAt
    <3>5. CASE m = recovery[h] /\ pc[m] # "publish"
      <4>1. CASE UNCHANGED <<staging, whole>>
        BY <2>0, <3>1, <3>5, <4>1, Untouched
      <4>2. CASE whole'[m] = "no"
        BY <3>1, <3>5, <4>2 DEF ExportAt, WholeAt, PublishAt
      <4> QED
        BY <3>1, <3>2, <3>5, <4>1, <4>2
    <3> QED
      BY <3>3, <3>4, <3>5
  <2>14. CASE Restart
    BY <2>0, <2>14, Untouched DEF Restart
  <2>15. CASE UNCHANGED vars
    BY <2>0, <2>15, Untouched DEF vars, export, locals
  <2> QED
    BY <2>1, <2>2, <2>3, <2>4, <2>5, <2>7, <2>8, <2>9, <2>10, <2>11, <2>12, <2>13, <2>14, <2>15
    DEF Next, Progress
<1> QED
  BY <1>1, <1>2, TypeCorrect, PTL DEF Spec

(* Publishing that ends makes the folder of the user whole again, for any  *)
(* tables and any number of failed publishings and crashes before.         *)
THEOREM ExportsAreWhole == Spec => []ExportIsWhole
<1>1. ExportInv => ExportIsWhole
  BY DEF ExportInv, ExportAt, WholeAt, ExportIsWhole
<1> QED
  BY <1>1, ExportHolds, PTL

(* The folder of the user is never touched but by publishing, loses a file *)
(* only in replace mode, and otherwise has at most one whole file cut      *)
(* short, by a publishing that is cut off and can copy the file again.     *)
THEOREM ExportsStay == Spec => ExportsAreKept
<1> DEFINE KeptAt(n) ==
             /\ visible'[n] # visible[n] \/ torn'[n] # torn[n] => pc[n] = "publish"
             /\ \/ replace[n]
                \/ /\ visible[n] \subseteq visible'[n]
                   /\ Spoilt(n) # {} => pc'[n] # "publish"
                   /\ Spoilt(n) \subseteq staging'[n]
                   /\ \A f, g \in Spoilt(n) : f = g
           Kept == \A n \in Names : KeptAt(n)
<1>1. TypeOK /\ [Next]_vars => [Kept]_vars
  <2> SUFFICES ASSUME TypeOK, Next, NEW m \in Names PROVE KeptAt(m)
    OBVIOUS
  <2> USE DEF TypeOK
  <2>1. ASSUME visible'[m] = visible[m], torn'[m] = torn[m] PROVE KeptAt(m)
    BY <2>1 DEF Spoilt
  <2>2. ASSUME NEW n \in Names, Publish(n) PROVE KeptAt(m)
    <3>1. PICK t \in todo[n] : PublishTable(n, t, replace[n])
      BY <2>2 DEF Publish
    <3>2. CASE m # n
      BY <2>1, <3>1, <3>2 DEF PublishTable
    <3>3. CASE m = n
      <4>1. /\ visible'[m] = Copied(m, t, replace[m]) /\ torn'[m] = StillTorn(m, t, replace[m])
            /\ pc[m] = "publish"
        BY <2>2, <3>1, <3>3 DEF Publish, PublishTable
      <4>2. ~replace[m] => visible[m] \subseteq visible'[m]
        BY <4>1 DEF Copied
      <4>3. Spoilt(m) = {}
        BY <4>1 DEF Spoilt, StillTorn
      <4> QED
        BY <4>1, <4>2, <4>3
    <3> QED
      BY <3>2, <3>3
  <2>3. ASSUME NEW n \in Names, PublishEnds(n) PROVE KeptAt(m)
    <3>1. PICK kept : PublishSweep(n, replace[n], kept)
      BY <2>3 DEF PublishEnds
    <3>2. /\ visible' = [visible EXCEPT ![n] = IF replace[n] THEN (visible[n] \ Unknown(n)) \cup kept
                                               ELSE visible[n]]
          /\ torn' = [torn EXCEPT ![n] = torn[n] \cap visible'[n]]
          /\ pc[n] = "publish"
      BY <2>3, <3>1 DEF PublishEnds, PublishSweep
    <3>3. CASE m # n
      BY <2>1, <3>2, <3>3
    <3>4. CASE m = n
      <4>1. Spoilt(m) = {}
        BY <3>2, <3>4 DEF Spoilt
      <4> QED
        BY <3>2, <3>4, <4>1
    <3> QED
      BY <3>3, <3>4
  <2>4. ASSUME NEW n \in Names, PublishFails(n) PROVE KeptAt(m)
    <3>1. /\ pc[n] = "publish" /\ pc'[n] = "quality" /\ staging' = staging
          /\ UNCHANGED <<visible, torn>> \/ \E t \in todo[n] : PublishCut(n, t, replace[n])
      BY <2>4 DEF PublishFails, Goes
    <3>2. CASE UNCHANGED <<visible, torn>>
      BY <2>1, <3>2
    <3>3. ASSUME NEW t \in todo[n], PublishCut(n, t, replace[n]), m # n PROVE KeptAt(m)
      <4>1. visible'[m] = visible[m] /\ torn'[m] = torn[m]
        BY <3>3 DEF PublishCut, RemovalCut, CopyCut
      <4> QED
        BY <2>1, <4>1
    <3>4. ASSUME NEW t \in todo[n], PublishCut(n, t, replace[n]), m = n, ~replace[n] PROVE KeptAt(m)
      <4>1. CopyCut(n, t, visible[n])
        BY <3>4 DEF PublishCut
      <4>2. PICK done \in SUBSET FilesOf(staging[n], {t}), cut \in SUBSET FilesOf(staging[n], {t}) :
              /\ FilesOf(visible[n], {t}) = {} \/ \A f, g \in cut : f = g
              /\ visible' = [visible EXCEPT ![n] = visible[n] \cup done \cup cut]
              /\ torn' = [torn EXCEPT ![n] = ((torn[n] \cap visible[n]) \ done) \cup cut]
        BY <4>1 DEF CopyCut
      <4>3. Spoilt(n) \subseteq cut \cap visible[n]
        BY <4>2 DEF Spoilt
      <4>4. Spoilt(n) \subseteq FilesOf(visible[n], {t})
        BY <4>2, <4>3 DEF FilesOf
      <4>5. Spoilt(n) \subseteq staging'[n]
        BY <3>1, <4>2, <4>3 DEF FilesOf
      <4>6. \A f, g \in Spoilt(n) : f = g
        BY <4>2, <4>3, <4>4
      <4>7. visible[n] \subseteq visible'[n]
        BY <4>2
      <4> QED
        BY <3>1, <3>4, <4>5, <4>6, <4>7
    <3>5. CASE m = n /\ replace[n]
      BY <3>1, <3>5
    <3> QED
      BY <3>1, <3>2, <3>3, <3>4, <3>5
  <2>5. ASSUME NEW n \in Names,
               \/ Enter(n) \/ SourceFails(n) \/ SetFormat(n) \/ Clear(n) \/ Blocked(n)
               \/ LoadFails(n) \/ LoadSucceeds(n) \/ Wipe(n) \/ Quality(n)
        PROVE  KeptAt(m)
    BY <2>1, <2>5 DEF Enter, SourceFails, SetFormat, Clear, Blocked, LoadFails, LoadSucceeds,
                      Wipe, Quality, ClearPending, export
  <2>6. ASSUME NEW h \in Handlers, RecoveryStarts(h) \/ RecoveryActs(h) PROVE KeptAt(m)
    BY <2>1, <2>6 DEF RecoveryStarts, RecoveryActs, export
  <2>7. CASE Restart
    BY <2>1, <2>7 DEF Restart
  <2> QED
    BY <2>2, <2>3, <2>4, <2>5, <2>6, <2>7 DEF Next, Progress
<1> QED
  BY <1>1, TypeCorrect, PTL DEF Spec, ExportsAreKept

(* A load is never sent back to an earlier step, whatever fails.           *)
THEOREM LoadsGoOn == Spec => LoadsMoveOn
<1> DEFINE On ==
      \A n \in Names : pc[n] # "idle" =>
        \/ Left(pc'[n]) < Left(pc[n])
        \/ pc'[n] = pc[n] /\ todo'[n] \subseteq todo[n]
<1>0. /\ Left("source") = 7 /\ Left("clear") = 6 /\ Left("run") = 5 /\ Left("wipe") = 4
      /\ Left("rerun") = 3 /\ Left("publish") = 2 /\ Left("quality") = 1 /\ Left("idle") = 0
  BY DEF Left
<1>1. TypeOK /\ [Next]_vars => [On]_vars
  <2> SUFFICES ASSUME TypeOK, Next PROVE On
    OBVIOUS
  <2> USE DEF TypeOK, Goes
  <2>1. ASSUME NEW n \in Names, NEW to \in Steps, pc' = [pc EXCEPT ![n] = to],
               pc[n] = "idle" \/ Left(to) < Left(pc[n]),
               \A m \in Names \ {n} : todo'[m] = todo[m]
        PROVE  On
    BY <2>1
  <2>2. ASSUME pc' = pc, \A m \in Names : todo'[m] \subseteq todo[m] PROVE On
    BY <2>2
  <2>3. ASSUME NEW n \in Names, Enter(n) PROVE On
    BY <2>1, <2>3 DEF Enter, export, Steps
  <2>4. ASSUME NEW n \in Names, SourceFails(n) \/ Quality(n) PROVE On
    BY <1>0, <2>1, <2>4 DEF SourceFails, Quality, Ends, export, Steps
  <2>5. ASSUME NEW n \in Names, SetFormat(n) PROVE On
    BY <1>0, <2>1, <2>5 DEF SetFormat, export, Steps
  <2>6. ASSUME NEW n \in Names, Clear(n) \/ Wipe(n) PROVE On
    BY <1>0, <2>1, <2>6 DEF Clear, Wipe, ClearPending, export, Steps
  <2>7. ASSUME NEW n \in Names, Attempting(n), UNCHANGED todo, Ends(n) \/ RaisesPending(n) PROVE On
    BY <1>0, <2>1, <2>7 DEF Attempting, RaisesPending, Ends, Steps
  <2>8. ASSUME NEW n \in Names, Blocked(n) \/ LoadFails(n) PROVE On
    BY <2>7, <2>8 DEF Blocked, LoadFails, export
  <2>9. ASSUME NEW n \in Names, LoadSucceeds(n) PROVE On
    BY <1>0, <2>1, <2>9 DEF LoadSucceeds, Attempting, PublishBegin, Steps
  <2>10. ASSUME NEW n \in Names, Publish(n) PROVE On
    BY <2>2, <2>10 DEF Publish, PublishTable
  <2>11. ASSUME NEW n \in Names, PublishEnds(n) \/ PublishFails(n) PROVE On
    BY <1>0, <2>1, <2>11 DEF PublishEnds, PublishFails, PublishSweep, PublishStops, Steps
  <2>12. ASSUME NEW h \in Handlers, RecoveryStarts(h) \/ RecoveryActs(h) PROVE On
    BY <2>2, <2>12 DEF RecoveryStarts, RecoveryActs, export
  <2>13. CASE Restart
    BY <1>0, <2>13 DEF Restart
  <2> QED
    BY <2>3, <2>4, <2>5, <2>6, <2>8, <2>9, <2>10, <2>11, <2>12, <2>13 DEF Next, Progress
<1> QED
  BY <1>1, TypeCorrect, PTL DEF Spec, LoadsMoveOn
=============================================================================
