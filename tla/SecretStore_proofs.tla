------------------------ MODULE SecretStore_proofs -------------------------
(***************************************************************************)
(* Proofs about SecretStore, for any processes, requests and bounds.       *)
(***************************************************************************)
EXTENDS SecretStore, TLAPS

Steps == {"idle", "exists", "read", "create", "write"} \cup Statements

LEMMA RequestTypes ==
  ASSUME NEW r \in Requests
  PROVE  /\ r.kind \in Kinds
         /\ r.kind \in {"edit", "use", "delete"} => r.name \in Names
         /\ r.kind = "forget" => r.name \in Dests
         /\ r.connector \in DOMAIN Field
         /\ r.secret \in Typed /\ r.connection \in Typed
         /\ r.padded \in BOOLEAN /\ r.needs \in BOOLEAN
         /\ r.dest \in Dests \cup {None}
BY StoreAssumption

LEMMA FileOfType == ASSUME TypeOK, NEW p \in Procs PROVE FileOf(p) \in Files
BY DEF FileOf, Files

LEMMA SealedType ==
  ASSUME TypeOK, NEW p \in Procs, NEW value \in Typed PROVE Sealed(p, value) \in Token
BY DEF TypeOK, Sealed, Token

LEMMA OpenTypes ==
  ASSUME TypeOK, NEW p \in Procs, Open(p) PROVE TypeOK'
<1>1. FileOf(p) \in Files
  BY FileOfType
<1>2. CASE Exists(p)
  <2>1. UNCHANGED <<file, keys, tables, serving, todo, req, own, ops, fresh, lost>>
    BY <1>2 DEF Exists
  <2>2. pc' \in [Procs -> Steps] /\ raced' \in [Files -> BOOLEAN]
    BY <1>1, <1>2 DEF Exists, Creates, TypeOK, Steps
  <2> QED
    BY <2>1, <2>2 DEF TypeOK, tables, own, Steps
<1>3. CASE Read(p)
  <2>1. UNCHANGED <<file, keys, tables, serving, todo, req, secret, connection, silent,
                    ops, fresh, lost>>
    BY <1>3 DEF Read, Done
  <2>2. pc' \in [Procs -> Steps] /\ raced' \in [Files -> BOOLEAN] /\ key' \in [Procs -> Nat]
    BY <1>1, <1>3 DEF Read, Done, Creates, TypeOK, Steps
  <2> QED
    BY <2>1, <2>2 DEF TypeOK, tables, Steps
<1>4. CASE Create(p)
  <2>1. UNCHANGED <<raced, tables, serving, todo, req, secret, connection, silent, ops,
                    fresh, lost>>
    BY <1>4 DEF Create
  <2>2. pc' \in [Procs -> Steps] /\ file' \in [Files -> Nat \cup {Absent, Empty}]
    BY <1>4 DEF Create, TypeOK, Steps
  <2>3. keys' \in Nat /\ key' \in [Procs -> Nat]
    BY <1>4 DEF Create, TypeOK
  <2> QED
    BY <2>1, <2>2, <2>3 DEF TypeOK, tables, Steps
<1>5. CASE Write(p)
  <2>1. UNCHANGED <<keys, raced, tables, serving, todo, req, own, ops, fresh, lost>>
    BY <1>5 DEF Write
  <2>2. pc' \in [Procs -> Steps] /\ file' \in [Files -> Nat \cup {Absent, Empty}]
    BY <1>5 DEF Write, TypeOK, Steps
  <2> QED
    BY <2>1, <2>2 DEF TypeOK, tables, own, Steps
<1> QED
  BY <1>2, <1>3, <1>4, <1>5 DEF Open

LEMMA DoneTypes ==
  ASSUME TypeOK, NEW p \in Procs, Done(p) PROVE pc' \in [Procs -> Steps] /\ todo' = todo
BY DEF TypeOK, Done, Steps

LEMMA OpensTypes ==
  ASSUME TypeOK, NEW p \in Procs, NEW s \in Statements, Opens(p, s)
  PROVE  pc' \in [Procs -> Steps] /\ todo' \in [Procs -> Statements]
BY DEF TypeOK, Opens, Steps

(* What an operation is doing belongs to its request.                      *)
Control(p) ==
  pc[p] # "idle" =>
    /\ todo[p] \in {"load", "dest", "save"} => req[p].kind = "edit"
    /\ todo[p] \in {"use", "delete", "keep", "forget", "set", "serve"} => req[p].kind = todo[p]
    /\ todo[p] = "dest" => req[p].dest # None
    /\ todo[p] # "notify"
    /\ pc[p] \in Statements => pc[p] = todo[p] \/ (pc[p] = "notify" /\ todo[p] = "use")

Controlled == \A p \in Procs : Control(p)

LEMMA NamedTypes ==
  ASSUME TypeOK, Controlled, NEW p \in Procs
  PROVE  /\ pc[p] \in {"load", "save", "use", "delete"} => req[p].name \in Names
         /\ pc[p] \in {"load", "use"} => Row(p) \in Pipeline \cup {None}
         /\ pc[p] = "forget" => req[p].name \in Dests
         /\ pc[p] = "dest" => req[p].dest \in Dests
         /\ req[p].connector \in DOMAIN Field
         /\ req[p].secret \in Typed /\ req[p].connection \in Typed
         /\ req[p].padded \in BOOLEAN /\ req[p].needs \in BOOLEAN
<1>1. req[p] \in Requests
  BY DEF TypeOK
<1>2. pc[p] \in {"load", "save", "use", "delete"} => req[p].name \in Names
  BY <1>1, RequestTypes DEF Controlled, Control, Statements
<1>3. pc[p] \in {"load", "use"} => Row(p) \in Pipeline \cup {None}
  BY <1>2 DEF Row, TypeOK
<1> QED
  BY <1>1, <1>2, <1>3, RequestTypes DEF Controlled, Control, Statements

LEMMA MergedType ==
  ASSUME TypeOK, Controlled, NEW p \in Procs, pc[p] = "load" PROVE Merged(p) \in Typed
BY NamedTypes DEF Merged, Pipeline, Token

LEMMA ChangesTypes ==
  ASSUME TypeOK, NEW p \in Procs, NEW row \in Pipeline \cup {None}, Changes(p, row)
  PROVE  /\ pipelines' \in [Names -> Pipeline \cup {None}]
         /\ fresh' \in [Procs -> BOOLEAN]
         /\ UNCHANGED <<saved, setting>>
<1>1. pipelines' \in [Names -> Pipeline \cup {None}]
  BY DEF Changes, TypeOK
<1>2. fresh' = [q \in Procs |-> fresh[q] /\ req[q].name # req[p].name]
  BY DEF Changes
<1>3. \A q \in Procs : (fresh[q] /\ req[q].name # req[p].name) \in BOOLEAN
  BY Zenon
<1>4. fresh' \in [Procs -> BOOLEAN]
  BY <1>2, <1>3, Zenon
<1> QED
  BY <1>1, <1>4 DEF Changes

LEMMA StatementTypes ==
  ASSUME TypeOK, Controlled, NEW p \in Procs, Statement(p) PROVE TypeOK'
<1>1. CASE Load(p)
  <2>1. UNCHANGED <<disk, tables, serving, req, key, silent, ops, lost, connection>>
    BY <1>1 DEF Load
  <2>2. secret' \in [Procs -> Typed] /\ fresh' \in [Procs -> BOOLEAN]
    BY <1>1, MergedType DEF Load, TypeOK
  <2>3. Opens(p, "dest") \/ Opens(p, "save")
    BY <1>1 DEF Load, ToSave
  <2>4. pc' \in [Procs -> Steps] /\ todo' \in [Procs -> Statements]
    BY <2>3, OpensTypes DEF Statements
  <2> QED
    BY <2>1, <2>2, <2>4 DEF TypeOK, disk, tables, Steps
<1>2. CASE Dest(p)
  <2> DEFINE d == saved[req[p].dest]
             readable == d.connection = None \/ Readable(p, d.connection)
  <2>1. UNCHANGED <<disk, tables, serving, req, key, secret, ops, fresh, lost>>
    BY <1>2 DEF Dest
  <2>2. d \in Destination
    BY <1>2, NamedTypes DEF Dest, TypeOK
  <2>3. /\ Blank \in Typed
        /\ d.connection # None /\ readable => d.connection.value \in Typed
    BY <2>2 DEF Destination, Token, Typed
  <2>4. connection' \in [Procs -> Typed]
    BY <1>2, <2>3 DEF Dest, TypeOK
  <2>5. silent' \in [Procs -> BOOLEAN]
    BY <1>2 DEF Dest, TypeOK
  <2>6. pc' \in [Procs -> Steps] /\ todo' \in [Procs -> Statements]
    BY <1>2, OpensTypes DEF Dest, Statements
  <2> QED
    BY <2>1, <2>4, <2>5, <2>6 DEF TypeOK, disk, tables, Steps
<1>3. CASE Save(p)
  <2> DEFINE row == [field      |-> Field[req[p].connector],
                     secret     |-> Sealed(p, secret[p]),
                     connection |-> IF connection[p] = Blank THEN None
                                    ELSE Sealed(p, connection[p])]
  <2>1. UNCHANGED <<disk, serving, req, own, ops, lost>> /\ Done(p) /\ Changes(p, row)
    BY <1>3 DEF Save
  <2>2. Sealed(p, secret[p]) \in Token /\ Sealed(p, connection[p]) \in Token
    BY SealedType DEF TypeOK
  <2>3. row \in Pipeline
    BY <2>2, NamedTypes DEF Pipeline
  <2> HIDE DEF row
  <2>4. /\ pipelines' \in [Names -> Pipeline \cup {None}]
        /\ fresh' \in [Procs -> BOOLEAN]
        /\ UNCHANGED <<saved, setting>>
    BY <2>1, <2>3, ChangesTypes
  <2> QED
    BY <2>1, <2>4, DoneTypes DEF TypeOK, disk, own, Steps
<1>4. CASE Delete(p)
  <2>1. UNCHANGED <<disk, serving, req, own, ops, lost>> /\ Done(p)
    BY <1>4 DEF Delete
  <2>2. /\ pipelines' \in [Names -> Pipeline \cup {None}]
        /\ fresh' \in [Procs -> BOOLEAN]
        /\ UNCHANGED <<saved, setting>>
    <3>1. CASE req[p].padded
      BY <1>4, <3>1 DEF Delete, tables, TypeOK
    <3>2. CASE ~req[p].padded
      BY <1>4, <3>2, ChangesTypes DEF Delete
    <3> QED
      BY <3>1, <3>2
  <2> QED
    BY <2>1, <2>2, DoneTypes DEF TypeOK, disk, own, Steps
<1>5. CASE Use(p)
  <2>1. UNCHANGED <<disk, tables, serving, todo, req, key, connection, silent, ops,
                    fresh, lost>>
    BY <1>5 DEF Use
  <2>2. Row(p).secret.value \in Typed
    BY <1>5, NamedTypes DEF Use, Pipeline, Token
  <2>3. secret' \in [Procs -> Typed]
    BY <1>5, <2>2 DEF Use, TypeOK
  <2>4. pc' \in [Procs -> Steps]
    BY <1>5 DEF Use, TypeOK, Steps, Statements
  <2> QED
    BY <2>1, <2>3, <2>4 DEF TypeOK, disk, tables, Steps
<1>6. CASE Notify(p)
  <2>1. UNCHANGED <<disk, tables, serving, req, key, secret, connection, ops, fresh,
                    lost>> /\ Done(p)
    BY <1>6 DEF Notify
  <2>2. silent' \in [Procs -> BOOLEAN]
    BY <1>6 DEF Notify, TypeOK
  <2> QED
    BY <2>1, <2>2, DoneTypes DEF TypeOK, disk, tables, Steps
<1>7. CASE Keep(p)
  <2>1. UNCHANGED <<disk, pipelines, setting, serving, req, own, ops, fresh,
                    lost>> /\ Done(p)
    BY <1>7 DEF Keep
  <2>2. saved' \in [Dests -> Destination \cup {None}]
    <3>1. Sealed(p, req[p].connection) \in Token /\ req[p].needs \in BOOLEAN
      BY NamedTypes, SealedType
    <3>2. [needs |-> req[p].needs,
           connection |-> IF req[p].connection = Blank THEN None
                          ELSE Sealed(p, req[p].connection)] \in Destination
      BY <3>1 DEF Destination
    <3> QED
      BY <1>7, <3>2 DEF Keep, TypeOK
  <2> QED
    BY <2>1, <2>2, DoneTypes DEF TypeOK, disk, own, Steps
<1>8. CASE Drop(p)
  <2>1. UNCHANGED <<disk, pipelines, setting, serving, req, own, ops, fresh,
                    lost>> /\ Done(p)
    BY <1>8 DEF Drop
  <2>2. saved' \in [Dests -> Destination \cup {None}]
    BY <1>8 DEF Drop, TypeOK
  <2> QED
    BY <2>1, <2>2, DoneTypes DEF TypeOK, disk, own, Steps
<1>9. CASE Set(p)
  <2>1. UNCHANGED <<disk, pipelines, saved, serving, req, own, ops, fresh,
                    lost>> /\ Done(p)
    BY <1>9 DEF Set
  <2>2. setting' \in Token
    BY <1>9, NamedTypes, SealedType DEF Set
  <2> QED
    BY <2>1, <2>2, DoneTypes DEF TypeOK, disk, own, Steps
<1>10. CASE Serve(p)
  <2>1. UNCHANGED <<disk, tables, req, own, ops, fresh, lost>> /\ Done(p)
    BY <1>10 DEF Serve
  <2>2. serving' \in [Procs -> Nat \cup {None}]
    BY <1>10 DEF Serve, TypeOK
  <2> QED
    BY <2>1, <2>2, DoneTypes DEF TypeOK, disk, tables, own, Steps
<1> QED
  BY <1>1, <1>2, <1>3, <1>4, <1>5, <1>6, <1>7, <1>8, <1>9, <1>10 DEF Statement

LEMMA BeginTypes ==
  ASSUME TypeOK, NEW p \in Procs, NEW r \in Requests, Begin(p, r) PROVE TypeOK'
<1>1. UNCHANGED <<disk, tables, serving, key, lost>> /\ ops' = ops + 1
  BY DEF Begin
<1>2. req' \in [Procs -> Requests]
  BY DEF Begin, TypeOK
<1>3. secret' \in [Procs -> Typed] /\ connection' \in [Procs -> Typed]
  BY RequestTypes DEF Begin, TypeOK
<1>4. silent' \in [Procs -> BOOLEAN] /\ fresh' \in [Procs -> BOOLEAN]
  BY DEF Begin, TypeOK
<1>5. (IF r.kind = "edit" THEN "load" ELSE r.kind) \in Statements
  BY RequestTypes DEF Kinds, Statements
<1>6. pc' \in [Procs -> Steps] /\ todo' \in [Procs -> Statements]
  BY <1>5, OpensTypes DEF Begin
<1> QED
  BY <1>1, <1>2, <1>3, <1>4, <1>6 DEF TypeOK, disk, tables, Steps

LEMMA FailTypes ==
  ASSUME TypeOK, NEW p \in Procs, Fail(p) \/ Stop(p) PROVE TypeOK'
<1>1. CASE Fail(p)
  <2>1. UNCHANGED <<disk, tables, serving, req, own, ops, fresh, lost>> /\ Done(p)
    BY <1>1 DEF Fail
  <2> QED
    BY <2>1, DoneTypes DEF TypeOK, disk, tables, own, Steps
<1>2. CASE Stop(p)
  BY <1>2 DEF Stop, TypeOK, disk, tables, own
<1> QED
  BY <1>1, <1>2

LEMMA LoseTypes ==
  ASSUME TypeOK, NEW f \in Files, Lose(f) PROVE TypeOK'
<1>1. UNCHANGED <<keys, raced, tables, serving, pc, todo, req, own, ops, fresh>>
  BY DEF Lose
<1>2. file' \in [Files -> Nat \cup {Absent, Empty}] /\ lost' \in [Files -> BOOLEAN]
  BY DEF Lose, TypeOK
<1> QED
  BY <1>1, <1>2 DEF TypeOK, tables, own

(* Another operation's step leaves what an operation is doing alone.       *)
LEMMA ControlStays ==
  ASSUME NEW q, Control(q), pc'[q] = pc[q] \/ pc'[q] \notin Statements,
         pc[q] = "idle" => pc'[q] = "idle", todo'[q] = todo[q], req'[q] = req[q]
  PROVE  Control(q)'
BY DEF Control

LEMMA Controls ==
  ASSUME TypeOK, Controlled, Next PROVE Controlled'
<1>1. CASE \E p \in Procs, r \in Requests : Begin(p, r)
  <2>1. PICK p \in Procs, r \in Requests : Begin(p, r)
    BY <1>1
  <2>2. Control(p)'
    BY <2>1, RequestTypes DEF Begin, Opens, Control, TypeOK, Kinds, Statements
  <2>3. ASSUME NEW q \in Procs \ {p} PROVE Control(q)'
    BY <2>1, ControlStays DEF Begin, Opens, TypeOK, Controlled
  <2> QED
    BY <2>2, <2>3 DEF Controlled
<1>2. CASE \E p \in Procs : Open(p) \/ Fail(p)
  <2>1. PICK p \in Procs : Open(p) \/ Fail(p)
    BY <1>2
  <2>2. Control(p)
    BY DEF Controlled
  <2>3. UNCHANGED <<todo, req>>
    BY <2>1 DEF Open, Exists, Read, Create, Write, Fail, Done
  <2>4. pc[p] # "idle" /\ pc'[p] \in {"idle", "create", "read", "write", todo[p]}
    BY <2>1 DEF Open, Exists, Creates, Read, Create, Write, Fail, Done, TypeOK
  <2>5. \A q \in Procs \ {p} : pc'[q] = pc[q]
    BY <2>1 DEF Open, Exists, Creates, Read, Create, Write, Fail, Done, TypeOK
  <2>6. Control(p)'
    BY <2>2, <2>3, <2>4 DEF Control, Statements
  <2>7. ASSUME NEW q \in Procs \ {p} PROVE Control(q)'
    BY <2>3, <2>5, ControlStays DEF Controlled
  <2> QED
    BY <2>6, <2>7 DEF Controlled
<1>3. CASE \E p \in Procs : Statement(p)
  <2>1. PICK p \in Procs : Statement(p)
    BY <1>3
  <2>2. Control(p)
    BY DEF Controlled
  <2>3. req' = req
    BY <2>1 DEF Statement, Load, Dest, Save, Delete, Use, Notify, Keep, Drop, Set, Serve
  <2>4. \/ pc'[p] = "idle"
        \/ pc[p] = "use" /\ pc'[p] = "notify" /\ todo' = todo
        \/ /\ pc[p] \in {"load", "dest"} /\ pc'[p] = "exists"
           /\ todo'[p] = "save" \/ (todo'[p] = "dest" /\ req[p].dest # None)
    BY <2>1 DEF Statement, Load, Dest, Save, Delete, Use, Notify, Keep, Drop, Set, Serve,
       ToSave, Opens, Done, TypeOK
  <2>5. Control(p)'
    BY <2>2, <2>3, <2>4 DEF Control, Statements
  <2>6. ASSUME NEW q \in Procs \ {p} PROVE Control(q)'
    <3>1. pc'[q] = pc[q] /\ todo'[q] = todo[q]
      BY <2>1 DEF Statement, Load, Dest, Save, Delete, Use, Notify, Keep, Drop, Set,
         Serve,
         ToSave, Opens, Done, TypeOK
    <3> QED
      BY <2>3, <3>1, ControlStays DEF Controlled
  <2> QED
    BY <2>5, <2>6 DEF Controlled
<1>4. CASE (\E p \in Procs : Stop(p)) \/ (\E f \in Files : Lose(f))
  <2>1. UNCHANGED <<pc, todo, req>>
    BY <1>4 DEF Stop, Lose
  <2> QED
    BY <2>1 DEF Controlled, Control
<1> QED
  BY <1>1, <1>2, <1>3, <1>4 DEF Next

TypeInv == TypeOK /\ Controlled

LEMMA InitTypes == ASSUME Init PROVE TypeInv
<1>1. (CHOOSE r \in Requests : TRUE) \in Requests
  BY StoreAssumption
<1>2. TypeOK
  BY <1>1, StoreAssumption DEF Init, TypeOK, Statements, Files, Typed
<1>3. Controlled
  BY DEF Init, Controlled, Control
<1> QED
  BY <1>2, <1>3 DEF TypeInv

LEMMA TypeStep == ASSUME TypeInv, [Next]_vars PROVE TypeInv'
<1>1. CASE Next
  <2>1. ASSUME NEW p \in Procs, NEW r \in Requests, Begin(p, r) PROVE TypeOK'
    BY <2>1, BeginTypes DEF TypeInv
  <2>2. ASSUME NEW p \in Procs, Open(p) \/ Statement(p) PROVE TypeOK'
    BY <2>2, OpenTypes, StatementTypes DEF TypeInv
  <2>3. ASSUME NEW p \in Procs, Fail(p) \/ Stop(p) PROVE TypeOK'
    BY <2>3, FailTypes DEF TypeInv
  <2>4. ASSUME NEW f \in Files, Lose(f) PROVE TypeOK'
    BY <2>4, LoseTypes DEF TypeInv
  <2>5. TypeOK'
    BY <1>1, <2>1, <2>2, <2>3, <2>4 DEF Next
  <2> QED
    BY <1>1, <2>5, Controls DEF TypeInv
<1>2. CASE UNCHANGED vars
  BY <1>2 DEF vars, disk, tables, own, TypeInv, TypeOK, Controlled, Control
<1> QED
  BY <1>1, <1>2

(* Every variable keeps its type.                                          *)
THEOREM TypeCorrect == Spec => []TypeOK
<1>1. TypeInv => TypeOK
  BY DEF TypeInv
<1> QED
  BY <1>1, InitTypes, TypeStep, PTL DEF Spec

-----------------------------------------------------------------------------
(* The steps of an operation that makes the file f.                        *)
LEMMA OpenLeaves ==
  ASSUME TypeOK, NEW p \in Procs, Open(p)
  PROVE  /\ UNCHANGED <<tables, serving, todo, req, silent, lost>>
         /\ \A f \in Files \ {FileOf(p)} : file'[f] = file[f]
         /\ \A q \in Procs \ {p} : pc'[q] = pc[q] /\ key'[q] = key[q]
BY DEF Open, Exists, Creates, Read, Create, Write, Done, own, TypeOK

LEMMA StatementLeaves ==
  ASSUME TypeOK, NEW p \in Procs, Statement(p)
  PROVE  /\ UNCHANGED <<disk, req, key, lost>>
         /\ pc[p] \in Statements
         /\ pc'[p] \in {"idle", "exists", "notify"}
         /\ \A q \in Procs \ {p} : pc'[q] = pc[q] /\ todo'[q] = todo[q]
BY DEF Statement, Load, Dest, Save, Delete, Use, Notify, Keep, Drop, Set, Serve,
   ToSave, Opens, Done, Changes, own, TypeOK, Statements

LEMMA SettledStep ==
  ASSUME TypeOK, Next, NEW f \in Files, Settled(f)
  PROVE  file'[f] = Absent \/ (Settled(f)' /\ file'[f] = file[f])
<1>1. file[f] # Absent /\ file[f] # Empty
  BY StoreAssumption DEF Settled
<1>2. CASE \E p \in Procs : Open(p)
  <2>1. PICK p \in Procs : Open(p)
    BY <1>2
  <2>2. todo' = todo
    BY <2>1, OpenLeaves
  <2>3. CASE FileOf(p) = f
    <3>1. pc[p] \notin {"create", "write"}
      BY <2>3 DEF Settled, Making
    <3>2. CASE Exists(p)
      BY <1>1, <2>3, <3>2 DEF Exists, Missing, Settled, Making, FileOf, TypeOK
    <3>3. CASE Read(p)
      <4>1. file' = file /\ pc'[p] \notin {"create", "write"}
        BY <1>1, <2>3, <3>3 DEF Read, Replaced, Settled, TypeOK, Statements
      <4>2. \A q \in Procs \ {p} : pc'[q] = pc[q]
        BY <2>1, OpenLeaves
      <4> QED
        BY <2>2, <4>1, <4>2 DEF Settled, Making, FileOf
    <3> QED
      BY <2>1, <3>1, <3>2, <3>3 DEF Open, Create, Write
  <2>4. CASE FileOf(p) # f
    <3>1. file'[f] = file[f] /\ \A q \in Procs \ {p} : pc'[q] = pc[q]
      BY <2>1, <2>4, OpenLeaves
    <3> QED
      BY <2>2, <2>4, <3>1 DEF Settled, Making, FileOf
  <2> QED
    BY <2>3, <2>4
<1>3. CASE \E p \in Procs : Statement(p)
  <2>1. PICK p \in Procs : Statement(p)
    BY <1>3
  <2>2. file' = file /\ pc'[p] \notin {"create", "write"}
    BY <2>1, StatementLeaves DEF disk
  <2>3. \A q \in Procs \ {p} : pc'[q] = pc[q] /\ todo'[q] = todo[q]
    BY <2>1, StatementLeaves
  <2> QED
    BY <2>2, <2>3 DEF Settled, Making, FileOf
<1>4. CASE \E p \in Procs, r \in Requests : Begin(p, r)
  <2>1. PICK p \in Procs, r \in Requests : Begin(p, r)
    BY <1>4
  <2>2. file' = file /\ pc'[p] \notin {"create", "write"}
    BY <2>1 DEF Begin, Opens, disk, TypeOK
  <2>3. \A q \in Procs \ {p} : pc'[q] = pc[q] /\ todo'[q] = todo[q]
    BY <2>1 DEF Begin, Opens, TypeOK
  <2> QED
    BY <2>2, <2>3 DEF Settled, Making, FileOf
<1>5. CASE \E p \in Procs : Fail(p)
  <2>1. PICK p \in Procs : Fail(p)
    BY <1>5
  <2>2. file' = file /\ todo' = todo /\ pc'[p] = "idle"
    BY <2>1 DEF Fail, Done, disk, TypeOK
  <2>3. \A q \in Procs \ {p} : pc'[q] = pc[q]
    BY <2>1 DEF Fail, Done, TypeOK
  <2> QED
    BY <2>2, <2>3 DEF Settled, Making, FileOf
<1>6. CASE \E p \in Procs : Stop(p)
  BY <1>6 DEF Stop, disk, Settled, Making, FileOf
<1>7. CASE \E g \in Files : Lose(g)
  BY <1>7 DEF Lose, Settled, Making, FileOf, TypeOK
<1> QED
  BY <1>2, <1>3, <1>4, <1>5, <1>6, <1>7 DEF Next

(* A key that is there, with nobody making one, is there for good: only    *)
(* its loss takes it away, whatever happened when it was made.             *)
THEOREM KeysSettle == Spec => SettledStays
<1>1. TypeOK /\ [Next]_vars =>
        [\A f \in Files : Settled(f) =>
           file'[f] = Absent \/ (Settled(f)' /\ file'[f] = file[f])]_vars
  BY SettledStep
<1> QED
  BY <1>1, TypeCorrect, PTL DEF Spec, SettledStays
-----------------------------------------------------------------------------
(* While a file has been made by one operation at a time and never lost:   *)
(* at most one is making it, and only where there is no key yet, and       *)
(* whoever opened the store with it has the key that is in it.             *)
KeyInv(f) ==
  Sound(f) =>
    /\ \A p, q \in Procs : Making(p, f) /\ Making(q, f) => p = q
    /\ \A p \in Procs : FileOf(p) = f =>
         /\ pc[p] = "create" => file[f] \in {Absent, Empty}
         /\ pc[p] = "write" => file[f] = Empty
         /\ pc[p] \in Statements => key[p] = file[f]

(* Whatever is stored was sealed with the key k.                           *)
Agrees(k) ==
  /\ setting # None => setting.key = k
  /\ \A n \in Names : pipelines[n] # None =>
       /\ pipelines[n].secret.key = k
       /\ pipelines[n].connection # None => pipelines[n].connection.key = k
  /\ \A d \in Dests : saved[d] # None /\ saved[d].connection # None =>
       saved[d].connection.key = k

MasterAgrees == Sound("master") => Agrees(file["master"])
ServersAgree == Sound("api") => \A p \in Procs : serving[p] \in {None, file["api"]}

IInv == /\ TypeInv /\ NothingGarbled
        /\ \A f \in Files : KeyInv(f)
        /\ MasterAgrees /\ ServersAgree

LEMMA AgreementIsKeysAgree == ASSUME MasterAgrees, ServersAgree PROVE KeysAgree
<1>1. ASSUME Sound("master"), NEW t \in Stored PROVE t.key = file["master"]
  <2>1. t # None /\ \/ t = setting
                    \/ \E n \in Names : pipelines[n] # None /\ t = pipelines[n].secret
                    \/ \E n \in Names : pipelines[n] # None /\ t = pipelines[n].connection
                    \/ \E d \in Dests : saved[d] # None /\ t = saved[d].connection
    BY <1>1 DEF Stored, Known
  <2>2. Agrees(file["master"])
    BY <1>1 DEF MasterAgrees
  <2>3. ASSUME NEW n \in Names, pipelines[n] # None, t = pipelines[n].secret
        PROVE  t.key = file["master"]
    BY <2>2, <2>3 DEF Agrees
  <2>4. ASSUME NEW n \in Names, pipelines[n] # None, t = pipelines[n].connection
        PROVE  t.key = file["master"]
    BY <2>1, <2>2, <2>4 DEF Agrees
  <2>5. ASSUME NEW d \in Dests, saved[d] # None, t = saved[d].connection
        PROVE  t.key = file["master"]
    BY <2>1, <2>2, <2>5 DEF Agrees
  <2> QED
    BY <2>1, <2>2, <2>3, <2>4, <2>5 DEF Agrees
<1> QED
  BY <1>1 DEF KeysAgree, ServersAgree

(* As long as there is no key, nothing has been sealed with one.           *)
LEMMA NothingStored ==
  ASSUME TypeOK, NEW k, k \notin Nat, Agrees(k), NEW j PROVE Agrees(j)
<1>1. setting # None => setting.key \in Nat
  BY DEF TypeOK, Token
<1>2. ASSUME NEW n \in Names, pipelines[n] # None
      PROVE  /\ pipelines[n].secret.key \in Nat
             /\ pipelines[n].connection # None => pipelines[n].connection.key \in Nat
  BY <1>2 DEF TypeOK, Pipeline, Token
<1>3. ASSUME NEW d \in Dests, saved[d] # None, saved[d].connection # None
      PROVE  saved[d].connection.key \in Nat
  BY <1>3 DEF TypeOK, Destination, Token
<1> QED
  BY <1>1, <1>2, <1>3 DEF Agrees

LEMMA MakingOnce ==
  ASSUME TypeOK, NEW p \in Procs, NEW f \in Files, FileOf(p) = f,
         Creates(p), todo' = todo, ~raced'[f]
  PROVE  \A q \in Procs \ {p} : ~Making(q, f) /\ pc'[q] = pc[q]
BY DEF Creates, TypeOK

LEMMA OpenKeys ==
  ASSUME TypeOK, NEW p \in Procs, Open(p), NEW f \in Files, KeyInv(f)
  PROVE  /\ KeyInv(f)'
         /\ Sound(f)' => Sound(f) /\ (file'[f] = file[f] \/ file[f] \notin Nat)
<1> SUFFICES ASSUME Sound(f)'
             PROVE  KeyInv(f)' /\ Sound(f) /\ (file'[f] = file[f] \/ file[f] \notin Nat)
  BY DEF KeyInv
<1>1. Sound(f)
  BY DEF Sound, Open, Exists, Read, Create, Write, Creates, TypeOK
<1>2. todo' = todo /\ \A q \in Procs \ {p} : pc'[q] = pc[q] /\ key'[q] = key[q]
  BY OpenLeaves
<1>3. CASE FileOf(p) # f
  <2>1. file'[f] = file[f]
    BY <1>3, OpenLeaves
  <2> QED
    BY <1>1, <1>2, <1>3, <2>1 DEF KeyInv, Making, FileOf
<1>4. CASE FileOf(p) = f
  <2> \A q \in Procs : FileOf(q)' = FileOf(q)
    BY <1>2 DEF FileOf
  <2>1. CASE (Exists(p) \/ Read(p)) /\ pc'[p] = "create"
    <3>1. Creates(p) /\ file[f] \in {Absent, Empty} /\ file' = file
      BY <1>4, <2>1 DEF Exists, Missing, Read, Replaced, Done, TypeOK, Statements
    <3>2. \A q \in Procs \ {p} : ~Making(q, f)
      BY <1>2, <1>4, <3>1, MakingOnce DEF Sound
    <3> QED
      BY <1>1, <1>2, <1>4, <2>1, <3>1, <3>2 DEF KeyInv, Making, Statements
  <2>2. CASE (Exists(p) \/ Read(p)) /\ pc'[p] \notin {"create", "write"}
    <3>1. file' = file /\ (pc'[p] \in Statements => key'[p] = file[f])
      BY <1>4, <2>2 DEF Exists, Creates, Read, Done, TypeOK, Statements
    <3>2. ASSUME NEW q \in Procs, Making(q, f)' PROVE Making(q, f) /\ q # p
      BY <1>2, <2>2, <3>2 DEF Making
    <3>3. \A q, r \in Procs : Making(q, f)' /\ Making(r, f)' => q = r
      BY <1>1, <3>2 DEF KeyInv
    <3> QED
      BY <1>1, <1>2, <1>4, <2>2, <3>1, <3>3 DEF KeyInv
  <2>3. CASE Create(p)
    <3>1. file'[f] = Empty /\ pc'[p] = "write" /\ Making(p, f) /\ file[f] \in {Absent, Empty}
      BY <1>1, <1>4, <2>3 DEF Create, KeyInv, TypeOK, Making
    <3>2. \A q \in Procs \ {p} : ~Making(q, f)
      BY <1>1, <3>1 DEF KeyInv
    <3>3. file[f] \notin Nat
      BY <3>1, StoreAssumption
    <3>4. \A q \in Procs \ {p} : FileOf(q) = f => pc[q] \notin Statements
      BY <1>1, <3>3 DEF KeyInv, TypeOK
    <3> QED
      BY <1>1, <1>2, <1>4, <3>1, <3>2, <3>3, <3>4 DEF KeyInv, Making, Statements
  <2>4. CASE Write(p)
    <3>1. /\ file'[f] = key[p] /\ key'[p] = key[p] /\ pc'[p] \in Statements
          /\ Making(p, f) /\ file[f] = Empty
      BY <1>1, <1>4, <2>4 DEF Write, KeyInv, TypeOK, Making, own
    <3>2. \A q \in Procs \ {p} : ~Making(q, f)
      BY <1>1, <3>1 DEF KeyInv
    <3>3. file[f] \notin Nat
      BY <3>1, StoreAssumption
    <3>4. \A q \in Procs \ {p} : FileOf(q) = f => pc[q] \notin Statements
      BY <1>1, <3>3 DEF KeyInv, TypeOK
    <3> QED
      BY <1>1, <1>2, <1>4, <3>1, <3>2, <3>3, <3>4 DEF KeyInv, Making, Statements
  <2>5. CASE Exists(p) \/ Read(p)
    <3>1. pc'[p] # "write"
      BY <2>5 DEF Exists, Read, Creates, Done, TypeOK, Statements
    <3> QED
      BY <2>1, <2>2, <2>5, <3>1
  <2> QED
    BY <2>3, <2>4, <2>5 DEF Open
<1> QED
  BY <1>3, <1>4
(* Nothing but opening the store, and losing a key, concerns the keys.     *)
LEMMA KeysStay ==
  ASSUME NEW f \in Files, KeyInv(f), UNCHANGED <<disk, key, lost>>, NEW p \in Procs,
         \A q \in Procs \ {p} : pc'[q] = pc[q] /\ todo'[q] = todo[q],
         \/ pc'[p] \notin Statements \cup {"create", "write"}
         \/ pc'[p] \in Statements /\ pc[p] \in Statements /\ todo'[p] = todo[p]
  PROVE  KeyInv(f)' /\ Sound(f)' = Sound(f) /\ file' = file
<1>1. Sound(f)' = Sound(f) /\ file' = file
  BY DEF Sound, disk
<1> SUFFICES ASSUME Sound(f) PROVE KeyInv(f)'
  BY <1>1 DEF KeyInv
<1>2. ASSUME NEW q \in Procs, Making(q, f)' PROVE Making(q, f)
  BY <1>2 DEF Making, FileOf, Statements
<1>3. \A q, r \in Procs : Making(q, f)' /\ Making(r, f)' => q = r
  BY <1>2 DEF KeyInv
<1>4. ASSUME NEW q \in Procs, FileOf(q)' = f
      PROVE  /\ pc'[q] = "create" => file'[f] \in {Absent, Empty}
             /\ pc'[q] = "write" => file'[f] = Empty
             /\ pc'[q] \in Statements => key'[q] = file'[f]
  <2>1. CASE q # p
    BY <1>1, <1>4, <2>1 DEF KeyInv, FileOf
  <2>2. CASE q = p
    BY <1>1, <1>4, <2>2 DEF KeyInv, FileOf, Statements
  <2> QED
    BY <2>1, <2>2
<1> QED
  BY <1>3, <1>4 DEF KeyInv

LEMMA Opened ==
  ASSUME Controlled, NEW p \in Procs, pc[p] \in Statements
  PROVE  FileOf(p) = IF pc[p] = "serve" THEN "api" ELSE "master"
BY DEF Controlled, Control, FileOf, Statements

LEMMA StatementKeys ==
  ASSUME IInv, NEW p \in Procs, Statement(p)
  PROVE  (\A f \in Files : KeyInv(f)') /\ MasterAgrees' /\ ServersAgree' /\ NothingGarbled'
<1>1. /\ UNCHANGED <<disk, req, key, lost>> /\ pc[p] \in Statements
      /\ \A q \in Procs \ {p} : pc'[q] = pc[q] /\ todo'[q] = todo[q]
  BY StatementLeaves DEF IInv, TypeInv
<1>2. \/ pc'[p] \notin Statements \cup {"create", "write"}
      \/ pc'[p] \in Statements /\ pc[p] \in Statements /\ todo'[p] = todo[p]
  BY DEF Statement, Load, Dest, Save, Delete, Use, Notify, Keep, Drop, Set, Serve,
     ToSave, Opens, Done, TypeOK, Statements, IInv, TypeInv
<1>3. ASSUME NEW f \in Files PROVE KeyInv(f)' /\ Sound(f)' = Sound(f) /\ file' = file
  BY <1>1, <1>2, KeysStay DEF IInv
<1>4. FileOf(p) = IF pc[p] = "serve" THEN "api" ELSE "master"
  BY <1>1, Opened DEF IInv, TypeInv
<1>5. \A f \in Files : Sound(f) /\ FileOf(p) = f => key[p] = file[f]
  BY <1>1 DEF IInv, KeyInv
<1>6. MasterAgrees'
  <2> SUFFICES ASSUME Sound("master") PROVE Agrees(file["master"])'
    BY <1>3 DEF MasterAgrees, Files
  <2>1. Agrees(file["master"]) /\ file' = file
    BY <1>3 DEF IInv, MasterAgrees, Files
  <2>2. CASE UNCHANGED tables
    BY <2>1, <2>2 DEF Agrees, tables
  <2>3. ASSUME NEW value PROVE pc[p] # "serve" => Sealed(p, value).key = file["master"]
    BY <1>4, <1>5 DEF Sealed, Files
  <2>4. CASE Save(p)
    <3> DEFINE row == [field      |-> Field[req[p].connector],
                       secret     |-> Sealed(p, secret[p]),
                       connection |-> IF connection[p] = Blank THEN None
                                      ELSE Sealed(p, connection[p])]
    <3>1. Changes(p, row) /\ pc[p] # "serve"
      BY <2>4 DEF Save
    <3>2. row.secret.key = file["master"]
          /\ (row.connection # None => row.connection.key = file["master"])
      BY <2>3, <3>1
    <3> HIDE DEF row
    <3> QED
      BY <2>1, <3>1, <3>2 DEF Changes, Agrees, IInv, TypeInv, TypeOK
  <2>5. CASE Delete(p)
    BY <2>1, <2>2, <2>5 DEF Delete, Changes, Agrees, IInv, TypeInv, TypeOK
  <2>6. CASE Keep(p)
    <3>1. PICK d \in Dests :
            saved' = [saved EXCEPT ![d] =
              [needs |-> req[p].needs,
               connection |-> IF req[p].connection = Blank THEN None
                              ELSE Sealed(p, req[p].connection)]]
      BY <2>6 DEF Keep
    <3>2. UNCHANGED <<pipelines, setting>> /\ pc[p] # "serve"
      BY <2>6 DEF Keep
    <3> QED
      BY <2>1, <2>3, <3>1, <3>2 DEF Agrees, IInv, TypeInv, TypeOK
  <2>7. CASE Drop(p)
    BY <2>1, <2>7 DEF Drop, Agrees, IInv, TypeInv, TypeOK
  <2>8. CASE Set(p)
    BY <2>1, <2>3, <2>8 DEF Set, Agrees
  <2>9. CASE Load(p) \/ Dest(p) \/ Use(p) \/ Notify(p) \/ Serve(p)
    BY <2>2, <2>9 DEF Load, Dest, Use, Notify, Serve
  <2> QED
    BY <2>4, <2>5, <2>6, <2>7, <2>8, <2>9 DEF Statement
<1>7. ServersAgree'
  <2> SUFFICES ASSUME Sound("api") PROVE \A q \in Procs : serving'[q] \in {None, file["api"]}
    BY <1>3 DEF ServersAgree, Files
  <2>1. \A q \in Procs : serving[q] \in {None, file["api"]}
    BY DEF IInv, ServersAgree
  <2>2. CASE Serve(p)
    BY <1>4, <1>5, <2>1, <2>2 DEF Serve, Files, IInv, TypeInv, TypeOK
  <2>3. CASE ~Serve(p)
    BY <2>1, <2>3 DEF Statement, Load, Dest, Save, Delete, Use, Notify, Keep, Drop, Set
  <2> QED
    BY <2>2, <2>3
<1>8. NothingGarbled'
  <2> SUFFICES ASSUME Sound("master"), NEW q \in Procs PROVE ~silent'[q]
    BY <1>3 DEF NothingGarbled, Files
  <2>1. ~silent[q] /\ Agrees(file["master"])
    BY DEF IInv, NothingGarbled, MasterAgrees
  <2>2. CASE Dest(p)
    <3>1. key[p] = file["master"] /\ req[p].dest \in Dests
      BY <1>4, <1>5, <2>2, NamedTypes DEF Dest, Files, IInv, TypeInv
    <3>2. saved[req[p].dest].connection = None \/ Readable(p, saved[req[p].dest].connection)
      BY <2>1, <2>2, <3>1 DEF Agrees, Readable, Dest
    <3>3. silent' = [silent EXCEPT ![p] = FALSE]
      BY <2>2, <3>2 DEF Dest
    <3> QED
      BY <2>1, <3>3 DEF IInv, TypeInv, TypeOK
  <2>3. CASE Notify(p)
    <3>1. ~(setting # None /\ ~Readable(p, setting))
      BY <1>4, <1>5, <2>1, <2>3 DEF Agrees, Readable, Notify, Files
    <3>2. silent' = [silent EXCEPT ![p] = FALSE]
      BY <2>3, <3>1 DEF Notify
    <3> QED
      BY <2>1, <3>2 DEF IInv, TypeInv, TypeOK
  <2>4. CASE ~Dest(p) /\ ~Notify(p)
    <3>1. silent' = silent
      BY <2>4 DEF Statement, Load, Save, Delete, Use, Keep, Drop, Set, Serve, own
    <3> QED
      BY <2>1, <3>1
  <2> QED
    BY <2>2, <2>3, <2>4
<1> QED
  BY <1>3, <1>6, <1>7, <1>8
LEMMA OtherKeys ==
  ASSUME IInv, \/ \E p \in Procs, r \in Requests : Begin(p, r)
               \/ \E p \in Procs : Fail(p) \/ Stop(p)
  PROVE  (\A f \in Files : KeyInv(f)') /\ MasterAgrees' /\ ServersAgree' /\ NothingGarbled'
<1>1. PICK p \in Procs : (\E r \in Requests : Begin(p, r)) \/ Fail(p) \/ Stop(p)
  OBVIOUS
<1>2. UNCHANGED <<disk, tables, key, lost>>
  BY <1>1 DEF Begin, Fail, Stop, own
<1>3. /\ pc'[p] \notin Statements \cup {"create", "write"}
      /\ \A q \in Procs \ {p} : pc'[q] = pc[q] /\ todo'[q] = todo[q]
  <2>1. CASE (\E r \in Requests : Begin(p, r)) \/ Fail(p)
    BY <2>1 DEF Begin, Opens, Fail, Done, Statements, IInv, TypeInv, TypeOK
  <2>2. CASE Stop(p)
    BY <2>2 DEF Stop, Statements
  <2> QED
    BY <1>1, <2>1, <2>2
<1>4. ASSUME NEW f \in Files PROVE KeyInv(f)' /\ Sound(f)' = Sound(f) /\ file' = file
  BY <1>2, <1>3, KeysStay DEF IInv
<1>5. MasterAgrees'
  <2>1. UNCHANGED <<pipelines, saved, setting>>
    BY <1>2 DEF tables
  <2> QED
    BY <1>4, <2>1 DEF IInv, MasterAgrees, Agrees, Files
<1>6. \A q \in Procs : serving'[q] \in {serving[q], None}
  BY <1>1 DEF Begin, Fail, Stop, IInv, TypeInv, TypeOK
<1>7. ServersAgree'
  BY <1>4, <1>6 DEF IInv, ServersAgree, Files
<1>8. \A q \in Procs : silent'[q] => silent[q]
  <2>1. CASE \E r \in Requests : Begin(p, r)
    BY <2>1 DEF Begin, IInv, TypeInv, TypeOK
  <2>2. CASE Fail(p) \/ Stop(p)
    BY <2>2 DEF Fail, Stop, own
  <2> QED
    BY <1>1, <2>1, <2>2
<1> QED
  BY <1>4, <1>5, <1>7, <1>8 DEF IInv, NothingGarbled, Files

LEMMA OpenAgrees ==
  ASSUME IInv, NEW p \in Procs, Open(p)
  PROVE  (\A f \in Files : KeyInv(f)') /\ MasterAgrees' /\ ServersAgree' /\ NothingGarbled'
<1>1. UNCHANGED <<tables, serving, silent>>
  BY OpenLeaves DEF IInv, TypeInv
<1>2. ASSUME NEW f \in Files
      PROVE  /\ KeyInv(f)'
             /\ Sound(f)' => Sound(f) /\ (file'[f] = file[f] \/ file[f] \notin Nat)
  BY OpenKeys DEF IInv, TypeInv
<1>3. MasterAgrees'
  <2> SUFFICES ASSUME Sound("master")' PROVE Agrees(file["master"])'
    BY DEF MasterAgrees
  <2>1. Agrees(file["master"]) /\ (file'["master"] = file["master"] \/ file["master"] \notin Nat)
    BY <1>2 DEF IInv, MasterAgrees, Files
  <2>2. Agrees(file'["master"])
    BY <2>1, NothingStored DEF IInv, TypeInv
  <2> QED
    BY <1>1, <2>2 DEF Agrees, tables
<1>4. ServersAgree'
  <2> SUFFICES ASSUME Sound("api")', NEW q \in Procs PROVE serving'[q] \in {None, file'["api"]}
    BY DEF ServersAgree
  <2>1. /\ serving[q] \in {None, file["api"]} /\ serving[q] \in Nat \cup {None}
        /\ file'["api"] = file["api"] \/ file["api"] \notin Nat
    BY <1>2 DEF IInv, TypeInv, TypeOK, ServersAgree, Files
  <2> QED
    BY <1>1, <2>1
<1>5. NothingGarbled'
  BY <1>1, <1>2 DEF IInv, NothingGarbled, Files
<1> QED
  BY <1>2, <1>3, <1>4, <1>5

LEMMA LoseKeys ==
  ASSUME IInv, NEW g \in Files, Lose(g)
  PROVE  (\A f \in Files : KeyInv(f)') /\ MasterAgrees' /\ ServersAgree' /\ NothingGarbled'
<1>1. /\ UNCHANGED <<raced, tables, serving, pc, todo, silent, key>>
      /\ \A f \in Files : lost[f] => lost'[f]
      /\ lost'[g] /\ \A f \in Files \ {g} : file'[f] = file[f]
  BY DEF Lose, own, IInv, TypeInv, TypeOK
<1>2. \A f \in Files : Sound(f)' => Sound(f) /\ file'[f] = file[f]
  BY <1>1 DEF Sound
<1>3. \A f \in Files : KeyInv(f)'
  BY <1>1, <1>2 DEF IInv, KeyInv, Making, FileOf
<1>4. MasterAgrees'
  BY <1>1, <1>2 DEF IInv, MasterAgrees, Agrees, tables, Files
<1>5. ServersAgree'
  BY <1>1, <1>2 DEF IInv, ServersAgree, Files
<1>6. NothingGarbled'
  BY <1>1, <1>2 DEF IInv, NothingGarbled, Files
<1> QED
  BY <1>3, <1>4, <1>5, <1>6

THEOREM InductiveInvariant == Spec => []IInv
<1>1. Init => IInv
  <2> SUFFICES ASSUME Init PROVE IInv
    OBVIOUS
  <2>1. TypeInv
    BY InitTypes
  <2>2. \A f \in Files : KeyInv(f)
    BY DEF Init, KeyInv, Making, Statements
  <2>3. MasterAgrees /\ ServersAgree /\ NothingGarbled
    BY DEF Init, MasterAgrees, Agrees, ServersAgree, NothingGarbled
  <2> QED
    BY <2>1, <2>2, <2>3 DEF IInv
<1>2. IInv /\ [Next]_vars => IInv'
  <2> SUFFICES ASSUME IInv, [Next]_vars PROVE IInv'
    OBVIOUS
  <2>1. TypeInv'
    BY TypeStep DEF IInv
  <2>2. CASE Next
    <3>1. (\A f \in Files : KeyInv(f)') /\ MasterAgrees' /\ ServersAgree' /\ NothingGarbled'
      BY <2>2, OpenAgrees, StatementKeys, OtherKeys, LoseKeys DEF Next
    <3> QED
      BY <2>1, <3>1 DEF IInv
  <2>3. CASE UNCHANGED vars
    <3>1. (\A f \in Files : KeyInv(f)') /\ (\A f \in Files : Sound(f)' = Sound(f))
      BY <2>3 DEF vars, disk, own, IInv, KeyInv, Sound, Making, FileOf
    <3>2. MasterAgrees' /\ ServersAgree' /\ NothingGarbled'
      BY <2>3, <3>1 DEF vars, disk, tables, own, IInv, MasterAgrees, Agrees, ServersAgree,
         NothingGarbled, Files
    <3> QED
      BY <2>1, <3>1, <3>2 DEF IInv
  <2> QED
    BY <2>2, <2>3
<1> QED
  BY <1>1, <1>2, PTL DEF Spec

(* Whatever is stored can be read with the key there is, and a running     *)
(* server checks the key there is, as long as no two operations made the   *)
(* file at once and it has not been lost.                                  *)
THEOREM OneKeyForAll == Spec => []KeysAgree
<1>1. IInv => KeysAgree
  BY AgreementIsKeysAgree DEF IInv
<1> QED
  BY <1>1, InductiveInvariant, PTL

(* No operation goes on with less than the user gave it, as long as the    *)
(* key is the one its values were sealed with.                             *)
THEOREM ReadOrRefused == Spec => []NothingGarbled
<1>1. IInv => NothingGarbled
  BY DEF IInv
<1> QED
  BY <1>1, InductiveInvariant, PTL
-----------------------------------------------------------------------------
(* What an edit is to save in an empty field is what is stored there.      *)
Keeping(p) ==
  pc[p] # "idle" /\ todo[p] \in {"dest", "save"} /\ KeepsSecret(p) =>
    secret[p] = pipelines[req[p].name].secret.value

LEMMA KeepingStep ==
  ASSUME TypeInv, \A p \in Procs : Keeping(p), Next PROVE \A p \in Procs : Keeping(p)'
<1> USE DEF TypeInv
<1>1. CASE \E p \in Procs, r \in Requests : Begin(p, r)
  <2>1. PICK p \in Procs, r \in Requests : Begin(p, r)
    BY <1>1
  <2>2. todo'[p] \notin {"dest", "save"}
    BY <2>1, RequestTypes DEF Begin, Opens, TypeOK, Kinds
  <2>3. ASSUME NEW q \in Procs \ {p}
        PROVE  /\ pc'[q] = pc[q] /\ todo'[q] = todo[q] /\ req'[q] = req[q]
               /\ fresh'[q] = fresh[q] /\ secret'[q] = secret[q] /\ pipelines' = pipelines
    BY <2>1 DEF Begin, Opens, TypeOK, tables
  <2> QED
    BY <2>2, <2>3 DEF Keeping, KeepsSecret
<1>2. CASE \E p \in Procs : Open(p) \/ Fail(p) \/ Stop(p)
  <2>1. PICK p \in Procs : Open(p) \/ Fail(p) \/ Stop(p)
    BY <1>2
  <2>2. UNCHANGED <<pipelines, todo, req, fresh, secret>>
    BY <2>1 DEF Open, Exists, Read, Create, Write, Fail, Stop, Done, tables, own
  <2>3. \A q \in Procs : pc[q] = "idle" => pc'[q] = "idle"
    BY <2>1 DEF Open, Exists, Creates, Read, Create, Write, Fail, Stop, Done, TypeOK
  <2> QED
    BY <2>2, <2>3 DEF Keeping, KeepsSecret
<1>3. CASE \E p \in Procs : Statement(p)
  <2>1. PICK p \in Procs : Statement(p)
    BY <1>3
  <2>2. UNCHANGED req
    BY <2>1, StatementLeaves
  <2>3. ASSUME NEW q \in Procs \ {p}
        PROVE  pc'[q] = pc[q] /\ todo'[q] = todo[q] /\ secret'[q] = secret[q]
    BY <2>1 DEF Statement, Load, Dest, Save, Delete, Use, Notify, Keep, Drop, Set, Serve,
       ToSave, Opens, Done, own, TypeOK
  <2>4. ASSUME NEW q \in Procs \ {p}, fresh'[q], req[q].name \in Names
        PROVE  fresh[q] /\ pipelines'[req[q].name] = pipelines[req[q].name]
    <3>1. CASE \E row : Changes(p, row)
      BY <2>4, <3>1 DEF Changes, TypeOK
    <3>2. CASE UNCHANGED pipelines /\ ~Load(p)
      BY <2>1, <2>4, <3>2 DEF Statement, Dest, Save, Delete, Changes, Use, Notify, Keep,
         Drop,
         Set, Serve, TypeOK
    <3>3. CASE Load(p)
      BY <2>4, <3>3 DEF Load, tables, TypeOK
    <3> QED
      BY <2>1, <3>1, <3>2, <3>3 DEF Statement, Dest, Save, Delete, Use, Notify, Keep,
         Drop,
         Set, Serve, tables
  <2>5. ASSUME NEW q \in Procs \ {p} PROVE Keeping(q)'
    <3> SUFFICES ASSUME pc[q] # "idle", todo[q] \in {"dest", "save"}, KeepsSecret(q)'
                 PROVE  secret[q] = pipelines'[req[q].name].secret.value
      BY <2>2, <2>3 DEF Keeping
    <3>1. req[q].name \in Names
      BY RequestTypes DEF Controlled, Control, TypeOK
    <3>2. fresh[q] /\ pipelines'[req[q].name] = pipelines[req[q].name]
      BY <2>4, <3>1 DEF KeepsSecret
    <3> QED
      BY <2>2, <3>2 DEF Keeping, KeepsSecret
  <2>6. Keeping(p)'
    <3>1. CASE Load(p)
      <4> SUFFICES ASSUME KeepsSecret(p)' PROVE secret'[p] = pipelines[req[p].name].secret.value
        BY <3>1 DEF Keeping, Load, tables
      <4>1. Merged(p) = pipelines[req[p].name].secret.value
        BY <3>1 DEF KeepsSecret, Merged, Row, Load, tables
      <4> QED
        BY <3>1, <4>1 DEF Load, TypeOK
    <3>2. CASE Dest(p)
      <4>1. UNCHANGED <<pipelines, req, fresh, secret>>
        BY <3>2 DEF Dest, tables
      <4>2. pc[p] = "dest" /\ todo[p] = "dest"
        BY <3>2 DEF Dest, Controlled, Control, Statements
      <4> QED
        BY <4>1, <4>2 DEF Keeping, KeepsSecret
    <3>3. CASE Use(p)
      <4>1. todo'[p] \notin {"dest", "save"}
        BY <3>3 DEF Use, Controlled, Control, Statements
      <4> QED
        BY <4>1 DEF Keeping
    <3>4. CASE ~Load(p) /\ ~Dest(p) /\ ~Use(p)
      <4>1. pc'[p] = "idle"
        BY <2>1, <3>4 DEF Statement, Save, Delete, Notify, Keep, Drop, Set, Serve, Done,
           TypeOK
      <4> QED
        BY <4>1 DEF Keeping
    <3> QED
      BY <3>1, <3>2, <3>3, <3>4
  <2> QED
    BY <2>5, <2>6
<1>4. CASE \E f \in Files : Lose(f)
  BY <1>4 DEF Lose, tables, own, Keeping, KeepsSecret
<1> QED
  BY <1>1, <1>2, <1>3, <1>4 DEF Next

(* An edit with an empty secret field saves the secret that is stored.     *)
THEOREM BlankMeansKeep == Spec => BlankKeeps
<1> DEFINE Kept == \A p \in Procs : Keeping(p)
<1>1. Init => Kept
  BY DEF Init, Keeping
<1>2. TypeInv /\ Kept /\ [Next]_vars => Kept'
  <2> SUFFICES ASSUME TypeInv, Kept, [Next]_vars PROVE Kept'
    OBVIOUS
  <2>1. CASE Next
    BY <2>1, KeepingStep
  <2>2. CASE UNCHANGED vars
    BY <2>2 DEF vars, tables, own, Keeping, KeepsSecret
  <2> QED
    BY <2>1, <2>2
<1>3. TypeInv /\ Kept /\ [Next]_vars =>
        [\A p \in Procs : pc[p] = "save" /\ pc'[p] = "idle" /\ KeepsSecret(p) =>
           pipelines'[req[p].name].secret.value = pipelines[req[p].name].secret.value]_vars
  <2> SUFFICES ASSUME TypeInv, Kept, Next, NEW p \in Procs,
                      pc[p] = "save", pc'[p] = "idle", KeepsSecret(p)
               PROVE  pipelines'[req[p].name].secret.value = pipelines[req[p].name].secret.value
    OBVIOUS
  <2>1. secret[p] = pipelines[req[p].name].secret.value
    BY DEF Keeping, TypeInv, Controlled, Control, Statements
  <2>2. req[p].name \in Names
    BY NamedTypes DEF TypeInv
  <2>3. CASE Save(p)
    BY <2>1, <2>2, <2>3 DEF Save, Changes, Sealed, TypeInv, TypeOK
  <2>4. CASE Fail(p)
    BY <2>4 DEF Fail, tables
  <2>5. Save(p) \/ Fail(p)
    <3>1. CASE \E q \in Procs, r \in Requests : Begin(q, r)
      BY <3>1 DEF Begin, Opens, TypeInv, TypeOK
    <3>2. CASE \E q \in Procs : Open(q)
      BY <3>2 DEF Open, Exists, Read, Create, Write, Creates, Done, TypeInv, TypeOK
    <3>3. CASE \E q \in Procs : Statement(q)
      BY <3>3 DEF Statement, Load, Dest, Save, Delete, Use, Notify, Keep, Drop, Set,
         Serve,
         ToSave, Opens, Done, TypeInv, TypeOK
    <3>4. CASE \E q \in Procs : Fail(q)
      BY <3>4 DEF Fail, Done, TypeInv, TypeOK
    <3>5. CASE (\E q \in Procs : Stop(q)) \/ (\E f \in Files : Lose(f))
      BY <3>5 DEF Stop, Lose
    <3> QED
      BY <3>1, <3>2, <3>3, <3>4, <3>5 DEF Next
  <2> QED
    BY <2>3, <2>4, <2>5
<1> HIDE DEF Kept
<1>4. Spec => []TypeInv
  BY InitTypes, TypeStep, PTL DEF Spec
<1> QED
  BY <1>1, <1>2, <1>3, <1>4, PTL DEF Spec, BlankKeeps
=============================================================================
