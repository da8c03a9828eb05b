---------------------------- MODULE SecretStore ----------------------------
(***************************************************************************)
(* What the program keeps for the user, and the keys it keeps it under:    *)
(* security/crypto.py, security/api_key.py, store/control_store.py and the *)
(* handlers of api/app.py that use them.                                   *)
(*                                                                         *)
(* Every operation is a thread of the server, or another process, that     *)
(* opens the store anew for each statement: it reads master.key, or makes  *)
(* it, and then executes one SQL statement, which is atomic.  A server     *)
(* opens api.key the same way when it starts and remembers what it found.  *)
(* A request is a record:                                                  *)
(*   kind        "edit", "use", "delete", "keep", "forget", "set", "serve" *)
(*   name        a pipeline or a saved destination                         *)
(*   padded      the name has a space before or after it                   *)
(*   connector   that of the pipeline's source                             *)
(*   secret      what the user typed for its secret field, or Blank        *)
(*   connection  that of the destination, or the token to set, or Blank    *)
(*   needs       the destination cannot do without a connection            *)
(*   dest        the saved destination to load into, or None               *)
(***************************************************************************)
EXTENDS Naturals

CONSTANTS Procs,    \* the threads and processes
          Names,    \* the names of pipelines
          Dests,    \* the ids of saved destinations
          Values,   \* what users type
          Blank,    \* an empty field
          None,     \* no value
          Absent,   \* what a key file holds that does not exist
          Empty,    \* what a key file holds that is being written
          Field,    \* the secret field of a connector
          Optional, \* the connectors whose secret field may be empty
          Requests, \* the requests
          MaxKeys,  \* bound: keys generated
          MaxOps    \* bound: operations begun

Files == {"master", "api"}
Kinds == {"edit", "use", "delete", "keep", "forget", "set", "serve"}
Typed == Values \cup {Blank}

ASSUME StoreAssumption ==
  /\ Blank \notin Values /\ None \notin Typed \cup Dests \cup Nat
  /\ Absent # Empty /\ {Absent, Empty} \cap Nat = {}
  /\ Requests # {} /\ MaxKeys \in Nat /\ MaxOps \in Nat
  /\ \A r \in Requests :
       /\ r.kind \in Kinds
       /\ r.kind \in {"edit", "use", "delete"} => r.name \in Names
       /\ r.kind = "forget" => r.name \in Dests
       /\ r.connector \in DOMAIN Field
       /\ r.secret \in Typed /\ r.connection \in Typed
       /\ r.padded \in BOOLEAN /\ r.needs \in BOOLEAN
       /\ r.dest \in Dests \cup {None}
       /\ r.kind = "set" => r.connection # Blank
       /\ r.kind = "keep" /\ r.needs => r.connection # Blank

VARIABLES file,      \* what a key file holds: Absent, Empty or a key
          pipelines, \* the pipelines: the field of the secret, and two secrets
          saved,     \* the saved destinations
          setting,   \* the token of the Telegram bot
          serving,   \* the API key a running server checks
          pc,        \* the next step of an operation
          todo,      \* the statement for which it opens the store
          req,       \* its request
          key,       \* the key it has opened the store with
          secret,    \* the secret it is to save, or has loaded
          connection,\* the connection it is to save
          silent,    \* it passed over a value that it could not read
          keys,      \* keys generated so far
          ops,       \* bound: operations begun so far
          fresh,     \* auxiliary: the pipeline is as it was when this loaded it
          raced,     \* auxiliary: two operations made this file at once
          lost       \* auxiliary: this file has been lost

disk == <<file, keys, raced>>
tables == <<pipelines, saved, setting>>
own == <<key, secret, connection, silent>>
vars == <<disk, tables, serving, pc, todo, req, own, ops, fresh, lost>>

Statements == {"load", "dest", "save", "use", "notify", "delete", "keep", "forget", "set",
               "serve"}
FileOf(p) == IF todo[p] = "serve" THEN "api" ELSE "master"

Init ==
  /\ file = [f \in Files |-> Absent]
  /\ pipelines = [n \in Names |-> None]
  /\ saved = [d \in Dests |-> None]
  /\ setting = None
  /\ serving = [p \in Procs |-> None]
  /\ pc = [p \in Procs |-> "idle"]
  /\ todo = [p \in Procs |-> "use"]
  /\ req = [p \in Procs |-> CHOOSE r \in Requests : TRUE]
  /\ key = [p \in Procs |-> 0]
  /\ secret = [p \in Procs |-> Blank] /\ connection = [p \in Procs |-> Blank]
  /\ silent = [p \in Procs |-> FALSE]
  /\ keys = 0 /\ ops = 0
  /\ fresh = [p \in Procs |-> FALSE]
  /\ raced = [f \in Files |-> FALSE] /\ lost = [f \in Files |-> FALSE]

\* p opens the store to execute a statement.
Opens(p, statement) ==
  /\ pc' = [pc EXCEPT ![p] = "exists"]
  /\ todo' = [todo EXCEPT ![p] = statement]

Done(p) == pc' = [pc EXCEPT ![p] = "idle"] /\ UNCHANGED todo
-----------------------------------------------------------------------------
Begin(p, r) ==
  /\ pc[p] = "idle"
  /\ ops < MaxOps /\ ops' = ops + 1
  /\ r.kind = "serve" => serving[p] = None
  /\ req' = [req EXCEPT ![p] = r]
  /\ Opens(p, IF r.kind = "edit" THEN "load" ELSE r.kind)
  /\ secret' = [secret EXCEPT ![p] = r.secret]
  /\ connection' = [connection EXCEPT ![p] = r.connection]
  /\ silent' = [silent EXCEPT ![p] = FALSE]
  /\ fresh' = [fresh EXCEPT ![p] = FALSE]
  /\ UNCHANGED <<disk, tables, serving, key, lost>>

\* _load_or_create_key, load_or_create_api_key.
Missing_Always(f) == TRUE
Missing(f) == file[f] = Absent
Making(p, f) == pc[p] \in {"create", "write"} /\ FileOf(p) = f

Creates(p) ==
  /\ pc' = [pc EXCEPT ![p] = "create"]
  /\ raced' = [raced EXCEPT ![FileOf(p)] =
                 @ \/ \E q \in Procs \ {p} : Making(q, FileOf(p))]

Exists(p) ==
  /\ pc[p] = "exists"
  /\ IF Missing(FileOf(p))
     THEN Creates(p)
     ELSE pc' = [pc EXCEPT ![p] = "read"] /\ UNCHANGED raced
  /\ UNCHANGED <<file, keys, tables, serving, todo, req, own, ops, fresh, lost>>

\* An empty master.key is no key, and an error; an empty api.key is replaced.
Replaced_Always(f) == f = "api"
Replaced(f) == f = "api" /\ file[f] = Empty

Read(p) ==
  /\ pc[p] = "read"
  /\ IF Replaced(FileOf(p)) THEN Creates(p) /\ UNCHANGED <<todo, key>>
     ELSE /\ IF file[FileOf(p)] \in Nat
             THEN /\ key' = [key EXCEPT ![p] = file[FileOf(p)]]
                  /\ pc' = [pc EXCEPT ![p] = todo[p]] /\ UNCHANGED todo
             ELSE Done(p) /\ UNCHANGED key
          /\ UNCHANGED raced
  /\ UNCHANGED <<file, keys, tables, serving, req, secret, connection, silent, ops,
                 fresh, lost>>

\* The file is created or emptied, and then written.
Create(p) ==
  /\ pc[p] = "create"
  /\ keys < MaxKeys /\ keys' = keys + 1
  /\ key' = [key EXCEPT ![p] = keys + 1]
  /\ file' = [file EXCEPT ![FileOf(p)] = Empty]
  /\ pc' = [pc EXCEPT ![p] = "write"]
  /\ UNCHANGED <<raced, tables, serving, todo, req, secret, connection, silent, ops,
                 fresh, lost>>

Write_Another(p) ==
  /\ pc[p] = "write"
  /\ file' = [file EXCEPT ![FileOf(p)] = keys + 1]
  /\ keys' = keys + 1
  /\ pc' = [pc EXCEPT ![p] = todo[p]]
  /\ UNCHANGED <<raced, tables, serving, todo, req, own, ops, fresh, lost>>

Write(p) ==
  /\ pc[p] = "write"
  /\ file' = [file EXCEPT ![FileOf(p)] = key[p]]
  /\ pc' = [pc EXCEPT ![p] = todo[p]]
  /\ UNCHANGED <<keys, raced, tables, serving, todo, req, own, ops, fresh, lost>>

Open(p) == Exists(p) \/ Read(p) \/ Create(p) \/ Write(p)
-----------------------------------------------------------------------------
Sealed(p, value) == [key |-> key[p], value |-> value]
Readable(p, token) == token.key = key[p]

\* SELECT ... WHERE name = ?: the name as it was sent.
Row(p) == IF req[p].padded THEN None ELSE pipelines[req[p].name]
Decrypts(p, row) ==
  Readable(p, row.secret) /\ (row.connection # None => Readable(p, row.connection))

\* create_pipeline: an empty field keeps what is stored in it.
Merged_Sealed(p) ==
  IF req[p].secret = Blank /\ Row(p) # None THEN Row(p).secret ELSE req[p].secret
Merged_Typed(p) == req[p].secret
Merged(p) ==
  IF req[p].secret = Blank /\ Row(p) # None /\ Row(p).field = Field[req[p].connector]
  THEN Row(p).secret.value ELSE req[p].secret

ToSave(p) == Opens(p, "save") /\ (req[p].needs => connection'[p] # Blank)

\* The request is refused when a secret cannot be read or is missing.
Load(p) ==
  /\ pc[p] = "load"
  /\ Row(p) # None => Decrypts(p, Row(p))
  /\ Merged(p) = Blank => req[p].connector \in Optional
  /\ secret' = [secret EXCEPT ![p] = Merged(p)]
  /\ fresh' = [fresh EXCEPT ![p] = TRUE]
  /\ UNCHANGED connection
  /\ IF req[p].dest # None THEN Opens(p, "dest") ELSE ToSave(p)
  /\ UNCHANGED <<disk, tables, serving, req, key, silent, ops, lost>>

\* get_saved_destination: a connection that cannot be read is none.
Dest(p) ==
  LET dest == saved[req[p].dest]
      readable == dest.connection = None \/ Readable(p, dest.connection)
  IN  /\ pc[p] = "dest"
      /\ dest # None
      /\ connection' = [connection EXCEPT ![p] = IF dest.connection # None /\ readable
                                                THEN dest.connection.value ELSE Blank]
      /\ silent' = [silent EXCEPT ![p] = ~readable]
      /\ dest.needs => connection'[p] # Blank
      /\ Opens(p, "save")
      /\ UNCHANGED <<disk, tables, serving, req, key, secret, ops, fresh, lost>>

\* Whoever has loaded a pipeline that changes now knows an older one.
Changes(p, row) ==
  /\ pipelines' = [pipelines EXCEPT ![req[p].name] = row]
  /\ fresh' = [q \in Procs |-> fresh[q] /\ req[q].name # req[p].name]
  /\ UNCHANGED <<saved, setting>>

\* The name is stored without spaces around it.
Save(p) ==
  /\ pc[p] = "save"
  /\ Changes(p, [field      |-> Field[req[p].connector],
                 secret     |-> Sealed(p, secret[p]),
                 connection |-> IF connection[p] = Blank THEN None
                                ELSE Sealed(p, connection[p])])
  /\ Done(p)
  /\ UNCHANGED <<disk, serving, req, own, ops, lost>>

Delete(p) ==
  /\ pc[p] = "delete"
  /\ IF req[p].padded THEN UNCHANGED <<tables, fresh>> ELSE Changes(p, None)
  /\ Done(p)
  /\ UNCHANGED <<disk, serving, req, own, ops, lost>>

\* A run loads its pipeline, and then the token if it has something to tell;
\* one that cannot be read is taken as it is stored.
Use(p) ==
  /\ pc[p] = "use"
  /\ Row(p) # None /\ Decrypts(p, Row(p))
  /\ secret' = [secret EXCEPT ![p] = Row(p).secret.value]
  /\ pc' = [pc EXCEPT ![p] = "notify"] /\ UNCHANGED todo
  /\ UNCHANGED <<disk, tables, serving, req, key, connection, silent, ops, fresh, lost>>

Notify(p) ==
  /\ pc[p] = "notify"
  /\ silent' = [silent EXCEPT ![p] = setting # None /\ ~Readable(p, setting)]
  /\ Done(p)
  /\ UNCHANGED <<disk, tables, serving, req, key, secret, connection, ops, fresh, lost>>

Keep(p) ==
  /\ pc[p] = "keep"
  /\ \E d \in Dests :
       /\ saved[d] = None
       /\ saved' = [saved EXCEPT ![d] =
            [needs |-> req[p].needs,
             connection |-> IF req[p].connection = Blank THEN None
                            ELSE Sealed(p, req[p].connection)]]
  /\ Done(p)
  /\ UNCHANGED <<disk, pipelines, setting, serving, req, own, ops, fresh, lost>>

Drop(p) ==
  /\ pc[p] = "forget"
  /\ saved' = [saved EXCEPT ![req[p].name] = None]
  /\ Done(p)
  /\ UNCHANGED <<disk, pipelines, setting, serving, req, own, ops, fresh, lost>>

Set(p) ==
  /\ pc[p] = "set"
  /\ setting' = Sealed(p, req[p].connection)
  /\ Done(p)
  /\ UNCHANGED <<disk, pipelines, saved, serving, req, own, ops, fresh, lost>>

\* _get_api_key, which the server's startup calls.
Serve(p) ==
  /\ pc[p] = "serve"
  /\ serving' = [serving EXCEPT ![p] = key[p]]
  /\ Done(p)
  /\ UNCHANGED <<disk, tables, req, own, ops, fresh, lost>>

Statement(p) == \/ Load(p) \/ Dest(p) \/ Save(p) \/ Delete(p) \/ Use(p) \/ Notify(p)
                \/ Keep(p) \/ Drop(p) \/ Set(p) \/ Serve(p)
-----------------------------------------------------------------------------
\* The request is refused, its statement fails, or its process dies.
Fail(p) ==
  /\ pc[p] # "idle"
  /\ Done(p)
  /\ UNCHANGED <<disk, tables, serving, req, own, ops, fresh, lost>>

\* A server stops.
Stop(p) ==
  /\ pc[p] = "idle" /\ serving[p] # None
  /\ serving' = [serving EXCEPT ![p] = None]
  /\ UNCHANGED <<disk, tables, pc, todo, req, own, ops, fresh, lost>>

\* The user moves the store to another machine and leaves a key behind.
Lose(f) ==
  /\ \A p \in Procs : pc[p] = "idle" /\ serving[p] = None
  /\ file[f] # Absent
  /\ file' = [file EXCEPT ![f] = Absent]
  /\ lost' = [lost EXCEPT ![f] = TRUE]
  /\ UNCHANGED <<keys, raced, tables, serving, pc, todo, req, own, ops, fresh>>

Next ==
  \/ \E p \in Procs, r \in Requests : Begin(p, r)
  \/ \E p \in Procs : Open(p) \/ Statement(p) \/ Fail(p) \/ Stop(p)
  \/ \E f \in Files : Lose(f)

Spec == Init /\ [][Next]_vars
-----------------------------------------------------------------------------
Token == [key : Nat, value : Typed]
Pipeline == [field      : {Field[x] : x \in DOMAIN Field},
             secret     : Token,
             connection : Token \cup {None}]
Destination == [needs : BOOLEAN, connection : Token \cup {None}]

TypeOK ==
  /\ file \in [Files -> Nat \cup {Absent, Empty}]
  /\ pipelines \in [Names -> Pipeline \cup {None}]
  /\ saved \in [Dests -> Destination \cup {None}]
  /\ setting \in Token \cup {None}
  /\ serving \in [Procs -> Nat \cup {None}]
  /\ pc \in [Procs -> {"idle", "exists", "read", "create", "write"} \cup Statements]
  /\ todo \in [Procs -> Statements]
  /\ req \in [Procs -> Requests]
  /\ key \in [Procs -> Nat]
  /\ secret \in [Procs -> Typed] /\ connection \in [Procs -> Typed]
  /\ silent \in [Procs -> BOOLEAN] /\ fresh \in [Procs -> BOOLEAN]
  /\ keys \in Nat /\ ops \in Nat
  /\ raced \in [Files -> BOOLEAN] /\ lost \in [Files -> BOOLEAN]

(* Whatever is stored was sealed with the key in master.key, and a running *)
(* server checks the one in api.key, unless two operations made the file   *)
(* at once or it has been lost.  An operation that dies halfway through    *)
(* making a key does no harm.                                              *)
Known == {pipelines[n] : n \in Names} \ {None}
Stored == ({setting} \cup {row.secret : row \in Known} \cup {row.connection : row \in Known}
             \cup {saved[d].connection : d \in {e \in Dests : saved[e] # None}}) \ {None}
Sound(f) == ~raced[f] /\ ~lost[f]

KeysAgree ==
  /\ Sound("master") => \A t \in Stored : t.key = file["master"]
  /\ Sound("api") => \A p \in Procs : serving[p] \in {None, file["api"]}

(* No operation works with less than the user gave it, or with a sealed    *)
(* token, because it could not read a value and went on: for that a key    *)
(* must have been lost or made twice.                                      *)
NothingGarbled == \A p \in Procs : silent[p] => ~Sound("master")

(* However a key came about, once it is there and nobody is making one, it *)
(* stays: the harm of two operations that made one at once is done.        *)
Settled(f) == file[f] \in Nat /\ \A p \in Procs : ~Making(p, f)
SettledStays ==
  [][\A f \in Files : Settled(f) =>
       file'[f] = Absent \/ (Settled(f)' /\ file'[f] = file[f])]_vars

(* Saving a pipeline with an empty secret field leaves its secret as it is,*)
(* whatever else the edit changes, if nobody else saved or deleted the     *)
(* pipeline since the edit loaded it and its name was sent as it is stored.*)
KeepsSecret(p) ==
  LET old == pipelines[req[p].name]
  IN  req[p].secret = Blank /\ ~req[p].padded /\ fresh[p]
        /\ old # None /\ old.field = Field[req[p].connector]
BlankKeeps ==
  [][\A p \in Procs : pc[p] = "save" /\ pc'[p] = "idle" /\ KeepsSecret(p) =>
       pipelines'[req[p].name].secret.value = pipelines[req[p].name].secret.value]_vars
=============================================================================
