------------------------------ MODULE Startup -------------------------------
(***************************************************************************)
(* The lifespan of a replica, main.py: create_tables, the additive schema  *)
(* upgrade in one transaction (schema_upgrade.py), the bootstrap           *)
(* administrator (identity/service.py) and the adoption of the one local   *)
(* cluster of the kubeconfig (k8s/adoption.py, k8s/kubeconfig.py).         *)
(* Replicas may start together on one database.  A startup that fails ends *)
(* the process, and the platform starts it again.                          *)
(*                                                                         *)
(* The registry is one row, or the name of one row: a second registration  *)
(* is a Conflict.                                                          *)
(***************************************************************************)
EXTENDS KeyFile, Sequences

CONSTANTS
  Columns,      \* ADDITIVE_COLUMNS in their order
  Kubeconfigs,  \* what discovery may find: a set of contexts, or NULL
  InContainer,  \* running_in_container
  MaxCrashes    \* bound: how often replicas die or are stopped

ASSUME StartupAssumption == MaxCrashes \in Nat /\ InContainer \in BOOLEAN

VARIABLES
  tables,       \* are the tables there
  columns,      \* the additive columns that are committed
  lock,         \* the replica whose transaction has altered a table
  admins,       \* how many accounts there are
  kubeconfig,   \* the kubeconfig of the machine
  boot,         \* where each replica's lifespan is
  missing,      \* what its last query found missing
  position,     \* the column its upgrade is at
  added,        \* the columns it has added and not committed
  crashes,      \* how often replicas have died
  row,          \* the registered cluster, or NULL
  stamp         \* the newest updated_at

schema   == <<tables, columns, lock, admins, kubeconfig>>
progress == <<missing, position, added>>
registry == <<row, stamp>>

Row(content, by, origin, impersonate) ==
  [id |-> stamp + 1, stamp |-> stamp + 1, content |-> content, key |-> by, origin |-> origin,
   impersonate |-> impersonate]

StartupInit ==
  /\ tables \in BOOLEAN
  /\ columns \in IF tables THEN {{Columns[i] : i \in 1..n} : n \in 0..Len(Columns)} ELSE {{}}
  /\ lock = NULL
  /\ admins \in IF tables THEN {0, 1} ELSE {0}
  /\ kubeconfig \in Kubeconfigs
  /\ missing = [p \in Replica |-> FALSE]
  /\ position = [p \in Replica |-> 1]
  /\ added = [p \in Replica |-> {}]
  /\ crashes = 0
  /\ stamp = 1

Moves(p, to) == boot' = [boot EXCEPT ![p] = to]

\* An exception in the lifespan: the process ends, its transaction is rolled back.
Ends(p) ==
  /\ Moves(p, "down")
  /\ missing' = [missing EXCEPT ![p] = FALSE]
  /\ position' = [position EXCEPT ![p] = 1]
  /\ added' = [added EXCEPT ![p] = {}]

Start(p) ==
  /\ boot[p] = "down"
  /\ Moves(p, "tables")
  /\ UNCHANGED <<keys, schema, progress, crashes, registry>>

-----------------------------------------------------------------------------
(* create_all asks which tables there are, and creates those that are not. *)

AskTables(p) ==
  /\ boot[p] = "tables"
  /\ missing' = [missing EXCEPT ![p] = ~tables]
  /\ Moves(p, "create")
  /\ UNCHANGED <<keys, schema, position, added, crashes, registry>>

\* A table another replica has created meanwhile is an error.
CreateTables(p) ==
  /\ boot[p] = "create"
  /\ IF missing[p] /\ tables
     THEN Ends(p) /\ UNCHANGED <<tables, columns>>
     ELSE /\ tables' = TRUE
          /\ columns' = IF missing[p] THEN {Columns[i] : i \in DOMAIN Columns} ELSE columns
          /\ Moves(p, "upgrade")
          /\ UNCHANGED progress
  /\ UNCHANGED <<keys, lock, admins, kubeconfig, crashes, registry>>

\* Fault: the catalogue is read through a second connection.
ReadableElsewhere(p) == lock = NULL

\* ALTER TABLE locks the table until its transaction ends.  The catalogue is read on
\* the connection that holds the lock.
Readable(p) == lock \in {NULL, p}

Current(p) == columns \union added[p]

\* _existing_columns: the next column is there, or is to be added.
InspectColumn(p) ==
  /\ boot[p] = "upgrade"
  /\ position[p] <= Len(Columns)
  /\ Readable(p)
  /\ IF Columns[position[p]] \in Current(p)
     THEN position' = [position EXCEPT ![p] = @ + 1] /\ UNCHANGED boot
     ELSE Moves(p, "alter") /\ UNCHANGED position
  /\ UNCHANGED <<keys, schema, missing, added, crashes, registry>>

\* ALTER TABLE ... ADD COLUMN.  A column another replica has committed since is a
\* duplicate, which is raised.
AddColumn(p) ==
  /\ boot[p] = "alter"
  /\ lock \in {NULL, p}
  /\ IF Columns[position[p]] \in columns
     THEN /\ Ends(p)
          /\ lock' = NULL
     ELSE /\ added' = [added EXCEPT ![p] = @ \union {Columns[position[p]]}]
          /\ position' = [position EXCEPT ![p] = @ + 1]
          /\ lock' = p
          /\ Moves(p, "upgrade")
          /\ UNCHANGED missing
  /\ UNCHANGED <<keys, tables, columns, admins, kubeconfig, crashes, registry>>

\* The indexes, which may be there already, and the COMMIT.
CommitUpgrade(p) ==
  /\ boot[p] = "upgrade"
  /\ position[p] > Len(Columns)
  /\ Readable(p)
  /\ columns' = Current(p)
  /\ added' = [added EXCEPT ![p] = {}]
  /\ lock' = NULL
  /\ Moves(p, "schema")
  /\ UNCHANGED <<keys, tables, admins, kubeconfig, missing, position, crashes, registry>>

\* assert_schema_current
CheckSchema(p) ==
  /\ boot[p] = "schema"
  /\ Readable(p)
  /\ IF \A i \in DOMAIN Columns : Columns[i] \in columns
     THEN Moves(p, "admin") /\ UNCHANGED progress
     ELSE Ends(p)
  /\ UNCHANGED <<keys, schema, crashes, registry>>

-----------------------------------------------------------------------------
(* ensure_bootstrap_admin counts the accounts, and creates the first. *)

CountAccounts(p) ==
  /\ boot[p] = "admin"
  /\ missing' = [missing EXCEPT ![p] = admins = 0]
  /\ Moves(p, "bootstrap")
  /\ UNCHANGED <<keys, schema, position, added, crashes, registry>>

\* create_local_user: the name is taken, by its own query or by the UNIQUE column.
CreateAdministrator(p) ==
  /\ boot[p] = "bootstrap"
  /\ IF missing[p] /\ admins > 0
     THEN Ends(p) /\ UNCHANGED admins
     ELSE /\ admins' = IF missing[p] THEN 1 ELSE admins
          /\ Moves(p, "adopt")
          /\ UNCHANGED progress
  /\ UNCHANGED <<keys, tables, columns, lock, kubeconfig, crashes, registry>>

-----------------------------------------------------------------------------
(* adopt_local_cluster: whatever goes wrong, the replica serves. *)

\* classify: written by a local tool, by its name or by the path of the file.
Distribution(context) == context.tool

\* _host_is_local: a name that is not an address could be anywhere.
HostIsLocal(context) == context.host \in {"loopback", "private"}

\* _credential_kind: only a token or a certificate can be copied.
Importable(context) == context.credential \in {"token", "client_certificate"}

Concern(context) == InContainer /\ context.host = "loopback"

Adoptable(contexts) ==
  {c \in contexts : Importable(c) /\ Distribution(c) /\ HostIsLocal(c) /\ ~Concern(c)}

WouldAdopt == row = NULL /\ kubeconfig # NULL /\ Cardinality(Adoptable(kubeconfig)) = 1

AdoptNothing(p) ==
  /\ boot[p] = "adopt"
  /\ \/ keyPc[p] = "idle" /\ ~WouldAdopt /\ UNCHANGED keys
     \/ keyPc[p] = "failed" /\ KeyDone(p)
  /\ Moves(p, "serving")
  /\ UNCHANGED <<schema, progress, crashes, registry>>

\* The registry is empty and one context qualifies: its credential is encrypted.
AdoptEncrypts(p) ==
  /\ boot[p] = "adopt"
  /\ WouldAdopt \/ keyPc[p] # "idle"
  /\ KeyStep(p)
  /\ UNCHANGED <<schema, boot, progress, crashes, registry>>

\* register_context.  A Conflict is one more reason to adopt nothing.
Adopt(p) ==
  /\ boot[p] = "adopt"
  /\ keyPc[p] = "ready"
  /\ row' = IF row = NULL THEN Row(stamp + 1, key[p], "autodiscovered", FALSE) ELSE row
  /\ stamp' = IF row = NULL THEN stamp + 1 ELSE stamp
  /\ KeyDone(p)
  /\ Moves(p, "serving")
  /\ UNCHANGED <<schema, progress, crashes>>

StartupStep(p) ==
  \/ Start(p) \/ AskTables(p) \/ CreateTables(p)
  \/ InspectColumn(p) \/ AddColumn(p) \/ CommitUpgrade(p) \/ CheckSchema(p)
  \/ CountAccounts(p) \/ CreateAdministrator(p)
  \/ AdoptEncrypts(p) \/ AdoptNothing(p) \/ Adopt(p)
=============================================================================
