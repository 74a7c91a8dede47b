------------------------------ MODULE KeyFile -------------------------------
(***************************************************************************)
(* crypto.py: the Fernet key of a console without ENCRYPTION_KEY.  It is   *)
(* read from a file next to the database, or generated, written there and  *)
(* kept in the process's _fernet memo.  Nothing locks: the replicas that   *)
(* share the file, and the threads of one of them, may be anywhere in      *)
(* _get_fernet at once.                                                    *)
(*                                                                         *)
(* Keys are numbered in the order they are generated.                      *)
(***************************************************************************)
EXTENDS Naturals, FiniteSets

CONSTANTS
  Replica,      \* the processes
  Thread,       \* their request threads
  Homes,        \* to which replicas the threads may belong
  NULL

ASSUME HomesAssumption == Homes \subseteq [Thread -> Replica]
ASSUME ReplicasAreNoThreads == Replica \intersect Thread = {}
ASSUME NullAssumption == NULL \notin Nat

VARIABLES
  home,     \* the replica each thread belongs to
  volume,   \* what the file system lets the console do with the key file
  file,     \* the file: the key in it, 0 if it is empty, NULL if there is none
  made,     \* how many keys have been generated
  memo,     \* _fernet of each replica
  keyPc,    \* where each caller of _get_fernet is
  fresh,    \* the key it has resolved and not yet memoised
  key,      \* the key it goes on with
  raced     \* history: two callers were generating at once

keys == <<home, volume, file, made, memo, keyPc, fresh, key, raced>>

\* A replica's own startup code calls _get_fernet too.
Caller == Replica \union Thread
Process(a) == IF a \in Replica THEN a ELSE home[a]

Whole == file \notin {NULL, 0}

KeyInit ==
  /\ home \in Homes
  /\ volume \in {"ok", "readonly", "unreadable"}
  /\ file \in {NULL, 0, 1}
  /\ made = IF file = 1 THEN 1 ELSE 0
  /\ keyPc = [a \in Caller |-> "idle"]
  /\ fresh = [a \in Caller |-> NULL]
  /\ key = [a \in Caller |-> NULL]
  /\ raced = FALSE

Generating(a) == keyPc[a] \in {"persist", "write"}

\* _get_fernet returns the memo, whoever set it.
UseMemo(a) ==
  /\ keyPc[a] = "idle"
  /\ memo[Process(a)] # NULL
  /\ key' = [key EXCEPT ![a] = memo[Process(a)]]
  /\ keyPc' = [keyPc EXCEPT ![a] = "ready"]
  /\ UNCHANGED <<home, volume, file, made, memo, fresh, raced>>

LoadKey(a) ==
  /\ keyPc[a] = "idle"
  /\ memo[Process(a)] = NULL
  /\ Whole
  /\ volume # "unreadable"
  /\ fresh' = [fresh EXCEPT ![a] = file]
  /\ keyPc' = [keyPc EXCEPT ![a] = "keep"]
  /\ UNCHANGED <<home, volume, file, made, memo, key, raced>>

\* RuntimeError: a key file that is there and cannot be read is no reason for another
\* key.
CannotRead(a) ==
  /\ keyPc[a] = "idle"
  /\ memo[Process(a)] = NULL
  /\ file # NULL
  /\ volume = "unreadable"
  /\ keyPc' = [keyPc EXCEPT ![a] = "failed"]
  /\ UNCHANGED <<home, volume, file, made, memo, fresh, key, raced>>

\* Fault: a file that cannot be read is taken for none.
NoKeyInSight == ~Whole \/ volume = "unreadable"

\* No file, or an empty one that a crash has left.
NoKeyYet == file = NULL \/ (file = 0 /\ volume # "unreadable")

GenerateKey(a) ==
  /\ keyPc[a] = "idle"
  /\ memo[Process(a)] = NULL
  /\ NoKeyYet
  /\ made' = made + 1
  /\ fresh' = [fresh EXCEPT ![a] = made + 1]
  /\ keyPc' = [keyPc EXCEPT ![a] = "persist"]
  /\ raced' = (raced \/ \E b \in Caller \ {a} : Generating(b))
  /\ UNCHANGED <<home, volume, file, memo, key>>

\* write_bytes: the file is truncated first and written then.
TruncateFile(a) ==
  /\ keyPc[a] = "persist"
  /\ volume = "ok"
  /\ file' = 0
  /\ keyPc' = [keyPc EXCEPT ![a] = "write"]
  /\ UNCHANGED <<home, volume, made, memo, fresh, key, raced>>

WriteKey(a) ==
  /\ keyPc[a] = "write"
  /\ file' = fresh[a]
  /\ keyPc' = [keyPc EXCEPT ![a] = "keep"]
  /\ UNCHANGED <<home, volume, made, memo, fresh, key, raced>>

\* OSError: the process goes on with a key that only it will ever know.
CannotPersist(a) ==
  /\ keyPc[a] = "persist"
  /\ volume # "ok"
  /\ keyPc' = [keyPc EXCEPT ![a] = "keep"]
  /\ UNCHANGED <<home, volume, file, made, memo, fresh, key, raced>>

\* The memo is set; what is returned is read from it again.
KeepKey(a) ==
  /\ keyPc[a] = "keep"
  /\ memo' = [memo EXCEPT ![Process(a)] = fresh[a]]
  /\ fresh' = [fresh EXCEPT ![a] = NULL]
  /\ keyPc' = [keyPc EXCEPT ![a] = "idle"]
  /\ UNCHANGED <<home, volume, file, made, key, raced>>

KeyStep(a) ==
  \/ UseMemo(a) \/ LoadKey(a) \/ CannotRead(a) \/ GenerateKey(a)
  \/ TruncateFile(a) \/ WriteKey(a) \/ CannotPersist(a) \/ KeepKey(a)

\* encrypt or decrypt is done with the key, or with the failure to get one.
KeyDone(a) ==
  /\ keyPc' = [keyPc EXCEPT ![a] = "idle"]
  /\ key' = [key EXCEPT ![a] = NULL]
  /\ UNCHANGED <<home, volume, file, made, memo, fresh, raced>>

\* A process dies, wherever its callers are.
KeysLost(p) ==
  LET mine == {a \in Caller : Process(a) = p} IN
  /\ memo' = [memo EXCEPT ![p] = NULL]
  /\ keyPc' = [a \in Caller |-> IF a \in mine THEN "idle" ELSE keyPc[a]]
  /\ fresh' = [a \in Caller |-> IF a \in mine THEN NULL ELSE fresh[a]]
  /\ key' = [a \in Caller |-> IF a \in mine THEN NULL ELSE key[a]]
  /\ UNCHANGED <<home, volume, file, made, raced>>
=============================================================================
