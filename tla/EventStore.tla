----------------------------- MODULE EventStore -----------------------------
(***************************************************************************)
(* The store every engine call writes through: an append-only ledger, the   *)
(* projection of it onto queryable objects, and the one re-entrant lock     *)
(* under which a transaction changes both (storage/sqlite.py, and with the  *)
(* same contract storage/memory.py).                                        *)
(*                                                                          *)
(* ledger, objects      what is committed: what every reader sees, and what *)
(*                      a restart finds                                     *)
(* txLedger, txObjects  what the connection sees; they differ from the      *)
(*                      committed pair only while a transaction is open     *)
(* holder               the thread inside atomic(), or NoThread             *)
(*                                                                          *)
(* What an event is and how it is projected is left to the module that      *)
(* extends this one.  A record's seq is its position in the ledger.         *)
(***************************************************************************)
EXTENDS Naturals, Sequences

CONSTANTS Thread,     \* request threads sharing one Engine
          NoThread,   \* the lock is free
          MaxEvents   \* bound: transactions stop being opened at this length

ASSUME NoThreadAssumption == NoThread \notin Thread
ASSUME MaxEventsAssumption == MaxEvents \in Nat

VARIABLES ledger, objects, txLedger, txObjects, holder

storeVars == <<ledger, objects, txLedger, txObjects, holder>>

StoreInit(noObjects) ==
  /\ ledger = << >> /\ txLedger = << >>
  /\ objects = noObjects /\ txObjects = noObjects
  /\ holder = NoThread

(* A read outside a transaction takes the lock for its own duration, so it  *)
(* waits for an open transaction and then sees committed state.             *)
CanRead == holder = NoThread

(* Entering atomic(): BEGIN IMMEDIATE under the lock.                       *)
Begin(t, n) ==
  /\ holder = NoThread
  /\ Len(ledger) + n <= MaxEvents
  /\ holder' = t
  /\ UNCHANGED <<ledger, objects, txLedger, txObjects>>

(* One _emit: the record is appended and projected, inside the transaction. *)
Write(t, record, projected) ==
  /\ holder = t
  /\ txLedger' = Append(txLedger, record)
  /\ txObjects' = projected
  /\ UNCHANGED <<ledger, objects, holder>>

(* Only the projection changes (rebuild_projection).                        *)
Reproject(t, projected) ==
  /\ holder = t
  /\ txObjects' = projected
  /\ UNCHANGED <<ledger, objects, txLedger, holder>>

(* Leaving atomic() normally: COMMIT, then the lock is released.            *)
Commit(t) ==
  /\ holder = t
  /\ ledger' = txLedger /\ objects' = txObjects
  /\ holder' = NoThread
  /\ UNCHANGED <<txLedger, txObjects>>

(* Mutants: the projection is not restored; the lock is not released.       *)
RollbackLedgerOnly(t) ==
  /\ holder = t
  /\ txLedger' = ledger /\ holder' = NoThread
  /\ UNCHANGED <<ledger, objects, txObjects>>

RollbackKeepsLock(t) ==
  /\ holder = t
  /\ txLedger' = ledger /\ txObjects' = objects
  /\ UNCHANGED <<ledger, objects, holder>>

(* Leaving atomic() by an exception: ROLLBACK, and the lock is released.    *)
Rollback(t) ==
  /\ holder = t
  /\ txLedger' = ledger /\ txObjects' = objects
  /\ holder' = NoThread
  /\ UNCHANGED <<ledger, objects>>

(* The process dies: the open transaction is gone and committed state stays. *)
Recover ==
  /\ txLedger' = ledger /\ txObjects' = objects
  /\ holder' = NoThread
  /\ UNCHANGED <<ledger, objects>>
=============================================================================
