----------------------------- MODULE LexicalIndex -----------------------------
(***************************************************************************)
(* The full-text index beside the objects (index/fts.py) and how the engine *)
(* keeps and uses it (core/__init__.py: _persist, search,                   *)
(* rebuild_projection, rebuild_index, verify_index_consistency).            *)
(*                                                                          *)
(* The index is two tables in the same database as the objects: the rows    *)
(* that queries match, and a map from an object to its row.  Both change in *)
(* the transaction that changes the object.  A failing statement of the     *)
(* index is swallowed, so that the object still commits; what remembers it  *)
(* is the flag health, which lives in memory only, is read and written      *)
(* outside the lock, and starts out "healthy" whenever the file is opened.  *)
(*                                                                          *)
(* A text stands for the set of objects a query for it must find.           *)
(***************************************************************************)
EXTENDS Naturals, Sequences, FiniteSets, FiniteSetsExt, Functions

CONSTANTS Thread, NoThread,
          Obj,        \* object ids
          Text,       \* searchable texts
          NoText,     \* the text of an object with nothing to search
          Absent,     \* no such object
          NoRow,      \* a row id not in use
          MaxEvents,  \* bound on the ledger
          MaxOpens,   \* bound on restarts
          MaxFaults,  \* bound on failed index statements between two clears
          Calls       \* the calls a run exercises

ASSUME NoThreadAssumption == NoThread \notin Thread
ASSUME TextAssumption == NoText \notin Text /\ Absent \notin Text \cup {NoText}
ASSUME ObjAssumption == IsFiniteSet(Obj)
ASSUME BoundsAssumption == MaxEvents \in Nat /\ MaxOpens \in Nat /\ MaxFaults \in Nat

VARIABLES disk,    \* committed tables
          conn,    \* the tables as the open transaction sees them
          holder,  \* the thread inside atomic()
          health,  \* IndexHealth, in memory
          pc, arg, \* each thread's progress, and the object it persists
          good,    \* what the verify in progress has found
          opens,   \* restarts so far
          unaware  \* a failure the flag does not know of may have happened

vars == <<disk, conn, holder, health, pc, arg, good, opens, unaware>>

(* Each event of a transaction inserts at most one row.                     *)
Rid == 1 .. MaxEvents + Cardinality(Obj)
Row == [obj : Obj, text : Text]

ASSUME NoRowAssumption == NoRow \notin Row

(* faults counts the statements that failed since the index was last        *)
(* cleared; it is bookkeeping of the model, not a table.                    *)
Tables == [ledger : Seq([obj : Obj, text : Text \cup {NoText}]),
           objects : [Obj -> Text \cup {NoText, Absent}],
           rows : [Rid -> Row \cup {NoRow}],
           map : [Obj -> Rid \cup {0}],
           faults : Nat]

Searchable(db) == {o \in Obj : db.objects[o] \in Text}
Indexed(db) == {o \in Obj : db.map[o] # 0}
InUse(db) == {r \in Rid : db.rows[r] # NoRow}
Content(db, r) == IF r \in InUse(db) THEN db.rows[r].text ELSE NoText

(* What a query for x finds, and what it should find.                       *)
Hits(db, x) == {db.rows[r].obj : r \in {q \in InUse(db) : db.rows[q].text = x}}
Live(db, x) == {o \in Obj : db.objects[o] = x}

(* The index finds every object under its text, once, and nothing else.     *)
Exact(db) == /\ \A x \in Text : Hits(db, x) = Live(db, x)
             /\ Cardinality(InUse(db)) = Cardinality(Searchable(db))
-----------------------------------------------------------------------------
(* reindex: SELECT the object's row; DELETE the row; DELETE the map entry;  *)
(* then, if there is text, INSERT a row; INSERT the map entry.              *)
Unmapped(db, o) == [db EXCEPT !.map[o] = 0]

WithoutRow(db, o) ==
  IF db.map[o] = 0 THEN db ELSE [db EXCEPT !.rows[db.map[o]] = NoRow]

(* SQLite hands out the row id after the largest in use.                    *)
NextRid(db) == IF InUse(db) = {} THEN 1 ELSE Max(InUse(db)) + 1

WithRow(db, o) ==
  [db EXCEPT !.rows[NextRid(db)] = [obj |-> o, text |-> db.objects[o]]]

Mapped(db, o, r) == [db EXCEPT !.map[o] = r]

Removed(db, o) == Unmapped(WithoutRow(db, o), o)

(* All statements succeed.                                                  *)
Reindexed(db, o) ==
  IF o \in Searchable(db)
    THEN LET bare == Removed(db, o)
         IN  Mapped(WithRow(bare, o), o, NextRid(bare))
    ELSE Removed(db, o)

(* What a failing statement leaves: it and those after it have no effect.   *)
Interrupted(db, o) ==
  LET broken == [db EXCEPT !.faults = @ + 1]
  IN  {broken}
        \cup (IF o \in Indexed(db) THEN {WithoutRow(broken, o)} ELSE {})
        \cup (IF o \in Searchable(db)
                THEN {Removed(broken, o), WithRow(Removed(broken, o), o)} ELSE {})

Cleared(db) == [db EXCEPT !.rows = [r \in Rid |-> NoRow],
                          !.map = [o \in Obj |-> 0], !.faults = 0]

(* Rows for every object with a text, numbered in whatever order SELECT      *)
(* gives them: each is reindexed into tables that do not have it yet.        *)
Rebuilt(db) ==
  LET found == Searchable(db)
      n == Cardinality(found)
  IN  {[Cleared(db) EXCEPT
          !.rows = [r \in Rid |-> IF r \in 1 .. n
                                   THEN [obj |-> order[r], text |-> db.objects[order[r]]]
                                   ELSE NoRow],
          !.map = [o \in Obj |-> IF o \in found THEN CHOOSE r \in 1 .. n : order[r] = o
                                                 ELSE 0]] :
        order \in Bijection(1 .. n, found)}

Put(db, o, x) == [db EXCEPT !.objects[o] = x]

(* Mutant: the rows are counted and not read.                               *)
ConsistentByCount(db) ==
  /\ Indexed(db) = Searchable(db)
  /\ Cardinality(Indexed(db)) = Cardinality(InUse(db))

(* verify: the mapped objects are the searchable ones, there are as many    *)
(* rows as map entries, and each mapped row holds its object's text.        *)
Consistent(db) ==
  /\ Indexed(db) = Searchable(db)
  /\ Cardinality(Indexed(db)) = Cardinality(InUse(db))
  /\ \A o \in Indexed(db) : Content(db, db.map[o]) = db.objects[o]

(* ensure_built: only numbers are compared when the file is opened.         *)
NeedsBuilding(db) ==
  /\ Cardinality({o \in Obj : db.objects[o] # Absent}) # Cardinality(Indexed(db))
  /\ Cardinality(Searchable(db)) # Cardinality(Indexed(db))
-----------------------------------------------------------------------------
Empty == [ledger |-> << >>, objects |-> [o \in Obj |-> Absent],
          rows |-> [r \in Rid |-> NoRow], map |-> [o \in Obj |-> 0], faults |-> 0]

Init ==
  /\ disk = Empty /\ conn = Empty
  /\ holder = NoThread
  /\ health = "healthy"
  /\ pc = [t \in Thread |-> "idle"]
  /\ arg = [t \in Thread |-> 0]
  /\ good = [t \in Thread |-> FALSE]
  /\ opens = 0
  /\ unaware = FALSE

Goto(t, place) == pc' = [pc EXCEPT ![t] = place]
LockIsFree == holder = NoThread

Acquire(t) == LockIsFree /\ holder' = t
Commit(t) == holder = t /\ disk' = conn /\ holder' = NoThread /\ UNCHANGED conn

(* Mutant: the index tables are not part of the transaction.                *)
RollbackObjectsOnly(t) ==
  /\ holder = t /\ holder' = NoThread
  /\ conn' = [conn EXCEPT !.ledger = disk.ledger, !.objects = disk.objects]
  /\ disk' = conn'

Rollback(t) == holder = t /\ conn' = disk /\ holder' = NoThread /\ UNCHANGED disk

(* A mutating call: the record is appended, the object stored.              *)
PutObject(t) ==
  /\ "put" \in Calls /\ pc[t] = "idle"
  /\ Len(conn.ledger) < MaxEvents
  /\ Acquire(t)
  /\ \E o \in Obj, x \in Text \cup {NoText} :
       /\ conn' = [Put(conn, o, x) EXCEPT !.ledger = Append(@, [obj |-> o, text |-> x])]
       /\ arg' = [arg EXCEPT ![t] = o]
  /\ Goto(t, "reindex")
  /\ UNCHANGED <<disk, health, good, opens, unaware>>

Reindex(t) ==
  /\ pc[t] = "reindex"
  /\ conn' = Reindexed(conn, arg[t])
  /\ Goto(t, "commit")
  /\ UNCHANGED <<disk, holder, health, arg, good, opens, unaware>>

(* A statement of t fails.  A thread that has looked at the tables and not  *)
(* yet written the flag does not know.                                      *)
StatementFails(t) ==
  /\ conn.faults < MaxFaults
  /\ health' = "degraded"
  /\ unaware' = (unaware \/ \E u \in Thread \ {t} : pc[u] \in {"rebuilt", "verified_rebuilt"})

(* The error is swallowed: the flag is set and the call goes on.            *)
ReindexFails(t) ==
  /\ pc[t] = "reindex"
  /\ StatementFails(t)
  /\ conn' \in Interrupted(conn, arg[t])
  /\ Goto(t, "commit")
  /\ UNCHANGED <<disk, holder, arg, good, opens>>

CommitPut(t) ==
  /\ pc[t] = "commit"
  /\ Commit(t)
  /\ Goto(t, "idle")
  /\ arg' = [arg EXCEPT ![t] = 0]
  /\ UNCHANGED <<health, good, opens, unaware>>

(* The call's own transaction fails after the object was stored.            *)
FailPut(t) ==
  /\ pc[t] \in {"reindex", "commit"}
  /\ Rollback(t)
  /\ Goto(t, "idle")
  /\ arg' = [arg EXCEPT ![t] = 0]
  /\ UNCHANGED <<health, good, opens, unaware>>
-----------------------------------------------------------------------------
(* search: the flag is read when the call starts and again by the index,    *)
(* both times without the lock; the query itself waits for the lock.        *)
StartSearch(t) ==
  /\ "search" \in Calls /\ pc[t] = "idle"
  /\ health = "healthy"
  /\ Goto(t, "search")
  /\ UNCHANGED <<disk, conn, holder, health, arg, good, opens, unaware>>

CheckHealth(t) ==
  /\ pc[t] = "search"
  /\ health = "healthy"
  /\ Goto(t, "query")
  /\ UNCHANGED <<disk, conn, holder, health, arg, good, opens, unaware>>

(* The index refuses, or the query raises: search marks it degraded and     *)
(* scans the objects.                                                       *)
FallBack(t) ==
  /\ pc[t] \in {"search", "query"}
  /\ pc[t] = "search" => health # "healthy"
  /\ health' = "degraded"
  /\ Goto(t, "idle")
  /\ UNCHANGED <<disk, conn, holder, arg, good, opens, unaware>>

Query(t) ==
  /\ pc[t] = "query"
  /\ LockIsFree
  /\ Goto(t, "idle")
  /\ UNCHANGED <<disk, conn, holder, health, arg, good, opens, unaware>>
-----------------------------------------------------------------------------
(* rebuild (rebuild_index): the flag is set before the transaction, and     *)
(* again after it, outside the lock.  Nobody sees inside the transaction.   *)
StartRebuild(t) ==
  /\ "rebuild_index" \in Calls /\ pc[t] = "idle"
  /\ health' = "rebuilding"
  /\ Goto(t, "rebuild")
  /\ UNCHANGED <<disk, conn, holder, arg, good, opens, unaware>>

Rebuild(t) ==
  /\ pc[t] = "rebuild"
  /\ LockIsFree
  /\ conn' \in Rebuilt(conn) /\ disk' = conn'
  /\ Goto(t, "rebuilt")
  /\ UNCHANGED <<holder, health, arg, good, opens, unaware>>

RebuildFails(t) ==
  /\ pc[t] = "rebuild"
  /\ LockIsFree
  /\ Goto(t, "rebuild_failed")
  /\ UNCHANGED <<disk, conn, holder, health, arg, good, opens, unaware>>

EndRebuild(t) ==
  /\ pc[t] \in {"rebuilt", "rebuild_failed"}
  /\ health' = IF pc[t] = "rebuilt" THEN "healthy" ELSE "degraded"
  /\ Goto(t, "idle")
  /\ UNCHANGED <<disk, conn, holder, arg, good, opens, unaware>>

(* rebuild_projection: objects and index are cleared and the ledger is      *)
(* replayed, in one transaction; failing index statements are swallowed.    *)
BeginReplay(t) ==
  /\ "rebuild_projection" \in Calls /\ pc[t] = "idle"
  /\ Acquire(t)
  /\ conn' = [Cleared(conn) EXCEPT !.objects = [o \in Obj |-> Absent]]
  /\ arg' = [arg EXCEPT ![t] = 0]
  /\ Goto(t, "replay")
  /\ UNCHANGED <<disk, health, good, opens, unaware>>

ReplayNext(t) ==
  /\ pc[t] = "replay"
  /\ arg[t] < Len(conn.ledger)
  /\ LET r == conn.ledger[arg[t] + 1]
         stored == Put(conn, r.obj, r.text)
     IN  \/ conn' = Reindexed(stored, r.obj) /\ UNCHANGED <<health, unaware>>
         \/ conn' \in Interrupted(stored, r.obj) /\ StatementFails(t)
  /\ arg' = [arg EXCEPT ![t] = @ + 1]
  /\ UNCHANGED <<disk, holder, pc, good, opens>>

CommitReplay(t) ==
  /\ pc[t] = "replay"
  /\ arg[t] = Len(conn.ledger)
  /\ Commit(t)
  /\ Goto(t, "verify_rebuilt")
  /\ arg' = [arg EXCEPT ![t] = 0]
  /\ UNCHANGED <<health, good, opens, unaware>>

FailReplay(t) ==
  /\ pc[t] = "replay"
  /\ Rollback(t)
  /\ Goto(t, "idle")
  /\ arg' = [arg EXCEPT ![t] = 0]
  /\ UNCHANGED <<health, good, opens, unaware>>

(* verify reads under the lock and writes the flag after releasing it; at   *)
(* the end of rebuild_projection a good index is also declared healthy (the *)
(* mutant declares any index healthy there).                                *)
StartVerify(t) ==
  /\ "verify" \in Calls /\ pc[t] = "idle"
  /\ Goto(t, "verify")
  /\ UNCHANGED <<disk, conn, holder, health, arg, good, opens, unaware>>

Verify(t) ==
  /\ pc[t] \in {"verify", "verify_rebuilt"}
  /\ LockIsFree
  /\ good' = [good EXCEPT ![t] = Consistent(conn)]
  /\ Goto(t, IF pc[t] = "verify" THEN "verified" ELSE "verified_rebuilt")
  /\ UNCHANGED <<disk, conn, holder, health, arg, opens, unaware>>

EndVerifyBlindly(t) ==
  /\ pc[t] \in {"verified", "verified_rebuilt"}
  /\ health' = CASE pc[t] = "verified_rebuilt" -> "healthy"
                 [] ~good[t] /\ health = "healthy" -> "degraded"
                 [] OTHER -> health
  /\ good' = [good EXCEPT ![t] = FALSE]
  /\ Goto(t, "idle")
  /\ UNCHANGED <<disk, conn, holder, arg, opens, unaware>>

EndVerify(t) ==
  /\ pc[t] \in {"verified", "verified_rebuilt"}
  /\ health' = CASE ~good[t] /\ health = "healthy" -> "degraded"
                 [] good[t] /\ pc[t] = "verified_rebuilt" -> "healthy"
                 [] OTHER -> health
  /\ good' = [good EXCEPT ![t] = FALSE]
  /\ Goto(t, "idle")
  /\ UNCHANGED <<disk, conn, holder, arg, opens, unaware>>

(* The process ends, in whatever state, and the file is opened again:       *)
(* health starts afresh and ensure_built runs before any call.              *)
Reopen ==
  /\ opens < MaxOpens
  /\ opens' = opens + 1
  /\ disk' \in IF NeedsBuilding(disk) THEN Rebuilt(disk) ELSE {disk}
  /\ conn' = disk'
  /\ holder' = NoThread
  /\ health' = "healthy"
  /\ pc' = [t \in Thread |-> "idle"]
  /\ arg' = [t \in Thread |-> 0]
  /\ good' = [t \in Thread |-> FALSE]
  /\ unaware' = TRUE

Next ==
  \/ \E t \in Thread :
       \/ PutObject(t) \/ Reindex(t) \/ ReindexFails(t) \/ CommitPut(t) \/ FailPut(t)
       \/ StartSearch(t) \/ CheckHealth(t) \/ FallBack(t) \/ Query(t)
       \/ StartRebuild(t) \/ Rebuild(t) \/ RebuildFails(t) \/ EndRebuild(t)
       \/ BeginReplay(t) \/ ReplayNext(t) \/ CommitReplay(t) \/ FailReplay(t)
       \/ StartVerify(t) \/ Verify(t) \/ EndVerify(t)
  \/ Reopen

Spec == Init /\ [][Next]_vars
-----------------------------------------------------------------------------
(* Type invariant of the tables, the flag and the calls in flight.          *)
TypeOK ==
  /\ disk \in Tables /\ conn \in Tables
  /\ holder \in Thread \cup {NoThread}
  /\ health \in {"healthy", "degraded", "rebuilding"}
  /\ pc \in [Thread -> {"idle", "reindex", "commit", "search", "query", "rebuild",
                        "rebuilt", "rebuild_failed", "replay", "verify",
                        "verify_rebuilt", "verified", "verified_rebuilt"}]
  /\ arg \in [Thread -> Obj \cup 0 .. MaxEvents]
  /\ good \in [Thread -> BOOLEAN]
  /\ opens \in 0 .. MaxOpens
  /\ unaware \in BOOLEAN

(* The index drifts from the objects only through a statement that failed:  *)
(* rolled-back transactions, crashes, racing rebuilds and reopening keep    *)
(* the two in step (ADR-017), and a rebuild repairs whatever had drifted.   *)
DriftNeedsFault == disk.faults = 0 => Exact(disk)

(* The checks of verify are enough to notice any one failed statement,      *)
(* wherever in reindex it failed and whatever was written afterwards.  (Two *)
(* are not always noticed: SQLite may give a lost row's id to another row   *)
(* of the same text, while a row nobody maps keeps the count right.)        *)
OneFaultIsDetected == disk.faults = 1 /\ Consistent(disk) => Exact(disk)

(* Until the file is reopened, until a statement fails just as another      *)
(* thread ends a rebuild, and while no more than one statement has failed,  *)
(* the flag is honest: "healthy" means exact, also after a rebuild of the   *)
(* index or of the projection restored it.                                  *)
FlagIsHonest ==
  ~unaware /\ disk.faults <= 1 /\ health = "healthy" /\ LockIsFree => Exact(disk)

(* ADR-019: search never returns stale or incomplete data: whenever a query *)
(* is about to be answered from the index, the index is exact.              *)
SearchIsNeverStale ==
  \A t \in Thread : pc[t] = "query" /\ LockIsFree => Exact(disk)
=============================================================================
