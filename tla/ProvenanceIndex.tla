--------------------------- MODULE ProvenanceIndex ---------------------------
(***************************************************************************)
(* The index from an object to the events that refer to it                  *)
(* (index/provenance.py), kept in the database of the ledger, and the       *)
(* history an explanation lists (provenance/__init__.py _activities_for).   *)
(*                                                                          *)
(* Of an event only the ids in its payload matter (id_leaves).              *)
(* An event is indexed in its own transaction.  A failing statement is      *)
(* swallowed, so that the event still commits, and is remembered only by    *)
(* health, a flag in memory that is read and written outside the lock.      *)
(***************************************************************************)
EXTENDS Naturals, FiniteSets, SequencesExt

CONSTANTS Id,        \* ids of objects, as new_id forms them
          MaxEvents, \* bound on the ledger
          MaxFaults, \* bound on failing statements
          MaxOpens   \* bound on restarts

ASSUME BoundsAssumption == MaxEvents \in Nat /\ MaxFaults \in Nat /\ MaxOpens \in Nat

VARIABLES ledger,  \* the ids each event refers to
          rows,    \* the table prov_ref: pairs of an id and a seq
          health,  \* IndexHealth
          reader,  \* the explanation in progress
          keeper,  \* the rebuild in progress
          faults, opens,
          overlooked \* a fault the flag may have been made to forget

vars == <<ledger, rows, health, reader, keeper, faults, opens, overlooked>>

(* What a scan of the events up to n finds.                                 *)
ScanTo(id, n) == {i \in 1 .. n : id \in ledger[i]}
Scan(id) == ScanTo(id, Len(ledger))
RowsOf(i) == {<<id, i>> : id \in ledger[i]}
Exact == UNION {RowsOf(i) : i \in 1 .. Len(ledger)}

Seqs(id) == {row[2] : row \in {r \in rows : r[1] = id}}

(* Events of which the index has some references and lacks others.          *)
Partly == {i \in 1 .. Len(ledger) : RowsOf(i) \cap rows \notin {{}, RowsOf(i)}}

(* ensure_built compares numbers of events.                                 *)
NeedsBuilding == Cardinality({row[2] : row \in rows}) # Len(ledger)
-----------------------------------------------------------------------------
Init ==
  /\ ledger = << >>
  /\ rows = {} /\ health = "healthy"
  /\ reader = [stage |-> "idle"] /\ keeper = "idle"
  /\ faults = 0 /\ opens = 0 /\ overlooked = FALSE

(* record, in the transaction of the event.                                 *)
NewRows == {<<id, Len(ledger')>> : id \in Last(ledger')}

Record ==
  /\ rows' = rows \cup NewRows
  /\ UNCHANGED <<health, faults, overlooked>>

(* Mutant: the failure leaves the flag as it is.                            *)
RecordFailsSilently ==
  /\ faults < MaxFaults /\ faults' = faults + 1
  /\ \E kept \in SUBSET NewRows : rows' = rows \cup kept
  /\ overlooked' = (overlooked \/ keeper \in {"rebuilt", "verified"})
  /\ UNCHANGED health

(* DELETE or one of the INSERTs fails.                                      *)
RecordFails ==
  /\ faults < MaxFaults /\ faults' = faults + 1
  /\ \E kept \in SUBSET NewRows :
       kept # NewRows /\ rows' = rows \cup kept
  /\ health' = "degraded"
  /\ overlooked' = (overlooked \/ keeper \in {"rebuilt", "verified"})

(* A call that emits one event; its fault is swallowed and it commits.      *)
Write ==
  /\ Len(ledger) < MaxEvents
  /\ \E ids \in (SUBSET Id) \ {{}} : ledger' = Append(ledger, ids)
  /\ Record \/ RecordFails
  /\ UNCHANGED <<reader, keeper, opens>>

-----------------------------------------------------------------------------
(* _activities_for: ask usable_for; seqs_for asks again; then the SELECT,   *)
(* under the lock.                                                          *)
AtStage(s) == reader.stage = s

StartExplain == \E id \in Id :
  /\ reader.stage \in {"idle", "done"} /\ Scan(id) # {}
  /\ reader' = [stage |-> IF health = "healthy" THEN "usable" ELSE "scan", id |-> id]
  /\ UNCHANGED <<ledger, rows, health, keeper, faults, opens, overlooked>>

AskAgain ==
  /\ AtStage("usable")
  /\ reader' = IF health = "healthy"
                 THEN [stage |-> "select", id |-> reader.id, from |-> Len(ledger)]
                 ELSE [stage |-> "raised", id |-> reader.id]
  /\ UNCHANGED <<ledger, rows, health, keeper, faults, opens, overlooked>>

MarkDegraded ==
  /\ AtStage("raised")
  /\ health' = "degraded" /\ reader' = [reader EXCEPT !.stage = "scan"]
  /\ UNCHANGED <<ledger, rows, keeper, faults, opens, overlooked>>

Answer(from, seqs) ==
  /\ reader' = [stage |-> "done", id |-> reader.id, from |-> from, to |-> Len(ledger),
                seqs |-> seqs]
  /\ UNCHANGED <<ledger, rows, health, keeper, faults, opens, overlooked>>

Select == AtStage("select") /\ Answer(reader.from, Seqs(reader.id))
ScanLedger == AtStage("scan") /\ Answer(Len(ledger), Scan(reader.id))
-----------------------------------------------------------------------------
Keep(from, to) ==
  /\ keeper = from /\ keeper' = to
  /\ UNCHANGED <<ledger, reader, opens>>

(* rebuild: the flag, the transaction, the flag.                            *)
StartRebuild ==
  /\ Keep("idle", "rebuilding")
  /\ health' = "rebuilding"
  /\ UNCHANGED <<rows, faults, overlooked>>

Rebuild ==
  /\ Keep("rebuilding", "rebuilt")
  /\ rows' = Exact
  /\ UNCHANGED <<health, faults, overlooked>>

RebuildFails ==
  /\ Keep("rebuilding", "idle")
  /\ health' = "degraded"
  /\ UNCHANGED <<rows, faults, overlooked>>

EndRebuild ==
  /\ Keep("rebuilt", "idle")
  /\ health' = "healthy"
  /\ UNCHANGED <<rows, faults, overlooked>>

(* rebuild_projection: clear and record again, event by event, in one       *)
(* transaction; verify; and, if the index is found exact, the flag.         *)
Replay ==
  /\ Keep("idle", "replayed")
  /\ \/ rows' = Exact /\ UNCHANGED <<health, faults>>
     \/ /\ faults < MaxFaults /\ faults' = faults + 1
        /\ \E i \in 1 .. Len(ledger), kept \in SUBSET Exact :
             /\ Exact \ RowsOf(i) \subseteq kept /\ kept # Exact
             /\ rows' = kept
        /\ health' = "degraded"
  /\ overlooked' = (overlooked \/ (rows' # Exact /\ AtStage("select")))

VerifyReplay ==
  /\ Keep("replayed", IF rows = Exact THEN "verified" ELSE "idle")
  /\ health' = IF rows # Exact /\ health = "healthy" THEN "degraded" ELSE health
  /\ UNCHANGED <<rows, faults, overlooked>>

RestoreHealthy ==
  /\ Keep("verified", "idle")
  /\ health' = "healthy"
  /\ UNCHANGED <<rows, faults, overlooked>>

(* verify_index_consistency.                                                *)
VerifyIndex ==
  /\ rows # Exact /\ health = "healthy" /\ health' = "degraded"
  /\ UNCHANGED <<ledger, rows, reader, keeper, faults, opens, overlooked>>

(* The process ends and the file is opened again.                           *)
Reopen ==
  /\ opens < MaxOpens /\ opens' = opens + 1
  /\ health' = "healthy"
  /\ rows' = IF NeedsBuilding THEN Exact ELSE rows
  /\ overlooked' = (overlooked \/ Partly # {})
  /\ reader' = [stage |-> "idle"] /\ keeper' = "idle"
  /\ UNCHANGED <<ledger, faults>>

Next ==
  \/ Write
  \/ StartExplain \/ AskAgain \/ MarkDegraded \/ Select \/ ScanLedger
  \/ StartRebuild \/ Rebuild \/ RebuildFails \/ EndRebuild
  \/ Replay \/ VerifyReplay \/ RestoreHealthy \/ VerifyIndex
  \/ Reopen

Spec == Init /\ [][Next]_vars
-----------------------------------------------------------------------------
(* An explanation lists every event it could know of when it last looked at *)
(* the flag, and none that is not there, whichever way it was answered;     *)
(* unless a fault was overlooked: it fell between the end of a rebuild and  *)
(* its setting of the flag, or into a replay while the answer was between   *)
(* the flag and the table, or left part of an event in the table, which the *)
(* numbers compared at a restart do not tell from the whole.                *)
AnswersAreTheScan ==
  reader.stage = "done" /\ ~overlooked =>
    /\ ScanTo(reader.id, reader.from) \subseteq reader.seqs
    /\ reader.seqs \subseteq ScanTo(reader.id, reader.to)
-----------------------------------------------------------------------------
(* provenance/__init__.py line 57: any index problem falls back to the      *)
(* scan, so a broken index costs latency, never completeness.               *)
ExplainIsComplete ==
  reader.stage = "done" => ScanTo(reader.id, reader.from) \subseteq reader.seqs
=============================================================================
