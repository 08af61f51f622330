--------------------------- MODULE ProvenanceProofs ---------------------------
(***************************************************************************)
(* Proofs about ProvenanceIndex, for any ids, any number of events, faults  *)
(* and restarts.                                                            *)
(***************************************************************************)
EXTENDS ProvenanceIndex, FiniteSetTheorems, TLAPS

Idle == [stage : {"idle"}]
Asking == [stage : {"usable", "raised", "scan"}, id : Id]
Selecting == [stage : {"select"}, id : Id, from : Nat]
Answered == [stage : {"done"}, id : Id, from : Nat, to : Nat, seqs : SUBSET Nat]

LedgerType == ledger \in Seq((SUBSET Id) \ {{}}) /\ rows \subseteq Exact

ProvenanceType ==
  /\ LedgerType
  /\ health \in {"healthy", "degraded", "rebuilding"}
  /\ keeper \in {"idle", "rebuilding", "rebuilt", "replayed", "verified"}
  /\ overlooked \in BOOLEAN
  /\ reader \in Idle \cup Asking \cup Selecting \cup Answered

(* A flag that says healthy, or is about to, speaks of an exact table,      *)
(* unless a fault was overlooked.                                           *)
FlagInv ==
  ~overlooked /\ (health = "healthy" \/ keeper \in {"rebuilt", "verified"}) => rows = Exact

(* Between the flag and the table the table may cease to be exact, but it   *)
(* keeps the references to the events there were when the flag was read.    *)
SelectInv ==
  reader.stage = "select" =>
    /\ reader.from <= Len(ledger)
    /\ ~overlooked => ScanTo(reader.id, reader.from) \subseteq Seqs(reader.id)

DoneInv ==
  reader.stage = "done" => reader.from <= Len(ledger) /\ reader.to <= Len(ledger)

ProvenanceInv == ProvenanceType /\ FlagInv /\ SelectInv /\ DoneInv /\ AnswersAreTheScan
-----------------------------------------------------------------------------
(* The table and the scan.                                                  *)
LEMMA ExactMember ==
  ASSUME NEW x
  PROVE  x \in Exact <=> \E i \in 1 .. Len(ledger) : \E id \in ledger[i] : x = <<id, i>>
<1>1. x \in Exact <=> \E i \in 1 .. Len(ledger) : x \in RowsOf(i)
  BY Zenon DEF Exact
<1>2. \A i : x \in RowsOf(i) <=> \E id \in ledger[i] : x = <<id, i>>
  BY DEF RowsOf
<1>3. QED
  BY <1>1, <1>2

SeqsIn(table, id) == {row[2] : row \in {r \in table : r[1] = id}}

LEMMA SeqsMember ==
  ASSUME NEW table, table \subseteq Exact, NEW id, NEW i
  PROVE  i \in SeqsIn(table, id) <=> <<id, i>> \in table
<1>1. \A x \in table : \E j \in 1 .. Len(ledger) : \E d \in ledger[j] : x = <<d, j>>
  BY ExactMember
<1>2. ASSUME i \in SeqsIn(table, id) PROVE <<id, i>> \in table
  <2>1. PICK x \in table : x[1] = id /\ x[2] = i
    BY <1>2 DEF SeqsIn
  <2>2. QED
    BY <1>1, <2>1
<1>3. ASSUME <<id, i>> \in table PROVE i \in SeqsIn(table, id)
  BY <1>3 DEF SeqsIn
<1>4. QED
  BY <1>2, <1>3

(* What a table says of an id is never more than the scan finds, and, of    *)
(* an exact table, exactly that.                                            *)
LEMMA SeqsAreScanned ==
  ASSUME NEW table, table \subseteq Exact, NEW id
  PROVE  /\ SeqsIn(table, id) \subseteq Scan(id)
         /\ table = Exact => SeqsIn(table, id) = Scan(id)
<1>1. \A i : i \in Scan(id) <=> i \in 1 .. Len(ledger) /\ id \in ledger[i]
  BY DEF Scan, ScanTo
<1>2. \A i : <<id, i>> \in Exact <=> i \in Scan(id)
  BY <1>1, ExactMember
<1>3. \A i : i \in SeqsIn(table, id) <=> <<id, i>> \in table
  BY SeqsMember
<1>4. QED
  BY <1>2, <1>3

(* One more event adds its rows to what the table should be, and leaves     *)
(* what a scan of the events before it finds.                               *)
LEMMA OneMoreEvent ==
  ASSUME LedgerType, NEW ids \in (SUBSET Id) \ {{}}, ledger' = Append(ledger, ids)
  PROVE  /\ ledger' \in Seq((SUBSET Id) \ {{}}) /\ Len(ledger') = Len(ledger) + 1
         /\ Len(ledger) \in Nat
         /\ Exact' = Exact \cup NewRows
         /\ \A id, n : n \in Nat /\ n <= Len(ledger) => ScanTo(id, n)' = ScanTo(id, n)
<1>1. /\ ledger' \in Seq((SUBSET Id) \ {{}}) /\ Len(ledger') = Len(ledger) + 1
      /\ Len(ledger) \in Nat
      /\ ledger'[Len(ledger) + 1] = ids
      /\ \A i \in 1 .. Len(ledger) : ledger'[i] = ledger[i]
  BY DEF LedgerType
<1>2. NewRows = {<<id, Len(ledger) + 1>> : id \in ids}
  BY <1>1 DEF NewRows, Last
<1>3. ASSUME NEW x PROVE x \in Exact' <=> x \in Exact \cup NewRows
  <2>1. x \in Exact' <=> \E i \in 1 .. Len(ledger') : \E id \in ledger'[i] : x = <<id, i>>
    <3>1. x \in Exact' <=> \E i \in 1 .. Len(ledger') : x \in RowsOf(i)'
      BY Zenon DEF Exact
    <3>2. \A i : x \in RowsOf(i)' <=> \E id \in ledger'[i] : x = <<id, i>>
      BY DEF RowsOf
    <3>3. QED
      BY <3>1, <3>2
  <2>2. \A i : i \in 1 .. Len(ledger') <=> i \in 1 .. Len(ledger) \/ i = Len(ledger) + 1
    BY <1>1
  <2>3. QED
    BY <1>1, <1>2, <2>1, <2>2, ExactMember
<1>4. ASSUME NEW id, NEW n \in Nat, n <= Len(ledger) PROVE ScanTo(id, n)' = ScanTo(id, n)
  BY <1>1, <1>4 DEF ScanTo
<1>5. QED
  BY <1>1, <1>3, <1>4
-----------------------------------------------------------------------------
(* ensure_built compares numbers only.  That is enough to tell an index     *)
(* that lacks an event; an event it has a part of is what Partly is about.  *)
LEMMA NumbersSuffice ==
  ASSUME LedgerType, ~NeedsBuilding, Partly = {}
  PROVE  rows = Exact
<1> DEFINE N == Len(ledger)
           Held == {row[2] : row \in rows}
<1>1. N \in Nat /\ \A i \in 1 .. N : ledger[i] # {}
  BY DEF LedgerType
<1>2. Held \subseteq 1 .. N
  <2>1. \A x \in rows : \E j \in 1 .. N : \E d \in ledger[j] : x = <<d, j>>
    BY ExactMember DEF LedgerType
  <2>2. QED
    BY <2>1
<1>3. Held = 1 .. N
  <2>1. IsFiniteSet(1 .. N) /\ Cardinality(1 .. N) = N
    BY <1>1, FS_Interval
  <2>2. Cardinality(Held) = N
    BY DEF NeedsBuilding
  <2>3. QED
    BY <1>2, <2>1, <2>2, FS_Subset
<1>4. ASSUME NEW i \in 1 .. N PROVE RowsOf(i) \subseteq rows
  <2>1. PICK x \in rows : x[2] = i
    BY <1>3, <1>4
  <2>2. PICK j \in 1 .. N : \E d \in ledger[j] : x = <<d, j>>
    BY <2>1, ExactMember DEF LedgerType
  <2>3. x \in RowsOf(i)
    BY <2>1, <2>2 DEF RowsOf
  <2>4. RowsOf(i) \cap rows \in {{}, RowsOf(i)}
    BY <1>4 DEF Partly
  <2>5. QED
    BY <2>1, <2>3, <2>4
<1>5. Exact \subseteq rows
  BY <1>4 DEF Exact
<1>6. QED
  BY <1>5 DEF LedgerType
-----------------------------------------------------------------------------
(* The steps.                                                               *)
LEMMA ProvenanceInitial == Init => ProvenanceInv
<1> SUFFICES ASSUME Init PROVE ProvenanceInv
  OBVIOUS
<1>1. LedgerType /\ rows = Exact
  <2>1. ledger = << >> /\ Len(ledger) = 0
    BY DEF Init
  <2>2. Exact = {}
    BY <2>1, ExactMember
  <2>3. QED
    BY <2>1, <2>2 DEF Init, LedgerType
<1>2. QED
  BY <1>1 DEF Init, ProvenanceInv, ProvenanceType, FlagInv, SelectInv, DoneInv,
     AnswersAreTheScan, Idle

(* What stays when the ledger and the reader do not change, the table loses *)
(* only what the flag admits and no fault is forgotten to be overlooked.    *)
LEMMA KeeperStep ==
  ASSUME ProvenanceInv, UNCHANGED <<ledger, reader>>,
         LedgerType', health' \in {"healthy", "degraded", "rebuilding"},
         keeper' \in {"idle", "rebuilding", "rebuilt", "replayed", "verified"},
         overlooked' \in BOOLEAN, overlooked => overlooked', FlagInv',
         \/ rows' = rows \/ rows' = Exact \/ reader.stage # "select" \/ overlooked'
  PROVE  ProvenanceInv'
<1>1. ProvenanceType'
  BY DEF ProvenanceInv, ProvenanceType
<1>2. Exact' = Exact /\ \A id, n : ScanTo(id, n)' = ScanTo(id, n)
  <2>1. Exact' = Exact
    BY DEF Exact, RowsOf
  <2>2. QED
    BY <2>1 DEF ScanTo
<1>3. SelectInv'
  <2>1. CASE rows' = rows
    BY <2>1, <1>2 DEF ProvenanceInv, SelectInv, Seqs
  <2>2. CASE rows' = Exact
    <3>1. Seqs(reader.id)' = Scan(reader.id)
      BY <2>2, SeqsAreScanned DEF Seqs, SeqsIn
    <3>2. reader.stage = "select" => ScanTo(reader.id, reader.from) \subseteq Scan(reader.id)
      BY DEF ProvenanceInv, SelectInv, Scan, ScanTo, ProvenanceType, LedgerType, Selecting, Idle, Asking, Answered
    <3>3. QED
      BY <3>1, <3>2, <1>2 DEF ProvenanceInv, SelectInv
  <2>3. CASE reader.stage # "select" \/ overlooked'
    BY <2>3 DEF ProvenanceInv, SelectInv
  <2>4. QED
    BY <2>1, <2>2, <2>3
<1>4. DoneInv' /\ AnswersAreTheScan'
  BY <1>2 DEF ProvenanceInv, DoneInv, AnswersAreTheScan
<1>5. QED
  BY <1>1, <1>3, <1>4 DEF ProvenanceInv

(* A call commits: the event is in, and its rows, or a part of them.        *)
LEMMA WriteStep == ASSUME ProvenanceInv, Write PROVE ProvenanceInv'
<1>1. PICK ids \in (SUBSET Id) \ {{}} : ledger' = Append(ledger, ids)
  BY DEF Write
<1>2. /\ ledger' \in Seq((SUBSET Id) \ {{}}) /\ Len(ledger') = Len(ledger) + 1
      /\ Len(ledger) \in Nat
      /\ Exact' = Exact \cup NewRows
      /\ \A id, n : n \in Nat /\ n <= Len(ledger) => ScanTo(id, n)' = ScanTo(id, n)
  BY <1>1, OneMoreEvent DEF ProvenanceInv, ProvenanceType
<1>3. rows \subseteq rows' /\ rows' \subseteq rows \cup NewRows
  BY DEF Write, Record, RecordFails
<1>4. UNCHANGED <<reader, keeper>> /\ (overlooked => overlooked')
  <2>1. Record \/ RecordFails => (overlooked => overlooked')
    BY Zenon DEF Record, RecordFails
  <2>2. QED
    BY <2>1 DEF Write
<1>5. ProvenanceType'
  BY <1>2, <1>3, <1>4 DEF ProvenanceInv, ProvenanceType, LedgerType, Write, Record, RecordFails
<1>6. FlagInv'
  <2>1. CASE Record
    BY <2>1, <1>2, <1>4 DEF Record, ProvenanceInv, FlagInv
  <2>2. CASE RecordFails
    BY <2>2, <1>4 DEF RecordFails, FlagInv
  <2>3. QED
    BY <2>1, <2>2 DEF Write
<1>7. SelectInv'
  <2>1. \A id : Seqs(id) \subseteq Seqs(id)'
    BY <1>3 DEF Seqs
  <2>2. reader.stage = "select" => reader.from \in Nat
    BY DEF ProvenanceInv, ProvenanceType, Idle, Asking, Selecting, Answered
  <2>3. QED
    BY <1>2, <1>4, <2>1, <2>2 DEF ProvenanceInv, SelectInv
<1>8. DoneInv' /\ AnswersAreTheScan'
  <2>1. reader.stage = "done" => reader.from \in Nat /\ reader.to \in Nat
    BY DEF ProvenanceInv, ProvenanceType, Idle, Asking, Selecting, Answered
  <2>2. QED
    BY <1>2, <1>4, <2>1 DEF ProvenanceInv, DoneInv, AnswersAreTheScan
<1>9. QED
  BY <1>5, <1>6, <1>7, <1>8 DEF ProvenanceInv

(* An explanation advances: the tables do not change.                       *)
LEMMA ReaderStep ==
  ASSUME ProvenanceInv,
         StartExplain \/ AskAgain \/ MarkDegraded \/ Select \/ ScanLedger
  PROVE  ProvenanceInv'
<1>1. UNCHANGED <<ledger, rows, keeper, overlooked>> /\ health' \in {health, "degraded"}
  BY DEF StartExplain, AskAgain, MarkDegraded, Select, ScanLedger, Answer
<1>2. /\ LedgerType' /\ Exact' = Exact
      /\ \A id : Seqs(id)' = Seqs(id)
      /\ \A id, n : ScanTo(id, n)' = ScanTo(id, n)
  BY <1>1 DEF ProvenanceInv, ProvenanceType, LedgerType, Exact, RowsOf, Seqs, ScanTo
<1>3. FlagInv'
  BY <1>1, <1>2 DEF ProvenanceInv, FlagInv
<1>4. Len(ledger) \in Nat /\ rows \subseteq Exact
  BY DEF ProvenanceInv, ProvenanceType, LedgerType
<1>5. /\ reader' \in Idle \cup Asking \cup Selecting \cup Answered
      /\ SelectInv' /\ DoneInv' /\ AnswersAreTheScan'
  <2>1. CASE StartExplain
    BY <2>1 DEF StartExplain, Asking, SelectInv, DoneInv, AnswersAreTheScan
  <2>2. CASE AskAgain
    <3>1. reader.id \in Id
      BY <2>2 DEF AskAgain, AtStage, ProvenanceInv, ProvenanceType, Idle, Asking, Selecting,
         Answered
    <3>2. health = "healthy" /\ ~overlooked => Seqs(reader.id) = Scan(reader.id)
      BY <1>4, SeqsAreScanned DEF ProvenanceInv, FlagInv, Seqs, SeqsIn
    <3>3. CASE health = "healthy"
      <4>1. reader' = [stage |-> "select", id |-> reader.id, from |-> Len(ledger)]
        BY <2>2, <3>3 DEF AskAgain
      <4>2. QED
        BY <4>1, <3>1, <3>2, <3>3, <1>1, <1>2, <1>4
           DEF Selecting, SelectInv, DoneInv, AnswersAreTheScan, Scan
    <3>4. CASE health # "healthy"
      BY <2>2, <3>4, <3>1 DEF AskAgain, Asking, SelectInv, DoneInv, AnswersAreTheScan
    <3>5. QED
      BY <3>3, <3>4
  <2>3. CASE MarkDegraded
    <3>1. reader \in Asking
      BY <2>3 DEF MarkDegraded, AtStage, ProvenanceInv, ProvenanceType, Idle, Asking,
         Selecting, Answered
    <3>2. reader' \in Asking /\ reader'.stage = "scan"
      BY <2>3, <3>1 DEF MarkDegraded, Asking
    <3>3. QED
      BY <3>2 DEF SelectInv, DoneInv, AnswersAreTheScan
  <2>4. CASE Select
    <3>1. /\ reader.id \in Id /\ reader.from \in Nat
          /\ reader.from <= Len(ledger)
          /\ ~overlooked => ScanTo(reader.id, reader.from) \subseteq Seqs(reader.id)
      BY <2>4 DEF Select, AtStage, ProvenanceInv, ProvenanceType, SelectInv, Idle, Asking,
         Selecting, Answered
    <3>2. Seqs(reader.id) \subseteq ScanTo(reader.id, Len(ledger))
      BY <1>4, SeqsAreScanned DEF Seqs, SeqsIn, Scan
    <3>3. Seqs(reader.id) \subseteq Nat
      BY <3>2, <1>4 DEF ScanTo
    <3>4. reader' = [stage |-> "done", id |-> reader.id, from |-> reader.from,
                     to |-> Len(ledger), seqs |-> Seqs(reader.id)]
      BY <2>4 DEF Select, Answer
    <3>5. QED
      BY <3>1, <3>2, <3>3, <3>4, <1>1, <1>2, <1>4
         DEF Answered, SelectInv, DoneInv, AnswersAreTheScan
  <2>5. CASE ScanLedger
    <3>1. reader.id \in Id
      BY <2>5 DEF ScanLedger, AtStage, ProvenanceInv, ProvenanceType, Idle, Asking,
         Selecting, Answered
    <3>2. Scan(reader.id) \subseteq Nat
      BY <1>4 DEF Scan, ScanTo
    <3>3. reader' = [stage |-> "done", id |-> reader.id, from |-> Len(ledger),
                     to |-> Len(ledger), seqs |-> Scan(reader.id)]
      BY <2>5 DEF ScanLedger, Answer
    <3>4. QED
      BY <3>1, <3>2, <3>3, <1>1, <1>2, <1>4
         DEF Answered, SelectInv, DoneInv, AnswersAreTheScan, Scan
  <2>6. QED
    BY <2>1, <2>2, <2>3, <2>4, <2>5
<1>6. QED
  BY <1>1, <1>2, <1>3, <1>5 DEF ProvenanceInv, ProvenanceType

LEMMA KeepingStep ==
  ASSUME ProvenanceInv,
         \/ StartRebuild \/ Rebuild \/ RebuildFails \/ EndRebuild
         \/ Replay \/ VerifyReplay \/ RestoreHealthy \/ VerifyIndex
  PROVE  ProvenanceInv'
<1>1. UNCHANGED <<ledger, reader>>
  BY DEF StartRebuild, Rebuild, RebuildFails, EndRebuild, Replay, VerifyReplay,
     RestoreHealthy, VerifyIndex, Keep
<1>2. Exact' = Exact
  BY <1>1 DEF Exact, RowsOf
<1>3. rows \subseteq Exact /\ LedgerType
  BY DEF ProvenanceInv, ProvenanceType, LedgerType
<1>4. CASE Replay
  <2>1. rows' \subseteq Exact
    BY <1>4 DEF Replay
  <2>2. overlooked' = (overlooked \/ (rows' # Exact /\ AtStage("select")))
    BY <1>4, <1>2, Zenon DEF Replay
  <2>3. /\ keeper' = "replayed" /\ health' \in {"healthy", "degraded", "rebuilding"}
        /\ rows' # Exact => health' = "degraded"
    BY <1>4 DEF Replay, Keep, ProvenanceInv, ProvenanceType
  <2>4. /\ overlooked' \in BOOLEAN /\ (overlooked => overlooked')
        /\ rows' = Exact \/ reader.stage # "select" \/ overlooked'
    BY <2>2, Zenon DEF AtStage
  <2>5. FlagInv'
    BY <2>3, <1>2 DEF FlagInv
  <2>6. LedgerType'
    BY <2>1, <1>1, <1>2, <1>3 DEF LedgerType
  <2>7. QED
    BY <2>3, <2>4, <2>5, <2>6, <1>1, KeeperStep
<1>5. CASE \/ StartRebuild \/ Rebuild \/ RebuildFails \/ EndRebuild
           \/ VerifyReplay \/ RestoreHealthy \/ VerifyIndex
  <2>1. rows' \in {rows, Exact} /\ overlooked' = overlooked
    BY <1>5 DEF StartRebuild, Rebuild, RebuildFails, EndRebuild, VerifyReplay,
       RestoreHealthy, VerifyIndex
  <2>2. /\ health' \in {"healthy", "degraded", "rebuilding"}
        /\ keeper' \in {"idle", "rebuilding", "rebuilt", "replayed", "verified"}
    BY <1>5 DEF StartRebuild, Rebuild, RebuildFails, EndRebuild, VerifyReplay,
       RestoreHealthy, VerifyIndex, Keep, ProvenanceInv, ProvenanceType
  <2>3. FlagInv'
    BY <1>5, <1>2 DEF FlagInv, StartRebuild, Rebuild, RebuildFails, EndRebuild,
       VerifyReplay, RestoreHealthy, VerifyIndex, Keep, ProvenanceInv
  <2>4. LedgerType'
    BY <2>1, <1>1, <1>2, <1>3 DEF LedgerType
  <2>5. overlooked' \in BOOLEAN
    BY <2>1 DEF ProvenanceInv, ProvenanceType
  <2>6. rows' = rows \/ rows' = Exact
    BY <2>1
  <2>7. QED
    BY <2>1, <2>2, <2>3, <2>4, <2>5, <2>6, <1>1, KeeperStep
<1>6. QED
  BY <1>4, <1>5

LEMMA ReopenStep == ASSUME ProvenanceInv, Reopen PROVE ProvenanceInv'
<1>1. /\ UNCHANGED ledger /\ health' = "healthy" /\ keeper' = "idle"
      /\ reader' = [stage |-> "idle"]
      /\ rows' = IF NeedsBuilding THEN Exact ELSE rows
  BY DEF Reopen
<1>2. overlooked' \in BOOLEAN /\ (~overlooked' => Partly = {})
  BY Zenon DEF Reopen
<1>3. Exact' = Exact
  BY <1>1 DEF Exact, RowsOf
<1>4. LedgerType
  BY DEF ProvenanceInv, ProvenanceType
<1>5. LedgerType'
  BY <1>1, <1>3, <1>4 DEF LedgerType
<1>6. FlagInv'
  BY <1>1, <1>2, <1>3, <1>4, NumbersSuffice DEF FlagInv
<1>7. reader' \in Idle
  BY <1>1 DEF Idle
<1>8. QED
  BY <1>1, <1>2, <1>5, <1>6, <1>7
     DEF ProvenanceInv, ProvenanceType, SelectInv, DoneInv, AnswersAreTheScan

LEMMA ProvenanceStep == ProvenanceInv /\ [Next]_vars => ProvenanceInv'
<1> SUFFICES ASSUME ProvenanceInv, [Next]_vars PROVE ProvenanceInv'
  OBVIOUS
<1>1. CASE UNCHANGED vars
  <2>1. /\ LedgerType' /\ Exact' = Exact
        /\ \A id : Seqs(id)' = Seqs(id)
        /\ \A id, n : ScanTo(id, n)' = ScanTo(id, n)
    BY <1>1 DEF vars, ProvenanceInv, ProvenanceType, LedgerType, Exact, RowsOf, Seqs, ScanTo
  <2>2. QED
    BY <1>1, <2>1 DEF vars, ProvenanceInv, ProvenanceType, FlagInv, SelectInv, DoneInv,
       AnswersAreTheScan
<1>2. QED
  BY <1>1, WriteStep, ReaderStep, KeepingStep, ReopenStep DEF Next

(* The inductive invariant holds of every behaviour.                        *)
THEOREM ProvenanceInvariant == Spec => []ProvenanceInv
  BY ProvenanceInitial, ProvenanceStep, PTL DEF Spec

(* An explanation lists what a scan of the ledger would find                *)
(* (index/provenance.py seqs_for, provenance/__init__.py _activities_for),  *)
(* unless a fault was overlooked in one of the three ways the property      *)
(* names.                                                                   *)
THEOREM ExplanationsAreComplete == Spec => []AnswersAreTheScan
<1>1. ProvenanceInv => AnswersAreTheScan
  BY DEF ProvenanceInv
<1>2. QED
  BY <1>1, ProvenanceInvariant, PTL
=============================================================================
