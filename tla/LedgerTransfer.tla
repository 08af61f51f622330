---------------------------- MODULE LedgerTransfer ----------------------------
(***************************************************************************)
(* The hash chain, and what travels in an export (ledger/__init__.py seal,  *)
(* verify_chain; core/__init__.py export, import_events; schema.py          *)
(* migrate_export).                                                         *)
(*                                                                          *)
(* A source store is exported, whole or as the slice one principal may      *)
(* read; the package may be damaged on its way; an empty store imports it   *)
(* while a thread of that store writes.  A hash stands for what it is       *)
(* computed from, so it is injective.                                       *)
(***************************************************************************)
EXTENDS Naturals, FiniteSets, SequencesExt

CONSTANTS Fact, Claim,  \* objects of the source
          None,
          Backend,      \* "sqlite": seq is the primary key; "memory": a list
          MaxEvents,    \* bound on the source's ledger
          MaxDamage,    \* bound on changes to the package
          MaxWrites     \* bound on the target's own events

ASSUME BackendAssumption == Backend \in {"sqlite", "memory"}
ASSUME BoundsAssumption == MaxEvents \in Nat /\ MaxDamage \in Nat /\ MaxWrites \in Nat

(* An import that has ended: what it checked, and where it began.           *)
Import == [verified : BOOLEAN, at : Nat]

ASSUME NoneAssumption == None \notin Import

VARIABLES source,    \* the events of the source's ledger
          readable,  \* what the exporting principal may read
          listed,    \* the ids a scoped export has found readable, or None
          package,   \* the export, or None
          genuine,   \* its records as they were exported
          settled,   \* objects closed in the source when its events were read
          damage,    \* changes made to the package
          resealed,  \* one of them recomputed a record's hashes
          target,    \* the importing store's ledger
          writes,    \* events of its own thread
          importing, \* an import past its checks, or None
          imported   \* the import that has ended, or None

sourceVars == <<source, readable, listed>>
packageVars == <<package, genuine, settled, damage, resealed>>
targetVars == <<target, writes, importing, imported>>
vars == <<sourceVars, packageVars, targetVars>>

Obj == Fact \cup Claim

Event == [op : {"fact_asserted", "claim_asserted", "fact_closed", "claim_retracted",
                "contradiction_recorded"},
          about : Obj, other : Obj \cup {None}, shape : {"v0", "v1"}]
-----------------------------------------------------------------------------
(* Hashes.                                                                  *)
Genesis == <<"genesis">>
ContentHash(e) == <<"content", e>>
EntryHash(seq, actor, content, prev) == <<"entry", seq, actor, content, prev>>

(* Mutant: every record is sealed on the genesis hash.                      *)
SealUnlinked(seq, actor, e, prev) ==
  [seq |-> seq, actor |-> actor, event |-> e, content |-> ContentHash(e), prev |-> Genesis,
   entry |-> EntryHash(seq, actor, ContentHash(e), Genesis)]

Seal(seq, actor, e, prev) ==
  [seq |-> seq, actor |-> actor, event |-> e, content |-> ContentHash(e), prev |-> prev,
   entry |-> EntryHash(seq, actor, ContentHash(e), prev)]

HeadHash(records) == IF records = << >> THEN Genesis ELSE Last(records).entry

(* append: seal on the head.                                                *)
Appended(records, actor, e) ==
  LET seq == IF records = << >> THEN 1 ELSE Last(records).seq + 1
  IN  Append(records, Seal(seq, actor, e, HeadHash(records)))

(* One append after another.                                                *)
Sealed(records, drafts) ==
  LET all[i \in 0 .. Len(drafts)] ==
        IF i = 0 THEN records ELSE Appended(all[i - 1], drafts[i].actor, drafts[i].event)
  IN  all[Len(drafts)]

Chain(events) ==
  Sealed(<< >>, [i \in DOMAIN events |-> [actor |-> "alice", event |-> events[i]]])

Follows(records, i) ==
  /\ records[i].seq = i
  /\ records[i].prev = IF i = 1 THEN Genesis ELSE records[i - 1].entry
  /\ records[i].entry = EntryHash(records[i].seq, records[i].actor, records[i].content,
                                  records[i].prev)

(* Mutant: the payload is not hashed again.                                 *)
VerifiesHeaders(records) == \A i \in DOMAIN records : Follows(records, i)

(* verify_chain, without and with its anchors.                              *)
Verifies(records) ==
  \A i \in DOMAIN records :
    Follows(records, i) /\ records[i].content = ContentHash(records[i].event)

VerifiesAnchored(records, count, head) ==
  Verifies(records) /\ Len(records) = count /\ HeadHash(records) = head
-----------------------------------------------------------------------------
(* _apply, of the events that may find an object missing.                   *)
NoImage == [known |-> {}, closed |-> {}, raised |-> FALSE]

Needs(e) == CASE e.op \in {"fact_asserted", "claim_asserted"} -> {}
              [] e.op = "contradiction_recorded" -> {e.about, e.other}
              [] OTHER -> {e.about}

Projected(image, e) ==
  IF image.raised \/ ~(Needs(e) \subseteq image.known) THEN [image EXCEPT !.raised = TRUE]
  ELSE CASE e.op \in {"fact_asserted", "claim_asserted"} ->
              [image EXCEPT !.known = @ \cup {e.about}, !.closed = @ \ {e.about}]
         [] e.op \in {"fact_closed", "claim_retracted"} ->
              [image EXCEPT !.closed = @ \cup {e.about}]
         [] OTHER -> image

Image(events) ==
  LET image[i \in 0 .. Len(events)] ==
        IF i = 0 THEN NoImage ELSE Projected(image[i - 1], events[i])
  IN  image[Len(events)]

EventsOf(records) == [i \in DOMAIN records |-> records[i].event]
-----------------------------------------------------------------------------
Init ==
  /\ source = << >> /\ readable = {} /\ listed = None
  /\ package = None /\ genuine = << >> /\ settled = {}
  /\ damage = 0 /\ resealed = FALSE
  /\ target = << >> /\ writes = 0 /\ importing = None /\ imported = None

(* The source's calls, as far as its ledger tells them apart.               *)
Emit(op, o, other) ==
  /\ Len(source) < MaxEvents /\ package = None
  /\ source' = Append(source, [op |-> op, about |-> o, other |-> other, shape |-> "v1"])
  /\ UNCHANGED <<listed, packageVars, targetVars>>

(* What is asserted is its author's; sharing and revoking (KnowledgeSpaces) *)
(* change who reads it.                                                     *)
AssertObject(o) ==
  /\ o \notin Image(source).known
  /\ Emit(IF o \in Fact THEN "fact_asserted" ELSE "claim_asserted", o, None)
  /\ readable' \in {readable, readable \cup {o}}

CloseObject(o) ==
  /\ o \in Image(source).known \ Image(source).closed
  /\ Emit(IF o \in Fact THEN "fact_closed" ELSE "claim_retracted", o, None)
  /\ UNCHANGED readable

Contradict(o, other) ==
  /\ {o, other} \subseteq Fact \cap Image(source).known /\ o # other
  /\ Emit("contradiction_recorded", o, other)
  /\ UNCHANGED readable

Readmit(o) ==
  /\ o \in Image(source).known /\ package = None
  /\ readable' = IF o \in readable THEN readable \ {o} ELSE readable \cup {o}
  /\ UNCHANGED <<source, listed, packageVars, targetVars>>

Pack(events, scoped, version) ==
  /\ package = None
  /\ genuine' = Chain(events)
  /\ package' = [records |-> genuine', scoped |-> scoped, version |-> version, chained |-> TRUE]
  /\ settled' = Image(source).closed
  /\ UNCHANGED <<source, readable, damage, resealed, targetVars>>

ExportWhole == Pack(source, FALSE, 1) /\ listed' = None

(* An export of an engine of schema version 0.                              *)
ExportOld ==
  /\ Pack([i \in DOMAIN source |-> [source[i] EXCEPT !.shape = "v0"]], FALSE, 0)
  /\ listed' = None

(* export(principal): the objects are read, then the events.                *)
ListReadable ==
  /\ package = None /\ listed = None
  /\ listed' = readable
  /\ UNCHANGED <<source, readable, packageVars, targetVars>>

(* Mutant: a fact's closing events are not found under its id.              *)
NamesNewOnly(e) == e.op # "claim_retracted" /\ e.op # "fact_closed"

(* _event_object_id looks under five keys; claim_id is none of them.        *)
Names(e) == e.op # "claim_retracted"

Slice(events, ids) ==
  LET slice[i \in 0 .. Len(events)] ==
        IF i = 0 THEN << >>
        ELSE IF Names(events[i]) /\ events[i].about \in ids THEN Append(slice[i - 1], events[i])
        ELSE slice[i - 1]
  IN  slice[Len(events)]

ExportScoped ==
  /\ listed # None
  /\ Pack(Slice(source, listed), TRUE, 1)
  /\ listed' = None
-----------------------------------------------------------------------------
(* On its way, records are changed in any of their fields, lost, repeated   *)
(* or exchanged; a hash is replaced by that of another record.  The last    *)
(* two disjuncts are a change and an addition by somebody who computes the  *)
(* record's hashes.                                                         *)
Damaged(changed, reseals) ==
  /\ package # None /\ importing = None /\ imported = None
  /\ damage < MaxDamage
  /\ package' = changed
  /\ damage' = damage + 1 /\ resealed' = (resealed \/ reseals)
  /\ UNCHANGED <<genuine, settled, sourceVars, targetVars>>

With(records) == [package EXCEPT !.records = records]

DamageRecord == package # None /\ \E i \in DOMAIN package.records :
  LET records == package.records
      r == records[i]
      other == records[(i % Len(records)) + 1]
  IN  \/ \E o \in Obj : Damaged(With([records EXCEPT ![i].event.about = o]), FALSE)
      \/ Damaged(With([records EXCEPT ![i].actor = "carol"]), FALSE)
      \/ Damaged(With([records EXCEPT ![i].seq = @ + 1]), FALSE)
      \/ Damaged(With([records EXCEPT ![i].content = other.content]), FALSE)
      \/ Damaged(With([records EXCEPT ![i].prev = other.prev]), FALSE)
      \/ Damaged(With([records EXCEPT ![i].entry = other.entry]), FALSE)
      \/ Damaged(With(RemoveAt(records, i)), FALSE)
      \/ Damaged(With(InsertAt(records, i, r)), FALSE)
      \/ \E j \in DOMAIN records :
           i < j /\ Damaged(With([records EXCEPT ![i] = records[j], ![j] = r]), FALSE)
      \/ \E o \in Obj :
           Damaged(With([records EXCEPT
             ![i] = Seal(r.seq, r.actor, [r.event EXCEPT !.about = o], r.prev)]), TRUE)
      \/ Damaged(With(Appended(records, "carol", r.event)), TRUE)

(* A tool that knows nothing of chains leaves those fields out.             *)
StripChain ==
  package # None /\ package.chained /\ Damaged([package EXCEPT !.chained = FALSE], FALSE)
-----------------------------------------------------------------------------
(* A thread of the importing store.                                         *)
WriteTarget == \E o \in Obj :
  /\ writes < MaxWrites
  /\ o \notin Image(EventsOf(target)).known
  /\ target' = Appended(target, "bob", [op |-> "fact_asserted", about |-> o,
                                        other |-> None, shape |-> "v1"])
  /\ writes' = writes + 1
  /\ UNCHANGED <<sourceVars, packageVars, importing, imported>>

(* import_events, up to its transaction.                                    *)
CheckImport(verify, migrate) ==
  /\ package # None /\ importing = None /\ imported = None
  /\ target = << >>
  /\ verify => package.chained /\ Verifies(package.records)
  /\ \/ package.version = 1 /\ package.chained
     \/ package.version = 0 /\ migrate
  /\ importing' = [verified |-> verify]
  /\ UNCHANGED <<sourceVars, packageVars, target, writes, imported>>

(* A record with the seq of another is refused by the table.                *)
Storable(records) ==
  Backend = "sqlite" => IsInjective([i \in DOMAIN records |-> records[i].seq])

(* read_events: a table in the order of seq, or a list in its own.          *)
UpTo(records, i) == {j \in DOMAIN records : records[j].seq <= records[i].seq}

Stored(records) ==
  IF Backend = "sqlite"
    THEN [n \in DOMAIN records |->
            records[CHOOSE i \in DOMAIN records : Cardinality(UpTo(records, i)) = n]]
    ELSE records

EndImport(records, at) ==
  /\ importing # None
  /\ target' = records
  /\ imported' = [verified |-> importing.verified, at |-> at]
  /\ importing' = None
  /\ UNCHANGED <<sourceVars, packageVars, writes>>

ImportVerbatim ==
  LET records == target \o package.records
  IN  /\ importing # None /\ package.version = 1
      /\ Storable(records)
      /\ ~Image(EventsOf(Stored(records))).raised
      /\ EndImport(Stored(records), Len(target))

(* Mutant: the old payloads are sealed as they are.                         *)
NotUpgraded(e) == e

(* migrate_export.                                                          *)
Upgraded(e) == [e EXCEPT !.shape = "v1"]

(* _reseal_import: the upgraded events are appended to what is there.       *)
ImportMigrated ==
  LET records == Sealed(target, [i \in DOMAIN package.records |->
                   [actor |-> package.records[i].actor,
                    event |-> Upgraded(package.records[i].event)]])
  IN  /\ importing # None /\ package.version = 0
      /\ ~Image(EventsOf(records)).raised
      /\ EndImport(records, Len(target))

(* The transaction raises and is rolled back; the caller may try again.     *)
FailImport ==
  /\ importing # None /\ importing' = None
  /\ UNCHANGED <<sourceVars, packageVars, target, writes, imported>>

Next ==
  \/ \E o \in Obj : AssertObject(o) \/ CloseObject(o) \/ Readmit(o)
  \/ \E o, other \in Fact : Contradict(o, other)
  \/ ExportWhole \/ ExportOld \/ ListReadable \/ ExportScoped
  \/ DamageRecord \/ StripChain
  \/ WriteTarget
  \/ \E verify, migrate \in BOOLEAN : CheckImport(verify, migrate)
  \/ ImportVerbatim \/ ImportMigrated \/ FailImport

Spec == Init /\ [][Next]_vars
-----------------------------------------------------------------------------
(* What verify_chain promises of a package: as exported it verifies; if     *)
(* nobody recomputed hashes, whatever still verifies is a first part of     *)
(* what was exported; and against the count and the head pinned elsewhere,  *)
(* nothing verifies but what was exported.                                  *)
DamageIsNoticed ==
  package # None =>
    /\ Verifies(genuine)
    /\ Verifies(package.records) /\ ~resealed => IsPrefix(package.records, genuine)
    /\ VerifiesAnchored(package.records, Len(genuine), HeadHash(genuine))
         => package.records = genuine

(* A memory store has no key that would refuse a verbatim import on top of  *)
(* a write that came between its check and its transaction.                 *)
OnTop ==
  imported # None /\ Backend = "memory" /\ package.version = 1 /\ imported.at > 0

(* The importing store's own chain verifies, whatever was imported beside   *)
(* whatever its threads wrote, unless verification was waived or the        *)
(* records were put on top of others.                                       *)
ChainStaysWhole ==
  (imported = None \/ imported.verified) /\ ~OnTop => Verifies(target)

(* A verified import is there as a whole and in order, as one uninterrupted *)
(* run: the records themselves or, upgraded, their events, and no event of  *)
(* the old shape is among those of the store.                               *)
ImportIsWhole ==
  imported # None /\ imported.verified =>
    LET events == EventsOf(target)
        first == imported.at + 1
        last == imported.at + Len(package.records)
    IN  IF package.version = 1 THEN SubSeq(target, first, last) = package.records
        ELSE /\ SubSeq(events, first, last)
                  = [i \in DOMAIN package.records |->
                       [package.records[i].event EXCEPT !.shape = "v1"]]
             /\ \A i \in DOMAIN events : events[i].shape = "v1"

(* A slice that can be imported tells of every fact in it how it stood in   *)
(* the source when the events were read, though what may be read was listed *)
(* earlier.                                                                 *)
SliceKeepsFates ==
  package # None /\ package.scoped =>
    LET image == Image(EventsOf(genuine))
    IN  ~image.raised => image.closed \cap Fact = settled \cap image.known \cap Fact
-----------------------------------------------------------------------------
(* core line 2072: a scoped slice re-imports.                               *)
SliceReimports ==
  package # None /\ package.scoped => ~Image(EventsOf(genuine)).raised

(* core line 2166: import cannot interleave with existing history.          *)
ImportDoesNotInterleave ==
  imported # None => imported.at = 0
=============================================================================
