# EPISTEMOS in TLA+

EPISTEMOS keeps bitemporal facts, claims and entities for several agents on top
of an append-only, hash-chained ledger. This directory holds a verification
project for it: TLA+ modules translated from `src/epistemos`, TLC
configurations that check them on small instances, and proofs checked by TLAPS.
Paths below are the repository's; `core` is `src/epistemos/core/__init__.py`.

## 1. The system

| component | state | operations | interacts through |
|---|---|---|---|
| Store (`storage/`) | ledger table, objects table, one re-entrant lock, `_depth` | `atomic`, `append`, `put_object`, reads, `backup` | every engine call |
| Engine: facts (`core` 598-876, 2023) | none of its own; the facts in the store | assert, supersede, correct_validity, end_fact, retract, contradict, confirm, rebuild_projection | `_emit` = append + `_apply` under `atomic` |
| Temporal (`temporal/`) | none | `believed_at`, `as_of`, `resolve_current` | reads facts |
| Lexical index (`index/fts.py`) | two tables in the store's database; a health flag in memory | reindex, clear, rebuild, verify, ensure_built, search | called inside `_persist`; chosen or not by `search` |
| Provenance index (`index/provenance.py`) | one table, a flag | record, clear, rebuild, verify, ensure_built | called inside `_apply`; chosen or not by `explain` |
| Spaces and authorization (`core` 274-300, 1331-1494, `authz/`, `identity/`) | space objects, grant objects, the `spaces` of each object | create_space, grant, revoke, share, promote, placement at creation | every read passes `can_read_object` |
| Claims and governance (`core` 1499-1760, `claims/`) | claim, evidence and review objects, markers on the claim | create, retract, review, accept, reject, attach | placed in spaces; belief is derived at read time |
| Panel read models (`api/panel.py`) | none | live graph, graph as of an instant, counters | derives from objects and ledger what the engine derives too |
| Graph and entities (`core` 1017-1228) | entity and relation objects | add, merge, split, neighbors, query_graph | reads call by call |
| Ledger and transfer (`ledger/`, `core` 2063-2300, `schema.py`) | hashes of the records | seal, verify_chain, export, import, migrate | the store |
| Live feed (`api/stream.py`, `api/server.py`) | a cursor per connection | poll, filter, send; the browser reconnects | reads the ledger, then `is_readable` |
| Context builder and protocol (`context/`, `protocol/`) | expansion handles per engine | build, mint, redeem | reads |
| Sources, documents, memories, decisions | objects | one event each, storing one new object | as facts |
| Adapters (`api/rest.py`, `mcp/`, `sdk.py`, `panel/`) | none | translate calls | engine calls |

**What is hard.** The engine is shared by the threads of an HTTP server. Every
mutating call reads and checks *before* it takes the store lock, reads the
clock, and only then writes under the lock, so a check or an instant may be
stale when used. A transaction emits several events, may fail between any two
of them, and the process may die. The indexes may fail without failing the
write, and remember this only in memory. Authorization is evaluated on state
that other agents change. A traversal, a context build and a redemption consist
of many reads, each atomic and all together not. The feed authorizes each event
when it is polled, and loses on a broken connection what it had already
written. The panel tells the past from the ledger by rules of its own.
`PROJECT.json` lists each of these as a hazard, at its line, with the
properties aimed at it, or the reason why no property covers it.

**What makes each part correct.**
Store: transactions are atomic and the ledger only grows. Facts: objects are
the replay of the ledger; a belief closes once; a superseded belief hands over
without a gap; the settled past and the answers about it do not change. Index:
it is exact unless a statement failed; one failure is noticed. Provenance: an
explanation is what a scan of the ledger would find. Spaces: readers were
admitted, wide knowledge has a promoter behind it, tenants stay apart. Claims:
belief is what the ledger decided, and decisions harden. Panel: it agrees with
the engine. Transfer: damage is noticed, an import is whole. Graph: merges leave
a trace, a traversal is bounded and complete. Context: an envelope is authorized,
says what it leaves out, and never drops a contradiction. Feed: in order, once,
without gaps.

## 2. The modules

Composition: `EventStore` is the store inside `FactLifecycle`, on which
`FactResolution` puts the answers; `KnowledgeSpaces` treats a transaction as one
step, which `EventStore` and `FactLifecycle` justify. `ClaimGovernance` composes
it with the claims placed in its spaces, `PanelViews` looks at both, and
`EventStream` composes it with the feed. `GraphTraversal` walks the graph that
`EntityGraph` writes. The other modules stand alone; where readability matters
to them, it is a set that moves freely, which is more than `KnowledgeSpaces`
allows.

| module | models | state and its code | actions and their code |
|---|---|---|---|
| `EventStore` | `storage/sqlite.py`, `storage/memory.py` | `ledger`, `objects` committed; `txLedger`, `txObjects` what the connection sees; `holder` the lock | `Begin`, `Commit`, `Rollback`: `atomic`; `Write`: `append` + projection; `Reproject`: clear and replay; `Recover`: reopening the file |
| `FactLifecycle` | the fact calls of `core` | `pc`, `call`, `todo`: the locals of a call in flight; `clock`: `_now`; `cursor`: the loop of `rebuild_projection` | `Check...`: up to the last check; `Stamp`: `ts = self._now()`; `BeginWrite`, `Emit`, `CommitWrite`: the `with atomic()` block; `Apply...`: `_apply` |
| `BeliefHistory` | what those calls promise a reader | one interval per fact | `Assert`, `Retract`, `Replace`, and `LateReplace` |
| `FactResolution` | `temporal/`, `current`, `as_of` | none: operators over `objects` and a world, which says what each fact states | `RankKey`, `ResolveCurrent`, `Current`, `AsOf` |
| `LexicalIndex` | `index/fts.py`, `core` `_persist`, `search`, `rebuild_*`, `verify_*` | `disk`, `conn`: committed tables and the open transaction's; `health`: `_state` | one per place where the lock or the flag changes hands |
| `ProvenanceIndex` | `index/provenance.py`, `_activities_for` | `rows`: `prov_ref`; `health`; `reader`, `keeper`: the explanation and the rebuild in progress | `Write` with `Record` or `RecordFails`; `StartExplain`, `AskAgain`, `Select`, `ScanLedger`; `Rebuild`, `Replay`, `Reopen` ... |
| `KnowledgeSpaces` | spaces, grants, placements, `can_read_object` | `object`, `space`, `grant`: the projection; `call`: what a call has checked | `Check...`: the checks of a call; `Write...`: its transaction |
| `ClaimGovernance` | claims, evidence, reviews, `_govern`, `derive_belief` | `claim`, `review`, `evidence`: the projection; `matter`: what a call has checked and will write | `Check...` and `Write...` as above; `Linked`: `_apply_evidence_attached` with its cap |
| `PanelViews` | `knowledge_graph`, `_asof_state`, `as_of`, `counts` of `api/panel.py` | none: operators over `ClaimGovernance` | `LiveGraph`, `GraphAsOf`, `PanelBelief` |
| `EntityGraph` | add_entity, add_relation, merge, split | `entity`, `relation`; `merging`: what a merge gathered before the lock | `CheckMerge`, `WriteMerge` (`_apply_merge`), `SplitEntity` |
| `GraphTraversal` | `neighbors`, `query_graph` | `walk`: the locals of `query_graph`; `hidden`: what the reader may not read | `StartWalk`; `Expand`, `Truncate`, `Raise`: one call of `neighbors` and the loop over what it returns |
| `LedgerTransfer` | `seal`, `verify_chain`, `export`, `import_events`, `migrate_export` | `source`, `package`, `target`: two ledgers and what travels; `listed`, `importing`: an export and an import under way | `Export...`, `DamageRecord`, `CheckImport`, `ImportVerbatim`, `ImportMigrated`, `WriteTarget` |
| `ContextEnvelope` | `context/builder.py`, `protocol/handles.py`, `build_epctx` | `build`, `redeem`: the locals of a build and a redemption; `handle`: the registry | `Search`, `Fetch`, `Fold`, `Pin`, `Deliver` (packing and minting); `Redeem`, `RedeemMembers`, `EndRedeem`; `Restart` |
| `EventStream` | the SSE loop and the browser | `since`, `scan`, `out`: server locals; `wire`: written and unread; `received` | `Poll`, `Filter`, `Send`, `Receive`, `Drop`, `Reconnect` |
| `FactProofs`, `SpacesProofs` (spaces and feed), `GovernanceProofs` (claims and panel), `GraphProofs`, `ContextProofs`, `LexicalProofs`, `ProvenanceProofs`, `TransferProofs` | theorems (section 4) | | |
| `MC...` | constants and symmetry for TLC | | |

### Abstractions

- A fact's subject, value, world-time and metadata are left out of
  `FactLifecycle`: no guard there depends on them. `FactResolution` gives them
  back as a *world*, fixed for each id, since no step changes them. Confidence
  is a number of steps, `MaxConfidence` being 1.0.
- `supersede` may be given any confidence for the replacement, which includes
  the one it read; `correct_validity` keeps the one it read. `end_fact` is
  `correct_validity`.
- A refused call changes nothing and is no step. A call that raises after its
  check is `FailBeforeWrite`, `FailInside`, or `Fail...` of its module.
- Ids are never reused, as `uuid4` never repeats (`Assigned`), and tell what
  kind of object they name.
- In `LexicalIndex` a text stands for the set of objects that match it; a put
  is one object per transaction, a rebuild takes the objects in any order.
  Each SQL statement of `reindex` may fail; the rebuild either succeeds or rolls
  back. `faults` and `unaware` are bookkeeping of the model: they count failed
  statements, and remember that the flag cannot know of one.
- In `ProvenanceIndex` an event is the set of ids in its payload. `overlooked`
  is bookkeeping: a fault that the flag, as the code handles it, may forget.
- `KnowledgeSpaces` has one namespace per tenant, and a decision of
  `can_read_object` is one step. Each agent has one call in flight. The calls
  whose checks rest on a space's owner alone, which never changes
  (create_space, grant, revoke), are one step. Only facts and claims are
  placed; `_place` would also accept a space or a grant object.
- In `ClaimGovernance` the texts of claims, reviews and evidence are left out.
  Creating evidence is one step: nothing but the caller's own new object
  depends on what it checked.
- In `PanelViews` an instant is a length of the ledger.
- In `EntityGraph` an entity's name is told apart by whose name it is, so an
  alias is an entity; aliases given by the caller are left out. `merges` and
  the walk's `atStart`, `moved` and `calls` are bookkeeping. One call of
  `neighbors` is one step (`Expand`), although it lists the relations twice and
  authorizes what it finds one by one without the lock: no property depends on
  what moves within one call.
- In `LedgerTransfer` a hash is an injective token of what is hashed, so forging
  one is impossible and recomputing one is what the last two disjuncts of
  `DamageRecord` do. An import is one step, its transaction being atomic: that a
  record which raises half way leaves nothing behind is not shown by this module.
  `ProjectionIsReplay` shows it of the transactions of the fact calls, which go
  through the same `atomic()`.
  The run has the `sqlite` backend; `memory` differs in what a repeated seq
  does, and the proofs are for both.
- In `ContextEnvelope` all facts speak of one subject and predicate, all claims
  of another, and hashed evidence has one content: what may be folded together.
  Which items fit the token budget is any choice, for sizes are left open.
  `seen` and `steady`, what the reader could read at some time and at all times
  of the call, and `believed`, what was not retracted when handles were minted,
  are bookkeeping. The envelope is the builder's, and so is what
  `EnvelopeIsHonest` says of it. The wire form may hold less: `build_epctx` reads
  every item once more (`protocol/wire.py` 163-166) and drops one of a kind that
  has no section (179-181), while the completeness it reports stays the
  builder's. The modelled kinds all have a section; the second reading is not
  modelled.
- In `EventStream` a poll reads the ledger in one step, as `read_events` does
  under the lock, and authorizes each record in a step of its own, as the code
  does. Batches hold `MaxBatch` events, 500 in the code.

## 3. What the runs check

| run | bounds | shows |
|---|---|---|
| `facts_closing` | 2 threads, 3 facts, 5 events, 2 instants | the projection is the replay of the ledger; replacements leave no gap; closes are final; the settled past is fixed; the module implements `BeliefHistory` |
| `facts_confirming` | 2 threads, 2 facts, 3 events, confidence 0 or 1, 4 worlds, 2 moments | racing confirms never go below the asserted confidence; `current` is `as_of` now; settled answers turn only by corroboration; the lock is always released |
| `index` | 2 threads, 2 objects, 2 texts, 3 events, 2 failed statements, 1 restart | drift needs a failed statement; one failure is noticed by `verify`; the flag is honest unless a failure falls in the moment another thread ends a rebuild |
| `provenance` | 2 ids, 3 events, 2 failed statements, 1 restart | an explanation by the index is what the scan would find, unless a named kind of fault was overlooked |
| `spaces` | 3 agents in 2 tenants, an admin in each, 2 objects, 1 space, 5 events, 2 calls in flight | tenants stay apart; corrections keep owner and audience |
| `spaces_racing` | 2 agents of one tenant, one with `knowledge.promote`, 2 objects, 1 space, 5 events | a promoter is behind wide knowledge; readers were admitted by the ledger's last word; nobody admits himself; access ends only by a revocation, or by placing what was placed nowhere |
| `claims` | 2 agents, one of them an acceptor, 1 claim, 1 space, 1 review, 1 piece of evidence, 2 links kept, 5 events, 2 calls in flight | belief is what the ledger decided; decisions only harden; a review tells nobody of a claim he cannot read; evidence stays linked; the panel agrees with the engine |
| `transfer` | 2 facts, 1 claim, 4 events, 1 change on the way, 1 write of the importing store | damage to any field, order or number of records is noticed; the importing chain verifies; an import is whole; a slice that replays tells the fate of the facts in it |
| `graph` | 2 agents, 3 entities, 2 relations, 5 events, 2 hops, 2 or 3 nodes, 1 change of readability | merges leave their trace; a traversal is bounded and, unless it says otherwise, complete |
| `context` | 2 facts, 2 claims, 2 pieces of evidence, at most 3 of these in the store, 2 moves of others, 1 handle, 1 restart | envelopes are honest and authorized, contradictions survive, expansion is live |
| `stream` | 2 agents, 1 object, 1 space, 4 events, batches of 1, 1 break | order, no duplicate, no gap, delivery |

The bounds are the smallest at which the interesting cases happen. Five events
hold an assertion, a replacement by one thread (two events) and one by another
that lost the race. Three facts are a fact and two rival replacements. Two
instants suffice to stamp before and commit after a tick. Two confidence levels
suffice to lose an increment. The four worlds let each component of the rank
that a world fixes decide once, and one of them says "ended". Three puts of two
objects reach a row whose map entry is gone and the reuse of its id; two failed
statements are one more than `verify` is claimed to notice, and in `provenance`
one to half-index an event and one to spoil a rebuild. In the spaces, five
events are a space, an object, a share, and a correction of two events (or a
grant, its revocation and two placements). In `claims` they are a claim, a
space, and three decisions, or a review, a share and a revocation; one verdict
is enough, since only whether a review is readable moves; two attached links
with opposite relations fill the list, and a third, which would push one out, is
beyond the bounds: what a full list still shows is left to the proofs of
`EvidenceIsKept` and `PanelIsTheEngine`, for any `MaxLinks`. Four
ledger records are enough to change, lose, repeat or exchange an inner and an
outer one, and for a slice that names an unreadable fact: two facts, a
contradiction of them, and the close of one; that a second change hides no
first is left to the proof, which is about any number. Three entities and five events make a merge
and a split overlap with another merge, and a budget of two nodes end within a
node's neighbours. Three objects hold a claim, the evidence that contradicts it
and what it is folded into; two moves revoke and give back. Four events of
the feed are a space, a claim in it, the grant by which the viewer comes to read
the claim, and a later event it reads. One break, with a
batch size of one, makes the browser resume in the middle of a batch. Threads,
facts, texts, objects and spaces are symmetric where nothing orders them; the
liveness runs use no symmetry.

Deadlock is checked in every run but one: a call can always begin and fail, or
a crash happen, also when every bound is reached. In `transfer` a behaviour is
one package's journey, which ends with its import.

### Where code and documents differ

`stream_missed` expects a violation: ADR-031 lines 23-25 say that the server
resumes from `Last-Event-ID`, so that no authorized event is missed across a
reconnect, and four kinds of fact events name their object by `fact_id`, which
the feed does not look up. TLC finds a viewer who asserts a fact of his own (1)
and supersedes it, which writes a `fact_superseded` (2) and the replacement (3).
His browser has received 1 when the connection breaks, resumes from 1, and is
sent 3 without 2, although nothing in the trace changes what he may read: all
three records are `stable` from their commit to the end. The calls exercised are
those that assert, correct and place; nobody joins or leaves a space. One break
is allowed, and the statement is about what comes after the event the browser
resumed from. The break is not the cause: without it the record is skipped too.
`NoGap` is what holds for the others: those the viewer can read, and could ever
since some moment before the feed passed them.

These statements are defined in the modules with the line they quote, fail in
the code, and are in no run. To see one fail, add it to the cfg of the run
named, as an INVARIANT or, where it is of the form `[][...]_vars`, a PROPERTY.

| statement | run | the sentence | what the code does |
|---|---|---|---|
| `PastIsFixed` | `facts_closing` | ADR-003 lines 31-32: `as_of(at_tx=T)` cannot change its answer about a past instant | the instant is read before the lock, so a record may enter the past; `SettledPastIsFixed` is what holds |
| `OneCloseWins` | `facts_closing` | `tests/race/test_race.py` lines 60-61: one wins, the other raises | both succeed; the retracted fact has a believed replacement |
| `ConfirmOnlyRaises` | `facts_confirming` | `core` line 858: it may only raise confidence | a lost update can lower it; `ConfidenceFloor` is what holds |
| `SearchIsNeverStale` | `index` | ADR-019 line 24: search never returns stale/incomplete data | the flag is forgotten on restart and only counts are compared, and a failure may fall between the flag and the query |
| `SharingOnlyWidens` | `spaces` | SHARING_AND_PROMOTION line 10 and `core` line 435: the origin placement is preserved, placing only widens | the owner's implicit access ends with the first placement; `AccessEndsByDecision` is what holds |
| `ReviewTracksClaim` | `claims` | `core` line 1652: a review's visibility tracks the claim exactly | the placements are copied once; `ReviewsStayInside` is what holds |
| `SliceReimports` | `transfer` | `core` line 2072: a scoped slice re-imports | a contradiction with an unreadable fact is in the slice and the fact is not |
| `ImportDoesNotInterleave` | `transfer` | `core` line 2166: import cannot interleave with existing history | emptiness is tested before the transaction; the upgraded import follows a write that came between (a verbatim one fails on the seq, which is the table's key; the memory store has no key, so it takes the records and its chain no longer verifies: `OnTop`) |
| `SplitKeepsLineage` | `graph` | `core` line 1196: a split keeps lineage | a second split of an entity overwrites `split_into` |
| `ExplainIsComplete` | `provenance` | `provenance/__init__.py` line 57: any index problem falls back to the scan | some faults are forgotten; `AnswersAreTheScan` names them |
| `RetractionDropsMembers` | `context` | `protocol/handles.py` lines 104-105: retraction since minting drops the member | `is_readable` does not look at status, so a claim retracted after its handle was minted is answered; `ExpansionIsLive` holds because it asks for readability alone |
| `OnlySupersededIsFolded` | `context` | `context/builder.py` line 9: superseded versions are collapsed | two current facts of one predicate are folded into one as well; the envelope says it is incomplete |

Read off the code while it was modelled, and in no module: COMPLETENESS.md line
15 and ADR-036 line 20 announce a continuation for which no handle is minted; the wire form drops
items of a kind without a section and may still call itself complete
(`protocol/wire.py` 179-181); a scoped export leaves out `claim_retracted` and the other events that name their
object by `claim_id`, so a retracted claim is open again after an import
(`Names` of `LedgerTransfer`); the index hands `search` a pool that was bounded
before authorization, against the comment at `core` 1880-1883; the panel's
graph of the past shows what may be read now; `query_graph` raises when a node
on its way is no longer readable (`Raise`); a confirmation raises the confidence
of a fact in place, and with it can turn answers about the past, which
`SettledAnswersStand` therefore excepts.

### Fairness

`facts_confirming` assumes weak fairness of each thread that is inside the
store lock: it runs Python code without waiting for anybody, so it takes its
next step. Nothing is assumed of threads outside the lock. `stream` assumes weak
fairness of the server's loop, which polls on a timer, and of the browser,
which reads and, being an `EventSource`, reconnects by itself. Breaks are
bounded by `MaxDrops`; nothing is assumed of the writers. The other runs check
safety only.

## 4. What is proved

All of it for any sets of threads, agents, objects and so on, and for any
bounds. The assumptions are those named in the modules: sentinels are none of
the values they stand beside (`None` of `LedgerTransfer` is no import, `NoRow` of
`LexicalIndex` no row), bounds are natural numbers, ids of different kinds
differ (`KindsAreDisjoint` in `PanelViews`, for the panel puts claims, reviews
and evidence in one graph), capabilities are sets of agents, entities and the
objects of the index are finitely many.

Where a value is computed along a ledger or level by level of a graph, the
proofs need induction, and an induction theorem that takes an operator cannot
be instantiated here. They go by a least counterexample instead: the natural
numbers for which a statement fails form a set, and a nonempty set of naturals
has a least element (`LeastElement`, from the well-foundedness of `<`).

**Facts: the store** (`FactProofs`). `TypeCorrect`, `Invariance`
(`[]IInv`), `ProjectionCorrect` (`ProjectionIsReplay`), `LedgerAppendOnly`
(`LedgerOnlyGrows`, which no run repeats), `CloseIsFinal` (`FirstCloseStands`).
`ProjectionIsReplay` is not inductive. A commit makes what the connection sees
the committed state, so that must be a replay too, and it is one only outside a
rebuild; while a rebuild runs it is the replay of the first `cursor` records:
`ReplayInv`. A rollback restores the committed pair, and outside a transaction
both pairs agree: `LockInv`, which also ties `holder` to the thread's `pc`.
`PrefixInv`: the committed ledger is a prefix of the open transaction's.
`FreshInv`: an id about to be asserted is not known yet, for an assertion would
overwrite a closed fact. `CloseInv`: while a rebuild has replayed only part of
the ledger, readers see the state before it, and the whole replay gives it
back. `Trace` is a recursive function; the lemmas about it (replaying a prefix
gives the same image, one more record is one more `Apply`) carry the arithmetic.

**Facts: the histories** (also `FactProofs`). `HistoryInvariant` (`[]HInv`),
`NoGapEver` (`NoBeliefGap`), `FloorStands` (`ConfidenceFloor`),
`IntervalsAreForward` (`IntervalsWellFormed`), `CurrentIsNow`
(`CurrentIsAsOfNow`), `SettledPast` (`SettledPastIsFixed`), `SettledAnswers`
(`SettledAnswersStand`), and `Refinement`: `Spec => ImplementsBeliefHistory`.
A commit publishes all events of a call at once, so the invariant says of every
call in flight which of its events are written and that what its transaction
sees is the committed image with just these applied (`Stage`); of what it acts
on, that it exists (`Ask`); of its instant, that the clock has shown it and that
the belief it closes began no later (`StampedAt`). `ClockInv` says that nothing
committed lies ahead of the clock, and `StatusInv` and `FloorInv` what an open
belief and an asserted confidence are. With it a commit is one `Assert`,
`Retract`, `Replace` or `LateReplace` of `BeliefHistory`, or leaves the
intervals alone, and every other step is a stutter.

**Spaces** (`SpacesProofs`). `SpacesInvariant`, `TenantsAreApart`,
`CorrectionsAreHome`, `WideIsPromoted`, `ReadersAreAdmitted`,
`NobodyIsSelfAdmitted`, `AccessEndsAsDecided`, of the properties they are named after. A call commits
on what it checked earlier; `CallInv` says what of that cannot have changed by
then: owners and visibility are fixed and placements only grow. `PlacedInv`,
`ReplacesInv` and `GrantInv` tie the objects to the ledger. The last theorem is
about what a step takes away: `NoLoss` says that an object already placed, or
still unplaced, stays readable as long as no membership ends, and only
`WritePlacement` and `RevokeCapability` do otherwise.

**Claims** (`GovernanceProofs`). `GovernanceInvariant`, `BeliefFollowsLedger`
(`BeliefIsGoverned`), `DecisionsAreFinal` (`DecisionsStand`), `ReviewsAreInside`
(`ReviewsStayInside`). `MatterInv` is the counterpart of `CallInv`: the claim is
there, a claimant never changes, so an acceptance checked before a race is as
authorized when it is written, and the placements a review will copy are still
among the claim's. `RecordInv` equates markers and ledger.

**Panel** (also `GovernanceProofs`). `PanelInvariant`, `EvidenceIsKept`
(`EvidenceStaysLinked`), `PanelIsTheEngine` (`PanelAgrees`). The panel derives
its graph of the past from the ledger, so the invariant says what the ledger has
told: `ToldInv`, that whatever exists was recorded; `LinkInv`, that the links of
a claim are those recorded for it, except what a full list has pushed out. From
both and `RecordInv` the two graphs have the same nodes and statuses, and differ
in edges only where a list is full.

**Lexical index** (`LexicalProofs`). `LexicalInvariant`, `IndexFollowsObjects`
(`DriftNeedsFault`), `VerifySeesOneFault` (`OneFaultIsDetected`),
`HealthyIsExact` (`FlagIsHonest`). Exactness of the committed tables is not
inductive: a statement fails inside a transaction, and rows and map may then be
rewritten for ever on top of what it left. `DefectInv` says what one fault can
leave and every later write preserves: the tables are sound, or one map entry is
without its row (whose id may meanwhile be another object's), or one row is
without a map entry. In the last two the counts that `verify` compares differ.
`RoomInv` bounds the row ids, so that a fresh one exists and is no other
object's. `TrustInv` ties the flag, and a thread about to raise it, to the
tables, in the open transaction up to the object being reindexed (`Pending`).

**Provenance index** (`ProvenanceProofs`). `ProvenanceInvariant`,
`ExplanationsAreComplete` (`AnswersAreTheScan`). `FlagInv`: unless a fault was
overlooked, a flag that says healthy, or is about to, speaks of an exact table.
`SelectInv` is what the answer needs and the flag no longer says: between the
flag and the table the table may become incomplete, but keeps the references to
the events there were when the flag was read.

**Transfer** (`TransferProofs`). `TransferInvariant`, `DamageShows`
(`DamageIsNoticed`), `ChainIsWhole` (`ChainStaysWhole`), `ImportsAreWhole`
(`ImportIsWhole`), `SlicesKeepFates` (`SliceKeepsFates`), for ledgers of any
length, any number of changes on the way, and both backends. `PackageInv`: unless
somebody computed hashes, every entry hash of the package was exported. An entry
hash is of one record at one place and of the hash before it (`SameEntry`), so
what verifies is a first part of the export, and two ledgers of one length that
end in one hash are equal from the end back (`SameHead`). `SourceInv`: the
source's ledger replays, and a slice of it, for *any* set of ids, raises or
knows of these ids what the source knows; this is inductive in the ledger where
the property of the one slice exported is not. `TargetInv` says what the
importing store holds before and after the import; that a table in the order of
seq is the chain itself is `StoredInOrder`, and that the table takes verified
records only next to none is `StorableIsAlone`.

**Feed** (also `SpacesProofs`, for the feed reads what the spaces let it). `StreamInvariant`, `FeedIsInOrder` (`InOrderOnce`),
`FeedHasNoGap` (`NoGap`). An event is *due* if the viewer can read what it is
about, and could ever since its commit or a later moment before the feed had
passed it, and the feed can tell what that is. `AheadIsBeyond` shows that what
the feed has not passed is beyond all it has taken up. `OrderInv` puts
the events received, on the wire, out and to be scanned in this order, with
`since` between wire and out. `CoverInv`: every due event up to `since` is with
the browser or on the wire, unless the connection is down, and every due one
beyond it and before the scan is out. That a due event passes the filter needs
`TenantInv`: an event's actor is of the tenant of what it is about.

**Graph** (`GraphProofs`). `TraceStands` (`MergesAreTraceable`): what a merge has
gathered includes its duplicates' names, and entities stay; `TraversalStaysBounded`
(`TraversalIsBounded`): the nodes asked and the nodes waiting are disjoint sets
of nodes met, so each is asked once (`Paid`); `TraversalFindsAll`
(`TraversalIsComplete`): `Going` says of a walk at depth d that what was met
before this level is within d hops of the graph as it is now, what the level has
met within d + 1, and that, unless readability moved, everything within d hops
of what was visible at the start has been met and every arc from a node that was
asked leads to one that was met. `Reach` is monotone in the graph and in the
number of hops.

**Context** (`ContextProofs`). `HonestyHolds`, `ContradictionsHold`,
`AuthorizationHolds`, `ExpansionHolds`, of the four properties of the run. What
the reader may read now always lies between `steady` and `seen` (`Witness`), and
each stage of a build or a redemption keeps what it has read within these.

**Corrected by the proofs.** Three properties were false beyond the bounds at
which TLC had confirmed them, which the attempt to prove them showed and TLC then
confirmed. `TraversalIsComplete` compared an answer with what is visible at its
end, which a relation added behind the walk contradicts; it compares with what
was visible when it began. `SliceKeepsFates` held of every slice of at most three
events; a longer one may name a contradiction with an unreadable fact, and then
does not replay, so it is stated of slices that do (`SliceReimports` is the
sentence of the code this contradicts). `ChainStaysWhole` held for SQLite, whose
key refuses a repeated seq, and fails for the memory store (`OnTop`).

**Only model-checked.** `LockIsReleased` and `StableIsDelivered`: liveness under
fairness is out of the prover's reach, as is `ENABLED`. Every other property of a
passing run is a theorem.

## 5. What is not modelled

- `backup`, and a COMMIT that itself fails: the store's own state between
  SQLite and `_depth`; listed as hazards.
- The tokenizer migration of the lexical index and the state `UNAVAILABLE` of
  both indexes, in which nothing happens; ranking and the bounded pool of
  candidates, which order and cut results and change no state.
- Sources, documents, memories and decisions: each call emits one event that
  stores one new object, as `assert_fact` does. The walk of `explain` over
  ancestors and sources, `explain_decision`, `recall`: reads.
- The adapters (REST, MCP, SDK), the providers, the panel's interface, its
  lists and buckets, the wire format, rendering, version negotiation, and the
  model's dataclasses: conversions of data that keep no state.
