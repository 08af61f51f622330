---------------------------- MODULE FactLifecycle ----------------------------
(***************************************************************************)
(* The life of a bitemporal fact in core/__init__.py: assert_fact,          *)
(* supersede, correct_validity, retract, confirm, contradict and            *)
(* rebuild_projection, called by concurrent threads.                        *)
(*                                                                          *)
(* Every mutating call has the same three parts, and only the last one      *)
(* holds the store lock:                                                    *)
(*   check   it reads the fact it acts on and refuses a closed belief       *)
(*   stamp   it reads the clock and builds its events                       *)
(*   write   inside atomic() it emits the events, one append and one        *)
(*           projection each, and commits                                   *)
(* so what was checked, and the instant stamped, may be stale when they are *)
(* written.  Subjects, values and world-time are left out: nothing here     *)
(* depends on them.  Confidence is in steps of 1/MaxConfidence.             *)
(***************************************************************************)
EXTENDS EventStore

CONSTANTS Fact,           \* fact ids new_id can hand out
          NoFact,         \* no such fact
          Absent,         \* an id the projection has no object for
          Open,           \* tx_to = None: still believed
          MaxTime,        \* bound on the wall clock
          MaxConfidence,  \* confidence 1.0
          MonotoneClock,  \* does the wall clock never step back?
          Calls           \* the calls a run exercises

ASSUME NoFactAssumption == NoFact \notin Fact
ASSUME OpenAssumption == Open \notin Nat
ASSUME BoundsAssumption == MaxTime \in Nat /\ MaxConfidence \in Nat
ASSUME CallsAssumption ==
  Calls \subseteq {"assert", "supersede", "correct_validity", "retract", "confirm",
                   "contradict", "rebuild"}
ASSUME MonotoneClockAssumption == MonotoneClock \in BOOLEAN

VARIABLES clock,   \* the wall clock
          pc,      \* how far each thread's call has come
          call,    \* what the call was asked, and what its check read
          todo,    \* the events the call has built and not yet emitted
          cursor   \* records rebuild_projection has replayed

callVars == <<pc, call, todo, cursor>>
vars == <<storeVars, clock, callVars>>

Time == 0 .. MaxTime
Confidence == 0 .. MaxConfidence
CloseOp == {"fact_superseded", "fact_retracted"}
EventOp == CloseOp \cup {"fact_asserted", "fact_confirmed", "contradiction_recorded"}

(* A sealed record.  other is the fact a new fact supersedes, the           *)
(* replacement of a superseded one, or the other side of a contradiction.   *)
Event == [op : EventOp, ts : Time, fact : Fact, other : Fact \cup {NoFact},
          confidence : Confidence]

Object == [txFrom : Time, txTo : Time \cup {Open},
           status : {"asserted", "superseded", "retracted"},
           confidence : Confidence, supersedes : Fact \cup {NoFact},
           contradicts : SUBSET Fact]

Projection == [Fact -> Object \cup {Absent}]
NoObjects == [f \in Fact |-> Absent]

ASSUME AbsentAssumption == Absent \notin Object

Call == {c \in [op : {"assert", "replace", "retract", "confirm", "contradict"},
                fact : Fact \cup {NoFact}, other : Fact \cup {NoFact},
                confidence : Confidence] : c.op # "assert" => c.fact \in Fact}
NoCall == [op |-> "assert", fact |-> NoFact, other |-> NoFact, confidence |-> 0]

Known(objs, f) == objs[f] # Absent
Believed(objs, f) == Known(objs, f) /\ objs[f].txTo = Open
-----------------------------------------------------------------------------
(* _apply: one sealed record projected onto the objects.                    *)

ApplyAsserted(objs, r) ==
  [objs EXCEPT ![r.fact] =
     [txFrom |-> r.ts, txTo |-> Open, status |-> "asserted",
      confidence |-> r.confidence, supersedes |-> r.other, contradicts |-> {}]]

(* Mutants: a later close moves the first; the event's name becomes the     *)
(* status.                                                                  *)
ApplyEveryClose(objs, r) ==
  IF Known(objs, r.fact)
    THEN [objs EXCEPT ![r.fact].txTo = r.ts, ![r.fact].status = "superseded"]
    ELSE objs

ApplyCloseByName(objs, r) ==
  IF Believed(objs, r.fact)
    THEN [objs EXCEPT ![r.fact].txTo = r.ts, ![r.fact].status = r.op]
    ELSE objs

(* The first close stands: closing a closed belief changes nothing.         *)
ApplyClose(objs, r) ==
  IF Believed(objs, r.fact)
    THEN [objs EXCEPT ![r.fact].txTo = r.ts,
                      ![r.fact].status =
                         IF r.op = "fact_superseded" THEN "superseded" ELSE "retracted"]
    ELSE objs

(* The record carries the new confidence, not the increment.                *)
ApplyConfirmed(objs, r) == [objs EXCEPT ![r.fact].confidence = r.confidence]

ApplyContradiction(objs, r) ==
  [objs EXCEPT ![r.fact].contradicts = @ \cup {r.other},
               ![r.other].contradicts = @ \cup {r.fact}]

Apply(objs, r) ==
  CASE r.op = "fact_asserted"          -> ApplyAsserted(objs, r)
    [] r.op \in CloseOp                -> ApplyClose(objs, r)
    [] r.op = "fact_confirmed"         -> ApplyConfirmed(objs, r)
    [] r.op = "contradiction_recorded" -> ApplyContradiction(objs, r)

(* _in_record_scope raises when a record mutates an object that is missing. *)
Applicable(objs, r) ==
  CASE r.op = "fact_asserted"          -> TRUE
    [] r.op = "contradiction_recorded" -> Known(objs, r.fact) /\ r.other \in Fact
                                            /\ Known(objs, r.other)
    [] OTHER                           -> Known(objs, r.fact)

(* The projection after each prefix of a ledger.                            *)
Trace(log) ==
  LET image[i \in 0 .. Len(log)] ==
        IF i = 0 THEN NoObjects ELSE Apply(image[i - 1], log[i])
  IN  image

Replay(log) == Trace(log)[Len(log)]
-----------------------------------------------------------------------------
Init ==
  /\ StoreInit(NoObjects)
  /\ clock = 0
  /\ pc = [t \in Thread |-> "idle"]
  /\ call = [t \in Thread |-> NoCall]
  /\ todo = [t \in Thread |-> << >>]
  /\ cursor = 0

(* The check of each call.  A call that is refused changes nothing.         *)
Check(t, c) ==
  /\ CanRead
  /\ pc[t] = "idle"
  /\ pc' = [pc EXCEPT ![t] = "checked"]
  /\ call' = [call EXCEPT ![t] = c]
  /\ UNCHANGED <<storeVars, clock, todo, cursor>>

CheckAssert(t) == \E c \in Confidence :
  Check(t, [op |-> "assert", fact |-> NoFact, other |-> NoFact, confidence |-> c])

(* supersede: the replacement's confidence is given, or the one just read.  *)
CheckSupersede(t) == \E f \in Fact, c \in Confidence :
  /\ Believed(objects, f)
  /\ Check(t, [op |-> "replace", fact |-> f, other |-> NoFact, confidence |-> c])

(* correct_validity and end_fact: the confidence just read is kept.         *)
CheckCorrectValidity(t) == \E f \in Fact :
  /\ Believed(objects, f)
  /\ Check(t, [op |-> "replace", fact |-> f, other |-> NoFact,
               confidence |-> objects[f].confidence])

CheckRetract(t) == \E f \in Fact :
  /\ Believed(objects, f)
  /\ Check(t, [op |-> "retract", fact |-> f, other |-> NoFact, confidence |-> 0])

(* Mutant: a negative increment is accepted.                                *)
RaisedOrLowered(c, delta) == IF c < delta THEN 0 ELSE c - delta

Raised(c, delta) == IF c + delta > MaxConfidence THEN MaxConfidence ELSE c + delta

(* confirm: a closed fact may be confirmed too.                             *)
CheckConfirm(t) == \E f \in Fact, delta \in Confidence :
  /\ Known(objects, f)
  /\ Check(t, [op |-> "confirm", fact |-> f, other |-> NoFact,
               confidence |-> Raised(objects[f].confidence, delta)])

CheckContradict(t) == \E f, g \in Fact :
  /\ f # g
  /\ Known(objects, f) /\ Known(objects, g)
  /\ Check(t, [op |-> "contradict", fact |-> f, other |-> g, confidence |-> 0])
-----------------------------------------------------------------------------
(* uuid4 never repeats: an id in use is not handed out again.               *)
Assigned == {f \in Fact : \/ Known(objects, f) \/ Known(txObjects, f)
                          \/ \E t \in Thread : \E i \in 1 .. Len(todo[t]) :
                               todo[t][i].op = "fact_asserted" /\ todo[t][i].fact = f}

(* The events of call c stamped ts; new is the id new_id returned, if any.  *)
EventsOf(c, ts, new) ==
  LET ev(op, fact, other) == [op |-> op, ts |-> ts, fact |-> fact, other |-> other,
                              confidence |-> c.confidence]
  IN  CASE c.op = "assert"     -> <<ev("fact_asserted", new, NoFact)>>
        [] c.op = "replace"    -> <<ev("fact_superseded", c.fact, new),
                                    ev("fact_asserted", new, c.fact)>>
        [] c.op = "retract"    -> <<ev("fact_retracted", c.fact, NoFact)>>
        [] c.op = "confirm"    -> <<ev("fact_confirmed", c.fact, NoFact)>>
        [] c.op = "contradict" -> <<ev("contradiction_recorded", c.fact, c.other)>>

(* Mutant: the caller supplies the instant.                                 *)
StampBackdated(t) ==
  /\ pc[t] = "checked"
  /\ \E new \in IF call[t].op \in {"assert", "replace"} THEN Fact \ Assigned
                                                        ELSE {NoFact} :
       \E ts \in 0 .. clock : todo' = [todo EXCEPT ![t] = EventsOf(call[t], ts, new)]
  /\ pc' = [pc EXCEPT ![t] = "stamped"]
  /\ UNCHANGED <<storeVars, clock, call, cursor>>

(* ts = self._now(), then the events are built; the lock is not held.       *)
Stamp(t) ==
  /\ pc[t] = "checked"
  /\ \E new \in IF call[t].op \in {"assert", "replace"} THEN Fact \ Assigned
                                                        ELSE {NoFact} :
       todo' = [todo EXCEPT ![t] = EventsOf(call[t], clock, new)]
  /\ pc' = [pc EXCEPT ![t] = "stamped"]
  /\ UNCHANGED <<storeVars, clock, call, cursor>>

EndCall(t) ==
  /\ pc' = [pc EXCEPT ![t] = "idle"]
  /\ call' = [call EXCEPT ![t] = NoCall]
  /\ todo' = [todo EXCEPT ![t] = << >>]

BeginWrite(t) ==
  /\ pc[t] = "stamped"
  /\ Begin(t, Len(todo[t]))
  /\ pc' = [pc EXCEPT ![t] = "writing"]
  /\ UNCHANGED <<clock, call, todo, cursor>>

Emit(t) ==
  /\ pc[t] = "writing"
  /\ todo[t] # << >>
  /\ Applicable(txObjects, Head(todo[t]))
  /\ Write(t, Head(todo[t]), Apply(txObjects, Head(todo[t])))
  /\ todo' = [todo EXCEPT ![t] = Tail(@)]
  /\ UNCHANGED <<clock, pc, call, cursor>>

(* Mutant: each event is committed in a transaction of its own, and the     *)
(* call may fail between the two.                                           *)
CommitHalf(t) ==
  /\ pc[t] = "writing"
  /\ Commit(t)
  /\ EndCall(t)
  /\ UNCHANGED <<clock, cursor>>

CommitWrite(t) ==
  /\ pc[t] = "writing"
  /\ todo[t] = << >>
  /\ Commit(t)
  /\ EndCall(t)
  /\ UNCHANGED <<clock, cursor>>

(* Any exception of the call after its check: validation of an argument or  *)
(* BEGIN IMMEDIATE (no transaction yet), or the store inside atomic().      *)
FailBeforeWrite(t) ==
  /\ pc[t] \in {"checked", "stamped"}
  /\ EndCall(t)
  /\ UNCHANGED <<storeVars, clock, cursor>>

FailInside(t) ==
  /\ pc[t] \in {"writing", "clearing", "replaying"}
  /\ Rollback(t)
  /\ EndCall(t)
  /\ cursor' = 0
  /\ UNCHANGED clock
-----------------------------------------------------------------------------
(* rebuild_projection: clear, then replay the whole ledger, in one          *)
(* transaction.                                                             *)
BeginRebuild(t) ==
  /\ pc[t] = "idle"
  /\ Begin(t, 0)
  /\ pc' = [pc EXCEPT ![t] = "clearing"]
  /\ UNCHANGED <<clock, call, todo, cursor>>

ClearProjection(t) ==
  /\ pc[t] = "clearing"
  /\ Reproject(t, NoObjects)
  /\ cursor' = 0
  /\ pc' = [pc EXCEPT ![t] = "replaying"]
  /\ UNCHANGED <<clock, call, todo>>

ReplayNext(t) ==
  /\ pc[t] = "replaying"
  /\ cursor < Len(txLedger)
  /\ Applicable(txObjects, txLedger[cursor + 1])
  /\ Reproject(t, Apply(txObjects, txLedger[cursor + 1]))
  /\ cursor' = cursor + 1
  /\ UNCHANGED <<clock, pc, call, todo>>

CommitRebuild(t) ==
  /\ pc[t] = "replaying"
  /\ cursor = Len(txLedger)
  /\ Commit(t)
  /\ EndCall(t)
  /\ cursor' = 0
  /\ UNCHANGED clock
-----------------------------------------------------------------------------
Tick ==
  /\ clock' \in {c \in Time : MonotoneClock => c > clock}
  /\ UNCHANGED <<storeVars, callVars>>

(* The process dies and the file is opened again.                           *)
Crash ==
  /\ Recover
  /\ pc' = [t \in Thread |-> "idle"]
  /\ call' = [t \in Thread |-> NoCall]
  /\ todo' = [t \in Thread |-> << >>]
  /\ cursor' = 0
  /\ UNCHANGED clock

StartCall(t) ==
  \/ "assert" \in Calls /\ CheckAssert(t)
  \/ "supersede" \in Calls /\ CheckSupersede(t)
  \/ "correct_validity" \in Calls /\ CheckCorrectValidity(t)
  \/ "retract" \in Calls /\ CheckRetract(t)
  \/ "confirm" \in Calls /\ CheckConfirm(t)
  \/ "contradict" \in Calls /\ CheckContradict(t)
  \/ "rebuild" \in Calls /\ BeginRebuild(t)

(* What a thread does between acquiring the store lock and releasing it.    *)
InsideLock(t) == \/ Emit(t) \/ CommitWrite(t) \/ FailInside(t)
                 \/ ClearProjection(t) \/ ReplayNext(t) \/ CommitRebuild(t)

Next ==
  \/ \E t \in Thread : \/ StartCall(t) \/ Stamp(t) \/ FailBeforeWrite(t)
                       \/ BeginWrite(t) \/ InsideLock(t)
  \/ Tick
  \/ Crash

Spec == Init /\ [][Next]_vars

(* A thread that holds the lock is running Python code that ends: it always *)
(* takes its next step.                                                     *)
Fairness == \A t \in Thread : WF_vars(InsideLock(t))
FairSpec == Spec /\ Fairness
-----------------------------------------------------------------------------
(* Type invariant of the store, the clock and the calls in flight.          *)
TypeOK ==
  /\ ledger \in Seq(Event) /\ txLedger \in Seq(Event)
  /\ objects \in Projection /\ txObjects \in Projection
  /\ holder \in Thread \cup {NoThread}
  /\ clock \in Time
  /\ pc \in [Thread -> {"idle", "checked", "stamped", "writing", "clearing", "replaying"}]
  /\ call \in [Thread -> Call]
  /\ todo \in [Thread -> Seq(Event)]
  /\ cursor \in Nat

(* The queryable state is exactly what replaying the committed ledger gives *)
(* (rebuild_projection, ADR-001), whatever calls, failed transactions,      *)
(* rebuilds and crashes came before.                                        *)
ProjectionIsReplay == objects = Replay(ledger)

(* A superseded belief leaves no gap: some replacement starts at the very   *)
(* instant the old belief ends, even when several calls raced to close it.  *)
NoBeliefGap ==
  \A f \in Fact :
    Known(objects, f) /\ objects[f].status = "superseded" =>
      \E g \in Fact : /\ Known(objects, g)
                      /\ objects[g].supersedes = f
                      /\ objects[g].txFrom = objects[f].txTo

(* Racing confirms may lose each other's increment, but corroboration never *)
(* takes a fact below the confidence it was asserted with.                  *)
ConfidenceFloor ==
  \A i \in 1 .. Len(ledger) :
    ledger[i].op = "fact_asserted" =>
      objects[ledger[i].fact].confidence >= ledger[i].confidence

(* With a clock that does not step back, a belief never ends before it      *)
(* began, although both instants are read outside the lock.                 *)
IntervalsWellFormed ==
  MonotoneClock =>
    \A f \in Fact : Known(objects, f) /\ objects[f].txTo # Open =>
                      objects[f].txFrom <= objects[f].txTo

(* Committed records are never lost, moved or rewritten: not by a failed    *)
(* transaction, a rebuild or a crash.                                       *)
LedgerOnlyGrows ==
  [][/\ Len(ledger) <= Len(ledger')
     /\ \A i \in 1 .. Len(ledger) : ledger'[i] = ledger[i]]_vars

(* A belief closes exactly once: neither a second close that passed its     *)
(* check before the first committed, nor a rebuild, moves tx_to or status.  *)
FirstCloseStands ==
  [][\A f \in Fact :
       Known(objects, f) /\ objects[f].txTo # Open =>
         /\ Known(objects', f)
         /\ objects'[f].txTo = objects[f].txTo
         /\ objects'[f].status = objects[f].status]_vars

(* Mutant: an interval includes its end.                                    *)
BelievedThrough(objs, T) ==
  {f \in Fact : /\ Known(objs, f)
                /\ objs[f].txFrom <= T
                /\ (objs[f].txTo = Open \/ T <= objs[f].txTo)}

(* as_of(at_tx = T): the facts believed at transaction time T.              *)
BelievedAt(objs, T) ==
  {f \in Fact : /\ Known(objs, f)
                /\ objs[f].txFrom <= T
                /\ (objs[f].txTo = Open \/ T < objs[f].txTo)}

(* No call that has stamped an instant up to T is still to be written.      *)
Settled(T) ==
  /\ T < clock
  /\ \A t \in Thread : \A i \in 1 .. Len(todo[t]) : todo[t][i].ts > T
  /\ \A i \in Len(ledger) + 1 .. Len(txLedger) : txLedger[i].ts > T

(* The past, once no call stamped in it is in flight, is fixed: as_of(T)    *)
(* answers the same ever after.                                             *)
SettledPastIsFixed ==
  [][MonotoneClock =>
       \A T \in Time :
         Settled(T) => /\ BelievedAt(objects', T) = BelievedAt(objects, T)
                       /\ Settled(T)']_vars

(* Readers see a BeliefHistory: each fact's interval, and nothing else.     *)
History == INSTANCE BeliefHistory WITH
  belief <- [f \in Fact |->
               IF Known(objects, f)
                 THEN [from |-> objects[f].txFrom, to |-> objects[f].txTo,
                       status |-> objects[f].status,
                       replaces |-> objects[f].supersedes]
                 ELSE Absent]

ASSUME IntervalAssumption == Absent \notin History!Interval

(* Locks, transactions, failures, rebuilds and crashes add no step that the *)
(* abstract history does not allow, and a commit is one step of it.         *)
ImplementsBeliefHistory == History!Spec

(* Every transaction ends and releases the store lock, also when the call   *)
(* inside it raises.                                                        *)
LockIsReleased == \A t \in Thread : holder = t ~> holder # t
-----------------------------------------------------------------------------
(* What the documents say and concurrent calls break.                       *)

(* ADR-003: as_of(at_tx=T) cannot change its answer about a past instant.   *)
PastIsFixed ==
  [][\A T \in Time : T < clock => BelievedAt(objects', T) = BelievedAt(objects, T)]_vars

(* confirm: corroboration may only raise confidence.                        *)
ConfirmOnlyRaises ==
  [][\A f \in Fact : Known(objects, f) =>
       objects'[f].confidence >= objects[f].confidence]_vars

(* Retract and supersede of one fact: one wins and the other raises, so a   *)
(* retracted fact is not carried on by a replacement that is believed.      *)
OneCloseWins ==
  \A f, g \in Fact :
    Known(objects, f) /\ objects[f].status = "retracted" =>
      ~(Known(objects, g) /\ objects[g].supersedes = f)
=============================================================================
