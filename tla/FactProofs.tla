------------------------------ MODULE FactProofs ------------------------------
(***************************************************************************)
(* Proofs about FactLifecycle and FactResolution, for any threads, fact ids *)
(* and bounds.  The first part is about the store a reader finds; the       *)
(* second about what a committed call does to the beliefs he sees:          *)
(* FactLifecycle implements BeliefHistory, and the properties of intervals, *)
(* replacements, confidence and past answers that follow.                   *)
(***************************************************************************)
EXTENDS FactResolution, WellFoundedInduction, TLAPS

-----------------------------------------------------------------------------
(* Replay, without induction over data: Trace is defined recursively, so    *)
(* its value is a chosen function, and to use its equation one must show    *)
(* that some function satisfies it.  The lemmas below extend that fact from *)
(* a ledger to the ledger with one more record.                             *)

IsTrace(log, s) ==
  s = [i \in 0 .. Len(log) |-> IF i = 0 THEN NoObjects ELSE Apply(s[i - 1], log[i])]

HasTrace(log) == IsTrace(log, Trace(log))

(* The naturals have no infinite descent, so a nonempty set of them has a   *)
(* least element: induction in a form that needs no operator parameter.     *)
Below == {ss \in Nat \X Nat : ss[1] < ss[2]}

LEMMA BelowIsWellFounded == IsWellFoundedOn(Below, Nat)
  BY NatLessThanWellFounded DEF OpToRel, Below

LEMMA LeastElement ==
  ASSUME NEW S \in SUBSET Nat, S # {}
  PROVE  \E m \in S : \A k \in S : m <= k
<1>1. PICK m \in S : \A k \in S : ~(<<k, m>> \in Below)
  BY BelowIsWellFounded, WFMin, Zenon
<1>2. ASSUME NEW k \in S PROVE m <= k
  <2>1. k \in Nat /\ m \in Nat
    OBVIOUS
  <2>2. <<k, m>> \in Nat \X Nat
    BY <2>1
  <2>3. ~(k < m)
    BY <1>1, <2>2 DEF Below
  <2>4. QED
    BY <2>1, <2>3
<1>3. QED
  BY <1>2

(* Two functions that satisfy the equation of one ledger are equal.         *)
LEMMA TraceUnique ==
  ASSUME NEW log \in Seq(Event), NEW s, NEW u, IsTrace(log, s), IsTrace(log, u)
  PROVE  s = u
<1> DEFINE Differ == {i \in 0 .. Len(log) : s[i] # u[i]}
<1>1. Len(log) \in Nat
  OBVIOUS
<1>2. ASSUME Differ # {} PROVE FALSE
  <2>1. PICK m \in Differ : \A k \in Differ : m <= k
    <3>1. Differ \in SUBSET Nat
      BY <1>1
    <3>2. QED
      BY <3>1, <1>2, LeastElement, Zenon
  <2>2. CASE m = 0
    BY <2>1, <2>2, <1>1 DEF IsTrace
  <2>3. CASE m # 0
    <3>1. m - 1 \in 0 .. Len(log) /\ m - 1 \notin Differ
      BY <2>1, <2>3, <1>1
    <3>2. s[m - 1] = u[m - 1]
      BY <3>1
    <3>3. QED
      BY <3>2, <2>1, <2>3, <1>1 DEF IsTrace
  <2>4. QED
    BY <2>2, <2>3
<1>3. QED
  BY <1>1, <1>2 DEF IsTrace

(* A trace of the empty ledger.                                             *)
LEMMA TraceEmpty == HasTrace(<< >>) /\ Replay(<< >>) = NoObjects
<1> DEFINE s == [i \in {0} |-> NoObjects]
<1>1. IsTrace(<< >>, s)
  BY DEF IsTrace
<1>2. HasTrace(<< >>)
  BY <1>1 DEF HasTrace, Trace, IsTrace
<1>3. QED
  BY <1>2 DEF HasTrace, IsTrace, Replay

(* One more record: the trace goes on from where it was.                    *)
LEMMA TraceAppend ==
  ASSUME NEW log \in Seq(Event), NEW r \in Event, HasTrace(log)
  PROVE  /\ HasTrace(Append(log, r))
         /\ Replay(Append(log, r)) = Apply(Replay(log), r)
         /\ \A i \in 0 .. Len(log) : Trace(Append(log, r))[i] = Trace(log)[i]
<1> DEFINE n == Len(log)
           longer == Append(log, r)
           s == Trace(log)
           ext == [i \in 0 .. n + 1 |-> IF i <= n THEN s[i] ELSE Apply(s[n], r)]
<1>1. /\ n \in Nat /\ longer \in Seq(Event) /\ Len(longer) = n + 1
      /\ longer[n + 1] = r
      /\ \A i \in 1 .. n : longer[i] = log[i]
  OBVIOUS
<1>2. \A i \in 0 .. n : s[i] = IF i = 0 THEN NoObjects ELSE Apply(s[i - 1], log[i])
  BY DEF HasTrace, IsTrace
<1>3. ASSUME NEW i \in 0 .. n + 1
      PROVE  ext[i] = IF i = 0 THEN NoObjects ELSE Apply(ext[i - 1], longer[i])
  BY <1>1, <1>2
<1>4. IsTrace(longer, ext)
  BY <1>1, <1>3 DEF IsTrace
<1>5. HasTrace(longer)
  BY <1>4 DEF HasTrace, Trace, IsTrace
<1>6. Trace(longer) = ext
  BY <1>1, <1>4, <1>5, TraceUnique DEF HasTrace
<1>7. QED
  BY <1>1, <1>5, <1>6 DEF Replay
-----------------------------------------------------------------------------
(* Type correctness.                                                        *)

(* Projecting a record gives a projection, if the facts it changes exist.   *)
LEMMA ApplyType ==
  ASSUME NEW objs \in Projection, NEW r \in Event, Applicable(objs, r)
  PROVE  Apply(objs, r) \in Projection
<1>1. CASE r.op = "fact_asserted"
  <2>1. [txFrom |-> r.ts, txTo |-> Open, status |-> "asserted",
         confidence |-> r.confidence, supersedes |-> r.other,
         contradicts |-> {}] \in Object
    BY DEF Event, Object
  <2>2. ApplyAsserted(objs, r) \in Projection
    BY <2>1 DEF ApplyAsserted, Projection, Event
  <2>3. QED
    BY <1>1, <2>2 DEF Apply, CloseOp
<1>2. CASE r.op \in CloseOp
  <2>1. CASE Believed(objs, r.fact)
    <3>1. objs[r.fact] \in Object
      BY <2>1 DEF Believed, Known, Projection, Event
    <3>2. DEFINE why == IF r.op = "fact_superseded" THEN "superseded" ELSE "retracted"
    <3>3. [objs[r.fact] EXCEPT !.txTo = r.ts, !.status = why] \in Object
      BY <3>1 DEF Object, Event
    <3>4. ApplyClose(objs, r) \in Projection
      BY <2>1, <3>1, <3>3 DEF ApplyClose, Projection, Event
    <3>5. QED
      BY <1>2, <3>4 DEF Apply, CloseOp
  <2>2. CASE ~Believed(objs, r.fact)
    BY <1>2, <2>2 DEF Apply, ApplyClose, CloseOp
  <2>3. QED
    BY <2>1, <2>2
<1>3. CASE r.op = "fact_confirmed"
  <2>1. objs[r.fact] \in Object
    BY <1>3 DEF Applicable, Known, Projection, Event
  <2>2. [objs[r.fact] EXCEPT !.confidence = r.confidence] \in Object
    BY <2>1 DEF Object, Event
  <2>3. QED
    BY <1>3, <2>2 DEF Apply, CloseOp, ApplyConfirmed, Projection, Event
<1>4. CASE r.op = "contradiction_recorded"
  <2>1. r.other \in Fact /\ r.fact \in Fact
    BY <1>4 DEF Applicable, Event
  <2>2. DEFINE one == [objs EXCEPT ![r.fact].contradicts = @ \cup {r.other}]
  <2>3. objs[r.fact] \in Object /\ objs[r.other] \in Object
    BY <1>4, <2>1 DEF Applicable, Known, Projection
  <2>4. [objs[r.fact] EXCEPT !.contradicts = @ \cup {r.other}] \in Object
    BY <2>1, <2>3 DEF Object
  <2>5. one \in Projection
    BY <2>1, <2>4 DEF Projection
  <2>6. one[r.other] \in Object
    BY <2>1, <2>3, <2>4 DEF Projection
  <2>7. [one[r.other] EXCEPT !.contradicts = @ \cup {r.fact}] \in Object
    BY <2>1, <2>6 DEF Object
  <2>8. [one EXCEPT ![r.other] = [one[r.other] EXCEPT !.contradicts = @ \cup {r.fact}]]
          \in Projection
    BY <2>1, <2>5, <2>7 DEF Projection
  <2>9. ApplyContradiction(objs, r) =
          [one EXCEPT ![r.other] = [one[r.other] EXCEPT !.contradicts = @ \cup {r.fact}]]
    BY DEF ApplyContradiction
  <2>10. QED
    BY <1>4, <2>8, <2>9 DEF Apply, CloseOp
<1>5. QED
  BY <1>1, <1>2, <1>3, <1>4 DEF Event, EventOp

(* The events of a call are records.                                        *)
LEMMA EventsType ==
  ASSUME NEW c \in Call, NEW ts \in Time, NEW new,
         new \in IF c.op \in {"assert", "replace"} THEN Fact ELSE {NoFact}
  PROVE  EventsOf(c, ts, new) \in Seq(Event)
<1> DEFINE ev(op, fact, other) == [op |-> op, ts |-> ts, fact |-> fact, other |-> other,
                                   confidence |-> c.confidence]
<1>1. ASSUME NEW op \in EventOp, NEW fact \in Fact, NEW other \in Fact \cup {NoFact}
      PROVE  ev(op, fact, other) \in Event
  BY DEF Event, Call
<1>2. CASE c.op = "assert"
  BY <1>1, <1>2 DEF EventsOf, EventOp
<1>3. CASE c.op = "replace"
  <2>1. c.fact \in Fact /\ new \in Fact
    BY <1>3 DEF Call
  <2>2. ev("fact_superseded", c.fact, new) \in Event /\ ev("fact_asserted", new, c.fact) \in Event
    BY <1>1, <2>1 DEF EventOp, CloseOp
  <2>3. QED
    BY <1>3, <2>2 DEF EventsOf
<1>4. CASE c.op = "retract"
  BY <1>1, <1>4 DEF EventsOf, EventOp, CloseOp, Call
<1>5. CASE c.op = "confirm"
  BY <1>1, <1>5 DEF EventsOf, EventOp, Call
<1>6. CASE c.op = "contradict"
  BY <1>1, <1>6 DEF EventsOf, EventOp, Call
<1>7. QED
  BY <1>2, <1>3, <1>4, <1>5, <1>6 DEF Call

LEMMA TypeInit == Init => TypeOK
<1>1. NoCall \in Call
  BY BoundsAssumption DEF NoCall, Call, Confidence
<1>2. NoObjects \in Projection
  BY DEF NoObjects, Projection
<1>3. QED
  BY <1>1, <1>2, BoundsAssumption DEF Init, StoreInit, TypeOK, Time

(* Each check hands on a well-formed call.                                  *)
LEMMA CheckType ==
  ASSUME TypeOK, NEW t \in Thread, StartCall(t)
  PROVE  TypeOK'
<1>1. ASSUME NEW c \in Call, Check(t, c) PROVE TypeOK'
  BY <1>1 DEF TypeOK, Check, storeVars
<1>2. CASE CheckAssert(t)
  BY <1>1, <1>2 DEF CheckAssert, Call
<1>3. CASE CheckSupersede(t)
  BY <1>1, <1>3 DEF CheckSupersede, Call
<1>4. CASE CheckCorrectValidity(t)
  <2>1. PICK f \in Fact : /\ Believed(objects, f)
                          /\ Check(t, [op |-> "replace", fact |-> f, other |-> NoFact,
                                       confidence |-> objects[f].confidence])
    BY <1>4 DEF CheckCorrectValidity
  <2>2. objects[f].confidence \in Confidence
    BY <2>1 DEF Believed, Known, TypeOK, Projection, Object
  <2>3. QED
    BY <1>1, <2>1, <2>2 DEF Call
<1>5. CASE CheckRetract(t)
  <2>1. 0 \in Confidence
    BY BoundsAssumption DEF Confidence
  <2>2. QED
    BY <1>1, <1>5, <2>1 DEF CheckRetract, Call
<1>6. CASE CheckConfirm(t)
  <2>1. PICK f \in Fact, d \in Confidence :
          /\ Known(objects, f)
          /\ Check(t, [op |-> "confirm", fact |-> f, other |-> NoFact,
                       confidence |-> Raised(objects[f].confidence, d)])
    BY <1>6 DEF CheckConfirm
  <2>2. objects[f].confidence \in Confidence
    BY <2>1 DEF Known, TypeOK, Projection, Object
  <2>3. Raised(objects[f].confidence, d) \in Confidence
    BY <2>2, BoundsAssumption DEF Raised, Confidence
  <2>4. QED
    BY <1>1, <2>1, <2>3 DEF Call
<1>7. CASE CheckContradict(t)
  <2>1. 0 \in Confidence
    BY BoundsAssumption DEF Confidence
  <2>2. QED
    BY <1>1, <1>7, <2>1 DEF CheckContradict, Call
<1>8. CASE BeginRebuild(t)
  BY <1>8 DEF BeginRebuild, Begin, TypeOK
<1>9. QED
  BY <1>2, <1>3, <1>4, <1>5, <1>6, <1>7, <1>8 DEF StartCall

LEMMA TypeStep == TypeOK /\ [Next]_vars => TypeOK'
<1> SUFFICES ASSUME TypeOK, [Next]_vars PROVE TypeOK'
  OBVIOUS
<1>1. NoCall \in Call
  BY BoundsAssumption DEF NoCall, Call, Confidence
<1>2. ASSUME NEW t \in Thread, StartCall(t) PROVE TypeOK'
  BY <1>2, CheckType
<1>3. ASSUME NEW t \in Thread, Stamp(t) PROVE TypeOK'
  <2>1. PICK new \in IF call[t].op \in {"assert", "replace"} THEN Fact \ Assigned
                                                           ELSE {NoFact} :
          todo' = [todo EXCEPT ![t] = EventsOf(call[t], clock, new)]
    BY <1>3 DEF Stamp
  <2>2. EventsOf(call[t], clock, new) \in Seq(Event)
    BY <2>1, EventsType DEF TypeOK
  <2>3. todo' \in [Thread -> Seq(Event)]
    BY <2>1, <2>2 DEF TypeOK
  <2>4. QED
    BY <1>3, <2>3 DEF Stamp, TypeOK, storeVars
<1>4. ASSUME NEW t \in Thread, FailBeforeWrite(t) PROVE TypeOK'
  BY <1>1, <1>4 DEF FailBeforeWrite, EndCall, TypeOK, storeVars
<1>5. ASSUME NEW t \in Thread, BeginWrite(t) PROVE TypeOK'
  BY <1>5 DEF BeginWrite, Begin, TypeOK
<1>6. ASSUME NEW t \in Thread, Emit(t) PROVE TypeOK'
  <2>1. Head(todo[t]) \in Event /\ Tail(todo[t]) \in Seq(Event)
    BY <1>6 DEF Emit, TypeOK
  <2>2. Apply(txObjects, Head(todo[t])) \in Projection
    BY <1>6, <2>1, ApplyType DEF Emit, TypeOK
  <2>3. txLedger' \in Seq(Event) /\ txObjects' \in Projection
    BY <1>6, <2>1, <2>2 DEF Emit, Write, TypeOK
  <2>4. todo' \in [Thread -> Seq(Event)]
    BY <1>6, <2>1 DEF Emit, TypeOK
  <2>5. QED
    BY <1>6, <2>3, <2>4 DEF Emit, Write, TypeOK
<1>7. ASSUME NEW t \in Thread, CommitWrite(t) PROVE TypeOK'
  BY <1>1, <1>7 DEF CommitWrite, Commit, EndCall, TypeOK
<1>8. ASSUME NEW t \in Thread, FailInside(t) PROVE TypeOK'
  BY <1>1, <1>8 DEF FailInside, Rollback, EndCall, TypeOK
<1>9. ASSUME NEW t \in Thread, ClearProjection(t) PROVE TypeOK'
  BY <1>9 DEF ClearProjection, Reproject, NoObjects, Projection, TypeOK
<1>10. ASSUME NEW t \in Thread, ReplayNext(t) PROVE TypeOK'
  <2>1. txLedger[cursor + 1] \in Event
    BY <1>10 DEF ReplayNext, TypeOK
  <2>2. txObjects' \in Projection
    BY <1>10, <2>1, ApplyType DEF ReplayNext, Reproject, TypeOK
  <2>3. QED
    BY <1>10, <2>2 DEF ReplayNext, Reproject, TypeOK
<1>11. ASSUME NEW t \in Thread, CommitRebuild(t) PROVE TypeOK'
  BY <1>1, <1>11 DEF CommitRebuild, Commit, EndCall, TypeOK
<1>12. CASE Tick
  BY <1>12 DEF Tick, TypeOK, storeVars, callVars
<1>13. CASE Crash
  BY <1>1, <1>13 DEF Crash, Recover, TypeOK
<1>14. CASE UNCHANGED vars
  BY <1>14 DEF vars, storeVars, callVars, TypeOK
<1>15. QED
  BY <1>2, <1>3, <1>4, <1>5, <1>6, <1>7, <1>8, <1>9, <1>10, <1>11, <1>12, <1>13, <1>14
     DEF Next, InsideLock

(* Every reachable state is well typed.                                     *)
THEOREM TypeCorrect == Spec => []TypeOK
  BY TypeInit, TypeStep, PTL DEF Spec
-----------------------------------------------------------------------------
(* The inductive invariant.                                                 *)

(* The lock holder is the one thread inside a transaction; what the         *)
(* connection sees differs from the committed state only while it writes or *)
(* replays, and a replay works on the committed ledger.                     *)
LockInv ==
  /\ \A t \in Thread : pc[t] \in {"writing", "clearing", "replaying"} <=> holder = t
  /\ (\A t \in Thread : pc[t] \notin {"writing", "replaying"}) =>
       txLedger = ledger /\ txObjects = objects
  /\ (\A t \in Thread : pc[t] # "writing") => txLedger = ledger

(* Committed objects are the replay of the committed ledger; so are the     *)
(* connection's while a call writes.  A rebuild has got as far as cursor.   *)
ReplayInv ==
  /\ HasTrace(ledger) /\ objects = Replay(ledger)
  /\ \A t \in Thread : pc[t] = "writing" =>
                         HasTrace(txLedger) /\ txObjects = Replay(txLedger)
  /\ \A t \in Thread : pc[t] = "replaying" =>
                         cursor <= Len(ledger) /\ txObjects = Trace(ledger)[cursor]

(* The transaction only adds records to the committed ledger.               *)
PrefixInv ==
  /\ Len(ledger) <= Len(txLedger)
  /\ \A i \in 1 .. Len(ledger) : txLedger[i] = ledger[i]

NewFact(t, i) == i \in 1 .. Len(todo[t]) /\ todo[t][i].op = "fact_asserted"

(* The ids of facts still to be asserted are unused and distinct.           *)
FreshInv ==
  /\ \A t \in Thread : \A i \in 1 .. Len(todo[t]) : NewFact(t, i) =>
       /\ ~Known(objects, todo[t][i].fact)
       /\ (\A u \in Thread : pc[u] # "replaying") => ~Known(txObjects, todo[t][i].fact)
  /\ \A t, u \in Thread : \A i \in 1 .. Len(todo[t]), j \in 1 .. Len(todo[u]) :
       NewFact(t, i) /\ NewFact(u, j) /\ todo[t][i].fact = todo[u][j].fact => t = u /\ i = j

(* objs agrees with the committed objects on every belief closed there.     *)
KeepsCloses(objs) ==
  \A f \in Fact : Known(objects, f) /\ objects[f].txTo # Open =>
    /\ Known(objs, f)
    /\ objs[f].txTo = objects[f].txTo /\ objs[f].status = objects[f].status

CloseInv == \A t \in Thread : pc[t] = "writing" => KeepsCloses(txObjects)

IInv == TypeOK /\ LockInv /\ ReplayInv /\ PrefixInv /\ FreshInv /\ CloseInv

LEMMA InvInit == Init => IInv
<1> SUFFICES ASSUME Init PROVE IInv
  OBVIOUS
<1>1. TypeOK
  BY TypeInit
<1>2. LockInv
  BY NoThreadAssumption DEF Init, StoreInit, LockInv
<1>3. ReplayInv
  BY TraceEmpty DEF Init, StoreInit, ReplayInv
<1>4. PrefixInv
  BY DEF Init, StoreInit, PrefixInv
<1>5. FreshInv
  BY DEF Init, FreshInv, NewFact
<1>6. CloseInv
  BY DEF Init, CloseInv
<1>7. QED
  BY <1>1, <1>2, <1>3, <1>4, <1>5, <1>6 DEF IInv

(* A step outside the lock that changes neither the store nor the events to *)
(* write, except to drop those of a call that ends.                         *)
LEMMA QuietStep ==
  ASSUME IInv, TypeOK', NEW t \in Thread, UNCHANGED <<storeVars, cursor>>,
         pc[t] \in {"idle", "checked", "stamped"},
         \/ pc' = pc
         \/ \E p \in {"idle", "checked", "stamped"} : pc' = [pc EXCEPT ![t] = p],
         todo' = todo \/ todo' = [todo EXCEPT ![t] = << >>]
  PROVE  IInv'
<1>1. \A u \in Thread : \/ pc'[u] = pc[u]
                        \/ /\ pc[u] \in {"idle", "checked", "stamped"}
                           /\ pc'[u] \in {"idle", "checked", "stamped"}
  BY DEF IInv, TypeOK
<1>2. LockInv'
  BY <1>1 DEF IInv, LockInv, storeVars
<1>3. ReplayInv'
  BY <1>1 DEF IInv, ReplayInv, storeVars
<1>4. PrefixInv'
  BY DEF IInv, PrefixInv, storeVars
<1>5. FreshInv'
  <2>1. \A u \in Thread : todo'[u] = todo[u] \/ todo'[u] = << >>
    BY DEF IInv, TypeOK
  <2>2. \A u \in Thread : (pc'[u] # "replaying") <=> (pc[u] # "replaying")
    BY <1>1
  <2>3. QED
    BY <2>1, <2>2 DEF IInv, FreshInv, NewFact, storeVars
<1>6. CloseInv'
  BY <1>1 DEF IInv, CloseInv, KeepsCloses, storeVars
<1>7. QED
  BY <1>2, <1>3, <1>4, <1>5, <1>6 DEF IInv

(* The events of one call assert one new fact at most: the id just drawn.   *)
LEMMA EventsFresh ==
  ASSUME NEW c \in Call, NEW ts, NEW new
  PROVE  \A i \in 1 .. Len(EventsOf(c, ts, new)) :
           EventsOf(c, ts, new)[i].op = "fact_asserted" =>
             /\ c.op \in {"assert", "replace"}
             /\ EventsOf(c, ts, new)[i].fact = new
             /\ i = Len(EventsOf(c, ts, new))
<1>1. CASE c.op = "assert"
  BY <1>1 DEF EventsOf
<1>2. CASE c.op = "replace"
  BY <1>2 DEF EventsOf
<1>3. CASE c.op = "retract"
  BY <1>3 DEF EventsOf
<1>4. CASE c.op = "confirm"
  BY <1>4 DEF EventsOf
<1>5. CASE c.op = "contradict"
  BY <1>5 DEF EventsOf
<1>6. QED
  BY <1>1, <1>2, <1>3, <1>4, <1>5 DEF Call

LEMMA StampStep ==
  ASSUME IInv, TypeOK', NEW t \in Thread, Stamp(t)
  PROVE  IInv'
<1> DEFINE ids == IF call[t].op \in {"assert", "replace"} THEN Fact \ Assigned ELSE {NoFact}
<1>1. PICK new \in ids : todo' = [todo EXCEPT ![t] = EventsOf(call[t], clock, new)]
  BY DEF Stamp
<1>2. /\ pc[t] = "checked" /\ pc' = [pc EXCEPT ![t] = "stamped"]
      /\ UNCHANGED <<storeVars, cursor>>
  BY DEF Stamp
<1>3. \A u \in Thread : pc'[u] = pc[u] \/ (pc[u] = "checked" /\ pc'[u] = "stamped")
  BY <1>2 DEF IInv, TypeOK
<1>4. LockInv'
  BY <1>2, <1>3 DEF IInv, LockInv, storeVars
<1>5. ReplayInv'
  BY <1>2, <1>3 DEF IInv, ReplayInv, storeVars
<1>6. PrefixInv'
  BY <1>2 DEF IInv, PrefixInv, storeVars
<1>7. FreshInv'
  <2>1. \A u \in Thread : todo'[u] = IF u = t THEN EventsOf(call[t], clock, new) ELSE todo[u]
    BY <1>1 DEF IInv, TypeOK
  <2>2. \A i \in 1 .. Len(todo'[t]) : todo'[t][i].op = "fact_asserted" =>
          new \in Fact \ Assigned /\ todo'[t][i].fact = new /\ i = Len(todo'[t])
    BY <1>1, <2>1, EventsFresh DEF IInv, TypeOK
  <2>3. \A u \in Thread \ {t} : \A j \in 1 .. Len(todo[u]) :
          todo[u][j].op = "fact_asserted" => todo[u][j].fact \in Assigned
    <3>1. ASSUME NEW u \in Thread \ {t}, NEW j \in 1 .. Len(todo[u]),
                 todo[u][j].op = "fact_asserted"
          PROVE  todo[u][j].fact \in Assigned
      <4>1. todo[u][j] \in Event
        BY DEF IInv, TypeOK
      <4>2. QED
        BY <3>1, <4>1 DEF Assigned, Event
    <3>2. QED
      BY <3>1
  <2>4. \A u \in Thread : pc'[u] = "replaying" <=> pc[u] = "replaying"
    BY <1>3
  <2>5. ASSUME NEW u \in Thread, NEW i \in 1 .. Len(todo'[u]), NewFact(u, i)'
        PROVE  /\ ~Known(objects, todo'[u][i].fact)
               /\ (\A w \in Thread : pc[w] # "replaying") =>
                    ~Known(txObjects, todo'[u][i].fact)
    <3>1. CASE u = t
      BY <2>2, <2>5, <3>1 DEF NewFact, Assigned
    <3>2. CASE u # t
      BY <2>1, <2>5, <3>2 DEF IInv, FreshInv, NewFact
    <3>3. QED
      BY <3>1, <3>2
  <2>6. ASSUME NEW u \in Thread, NEW w \in Thread,
               NEW i \in 1 .. Len(todo'[u]), NEW j \in 1 .. Len(todo'[w]),
               NewFact(u, i)', NewFact(w, j)', todo'[u][i].fact = todo'[w][j].fact
        PROVE  u = w /\ i = j
    <3>1. CASE u = t /\ w = t
      BY <2>2, <2>6, <3>1 DEF NewFact
    <3>2. CASE u = t /\ w # t
      BY <2>1, <2>2, <2>3, <2>6, <3>2 DEF NewFact
    <3>3. CASE u # t /\ w = t
      BY <2>1, <2>2, <2>3, <2>6, <3>3 DEF NewFact
    <3>4. CASE u # t /\ w # t
      BY <2>1, <2>6, <3>4 DEF IInv, FreshInv, NewFact
    <3>5. QED
      BY <3>1, <3>2, <3>3, <3>4
  <2>7. objects' = objects /\ txObjects' = txObjects
    BY <1>2 DEF storeVars
  <2>8. QED
    BY <2>4, <2>5, <2>6, <2>7 DEF FreshInv
<1>8. CloseInv'
  BY <1>2, <1>3 DEF IInv, CloseInv, KeepsCloses, storeVars
<1>9. QED
  BY <1>4, <1>5, <1>6, <1>7, <1>8 DEF IInv

(* A transaction opens on the committed state.                              *)
LEMMA BeginStep ==
  ASSUME IInv, TypeOK', NEW t \in Thread, BeginWrite(t) \/ BeginRebuild(t)
  PROVE  IInv'
<1>1. /\ holder = NoThread /\ holder' = t
      /\ UNCHANGED <<ledger, objects, txLedger, txObjects, todo, cursor>>
      /\ pc' = [pc EXCEPT ![t] = IF pc[t] = "stamped" THEN "writing" ELSE "clearing"]
      /\ pc[t] \in {"idle", "stamped"}
  BY DEF BeginWrite, BeginRebuild, Begin
<1>2. \A u \in Thread : pc[u] \notin {"writing", "clearing", "replaying"}
  BY <1>1, NoThreadAssumption DEF IInv, LockInv
<1>3. txLedger = ledger /\ txObjects = objects
  BY <1>2 DEF IInv, LockInv
<1>4. \A u \in Thread : IF u = t THEN pc'[u] \in {"writing", "clearing"} ELSE pc'[u] = pc[u]
  BY <1>1 DEF IInv, TypeOK
<1>5. LockInv'
  BY <1>1, <1>2, <1>3, <1>4 DEF LockInv
<1>6. ReplayInv'
  BY <1>1, <1>2, <1>3, <1>4 DEF IInv, ReplayInv
<1>7. PrefixInv'
  BY <1>1 DEF IInv, PrefixInv
<1>8. FreshInv'
  BY <1>1, <1>2, <1>4 DEF IInv, FreshInv, NewFact
<1>9. CloseInv'
  BY <1>1, <1>3 DEF CloseInv, KeepsCloses
<1>10. QED
  BY <1>5, <1>6, <1>7, <1>8, <1>9 DEF IInv

(* Projecting a record keeps every belief that is already closed, as long   *)
(* as a newly asserted fact is new.                                         *)
LEMMA ApplyKeepsCloses ==
  ASSUME NEW objs \in Projection, NEW r \in Event, Applicable(objs, r),
         r.op = "fact_asserted" => ~Known(objs, r.fact),
         NEW f \in Fact, Known(objs, f)
  PROVE  /\ Known(Apply(objs, r), f)
         /\ objs[f].txTo # Open => /\ Apply(objs, r)[f].txTo = objs[f].txTo
                                   /\ Apply(objs, r)[f].status = objs[f].status
<1>1. Apply(objs, r) \in Projection
  BY ApplyType
<1>2. objs[f] \in Object /\ r.fact \in Fact
  BY DEF Known, Projection, Event
<1>3. CASE r.op = "fact_asserted"
  <2>1. Apply(objs, r) = ApplyAsserted(objs, r)
    BY <1>3 DEF Apply, CloseOp
  <2>2. f # r.fact
    BY <1>3
  <2>3. QED
    BY <2>1, <2>2 DEF ApplyAsserted, Known, Projection
<1>4. CASE r.op \in CloseOp
  <2>1. Apply(objs, r) = ApplyClose(objs, r)
    BY <1>4 DEF Apply, CloseOp
  <2>2. CASE f = r.fact /\ objs[f].txTo = Open
    <3>1. Apply(objs, r)[f] # Absent
      <4>1. Apply(objs, r)[f] = [objs[f] EXCEPT !.txTo = r.ts,
              !.status = IF r.op = "fact_superseded" THEN "superseded" ELSE "retracted"]
        BY <1>2, <2>1, <2>2 DEF ApplyClose, Believed, Known, Projection
      <4>2. Apply(objs, r)[f] \in Object
        BY <1>2, <4>1 DEF Object, Event
      <4>3. QED
        BY <4>2, AbsentAssumption
    <3>2. QED
      BY <2>2, <3>1 DEF Known
  <2>3. CASE ~(f = r.fact /\ objs[f].txTo = Open)
    <3>1. Apply(objs, r)[f] = objs[f]
      BY <2>1, <2>3 DEF ApplyClose, Believed, Projection
    <3>2. QED
      BY <3>1 DEF Known
  <2>4. QED
    BY <2>2, <2>3
<1>5. CASE r.op = "fact_confirmed"
  <2>1. Apply(objs, r) = ApplyConfirmed(objs, r)
    BY <1>5 DEF Apply, CloseOp
  <2>2. CASE f = r.fact
    <3>1. Apply(objs, r)[f] = [objs[f] EXCEPT !.confidence = r.confidence]
      BY <2>1, <2>2 DEF ApplyConfirmed, Projection
    <3>2. Apply(objs, r)[f] \in Object
      BY <1>2, <3>1 DEF Object, Event
    <3>3. QED
      BY <1>2, <3>1, <3>2, AbsentAssumption DEF Known, Object
  <2>3. CASE f # r.fact
    BY <2>1, <2>3 DEF ApplyConfirmed, Known, Projection
  <2>4. QED
    BY <2>2, <2>3
<1>6. CASE r.op = "contradiction_recorded"
  <2>1. Apply(objs, r) = ApplyContradiction(objs, r)
    BY <1>6 DEF Apply, CloseOp
  <2>2. r.other \in Fact
    BY <1>6 DEF Applicable
  <2>3. DEFINE one == [objs EXCEPT ![r.fact].contradicts = @ \cup {r.other}]
               two == [one EXCEPT ![r.other] = [one[r.other] EXCEPT
                                                   !.contradicts = @ \cup {r.fact}]]
  <2>4. Apply(objs, r) = two
    <3>1. ApplyContradiction(objs, r) = two
      BY DEF ApplyContradiction
    <3>2. QED
      BY <2>1, <3>1
  <2>5. objs[r.fact] \in Object /\ objs[r.other] \in Object
    BY <1>2, <1>6, <2>2 DEF Applicable, Known, Projection
  <2>6. /\ one[f] \in Object /\ one[r.other] \in Object
        /\ one[f].txTo = objs[f].txTo /\ one[f].status = objs[f].status
    <3>1. one = [g \in Fact |-> IF g = r.fact
                   THEN [objs[r.fact] EXCEPT !.contradicts = @ \cup {r.other}] ELSE objs[g]]
      BY <1>2 DEF Projection
    <3>2. [objs[r.fact] EXCEPT !.contradicts = @ \cup {r.other}] \in Object
      BY <2>2, <2>5 DEF Object
    <3>3. QED
      BY <1>2, <2>2, <2>5, <3>1, <3>2 DEF Object
  <2>7. /\ two[f] \in Object
        /\ two[f].txTo = one[f].txTo /\ two[f].status = one[f].status
    <3>1. two = [g \in Fact |-> IF g = r.other
                   THEN [one[r.other] EXCEPT !.contradicts = @ \cup {r.fact}] ELSE one[g]]
      BY <2>2 DEF Projection
    <3>2. [one[r.other] EXCEPT !.contradicts = @ \cup {r.fact}] \in Object
      BY <1>2, <2>6 DEF Object
    <3>3. QED
      BY <2>6, <3>1, <3>2 DEF Object
  <2>8. QED
    BY <2>4, <2>6, <2>7, AbsentAssumption DEF Known
<1>7. QED
  BY <1>3, <1>4, <1>5, <1>6 DEF Event, EventOp

(* Projecting a record makes no fact known but the one it asserts.          *)
LEMMA ApplyKnows ==
  ASSUME NEW objs \in Projection, NEW r \in Event, Applicable(objs, r),
         NEW f \in Fact, ~Known(objs, f), r.op = "fact_asserted" => f # r.fact
  PROVE  ~Known(Apply(objs, r), f)
<1>1. CASE r.op = "fact_asserted"
  BY <1>1 DEF Apply, CloseOp, ApplyAsserted, Known, Projection
<1>2. CASE r.op \in CloseOp
  BY <1>2 DEF Apply, CloseOp, ApplyClose, Believed, Known, Projection
<1>3. CASE r.op = "fact_confirmed"
  BY <1>3 DEF Apply, CloseOp, ApplyConfirmed, Applicable, Known, Projection
<1>4. CASE r.op = "contradiction_recorded"
  <2>1. Known(objs, r.fact) /\ Known(objs, r.other)
    BY <1>4 DEF Applicable
  <2>2. f # r.fact /\ f # r.other
    BY <2>1
  <2>3. ApplyContradiction(objs, r)[f] = objs[f]
    BY <2>2 DEF ApplyContradiction, Projection
  <2>4. Apply(objs, r) = ApplyContradiction(objs, r)
    BY <1>4 DEF Apply, CloseOp
  <2>5. QED
    BY <2>3, <2>4 DEF Known
<1>5. QED
  BY <1>1, <1>2, <1>3, <1>4 DEF Event, EventOp

LEMMA EmitStep ==
  ASSUME IInv, TypeOK', NEW t \in Thread, Emit(t)
  PROVE  IInv'
<1> DEFINE r == Head(todo[t])
<1>1. /\ pc[t] = "writing" /\ holder = t
      /\ todo[t] \in Seq(Event) /\ todo[t] # << >>
      /\ Applicable(txObjects, r)
      /\ txLedger' = Append(txLedger, r) /\ txObjects' = Apply(txObjects, r)
      /\ todo' = [todo EXCEPT ![t] = Tail(@)]
      /\ UNCHANGED <<ledger, objects, holder, clock, pc, call, cursor>>
  BY DEF Emit, Write, IInv, TypeOK
<1>2. /\ r \in Event /\ r = todo[t][1] /\ 1 \in 1 .. Len(todo[t])
      /\ txLedger \in Seq(Event) /\ ledger \in Seq(Event) /\ txObjects \in Projection
  BY <1>1 DEF IInv, TypeOK
<1>3. \A u \in Thread : pc[u] \in {"writing", "clearing", "replaying"} => u = t
  BY <1>1 DEF IInv, LockInv
<1>4. \A u \in Thread : pc[u] # "replaying"
  BY <1>1, <1>3
<1>5. r.op = "fact_asserted" => ~Known(txObjects, r.fact)
  BY <1>2, <1>4 DEF IInv, FreshInv, NewFact
<1>6. LockInv'
  BY <1>1, <1>3 DEF IInv, LockInv
<1>7. ReplayInv'
  <2>1. HasTrace(txLedger) /\ txObjects = Replay(txLedger)
    BY <1>1 DEF IInv, ReplayInv
  <2>2. HasTrace(txLedger') /\ txObjects' = Replay(txLedger')
    BY <1>1, <1>2, <2>1, TraceAppend
  <2>3. QED
    BY <1>1, <1>4, <2>2 DEF IInv, ReplayInv
<1>8. PrefixInv'
  BY <1>1, <1>2 DEF IInv, PrefixInv
<1>9. FreshInv'
  <2>1. \A u \in Thread : todo'[u] = IF u = t THEN Tail(todo[t]) ELSE todo[u]
    BY <1>1 DEF IInv, TypeOK
  <2>2. /\ Len(Tail(todo[t])) = Len(todo[t]) - 1
        /\ \A i \in 1 .. Len(Tail(todo[t])) : /\ Tail(todo[t])[i] = todo[t][i + 1]
                                              /\ i + 1 \in 1 .. Len(todo[t])
    BY <1>1
  <2>3. \A u \in Thread : \A i \in 1 .. Len(todo'[u]) :
          LET k == IF u = t THEN i + 1 ELSE i
          IN  todo'[u][i] = todo[u][k] /\ k \in 1 .. Len(todo[u])
    BY <2>1, <2>2
  <2>4. ASSUME NEW u \in Thread, NEW i \in 1 .. Len(todo'[u]), NewFact(u, i)'
        PROVE  /\ ~Known(objects', todo'[u][i].fact)
               /\ ~Known(txObjects', todo'[u][i].fact)
    <3>1. PICK k \in 1 .. Len(todo[u]) : /\ todo'[u][i] = todo[u][k]
                                         /\ k = IF u = t THEN i + 1 ELSE i
      BY <2>3
    <3>2. NewFact(u, k) /\ (u = t => k # 1)
      BY <2>2, <2>4, <3>1 DEF NewFact
    <3>3. todo[u][k] \in Event /\ todo[u][k].fact \in Fact
      <4>1. todo[u] \in Seq(Event)
        BY DEF IInv, TypeOK
      <4>2. todo[u][k] \in Event
        BY <3>1, <4>1
      <4>3. QED
        BY <4>2 DEF Event
    <3>4. ~Known(objects, todo[u][k].fact) /\ ~Known(txObjects, todo[u][k].fact)
      BY <1>4, <3>1, <3>2 DEF IInv, FreshInv
    <3>5. r.op = "fact_asserted" => todo[u][k].fact # r.fact
      BY <1>2, <3>1, <3>2 DEF IInv, FreshInv, NewFact
    <3>6. ~Known(Apply(txObjects, r), todo[u][k].fact)
      BY <1>1, <1>2, <3>3, <3>4, <3>5, ApplyKnows
    <3>7. QED
      BY <1>1, <3>1, <3>4, <3>6
  <2>5. ASSUME NEW u \in Thread, NEW w \in Thread,
               NEW i \in 1 .. Len(todo'[u]), NEW j \in 1 .. Len(todo'[w]),
               NewFact(u, i)', NewFact(w, j)', todo'[u][i].fact = todo'[w][j].fact
        PROVE  u = w /\ i = j
    <3>1. PICK k \in 1 .. Len(todo[u]) : /\ todo'[u][i] = todo[u][k]
                                         /\ k = IF u = t THEN i + 1 ELSE i
      BY <2>3
    <3>2. PICK m \in 1 .. Len(todo[w]) : /\ todo'[w][j] = todo[w][m]
                                         /\ m = IF w = t THEN j + 1 ELSE j
      BY <2>3
    <3>3. NewFact(u, k) /\ NewFact(w, m)
      BY <2>5, <3>1, <3>2 DEF NewFact
    <3>4. u = w /\ k = m
      BY <2>5, <3>1, <3>2, <3>3 DEF IInv, FreshInv
    <3>5. QED
      BY <3>1, <3>2, <3>4
  <2>6. QED
    BY <2>4, <2>5 DEF FreshInv
<1>10. CloseInv'
  <2>1. KeepsCloses(txObjects)
    BY <1>1 DEF IInv, CloseInv
  <2>2. ASSUME NEW f \in Fact, Known(objects, f), objects[f].txTo # Open
        PROVE  /\ Known(txObjects', f)
               /\ txObjects'[f].txTo = objects[f].txTo
               /\ txObjects'[f].status = objects[f].status
    <3>1. /\ Known(txObjects, f) /\ txObjects[f].txTo = objects[f].txTo
          /\ txObjects[f].status = objects[f].status
      BY <2>1, <2>2 DEF KeepsCloses
    <3>2. /\ Known(Apply(txObjects, r), f)
          /\ Apply(txObjects, r)[f].txTo = txObjects[f].txTo
          /\ Apply(txObjects, r)[f].status = txObjects[f].status
      BY <1>1, <1>2, <1>5, <2>2, <3>1, ApplyKeepsCloses
    <3>3. QED
      BY <1>1, <3>1, <3>2
  <2>3. KeepsCloses(txObjects)'
    BY <1>1, <2>2 DEF KeepsCloses
  <2>4. QED
    BY <2>3 DEF CloseInv
<1>11. QED
  BY <1>6, <1>7, <1>8, <1>9, <1>10 DEF IInv

(* A rebuild ends where it began: the replay of the committed ledger.       *)
LEMMA RebuildRestores ==
  ASSUME IInv, NEW t \in Thread, CommitRebuild(t)
  PROVE  txLedger = ledger /\ txObjects = objects
<1>1. pc[t] = "replaying" /\ holder = t /\ cursor = Len(txLedger)
  BY DEF CommitRebuild, Commit
<1>2. \A u \in Thread : pc[u] # "writing"
  BY <1>1 DEF IInv, LockInv
<1>3. txLedger = ledger
  BY <1>2 DEF IInv, LockInv
<1>4. QED
  BY <1>1, <1>3 DEF IInv, ReplayInv, Replay

(* Every end of a transaction, and a restart after a crash, leaves the      *)
(* connection on the committed state.                                       *)
LEMMA EndStep ==
  ASSUME IInv, TypeOK', NEW t \in Thread,
         CommitWrite(t) \/ FailInside(t) \/ CommitRebuild(t)
  PROVE  IInv'
<1>1. /\ pc[t] \in {"writing", "clearing", "replaying"} /\ holder = t /\ holder' = NoThread
      /\ pc' = [pc EXCEPT ![t] = "idle"] /\ todo' = [todo EXCEPT ![t] = << >>]
      /\ txLedger' = ledger' /\ txObjects' = objects'
  BY DEF CommitWrite, FailInside, CommitRebuild, Commit, Rollback, EndCall
<1>2. \A u \in Thread : pc[u] \in {"writing", "clearing", "replaying"} => u = t
  BY <1>1 DEF IInv, LockInv
<1>3. \A u \in Thread : IF u = t THEN pc'[u] = "idle" /\ todo'[u] = << >>
                                 ELSE pc'[u] = pc[u] /\ todo'[u] = todo[u]
  BY <1>1 DEF IInv, TypeOK
<1>4. \A u \in Thread : pc'[u] \notin {"writing", "clearing", "replaying"}
  BY <1>2, <1>3
<1>5. \/ ledger' = ledger /\ objects' = objects
      \/ pc[t] = "writing" /\ ledger' = txLedger /\ objects' = txObjects
  <2>1. CASE CommitWrite(t)
    BY <2>1 DEF CommitWrite, Commit
  <2>2. CASE FailInside(t)
    BY <2>2 DEF FailInside, Rollback
  <2>3. CASE CommitRebuild(t)
    BY <2>3, RebuildRestores DEF CommitRebuild, Commit
  <2>4. QED
    BY <2>1, <2>2, <2>3
<1>6. LockInv'
  <2>1. \A u \in Thread : holder' # u
    BY <1>1, NoThreadAssumption
  <2>2. QED
    BY <1>1, <1>4, <2>1 DEF LockInv
<1>7. ReplayInv'
  BY <1>4, <1>5 DEF IInv, ReplayInv
<1>8. PrefixInv'
  <2>1. ledger' \in Seq(Event)
    BY DEF TypeOK
  <2>2. QED
    BY <1>1, <2>1 DEF PrefixInv
<1>9. FreshInv'
  <2>1. ASSUME NEW u \in Thread, NEW i \in 1 .. Len(todo'[u]), NewFact(u, i)'
        PROVE  ~Known(objects', todo'[u][i].fact)
    <3>1. u # t /\ todo'[u] = todo[u] /\ NewFact(u, i) /\ i \in 1 .. Len(todo[u])
      BY <1>3, <2>1 DEF NewFact
    <3>2. CASE ledger' = ledger /\ objects' = objects
      BY <3>1, <3>2 DEF IInv, FreshInv
    <3>3. CASE pc[t] = "writing" /\ ledger' = txLedger /\ objects' = txObjects
      <4>1. \A w \in Thread : pc[w] # "replaying"
        BY <1>2, <3>3
      <4>2. QED
        BY <3>1, <3>3, <4>1 DEF IInv, FreshInv
    <3>4. QED
      BY <1>5, <3>2, <3>3
  <2>2. ASSUME NEW u \in Thread, NEW w \in Thread,
               NEW i \in 1 .. Len(todo'[u]), NEW j \in 1 .. Len(todo'[w]),
               NewFact(u, i)', NewFact(w, j)', todo'[u][i].fact = todo'[w][j].fact
        PROVE  u = w /\ i = j
    BY <1>3, <2>2 DEF IInv, FreshInv, NewFact
  <2>3. QED
    BY <1>1, <2>1, <2>2 DEF FreshInv
<1>10. CloseInv'
  BY <1>4 DEF CloseInv
<1>11. QED
  BY <1>6, <1>7, <1>8, <1>9, <1>10 DEF IInv

LEMMA ReplayStep ==
  ASSUME IInv, TypeOK', NEW t \in Thread, ClearProjection(t) \/ ReplayNext(t)
  PROVE  IInv'
<1>1. /\ pc[t] \in {"clearing", "replaying"} /\ holder = t /\ pc'[t] = "replaying"
      /\ pc' = pc \/ pc' = [pc EXCEPT ![t] = "replaying"]
      /\ UNCHANGED <<ledger, objects, txLedger, holder, todo>>
  BY DEF ClearProjection, ReplayNext, Reproject, IInv, TypeOK
<1>2. \A u \in Thread : pc[u] \in {"writing", "clearing", "replaying"} => u = t
  BY <1>1 DEF IInv, LockInv
<1>3. \A u \in Thread : u # t => pc'[u] = pc[u] /\ pc[u] \notin {"writing", "replaying"}
  BY <1>1, <1>2 DEF IInv, TypeOK
<1>4. txLedger = ledger
  BY <1>1, <1>2 DEF IInv, LockInv
<1>5. LockInv'
  BY <1>1, <1>3, <1>4 DEF IInv, LockInv
<1>6. ReplayInv'
  <2>1. HasTrace(ledger) /\ objects = Replay(ledger)
    BY DEF IInv, ReplayInv
  <2>2. /\ ledger \in Seq(Event) /\ Len(ledger) \in Nat /\ cursor \in Nat
    BY DEF IInv, TypeOK
  <2>3. \A i \in 0 .. Len(ledger) :
          Trace(ledger)[i] = IF i = 0 THEN NoObjects
                                      ELSE Apply(Trace(ledger)[i - 1], ledger[i])
    BY <2>1 DEF HasTrace, IsTrace
  <2>4. cursor' <= Len(ledger) /\ txObjects' = Trace(ledger)[cursor']
    <3>1. CASE ClearProjection(t)
      BY <2>2, <2>3, <3>1 DEF ClearProjection, Reproject
    <3>2. CASE ReplayNext(t)
      <4>1. /\ cursor < Len(ledger) /\ cursor' = cursor + 1
            /\ txObjects' = Apply(txObjects, ledger[cursor + 1])
            /\ txObjects = Trace(ledger)[cursor]
        BY <1>4, <3>2 DEF ReplayNext, Reproject, IInv, ReplayInv
      <4>2. Trace(ledger)[cursor + 1] = Apply(Trace(ledger)[cursor], ledger[cursor + 1])
        BY <2>2, <2>3, <4>1
      <4>3. QED
        BY <2>2, <4>1, <4>2
    <3>3. QED
      BY <3>1, <3>2
  <2>5. QED
    BY <1>1, <1>3, <2>1, <2>4 DEF ReplayInv
<1>7. PrefixInv'
  BY <1>1 DEF IInv, PrefixInv
<1>8. FreshInv'
  BY <1>1 DEF IInv, FreshInv, NewFact
<1>9. CloseInv'
  BY <1>1, <1>3 DEF CloseInv
<1>10. QED
  BY <1>5, <1>6, <1>7, <1>8, <1>9 DEF IInv

LEMMA CrashStep ==
  ASSUME IInv, TypeOK', Crash
  PROVE  IInv'
<1>1. /\ txLedger' = ledger' /\ txObjects' = objects' /\ ledger' = ledger
      /\ objects' = objects /\ holder' = NoThread
      /\ \A u \in Thread : pc'[u] = "idle" /\ todo'[u] = << >>
  BY DEF Crash, Recover
<1>2. LockInv'
  BY <1>1, NoThreadAssumption DEF LockInv
<1>3. ReplayInv'
  BY <1>1 DEF IInv, ReplayInv
<1>4. PrefixInv'
  BY <1>1 DEF PrefixInv, TypeOK
<1>5. FreshInv'
  BY <1>1 DEF FreshInv, NewFact
<1>6. CloseInv'
  BY <1>1 DEF CloseInv
<1>7. QED
  BY <1>2, <1>3, <1>4, <1>5, <1>6 DEF IInv

LEMMA InvStep == IInv /\ [Next]_vars => IInv'
<1> SUFFICES ASSUME IInv, [Next]_vars PROVE IInv'
  OBVIOUS
<1>1. TypeOK'
  BY TypeStep DEF IInv
<1>2. ASSUME NEW t \in Thread, NEW c, Check(t, c) PROVE IInv'
  BY <1>1, <1>2, QuietStep DEF Check
<1>3. ASSUME NEW t \in Thread, StartCall(t) PROVE IInv'
  BY <1>1, <1>2, <1>3, BeginStep
     DEF StartCall, CheckAssert, CheckSupersede, CheckCorrectValidity, CheckRetract,
         CheckConfirm, CheckContradict
<1>4. ASSUME NEW t \in Thread, FailBeforeWrite(t) PROVE IInv'
  BY <1>1, <1>4, QuietStep DEF FailBeforeWrite, EndCall
<1>5. ASSUME NEW t \in Thread, Stamp(t) PROVE IInv'
  BY <1>1, <1>5, StampStep
<1>6. ASSUME NEW t \in Thread, BeginWrite(t) PROVE IInv'
  BY <1>1, <1>6, BeginStep
<1>7. ASSUME NEW t \in Thread, InsideLock(t) PROVE IInv'
  BY <1>1, <1>7, EmitStep, EndStep, ReplayStep DEF InsideLock
<1>8. CASE Crash
  BY <1>1, <1>8, CrashStep
<1>9. CASE Tick \/ UNCHANGED vars
  <2>1. UNCHANGED <<storeVars, pc, todo, cursor>>
    BY <1>9 DEF Tick, vars, callVars
  <2>2. QED
    BY <1>1, <2>1
       DEF IInv, LockInv, ReplayInv, PrefixInv, FreshInv, NewFact, CloseInv, KeepsCloses,
           storeVars
<1>10. QED
  BY <1>3, <1>4, <1>5, <1>6, <1>7, <1>8, <1>9 DEF Next

THEOREM Invariance == Spec => []IInv
  BY InvInit, InvStep, PTL DEF Spec

(* The queryable state is always the replay of the committed ledger.        *)
THEOREM ProjectionCorrect == Spec => []ProjectionIsReplay
<1>1. IInv => ProjectionIsReplay
  BY DEF IInv, ReplayInv, ProjectionIsReplay
<1>2. QED
  BY <1>1, Invariance, PTL
-----------------------------------------------------------------------------
(* What a reader sees changes only when a writing call commits.             *)
LEMMA CommitOnly ==
  ASSUME IInv, [Next]_vars
  PROVE  \/ ledger' = ledger /\ objects' = objects
         \/ \E t \in Thread : /\ CommitWrite(t) /\ pc[t] = "writing"
                              /\ ledger' = txLedger /\ objects' = txObjects
<1>1. ASSUME NEW t \in Thread, StartCall(t) PROVE ledger' = ledger /\ objects' = objects
  BY <1>1 DEF StartCall, CheckAssert, CheckSupersede, CheckCorrectValidity, CheckRetract,
              CheckConfirm, CheckContradict, Check, BeginRebuild, Begin, storeVars
<1>2. ASSUME NEW t \in Thread, Stamp(t) \/ FailBeforeWrite(t) \/ BeginWrite(t)
      PROVE  ledger' = ledger /\ objects' = objects
  BY <1>2 DEF Stamp, FailBeforeWrite, BeginWrite, Begin, storeVars
<1>3. ASSUME NEW t \in Thread, Emit(t) \/ ClearProjection(t) \/ ReplayNext(t) \/ FailInside(t)
      PROVE  ledger' = ledger /\ objects' = objects
  BY <1>3 DEF Emit, Write, ClearProjection, ReplayNext, Reproject, FailInside, Rollback
<1>4. ASSUME NEW t \in Thread, CommitWrite(t)
      PROVE  pc[t] = "writing" /\ ledger' = txLedger /\ objects' = txObjects
  BY <1>4 DEF CommitWrite, Commit
<1>5. ASSUME NEW t \in Thread, CommitRebuild(t)
      PROVE  ledger' = ledger /\ objects' = objects
  BY <1>5, RebuildRestores DEF CommitRebuild, Commit
<1>6. CASE Tick \/ Crash \/ UNCHANGED vars
  BY <1>6 DEF Tick, Crash, Recover, vars, storeVars
<1>7. QED
  BY <1>1, <1>2, <1>3, <1>4, <1>5, <1>6 DEF Next, InsideLock

(* Committed records are never lost, moved or rewritten.                    *)
THEOREM LedgerAppendOnly == Spec => LedgerOnlyGrows
<1>1. ASSUME IInv, [Next]_vars
      PROVE  /\ Len(ledger) <= Len(ledger')
             /\ \A i \in 1 .. Len(ledger) : ledger'[i] = ledger[i]
  <2>1. Len(ledger) \in Nat
    BY <1>1 DEF IInv, TypeOK
  <2>2. QED
    BY <1>1, <2>1, CommitOnly DEF IInv, PrefixInv
<1>2. QED
  BY <1>1, Invariance, PTL DEF Spec, LedgerOnlyGrows

(* A belief closes exactly once, whatever races with its close.             *)
THEOREM CloseIsFinal == Spec => FirstCloseStands
<1>1. ASSUME IInv, [Next]_vars
      PROVE  \A f \in Fact :
               Known(objects, f) /\ objects[f].txTo # Open =>
                 /\ Known(objects', f)
                 /\ objects'[f].txTo = objects[f].txTo
                 /\ objects'[f].status = objects[f].status
  BY <1>1, CommitOnly DEF IInv, CloseInv, KeepsCloses
<1>2. QED
  BY <1>1, Invariance, PTL DEF Spec, FirstCloseStands

-----------------------------------------------------------------------------
(* The histories.  IInv says nothing of how far a writing call has come or  *)
(* of the instant it was stamped with; the invariant is strengthened with   *)
(* both here.                                                               *)
(* How one record changes what is believed of one fact.                     *)
SameBelief(o, p) ==
  /\ p.txFrom = o.txFrom /\ p.txTo = o.txTo
  /\ p.status = o.status /\ p.supersedes = o.supersedes

Untouched(objs, next, f) ==
  /\ Known(next, f) <=> Known(objs, f)
  /\ Known(objs, f) =>
       SameBelief(objs[f], next[f]) /\ next[f].confidence = objs[f].confidence

Born(next, f, ts, old, confidence) ==
  /\ Known(next, f)
  /\ next[f].txFrom = ts /\ next[f].txTo = Open /\ next[f].status = "asserted"
  /\ next[f].supersedes = old /\ next[f].confidence = confidence

Ended(objs, next, f, ts, why) ==
  /\ Known(next, f)
  /\ next[f].txFrom = objs[f].txFrom /\ next[f].supersedes = objs[f].supersedes
  /\ next[f].confidence = objs[f].confidence
  /\ next[f].txTo = ts /\ next[f].status = why

LEMMA ObjectKnown ==
  ASSUME NEW objs, NEW f, objs[f] \in Object
  PROVE  Known(objs, f)
  BY AbsentAssumption DEF Known

LEMMA KnownObject ==
  ASSUME NEW objs \in Projection, NEW f \in Fact, Known(objs, f)
  PROVE  objs[f] \in Object
  BY DEF Known, Projection

LEMMA AssertEffect ==
  ASSUME NEW objs \in Projection, NEW r \in Event, r.op = "fact_asserted"
  PROVE  /\ Born(Apply(objs, r), r.fact, r.ts, r.other, r.confidence)
         /\ \A f \in Fact \ {r.fact} : Untouched(objs, Apply(objs, r), f)
<1> DEFINE o == [txFrom |-> r.ts, txTo |-> Open, status |-> "asserted",
                 confidence |-> r.confidence, supersedes |-> r.other, contradicts |-> {}]
<1>1. Apply(objs, r) = [objs EXCEPT ![r.fact] = o] /\ r.fact \in Fact
  BY DEF Apply, CloseOp, ApplyAsserted, Event
<1>2. o \in Object
  BY DEF Object, Event
<1>3. Apply(objs, r)[r.fact] = o /\ Known(Apply(objs, r), r.fact)
  BY <1>1, <1>2, ObjectKnown DEF Projection
<1>4. \A f \in Fact \ {r.fact} : Apply(objs, r)[f] = objs[f]
  BY <1>1 DEF Projection
<1>5. QED
  BY <1>3, <1>4 DEF Born, Untouched, Known, SameBelief

LEMMA CloseEffect ==
  ASSUME NEW objs \in Projection, NEW r \in Event, r.op \in CloseOp
  PROVE  /\ Believed(objs, r.fact) =>
              Ended(objs, Apply(objs, r), r.fact, r.ts,
                    IF r.op = "fact_superseded" THEN "superseded" ELSE "retracted")
         /\ ~Believed(objs, r.fact) => Apply(objs, r) = objs
         /\ \A f \in Fact \ {r.fact} : Untouched(objs, Apply(objs, r), f)
<1> DEFINE why == IF r.op = "fact_superseded" THEN "superseded" ELSE "retracted"
           o == [objs[r.fact] EXCEPT !.txTo = r.ts, !.status = why]
<1>1. Apply(objs, r) = ApplyClose(objs, r) /\ r.fact \in Fact
  BY DEF Apply, CloseOp, Event
<1>2. CASE Believed(objs, r.fact)
  <2>1. objs[r.fact] \in Object
    BY <1>1, <1>2, KnownObject DEF Believed
  <2>2. /\ o \in Object /\ o.txTo = r.ts /\ o.status = why /\ o.txFrom = objs[r.fact].txFrom
        /\ o.supersedes = objs[r.fact].supersedes /\ o.confidence = objs[r.fact].confidence
    BY <2>1 DEF Object, Event
  <2>3. Apply(objs, r) = [objs EXCEPT ![r.fact] = o]
    BY <1>1, <1>2 DEF ApplyClose
  <2> HIDE DEF o
  <2>4. Apply(objs, r)[r.fact] = o /\ Known(Apply(objs, r), r.fact)
    <3>1. Apply(objs, r)[r.fact] = o
      BY <1>1, <2>3 DEF Projection
    <3>2. QED
      BY <2>2, <3>1, ObjectKnown
  <2>5. \A f \in Fact \ {r.fact} : Apply(objs, r)[f] = objs[f]
    BY <2>3 DEF Projection
  <2>6. QED
    BY <1>2, <2>2, <2>4, <2>5 DEF Ended, Untouched, Known, SameBelief
<1>3. CASE ~Believed(objs, r.fact)
  BY <1>1, <1>3 DEF ApplyClose, Untouched, SameBelief
<1>4. QED
  BY <1>2, <1>3

LEMMA ConfirmEffect ==
  ASSUME NEW objs \in Projection, NEW r \in Event, r.op = "fact_confirmed",
         Known(objs, r.fact)
  PROVE  /\ Known(Apply(objs, r), r.fact)
         /\ SameBelief(objs[r.fact], Apply(objs, r)[r.fact])
         /\ Apply(objs, r)[r.fact].confidence = r.confidence
         /\ \A f \in Fact \ {r.fact} : Untouched(objs, Apply(objs, r), f)
<1> DEFINE o == [objs[r.fact] EXCEPT !.confidence = r.confidence]
<1>1. Apply(objs, r) = [objs EXCEPT ![r.fact] = o] /\ r.fact \in Fact
  BY DEF Apply, CloseOp, ApplyConfirmed, Event
<1>2. objs[r.fact] \in Object
  BY <1>1, KnownObject
<1>3. o \in Object /\ SameBelief(objs[r.fact], o) /\ o.confidence = r.confidence
  BY <1>2 DEF Object, Event, SameBelief
<1> HIDE DEF o
<1>4. Apply(objs, r)[r.fact] = o /\ Known(Apply(objs, r), r.fact)
  <2>1. Apply(objs, r)[r.fact] = o
    BY <1>1 DEF Projection
  <2>2. QED
    BY <1>3, <2>1, ObjectKnown
<1>5. \A f \in Fact \ {r.fact} : Apply(objs, r)[f] = objs[f]
  BY <1>1 DEF Projection
<1>6. QED
  BY <1>3, <1>4, <1>5 DEF Untouched, Known, SameBelief

LEMMA ContradictEffect ==
  ASSUME NEW objs \in Projection, NEW r \in Event, r.op = "contradiction_recorded",
         Applicable(objs, r)
  PROVE  \A f \in Fact : Untouched(objs, Apply(objs, r), f)
<1> DEFINE Linked(m, f, g) == [m EXCEPT ![f] = [m[f] EXCEPT !.contradicts = @ \cup {g}]]
<1>1. ASSUME NEW m \in Projection, NEW f \in Fact, NEW g \in Fact, Known(m, f)
      PROVE  Linked(m, f, g) \in Projection /\ \A h \in Fact : Untouched(m, Linked(m, f, g), h)
  <2> DEFINE o == [m[f] EXCEPT !.contradicts = @ \cup {g}]
  <2>1. m[f] \in Object
    BY <1>1, KnownObject
  <2>2. o \in Object /\ SameBelief(m[f], o) /\ o.confidence = m[f].confidence
    BY <2>1 DEF Object, SameBelief
  <2>3. Linked(m, f, g)[f] = o /\ \A h \in Fact \ {f} : Linked(m, f, g)[h] = m[h]
    BY DEF Projection
  <2>4. Known(Linked(m, f, g), f)
    BY <2>2, <2>3, ObjectKnown
  <2>5. Linked(m, f, g) \in Projection
    BY <2>2 DEF Projection
  <2>6. QED
    BY <1>1, <2>2, <2>3, <2>4, <2>5 DEF Untouched, Known, SameBelief
<1>2. /\ r.fact \in Fact /\ r.other \in Fact /\ Known(objs, r.fact) /\ Known(objs, r.other)
      /\ Apply(objs, r) = Linked(Linked(objs, r.fact, r.other), r.other, r.fact)
  BY DEF Applicable, Apply, CloseOp, ApplyContradiction, Event
<1> HIDE DEF Linked
<1>3. /\ Linked(objs, r.fact, r.other) \in Projection
      /\ \A f \in Fact : Untouched(objs, Linked(objs, r.fact, r.other), f)
  BY <1>1, <1>2
<1>4. \A f \in Fact : Untouched(Linked(objs, r.fact, r.other), Apply(objs, r), f)
  <2>1. Known(Linked(objs, r.fact, r.other), r.other)
    BY <1>2, <1>3 DEF Untouched
  <2>2. QED
    BY <1>1, <1>2, <1>3, <2>1
<1>5. QED
  BY <1>3, <1>4 DEF Untouched, SameBelief
-----------------------------------------------------------------------------
(* How far a call has come.                                                 *)

(* A call acts on facts that exist, and a confirmation carries no less than *)
(* the confidence the fact was asserted with.                               *)
Ask(t) ==
  pc[t] \in {"checked", "stamped", "writing"} /\ call[t].op # "assert" =>
    /\ Known(objects, call[t].fact)
    /\ call[t].op = "contradict" => call[t].other \in Fact /\ Known(objects, call[t].other)
    /\ call[t].op = "confirm" =>
         \A i \in 1 .. Len(ledger) :
           ledger[i].op = "fact_asserted" /\ ledger[i].fact = call[t].fact =>
             call[t].confidence >= ledger[i].confidence

(* The instant of a call is one the clock has shown, and no earlier than    *)
(* the beginning of the belief it acts on; its new id is unused.            *)
StampedAt(t, ts, new) ==
  /\ MonotoneClock => ts <= clock
  /\ MonotoneClock /\ call[t].op # "assert" => objects[call[t].fact].txFrom <= ts
  /\ IF call[t].op \in {"assert", "replace"} THEN new \in Fact /\ ~Known(objects, new)
                                             ELSE new = NoFact

Image(c, ts, new, k) ==
  LET evs == EventsOf(c, ts, new)
  IN  IF k = 0 THEN objects
      ELSE IF k = 1 THEN Apply(objects, evs[1])
      ELSE Apply(Apply(objects, evs[1]), evs[2])

(* Of its events, k are written.                                            *)
Emitted(t, ts, new, k) ==
  LET evs == EventsOf(call[t], ts, new)
  IN  /\ k \in 0 .. Len(evs)
      /\ Len(todo[t]) = Len(evs) - k
      /\ \A i \in 1 .. Len(todo[t]) : todo[t][i] = evs[k + i]
      /\ pc[t] = "stamped" => k = 0
      /\ pc[t] = "writing" =>
           /\ Len(txLedger) = Len(ledger) + k
           /\ \A i \in 1 .. k : txLedger[Len(ledger) + i] = evs[i]
           /\ txObjects = Image(call[t], ts, new, k)

Stage(t) ==
  \E ts \in Time, new \in Fact \cup {NoFact}, k \in 0 .. 2 :
    StampedAt(t, ts, new) /\ Emitted(t, ts, new, k)

StageInv == \A t \in Thread : Ask(t) /\ (pc[t] \in {"stamped", "writing"} => Stage(t))

(* With a clock that does not step back nothing committed lies ahead of it. *)
ClockInv ==
  MonotoneClock => \A f \in Fact : Known(objects, f) =>
    /\ objects[f].txFrom <= clock
    /\ objects[f].txTo # Open =>
         objects[f].txFrom <= objects[f].txTo /\ objects[f].txTo <= clock

StatusInv ==
  \A f \in Fact : Known(objects, f) /\ objects[f].txTo = Open => objects[f].status = "asserted"

FloorInv ==
  \A i \in 1 .. Len(ledger) : ledger[i].op = "fact_asserted" =>
    /\ Known(objects, ledger[i].fact)
    /\ objects[ledger[i].fact].confidence >= ledger[i].confidence

HInv == IInv /\ StageInv /\ ClockInv /\ StatusInv /\ NoBeliefGap /\ FloorInv

LEMMA HistoryInit == Init => HInv
<1> SUFFICES ASSUME Init PROVE HInv
  OBVIOUS
<1>1. IInv
  BY InvInit
<1>2. \A f \in Fact : ~Known(objects, f)
  BY DEF Init, StoreInit, NoObjects, Known
<1>3. StageInv
  BY DEF Init, StageInv, Ask
<1>4. ClockInv /\ StatusInv /\ NoBeliefGap
  BY <1>2 DEF ClockInv, StatusInv, NoBeliefGap
<1>5. FloorInv
  BY DEF Init, StoreInit, FloorInv
<1>6. QED
  BY <1>1, <1>3, <1>4, <1>5 DEF HInv

(* The events of a call, spelt out.                                         *)
Ev(c, ts, op, fact, other) ==
  [op |-> op, ts |-> ts, fact |-> fact, other |-> other, confidence |-> c.confidence]

LEMMA EventsShape ==
  ASSUME NEW c \in Call, NEW ts \in Time, NEW new
  PROVE  LET evs == EventsOf(c, ts, new)
         IN  /\ c.op = "assert" => Len(evs) = 1 /\ evs[1] = Ev(c, ts, "fact_asserted", new, NoFact)
             /\ c.op = "replace" => /\ Len(evs) = 2
                                    /\ evs[1] = Ev(c, ts, "fact_superseded", c.fact, new)
                                    /\ evs[2] = Ev(c, ts, "fact_asserted", new, c.fact)
             /\ c.op = "retract" => /\ Len(evs) = 1
                                    /\ evs[1] = Ev(c, ts, "fact_retracted", c.fact, NoFact)
             /\ c.op = "confirm" => /\ Len(evs) = 1
                                    /\ evs[1] = Ev(c, ts, "fact_confirmed", c.fact, NoFact)
             /\ c.op = "contradict" =>
                  /\ Len(evs) = 1
                  /\ evs[1] = Ev(c, ts, "contradiction_recorded", c.fact, c.other)
             /\ Len(evs) \in {1, 2}
             /\ \A i \in 1 .. Len(evs) : evs[i].ts = ts
  BY DEF EventsOf, Ev, Call

LEMMA EventsFacts ==
  ASSUME NEW c \in Call, NEW ts \in Time, NEW new
  PROVE  LET evs == EventsOf(c, ts, new)
         IN  /\ \A i \in 1 .. Len(evs) : evs[i].confidence = c.confidence
             /\ c.op \in {"assert", "replace"} =>
                  evs[Len(evs)].op = "fact_asserted" /\ evs[Len(evs)].fact = new
  BY DEF EventsOf, Call

(* A step that commits nothing.                                             *)
LEMMA CalmStep ==
  ASSUME HInv, IInv', UNCHANGED <<ledger, objects>>, MonotoneClock => clock <= clock',
         \A u \in Thread :
           \/ /\ pc'[u] = pc[u] /\ call'[u] = call[u] /\ todo'[u] = todo[u]
              /\ pc[u] = "writing" => UNCHANGED <<txLedger, txObjects>>
           \/ Ask(u)' /\ (pc'[u] \in {"stamped", "writing"} => Stage(u)')
  PROVE  HInv'
<1>1. clock \in Nat /\ clock' \in Nat
  BY DEF HInv, IInv, TypeOK, Time
<1>2. StatusInv' /\ NoBeliefGap' /\ FloorInv'
  BY DEF HInv, StatusInv, NoBeliefGap, FloorInv, Known
<1>3. ClockInv'
  <2>1. ASSUME MonotoneClock, NEW f \in Fact, Known(objects, f)
        PROVE  /\ objects[f].txFrom <= clock'
               /\ objects[f].txTo # Open =>
                    objects[f].txFrom <= objects[f].txTo /\ objects[f].txTo <= clock'
    <3>1. objects[f].txFrom \in Nat /\ objects[f].txTo \in Nat \cup {Open}
      BY <2>1, KnownObject DEF HInv, IInv, TypeOK, Object, Time
    <3>2. QED
      BY <1>1, <2>1, <3>1 DEF HInv, ClockInv
  <2>2. QED
    BY <2>1 DEF ClockInv, Known
<1>4. ASSUME NEW u \in Thread,
             pc'[u] = pc[u], call'[u] = call[u], todo'[u] = todo[u],
             pc[u] = "writing" => UNCHANGED <<txLedger, txObjects>>
      PROVE  Ask(u)' /\ (pc'[u] \in {"stamped", "writing"} => Stage(u)')
  <2>1. Ask(u)'
    BY <1>4 DEF HInv, StageInv, Ask, Known
  <2>2. ASSUME pc[u] \in {"stamped", "writing"} PROVE Stage(u)'
    <3>1. PICK ts \in Time, new \in Fact \cup {NoFact}, k \in 0 .. 2 :
            StampedAt(u, ts, new) /\ Emitted(u, ts, new, k)
      BY <2>2 DEF HInv, StageInv, Stage
    <3>2. ts \in Nat
      BY DEF Time
    <3>3. StampedAt(u, ts, new)'
      BY <1>1, <1>4, <3>1, <3>2 DEF StampedAt, Known
    <3>4. Emitted(u, ts, new, k)'
      BY <1>4, <3>1 DEF Emitted, Image
    <3>5. QED
      BY <3>3, <3>4 DEF Stage
  <2>3. QED
    BY <1>4, <2>1, <2>2
<1>5. StageInv'
  BY <1>4 DEF StageInv
<1>6. QED
  BY <1>2, <1>3, <1>5 DEF HInv
-----------------------------------------------------------------------------
(* The steps of a call up to its commit.                                    *)
LEMMA CheckAsks ==
  ASSUME HInv, IInv', NEW t \in Thread, StartCall(t)
  PROVE  HInv'
<1>1. CASE BeginRebuild(t)
  <2>1. /\ UNCHANGED <<ledger, objects, txLedger, txObjects, clock, call, todo>>
        /\ pc' = [pc EXCEPT ![t] = "clearing"]
    BY <1>1 DEF BeginRebuild, Begin
  <2>2. \A u \in Thread : pc'[u] = IF u = t THEN "clearing" ELSE pc[u]
    BY <2>1 DEF HInv, IInv, TypeOK
  <2>3. clock <= clock'
    BY <2>1 DEF HInv, IInv, TypeOK, Time
  <2>4. QED
    BY <2>1, <2>2, <2>3, CalmStep DEF Ask
<1>2. CASE ~BeginRebuild(t)
  <2>1. PICK c \in Call :
          /\ Check(t, c)
          /\ c.op # "assert" =>
               /\ Known(objects, c.fact)
               /\ c.op = "contradict" => c.other \in Fact /\ Known(objects, c.other)
               /\ c.op = "confirm" => c.confidence >= objects[c.fact].confidence
    <3>1. CASE CheckAssert(t)
      BY <3>1 DEF CheckAssert, Call
    <3>2. CASE CheckSupersede(t)
      BY <3>2 DEF CheckSupersede, Call, Believed
    <3>3. CASE CheckCorrectValidity(t)
      <4>1. PICK f \in Fact : /\ Believed(objects, f)
                              /\ Check(t, [op |-> "replace", fact |-> f, other |-> NoFact,
                                           confidence |-> objects[f].confidence])
        BY <3>3 DEF CheckCorrectValidity
      <4>2. objects[f].confidence \in Confidence
        BY <4>1, KnownObject DEF Believed, HInv, IInv, TypeOK, Object
      <4>3. QED
        BY <4>1, <4>2 DEF Call, Believed
    <3>4. CASE CheckRetract(t)
      <4>1. 0 \in Confidence
        BY BoundsAssumption DEF Confidence
      <4>2. QED
        BY <3>4, <4>1 DEF CheckRetract, Call, Believed
    <3>5. CASE CheckConfirm(t)
      <4>1. PICK f \in Fact, d \in Confidence :
              /\ Known(objects, f)
              /\ Check(t, [op |-> "confirm", fact |-> f, other |-> NoFact,
                           confidence |-> Raised(objects[f].confidence, d)])
        BY <3>5 DEF CheckConfirm
      <4>2. objects[f].confidence \in Confidence
        BY <4>1, KnownObject DEF HInv, IInv, TypeOK, Object
      <4>3. /\ Raised(objects[f].confidence, d) \in Confidence
            /\ Raised(objects[f].confidence, d) >= objects[f].confidence
        BY <4>2, BoundsAssumption DEF Raised, Confidence
      <4> DEFINE c == [op |-> "confirm", fact |-> f, other |-> NoFact,
                       confidence |-> Raised(objects[f].confidence, d)]
      <4>4. c \in Call /\ Check(t, c)
        BY <4>1, <4>3 DEF Call
      <4>5. /\ c.op = "confirm" /\ c.fact = f
            /\ c.confidence >= objects[f].confidence
        BY <4>3
      <4> HIDE DEF c
      <4>6. QED
        BY <4>1, <4>4, <4>5
    <3>6. CASE CheckContradict(t)
      <4>1. 0 \in Confidence
        BY BoundsAssumption DEF Confidence
      <4>2. QED
        BY <3>6, <4>1 DEF CheckContradict, Call
    <3>7. QED
      BY <1>2, <3>1, <3>2, <3>3, <3>4, <3>5, <3>6 DEF StartCall
  <2>2. /\ UNCHANGED <<ledger, objects, txLedger, txObjects, clock, todo>>
        /\ pc' = [pc EXCEPT ![t] = "checked"] /\ call' = [call EXCEPT ![t] = c]
    BY <2>1 DEF Check, storeVars
  <2>3. \A u \in Thread : IF u = t THEN pc'[u] = "checked" /\ call'[u] = c
                                   ELSE pc'[u] = pc[u] /\ call'[u] = call[u]
    BY <2>2 DEF HInv, IInv, TypeOK
  <2>4. clock <= clock'
    BY <2>2 DEF HInv, IInv, TypeOK, Time
  <2>5. Ask(t)'
    <3>1. SUFFICES ASSUME c.op = "confirm", NEW i \in 1 .. Len(ledger),
                          ledger[i].op = "fact_asserted", ledger[i].fact = c.fact
                   PROVE  c.confidence >= ledger[i].confidence
      BY <2>1, <2>2, <2>3 DEF Ask, Known
    <3>2. /\ ledger[i] \in Event /\ c.fact \in Fact /\ objects[c.fact] \in Object
      BY <2>1, <3>1, KnownObject DEF HInv, IInv, TypeOK, Call
    <3>3. /\ ledger[i].confidence \in Nat /\ objects[c.fact].confidence \in Nat
          /\ c.confidence \in Nat
      BY <3>2 DEF Event, Object, Confidence, Call
    <3>4. objects[c.fact].confidence >= ledger[i].confidence
      BY <3>1 DEF HInv, FloorInv
    <3>5. QED
      BY <2>1, <3>1, <3>3, <3>4
  <2>6. QED
    BY <2>2, <2>3, <2>4, <2>5, CalmStep
<1>3. QED
  BY <1>1, <1>2

LEMMA StampStages ==
  ASSUME HInv, IInv', NEW t \in Thread, Stamp(t)
  PROVE  HInv'
<1> DEFINE ids == IF call[t].op \in {"assert", "replace"} THEN Fact \ Assigned ELSE {NoFact}
<1>1. PICK new \in ids : todo' = [todo EXCEPT ![t] = EventsOf(call[t], clock, new)]
  BY DEF Stamp
<1>2. /\ pc[t] = "checked" /\ pc' = [pc EXCEPT ![t] = "stamped"]
      /\ UNCHANGED <<ledger, objects, txLedger, txObjects, clock, call>>
  BY DEF Stamp, storeVars
<1>3. \A u \in Thread :
        IF u = t THEN pc'[u] = "stamped" /\ todo'[u] = EventsOf(call[t], clock, new)
                 ELSE pc'[u] = pc[u] /\ todo'[u] = todo[u]
  BY <1>1, <1>2 DEF HInv, IInv, TypeOK
<1>4. clock \in Time /\ clock \in Nat /\ call[t] \in Call
  BY DEF HInv, IInv, TypeOK, Time
<1>5. Ask(t)'
  BY <1>2, <1>3 DEF HInv, StageInv, Ask, Known
<1>6. StampedAt(t, clock, new)'
  <2>1. IF call[t].op \in {"assert", "replace"} THEN new \in Fact /\ ~Known(objects, new)
                                                ELSE new = NoFact
    BY DEF Assigned
  <2>2. ASSUME MonotoneClock, call[t].op # "assert" PROVE objects[call[t].fact].txFrom <= clock
    <3>1. call[t].fact \in Fact /\ Known(objects, call[t].fact)
      BY <1>2, <1>4, <2>2 DEF HInv, StageInv, Ask, Call
    <3>2. QED
      BY <2>2, <3>1 DEF HInv, ClockInv
  <2>3. QED
    BY <1>2, <1>4, <2>1, <2>2 DEF StampedAt, Known
<1>7. Emitted(t, clock, new, 0)'
  <2> DEFINE evs == EventsOf(call[t], clock, new)
  <2>1. evs \in Seq(Event) /\ Len(evs) \in Nat
    BY <1>4, EventsType
  <2>2. todo'[t] = evs /\ pc'[t] = "stamped" /\ call'[t] = call[t]
    BY <1>2, <1>3
  <2> HIDE DEF evs
  <2>3. \A i \in 1 .. Len(evs) : evs[i] = evs[0 + i]
    BY <2>1
  <2>4. Emitted(t, clock, new, 0)' <=>
          /\ 0 \in 0 .. Len(evs)
          /\ Len(todo'[t]) = Len(evs) - 0
          /\ \A i \in 1 .. Len(todo'[t]) : todo'[t][i] = evs[0 + i]
    BY <1>2, <2>2 DEF Emitted, evs
  <2>5. QED
    BY <2>1, <2>2, <2>3, <2>4
<1>8. Stage(t)'
  <2>1. new \in Fact \cup {NoFact} /\ 0 \in 0 .. 2
    OBVIOUS
  <2>2. \E ts \in Time, n \in Fact \cup {NoFact}, k \in 0 .. 2 :
          StampedAt(t, ts, n)' /\ Emitted(t, ts, n, k)'
    BY <1>2, <1>4, <1>6, <1>7, <2>1
  <2>3. QED
    BY <2>2 DEF Stage
<1>9. QED
  BY <1>2, <1>3, <1>4, <1>5, <1>8, CalmStep

(* The transaction opens on the committed state, so nothing is written yet. *)
LEMMA BeginStages ==
  ASSUME HInv, IInv', NEW t \in Thread, BeginWrite(t)
  PROVE  HInv'
<1>1. /\ pc[t] = "stamped" /\ pc' = [pc EXCEPT ![t] = "writing"] /\ holder = NoThread
      /\ UNCHANGED <<ledger, objects, txLedger, txObjects, clock, call, todo>>
  BY DEF BeginWrite, Begin
<1>2. \A u \in Thread : pc'[u] = IF u = t THEN "writing" ELSE pc[u]
  BY <1>1 DEF HInv, IInv, TypeOK
<1>3. txLedger = ledger /\ txObjects = objects
  BY <1>1, NoThreadAssumption DEF HInv, IInv, LockInv
<1>4. clock <= clock' /\ Len(ledger) \in Nat
  BY <1>1 DEF HInv, IInv, TypeOK, Time
<1>5. Ask(t)'
  BY <1>1, <1>2 DEF HInv, StageInv, Ask, Known
<1>6. Stage(t)'
  <2>1. PICK ts \in Time, new \in Fact \cup {NoFact}, k \in 0 .. 2 :
          StampedAt(t, ts, new) /\ Emitted(t, ts, new, k)
    BY <1>1 DEF HInv, StageInv, Stage
  <2>2. StampedAt(t, ts, new)'
    BY <1>1, <2>1 DEF StampedAt, Known
  <2>3. Emitted(t, ts, new, k)'
    BY <1>1, <1>2, <1>3, <1>4, <2>1 DEF Emitted, Image
  <2>4. QED
    BY <2>2, <2>3 DEF Stage
<1>7. QED
  BY <1>1, <1>2, <1>4, <1>5, <1>6, CalmStep

LEMMA EmitStages ==
  ASSUME HInv, IInv', NEW t \in Thread, Emit(t)
  PROVE  HInv'
<1> DEFINE r == Head(todo[t])
<1>1. /\ pc[t] = "writing" /\ holder = t /\ todo[t] # << >>
      /\ txLedger' = Append(txLedger, r) /\ txObjects' = Apply(txObjects, r)
      /\ todo' = [todo EXCEPT ![t] = Tail(@)]
      /\ UNCHANGED <<ledger, objects, clock, pc, call>>
  BY DEF Emit, Write
<1>2. /\ todo[t] \in Seq(Event) /\ txLedger \in Seq(Event) /\ ledger \in Seq(Event)
      /\ call[t] \in Call /\ \A u \in Thread : u # t => todo'[u] = todo[u]
      /\ todo'[t] = Tail(todo[t]) /\ clock <= clock'
  BY <1>1 DEF HInv, IInv, TypeOK, Time
<1>3. \A u \in Thread : u # t => pc[u] # "writing"
  BY <1>1 DEF HInv, IInv, LockInv
<1>4. Ask(t)'
  BY <1>1 DEF HInv, StageInv, Ask, Known
<1>5. Stage(t)'
  <2>1. PICK ts \in Time, new \in Fact \cup {NoFact}, k \in 0 .. 2 :
          StampedAt(t, ts, new) /\ Emitted(t, ts, new, k)
    BY <1>1 DEF HInv, StageInv, Stage
  <2> DEFINE evs == EventsOf(call[t], ts, new)
  <2>2. Len(evs) \in {1, 2}
    BY <1>2, EventsShape
  <2>3. Len(todo[t]) \in Nat /\ Len(todo[t]) # 0 /\ r = todo[t][1]
    BY <1>1, <1>2
  <2>4. /\ Len(todo[t]) = Len(evs) - k /\ k \in 0 .. Len(evs)
        /\ \A i \in 1 .. Len(todo[t]) : todo[t][i] = evs[k + i]
        /\ Len(txLedger) = Len(ledger) + k
        /\ \A i \in 1 .. k : txLedger[Len(ledger) + i] = evs[i]
        /\ txObjects = Image(call[t], ts, new, k)
    BY <1>1, <2>1 DEF Emitted
  <2> HIDE DEF evs, r
  <2>5. k + 1 \in 0 .. Len(evs) /\ k + 1 \in 0 .. 2 /\ k \in {0, 1}
    <3>1. k \in {0, 1, 2} /\ k < Len(evs)
      BY <2>2, <2>3, <2>4
    <3>2. CASE Len(evs) = 1
      BY <3>1, <3>2
    <3>3. CASE Len(evs) = 2
      BY <3>1, <3>3
    <3>4. QED
      BY <2>2, <3>2, <3>3
  <2>6. r = evs[k + 1]
    BY <2>2, <2>3, <2>4
  <2>7. /\ Len(todo'[t]) = Len(evs) - (k + 1)
        /\ \A i \in 1 .. Len(todo'[t]) : todo'[t][i] = evs[(k + 1) + i]
    <3>1. /\ Len(Tail(todo[t])) = Len(todo[t]) - 1
          /\ \A i \in 1 .. Len(Tail(todo[t])) : /\ Tail(todo[t])[i] = todo[t][i + 1]
                                                /\ i + 1 \in 1 .. Len(todo[t])
      BY <1>1, <1>2
    <3>2. ASSUME NEW i \in 1 .. Len(Tail(todo[t])) PROVE Tail(todo[t])[i] = evs[(k + 1) + i]
      <4>1. Tail(todo[t])[i] = todo[t][i + 1] /\ i + 1 \in 1 .. Len(todo[t])
        BY <3>1
      <4>2. todo[t][i + 1] = evs[k + (i + 1)]
        BY <2>4, <4>1
      <4>3. k + (i + 1) = (k + 1) + i
        BY <2>5
      <4>4. QED
        BY <4>1, <4>2, <4>3
    <3>3. QED
      BY <1>2, <2>2, <2>4, <2>5, <3>1, <3>2
  <2>8. /\ Len(txLedger') = Len(ledger) + (k + 1)
        /\ \A i \in 1 .. k + 1 : txLedger'[Len(ledger) + i] = evs[i]
    <3>1. r \in Event
      BY <1>2, <2>3
    <3>2. /\ Len(txLedger') = Len(txLedger) + 1 /\ txLedger'[Len(txLedger) + 1] = r
          /\ \A i \in 1 .. Len(txLedger) : txLedger'[i] = txLedger[i]
      BY <1>1, <1>2, <3>1
    <3>3. Len(ledger) \in Nat
      BY <1>2
    <3>4. ASSUME NEW i \in 1 .. k + 1 PROVE txLedger'[Len(ledger) + i] = evs[i]
      <4>1. CASE i = k + 1
        BY <2>4, <2>5, <2>6, <3>2, <3>3, <4>1
      <4>2. CASE i \in 1 .. k
        BY <2>4, <2>5, <3>2, <3>3, <4>2
      <4>3. QED
        BY <2>5, <4>1, <4>2
    <3>5. QED
      BY <2>4, <2>5, <3>2, <3>3, <3>4
  <2>9. txObjects' = Image(call[t], ts, new, k + 1)
    BY <1>1, <2>4, <2>5, <2>6 DEF Image, evs
  <2>10. Emitted(t, ts, new, k + 1)'
    <3>1. Image(call[t], ts, new, k + 1)' = Image(call[t], ts, new, k + 1)
      BY <1>1 DEF Image
    <3>2. /\ call'[t] = call[t] /\ pc'[t] = "writing" /\ ledger' = ledger
      BY <1>1
    <3>3. QED
      BY <2>5, <2>7, <2>8, <2>9, <3>1, <3>2 DEF Emitted, evs
  <2>11. StampedAt(t, ts, new)'
    BY <1>1, <2>1 DEF StampedAt, Known
  <2>12. \E s \in Time, n \in Fact \cup {NoFact}, m \in 0 .. 2 :
           StampedAt(t, s, n)' /\ Emitted(t, s, n, m)'
    BY <2>5, <2>10, <2>11
  <2>13. QED
    BY <2>12 DEF Stage
<1>6. QED
  BY <1>1, <1>2, <1>3, <1>4, <1>5, CalmStep

(* The steps that leave the committed state and end or resume no write.     *)
LEMMA AsideStep ==
  ASSUME HInv, IInv', NEW t \in Thread,
         \/ FailBeforeWrite(t) \/ FailInside(t)
         \/ ClearProjection(t) \/ ReplayNext(t) \/ CommitRebuild(t)
  PROVE  HInv'
<1>1. /\ UNCHANGED <<ledger, objects, clock>>
      /\ \A u \in Thread : u # t => pc'[u] = pc[u] /\ call'[u] = call[u] /\ todo'[u] = todo[u]
      /\ pc'[t] \notin {"checked", "stamped", "writing"}
      /\ pc[t] \in {"writing", "clearing", "replaying"} \/ UNCHANGED <<txLedger, txObjects>>
  <2>1. CASE FailBeforeWrite(t)
    BY <2>1 DEF FailBeforeWrite, EndCall, storeVars, HInv, IInv, TypeOK
  <2>2. CASE FailInside(t)
    BY <2>2 DEF FailInside, Rollback, EndCall, HInv, IInv, TypeOK
  <2>3. CASE ClearProjection(t)
    BY <2>3 DEF ClearProjection, Reproject, HInv, IInv, TypeOK
  <2>4. CASE ReplayNext(t)
    BY <2>4 DEF ReplayNext, Reproject, HInv, IInv, TypeOK
  <2>5. CASE CommitRebuild(t)
    <3>1. UNCHANGED <<ledger, objects>>
      BY <2>5, RebuildRestores DEF HInv, CommitRebuild, Commit
    <3>2. QED
      BY <2>5, <3>1 DEF CommitRebuild, EndCall, HInv, IInv, TypeOK
  <2>6. QED
    BY <2>1, <2>2, <2>3, <2>4, <2>5
<1>2. \A u \in Thread : u # t /\ pc[u] = "writing" => UNCHANGED <<txLedger, txObjects>>
  BY <1>1 DEF HInv, IInv, LockInv
<1>3. clock <= clock' /\ Ask(t)'
  BY <1>1 DEF HInv, IInv, TypeOK, Time, Ask
<1>4. QED
  BY <1>1, <1>2, <1>3, CalmStep

LEMMA RestStep ==
  ASSUME HInv, IInv', Tick \/ Crash \/ UNCHANGED vars
  PROVE  HInv'
<1>1. clock \in Nat
  BY DEF HInv, IInv, TypeOK, Time
<1>2. CASE Tick
  <2>1. MonotoneClock => clock <= clock'
    BY <1>1, <1>2 DEF Tick, Time
  <2>2. UNCHANGED <<ledger, objects, txLedger, txObjects, pc, call, todo>>
    BY <1>2 DEF Tick, storeVars, callVars
  <2>3. QED
    BY <2>1, <2>2, CalmStep
<1>3. CASE Crash
  <2>1. clock <= clock' /\ \A u \in Thread : pc'[u] = "idle"
    BY <1>1, <1>3 DEF Crash
  <2>2. UNCHANGED <<ledger, objects>>
    BY <1>3 DEF Crash, Recover
  <2>3. QED
    BY <2>1, <2>2, CalmStep DEF Ask
<1>4. CASE UNCHANGED vars
  <2>1. UNCHANGED <<ledger, objects, txLedger, txObjects, pc, call, todo, clock>>
    BY <1>4 DEF vars, storeVars, callVars
  <2>2. QED
    BY <1>1, <2>1, CalmStep
<1>5. QED
  BY <1>2, <1>3, <1>4
-----------------------------------------------------------------------------
(* What a commit changes, by fact: a belief known before keeps where it     *)
(* began and what it replaced, a confirmation sets confidence, the first    *)
(* close sets the end, and the new id's belief is born open.                *)
Change(c, ts, new) ==
  /\ \A f \in Fact : Known(objects, f) =>
       /\ Known(objects', f)
       /\ objects'[f].txFrom = objects[f].txFrom
       /\ objects'[f].supersedes = objects[f].supersedes
       /\ \/ objects'[f].confidence = objects[f].confidence
          \/ c.op = "confirm" /\ f = c.fact /\ objects'[f].confidence = c.confidence
       /\ IF c.op \in {"replace", "retract"} /\ f = c.fact /\ objects[f].txTo = Open
            THEN /\ objects'[f].txTo = ts
                 /\ objects'[f].status = IF c.op = "replace" THEN "superseded" ELSE "retracted"
            ELSE /\ objects'[f].txTo = objects[f].txTo
                 /\ objects'[f].status = objects[f].status
  /\ \A f \in Fact : ~Known(objects, f) /\ Known(objects', f) =>
       c.op \in {"assert", "replace"} /\ f = new
  /\ c.op \in {"assert", "replace"} =>
       Born(objects', new, ts, IF c.op = "replace" THEN c.fact ELSE NoFact, c.confidence)

LEMMA EvType ==
  ASSUME NEW c \in Call, NEW ts \in Time, NEW op \in EventOp, NEW fact \in Fact,
         NEW other \in Fact \cup {NoFact}
  PROVE  /\ Ev(c, ts, op, fact, other) \in Event
         /\ Ev(c, ts, op, fact, other).op = op /\ Ev(c, ts, op, fact, other).ts = ts
         /\ Ev(c, ts, op, fact, other).fact = fact /\ Ev(c, ts, op, fact, other).other = other
         /\ Ev(c, ts, op, fact, other).confidence = c.confidence
  BY DEF Ev, Event, Call

LEMMA AssertChange ==
  ASSUME NEW c \in Call, NEW ts \in Time, NEW new \in Fact, objects \in Projection,
         c.op = "assert", ~Known(objects, new),
         objects' = Apply(objects, Ev(c, ts, "fact_asserted", new, NoFact))
  PROVE  Change(c, ts, new)
<1> DEFINE r == Ev(c, ts, "fact_asserted", new, NoFact)
<1>1. /\ r \in Event /\ r.op = "fact_asserted" /\ r.ts = ts /\ r.fact = new
      /\ r.other = NoFact /\ r.confidence = c.confidence
  <2>1. "fact_asserted" \in EventOp /\ NoFact \in Fact \cup {NoFact}
    BY DEF EventOp
  <2>2. QED
    BY <2>1, EvType
<1> HIDE DEF r
<1>2. objects' = Apply(objects, r)
  BY DEF r
<1>3. /\ Born(objects', new, ts, NoFact, c.confidence)
      /\ \A f \in Fact \ {new} : Untouched(objects, objects', f)
  BY <1>1, <1>2, AssertEffect
<1>4. QED
  BY <1>3 DEF Change, Untouched, SameBelief

LEMMA RetractChange ==
  ASSUME NEW c \in Call, NEW ts \in Time, NEW new, objects \in Projection,
         c.op = "retract", Known(objects, c.fact),
         objects' = Apply(objects, Ev(c, ts, "fact_retracted", c.fact, NoFact))
  PROVE  Change(c, ts, new)
<1> DEFINE r == Ev(c, ts, "fact_retracted", c.fact, NoFact)
<1>1. c.fact \in Fact
  BY DEF Call
<1>2. /\ r \in Event /\ r.op = "fact_retracted" /\ r.ts = ts /\ r.fact = c.fact
  BY <1>1, EvType DEF EventOp, CloseOp
<1> HIDE DEF r
<1>3. objects' = Apply(objects, r) /\ r.op \in CloseOp
  BY <1>2 DEF r, CloseOp
<1>4. /\ Believed(objects, c.fact) =>
           Ended(objects, objects', c.fact, ts, "retracted")
      /\ ~Believed(objects, c.fact) => objects' = objects
      /\ \A f \in Fact \ {c.fact} : Untouched(objects, objects', f)
  BY <1>2, <1>3, CloseEffect
<1>5. QED
  BY <1>1, <1>4 DEF Change, Untouched, SameBelief, Ended, Believed

LEMMA ConfirmChange ==
  ASSUME NEW c \in Call, NEW ts \in Time, NEW new, objects \in Projection,
         c.op = "confirm", Known(objects, c.fact),
         objects' = Apply(objects, Ev(c, ts, "fact_confirmed", c.fact, NoFact))
  PROVE  Change(c, ts, new)
<1> DEFINE r == Ev(c, ts, "fact_confirmed", c.fact, NoFact)
<1>1. c.fact \in Fact
  BY DEF Call
<1>2. /\ r \in Event /\ r.op = "fact_confirmed" /\ r.ts = ts /\ r.fact = c.fact
      /\ r.confidence = c.confidence
  BY <1>1, EvType DEF EventOp
<1> HIDE DEF r
<1>3. objects' = Apply(objects, r)
  BY DEF r
<1>4. /\ Known(objects', c.fact) /\ SameBelief(objects[c.fact], objects'[c.fact])
      /\ objects'[c.fact].confidence = c.confidence
      /\ \A f \in Fact \ {c.fact} : Untouched(objects, objects', f)
  BY <1>2, <1>3, ConfirmEffect
<1>5. QED
  BY <1>1, <1>4 DEF Change, Untouched, SameBelief

LEMMA ContradictChange ==
  ASSUME NEW c \in Call, NEW ts \in Time, NEW new, objects \in Projection,
         c.op = "contradict", Known(objects, c.fact), c.other \in Fact, Known(objects, c.other),
         objects' = Apply(objects, Ev(c, ts, "contradiction_recorded", c.fact, c.other))
  PROVE  Change(c, ts, new)
<1> DEFINE r == Ev(c, ts, "contradiction_recorded", c.fact, c.other)
<1>1. c.fact \in Fact
  BY DEF Call
<1>2. /\ r \in Event /\ r.op = "contradiction_recorded" /\ r.fact = c.fact /\ r.other = c.other
  BY <1>1, EvType DEF EventOp
<1> HIDE DEF r
<1>3. objects' = Apply(objects, r) /\ Applicable(objects, r)
  BY <1>2 DEF r, Applicable
<1>4. \A f \in Fact : Untouched(objects, objects', f)
  BY <1>2, <1>3, ContradictEffect
<1>5. QED
  BY <1>4 DEF Change, Untouched, SameBelief

LEMMA ReplaceChange ==
  ASSUME NEW c \in Call, NEW ts \in Time, NEW new \in Fact, objects \in Projection,
         c.op = "replace", Known(objects, c.fact), ~Known(objects, new),
         objects' = Apply(Apply(objects, Ev(c, ts, "fact_superseded", c.fact, new)),
                          Ev(c, ts, "fact_asserted", new, c.fact))
  PROVE  Change(c, ts, new)
<1> DEFINE r == Ev(c, ts, "fact_superseded", c.fact, new)
           s == Ev(c, ts, "fact_asserted", new, c.fact)
           mid == Apply(objects, r)
<1>1. c.fact \in Fact /\ c.fact # new
  BY DEF Call
<1>2. /\ r \in Event /\ r.op = "fact_superseded" /\ r.ts = ts /\ r.fact = c.fact
      /\ s \in Event /\ s.op = "fact_asserted" /\ s.ts = ts /\ s.fact = new
      /\ s.other = c.fact /\ s.confidence = c.confidence
  BY <1>1, EvType DEF EventOp, CloseOp
<1>3. objects' = Apply(mid, s)
  OBVIOUS
<1> HIDE DEF r, s
<1>4. r.op \in CloseOp /\ Applicable(objects, r)
  BY <1>2 DEF CloseOp, Applicable
<1>5. mid \in Projection
  BY <1>2, <1>4, ApplyType
<1>6. /\ Believed(objects, c.fact) => Ended(objects, mid, c.fact, ts, "superseded")
      /\ ~Believed(objects, c.fact) => mid = objects
      /\ \A f \in Fact \ {c.fact} : Untouched(objects, mid, f)
  BY <1>2, <1>4, CloseEffect
<1> HIDE DEF mid
<1>7. /\ Born(objects', new, ts, c.fact, c.confidence)
      /\ \A f \in Fact \ {new} : Untouched(mid, objects', f)
  BY <1>2, <1>3, <1>5, AssertEffect
<1>8. CASE Believed(objects, c.fact)
  BY <1>1, <1>6, <1>7, <1>8 DEF Change, Untouched, SameBelief, Ended, Believed
<1>9. CASE ~Believed(objects, c.fact)
  <2>1. mid = objects
    BY <1>6, <1>9
  <2>2. objects[c.fact].txTo # Open
    BY <1>9 DEF Believed
  <2>3. QED
    BY <1>1, <1>7, <2>1, <2>2 DEF Change, Untouched, SameBelief
<1>10. QED
  BY <1>8, <1>9

(* A commit, and the call that it commits.                                  *)
LEMMA CommitChange ==
  ASSUME HInv, NEW t \in Thread, CommitWrite(t)
  PROVE  \E ts \in Time, new \in Fact \cup {NoFact} :
           /\ StampedAt(t, ts, new) /\ Change(call[t], ts, new)
           /\ LET evs == EventsOf(call[t], ts, new)
              IN  /\ Len(evs) \in {1, 2} /\ Len(ledger') = Len(ledger) + Len(evs)
                  /\ \A i \in 1 .. Len(evs) : ledger'[Len(ledger) + i] = evs[i]
<1>1. /\ pc[t] = "writing" /\ todo[t] = << >>
      /\ ledger' = txLedger /\ objects' = txObjects
  BY DEF CommitWrite, Commit
<1>2. call[t] \in Call /\ objects \in Projection
  BY DEF HInv, IInv, TypeOK
<1>3. PICK ts \in Time, new \in Fact \cup {NoFact}, k \in 0 .. 2 :
        StampedAt(t, ts, new) /\ Emitted(t, ts, new, k)
  BY <1>1 DEF HInv, StageInv, Stage
<1> DEFINE evs == EventsOf(call[t], ts, new)
<1>4. Len(evs) \in {1, 2}
  BY <1>2, EventsShape
<1>5. /\ k \in 0 .. Len(evs) /\ Len(todo[t]) = Len(evs) - k
      /\ Len(txLedger) = Len(ledger) + k
      /\ \A i \in 1 .. k : txLedger[Len(ledger) + i] = evs[i]
      /\ txObjects = Image(call[t], ts, new, k)
  BY <1>1, <1>3 DEF Emitted
<1>6. k = Len(evs)
  <2>1. Len(evs) - k = 0
    BY <1>1, <1>5
  <2> HIDE DEF evs
  <2>2. QED
    BY <1>4, <2>1
<1>7. objects' = IF Len(evs) = 1 THEN Apply(objects, evs[1])
                                 ELSE Apply(Apply(objects, evs[1]), evs[2])
  BY <1>1, <1>4, <1>5, <1>6 DEF Image
<1>8. call[t].op # "assert" =>
        /\ Known(objects, call[t].fact)
        /\ call[t].op = "contradict" => call[t].other \in Fact /\ Known(objects, call[t].other)
  BY <1>1 DEF HInv, StageInv, Ask
<1>9. Change(call[t], ts, new)
  <2>1. CASE call[t].op = "assert"
    <3>1. objects' = Apply(objects, Ev(call[t], ts, "fact_asserted", new, NoFact))
      BY <1>2, <1>7, <2>1, EventsShape
    <3>2. QED
      BY <1>2, <1>3, <2>1, <3>1, AssertChange DEF StampedAt
  <2>2. CASE call[t].op = "replace"
    <3>1. objects' = Apply(Apply(objects, Ev(call[t], ts, "fact_superseded", call[t].fact, new)),
                           Ev(call[t], ts, "fact_asserted", new, call[t].fact))
      BY <1>2, <1>7, <2>2, EventsShape
    <3>2. QED
      BY <1>2, <1>3, <1>8, <2>2, <3>1, ReplaceChange DEF StampedAt
  <2>3. CASE call[t].op = "retract"
    <3>1. objects' = Apply(objects, Ev(call[t], ts, "fact_retracted", call[t].fact, NoFact))
      BY <1>2, <1>7, <2>3, EventsShape
    <3>2. QED
      BY <1>2, <1>8, <2>3, <3>1, RetractChange
  <2>4. CASE call[t].op = "confirm"
    <3>1. objects' = Apply(objects, Ev(call[t], ts, "fact_confirmed", call[t].fact, NoFact))
      BY <1>2, <1>7, <2>4, EventsShape
    <3>2. QED
      BY <1>2, <1>8, <2>4, <3>1, ConfirmChange
  <2>5. CASE call[t].op = "contradict"
    <3>1. objects' = Apply(objects, Ev(call[t], ts, "contradiction_recorded",
                                       call[t].fact, call[t].other))
      BY <1>2, <1>7, <2>5, EventsShape
    <3>2. QED
      BY <1>2, <1>8, <2>5, <3>1, ContradictChange
  <2>6. QED
    BY <1>2, <2>1, <2>2, <2>3, <2>4, <2>5 DEF Call
<1>10. QED
  BY <1>1, <1>3, <1>4, <1>5, <1>6, <1>9

(* A commit keeps the invariant.                                            *)
LEMMA CommitStages ==
  ASSUME HInv, IInv', NEW t \in Thread, CommitWrite(t)
  PROVE  HInv'
<1> DEFINE c == call[t]
<1>1. PICK ts \in Time, new \in Fact \cup {NoFact} :
        /\ StampedAt(t, ts, new) /\ Change(c, ts, new)
        /\ Len(EventsOf(c, ts, new)) \in {1, 2}
        /\ Len(ledger') = Len(ledger) + Len(EventsOf(c, ts, new))
        /\ \A i \in 1 .. Len(EventsOf(c, ts, new)) :
             ledger'[Len(ledger) + i] = EventsOf(c, ts, new)[i]
  BY CommitChange
<1>2. /\ pc[t] = "writing" /\ holder = t /\ ledger' = txLedger
      /\ pc' = [pc EXCEPT ![t] = "idle"] /\ call' = [call EXCEPT ![t] = NoCall]
      /\ todo' = [todo EXCEPT ![t] = << >>] /\ clock' = clock
  BY DEF CommitWrite, Commit, EndCall
<1>3. /\ \A u \in Thread : u # t => /\ pc'[u] = pc[u] /\ call'[u] = call[u]
                                    /\ todo'[u] = todo[u] /\ pc[u] # "writing"
      /\ pc'[t] = "idle"
  BY <1>2 DEF HInv, IInv, TypeOK, LockInv
<1>4. /\ c \in Call /\ ts \in Nat /\ clock \in Nat
      /\ c.op # "assert" => c.fact \in Fact /\ Known(objects, c.fact)
  BY <1>2 DEF HInv, IInv, TypeOK, Time, Call, StageInv, Ask
<1>5. /\ ledger \in Seq(Event) /\ ledger' \in Seq(Event)
      /\ Len(ledger) <= Len(ledger')
      /\ \A i \in 1 .. Len(ledger) : ledger'[i] = ledger[i]
  BY <1>2 DEF HInv, IInv, TypeOK, PrefixInv
<1>6. ASSUME NEW f \in Fact, Known(objects, f)
      PROVE  /\ objects[f].txFrom \in Nat /\ objects[f].txTo \in Nat \cup {Open}
             /\ objects[f].confidence \in Nat
  BY <1>6, KnownObject DEF HInv, IInv, TypeOK, Object, Time, Confidence
<1>7. ASSUME NEW i \in 1 .. Len(ledger'), ledger'[i].op = "fact_asserted"
      PROVE  \/ /\ i \in 1 .. Len(ledger) /\ ledger'[i] = ledger[i]
                /\ Known(objects, ledger[i].fact) /\ ledger[i].fact \in Fact
                /\ ledger[i].confidence \in Nat
                /\ objects[ledger[i].fact].confidence >= ledger[i].confidence
             \/ /\ c.op \in {"assert", "replace"} /\ new \in Fact /\ ~Known(objects, new)
                /\ ledger'[i].fact = new /\ ledger'[i].confidence = c.confidence
  <2>1. CASE i \in 1 .. Len(ledger)
    <3>1. ledger'[i] = ledger[i] /\ ledger[i] \in Event
      BY <1>5, <2>1
    <3>2. QED
      BY <1>7, <2>1, <3>1 DEF HInv, FloorInv, Event, Confidence
  <2>2. CASE i \notin 1 .. Len(ledger)
    <3> DEFINE j == i - Len(ledger)
    <3>1. j \in 1 .. Len(EventsOf(c, ts, new)) /\ i = Len(ledger) + j
      <4>1. Len(ledger) \in Nat /\ i \in Nat
        BY <1>5
      <4>2. QED
        BY <1>1, <2>2, <4>1
    <3> HIDE DEF j
    <3>2. ledger'[i] = EventsOf(c, ts, new)[j]
      BY <1>1, <3>1
    <3>3. c.op \in {"assert", "replace"} /\ ledger'[i].fact = new
      BY <1>4, <1>7, <3>1, <3>2, EventsFresh
    <3>4. ledger'[i].confidence = c.confidence
      BY <1>4, <3>1, <3>2, EventsFacts
    <3>5. QED
      BY <1>1, <3>3, <3>4 DEF StampedAt
  <2>3. QED
    BY <2>1, <2>2
<1>8. ASSUME NEW u \in Thread, u # t
      PROVE  Ask(u)' /\ (pc'[u] \in {"stamped", "writing"} => Stage(u)')
  <2>1. call[u] \in Call /\ (pc[u] \in {"checked", "stamped", "writing"} => Ask(u))
    BY DEF HInv, IInv, TypeOK, StageInv
  <2>2. Ask(u)'
    <3> SUFFICES ASSUME pc[u] \in {"checked", "stamped", "writing"}, call[u].op # "assert"
                 PROVE  /\ Known(objects', call[u].fact)
                        /\ call[u].op = "contradict" =>
                             call[u].other \in Fact /\ Known(objects', call[u].other)
                        /\ call[u].op = "confirm" =>
                             \A i \in 1 .. Len(ledger') :
                               ledger'[i].op = "fact_asserted"
                                 /\ ledger'[i].fact = call[u].fact =>
                                    call[u].confidence >= ledger'[i].confidence
      BY <1>3, <1>8 DEF Ask
    <3>1. call[u].fact \in Fact /\ Known(objects, call[u].fact)
      BY <2>1 DEF Ask, Call
    <3>2. QED
      BY <1>1, <1>7, <2>1, <3>1 DEF Ask, Change
  <2>3. ASSUME pc[u] = "stamped" PROVE Stage(u)'
    <3>1. PICK s \in Time, n \in Fact \cup {NoFact}, k \in 0 .. 2 :
            StampedAt(u, s, n) /\ Emitted(u, s, n, k)
      BY <2>3 DEF HInv, StageInv, Stage
    <3>2. Emitted(u, s, n, k)'
      BY <1>3, <1>8, <2>3, <3>1 DEF Emitted
    <3>3. ASSUME call[u].op \in {"assert", "replace"} PROVE ~Known(objects', n)
      <4>1. n \in Fact /\ Len(EventsOf(call[u], s, n)) \in {1, 2}
        BY <2>1, <3>1, <3>3, EventsShape DEF StampedAt
      <4>2. PICK m \in {1, 2} : /\ m = Len(todo[u]) /\ m = Len(EventsOf(call[u], s, n))
                               /\ todo[u][m] = EventsOf(call[u], s, n)[m]
        <5> DEFINE evs == EventsOf(call[u], s, n)
        <5>1. k = 0 /\ Len(todo[u]) = Len(evs) - k
              /\ \A i \in 1 .. Len(todo[u]) : todo[u][i] = evs[k + i]
          BY <2>3, <3>1 DEF Emitted
        <5>2. Len(evs) \in {1, 2}
          BY <4>1
        <5> HIDE DEF evs
        <5>3. PICK m \in {1, 2} : m = Len(evs) /\ m = Len(todo[u])
          BY <5>1, <5>2
        <5>4. m \in 1 .. m /\ k + m = m
          BY <5>1, <5>3
        <5>5. todo[u][m] = evs[m]
          BY <5>1, <5>3, <5>4
        <5>6. QED
          BY <5>3, <5>5 DEF evs
      <4>3. todo[u][m].op = "fact_asserted" /\ todo[u][m].fact = n
        BY <2>1, <3>3, <4>2, EventsFacts
      <4>4. NewFact(u, m)' /\ m \in 1 .. Len(todo'[u]) /\ todo'[u][m].fact = n
        <5>1. todo'[u] = todo[u] /\ m \in 1 .. Len(todo[u])
          BY <1>3, <1>8, <4>2
        <5>2. QED
          BY <4>3, <5>1 DEF NewFact
      <4>5. QED
        BY <4>4 DEF IInv, FreshInv
    <3>4. StampedAt(u, s, n)'
      <4>1. /\ MonotoneClock => s <= clock'
            /\ IF call[u].op \in {"assert", "replace"} THEN n \in Fact /\ ~Known(objects', n)
                                                       ELSE n = NoFact
        BY <1>2, <3>1, <3>3 DEF StampedAt
      <4>2. ASSUME MonotoneClock, call[u].op # "assert"
            PROVE  objects'[call[u].fact].txFrom <= s
        <5>1. call[u].fact \in Fact /\ Known(objects, call[u].fact)
          BY <2>1, <2>3, <4>2 DEF Ask, Call
        <5>2. QED
          BY <1>1, <3>1, <4>2, <5>1 DEF Change, StampedAt
      <4>3. QED
        BY <1>3, <1>8, <4>1, <4>2 DEF StampedAt
    <3>5. QED
      BY <3>2, <3>4 DEF Stage
  <2>4. QED
    BY <1>3, <1>8, <2>2, <2>3
<1>9. StageInv'
  BY <1>3, <1>8 DEF StageInv, Ask
<1>10. ClockInv'
  <2>1. ASSUME MonotoneClock, NEW f \in Fact, Known(objects', f)
        PROVE  /\ objects'[f].txFrom <= clock
               /\ objects'[f].txTo # Open =>
                    objects'[f].txFrom <= objects'[f].txTo /\ objects'[f].txTo <= clock
    <3>1. ts <= clock /\ (c.op # "assert" => objects[c.fact].txFrom <= ts)
      BY <1>1, <2>1 DEF StampedAt
    <3>2. CASE Known(objects, f)
      BY <1>1, <1>4, <1>6, <2>1, <3>1, <3>2 DEF HInv, ClockInv, Change
    <3>3. CASE ~Known(objects, f)
      BY <1>1, <2>1, <3>1, <3>3 DEF Change, Born
    <3>4. QED
      BY <3>2, <3>3
  <2>2. QED
    BY <1>2, <2>1 DEF ClockInv
<1>11. StatusInv'
  <2>1. ASSUME NEW f \in Fact, Known(objects', f), objects'[f].txTo = Open
        PROVE  objects'[f].status = "asserted"
    <3>1. ts # Open
      BY <1>4, OpenAssumption
    <3>2. CASE Known(objects, f)
      BY <1>1, <2>1, <3>1, <3>2 DEF HInv, StatusInv, Change
    <3>3. CASE ~Known(objects, f)
      BY <1>1, <2>1, <3>3 DEF Change, Born
    <3>4. QED
      BY <3>2, <3>3
  <2>2. QED
    BY <2>1 DEF StatusInv
<1>12. NoBeliefGap'
  <2>1. ASSUME NEW f \in Fact, Known(objects', f), objects'[f].status = "superseded"
        PROVE  \E g \in Fact : /\ Known(objects', g) /\ objects'[g].supersedes = f
                               /\ objects'[g].txFrom = objects'[f].txTo
    <3>1. Known(objects, f)
      BY <1>1, <2>1 DEF Change, Born
    <3>2. CASE objects[f].status = "superseded" /\ objects'[f].txTo = objects[f].txTo
      <4>1. PICK g \in Fact : /\ Known(objects, g) /\ objects[g].supersedes = f
                              /\ objects[g].txFrom = objects[f].txTo
        BY <3>1, <3>2 DEF HInv, NoBeliefGap
      <4>2. QED
        BY <1>1, <3>2, <4>1 DEF Change
    <3>3. CASE c.op = "replace" /\ f = c.fact /\ objects'[f].txTo = ts
      <4>1. new \in Fact /\ Born(objects', new, ts, f, c.confidence)
        BY <1>1, <3>3 DEF Change, StampedAt
      <4>2. QED
        BY <3>3, <4>1 DEF Born
    <3>4. QED
      BY <1>1, <2>1, <3>1, <3>2, <3>3 DEF Change, HInv, StatusInv
  <2>2. QED
    BY <2>1 DEF NoBeliefGap
<1>13. FloorInv'
  <2>1. ASSUME NEW i \in 1 .. Len(ledger'), ledger'[i].op = "fact_asserted"
        PROVE  /\ Known(objects', ledger'[i].fact)
               /\ objects'[ledger'[i].fact].confidence >= ledger'[i].confidence
    <3>1. c.confidence \in Nat
      BY <1>4 DEF Call, Confidence
    <3>2. CASE c.op \in {"assert", "replace"} /\ new \in Fact /\ ~Known(objects, new)
               /\ ledger'[i].fact = new /\ ledger'[i].confidence = c.confidence
      BY <1>1, <3>1, <3>2 DEF Change, Born
    <3>3. CASE /\ i \in 1 .. Len(ledger) /\ ledger'[i] = ledger[i]
               /\ Known(objects, ledger[i].fact) /\ ledger[i].fact \in Fact
               /\ ledger[i].confidence \in Nat
               /\ objects[ledger[i].fact].confidence >= ledger[i].confidence
      <4> DEFINE f == ledger[i].fact
      <4>1. Known(objects', f)
        BY <1>1, <3>3 DEF Change
      <4>2. CASE objects'[f].confidence = objects[f].confidence
        BY <3>3, <4>1, <4>2
      <4>3. CASE c.op = "confirm" /\ f = c.fact /\ objects'[f].confidence = c.confidence
        <5>1. ledger[i].op = "fact_asserted"
          BY <2>1, <3>3
        <5>2. c.confidence >= ledger[i].confidence
          BY <1>2, <3>3, <4>3, <5>1 DEF HInv, StageInv, Ask
        <5>3. QED
          BY <3>3, <4>1, <4>3, <5>2
      <4>4. QED
        BY <1>1, <3>3, <4>2, <4>3 DEF Change
    <3>4. QED
      BY <1>7, <2>1, <3>2, <3>3
  <2>2. QED
    BY <2>1 DEF FloorInv
<1>14. QED
  BY <1>9, <1>10, <1>11, <1>12, <1>13 DEF HInv

LEMMA HistoryStep == HInv /\ [Next]_vars => HInv'
<1> SUFFICES ASSUME HInv, [Next]_vars PROVE HInv'
  OBVIOUS
<1>1. IInv'
  BY InvStep DEF HInv
<1>2. CASE Tick \/ Crash \/ UNCHANGED vars
  BY <1>1, <1>2, RestStep
<1>3. CASE \E t \in Thread : \/ StartCall(t) \/ Stamp(t) \/ FailBeforeWrite(t)
                             \/ BeginWrite(t) \/ InsideLock(t)
  BY <1>1, <1>3, CheckAsks, StampStages, BeginStages, EmitStages, AsideStep, CommitStages
     DEF InsideLock
<1>4. QED
  BY <1>2, <1>3 DEF Next

(* The strengthened invariant holds of every behaviour.                     *)
THEOREM HistoryInvariant == Spec => []HInv
<1>1. Init => HInv
  BY HistoryInit
<1>2. HInv /\ [Next]_vars => HInv'
  BY HistoryStep
<1>3. QED
  BY <1>1, <1>2, PTL DEF Spec
-----------------------------------------------------------------------------
(* What follows for a reader.                                               *)

(* A superseded belief leaves no gap (supersede and correct_validity,       *)
(* whatever raced with them).                                               *)
THEOREM NoGapEver == Spec => []NoBeliefGap
<1>1. HInv => NoBeliefGap
  BY DEF HInv
<1>2. QED
  BY <1>1, HistoryInvariant, PTL

(* Corroboration never takes a fact below the confidence it was asserted    *)
(* with (confirm, whose increment is computed outside the lock).            *)
THEOREM FloorStands == Spec => []ConfidenceFloor
<1>1. HInv => ConfidenceFloor
  BY DEF HInv, FloorInv, ConfidenceFloor
<1>2. QED
  BY <1>1, HistoryInvariant, PTL

(* With a clock that does not step back no belief ends before it began.     *)
THEOREM IntervalsAreForward == Spec => []IntervalsWellFormed
<1>1. HInv => IntervalsWellFormed
  BY DEF HInv, ClockInv, IntervalsWellFormed
<1>2. QED
  BY <1>1, HistoryInvariant, PTL

(* current and as_of(now) agree, also while earlier stamped calls commit    *)
(* late.                                                                    *)
THEOREM CurrentIsNow == Spec => []CurrentIsAsOfNow
<1>1. HInv => CurrentIsAsOfNow
  <2> SUFFICES ASSUME HInv, MonotoneClock
               PROVE  {f \in Fact : Believed(objects, f)} = BelievedAt(objects, clock)
    BY DEF CurrentIsAsOfNow, Current, AsOf
  <2>1. ASSUME NEW f \in Fact, Known(objects, f)
        PROVE  (objects[f].txTo = Open) <=>
                 /\ objects[f].txFrom <= clock
                 /\ objects[f].txTo = Open \/ clock < objects[f].txTo
    <3>1. objects[f].txTo \in Nat \cup {Open} /\ clock \in Nat
      BY <2>1, KnownObject DEF HInv, IInv, TypeOK, Object, Time
    <3>2. QED
      BY <2>1, <3>1 DEF HInv, ClockInv
  <2>2. QED
    BY <2>1 DEF Believed, BelievedAt
<1>2. QED
  BY <1>1, HistoryInvariant, PTL

(* What was known at a settled instant stays known: a commit stamped later  *)
(* changes no belief of that instant.                                       *)
LEMMA CommitIsLater ==
  ASSUME HInv, MonotoneClock, [Next]_vars, NEW T \in Time, Settled(T)
  PROVE  /\ BelievedAt(objects', T) = BelievedAt(objects, T)
         /\ \A f \in BelievedAt(objects, T) : objects'[f].txFrom = objects[f].txFrom
<1>1. CASE objects' = objects
  BY <1>1
<1>2. CASE objects' # objects
  <2>1. PICK t \in Thread : CommitWrite(t) /\ ledger' = txLedger
    BY <1>2, CommitOnly DEF HInv
  <2>2. PICK ts \in Time, new \in Fact \cup {NoFact} :
          /\ Change(call[t], ts, new)
          /\ Len(EventsOf(call[t], ts, new)) \in {1, 2}
          /\ Len(ledger') = Len(ledger) + Len(EventsOf(call[t], ts, new))
          /\ \A i \in 1 .. Len(EventsOf(call[t], ts, new)) :
               ledger'[Len(ledger) + i] = EventsOf(call[t], ts, new)[i]
    BY <2>1, CommitChange
  <2>3. call[t] \in Call /\ Len(ledger) \in Nat /\ T \in Nat /\ ts \in Nat
    BY DEF HInv, IInv, TypeOK, Time
  <2>4. T < ts
    <3> DEFINE n == Len(EventsOf(call[t], ts, new))
    <3>0. n \in {1, 2} /\ Len(txLedger) = Len(ledger) + n
      BY <2>1, <2>2
    <3> HIDE DEF n
    <3>1. Len(ledger) + 1 \in Len(ledger) + 1 .. Len(txLedger) /\ 1 \in 1 .. n
      BY <2>3, <3>0
    <3>2. txLedger[Len(ledger) + 1].ts > T
      BY <3>1 DEF Settled
    <3>3. EventsOf(call[t], ts, new)[1].ts = ts
      BY <2>2, <2>3, EventsShape
    <3>4. 1 \in 1 .. Len(EventsOf(call[t], ts, new))
      BY <3>1 DEF n
    <3>5. ledger'[Len(ledger) + 1].ts = ts
      BY <2>2, <3>3, <3>4
    <3>6. QED
      BY <2>1, <2>3, <3>2, <3>5
  <2>5. ASSUME NEW f \in Fact, Known(objects, f)
        PROVE  /\ f \in BelievedAt(objects', T) <=> f \in BelievedAt(objects, T)
               /\ objects'[f].txFrom = objects[f].txFrom
    BY <2>2, <2>3, <2>4, <2>5, OpenAssumption DEF Change, BelievedAt
  <2>6. ASSUME NEW f \in Fact, ~Known(objects, f)
        PROVE  f \notin BelievedAt(objects', T) /\ f \notin BelievedAt(objects, T)
    BY <2>2, <2>3, <2>4, <2>6 DEF Change, Born, BelievedAt
  <2>7. QED
    BY <2>5, <2>6 DEF BelievedAt
<1>3. QED
  BY <1>1, <1>2

(* Once settled, an instant stays settled.                                  *)
LEMMA SettledStays ==
  ASSUME HInv, MonotoneClock, [Next]_vars, NEW T \in Time, Settled(T)
  PROVE  Settled(T)'
<1>1. T \in Nat /\ clock \in Nat
  BY DEF HInv, IInv, TypeOK, Time
<1>2. T < clock'
  <2>1. CASE Tick
    BY <1>1, <2>1 DEF Tick, Time, Settled
  <2>2. CASE ~Tick
    <3>1. clock' = clock
      BY <2>2 DEF Next, StartCall, CheckAssert, CheckSupersede, CheckCorrectValidity,
           CheckRetract, CheckConfirm, CheckContradict, Check, BeginRebuild, Stamp,
           FailBeforeWrite, BeginWrite, InsideLock, Emit, CommitWrite, FailInside,
           ClearProjection, ReplayNext, CommitRebuild, Crash, vars
    <3>2. QED
      BY <3>1 DEF Settled
  <2>3. QED
    BY <2>1, <2>2
<1>3. ASSUME NEW u \in Thread, NEW i \in 1 .. Len(todo'[u]) PROVE todo'[u][i].ts > T
  <2>1. \/ todo'[u] = todo[u] \/ todo'[u] = << >>
        \/ Stamp(u) /\ todo'[u] # todo[u]
        \/ Emit(u) /\ todo'[u] = Tail(todo[u])
    <3>1. CASE \E t \in Thread : Stamp(t)
      BY <3>1 DEF Stamp, HInv, IInv, TypeOK
    <3>2. CASE \E t \in Thread : Emit(t)
      BY <3>2 DEF Emit, HInv, IInv, TypeOK
    <3>3. CASE \E t \in Thread : todo' = [todo EXCEPT ![t] = << >>]
      BY <3>3 DEF HInv, IInv, TypeOK
    <3>4. CASE Crash
      BY <3>4 DEF Crash
    <3>5. CASE todo' = todo
      BY <3>5
    <3>6. QED
      BY <3>1, <3>2, <3>3, <3>4, <3>5
         DEF Next, StartCall, CheckAssert, CheckSupersede, CheckCorrectValidity,
             CheckRetract, CheckConfirm, CheckContradict, Check, BeginRebuild,
             FailBeforeWrite, BeginWrite, InsideLock, CommitWrite, FailInside, EndCall,
             ClearProjection, ReplayNext, CommitRebuild, Tick, vars, callVars
  <2>2. CASE todo'[u] = todo[u]
    BY <2>2 DEF Settled
  <2>3. CASE todo'[u] = << >>
    BY <2>3
  <2>4. CASE Stamp(u)
    <3>1. PICK new : todo' = [todo EXCEPT ![u] = EventsOf(call[u], clock, new)]
      BY <2>4 DEF Stamp
    <3>2. todo'[u] = EventsOf(call[u], clock, new) /\ call[u] \in Call /\ clock \in Time
      BY <3>1 DEF HInv, IInv, TypeOK
    <3>3. todo'[u][i].ts = clock
      BY <3>2, EventsShape
    <3>4. QED
      BY <1>1, <3>3 DEF Settled
  <2>5. CASE Emit(u) /\ todo'[u] = Tail(todo[u])
    <3>1. todo[u] \in Seq(Event) /\ todo[u] # << >>
      BY <2>5 DEF Emit, HInv, IInv, TypeOK
    <3>2. todo'[u][i] = todo[u][i + 1] /\ i + 1 \in 1 .. Len(todo[u])
      BY <2>5, <3>1
    <3>3. QED
      BY <3>2 DEF Settled
  <2>6. QED
    BY <2>1, <2>2, <2>3, <2>4, <2>5
<1>4. ASSUME NEW i \in Len(ledger') + 1 .. Len(txLedger') PROVE txLedger'[i].ts > T
  <2>1. \/ ledger' = ledger /\ txLedger' = txLedger
        \/ \E u \in Thread : Emit(u)
        \/ txLedger' = ledger'
    <3>1. CASE \E u \in Thread : CommitWrite(u) \/ FailInside(u) \/ CommitRebuild(u)
      BY <3>1 DEF CommitWrite, FailInside, CommitRebuild, Commit, Rollback
    <3>2. CASE Crash
      BY <3>2 DEF Crash, Recover
    <3>3. QED
      BY <3>1, <3>2
         DEF Next, StartCall, CheckAssert, CheckSupersede, CheckCorrectValidity,
             CheckRetract, CheckConfirm, CheckContradict, Check, BeginRebuild, Begin, Stamp,
             FailBeforeWrite, BeginWrite, InsideLock,
             ClearProjection, ReplayNext, Reproject, Tick, vars, storeVars
  <2>2. CASE ledger' = ledger /\ txLedger' = txLedger
    BY <2>2 DEF Settled
  <2>3. CASE txLedger' = ledger'
    <3>1. Len(ledger') \in Nat
      BY HistoryStep DEF HInv, IInv, TypeOK
    <3>2. QED
      BY <1>4, <2>3, <3>1
  <2>4. CASE \E u \in Thread : Emit(u)
    <3>1. PICK u \in Thread : Emit(u)
      BY <2>4
    <3>2. /\ txLedger \in Seq(Event) /\ todo[u] \in Seq(Event) /\ todo[u] # << >>
          /\ txLedger' = Append(txLedger, Head(todo[u])) /\ ledger' = ledger
          /\ Len(ledger) \in Nat
      BY <3>1 DEF Emit, Write, HInv, IInv, TypeOK
    <3>3. 1 \in 1 .. Len(todo[u]) /\ Head(todo[u]) = todo[u][1] /\ Head(todo[u]) \in Event
      BY <3>2
    <3>4. Head(todo[u]).ts > T
      BY <3>3 DEF Settled
    <3>5. CASE i = Len(txLedger) + 1
      BY <3>2, <3>3, <3>4, <3>5
    <3>6. CASE i # Len(txLedger) + 1
      <4>1. i \in Len(ledger) + 1 .. Len(txLedger) /\ txLedger'[i] = txLedger[i]
        BY <1>4, <3>2, <3>3, <3>6
      <4>2. QED
        BY <4>1 DEF Settled
    <3>7. QED
      BY <3>5, <3>6
  <2>5. QED
    BY <2>1, <2>2, <2>3, <2>4
<1>5. QED
  BY <1>2, <1>3, <1>4 DEF Settled

(* as_of(T) answers the same ever after, once no call stamped up to T is in *)
(* flight.                                                                  *)
THEOREM SettledPast == Spec => SettledPastIsFixed
<1>1. ASSUME HInv, [Next]_vars
      PROVE  MonotoneClock =>
               \A T \in Time :
                 Settled(T) => /\ BelievedAt(objects', T) = BelievedAt(objects, T)
                               /\ Settled(T)'
  BY <1>1, CommitIsLater, SettledStays
<1>2. QED
  BY <1>1, HistoryInvariant, PTL DEF Spec, SettledPastIsFixed

(* And so does the resolution of several beliefs to one answer, unless the  *)
(* confidence of one of them is raised in place.                            *)
THEOREM SettledAnswers == Spec => SettledAnswersStand
<1>1. ASSUME HInv, [Next]_vars, MonotoneClock, NEW T \in Time, Settled(T),
             \A f \in BelievedAt(objects, T) :
               Known(objects', f) => objects'[f].confidence = objects[f].confidence,
             NEW w \in Worlds, NEW v \in Moment
      PROVE  AsOf(w, v, T)' = AsOf(w, v, T)
  <2> DEFINE then == BelievedAt(objects, T)
  <2>1. BelievedAt(objects', T) = then
        /\ \A f \in then : objects'[f].txFrom = objects[f].txFrom
    BY <1>1, CommitIsLater
  <2>2. \A f \in then : Known(objects', f)
    BY <2>1 DEF BelievedAt
  <2>3. \A f \in then : RankKey(w, f)' = RankKey(w, f)
    BY <1>1, <2>1, <2>2 DEF RankKey
  <2>4. AsOf(w, v, T)' =
          {f \in then : /\ ValidAt(w, f, v) /\ ~w[f].ends
                        /\ \A g \in then \ {f} :
                             ValidAt(w, g, v) => Outranks(RankKey(w, f)', RankKey(w, g)')}
    BY <2>1 DEF AsOf, ResolveCurrent, ValidAt
  <2>5. AsOf(w, v, T) =
          {f \in then : /\ ValidAt(w, f, v) /\ ~w[f].ends
                        /\ \A g \in then \ {f} :
                             ValidAt(w, g, v) => Outranks(RankKey(w, f), RankKey(w, g))}
    BY DEF AsOf, ResolveCurrent
  <2> HIDE DEF then
  <2>6. QED
    BY <2>3, <2>4, <2>5
<1>2. HInv /\ [Next]_vars =>
        (MonotoneClock =>
           \A T \in Time :
             /\ Settled(T)
             /\ \A f \in BelievedAt(objects, T) :
                  Known(objects', f) => objects'[f].confidence = objects[f].confidence
             => \A w \in Worlds, v \in Moment : AsOf(w, v, T)' = AsOf(w, v, T))
  BY <1>1
<1>3. QED
  BY <1>2, HistoryInvariant, PTL DEF Spec, SettledAnswersStand
-----------------------------------------------------------------------------
(* FactLifecycle implements BeliefHistory.                                  *)
IntervalOf(o) ==
  [from |-> o.txFrom, to |-> o.txTo, status |-> o.status, replaces |-> o.supersedes]

Belief == [f \in Fact |-> IF Known(objects, f) THEN IntervalOf(objects[f]) ELSE Absent]

LEMMA BeliefOf ==
  ASSUME NEW f \in Fact, TypeOK
  PROVE  /\ Known(objects, f) => Belief[f] = IntervalOf(objects[f]) /\ Belief[f] # Absent
         /\ ~Known(objects, f) => Belief[f] = Absent
<1>1. ASSUME Known(objects, f) PROVE IntervalOf(objects[f]) \in History!Interval
  <2>1. objects[f] \in Object
    BY <1>1, KnownObject DEF TypeOK
  <2>2. QED
    BY <2>1 DEF IntervalOf, Object, History!Interval
<1>2. QED
  BY <1>1, IntervalAssumption DEF Belief

(* The operators and actions of the history, read off Belief.               *)
LEMMA HistoryOps ==
  /\ \A f : History!IsOpen(f) <=> Belief[f] # Absent /\ Belief[f].to = Open
  /\ \A f : History!IsClosed(f) <=> Belief[f] # Absent /\ Belief[f].to # Open
  /\ \A f, T, why : History!Until(f, T, why) =
       [from |-> Belief[f].from, to |-> T, status |-> why, replaces |-> Belief[f].replaces]
  BY DEF History!IsOpen, History!IsClosed, History!Until, Belief, IntervalOf

LEMMA HistorySteps ==
  /\ \A f, T : Belief[f] = Absent /\ Belief' = [Belief EXCEPT ![f] = History!Since(T, NoFact)]
               => History!Assert(f, T)
  /\ \A f, T : /\ History!IsOpen(f)
               /\ Belief' = [Belief EXCEPT ![f] = History!Until(f, T, "retracted")]
               => History!Retract(f, T)
  /\ \A f, g, T : /\ History!IsOpen(f) /\ Belief[g] = Absent
                  /\ Belief' = [Belief EXCEPT ![f] = History!Until(f, T, "superseded"),
                                             ![g] = History!Since(T, f)]
                  => History!Replace(f, g, T)
  /\ \A f, g, T : /\ History!IsClosed(f) /\ Belief[g] = Absent
                  /\ Belief' = [Belief EXCEPT ![g] = History!Since(T, f)]
                  => History!LateReplace(f, g, T)
<1>1. \A f, T : Belief[f] = Absent /\ Belief' = [Belief EXCEPT ![f] = History!Since(T, NoFact)]
                => History!Assert(f, T)
  BY DEF History!Assert, Belief, IntervalOf
<1>2. \A f, T : /\ History!IsOpen(f)
                /\ Belief' = [Belief EXCEPT ![f] = History!Until(f, T, "retracted")]
                => History!Retract(f, T)
  BY DEF History!Retract, Belief, IntervalOf
<1>3. \A f, g, T : /\ History!IsOpen(f) /\ Belief[g] = Absent
                   /\ Belief' = [Belief EXCEPT ![f] = History!Until(f, T, "superseded"),
                                              ![g] = History!Since(T, f)]
                   => History!Replace(f, g, T)
  BY DEF History!Replace, Belief, IntervalOf
<1>4. \A f, g, T : /\ History!IsClosed(f) /\ Belief[g] = Absent
                   /\ Belief' = [Belief EXCEPT ![g] = History!Since(T, f)]
                   => History!LateReplace(f, g, T)
  BY DEF History!LateReplace, Belief, IntervalOf
<1>5. QED
  BY <1>1, <1>2, <1>3, <1>4

(* A commit is one step of the history, or none.                            *)
LEMMA CommitRefines ==
  ASSUME HInv, TypeOK', NEW t \in Thread, CommitWrite(t)
  PROVE  History!Next \/ Belief' = Belief
<1> DEFINE c == call[t]
<1>1. PICK ts \in Time, new \in Fact \cup {NoFact} :
        StampedAt(t, ts, new) /\ Change(c, ts, new)
  BY CommitChange
<1>2. /\ c \in Call /\ pc[t] = "writing" /\ TypeOK
      /\ c.op # "assert" => c.fact \in Fact /\ Known(objects, c.fact)
  BY DEF HInv, IInv, TypeOK, CommitWrite, StageInv, Ask, Call
<1>3. ts # Open
  BY OpenAssumption DEF Time
<1>4. c.op \in {"assert", "replace"} => new \in Fact /\ ~Known(objects, new)
  BY <1>1 DEF StampedAt
<1> HIDE DEF c
<1> DEFINE Old == IF c.op = "replace" THEN c.fact ELSE NoFact
<1>5. c.op \in {"assert", "replace"} =>
        Belief[new] = Absent /\ Belief'[new] = History!Since(ts, Old)
  <2> SUFFICES ASSUME c.op \in {"assert", "replace"}
               PROVE  Belief[new] = Absent /\ Belief'[new] = History!Since(ts, Old)
    OBVIOUS
  <2>1. Belief[new] = Absent
    BY <1>2, <1>4, BeliefOf
  <2>2. Born(objects', new, ts, Old, c.confidence)
    <3>1. CASE c.op = "assert"
      BY <1>1, <1>4, <3>1 DEF Change
    <3>2. CASE c.op = "replace"
      BY <1>1, <1>4, <3>2 DEF Change
    <3>3. QED
      BY <3>1, <3>2
  <2>3. Belief'[new] = IntervalOf(objects'[new])
    BY <1>4, <2>2 DEF Belief, Born, IntervalOf
  <2>4. QED
    BY <2>1, <2>2, <2>3 DEF History!Since, IntervalOf, Born
<1>6. ASSUME NEW f \in Fact, c.op \notin {"assert", "replace"} \/ f # new,
             c.op \notin {"replace", "retract"} \/ f # c.fact \/ ~History!IsOpen(f)
      PROVE  Belief'[f] = Belief[f]
  <2>1. CASE Known(objects, f)
    <3>1. Known(objects', f) /\ Belief'[f] = IntervalOf(objects'[f])
      BY <1>1, <2>1 DEF Change, Belief
    <3>2. Belief[f] = IntervalOf(objects[f]) /\ Belief[f] # Absent
      BY <1>2, <2>1, BeliefOf
    <3>3. History!IsOpen(f) <=> Belief[f] # Absent /\ Belief[f].to = Open
      BY HistoryOps, Zenon
    <3>4. Belief[f].to = objects[f].txTo
      BY <3>2 DEF IntervalOf
    <3>5. objects[f].txTo = Open => History!IsOpen(f)
      BY <3>2, <3>3, <3>4
    <3>6. QED
      BY <1>1, <1>6, <2>1, <3>1, <3>2, <3>5 DEF Change, IntervalOf
  <2>2. CASE ~Known(objects, f)
    BY <1>1, <1>2, <1>6, <2>2, BeliefOf DEF Change, Belief
  <2>3. QED
    BY <2>1, <2>2
<1>7. ASSUME c.op \in {"replace", "retract"}, History!IsOpen(c.fact)
      PROVE  Belief'[c.fact] =
               History!Until(c.fact, ts, IF c.op = "replace" THEN "superseded" ELSE "retracted")
  <2>1. Belief[c.fact] = IntervalOf(objects[c.fact])
    BY <1>2, <1>7, BeliefOf
  <2>2. objects[c.fact].txTo = Open
    <3>1. Belief[c.fact].to = Open
      BY <1>7, HistoryOps, Zenon
    <3>2. QED
      BY <2>1, <3>1 DEF IntervalOf
  <2>3. Known(objects', c.fact) /\ Belief'[c.fact] = IntervalOf(objects'[c.fact])
    BY <1>1, <1>2, <1>7 DEF Change, Belief
  <2>4. QED
    <3> DEFINE why == IF c.op = "replace" THEN "superseded" ELSE "retracted"
    <3>1. /\ objects'[c.fact].txFrom = objects[c.fact].txFrom
          /\ objects'[c.fact].supersedes = objects[c.fact].supersedes
          /\ objects'[c.fact].txTo = ts /\ objects'[c.fact].status = why
      BY <1>1, <1>2, <1>7, <2>2 DEF Change
    <3>2. History!Until(c.fact, ts, why) =
            [from |-> Belief[c.fact].from, to |-> ts, status |-> why,
             replaces |-> Belief[c.fact].replaces]
      BY HistoryOps, Zenon
    <3> HIDE DEF why
    <3>3. Belief'[c.fact] = History!Until(c.fact, ts, why)
      BY <2>1, <2>3, <3>1, <3>2 DEF IntervalOf
    <3>4. QED
      BY <3>3 DEF why
<1>8. Belief' = [f \in Fact |-> Belief'[f]] /\ Belief = [f \in Fact |-> Belief[f]]
  BY DEF Belief
<1>9. CASE c.op = "assert"
  <2>1. Belief' = [Belief EXCEPT ![new] = History!Since(ts, NoFact)]
    BY <1>4, <1>5, <1>6, <1>8, <1>9
  <2>2. History!Assert(new, ts)
    BY <1>5, <1>9, <2>1, HistorySteps
  <2>3. QED
    BY <1>4, <1>9, <2>2 DEF History!Next
<1>10. CASE c.op = "retract" /\ History!IsOpen(c.fact)
  <2>1. Belief' = [Belief EXCEPT ![c.fact] = History!Until(c.fact, ts, "retracted")]
    BY <1>2, <1>6, <1>7, <1>8, <1>10
  <2>2. History!Retract(c.fact, ts)
    BY <1>10, <2>1, HistorySteps
  <2>3. QED
    BY <1>2, <1>10, <2>2 DEF History!Next
<1>11. CASE c.op = "replace" /\ History!IsOpen(c.fact)
  <2>1. new # c.fact
    BY <1>2, <1>4, <1>11
  <2>2. Belief' = [Belief EXCEPT ![c.fact] = History!Until(c.fact, ts, "superseded"),
                                 ![new] = History!Since(ts, c.fact)]
    BY <1>2, <1>4, <1>5, <1>6, <1>7, <1>8, <1>11, <2>1
  <2>3. History!Replace(c.fact, new, ts)
    BY <1>5, <1>11, <2>2, HistorySteps
  <2>4. QED
    BY <1>2, <1>4, <1>11, <2>3 DEF History!Next
<1>12. CASE c.op = "replace" /\ ~History!IsOpen(c.fact)
  <2>1. Belief' = [Belief EXCEPT ![new] = History!Since(ts, c.fact)]
    BY <1>4, <1>5, <1>6, <1>8, <1>12
  <2>2. Belief[c.fact] # Absent
    BY <1>2, <1>12, BeliefOf
  <2>3. History!IsClosed(c.fact)
    BY <1>12, <2>2, HistoryOps
  <2>4. History!LateReplace(c.fact, new, ts)
    BY <1>5, <1>12, <2>1, <2>3, HistorySteps
  <2>5. QED
    BY <1>2, <1>4, <1>12, <2>4 DEF History!Next
<1>13. CASE \/ c.op \in {"confirm", "contradict"}
            \/ c.op = "retract" /\ ~History!IsOpen(c.fact)
  BY <1>6, <1>8, <1>13
<1>14. QED
  BY <1>2, <1>9, <1>10, <1>11, <1>12, <1>13 DEF Call

(* Locks, failures, rebuilds, crashes and lost races show a reader nothing  *)
(* that the history of beliefs does not allow.                              *)
THEOREM Refinement == Spec => ImplementsBeliefHistory
<1>1. Init => History!Init
  BY DEF Init, StoreInit, NoObjects, Known, History!Init
<1>2. HInv /\ [Next]_vars => [History!Next]_Belief
  <2> SUFFICES ASSUME HInv, [Next]_vars PROVE History!Next \/ Belief' = Belief
    OBVIOUS
  <2>1. CASE objects' = objects
    BY <2>1 DEF Belief, Known
  <2>2. CASE objects' # objects
    <3>1. PICK t \in Thread : CommitWrite(t)
      BY <2>2, CommitOnly DEF HInv
    <3>2. TypeOK'
      BY HistoryStep DEF HInv, IInv
    <3>3. QED
      BY <3>1, <3>2, CommitRefines
  <2>3. QED
    BY <2>1, <2>2
<1>3. QED
  BY <1>1, <1>2, HistoryInvariant, PTL
     DEF Spec, ImplementsBeliefHistory, History!Spec, Belief, IntervalOf
=============================================================================
