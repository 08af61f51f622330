--------------------------- MODULE FactResolution ---------------------------
(***************************************************************************)
(* Which of several believed facts about one subject and predicate is the   *)
(* answer (temporal/__init__.py, and current_fact, current and as_of of     *)
(* core/__init__.py).  What a fact says of the world is fixed when it is    *)
(* asserted, and no step of FactLifecycle looks at it: a world gives it for *)
(* each fact id, and the properties hold in every world of Worlds.          *)
(***************************************************************************)
EXTENDS FactLifecycle

CONSTANTS Moment,  \* instants of world-time asked about
          Worlds   \* what the facts may say

(* [from, to) is the valid-time interval, trust that of the fact's source   *)
(* (0 without one, or out of scope), ends whether the object is None, and   *)
(* id the place of its uuid in the order of strings.                        *)
Statement == [from : Nat, to : Nat, trust : Nat, ends : BOOLEAN, id : Nat]

ASSUME MomentAssumption == Moment \subseteq Nat
ASSUME WorldsAssumption ==
  /\ Worlds \subseteq [Fact -> Statement]
  /\ \A w \in Worlds : \A f, g \in Fact : w[f].id = w[g].id => f = g

ValidAt(w, f, v) == w[f].from <= v /\ v < w[f].to

(* _rank_key: trust, then confidence, then recency, then the id.            *)
RankKey(w, f) == <<w[f].trust, objects[f].confidence, objects[f].txFrom, w[f].id>>

Outranks(k, l) ==
  \E i \in 1 .. 4 : k[i] > l[i] /\ \A j \in 1 .. i - 1 : k[j] = l[j]

(* resolve_current: the fact that outranks the others, unless it says that  *)
(* the relation ended.                                                      *)
ResolveCurrent(w, believed, v) ==
  {f \in believed :
     /\ ValidAt(w, f, v) /\ ~w[f].ends
     /\ \A g \in believed \ {f} :
          ValidAt(w, g, v) => Outranks(RankKey(w, f), RankKey(w, g))}

(* current: "believed now" is an interval still open, whatever the clock.   *)
Current(w, v) == ResolveCurrent(w, {f \in Fact : Believed(objects, f)}, v)

(* Mutant: at_tx is not handed on to resolve_current.                       *)
AsOfOpen(w, v, T) == ResolveCurrent(w, {f \in Fact : Believed(objects, f)}, v)

(* as_of(at_valid = v, at_tx = T).                                          *)
AsOf(w, v, T) == ResolveCurrent(w, BelievedAt(objects, T), v)
-----------------------------------------------------------------------------
(* What the system knew at a settled transaction time T about any moment is *)
(* the same answer ever after, whatever is asserted, corrected, retracted   *)
(* or rebuilt: nothing but corroboration of a fact believed at T, which     *)
(* raises its confidence in place, can turn it.                             *)
SettledAnswersStand ==
  [][MonotoneClock =>
       \A T \in Time :
         /\ Settled(T)
         /\ \A f \in BelievedAt(objects, T) :
              Known(objects', f) => objects'[f].confidence = objects[f].confidence
         => \A w \in Worlds, v \in Moment : AsOf(w, v, T)' = AsOf(w, v, T)]_vars

(* The two definitions of "believed now" give one answer: current, by open  *)
(* intervals, and as_of at the clock's instant, by instants, agree, also    *)
(* while calls that were stamped earlier commit late.                       *)
CurrentIsAsOfNow ==
  MonotoneClock =>
    \A w \in Worlds, v \in Moment : Current(w, v) = AsOf(w, v, clock)
=============================================================================
