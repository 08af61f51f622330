---------------------------- MODULE LexicalProofs ----------------------------
(***************************************************************************)
(* Proofs about LexicalIndex, for any objects and texts, any number of      *)
(* threads, events and restarts.  The argument is about the two index       *)
(* tables only: what one failed statement can leave of them, and that no    *)
(* later statement makes it look whole.                                     *)
(***************************************************************************)
EXTENDS LexicalIndex, FiniteSetTheorems, WellFoundedInduction, TLAPS

Place == {"idle", "reindex", "commit", "search", "query", "rebuild", "rebuilt",
          "rebuild_failed", "replay", "verify", "verify_rebuilt", "verified",
          "verified_rebuilt"}

Inside == {"reindex", "commit", "replay"}

(* The rows U are those of the objects S, one each.                         *)
Holds(db, S, U) ==
  /\ \A o, p \in S : db.map[o] = db.map[p] => o = p
  /\ \A r : r \in U <=> \E o \in S : r = db.map[o]
  /\ \A o \in S : db.rows[db.map[o]].obj = o

(* The two tables agree; one map entry is left without its row (its row id  *)
(* may by now be that of another object); one row is left that no map       *)
(* entry names.                                                             *)
Sound(db) == Holds(db, Indexed(db), InUse(db))
Dangling(db) == \E o \in Indexed(db) : Holds(db, Indexed(db) \ {o}, InUse(db))
Orphan(db) == \E r \in InUse(db) : Holds(db, Indexed(db), InUse(db) \ {r})
AtMostOneDefect(db) == Sound(db) \/ Dangling(db) \/ Orphan(db)

(* The object is indexed as it should be.                                   *)
Fits(db, o) ==
  /\ o \in Searchable(db) <=> o \in Indexed(db)
  /\ o \in Indexed(db) => db.rows[db.map[o]].text = db.objects[o]

Right(db) == Sound(db) /\ \A o \in Obj : Fits(db, o)
Pending(o) == \E t \in Thread : pc[t] = "reindex" /\ arg[t] = o
Fine(db) == Sound(db) /\ \A o \in Obj : Pending(o) \/ Fits(db, o)

Room(db, n) == InUse(db) \subseteq 1 .. n

LexicalType ==
  /\ disk \in Tables /\ conn \in Tables
  /\ holder \in Thread \cup {NoThread}
  /\ health \in {"healthy", "degraded", "rebuilding"}
  /\ pc \in [Thread -> Place]
  /\ arg = [t \in Thread |-> arg[t]]
  /\ good \in [Thread -> BOOLEAN]
  /\ unaware \in BOOLEAN

LockInv ==
  /\ \A t \in Thread : pc[t] \in Inside <=> holder = t
  /\ holder = NoThread => conn = disk

RoomInv ==
  /\ Len(disk.ledger) <= MaxEvents /\ Len(conn.ledger) <= MaxEvents
  /\ Room(disk, Len(disk.ledger) + Cardinality(Obj))
  /\ Room(conn, Len(conn.ledger) + Cardinality(Obj))
  /\ \A t \in Thread :
       /\ pc[t] = "reindex" =>
            /\ arg[t] \in Obj /\ Len(conn.ledger) > 0
            /\ Room(conn, Len(conn.ledger) + Cardinality(Obj) - 1)
       /\ pc[t] = "replay" => arg[t] \in 0 .. Len(conn.ledger) /\ Room(conn, arg[t])

(* The flag says healthy, or a thread is about to say so.                   *)
Trust == health = "healthy" \/ \E t \in Thread : pc[t] = "verified_rebuilt" /\ good[t]
Trusted(db) == db.faults = 0 \/ (db.faults <= 1 /\ ~unaware /\ Trust)

DefectInv ==
  /\ disk.faults <= 1 => AtMostOneDefect(disk)
  /\ conn.faults <= 1 => AtMostOneDefect(conn)

TrustInv ==
  /\ Trusted(disk) => Right(disk)
  /\ Trusted(conn) => Fine(conn)
  /\ ~unaware => \A t \in Thread : pc[t] = "rebuilt" => disk.faults = 0 /\ conn.faults = 0

LexicalInv == LexicalType /\ LockInv /\ RoomInv /\ DefectInv /\ TrustInv
-----------------------------------------------------------------------------
(* The row ids: the one SQLite picks is free and at most one further.       *)
Below == {ss \in Nat \X Nat : ss[1] < ss[2]}

LEMMA BelowIsWellFounded == IsWellFoundedOn(Below, Nat)
  BY NatLessThanWellFounded DEF OpToRel, Below

LEMMA LeastElement ==
  ASSUME NEW S \in SUBSET Nat, S # {}
  PROVE  \E m \in S : \A k \in S : m <= k
<1>1. PICK m \in S : \A k \in S : ~(<<k, m>> \in Below)
  BY BelowIsWellFounded, WFMin, Zenon
<1>2. ASSUME NEW k \in S PROVE m <= k
  <2>1. <<k, m>> \in Nat \X Nat /\ ~(k < m)
    BY <1>1 DEF Below
  <2>2. QED
    BY <2>1
<1>3. QED
  BY <1>2

LEMMA MaxOfBounded ==
  ASSUME NEW S, NEW n \in Nat, S \subseteq 1 .. n, S # {}
  PROVE  Max(S) \in S /\ \A k \in S : Max(S) >= k
<1> DEFINE Bounds == {m \in Nat : \A k \in S : k <= m}
<1>1. n \in Bounds
  OBVIOUS
<1>2. PICK m \in Bounds : \A k \in Bounds : m <= k
  <2>1. Bounds \in SUBSET Nat /\ Bounds # {}
    BY <1>1
  <2> HIDE DEF Bounds
  <2>2. QED
    BY <2>1, LeastElement
<1>3. m \in S
  <2> SUFFICES ASSUME m \notin S PROVE FALSE
    OBVIOUS
  <2>1. PICK x \in S : TRUE
    OBVIOUS
  <2>2. x \in Nat /\ x > 0 /\ x <= m /\ m \in Nat
    BY <1>2
  <2>3. \A k \in S : k <= m - 1
    BY <1>2, <2>2
  <2>4. m - 1 \in Bounds
    BY <2>2, <2>3
  <2>5. QED
    BY <1>2, <2>2, <2>4
<1>4. \A k \in S : m >= k
  BY <1>2
<1>5. QED
  BY <1>3, <1>4 DEF Max

LEMMA NextRidIsFree ==
  ASSUME NEW db, NEW n \in Nat, Room(db, n)
  PROVE  NextRid(db) \in 1 .. n + 1 /\ NextRid(db) \notin InUse(db)
<1>1. CASE InUse(db) = {}
  BY <1>1 DEF NextRid
<1>2. CASE InUse(db) # {}
  <2> DEFINE U == InUse(db)
  <2>1. U \subseteq 1 .. n /\ U # {}
    BY <1>2 DEF Room
  <2> HIDE DEF U
  <2>2. PICK m \in U : m = Max(U) /\ \A k \in U : m >= k
    BY <2>1, MaxOfBounded
  <2>3. m \in 1 .. n
    BY <2>1
  <2>4. m + 1 \in 1 .. n + 1 /\ m + 1 \notin U
    BY <2>2, <2>3
  <2>5. NextRid(db) = m + 1
    BY <1>2, <2>2 DEF NextRid, U
  <2>6. QED
    BY <2>4, <2>5 DEF U
<1>3. QED
  BY <1>1, <1>2

LEMMA RidBounds == Cardinality(Obj) \in Nat /\ MaxEvents \in Nat /\ 0 \notin Rid
  BY ObjAssumption, BoundsAssumption, FS_CardinalityType DEF Rid
-----------------------------------------------------------------------------
(* What the statements of reindex do to the two tables.                     *)
LEMMA TableFields ==
  ASSUME NEW db \in Tables
  PROVE  /\ db.objects \in [Obj -> Text \cup {NoText, Absent}]
         /\ db.rows \in [Rid -> Row \cup {NoRow}]
         /\ db.map \in [Obj -> Rid \cup {0}]
         /\ db.faults \in Nat
         /\ db.ledger \in Seq([obj : Obj, text : Text \cup {NoText}])
         /\ Len(db.ledger) \in Nat
  BY DEF Tables

LEMMA WithoutRowFields ==
  ASSUME NEW db \in Tables, NEW o \in Obj
  PROVE  LET new == WithoutRow(db, o)
         IN  /\ new \in Tables
             /\ new.objects = db.objects /\ new.ledger = db.ledger
             /\ new.faults = db.faults /\ new.map = db.map
             /\ \A r : r \in InUse(new) <=>
                         r \in InUse(db) /\ (o \in Indexed(db) => r # db.map[o])
             /\ \A r \in InUse(new) : new.rows[r] = db.rows[r]
<1>1. CASE db.map[o] = 0
  BY <1>1 DEF WithoutRow, Indexed
<1>2. CASE db.map[o] # 0
  <2> DEFINE rows == [db.rows EXCEPT ![db.map[o]] = NoRow]
             new == [db EXCEPT !.rows = rows]
  <2>1. rows \in [Rid -> Row \cup {NoRow}]
        /\ \A r \in Rid : rows[r] = IF r = db.map[o] THEN NoRow ELSE db.rows[r]
    BY <1>2, TableFields
  <2> HIDE DEF rows
  <2>2. /\ new \in Tables /\ new.rows = rows /\ new.objects = db.objects
        /\ new.ledger = db.ledger /\ new.faults = db.faults /\ new.map = db.map
    BY <2>1 DEF Tables
  <2>3. WithoutRow(db, o) = new
    BY <1>2 DEF WithoutRow, rows
  <2> HIDE DEF new
  <2>4. QED
    BY <1>2, <2>1, <2>2, <2>3 DEF Indexed, InUse
<1>3. QED
  BY <1>1, <1>2

LEMMA RemovedFields ==
  ASSUME NEW db \in Tables, NEW o \in Obj
  PROVE  LET new == Removed(db, o)
         IN  /\ new \in Tables
             /\ new.objects = db.objects /\ new.ledger = db.ledger
             /\ new.faults = db.faults
             /\ \A p \in Obj : new.map[p] = IF p = o THEN 0 ELSE db.map[p]
             /\ Indexed(new) = Indexed(db) \ {o}
             /\ \A r : r \in InUse(new) <=>
                         r \in InUse(db) /\ (o \in Indexed(db) => r # db.map[o])
             /\ \A r \in InUse(new) : new.rows[r] = db.rows[r]
<1> DEFINE mid == WithoutRow(db, o)
           map == [mid.map EXCEPT ![o] = 0]
           new == [mid EXCEPT !.map = map]
<1>1. mid \in Tables /\ mid.map = db.map
  BY WithoutRowFields
<1>2. map \in [Obj -> Rid \cup {0}] /\ \A p \in Obj : map[p] = IF p = o THEN 0 ELSE db.map[p]
  BY <1>1, TableFields
<1> HIDE DEF map, mid
<1>3. /\ new \in Tables /\ new.map = map /\ new.rows = mid.rows /\ new.objects = mid.objects
      /\ new.ledger = mid.ledger /\ new.faults = mid.faults
  BY <1>1, <1>2 DEF Tables
<1>4. Removed(db, o) = new
  BY DEF Removed, Unmapped, map, mid
<1> HIDE DEF new
<1>5. Indexed(new) = Indexed(db) \ {o}
  BY <1>2, <1>3 DEF Indexed
<1>6. InUse(new) = InUse(mid)
  BY <1>3 DEF InUse
<1>7. QED
  BY <1>2, <1>3, <1>4, <1>5, <1>6, WithoutRowFields DEF mid

LEMMA WithRowFields ==
  ASSUME NEW db \in Tables, NEW o \in Searchable(db), NextRid(db) \in Rid
  PROVE  LET new == WithRow(db, o)
         IN  /\ new \in Tables
             /\ new.objects = db.objects /\ new.ledger = db.ledger
             /\ new.faults = db.faults /\ new.map = db.map
             /\ InUse(new) = InUse(db) \cup {NextRid(db)}
             /\ new.rows[NextRid(db)] = [obj |-> o, text |-> db.objects[o]]
             /\ \A r \in Rid : r # NextRid(db) => new.rows[r] = db.rows[r]
<1> DEFINE row == [obj |-> o, text |-> db.objects[o]]
           rows == [db.rows EXCEPT ![NextRid(db)] = row]
           new == [db EXCEPT !.rows = rows]
<1>1. row \in Row /\ row # NoRow
  BY NoRowAssumption DEF Row, Searchable
<1> HIDE DEF row
<1>2. rows \in [Rid -> Row \cup {NoRow}] /\ rows[NextRid(db)] = row
      /\ \A r \in Rid : r # NextRid(db) => rows[r] = db.rows[r]
  BY <1>1, TableFields
<1> HIDE DEF rows
<1>3. /\ new \in Tables /\ new.map = db.map /\ new.rows = rows /\ new.objects = db.objects
      /\ new.ledger = db.ledger /\ new.faults = db.faults
  BY <1>2 DEF Tables
<1>4. WithRow(db, o) = new
  BY DEF WithRow, rows, row
<1> HIDE DEF new
<1>5. InUse(new) = InUse(db) \cup {NextRid(db)}
  BY <1>1, <1>2, <1>3 DEF InUse
<1>6. QED
  BY <1>2, <1>3, <1>4, <1>5 DEF row

LEMMA MappedFields ==
  ASSUME NEW db \in Tables, NEW o \in Obj, NEW r \in Rid
  PROVE  LET new == Mapped(db, o, r)
         IN  /\ new \in Tables
             /\ new.objects = db.objects /\ new.ledger = db.ledger
             /\ new.faults = db.faults /\ new.rows = db.rows
             /\ \A p \in Obj : new.map[p] = IF p = o THEN r ELSE db.map[p]
             /\ Indexed(new) = Indexed(db) \cup {o}
             /\ InUse(new) = InUse(db)
<1> DEFINE map == [db.map EXCEPT ![o] = r]
           new == [db EXCEPT !.map = map]
<1>1. map \in [Obj -> Rid \cup {0}] /\ \A p \in Obj : map[p] = IF p = o THEN r ELSE db.map[p]
  BY TableFields
<1> HIDE DEF map
<1>2. /\ new \in Tables /\ new.map = map /\ new.rows = db.rows /\ new.objects = db.objects
      /\ new.ledger = db.ledger /\ new.faults = db.faults
  BY <1>1 DEF Tables
<1>3. Mapped(db, o, r) = new
  BY DEF Mapped, map
<1> HIDE DEF new
<1>4. QED
  BY <1>1, <1>2, <1>3, RidBounds DEF Indexed, InUse
-----------------------------------------------------------------------------
(* One half of reindex takes out the row and the map entry of an object,    *)
(* the other puts in a fresh pair.  Neither adds a defect.                  *)
LEMMA HoldsShrinks ==
  ASSUME NEW db, NEW new, NEW S, NEW U, Holds(db, S, U), NEW W, W \subseteq S, NEW V,
         \A r : r \in V <=> \E p \in W : r = db.map[p],
         \A p \in W : new.map[p] = db.map[p],
         \A r \in V : new.rows[r] = db.rows[r]
  PROVE  Holds(new, W, V)
  BY DEF Holds

LEMMA HoldsGrows ==
  ASSUME NEW db, NEW new, NEW S, NEW U, Holds(db, S, U), NEW o, o \notin S, NEW r, r \notin U,
         \A p \in S : new.map[p] = db.map[p], \A q \in U : new.rows[q] = db.rows[q],
         new.map[o] = r, new.rows[r].obj = o
  PROVE  Holds(new, S \cup {o}, U \cup {r})
  BY DEF Holds

LEMMA RemovedKeeps ==
  ASSUME NEW db \in Tables, NEW o \in Obj
  PROVE  /\ Sound(db) => Sound(Removed(db, o))
         /\ AtMostOneDefect(db) => AtMostOneDefect(Removed(db, o))
<1> DEFINE new == Removed(db, o)
           I == Indexed(db)
<1>1. /\ \A p \in Obj : new.map[p] = IF p = o THEN 0 ELSE db.map[p]
      /\ Indexed(new) = I \ {o}
      /\ \A r : r \in InUse(new) <=> r \in InUse(db) /\ (o \in I => r # db.map[o])
      /\ \A r \in InUse(new) : new.rows[r] = db.rows[r]
      /\ I \subseteq Obj
  BY RemovedFields DEF Indexed
<1> HIDE DEF new, I
<1>2. ASSUME Sound(db) PROVE Sound(new)
  <2>1. Holds(db, I, InUse(db))
    BY <1>2 DEF Sound, I
  <2>2. \A r : r \in InUse(new) <=> \E p \in I \ {o} : r = db.map[p]
    BY <1>1, <2>1 DEF Holds
  <2>3. Holds(new, I \ {o}, InUse(new))
    BY <1>1, <2>1, <2>2, HoldsShrinks
  <2>4. QED
    BY <1>1, <2>3 DEF Sound
<1>3. ASSUME NEW p \in I, Holds(db, I \ {p}, InUse(db)) PROVE AtMostOneDefect(new)
  <2>1. CASE p # o
    <3>1. \A r : r \in InUse(new) <=> \E x \in (I \ {p}) \ {o} : r = db.map[x]
      BY <1>1, <1>3, <2>1 DEF Holds
    <3>2. Holds(new, (I \ {p}) \ {o}, InUse(new))
      BY <1>1, <1>3, <3>1, HoldsShrinks
    <3>3. (I \ {p}) \ {o} = Indexed(new) \ {p} /\ p \in Indexed(new)
      BY <1>1, <2>1
    <3>4. QED
      BY <3>2, <3>3 DEF AtMostOneDefect, Dangling
  <2>2. CASE p = o /\ \E x \in I \ {o} : db.map[x] = db.map[o]
    <3>1. PICK x \in I \ {o} : db.map[x] = db.map[o]
      BY <2>2
    <3>2. \A r : r \in InUse(new) <=> \E y \in (I \ {o}) \ {x} : r = db.map[y]
      BY <1>1, <1>3, <2>2, <3>1 DEF Holds
    <3>3. Holds(new, (I \ {o}) \ {x}, InUse(new))
      BY <1>1, <1>3, <2>2, <3>2, HoldsShrinks
    <3>4. QED
      BY <1>1, <3>1, <3>3 DEF AtMostOneDefect, Dangling
  <2>3. CASE p = o /\ ~\E x \in I \ {o} : db.map[x] = db.map[o]
    <3>1. \A r : r \in InUse(new) <=> \E y \in I \ {o} : r = db.map[y]
      BY <1>1, <1>3, <2>3 DEF Holds
    <3>2. Holds(new, I \ {o}, InUse(new))
      <4>1. Holds(db, I \ {o}, InUse(db))
        BY <1>3, <2>3
      <4>2. \A y \in I \ {o} : new.map[y] = db.map[y]
        BY <1>1
      <4>3. QED
        BY <1>1, <3>1, <4>1, <4>2, HoldsShrinks
    <3>3. QED
      BY <1>1, <3>2 DEF AtMostOneDefect, Sound
  <2>4. QED
    BY <2>1, <2>2, <2>3
<1>4. ASSUME NEW q \in InUse(db), Holds(db, I, InUse(db) \ {q}) PROVE AtMostOneDefect(new)
  <2>1. q \in InUse(new)
    BY <1>1, <1>4 DEF Holds
  <2>2. \A r : r \in InUse(new) \ {q} <=> \E y \in I \ {o} : r = db.map[y]
    BY <1>1, <1>4 DEF Holds
  <2>3. Holds(new, I \ {o}, InUse(new) \ {q})
    BY <1>1, <1>4, <2>2, HoldsShrinks
  <2>4. QED
    BY <1>1, <2>1, <2>3 DEF AtMostOneDefect, Orphan
<1>5. QED
  BY <1>2, <1>3, <1>4 DEF AtMostOneDefect, Dangling, Orphan, new, I

Added(db, o) == Mapped(WithRow(db, o), o, NextRid(db))

LEMMA AddedFields ==
  ASSUME NEW db \in Tables, NEW o \in Searchable(db), NextRid(db) \in Rid
  PROVE  LET new == Added(db, o)
             r == NextRid(db)
         IN  /\ new \in Tables
             /\ new.objects = db.objects /\ new.ledger = db.ledger
             /\ new.faults = db.faults
             /\ \A p \in Obj : new.map[p] = IF p = o THEN r ELSE db.map[p]
             /\ Indexed(new) = Indexed(db) \cup {o}
             /\ InUse(new) = InUse(db) \cup {r}
             /\ new.rows[r] = [obj |-> o, text |-> db.objects[o]]
             /\ \A q \in Rid : q # r => new.rows[q] = db.rows[q]
<1> DEFINE mid == WithRow(db, o)
           r == NextRid(db)
<1>1. /\ mid \in Tables /\ mid.objects = db.objects /\ mid.ledger = db.ledger
      /\ mid.faults = db.faults /\ mid.map = db.map /\ InUse(mid) = InUse(db) \cup {r}
      /\ mid.rows[r] = [obj |-> o, text |-> db.objects[o]]
      /\ \A q \in Rid : q # r => mid.rows[q] = db.rows[q]
  BY WithRowFields
<1>2. o \in Obj
  BY DEF Searchable
<1>3. Indexed(mid) = Indexed(db)
  BY <1>1 DEF Indexed
<1> HIDE DEF mid, r
<1>4. r \in Rid
  BY DEF r
<1>5. /\ Mapped(mid, o, r) \in Tables
      /\ Mapped(mid, o, r).objects = mid.objects /\ Mapped(mid, o, r).ledger = mid.ledger
      /\ Mapped(mid, o, r).faults = mid.faults /\ Mapped(mid, o, r).rows = mid.rows
      /\ \A p \in Obj : Mapped(mid, o, r).map[p] = IF p = o THEN r ELSE mid.map[p]
      /\ Indexed(Mapped(mid, o, r)) = Indexed(mid) \cup {o}
      /\ InUse(Mapped(mid, o, r)) = InUse(mid)
  BY <1>1, <1>2, <1>4, MappedFields
<1>6. Added(db, o) = Mapped(mid, o, r)
  BY DEF Added, mid, r
<1>7. QED
  BY <1>1, <1>3, <1>5, <1>6 DEF r

LEMMA AddedKeeps ==
  ASSUME NEW db \in Tables, NEW o \in Searchable(db), o \notin Indexed(db),
         NextRid(db) \in Rid \ InUse(db)
  PROVE  /\ Sound(db) => Sound(Added(db, o))
         /\ AtMostOneDefect(db) => AtMostOneDefect(Added(db, o))
<1> DEFINE new == Added(db, o)
           r == NextRid(db)
           I == Indexed(db)
<1>0. I \subseteq Obj /\ InUse(db) \subseteq Rid /\ o \in Obj
  BY DEF Indexed, InUse, Searchable
<1>1. /\ \A p \in I : new.map[p] = db.map[p]
      /\ new.map[o] = r /\ Indexed(new) = I \cup {o}
      /\ InUse(new) = InUse(db) \cup {r} /\ r \notin InUse(db)
      /\ new.rows[r].obj = o /\ o \notin I
      /\ \A q \in InUse(db) : new.rows[q] = db.rows[q]
  <2>1. NextRid(db) \in Rid
    OBVIOUS
  <2>2. /\ \A p \in Obj : new.map[p] = IF p = o THEN r ELSE db.map[p]
        /\ Indexed(new) = I \cup {o} /\ InUse(new) = InUse(db) \cup {r}
        /\ new.rows[r] = [obj |-> o, text |-> db.objects[o]]
        /\ \A q \in Rid : q # r => new.rows[q] = db.rows[q]
    BY <2>1, AddedFields
  <2>3. r \notin InUse(db) /\ o \notin I
    OBVIOUS
  <2> HIDE DEF new, r, I
  <2>4. QED
    BY <1>0, <2>2, <2>3
<1> HIDE DEF new, r, I
<1>2. ASSUME Sound(db) PROVE Sound(new)
  <2>1. Holds(db, I, InUse(db))
    BY <1>2 DEF Sound, I
  <2>2. Holds(new, I \cup {o}, InUse(db) \cup {r})
    BY <1>1, <2>1, HoldsGrows
  <2>3. QED
    BY <1>1, <2>2 DEF Sound
<1>3. ASSUME NEW p \in I, Holds(db, I \ {p}, InUse(db)) PROVE Dangling(new)
  <2>1. Holds(new, (I \ {p}) \cup {o}, InUse(db) \cup {r})
    BY <1>1, <1>3, HoldsGrows
  <2>2. (I \ {p}) \cup {o} = Indexed(new) \ {p} /\ p \in Indexed(new)
    BY <1>1
  <2>3. QED
    BY <1>1, <2>1, <2>2 DEF Dangling
<1>4. ASSUME NEW q \in InUse(db), Holds(db, I, InUse(db) \ {q}) PROVE Orphan(new)
  <2>1. Holds(new, I \cup {o}, (InUse(db) \ {q}) \cup {r})
    BY <1>1, <1>4, HoldsGrows
  <2>2. (InUse(db) \ {q}) \cup {r} = InUse(new) \ {q} /\ q \in InUse(new)
    BY <1>1
  <2>3. QED
    BY <1>1, <2>1, <2>2 DEF Orphan
<1>5. QED
  BY <1>2, <1>3, <1>4 DEF AtMostOneDefect, Dangling, Orphan, new, I
-----------------------------------------------------------------------------
(* reindex, and what a failing statement of it leaves.                      *)
SameObjects(db, new) ==
  new.objects = db.objects /\ new.ledger = db.ledger /\ Searchable(new) = Searchable(db)

LEMMA RemovedRoom ==
  ASSUME NEW db \in Tables, NEW o \in Obj, NEW n \in Nat, Room(db, n),
         n < MaxEvents + Cardinality(Obj)
  PROVE  LET bare == Removed(db, o)
         IN  /\ Room(bare, n) /\ SameObjects(db, bare)
             /\ NextRid(bare) \in 1 .. n + 1 /\ NextRid(bare) \in Rid \ InUse(bare)
<1>1. Room(Removed(db, o), n) /\ SameObjects(db, Removed(db, o))
  BY RemovedFields DEF Room, SameObjects, Searchable
<1>2. 1 .. n + 1 \subseteq Rid
  BY RidBounds DEF Rid
<1>3. QED
  BY <1>1, <1>2, NextRidIsFree

LEMMA FitsKept ==
  ASSUME NEW db \in Tables, NEW new, NEW p \in Obj, Sound(db), Fits(db, p), SameObjects(db, new),
         new.map[p] = db.map[p],
         p \in Indexed(db) => new.rows[db.map[p]] = db.rows[db.map[p]]
  PROVE  Fits(new, p)
  BY DEF Fits, SameObjects, Indexed

LEMMA ReindexedKeeps ==
  ASSUME NEW db \in Tables, NEW o \in Obj, NEW n \in Nat, Room(db, n),
         n < MaxEvents + Cardinality(Obj)
  PROVE  LET new == Reindexed(db, o)
         IN  /\ new \in Tables /\ new.faults = db.faults /\ SameObjects(db, new)
             /\ Room(new, n + 1)
             /\ AtMostOneDefect(db) => AtMostOneDefect(new)
             /\ Sound(db) => /\ Sound(new) /\ Fits(new, o)
                             /\ \A p \in Obj : p # o /\ Fits(db, p) => Fits(new, p)
<1> DEFINE bare == Removed(db, o)
<1>1. /\ bare \in Tables /\ bare.faults = db.faults /\ SameObjects(db, bare) /\ Room(bare, n)
      /\ NextRid(bare) \in 1 .. n + 1 /\ NextRid(bare) \in Rid \ InUse(bare)
      /\ \A p \in Obj : bare.map[p] = IF p = o THEN 0 ELSE db.map[p]
      /\ Indexed(bare) = Indexed(db) \ {o}
      /\ \A r : r \in InUse(bare) <=> r \in InUse(db) /\ (o \in Indexed(db) => r # db.map[o])
      /\ \A r \in InUse(bare) : bare.rows[r] = db.rows[r]
  BY RemovedFields, RemovedRoom
<1>2. /\ Sound(db) => Sound(bare)
      /\ AtMostOneDefect(db) => AtMostOneDefect(bare)
  BY RemovedKeeps
<1>3. ASSUME Sound(db), NEW p \in Obj, p # o, Fits(db, p) PROVE Fits(bare, p)
  <2>1. p \in Indexed(db) => db.map[p] \in InUse(bare)
    <3>1. ASSUME p \in Indexed(db) PROVE db.map[p] \in InUse(db)
      BY <1>3, <3>1 DEF Sound, Holds
    <3>2. o \in Indexed(db) /\ p \in Indexed(db) => db.map[p] # db.map[o]
      BY <1>3 DEF Sound, Holds
    <3>3. QED
      BY <1>1, <3>1, <3>2
  <2>2. bare.map[p] = db.map[p] /\ (p \in Indexed(db) => bare.rows[db.map[p]] = db.rows[db.map[p]])
    BY <1>1, <1>3, <2>1
  <2> HIDE DEF bare
  <2>3. QED
    BY <1>1, <1>3, <2>2, FitsKept
<1> HIDE DEF bare
<1>4. CASE o \in Searchable(db)
  <2> DEFINE new == Added(bare, o)
             r == NextRid(bare)
  <2>1. /\ o \in Searchable(bare) /\ o \notin Indexed(bare) /\ r \in Rid /\ r \notin InUse(bare)
        /\ r \in 1 .. n + 1
    BY <1>1, <1>4 DEF SameObjects
  <2>2. /\ new \in Tables /\ new.objects = bare.objects /\ new.ledger = bare.ledger
        /\ new.faults = bare.faults
        /\ \A p \in Obj : new.map[p] = IF p = o THEN r ELSE bare.map[p]
        /\ Indexed(new) = Indexed(bare) \cup {o}
        /\ InUse(new) = InUse(bare) \cup {r}
        /\ new.rows[r] = [obj |-> o, text |-> bare.objects[o]]
        /\ \A q \in Rid : q # r => new.rows[q] = bare.rows[q]
    BY <1>1, <2>1, AddedFields
  <2>3. /\ Sound(bare) => Sound(new)
        /\ AtMostOneDefect(bare) => AtMostOneDefect(new)
    BY <1>1, <2>1, AddedKeeps
  <2>4. Reindexed(db, o) = new
    BY <1>4 DEF Reindexed, Added, bare
  <2> HIDE DEF new, r
  <2>5. SameObjects(bare, new) /\ SameObjects(db, new)
    BY <1>1, <2>2 DEF SameObjects, Searchable
  <2>6. Room(new, n + 1)
    BY <1>1, <2>1, <2>2 DEF Room
  <2>7. Fits(new, o)
    BY <1>1, <2>1, <2>2, <2>5 DEF Fits, SameObjects
  <2>8. ASSUME Sound(db), NEW p \in Obj, p # o, Fits(db, p) PROVE Fits(new, p)
    <3>1. Fits(bare, p) /\ Sound(bare)
      BY <1>2, <1>3, <2>8
    <3>2. p \in Indexed(bare) => bare.map[p] \in InUse(bare)
      BY <3>1 DEF Sound, Holds
    <3>3. new.map[p] = bare.map[p]
      BY <2>2, <2>8
    <3>4. p \in Indexed(bare) => new.rows[bare.map[p]] = bare.rows[bare.map[p]]
      BY <3>2, <2>1, <2>2 DEF InUse
    <3>5. QED
      BY <1>1, <2>5, <3>1, <3>3, <3>4, FitsKept
  <2>9. QED
    BY <1>1, <1>2, <2>2, <2>3, <2>4, <2>5, <2>6, <2>7, <2>8
<1>5. CASE o \notin Searchable(db)
  <2>1. Reindexed(db, o) = bare
    BY <1>5 DEF Reindexed, bare
  <2>2. Fits(bare, o)
    BY <1>1, <1>5 DEF Fits, SameObjects
  <2>3. Room(bare, n + 1)
    BY <1>1 DEF Room
  <2>4. QED
    BY <1>1, <1>2, <1>3, <2>1, <2>2, <2>3
<1>6. QED
  BY <1>4, <1>5

LEMMA BrokenFields ==
  ASSUME NEW db \in Tables
  PROVE  LET broken == [db EXCEPT !.faults = @ + 1]
         IN  /\ broken \in Tables /\ SameObjects(db, broken)
             /\ broken.rows = db.rows /\ broken.map = db.map
             /\ broken.faults = db.faults + 1
             /\ Indexed(broken) = Indexed(db) /\ InUse(broken) = InUse(db)
             /\ Sound(db) => Sound(broken)
<1> DEFINE broken == [db EXCEPT !.faults = @ + 1]
<1>1. /\ broken \in Tables /\ broken.objects = db.objects /\ broken.ledger = db.ledger
      /\ broken.rows = db.rows /\ broken.map = db.map /\ broken.faults = db.faults + 1
  BY DEF Tables
<1> HIDE DEF broken
<1>2. Indexed(broken) = Indexed(db) /\ InUse(broken) = InUse(db)
  BY <1>1 DEF Indexed, InUse
<1>3. Sound(db) => Sound(broken)
  BY <1>1, <1>2 DEF Sound, Holds
<1>4. QED
  BY <1>1, <1>2, <1>3 DEF SameObjects, Searchable, broken

LEMMA InterruptedKeeps ==
  ASSUME NEW db \in Tables, NEW o \in Obj, NEW n \in Nat, Room(db, n),
         n < MaxEvents + Cardinality(Obj), NEW new \in Interrupted(db, o)
  PROVE  /\ new \in Tables /\ new.faults = db.faults + 1 /\ SameObjects(db, new)
         /\ Room(new, n + 1)
         /\ Sound(db) => AtMostOneDefect(new)
<1> DEFINE broken == [db EXCEPT !.faults = @ + 1]
           bare == Removed(broken, o)
<1>1. /\ broken \in Tables /\ SameObjects(db, broken) /\ broken.faults = db.faults + 1
      /\ Indexed(broken) = Indexed(db) /\ InUse(broken) = InUse(db) /\ Room(broken, n)
      /\ Sound(db) => Sound(broken)
  BY BrokenFields DEF Room
<1>2. \/ new = broken
      \/ o \in Indexed(db) /\ new = WithoutRow(broken, o)
      \/ o \in Searchable(db) /\ (new = bare \/ new = WithRow(bare, o))
  BY DEF Interrupted
<1> HIDE DEF broken
<1>3. /\ bare \in Tables /\ SameObjects(db, bare) /\ bare.faults = db.faults + 1
      /\ Room(bare, n) /\ NextRid(bare) \in 1 .. n + 1 /\ NextRid(bare) \in Rid \ InUse(bare)
      /\ Sound(db) => Sound(bare)
  BY <1>1, RemovedFields, RemovedRoom, RemovedKeeps DEF SameObjects
<1>4. CASE new = broken
  BY <1>1, <1>4 DEF AtMostOneDefect, Room
<1>5. CASE o \in Indexed(db) /\ new = WithoutRow(broken, o)
  <2>1. /\ new \in Tables
        /\ new.objects = broken.objects /\ new.ledger = broken.ledger
        /\ new.faults = broken.faults /\ new.map = broken.map
        /\ \A r : r \in InUse(new) <=> r \in InUse(broken) /\ r # broken.map[o]
        /\ \A r \in InUse(new) : new.rows[r] = broken.rows[r]
    BY <1>1, <1>5, WithoutRowFields
  <2>2. Indexed(new) = Indexed(broken)
    BY <2>1 DEF Indexed
  <2>3. ASSUME Sound(db) PROVE Dangling(new)
    <3> DEFINE I == Indexed(broken)
    <3>1. Holds(broken, I, InUse(broken)) /\ o \in I
      BY <1>1, <1>5, <2>3 DEF Sound
    <3> HIDE DEF I
    <3>2. \A r : r \in InUse(new) <=> \E p \in I \ {o} : r = broken.map[p]
      BY <2>1, <3>1 DEF Holds
    <3>3. Holds(new, I \ {o}, InUse(new))
      BY <2>1, <3>1, <3>2, HoldsShrinks
    <3>4. QED
      BY <2>2, <3>1, <3>3 DEF Dangling, I
  <2>4. Room(new, n + 1)
    BY <1>1, <2>1 DEF Room
  <2>5. QED
    BY <1>1, <2>1, <2>3, <2>4 DEF SameObjects, Searchable, AtMostOneDefect
<1>6. CASE o \in Searchable(db) /\ new = bare
  BY <1>3, <1>6 DEF AtMostOneDefect, Room
<1>7. CASE o \in Searchable(db) /\ new = WithRow(bare, o)
  <2> DEFINE r == NextRid(bare)
             I == Indexed(bare)
  <2>1. o \in Searchable(bare)
    BY <1>3, <1>7 DEF SameObjects
  <2> HIDE DEF bare
  <2>2. /\ new \in Tables
        /\ new.objects = bare.objects /\ new.ledger = bare.ledger
        /\ new.faults = bare.faults /\ new.map = bare.map
        /\ InUse(new) = InUse(bare) \cup {r}
        /\ \A q \in Rid : q # r => new.rows[q] = bare.rows[q]
    BY <1>3, <1>7, <2>1, WithRowFields
  <2>3. r \in Rid /\ r \notin InUse(bare) /\ r \in 1 .. n + 1
    BY <1>3
  <2>4. Indexed(new) = I
    BY <2>2 DEF Indexed
  <2> HIDE DEF r, I
  <2>5. ASSUME Sound(db) PROVE Orphan(new)
    <3>1. Holds(bare, I, InUse(bare))
      BY <1>3, <2>5 DEF Sound, I
    <3>2. InUse(new) \ {r} = InUse(bare) /\ r \in InUse(new)
      BY <2>2, <2>3
    <3>3. \A q \in InUse(bare) : new.rows[q] = bare.rows[q]
      BY <2>2, <2>3 DEF InUse
    <3>4. Holds(new, I, InUse(bare))
      BY <2>2, <3>1, <3>3 DEF Holds
    <3>5. QED
      BY <2>4, <3>2, <3>4 DEF Orphan
  <2>6. Room(new, n + 1)
    BY <1>3, <2>2, <2>3 DEF Room
  <2>7. QED
    BY <1>3, <2>2, <2>5, <2>6 DEF SameObjects, Searchable, AtMostOneDefect
<1>8. QED
  BY <1>2, <1>4, <1>5, <1>6, <1>7
-----------------------------------------------------------------------------
(* Storing an object, clearing the index, building it anew.                 *)
SameIndex(db, new) ==
  /\ new.rows = db.rows /\ new.map = db.map /\ new.faults = db.faults
  /\ Indexed(new) = Indexed(db) /\ InUse(new) = InUse(db)
  /\ Sound(db) => Sound(new)
  /\ AtMostOneDefect(db) => AtMostOneDefect(new)
  /\ \A p \in Obj : Fits(db, p) /\ new.objects[p] = db.objects[p] => Fits(new, p)

LEMMA IndexUntouched ==
  ASSUME NEW db, NEW new, new.rows = db.rows, new.map = db.map, new.faults = db.faults
  PROVE  SameIndex(db, new)
<1>1. Indexed(new) = Indexed(db) /\ InUse(new) = InUse(db)
  BY DEF Indexed, InUse
<1>2. \A S, U : Holds(db, S, U) => Holds(new, S, U)
  BY DEF Holds
<1>3. Sound(db) => Sound(new)
  BY <1>1, <1>2 DEF Sound
<1>4. Dangling(db) => Dangling(new)
  BY <1>1, <1>2 DEF Dangling
<1>5. Orphan(db) => Orphan(new)
  BY <1>1, <1>2 DEF Orphan
<1>6. \A p \in Obj : Fits(db, p) /\ new.objects[p] = db.objects[p] => Fits(new, p)
  BY <1>1 DEF Fits, Searchable
<1>7. QED
  BY <1>1, <1>3, <1>4, <1>5, <1>6 DEF SameIndex, AtMostOneDefect

LEMMA PutFields ==
  ASSUME NEW db \in Tables, NEW o \in Obj, NEW x \in Text \cup {NoText}
  PROVE  /\ Put(db, o, x) \in Tables /\ SameIndex(db, Put(db, o, x))
         /\ Put(db, o, x).ledger = db.ledger
         /\ \A p \in Obj : p # o => Put(db, o, x).objects[p] = db.objects[p]
<1> DEFINE objects == [db.objects EXCEPT ![o] = x]
           new == [db EXCEPT !.objects = objects]
<1>1. objects \in [Obj -> Text \cup {NoText, Absent}]
      /\ \A p \in Obj : p # o => objects[p] = db.objects[p]
  BY TableFields
<1> HIDE DEF objects
<1>2. /\ new \in Tables /\ new.objects = objects /\ new.ledger = db.ledger
      /\ new.rows = db.rows /\ new.map = db.map /\ new.faults = db.faults
  BY <1>1 DEF Tables
<1>3. Put(db, o, x) = new
  BY DEF Put, objects
<1> HIDE DEF new
<1>4. QED
  BY <1>1, <1>2, <1>3, IndexUntouched

LEMMA ClearedFields ==
  ASSUME NEW db \in Tables
  PROVE  LET new == Cleared(db)
         IN  /\ new \in Tables /\ new.objects = db.objects /\ new.ledger = db.ledger
             /\ new.faults = 0 /\ Indexed(new) = {} /\ InUse(new) = {}
             /\ new.rows = [r \in Rid |-> NoRow] /\ new.map = [o \in Obj |-> 0]
<1> DEFINE new == Cleared(db)
           rows == [r \in Rid |-> NoRow]
           map == [o \in Obj |-> 0]
<1>1. rows \in [Rid -> Row \cup {NoRow}] /\ map \in [Obj -> Rid \cup {0}]
  OBVIOUS
<1> HIDE DEF rows, map
<1>2. /\ new \in Tables /\ new.objects = db.objects /\ new.ledger = db.ledger
      /\ new.faults = 0 /\ new.rows = rows /\ new.map = map
  BY <1>1 DEF Cleared, Tables, rows, map
<1> HIDE DEF new
<1>3. Indexed(new) = {} /\ InUse(new) = {}
  BY <1>2 DEF Indexed, InUse, rows, map
<1>4. QED
  BY <1>2, <1>3 DEF new, rows, map

LEMMA EmptyIsRight ==
  ASSUME NEW db, Indexed(db) = {}, InUse(db) = {}, Searchable(db) = {}
  PROVE  Right(db)
  BY DEF Right, Sound, Holds, Fits

LEMMA RebuiltIsRight ==
  ASSUME NEW db \in Tables, NEW new \in Rebuilt(db)
  PROVE  /\ new \in Tables /\ new.objects = db.objects /\ new.ledger = db.ledger
         /\ new.faults = 0 /\ Right(new) /\ Room(new, Cardinality(Obj))
<1> DEFINE found == Searchable(db)
           n == Cardinality(found)
<1>1. found \subseteq Obj
  BY DEF Searchable
<1>2. n \in Nat /\ n <= Cardinality(Obj)
  BY <1>1, ObjAssumption, FS_Subset, FS_CardinalityType
<1>3. PICK order \in Bijection(1 .. n, found) :
        new = [Cleared(db) EXCEPT
                 !.rows = [r \in Rid |-> IF r \in 1 .. n
                                          THEN [obj |-> order[r], text |-> db.objects[order[r]]]
                                          ELSE NoRow],
                 !.map = [o \in Obj |-> IF o \in found THEN CHOOSE r \in 1 .. n : order[r] = o
                                                        ELSE 0]]
  BY DEF Rebuilt
<1> HIDE DEF n
<1> DEFINE rows == [r \in Rid |-> IF r \in 1 .. n
                                  THEN [obj |-> order[r], text |-> db.objects[order[r]]]
                                  ELSE NoRow]
           map == [o \in Obj |-> IF o \in found THEN CHOOSE r \in 1 .. n : order[r] = o ELSE 0]
<1>4. /\ \A r \in 1 .. n : order[r] \in found
      /\ \A o \in found : \E r \in 1 .. n : order[r] = o
      /\ \A q, r \in 1 .. n : order[q] = order[r] => q = r
  BY DEF Bijection, Injection, Surjection, IsInjective
<1> HIDE DEF found
<1>5. \A o \in found : map[o] \in 1 .. n /\ order[map[o]] = o
  BY <1>1, <1>4
<1>6. \A o \in Obj \ found : map[o] = 0
  OBVIOUS
<1>7. 1 .. n \subseteq Rid
  BY <1>2, RidBounds DEF Rid
<1>8. \A r \in 1 .. n : /\ order[r] \in Obj /\ db.objects[order[r]] \in Text
                        /\ rows[r] = [obj |-> order[r], text |-> db.objects[order[r]]]
                        /\ rows[r] \in Row /\ rows[r] # NoRow
  <2>1. \A o \in found : o \in Obj /\ db.objects[o] \in Text
    BY DEF found, Searchable
  <2>2. QED
    BY <1>4, <1>7, <2>1, NoRowAssumption DEF Row
<1>9. \A r \in Rid \ (1 .. n) : rows[r] = NoRow
  OBVIOUS
<1>10. rows \in [Rid -> Row \cup {NoRow}] /\ map \in [Obj -> Rid \cup {0}]
  <2>1. \A r \in Rid : rows[r] \in Row \cup {NoRow}
    BY <1>8, <1>9
  <2>2. \A o \in Obj : map[o] \in Rid \cup {0}
    BY <1>5, <1>6, <1>7
  <2>3. rows = [r \in Rid |-> rows[r]] /\ map = [o \in Obj |-> map[o]]
    OBVIOUS
  <2> HIDE DEF rows, map
  <2>4. QED
    BY <2>1, <2>2, <2>3
<1> DEFINE bare == Cleared(db)
<1>11. new = [bare EXCEPT !.rows = rows, !.map = map]
  BY <1>3
<1> HIDE DEF rows, map
<1>12. /\ bare \in Tables /\ bare.objects = db.objects /\ bare.ledger = db.ledger
       /\ bare.faults = 0
  BY ClearedFields
<1> HIDE DEF bare
<1>13. /\ new \in Tables /\ new.objects = db.objects /\ new.ledger = db.ledger
       /\ new.faults = 0 /\ new.rows = rows /\ new.map = map
  BY <1>10, <1>11, <1>12 DEF Tables
<1>14. Searchable(new) = found
  BY <1>13 DEF Searchable, found
<1>15. Indexed(new) = found
  <2>1. \A o \in found : map[o] # 0
    BY <1>5
  <2>2. QED
    BY <1>1, <1>6, <1>13, <2>1 DEF Indexed
<1>16. InUse(new) = 1 .. n
  BY <1>7, <1>8, <1>9, <1>13 DEF InUse
<1>17. \A o \in found : rows[map[o]].obj = o /\ rows[map[o]].text = db.objects[o]
  <2> SUFFICES ASSUME NEW o \in found
               PROVE  rows[map[o]].obj = o /\ rows[map[o]].text = db.objects[o]
    OBVIOUS
  <2>1. map[o] \in 1 .. n /\ order[map[o]] = o
    BY <1>5
  <2>2. rows[map[o]] = [obj |-> order[map[o]], text |-> db.objects[order[map[o]]]]
    BY <1>8, <2>1
  <2>3. rows[map[o]] = [obj |-> o, text |-> db.objects[o]]
    BY <2>1, <2>2
  <2>4. QED
    BY <2>3
<1>18. Sound(new)
  <2>1. \A o, p \in found : map[o] = map[p] => o = p
    BY <1>5
  <2>2. \A r : r \in 1 .. n <=> \E o \in found : r = map[o]
    <3>1. \A r \in 1 .. n : map[order[r]] = r /\ order[r] \in found
      BY <1>4, <1>5
    <3>2. QED
      BY <1>5, <3>1
  <2>3. QED
    BY <1>13, <1>15, <1>16, <1>17, <2>1, <2>2 DEF Sound, Holds
<1>19. \A o \in Obj : Fits(new, o)
  BY <1>13, <1>14, <1>15, <1>17 DEF Fits
<1>20. Room(new, Cardinality(Obj))
  BY <1>2, <1>16, RidBounds DEF Room
<1>21. QED
  BY <1>13, <1>18, <1>19, <1>20 DEF Right
-----------------------------------------------------------------------------
(* What verify reads is enough: with one defect the counts disagree.        *)
LEMMA HoldsCount ==
  ASSUME NEW db, NEW S, S \subseteq Obj, NEW U, Holds(db, S, U)
  PROVE  IsFiniteSet(S) /\ IsFiniteSet(U) /\ Cardinality(U) = Cardinality(S)
         /\ Cardinality(S) \in Nat
<1> DEFINE f == [o \in S |-> db.map[o]]
<1>1. IsFiniteSet(S)
  BY ObjAssumption, FS_Subset
<1>2. f \in Bijection(S, U)
  BY DEF Holds, Bijection, Injection, Surjection, IsInjective
<1>3. ExistsBijection(S, U)
  BY <1>2 DEF ExistsBijection
<1>4. QED
  BY <1>1, <1>3, FS_Bijection, FS_CardinalityType

LEMMA ConsistentIsRight ==
  ASSUME NEW db \in Tables, AtMostOneDefect(db), Consistent(db)
  PROVE  Right(db)
<1> DEFINE I == Indexed(db)
           U == InUse(db)
<1>1. I \subseteq Obj /\ I = Searchable(db) /\ Cardinality(I) = Cardinality(U)
  BY DEF Consistent, Indexed
<1>2. ~Dangling(db)
  <2> SUFFICES ASSUME NEW o \in I, Holds(db, I \ {o}, U) PROVE FALSE
    BY DEF Dangling
  <2> HIDE DEF I, U
  <2>1. Cardinality(U) = Cardinality(I \ {o})
    BY <1>1, HoldsCount
  <2>2. IsFiniteSet(I) /\ Cardinality(I) \in Nat
    BY <1>1, ObjAssumption, FS_Subset, FS_CardinalityType
  <2>3. Cardinality(I \ {o}) = Cardinality(I) - 1
    BY <2>2, FS_RemoveElement
  <2>4. QED
    BY <1>1, <2>1, <2>2, <2>3
<1>3. ~Orphan(db)
  <2> SUFFICES ASSUME NEW r \in U, Holds(db, I, U \ {r}) PROVE FALSE
    BY DEF Orphan
  <2> HIDE DEF I, U
  <2>1. /\ Cardinality(U \ {r}) = Cardinality(I) /\ Cardinality(I) \in Nat
        /\ IsFiniteSet(U \ {r})
    BY <1>1, HoldsCount
  <2>2. Cardinality((U \ {r}) \cup {r}) = Cardinality(U \ {r}) + 1
    BY <2>1, FS_AddElement
  <2>3. (U \ {r}) \cup {r} = U
    OBVIOUS
  <2>4. Cardinality(U) = Cardinality(I) + 1
    BY <2>1, <2>2, <2>3, Zenon
  <2>5. QED
    BY <1>1, <2>1, <2>4
<1>4. Sound(db)
  BY <1>2, <1>3 DEF AtMostOneDefect
<1>5. \A o \in I : db.rows[db.map[o]].text = db.objects[o]
  <2>1. \A o \in I : db.map[o] \in InUse(db)
    BY <1>4 DEF Sound, Holds
  <2>2. QED
    BY <2>1 DEF Consistent, Content
<1>6. QED
  BY <1>1, <1>4, <1>5 DEF Right, Fits

LEMMA RightIsExact ==
  ASSUME NEW db \in Tables, Right(db)
  PROVE  Exact(db)
<1>1. Indexed(db) = Searchable(db) /\ Indexed(db) \subseteq Obj
  BY DEF Right, Fits, Indexed, Searchable
<1>2. Holds(db, Indexed(db), InUse(db))
  BY DEF Right, Sound
<1>3. Cardinality(InUse(db)) = Cardinality(Searchable(db))
  BY <1>1, <1>2, HoldsCount
<1>4. ASSUME NEW x \in Text PROVE Hits(db, x) = Live(db, x)
  <2>1. ASSUME NEW r \in InUse(db), db.rows[r].text = x PROVE db.rows[r].obj \in Live(db, x)
    <3>1. PICK o \in Indexed(db) : r = db.map[o]
      BY <1>2 DEF Holds
    <3>2. db.rows[r].obj = o /\ o \in Obj
      BY <1>1, <1>2, <3>1 DEF Holds
    <3>3. db.objects[o] = x
      BY <2>1, <3>1, <3>2 DEF Right, Fits
    <3>4. QED
      BY <3>2, <3>3 DEF Live
  <2>2. ASSUME NEW o \in Live(db, x) PROVE o \in Hits(db, x)
    <3>1. o \in Searchable(db) /\ o \in Obj /\ db.objects[o] = x
      BY DEF Live, Searchable
    <3>2. o \in Indexed(db)
      BY <1>1, <3>1
    <3>3. /\ db.map[o] \in InUse(db) /\ db.rows[db.map[o]].obj = o
          /\ db.rows[db.map[o]].text = x
      BY <1>2, <3>1, <3>2 DEF Holds, Right, Fits
    <3>4. QED
      BY <3>3 DEF Hits
  <2>3. QED
    BY <2>1, <2>2 DEF Hits
<1>5. QED
  BY <1>3, <1>4 DEF Exact
-----------------------------------------------------------------------------
LEMMA LexicalInitial == Init => LexicalInv
<1> SUFFICES ASSUME Init PROVE LexicalInv
  OBVIOUS
<1>1. Empty \in Tables /\ Empty.ledger = << >> /\ Empty.faults = 0
  BY DEF Empty, Tables
<1>2. Indexed(Empty) = {} /\ InUse(Empty) = {}
  BY DEF Empty, Indexed, InUse
<1>3. Searchable(Empty) = {}
  BY TextAssumption DEF Empty, Searchable
<1>4. Right(Empty)
  BY <1>2, <1>3, EmptyIsRight
<1>5. disk = Empty /\ conn = Empty
  BY DEF Init
<1> HIDE DEF Empty
<1>6. LexicalType
  BY <1>1, <1>5 DEF Init, LexicalType, Place
<1>7. LockInv
  BY <1>5, NoThreadAssumption DEF Init, LockInv, Inside
<1>8. RoomInv
  BY <1>1, <1>2, <1>5, BoundsAssumption, RidBounds DEF Init, RoomInv, Room
<1>9. DefectInv /\ TrustInv
  BY <1>1, <1>4, <1>5 DEF Init, DefectInv, TrustInv, AtMostOneDefect, Right, Fine
<1>10. QED
  BY <1>6, <1>7, <1>8, <1>9 DEF LexicalInv

(* Inside a transaction a thread is alone.                                  *)
LEMMA Alone ==
  ASSUME LexicalInv
  PROVE  /\ \A t, u \in Thread : pc[t] \in Inside /\ pc[u] \in Inside => t = u
         /\ \A t \in Thread : pc[t] \in Inside => holder = t
         /\ holder = NoThread => conn = disk /\ \A t \in Thread : pc[t] \notin Inside
  BY NoThreadAssumption DEF LexicalInv, LexicalType, LockInv

LEMMA NoNewTrust ==
  ASSUME LexicalInv, NEW t \in Thread, NEW place \in Place, place # "verified_rebuilt",
         pc' = [pc EXCEPT ![t] = place], good' = good, health' = "healthy" => health = "healthy"
  PROVE  Trust' => Trust
  BY DEF Trust, LexicalInv, LexicalType

LEMMA DiskStill ==
  ASSUME LexicalInv, disk' = disk, unaware' = unaware, Trust' => Trust
  PROVE  Trusted(disk)' => Right(disk)'
  BY DEF LexicalInv, TrustInv, Trusted

LEMMA ConnTrusted ==
  ASSUME LexicalInv, conn'.faults = conn.faults, unaware' = unaware, Trust' => Trust
  PROVE  Trusted(conn)' => Fine(conn)
  BY DEF LexicalInv, TrustInv, Trusted

LEMMA NoneRebuilt ==
  ASSUME LexicalInv, NEW t \in Thread, NEW place \in Place, place # "rebuilt",
         pc' = [pc EXCEPT ![t] = place], unaware' = unaware,
         disk' \in {disk, conn}, conn'.faults \in {conn.faults, disk.faults}
  PROVE  ~unaware' => \A u \in Thread : pc'[u] = "rebuilt" => disk'.faults = 0 /\ conn'.faults = 0
  BY DEF LexicalInv, LexicalType, TrustInv

LEMMA PutObjectStep ==
  ASSUME LexicalInv, NEW t \in Thread, PutObject(t)
  PROVE  LexicalInv'
<1>1. PICK o \in Obj, x \in Text \cup {NoText} :
        /\ conn' = [Put(conn, o, x) EXCEPT !.ledger = Append(@, [obj |-> o, text |-> x])]
        /\ arg' = [arg EXCEPT ![t] = o]
  BY DEF PutObject
<1>2. /\ pc[t] = "idle" /\ Len(conn.ledger) < MaxEvents
      /\ holder = NoThread /\ holder' = t
      /\ pc' = [pc EXCEPT ![t] = "reindex"]
      /\ UNCHANGED <<disk, health, good, unaware>>
  BY DEF PutObject, Acquire, LockIsFree, Goto
<1>3. conn = disk /\ \A u \in Thread : pc[u] \notin Inside
  BY <1>2, Alone
<1>4. conn \in Tables /\ disk \in Tables
  BY DEF LexicalInv, LexicalType
<1> DEFINE mid == Put(conn, o, x)
           log == Append(mid.ledger, [obj |-> o, text |-> x])
           n == Len(conn.ledger)
<1>5. /\ mid \in Tables /\ SameIndex(conn, mid) /\ mid.ledger = conn.ledger
      /\ \A p \in Obj : p # o => mid.objects[p] = conn.objects[p]
  BY <1>4, PutFields
<1>6. n \in Nat /\ log \in Seq([obj : Obj, text : Text \cup {NoText}]) /\ Len(log) = n + 1
  <2> DEFINE e == [obj |-> o, text |-> x]
             E == [obj : Obj, text : Text \cup {NoText}]
  <2>1. e \in E
    OBVIOUS
  <2>2. mid.ledger \in Seq(E) /\ n = Len(mid.ledger) /\ n \in Nat
    BY <1>4, <1>5, TableFields
  <2> HIDE DEF e, E, mid
  <2>3. Append(mid.ledger, e) \in Seq(E) /\ Len(Append(mid.ledger, e)) = n + 1
    BY <2>1, <2>2
  <2>4. QED
    BY <2>2, <2>3 DEF e, E
<1> HIDE DEF mid, log
<1>7. /\ conn' \in Tables /\ conn'.ledger = log /\ conn'.objects = mid.objects
      /\ conn'.rows = mid.rows /\ conn'.map = mid.map /\ conn'.faults = mid.faults
  BY <1>1, <1>5, <1>6 DEF Tables, mid, log
<1>8. /\ SameIndex(conn, conn') /\ Len(conn'.ledger) = n + 1
      /\ \A p \in Obj : p # o => conn'.objects[p] = conn.objects[p]
  <2>1. conn'.rows = conn.rows /\ conn'.map = conn.map /\ conn'.faults = conn.faults
    BY <1>5, <1>7 DEF SameIndex
  <2>2. SameIndex(conn, conn')
    BY <2>1, IndexUntouched
  <2>3. QED
    BY <1>5, <1>6, <1>7, <2>2
<1>9. LexicalType'
  BY <1>1, <1>2, <1>4, <1>7 DEF LexicalInv, LexicalType, Place
<1>10. LockInv'
  BY <1>2, <1>3, NoThreadAssumption DEF LexicalInv, LexicalType, LockInv, Inside
<1>11. RoomInv'
  <2>1. Room(conn, n + Cardinality(Obj)) /\ n + 1 <= MaxEvents
    BY <1>2, <1>6, BoundsAssumption DEF LexicalInv, RoomInv
  <2>2. Room(conn', n + 1 + Cardinality(Obj) - 1) /\ Room(conn', n + 1 + Cardinality(Obj))
    BY <1>6, <1>8, <2>1, RidBounds DEF Room, SameIndex
  <2>3. \A u \in Thread : /\ pc'[u] = "reindex" => u = t
                          /\ pc'[u] # "replay"
    BY <1>2, <1>3 DEF Inside, LexicalInv, LexicalType
  <2>4. arg'[t] = o
    BY <1>1 DEF LexicalInv, LexicalType
  <2>5. QED
    BY <1>2, <1>6, <1>8, <2>1, <2>2, <2>3, <2>4 DEF LexicalInv, RoomInv
<1>12. DefectInv'
  BY <1>2, <1>8 DEF LexicalInv, DefectInv, SameIndex
<1>13. TrustInv'
  <2>1. Trust' => Trust
    BY <1>2, NoNewTrust DEF Place
  <2>2. conn'.faults = conn.faults
    BY <1>8 DEF SameIndex
  <2>3. Trusted(disk)' => Right(disk)'
    BY <1>2, <2>1, DiskStill
  <2>4. ASSUME Trusted(conn)' PROVE Fine(conn)'
    <3>1. Fine(conn)
      BY <1>2, <2>1, <2>2, <2>4, ConnTrusted
    <3>2. Sound(conn) /\ \A p \in Obj : Fits(conn, p)
      BY <1>3, <3>1 DEF Fine, Pending, Inside
    <3>3. Sound(conn') /\ \A p \in Obj : p # o => Fits(conn', p)
      BY <1>8, <3>2 DEF SameIndex
    <3>4. Pending(o)'
      BY <1>1, <1>2 DEF Pending, LexicalInv, LexicalType
    <3>5. QED
      BY <3>3, <3>4 DEF Fine
  <2>5. ~unaware' => \A u \in Thread : pc'[u] = "rebuilt" => disk'.faults = 0 /\ conn'.faults = 0
    BY <1>2, <2>2, NoneRebuilt DEF Place
  <2>6. QED
    BY <2>3, <2>4, <2>5 DEF TrustInv
<1>14. QED
  BY <1>9, <1>10, <1>11, <1>12, <1>13 DEF LexicalInv

(* What a thread inside a transaction may assume of the tables it sees.     *)
LEMMA ReindexReady ==
  ASSUME LexicalInv, NEW t \in Thread, pc[t] = "reindex"
  PROVE  /\ conn \in Tables /\ disk \in Tables /\ arg[t] \in Obj
         /\ Len(conn.ledger) \in Nat /\ Len(conn.ledger) > 0 /\ Len(conn.ledger) <= MaxEvents
         /\ Len(conn.ledger) + Cardinality(Obj) - 1 \in Nat
         /\ Room(conn, Len(conn.ledger) + Cardinality(Obj) - 1)
         /\ Len(conn.ledger) + Cardinality(Obj) - 1 < MaxEvents + Cardinality(Obj)
<1>1. conn \in Tables /\ disk \in Tables
  BY DEF LexicalInv, LexicalType
<1>2. Len(conn.ledger) \in Nat
  BY <1>1, TableFields
<1>3. QED
  BY <1>1, <1>2, RidBounds DEF LexicalInv, RoomInv

LEMMA ReindexStep ==
  ASSUME LexicalInv, NEW t \in Thread, Reindex(t)
  PROVE  LexicalInv'
<1> DEFINE n == Len(conn.ledger)
<1>1. /\ pc[t] = "reindex" /\ conn' = Reindexed(conn, arg[t])
      /\ pc' = [pc EXCEPT ![t] = "commit"]
      /\ UNCHANGED <<disk, holder, health, arg, good, unaware>>
  BY DEF Reindex, Goto
<1>2. /\ conn \in Tables /\ disk \in Tables /\ arg[t] \in Obj
      /\ n \in Nat /\ n > 0 /\ n <= MaxEvents
      /\ n + Cardinality(Obj) - 1 \in Nat
      /\ Room(conn, n + Cardinality(Obj) - 1)
      /\ n + Cardinality(Obj) - 1 < MaxEvents + Cardinality(Obj)
  BY <1>1, ReindexReady
<1>3. PICK o \in Obj : o = arg[t]
  BY <1>2
<1>4. /\ conn' \in Tables /\ conn'.faults = conn.faults /\ SameObjects(conn, conn')
      /\ Room(conn', n + Cardinality(Obj) - 1 + 1)
      /\ AtMostOneDefect(conn) => AtMostOneDefect(conn')
      /\ Sound(conn) => /\ Sound(conn') /\ Fits(conn', o)
                        /\ \A p \in Obj : p # o /\ Fits(conn, p) => Fits(conn', p)
  <2> DEFINE k == n + Cardinality(Obj) - 1
  <2>1. k \in Nat /\ Room(conn, k) /\ k < MaxEvents + Cardinality(Obj)
    BY <1>2
  <2> HIDE DEF k, n
  <2>2. /\ Reindexed(conn, o) \in Tables /\ Reindexed(conn, o).faults = conn.faults
        /\ SameObjects(conn, Reindexed(conn, o)) /\ Room(Reindexed(conn, o), k + 1)
        /\ AtMostOneDefect(conn) => AtMostOneDefect(Reindexed(conn, o))
        /\ Sound(conn) =>
             /\ Sound(Reindexed(conn, o)) /\ Fits(Reindexed(conn, o), o)
             /\ \A p \in Obj : p # o /\ Fits(conn, p) => Fits(Reindexed(conn, o), p)
    BY <1>2, <2>1, ReindexedKeeps
  <2>3. QED
    BY <1>1, <1>3, <2>2 DEF k, n
<1>5. \A u \in Thread : pc[u] \in Inside => u = t
  BY <1>1, Alone DEF Inside
<1>6. LexicalType'
  BY <1>1, <1>4 DEF LexicalInv, LexicalType, Place
<1>7. LockInv'
  BY <1>1, <1>5, NoThreadAssumption DEF LexicalInv, LexicalType, LockInv, Inside
<1>8. RoomInv'
  <2>1. conn'.ledger = conn.ledger
    BY <1>4 DEF SameObjects
  <2>2. Room(conn', n + Cardinality(Obj))
    BY <1>2, <1>4, RidBounds DEF Room
  <2>3. \A u \in Thread : pc'[u] # "reindex" /\ pc'[u] # "replay"
    BY <1>1, <1>5 DEF Inside, LexicalInv, LexicalType
  <2>4. QED
    BY <1>1, <2>1, <2>2, <2>3 DEF LexicalInv, RoomInv
<1>9. DefectInv'
  BY <1>1, <1>4 DEF LexicalInv, DefectInv
<1>10. TrustInv'
  <2>1. Trust' => Trust
    BY <1>1, NoNewTrust DEF Place
  <2>2. Trusted(disk)' => Right(disk)'
    BY <1>1, <2>1, DiskStill
  <2>3. ASSUME Trusted(conn)' PROVE Fine(conn)'
    <3>1. Fine(conn)
      BY <1>1, <1>4, <2>1, <2>3, ConnTrusted
    <3>2. Sound(conn) /\ \A p \in Obj : p # o => Fits(conn, p)
      BY <1>3, <1>5, <3>1 DEF Fine, Pending, Inside
    <3>3. Sound(conn') /\ \A p \in Obj : Fits(conn', p)
      BY <1>4, <3>2
    <3>4. QED
      BY <3>3 DEF Fine
  <2>4. ~unaware' => \A u \in Thread : pc'[u] = "rebuilt" => disk'.faults = 0 /\ conn'.faults = 0
    BY <1>1, <1>4, NoneRebuilt DEF Place
  <2>5. QED
    BY <2>2, <2>3, <2>4 DEF TrustInv
<1>11. QED
  BY <1>6, <1>7, <1>8, <1>9, <1>10 DEF LexicalInv

(* After a failing statement nobody trusts the tables it failed on: the     *)
(* flag says so, or some thread is unaware.                                 *)
LEMMA FaultIsKnown ==
  ASSUME LexicalInv, NEW t \in Thread, StatementFails(t), pc[t] \in Inside,
         disk' = disk, conn'.faults = conn.faults + 1, good' = good,
         NEW place \in Inside, pc' = [pc EXCEPT ![t] = place]
  PROVE  /\ health' = "degraded" /\ unaware' \in BOOLEAN
         /\ TrustInv'
<1>1. health' = "degraded" /\ unaware' \in BOOLEAN
  BY DEF StatementFails
<1>2. unaware => unaware'
  BY Zenon DEF StatementFails
<1>3. (\E u \in Thread \ {t} : pc[u] \in {"rebuilt", "verified_rebuilt"}) => unaware'
  BY Zenon DEF StatementFails
<1>4. \A u \in Thread : u # t => pc'[u] = pc[u]
  BY DEF LexicalInv, LexicalType
<1>5. pc'[t] = place
  BY DEF LexicalInv, LexicalType
<1>6. ~unaware' => ~Trust' /\ \A u \in Thread : pc'[u] # "rebuilt"
  BY <1>1, <1>3, <1>4, <1>5 DEF Trust, Inside
<1>7. conn.faults \in Nat
  BY TableFields DEF LexicalInv, LexicalType
<1>8. ~Trusted(conn)'
  BY <1>6, <1>7 DEF Trusted
<1>9. Trusted(disk)' => disk.faults = 0
  BY <1>6 DEF Trusted
<1>10. disk.faults = 0 => Right(disk)
  BY DEF LexicalInv, TrustInv, Trusted
<1>11. QED
  BY <1>1, <1>6, <1>8, <1>9, <1>10 DEF TrustInv

LEMMA ReindexFailsStep ==
  ASSUME LexicalInv, NEW t \in Thread, ReindexFails(t)
  PROVE  LexicalInv'
<1> DEFINE n == Len(conn.ledger)
<1>1. /\ pc[t] = "reindex" /\ conn' \in Interrupted(conn, arg[t])
      /\ pc' = [pc EXCEPT ![t] = "commit"] /\ StatementFails(t)
      /\ UNCHANGED <<disk, holder, arg, good>>
  BY DEF ReindexFails, Goto
<1>2. /\ conn \in Tables /\ disk \in Tables /\ arg[t] \in Obj
      /\ n \in Nat /\ n > 0 /\ n <= MaxEvents
      /\ n + Cardinality(Obj) - 1 \in Nat
      /\ Room(conn, n + Cardinality(Obj) - 1)
      /\ n + Cardinality(Obj) - 1 < MaxEvents + Cardinality(Obj)
  BY <1>1, ReindexReady
<1>3. PICK o \in Obj : o = arg[t]
  BY <1>2
<1>4. /\ conn' \in Tables /\ conn'.faults = conn.faults + 1 /\ SameObjects(conn, conn')
      /\ Room(conn', n + Cardinality(Obj) - 1 + 1)
      /\ Sound(conn) => AtMostOneDefect(conn')
  <2> DEFINE k == n + Cardinality(Obj) - 1
  <2>1. k \in Nat /\ Room(conn, k) /\ k < MaxEvents + Cardinality(Obj)
    BY <1>2
  <2> HIDE DEF k, n
  <2>2. conn' \in Interrupted(conn, o)
    BY <1>1, <1>3
  <2>3. /\ conn' \in Tables /\ conn'.faults = conn.faults + 1 /\ SameObjects(conn, conn')
        /\ Room(conn', k + 1) /\ (Sound(conn) => AtMostOneDefect(conn'))
    BY <1>2, <2>1, <2>2, InterruptedKeeps
  <2>4. QED
    BY <2>3 DEF k, n
<1>5. \A u \in Thread : pc[u] \in Inside => u = t
  BY <1>1, Alone DEF Inside
<1>6. /\ health' = "degraded" /\ unaware' \in BOOLEAN /\ TrustInv'
  <2>1. "commit" \in Inside /\ pc[t] \in Inside
    BY <1>1 DEF Inside
  <2>2. QED
    BY <1>1, <1>4, <2>1, FaultIsKnown
<1>7. LexicalType'
  BY <1>1, <1>4, <1>6 DEF LexicalInv, LexicalType, Place
<1>8. LockInv'
  BY <1>1, <1>5, NoThreadAssumption DEF LexicalInv, LexicalType, LockInv, Inside
<1>9. RoomInv'
  <2>1. conn'.ledger = conn.ledger
    BY <1>4 DEF SameObjects
  <2>2. Room(conn', n + Cardinality(Obj))
    BY <1>2, <1>4, RidBounds DEF Room
  <2>3. \A u \in Thread : pc'[u] # "reindex" /\ pc'[u] # "replay"
    BY <1>1, <1>5 DEF Inside, LexicalInv, LexicalType
  <2>4. QED
    BY <1>1, <2>1, <2>2, <2>3 DEF LexicalInv, RoomInv
<1>10. DefectInv'
  <2>1. conn.faults \in Nat
    BY <1>2, TableFields
  <2>2. conn'.faults <= 1 => conn.faults = 0
    BY <1>4, <2>1
  <2>3. conn.faults = 0 => Sound(conn)
    BY DEF LexicalInv, TrustInv, Trusted, Fine
  <2>4. QED
    BY <1>1, <1>4, <2>2, <2>3 DEF LexicalInv, DefectInv
<1>11. QED
  BY <1>6, <1>7, <1>8, <1>9, <1>10 DEF LexicalInv

(* A commit, of a call or of a replay: nothing is pending any more.         *)
LEMMA CommitStep ==
  ASSUME LexicalInv, NEW t \in Thread, pc[t] \in {"commit", "replay"}, Commit(t),
         NEW place \in {"idle", "verify_rebuilt"}, pc' = [pc EXCEPT ![t] = place],
         arg' = [arg EXCEPT ![t] = 0], UNCHANGED <<health, good, unaware>>
  PROVE  LexicalInv'
<1>1. disk' = conn /\ conn' = conn /\ holder = t /\ holder' = NoThread
  BY DEF Commit
<1>2. \A u \in Thread : pc[u] \in Inside => u = t
  BY Alone DEF Inside
<1>3. /\ pc'[t] = place /\ \A u \in Thread : u # t => pc'[u] = pc[u]
      /\ \A u \in Thread : pc'[u] \notin Inside
  BY <1>2 DEF LexicalInv, LexicalType, Inside
<1>4. LexicalType'
  BY <1>1 DEF LexicalInv, LexicalType, Place
<1>5. LockInv'
  BY <1>1, <1>3, NoThreadAssumption DEF LockInv
<1>6. RoomInv'
  BY <1>1, <1>3 DEF LexicalInv, RoomInv, Inside
<1>7. DefectInv'
  BY <1>1 DEF LexicalInv, DefectInv
<1>8. Trust' => Trust
  BY NoNewTrust DEF Place
<1>9. Trusted(conn)' => Right(conn)
  <2>1. Trusted(conn)' => Fine(conn)
    BY <1>1, <1>8, ConnTrusted
  <2>2. \A o \in Obj : ~Pending(o)
    BY <1>2 DEF Pending, Inside
  <2>3. QED
    BY <2>1, <2>2 DEF Fine, Right
<1>10. Trusted(disk)' <=> Trusted(conn)'
  BY <1>1 DEF Trusted
<1>11. ~unaware' => \A u \in Thread : pc'[u] = "rebuilt" => disk'.faults = 0 /\ conn'.faults = 0
  BY <1>1, NoneRebuilt DEF Place
<1>12. Right(conn) => Fine(conn)'
  BY <1>1 DEF Right, Fine
<1>13. TrustInv'
  BY <1>1, <1>9, <1>10, <1>11, <1>12 DEF TrustInv
<1>14. QED
  BY <1>4, <1>5, <1>6, <1>7, <1>13 DEF LexicalInv

(* A rollback: the connection sees the committed tables again.              *)
LEMMA RollbackStep ==
  ASSUME LexicalInv, NEW t \in Thread, pc[t] \in Inside, Rollback(t),
         pc' = [pc EXCEPT ![t] = "idle"], arg' = [arg EXCEPT ![t] = 0],
         UNCHANGED <<health, good, unaware>>
  PROVE  LexicalInv'
<1>1. disk' = disk /\ conn' = disk /\ holder = t /\ holder' = NoThread
  BY DEF Rollback
<1>2. \A u \in Thread : pc[u] \in Inside => u = t
  BY Alone DEF Inside
<1>3. /\ pc'[t] = "idle" /\ \A u \in Thread : u # t => pc'[u] = pc[u]
      /\ \A u \in Thread : pc'[u] \notin Inside
  BY <1>2 DEF LexicalInv, LexicalType, Inside
<1>4. LexicalType'
  BY <1>1 DEF LexicalInv, LexicalType, Place
<1>5. LockInv'
  BY <1>1, <1>3, NoThreadAssumption DEF LockInv
<1>6. RoomInv'
  BY <1>1, <1>3 DEF LexicalInv, RoomInv, Inside
<1>7. DefectInv'
  BY <1>1 DEF LexicalInv, DefectInv
<1>8. Trust' => Trust
  BY NoNewTrust DEF Place
<1>9. Trusted(disk)' => Right(disk)
  BY <1>1, <1>8 DEF LexicalInv, TrustInv, Trusted
<1>10. Trusted(disk)' <=> Trusted(conn)'
  BY <1>1 DEF Trusted
<1>11. ~unaware' => \A u \in Thread : pc'[u] = "rebuilt" => disk'.faults = 0 /\ conn'.faults = 0
  BY <1>1, NoneRebuilt DEF Place
<1>12. Right(disk) => Fine(conn)'
  BY <1>1 DEF Right, Fine
<1>13. TrustInv'
  BY <1>1, <1>9, <1>10, <1>11, <1>12 DEF TrustInv
<1>14. QED
  BY <1>4, <1>5, <1>6, <1>7, <1>13 DEF LexicalInv

LEMMA RebuildStep ==
  ASSUME LexicalInv, NEW t \in Thread, Rebuild(t)
  PROVE  LexicalInv'
<1>1. /\ pc[t] = "rebuild" /\ holder = NoThread /\ conn' \in Rebuilt(conn) /\ disk' = conn'
      /\ pc' = [pc EXCEPT ![t] = "rebuilt"]
      /\ UNCHANGED <<holder, health, arg, good, unaware>>
  BY DEF Rebuild, LockIsFree, Goto
<1>2. conn \in Tables /\ Len(conn.ledger) \in Nat
  BY TableFields DEF LexicalInv, LexicalType
<1>3. /\ conn' \in Tables /\ conn'.ledger = conn.ledger /\ conn'.faults = 0 /\ Right(conn')
      /\ Room(conn', Cardinality(Obj))
  BY <1>1, <1>2, RebuiltIsRight
<1>4. \A u \in Thread : pc[u] \notin Inside
  BY <1>1, Alone
<1>5. \A u \in Thread : pc'[u] \notin Inside
  BY <1>1, <1>4 DEF Inside, LexicalInv, LexicalType
<1>6. LexicalType'
  BY <1>1, <1>3 DEF LexicalInv, LexicalType, Place
<1>7. LockInv'
  BY <1>1, <1>5, NoThreadAssumption DEF LockInv
<1>8. RoomInv'
  <2>1. Room(conn', Len(conn.ledger) + Cardinality(Obj))
    BY <1>2, <1>3, RidBounds DEF Room
  <2>2. QED
    BY <1>1, <1>3, <1>5, <2>1 DEF LexicalInv, RoomInv, Inside
<1>9. DefectInv' /\ TrustInv'
  BY <1>1, <1>3 DEF DefectInv, TrustInv, Right, Fine, AtMostOneDefect
<1>10. QED
  BY <1>6, <1>7, <1>8, <1>9 DEF LexicalInv

LEMMA BeginReplayStep ==
  ASSUME LexicalInv, NEW t \in Thread, BeginReplay(t)
  PROVE  LexicalInv'
<1> DEFINE bare == Cleared(conn)
           objects == [o \in Obj |-> Absent]
<1>1. /\ pc[t] = "idle" /\ holder = NoThread /\ holder' = t
      /\ conn' = [bare EXCEPT !.objects = objects]
      /\ arg' = [arg EXCEPT ![t] = 0] /\ pc' = [pc EXCEPT ![t] = "replay"]
      /\ UNCHANGED <<disk, health, good, unaware>>
  BY DEF BeginReplay, Acquire, LockIsFree, Goto
<1>2. conn \in Tables /\ Len(conn.ledger) \in Nat
  BY TableFields DEF LexicalInv, LexicalType
<1>3. /\ bare \in Tables /\ bare.ledger = conn.ledger /\ bare.faults = 0
      /\ Indexed(bare) = {} /\ InUse(bare) = {}
  BY <1>2, ClearedFields
<1>4. objects \in [Obj -> Text \cup {NoText, Absent}] /\ \A o \in Obj : objects[o] \notin Text
  BY TextAssumption
<1> HIDE DEF bare, objects
<1>5. /\ conn' \in Tables /\ conn'.ledger = conn.ledger /\ conn'.faults = 0
      /\ conn'.rows = bare.rows /\ conn'.map = bare.map /\ conn'.objects = objects
  BY <1>1, <1>3, <1>4 DEF Tables
<1>6. Indexed(conn') = {} /\ InUse(conn') = {} /\ Searchable(conn') = {}
  <2>1. Indexed(conn') = Indexed(bare) /\ InUse(conn') = InUse(bare)
    BY <1>5 DEF Indexed, InUse
  <2>2. Searchable(conn') = {}
    BY <1>4, <1>5 DEF Searchable
  <2>3. QED
    BY <1>3, <2>1, <2>2
<1>7. Right(conn')
  BY <1>6, EmptyIsRight
<1>8. \A u \in Thread : pc[u] \notin Inside
  BY <1>1, Alone
<1>9. LexicalType'
  BY <1>1, <1>5 DEF LexicalInv, LexicalType, Place
<1>10. LockInv'
  BY <1>1, <1>8, NoThreadAssumption DEF LexicalInv, LexicalType, LockInv, Inside
<1>11. RoomInv'
  <2>1. \A u \in Thread : pc'[u] # "reindex" /\ (pc'[u] = "replay" => u = t)
    BY <1>1, <1>8 DEF Inside, LexicalInv, LexicalType
  <2>2. arg'[t] = 0
    BY <1>1 DEF LexicalInv, LexicalType
  <2>3. Room(conn', 0) /\ Room(conn', Len(conn.ledger) + Cardinality(Obj))
    BY <1>6 DEF Room
  <2>4. QED
    BY <1>1, <1>2, <1>5, <2>1, <2>2, <2>3 DEF LexicalInv, RoomInv
<1>12. DefectInv'
  BY <1>1, <1>7 DEF LexicalInv, DefectInv, Right, AtMostOneDefect
<1>13. TrustInv'
  <2>1. Trust' => Trust
    BY <1>1, NoNewTrust DEF Place
  <2>2. Trusted(disk)' => Right(disk)'
    BY <1>1, <2>1, DiskStill
  <2>3. Fine(conn)'
    BY <1>7 DEF Right, Fine
  <2>4. ~unaware' => \A u \in Thread : pc'[u] = "rebuilt" => disk'.faults = 0 /\ conn'.faults = 0
    <3>1. \A u \in Thread : pc'[u] = "rebuilt" => pc[u] = "rebuilt"
      BY <1>1 DEF LexicalInv, LexicalType
    <3>2. QED
      BY <1>1, <1>5, <3>1 DEF LexicalInv, TrustInv
  <2>5. QED
    BY <2>2, <2>3, <2>4 DEF TrustInv
<1>14. QED
  BY <1>9, <1>10, <1>11, <1>12, <1>13 DEF LexicalInv

LEMMA ReplayNextStep ==
  ASSUME LexicalInv, NEW t \in Thread, ReplayNext(t)
  PROVE  LexicalInv'
<1> DEFINE r == conn.ledger[arg[t] + 1]
<1>1. /\ pc[t] = "replay" /\ arg[t] < Len(conn.ledger)
      /\ \/ conn' = Reindexed(Put(conn, r.obj, r.text), r.obj) /\ UNCHANGED <<health, unaware>>
         \/ conn' \in Interrupted(Put(conn, r.obj, r.text), r.obj) /\ StatementFails(t)
      /\ arg' = [arg EXCEPT ![t] = @ + 1]
      /\ UNCHANGED <<disk, holder, pc, good>>
  BY DEF ReplayNext
<1>2. conn \in Tables /\ disk \in Tables
  BY DEF LexicalInv, LexicalType
<1>3. PICK k \in Nat : k = arg[t] /\ k < Len(conn.ledger) /\ Room(conn, k)
                       /\ Len(conn.ledger) \in Nat /\ Len(conn.ledger) <= MaxEvents
  BY <1>1, <1>2, TableFields DEF LexicalInv, RoomInv
<1>4. PICK o \in Obj, x \in Text \cup {NoText} : o = r.obj /\ x = r.text
  <2> DEFINE E == [obj : Obj, text : Text \cup {NoText}]
  <2>1. conn.ledger \in Seq(E)
    BY <1>2, TableFields
  <2> HIDE DEF E
  <2>2. k + 1 \in 1 .. Len(conn.ledger)
    BY <1>3
  <2>3. conn.ledger[k + 1] \in E
    BY <2>1, <2>2
  <2>4. QED
    BY <1>3, <2>3 DEF E
<1> HIDE DEF r
<1> DEFINE mid == Put(conn, o, x)
<1>5. /\ mid \in Tables /\ SameIndex(conn, mid) /\ mid.ledger = conn.ledger
      /\ \A p \in Obj : p # o => mid.objects[p] = conn.objects[p]
  BY <1>2, PutFields
<1>6. Room(mid, k) /\ k < MaxEvents + Cardinality(Obj) /\ mid.faults = conn.faults
      /\ (Sound(conn) => Sound(mid)) /\ (AtMostOneDefect(conn) => AtMostOneDefect(mid))
      /\ \A p \in Obj : p # o /\ Fits(conn, p) => Fits(mid, p)
  BY <1>3, <1>5, RidBounds DEF Room, SameIndex
<1>7. \/ conn' = Reindexed(mid, o) /\ UNCHANGED <<health, unaware>>
      \/ conn' \in Interrupted(mid, o) /\ StatementFails(t)
  BY <1>1, <1>4
<1> HIDE DEF mid
<1>8. \A u \in Thread : pc[u] \in Inside => u = t
  BY <1>1, Alone DEF Inside
<1>9. ASSUME NEW new \in Tables, conn' = new, SameObjects(mid, new), Room(new, k + 1),
             health' \in {"healthy", "degraded", "rebuilding"}, unaware' \in BOOLEAN
      PROVE  LexicalType' /\ LockInv' /\ RoomInv'
  <2>1. LexicalType'
    BY <1>1, <1>9 DEF LexicalInv, LexicalType
  <2>2. LockInv'
    BY <1>1, <1>8, NoThreadAssumption DEF LexicalInv, LexicalType, LockInv, Inside
  <2>3. conn'.ledger = conn.ledger
    BY <1>5, <1>9 DEF SameObjects
  <2>4. arg'[t] = k + 1
    BY <1>1, <1>3 DEF LexicalInv, LexicalType
  <2>5. Room(conn', k + 1) /\ Room(conn', Len(conn.ledger) + Cardinality(Obj))
    BY <1>3, <1>9, RidBounds DEF Room
  <2>6. \A u \in Thread : pc'[u] # "reindex" /\ (pc'[u] = "replay" => u = t)
    BY <1>1, <1>8 DEF Inside
  <2>7. RoomInv'
    BY <1>1, <1>3, <2>3, <2>4, <2>5, <2>6 DEF LexicalInv, RoomInv
  <2>8. QED
    BY <2>1, <2>2, <2>7
<1>10. CASE conn' = Reindexed(mid, o) /\ UNCHANGED <<health, unaware>>
  <2>1. /\ conn' \in Tables /\ conn'.faults = mid.faults /\ SameObjects(mid, conn')
        /\ Room(conn', k + 1)
        /\ AtMostOneDefect(mid) => AtMostOneDefect(conn')
        /\ Sound(mid) => /\ Sound(conn') /\ Fits(conn', o)
                         /\ \A p \in Obj : p # o /\ Fits(mid, p) => Fits(conn', p)
    BY <1>5, <1>6, <1>10, ReindexedKeeps
  <2>2. LexicalType' /\ LockInv' /\ RoomInv'
    <3>1. health' \in {"healthy", "degraded", "rebuilding"} /\ unaware' \in BOOLEAN
      BY <1>10 DEF LexicalInv, LexicalType
    <3>2. QED
      BY <1>9, <2>1, <3>1
  <2>3. DefectInv'
    BY <1>1, <1>6, <2>1 DEF LexicalInv, DefectInv
  <2>4. TrustInv'
    <3>1. Trust' => Trust
      BY <1>1, <1>10 DEF Trust
    <3>2. Trusted(disk)' => Right(disk)'
      BY <1>1, <1>10, <3>1, DiskStill
    <3>3. ASSUME Trusted(conn)' PROVE Fine(conn)'
      <4>1. Fine(conn)
        BY <1>6, <1>10, <2>1, <3>1, <3>3, ConnTrusted
      <4>2. Sound(conn) /\ \A p \in Obj : Fits(conn, p)
        BY <1>1, <1>8, <4>1 DEF Fine, Pending, Inside
      <4>3. Sound(conn') /\ \A p \in Obj : Fits(conn', p)
        BY <1>6, <2>1, <4>2
      <4>4. QED
        BY <4>3 DEF Fine
    <3>4. ~unaware' => \A u \in Thread :
            pc'[u] = "rebuilt" => disk'.faults = 0 /\ conn'.faults = 0
      BY <1>1, <1>6, <1>10, <2>1 DEF LexicalInv, TrustInv
    <3>5. QED
      BY <3>2, <3>3, <3>4 DEF TrustInv
  <2>5. QED
    BY <2>2, <2>3, <2>4 DEF LexicalInv
<1>11. CASE conn' \in Interrupted(mid, o) /\ StatementFails(t)
  <2>1. /\ conn' \in Tables /\ conn'.faults = mid.faults + 1 /\ SameObjects(mid, conn')
        /\ Room(conn', k + 1)
        /\ Sound(mid) => AtMostOneDefect(conn')
    BY <1>5, <1>6, <1>11, InterruptedKeeps
  <2>2. /\ health' = "degraded" /\ unaware' \in BOOLEAN /\ TrustInv'
    <3>1. "replay" \in Inside /\ pc[t] \in Inside
      BY <1>1 DEF Inside
    <3>2. pc' = [pc EXCEPT ![t] = "replay"]
      BY <1>1 DEF LexicalInv, LexicalType
    <3>3. QED
      BY <1>1, <1>6, <1>11, <2>1, <3>1, <3>2, FaultIsKnown
  <2>3. LexicalType' /\ LockInv' /\ RoomInv'
    BY <1>9, <2>1, <2>2
  <2>4. DefectInv'
    <3>1. conn.faults \in Nat
      BY <1>2, TableFields
    <3>2. conn'.faults <= 1 => conn.faults = 0
      BY <1>6, <2>1, <3>1
    <3>3. conn.faults = 0 => Sound(conn)
      BY DEF LexicalInv, TrustInv, Trusted, Fine
    <3>4. QED
      BY <1>1, <1>6, <2>1, <3>2, <3>3 DEF LexicalInv, DefectInv
  <2>5. QED
    BY <2>2, <2>3, <2>4 DEF LexicalInv
<1>12. QED
  BY <1>7, <1>10, <1>11

(* Steps that leave the tables and the lock alone.                          *)
LEMMA FlagStep ==
  ASSUME LexicalInv, NEW t \in Thread, NEW place \in Place \ Inside, pc[t] \notin Inside,
         pc' = [pc EXCEPT ![t] = place], place # "rebuilt",
         good' \in [Thread -> BOOLEAN], health' \in {"healthy", "degraded", "rebuilding"},
         UNCHANGED <<disk, conn, holder, arg, unaware>>,
         Trusted(disk)' => Right(disk), Trusted(conn)' => Fine(conn)
  PROVE  LexicalInv'
<1>1. \A u \in Thread : /\ pc'[u] \in Inside <=> pc[u] \in Inside
                        /\ pc'[u] \in Inside => pc'[u] = pc[u]
                        /\ pc'[u] = "rebuilt" => pc[u] = "rebuilt"
  BY DEF LexicalInv, LexicalType
<1>2. LexicalType'
  BY DEF LexicalInv, LexicalType
<1>3. LockInv'
  BY <1>1 DEF LexicalInv, LockInv
<1>4. RoomInv'
  BY <1>1 DEF LexicalInv, RoomInv, Inside
<1>5. DefectInv'
  BY DEF LexicalInv, DefectInv
<1>6. \A o \in Obj : Pending(o)' <=> Pending(o)
  BY <1>1 DEF Pending, Inside
<1>7. Fine(conn) => Fine(conn)'
  BY <1>6 DEF Fine
<1>8. TrustInv'
  BY <1>1, <1>7 DEF LexicalInv, TrustInv
<1>9. QED
  BY <1>2, <1>3, <1>4, <1>5, <1>8 DEF LexicalInv

LEMMA QuietFlagStep ==
  ASSUME LexicalInv, NEW t \in Thread, NEW place \in Place \ Inside, pc[t] \notin Inside,
         pc' = [pc EXCEPT ![t] = place], place # "rebuilt", Trust' => Trust,
         good' \in [Thread -> BOOLEAN], health' \in {"healthy", "degraded", "rebuilding"},
         UNCHANGED <<disk, conn, holder, arg, unaware>>
  PROVE  LexicalInv'
<1>1. (Trusted(disk)' => Right(disk)) /\ (Trusted(conn)' => Fine(conn))
  BY DEF LexicalInv, TrustInv, Trusted
<1>2. QED
  BY <1>1, FlagStep

LEMMA SearchStep ==
  ASSUME LexicalInv, NEW t \in Thread,
         \/ StartSearch(t) \/ CheckHealth(t) \/ FallBack(t) \/ Query(t)
         \/ StartRebuild(t) \/ RebuildFails(t) \/ StartVerify(t)
  PROVE  LexicalInv'
<1>1. PICK place \in {"search", "query", "idle", "rebuild", "rebuild_failed", "verify"} :
        /\ pc[t] \in {"idle", "search", "query", "rebuild"}
        /\ pc' = [pc EXCEPT ![t] = place]
        /\ health' \in {health, "degraded", "rebuilding"}
        /\ UNCHANGED <<disk, conn, holder, arg, good, unaware>>
  BY DEF StartSearch, CheckHealth, FallBack, Query, StartRebuild, RebuildFails, StartVerify, Goto
<1>2. place \in Place \ Inside /\ place # "rebuilt" /\ place # "verified_rebuilt"
      /\ pc[t] \notin Inside
  BY <1>1 DEF Place, Inside
<1>3. good' \in [Thread -> BOOLEAN] /\ health' \in {"healthy", "degraded", "rebuilding"}
  BY <1>1 DEF LexicalInv, LexicalType
<1>4. Trust' => Trust
  BY <1>1, <1>2, NoNewTrust
<1>5. QED
  BY <1>1, <1>2, <1>3, <1>4, QuietFlagStep

LEMMA EndRebuildStep ==
  ASSUME LexicalInv, NEW t \in Thread, EndRebuild(t)
  PROVE  LexicalInv'
<1>1. /\ pc[t] \in {"rebuilt", "rebuild_failed"} /\ pc' = [pc EXCEPT ![t] = "idle"]
      /\ health' = IF pc[t] = "rebuilt" THEN "healthy" ELSE "degraded"
      /\ UNCHANGED <<disk, conn, holder, arg, good, unaware>>
  BY DEF EndRebuild, Goto
<1>2. "idle" \in Place \ Inside /\ pc[t] \notin Inside
  BY <1>1 DEF Place, Inside
<1>3. good' \in [Thread -> BOOLEAN] /\ health' \in {"healthy", "degraded", "rebuilding"}
  BY <1>1 DEF LexicalInv, LexicalType
<1>4. CASE pc[t] = "rebuild_failed"
  <2>1. Trust' => Trust
    BY <1>1, <1>2, <1>4, NoNewTrust
  <2>2. QED
    BY <1>1, <1>2, <1>3, <2>1, QuietFlagStep
<1>5. CASE pc[t] = "rebuilt"
  <2>1. (Trusted(disk)' => Right(disk)) /\ (Trusted(conn)' => Fine(conn))
    BY <1>1, <1>5 DEF LexicalInv, TrustInv, Trusted
  <2>2. QED
    BY <1>1, <1>2, <1>3, <2>1, FlagStep
<1>6. QED
  BY <1>1, <1>4, <1>5

(* What verify found good when it read the tables is right, and stays so    *)
(* until a statement fails.                                                 *)
LEMMA VerifyStep ==
  ASSUME LexicalInv, NEW t \in Thread, Verify(t)
  PROVE  LexicalInv'
<1>1. PICK place \in {"verified", "verified_rebuilt"} :
        /\ pc[t] \in {"verify", "verify_rebuilt"} /\ holder = NoThread
        /\ good' = [good EXCEPT ![t] = Consistent(conn)]
        /\ pc' = [pc EXCEPT ![t] = place]
        /\ UNCHANGED <<disk, conn, holder, health, arg, unaware>>
  BY DEF Verify, LockIsFree, Goto
<1>2. place \in Place \ Inside /\ pc[t] \notin Inside /\ place # "rebuilt"
  BY <1>1 DEF Place, Inside
<1>3. Consistent(conn) \in BOOLEAN
  BY DEF Consistent
<1>4. good' \in [Thread -> BOOLEAN] /\ health' \in {"healthy", "degraded", "rebuilding"}
  BY <1>1, <1>3 DEF LexicalInv, LexicalType
<1>5. conn = disk /\ conn \in Tables
  BY <1>1, Alone DEF LexicalInv, LexicalType
<1>6. Trust' => Trust \/ Consistent(conn)
  BY <1>1 DEF Trust, LexicalInv, LexicalType
<1>7. conn.faults <= 1 /\ Consistent(conn) => Right(conn)
  BY <1>5, ConsistentIsRight DEF LexicalInv, DefectInv
<1>8. Right(conn) => Fine(conn)
  BY DEF Right, Fine
<1>9. Trusted(disk) => Right(disk)
  BY DEF LexicalInv, TrustInv
<1>10. Trusted(disk)' => Trusted(disk) \/ (disk.faults <= 1 /\ Consistent(conn))
  BY <1>1, <1>6 DEF Trusted
<1>11. Trusted(conn)' <=> Trusted(disk)'
  BY <1>1, <1>5 DEF Trusted
<1>12. QED
  BY <1>1, <1>2, <1>4, <1>5, <1>7, <1>8, <1>9, <1>10, <1>11, FlagStep

LEMMA EndVerifyStep ==
  ASSUME LexicalInv, NEW t \in Thread, EndVerify(t)
  PROVE  LexicalInv'
<1>1. /\ pc[t] \in {"verified", "verified_rebuilt"}
      /\ health' = CASE ~good[t] /\ health = "healthy" -> "degraded"
                     [] good[t] /\ pc[t] = "verified_rebuilt" -> "healthy"
                     [] OTHER -> health
      /\ good' = [good EXCEPT ![t] = FALSE]
      /\ pc' = [pc EXCEPT ![t] = "idle"]
      /\ UNCHANGED <<disk, conn, holder, arg, unaware>>
  BY DEF EndVerify, Goto
<1>2. "idle" \in Place \ Inside /\ pc[t] \notin Inside
  BY <1>1 DEF Place, Inside
<1>3. /\ health' \in {health, "degraded"} \/ (good[t] /\ pc[t] = "verified_rebuilt" /\ health' = "healthy")
      /\ good' \in [Thread -> BOOLEAN]
      /\ health' \in {"healthy", "degraded", "rebuilding"}
  BY <1>1 DEF LexicalInv, LexicalType
<1>4. \A u \in Thread : pc'[u] = "verified_rebuilt" /\ good'[u] =>
        pc[u] = "verified_rebuilt" /\ good[u]
  BY <1>1 DEF LexicalInv, LexicalType
<1>5. Trust' => Trust
  BY <1>3, <1>4 DEF Trust
<1>6. QED
  BY <1>1, <1>2, <1>3, <1>5, QuietFlagStep

LEMMA ReopenStep ==
  ASSUME LexicalInv, Reopen
  PROVE  LexicalInv'
<1>1. /\ disk' \in Rebuilt(disk) \/ disk' = disk
      /\ conn' = disk' /\ holder' = NoThread /\ health' = "healthy"
      /\ pc' = [t \in Thread |-> "idle"] /\ arg' = [t \in Thread |-> 0]
      /\ good' = [t \in Thread |-> FALSE] /\ unaware' = TRUE
  BY DEF Reopen
<1>2. disk \in Tables /\ Len(disk.ledger) \in Nat
  BY TableFields DEF LexicalInv, LexicalType
<1>3. /\ disk' \in Tables /\ Len(disk'.ledger) <= MaxEvents
      /\ Room(disk', Len(disk'.ledger) + Cardinality(Obj))
      /\ disk'.faults <= 1 => AtMostOneDefect(disk')
      /\ disk'.faults = 0 => Right(disk')
  <2>1. CASE disk' = disk
    BY <1>2, <2>1 DEF LexicalInv, RoomInv, DefectInv, TrustInv, Trusted
  <2>2. CASE disk' \in Rebuilt(disk)
    <3>1. /\ disk' \in Tables /\ disk'.ledger = disk.ledger /\ Right(disk')
          /\ Room(disk', Cardinality(Obj))
      BY <1>2, <2>2, RebuiltIsRight
    <3>2. Room(disk', Len(disk.ledger) + Cardinality(Obj))
      BY <1>2, <3>1, RidBounds DEF Room
    <3>3. QED
      BY <3>1, <3>2 DEF LexicalInv, RoomInv, Right, AtMostOneDefect
  <2>3. QED
    BY <1>1, <2>1, <2>2
<1>4. LexicalType'
  BY <1>1, <1>3 DEF LexicalType, Place
<1>5. LockInv'
  BY <1>1, NoThreadAssumption DEF LockInv, Inside
<1>6. RoomInv'
  BY <1>1, <1>3 DEF RoomInv
<1>7. DefectInv' /\ TrustInv'
  BY <1>1, <1>3 DEF DefectInv, TrustInv, Trusted, Right, Fine
<1>8. QED
  BY <1>4, <1>5, <1>6, <1>7 DEF LexicalInv

LEMMA LexicalStep == LexicalInv /\ [Next]_vars => LexicalInv'
<1> SUFFICES ASSUME LexicalInv, [Next]_vars PROVE LexicalInv'
  OBVIOUS
<1>1. ASSUME NEW t \in Thread, CommitPut(t) \/ CommitReplay(t) PROVE LexicalInv'
  BY <1>1, CommitStep DEF CommitPut, CommitReplay, Goto
<1>2. ASSUME NEW t \in Thread, FailPut(t) \/ FailReplay(t) PROVE LexicalInv'
  BY <1>2, RollbackStep DEF FailPut, FailReplay, Goto, Inside
<1>3. ASSUME NEW t \in Thread,
             \/ PutObject(t) \/ Reindex(t) \/ ReindexFails(t) \/ Rebuild(t) \/ BeginReplay(t)
             \/ ReplayNext(t) \/ EndRebuild(t) \/ Verify(t) \/ EndVerify(t)
      PROVE  LexicalInv'
  BY <1>3, PutObjectStep, ReindexStep, ReindexFailsStep, RebuildStep, BeginReplayStep,
     ReplayNextStep, EndRebuildStep, VerifyStep, EndVerifyStep
<1>4. CASE UNCHANGED vars
  BY <1>4 DEF vars, LexicalInv, LexicalType, LockInv, RoomInv, DefectInv, TrustInv, Trusted,
     Trust, Fine, Pending
<1>5. QED
  BY <1>1, <1>2, <1>3, <1>4, SearchStep, ReopenStep DEF Next

(* The tables have at most one defect while at most one statement failed,   *)
(* and a flag that says healthy, or is about to, is to be trusted unless a  *)
(* failure escaped it.                                                      *)
THEOREM LexicalInvariant == Spec => []LexicalInv
  BY LexicalInitial, LexicalStep, PTL DEF Spec

(* reindex, clear and rebuild: without a failed statement the committed     *)
(* index finds exactly the committed objects, whatever was rolled back,     *)
(* rebuilt or reopened meanwhile.                                           *)
THEOREM IndexFollowsObjects == Spec => []DriftNeedsFault
<1>1. LexicalInv => DriftNeedsFault
  BY RightIsExact DEF LexicalInv, LexicalType, TrustInv, Trusted, DriftNeedsFault
<1>2. QED
  BY <1>1, LexicalInvariant, PTL

(* verify: a single failed statement, wherever it was and whatever was      *)
(* indexed since, cannot pass its comparisons.                              *)
THEOREM VerifySeesOneFault == Spec => []OneFaultIsDetected
<1>1. LexicalInv => OneFaultIsDetected
  BY ConsistentIsRight, RightIsExact DEF LexicalInv, LexicalType, DefectInv, OneFaultIsDetected
<1>2. QED
  BY <1>1, LexicalInvariant, PTL

(* health(): healthy means exact, up to a reopening, a failure during the   *)
(* end of another thread's rebuild, or a second failure.                    *)
THEOREM HealthyIsExact == Spec => []FlagIsHonest
<1>1. LexicalInv => FlagIsHonest
  BY RightIsExact DEF LexicalInv, LexicalType, TrustInv, Trusted, Trust, FlagIsHonest
<1>2. QED
  BY <1>1, LexicalInvariant, PTL
=============================================================================
