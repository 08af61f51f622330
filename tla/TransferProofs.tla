---------------------------- MODULE TransferProofs ----------------------------
(***************************************************************************)
(* Proofs about LedgerTransfer, for any facts and claims, either backend    *)
(* and any bounds: what verification notices of a damaged package, that an  *)
(* import is whole, and what a slice tells of its facts.                    *)
(***************************************************************************)
EXTENDS LedgerTransfer, FiniteSetTheorems, SequenceTheorems, WellFoundedInduction, TLAPS

IsRecord(r) ==
  /\ r = [seq |-> r.seq, actor |-> r.actor, event |-> r.event, content |-> r.content,
          prev |-> r.prev, entry |-> r.entry]
  /\ "shape" \in DOMAIN r.event

Records(s) == s \in Seq(Range(s)) /\ \A i \in 1 .. Len(s) : IsRecord(s[i])

Whole(s) == Records(s) /\ Verifies(s)

(* What the projection of a ledger can be.                                  *)
Images == [known : SUBSET Obj, closed : SUBSET Obj, raised : BOOLEAN]

(* A slice that replays knows what is listed, and how its facts stand.      *)
Agrees(image, part, ids) ==
  part.raised \/ /\ part.known = image.known \cap ids
                 /\ part.closed \cap Fact = image.closed \cap ids \cap Fact

(* The source's calls were checked, so its ledger replays; and so far as it *)
(* has come, whatever slice is taken agrees with it.                        *)
SourceInv ==
  /\ source \in Seq(Event) /\ readable \subseteq Obj /\ (listed # None => listed \subseteq Obj)
  /\ Image(source) \in Images /\ ~Image(source).raised
  /\ Image(source).closed \subseteq Image(source).known
  /\ \A ids \in SUBSET Obj :
       LET part == Slice(source, ids)
       IN  /\ part \in Seq(Event) /\ Image(part) \in Images
           /\ Agrees(Image(source), Image(part), ids)

(* Unless hashes were computed again, no record of the package has an entry *)
(* hash that was not exported.                                              *)
PackageInv ==
  package # None =>
    /\ Whole(genuine) /\ Records(package.records)
    /\ DOMAIN package = {"records", "scoped", "version", "chained"}
    /\ package.version \in {0, 1}
    /\ ~resealed => \A i \in 1 .. Len(package.records) : \E j \in 1 .. Len(genuine) :
                      package.records[i].entry = genuine[j].entry
    /\ SliceKeepsFates

ArrivedInv ==
  LET n == Len(package.records)
  IN  /\ Records(target) /\ imported.at + n <= Len(target)
      /\ ~OnTop => Verifies(target)
      /\ package.version = 1 => \A i \in 1 .. n : target[imported.at + i] = package.records[i]
      /\ package.version = 0 =>
           /\ \A i \in 1 .. n :
                target[imported.at + i].event = Upgraded(package.records[i].event)
           /\ \A i \in 1 .. Len(target) : target[i].event.shape = "v1"

TargetInv ==
  /\ imported = None => Whole(target) /\ \A i \in 1 .. Len(target) : target[i].event.shape = "v1"
  /\ importing # None =>
       package # None /\ imported = None /\ importing.verified \in BOOLEAN
         /\ (importing.verified => Verifies(package.records))
  /\ imported # None => package # None /\ imported \in Import
  /\ imported # None /\ imported.verified => ArrivedInv

TransferInv == resealed \in BOOLEAN /\ SourceInv /\ PackageInv /\ TargetInv
-----------------------------------------------------------------------------
(* The naturals have no infinite descent, so a nonempty set of them has a   *)
(* least element: induction in a form that needs no operator parameter.     *)
Below == {ss \in Nat \X Nat : ss[1] < ss[2]}

LEMMA BelowIsWellFounded == IsWellFoundedOn(Below, Nat)
  BY NatLessThanWellFounded DEF OpToRel, Below

LEMMA LeastElement ==
  ASSUME NEW S \in SUBSET Nat, S # {}
  PROVE  \E m \in S : \A k \in S : m <= k
<1>1. PICK m \in S : \A k \in S : ~(<<k, m>> \in Below)
  BY BelowIsWellFounded, WFMin, Zenon
<1>2. ASSUME NEW k \in S PROVE m <= k
  <2>1. k \in Nat /\ m \in Nat
    OBVIOUS
  <2>2. <<k, m>> \in Nat \X Nat
    BY <2>1
  <2>3. ~(k < m)
    BY <1>1, <2>2 DEF Below
  <2>4. QED
    BY <2>1, <2>3
<1>3. QED
  BY <1>2
-----------------------------------------------------------------------------
(* Image: its equations.                                                    *)
IsImage(f, events, k) ==
  f = [i \in 0 .. k |-> IF i = 0 THEN NoImage ELSE Projected(f[i - 1], events[i])]

ImageTo(events, k) == CHOOSE f : IsImage(f, events, k)

LEMMA ImageIs ==
  ASSUME NEW events
  PROVE  Image(events) = ImageTo(events, Len(events))[Len(events)]
  BY DEF Image, ImageTo, IsImage

LEMMA ImageExtends ==
  ASSUME NEW events, NEW k \in Nat, NEW f, IsImage(f, events, k)
  PROVE  \E g : IsImage(g, events, k + 1)
<1> DEFINE g == [i \in 0 .. k + 1 |-> IF i <= k THEN f[i] ELSE Projected(f[k], events[k + 1])]
<1>1. ASSUME NEW i \in 0 .. k + 1
      PROVE  g[i] = IF i = 0 THEN NoImage ELSE Projected(g[i - 1], events[i])
  <2>1. ASSUME NEW n \in 0 .. k
        PROVE  f[n] = IF n = 0 THEN NoImage ELSE Projected(f[n - 1], events[n])
    BY DEF IsImage
  <2>2. CASE i = k + 1
    <3>1. g[i] = Projected(f[k], events[i]) /\ i - 1 = k /\ g[k] = f[k] /\ i # 0
      BY <2>2
    <3>2. QED
      BY <3>1
  <2>3. CASE i \in 0 .. k
    <3>1. g[i] = f[i] /\ (i # 0 => i - 1 \in 0 .. k /\ g[i - 1] = f[i - 1])
      BY <2>3
    <3>2. QED
      BY <2>1, <2>3, <3>1
  <2>4. QED
    BY <2>2, <2>3
<1>2. IsImage(g, events, k + 1)
  BY <1>1 DEF IsImage
<1>3. QED
  BY <1>2

LEMMA ImageExists ==
  ASSUME NEW events, NEW k \in Nat
  PROVE  IsImage(ImageTo(events, k), events, k)
<1> DEFINE Without == {i \in Nat : ~ \E f : IsImage(f, events, i)}
<1>1. ASSUME Without # {} PROVE FALSE
  <2>1. PICK m \in Without : \A i \in Without : m <= i
    BY <1>1, LeastElement, Zenon, Without \in SUBSET Nat
  <2>2. CASE m = 0
    <3>1. IsImage([i \in 0 .. 0 |-> NoImage], events, 0)
      BY DEF IsImage
    <3>2. QED
      BY <3>1, <2>2, <2>1
  <2>3. CASE m # 0
    <3>1. m - 1 \in Nat /\ m - 1 \notin Without /\ (m - 1) + 1 = m
      BY <2>1, <2>3
    <3>2. PICK f : IsImage(f, events, m - 1)
      BY <3>1
    <3>3. \E g : IsImage(g, events, (m - 1) + 1)
      BY <3>1, <3>2, ImageExtends
    <3>4. QED
      BY <3>1, <3>3, <2>1
  <2>4. QED
    BY <2>2, <2>3
<1>2. \E f : IsImage(f, events, k)
  BY <1>1
<1>3. QED
  BY <1>2 DEF ImageTo

(* It depends only on the events so far.                                    *)
LEMMA ImageUnique ==
  ASSUME NEW events, NEW more, NEW j \in Nat, NEW k \in Nat, j <= k,
         \A i \in 1 .. j : events[i] = more[i],
         NEW f, NEW g, IsImage(f, more, k), IsImage(g, events, j)
  PROVE  f[j] = g[j]
<1> DEFINE Differ == {i \in 0 .. j : f[i] # g[i]}
<1>1. ASSUME Differ # {} PROVE FALSE
  <2>0. Differ \in SUBSET Nat /\ 0 .. j \subseteq 0 .. k
    OBVIOUS
  <2>1. PICK m \in Differ : \A i \in Differ : m <= i
    BY <1>1, <2>0, LeastElement, Zenon
  <2>2. CASE m = 0
    BY <2>1, <2>2 DEF IsImage
  <2>3. CASE m # 0
    <3>1. m - 1 \in 0 .. j /\ m - 1 \notin Differ /\ m \in 1 .. j
      BY <2>1, <2>3
    <3>2. f[m - 1] = g[m - 1]
      BY <3>1
    <3>3. f[m] = Projected(f[m - 1], more[m])
      BY <2>0, <2>1, <2>3 DEF IsImage
    <3>4. g[m] = Projected(g[m - 1], events[m])
      BY <2>0, <2>1, <2>3 DEF IsImage
    <3>5. QED
      BY <3>1, <3>2, <3>3, <3>4, <2>1
  <2>4. QED
    BY <2>2, <2>3
<1>2. j \in 0 .. j
  OBVIOUS
<1>3. QED
  BY <1>1, <1>2

LEMMA ImageEmpty == Image(<< >>) = NoImage
<1>1. Len(<< >>) = 0
  OBVIOUS
<1>2. IsImage(ImageTo(<< >>, 0), << >>, 0)
  BY ImageExists
<1>3. ImageTo(<< >>, 0)[0] = NoImage
  BY <1>2 DEF IsImage
<1>4. QED
  BY <1>1, <1>3, ImageIs

LEMMA ImageAppend ==
  ASSUME NEW S, NEW events \in Seq(S), NEW e \in S
  PROVE  Image(Append(events, e)) = Projected(Image(events), e)
<1> DEFINE n == Len(events)
           more == Append(events, e)
           f == ImageTo(more, n + 1)
           g == ImageTo(events, n)
<1>1. /\ n \in Nat /\ Len(more) = n + 1 /\ more[n + 1] = e
      /\ \A i \in 1 .. n : events[i] = more[i]
  OBVIOUS
<1>2. IsImage(f, more, n + 1) /\ IsImage(g, events, n)
  BY <1>1, ImageExists
<1>3. Image(more) = f[n + 1] /\ Image(events) = g[n]
  BY <1>1, ImageIs
<1> HIDE DEF n, more, f, g
<1>4. f[n] = g[n]
  <2>1. n + 1 \in Nat /\ n <= n + 1
    BY <1>1
  <2>2. PICK m \in Nat : m = n + 1
    BY <2>1
  <2>3. n \in Nat /\ n <= m /\ \A i \in 1 .. n : events[i] = more[i]
    BY <1>1, <2>1, <2>2
  <2>4. IsImage(f, more, m) /\ IsImage(g, events, n)
    BY <1>2, <2>2
  <2>5. QED
    BY <2>2, <2>3, <2>4, ImageUnique
<1>5. f[n + 1] = Projected(f[n], more[n + 1])
  <2>1. n + 1 \in 0 .. n + 1 /\ n + 1 # 0 /\ (n + 1) - 1 = n
    BY <1>1
  <2>2. f = [i \in 0 .. n + 1 |-> IF i = 0 THEN NoImage ELSE Projected(f[i - 1], more[i])]
    BY <1>2 DEF IsImage
  <2>3. QED
    BY <2>1, <2>2
<1>6. QED
  BY <1>1, <1>3, <1>4, <1>5 DEF more
-----------------------------------------------------------------------------
(* Slice: its equations, in the same way.                                   *)
Taken(part, e, ids) == IF Names(e) /\ e.about \in ids THEN Append(part, e) ELSE part

IsSlice(f, events, ids, k) ==
  f = [i \in 0 .. k |-> IF i = 0 THEN << >> ELSE Taken(f[i - 1], events[i], ids)]

SliceTo(events, ids, k) == CHOOSE f : IsSlice(f, events, ids, k)

LEMMA SliceIs ==
  ASSUME NEW ids, NEW events
  PROVE  Slice(events, ids) = SliceTo(events, ids, Len(events))[Len(events)]
  BY DEF Slice, Taken, SliceTo, IsSlice

LEMMA SliceExtends ==
  ASSUME NEW ids, NEW events, NEW k \in Nat, NEW f, IsSlice(f, events, ids, k)
  PROVE  \E g : IsSlice(g, events, ids, k + 1)
<1> DEFINE g == [i \in 0 .. k + 1 |-> IF i <= k THEN f[i] ELSE Taken(f[k], events[k + 1], ids)]
<1>1. ASSUME NEW i \in 0 .. k + 1
      PROVE  g[i] = IF i = 0 THEN << >> ELSE Taken(g[i - 1], events[i], ids)
  <2>1. ASSUME NEW n \in 0 .. k
        PROVE  f[n] = IF n = 0 THEN << >> ELSE Taken(f[n - 1], events[n], ids)
    BY DEF IsSlice
  <2>2. CASE i = k + 1
    <3>1. g[i] = Taken(f[k], events[i], ids) /\ i - 1 = k /\ g[k] = f[k] /\ i # 0
      BY <2>2
    <3>2. QED
      BY <3>1
  <2>3. CASE i \in 0 .. k
    <3>1. g[i] = f[i] /\ (i # 0 => i - 1 \in 0 .. k /\ g[i - 1] = f[i - 1])
      BY <2>3
    <3>2. QED
      BY <2>1, <2>3, <3>1
  <2>4. QED
    BY <2>2, <2>3
<1>2. IsSlice(g, events, ids, k + 1)
  BY <1>1 DEF IsSlice
<1>3. QED
  BY <1>2

LEMMA SliceExists ==
  ASSUME NEW ids, NEW events, NEW k \in Nat
  PROVE  IsSlice(SliceTo(events, ids, k), events, ids, k)
<1> DEFINE Without == {i \in Nat : ~ \E f : IsSlice(f, events, ids, i)}
<1>1. ASSUME Without # {} PROVE FALSE
  <2>1. PICK m \in Without : \A i \in Without : m <= i
    BY <1>1, LeastElement, Zenon, Without \in SUBSET Nat
  <2>2. CASE m = 0
    <3>1. IsSlice([i \in 0 .. 0 |-> << >>], events, ids, 0)
      BY DEF IsSlice
    <3>2. QED
      BY <3>1, <2>2, <2>1
  <2>3. CASE m # 0
    <3>1. m - 1 \in Nat /\ m - 1 \notin Without /\ (m - 1) + 1 = m
      BY <2>1, <2>3
    <3>2. PICK f : IsSlice(f, events, ids, m - 1)
      BY <3>1
    <3>3. \E g : IsSlice(g, events, ids, (m - 1) + 1)
      BY <3>1, <3>2, SliceExtends
    <3>4. QED
      BY <3>1, <3>3, <2>1
  <2>4. QED
    BY <2>2, <2>3
<1>2. \E f : IsSlice(f, events, ids, k)
  BY <1>1
<1>3. QED
  BY <1>2 DEF SliceTo

LEMMA SliceUnique ==
  ASSUME NEW ids, NEW events, NEW more, NEW j \in Nat, NEW k \in Nat, j <= k,
         \A i \in 1 .. j : events[i] = more[i],
         NEW f, NEW g, IsSlice(f, more, ids, k), IsSlice(g, events, ids, j)
  PROVE  f[j] = g[j]
<1> DEFINE Differ == {i \in 0 .. j : f[i] # g[i]}
<1>1. ASSUME Differ # {} PROVE FALSE
  <2>0. Differ \in SUBSET Nat /\ 0 .. j \subseteq 0 .. k
    OBVIOUS
  <2>1. PICK m \in Differ : \A i \in Differ : m <= i
    BY <1>1, <2>0, LeastElement, Zenon
  <2>2. CASE m = 0
    BY <2>1, <2>2 DEF IsSlice
  <2>3. CASE m # 0
    <3>1. m - 1 \in 0 .. j /\ m - 1 \notin Differ /\ m \in 1 .. j
      BY <2>1, <2>3
    <3>2. f[m - 1] = g[m - 1]
      BY <3>1
    <3>3. f[m] = Taken(f[m - 1], more[m], ids)
      BY <2>0, <2>1, <2>3 DEF IsSlice
    <3>4. g[m] = Taken(g[m - 1], events[m], ids)
      BY <2>0, <2>1, <2>3 DEF IsSlice
    <3>5. QED
      BY <3>1, <3>2, <3>3, <3>4, <2>1
  <2>4. QED
    BY <2>2, <2>3
<1>2. j \in 0 .. j
  OBVIOUS
<1>3. QED
  BY <1>1, <1>2

LEMMA SliceEmpty ==
  ASSUME NEW ids
  PROVE  Slice(<< >>, ids) = << >>
<1>1. Len(<< >>) = 0
  OBVIOUS
<1>2. IsSlice(SliceTo(<< >>, ids, 0), << >>, ids, 0)
  BY SliceExists
<1>3. SliceTo(<< >>, ids, 0)[0] = << >>
  BY <1>2 DEF IsSlice
<1>4. QED
  BY <1>1, <1>3, SliceIs

LEMMA SliceAppend ==
  ASSUME NEW ids, NEW S, NEW events \in Seq(S), NEW e \in S
  PROVE  Slice(Append(events, e), ids) = Taken(Slice(events, ids), e, ids)
<1> DEFINE n == Len(events)
           more == Append(events, e)
           f == SliceTo(more, ids, n + 1)
           g == SliceTo(events, ids, n)
<1>1. /\ n \in Nat /\ Len(more) = n + 1 /\ more[n + 1] = e
      /\ \A i \in 1 .. n : events[i] = more[i]
  OBVIOUS
<1>2. IsSlice(f, more, ids, n + 1) /\ IsSlice(g, events, ids, n)
  BY <1>1, SliceExists
<1>3. Slice(more, ids) = f[n + 1] /\ Slice(events, ids) = g[n]
  BY <1>1, SliceIs
<1> HIDE DEF n, more, f, g
<1>4. f[n] = g[n]
  <2>1. n + 1 \in Nat /\ n <= n + 1
    BY <1>1
  <2>2. PICK m \in Nat : m = n + 1
    BY <2>1
  <2>3. n \in Nat /\ n <= m /\ \A i \in 1 .. n : events[i] = more[i]
    BY <1>1, <2>1, <2>2
  <2>4. IsSlice(f, more, ids, m) /\ IsSlice(g, events, ids, n)
    BY <1>2, <2>2
  <2>5. QED
    BY <2>2, <2>3, <2>4, SliceUnique
<1>5. f[n + 1] = Taken(f[n], more[n + 1], ids)
  <2>1. n + 1 \in 0 .. n + 1 /\ n + 1 # 0 /\ (n + 1) - 1 = n
    BY <1>1
  <2>2. f = [i \in 0 .. n + 1 |-> IF i = 0 THEN << >> ELSE Taken(f[i - 1], more[i], ids)]
    BY <1>2 DEF IsSlice
  <2>3. QED
    BY <2>1, <2>2
<1>6. QED
  BY <1>1, <1>3, <1>4, <1>5 DEF more
-----------------------------------------------------------------------------
(* Sealing: what a chain of appends makes of a ledger that verifies.        *)
IsSealed(f, records, drafts, k) ==
  f = [i \in 0 .. k |-> IF i = 0 THEN records
                        ELSE Appended(f[i - 1], drafts[i].actor, drafts[i].event)]

SealedTo(records, drafts, k) == CHOOSE f : IsSealed(f, records, drafts, k)

LEMMA SealedIs ==
  ASSUME NEW records, NEW drafts
  PROVE  Sealed(records, drafts) = SealedTo(records, drafts, Len(drafts))[Len(drafts)]
  BY DEF Sealed, SealedTo, IsSealed

LEMMA SealedExtends ==
  ASSUME NEW records, NEW drafts, NEW k \in Nat, NEW f, IsSealed(f, records, drafts, k)
  PROVE  \E g : IsSealed(g, records, drafts, k + 1)
<1> DEFINE g == [i \in 0 .. k + 1 |-> IF i <= k THEN f[i]
                  ELSE Appended(f[k], drafts[k + 1].actor, drafts[k + 1].event)]
<1>1. ASSUME NEW i \in 0 .. k + 1
      PROVE  g[i] = IF i = 0 THEN records
                    ELSE Appended(g[i - 1], drafts[i].actor, drafts[i].event)
  <2>1. ASSUME NEW n \in 0 .. k
        PROVE  f[n] = IF n = 0 THEN records
                      ELSE Appended(f[n - 1], drafts[n].actor, drafts[n].event)
    BY DEF IsSealed
  <2>2. CASE i = k + 1
    <3>1. /\ g[i] = Appended(f[k], drafts[i].actor, drafts[i].event) /\ i - 1 = k
          /\ g[k] = f[k] /\ i # 0
      BY <2>2
    <3>2. QED
      BY <3>1
  <2>3. CASE i \in 0 .. k
    <3>1. g[i] = f[i] /\ (i # 0 => i - 1 \in 0 .. k /\ g[i - 1] = f[i - 1])
      BY <2>3
    <3>2. QED
      BY <2>1, <2>3, <3>1
  <2>4. QED
    BY <2>2, <2>3
<1>2. IsSealed(g, records, drafts, k + 1)
  BY <1>1 DEF IsSealed
<1>3. QED
  BY <1>2

LEMMA SealedExists ==
  ASSUME NEW records, NEW drafts, NEW k \in Nat
  PROVE  IsSealed(SealedTo(records, drafts, k), records, drafts, k)
<1> DEFINE Without == {i \in Nat : ~ \E f : IsSealed(f, records, drafts, i)}
<1>1. ASSUME Without # {} PROVE FALSE
  <2>1. PICK m \in Without : \A i \in Without : m <= i
    BY <1>1, LeastElement, Zenon, Without \in SUBSET Nat
  <2>2. CASE m = 0
    <3>1. IsSealed([i \in 0 .. 0 |-> records], records, drafts, 0)
      BY DEF IsSealed
    <3>2. QED
      BY <3>1, <2>2, <2>1
  <2>3. CASE m # 0
    <3>1. m - 1 \in Nat /\ m - 1 \notin Without /\ (m - 1) + 1 = m
      BY <2>1, <2>3
    <3>2. PICK f : IsSealed(f, records, drafts, m - 1)
      BY <3>1
    <3>3. \E g : IsSealed(g, records, drafts, (m - 1) + 1)
      BY <3>1, <3>2, SealedExtends
    <3>4. QED
      BY <3>1, <3>3, <2>1
  <2>4. QED
    BY <2>2, <2>3
<1>2. \E f : IsSealed(f, records, drafts, k)
  BY <1>1
<1>3. QED
  BY <1>2 DEF SealedTo

(* One record more.                                                         *)
LEMMA RecordsMore ==
  ASSUME NEW s, Records(s), NEW r, IsRecord(r)
  PROVE  /\ Records(Append(s, r)) /\ Len(Append(s, r)) = Len(s) + 1
         /\ \A i \in 1 .. Len(s) : Append(s, r)[i] = s[i]
         /\ Append(s, r)[Len(s) + 1] = r
<1>1. PICK S : S = Range(s) \cup {r}
  OBVIOUS
<1>2. s \in Seq(S) /\ r \in S
  BY <1>1, SeqMonotonic DEF Records
<1>3. PICK t : t = Append(s, r)
  OBVIOUS
<1>4. /\ t \in Seq(S) /\ Len(s) \in Nat /\ Len(t) = Len(s) + 1
      /\ \A i \in 1 .. Len(s) : t[i] = s[i]
      /\ t[Len(s) + 1] = r
  BY <1>2, <1>3
<1>5. t \in Seq(Range(t))
  BY <1>4, SeqOfRange
<1>6. \A i \in 1 .. Len(t) : IsRecord(t[i])
  BY <1>4 DEF Records
<1>7. QED
  BY <1>3, <1>4, <1>5, <1>6 DEF Records

LEMMA SealIsRecord ==
  ASSUME NEW seq, NEW actor, NEW e, "shape" \in DOMAIN e, NEW prev
  PROVE  /\ IsRecord(Seal(seq, actor, e, prev))
         /\ Seal(seq, actor, e, prev).event = e /\ Seal(seq, actor, e, prev).seq = seq
         /\ Seal(seq, actor, e, prev).prev = prev
         /\ Seal(seq, actor, e, prev).content = ContentHash(e)
         /\ Seal(seq, actor, e, prev).entry = EntryHash(seq, actor, ContentHash(e), prev)
         /\ Seal(seq, actor, e, prev).actor = actor
  BY DEF Seal, IsRecord

LEMMA AppendedRecords ==
  ASSUME NEW s, Records(s), NEW actor, NEW e, "shape" \in DOMAIN e
  PROVE  /\ Records(Appended(s, actor, e)) /\ Len(Appended(s, actor, e)) = Len(s) + 1
         /\ \A i \in 1 .. Len(s) : Appended(s, actor, e)[i] = s[i]
         /\ Appended(s, actor, e)[Len(s) + 1].event = e
         /\ Verifies(s) => Verifies(Appended(s, actor, e))
<1>1. PICK seq : seq = IF s = << >> THEN 1 ELSE Last(s).seq + 1
  OBVIOUS
<1>2. PICK r : r = Seal(seq, actor, e, HeadHash(s))
  OBVIOUS
<1>3. PICK t : t = Append(s, r)
  OBVIOUS
<1>4. Appended(s, actor, e) = t
  BY <1>1, <1>2, <1>3 DEF Appended
<1>5. /\ IsRecord(r) /\ r.event = e /\ r.seq = seq /\ r.prev = HeadHash(s)
      /\ r.content = ContentHash(e) /\ r.actor = actor
      /\ r.entry = EntryHash(r.seq, r.actor, r.content, r.prev)
  BY <1>2, SealIsRecord
<1>6. /\ Records(t) /\ Len(t) = Len(s) + 1 /\ t[Len(s) + 1] = r
      /\ \A i \in 1 .. Len(s) : t[i] = s[i]
  BY <1>3, <1>5, RecordsMore
<1>7. Len(s) \in Nat /\ DOMAIN s = 1 .. Len(s) /\ DOMAIN t = 1 .. Len(t)
  <2>1. PICK S, T : S = Range(s) /\ T = Range(t)
    OBVIOUS
  <2>2. s \in Seq(S) /\ t \in Seq(T)
    BY <2>1, <1>6 DEF Records
  <2>3. QED
    BY <2>2
<1>8. ASSUME Verifies(s) PROVE Verifies(t)
  <2>1. ASSUME NEW i \in 1 .. Len(s)
        PROVE  Follows(t, i) /\ t[i].content = ContentHash(t[i].event)
    <3>1. Follows(s, i) /\ s[i].content = ContentHash(s[i].event)
      BY <1>7, <1>8 DEF Verifies
    <3>2. t[i] = s[i] /\ (i # 1 => t[i - 1] = s[i - 1])
      BY <1>6, <1>7
    <3>3. QED
      BY <3>1, <3>2 DEF Follows
  <2>2. Follows(t, Len(s) + 1) /\ r.content = ContentHash(r.event)
    <3>1. CASE s = << >>
      <4>1. Len(s) = 0 /\ HeadHash(s) = Genesis /\ seq = 1
        BY <3>1, <1>1 DEF HeadHash
      <4>2. QED
        BY <4>1, <1>5, <1>6 DEF Follows
    <3>2. CASE s # << >>
      <4>1. Len(s) # 0
        BY <1>7, <3>2, EmptySeq DEF Records
      <4>2. s[Len(s)].seq = Len(s)
        BY <1>7, <1>8, <4>1 DEF Verifies, Follows
      <4>3. HeadHash(s) = s[Len(s)].entry /\ seq = Len(s) + 1
        BY <1>1, <3>2, <4>2 DEF HeadHash, Last
      <4>4. t[Len(s)] = s[Len(s)] /\ (Len(s) + 1) - 1 = Len(s) /\ Len(s) + 1 # 1
        BY <1>6, <1>7, <4>1
      <4>5. QED
        BY <4>3, <4>4, <1>5, <1>6 DEF Follows
    <3>3. QED
      BY <3>1, <3>2
  <2>3. \A i \in 1 .. Len(t) : i \in 1 .. Len(s) \/ i = Len(s) + 1
    BY <1>6, <1>7
  <2>4. QED
    BY <1>6, <1>7, <2>1, <2>2, <2>3 DEF Verifies
<1>9. QED
  BY <1>4, <1>5, <1>6, <1>8

(* t is s with the drafts sealed after it.                                  *)
Continues(t, s, drafts, n) ==
  /\ Records(t) /\ Len(t) = Len(s) + n /\ (Verifies(s) => Verifies(t))
  /\ \A i \in 1 .. Len(s) : t[i] = s[i]
  /\ \A i \in 1 .. n : t[Len(s) + i].event = drafts[i].event

LEMMA SealedContinues ==
  ASSUME NEW s, Records(s), NEW D, NEW drafts \in Seq(D),
         \A i \in 1 .. Len(drafts) : "shape" \in DOMAIN drafts[i].event
  PROVE  Continues(Sealed(s, drafts), s, drafts, Len(drafts))
<1> DEFINE n == Len(drafts)
           f == SealedTo(s, drafts, n)
           Bad == {i \in 0 .. n : ~Continues(f[i], s, drafts, i)}
<1>1. n \in Nat /\ Len(s) \in Nat
  <2>1. PICK S : S = Range(s)
    OBVIOUS
  <2>2. s \in Seq(S)
    BY <2>1 DEF Records
  <2>3. QED
    BY <2>2
<1>2. IsSealed(f, s, drafts, n) /\ Sealed(s, drafts) = f[n]
  BY <1>1, SealedExists, SealedIs
<1> HIDE DEF f
<1>3. ASSUME Bad # {} PROVE FALSE
  <2>1. PICK m \in Bad : \A i \in Bad : m <= i
    <3>1. Bad \in SUBSET Nat
      BY <1>1
    <3>2. QED
      BY <3>1, <1>3, LeastElement, Zenon
  <2>2. CASE m = 0
    <3>1. f[0] = s
      BY <1>1, <1>2 DEF IsSealed
    <3>2. Continues(s, s, drafts, 0)
      BY <1>1 DEF Continues
    <3>3. QED
      BY <3>1, <3>2, <2>1, <2>2
  <2>3. CASE m # 0
    <3>1. m - 1 \in 0 .. n /\ m - 1 \notin Bad /\ m \in 1 .. n
      BY <1>1, <2>1, <2>3
    <3>2. f[m] = Appended(f[m - 1], drafts[m].actor, drafts[m].event)
      BY <1>2, <3>1 DEF IsSealed
    <3>3. PICK t : t = f[m - 1]
      OBVIOUS
    <3>4. Continues(t, s, drafts, m - 1)
      BY <3>1, <3>3
    <3>5. PICK u : u = f[m]
      OBVIOUS
    <3>6. /\ Records(u) /\ Len(u) = Len(t) + 1
          /\ \A i \in 1 .. Len(t) : u[i] = t[i]
          /\ u[Len(t) + 1].event = drafts[m].event
          /\ Verifies(t) => Verifies(u)
      <4>1. PICK a, e : a = drafts[m].actor /\ e = drafts[m].event
        OBVIOUS
      <4>2. Records(t) /\ "shape" \in DOMAIN e /\ u = Appended(t, a, e)
        BY <4>1, <3>1, <3>2, <3>3, <3>4, <3>5 DEF Continues
      <4>3. QED
        BY <4>1, <4>2, AppendedRecords
    <3>7. Len(t) = Len(s) + (m - 1) /\ Len(u) = Len(s) + m
      BY <3>4, <3>6, <3>1, <1>1 DEF Continues
    <3>8. ASSUME NEW i \in 1 .. Len(s) PROVE u[i] = s[i]
      BY <3>4, <3>6, <3>7, <3>1, <1>1 DEF Continues
    <3>9. ASSUME NEW i \in 1 .. m PROVE u[Len(s) + i].event = drafts[i].event
      <4>1. CASE i = m
        BY <4>1, <3>1, <3>6, <3>7, <1>1
      <4>2. CASE i \in 1 .. (m - 1)
        <5>1. Len(s) + i \in 1 .. Len(t)
          BY <4>2, <3>7, <3>1, <1>1
        <5>2. QED
          BY <5>1, <4>2, <3>4, <3>6 DEF Continues
      <4>3. QED
        BY <4>1, <4>2, <3>1, <1>1
    <3>10. Continues(u, s, drafts, m)
      BY <3>4, <3>6, <3>7, <3>8, <3>9 DEF Continues
    <3>11. QED
      BY <3>5, <3>10, <2>1
  <2>4. QED
    BY <2>2, <2>3
<1>4. n \in 0 .. n
  BY <1>1
<1>5. QED
  BY <1>2, <1>3, <1>4

(* The chain of an export: it verifies, and it is of those events.          *)
LEMMA ChainIs ==
  ASSUME NEW events \in Seq(Event)
  PROVE  Whole(Chain(events)) /\ EventsOf(Chain(events)) = events
<1> DEFINE drafts == [i \in DOMAIN events |-> [actor |-> "alice", event |-> events[i]]]
           D == [actor : {"alice"}, event : Event]
<1>1. Records(<< >>) /\ Verifies(<< >>) /\ Len(<< >>) = 0
  BY DEF Records, Verifies, Range
<1>2. drafts \in Seq(D) /\ Len(drafts) = Len(events) /\ Len(events) \in Nat
      /\ DOMAIN events = 1 .. Len(events)
  <2>1. Len(events) \in Nat /\ DOMAIN events = 1 .. Len(events)
    OBVIOUS
  <2>2. ASSUME NEW i \in 1 .. Len(events)
        PROVE  [actor |-> "alice", event |-> events[i]] \in D
    OBVIOUS
  <2> HIDE DEF D
  <2>3. drafts \in [1 .. Len(events) -> D]
    BY <2>1, <2>2
  <2>4. drafts \in Seq(D) /\ Len(drafts) = Len(events)
    BY <2>1, <2>3
  <2>5. QED
    BY <2>1, <2>4
<1>3. \A i \in 1 .. Len(drafts) :
        drafts[i].event = events[i] /\ "shape" \in DOMAIN drafts[i].event
  BY <1>2 DEF Event
<1>4. Chain(events) = Sealed(<< >>, drafts)
  BY DEF Chain
<1> HIDE DEF drafts, D
<1>5. PICK t : t = Chain(events)
  OBVIOUS
<1>6. Continues(t, << >>, drafts, Len(drafts))
  BY <1>1, <1>2, <1>3, <1>4, <1>5, SealedContinues
<1>7. /\ Records(t) /\ Verifies(t) /\ Len(t) = Len(events)
      /\ \A i \in 1 .. Len(events) : t[i].event = events[i]
  BY <1>1, <1>2, <1>3, <1>6 DEF Continues
<1>8. DOMAIN t = 1 .. Len(t)
  <2>1. PICK S : S = Range(t)
    OBVIOUS
  <2>2. t \in Seq(S)
    BY <2>1, <1>7 DEF Records
  <2>3. QED
    BY <2>2
<1>9. EventsOf(t) = events
  BY <1>2, <1>7, <1>8 DEF EventsOf
<1>10. QED
  BY <1>5, <1>7, <1>9 DEF Whole
-----------------------------------------------------------------------------
(* The source and its slices.                                               *)
LEMMA ProjectedImages ==
  ASSUME NEW image \in Images, NEW e \in Event
  PROVE  /\ Projected(image, e) \in Images
         /\ ~image.raised /\ Needs(e) \subseteq image.known => ~Projected(image, e).raised
         /\ image.raised => Projected(image, e).raised
  BY DEF Projected, Images, Event, Obj

LEMMA ProjectedCloses ==
  ASSUME NEW image \in Images, NEW e \in Event, image.closed \subseteq image.known
  PROVE  Projected(image, e).closed \subseteq Projected(image, e).known
<1>1. CASE image.raised \/ ~(Needs(e) \subseteq image.known)
  BY <1>1 DEF Projected, Images
<1>2. CASE ~image.raised /\ Needs(e) \subseteq image.known
  BY <1>2 DEF Projected, Images, Needs, Event
<1>3. QED
  BY <1>1, <1>2 DEF Images

LEMMA TakenAgrees ==
  ASSUME NEW image \in Images, NEW part \in Images, NEW ids \in SUBSET Obj, NEW e \in Event,
         ~image.raised, Needs(e) \subseteq image.known, Agrees(image, part, ids),
         e.op = "claim_retracted" => e.about \notin Fact
  PROVE  Agrees(Projected(image, e),
                IF Names(e) /\ e.about \in ids THEN Projected(part, e) ELSE part, ids)
<1>1. PICK next, new :
        /\ next = Projected(image, e)
        /\ new = IF Names(e) /\ e.about \in ids THEN Projected(part, e) ELSE part
  OBVIOUS
<1>2. e.op \in {"fact_asserted", "claim_asserted", "fact_closed", "claim_retracted",
                "contradiction_recorded"}
  BY DEF Event
<1>3. CASE part.raised
  <2>1. Projected(part, e).raised
    BY <1>3, ProjectedImages
  <2>2. new.raised
    BY <1>1, <1>3, <2>1
  <2>3. QED
    BY <1>1, <2>2 DEF Agrees
<1>4. CASE ~part.raised /\ e.op \in {"fact_asserted", "claim_asserted"}
  <2>1. Needs(e) = {} /\ Names(e)
    BY <1>4 DEF Needs, Names
  <2>2. next.known = image.known \cup {e.about} /\ next.closed = image.closed \ {e.about}
    BY <1>1, <1>4, <2>1 DEF Projected, Images
  <2>3. CASE e.about \in ids
    <3>1. new.known = part.known \cup {e.about} /\ new.closed = part.closed \ {e.about}
      BY <1>1, <1>4, <2>1, <2>3 DEF Projected, Images
    <3>2. QED
      BY <1>1, <1>4, <2>2, <2>3, <3>1 DEF Agrees
  <2>4. CASE e.about \notin ids
    BY <1>1, <1>4, <2>2, <2>4 DEF Agrees
  <2>5. QED
    BY <2>3, <2>4
<1>5. CASE ~part.raised /\ e.op = "fact_closed"
  <2>1. Needs(e) = {e.about} /\ Names(e)
    BY <1>5 DEF Needs, Names
  <2>2. next.known = image.known /\ next.closed = image.closed \cup {e.about}
    BY <1>1, <1>5, <2>1 DEF Projected, Images
  <2>3. CASE e.about \in ids
    <3>1. e.about \in part.known
      BY <1>5, <2>1, <2>3 DEF Agrees
    <3>2. new.known = part.known /\ new.closed = part.closed \cup {e.about}
      BY <1>1, <1>5, <2>1, <2>3, <3>1 DEF Projected, Images
    <3>3. QED
      BY <1>1, <1>5, <2>2, <2>3, <3>2 DEF Agrees
  <2>4. CASE e.about \notin ids
    BY <1>1, <1>5, <2>2, <2>4 DEF Agrees
  <2>5. QED
    BY <2>3, <2>4
<1>6. CASE ~part.raised /\ e.op = "claim_retracted"
  <2>1. Needs(e) = {e.about} /\ ~Names(e) /\ e.about \notin Fact
    BY <1>6 DEF Needs, Names
  <2>2. next.known = image.known /\ next.closed = image.closed \cup {e.about}
    BY <1>1, <1>6, <2>1 DEF Projected, Images
  <2>3. QED
    BY <1>1, <1>6, <2>1, <2>2 DEF Agrees
<1>7. CASE ~part.raised /\ e.op = "contradiction_recorded"
  <2>1. next = image
    BY <1>1, <1>7 DEF Projected, Images
  <2>2. new = part \/ new.raised
    BY <1>1, <1>7 DEF Projected, Images
  <2>3. QED
    BY <1>1, <1>7, <2>1, <2>2 DEF Agrees
<1>8. QED
  BY <1>2, <1>3, <1>4, <1>5, <1>6, <1>7

LEMMA SourceGrows ==
  ASSUME SourceInv, NEW e \in Event, source' = Append(source, e),
         Needs(e) \subseteq Image(source).known,
         e.op = "claim_retracted" => e.about \notin Fact,
         readable' \subseteq Obj, listed' = listed
  PROVE  SourceInv'
<1>1. PICK s, image : s = source /\ image = Image(s)
  OBVIOUS
<1>2. /\ s \in Seq(Event) /\ image \in Images /\ ~image.raised
      /\ image.closed \subseteq image.known
  BY <1>1 DEF SourceInv
<1>3. PICK t : t = Append(s, e)
  OBVIOUS
<1>4. t \in Seq(Event) /\ Image(t) = Projected(image, e)
  BY <1>1, <1>2, <1>3, ImageAppend
<1>5. /\ Image(t) \in Images /\ ~Image(t).raised /\ Image(t).closed \subseteq Image(t).known
  BY <1>1, <1>2, <1>4, ProjectedImages, ProjectedCloses
<1>6. ASSUME NEW ids \in SUBSET Obj
      PROVE  /\ Slice(t, ids) \in Seq(Event) /\ Image(Slice(t, ids)) \in Images
             /\ Agrees(Image(t), Image(Slice(t, ids)), ids)
  <2>1. PICK p, part : p = Slice(s, ids) /\ part = Image(p)
    OBVIOUS
  <2>2. p \in Seq(Event) /\ part \in Images /\ Agrees(image, part, ids)
    BY <1>1, <2>1 DEF SourceInv
  <2>3. Slice(t, ids) = Taken(p, e, ids)
    BY <1>2, <1>3, <2>1, SliceAppend
  <2>4. Taken(p, e, ids) \in Seq(Event)
    BY <2>2 DEF Taken
  <2>5. Image(Taken(p, e, ids)) = IF Names(e) /\ e.about \in ids THEN Projected(part, e) ELSE part
    BY <2>1, <2>2, ImageAppend DEF Taken
  <2>6. Image(Taken(p, e, ids)) \in Images
    BY <2>2, <2>5, ProjectedImages
  <2>7. Agrees(Projected(image, e), Image(Taken(p, e, ids)), ids)
    BY <1>1, <1>2, <2>2, <2>5, TakenAgrees
  <2>8. QED
    BY <1>4, <2>3, <2>4, <2>6, <2>7
<1>7. source' = t
  BY <1>1, <1>3
<1>8. QED
  BY <1>4, <1>5, <1>6, <1>7 DEF SourceInv

LEMMA SourceInit == Init => SourceInv
<1> SUFFICES ASSUME Init PROVE SourceInv
  OBVIOUS
<1>1. NoImage \in Images /\ NoImage.known = {} /\ NoImage.closed = {} /\ NoImage.raised = FALSE
  BY DEF NoImage, Images
<1>2. /\ source = << >> /\ readable = {} /\ listed = None
      /\ Image(<< >>) = NoImage /\ << >> \in Seq(Event)
  BY ImageEmpty DEF Init
<1>3. ASSUME NEW ids \in SUBSET Obj
      PROVE  /\ Slice(source, ids) \in Seq(Event) /\ Image(Slice(source, ids)) \in Images
             /\ Agrees(Image(source), Image(Slice(source, ids)), ids)
  <2>1. Slice(source, ids) = << >>
    BY <1>2, SliceEmpty
  <2>2. Agrees(NoImage, NoImage, ids)
    BY <1>1 DEF Agrees
  <2>3. QED
    BY <1>1, <1>2, <2>1, <2>2
<1>4. QED
  BY <1>1, <1>2, <1>3 DEF SourceInv

(* What the calls of the source leave behind.                               *)
SourceNext ==
  \/ \E o \in Obj : AssertObject(o) \/ CloseObject(o) \/ Readmit(o)
  \/ \E o, other \in Fact : Contradict(o, other)

LEMMA SourceStep ==
  ASSUME SourceInv, SourceNext
  PROVE  SourceInv' /\ package = None /\ UNCHANGED <<packageVars, targetVars>>
<1>1. ASSUME NEW o \in Obj, AssertObject(o)
      PROVE  SourceInv' /\ package = None /\ UNCHANGED <<packageVars, targetVars>>
  <2>1. PICK e : e = [op |-> IF o \in Fact THEN "fact_asserted" ELSE "claim_asserted",
                      about |-> o, other |-> None, shape |-> "v1"]
    OBVIOUS
  <2>2. e \in Event /\ Needs(e) = {} /\ e.op # "claim_retracted"
    BY <2>1 DEF Event, Needs
  <2>3. source' = Append(source, e) /\ readable' \subseteq Obj
        /\ package = None /\ UNCHANGED <<listed, packageVars, targetVars>>
    BY <1>1, <2>1 DEF AssertObject, Emit, SourceInv
  <2>4. QED
    BY <2>2, <2>3, SourceGrows
<1>2. ASSUME NEW o \in Obj, CloseObject(o)
      PROVE  SourceInv' /\ package = None /\ UNCHANGED <<packageVars, targetVars>>
  <2>1. PICK e : e = [op |-> IF o \in Fact THEN "fact_closed" ELSE "claim_retracted",
                      about |-> o, other |-> None, shape |-> "v1"]
    OBVIOUS
  <2>2. e \in Event /\ Needs(e) = {o} /\ (e.op = "claim_retracted" => e.about \notin Fact)
    BY <2>1 DEF Event, Needs
  <2>3. /\ source' = Append(source, e) /\ readable' = readable /\ o \in Image(source).known
        /\ package = None /\ UNCHANGED <<listed, packageVars, targetVars>>
    BY <1>2, <2>1 DEF CloseObject, Emit
  <2>4. QED
    BY <2>2, <2>3, SourceGrows DEF SourceInv
<1>3. ASSUME NEW o \in Fact, NEW other \in Fact, Contradict(o, other)
      PROVE  SourceInv' /\ package = None /\ UNCHANGED <<packageVars, targetVars>>
  <2>1. PICK e : e = [op |-> "contradiction_recorded", about |-> o, other |-> other,
                      shape |-> "v1"]
    OBVIOUS
  <2>2. e \in Event /\ Needs(e) = {o, other} /\ e.op # "claim_retracted"
    BY <2>1 DEF Event, Needs, Obj
  <2>3. /\ source' = Append(source, e) /\ readable' = readable
        /\ {o, other} \subseteq Image(source).known
        /\ package = None /\ UNCHANGED <<listed, packageVars, targetVars>>
    BY <1>3, <2>1 DEF Contradict, Emit
  <2>4. QED
    BY <2>2, <2>3, SourceGrows DEF SourceInv
<1>4. ASSUME NEW o \in Obj, Readmit(o)
      PROVE  SourceInv' /\ package = None /\ UNCHANGED <<packageVars, targetVars>>
  BY <1>4 DEF Readmit, SourceInv
<1>5. QED
  BY <1>1, <1>2, <1>3, <1>4 DEF SourceNext
-----------------------------------------------------------------------------
(* The exports.                                                             *)
LEMMA DomainOf ==
  ASSUME NEW s, Records(s)
  PROVE  Len(s) \in Nat /\ DOMAIN s = 1 .. Len(s)
<1>1. PICK S : S = Range(s)
  OBVIOUS
<1>2. s \in Seq(S)
  BY <1>1 DEF Records
<1>3. QED
  BY <1>2

LEMMA PackStep ==
  ASSUME NEW events \in Seq(Event), NEW scoped \in BOOLEAN, NEW version \in {0, 1},
         Pack(events, scoped, version), resealed \in BOOLEAN,
         scoped /\ ~Image(events).raised =>
           Image(events).closed \cap Fact = Image(source).closed \cap Image(events).known \cap Fact
  PROVE  PackageInv' /\ package = None /\ UNCHANGED <<source, readable, targetVars>>
<1>1. PICK chain : chain = Chain(events)
  OBVIOUS
<1>2. Whole(chain) /\ EventsOf(chain) = events
  BY <1>1, ChainIs
<1>3. /\ package = None /\ genuine' = chain /\ resealed' = resealed
      /\ package' = [records |-> chain, scoped |-> scoped, version |-> version, chained |-> TRUE]
      /\ settled' = Image(source).closed /\ UNCHANGED <<source, readable, targetVars>>
  BY <1>1 DEF Pack
<1>4. /\ package'.records = chain /\ package'.version = version /\ package'.scoped = scoped
      /\ DOMAIN package' = {"records", "scoped", "version", "chained"}
  BY <1>3
<1>5. Records(chain)
  BY <1>2 DEF Whole
<1>6. SliceKeepsFates'
  <2>1. PICK image : image = Image(events)
    OBVIOUS
  <2>2. Image(EventsOf(genuine))' = image
    BY <1>2, <1>3, <2>1
  <2>3. scoped /\ ~image.raised => image.closed \cap Fact = settled' \cap image.known \cap Fact
    BY <1>3, <2>1
  <2>4. QED
    BY <1>4, <2>2, <2>3 DEF SliceKeepsFates
<1>7. \A i \in 1 .. Len(chain) : \E j \in 1 .. Len(chain) : chain[i].entry = chain[j].entry
  OBVIOUS
<1>8. QED
  BY <1>2, <1>3, <1>4, <1>5, <1>6, <1>7 DEF PackageInv

ExportNext == ExportWhole \/ ExportOld \/ ListReadable \/ ExportScoped

LEMMA ExportStep ==
  ASSUME TransferInv, ExportNext
  PROVE  /\ SourceInv' /\ PackageInv' /\ package = None
         /\ UNCHANGED targetVars
<1>0. source \in Seq(Event) /\ readable \subseteq Obj /\ resealed \in BOOLEAN
  BY DEF TransferInv, SourceInv
<1>1. CASE ExportWhole
  <2>1. PackageInv' /\ package = None /\ UNCHANGED <<source, readable, targetVars>> /\ listed' = None
    BY <1>0, <1>1, PackStep DEF ExportWhole
  <2>2. SourceInv'
    BY <2>1 DEF TransferInv, SourceInv
  <2>3. QED
    BY <2>1, <2>2
<1>2. CASE ExportOld
  <2>1. PICK old : old = [i \in DOMAIN source |-> [source[i] EXCEPT !.shape = "v0"]]
    OBVIOUS
  <2>2. old \in Seq(Event)
    <3>1. DOMAIN source = 1 .. Len(source) /\ Len(source) \in Nat
      BY <1>0
    <3>2. ASSUME NEW i \in 1 .. Len(source) PROVE [source[i] EXCEPT !.shape = "v0"] \in Event
      <4>1. PICK e : e = source[i]
        OBVIOUS
      <4>2. e \in Event
        BY <1>0, <4>1
      <4>3. [e EXCEPT !.shape = "v0"] \in Event
        BY <4>2 DEF Event
      <4>4. QED
        BY <4>1, <4>3
    <3>3. old \in [1 .. Len(source) -> Event]
      BY <2>1, <3>1, <3>2
    <3>4. QED
      BY <3>1, <3>3
  <2>3. Pack(old, FALSE, 0) /\ listed' = None
    BY <1>2, <2>1 DEF ExportOld
  <2>4. PackageInv' /\ package = None /\ UNCHANGED <<source, readable, targetVars>>
    BY <1>0, <2>2, <2>3, PackStep
  <2>5. SourceInv'
    BY <2>3, <2>4 DEF TransferInv, SourceInv
  <2>6. QED
    BY <2>4, <2>5
<1>3. CASE ListReadable
  <2>1. /\ package = None /\ listed' = readable
        /\ UNCHANGED <<source, readable, package, targetVars>>
    BY <1>3 DEF ListReadable, packageVars
  <2>2. SourceInv'
    BY <2>1 DEF TransferInv, SourceInv
  <2>3. PackageInv'
    BY <2>1 DEF PackageInv
  <2>4. QED
    BY <2>1, <2>2, <2>3
<1>4. CASE ExportScoped
  <2>1. PICK ids, part, image, all :
          /\ ids = listed /\ part = Slice(source, ids) /\ image = Image(part)
          /\ all = Image(source)
    OBVIOUS
  <2>2. ids \in SUBSET Obj /\ Pack(part, TRUE, 1) /\ listed' = None
    BY <1>4, <2>1 DEF ExportScoped, TransferInv, SourceInv
  <2>3. part \in Seq(Event) /\ Agrees(all, image, ids) /\ all.closed \subseteq all.known
    BY <2>1, <2>2 DEF TransferInv, SourceInv
  <2>4. ~image.raised => image.closed \cap Fact = all.closed \cap image.known \cap Fact
    BY <2>3 DEF Agrees
  <2>5. PackageInv' /\ package = None /\ UNCHANGED <<source, readable, targetVars>>
    BY <1>0, <2>1, <2>2, <2>3, <2>4, PackStep
  <2>6. SourceInv'
    BY <2>2, <2>5 DEF TransferInv, SourceInv
  <2>7. QED
    BY <2>5, <2>6
<1>5. QED
  BY <1>1, <1>2, <1>3, <1>4 DEF ExportNext
-----------------------------------------------------------------------------
(* Damage: what it leaves are records, and none with an entry hash that was *)
(* not there, unless somebody computed it.                                  *)
Worn(new, old) ==
  /\ Records(new)
  /\ \A i \in 1 .. Len(new) : \E j \in 1 .. Len(old) : new[i].entry = old[j].entry

LEMMA RecordsFrom ==
  ASSUME NEW R, \A r \in R : IsRecord(r), NEW s \in Seq(R)
  PROVE  Records(s)
  BY SeqOfRange DEF Records

LEMMA WornFrom ==
  ASSUME NEW old, Records(old), NEW R, NEW new \in Seq(R),
         \A r \in R : IsRecord(r) /\ \E j \in 1 .. Len(old) : r.entry = old[j].entry
  PROVE  Worn(new, old)
<1>1. Records(new)
  BY RecordsFrom
<1>2. \A i \in 1 .. Len(new) : new[i] \in R
  OBVIOUS
<1>3. QED
  BY <1>1, <1>2 DEF Worn

LEMMA EditWears ==
  ASSUME NEW old, Records(old), NEW i \in DOMAIN old, NEW r, IsRecord(r)
  PROVE  /\ Records([old EXCEPT ![i] = r])
         /\ \A k \in DOMAIN old : r.entry = old[k].entry => Worn([old EXCEPT ![i] = r], old)
<1>1. PICK n : n = Len(old)
  OBVIOUS
<1>2. n \in Nat /\ DOMAIN old = 1 .. n
  BY <1>1, DomainOf
<1>3. PICK new : new = [old EXCEPT ![i] = r]
  OBVIOUS
<1>4. PICK R : R = Range(old) \cup {r}
  OBVIOUS
<1>5. /\ new \in [1 .. n -> R]
      /\ \A k \in 1 .. n : new[k] = IF k = i THEN r ELSE old[k]
  BY <1>2, <1>3, <1>4 DEF Range
<1>6. new \in Seq(R) /\ \A q \in R : IsRecord(q)
  <2>1. new \in Seq(R)
    BY <1>2, <1>5
  <2>2. \A q \in R : IsRecord(q)
    BY <1>1, <1>2, <1>4 DEF Range, Records
  <2>3. QED
    BY <2>1, <2>2
<1>7. Records(new)
  BY <1>6, RecordsFrom
<1>8. Len(new) = n
  BY <1>2, <1>5
<1>9. ASSUME NEW k \in DOMAIN old, r.entry = old[k].entry PROVE Worn(new, old)
  BY <1>1, <1>2, <1>5, <1>7, <1>8, <1>9 DEF Worn
<1>10. QED
  BY <1>3, <1>7, <1>9

LEMMA LossWears ==
  ASSUME NEW old, Records(old), NEW i \in DOMAIN old
  PROVE  Worn(RemoveAt(old, i), old) /\ Worn(InsertAt(old, i, old[i]), old)
<1>1. PICK n, R : n = Len(old) /\ R = Range(old)
  OBVIOUS
<1>2. n \in Nat /\ DOMAIN old = 1 .. n /\ old \in Seq(R) /\ i \in 1 .. n
  BY <1>1, DomainOf DEF Records
<1>3. \A r \in R : IsRecord(r) /\ \E j \in 1 .. Len(old) : r.entry = old[j].entry
  BY <1>1, <1>2 DEF Range, Records
<1>4. old[i] \in R
  BY <1>2
<1>5. /\ SubSeq(old, 1, i - 1) \in Seq(R) /\ SubSeq(old, i + 1, Len(old)) \in Seq(R)
      /\ SubSeq(old, i, Len(old)) \in Seq(R) /\ <<old[i]>> \in Seq(R)
  <2>1. \A j \in 1 .. n : old[j] \in R
    BY <1>2
  <2>2. SubSeq(old, 1, i - 1) \in Seq(R)
    BY <1>1, <1>2, <2>1, SubSeqProperties
  <2>3. SubSeq(old, i + 1, Len(old)) \in Seq(R)
    BY <1>1, <1>2, <2>1, SubSeqProperties
  <2>4. SubSeq(old, i, Len(old)) \in Seq(R)
    BY <1>1, <1>2, <2>1, SubSeqProperties
  <2>5. QED
    BY <1>4, <2>2, <2>3, <2>4
<1>6. PICK a, b, c, d :
        /\ a = SubSeq(old, 1, i - 1) /\ b = SubSeq(old, i + 1, Len(old))
        /\ c = SubSeq(old, i, Len(old)) /\ d = <<old[i]>>
  OBVIOUS
<1>7. a \o b \in Seq(R) /\ (a \o d) \o c \in Seq(R)
  BY <1>5, <1>6
<1>8. RemoveAt(old, i) \in Seq(R) /\ InsertAt(old, i, old[i]) \in Seq(R)
  BY <1>6, <1>7 DEF RemoveAt, InsertAt
<1>9. QED
  BY <1>3, <1>8, WornFrom

LEMMA ExchangeWears ==
  ASSUME NEW old, Records(old), NEW i \in DOMAIN old, NEW j \in DOMAIN old
  PROVE  Worn([old EXCEPT ![i] = old[j], ![j] = old[i]], old)
<1>1. PICK n, R : n = Len(old) /\ R = Range(old)
  OBVIOUS
<1>2. n \in Nat /\ DOMAIN old = 1 .. n /\ old \in Seq(R)
  BY <1>1, DomainOf DEF Records
<1>3. \A r \in R : IsRecord(r) /\ \E k \in 1 .. Len(old) : r.entry = old[k].entry
  BY <1>1, <1>2 DEF Range, Records
<1>4. PICK new : new = [old EXCEPT ![i] = old[j], ![j] = old[i]]
  OBVIOUS
<1>5. new \in [1 .. n -> R]
  BY <1>2, <1>4
<1>6. new \in Seq(R)
  BY <1>2, <1>5
<1>7. Worn(new, old)
  BY <1>3, <1>6, WornFrom
<1>8. QED
  BY <1>4, <1>7

LEMMA EditedRecord ==
  ASSUME NEW r, IsRecord(r), NEW o
  PROVE  /\ IsRecord([r EXCEPT !.event.about = o]) /\ [r EXCEPT !.event.about = o].entry = r.entry
         /\ "shape" \in DOMAIN [r.event EXCEPT !.about = o]
<1>1. PICK e : e = [r.event EXCEPT !.about = o]
  OBVIOUS
<1>2. "shape" \in DOMAIN e
  BY <1>1 DEF IsRecord
<1>3. DOMAIN r = {"seq", "actor", "event", "content", "prev", "entry"}
  BY DEF IsRecord
<1>4. [r EXCEPT !.event.about = o] = [r EXCEPT !.event = e]
  BY <1>1
<1>5. IsRecord([r EXCEPT !.event = e]) /\ [r EXCEPT !.event = e].entry = r.entry
  BY <1>2, <1>3 DEF IsRecord
<1>6. QED
  BY <1>1, <1>2, <1>4, <1>5

LEMMA EditedFields ==
  ASSUME NEW r, IsRecord(r), NEW x, NEW q,
         \/ q = [r EXCEPT !.actor = x] \/ q = [r EXCEPT !.seq = x]
         \/ q = [r EXCEPT !.content = x] \/ q = [r EXCEPT !.prev = x]
  PROVE  IsRecord(q) /\ q.entry = r.entry
<1>1. DOMAIN r = {"seq", "actor", "event", "content", "prev", "entry"}
  BY DEF IsRecord
<1>2. CASE q = [r EXCEPT !.actor = x]
  BY <1>1, <1>2 DEF IsRecord
<1>3. CASE q = [r EXCEPT !.seq = x]
  BY <1>1, <1>3 DEF IsRecord
<1>4. CASE q = [r EXCEPT !.content = x]
  BY <1>1, <1>4 DEF IsRecord
<1>5. CASE q = [r EXCEPT !.prev = x]
  BY <1>1, <1>5 DEF IsRecord
<1>6. QED
  BY <1>2, <1>3, <1>4, <1>5

(* One more change to a package keeps what PackageInv says of it.           *)
LEMMA DamagedKeeps ==
  ASSUME TransferInv, NEW records, NEW chained, NEW reseals \in BOOLEAN,
         package # None, importing = None, imported = None,
         package' = [package EXCEPT !.records = records, !.chained = chained],
         resealed' = (resealed \/ reseals),
         UNCHANGED <<genuine, settled, sourceVars, targetVars>>,
         Records(records), ~reseals => Worn(records, package.records)
  PROVE  TransferInv'
<1>1. /\ Whole(genuine) /\ Records(package.records)
      /\ DOMAIN package = {"records", "scoped", "version", "chained"}
      /\ package.version \in {0, 1} /\ SliceKeepsFates
      /\ ~resealed => \A i \in 1 .. Len(package.records) : \E j \in 1 .. Len(genuine) :
                        package.records[i].entry = genuine[j].entry
  BY DEF TransferInv, PackageInv
<1>2. /\ package'.records = records /\ package'.scoped = package.scoped
      /\ package'.version = package.version
      /\ DOMAIN package' = {"records", "scoped", "version", "chained"}
  BY <1>1
<1>3. resealed' \in BOOLEAN /\ (~resealed' => ~resealed /\ ~reseals)
  BY DEF TransferInv
<1>4. ASSUME ~resealed, ~reseals, NEW i \in 1 .. Len(records)
      PROVE  \E j \in 1 .. Len(genuine) : records[i].entry = genuine[j].entry
  <2>1. PICK k \in 1 .. Len(package.records) : records[i].entry = package.records[k].entry
    BY <1>4 DEF Worn
  <2>2. QED
    BY <1>1, <1>4, <2>1
<1>5. SliceKeepsFates'
  BY <1>1, <1>2 DEF SliceKeepsFates
<1>6. PackageInv'
  BY <1>1, <1>2, <1>3, <1>4, <1>5 DEF PackageInv
<1>7. SourceInv'
  BY DEF TransferInv, SourceInv, sourceVars
<1>8. TargetInv'
  BY DEF TransferInv, TargetInv, targetVars
<1>9. QED
  BY <1>3, <1>6, <1>7, <1>8 DEF TransferInv

LEMMA DamagedWith ==
  ASSUME TransferInv, NEW records, NEW reseals \in BOOLEAN, Damaged(With(records), reseals),
         Records(records), ~reseals => Worn(records, package.records)
  PROVE  TransferInv'
<1>1. /\ package # None /\ importing = None /\ imported = None
      /\ package' = [package EXCEPT !.records = records]
      /\ resealed' = (resealed \/ reseals)
      /\ UNCHANGED <<genuine, settled, sourceVars, targetVars>>
  BY DEF Damaged, With
<1>2. DOMAIN package = {"records", "scoped", "version", "chained"}
  BY <1>1 DEF TransferInv, PackageInv
<1>3. PICK chained : chained = package.chained
  OBVIOUS
<1>4. package' = [package EXCEPT !.records = records, !.chained = chained]
  BY <1>1, <1>2, <1>3
<1>5. QED
  BY <1>1, <1>4, DamagedKeeps

DamageNext == DamageRecord \/ StripChain

LEMMA DamageStep ==
  ASSUME TransferInv, DamageNext
  PROVE  TransferInv'
<1>1. CASE DamageRecord
  <2>1. PICK old : old = package.records
    OBVIOUS
  <2>2. Records(old)
    BY <1>1, <2>1 DEF DamageRecord, TransferInv, PackageInv
  <2>3. PICK i \in DOMAIN old, other \in {old[k] : k \in DOMAIN old} :
          \/ \E o \in Obj : Damaged(With([old EXCEPT ![i].event.about = o]), FALSE)
          \/ Damaged(With([old EXCEPT ![i].actor = "carol"]), FALSE)
          \/ Damaged(With([old EXCEPT ![i].seq = old[i].seq + 1]), FALSE)
          \/ Damaged(With([old EXCEPT ![i].content = other.content]), FALSE)
          \/ Damaged(With([old EXCEPT ![i].prev = other.prev]), FALSE)
          \/ Damaged(With([old EXCEPT ![i].entry = other.entry]), FALSE)
          \/ Damaged(With(RemoveAt(old, i)), FALSE)
          \/ Damaged(With(InsertAt(old, i, old[i])), FALSE)
          \/ \E j \in DOMAIN old :
               Damaged(With([old EXCEPT ![i] = old[j], ![j] = old[i]]), FALSE)
          \/ \E o \in Obj :
               Damaged(With([old EXCEPT ![i] = Seal(old[i].seq, old[i].actor,
                 [old[i].event EXCEPT !.about = o], old[i].prev)]), TRUE)
          \/ Damaged(With(Appended(old, "carol", old[i].event)), TRUE)
    <3>1. \A i \in DOMAIN old : (i % Len(old)) + 1 \in DOMAIN old
      BY <2>2, DomainOf DEF Records
    <3>2. \A i \in DOMAIN old : old[(i % Len(old)) + 1] \in {old[k] : k \in DOMAIN old}
      BY <3>1
    <3>3. QED
      BY <1>1, <2>1, <3>2, Zenon DEF DamageRecord
  <2>4. PICK r : r = old[i]
    OBVIOUS
  <2>5. IsRecord(r)
    BY <2>2, <2>4, DomainOf DEF Records
  <2>6. ASSUME NEW new, Worn(new, old), Damaged(With(new), FALSE) PROVE TransferInv'
    BY <2>1, <2>6, DamagedWith DEF Worn
  <2>7. ASSUME NEW q, IsRecord(q), NEW k \in DOMAIN old, q.entry = old[k].entry
        PROVE  Worn([old EXCEPT ![i] = q], old)
    BY <2>2, <2>7, EditWears
  <2>8. ASSUME NEW o
        PROVE  Worn([old EXCEPT ![i].event.about = o], old)
    <3>1. PICK q : q = [r EXCEPT !.event.about = o]
      OBVIOUS
    <3>2. IsRecord(q) /\ q.entry = old[i].entry
      BY <2>4, <2>5, <3>1, EditedRecord
    <3>3. [old EXCEPT ![i].event.about = o] = [old EXCEPT ![i] = q]
      BY <2>4, <3>1
    <3>4. QED
      BY <2>7, <3>2, <3>3
  <2>9. ASSUME NEW x
        PROVE  /\ Worn([old EXCEPT ![i].actor = x], old) /\ Worn([old EXCEPT ![i].seq = x], old)
               /\ Worn([old EXCEPT ![i].content = x], old) /\ Worn([old EXCEPT ![i].prev = x], old)
    <3>1. ASSUME NEW q,
                 \/ q = [r EXCEPT !.actor = x] \/ q = [r EXCEPT !.seq = x]
                 \/ q = [r EXCEPT !.content = x] \/ q = [r EXCEPT !.prev = x]
          PROVE  Worn([old EXCEPT ![i] = q], old)
      <4>1. IsRecord(q) /\ q.entry = r.entry
        BY <2>5, <3>1, EditedFields
      <4>2. QED
        BY <2>4, <2>7, <4>1
    <3>2. /\ [old EXCEPT ![i].actor = x] = [old EXCEPT ![i] = [r EXCEPT !.actor = x]]
          /\ [old EXCEPT ![i].seq = x] = [old EXCEPT ![i] = [r EXCEPT !.seq = x]]
          /\ [old EXCEPT ![i].content = x] = [old EXCEPT ![i] = [r EXCEPT !.content = x]]
          /\ [old EXCEPT ![i].prev = x] = [old EXCEPT ![i] = [r EXCEPT !.prev = x]]
      BY <2>4
    <3>3. QED
      BY <3>1, <3>2
  <2>10. Worn([old EXCEPT ![i].entry = other.entry], old)
    <3>1. PICK k \in DOMAIN old : other = old[k]
      BY <2>3
    <3>2. PICK x, q : x = other.entry /\ q = [r EXCEPT !.entry = x]
      OBVIOUS
    <3>3. IsRecord(q) /\ q.entry = x
      BY <2>5, <3>2 DEF IsRecord
    <3>4. [old EXCEPT ![i].entry = x] = [old EXCEPT ![i] = q]
      BY <2>4, <3>2
    <3>5. QED
      BY <2>7, <3>1, <3>2, <3>3, <3>4
  <2>11. Worn(RemoveAt(old, i), old) /\ Worn(InsertAt(old, i, old[i]), old)
    BY <2>2, LossWears
  <2>12. ASSUME NEW j \in DOMAIN old PROVE Worn([old EXCEPT ![i] = old[j], ![j] = old[i]], old)
    BY <2>2, ExchangeWears
  <2>13. ASSUME NEW o,
                Damaged(With([old EXCEPT ![i] = Seal(old[i].seq, old[i].actor,
                  [old[i].event EXCEPT !.about = o], old[i].prev)]), TRUE)
         PROVE  TransferInv'
    <3>1. PICK e : e = [r.event EXCEPT !.about = o]
      OBVIOUS
    <3>2. PICK q : q = Seal(r.seq, r.actor, e, r.prev)
      OBVIOUS
    <3>3. "shape" \in DOMAIN e
      BY <2>5, <3>1, EditedRecord
    <3>4. IsRecord(q)
      BY <3>2, <3>3, SealIsRecord
    <3>5. PICK new : new = [old EXCEPT ![i] = q]
      OBVIOUS
    <3>6. Records(new) /\ Damaged(With(new), TRUE)
      BY <2>2, <2>4, <2>13, <3>1, <3>2, <3>4, <3>5, EditWears
    <3>7. QED
      BY <3>6, DamagedWith
  <2>14. ASSUME Damaged(With(Appended(old, "carol", old[i].event)), TRUE) PROVE TransferInv'
    <3>1. Records(Appended(old, "carol", old[i].event))
      BY <2>2, <2>4, <2>5, AppendedRecords DEF IsRecord
    <3>2. QED
      BY <2>14, <3>1, DamagedWith
  <2>15. QED
    BY <2>3, <2>6, <2>8, <2>9, <2>10, <2>11, <2>12, <2>13, <2>14, Zenon
<1>2. CASE StripChain
  <2>1. PICK old : old = package.records
    OBVIOUS
  <2>2. /\ package # None /\ importing = None /\ imported = None
        /\ package' = [package EXCEPT !.chained = FALSE]
        /\ resealed' = (resealed \/ FALSE)
        /\ UNCHANGED <<genuine, settled, sourceVars, targetVars>>
    BY <1>2 DEF StripChain, Damaged
  <2>3. Records(old) /\ DOMAIN package = {"records", "scoped", "version", "chained"}
    BY <2>1, <2>2 DEF TransferInv, PackageInv
  <2>4. package' = [package EXCEPT !.records = old, !.chained = FALSE]
    BY <2>1, <2>2, <2>3
  <2>5. Worn(old, package.records)
    BY <2>1, <2>3 DEF Worn
  <2>6. QED
    BY <2>2, <2>3, <2>4, <2>5, DamagedKeeps
<1>3. QED
  BY <1>1, <1>2 DEF DamageNext
-----------------------------------------------------------------------------
(* The importing store.                                                     *)
LEMMA WriteStep ==
  ASSUME PackageInv, TargetInv, WriteTarget
  PROVE  TargetInv'
<1>1. PICK o \in Obj :
        /\ target' = Appended(target, "bob", [op |-> "fact_asserted", about |-> o,
                                             other |-> None, shape |-> "v1"])
        /\ UNCHANGED <<sourceVars, packageVars, importing, imported>>
  BY DEF WriteTarget
<1>2. PICK e : e = [op |-> "fact_asserted", about |-> o, other |-> None, shape |-> "v1"]
  OBVIOUS
<1>3. PICK s, t : s = target /\ t = Appended(s, "bob", e)
  OBVIOUS
<1>4. target' = t /\ "shape" \in DOMAIN e /\ e.shape = "v1"
  BY <1>1, <1>2, <1>3
<1>5. package' = package /\ importing' = importing /\ imported' = imported
  BY <1>1 DEF packageVars
<1>6. ASSUME Records(s)
      PROVE  /\ Records(t) /\ Len(t) = Len(s) + 1 /\ Len(s) \in Nat
             /\ \A i \in 1 .. Len(s) : t[i] = s[i]
             /\ t[Len(s) + 1].event = e
             /\ Verifies(s) => Verifies(t)
  BY <1>3, <1>4, <1>6, AppendedRecords, DomainOf
<1>7. ASSUME Records(s), \A i \in 1 .. Len(s) : s[i].event.shape = "v1"
      PROVE  \A i \in 1 .. Len(t) : t[i].event.shape = "v1"
  <2>1. \A i \in 1 .. Len(t) : i \in 1 .. Len(s) \/ i = Len(s) + 1
    BY <1>6, <1>7
  <2>2. QED
    BY <1>4, <1>6, <1>7, <2>1
<1>8. ASSUME imported = None PROVE Whole(t) /\ \A i \in 1 .. Len(t) : t[i].event.shape = "v1"
  BY <1>3, <1>6, <1>7, <1>8 DEF TargetInv, Whole
<1>9. ASSUME imported # None, imported.verified PROVE ArrivedInv'
  <2>1. PICK n, at, pr : n = Len(pr) /\ at = imported.at /\ pr = package.records
    OBVIOUS
  <2>2. /\ Records(s) /\ at + n <= Len(s) /\ (~OnTop => Verifies(s))
        /\ at \in Nat /\ n \in Nat
        /\ package.version = 1 => \A i \in 1 .. n : s[at + i] = pr[i]
        /\ package.version = 0 =>
             /\ \A i \in 1 .. n : s[at + i].event = Upgraded(pr[i].event)
             /\ \A i \in 1 .. Len(s) : s[i].event.shape = "v1"
    BY <1>3, <1>9, <2>1, DomainOf DEF PackageInv, TargetInv, ArrivedInv, Import
  <2>3. OnTop' <=> OnTop
    BY <1>5 DEF OnTop
  <2>4. ASSUME NEW i \in 1 .. n PROVE t[at + i] = s[at + i]
    <3>1. at + i \in 1 .. Len(s)
      BY <1>6, <2>2
    <3>2. QED
      BY <1>6, <2>2, <3>1
  <2>5. at + n <= Len(t)
    BY <1>6, <2>2
  <2>6. QED
    BY <1>4, <1>5, <1>6, <1>7, <2>1, <2>2, <2>3, <2>4, <2>5 DEF ArrivedInv
<1>10. imported # None => package # None /\ imported \in Import
  BY DEF TargetInv
<1>11. QED
  BY <1>4, <1>5, <1>8, <1>9, <1>10 DEF TargetInv

(* What a verified import leaves in t of the ledger s and the records r.    *)
Joins(t, s, r) ==
  /\ Records(t) /\ Len(s) + Len(r) <= Len(t)
  /\ package.version = 1 =>
       /\ \A i \in 1 .. Len(r) : t[Len(s) + i] = r[i]
       /\ Backend = "sqlite" \/ Len(s) = 0 => Verifies(t)
  /\ package.version = 0 =>
       /\ \A i \in 1 .. Len(r) : t[Len(s) + i].event = Upgraded(r[i].event)
       /\ \A i \in 1 .. Len(t) : t[i].event.shape = "v1"
       /\ Verifies(t)

LEMMA EndStep ==
  ASSUME PackageInv, TargetInv, NEW s, EndImport(s, Len(target)),
         importing.verified => Joins(s, target, package.records)
  PROVE  TargetInv'
<1>1. /\ importing # None /\ target' = s /\ importing' = None /\ package' = package
      /\ imported' = [verified |-> importing.verified, at |-> Len(target)]
  BY DEF EndImport, packageVars
<1>2. /\ package # None /\ imported = None /\ importing.verified \in BOOLEAN /\ Records(target)
      /\ package.version \in {0, 1}
  BY <1>1 DEF TargetInv, PackageInv, Whole
<1>3. Len(target) \in Nat
  BY <1>2, DomainOf
<1>4. imported' \in Import
  BY <1>1, <1>2, <1>3 DEF Import
<1>5. imported'.verified = importing.verified /\ imported'.at = Len(target)
  BY <1>1
<1>6. imported' # None
  BY <1>4, NoneAssumption
<1>7. ASSUME importing.verified PROVE ArrivedInv'
  <2>1. PICK at, pr : at = Len(target) /\ pr = package.records
    OBVIOUS
  <2>2. /\ Records(s) /\ at + Len(pr) <= Len(s)
        /\ package.version = 1 => \A i \in 1 .. Len(pr) : s[at + i] = pr[i]
        /\ package.version = 0 =>
             /\ \A i \in 1 .. Len(pr) : s[at + i].event = Upgraded(pr[i].event)
             /\ \A i \in 1 .. Len(s) : s[i].event.shape = "v1"
    BY <1>7, <2>1 DEF Joins
  <2>3. ~OnTop' => Verifies(s)
    <3>1. OnTop' <=> Backend = "memory" /\ package.version = 1 /\ at > 0
      BY <1>1, <1>5, <1>6, <2>1 DEF OnTop
    <3>2. QED
      BY <1>2, <1>3, <1>7, <2>1, <3>1, BackendAssumption DEF Joins
  <2>4. QED
    BY <1>1, <1>5, <2>1, <2>2, <2>3 DEF ArrivedInv
<1>8. QED
  BY <1>1, <1>2, <1>4, <1>5, <1>6, <1>7 DEF TargetInv

(* One ledger after another.                                                *)
LEMMA Joined ==
  ASSUME NEW s, Records(s), NEW r, Records(r)
  PROVE  /\ Records(s \o r) /\ Len(s \o r) = Len(s) + Len(r)
         /\ \A i \in 1 .. Len(s) : (s \o r)[i] = s[i]
         /\ \A i \in 1 .. Len(r) : (s \o r)[Len(s) + i] = r[i]
<1>1. PICK S : S = Range(s) \cup Range(r)
  OBVIOUS
<1>2. s \in Seq(S) /\ r \in Seq(S)
  BY <1>1, SeqMonotonic DEF Records
<1>3. PICK t, n, m : t = s \o r /\ n = Len(s) /\ m = Len(r)
  OBVIOUS
<1>4. n \in Nat /\ m \in Nat
  BY <1>2, <1>3
<1>5. /\ t \in Seq(S) /\ Len(t) = n + m
      /\ \A i \in 1 .. n + m : t[i] = IF i <= n THEN s[i] ELSE r[i - n]
  BY <1>2, <1>3, ConcatProperties
<1>6. ASSUME NEW i \in 1 .. n PROVE t[i] = s[i]
  BY <1>4, <1>5
<1>7. ASSUME NEW i \in 1 .. m PROVE t[n + i] = r[i]
  <2>1. n + i \in 1 .. n + m /\ ~(n + i <= n) /\ (n + i) - n = i
    BY <1>4
  <2>2. QED
    BY <1>5, <2>1
<1>8. \A i \in 1 .. n + m : i \in 1 .. n \/ (i - n \in 1 .. m /\ i = n + (i - n))
  BY <1>4
<1>9. \A i \in 1 .. Len(t) : IsRecord(t[i])
  BY <1>3, <1>5, <1>6, <1>7, <1>8 DEF Records
<1>10. Records(t)
  BY <1>5, <1>9, SeqOfRange DEF Records
<1>11. QED
  BY <1>3, <1>5, <1>6, <1>7, <1>10

(* A ledger that verifies is in the order of its numbers already.           *)
LEMMA StoredInOrder ==
  ASSUME NEW s, Whole(s)
  PROVE  Stored(s) = s
<1>1. PICK n : n = Len(s)
  OBVIOUS
<1>2. n \in Nat /\ DOMAIN s = 1 .. n
  BY <1>1, DomainOf DEF Whole
<1>3. \A i \in 1 .. n : s[i].seq = i
  BY <1>2 DEF Whole, Verifies, Follows
<1>4. ASSUME NEW i \in 1 .. n PROVE Cardinality(UpTo(s, i)) = i
  <2>1. UpTo(s, i) = 1 .. i
    BY <1>2, <1>3 DEF UpTo
  <2>2. QED
    BY <1>2, <2>1, FS_Interval
<1>5. ASSUME NEW k \in 1 .. n
      PROVE  (CHOOSE i \in 1 .. n : Cardinality(UpTo(s, i)) = k) = k
  BY <1>4
<1>6. [k \in 1 .. n |-> s[CHOOSE i \in 1 .. n : Cardinality(UpTo(s, i)) = k]] = s
  <2>1. s = [k \in 1 .. n |-> s[k]]
    <3>1. PICK S : S = Range(s)
      OBVIOUS
    <3>2. s \in Seq(S)
      BY <3>1 DEF Whole, Records
    <3>3. QED
      BY <1>1, <3>2
  <2>2. QED
    BY <1>5, <2>1
<1>7. QED
  BY <1>2, <1>6 DEF Stored

(* A table takes verified records only next to none: both ledgers would     *)
(* have a record number 1.                                                  *)
LEMMA StorableIsAlone ==
  ASSUME NEW s, Whole(s), NEW r, Whole(r), Backend = "sqlite", Storable(s \o r)
  PROVE  s \o r = s \/ s \o r = r
<1>1. PICK n, m, t : n = Len(s) /\ m = Len(r) /\ t = s \o r
  OBVIOUS
<1>2. /\ n \in Nat /\ DOMAIN s = 1 .. n /\ m \in Nat /\ DOMAIN r = 1 .. m
      /\ Records(s) /\ Records(r)
  BY <1>1, DomainOf DEF Whole
<1>3. /\ Records(t) /\ Len(t) = n + m
      /\ \A i \in 1 .. n : t[i] = s[i]
      /\ \A i \in 1 .. m : t[n + i] = r[i]
  BY <1>1, <1>2, Joined
<1>4. CASE n = 0
  <2>1. PICK S : S = Range(s) \cup Range(r)
    OBVIOUS
  <2>2. s \in Seq(S) /\ r \in Seq(S)
    BY <1>2, <2>1, SeqMonotonic DEF Records
  <2>3. QED
    <3>1. s = << >> /\ << >> \o r = r
      BY <1>1, <1>4, <2>2, EmptySeq, ConcatEmptySeq
    <3>2. QED
      BY <3>1
<1>5. CASE m = 0
  <2>1. PICK S : S = Range(s) \cup Range(r)
    OBVIOUS
  <2>2. s \in Seq(S) /\ r \in Seq(S)
    BY <1>2, <2>1, SeqMonotonic DEF Records
  <2>3. QED
    <3>1. r = << >> /\ s \o << >> = s
      BY <1>1, <1>5, <2>2, EmptySeq, ConcatEmptySeq
    <3>2. QED
      BY <3>1
<1>6. CASE n # 0 /\ m # 0
  <2>1. 1 \in 1 .. n /\ 1 \in 1 .. m /\ n + 1 \in 1 .. n + m /\ 1 \in 1 .. n + m /\ n + 1 # 1
    BY <1>2, <1>6
  <2>2. t[1].seq = 1 /\ t[n + 1].seq = 1
    BY <1>2, <1>3, <2>1 DEF Whole, Verifies, Follows
  <2>3. DOMAIN t = 1 .. n + m
    BY <1>3, DomainOf
  <2>4. ~IsInjective([i \in DOMAIN t |-> t[i].seq])
    BY <2>1, <2>2, <2>3 DEF IsInjective
  <2>5. QED
    BY <1>1, <2>4 DEF Storable
<1>7. QED
  BY <1>4, <1>5, <1>6

LEMMA ImportVerbatimStep ==
  ASSUME PackageInv, TargetInv, ImportVerbatim
  PROVE  TargetInv'
<1>1. PICK s, r, t : s = target /\ r = package.records /\ t = s \o r
  OBVIOUS
<1>2. /\ importing # None /\ package.version = 1 /\ Storable(t)
      /\ EndImport(Stored(t), Len(target))
  BY <1>1 DEF ImportVerbatim
<1>3. Whole(s) /\ Records(s) /\ Records(r) /\ (importing.verified => Whole(r))
  BY <1>1, <1>2 DEF TargetInv, PackageInv, Whole
<1>4. Len(s) \in Nat /\ Len(r) \in Nat
  BY <1>3, DomainOf
<1>5. /\ Records(t) /\ Len(t) = Len(s) + Len(r)
      /\ \A i \in 1 .. Len(r) : t[Len(s) + i] = r[i]
  BY <1>1, <1>3, Joined
<1>6. ASSUME importing.verified
      PROVE  Stored(t) = t /\ (Backend = "sqlite" \/ Len(s) = 0 => Verifies(t))
  <2>1. CASE Backend = "sqlite"
    <3>1. Whole(t)
      BY <1>1, <1>2, <1>3, <1>6, <2>1, StorableIsAlone
    <3>2. QED
      BY <3>1, StoredInOrder DEF Whole
  <2>2. CASE Backend = "memory"
    <3>1. Stored(t) = t
      BY <2>2 DEF Stored
    <3>2. ASSUME Len(s) = 0 PROVE t = r
      <4>1. PICK S : S = Range(s) \cup Range(r)
        OBVIOUS
      <4>2. s \in Seq(S) /\ r \in Seq(S)
        BY <1>3, <4>1, SeqMonotonic DEF Records
      <4>3. QED
        BY <1>1, <3>2, <4>2
    <3>3. QED
      BY <1>3, <1>6, <2>2, <3>1, <3>2 DEF Whole
  <2>3. QED
    BY <2>1, <2>2, BackendAssumption
<1>7. PICK u : u = Stored(t)
  OBVIOUS
<1>8. ASSUME importing.verified
      PROVE  /\ Records(u) /\ Len(s) + Len(r) <= Len(u)
             /\ \A i \in 1 .. Len(r) : u[Len(s) + i] = r[i]
             /\ Backend = "sqlite" \/ Len(s) = 0 => Verifies(u)
  <2>1. u = t
    BY <1>6, <1>7, <1>8
  <2>2. QED
    BY <1>4, <1>5, <1>6, <1>8, <2>1
<1>9. importing.verified => Joins(u, target, package.records)
  BY <1>1, <1>2, <1>8 DEF Joins
<1>10. EndImport(u, Len(target))
  BY <1>2, <1>7
<1>11. QED
  BY <1>9, <1>10, EndStep

LEMMA ImportMigratedStep ==
  ASSUME PackageInv, TargetInv, ImportMigrated
  PROVE  TargetInv'
<1>1. PICK s, r : s = target /\ r = package.records
  OBVIOUS
<1>2. PICK drafts : drafts = [i \in DOMAIN r |-> [actor |-> r[i].actor,
                                                event |-> Upgraded(r[i].event)]]
  OBVIOUS
<1>3. PICK t : t = Sealed(s, drafts)
  OBVIOUS
<1>4. importing # None /\ package.version = 0 /\ EndImport(t, Len(target))
  BY <1>1, <1>2, <1>3 DEF ImportMigrated
<1>5. /\ Records(s) /\ Verifies(s) /\ Records(r)
      /\ \A i \in 1 .. Len(s) : s[i].event.shape = "v1"
  BY <1>1, <1>4 DEF TargetInv, PackageInv, Whole
<1>6. PICK n, m : n = Len(s) /\ m = Len(r)
  OBVIOUS
<1>7. n \in Nat /\ m \in Nat /\ DOMAIN r = 1 .. m
  BY <1>5, <1>6, DomainOf
<1>8. PICK D : D = {drafts[i] : i \in 1 .. m}
  OBVIOUS
<1>9. drafts \in Seq(D) /\ Len(drafts) = m
  <2>1. drafts \in [1 .. m -> D]
    BY <1>2, <1>7, <1>8
  <2>2. QED
    BY <1>7, <2>1
<1>10. ASSUME NEW i \in 1 .. m
       PROVE  /\ drafts[i].event = Upgraded(r[i].event)
              /\ "shape" \in DOMAIN drafts[i].event /\ drafts[i].event.shape = "v1"
  <2>1. drafts[i].event = Upgraded(r[i].event)
    BY <1>2, <1>7
  <2>2. PICK e : e = r[i].event
    OBVIOUS
  <2>3. "shape" \in DOMAIN e
    BY <1>5, <1>6, <2>2 DEF Records, IsRecord
  <2>4. "shape" \in DOMAIN Upgraded(e) /\ Upgraded(e).shape = "v1"
    BY <2>3 DEF Upgraded
  <2>5. QED
    BY <2>1, <2>2, <2>4
<1>11. Continues(t, s, drafts, m)
  BY <1>3, <1>5, <1>9, <1>10, SealedContinues
<1>12. /\ Records(t) /\ Len(t) = n + m /\ Verifies(t)
       /\ \A i \in 1 .. n : t[i] = s[i]
       /\ \A i \in 1 .. m : t[n + i].event = drafts[i].event
  BY <1>5, <1>6, <1>11 DEF Continues
<1>13. ASSUME NEW i \in 1 .. Len(t) PROVE t[i].event.shape = "v1"
  <2>1. CASE i \in 1 .. n
    BY <1>5, <1>6, <1>12, <2>1
  <2>2. CASE i - n \in 1 .. m /\ n + (i - n) = i
    <3>1. PICK k \in 1 .. m : n + k = i
      BY <2>2
    <3>2. t[n + k].event = drafts[k].event
      BY <1>12
    <3>3. QED
      BY <1>10, <3>1, <3>2
  <2>3. QED
    BY <1>7, <1>12, <2>1, <2>2
<1>14. Joins(t, target, package.records)
  <2>1. \A i \in 1 .. m : t[n + i].event = Upgraded(r[i].event)
    BY <1>10, <1>12
  <2>2. package.version # 1 /\ n + m <= Len(t)
    BY <1>4, <1>7, <1>12
  <2>3. QED
    BY <1>1, <1>6, <1>12, <1>13, <2>1, <2>2 DEF Joins
<1>15. QED
  BY <1>4, <1>14, EndStep

TargetNext ==
  \/ WriteTarget
  \/ \E verify, migrate \in BOOLEAN : CheckImport(verify, migrate)
  \/ ImportVerbatim \/ ImportMigrated \/ FailImport

LEMMA TargetStep ==
  ASSUME PackageInv, TargetInv, TargetNext
  PROVE  TargetInv' /\ UNCHANGED <<sourceVars, packageVars>>
<1>1. CASE WriteTarget
  BY <1>1, WriteStep DEF WriteTarget
<1>2. CASE \E verify, migrate \in BOOLEAN : CheckImport(verify, migrate)
  <2>1. PICK verify \in BOOLEAN, migrate \in BOOLEAN : CheckImport(verify, migrate)
    BY <1>2
  <2>2. /\ package # None /\ imported = None /\ (verify => Verifies(package.records))
        /\ importing' = [verified |-> verify]
        /\ UNCHANGED <<sourceVars, packageVars, target, writes, imported>>
    BY <2>1 DEF CheckImport
  <2>3. importing'.verified = verify /\ package' = package
    BY <2>2 DEF packageVars
  <2>4. QED
    BY <2>2, <2>3 DEF TargetInv
<1>3. CASE ImportVerbatim
  BY <1>3, ImportVerbatimStep DEF ImportVerbatim, EndImport
<1>4. CASE ImportMigrated
  BY <1>4, ImportMigratedStep DEF ImportMigrated, EndImport
<1>5. CASE FailImport
  <2>1. /\ importing' = None
        /\ UNCHANGED <<sourceVars, packageVars, target, writes, imported>>
    BY <1>5 DEF FailImport
  <2>2. package' = package /\ target' = target /\ imported' = imported
    BY <2>1 DEF packageVars
  <2>3. ArrivedInv' = ArrivedInv
    BY <2>2 DEF ArrivedInv, OnTop
  <2>4. QED
    BY <2>1, <2>2, <2>3 DEF TargetInv
<1>6. QED
  BY <1>1, <1>2, <1>3, <1>4, <1>5 DEF TargetNext
-----------------------------------------------------------------------------
LEMMA TransferInit == Init => TransferInv
<1> SUFFICES ASSUME Init PROVE TransferInv
  OBVIOUS
<1>1. SourceInv
  BY SourceInit
<1>2. Whole(<< >>) /\ Len(<< >>) = 0
  BY DEF Whole, Records, Verifies, Range
<1>3. TargetInv
  BY <1>2 DEF Init, TargetInv
<1>4. QED
  BY <1>1, <1>3 DEF Init, TransferInv, PackageInv

LEMMA TransferStep == TransferInv /\ [Next]_vars => TransferInv'
<1> SUFFICES ASSUME TransferInv, [Next]_vars PROVE TransferInv'
  OBVIOUS
<1>1. CASE SourceNext
  <2>1. SourceInv' /\ package = None /\ UNCHANGED <<packageVars, targetVars>>
    BY <1>1, SourceStep DEF TransferInv
  <2>2. PackageInv'
    BY <2>1 DEF PackageInv, packageVars
  <2>3. TargetInv'
    BY <2>1 DEF TransferInv, TargetInv, packageVars, targetVars
  <2>4. QED
    BY <2>1, <2>2, <2>3 DEF TransferInv, packageVars
<1>2. CASE ExportNext
  <2>1. SourceInv' /\ PackageInv' /\ package = None /\ UNCHANGED targetVars
    BY <1>2, ExportStep
  <2>2. TargetInv'
    BY <2>1 DEF TransferInv, TargetInv, targetVars
  <2>3. resealed' = resealed
    BY <1>2 DEF ExportNext, ExportWhole, ExportOld, ListReadable, ExportScoped, Pack, packageVars
  <2>4. QED
    BY <2>1, <2>2, <2>3 DEF TransferInv
<1>3. CASE DamageNext
  BY <1>3, DamageStep
<1>4. CASE TargetNext
  <2>1. TargetInv' /\ UNCHANGED <<sourceVars, packageVars>>
    BY <1>4, TargetStep DEF TransferInv
  <2>2. SourceInv'
    BY <2>1 DEF TransferInv, SourceInv, sourceVars
  <2>3. PackageInv'
    BY <2>1 DEF TransferInv, PackageInv, SliceKeepsFates, packageVars
  <2>4. QED
    BY <2>1, <2>2, <2>3 DEF TransferInv, packageVars
<1>5. CASE UNCHANGED vars
  <2>1. UNCHANGED <<sourceVars, packageVars, targetVars>>
    BY <1>5 DEF vars
  <2>2. SourceInv'
    BY <2>1 DEF TransferInv, SourceInv, sourceVars
  <2>3. PackageInv'
    BY <2>1 DEF TransferInv, PackageInv, SliceKeepsFates, packageVars
  <2>4. ArrivedInv' = ArrivedInv
    BY <2>1 DEF ArrivedInv, OnTop, packageVars, targetVars
  <2>5. TargetInv'
    BY <2>1, <2>4 DEF TransferInv, TargetInv, packageVars, targetVars
  <2>6. QED
    BY <2>1, <2>2, <2>3, <2>5 DEF TransferInv, packageVars
<1>6. QED
  BY <1>1, <1>2, <1>3, <1>4, <1>5, Zenon
     DEF Next, SourceNext, ExportNext, DamageNext, TargetNext
-----------------------------------------------------------------------------
(* An entry hash is of one record at one place, and of what stands before.  *)
LEMMA SameEntry ==
  ASSUME NEW s, Whole(s), NEW t, Whole(t), NEW i \in 1 .. Len(s), NEW j \in 1 .. Len(t),
         s[i].entry = t[j].entry
  PROVE  /\ i = j /\ s[i] = t[j]
         /\ i # 1 => s[i - 1].entry = t[j - 1].entry
<1>1. i \in DOMAIN s /\ j \in DOMAIN t
  BY DomainOf DEF Whole
<1>2. PICK q, r : q = s[i] /\ r = t[j]
  OBVIOUS
<1>3. /\ q.seq = i /\ q.entry = EntryHash(q.seq, q.actor, q.content, q.prev)
      /\ q.prev = IF i = 1 THEN Genesis ELSE s[i - 1].entry
      /\ q.content = ContentHash(q.event)
      /\ r.seq = j /\ r.entry = EntryHash(r.seq, r.actor, r.content, r.prev)
      /\ r.prev = IF j = 1 THEN Genesis ELSE t[j - 1].entry
      /\ r.content = ContentHash(r.event)
  BY <1>1, <1>2 DEF Whole, Verifies, Follows
<1>4. q.entry = r.entry
  BY <1>2
<1>5. q.seq = r.seq /\ q.actor = r.actor /\ q.content = r.content /\ q.prev = r.prev
  BY <1>3, <1>4 DEF EntryHash
<1>6. q.event = r.event
  BY <1>3, <1>5 DEF ContentHash
<1>7. IsRecord(q) /\ IsRecord(r)
  BY <1>2 DEF Whole, Records
<1>8. q = r
  BY <1>4, <1>5, <1>6, <1>7 DEF IsRecord
<1>9. QED
  BY <1>2, <1>3, <1>5, <1>8

(* Where every entry hash was exported, what verifies is a first part.      *)
LEMMA KeptIsPrefix ==
  ASSUME NEW s, Whole(s), NEW t, Whole(t),
         \A i \in 1 .. Len(s) : \E j \in 1 .. Len(t) : s[i].entry = t[j].entry
  PROVE  IsPrefix(s, t)
<1>1. PICK n, m : n = Len(s) /\ m = Len(t)
  OBVIOUS
<1>2. n \in Nat /\ m \in Nat
  BY <1>1, DomainOf DEF Whole
<1>3. ASSUME NEW i \in 1 .. n PROVE i \in 1 .. m /\ s[i] = t[i]
  <2>1. PICK j \in 1 .. m : s[i].entry = t[j].entry
    BY <1>1
  <2>2. i = j /\ s[i] = t[j]
    BY <1>1, <2>1, SameEntry
  <2>3. QED
    BY <2>2
<1>4. n <= m
  <2>1. n = 0 \/ n \in 1 .. n
    BY <1>2
  <2>2. QED
    BY <1>2, <1>3, <2>1
<1>5. SubSeq(s, 1, n) = [i \in 1 .. n |-> s[i]] /\ SubSeq(t, 1, n) = [i \in 1 .. n |-> t[i]]
  BY <1>2
<1>6. [i \in 1 .. n |-> s[i]] = [i \in 1 .. n |-> t[i]]
  BY <1>3
<1>7. QED
  BY <1>1, <1>4, <1>5, <1>6 DEF IsPrefix

(* Two ledgers of one length that verify and end in one hash are the same:  *)
(* from the end back, each entry hash pins the one before it.               *)
LEMMA SameHead ==
  ASSUME NEW s, Whole(s), NEW t, Whole(t), Len(s) = Len(t), HeadHash(s) = HeadHash(t)
  PROVE  s = t
<1>1. PICK n : n = Len(s)
  OBVIOUS
<1>2. n \in Nat /\ DOMAIN s = 1 .. n /\ DOMAIN t = 1 .. n
  BY <1>1, DomainOf DEF Whole
<1> DEFINE Differ == {k \in Nat : k < n /\ s[n - k].entry # t[n - k].entry}
<1>3. ASSUME Differ # {} PROVE FALSE
  <2>1. PICK m \in Differ : \A k \in Differ : m <= k
    <3>1. Differ \in SUBSET Nat
      OBVIOUS
    <3>2. QED
      BY <1>3, <3>1, LeastElement, Zenon
  <2>2. CASE m = 0
    <3>1. n # 0
      BY <1>2, <2>1
    <3>2. s # << >> /\ t # << >>
      BY <1>1, <3>1
    <3>3. s[n].entry = t[n].entry
      BY <1>1, <3>2 DEF HeadHash, Last
    <3>4. n - m = n
      BY <1>2, <2>2
    <3>5. QED
      BY <2>1, <3>3, <3>4
  <2>3. CASE m # 0
    <3>1. m - 1 \in Nat /\ m - 1 \notin Differ /\ m - 1 < n
      BY <1>2, <2>1, <2>3
    <3>2. PICK i : i = n - (m - 1)
      OBVIOUS
    <3>3. i \in 1 .. n /\ s[i].entry = t[i].entry /\ i - 1 = n - m /\ i # 1
      BY <1>2, <2>1, <2>3, <3>1, <3>2
    <3>4. s[i - 1].entry = t[i - 1].entry
      BY <1>1, <3>3, SameEntry
    <3>5. QED
      BY <2>1, <3>3, <3>4
  <2>4. QED
    BY <2>2, <2>3
<1>4. ASSUME NEW i \in 1 .. n PROVE s[i] = t[i]
  <2>1. n - i \in Nat /\ n - i < n /\ n - (n - i) = i
    BY <1>2
  <2>2. s[i].entry = t[i].entry
    BY <1>3, <2>1
  <2>3. QED
    BY <1>1, <2>2, SameEntry
<1>5. s = [i \in 1 .. n |-> s[i]] /\ t = [i \in 1 .. n |-> t[i]]
  <2>1. PICK S, T : S = Range(s) /\ T = Range(t)
    OBVIOUS
  <2>2. s \in Seq(S) /\ t \in Seq(T)
    BY <2>1 DEF Whole, Records
  <2>3. QED
    BY <1>1, <2>2
<1>6. QED
  BY <1>4, <1>5
-----------------------------------------------------------------------------
(* Every state a transfer can reach satisfies the inductive invariant: what *)
(* the source's ledger replays to, what any slice of it tells, where the    *)
(* hashes of a damaged package come from and what the importing store holds.*)
THEOREM TransferInvariant == Spec => []TransferInv
<1>1. Init => TransferInv
  BY TransferInit
<1>2. TransferInv /\ [Next]_vars => TransferInv'
  BY TransferStep
<1>3. QED
  BY <1>1, <1>2, PTL DEF Spec

(* verify_chain, without and with the anchors, whatever was done to a       *)
(* package: an export verifies, changes by somebody who computes no hashes  *)
(* leave at most a first part of it that does, and the pinned count and     *)
(* head let nothing else through.                                           *)
THEOREM DamageShows == Spec => []DamageIsNoticed
<1>1. TransferInv => DamageIsNoticed
  <2> SUFFICES ASSUME TransferInv, package # None PROVE DamageIsNoticed
    BY DEF DamageIsNoticed
  <2>1. PICK s, t : s = package.records /\ t = genuine
    OBVIOUS
  <2>2. /\ Whole(t) /\ Records(s)
        /\ ~resealed => \A i \in 1 .. Len(s) : \E j \in 1 .. Len(t) : s[i].entry = t[j].entry
    BY <2>1 DEF TransferInv, PackageInv
  <2>3. ASSUME Verifies(s), ~resealed PROVE IsPrefix(s, t)
    <3>1. Whole(s)
      BY <2>2, <2>3 DEF Whole
    <3>2. \A i \in 1 .. Len(s) : \E j \in 1 .. Len(t) : s[i].entry = t[j].entry
      BY <2>2, <2>3
    <3>3. QED
      BY <2>2, <3>1, <3>2, KeptIsPrefix
  <2>4. ASSUME VerifiesAnchored(s, Len(t), HeadHash(t)) PROVE s = t
    <3>1. Whole(s) /\ Len(s) = Len(t) /\ HeadHash(s) = HeadHash(t)
      BY <2>2, <2>4 DEF VerifiesAnchored, Whole
    <3>2. QED
      BY <2>2, <3>1, SameHead
  <2>5. QED
    BY <2>1, <2>2, <2>3, <2>4 DEF DamageIsNoticed, Whole
<1>2. QED
  BY <1>1, TransferInvariant, PTL

(* The importing store's chain verifies after every write and every         *)
(* verified import; the memory store's verbatim import on top of a write    *)
(* that came between is the one exception.                                  *)
THEOREM ChainIsWhole == Spec => []ChainStaysWhole
<1>1. TransferInv => ChainStaysWhole
  BY DEF TransferInv, TargetInv, ArrivedInv, Whole, ChainStaysWhole
<1>2. QED
  BY <1>1, TransferInvariant, PTL

(* A verified import stays in the ledger as one run, record by record or,   *)
(* migrated, event by event, whatever is written before and after it.       *)
THEOREM ImportsAreWhole == Spec => []ImportIsWhole
<1>1. TransferInv => ImportIsWhole
  <2> SUFFICES ASSUME TransferInv, imported # None, imported.verified PROVE ImportIsWhole
    BY DEF ImportIsWhole
  <2>1. PICK t, r, at, n, m :
          /\ t = target /\ r = package.records /\ at = imported.at
          /\ n = Len(r) /\ m = Len(t)
    OBVIOUS
  <2>2. /\ Records(t) /\ at + n <= m /\ at \in Nat /\ Records(r) /\ package.version \in {0, 1}
        /\ package.version = 1 => \A i \in 1 .. n : t[at + i] = r[i]
        /\ package.version = 0 =>
             /\ \A i \in 1 .. n : t[at + i].event = Upgraded(r[i].event)
             /\ \A i \in 1 .. m : t[i].event.shape = "v1"
    BY <2>1 DEF TransferInv, TargetInv, ArrivedInv, Import, PackageInv
  <2>3. n \in Nat /\ m \in Nat /\ DOMAIN r = 1 .. n /\ DOMAIN t = 1 .. m
    BY <2>1, <2>2, DomainOf
  <2>4. ASSUME NEW s
        PROVE  SubSeq(s, at + 1, at + n) = [i \in 1 .. n |-> s[at + i]]
    <3>1. \A i \in 1 .. n : (at + 1) + i - 1 = at + i
      BY <2>2, <2>3
    <3>2. (at + n) - (at + 1) + 1 = n
      BY <2>2, <2>3
    <3>3. SubSeq(s, at + 1, at + n)
            = [i \in 1 .. (at + n) - (at + 1) + 1 |-> s[(at + 1) + i - 1]]
      BY <2>2, <2>3
    <3>4. QED
      BY <3>1, <3>2, <3>3
  <2>5. CASE package.version = 1
    <3>1. r = [i \in 1 .. n |-> r[i]]
      <4>1. PICK R : R = Range(r)
        OBVIOUS
      <4>2. r \in Seq(R)
        BY <2>2, <4>1 DEF Records
      <4>3. QED
        BY <2>1, <4>2
    <3>2. SubSeq(t, at + 1, at + n) = r
      <4>1. SubSeq(t, at + 1, at + n) = [i \in 1 .. n |-> t[at + i]]
        BY <2>4
      <4>2. [i \in 1 .. n |-> t[at + i]] = [i \in 1 .. n |-> r[i]]
        BY <2>2, <2>5
      <4>3. QED
        BY <3>1, <4>1, <4>2
    <3>3. QED
      BY <2>1, <2>5, <3>2 DEF ImportIsWhole
  <2>6. CASE package.version = 0
    <3>1. PICK events : events = EventsOf(t)
      OBVIOUS
    <3>2. DOMAIN events = 1 .. m /\ \A i \in 1 .. m : events[i] = t[i].event
      BY <2>3, <3>1 DEF EventsOf
    <3>3. ASSUME NEW i \in 1 .. n PROVE events[at + i] = Upgraded(r[i].event)
      <4>1. at + i \in 1 .. m
        BY <2>2, <2>3
      <4>2. QED
        BY <2>2, <2>6, <3>2, <4>1
    <3>4. SubSeq(events, at + 1, at + n) = [i \in DOMAIN r |-> [r[i].event EXCEPT !.shape = "v1"]]
      BY <2>3, <2>4, <3>3 DEF Upgraded
    <3>5. \A i \in DOMAIN events : events[i].shape = "v1"
      BY <2>2, <2>6, <3>2
    <3>6. QED
      BY <2>1, <2>6, <3>1, <3>4, <3>5 DEF ImportIsWhole
  <2>7. QED
    BY <2>2, <2>5, <2>6
<1>2. QED
  BY <1>1, TransferInvariant, PTL

(* Of every fact in it, a slice that replays tells what the source had made *)
(* of it when the events were read, though what may be read was listed      *)
(* before, and though closing events of claims are left out.                *)
THEOREM SlicesKeepFates == Spec => []SliceKeepsFates
<1>1. TransferInv => SliceKeepsFates
  BY DEF TransferInv, PackageInv, SliceKeepsFates
<1>2. QED
  BY <1>1, TransferInvariant, PTL
=============================================================================
