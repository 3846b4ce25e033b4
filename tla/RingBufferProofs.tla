-------------------------- MODULE RingBufferProofs --------------------------
(* Proof that the slots of the replay buffer are counted, and that the       *)
(* buffer implements a window of the last records, for any capacity, any     *)
(* records and games, and any sequence of appends and clears; that the games *)
(* of all epochs keep ids of their own in it; and that the targets of a      *)
(* record that is sampled from it come home under the symmetry it was drawn  *)
(* with.                                                                     *)
EXTENDS ReplayEpochs, ReplaySampler, SequenceTheorems, FiniteSetTheorems, WellFoundedInduction, TLAPS

(* ------------------------------------------------------------------------- *)
(* Lists of slots. *)

Holds(seq, x) == \E k \in DOMAIN seq : seq[k] = x
Distinct(seq) == \A j, k \in DOMAIN seq : seq[j] = seq[k] => j = k

LEMMA SeqFacts ==
    ASSUME NEW S, NEW s \in Seq(S)
    PROVE  Len(s) \in Nat /\ DOMAIN s = 1 .. Len(s) /\ \A i \in 1 .. Len(s) : s[i] \in S
BY LenProperties, ElementOfSeq

LEMMA Appended ==
    ASSUME NEW S, NEW s \in Seq(S), NEW x \in S
    PROVE  /\ Append(s, x) \in Seq(S)
           /\ \A y : Holds(Append(s, x), y) <=> Holds(s, y) \/ y = x
           /\ Distinct(s) /\ ~Holds(s, x) => Distinct(Append(s, x))
<1> DEFINE t == Append(s, x)
<1>1. /\ t \in Seq(S) /\ Len(t) = Len(s) + 1 /\ t[Len(s) + 1] = x
      /\ \A i \in 1 .. Len(s) : t[i] = s[i]
  OBVIOUS
<1>2. /\ Len(s) \in Nat /\ DOMAIN s = 1 .. Len(s) /\ DOMAIN t = 1 .. Len(s) + 1
  BY <1>1, SeqFacts
<1> HIDE DEF t
<1>3. \A y : Holds(t, y) <=> Holds(s, y) \/ y = x
  BY <1>1, <1>2 DEF Holds
<1>4. Distinct(s) /\ ~Holds(s, x) => Distinct(t)
  BY <1>1, <1>2 DEF Holds, Distinct
<1> QED
  BY <1>1, <1>3, <1>4 DEF t

LEMMA RemovedAt ==
    ASSUME NEW S, NEW s \in Seq(S), NEW n \in DOMAIN s, Distinct(s)
    PROVE  /\ RemoveAt(s, n) \in Seq(S)
           /\ \A y : Holds(RemoveAt(s, n), y) <=> Holds(s, y) /\ y # s[n]
           /\ Distinct(RemoveAt(s, n))
<1> DEFINE a == SubSeq(s, 1, n - 1)
           z == SubSeq(s, n + 1, Len(s))
           t == a \o z
<1>1. Len(s) \in Nat /\ DOMAIN s = 1 .. Len(s) /\ n \in 1 .. Len(s)
      /\ \A i \in 1 .. Len(s) : s[i] \in S
  BY SeqFacts
<1>2. a \in Seq(S) /\ Len(a) = n - 1 /\ \A i \in 1 .. n - 1 : a[i] = s[i]
  BY <1>1, SubSeqProperties, SMTT(30)
<1>3. z \in Seq(S) /\ Len(z) = Len(s) - n /\ \A i \in 1 .. Len(s) - n : z[i] = s[n + i]
  BY <1>1, SubSeqProperties, SMTT(30)
<1> HIDE DEF a, z
<1>4. /\ t \in Seq(S) /\ Len(t) = Len(a) + Len(z)
      /\ \A i \in 1 .. Len(a) + Len(z) : t[i] = IF i <= Len(a) THEN a[i] ELSE z[i - Len(a)]
  BY <1>2, <1>3, ConcatProperties
<1> HIDE DEF t
<1>5. /\ DOMAIN t = 1 .. Len(s) - 1
      /\ \A i \in 1 .. Len(s) - 1 : t[i] = IF i < n THEN s[i] ELSE s[i + 1]
  <2>1. DOMAIN t = 1 .. Len(s) - 1
    BY <1>1, <1>2, <1>3, <1>4, SeqFacts
  <2>2. ASSUME NEW i \in 1 .. Len(s) - 1 PROVE t[i] = IF i < n THEN s[i] ELSE s[i + 1]
    <3>1. t[i] = IF i <= n - 1 THEN a[i] ELSE z[i - (n - 1)]
      BY <1>1, <1>2, <1>3, <1>4
    <3>2. CASE i < n
      BY <1>1, <1>2, <3>1, <3>2
    <3>3. CASE ~(i < n)
      <4>1. i - (n - 1) \in 1 .. Len(s) - n /\ n + (i - (n - 1)) = i + 1
        BY <1>1, <3>3
      <4> QED
        BY <1>1, <1>3, <3>1, <3>3, <4>1
    <3> QED
      BY <3>2, <3>3
  <2> QED
    BY <2>1, <2>2
<1>6. ASSUME NEW y, Holds(t, y) PROVE Holds(s, y) /\ y # s[n]
  <2>1. PICK i \in 1 .. Len(s) - 1 : t[i] = y
    BY <1>5, <1>6 DEF Holds
  <2> QED
    BY <1>1, <1>5, <2>1 DEF Holds, Distinct
<1>7. ASSUME NEW y, Holds(s, y), y # s[n] PROVE Holds(t, y)
  <2>1. PICK i \in 1 .. Len(s) : s[i] = y
    BY <1>1, <1>7 DEF Holds
  <2>2. CASE i < n
    BY <1>1, <1>5, <2>1, <2>2 DEF Holds
  <2>3. CASE i > n
    <3>1. i - 1 \in 1 .. Len(s) - 1 /\ ~(i - 1 < n) /\ (i - 1) + 1 = i
      BY <1>1, <2>3
    <3> QED
      BY <1>5, <2>1, <3>1 DEF Holds
  <2> QED
    BY <1>1, <1>7, <2>1, <2>2, <2>3
<1>8. Distinct(t)
  <2> SUFFICES ASSUME NEW j \in 1 .. Len(s) - 1, NEW k \in 1 .. Len(s) - 1, t[j] = t[k]
               PROVE  j = k
    BY <1>5 DEF Distinct
  <2> QED
    BY <1>1, <1>5 DEF Distinct
<1> QED
  BY <1>4, <1>6, <1>7, <1>8 DEF RemoveAt, t, a, z

LEMMA WithoutLast ==
    ASSUME NEW S, NEW s \in Seq(S), s # <<>>, Distinct(s)
    PROVE  /\ Last(s) \in S /\ Holds(s, Last(s))
           /\ Front(s) \in Seq(S)
           /\ \A y : Holds(Front(s), y) <=> Holds(s, y) /\ y # Last(s)
           /\ Distinct(Front(s))
<1> DEFINE t == Front(s)
           n == Len(s)
<1>1. n \in Nat \ {0} /\ DOMAIN s = 1 .. n /\ \A i \in 1 .. n : s[i] \in S
  BY SeqFacts, EmptySeq
<1>2. t \in Seq(S) /\ Len(t) = n - 1 /\ \A i \in 1 .. n - 1 : t[i] = s[i]
  BY <1>1, SubSeqProperties, SMTT(30) DEF Front
<1>3. DOMAIN t = 1 .. n - 1
  BY <1>2, SeqFacts
<1>4. Last(s) = s[n]
  BY DEF Last
<1> HIDE DEF t, n
<1>5. \A y : Holds(t, y) <=> Holds(s, y) /\ y # s[n]
  BY <1>1, <1>2, <1>3 DEF Holds, Distinct
<1>6. Distinct(t)
  BY <1>1, <1>2, <1>3 DEF Distinct
<1> QED
  BY <1>1, <1>2, <1>4, <1>5, <1>6 DEF Holds, t

(* A set of numbers has a least one: Min is about an element there is. *)
LEMMA LeastIsThere ==
    ASSUME NEW T, T \subseteq Nat, T # {}
    PROVE  Min(T) \in T
<1> DEFINE R == {ss \in Nat \X Nat : ss[1] < ss[2]}
<1>1. IsWellFoundedOn(OpToRel(<, Nat), Nat)
  BY NatLessThanWellFounded, Zenon
<1>2. IsWellFoundedOn(R, Nat)
  BY <1>1, Zenon DEF OpToRel
<1> HIDE DEF R
<1>3. \E x \in T : \A y \in T : ~(<<y, x>> \in R)
  BY <1>2, WFMin, Zenon
<1>4. \A x, y \in Nat : <<y, x>> \in R <=> y < x
  BY DEF R
<1>5. PICK x \in T : \A y \in T : ~(<<y, x>> \in R)
  BY <1>3
<1>6. ASSUME NEW y \in T PROVE x <= y
  <2>1. ~(y < x)
    BY <1>4, <1>5, Zenon
  <2> QED
    BY <2>1
<1> QED
  BY <1>6, Zenon DEF Min

LEMMA Dropped ==
    ASSUME NEW S, NEW s \in Seq(S), NEW x, Distinct(s)
    PROVE  /\ DropFirst(s, x) \in Seq(S)
           /\ \A y : Holds(DropFirst(s, x), y) <=> Holds(s, y) /\ y # x
           /\ Distinct(DropFirst(s, x))
<1> DEFINE places == {k \in DOMAIN s : s[k] = x}
<1>1. CASE places = {}
  <2>1. DropFirst(s, x) = s
    BY <1>1 DEF DropFirst
  <2>2. ~Holds(s, x)
    BY <1>1 DEF Holds
  <2> QED
    BY <2>1, <2>2
<1>2. CASE places # {}
  <2>1. places \subseteq Nat
    BY SeqFacts
  <2>2. Min(places) \in places
    BY <1>2, <2>1, LeastIsThere
  <2>3. DropFirst(s, x) = RemoveAt(s, Min(places))
    BY <1>2 DEF DropFirst
  <2>4. Min(places) \in DOMAIN s /\ s[Min(places)] = x
    BY <2>2
  <2> HIDE DEF places
  <2> QED
    BY <2>3, <2>4, RemovedAt
<1> QED
  BY <1>1, <1>2

LEMMA PutAtPlace ==
    ASSUME NEW S, NEW s \in Seq(S), NEW n \in 1 .. Len(s) + 1, NEW x \in S
    PROVE  /\ PutAt(s, n, x) \in Seq(S)
           /\ n <= Len(s) => Len(PutAt(s, n, x)) = Len(s)
           /\ ~(n <= Len(s)) => Len(PutAt(s, n, x)) = n
           /\ PutAt(s, n, x)[n] = x
           /\ \A j \in 1 .. Len(s) : j # n => PutAt(s, n, x)[j] = s[j]
<1>1. Len(s) \in Nat
  BY SeqFacts
<1>2. CASE n <= Len(s)
  BY <1>1, <1>2, ExceptSeq DEF PutAt
<1>3. CASE ~(n <= Len(s))
  BY <1>1, <1>3 DEF PutAt
<1> QED
  BY <1>2, <1>3

-----------------------------------------------------------------------------
(* The invariant. What rows and slots hold is of no matter here. *)

Histories == {<<>>} \cup {rec.history : rec \in OfferedRecords}
Plies == {0} \cup {Len(rec.history) : rec \in OfferedRecords}
Data == {<<>>} \cup {Packed(rec) : rec \in OfferedRecords}

Rings == [slot : [Row -> Nat], plies : [Row -> Plies], data : [Row -> Data],
          hist : Seq(Histories), refs : Seq(Nat), owner : Seq(GameIds),
          byId : [GameIds -> Seq(Nat)], free : Seq(Nat),
          head : Row, tail : Row, size : 0 .. Capacity, newest : {0} \cup GameIds]

RowsOf(slot, s) == {i \in Row : slot[i] = s}

(* A slot is counted, and it is either free or on the list of its game. *)
SlotOK(b, s) ==
    /\ b.refs[s] = Cardinality(RowsOf(b.slot, s))
    /\ b.refs[s] = 0 <=> Holds(b.free, s)
    /\ b.refs[s] > 0 <=> Holds(b.byId[b.owner[s]], s)

(* No list names a slot twice, nor one that is not there, and the list of a  *)
(* game names slots of that game only.                                       *)
ListsOK(b) ==
    /\ Distinct(b.free)
    /\ \A s : Holds(b.free, s) => s \in 1 .. Len(b.refs)
    /\ \A id \in GameIds : Distinct(b.byId[id])
    /\ \A id \in GameIds : \A s : Holds(b.byId[id], s) => s \in 1 .. Len(b.refs) /\ b.owner[s] = id

RingInv(b) ==
    /\ b \in Rings
    /\ Len(b.hist) = Len(b.refs) /\ Len(b.owner) = Len(b.refs) /\ Len(b.refs) <= Capacity
    /\ \A i \in Row : b.slot[i] <= Len(b.refs)
    /\ \A s \in 1 .. Len(b.refs) : SlotOK(b, s)
    /\ ListsOK(b)

LEMMA RowsAreFinite ==
    ASSUME NEW slot, NEW s
    PROVE  IsFiniteSet(RowsOf(slot, s)) /\ Cardinality(RowsOf(slot, s)) \in Nat
<1>1. IsFiniteSet(Row)
  BY CapacityOK, FS_Interval DEF Row
<1>2. IsFiniteSet(RowsOf(slot, s))
  BY <1>1, FS_Subset DEF RowsOf
<1> QED
  BY <1>2, FS_CardinalityType

(* A row lets go of its slot. *)
LEMMA RowLeaves ==
    ASSUME NEW slot \in [Row -> Nat], NEW i \in Row, slot[i] # 0, NEW s \in Nat \ {0}
    PROVE  Cardinality(RowsOf([slot EXCEPT ![i] = 0], s)) =
             IF s = slot[i] THEN Cardinality(RowsOf(slot, s)) - 1 ELSE Cardinality(RowsOf(slot, s))
<1> DEFINE moved == [slot EXCEPT ![i] = 0]
           A == RowsOf(slot, s)
<1>1. CASE s = slot[i]
  <2>1. RowsOf(moved, s) = A \ {i} /\ i \in A /\ IsFiniteSet(A)
    BY <1>1, RowsAreFinite DEF RowsOf
  <2> QED
    BY <1>1, <2>1, FS_RemoveElement
<1>2. CASE s # slot[i]
  <2>1. RowsOf(moved, s) = A
    BY <1>2 DEF RowsOf
  <2> QED
    BY <1>2, <2>1
<1> QED
  BY <1>1, <1>2

(* A row without a slot takes one. *)
LEMMA RowEnters ==
    ASSUME NEW slot \in [Row -> Nat], NEW i \in Row, slot[i] = 0, NEW t \in Nat \ {0},
           NEW s \in Nat \ {0}, NEW moved, moved[i] = t, \A j \in Row \ {i} : moved[j] = slot[j]
    PROVE  Cardinality(RowsOf(moved, s)) =
             IF s = t THEN Cardinality(RowsOf(slot, s)) + 1 ELSE Cardinality(RowsOf(slot, s))
<1> DEFINE A == RowsOf(slot, s)
<1>1. CASE s = t
  <2>1. RowsOf(moved, s) = A \cup {i} /\ i \notin A /\ IsFiniteSet(A)
    BY <1>1, RowsAreFinite DEF RowsOf
  <2> HIDE DEF A
  <2>2. Cardinality(A \cup {i}) = Cardinality(A) + 1
    BY <2>1, FS_AddElement
  <2> QED
    BY <1>1, <2>1, <2>2 DEF A
<1>2. CASE s # t
  <2>1. RowsOf(moved, s) = A
    BY <1>2 DEF RowsOf
  <2> QED
    BY <1>2, <2>1
<1> QED
  BY <1>1, <1>2

LEMMA NoRows ==
    ASSUME NEW slot, NEW s
    PROVE  Cardinality(RowsOf(slot, s)) = 0 <=> \A i \in Row : slot[i] # s
<1>1. Cardinality(RowsOf(slot, s)) = 0 <=> RowsOf(slot, s) = {}
  BY RowsAreFinite, FS_EmptySet
<1> QED
  BY <1>1 DEF RowsOf

(* Slots that all have rows are fewer than the rows when a row has no slot.  *)
LEMMA RoomForOne ==
    ASSUME NEW slot \in [Row -> Nat], NEW n \in Nat, NEW i \in Row, slot[i] = 0,
           \A s \in 1 .. n : \E j \in Row : slot[j] = s
    PROVE  n < Capacity
<1> DEFINE f == [s \in 1 .. n |-> CHOOSE j \in Row : slot[j] = s]
           T == Row \ {i}
<1>1. \A s \in 1 .. n : f[s] \in T /\ slot[f[s]] = s
  <2> TAKE s \in 1 .. n
  <2>1. f[s] \in Row /\ slot[f[s]] = s
    BY Zenon
  <2> QED
    BY <2>1
<1>2. f \in Injection(1 .. n, T)
  <2>1. f \in [1 .. n -> T]
    BY <1>1
  <2> HIDE DEF f
  <2>2. \A a, b \in 1 .. n : f[a] = f[b] => a = b
    BY <1>1
  <2> QED
    BY <2>1, <2>2 DEF Injection, IsInjective
<1>3. IsFiniteSet(Row) /\ Cardinality(Row) = Capacity
  BY CapacityOK, FS_Interval DEF Row
<1>4. IsFiniteSet(T) /\ Cardinality(T) = Capacity - 1
  BY <1>3, FS_RemoveElement
<1>5. Cardinality(1 .. n) <= Cardinality(T)
  BY <1>2, <1>4, FS_Injection
<1>6. Cardinality(1 .. n) = n
  BY FS_Interval
<1> QED
  BY <1>4, <1>5, <1>6, CapacityOK

-----------------------------------------------------------------------------
(* _release_row keeps the invariant, and leaves the row without a slot. *)

LEMMA InvFacts ==
    ASSUME NEW b, RingInv(b)
    PROVE  /\ b \in Rings
           /\ Len(b.refs) \in Nat /\ DOMAIN b.refs = 1 .. Len(b.refs)
           /\ \A s \in 1 .. Len(b.refs) : b.refs[s] \in Nat /\ b.owner[s] \in GameIds
           /\ \A i \in Row : b.slot[i] \in 0 .. Len(b.refs)
<1>1. b \in Rings /\ b.refs \in Seq(Nat) /\ b.owner \in Seq(GameIds) /\ b.slot \in [Row -> Nat]
  BY DEF RingInv, Rings
<1>2. /\ Len(b.refs) \in Nat /\ DOMAIN b.refs = 1 .. Len(b.refs)
      /\ \A s \in 1 .. Len(b.refs) : b.refs[s] \in Nat
  BY <1>1, SeqFacts
<1>3. \A s \in 1 .. Len(b.owner) : b.owner[s] \in GameIds
  BY <1>1, SeqFacts
<1>4. Len(b.owner) = Len(b.refs) /\ \A i \in Row : b.slot[i] <= Len(b.refs)
  BY DEF RingInv
<1> QED
  BY <1>1, <1>2, <1>3, <1>4

LEMMA ReleaseNothing ==
    ASSUME NEW b, RingInv(b), NEW i \in Row, b.slot[i] = 0
    PROVE  RingInv(ReleaseRow(b, i)) /\ ReleaseRow(b, i).slot[i] = 0
<1> DEFINE c == ReleaseRow(b, i)
<1>1. c = [b EXCEPT !.slot[i] = 0, !.plies[i] = 0]
  BY DEF ReleaseRow
<1>2. b \in Rings /\ b.slot \in [Row -> Nat] /\ b.plies \in [Row -> Plies]
  BY DEF RingInv, Rings
<1> HIDE DEF c
<1>3. /\ c \in Rings /\ c.slot = b.slot /\ c.refs = b.refs /\ c.hist = b.hist
      /\ c.owner = b.owner /\ c.free = b.free /\ c.byId = b.byId
  <2>1. [b.slot EXCEPT ![i] = 0] = b.slot
    BY <1>2
  <2>2. [b.plies EXCEPT ![i] = 0] \in [Row -> Plies]
    BY <1>2 DEF Plies
  <2>3. c = [b EXCEPT !.slot = b.slot, !.plies = [b.plies EXCEPT ![i] = 0]]
    BY <1>1, <2>1, Zenon
  <2> QED
    BY <1>2, <2>2, <2>3 DEF Rings
<1>4. RingInv(c)
  BY <1>3 DEF RingInv, SlotOK, ListsOK
<1> QED
  BY <1>3, <1>4 DEF c

LEMMA ReleaseShared ==
    ASSUME NEW b, RingInv(b), NEW i \in Row, b.slot[i] # 0, b.refs[b.slot[i]] > 1
    PROVE  RingInv(ReleaseRow(b, i)) /\ ReleaseRow(b, i).slot[i] = 0
<1> DEFINE c == ReleaseRow(b, i)
           s == b.slot[i]
<1>1. c = [b EXCEPT !.slot[i] = 0, !.plies[i] = 0, !.refs[s] = @ - 1]
  BY DEF ReleaseRow
<1>2. /\ b \in Rings /\ b.slot \in [Row -> Nat] /\ b.plies \in [Row -> Plies]
      /\ b.refs \in Seq(Nat)
  BY DEF RingInv, Rings
<1>3. s \in 1 .. Len(b.refs) /\ b.refs[s] - 1 \in Nat
  BY InvFacts
<1>4. /\ [b.refs EXCEPT ![s] = @ - 1] \in Seq(Nat)
      /\ Len([b.refs EXCEPT ![s] = @ - 1]) = Len(b.refs)
      /\ \A k \in 1 .. Len(b.refs) :
            [b.refs EXCEPT ![s] = @ - 1][k] = IF k = s THEN b.refs[s] - 1 ELSE b.refs[k]
  BY <1>2, <1>3, ExceptSeq
<1> HIDE DEF c, s
<1>5. /\ c \in Rings /\ c.slot = [b.slot EXCEPT ![i] = 0]
      /\ c.refs = [b.refs EXCEPT ![s] = @ - 1] /\ c.hist = b.hist
      /\ c.owner = b.owner /\ c.free = b.free /\ c.byId = b.byId
  BY <1>1, <1>2, <1>4 DEF Rings, Plies
<1>6. ASSUME NEW k \in 1 .. Len(b.refs) PROVE SlotOK(c, k)
  <2>1. k \in Nat \ {0}
    BY InvFacts
  <2>2. SlotOK(b, k) /\ b.refs[k] \in Nat
    BY InvFacts DEF RingInv
  <2>3. Cardinality(RowsOf(c.slot, k)) =
          IF k = s THEN Cardinality(RowsOf(b.slot, k)) - 1 ELSE Cardinality(RowsOf(b.slot, k))
    <3>1. Cardinality(RowsOf([b.slot EXCEPT ![i] = 0], k)) =
            IF k = b.slot[i] THEN Cardinality(RowsOf(b.slot, k)) - 1 ELSE Cardinality(RowsOf(b.slot, k))
      BY <2>1, <1>2, RowLeaves, Zenon
    <3> QED
      BY <3>1, <1>5, Zenon DEF s
  <2>4. c.refs[k] = IF k = s THEN b.refs[k] - 1 ELSE b.refs[k]
    BY <1>4, <1>5
  <2>5. b.refs[s] > 1
    BY DEF s
  <2> QED
    BY <1>5, <2>2, <2>3, <2>4, <2>5 DEF SlotOK
<1>7. Len(c.refs) = Len(b.refs)
  BY <1>4, <1>5
<1>8. ListsOK(c)
  BY <1>5, <1>7 DEF RingInv, ListsOK
<1>9. c.slot[i] = 0 /\ \A j \in Row : c.slot[j] <= Len(c.refs)
  BY <1>2, <1>5, <1>7, InvFacts
<1> QED
  BY <1>5, <1>6, <1>7, <1>8, <1>9 DEF RingInv, c

LEMMA ReleaseLast ==
    ASSUME NEW b, RingInv(b), NEW i \in Row, b.slot[i] # 0, ~(b.refs[b.slot[i]] > 1)
    PROVE  RingInv(ReleaseRow(b, i)) /\ ReleaseRow(b, i).slot[i] = 0
<1> DEFINE c == ReleaseRow(b, i)
           s == b.slot[i]
           g == b.owner[s]
           refs == [b.refs EXCEPT ![s] = 0]
           hist == [b.hist EXCEPT ![s] = <<>>]
           free == Append(b.free, s)
           list == DropFirst(b.byId[g], s)
<1>1. c = [b EXCEPT !.slot[i] = 0, !.plies[i] = 0, !.refs[s] = 0, !.hist[s] = <<>>,
                    !.free = free, !.byId[g] = list]
  BY DEF ReleaseRow
<1>2. /\ b \in Rings /\ b.slot \in [Row -> Nat] /\ b.plies \in [Row -> Plies]
      /\ b.refs \in Seq(Nat) /\ b.hist \in Seq(Histories) /\ b.free \in Seq(Nat)
      /\ b.byId \in [GameIds -> Seq(Nat)] /\ Len(b.hist) = Len(b.refs)
  BY DEF RingInv, Rings
<1>3. s \in 1 .. Len(b.refs) /\ s \in Nat /\ g \in GameIds /\ b.refs[s] \in Nat
  BY InvFacts
<1>4. SlotOK(b, s) /\ ListsOK(b)
  BY <1>3 DEF RingInv
<1>5. b.refs[s] = 1
  <2>1. Cardinality(RowsOf(b.slot, s)) # 0
    BY NoRows
  <2> QED
    BY <1>3, <1>4, <2>1 DEF SlotOK
<1>6. /\ refs \in Seq(Nat) /\ Len(refs) = Len(b.refs)
      /\ \A k \in 1 .. Len(b.refs) : refs[k] = IF k = s THEN 0 ELSE b.refs[k]
  BY <1>2, <1>3, ExceptSeq
<1>7. hist \in Seq(Histories) /\ Len(hist) = Len(b.refs)
  BY <1>2, <1>3, ExceptSeq DEF Histories
<1>8. ~Holds(b.free, s) /\ Holds(b.byId[g], s)
  BY <1>4, <1>5 DEF SlotOK
<1>9. /\ free \in Seq(Nat) /\ Distinct(free)
      /\ \A y : Holds(free, y) <=> Holds(b.free, y) \/ y = s
  BY <1>2, <1>3, <1>4, <1>8, Appended DEF ListsOK
<1>10. /\ list \in Seq(Nat) /\ Distinct(list)
       /\ \A y : Holds(list, y) <=> Holds(b.byId[g], y) /\ y # s
  <2>1. b.byId[g] \in Seq(Nat) /\ Distinct(b.byId[g])
    BY <1>2, <1>3, <1>4 DEF ListsOK
  <2> QED
    BY <2>1, Dropped
<1> HIDE DEF c, s, g, refs, hist, free, list
<1>11. /\ c \in Rings /\ c.slot = [b.slot EXCEPT ![i] = 0]
       /\ c.refs = refs /\ c.hist = hist
       /\ c.owner = b.owner /\ c.free = free /\ c.byId = [b.byId EXCEPT ![g] = list]
  BY <1>1, <1>2, <1>3, <1>6, <1>7, <1>9, <1>10 DEF Rings, Plies, refs, hist
<1>12. ASSUME NEW k \in 1 .. Len(b.refs) PROVE SlotOK(c, k)
  <2>1. k \in Nat \ {0}
    BY InvFacts
  <2>2. SlotOK(b, k) /\ b.refs[k] \in Nat /\ b.owner[k] \in GameIds
    BY InvFacts DEF RingInv
  <2>3. Cardinality(RowsOf(c.slot, k)) =
          IF k = s THEN Cardinality(RowsOf(b.slot, k)) - 1 ELSE Cardinality(RowsOf(b.slot, k))
    <3>1. Cardinality(RowsOf([b.slot EXCEPT ![i] = 0], k)) =
            IF k = b.slot[i] THEN Cardinality(RowsOf(b.slot, k)) - 1 ELSE Cardinality(RowsOf(b.slot, k))
      BY <2>1, <1>2, RowLeaves, Zenon
    <3> QED
      BY <3>1, <1>11, Zenon DEF s
  <2>4. CASE k = s
    <3>1. c.refs[k] = 0 /\ Cardinality(RowsOf(c.slot, k)) = 0
      BY <2>2, <2>3, <2>4, <1>5, <1>6, <1>11 DEF SlotOK
    <3>2. Holds(c.free, k) /\ ~Holds(c.byId[c.owner[k]], k)
      BY <2>4, <1>2, <1>3, <1>9, <1>10, <1>11 DEF g
    <3> QED
      BY <3>1, <3>2 DEF SlotOK
  <2>5. CASE k # s
    <3>1. c.refs[k] = b.refs[k] /\ Cardinality(RowsOf(c.slot, k)) = Cardinality(RowsOf(b.slot, k))
      BY <2>3, <2>5, <1>6, <1>11
    <3>2. Holds(c.free, k) <=> Holds(b.free, k)
      BY <2>5, <1>9, <1>11
    <3>3. Holds(c.byId[c.owner[k]], k) <=> Holds(b.byId[b.owner[k]], k)
      BY <2>2, <2>5, <1>2, <1>3, <1>10, <1>11
    <3> QED
      BY <2>2, <3>1, <3>2, <3>3 DEF SlotOK
  <2> QED
    BY <2>4, <2>5
<1>13. ListsOK(c)
  <2>1. \A y : Holds(c.free, y) => y \in 1 .. Len(c.refs)
    BY <1>3, <1>4, <1>6, <1>9, <1>11 DEF ListsOK
  <2>2. ASSUME NEW id \in GameIds
        PROVE  /\ Distinct(c.byId[id])
               /\ \A y : Holds(c.byId[id], y) => y \in 1 .. Len(c.refs) /\ c.owner[y] = id
    <3>1. /\ Distinct(b.byId[id])
          /\ \A y : Holds(b.byId[id], y) => y \in 1 .. Len(b.refs) /\ b.owner[y] = id
      BY <1>4 DEF ListsOK
    <3>2. c.byId[id] = IF id = g THEN list ELSE b.byId[id]
      BY <1>2, <1>11
    <3> QED
      BY <1>6, <1>10, <1>11, <3>1, <3>2
  <2> QED
    BY <1>9, <1>11, <2>1, <2>2 DEF ListsOK
<1>14. c.slot[i] = 0 /\ \A j \in Row : c.slot[j] <= Len(c.refs)
  BY <1>2, <1>6, <1>11, InvFacts
<1>15. Len(c.hist) = Len(c.refs) /\ Len(c.owner) = Len(c.refs) /\ Len(c.refs) <= Capacity
  BY <1>6, <1>7, <1>11 DEF RingInv
<1> QED
  BY <1>6, <1>11, <1>12, <1>13, <1>14, <1>15 DEF RingInv, c

LEMMA Releases ==
    ASSUME NEW b, RingInv(b), NEW i \in Row
    PROVE  RingInv(ReleaseRow(b, i)) /\ ReleaseRow(b, i).slot[i] = 0
BY ReleaseNothing, ReleaseShared, ReleaseLast

-----------------------------------------------------------------------------
(* _find_or_create_game_slot and the row's reference keep the invariant. *)

(* The buffer after row i, which had no slot, took one for game g. *)
Occupied(b, i, g, h) == [TakeSlot(b, g, h) EXCEPT !.slot[i] = SlotFor(b, g, h)]

(* What all three ways to find a slot have in common. *)
LEMMA Occupies ==
    ASSUME NEW b, RingInv(b), NEW i \in Row, b.slot[i] = 0, NEW g \in GameIds,
           NEW t \in Nat \ {0}, NEW c \in Rings,
           c.slot = [b.slot EXCEPT ![i] = t], t <= Len(c.refs),
           Len(b.refs) <= Len(c.refs), Len(c.refs) <= Capacity,
           Len(c.hist) = Len(c.refs), Len(c.owner) = Len(c.refs),
           c.refs[t] = Cardinality(RowsOf(b.slot, t)) + 1,
           c.owner[t] = g,
           Holds(c.byId[g], t), ~Holds(c.free, t),
           \A k \in 1 .. Len(c.refs) : k # t =>
              /\ k <= Len(b.refs) /\ c.refs[k] = b.refs[k] /\ c.owner[k] = b.owner[k]
              /\ Holds(c.free, k) <=> Holds(b.free, k)
              /\ Holds(c.byId[c.owner[k]], k) <=> Holds(b.byId[c.owner[k]], k),
           ListsOK(c)
    PROVE  RingInv(c)
<1>1. b.slot \in [Row -> Nat]
  BY DEF RingInv, Rings
<1>2. ASSUME NEW k \in 1 .. Len(c.refs) PROVE SlotOK(c, k)
  <2>1. Len(c.refs) \in Nat /\ k \in Nat \ {0} /\ Len(b.refs) \in Nat
    BY SeqFacts DEF Rings, RingInv
  <2>2. Cardinality(RowsOf(c.slot, k)) =
          IF k = t THEN Cardinality(RowsOf(b.slot, k)) + 1 ELSE Cardinality(RowsOf(b.slot, k))
    <3>1. c.slot[i] = t /\ \A j \in Row \ {i} : c.slot[j] = b.slot[j]
      BY <1>1
    <3> QED
      BY <1>1, <2>1, <3>1, RowEnters
  <2>3. CASE k = t
    <3>1. Cardinality(RowsOf(b.slot, k)) \in Nat
      BY RowsAreFinite
    <3> QED
      BY <2>2, <2>3, <3>1 DEF SlotOK
  <2>4. CASE k # t
    <3>1. SlotOK(b, k)
      BY <2>1, <2>4 DEF RingInv
    <3> QED
      BY <2>2, <2>4, <3>1 DEF SlotOK
  <2> QED
    BY <2>3, <2>4
<1>3. \A j \in Row : c.slot[j] <= Len(c.refs)
  <2>1. Len(c.refs) \in Nat
    BY SeqFacts DEF Rings
  <2> QED
    BY <1>1, <2>1, InvFacts
<1> QED
  BY <1>2, <1>3 DEF RingInv

(* A slot of the game whose history agrees. *)
LEMMA OccupiesShared ==
    ASSUME NEW b, RingInv(b), NEW i \in Row, b.slot[i] = 0, NEW g \in GameIds,
           NEW h \in Histories, Sharing(b, g, h) # {}
    PROVE  RingInv(Occupied(b, i, g, h))
<1> DEFINE c == Occupied(b, i, g, h)
           n == Min(Sharing(b, g, h))
           t == b.byId[g][n]
           old == b.hist[t]
           kept == IF Len(h) > Len(old) THEN h ELSE old
           refs == [b.refs EXCEPT ![t] = @ + 1]
           hist == [b.hist EXCEPT ![t] = kept]
<1>1. SlotFor(b, g, h) = t
  BY DEF SlotFor
<1>2. c = [b EXCEPT !.refs = refs, !.hist = hist, !.slot[i] = t]
  BY <1>1 DEF Occupied, TakeSlot
<1> HIDE DEF c
<1>3. /\ b \in Rings /\ b.slot \in [Row -> Nat] /\ b.refs \in Seq(Nat)
      /\ b.hist \in Seq(Histories) /\ b.byId \in [GameIds -> Seq(Nat)]
      /\ Len(b.hist) = Len(b.refs) /\ Len(b.owner) = Len(b.refs) /\ Len(b.refs) <= Capacity
      /\ ListsOK(b)
  BY DEF RingInv, Rings
<1>4. n \in DOMAIN b.byId[g]
  <2>1. Sharing(b, g, h) \subseteq DOMAIN b.byId[g]
    BY DEF Sharing
  <2>2. DOMAIN b.byId[g] \subseteq Nat
    BY <1>3, SeqFacts
  <2>3. n \in Sharing(b, g, h)
    BY <2>1, <2>2, LeastIsThere
  <2> QED
    BY <2>1, <2>3
<1> HIDE DEF n
<1>5. Holds(b.byId[g], t)
  BY <1>4 DEF Holds
<1>6. t \in 1 .. Len(b.refs) /\ b.owner[t] = g /\ b.refs[t] \in Nat /\ Len(b.refs) \in Nat
  BY <1>3, <1>5, InvFacts DEF ListsOK
<1>7. SlotOK(b, t)
  BY <1>6 DEF RingInv
<1>8. ~Holds(b.free, t)
  BY <1>5, <1>6, <1>7 DEF SlotOK
<1>9. /\ refs \in Seq(Nat) /\ Len(refs) = Len(b.refs)
      /\ \A k \in 1 .. Len(b.refs) : refs[k] = IF k = t THEN b.refs[t] + 1 ELSE b.refs[k]
  <2>1. b.refs[t] + 1 \in Nat
    BY <1>6
  <2> HIDE DEF t
  <2> QED
    BY <1>3, <1>6, <2>1, ExceptSeq
<1>10. hist \in Seq(Histories) /\ Len(hist) = Len(b.refs)
  <2>1. kept \in Histories
    BY <1>3, <1>6, SeqFacts
  <2> HIDE DEF kept
  <2> QED
    BY <1>3, <1>6, <2>1, ExceptSeq
<1> HIDE DEF t, refs, hist
<1>11. /\ c \in Rings /\ c.slot = [b.slot EXCEPT ![i] = t] /\ c.refs = refs /\ c.hist = hist
       /\ c.owner = b.owner /\ c.free = b.free /\ c.byId = b.byId
  <2>1. [b.slot EXCEPT ![i] = t] \in [Row -> Nat]
    BY <1>3, <1>6
  <2>2. c = [b EXCEPT !.refs = refs, !.hist = hist, !.slot = [b.slot EXCEPT ![i] = t]]
    BY <1>2
  <2> QED
    BY <2>1, <2>2, <1>3, <1>9, <1>10 DEF Rings
<1>12. c.refs[t] = Cardinality(RowsOf(b.slot, t)) + 1
  BY <1>6, <1>7, <1>9, <1>11 DEF SlotOK
<1>13. ListsOK(c)
  BY <1>3, <1>9, <1>11 DEF ListsOK
<1>14. /\ t \in Nat \ {0} /\ t <= Len(c.refs) /\ Len(b.refs) <= Len(c.refs)
       /\ Len(c.hist) = Len(c.refs) /\ Len(c.owner) = Len(c.refs) /\ Len(c.refs) <= Capacity
       /\ c.owner[t] = g /\ Holds(c.byId[g], t) /\ ~Holds(c.free, t)
  BY <1>3, <1>5, <1>6, <1>8, <1>9, <1>10, <1>11
<1>15. \A k \in 1 .. Len(c.refs) : k # t =>
              /\ k <= Len(b.refs) /\ c.refs[k] = b.refs[k] /\ c.owner[k] = b.owner[k]
              /\ Holds(c.free, k) <=> Holds(b.free, k)
              /\ Holds(c.byId[c.owner[k]], k) <=> Holds(b.byId[c.owner[k]], k)
  BY <1>9, <1>11, <1>6
<1>16. RingInv(c)
  BY <1>11, <1>12, <1>13, <1>14, <1>15, Occupies
<1> QED
  BY <1>16 DEF c

(* A slot of its own: one that is free, or a new one at the end. *)
LEMMA OccupiesOwn ==
    ASSUME NEW b, RingInv(b), NEW i \in Row, b.slot[i] = 0, NEW g \in GameIds,
           NEW h \in Histories, Sharing(b, g, h) = {}
    PROVE  RingInv(Occupied(b, i, g, h))
<1> DEFINE c == Occupied(b, i, g, h)
           t == SlotFor(b, g, h)
           refs == PutAt(b.refs, t, 1)
           hist == PutAt(b.hist, t, h)
           owner == PutAt(b.owner, t, g)
           free == IF b.free = <<>> THEN b.free ELSE Front(b.free)
           list == Append(b.byId[g], t)
<1>1. c = [b EXCEPT !.refs = refs, !.hist = hist, !.owner = owner, !.free = free,
                    !.byId[g] = list, !.slot[i] = t]
  BY DEF Occupied, TakeSlot
<1>2. /\ b \in Rings /\ b.slot \in [Row -> Nat] /\ b.refs \in Seq(Nat) /\ b.owner \in Seq(GameIds)
      /\ b.hist \in Seq(Histories) /\ b.byId \in [GameIds -> Seq(Nat)] /\ b.free \in Seq(Nat)
      /\ Len(b.hist) = Len(b.refs) /\ Len(b.owner) = Len(b.refs) /\ Len(b.refs) <= Capacity
      /\ ListsOK(b) /\ Len(b.refs) \in Nat
  BY InvFacts DEF RingInv, Rings
<1>3. /\ t \in 1 .. Len(b.refs) + 1 /\ ~Holds(free, t) /\ free \in Seq(Nat) /\ Distinct(free)
      /\ \A y : y # t => (Holds(free, y) <=> Holds(b.free, y))
      /\ t <= Len(b.refs) => b.refs[t] = 0
      /\ t > Len(b.refs) => Len(b.refs) < Capacity
  <2>1. CASE b.free = <<>>
    <3>1. t = Len(b.refs) + 1 /\ free = <<>>
      BY <2>1, <1>2 DEF SlotFor
    <3>2. ~\E y : Holds(b.free, y)
      BY <2>1 DEF Holds
    <3>3. Len(b.refs) < Capacity
      <4>1. ASSUME NEW s \in 1 .. Len(b.refs) PROVE \E j \in Row : b.slot[j] = s
        <5>1. SlotOK(b, s)
          BY DEF RingInv
        <5>2. Cardinality(RowsOf(b.slot, s)) # 0
          BY <5>1, <3>2 DEF SlotOK
        <5> QED
          BY <5>2, NoRows
      <4> QED
        BY <4>1, <1>2, RoomForOne
    <3> HIDE DEF t, free
    <3> QED
      BY <2>1, <3>1, <3>2, <3>3, <1>2 DEF ListsOK
  <2>2. CASE b.free # <<>>
    <3>1. t = Last(b.free) /\ free = Front(b.free)
      BY <2>2 DEF SlotFor
    <3> HIDE DEF t, free
    <3>2. /\ Holds(b.free, t) /\ free \in Seq(Nat) /\ Distinct(free)
          /\ \A y : Holds(free, y) <=> Holds(b.free, y) /\ y # t
      BY <2>2, <3>1, <1>2, WithoutLast DEF ListsOK
    <3>3. t \in 1 .. Len(b.refs)
      BY <3>2, <1>2 DEF ListsOK
    <3>4. b.refs[t] = 0
      BY <3>2, <3>3 DEF RingInv, SlotOK
    <3> QED
      BY <3>2, <3>3, <3>4, <1>2
  <2> QED
    BY <2>1, <2>2
<1> HIDE DEF c, t, free
<1>4. t \in Nat \ {0}
  BY <1>2, <1>3
<1>5. \A id \in GameIds : ~Holds(b.byId[id], t)
  <2> SUFFICES ASSUME NEW id \in GameIds, Holds(b.byId[id], t) PROVE FALSE
    OBVIOUS
  <2>1. t \in 1 .. Len(b.refs) /\ b.owner[t] = id
    BY <1>2 DEF ListsOK
  <2>2. SlotOK(b, t) /\ b.refs[t] = 0
    BY <2>1, <1>2, <1>3 DEF RingInv
  <2> QED
    BY <2>1, <2>2 DEF SlotOK
<1>6. /\ refs \in Seq(Nat)
      /\ t <= Len(b.refs) => Len(refs) = Len(b.refs)
      /\ ~(t <= Len(b.refs)) => Len(refs) = t
      /\ refs[t] = 1 /\ \A k \in 1 .. Len(b.refs) : k # t => refs[k] = b.refs[k]
  <2> DEFINE old == b.refs
         one == 1
         N == Nat
  <2>1. old \in Seq(N) /\ t \in 1 .. Len(old) + 1 /\ one \in N /\ Len(old) = Len(b.refs)
    BY <1>2, <1>3
  <2> DEFINE new == PutAt(old, t, one)
  <2>2. refs = new
    OBVIOUS
  <2> HIDE DEF refs, old, one, N
  <2>3. new \in Seq(N) /\ new[t] = one
    BY ONLY <2>1, PutAtPlace
  <2>4. ASSUME t <= Len(old) PROVE Len(new) = Len(old)
    BY <2>1, <2>4, PutAtPlace
  <2>5. ~(t <= Len(old)) => Len(new) = t
    BY <2>1, PutAtPlace
  <2>6. ASSUME NEW k \in 1 .. Len(old), k # t PROVE new[k] = old[k]
    BY <2>1, <2>6, PutAtPlace
  <2> HIDE DEF new
  <2> QED
    BY <2>1, <2>2, <2>3, <2>4, <2>5, <2>6 DEF old, one, N
<1>7. /\ hist \in Seq(Histories)
      /\ t <= Len(b.refs) => Len(hist) = Len(b.refs)
      /\ ~(t <= Len(b.refs)) => Len(hist) = t
  <2> DEFINE old == b.hist
  <2>1. old \in Seq(Histories) /\ t \in 1 .. Len(old) + 1 /\ h \in Histories /\ Len(old) = Len(b.refs)
    BY <1>2, <1>3
  <2> DEFINE new == PutAt(old, t, h)
  <2>2. hist = new
    OBVIOUS
  <2> HIDE DEF hist, old
  <2>3. new \in Seq(Histories) /\ new[t] = h
    BY <2>1, PutAtPlace
  <2>4. ASSUME t <= Len(old) PROVE Len(new) = Len(old)
    BY <2>1, <2>4, PutAtPlace
  <2>5. ~(t <= Len(old)) => Len(new) = t
    BY <2>1, PutAtPlace
  <2>6. ASSUME NEW k \in 1 .. Len(old), k # t PROVE new[k] = old[k]
    BY <2>1, <2>6, PutAtPlace
  <2> HIDE DEF new
  <2> QED
    BY <2>1, <2>2, <2>3, <2>4, <2>5, <2>6 DEF old
<1>8. /\ owner \in Seq(GameIds)
      /\ t <= Len(b.refs) => Len(owner) = Len(b.refs)
      /\ ~(t <= Len(b.refs)) => Len(owner) = t
      /\ owner[t] = g /\ \A k \in 1 .. Len(b.refs) : k # t => owner[k] = b.owner[k]
  <2> DEFINE old == b.owner
  <2>1. old \in Seq(GameIds) /\ t \in 1 .. Len(old) + 1 /\ g \in GameIds /\ Len(old) = Len(b.refs)
    BY <1>2, <1>3
  <2> DEFINE new == PutAt(old, t, g)
  <2>2. owner = new
    OBVIOUS
  <2> HIDE DEF owner, old
  <2>3. new \in Seq(GameIds) /\ new[t] = g
    BY <2>1, PutAtPlace
  <2>4. ASSUME t <= Len(old) PROVE Len(new) = Len(old)
    BY <2>1, <2>4, PutAtPlace
  <2>5. ~(t <= Len(old)) => Len(new) = t
    BY <2>1, PutAtPlace
  <2>6. ASSUME NEW k \in 1 .. Len(old), k # t PROVE new[k] = old[k]
    BY <2>1, <2>6, PutAtPlace
  <2> HIDE DEF new
  <2> QED
    BY <2>1, <2>2, <2>3, <2>4, <2>5, <2>6 DEF old
<1>9. /\ list \in Seq(Nat) /\ Distinct(list)
      /\ \A y : Holds(list, y) <=> Holds(b.byId[g], y) \/ y = t
  <2>1. b.byId[g] \in Seq(Nat) /\ Distinct(b.byId[g]) /\ ~Holds(b.byId[g], t) /\ t \in Nat
    BY <1>2, <1>4, <1>5 DEF ListsOK
  <2> QED
    BY <2>1, Appended
<1> HIDE DEF refs, hist, owner, list
<1>10. /\ c \in Rings /\ c.slot = [b.slot EXCEPT ![i] = t] /\ c.refs = refs /\ c.hist = hist
       /\ c.owner = owner /\ c.free = free /\ c.byId = [b.byId EXCEPT ![g] = list]
  BY <1>1, <1>2, <1>3, <1>4, <1>6, <1>7, <1>8, <1>9 DEF Rings
<1>11. /\ t <= Len(c.refs) /\ Len(b.refs) <= Len(c.refs) /\ Len(c.refs) <= Capacity
       /\ Len(c.hist) = Len(c.refs) /\ Len(c.owner) = Len(c.refs)
  BY <1>2, <1>3, <1>6, <1>7, <1>8, <1>10, CapacityOK
<1>12. c.refs[t] = Cardinality(RowsOf(b.slot, t)) + 1
  <2>1. CASE t <= Len(b.refs)
    <3>1. SlotOK(b, t) /\ b.refs[t] = 0
      <4>1. \A k \in 1 .. Len(b.refs) : SlotOK(b, k)
        BY Zenon DEF RingInv
      <4>2. b.refs[t] = 0
        BY <2>1, <1>3
      <4>3. t \in 1 .. Len(b.refs)
        BY <2>1, <1>2, <1>3
      <4> QED
        BY <4>1, <4>2, <4>3
    <3>2. Cardinality(RowsOf(b.slot, t)) = b.refs[t]
      BY <3>1 DEF SlotOK
    <3>3. c.refs[t] = 1
      BY <1>6, <1>10
    <3> QED
      BY <3>1, <3>2, <3>3
  <2>2. CASE ~(t <= Len(b.refs))
    <3>1. \A j \in Row : b.slot[j] # t
      BY <2>2, <1>2, <1>3, InvFacts
    <3>2. Cardinality(RowsOf(b.slot, t)) = 0
      BY <3>1, NoRows
    <3> QED
      BY <3>2, <1>6, <1>10
  <2> QED
    BY <2>1, <2>2
<1>13. c.owner[t] = g /\ Holds(c.byId[g], t) /\ ~Holds(c.free, t)
  BY <1>2, <1>3, <1>8, <1>9, <1>10
<1>14. ASSUME NEW k \in 1 .. Len(c.refs), k # t
       PROVE  /\ k <= Len(b.refs) /\ c.refs[k] = b.refs[k] /\ c.owner[k] = b.owner[k]
              /\ Holds(c.free, k) <=> Holds(b.free, k)
              /\ Holds(c.byId[c.owner[k]], k) <=> Holds(b.byId[c.owner[k]], k)
  <2>1. k \in 1 .. Len(b.refs)
    BY <1>14, <1>2, <1>3, <1>6, <1>10
  <2>2. c.refs[k] = b.refs[k] /\ c.owner[k] = b.owner[k] /\ b.owner[k] \in GameIds
    BY <1>14, <2>1, <1>6, <1>8, <1>10, InvFacts
  <2>3. Holds(c.byId[c.owner[k]], k) <=> Holds(b.byId[c.owner[k]], k)
    BY <1>14, <2>2, <1>2, <1>9, <1>10
  <2> QED
    BY <1>14, <2>1, <2>2, <2>3, <1>3, <1>10
<1>15. ListsOK(c)
  <2>1. Distinct(c.free)
    BY <1>3, <1>10
  <2>2. \A y : Holds(c.free, y) => y \in 1 .. Len(c.refs)
    BY <1>2, <1>3, <1>10, <1>11 DEF ListsOK
  <2>3. ASSUME NEW id \in GameIds
        PROVE  /\ Distinct(c.byId[id])
               /\ \A y : Holds(c.byId[id], y) => y \in 1 .. Len(c.refs) /\ c.owner[y] = id
    <3>1. /\ Distinct(b.byId[id])
          /\ \A y : Holds(b.byId[id], y) => y \in 1 .. Len(b.refs) /\ b.owner[y] = id
      BY <1>2 DEF ListsOK
    <3>2. c.byId[id] = IF id = g THEN list ELSE b.byId[id]
      BY <1>2, <1>10
    <3>3. \A y \in 1 .. Len(b.refs) : y # t => y \in 1 .. Len(c.refs) /\ c.owner[y] = b.owner[y]
      BY <1>2, <1>8, <1>10, <1>11
    <3>4. t \in 1 .. Len(c.refs) /\ c.owner[t] = g
      BY <1>2, <1>4, <1>11, <1>13
    <3> QED
      BY <1>5, <1>9, <3>1, <3>2, <3>3, <3>4
  <2> QED
    BY <2>1, <2>2, <2>3 DEF ListsOK
<1> QED
  BY <1>4, <1>10, <1>11, <1>12, <1>13, <1>14, <1>15, Occupies DEF c

-----------------------------------------------------------------------------
(* An append is a release, a slot taken, and fields that count nothing. *)

LEMMA Pushes ==
    ASSUME NEW b, RingInv(b), NEW rec \in OfferedRecords
    PROVE  RingInv(Push(b, rec))
<1> DEFINE i == b.head
           freed == ReleaseRow(b, i)
           c == Occupied(freed, i, rec.game, rec.history)
           d == Push(b, rec)
<1>1. i \in Row
  BY DEF RingInv, Rings
<1>2. RingInv(freed) /\ freed.slot[i] = 0
  BY <1>1, Releases
<1>3. rec.game \in GameIds /\ rec.history \in Histories
  BY OfferedOK DEF Histories
<1> HIDE DEF freed, i
<1>4. RingInv(c)
  BY <1>1, <1>2, <1>3, OccupiesShared, OccupiesOwn
<1>5. d = [c EXCEPT !.plies[i] = Len(rec.history), !.data[i] = Packed(rec),
                    !.head = (i + 1) % Capacity,
                    !.tail = IF b.size = Capacity THEN (@ + 1) % Capacity ELSE @,
                    !.size = IF @ = Capacity THEN @ ELSE @ + 1,
                    !.newest = IF rec.game > @ THEN rec.game ELSE @]
  BY DEF Push, Occupied, freed, i
<1> HIDE DEF c, d
<1>6. /\ c \in Rings /\ c.plies \in [Row -> Plies] /\ c.data \in [Row -> Data]
      /\ c.head \in Row /\ c.tail \in Row /\ c.size \in 0 .. Capacity
      /\ c.newest \in {0} \cup GameIds
  BY <1>4 DEF RingInv, Rings
<1>7. Len(rec.history) \in Plies /\ Packed(rec) \in Data
  BY DEF Plies, Data
<1>8. \A j \in Row : (j + 1) % Capacity \in Row
  BY CapacityOK DEF Row
<1>9. (IF c.size = Capacity THEN c.size ELSE c.size + 1) \in 0 .. Capacity
  BY <1>6, CapacityOK
<1>10. /\ d \in Rings /\ d.slot = c.slot /\ d.refs = c.refs /\ d.hist = c.hist
       /\ d.owner = c.owner /\ d.free = c.free /\ d.byId = c.byId
  BY <1>1, <1>3, <1>5, <1>6, <1>7, <1>8, <1>9 DEF Rings
<1> QED
  BY <1>4, <1>10 DEF RingInv, SlotOK, ListsOK, d

LEMMA EmptyIsCounted == RingInv(EmptyRing)
<1>1. EmptyRing \in Rings
  BY CapacityOK DEF EmptyRing, Rings, Row, Plies, Data
<1> QED
  BY <1>1, CapacityOK DEF RingInv, EmptyRing, SlotOK, ListsOK, Holds, Distinct

LEMMA RingStep == RingInv(ring) /\ [RingNext]_ring => RingInv(ring)'
BY Pushes, EmptyIsCounted DEF RingNext, AppendRecord, ClearRing

(* A slot of a game's history is free exactly when no row of the buffer      *)
(* refers to it, and there are never more slots than rows.                   *)
THEOREM SlotsCountedHolds == RingSpec => []SlotsCounted
<1>1. RingInit => RingInv(ring)
  BY EmptyIsCounted DEF RingInit
<1>2. RingInv(ring) => SlotsCounted
  <2> SUFFICES ASSUME RingInv(ring) PROVE SlotsCounted
    OBVIOUS
  <2>1. DOMAIN ring.refs = 1 .. Len(ring.refs)
    BY InvFacts
  <2> QED
    BY <2>1 DEF RingInv, SlotOK, ListsOK, Distinct, Holds, RowsOf, SlotsCounted
<1> QED
  BY <1>1, <1>2, RingStep, PTL DEF RingSpec

-----------------------------------------------------------------------------
(* The buffer is a window of the last records. *)

Moves == UNION {ToSet(rec.history) : rec \in OfferedRecords}

LEMMA HistoriesAreSequences ==
    /\ Histories \subseteq Seq(Moves)
    /\ Plies \subseteq Nat
<1>1. ASSUME NEW rec \in OfferedRecords
      PROVE  rec.history \in Seq(Moves) /\ Len(rec.history) \in Nat
  <2> DEFINE T == ToSet(rec.history)
  <2>1. rec.history \in Seq(T)
    BY OfferedOK
  <2>2. T \subseteq Moves
    BY DEF Moves
  <2> HIDE DEF T
  <2>3. rec.history \in Seq(Moves)
    BY <2>1, <2>2, SeqMonotonic
  <2> QED
    BY <2>1, <2>3, SeqFacts
<1>2. <<>> \in Seq(Moves)
  OBVIOUS
<1>3. ASSUME NEW h \in Histories PROVE h \in Seq(Moves)
  <2>1. CASE h = <<>>
    BY <1>2, <2>1
  <2>2. CASE h # <<>>
    <3>1. PICK rec \in OfferedRecords : h = rec.history
      BY <2>2 DEF Histories
    <3> QED
      BY <1>1, <3>1, Zenon
  <2> QED
    BY <2>1, <2>2
<1>4. ASSUME NEW n \in Plies PROVE n \in Nat
  <2>1. CASE n = 0
    BY <2>1
  <2>2. CASE n # 0
    <3>1. PICK rec \in OfferedRecords : n = Len(rec.history)
      BY <2>2 DEF Plies
    <3> QED
      BY <1>1, <3>1, Zenon
  <2> QED
    BY <2>1, <2>2
<1> QED
  BY <1>3, <1>4

LEMMA SmallerOf ==
    ASSUME NEW p \in Nat, NEW q \in Nat, p <= q
    PROVE  Min({p, q}) = p
<1> DEFINE T == {p, q}
           m == Min(T)
<1>1. m \in T /\ \A y \in T : m <= y
  <2>1. p \in T /\ \A y \in T : p <= y
    OBVIOUS
  <2> HIDE DEF T
  <2> QED
    BY <2>1, Zenon DEF Min
<1> HIDE DEF m
<1>2. m = p \/ m = q
  BY <1>1
<1>3. m <= p
  BY <1>1
<1> QED
  BY <1>2, <1>3 DEF m

(* What a row reads of a history that begins with what was there before. *)
LEMMA PrefixReads ==
    ASSUME NEW S, NEW a \in Seq(S), NEW z \in Seq(S), IsPrefix(a, z), NEW n \in 0 .. Len(a)
    PROVE  Len(a) <= Len(z) /\ SubSeq(z, 1, n) = SubSeq(a, 1, n)
<1>1. /\ Len(a) \in Nat /\ Len(z) \in Nat /\ Len(a) <= Len(z)
      /\ SubSeq(a, 1, Len(a)) = SubSeq(z, 1, Len(a))
      /\ \A k \in 1 .. Len(a) : a[k] \in S
      /\ \A k \in 1 .. Len(z) : z[k] \in S
  BY SeqFacts DEF IsPrefix
<1>2. ASSUME NEW k \in 1 .. Len(a) PROVE a[k] = z[k]
  <2>1. SubSeq(a, 1, Len(a))[k] = a[k]
    BY <1>1, SubSeqProperties, SMTT(30)
  <2>2. SubSeq(z, 1, Len(a))[k] = z[k]
    BY <1>1, SubSeqProperties, SMTT(30)
  <2> QED
    BY <1>1, <2>1, <2>2
<1>3. /\ SubSeq(a, 1, n) \in Seq(S) /\ Len(SubSeq(a, 1, n)) = n
      /\ \A k \in 1 .. n : SubSeq(a, 1, n)[k] = a[k]
  BY <1>1, SubSeqProperties, SMTT(30)
<1>4. /\ SubSeq(z, 1, n) \in Seq(S) /\ Len(SubSeq(z, 1, n)) = n
      /\ \A k \in 1 .. n : SubSeq(z, 1, n)[k] = z[k]
  BY <1>1, SubSeqProperties, SMTT(30)
<1>5. \A k \in 1 .. n : SubSeq(z, 1, n)[k] = SubSeq(a, 1, n)[k]
  BY <1>1, <1>2, <1>3, <1>4
<1>6. SubSeq(z, 1, n) = SubSeq(a, 1, n)
  BY <1>3, <1>4, <1>5, SeqEqual
<1> QED
  BY <1>1, <1>6

(* A prefix is one of itself. *)
LEMMA PrefixOfItself ==
    ASSUME NEW S, NEW a \in Seq(S)
    PROVE  IsPrefix(a, a)
BY SeqFacts DEF IsPrefix

-----------------------------------------------------------------------------
(* What releasing and taking a slot leave to the other rows. *)

(* The fields that are not about slots. *)
SameRows(b, c) ==
    /\ c.data = b.data /\ c.head = b.head /\ c.tail = b.tail /\ c.size = b.size

LEMMA ReleaseReads ==
    ASSUME NEW b, RingInv(b), NEW i \in Row
    PROVE  LET c == ReleaseRow(b, i)
           IN  /\ SameRows(b, c)
               /\ \A j \in Row \ {i} : c.slot[j] = b.slot[j] /\ c.plies[j] = b.plies[j]
               /\ \A j \in Row \ {i} : b.slot[j] # 0 => c.hist[b.slot[j]] = b.hist[b.slot[j]]
<1> DEFINE c == ReleaseRow(b, i)
           s == b.slot[i]
<1>1. /\ b \in Rings /\ b.slot \in [Row -> Nat] /\ b.plies \in [Row -> Plies]
      /\ b.refs \in Seq(Nat) /\ b.hist \in Seq(Histories) /\ Len(b.hist) = Len(b.refs)
  BY DEF RingInv, Rings
<1>2. CASE s = 0
  <2>1. c = [b EXCEPT !.slot[i] = 0, !.plies[i] = 0]
    BY <1>2 DEF ReleaseRow
  <2> QED
    BY <1>1, <2>1 DEF SameRows, Rings
<1>3. CASE s # 0 /\ b.refs[s] > 1
  <2>1. c = [b EXCEPT !.slot[i] = 0, !.plies[i] = 0, !.refs[s] = @ - 1]
    BY <1>3 DEF ReleaseRow
  <2> QED
    BY <1>1, <2>1 DEF SameRows, Rings
<1>4. CASE s # 0 /\ ~(b.refs[s] > 1)
  <2> DEFINE free == Append(b.free, s)
             byId == [b.byId EXCEPT ![b.owner[s]] = DropFirst(@, s)]
  <2>1. c = [b EXCEPT !.slot[i] = 0, !.plies[i] = 0, !.refs[s] = 0, !.hist[s] = <<>>,
                      !.free = free, !.byId = byId]
    BY <1>4 DEF ReleaseRow
  <2> HIDE DEF free, byId, c
  <2>2. /\ SameRows(b, c) /\ c.slot = [b.slot EXCEPT ![i] = 0] /\ c.plies = [b.plies EXCEPT ![i] = 0]
        /\ c.hist = [b.hist EXCEPT ![s] = <<>>]
    BY <1>1, <2>1 DEF SameRows, Rings
  <2>3. s \in 1 .. Len(b.refs) /\ b.refs[s] \in Nat /\ SlotOK(b, s)
    BY <1>4, InvFacts DEF RingInv
  <2>4. ASSUME NEW j \in Row \ {i}, b.slot[j] # 0 PROVE b.slot[j] # s
    <3> SUFFICES ASSUME b.slot[j] = s PROVE FALSE
      OBVIOUS
    <3> DEFINE A == RowsOf(b.slot, s)
    <3>1. i \in A /\ j \in A \ {i}
      BY DEF RowsOf
    <3> HIDE DEF s
    <3>2. IsFiniteSet(A)
      BY RowsAreFinite, Zenon
    <3> HIDE DEF A
    <3>3. i \in A /\ j \in A \ {i} /\ IsFiniteSet(A) /\ IsFiniteSet(A \ {i})
      BY <3>1, <3>2, FS_RemoveElement
    <3>4. Cardinality(A \ {i}) = Cardinality(A) - 1 /\ Cardinality(A) \in Nat
      BY <3>3, FS_RemoveElement, FS_CardinalityType
    <3>5. Cardinality(A \ {i}) # 0 /\ Cardinality(A \ {i}) \in Nat
      BY <3>3, FS_EmptySet, FS_CardinalityType
    <3>6. b.refs[s] = Cardinality(A)
      BY <2>3 DEF SlotOK, A
    <3> QED
      BY <1>4, <2>3, <3>4, <3>5, <3>6
  <2>5. \A k \in 1 .. Len(b.refs) : k # s => c.hist[k] = b.hist[k]
    BY <1>1, <2>2, SeqFacts
  <2>6. \A j \in Row : b.slot[j] # 0 => b.slot[j] \in 1 .. Len(b.refs)
    BY InvFacts
  <2> QED
    BY <1>1, <2>2, <2>4, <2>5, <2>6 DEF c
<1> QED
  BY <1>2, <1>3, <1>4

LEMMA TakingReads ==
    ASSUME NEW b, RingInv(b), NEW i \in Row, b.slot[i] = 0, NEW g \in GameIds,
           NEW h \in Histories
    PROVE  LET c == Occupied(b, i, g, h)
           IN  /\ SameRows(b, c)
               /\ c.plies = b.plies
               /\ \A j \in Row \ {i} : c.slot[j] = b.slot[j]
               /\ \A j \in Row \ {i} : b.slot[j] # 0 =>
                     IsPrefix(b.hist[b.slot[j]], c.hist[b.slot[j]])
               /\ c.slot[i] # 0
               /\ IsPrefix(h, c.hist[c.slot[i]])
<1> DEFINE c == Occupied(b, i, g, h)
           t == SlotFor(b, g, h)
<1>1. /\ b \in Rings /\ b.slot \in [Row -> Nat] /\ b.plies \in [Row -> Plies]
      /\ b.refs \in Seq(Nat) /\ b.hist \in Seq(Histories) /\ Len(b.hist) = Len(b.refs)
      /\ Len(b.refs) \in Nat /\ b.free \in Seq(Nat) /\ b.byId \in [GameIds -> Seq(Nat)]
      /\ \A s \in 1 .. Len(b.refs) : b.hist[s] \in Histories
  BY SeqFacts DEF RingInv, Rings
<1>2. \A j \in Row : b.slot[j] # 0 => b.slot[j] \in 1 .. Len(b.refs)
  BY InvFacts
<1>3. Histories \subseteq Seq(Moves)
  BY HistoriesAreSequences
<1>4. \A x \in Histories : IsPrefix(x, x)
  BY <1>3, PrefixOfItself
<1>5. CASE Sharing(b, g, h) # {}
  <2> DEFINE n == Min(Sharing(b, g, h))
             old == b.hist[t]
             refs == [b.refs EXCEPT ![t] = @ + 1]
             kept == IF Len(h) > Len(old) THEN h ELSE old
  <2>1. t = b.byId[g][n]
    BY <1>5 DEF SlotFor
  <2>2. n \in DOMAIN b.byId[g] /\ SharesGame(old, h)
    <3>1. Sharing(b, g, h) \subseteq DOMAIN b.byId[g]
      BY DEF Sharing
    <3>2. DOMAIN b.byId[g] \subseteq Nat
      BY <1>1, SeqFacts
    <3>3. n \in Sharing(b, g, h)
      BY <1>5, <3>1, <3>2, LeastIsThere
    <3>4. SharesGame(b.hist[b.byId[g][n]], h)
      BY <3>3, Zenon DEF Sharing
    <3> QED
      BY <2>1, <3>1, <3>3, <3>4
  <2> HIDE DEF n
  <2>3. Holds(b.byId[g], t)
    BY <2>1, <2>2 DEF Holds
  <2>4. t \in 1 .. Len(b.refs)
    BY <2>3 DEF RingInv, ListsOK
  <2>5. c = [b EXCEPT !.refs = refs, !.hist = [b.hist EXCEPT ![t] = kept], !.slot[i] = t]
    BY <1>5 DEF Occupied, TakeSlot
  <2> HIDE DEF t, refs, kept, c
  <2>6. /\ SameRows(b, c) /\ c.plies = b.plies /\ c.slot = [b.slot EXCEPT ![i] = t]
        /\ c.hist = [b.hist EXCEPT ![t] = kept]
    BY <1>1, <2>5 DEF SameRows, Rings
  <2>7. old \in Histories /\ old \in Seq(Moves) /\ h \in Seq(Moves)
    BY <1>1, <1>3, <2>4
  <2>8. Len(old) \in Nat /\ Len(h) \in Nat
    BY <2>7, SeqFacts
  <2>9. IsPrefix(h, h) /\ IsPrefix(old, old)
    BY <1>4, <2>7
  <2>10. IsPrefix(old, kept) /\ IsPrefix(h, kept)
    <3>1. CASE IsPrefix(old, h)
      <4>1. CASE Len(h) > Len(old)
        BY <2>9, <3>1, <4>1 DEF kept
      <4>2. CASE ~(Len(h) > Len(old))
        <5>1. Len(h) = Len(old)
          BY <2>8, <3>1, <4>2 DEF IsPrefix
        <5>2. IsPrefix(h, old)
          BY <3>1, <5>1 DEF IsPrefix
        <5>3. kept = old
          BY <4>2 DEF kept
        <5> QED
          BY <2>9, <5>2, <5>3, Zenon
      <4> QED
        BY <4>1, <4>2
    <3>2. CASE IsPrefix(h, old)
      <4>1. ~(Len(h) > Len(old))
        BY <2>8, <3>2 DEF IsPrefix
      <4>2. kept = old
        BY <4>1 DEF kept
      <4> QED
        BY <2>9, <3>2, <4>2, Zenon
    <3> QED
      BY <2>2, <3>1, <3>2 DEF SharesGame
  <2> HIDE DEF old
  <2>11. c.hist[t] = kept /\ \A k \in 1 .. Len(b.refs) : k # t => c.hist[k] = b.hist[k]
    BY <1>1, <2>4, <2>6, SeqFacts
  <2>12. \A k \in 1 .. Len(b.refs) : IsPrefix(b.hist[k], c.hist[k])
    <3> TAKE k \in 1 .. Len(b.refs)
    <3>1. CASE k = t
      BY <2>10, <2>11, <3>1 DEF old
    <3>2. CASE k # t
      <4>1. c.hist[k] = b.hist[k] /\ b.hist[k] \in Histories
        BY <1>1, <2>11, <3>2
      <4> QED
        BY <1>4, <4>1
    <3> QED
      BY <3>1, <3>2
  <2>13. c.slot[i] = t /\ t # 0 /\ \A j \in Row \ {i} : c.slot[j] = b.slot[j]
    BY <1>1, <2>4, <2>6
  <2>14. IsPrefix(h, c.hist[c.slot[i]])
    BY <2>10, <2>11, <2>13, Zenon
  <2> QED
    BY <1>2, <2>6, <2>12, <2>13, <2>14 DEF c
<1>6. CASE Sharing(b, g, h) = {}
  <2> DEFINE refs == PutAt(b.refs, t, 1)
             hist == PutAt(b.hist, t, h)
             owner == PutAt(b.owner, t, g)
             free == IF b.free = <<>> THEN b.free ELSE Front(b.free)
             byId == [b.byId EXCEPT ![g] = Append(@, t)]
  <2>1. c = [b EXCEPT !.refs = refs, !.hist = hist, !.owner = owner, !.free = free,
                      !.byId = byId, !.slot[i] = t]
    BY <1>6 DEF Occupied, TakeSlot
  <2>2. /\ t \in 1 .. Len(b.refs) + 1
        /\ t <= Len(b.refs) => b.refs[t] = 0
    <3>1. CASE b.free = <<>>
      <4>1. t = Len(b.refs) + 1
        BY <3>1, <1>1, <1>6 DEF SlotFor
      <4> QED
        BY <1>1, <4>1
    <3>2. CASE b.free # <<>>
      <4>1. t = Last(b.free)
        BY <3>2, <1>6 DEF SlotFor
      <4> HIDE DEF t
      <4>2. Distinct(b.free)
        BY DEF RingInv, ListsOK
      <4>3. Holds(b.free, t)
        BY <1>1, <3>2, <4>1, <4>2, WithoutLast
      <4>4. t \in 1 .. Len(b.refs)
        BY <4>3 DEF RingInv, ListsOK
      <4>5. b.refs[t] = 0
        BY <4>3, <4>4 DEF RingInv, SlotOK
      <4> QED
        BY <1>1, <4>4, <4>5
    <3> QED
      BY <3>1, <3>2
  <2> HIDE DEF t, c
  <2>3. hist[t] = h /\ \A k \in 1 .. Len(b.refs) : k # t => hist[k] = b.hist[k]
    <3> DEFINE old == b.hist
               new == PutAt(old, t, h)
    <3>1. old \in Seq(Histories) /\ t \in 1 .. Len(old) + 1
      BY <1>1, <2>2
    <3> HIDE DEF old
    <3>2. new[t] = h
      BY <3>1, PutAtPlace
    <3>3. \A k \in 1 .. Len(old) : k # t => new[k] = old[k]
      BY <3>1, PutAtPlace
    <3> QED
      BY <1>1, <3>2, <3>3 DEF old
  <2> HIDE DEF refs, hist, owner, free, byId
  <2>4. /\ SameRows(b, c) /\ c.plies = b.plies /\ c.slot = [b.slot EXCEPT ![i] = t]
        /\ c.hist = hist
    BY <1>1, <2>1 DEF SameRows, Rings
  <2>5. ASSUME NEW j \in Row \ {i}, b.slot[j] # 0
        PROVE  IsPrefix(b.hist[b.slot[j]], c.hist[b.slot[j]])
    <3> DEFINE k == b.slot[j]
    <3>1. k \in 1 .. Len(b.refs)
      BY <1>2, <2>5
    <3>2. k # t
      <4> SUFFICES ASSUME k = t PROVE FALSE
        OBVIOUS
      <4>1. b.refs[k] = 0
        BY <1>1, <2>2, <3>1
      <4>2. Cardinality(RowsOf(b.slot, k)) = 0
        BY <3>1, <4>1 DEF RingInv, SlotOK
      <4> QED
        BY <4>2, NoRows
    <3>3. c.hist[k] = b.hist[k] /\ b.hist[k] \in Histories
      BY <1>1, <2>3, <2>4, <3>1, <3>2
    <3> QED
      BY <1>4, <3>3
  <2>6. c.slot[i] = t /\ t # 0 /\ \A j \in Row \ {i} : c.slot[j] = b.slot[j]
    BY <1>1, <2>2, <2>4
  <2>7. IsPrefix(h, c.hist[c.slot[i]])
    BY <1>4, <2>3, <2>4, <2>6
  <2> QED
    BY <2>4, <2>5, <2>6, <2>7 DEF c
<1> QED
  BY <1>5, <1>6

-----------------------------------------------------------------------------
(* What an append leaves of the other rows, and stores in its own. *)

(* A row that has a slot finds its own moves in the slot's history. *)
Readable(b) == \A j \in Row : b.slot[j] # 0 => b.plies[j] <= Len(b.hist[b.slot[j]])

LEMMA RowFacts ==
    ASSUME NEW b, RingInv(b), NEW j \in Row, b.slot[j] # 0
    PROVE  /\ b.hist[b.slot[j]] \in Seq(Moves)
           /\ Len(b.hist[b.slot[j]]) \in Nat
           /\ b.plies[j] \in Nat
<1>1. /\ b.slot \in [Row -> Nat] /\ b.plies \in [Row -> Plies]
      /\ b.hist \in Seq(Histories) /\ Len(b.hist) = Len(b.refs)
  BY DEF RingInv, Rings
<1>2. b.slot[j] \in 1 .. Len(b.hist)
  BY <1>1, InvFacts
<1>3. b.hist[b.slot[j]] \in Histories
  BY <1>1, <1>2, SeqFacts
<1>4. b.hist[b.slot[j]] \in Seq(Moves) /\ b.plies[j] \in Nat
  BY <1>1, <1>3, HistoriesAreSequences
<1> QED
  BY <1>4, SeqFacts

(* Two buffers say the same of a row that holds the same, when one slot's    *)
(* history begins with the other's.                                          *)
LEMMA SameRead ==
    ASSUME NEW b, RingInv(b), NEW c, RingInv(c), NEW j \in Row, b.slot[j] # 0,
           b.plies[j] <= Len(b.hist[b.slot[j]]),
           c.slot[j] = b.slot[j], c.plies[j] = b.plies[j], c.data[j] = b.data[j],
           IsPrefix(b.hist[b.slot[j]], c.hist[b.slot[j]])
    PROVE  Decode(c, j) = Decode(b, j) /\ c.plies[j] <= Len(c.hist[c.slot[j]])
<1> DEFINE n == b.plies[j]
           a == b.hist[b.slot[j]]
           z == c.hist[b.slot[j]]
<1>1. a \in Seq(Moves) /\ n \in Nat /\ Len(a) \in Nat
  BY RowFacts
<1>2. z \in Seq(Moves) /\ Len(z) \in Nat
  BY RowFacts
<1>3. n <= Len(a) /\ IsPrefix(a, z) /\ n \in 0 .. Len(a)
  BY <1>1
<1>4. c.slot[j] = b.slot[j] /\ c.plies[j] = n /\ c.data[j] = b.data[j]
  OBVIOUS
<1> HIDE DEF n, a, z
<1>5. Len(a) <= Len(z) /\ SubSeq(z, 1, n) = SubSeq(a, 1, n)
  BY <1>1, <1>2, <1>3, PrefixReads
<1>6. n <= Len(z)
  BY <1>1, <1>2, <1>3, <1>5
<1>7. Min({n, Len(a)}) = n /\ Min({n, Len(z)}) = n
  BY <1>1, <1>2, <1>3, <1>6, SmallerOf
<1> DEFINE d == b.data[j]
           Told(h) == [game |-> d.game, player |-> d.player, rest |-> d.rest,
                       outcome |-> Sided(d.player, d.value), policy |-> Normalized(d.policy),
                       policyV2 |-> NormalizedV2(d.policyV2, d.missing), missing |-> d.missing,
                       history |-> h]
<1>8. Decode(b, j) = Told(SubSeq(a, 1, Min({n, Len(a)})))
  BY Zenon DEF Decode, n, a
<1>9. Decode(c, j) = Told(SubSeq(z, 1, Min({n, Len(z)})))
  BY <1>4, Zenon DEF Decode, z
<1> HIDE DEF Told
<1>10. Decode(c, j) = Decode(b, j)
  BY <1>5, <1>7, <1>8, <1>9, Zenon
<1>11. c.plies[j] <= Len(c.hist[c.slot[j]])
  BY <1>4, <1>6 DEF z
<1> QED
  BY <1>10, <1>11

LEMMA PushReads ==
    ASSUME NEW b, RingInv(b), Readable(b), NEW rec \in OfferedRecords
    PROVE  LET d == Push(b, rec)
           IN  /\ RingInv(d) /\ Readable(d)
               /\ d.head = (b.head + 1) % Capacity
               /\ d.tail = IF b.size = Capacity THEN (b.tail + 1) % Capacity ELSE b.tail
               /\ d.size = IF b.size = Capacity THEN b.size ELSE b.size + 1
               /\ \A j \in Row \ {b.head} : b.slot[j] # 0 =>
                     d.slot[j] # 0 /\ Decode(d, j) = Decode(b, j)
               /\ d.slot[b.head] # 0 /\ Decode(d, b.head) = Kept(rec)
<1> DEFINE i == b.head
           freed == ReleaseRow(b, i)
           c == Occupied(freed, i, rec.game, rec.history)
           d == Push(b, rec)
           n == Len(rec.history)
<1>1. i \in Row /\ b \in Rings
  BY DEF RingInv, Rings
<1>2. RingInv(freed) /\ freed.slot[i] = 0
  BY <1>1, Releases
<1>3. rec.game \in GameIds /\ rec.history \in Histories /\ rec.player \in {0, 1} /\ rec.outcome \in Int
  BY OfferedOK DEF Histories
<1>4. /\ SameRows(b, freed)
      /\ \A j \in Row \ {i} : freed.slot[j] = b.slot[j] /\ freed.plies[j] = b.plies[j]
      /\ \A j \in Row \ {i} : b.slot[j] # 0 => freed.hist[b.slot[j]] = b.hist[b.slot[j]]
  BY <1>1, ReleaseReads
<1> HIDE DEF freed
<1>5. RingInv(c)
  BY <1>1, <1>2, <1>3, OccupiesShared, OccupiesOwn
<1>6. /\ SameRows(freed, c)
      /\ c.plies = freed.plies
      /\ \A j \in Row \ {i} : c.slot[j] = freed.slot[j]
      /\ \A j \in Row \ {i} : freed.slot[j] # 0 =>
            IsPrefix(freed.hist[freed.slot[j]], c.hist[freed.slot[j]])
      /\ c.slot[i] # 0
      /\ IsPrefix(rec.history, c.hist[c.slot[i]])
  BY <1>1, <1>2, <1>3, TakingReads
<1>7. d = [c EXCEPT !.plies[i] = n, !.data[i] = Packed(rec),
                    !.head = (i + 1) % Capacity,
                    !.tail = IF b.size = Capacity THEN (@ + 1) % Capacity ELSE @,
                    !.size = IF @ = Capacity THEN @ ELSE @ + 1,
                    !.newest = IF rec.game > @ THEN rec.game ELSE @]
  BY DEF Push, Occupied, freed
<1>8. RingInv(d)
  BY Pushes
<1> HIDE DEF c, d
<1>9. /\ c \in Rings /\ c.plies \in [Row -> Plies] /\ c.data \in [Row -> Data]
  BY <1>5 DEF RingInv, Rings
<1>10. c.head = b.head /\ c.tail = b.tail /\ c.size = b.size /\ c.data = b.data
  BY <1>4, <1>6 DEF SameRows
<1>11. /\ d.slot = c.slot /\ d.hist = c.hist
       /\ d.plies = [c.plies EXCEPT ![i] = n] /\ d.data = [c.data EXCEPT ![i] = Packed(rec)]
       /\ d.head = (i + 1) % Capacity
       /\ d.tail = IF b.size = Capacity THEN (b.tail + 1) % Capacity ELSE b.tail
       /\ d.size = IF b.size = Capacity THEN b.size ELSE b.size + 1
  BY <1>7, <1>9, <1>10 DEF Rings
<1>12. ASSUME NEW j \in Row \ {i}, b.slot[j] # 0
       PROVE  /\ d.slot[j] # 0 /\ Decode(d, j) = Decode(b, j)
              /\ d.plies[j] <= Len(d.hist[d.slot[j]])
  <2>1. b.plies[j] <= Len(b.hist[b.slot[j]])
    BY <1>12 DEF Readable
  <2>2. freed.slot[j] = b.slot[j] /\ freed.plies[j] = b.plies[j]
        /\ freed.hist[b.slot[j]] = b.hist[b.slot[j]]
    BY <1>4, <1>12
  <2>3. d.slot[j] = b.slot[j] /\ d.plies[j] = b.plies[j] /\ d.data[j] = b.data[j]
    BY <1>6, <1>9, <1>10, <1>11, <2>2
  <2>4. IsPrefix(b.hist[b.slot[j]], d.hist[b.slot[j]])
    BY <1>6, <1>11, <1>12, <2>2
  <2>5. Decode(d, j) = Decode(b, j) /\ d.plies[j] <= Len(d.hist[d.slot[j]])
    BY <1>8, <1>12, <2>1, <2>3, <2>4, SameRead
  <2> QED
    BY <1>12, <2>3, <2>5
<1>13. /\ d.slot[i] # 0 /\ d.plies[i] = n /\ d.data[i] = Packed(rec)
       /\ IsPrefix(rec.history, d.hist[d.slot[i]])
  BY <1>1, <1>6, <1>9, <1>11
<1> DEFINE z == d.hist[d.slot[i]]
<1>14. z \in Seq(Moves) /\ Len(z) \in Nat
  BY <1>1, <1>8, <1>13, RowFacts
<1>15. rec.history \in Seq(Moves) /\ n \in Nat
  <2>1. rec.history \in Seq(Moves)
    BY <1>3, HistoriesAreSequences
  <2> QED
    BY <2>1, SeqFacts
<1>16. n <= Len(z) /\ SubSeq(z, 1, n) = rec.history
  <2> DEFINE h == rec.history
  <2>1. h \in Seq(Moves) /\ IsPrefix(h, z) /\ n = Len(h) /\ Len(h) \in 0 .. Len(h)
    BY <1>13, <1>15
  <2> HIDE DEF h, z, n
  <2>2. Len(h) <= Len(z) /\ SubSeq(z, 1, Len(h)) = SubSeq(h, 1, Len(h))
    BY <1>14, <2>1, PrefixReads
  <2>3. SubSeq(h, 1, Len(h)) = h
    BY <2>1, SubSeqFull
  <2> QED
    BY <2>1, <2>2, <2>3 DEF h
<1>17. Min({n, Len(z)}) = n
  BY <1>14, <1>15, <1>16, SmallerOf
<1>18. Decode(d, i) = Kept(rec)
  <2> DEFINE p == Packed(rec)
  <2>1. Decode(d, i) = [game |-> p.game, player |-> p.player, rest |-> p.rest,
                        outcome |-> Sided(p.player, p.value), policy |-> Normalized(p.policy),
                        policyV2 |-> NormalizedV2(p.policyV2, p.missing), missing |-> p.missing,
                        history |-> SubSeq(z, 1, Min({n, Len(z)}))]
    BY <1>13, Zenon DEF Decode
  <2>2. /\ p.game = rec.game /\ p.player = rec.player /\ p.rest = rec.rest
        /\ p.value = Sided(rec.player, rec.outcome)
    BY DEF Packed
  <2>3. Sided(rec.player, Sided(rec.player, rec.outcome)) = rec.outcome
    BY <1>3 DEF Sided
  <2>4. SubSeq(z, 1, Min({n, Len(z)})) = rec.history
    BY <1>16, <1>17
  <2> HIDE DEF p, z, n
  <2>5. Decode(d, i) = [game |-> rec.game, player |-> rec.player, rest |-> rec.rest,
                        outcome |-> rec.outcome, policy |-> Normalized(p.policy),
                        policyV2 |-> NormalizedV2(p.policyV2, p.missing), missing |-> p.missing,
                        history |-> rec.history]
    BY <2>1, <2>2, <2>3, <2>4, Zenon
  <2> QED
    BY <2>5, Zenon DEF Kept, p
<1>19. Readable(d)
  <2> SUFFICES ASSUME NEW j \in Row, d.slot[j] # 0 PROVE d.plies[j] <= Len(d.hist[d.slot[j]])
    BY DEF Readable
  <2>1. CASE j = i
    BY <1>13, <1>16, <2>1
  <2>2. CASE j # i
    <3>1. b.slot[j] # 0
      BY <1>4, <1>6, <1>11, <2>2
    <3> QED
      BY <1>12, <2>2, <3>1
  <2> QED
    BY <2>1, <2>2
<1> QED
  BY <1>8, <1>11, <1>12, <1>13, <1>18, <1>19 DEF d

-----------------------------------------------------------------------------
(* The rows in the order of their records. *)

Wrapped(x) == IF x < Capacity THEN x ELSE x - Capacity

(* Going on by n rows from row a, where n is at most once around. *)
LEMMA Around ==
    ASSUME NEW a \in Row, NEW n \in 0 .. Capacity
    PROVE  (a + n) % Capacity = Wrapped(a + n)
<1>1. Capacity \in Nat /\ Capacity > 0 /\ a \in 0 .. Capacity - 1
  BY CapacityOK DEF Row
<1>2. \A x \in 0 .. Capacity - 1 : x % Capacity = x /\ (x + Capacity) % Capacity = x
  BY <1>1
<1>3. (a + n) % Capacity = IF a + n < Capacity THEN a + n ELSE a + n - Capacity
  <2>1. CASE a + n < Capacity
    BY <1>1, <1>2, <2>1
  <2>2. CASE ~(a + n < Capacity)
    <3> DEFINE x == a + n - Capacity
    <3>1. x \in 0 .. Capacity - 1 /\ x + Capacity = a + n
      BY <1>1, <2>2
    <3> QED
      BY <1>2, <2>2, <3>1
  <2> QED
    BY <2>1, <2>2
<1> QED
  BY <1>1, <1>3 DEF Wrapped

(* The rows in use are those from the tail to the head.                      *)
WindowInv(b) ==
    /\ RingInv(b)
    /\ Readable(b)
    /\ b.head = (b.tail + b.size) % Capacity
    /\ \A k \in 1 .. b.size : b.slot[(b.tail + k - 1) % Capacity] # 0

(* The k-th row in use is none of the others, nor the one to be written next *)
(* unless the buffer is full.                                                *)
LEMMA RowsInOrder ==
    ASSUME NEW tail \in Row, NEW size \in 0 .. Capacity,
           NEW head, head = (tail + size) % Capacity
    PROVE  LET at(k) == (tail + k - 1) % Capacity
               next == (tail + 1) % Capacity
           IN  /\ \A k \in 1 .. size : at(k) \in Row
               /\ size < Capacity =>
                     /\ \A k \in 1 .. size : at(k) # head
                     /\ at(size + 1) = head
                     /\ (head + 1) % Capacity = (tail + size + 1) % Capacity
               /\ size = Capacity =>
                     /\ head = tail
                     /\ next \in Row
                     /\ \A k \in 1 .. size - 1 : at(k + 1) # head /\ (next + k - 1) % Capacity = at(k + 1)
                     /\ (next + size - 1) % Capacity = head
                     /\ (head + 1) % Capacity = (next + size) % Capacity
<1> DEFINE at(k) == (tail + k - 1) % Capacity
           next == (tail + 1) % Capacity
<1>1. Capacity \in Nat /\ Capacity > 0 /\ Row = 0 .. Capacity - 1
  BY CapacityOK DEF Row
<1>2. \A a \in Row : \A n \in 0 .. Capacity : (a + n) % Capacity = Wrapped(a + n)
  BY Around, Zenon
<1>3. \A k \in 1 .. Capacity : at(k) = Wrapped(tail + (k - 1))
  <2> TAKE k \in 1 .. Capacity
  <2>1. k - 1 \in 0 .. Capacity /\ tail + k - 1 = tail + (k - 1)
    BY <1>1
  <2> QED
    BY <1>2, <2>1
<1>4. head = Wrapped(tail + size) /\ next = Wrapped(tail + 1)
  <2>1. 1 \in 0 .. Capacity
    BY <1>1
  <2> QED
    BY <1>2, <2>1
<1>5. head \in Row /\ next \in Row
  BY <1>1, <1>4 DEF Wrapped
<1>6. \A k \in 1 .. Capacity : /\ (next + k - 1) % Capacity = Wrapped(next + (k - 1))
  <2> TAKE k \in 1 .. Capacity
  <2>1. k - 1 \in 0 .. Capacity /\ next + k - 1 = next + (k - 1)
    BY <1>1, <1>5
  <2> HIDE DEF next
  <2> QED
    BY <1>2, <1>5, <2>1
<1>7. (head + 1) % Capacity = Wrapped(head + 1) /\ (next + size) % Capacity = Wrapped(next + size)
  <2>1. 1 \in 0 .. Capacity
    BY <1>1
  <2> HIDE DEF next
  <2> QED
    BY <1>2, <1>5, <2>1
<1>8. size < Capacity => (tail + size + 1) % Capacity = Wrapped(tail + (size + 1))
  <2> SUFFICES ASSUME size < Capacity PROVE (tail + size + 1) % Capacity = Wrapped(tail + (size + 1))
    OBVIOUS
  <2>1. size + 1 \in 0 .. Capacity /\ tail + size + 1 = tail + (size + 1)
    BY <1>1
  <2> QED
    BY <1>2, <2>1
<1> HIDE DEF at, next
<1>9. \A k \in 1 .. size : at(k) \in Row
  BY <1>1, <1>3 DEF Wrapped
<1>10. ASSUME size < Capacity
       PROVE  /\ \A k \in 1 .. size : at(k) # head
              /\ at(size + 1) = head
              /\ (head + 1) % Capacity = (tail + size + 1) % Capacity
  <2>1. \A k \in 1 .. size : at(k) # head
    BY <1>1, <1>3, <1>4, <1>10 DEF Wrapped
  <2>2. at(size + 1) = head
    <3>1. size + 1 \in 1 .. Capacity /\ tail + ((size + 1) - 1) = tail + size
      BY <1>1, <1>10
    <3>2. at(size + 1) = Wrapped(tail + ((size + 1) - 1))
      BY <1>3, <3>1, Zenon
    <3> QED
      BY <1>4, <3>1, <3>2, Zenon
  <2>3. Wrapped(head + 1) = Wrapped(tail + (size + 1))
    BY <1>1, <1>4, <1>10 DEF Wrapped
  <2> QED
    BY <2>1, <2>2, <2>3, <1>7, <1>8, <1>10
<1>11. ASSUME size = Capacity
       PROVE  /\ head = tail
              /\ \A k \in 1 .. size - 1 : at(k + 1) # head /\ (next + k - 1) % Capacity = at(k + 1)
              /\ (next + size - 1) % Capacity = head
              /\ (head + 1) % Capacity = (next + size) % Capacity
  <2>1. head = tail
    BY <1>1, <1>4, <1>11 DEF Wrapped
  <2>2. ASSUME NEW k \in 1 .. size - 1
        PROVE  at(k + 1) # head /\ (next + k - 1) % Capacity = at(k + 1)
    <3>1. k \in 1 .. Capacity /\ k + 1 \in 1 .. Capacity /\ (k + 1) - 1 = k
      BY <1>1, <1>11 DEF Wrapped
    <3>2. at(k + 1) = Wrapped(tail + k)
      BY <1>3, <3>1
    <3>3. Wrapped(next + (k - 1)) = Wrapped(tail + k)
      BY <1>1, <1>4, <1>11 DEF Wrapped
    <3>4. Wrapped(tail + k) # tail
      BY <1>1, <1>11 DEF Wrapped
    <3> QED
      BY <1>6, <2>1, <3>1, <3>2, <3>3, <3>4
  <2>3. (next + size - 1) % Capacity = head
    <3>1. size \in 1 .. Capacity
      BY <1>1, <1>11 DEF Wrapped
    <3>2. Wrapped(next + (size - 1)) = tail
      BY <1>1, <1>4, <1>11 DEF Wrapped
    <3> QED
      BY <1>6, <2>1, <3>1, <3>2
  <2>4. Wrapped(head + 1) = Wrapped(next + size)
    BY <1>1, <1>4, <1>11, <2>1 DEF Wrapped
  <2> QED
    BY <2>1, <2>2, <2>3, <2>4, <1>7
<1> QED
  BY <1>5, <1>9, <1>10, <1>11 DEF at, next

-----------------------------------------------------------------------------
(* An append slides the window. *)

LEMMA StoredFacts ==
    ASSUME NEW b, b.size \in Nat
    PROVE  LET s == StoredRecords(b)
           IN  /\ s \in Seq({s[k] : k \in 1 .. b.size})
               /\ Len(s) = b.size
               /\ \A k \in 1 .. b.size : s[k] = Decode(b, (b.tail + k - 1) % Capacity)
<1> DEFINE s == StoredRecords(b)
           T == {s[k] : k \in 1 .. b.size}
<1>1. /\ s = [k \in 1 .. b.size |-> Decode(b, Active(b)[k])]
      /\ \A k \in 1 .. b.size : Active(b)[k] = (b.tail + k - 1) % Capacity
  BY DEF StoredRecords, Active
<1> HIDE DEF s
<1>2. DOMAIN s = 1 .. b.size /\ \A k \in 1 .. b.size : s[k] = Decode(b, (b.tail + k - 1) % Capacity)
  BY <1>1
<1>3. s \in [1 .. b.size -> T]
  <2>1. s = [k \in 1 .. b.size |-> s[k]]
    BY <1>1, <1>2
  <2> QED
    BY <2>1
<1> HIDE DEF T
<1>4. s \in Seq(T)
  BY <1>3, SeqDef
<1>5. Len(s) = b.size
  BY <1>2, <1>4
<1> QED
  BY <1>2, <1>4, <1>5 DEF s, T

LEMMA PushSlides ==
    ASSUME NEW b, WindowInv(b), NEW rec \in OfferedRecords
    PROVE  /\ WindowInv(Push(b, rec))
           /\ StoredRecords(Push(b, rec)) = Window!Slide(StoredRecords(b), Kept(rec))
<1> DEFINE c == Push(b, rec)
           at(k) == (b.tail + k - 1) % Capacity
           next == (b.tail + 1) % Capacity
           s == StoredRecords(b)
           t == StoredRecords(c)
<1>1. RingInv(b) /\ Readable(b) /\ b.head = (b.tail + b.size) % Capacity
      /\ \A k \in 1 .. b.size : b.slot[at(k)] # 0
  BY DEF WindowInv
<1>2. b.tail \in Row /\ b.head \in Row /\ b.size \in 0 .. Capacity /\ Capacity \in Nat \ {0}
  BY <1>1, CapacityOK DEF RingInv, Rings
<1>3. /\ RingInv(c) /\ Readable(c)
      /\ c.head = (b.head + 1) % Capacity
      /\ c.tail = IF b.size = Capacity THEN next ELSE b.tail
      /\ c.size = IF b.size = Capacity THEN b.size ELSE b.size + 1
      /\ \A j \in Row \ {b.head} : b.slot[j] # 0 =>
            c.slot[j] # 0 /\ Decode(c, j) = Decode(b, j)
      /\ c.slot[b.head] # 0 /\ Decode(c, b.head) = Kept(rec)
  BY <1>1, PushReads
<1> HIDE DEF c
<1>4. /\ \A k \in 1 .. b.size : at(k) \in Row
      /\ b.size < Capacity =>
            /\ \A k \in 1 .. b.size : at(k) # b.head
            /\ at(b.size + 1) = b.head
            /\ (b.head + 1) % Capacity = (b.tail + b.size + 1) % Capacity
      /\ b.size = Capacity =>
            /\ b.head = b.tail
            /\ next \in Row
            /\ \A k \in 1 .. b.size - 1 : at(k + 1) # b.head /\ (next + k - 1) % Capacity = at(k + 1)
            /\ (next + b.size - 1) % Capacity = b.head
            /\ (b.head + 1) % Capacity = (next + b.size) % Capacity
  <2>1. b.head = (b.tail + b.size) % Capacity /\ b.tail \in Row /\ b.size \in 0 .. Capacity
    BY <1>1, <1>2
  <2> QED
    BY <2>1, RowsInOrder
<1> HIDE DEF at, next
<1>5. /\ s \in Seq({s[k] : k \in 1 .. b.size}) /\ Len(s) = b.size
      /\ \A k \in 1 .. b.size : s[k] = Decode(b, at(k))
  <2>1. b.size \in Nat
    BY <1>2
  <2> QED
    BY <2>1, StoredFacts, Zenon DEF at
<1>6. c.size \in Nat
  BY <1>2, <1>3
<1>7. /\ t \in Seq({t[k] : k \in 1 .. c.size}) /\ Len(t) = c.size
      /\ \A k \in 1 .. c.size : t[k] = Decode(c, (c.tail + k - 1) % Capacity)
  BY <1>6, StoredFacts
<1> HIDE DEF s, t
<1> DEFINE S == {s[k] : k \in 1 .. b.size} \cup {t[k] : k \in 1 .. c.size} \cup {Kept(rec)}
<1>8. s \in Seq(S) /\ t \in Seq(S) /\ Kept(rec) \in S
  <2>1. s \in Seq(S)
    BY <1>5, SeqMonotonic
  <2>2. t \in Seq(S)
    BY <1>7, SeqMonotonic
  <2> QED
    BY <2>1, <2>2
<1> HIDE DEF S
<1>9. CASE b.size < Capacity
  <2>1. c.tail = b.tail /\ c.size = b.size + 1 /\ b.size # Capacity
    BY <1>2, <1>3, <1>9
  <2>2. ASSUME NEW k \in 1 .. b.size
        PROVE  t[k] = s[k] /\ c.slot[(c.tail + k - 1) % Capacity] # 0
    <3>1. at(k) \in Row \ {b.head} /\ b.slot[at(k)] # 0
      BY <1>1, <1>4, <1>9
    <3>2. c.slot[at(k)] # 0 /\ Decode(c, at(k)) = Decode(b, at(k))
      BY <1>3, <3>1
    <3>3. k \in 1 .. c.size /\ (c.tail + k - 1) % Capacity = at(k)
      BY <1>2, <2>1 DEF at
    <3> QED
      BY <1>5, <1>7, <3>2, <3>3
  <2>3. t[b.size + 1] = Kept(rec) /\ c.slot[(c.tail + (b.size + 1) - 1) % Capacity] # 0
    <3>1. b.size + 1 \in 1 .. c.size /\ (c.tail + (b.size + 1) - 1) % Capacity = at(b.size + 1)
      BY <1>2, <2>1 DEF at
    <3> QED
      BY <1>3, <1>4, <1>7, <1>9, <3>1
  <2>4. c.head = (c.tail + c.size) % Capacity
    <3>1. b.tail + (b.size + 1) = b.tail + b.size + 1
      BY <1>2 DEF Row
    <3> QED
      BY <1>3, <1>4, <1>9, <2>1, <3>1
  <2>5. \A k \in 1 .. c.size : c.slot[(c.tail + k - 1) % Capacity] # 0
    <3> TAKE k \in 1 .. c.size
    <3>1. k \in 1 .. b.size \/ k = b.size + 1
      BY <1>2, <2>1
    <3> QED
      BY <2>2, <2>3, <3>1
  <2>6. t = Append(s, Kept(rec))
    <3> DEFINE u == Append(s, Kept(rec))
    <3>1. /\ u \in Seq(S) /\ Len(u) = b.size + 1 /\ u[b.size + 1] = Kept(rec)
          /\ \A k \in 1 .. b.size : u[k] = s[k]
      BY <1>5, <1>8
    <3> HIDE DEF u
    <3>2. ASSUME NEW k \in 1 .. Len(t) PROVE t[k] = u[k]
      <4>1. k \in 1 .. b.size \/ k = b.size + 1
        BY <1>2, <1>7, <2>1
      <4> QED
        BY <2>2, <2>3, <3>1, <4>1
    <3>3. t = u
      BY <1>7, <1>8, <2>1, <3>1, <3>2, SeqEqual
    <3> QED
      BY <3>3 DEF u
  <2>7. Window!Slide(s, Kept(rec)) = Append(s, Kept(rec))
    BY <1>5, <1>9 DEF Window!Slide
  <2>8. t = Window!Slide(s, Kept(rec))
    BY <2>6, <2>7
  <2>9. WindowInv(c)
    BY <1>3, <2>4, <2>5 DEF WindowInv
  <2> QED
    BY <2>8, <2>9 DEF s, t, c
<1>10. CASE b.size = Capacity
  <2>1. c.tail = next /\ c.size = b.size /\ b.size \in Nat \ {0} /\ ~(b.size < Capacity)
    BY <1>2, <1>3, <1>10
  <2>2. ASSUME NEW k \in 1 .. b.size - 1
        PROVE  t[k] = s[k + 1] /\ c.slot[(c.tail + k - 1) % Capacity] # 0
    <3>1. k + 1 \in 1 .. b.size /\ k \in 1 .. c.size
      BY <2>1
    <3>2. at(k + 1) \in Row \ {b.head} /\ b.slot[at(k + 1)] # 0
      BY <1>1, <1>4, <1>10, <3>1
    <3>3. c.slot[at(k + 1)] # 0 /\ Decode(c, at(k + 1)) = Decode(b, at(k + 1))
      BY <1>3, <3>2
    <3>4. (c.tail + k - 1) % Capacity = at(k + 1)
      BY <1>4, <1>10, <2>1
    <3> QED
      BY <1>5, <1>7, <3>1, <3>3, <3>4
  <2>3. t[b.size] = Kept(rec) /\ c.slot[(c.tail + b.size - 1) % Capacity] # 0
    <3>1. b.size \in 1 .. c.size /\ (c.tail + b.size - 1) % Capacity = b.head
      BY <1>4, <1>10, <2>1
    <3> QED
      BY <1>3, <1>7, <3>1
  <2>4. c.head = (c.tail + c.size) % Capacity
    BY <1>3, <1>4, <1>10, <2>1
  <2>5. \A k \in 1 .. c.size : c.slot[(c.tail + k - 1) % Capacity] # 0
    <3> TAKE k \in 1 .. c.size
    <3>1. k \in 1 .. b.size - 1 \/ k = b.size
      BY <2>1
    <3> QED
      BY <2>2, <2>3, <3>1
  <2>6. t = Append(Tail(s), Kept(rec))
    <3> DEFINE r == Tail(s)
               u == Append(r, Kept(rec))
    <3>1. s # <<>>
      BY <1>5, <2>1
    <3>2. r \in Seq(S) /\ Len(r) = b.size - 1 /\ \A k \in 1 .. b.size - 1 : r[k] = s[k + 1]
      BY <1>5, <1>8, <3>1, HeadTailProperties
    <3> HIDE DEF r
    <3>3. /\ u \in Seq(S) /\ Len(u) = b.size /\ u[b.size] = Kept(rec)
          /\ \A k \in 1 .. b.size - 1 : u[k] = r[k]
      BY <1>8, <2>1, <3>2
    <3> HIDE DEF u
    <3>4. ASSUME NEW k \in 1 .. Len(t) PROVE t[k] = u[k]
      <4>1. k \in 1 .. b.size - 1 \/ k = b.size
        BY <1>7, <2>1
      <4> QED
        BY <2>2, <2>3, <3>2, <3>3, <4>1
    <3>5. t = u
      BY <1>7, <1>8, <2>1, <3>3, <3>4, SeqEqual
    <3> QED
      BY <3>5 DEF u, r
  <2>7. Window!Slide(s, Kept(rec)) = Append(Tail(s), Kept(rec))
    BY <1>5, <2>1 DEF Window!Slide
  <2>8. t = Window!Slide(s, Kept(rec))
    BY <2>6, <2>7
  <2>9. WindowInv(c)
    BY <1>3, <2>4, <2>5 DEF WindowInv
  <2> QED
    BY <2>8, <2>9 DEF s, t, c
<1> QED
  BY <1>2, <1>9, <1>10

LEMMA EmptyIsAWindow == WindowInv(EmptyRing) /\ StoredRecords(EmptyRing) = <<>>
<1> DEFINE e == EmptyRing
<1>1. /\ e.size = 0 /\ e.tail = 0 /\ e.head = 0 /\ \A j \in Row : e.slot[j] = 0
  BY DEF EmptyRing
<1>2. RingInv(e)
  BY EmptyIsCounted
<1>3. StoredRecords(e) = <<>>
  BY StoredFacts, <1>1
<1> HIDE DEF e
<1>4. 0 % Capacity = 0
  BY CapacityOK
<1>5. WindowInv(e)
  BY <1>1, <1>2, <1>4 DEF WindowInv, Readable
<1> QED
  BY <1>3, <1>5 DEF e

(* The buffer of rows and shared histories is a window of the last records   *)
(* that were appended: each comes back as it was stored, in order, whatever  *)
(* slots its game shared, outgrew or gave to another game since.             *)
THEOREM KeepsTheLastHolds == RingSpec => KeepsTheLast
<1>1. RingInit => WindowInv(ring) /\ Window!WindowInit
  BY EmptyIsAWindow DEF RingInit, Window!WindowInit
<1>2. WindowInv(ring) /\ [RingNext]_ring => WindowInv(ring)'
  <2>1. CASE UNCHANGED ring
    BY <2>1 DEF WindowInv
  <2>2. CASE AppendRecord
    BY <2>2, PushSlides DEF AppendRecord
  <2>3. CASE ClearRing
    BY <2>3, EmptyIsAWindow DEF ClearRing
  <2> QED
    BY <2>1, <2>2, <2>3 DEF RingNext
<1>3. WindowInv(ring) /\ [RingNext]_ring => [Window!Add \/ Window!Drop]_(StoredRecords(ring))
  <2> SUFFICES ASSUME WindowInv(ring), [RingNext]_ring
               PROVE  Window!Add \/ Window!Drop \/ StoredRecords(ring)' = StoredRecords(ring)
    OBVIOUS
  <2>1. CASE UNCHANGED ring
    BY <2>1
  <2>2. CASE AppendRecord
    <3>1. PICK rec \in OfferedRecords : ring' = Push(ring, rec)
      BY <2>2 DEF AppendRecord
    <3>2. StoredRecords(ring)' = Window!Slide(StoredRecords(ring), Kept(rec))
      BY <3>1, PushSlides
    <3> QED
      BY <3>2 DEF Window!Add
  <2>3. CASE ClearRing
    BY <2>3, EmptyIsAWindow DEF ClearRing, Window!Drop
  <2> QED
    BY <2>1, <2>2, <2>3 DEF RingNext
<1> QED
  BY <1>1, <1>2, <1>3, PTL DEF RingSpec, KeepsTheLast, Window!WindowSpec

(* ------------------------------------------------------------------------- *)
(* The games of the epochs. *)

(* What a record brings into the buffer as far as games are concerned. *)
Brought(rec) == <<rec.game, rec.rest>>

RowAt(b, k) == (b.tail + k - 1) % Capacity
Contents(b) == {Brought(b.data[RowAt(b, k)]) : k \in 1 .. b.size}

RingFields == {"slot", "plies", "data", "hist", "refs", "owner", "byId", "free", "head", "tail", "size", "newest"}

Shaped(b) ==
    /\ DOMAIN b = RingFields
    /\ b = [f \in RingFields |-> b[f]]
    /\ b.data = [i \in Row |-> b.data[i]]
    /\ b.tail \in Row /\ b.size \in 0 .. Capacity /\ b.newest \in Nat
    /\ b.head = (b.tail + b.size) % Capacity

(* The same but for slots. *)
SameBut(b, c) ==
    /\ DOMAIN c = RingFields /\ c = [f \in RingFields |-> c[f]]
    /\ c.data = b.data /\ c.head = b.head /\ c.tail = b.tail /\ c.size = b.size /\ c.newest = b.newest

LEMMA ReleaseKeeps ==
    ASSUME NEW b, DOMAIN b = RingFields, NEW i
    PROVE  SameBut(b, ReleaseRow(b, i))
<1> DEFINE loose == [b EXCEPT !.slot[i] = 0, !.plies[i] = 0]
           s == b.slot[i]
<1>1. SameBut(b, loose)
  BY DEF SameBut, RingFields
<1>2. SameBut(b, [loose EXCEPT !.refs[s] = @ - 1])
  BY DEF SameBut, RingFields
<1>3. SameBut(b, [loose EXCEPT !.refs[s] = 0, !.hist[s] = <<>>, !.free = Append(@, s),
                           !.byId[b.owner[s]] = DropFirst(@, s)])
  BY DEF SameBut, RingFields
<1> QED
  BY <1>1, <1>2, <1>3, Zenon DEF ReleaseRow

LEMMA TakeKeeps ==
    ASSUME NEW b, DOMAIN b = RingFields, NEW id, NEW h
    PROVE  SameBut(b, TakeSlot(b, id, h))
<1> DEFINE s == SlotFor(b, id, h)
<1>1. SameBut(b, [b EXCEPT !.refs[s] = @ + 1, !.hist[s] = IF Len(h) > Len(@) THEN h ELSE @])
  BY DEF SameBut, RingFields
<1>2. SameBut(b, [b EXCEPT !.refs = PutAt(@, s, 1), !.hist = PutAt(@, s, h), !.owner = PutAt(@, s, id),
                       !.free = IF @ = <<>> THEN @ ELSE Front(@), !.byId[id] = Append(@, s)])
  BY DEF SameBut, RingFields
<1> QED
  BY <1>1, <1>2, Zenon DEF TakeSlot

LEMMA PushIs ==
    ASSUME NEW b, DOMAIN b = RingFields, NEW rec
    PROVE  LET c == Push(b, rec)
           IN  /\ DOMAIN c = RingFields /\ c = [f \in RingFields |-> c[f]]
               /\ c.data = [b.data EXCEPT ![b.head] = Packed(rec)]
               /\ c.head = (b.head + 1) % Capacity
               /\ c.tail = IF b.size = Capacity THEN (b.tail + 1) % Capacity ELSE b.tail
               /\ c.size = IF b.size = Capacity THEN b.size ELSE b.size + 1
               /\ c.newest = IF rec.game > b.newest THEN rec.game ELSE b.newest
<1> DEFINE i == b.head
           freed == ReleaseRow(b, i)
           taken == TakeSlot(freed, rec.game, rec.history)
           s == SlotFor(freed, rec.game, rec.history)
<1>1. SameBut(b, freed)
  BY ReleaseKeeps
<1>2. SameBut(freed, taken)
  BY <1>1, TakeKeeps DEF SameBut
<1> HIDE DEF freed, taken, s
<1>3. SameBut(b, taken)
  BY <1>1, <1>2 DEF SameBut
<1>4. Push(b, rec) = [taken EXCEPT !.slot[i] = s,
                      !.plies[i] = Len(rec.history),
                      !.data[i] = Packed(rec),
                      !.head = (i + 1) % Capacity,
                      !.tail = IF b.size = Capacity THEN (@ + 1) % Capacity ELSE @,
                      !.size = IF @ = Capacity THEN @ ELSE @ + 1,
                      !.newest = IF rec.game > @ THEN rec.game ELSE @]
  BY Zenon DEF Push, freed, taken, s
<1> DEFINE c == Push(b, rec)
           size == IF b.size = Capacity THEN b.size ELSE b.size + 1
           tail == IF b.size = Capacity THEN (b.tail + 1) % Capacity ELSE b.tail
           newest == IF rec.game > b.newest THEN rec.game ELSE b.newest
           slot == [taken.slot EXCEPT ![i] = s]
           plies == [taken.plies EXCEPT ![i] = Len(rec.history)]
           data == [b.data EXCEPT ![i] = Packed(rec)]
<1>5. /\ DOMAIN taken = RingFields /\ taken.data = b.data /\ taken.head = b.head /\ taken.tail = b.tail
      /\ taken.size = b.size /\ taken.newest = b.newest
  BY <1>3 DEF SameBut
<1>6. c = [taken EXCEPT !.slot = slot, !.plies = plies, !.data = data, !.head = (i + 1) % Capacity,
                        !.tail = tail, !.size = size, !.newest = newest]
  BY <1>4, <1>5 DEF RingFields
<1> HIDE DEF c, size, tail, newest, slot, plies, data
<1>7. /\ DOMAIN c = RingFields /\ c = [f \in RingFields |-> c[f]]
      /\ c.data = data /\ c.head = (i + 1) % Capacity /\ c.tail = tail /\ c.size = size /\ c.newest = newest
  BY <1>5, <1>6 DEF RingFields
<1> QED
  BY <1>7 DEF c, size, tail, newest, data

LEMMA PushAdds ==
    ASSUME NEW b, Shaped(b), NEW rec, rec.game \in Nat
    PROVE  LET c == Push(b, rec)
           IN  /\ Shaped(c)
               /\ Contents(c) \subseteq Contents(b) \cup {Brought(rec)}
               /\ c.newest >= b.newest /\ c.newest >= rec.game /\ c.size > 0
<1> DEFINE c == Push(b, rec)
<1>1. /\ DOMAIN b = RingFields
      /\ b.data = [i \in Row |-> b.data[i]]
      /\ b.tail \in Row /\ b.size \in 0 .. Capacity /\ b.newest \in Nat
      /\ b.head = (b.tail + b.size) % Capacity
  BY DEF Shaped
<1>2. /\ DOMAIN c = RingFields /\ c = [f \in RingFields |-> c[f]]
      /\ c.data = [b.data EXCEPT ![b.head] = Packed(rec)]
      /\ c.head = (b.head + 1) % Capacity
      /\ c.tail = IF b.size = Capacity THEN (b.tail + 1) % Capacity ELSE b.tail
      /\ c.size = IF b.size = Capacity THEN b.size ELSE b.size + 1
      /\ c.newest = IF rec.game > b.newest THEN rec.game ELSE b.newest
  BY <1>1, PushIs
<1> HIDE DEF c
<1> DEFINE at(k) == (b.tail + k - 1) % Capacity
           next == (b.tail + 1) % Capacity
<1>3. /\ \A k \in 1 .. b.size : at(k) \in Row
      /\ b.size < Capacity =>
            /\ \A k \in 1 .. b.size : at(k) # b.head
            /\ at(b.size + 1) = b.head
            /\ (b.head + 1) % Capacity = (b.tail + b.size + 1) % Capacity
      /\ b.size = Capacity =>
            /\ b.head = b.tail
            /\ next \in Row
            /\ \A k \in 1 .. b.size - 1 : at(k + 1) # b.head /\ (next + k - 1) % Capacity = at(k + 1)
            /\ (next + b.size - 1) % Capacity = b.head
            /\ (b.head + 1) % Capacity = (next + b.size) % Capacity
  BY <1>1, RowsInOrder
<1>4. Capacity \in Nat \ {0} /\ Row = 0 .. Capacity - 1
  BY CapacityOK DEF Row
<1>5. \A i \in Row : c.data[i] = IF i = b.head THEN Packed(rec) ELSE b.data[i]
  BY <1>1, <1>2
<1>6. c.data = [i \in Row |-> c.data[i]]
  <2>1. DOMAIN b.data = Row
    BY <1>1
  <2>2. \A D, i, x, y : y = [D EXCEPT ![i] = x] => y = [j \in DOMAIN D |-> y[j]]
    OBVIOUS
  <2> QED
    BY <1>2, <2>1, <2>2
<1> HIDE DEF at, next
<1>7. /\ c.tail \in Row /\ c.size \in 0 .. Capacity /\ c.newest \in Nat
      /\ c.head = (c.tail + c.size) % Capacity
      /\ c.newest >= b.newest /\ c.newest >= rec.game /\ c.size > 0
  <2>1. c.newest \in Nat /\ c.newest >= b.newest /\ c.newest >= rec.game
    BY <1>1, <1>2
  <2>2. CASE b.size = Capacity
    <3>1. c.tail = next /\ c.size = b.size
      BY <1>2, <2>2 DEF next
    <3>2. c.head = (b.head + 1) % Capacity /\ next \in Row /\ (b.head + 1) % Capacity = (next + b.size) % Capacity
      BY <1>2, <1>3, <2>2
    <3>3. c.head = (c.tail + c.size) % Capacity /\ c.tail \in Row
      BY <3>1, <3>2
    <3>4. c.size \in 0 .. Capacity /\ c.size > 0
      BY <1>4, <2>2, <3>1
    <3> QED
      BY <2>1, <3>3, <3>4
  <2>3. CASE b.size # Capacity
    <3>1. c.tail = b.tail /\ c.size = b.size + 1 /\ b.size < Capacity
      BY <1>1, <1>2, <1>4, <2>3
    <3>2. b.tail + b.size + 1 = c.tail + c.size
      BY <1>1, <1>4, <3>1
    <3>3. c.head = (b.head + 1) % Capacity /\ (b.head + 1) % Capacity = (b.tail + b.size + 1) % Capacity
      BY <1>2, <1>3, <3>1
    <3>4. c.head = (c.tail + c.size) % Capacity
      BY <3>2, <3>3
    <3>5. c.size \in 0 .. Capacity /\ c.size > 0 /\ c.tail \in Row
      BY <1>1, <1>4, <3>1
    <3> QED
      BY <2>1, <3>4, <3>5
  <2> QED
    BY <2>2, <2>3
<1>8. ASSUME NEW k \in 1 .. c.size
      PROVE  Brought(c.data[RowAt(c, k)]) \in Contents(b) \cup {Brought(rec)}
  <2>1. \/ RowAt(c, k) = b.head
        \/ \E j \in 1 .. b.size : RowAt(c, k) = at(j)
    <3>1. CASE b.size = Capacity
      <4>1. c.tail = next /\ c.size = b.size
        BY <1>2, <3>1 DEF next
      <4>2. CASE k = b.size
        BY <1>3, <3>1, <4>1, <4>2 DEF RowAt
      <4>3. CASE k # b.size
        <5>1. k \in 1 .. b.size - 1 /\ k + 1 \in 1 .. b.size
          BY <1>4, <3>1, <4>1, <4>3
        <5> QED
          BY <1>3, <3>1, <4>1, <5>1 DEF RowAt
      <4> QED
        BY <4>2, <4>3
    <3>2. CASE b.size # Capacity
      <4>1. c.tail = b.tail /\ c.size = b.size + 1 /\ b.size < Capacity
        BY <1>1, <1>2, <1>4, <3>2
      <4>2. RowAt(c, k) = at(k)
        BY <4>1 DEF RowAt, at
      <4>3. k = b.size + 1 \/ k \in 1 .. b.size
        BY <1>1, <4>1
      <4> QED
        BY <1>3, <4>1, <4>2, <4>3
    <3> QED
      BY <3>1, <3>2
  <2>2. CASE RowAt(c, k) = b.head
    <3>1. b.head \in Row
      <4>1. b.size = Capacity => b.head = b.tail
        BY <1>3
      <4>2. \A n \in Int : n % Capacity \in Row
        BY <1>4
      <4> QED
        BY <1>1, <1>4, <4>2
    <3>2. c.data[RowAt(c, k)] = Packed(rec)
      BY <1>5, <2>2, <3>1
    <3>3. Brought(Packed(rec)) = Brought(rec)
      BY DEF Brought, Packed
    <3> QED
      BY <3>2, <3>3
  <2>3. CASE RowAt(c, k) # b.head /\ \E j \in 1 .. b.size : RowAt(c, k) = at(j)
    <3>1. PICK j \in 1 .. b.size : RowAt(c, k) = at(j)
      BY <2>3
    <3>2. c.data[at(j)] = b.data[at(j)] /\ at(j) = RowAt(b, j)
      BY <1>3, <1>5, <2>3, <3>1 DEF RowAt, at
    <3> QED
      BY <3>1, <3>2 DEF Contents
  <2> QED
    BY <2>1, <2>2, <2>3
<1>9. Contents(c) \subseteq Contents(b) \cup {Brought(rec)}
  BY <1>8 DEF Contents
<1>10. Shaped(c)
  BY <1>2, <1>6, <1>7 DEF Shaped
<1> QED
  BY <1>7, <1>9, <1>10 DEF c

LEMMA NatSetInduction ==
    ASSUME NEW S, 0 \in S, \A n \in Nat : n \in S => n + 1 \in S
    PROVE  Nat \subseteq S
<1> SUFFICES ASSUME NEW N \in Nat, N \notin S PROVE FALSE
  OBVIOUS
<1> DEFINE T == S \cap (0 .. N)
           f == [n \in T |-> n + 1]
<1>1. IsFiniteSet(T) /\ IsFiniteSet(T \ {0}) /\ Cardinality(T) \in Nat
  <2>1. IsFiniteSet(0 .. N)
    BY FS_Interval
  <2>2. IsFiniteSet(T)
    BY <2>1, FS_Subset
  <2> QED
    BY <2>2, FS_Subset, FS_CardinalityType
<1>2. Cardinality(T \ {0}) = Cardinality(T) - 1
  <2>1. 0 \in T
    OBVIOUS
  <2> HIDE DEF T
  <2> QED
    BY <1>1, <2>1, FS_RemoveElement
<1>3. f \in Injection(T, T \ {0})
  <2>1. f \in [T -> T \ {0}]
    OBVIOUS
  <2>2. \A a, b \in T : f[a] = f[b] => a = b
    OBVIOUS
  <2> QED
    BY <2>1, <2>2 DEF Injection, IsInjective
<1>4. Cardinality(T) <= Cardinality(T \ {0})
  BY <1>1, <1>3, FS_Injection
<1> QED
  BY <1>1, <1>2, <1>4

(* The greatest of some of the first numbers. *)
LEMMA GreatestIsThere ==
    ASSUME NEW n \in Nat, NEW T \in SUBSET (1 .. n), T # {}
    PROVE  Max(T) \in T
<1> DEFINE S == {k \in Nat : \A U \in SUBSET (1 .. k) : U # {} => \E x \in U : \A y \in U : x >= y}
<1>1. 0 \in S
  <2>1. 1 .. 0 = {}
    OBVIOUS
  <2> QED
    BY <2>1
<1>2. ASSUME NEW k \in Nat, k \in S PROVE k + 1 \in S
  <2> SUFFICES ASSUME NEW U \in SUBSET (1 .. k + 1), U # {} PROVE \E x \in U : \A y \in U : x >= y
    OBVIOUS
  <2>1. CASE k + 1 \in U
    BY <2>1
  <2>2. CASE k + 1 \notin U
    <3>1. U \in SUBSET (1 .. k)
      BY <2>2
    <3> QED
      BY <1>2, <3>1
  <2> QED
    BY <2>1, <2>2
<1>3. n \in S
  <2> HIDE DEF S
  <2> QED
    BY <1>1, <1>2, NatSetInduction
<1>4. \E x \in T : \A y \in T : x >= y
  BY <1>3
<1> HIDE DEF S
<1> QED
  BY <1>4 DEF Max

LEMMA GreatestIs ==
    ASSUME NEW k \in Nat \ {0}
    PROVE  Max(1 .. k) = k /\ (1 .. k) \ {k} = 1 .. k - 1
<1>1. Max(1 .. k) \in 1 .. k
  <2> DEFINE T == 1 .. k
  <2>1. T \in SUBSET (1 .. k) /\ T # {} /\ k \in Nat
    OBVIOUS
  <2> HIDE DEF T
  <2>2. Max(T) \in T
    BY <2>1, GreatestIsThere
  <2> QED
    BY <2>2 DEF T
<1>2. \E x \in 1 .. k : \A y \in 1 .. k : x >= y
  <2>1. k \in 1 .. k /\ \A y \in 1 .. k : k >= y
    OBVIOUS
  <2> QED
    BY <2>1
<1>3. \A y \in 1 .. k : Max(1 .. k) >= y
  BY <1>2 DEF Max
<1> QED
  BY <1>1, <1>3

(* What a fold computes exists, for a function that gives values of A. *)
Folds(G, F, base, s, n) ==
    \A T \in SUBSET (1 .. n) :
        G[T] = IF T = {} THEN base ELSE F[<<G[T \ {Max(T)}], s[Max(T)]>>]

LEMMA FoldExists ==
    ASSUME NEW n \in Nat, NEW A, NEW base \in A, NEW S, NEW s, \A k \in 1 .. n : s[k] \in S,
           NEW F \in [A \X S -> A]
    PROVE  \E G \in [SUBSET (1 .. n) -> A] : Folds(G, F, base, s, n)
<1> DEFINE Fold(k) == \E G \in [SUBSET (1 .. k) -> A] : Folds(G, F, base, s, k)
           P == {k \in Nat : k <= n => Fold(k)}
<1>1. Fold(0)
  <2> DEFINE G == [T \in SUBSET (1 .. 0) |-> base]
  <2>1. G \in [SUBSET (1 .. 0) -> A] /\ \A T \in SUBSET (1 .. 0) : T = {} /\ G[T] = base
    OBVIOUS
  <2>2. Folds(G, F, base, s, 0)
    BY <2>1 DEF Folds
  <2> HIDE DEF G
  <2>3. \E x \in [SUBSET (1 .. 0) -> A] : Folds(x, F, base, s, 0)
    BY <2>1, <2>2
  <2> QED
    BY <2>3
<1>2. ASSUME NEW k \in Nat, k + 1 <= n, Fold(k) PROVE Fold(k + 1)
  <2>1. PICK G \in [SUBSET (1 .. k) -> A] : Folds(G, F, base, s, k)
    BY <1>2
  <2> DEFINE m == k + 1
             H == [T \in SUBSET (1 .. m) |-> IF m \in T THEN F[<<G[T \ {m}], s[m]>>] ELSE G[T]]
  <2>2. /\ m \in 1 .. n /\ m \in Nat \ {0}
        /\ \A T \in SUBSET (1 .. m) : T \ {m} \in SUBSET (1 .. k) /\ (m \notin T => T \in SUBSET (1 .. k))
    <3>1. m \in 1 .. n /\ m \in Nat \ {0} /\ (1 .. m) \ {m} = 1 .. k
      BY <1>2
    <3> HIDE DEF m
    <3> QED
      BY <3>1
  <2>3. s[m] \in S
    BY <2>2
  <2> HIDE DEF m
  <2>4. ASSUME NEW T \in SUBSET (1 .. m) PROVE H[T] \in A
    <3>1. G[T \ {m}] \in A /\ (m \notin T => G[T] \in A)
      BY <2>2
    <3>2. <<G[T \ {m}], s[m]>> \in A \X S
      BY <2>3, <3>1
    <3> QED
      BY <3>1, <3>2
  <2>5. H \in [SUBSET (1 .. m) -> A]
    BY <2>4
  <2>6. ASSUME NEW T \in SUBSET (1 .. m), T # {}
        PROVE  H[T] = F[<<H[T \ {Max(T)}], s[Max(T)]>>]
    <3>1. CASE m \in T
      <4>1. Max(T) = m
        <5>1. Max(T) \in T
          BY <2>2, <2>6, GreatestIsThere
        <5>2. \E x \in T : \A y \in T : x >= y
          BY <2>2, <3>1
        <5>3. Max(T) >= m
          BY <3>1, <5>2 DEF Max
        <5>4. Max(T) \in 1 .. m
          BY <5>1
        <5> QED
          BY <2>2, <5>3, <5>4
      <4>2. H[T \ {m}] = G[T \ {m}] /\ H[T] = F[<<G[T \ {m}], s[m]>>]
        BY <2>2, <3>1
      <4> QED
        BY <4>1, <4>2
    <3>2. CASE m \notin T
      <4>1. T \in SUBSET (1 .. k) /\ H[T] = G[T] /\ H[T \ {Max(T)}] = G[T \ {Max(T)}]
        BY <2>2, <3>2
      <4>2. G[T] = F[<<G[T \ {Max(T)}], s[Max(T)]>>]
        BY <2>1, <2>6, <4>1 DEF Folds
      <4> QED
        BY <4>1, <4>2
    <3> QED
      BY <3>1, <3>2
  <2>7. H[{}] = base
    <3>1. {} \in SUBSET (1 .. k) /\ {} \in SUBSET (1 .. m) /\ H[{}] = G[{}]
      OBVIOUS
    <3> QED
      BY <2>1, <3>1 DEF Folds
  <2> HIDE DEF H
  <2>8. Folds(H, F, base, s, m)
    BY <2>6, <2>7 DEF Folds
  <2> QED
    BY <2>5, <2>8 DEF m
<1> HIDE DEF Fold
<1>3. 0 \in P /\ \A k \in Nat : k \in P => k + 1 \in P
  BY <1>1, <1>2
<1>4. n \in P
  <2> HIDE DEF P
  <2> QED
    BY <1>3, NatSetInduction
<1>5. Fold(n)
  BY <1>4
<1> QED
  BY <1>5 DEF Fold

(* The buffers between the records of an Extend. *)
Pushing(G, b, recs, n) ==
    /\ DOMAIN G = SUBSET (1 .. n)
    /\ \A T \in SUBSET (1 .. n) :
          G[T] = IF T = {} THEN b ELSE Push(G[T \ {Max(T)}], recs[Max(T)])

LEMMA PushingExists ==
    ASSUME NEW n \in Nat, NEW b, NEW recs
    PROVE  \E G : Pushing(G, b, recs, n)
<1> DEFINE Fold(k) == \E G : Pushing(G, b, recs, k)
           P == {k \in Nat : Fold(k)}
<1>1. Fold(0)
  <2> DEFINE G == [T \in SUBSET (1 .. 0) |-> b]
  <2>1. DOMAIN G = SUBSET (1 .. 0) /\ \A T \in SUBSET (1 .. 0) : T = {} /\ G[T] = b
    OBVIOUS
  <2> HIDE DEF G
  <2>2. Pushing(G, b, recs, 0)
    BY <2>1 DEF Pushing
  <2> QED
    BY <2>2
<1>2. ASSUME NEW k \in Nat, Fold(k) PROVE Fold(k + 1)
  <2>1. PICK G : Pushing(G, b, recs, k)
    BY <1>2
  <2> DEFINE m == k + 1
             H == [T \in SUBSET (1 .. m) |-> IF m \in T THEN Push(G[T \ {m}], recs[m]) ELSE G[T]]
  <2>2. /\ m \in Nat \ {0}
        /\ \A T \in SUBSET (1 .. m) : T \ {m} \in SUBSET (1 .. k) /\ (m \notin T => T \in SUBSET (1 .. k))
    <3>1. m \in Nat \ {0} /\ (1 .. m) \ {m} = 1 .. k
      BY <1>2
    <3> HIDE DEF m
    <3> QED
      BY <3>1
  <2> HIDE DEF m
  <2>3. ASSUME NEW T \in SUBSET (1 .. m), T # {}
        PROVE  H[T] = Push(H[T \ {Max(T)}], recs[Max(T)])
    <3>1. CASE m \in T
      <4>1. Max(T) = m
        <5>1. Max(T) \in T
          BY <2>2, <2>3, GreatestIsThere
        <5>2. \E x \in T : \A y \in T : x >= y
          BY <2>2, <3>1
        <5>3. Max(T) >= m
          BY <3>1, <5>2 DEF Max
        <5>4. Max(T) \in 1 .. m
          BY <5>1
        <5> QED
          BY <2>2, <5>3, <5>4
      <4>2. H[T \ {m}] = G[T \ {m}] /\ H[T] = Push(G[T \ {m}], recs[m])
        BY <2>2, <3>1
      <4> QED
        BY <4>1, <4>2
    <3>2. CASE m \notin T
      <4>1. T \in SUBSET (1 .. k) /\ H[T] = G[T] /\ H[T \ {Max(T)}] = G[T \ {Max(T)}]
        BY <2>2, <3>2
      <4>2. G[T] = Push(G[T \ {Max(T)}], recs[Max(T)])
        BY <2>1, <2>3, <4>1 DEF Pushing
      <4> QED
        BY <4>1, <4>2
    <3> QED
      BY <3>1, <3>2
  <2>4. H[{}] = b
    <3>1. {} \in SUBSET (1 .. k) /\ {} \in SUBSET (1 .. m) /\ H[{}] = G[{}]
      BY <2>2
    <3> QED
      BY <2>1, <3>1 DEF Pushing
  <2>5. DOMAIN H = SUBSET (1 .. m)
    OBVIOUS
  <2> HIDE DEF H
  <2>6. Pushing(H, b, recs, m)
    BY <2>3, <2>4, <2>5 DEF Pushing
  <2>7. Fold(m)
    BY <2>6
  <2> QED
    BY <2>7 DEF m
<1> HIDE DEF Fold
<1>3. 0 \in P /\ \A k \in Nat : k \in P => k + 1 \in P
  BY <1>1, <1>2
<1>4. n \in P
  <2> HIDE DEF P
  <2> QED
    BY <1>3, NatSetInduction
<1>5. Fold(n)
  BY <1>4
<1> QED
  BY <1>5 DEF Fold

ExtendSteps(g, b, recs, n) ==
    /\ g[0] = b
    /\ \A k \in 1 .. n : g[k] = Push(g[k - 1], recs[k])
    /\ g[n] = Extend(b, recs)

LEMMA ExtendFolds ==
    ASSUME NEW b, NEW n \in Nat, NEW recs, DOMAIN recs = 1 .. n
    PROVE  \E g : ExtendSteps(g, b, recs, n)
<1> DEFINE D == SUBSET (1 .. n)
           it == CHOOSE it : it = [T \in D |-> IF T = {} THEN b ELSE Push(it[T \ {Max(T)}], recs[Max(T)])]
           g == [k \in 0 .. n |-> it[1 .. k]]
<1>1. PICK G : Pushing(G, b, recs, n)
  BY PushingExists
<1>2. \E G2 : G2 = [T \in D |-> IF T = {} THEN b ELSE Push(G2[T \ {Max(T)}], recs[Max(T)])]
  <2> DEFINE G2 == [T \in D |-> G[T]]
  <2>1. ASSUME NEW T \in D
        PROVE  G2[T] = IF T = {} THEN b ELSE Push(G2[T \ {Max(T)}], recs[Max(T)])
    <3>1. T \ {Max(T)} \in D /\ G2[T] = G[T] /\ G2[T \ {Max(T)}] = G[T \ {Max(T)}]
      OBVIOUS
    <3> QED
      BY <1>1, <3>1 DEF Pushing
  <2>2. G2 = [T \in D |-> G2[T]]
    OBVIOUS
  <2> HIDE DEF G2, D
  <2>3. G2 = [T \in D |-> IF T = {} THEN b ELSE Push(G2[T \ {Max(T)}], recs[Max(T)])]
    BY <2>1, <2>2
  <2> QED
    BY <2>3
<1>6. it = [T \in D |-> IF T = {} THEN b ELSE Push(it[T \ {Max(T)}], recs[Max(T)])]
  BY <1>2, Zenon
<1>7. Extend(b, recs) = it[1 .. n]
  BY Zenon DEF Extend, FoldLeft, MapThenFoldSet
<1> HIDE DEF it
<1>8. g[0] = b
  <2>1. 1 .. 0 = {} /\ {} \in D /\ g[0] = it[1 .. 0]
    OBVIOUS
  <2> QED
    BY <1>6, <2>1
<1>9. ASSUME NEW k \in 1 .. n PROVE g[k] = Push(g[k - 1], recs[k])
  <2>1. 1 .. k \in D /\ 1 .. k # {} /\ g[k] = it[1 .. k] /\ g[k - 1] = it[1 .. k - 1]
    <3>1. k \in 0 .. n /\ k - 1 \in 0 .. n /\ 1 \in 1 .. k /\ 1 .. k \subseteq 1 .. n
      BY <1>9
    <3> HIDE DEF D
    <3>2. g[k] = it[1 .. k] /\ g[k - 1] = it[1 .. k - 1]
      BY <3>1
    <3> HIDE DEF g
    <3> QED
      BY <3>1, <3>2 DEF D
  <2>2. it[1 .. k] = Push(it[(1 .. k) \ {Max(1 .. k)}], recs[Max(1 .. k)])
    BY <1>6, <2>1
  <2>3. Max(1 .. k) = k /\ (1 .. k) \ {k} = 1 .. k - 1
    BY GreatestIs
  <2> QED
    BY <2>1, <2>2, <2>3
<1>10. g[n] = Extend(b, recs)
  BY <1>7
<1> HIDE DEF g
<1>11. ExtendSteps(g, b, recs, n)
  BY <1>8, <1>9, <1>10 DEF ExtendSteps
<1> QED
  BY <1>11

LEMMA ExtendAdds ==
    ASSUME NEW b, Shaped(b), NEW n \in Nat, NEW recs, DOMAIN recs = 1 .. n,
           \A k \in 1 .. n : recs[k].game \in Nat
    PROVE  LET c == Extend(b, recs)
           IN  /\ Shaped(c)
               /\ Contents(c) \subseteq Contents(b) \cup {Brought(recs[k]) : k \in 1 .. n}
               /\ c.newest >= b.newest /\ \A k \in 1 .. n : c.newest >= recs[k].game
<1>1. PICK g : ExtendSteps(g, b, recs, n)
  BY ExtendFolds
<1> DEFINE R(k) == {Brought(recs[j]) : j \in 1 .. k}
           Good(k) == /\ Shaped(g[k])
                      /\ Contents(g[k]) \subseteq Contents(b) \cup R(k)
                      /\ g[k].newest \in Nat /\ g[k].newest >= b.newest
                      /\ \A j \in 1 .. k : g[k].newest >= recs[j].game
           P == {k \in Nat : k <= n => Good(k)}
<1>2. b.newest \in Nat
  BY DEF Shaped
<1>3. Good(0)
  <2>1. g[0] = b
    BY <1>1 DEF ExtendSteps
  <2> QED
    BY <1>2, <2>1
<1>4. ASSUME NEW k \in Nat, k + 1 <= n, Good(k) PROVE Good(k + 1)
  <2> DEFINE m == k + 1
  <2>1. m \in 1 .. n /\ m - 1 = k /\ 1 .. m = (1 .. k) \cup {m}
    BY <1>4
  <2>2. g[m] = Push(g[k], recs[m]) /\ recs[m].game \in Nat
    BY <1>1, <2>1 DEF ExtendSteps
  <2>3. Shaped(g[k]) /\ g[k].newest \in Nat
    BY <1>4
  <2> HIDE DEF m
  <2>4. /\ Shaped(g[m])
        /\ Contents(g[m]) \subseteq Contents(g[k]) \cup {Brought(recs[m])}
        /\ g[m].newest >= g[k].newest /\ g[m].newest >= recs[m].game
    BY <2>2, <2>3, PushAdds
  <2>5. g[m].newest \in Nat
    BY <2>4 DEF Shaped
  <2>6. R(m) = R(k) \cup {Brought(recs[m])}
    BY <2>1
  <2>7. \A j \in 1 .. k : recs[j].game \in Nat
    BY <1>4
  <2>8. \A j \in 1 .. m : g[m].newest >= recs[j].game
    <3>1. ASSUME NEW j \in 1 .. k PROVE g[m].newest >= recs[j].game
      <4>1. g[k].newest >= recs[j].game /\ recs[j].game \in Nat
        BY <1>4, <2>7
      <4> QED
        BY <2>3, <2>4, <2>5, <4>1
    <3> QED
      BY <2>1, <2>4, <3>1
  <2>9. g[m].newest >= b.newest
    <3>1. g[k].newest >= b.newest
      BY <1>4
    <3> QED
      BY <1>2, <2>3, <2>4, <2>5, <3>1
  <2>10. Contents(g[m]) \subseteq Contents(b) \cup R(m)
    <3>1. Contents(g[k]) \subseteq Contents(b) \cup R(k)
      BY <1>4
    <3> HIDE DEF R
    <3> QED
      BY <2>4, <2>6, <3>1
  <2>11. Good(m)
    BY <2>4, <2>5, <2>8, <2>9, <2>10
  <2> QED
    BY <2>11 DEF m
<1> HIDE DEF Good
<1>5. 0 \in P /\ \A k \in Nat : k \in P => k + 1 \in P
  BY <1>3, <1>4
<1>6. n \in P
  <2> HIDE DEF P
  <2> QED
    BY <1>5, NatSetInduction
<1>7. Good(n)
  BY <1>6
<1> QED
  BY <1>1, <1>7 DEF Good, ExtendSteps

(* ------------------------------------------------------------------------- *)
(* The games that are appended. *)

LEMMA Flattened ==
    ASSUME NEW n \in Nat, NEW R, NEW seqs, DOMAIN seqs = 1 .. n, seqs \in Seq(Seq(R))
    PROVE  FlattenSeq(seqs) \in Seq(R)
<1>1. Len(seqs) = n /\ \A i \in 1 .. n : seqs[i] \in Seq(R)
  BY LenProperties, ElementOfSeq
<1> DEFINE Flat(f, k) == f = [i \in 1 .. k |-> IF i = 1 THEN seqs[i] ELSE f[i - 1] \o seqs[i]]
           Done(k) == \E f : Flat(f, k) /\ \A i \in 1 .. k : f[i] \in Seq(R)
           P == {k \in Nat : k <= n => Done(k)}
<1>2. Done(0)
  <2> DEFINE f == [i \in 1 .. 0 |-> <<>>]
  <2>1. Flat(f, 0) /\ \A i \in 1 .. 0 : f[i] \in Seq(R)
    OBVIOUS
  <2> HIDE DEF f
  <2> QED
    BY <2>1
<1>3. ASSUME NEW k \in Nat, k + 1 <= n, Done(k) PROVE Done(k + 1)
  <2>1. PICK f : Flat(f, k) /\ \A i \in 1 .. k : f[i] \in Seq(R)
    BY <1>3
  <2> DEFINE m == k + 1
             h == [i \in 1 .. m |-> IF i = m THEN (IF m = 1 THEN seqs[m] ELSE f[k] \o seqs[m]) ELSE f[i]]
  <2>2. /\ m - 1 = k /\ m \in 1 .. n /\ m \in 1 .. m
        /\ \A i \in 1 .. m : i # m => i \in 1 .. k
        /\ \A i \in 1 .. m : i # 1 => i - 1 \in 1 .. k
        /\ \A i \in 1 .. k : i # m
    BY <1>3
  <2>3. seqs[m] \in Seq(R) /\ (m # 1 => k \in 1 .. k /\ f[k] \in Seq(R))
    BY <1>1, <2>1, <2>2
  <2>4. m # 1 => f[k] \o seqs[m] \in Seq(R)
    BY <2>3, ConcatProperties
  <2>5. \A i \in 1 .. k : f[i] = IF i = 1 THEN seqs[i] ELSE f[i - 1] \o seqs[i]
    BY <2>1
  <2> HIDE DEF m
  <2>6. h[m] = (IF m = 1 THEN seqs[m] ELSE f[k] \o seqs[m]) /\ \A i \in 1 .. k : h[i] = f[i]
    <3> DEFINE last == IF m = 1 THEN seqs[m] ELSE f[k] \o seqs[m]
    <3>1. h = [i \in 1 .. m |-> IF i = m THEN last ELSE f[i]]
      OBVIOUS
    <3> HIDE DEF h, last
    <3>2. h[m] = last
      BY <2>2, <3>1
    <3>3. \A i \in 1 .. k : h[i] = f[i]
      BY <2>2, <3>1
    <3> QED
      BY <3>2, <3>3 DEF last
  <2>7. DOMAIN h = 1 .. m /\ h = [i \in 1 .. m |-> h[i]]
    OBVIOUS
  <2> HIDE DEF h
  <2>8. ASSUME NEW i \in 1 .. m
        PROVE  h[i] = (IF i = 1 THEN seqs[i] ELSE h[i - 1] \o seqs[i]) /\ h[i] \in Seq(R)
    <3>1. CASE i = m
      BY <2>2, <2>3, <2>4, <2>6, <3>1
    <3>2. CASE i # m
      <4>1. i \in 1 .. k /\ h[i] = f[i] /\ (i # 1 => h[i - 1] = f[i - 1])
        BY <2>2, <2>6, <3>2
      <4> QED
        BY <2>1, <2>5, <4>1
    <3> QED
      BY <3>1, <3>2
  <2>9. Flat(h, m)
    BY <2>7, <2>8
  <2> HIDE DEF Flat
  <2>10. Done(m)
    BY <2>8, <2>9
  <2> QED
    BY <2>10 DEF m
<1> HIDE DEF Done
<1>4. 0 \in P /\ \A k \in Nat : k \in P => k + 1 \in P
  BY <1>2, <1>3
<1>5. n \in P
  <2> HIDE DEF P
  <2> QED
    BY <1>4, NatSetInduction
<1>6. Done(n)
  BY <1>5
<1>7. CASE n = 0
  <2>1. Len(seqs) = 0
    BY <1>1, <1>7
  <2>2. seqs = <<>>
    BY <2>1, EmptySeq
  <2>3. FlattenSeq(seqs) = seqs
    BY <2>1, Zenon DEF FlattenSeq
  <2>4. <<>> \in Seq(R)
    OBVIOUS
  <2>5. FlattenSeq(seqs) = <<>>
    BY <2>2, <2>3
  <2> QED
    BY <2>4, <2>5
<1>8. CASE n # 0
  <2> DEFINE it == CHOOSE f : f = [i \in 1 .. Len(seqs) |-> IF i = 1 THEN seqs[i] ELSE f[i - 1] \o seqs[i]]
  <2>1. it = [i \in 1 .. Len(seqs) |-> IF i = 1 THEN seqs[i] ELSE it[i - 1] \o seqs[i]]
    <3>1. \E f : f = [i \in 1 .. Len(seqs) |-> IF i = 1 THEN seqs[i] ELSE f[i - 1] \o seqs[i]]
      BY <1>1, <1>6 DEF Done
    <3> QED
      BY <3>1, Zenon
  <2>2. Len(seqs) # 0
    BY <1>1, <1>8
  <2>3. FlattenSeq(seqs) = it[Len(seqs)]
    BY <2>2, Zenon DEF FlattenSeq
  <2> HIDE DEF it
  <2>4. \A i \in 1 .. n : it[i] = IF i = 1 THEN seqs[i] ELSE it[i - 1] \o seqs[i]
    BY <1>1, <2>1
  <2> DEFINE Q == {k \in Nat : k + 1 <= n => it[k + 1] \in Seq(R)}
  <2>5. 0 \in Q
    BY <1>1, <1>8, <2>4
  <2>6. ASSUME NEW k \in Nat, k \in Q PROVE k + 1 \in Q
    <3> SUFFICES ASSUME k + 1 + 1 <= n PROVE it[k + 1 + 1] \in Seq(R)
      OBVIOUS
    <3>1. it[k + 1] \in Seq(R) /\ k + 1 + 1 \in 1 .. n /\ k + 1 + 1 # 1 /\ k + 1 + 1 - 1 = k + 1
      BY <2>6
    <3> DEFINE m == k + 1 + 1
    <3>2. m \in 1 .. n /\ m # 1 /\ m - 1 = k + 1
      BY <3>1
    <3> HIDE DEF m
    <3>3. it[m] = it[m - 1] \o seqs[m]
      BY <2>4, <3>2
    <3>4. seqs[m] \in Seq(R) /\ it[m - 1] \in Seq(R)
      BY <1>1, <3>1, <3>2
    <3>5. it[m] \in Seq(R)
      BY <3>3, <3>4, ConcatProperties
    <3> QED
      BY <3>5 DEF m
  <2>7. n - 1 \in Q
    <3>1. n - 1 \in Nat
      BY <1>8
    <3> HIDE DEF Q
    <3> QED
      BY <2>5, <2>6, <3>1, NatSetInduction
  <2>8. it[n] \in Seq(R)
    BY <2>7
  <2> QED
    BY <1>1, <2>3, <2>8
<1> QED
  BY <1>7, <1>8

(* Synthetic games have the ids that follow first. *)
MadeUp(rec, e, first) ==
    \E id \in Nat : id >= first /\ rec.game = id /\ rec.rest = Synthetic(e, id)

LEMMA BootstrapsAreMadeUp ==
    ASSUME NEW e, NEW first \in Nat, NEW n \in Nat
    PROVE  LET s == BootstrapGames(e, first, n)
           IN  \E len \in Nat : DOMAIN s = 1 .. len /\ \A k \in 1 .. len : MadeUp(s[k], e, first)
<1> DEFINE R == UNION {{GameOf(id, Synthetic(e, id))[j] : j \in 1 .. 2} : id \in {x \in Nat : x >= first}}
           games == [k \in 1 .. n |-> GameOf(first + k - 1, Synthetic(e, first + k - 1))]
           s == BootstrapGames(e, first, n)
<1>1. \A rec \in R : MadeUp(rec, e, first)
  <2> SUFFICES ASSUME NEW id \in Nat, id >= first, NEW j \in 1 .. 2
               PROVE  MadeUp(GameOf(id, Synthetic(e, id))[j], e, first)
    OBVIOUS
  <2>1. /\ GameOf(id, Synthetic(e, id))[j].game = id
        /\ GameOf(id, Synthetic(e, id))[j].rest = Synthetic(e, id)
    BY DEF GameOf
  <2> QED
    BY <2>1 DEF MadeUp
<1>2. ASSUME NEW id \in Nat, id >= first PROVE GameOf(id, Synthetic(e, id)) \in Seq(R)
  <2> DEFINE g == GameOf(id, Synthetic(e, id))
  <2>1. g = [j \in 1 .. 2 |-> g[j]]
    BY DEF GameOf
  <2>2. \A j \in 1 .. 2 : g[j] \in R
    BY <1>2
  <2> HIDE DEF g, R
  <2>3. g \in [1 .. 2 -> R]
    BY <2>1, <2>2
  <2>4. g \in Seq(R)
    BY <2>3, SeqDef
  <2> QED
    BY <2>4 DEF g
<1> HIDE DEF R
<1>3. games \in Seq(Seq(R)) /\ DOMAIN games = 1 .. n
  <2>1. ASSUME NEW k \in 1 .. n PROVE games[k] \in Seq(R)
    <3>1. first + k - 1 \in Nat /\ first + k - 1 >= first
      OBVIOUS
    <3>2. GameOf(first + k - 1, Synthetic(e, first + k - 1)) \in Seq(R)
      BY <1>2, <3>1
    <3> QED
      BY <3>2
  <2>2. games \in [1 .. n -> Seq(R)]
    BY <2>1
  <2> HIDE DEF games
  <2> QED
    BY <2>2, SeqDef
<1>4. s = FlattenSeq(games)
  BY Zenon DEF BootstrapGames
<1> HIDE DEF games, s
<1>5. s \in Seq(R)
  BY <1>3, <1>4, Flattened
<1>6. Len(s) \in Nat /\ DOMAIN s = 1 .. Len(s) /\ \A k \in 1 .. Len(s) : s[k] \in R
  BY <1>5, SeqFacts
<1> QED
  BY <1>1, <1>6 DEF s

(* ids names every game of recs. *)
Names(ids, recs, n) ==
    /\ ids \in Seq(Nat)
    /\ \A k \in 1 .. n : \E j \in DOMAIN ids : ids[j] = recs[k].game

LEMMA FirstIdsName ==
    ASSUME NEW n \in Nat, NEW recs, DOMAIN recs = 1 .. n, \A k \in 1 .. n : recs[k].game \in Nat
    PROVE  Names(FirstIds(recs), recs, n)
<1> DEFINE A == Seq(Nat)
           S == {recs[k] : k \in 1 .. n}
           D == SUBSET (1 .. n)
           Known(ids, rec) == \E k \in DOMAIN ids : ids[k] = rec.game
           F == [p \in A \X S |-> IF Known(p[1], p[2]) THEN p[1] ELSE Append(p[1], p[2].game)]
           it == CHOOSE it : it = [T \in D |->
                    IF T = {} THEN <<>>
                    ELSE IF Known(it[T \ {Max(T)}], recs[Max(T)]) THEN it[T \ {Max(T)}]
                         ELSE Append(it[T \ {Max(T)}], recs[Max(T)].game)]
<1>1. /\ \A rec \in S : rec.game \in Nat
      /\ \A k \in 1 .. n : recs[k] \in S
      /\ <<>> \in A
  OBVIOUS
<1> HIDE DEF S
<1>2. F \in [A \X S -> A]
  <2>1. ASSUME NEW p \in A \X S PROVE F[p] \in A
    <3>1. p[1] \in Seq(Nat) /\ p[2].game \in Nat
      BY <1>1
    <3>2. Append(p[1], p[2].game) \in Seq(Nat)
      BY <3>1
    <3> QED
      BY <3>1, <3>2
  <2>2. F = [p \in A \X S |-> F[p]]
    OBVIOUS
  <2> HIDE DEF F
  <2> QED
    BY <2>1, <2>2
<1>3. PICK G \in [D -> A] : Folds(G, F, <<>>, recs, n)
  <2> HIDE DEF F, A
  <2> QED
    BY <1>1, <1>2, FoldExists
<1>4. ASSUME NEW T \in D, T # {}
      PROVE  /\ T \ {Max(T)} \in D /\ Max(T) \in 1 .. n
             /\ G[T \ {Max(T)}] \in A
             /\ G[T] = IF Known(G[T \ {Max(T)}], recs[Max(T)]) THEN G[T \ {Max(T)}]
                       ELSE Append(G[T \ {Max(T)}], recs[Max(T)].game)
  <2>1. T \ {Max(T)} \in D /\ Max(T) \in 1 .. n
    BY <1>4, GreatestIsThere
  <2>2. G[T] = F[<<G[T \ {Max(T)}], recs[Max(T)]>>]
    BY <1>3, <1>4 DEF Folds
  <2>3. <<G[T \ {Max(T)}], recs[Max(T)]>> \in A \X S
    BY <1>1, <1>3, <2>1
  <2> HIDE DEF A, D
  <2> QED
    BY <1>3, <2>1, <2>2, <2>3
<1>5. G[{}] = <<>>
  BY <1>3 DEF Folds
<1>6. G = [T \in D |->
             IF T = {} THEN <<>>
             ELSE IF Known(G[T \ {Max(T)}], recs[Max(T)]) THEN G[T \ {Max(T)}]
                  ELSE Append(G[T \ {Max(T)}], recs[Max(T)].game)]
  <2>1. \A T \in D : G[T] = IF T = {} THEN <<>>
             ELSE IF Known(G[T \ {Max(T)}], recs[Max(T)]) THEN G[T \ {Max(T)}]
                  ELSE Append(G[T \ {Max(T)}], recs[Max(T)].game)
    BY <1>4, <1>5
  <2>2. G = [T \in D |-> G[T]]
    BY <1>3
  <2> HIDE DEF D, Known
  <2> QED
    BY <2>1, <2>2
<1>7. it = [T \in D |->
             IF T = {} THEN <<>>
             ELSE IF Known(it[T \ {Max(T)}], recs[Max(T)]) THEN it[T \ {Max(T)}]
                  ELSE Append(it[T \ {Max(T)}], recs[Max(T)].game)]
  BY <1>6, Zenon
<1>8. FirstIds(recs) = it[1 .. n]
  BY Zenon DEF FirstIds, FoldLeft, MapThenFoldSet
<1> HIDE DEF it
<1>9. it[{}] = <<>>
  BY <1>7
<1>10. ASSUME NEW k \in 1 .. n
       PROVE  it[1 .. k] = IF Known(it[1 .. k - 1], recs[k]) THEN it[1 .. k - 1]
                           ELSE Append(it[1 .. k - 1], recs[k].game)
  <2> DEFINE T == 1 .. k
  <2>1. T \in D /\ T # {} /\ Max(T) = k /\ T \ {k} = 1 .. k - 1
    <3>1. k \in Nat \ {0} /\ T \subseteq 1 .. n /\ k \in T
      OBVIOUS
    <3>2. Max(1 .. k) = k /\ (1 .. k) \ {k} = 1 .. k - 1
      BY <3>1, GreatestIs
    <3>3. T = 1 .. k
      OBVIOUS
    <3> HIDE DEF T
    <3> QED
      BY <3>1, <3>2, <3>3
  <2> HIDE DEF T, Known, D
  <2>2. it[T] = IF Known(it[T \ {Max(T)}], recs[Max(T)]) THEN it[T \ {Max(T)}]
                ELSE Append(it[T \ {Max(T)}], recs[Max(T)].game)
    BY <1>7, <2>1
  <2> QED
    BY <2>1, <2>2 DEF T
<1> DEFINE P == {k \in Nat : k <= n => Names(it[1 .. k], recs, k)}
<1>11. 0 \in P
  <2>1. 1 .. 0 = {} /\ <<>> \in Seq(Nat)
    OBVIOUS
  <2>2. Names(it[1 .. 0], recs, 0)
    BY <1>9, <2>1 DEF Names
  <2> QED
    BY <2>2
<1>12. ASSUME NEW k \in Nat, k \in P PROVE k + 1 \in P
  <2> SUFFICES ASSUME k + 1 <= n PROVE Names(it[1 .. k + 1], recs, k + 1)
    OBVIOUS
  <2> DEFINE m == k + 1
             ids == it[1 .. k]
             next == it[1 .. m]
  <2>1. m \in 1 .. n /\ m - 1 = k /\ 1 .. m = (1 .. k) \cup {m} /\ recs[m].game \in Nat
    OBVIOUS
  <2>2. Names(ids, recs, k)
    BY <1>12
  <2> HIDE DEF m
  <2>3. next = IF Known(ids, recs[m]) THEN ids ELSE Append(ids, recs[m].game)
    BY <1>10, <2>1
  <2> HIDE DEF ids, next
  <2>4. ids \in Seq(Nat) /\ DOMAIN ids = 1 .. Len(ids) /\ Len(ids) \in Nat
    BY <2>2 DEF Names
  <2>5. CASE Known(ids, recs[m])
    <3>1. next = ids
      BY <2>3, <2>5
    <3> QED
      BY <2>1, <2>2, <2>5, <3>1 DEF Names, m, next
  <2>6. CASE ~Known(ids, recs[m])
    <3>1. next = Append(ids, recs[m].game)
      BY <2>3, <2>6
    <3>2. /\ next \in Seq(Nat) /\ DOMAIN next = 1 .. Len(ids) + 1 /\ next[Len(ids) + 1] = recs[m].game
          /\ \A j \in 1 .. Len(ids) : next[j] = ids[j]
      BY <2>1, <2>4, <3>1
    <3>3. ASSUME NEW i \in 1 .. k PROVE \E j \in DOMAIN next : next[j] = recs[i].game
      <4>1. PICK j \in DOMAIN ids : ids[j] = recs[i].game
        BY <2>2 DEF Names
      <4>2. j \in 1 .. Len(ids) /\ j \in DOMAIN next
        BY <2>4, <3>2, <4>1
      <4> QED
        BY <3>2, <4>1, <4>2
    <3>4. \E j \in DOMAIN next : next[j] = recs[m].game
      <4>1. Len(ids) + 1 \in DOMAIN next
        BY <2>4, <3>2
      <4> QED
        BY <3>2, <4>1
    <3>5. Names(next, recs, m)
      BY <2>1, <3>2, <3>3, <3>4 DEF Names
    <3> QED
      BY <3>5 DEF m, next
  <2> QED
    BY <2>5, <2>6
<1>13. n \in P
  <2> HIDE DEF P
  <2> QED
    BY <1>11, <1>12, NatSetInduction
<1> QED
  BY <1>8, <1>13

(* The games of an epoch keep apart under their new ids, which are no ids of *)
(* the buffer they join.                                                     *)
LEMMA RenumberedApart ==
    ASSUME NEW n \in Nat, NEW recs, DOMAIN recs = 1 .. n,
           \A k \in 1 .. n : recs[k].game \in Nat /\ "game" \in DOMAIN recs[k] /\ "rest" \in DOMAIN recs[k],
           BaseId \in Nat
    PROVE  LET s == Renumbered(recs)
           IN  /\ DOMAIN s = 1 .. n
               /\ \A k \in 1 .. n : s[k].rest = recs[k].rest /\ s[k].game \in Nat /\ s[k].game >= BaseId
               /\ \A j, k \in 1 .. n : s[j].game = s[k].game <=> recs[j].game = recs[k].game
<1> DEFINE ids == FirstIds(recs)
           Place(game) == CHOOSE j \in DOMAIN ids : ids[j] = game
           s == Renumbered(recs)
<1>1. Names(ids, recs, n)
  BY FirstIdsName
<1>2. s = [k \in 1 .. n |-> [recs[k] EXCEPT !.game = BaseId + Place(recs[k].game) - 1]]
  BY Zenon DEF Renumbered
<1> HIDE DEF ids, s
<1>3. DOMAIN ids = 1 .. Len(ids) /\ Len(ids) \in Nat
  BY <1>1 DEF Names
<1>4. ASSUME NEW k \in 1 .. n
      PROVE  Place(recs[k].game) \in 1 .. Len(ids) /\ ids[Place(recs[k].game)] = recs[k].game
  <2>1. \E j \in DOMAIN ids : ids[j] = recs[k].game
    BY <1>1 DEF Names
  <2> QED
    BY <1>3, <2>1
<1>5. \A j, k \in 1 .. n : recs[j].game = recs[k].game => Place(recs[j].game) = Place(recs[k].game)
  OBVIOUS
<1> HIDE DEF Place
<1>6. \A k \in 1 .. n : s[k].rest = recs[k].rest /\ s[k].game = BaseId + Place(recs[k].game) - 1
  BY <1>2
<1>7. DOMAIN s = 1 .. n
  BY <1>2
<1>8. ASSUME NEW k \in 1 .. n PROVE s[k].game \in Nat /\ s[k].game >= BaseId
  BY <1>3, <1>4, <1>6
<1>9. ASSUME NEW j \in 1 .. n, NEW k \in 1 .. n
      PROVE  s[j].game = s[k].game <=> recs[j].game = recs[k].game
  <2>1. Place(recs[j].game) \in 1 .. Len(ids) /\ Place(recs[k].game) \in 1 .. Len(ids)
    BY <1>4
  <2>2. s[j].game = s[k].game <=> Place(recs[j].game) = Place(recs[k].game)
    BY <1>3, <1>6, <2>1
  <2> QED
    BY <1>4, <1>5, <2>2
<1> QED
  BY <1>6, <1>7, <1>8, <1>9 DEF s

(* ------------------------------------------------------------------------- *)
(* Games keep apart. *)

(* A game of the buffer: a made-up one has the id it was made with, a played *)
(* one is of an epoch before u.                                              *)
IsOrigin(o) ==
    /\ o = Played(o.epoch, o.worker, o.life, o.number)
    /\ o.epoch \in Nat /\ o.worker \in Nat \cup {-1} /\ o.number \in Nat

Listed(x, u) ==
    /\ x[1] \in Nat /\ IsOrigin(x[2])
    /\ x[2].worker = -1 => x[2].number = x[1]
    /\ x[2].worker # -1 => x[2].epoch < u

KeepsApart(b, u) ==
    /\ \A x \in Contents(b) : Listed(x, u) /\ x[1] <= b.newest
    /\ \A x, y \in Contents(b) : x[1] = y[1] <=> SameGame(x[2], y[2])

EpochFields == {"mode", "epoch", "stage", "staging", "count", "life"}

(* The games of the epoch are in the buffer from the stage fill on. *)
PlayedBefore == IF epochs.stage \in {"fill", "train", "done"} THEN epochs.epoch + 1 ELSE epochs.epoch

OfThisEpoch(x) ==
    \E w \in PlayWorkers, n \in 0 .. GamesEach - 1 :
       x = <<RawId(w, n), Played(epochs.epoch, w, x[2].life, n)>>

EpochsKeep ==
    /\ Shaped(ring) /\ KeepsApart(ring, PlayedBefore)
    /\ epochs.epoch = 1 /\ epochs.stage = "start" => ring = EmptyRing
    /\ epochs.count \in [PlayWorkers -> 0 .. GamesEach]
    /\ epochs.stage = "selfplay" =>
          Shaped(epochs.staging) /\ \A x \in Contents(epochs.staging) : OfThisEpoch(x)

EpochsInv ==
    /\ DOMAIN epochs = EpochFields /\ epochs.epoch \in Nat \ {0}
    /\ epochs.mode # "cli" => EpochsKeep

LEMMA SameGameIs ==
    ASSUME NEW a, NEW b, IsOrigin(a), IsOrigin(b)
    PROVE  SameGame(a, b) <=> a.epoch = b.epoch /\ a.worker = b.worker /\ a.number = b.number
<1>1. \A o : IsOrigin(o) =>
         [o EXCEPT !.life = 0] = [epoch |-> o.epoch, worker |-> o.worker, life |-> 0, number |-> o.number]
  <2> SUFFICES ASSUME NEW e, NEW w, NEW l, NEW n
               PROVE  [[epoch |-> e, worker |-> w, life |-> l, number |-> n] EXCEPT !.life = 0]
                        = [epoch |-> e, worker |-> w, life |-> 0, number |-> n]
    BY DEF IsOrigin, Played
  <2> QED
    OBVIOUS
<1>2. \A e, w, n, f, v, m :
         [epoch |-> e, worker |-> w, life |-> 0, number |-> n] = [epoch |-> f, worker |-> v, life |-> 0, number |-> m]
           <=> e = f /\ w = v /\ n = m
  OBVIOUS
<1>3. SameGame(a, b) <=>
         [epoch |-> a.epoch, worker |-> a.worker, life |-> 0, number |-> a.number]
           = [epoch |-> b.epoch, worker |-> b.worker, life |-> 0, number |-> b.number]
  <2>1. [a EXCEPT !.life = 0] = [epoch |-> a.epoch, worker |-> a.worker, life |-> 0, number |-> a.number]
    BY <1>1, Zenon
  <2>2. [b EXCEPT !.life = 0] = [epoch |-> b.epoch, worker |-> b.worker, life |-> 0, number |-> b.number]
    BY <1>1, Zenon
  <2> QED
    BY <2>1, <2>2, Zenon DEF SameGame
<1> QED
  BY <1>2, <1>3

LEMMA PlayedIs ==
    ASSUME NEW e \in Nat, NEW w \in Nat \cup {-1}, NEW l, NEW n \in Nat
    PROVE  LET o == Played(e, w, l, n)
           IN  IsOrigin(o) /\ o.epoch = e /\ o.worker = w /\ o.life = l /\ o.number = n
BY DEF IsOrigin, Played

(* The ids of the games of two workers differ. *)
LEMMA RawIdsDiffer ==
    ASSUME NEW v \in Nat, NEW w \in Nat, NEW m \in 0 .. GamesEach - 1, NEW n \in 0 .. GamesEach - 1,
           RawId(v, m) = RawId(w, n)
    PROVE  v = w /\ m = n
<1>1. Stride \in Nat /\ GamesEach \in Nat /\ m < Stride /\ n < Stride
  BY StrideOK, ReplayBoundsOK
<1>2. v * Stride + m = w * Stride + n
  BY DEF RawId
<1>3. v * Stride \in Nat /\ w * Stride \in Nat
  BY <1>1
<1>4. ASSUME NEW a \in Nat, NEW c \in Nat, a < c PROVE a * Stride + Stride <= c * Stride
  <2>1. (a + 1) * Stride <= c * Stride
    <3>1. PICK d \in Nat : c = a + 1 + d
      <4>1. c - a - 1 \in Nat /\ c = a + 1 + (c - a - 1)
        BY <1>4
      <4> QED
        BY <4>1
    <3>2. c * Stride = (a + 1) * Stride + d * Stride
      BY <1>1, <3>1
    <3>3. d * Stride \in Nat /\ (a + 1) * Stride \in Nat
      BY <1>1
    <3> QED
      BY <3>2, <3>3
  <2>2. (a + 1) * Stride = a * Stride + Stride
    BY <1>1
  <2> QED
    BY <2>1, <2>2
<1>5. ~(v < w)
  <2> SUFFICES ASSUME v < w PROVE FALSE
    OBVIOUS
  <2>1. v * Stride + Stride <= w * Stride
    BY <1>4
  <2> QED
    BY <1>1, <1>2, <1>3, <2>1
<1>6. ~(w < v)
  <2> SUFFICES ASSUME w < v PROVE FALSE
    OBVIOUS
  <2>1. w * Stride + Stride <= v * Stride
    BY <1>4
  <2> QED
    BY <1>1, <1>2, <1>3, <2>1
<1>7. v = w
  BY <1>5, <1>6
<1> QED
  BY <1>1, <1>2, <1>3, <1>7

LEMMA RawIdIsNat ==
    ASSUME NEW w \in PlayWorkers, NEW n \in Nat
    PROVE  w \in Nat /\ RawId(w, n) \in Nat
<1>1. w \in Nat /\ Stride \in Nat
  BY PlayWorkersOK, StrideOK
<1>2. w * Stride \in Nat
  BY <1>1
<1> QED
  BY <1>1, <1>2 DEF RawId

(* New games with ids and origins of their own. *)
LEMMA NewGamesApart ==
    ASSUME NEW b, Shaped(b), NEW u \in Nat, NEW v \in Nat, u <= v, KeepsApart(b, u),
           NEW n \in Nat, NEW recs, DOMAIN recs = 1 .. n,
           \A k \in 1 .. n : Listed(Brought(recs[k]), v),
           \A k \in 1 .. n : \A x \in Contents(b) :
              recs[k].game # x[1] /\ ~SameGame(recs[k].rest, x[2]),
           \A j, k \in 1 .. n : recs[j].game = recs[k].game <=> SameGame(recs[j].rest, recs[k].rest)
    PROVE  Shaped(Extend(b, recs)) /\ KeepsApart(Extend(b, recs), v)
<1> DEFINE c == Extend(b, recs)
           N == {Brought(recs[k]) : k \in 1 .. n}
<1>1. \A k \in 1 .. n : Brought(recs[k])[1] = recs[k].game /\ Brought(recs[k])[2] = recs[k].rest
  BY DEF Brought
<1>2. \A k \in 1 .. n : recs[k].game \in Nat
  BY <1>1 DEF Listed
<1>3. /\ Shaped(c) /\ Contents(c) \subseteq Contents(b) \cup N
      /\ c.newest >= b.newest /\ \A k \in 1 .. n : c.newest >= recs[k].game
  BY <1>2, ExtendAdds
<1>4. b.newest \in Nat /\ c.newest \in Nat
  BY <1>3 DEF Shaped
<1> HIDE DEF c
<1>5. ASSUME NEW x \in Contents(c) PROVE Listed(x, v) /\ x[1] <= c.newest
  <2>1. CASE x \in Contents(b)
    <3>1. Listed(x, u) /\ x[1] <= b.newest
      BY <2>1 DEF KeepsApart
    <3>2. Listed(x, v)
      BY <3>1 DEF Listed, IsOrigin
    <3> QED
      BY <1>3, <1>4, <3>1, <3>2 DEF Listed
  <2>2. CASE x \in N
    <3>1. PICK k \in 1 .. n : x = Brought(recs[k])
      BY <2>2
    <3> QED
      BY <1>1, <1>2, <1>3, <1>4, <3>1
  <2> QED
    BY <1>3, <2>1, <2>2
<1>6. ASSUME NEW x \in Contents(c), NEW y \in Contents(c) PROVE x[1] = y[1] <=> SameGame(x[2], y[2])
  <2>1. CASE x \in Contents(b) /\ y \in Contents(b)
    BY <2>1 DEF KeepsApart
  <2>2. CASE x \in Contents(b) /\ y \in N
    <3>1. PICK k \in 1 .. n : y = Brought(recs[k])
      BY <2>2
    <3> QED
      BY <1>1, <2>2, <3>1 DEF SameGame
  <2>3. CASE x \in N /\ y \in Contents(b)
    <3>1. PICK k \in 1 .. n : x = Brought(recs[k])
      BY <2>3
    <3> QED
      BY <1>1, <2>3, <3>1
  <2>4. CASE x \in N /\ y \in N
    <3>1. PICK j \in 1 .. n : x = Brought(recs[j])
      BY <2>4
    <3>2. PICK k \in 1 .. n : y = Brought(recs[k])
      BY <2>4
    <3> QED
      BY <1>1, <3>1, <3>2
  <2> QED
    BY <1>3, <2>1, <2>2, <2>3, <2>4
<1>7. KeepsApart(c, v)
  BY <1>5, <1>6 DEF KeepsApart
<1> QED
  BY <1>3, <1>7 DEF c

(* Made-up games get ids above those of the buffer. *)
LEMMA BootstrapsApart ==
    ASSUME NEW b, Shaped(b), NEW u \in Nat, KeepsApart(b, u), NEW e \in Nat, NEW first \in Nat,
           \A x \in Contents(b) : x[1] < first, NEW n \in Nat
    PROVE  LET c == Extend(b, BootstrapGames(e, first, n)) IN Shaped(c) /\ KeepsApart(c, u)
<1> DEFINE recs == BootstrapGames(e, first, n)
<1>1. PICK len \in Nat : DOMAIN recs = 1 .. len /\ \A k \in 1 .. len : MadeUp(recs[k], e, first)
  BY BootstrapsAreMadeUp
<1> HIDE DEF recs
<1>2. ASSUME NEW k \in 1 .. len
      PROVE  /\ recs[k].game \in Nat /\ recs[k].game >= first
             /\ IsOrigin(recs[k].rest) /\ recs[k].rest.worker = -1 /\ recs[k].rest.epoch = e
             /\ recs[k].rest.number = recs[k].game
  <2>1. PICK id \in Nat : id >= first /\ recs[k].game = id /\ recs[k].rest = Synthetic(e, id)
    BY <1>1 DEF MadeUp
  <2>2. Synthetic(e, id) = Played(e, -1, 0, id)
    BY DEF Synthetic, Played
  <2> QED
    BY <2>1, <2>2, PlayedIs
<1>3. \A k \in 1 .. len : Listed(Brought(recs[k]), u)
  BY <1>2 DEF Listed, Brought
<1>4. ASSUME NEW k \in 1 .. len, NEW x \in Contents(b)
      PROVE  recs[k].game # x[1] /\ ~SameGame(recs[k].rest, x[2])
  <2>1. x[1] \in Nat /\ x[1] < first /\ IsOrigin(x[2]) /\ (x[2].worker = -1 => x[2].number = x[1])
    BY DEF KeepsApart, Listed
  <2>2. recs[k].game # x[1]
    BY <1>2, <2>1
  <2>3. SameGame(recs[k].rest, x[2]) => recs[k].rest.worker = x[2].worker /\ recs[k].rest.number = x[2].number
    BY <1>2, <2>1, SameGameIs
  <2> QED
    BY <1>2, <2>1, <2>2, <2>3
<1>5. ASSUME NEW j \in 1 .. len, NEW k \in 1 .. len
      PROVE  recs[j].game = recs[k].game <=> SameGame(recs[j].rest, recs[k].rest)
  <2>1. SameGame(recs[j].rest, recs[k].rest) <=>
          /\ recs[j].rest.epoch = recs[k].rest.epoch /\ recs[j].rest.worker = recs[k].rest.worker
          /\ recs[j].rest.number = recs[k].rest.number
    BY <1>2, SameGameIs
  <2> QED
    BY <1>2, <2>1
<1>6. Shaped(Extend(b, recs)) /\ KeepsApart(Extend(b, recs), u)
  BY <1>1, <1>3, <1>4, <1>5, NewGamesApart
<1> QED
  BY <1>6 DEF recs

LEMMA StoredBring ==
    ASSUME NEW b, Shaped(b)
    PROVE  LET s == StoredRecords(b)
           IN  /\ b.size \in Nat /\ DOMAIN s = 1 .. b.size
               /\ \A k \in 1 .. b.size : /\ "game" \in DOMAIN s[k] /\ "rest" \in DOMAIN s[k]
                                         /\ Brought(s[k]) \in Contents(b)
<1> DEFINE s == StoredRecords(b)
<1>1. b.size \in Nat
  BY CapacityOK DEF Shaped
<1>2. DOMAIN s = 1 .. b.size
  BY DEF StoredRecords
<1>3. \A k \in 1 .. b.size : s[k] = Decode(b, (b.tail + k - 1) % Capacity)
  BY <1>1, StoredFacts
<1> HIDE DEF s
<1>4. ASSUME NEW k \in 1 .. b.size
      PROVE  "game" \in DOMAIN s[k] /\ "rest" \in DOMAIN s[k] /\ Brought(s[k]) \in Contents(b)
  <2>1. s[k] = Decode(b, RowAt(b, k))
    BY <1>3 DEF RowAt
  <2>2. /\ "game" \in DOMAIN s[k] /\ "rest" \in DOMAIN s[k]
        /\ s[k].game = b.data[RowAt(b, k)].game /\ s[k].rest = b.data[RowAt(b, k)].rest
    BY <2>1 DEF Decode
  <2>3. Brought(s[k]) = Brought(b.data[RowAt(b, k)])
    BY <2>2 DEF Brought
  <2> QED
    BY <2>2, <2>3 DEF Contents
<1> QED
  BY <1>1, <1>2, <1>4 DEF s

LEMMA EmptyRingIs ==
    /\ Shaped(EmptyRing) /\ Contents(EmptyRing) = {}
    /\ \A u : KeepsApart(EmptyRing, u)
<1>1. Capacity \in Nat \ {0} /\ 0 \in Row /\ 0 % Capacity = 0
  BY CapacityOK DEF Row
<1>2. /\ DOMAIN EmptyRing = RingFields /\ EmptyRing = [f \in RingFields |-> EmptyRing[f]]
      /\ EmptyRing.data = [i \in Row |-> EmptyRing.data[i]]
      /\ EmptyRing.head = 0 /\ EmptyRing.tail = 0 /\ EmptyRing.size = 0 /\ EmptyRing.newest = 0
  BY DEF EmptyRing, RingFields
<1>3. Shaped(EmptyRing)
  BY <1>1, <1>2 DEF Shaped
<1>4. Contents(EmptyRing) = {}
  BY <1>2 DEF Contents
<1> QED
  BY <1>3, <1>4 DEF KeepsApart

LEMMA NextGameIs ==
    ASSUME NEW w
    PROVE  /\ DOMAIN NextGame(w) = 1 .. 2
           /\ \A k \in 1 .. 2 :
                 /\ NextGame(w)[k].game = RawId(w, epochs.count[w])
                 /\ NextGame(w)[k].rest = Played(epochs.epoch, w, epochs.life[w], epochs.count[w])
BY DEF NextGame, GameOf

LEMMA SomeBootstraps ==
    ASSUME NEW x \in Int
    PROVE  Max({1, x}) \in Nat
<1>1. \E m \in {1, x} : \A y \in {1, x} : m >= y
  <2>1. x <= 1 \/ x >= 1
    OBVIOUS
  <2>2. CASE x <= 1
    BY <2>2
  <2>3. CASE x >= 1
    BY <2>3
  <2> QED
    BY <2>1, <2>2, <2>3
<1>2. Max({1, x}) \in {1, x} /\ \A y \in {1, x} : Max({1, x}) >= y
  BY <1>1 DEF Max
<1> QED
  BY <1>2

------------------------------------------------------------------------------
LEMMA EpochInitKeeps == ASSUME NEW modes, EpochInit(modes) PROVE EpochsInv
<1>1. PICK mode \in modes :
         epochs = [mode |-> mode, epoch |-> 1, stage |-> "start", staging |-> EmptyRing,
                   count |-> [w \in PlayWorkers |-> 0], life |-> [w \in PlayWorkers |-> 1]]
  BY DEF EpochInit
<1>2. /\ DOMAIN epochs = EpochFields /\ epochs.epoch = 1 /\ epochs.stage = "start"
      /\ epochs.count = [w \in PlayWorkers |-> 0]
  BY <1>1 DEF EpochFields
<1>3. ring = EmptyRing
  BY DEF EpochInit
<1>4. epochs.count \in [PlayWorkers -> 0 .. GamesEach]
  BY <1>2, ReplayBoundsOK
<1>5. EpochsKeep
  BY <1>2, <1>3, <1>4, EmptyRingIs DEF EpochsKeep
<1> QED
  BY <1>2, <1>5 DEF EpochsInv

LEMMA BeginEpochKeeps ==
    ASSUME EpochsInv, epochs.mode # "cli", BeginEpoch
    PROVE  EpochsInv'
<1>1. /\ DOMAIN epochs' = EpochFields /\ epochs'.mode = epochs.mode /\ epochs'.epoch = epochs.epoch
      /\ epochs'.stage = "selfplay" /\ epochs'.staging = EmptyRing
      /\ epochs'.count = [w \in PlayWorkers |-> 0]
  BY DEF EpochsInv, BeginEpoch, EpochFields
<1>2. EpochsKeep /\ epochs.epoch \in Nat \ {0} /\ epochs.stage = "start"
  BY DEF EpochsInv, BeginEpoch
<1>3. PlayedBefore = epochs.epoch /\ PlayedBefore' = epochs.epoch
  BY <1>1, <1>2 DEF PlayedBefore
<1>4. Shaped(ring') /\ KeepsApart(ring', epochs.epoch)
  <2>1. CASE epochs.epoch = 1 /\ epochs.mode # "tuner"
    <3>1. ring = EmptyRing /\ ring' = Extend(ring, BootstrapGames(1, 0, Bootstraps))
      BY <1>2, <2>1 DEF EpochsKeep, BeginEpoch
    <3>2. Shaped(ring) /\ KeepsApart(ring, epochs.epoch) /\ \A x \in Contents(ring) : x[1] < 0
      BY <3>1, EmptyRingIs
    <3>3. Bootstraps \in Nat
      BY ReplayBoundsOK
    <3> QED
      BY <1>2, <3>1, <3>2, <3>3, BootstrapsApart
  <2>2. CASE ~(epochs.epoch = 1 /\ epochs.mode # "tuner")
    <3>1. ring' = ring
      BY <2>2 DEF BeginEpoch
    <3> QED
      BY <1>2, <1>3, <3>1 DEF EpochsKeep
  <2> QED
    BY <2>1, <2>2
<1>5. epochs'.count \in [PlayWorkers -> 0 .. GamesEach]
  BY <1>1, ReplayBoundsOK
<1>6. Shaped(epochs'.staging) /\ Contents(epochs'.staging) = {}
  BY <1>1, EmptyRingIs
<1>7. EpochsKeep'
  BY <1>1, <1>3, <1>4, <1>5, <1>6 DEF EpochsKeep
<1> QED
  BY <1>1, <1>2, <1>7 DEF EpochsInv

LEMMA StoreGameKeeps ==
    ASSUME EpochsInv, epochs.mode # "cli", NEW w \in PlayWorkers, StoreGame(w)
    PROVE  EpochsInv'
<1> DEFINE b == epochs.staging
           c == Extend(b, NextGame(w))
           o == Played(epochs.epoch, w, epochs.life[w], epochs.count[w])
<1>1. EpochsKeep /\ epochs.epoch \in Nat \ {0} /\ epochs.stage = "selfplay" /\ ring' = ring
  BY DEF EpochsInv, StoreGame
<1>2. epochs.count[w] \in 0 .. GamesEach - 1 /\ epochs.count \in [PlayWorkers -> 0 .. GamesEach]
  BY <1>1, ReplayBoundsOK DEF EpochsKeep, StoreGame
<1>3. /\ DOMAIN epochs' = EpochFields /\ epochs'.mode = epochs.mode /\ epochs'.epoch = epochs.epoch
      /\ epochs'.stage = epochs.stage /\ epochs'.staging = c
      /\ epochs'.count = [epochs.count EXCEPT ![w] = @ + 1]
  BY DEF EpochsInv, StoreGame, EpochFields
<1>4. epochs'.count \in [PlayWorkers -> 0 .. GamesEach]
  <2>1. epochs.count[w] + 1 \in 0 .. GamesEach
    BY <1>2, ReplayBoundsOK
  <2> QED
    BY <1>2, <1>3, <2>1
<1>5. PlayedBefore' = PlayedBefore
  BY <1>3 DEF PlayedBefore
<1>6. Shaped(b) /\ \A x \in Contents(b) : OfThisEpoch(x)
  BY <1>1 DEF EpochsKeep
<1>7. /\ DOMAIN NextGame(w) = 1 .. 2
      /\ \A k \in 1 .. 2 : NextGame(w)[k].game = RawId(w, epochs.count[w]) /\ NextGame(w)[k].rest = o
  BY NextGameIs
<1>8. RawId(w, epochs.count[w]) \in Nat
  BY <1>2, RawIdIsNat
<1>9. /\ Shaped(c)
      /\ Contents(c) \subseteq Contents(b) \cup {Brought(NextGame(w)[k]) : k \in 1 .. 2}
  <2>1. 2 \in Nat /\ \A k \in 1 .. 2 : NextGame(w)[k].game \in Nat
    BY <1>7, <1>8
  <2> DEFINE recs == NextGame(w)
             n == 2
  <2>2. n \in Nat /\ DOMAIN recs = 1 .. n /\ \A k \in 1 .. n : recs[k].game \in Nat
    BY <1>7, <2>1
  <2> HIDE DEF b, recs, n
  <2>3. /\ Shaped(Extend(b, recs))
        /\ Contents(Extend(b, recs)) \subseteq Contents(b) \cup {Brought(recs[k]) : k \in 1 .. n}
    BY <1>6, <2>2, ExtendAdds
  <2> QED
    BY <2>3, Zenon DEF recs, n
<1>10. \A k \in 1 .. 2 : Brought(NextGame(w)[k]) = <<RawId(w, epochs.count[w]), o>>
  BY <1>7 DEF Brought
<1> HIDE DEF c, b
<1>11. OfThisEpoch(<<RawId(w, epochs.count[w]), o>>)
  <2>1. o.life = epochs.life[w]
    BY DEF Played
  <2> QED
    BY <1>2, <2>1 DEF OfThisEpoch
<1> HIDE DEF o
<1>12. \A x \in Contents(c) : OfThisEpoch(x)
  BY <1>6, <1>9, <1>10, <1>11
<1>13. \A x \in Contents(c) : OfThisEpoch(x)'
  BY <1>3, <1>12 DEF OfThisEpoch
<1>14. EpochsKeep'
  <2>1. Shaped(ring') /\ KeepsApart(ring', PlayedBefore')
    BY <1>1, <1>5 DEF EpochsKeep
  <2>2. \A x \in Contents(epochs'.staging) : OfThisEpoch(x)'
    BY <1>3, <1>13
  <2> QED
    BY <1>1, <1>3, <1>4, <1>9, <2>1, <2>2 DEF EpochsKeep
<1> QED
  BY <1>1, <1>3, <1>14 DEF EpochsInv

LEMMA WorkerRestartsKeeps ==
    ASSUME EpochsInv, epochs.mode # "cli", NEW w \in PlayWorkers, WorkerRestarts(w)
    PROVE  EpochsInv'
<1>1. EpochsKeep /\ epochs.epoch \in Nat \ {0} /\ ring' = ring
  BY DEF EpochsInv, WorkerRestarts
<1>2. /\ DOMAIN epochs' = EpochFields /\ epochs'.mode = epochs.mode /\ epochs'.epoch = epochs.epoch
      /\ epochs'.stage = epochs.stage /\ epochs'.staging = epochs.staging
      /\ epochs'.count = [epochs.count EXCEPT ![w] = 0]
  BY DEF EpochsInv, WorkerRestarts, EpochFields
<1>3. epochs'.count \in [PlayWorkers -> 0 .. GamesEach]
  <2>1. 0 \in 0 .. GamesEach /\ epochs.count \in [PlayWorkers -> 0 .. GamesEach]
    BY <1>1, ReplayBoundsOK DEF EpochsKeep
  <2> QED
    BY <1>2, <2>1
<1>4. PlayedBefore' = PlayedBefore /\ \A x : OfThisEpoch(x) => OfThisEpoch(x)'
  BY <1>2 DEF PlayedBefore, OfThisEpoch
<1>5. EpochsKeep'
  BY <1>1, <1>2, <1>3, <1>4 DEF EpochsKeep
<1> QED
  BY <1>1, <1>2, <1>5 DEF EpochsInv

LEMMA MergeGamesKeeps ==
    ASSUME EpochsInv, epochs.mode # "cli", MergeGames
    PROVE  EpochsInv'
<1> DEFINE b == epochs.staging
           e == epochs.epoch
           old == StoredRecords(b)
           recs == Renumbered(old)
           n == b.size
<1>1. EpochsKeep /\ e \in Nat \ {0} /\ epochs.stage = "selfplay" /\ ring' = Extend(ring, recs)
  BY DEF EpochsInv, MergeGames
<1>2. /\ DOMAIN epochs' = EpochFields /\ epochs'.mode = epochs.mode /\ epochs'.epoch = epochs.epoch
      /\ epochs'.stage = "fill" /\ epochs'.count = epochs.count
  BY DEF EpochsInv, MergeGames, EpochFields
<1>3. PlayedBefore = e /\ PlayedBefore' = e + 1
  BY <1>1, <1>2 DEF PlayedBefore
<1>4. /\ Shaped(ring) /\ KeepsApart(ring, e)
      /\ Shaped(b) /\ \A x \in Contents(b) : OfThisEpoch(x)
  BY <1>1, <1>3 DEF EpochsKeep
<1>5. /\ n \in Nat /\ DOMAIN old = 1 .. n
      /\ \A k \in 1 .. n : "game" \in DOMAIN old[k] /\ "rest" \in DOMAIN old[k] /\ Brought(old[k]) \in Contents(b)
  BY <1>4, StoredBring
<1>6. BaseId \in Nat /\ \A x \in Contents(ring) : x[1] < BaseId
  <2>1. ring.newest \in Nat /\ ring.size \in 0 .. Capacity /\ Capacity \in Nat
    BY <1>4, CapacityOK DEF Shaped
  <2>2. CASE ring.size > 0
    <3>1. BaseId = ring.newest + 1
      BY <2>2 DEF BaseId
    <3>2. \A x \in Contents(ring) : x[1] \in Nat /\ x[1] <= ring.newest
      BY <1>4 DEF KeepsApart, Listed
    <3> QED
      BY <2>1, <3>1, <3>2
  <2>3. CASE ~(ring.size > 0)
    <3>1. BaseId = 0 /\ ring.size = 0
      BY <2>1, <2>3 DEF BaseId
    <3>2. Contents(ring) = {}
      BY <3>1 DEF Contents
    <3> QED
      BY <3>1, <3>2
  <2> QED
    BY <2>2, <2>3
<1> DEFINE From(k, w, m) == /\ w \in PlayWorkers /\ m \in 0 .. GamesEach - 1
                            /\ old[k].game = RawId(w, m)
                            /\ old[k].rest = Played(e, w, old[k].rest.life, m)
<1>7. ASSUME NEW k \in 1 .. n PROVE \E w \in PlayWorkers, m \in 0 .. GamesEach - 1 : From(k, w, m)
  <2>1. Brought(old[k]) \in Contents(b)
    BY <1>5
  <2>2. OfThisEpoch(Brought(old[k]))
    BY <1>4, <2>1
  <2>3. Brought(old[k])[1] = old[k].game /\ Brought(old[k])[2] = old[k].rest
    BY DEF Brought
  <2> HIDE DEF old
  <2>4. PICK w \in PlayWorkers, m \in 0 .. GamesEach - 1 :
           Brought(old[k]) = <<RawId(w, m), Played(e, w, Brought(old[k])[2].life, m)>>
    BY <2>2, Zenon DEF OfThisEpoch
  <2>5. old[k].game = RawId(w, m) /\ old[k].rest = Played(e, w, old[k].rest.life, m)
    BY <2>3, <2>4
  <2> QED
    BY <2>5
<1> HIDE DEF recs, old, n, b, e
<1>8. ASSUME NEW k \in 1 .. n, NEW w, NEW m, From(k, w, m)
      PROVE  /\ old[k].game \in Nat /\ w \in Nat /\ m \in 0 .. GamesEach - 1 /\ IsOrigin(old[k].rest)
             /\ old[k].rest.epoch = e /\ old[k].rest.worker = w /\ old[k].rest.number = m
  <2>1. w \in PlayWorkers /\ m \in Nat /\ e \in Nat
    BY <1>1, <1>8, ReplayBoundsOK
  <2>2. w \in Nat /\ old[k].game \in Nat
    BY <1>8, <2>1, RawIdIsNat
  <2> DEFINE l == old[k].rest.life
  <2>3. old[k].rest = Played(e, w, l, m)
    BY <1>8
  <2> HIDE DEF l
  <2> QED
    BY <1>8, <2>1, <2>2, <2>3, PlayedIs
<1>9. \A k \in 1 .. n : old[k].game \in Nat /\ IsOrigin(old[k].rest) /\ old[k].rest.epoch = e /\ old[k].rest.worker \in Nat
  <2> SUFFICES ASSUME NEW k \in 1 .. n
               PROVE  old[k].game \in Nat /\ IsOrigin(old[k].rest) /\ old[k].rest.epoch = e /\ old[k].rest.worker \in Nat
    OBVIOUS
  <2>1. PICK w \in PlayWorkers, m \in 0 .. GamesEach - 1 : From(k, w, m)
    BY <1>7
  <2> HIDE DEF From
  <2> QED
    BY <1>8, <2>1
<1>10. ASSUME NEW j \in 1 .. n, NEW k \in 1 .. n
       PROVE  old[j].game = old[k].game <=> SameGame(old[j].rest, old[k].rest)
  <2>1. PICK v \in PlayWorkers, i \in 0 .. GamesEach - 1 : From(j, v, i)
    BY <1>7
  <2>2. PICK w \in PlayWorkers, m \in 0 .. GamesEach - 1 : From(k, w, m)
    BY <1>7
  <2>3. old[j].game = RawId(v, i) /\ old[k].game = RawId(w, m)
    BY <2>1, <2>2
  <2> HIDE DEF From
  <2>4. /\ v \in Nat /\ w \in Nat /\ IsOrigin(old[j].rest) /\ IsOrigin(old[k].rest)
        /\ old[j].rest.epoch = e /\ old[j].rest.worker = v /\ old[j].rest.number = i
        /\ old[k].rest.epoch = e /\ old[k].rest.worker = w /\ old[k].rest.number = m
    BY <1>8, <2>1, <2>2
  <2>5. SameGame(old[j].rest, old[k].rest) <=> v = w /\ i = m
    BY <2>4, SameGameIs
  <2>6. RawId(v, i) = RawId(w, m) => v = w /\ i = m
    BY <2>4, RawIdsDiffer
  <2> QED
    BY <2>3, <2>5, <2>6
<1>11. /\ DOMAIN recs = 1 .. n
       /\ \A k \in 1 .. n : recs[k].rest = old[k].rest /\ recs[k].game \in Nat /\ recs[k].game >= BaseId
       /\ \A j, k \in 1 .. n : recs[j].game = recs[k].game <=> old[j].game = old[k].game
  BY <1>5, <1>6, <1>9, RenumberedApart DEF recs
<1>12. ASSUME NEW k \in 1 .. n PROVE Listed(Brought(recs[k]), e + 1)
  <2>1. Brought(recs[k])[1] = recs[k].game /\ Brought(recs[k])[2] = recs[k].rest
    BY DEF Brought
  <2>2. /\ recs[k].game \in Nat /\ IsOrigin(recs[k].rest)
        /\ recs[k].rest.epoch = e /\ recs[k].rest.worker \in Nat
    BY <1>9, <1>11
  <2>3. recs[k].rest.worker # -1 /\ e < e + 1
    BY <1>1, <2>2
  <2> QED
    BY <2>1, <2>2, <2>3 DEF Listed
<1>13. ASSUME NEW k \in 1 .. n, NEW x \in Contents(ring)
       PROVE  recs[k].game # x[1] /\ ~SameGame(recs[k].rest, x[2])
  <2>1. /\ recs[k].game \in Nat /\ recs[k].game >= BaseId /\ IsOrigin(recs[k].rest)
        /\ recs[k].rest.epoch = e /\ recs[k].rest.worker \in Nat
    BY <1>9, <1>11
  <2>2. x[1] \in Nat /\ x[1] < BaseId /\ IsOrigin(x[2]) /\ (x[2].worker # -1 => x[2].epoch < e)
    BY <1>4, <1>6 DEF KeepsApart, Listed
  <2>3. SameGame(recs[k].rest, x[2]) => recs[k].rest.epoch = x[2].epoch /\ recs[k].rest.worker = x[2].worker
    BY <2>1, <2>2, SameGameIs
  <2>4. recs[k].game # x[1]
    BY <1>6, <2>1, <2>2
  <2>5. ~SameGame(recs[k].rest, x[2])
    BY <1>1, <2>1, <2>2, <2>3
  <2> QED
    BY <2>4, <2>5
<1>14. \A j, k \in 1 .. n : recs[j].game = recs[k].game <=> SameGame(recs[j].rest, recs[k].rest)
  BY <1>10, <1>11
<1>15. Shaped(ring') /\ KeepsApart(ring', e + 1)
  <2>1. e \in Nat /\ e + 1 \in Nat /\ e <= e + 1
    BY <1>1
  <2> DEFINE v == e + 1
  <2>2. v \in Nat /\ e <= v /\ \A k \in 1 .. n : Listed(Brought(recs[k]), v)
    BY <1>12, <2>1
  <2> HIDE DEF v
  <2>3. Shaped(Extend(ring, recs)) /\ KeepsApart(Extend(ring, recs), v)
    BY <1>4, <1>5, <1>11, <1>13, <1>14, <2>1, <2>2, NewGamesApart
  <2> QED
    BY <1>1, <2>3 DEF v
<1>16. EpochsKeep'
  BY <1>1, <1>2, <1>3, <1>15 DEF EpochsKeep
<1> QED
  BY <1>1, <1>2, <1>16 DEF EpochsInv, e

LEMMA LateGameKeeps ==
    ASSUME EpochsInv, epochs.mode # "cli", NEW w \in PlayWorkers, LateGame(w)
    PROVE  EpochsInv'
<1>1. /\ EpochsKeep /\ epochs.epoch \in Nat \ {0} /\ epochs.stage \in {"fill", "train"} /\ ring' = ring
      /\ epochs.count[w] < GamesEach
  BY DEF EpochsInv, LateGame
<1>2. /\ DOMAIN epochs' = EpochFields /\ epochs'.mode = epochs.mode /\ epochs'.epoch = epochs.epoch
      /\ epochs'.stage = epochs.stage /\ epochs'.count = [epochs.count EXCEPT ![w] = @ + 1]
  BY DEF EpochsInv, LateGame, EpochFields
<1>3. epochs'.count \in [PlayWorkers -> 0 .. GamesEach]
  <2>1. epochs.count \in [PlayWorkers -> 0 .. GamesEach]
    BY <1>1 DEF EpochsKeep
  <2>2. epochs.count[w] + 1 \in 0 .. GamesEach
    BY <1>1, <2>1, ReplayBoundsOK
  <2> QED
    BY <1>2, <2>1, <2>2
<1>4. PlayedBefore' = PlayedBefore
  BY <1>2 DEF PlayedBefore
<1>5. EpochsKeep'
  BY <1>1, <1>2, <1>3, <1>4 DEF EpochsKeep
<1> QED
  BY <1>1, <1>2, <1>5 DEF EpochsInv

LEMMA FillUpKeeps ==
    ASSUME EpochsInv, epochs.mode # "cli", FillUp
    PROVE  EpochsInv'
<1> DEFINE needed == TrainBatch - ring.size
           n == Max({1, (needed + PliesMin - 1) \div PliesMin})
<1>1. EpochsKeep /\ epochs.epoch \in Nat \ {0} /\ epochs.stage = "fill"
  BY DEF EpochsInv, FillUp
<1>2. /\ DOMAIN epochs' = EpochFields /\ epochs'.mode = epochs.mode /\ epochs'.epoch = epochs.epoch
      /\ epochs'.stage = "train" /\ epochs'.count = epochs.count
  BY DEF EpochsInv, FillUp, EpochFields
<1>3. PlayedBefore = epochs.epoch + 1 /\ PlayedBefore' = epochs.epoch + 1
  BY <1>1, <1>2 DEF PlayedBefore
<1>4. Shaped(ring) /\ KeepsApart(ring, epochs.epoch + 1)
  BY <1>1, <1>3 DEF EpochsKeep
<1>5. ring.newest \in Nat /\ ring.size \in Nat
  BY <1>4, CapacityOK DEF Shaped
<1>6. n \in Nat
  <2>1. (needed + PliesMin - 1) \div PliesMin \in Int
    BY <1>5, ReplayBoundsOK
  <2> QED
    BY <2>1, SomeBootstraps
<1>7. ring' = IF needed > 0
              THEN Extend(ring, BootstrapGames(epochs.epoch, ring.newest + 1, n)) ELSE ring
  BY DEF FillUp
<1> HIDE DEF n
<1>8. Shaped(ring') /\ KeepsApart(ring', epochs.epoch + 1)
  <2>1. CASE needed > 0
    <3> DEFINE u == epochs.epoch + 1
               first == ring.newest + 1
               e == epochs.epoch
    <3>1. \A x \in Contents(ring) : x[1] \in Nat /\ x[1] <= ring.newest
      BY <1>4 DEF KeepsApart, Listed
    <3>2. u \in Nat /\ first \in Nat /\ e \in Nat /\ \A x \in Contents(ring) : x[1] < first
      BY <1>1, <1>5, <3>1
    <3>3. KeepsApart(ring, u) /\ ring' = Extend(ring, BootstrapGames(e, first, n))
      BY <1>4, <1>7, <2>1
    <3> HIDE DEF u, first, e
    <3>4. Shaped(ring') /\ KeepsApart(ring', u)
      BY <1>4, <1>6, <3>2, <3>3, BootstrapsApart
    <3> QED
      BY <3>4 DEF u
  <2>2. CASE ~(needed > 0)
    <3>1. ring' = ring
      BY <1>7, <2>2
    <3> QED
      BY <1>4, <3>1
  <2> QED
    BY <2>1, <2>2
<1>9. EpochsKeep'
  BY <1>1, <1>2, <1>3, <1>8 DEF EpochsKeep
<1> QED
  BY <1>1, <1>2, <1>9 DEF EpochsInv

LEMMA TrainEpochKeeps ==
    ASSUME EpochsInv, epochs.mode # "cli", TrainEpoch
    PROVE  EpochsInv'
<1>1. EpochsKeep /\ epochs.epoch \in Nat \ {0} /\ epochs.stage = "train" /\ ring' = ring
  BY DEF EpochsInv, TrainEpoch
<1>2. /\ DOMAIN epochs' = EpochFields /\ epochs'.mode = epochs.mode /\ epochs'.count = epochs.count
      /\ \/ epochs'.stage = "done" /\ epochs'.epoch = epochs.epoch
         \/ epochs'.stage = "start" /\ epochs'.epoch = epochs.epoch + 1
  BY DEF EpochsInv, TrainEpoch, EpochFields
<1>3. PlayedBefore = epochs.epoch + 1 /\ PlayedBefore' = epochs.epoch + 1
  BY <1>1, <1>2 DEF PlayedBefore
<1>4. epochs'.epoch \in Nat \ {0} /\ ~(epochs'.epoch = 1 /\ epochs'.stage = "start")
  BY <1>1, <1>2
<1>5. EpochsKeep'
  BY <1>1, <1>2, <1>3, <1>4 DEF EpochsKeep
<1> QED
  BY <1>2, <1>4, <1>5 DEF EpochsInv

LEMMA CommandLineKeeps ==
    ASSUME EpochsInv, epochs.mode = "cli", EpochNext
    PROVE  EpochsInv'
<1>1. DOMAIN epochs = EpochFields /\ epochs.epoch \in Nat \ {0}
  BY DEF EpochsInv
<1>2. ASSUME DOMAIN epochs' = EpochFields, epochs'.mode = epochs.mode, epochs'.epoch = epochs.epoch
      PROVE  EpochsInv'
  BY <1>1, <1>2 DEF EpochsInv
<1>3. CASE BeginEpoch
  BY <1>1, <1>2, <1>3 DEF BeginEpoch, EpochFields
<1>4. CASE AdoptBuffer
  BY <1>1, <1>2, <1>4 DEF AdoptBuffer, EpochFields
<1>5. CASE MergeGames
  BY <1>5 DEF MergeGames
<1>6. CASE FillUp
  BY <1>1, <1>2, <1>6 DEF FillUp, EpochFields
<1>7. CASE TrainEpoch
  BY <1>1, <1>2, <1>7 DEF TrainEpoch, EpochFields
<1>8. ASSUME NEW w \in PlayWorkers, StoreGame(w) PROVE EpochsInv'
  BY <1>1, <1>2, <1>8 DEF StoreGame, EpochFields
<1>9. ASSUME NEW w \in PlayWorkers, WorkerRestarts(w) PROVE EpochsInv'
  BY <1>1, <1>2, <1>9 DEF WorkerRestarts, EpochFields
<1>10. ASSUME NEW w \in PlayWorkers, LateGame(w) PROVE EpochsInv'
  BY <1>1, <1>2, <1>10 DEF LateGame, EpochFields
<1> QED
  BY <1>3, <1>4, <1>5, <1>6, <1>7, <1>8, <1>9, <1>10 DEF EpochNext

LEMMA EpochStepKeeps == EpochsInv /\ [EpochNext]_<<ring, epochs>> => EpochsInv'
<1> SUFFICES ASSUME EpochsInv, [EpochNext]_<<ring, epochs>> PROVE EpochsInv'
  OBVIOUS
<1>1. CASE UNCHANGED <<ring, epochs>>
  BY <1>1 DEF EpochsInv, EpochsKeep, PlayedBefore, OfThisEpoch
<1>2. CASE EpochNext /\ epochs.mode = "cli"
  BY <1>2, CommandLineKeeps
<1>3. CASE EpochNext /\ epochs.mode # "cli"
  <2>1. CASE BeginEpoch
    BY <1>3, <2>1, BeginEpochKeeps
  <2>2. CASE AdoptBuffer
    BY <1>3, <2>2 DEF AdoptBuffer
  <2>3. CASE MergeGames
    BY <1>3, <2>3, MergeGamesKeeps
  <2>4. CASE FillUp
    BY <1>3, <2>4, FillUpKeeps
  <2>5. CASE TrainEpoch
    BY <1>3, <2>5, TrainEpochKeeps
  <2>6. ASSUME NEW w \in PlayWorkers, StoreGame(w) PROVE EpochsInv'
    BY <1>3, <2>6, StoreGameKeeps
  <2>7. ASSUME NEW w \in PlayWorkers, WorkerRestarts(w) PROVE EpochsInv'
    BY <1>3, <2>7, WorkerRestartsKeeps
  <2>8. ASSUME NEW w \in PlayWorkers, LateGame(w) PROVE EpochsInv'
    BY <1>3, <2>8, LateGameKeeps
  <2> QED
    BY <1>3, <2>1, <2>2, <2>3, <2>4, <2>5, <2>6, <2>7, <2>8 DEF EpochNext
<1> QED
  BY <1>1, <1>2, <1>3

LEMMA KeptApart == EpochsInv => GamesStayDistinct
<1> SUFFICES ASSUME EpochsInv, epochs.mode # "cli"
             PROVE  LET recs == StoredRecords(ring)
                    IN  \A i, j \in DOMAIN recs :
                           recs[i].game = recs[j].game <=> SameGame(recs[i].rest, recs[j].rest)
  BY DEF GamesStayDistinct
<1> DEFINE recs == StoredRecords(ring)
<1>1. Shaped(ring) /\ KeepsApart(ring, PlayedBefore)
  BY DEF EpochsInv, EpochsKeep
<1>2. DOMAIN recs = 1 .. ring.size /\ \A k \in 1 .. ring.size : Brought(recs[k]) \in Contents(ring)
  BY <1>1, StoredBring
<1> HIDE DEF recs
<1>3. ASSUME NEW i \in DOMAIN recs, NEW j \in DOMAIN recs
      PROVE  recs[i].game = recs[j].game <=> SameGame(recs[i].rest, recs[j].rest)
  <2>1. Brought(recs[i]) \in Contents(ring) /\ Brought(recs[j]) \in Contents(ring)
    BY <1>2
  <2>2. /\ Brought(recs[i])[1] = recs[i].game /\ Brought(recs[i])[2] = recs[i].rest
        /\ Brought(recs[j])[1] = recs[j].game /\ Brought(recs[j])[2] = recs[j].rest
    BY DEF Brought
  <2>3. Brought(recs[i])[1] = Brought(recs[j])[1] <=> SameGame(Brought(recs[i])[2], Brought(recs[j])[2])
    BY <1>1, <2>1 DEF KeepsApart
  <2> QED
    BY <2>2, <2>3
<1> QED
  BY <1>3 DEF recs

(* In a replay buffer that outlives the epochs, two positions have the same  *)
(* game id exactly if their games are one to the program, however the driver *)
(* calls run_epoch.                                                          *)
THEOREM GamesStayDistinctHolds ==
    ASSUME NEW modes
    PROVE  EpochSpec(modes) => []GamesStayDistinct
<1>1. EpochInit(modes) => EpochsInv
  BY EpochInitKeeps
<1> QED
  BY <1>1, EpochStepKeeps, KeptApart, PTL DEF EpochSpec

(* ------------------------------------------------------------------------- *)
(* The rows that the sampler makes of the records.                           *)

(* The lists between the elements, for Those and for Unique.                 *)
ThoseSteps(g, s, S, n) ==
    /\ g[0] = <<>> /\ g[n] = Those(s, S)
    /\ \A k \in 1 .. n : g[k] = IF s[k] \in S THEN Append(g[k - 1], s[k]) ELSE g[k - 1]

(* Those and Unique are folds: each takes its list one element at a time. *)
LEMMA ThoseFolds ==
    ASSUME NEW S, NEW A, NEW X, NEW n \in Nat, NEW s, DOMAIN s = 1 .. n, \A k \in 1 .. n : s[k] \in X,
           <<>> \in A, \A a \in A, x \in X : Append(a, x) \in A
    PROVE  \E g \in [0 .. n -> A] : ThoseSteps(g, s, S, n)
<1> DEFINE D == SUBSET (1 .. n)
           Step(a, x) == (IF x \in S THEN Append(a, x) ELSE a)
           F == [p \in A \X X |-> Step(p[1], p[2])]
           it == CHOOSE it : it = [T \in D |-> IF T = {} THEN <<>> ELSE IF s[Max(T)] \in S THEN Append(it[T \ {Max(T)}], s[Max(T)]) ELSE it[T \ {Max(T)}]]
<1>1. \A a \in A, x \in X : Step(a, x) \in A
  OBVIOUS
<1>2. it = CHOOSE h : h = [T \in D |-> IF T = {} THEN <<>> ELSE Step(h[T \ {Max(T)}], s[Max(T)])]
  OBVIOUS
<1>3. Those(s, S) = it[1 .. n]
  BY Zenon DEF Those, FoldLeft, MapThenFoldSet
<1> HIDE DEF it, Step
<1>4. F \in [A \X X -> A] /\ \A a \in A, x \in X : F[<<a, x>>] = Step(a, x)
  <2>1. \A p \in A \X X : Step(p[1], p[2]) \in A
    BY <1>1
  <2> QED
    BY <2>1
<1> HIDE DEF F
<1>5. PICK G \in [D -> A] : Folds(G, F, <<>>, s, n)
  BY <1>4, FoldExists
<1>6. ASSUME NEW T \in D
      PROVE  G[T] = IF T = {} THEN <<>> ELSE Step(G[T \ {Max(T)}], s[Max(T)])
  <2>1. CASE T = {}
    BY <1>5, <2>1 DEF Folds
  <2>2. CASE T # {}
    <3>1. Max(T) \in 1 .. n /\ T \ {Max(T)} \in D
      BY <2>2, GreatestIsThere
    <3>2. G[T \ {Max(T)}] \in A /\ s[Max(T)] \in X
      BY <3>1
    <3>3. G[T] = F[<<G[T \ {Max(T)}], s[Max(T)]>>]
      BY <1>5, <2>2 DEF Folds
    <3> QED
      BY <1>4, <2>2, <3>2, <3>3
  <2> QED
    BY <2>1, <2>2
<1>7. G = [T \in D |-> IF T = {} THEN <<>> ELSE Step(G[T \ {Max(T)}], s[Max(T)])]
  <2>1. G = [T \in D |-> G[T]]
    OBVIOUS
  <2> HIDE DEF D
  <2> QED
    BY <1>6, <2>1
<1>8. it = [T \in D |-> IF T = {} THEN <<>> ELSE Step(it[T \ {Max(T)}], s[Max(T)])]
  BY <1>2, <1>7, Zenon
<1> DEFINE g == [k \in 0 .. n |-> it[1 .. k]]
           P == {k \in Nat : k <= n => it[1 .. k] \in A}
<1>9. it[1 .. 0] = <<>>
  <2>1. 1 .. 0 = {} /\ {} \in D
    OBVIOUS
  <2> HIDE DEF D
  <2> QED
    BY <1>8, <2>1
<1>10. ASSUME NEW k \in 1 .. n PROVE it[1 .. k] = Step(it[1 .. k - 1], s[k])
  <2>1. k \in Nat \ {0} /\ 1 .. k \in D /\ 1 .. k # {}
    <3>1. k \in Nat \ {0} /\ k \in 1 .. k /\ 1 .. k \subseteq 1 .. n
      BY SMT
    <3> QED
      BY <3>1
  <2>2. Max(1 .. k) = k /\ (1 .. k) \ {k} = 1 .. k - 1
    BY <2>1, GreatestIs
  <2> HIDE DEF D
  <2>3. it[1 .. k] = Step(it[(1 .. k) \ {Max(1 .. k)}], s[Max(1 .. k)])
    BY <1>8, <2>1
  <2> QED
    BY <2>2, <2>3
<1>11. 0 \in P
  BY <1>9
<1>12. ASSUME NEW k \in Nat, k \in P PROVE k + 1 \in P
  <2> SUFFICES ASSUME k + 1 <= n PROVE it[1 .. k + 1] \in A
    OBVIOUS
  <2> DEFINE m == k + 1
  <2>1. m \in 1 .. n /\ m - 1 = k /\ s[m] \in X /\ it[1 .. k] \in A
    BY <1>12
  <2> HIDE DEF m
  <2>2. it[1 .. m] = Step(it[1 .. k], s[m])
    BY <1>10, <2>1
  <2> QED
    BY <1>1, <2>1, <2>2 DEF m
<1>13. \A k \in 0 .. n : it[1 .. k] \in A
  <2>1. \A k \in Nat : k \in P
    <3> HIDE DEF P
    <3> QED
      BY <1>11, <1>12, NatSetInduction
  <2> QED
    BY <2>1
<1>14. g \in [0 .. n -> A] /\ g[0] = <<>> /\ g[n] = Those(s, S)
  BY <1>3, <1>9, <1>13
<1>15. ASSUME NEW k \in 1 .. n PROVE g[k] = IF s[k] \in S THEN Append(g[k - 1], s[k]) ELSE g[k - 1]
  <2>1. g[k] = it[1 .. k] /\ g[k - 1] = it[1 .. k - 1]
    <3>1. k \in 0 .. n /\ k - 1 \in 0 .. n
      OBVIOUS
    <3> QED
      BY <3>1
  <2> HIDE DEF g
  <2>2. g[k] = Step(g[k - 1], s[k])
    BY <1>10, <2>1
  <2> QED
    BY <2>2 DEF Step
<1> HIDE DEF g
<1> QED
  BY <1>14, <1>15 DEF ThoseSteps

(* So for Unique.                                                            *)
UniqueSteps(g, s, n) ==
    /\ g[0] = <<>> /\ g[n] = Unique(s)
    /\ \A k \in 1 .. n : g[k] = IF Contains(g[k - 1], s[k]) THEN g[k - 1] ELSE Append(g[k - 1], s[k])

(* The same for a list without repetitions. *)
LEMMA UniqueFolds ==
    ASSUME NEW A, NEW X, NEW n \in Nat, NEW s, DOMAIN s = 1 .. n, \A k \in 1 .. n : s[k] \in X,
           <<>> \in A, \A a \in A, x \in X : Append(a, x) \in A
    PROVE  \E g \in [0 .. n -> A] : UniqueSteps(g, s, n)
<1> DEFINE D == SUBSET (1 .. n)
           Step(a, x) == (IF Contains(a, x) THEN a ELSE Append(a, x))
           F == [p \in A \X X |-> Step(p[1], p[2])]
           it == CHOOSE it : it = [T \in D |-> IF T = {} THEN <<>> ELSE IF Contains(it[T \ {Max(T)}], s[Max(T)]) THEN it[T \ {Max(T)}] ELSE Append(it[T \ {Max(T)}], s[Max(T)])]
<1>1. \A a \in A, x \in X : Step(a, x) \in A
  OBVIOUS
<1>2. it = CHOOSE h : h = [T \in D |-> IF T = {} THEN <<>> ELSE Step(h[T \ {Max(T)}], s[Max(T)])]
  OBVIOUS
<1>3. Unique(s) = it[1 .. n]
  BY Zenon DEF Unique, FoldLeft, MapThenFoldSet
<1> HIDE DEF it, Step
<1>4. F \in [A \X X -> A] /\ \A a \in A, x \in X : F[<<a, x>>] = Step(a, x)
  <2>1. \A p \in A \X X : Step(p[1], p[2]) \in A
    BY <1>1
  <2> QED
    BY <2>1
<1> HIDE DEF F
<1>5. PICK G \in [D -> A] : Folds(G, F, <<>>, s, n)
  BY <1>4, FoldExists
<1>6. ASSUME NEW T \in D
      PROVE  G[T] = IF T = {} THEN <<>> ELSE Step(G[T \ {Max(T)}], s[Max(T)])
  <2>1. CASE T = {}
    BY <1>5, <2>1 DEF Folds
  <2>2. CASE T # {}
    <3>1. Max(T) \in 1 .. n /\ T \ {Max(T)} \in D
      BY <2>2, GreatestIsThere
    <3>2. G[T \ {Max(T)}] \in A /\ s[Max(T)] \in X
      BY <3>1
    <3>3. G[T] = F[<<G[T \ {Max(T)}], s[Max(T)]>>]
      BY <1>5, <2>2 DEF Folds
    <3> QED
      BY <1>4, <2>2, <3>2, <3>3
  <2> QED
    BY <2>1, <2>2
<1>7. G = [T \in D |-> IF T = {} THEN <<>> ELSE Step(G[T \ {Max(T)}], s[Max(T)])]
  <2>1. G = [T \in D |-> G[T]]
    OBVIOUS
  <2> HIDE DEF D
  <2> QED
    BY <1>6, <2>1
<1>8. it = [T \in D |-> IF T = {} THEN <<>> ELSE Step(it[T \ {Max(T)}], s[Max(T)])]
  BY <1>2, <1>7, Zenon
<1> DEFINE g == [k \in 0 .. n |-> it[1 .. k]]
           P == {k \in Nat : k <= n => it[1 .. k] \in A}
<1>9. it[1 .. 0] = <<>>
  <2>1. 1 .. 0 = {} /\ {} \in D
    OBVIOUS
  <2> HIDE DEF D
  <2> QED
    BY <1>8, <2>1
<1>10. ASSUME NEW k \in 1 .. n PROVE it[1 .. k] = Step(it[1 .. k - 1], s[k])
  <2>1. k \in Nat \ {0} /\ 1 .. k \in D /\ 1 .. k # {}
    <3>1. k \in Nat \ {0} /\ k \in 1 .. k /\ 1 .. k \subseteq 1 .. n
      BY SMT
    <3> QED
      BY <3>1
  <2>2. Max(1 .. k) = k /\ (1 .. k) \ {k} = 1 .. k - 1
    BY <2>1, GreatestIs
  <2> HIDE DEF D
  <2>3. it[1 .. k] = Step(it[(1 .. k) \ {Max(1 .. k)}], s[Max(1 .. k)])
    BY <1>8, <2>1
  <2> QED
    BY <2>2, <2>3
<1>11. 0 \in P
  BY <1>9
<1>12. ASSUME NEW k \in Nat, k \in P PROVE k + 1 \in P
  <2> SUFFICES ASSUME k + 1 <= n PROVE it[1 .. k + 1] \in A
    OBVIOUS
  <2> DEFINE m == k + 1
  <2>1. m \in 1 .. n /\ m - 1 = k /\ s[m] \in X /\ it[1 .. k] \in A
    BY <1>12
  <2> HIDE DEF m
  <2>2. it[1 .. m] = Step(it[1 .. k], s[m])
    BY <1>10, <2>1
  <2> QED
    BY <1>1, <2>1, <2>2 DEF m
<1>13. \A k \in 0 .. n : it[1 .. k] \in A
  <2>1. \A k \in Nat : k \in P
    <3> HIDE DEF P
    <3> QED
      BY <1>11, <1>12, NatSetInduction
  <2> QED
    BY <2>1
<1>14. g \in [0 .. n -> A] /\ g[0] = <<>> /\ g[n] = Unique(s)
  BY <1>3, <1>9, <1>13
<1>15. ASSUME NEW k \in 1 .. n PROVE g[k] = IF Contains(g[k - 1], s[k]) THEN g[k - 1] ELSE Append(g[k - 1], s[k])
  <2>1. g[k] = it[1 .. k] /\ g[k - 1] = it[1 .. k - 1]
    <3>1. k \in 0 .. n /\ k - 1 \in 0 .. n
      OBVIOUS
    <3> QED
      BY <3>1
  <2> HIDE DEF g
  <2>2. g[k] = Step(g[k - 1], s[k])
    BY <1>10, <2>1
  <2> QED
    BY <2>2 DEF Step
<1> HIDE DEF g
<1> QED
  BY <1>14, <1>15 DEF UniqueSteps

(* What the first k elements of a list leave.                                *)
LeavesThose(out, s, S, X, k) ==
    /\ out \in Seq(X)
    /\ \A x : Holds(out, x) <=> x \in S /\ \E j \in 1 .. k : s[j] = x
    /\ Distinct(s) => Distinct(out)

Apart(s, m) == \A i, j \in 1 .. m : s[i] = s[j] => i = j
BeginsAs(out, s, m) == m <= Len(out) /\ \A i \in 1 .. m : out[i] = s[i]
LeavesUnique(out, s, X, k) ==
    /\ out \in Seq(X) /\ Distinct(out) /\ Len(out) <= k
    /\ \A x : Holds(out, x) <=> \E j \in 1 .. k : s[j] = x
    /\ \A m \in 0 .. k : Apart(s, m) => BeginsAs(out, s, m)

(* What is left of a list are its elements in the set, in it once if they    *)
(* were in the list once.                                                    *)
LEMMA ThoseAre ==
    ASSUME NEW X, NEW s \in Seq(X), NEW S
    PROVE  /\ Those(s, S) \in Seq(X)
           /\ \A x : Holds(Those(s, S), x) <=> Holds(s, x) /\ x \in S
           /\ Distinct(s) => Distinct(Those(s, S))
<1> DEFINE A == Seq(X)
           n == Len(s)
<1>1. n \in Nat /\ DOMAIN s = 1 .. n /\ \A k \in 1 .. n : s[k] \in X
  BY SeqFacts
<1> HIDE DEF n
<1>2. <<>> \in A /\ \A a \in A, x \in X : Append(a, x) \in A
  BY Appended
<1>3. PICK g \in [0 .. n -> A] : ThoseSteps(g, s, S, n)
  <2> HIDE DEF A
  <2> QED
    BY <1>1, <1>2, ThoseFolds
<1>7. /\ g[0] = <<>> /\ g[n] = Those(s, S)
      /\ \A k \in 1 .. n : g[k] = IF s[k] \in S THEN Append(g[k - 1], s[k]) ELSE g[k - 1]
  BY <1>3 DEF ThoseSteps
<1> DEFINE P == {k \in Nat : k <= n => LeavesThose(g[k], s, S, X, k)}
<1>4. 0 \in P
  <2>1. /\ <<>> \in Seq(X) /\ DOMAIN <<>> = {} /\ 1 .. 0 = {}
    OBVIOUS
  <2>2. Distinct(<<>>) /\ \A x : ~Holds(<<>>, x)
    BY <2>1 DEF Holds, Distinct
  <2>3. LeavesThose(<<>>, s, S, X, 0)
    BY <2>1, <2>2 DEF LeavesThose
  <2> HIDE DEF A
  <2> QED
    BY <1>1, <1>7, <2>3
<1>5. ASSUME NEW k \in Nat, k \in P PROVE k + 1 \in P
  <2> SUFFICES ASSUME k + 1 <= n PROVE LeavesThose(g[k + 1], s, S, X, k + 1)
    OBVIOUS
  <2> DEFINE m == k + 1
             a == g[k]
  <2>1. m \in 1 .. n /\ m - 1 = k /\ 1 .. m = (1 .. k) \cup {m} /\ m \notin 1 .. k /\ 1 .. m \subseteq 1 .. n
    BY <1>1
  <2>2. LeavesThose(a, s, S, X, k) /\ s[m] \in X
    BY <1>1, <1>5, <2>1
  <2> HIDE DEF m, a
  <2>6. /\ a \in Seq(X) /\ (Distinct(s) => Distinct(a))
        /\ \A x : Holds(a, x) <=> x \in S /\ \E j \in 1 .. k : s[j] = x
    BY <2>2 DEF LeavesThose
  <2>7. \A x : (\E j \in 1 .. m : s[j] = x) <=> (\E j \in 1 .. k : s[j] = x) \/ s[m] = x
    BY <2>1
  <2>3. g[m] = IF s[m] \in S THEN Append(a, s[m]) ELSE a
    BY <1>7, <2>1 DEF a
  <2>4. CASE s[m] \in S
    <3>1. g[m] = Append(a, s[m])
      BY <2>3, <2>4
    <3>2. /\ g[m] \in Seq(X) /\ \A y : Holds(g[m], y) <=> Holds(a, y) \/ y = s[m]
          /\ Distinct(a) /\ ~Holds(a, s[m]) => Distinct(g[m])
      BY <2>2, <2>6, <3>1, Appended
    <3>3. \A x : Holds(g[m], x) <=> x \in S /\ \E j \in 1 .. m : s[j] = x
      BY <2>4, <2>6, <2>7, <3>2, Zenon
    <3>4. Distinct(s) => ~Holds(a, s[m])
      <4> SUFFICES ASSUME Distinct(s), Holds(a, s[m]) PROVE FALSE
        OBVIOUS
      <4>1. PICK j \in 1 .. k : s[j] = s[m]
        BY <2>6
      <4> QED
        BY <1>1, <2>1, <4>1 DEF Distinct
    <3>5. LeavesThose(g[m], s, S, X, m)
      BY <2>6, <3>2, <3>3, <3>4 DEF LeavesThose
    <3> QED
      BY <3>5 DEF m
  <2>5. CASE s[m] \notin S
    <3>1. g[m] = a
      BY <2>3, <2>5
    <3>2. \A x : Holds(a, x) <=> x \in S /\ \E j \in 1 .. m : s[j] = x
      BY <2>5, <2>6, <2>7, Zenon
    <3>3. LeavesThose(g[m], s, S, X, m)
      BY <2>6, <3>1, <3>2 DEF LeavesThose
    <3> QED
      BY <3>3 DEF m
  <2> QED
    BY <2>4, <2>5
<1>6. LeavesThose(g[n], s, S, X, n)
  <2>1. n \in P
    <3> HIDE DEF P
    <3> QED
      BY <1>1, <1>4, <1>5, NatSetInduction
  <2> QED
    BY <2>1
<1> QED
  <2>1. \A x : Holds(s, x) <=> \E j \in 1 .. n : s[j] = x
    BY <1>1 DEF Holds
  <2>2. LeavesThose(Those(s, S), s, S, X, n)
    BY <1>7, <1>6
  <2> QED
    BY <2>1, <2>2 DEF LeavesThose

(* A list without repetitions has the same elements; it begins as the list   *)
(* does, as far as that has none.                                            *)
LEMMA UniqueIs ==
    ASSUME NEW X, NEW s \in Seq(X)
    PROVE  /\ Unique(s) \in Seq(X) /\ Distinct(Unique(s))
           /\ \A x : Holds(Unique(s), x) <=> Holds(s, x)
           /\ \A m \in 0 .. Len(s) : Apart(s, m) => BeginsAs(Unique(s), s, m)
<1> DEFINE A == Seq(X)
           n == Len(s)
<1>1. n \in Nat /\ DOMAIN s = 1 .. n /\ \A k \in 1 .. n : s[k] \in X
  BY SeqFacts
<1>2. <<>> \in A /\ \A a \in A, x \in X : Append(a, x) \in A
  BY Appended
<1>3. PICK g \in [0 .. n -> A] : UniqueSteps(g, s, n)
  <2> HIDE DEF A, n
  <2> QED
    BY <1>1, <1>2, UniqueFolds
<1>8. /\ g[0] = <<>> /\ g[n] = Unique(s)
      /\ \A k \in 1 .. n : g[k] = IF Contains(g[k - 1], s[k]) THEN g[k - 1] ELSE Append(g[k - 1], s[k])
  BY <1>3 DEF UniqueSteps
<1> HIDE DEF n
<1> DEFINE P == {k \in Nat : k <= n => LeavesUnique(g[k], s, X, k)}
<1>4. 0 \in P
  <2>1. /\ <<>> \in Seq(X) /\ DOMAIN <<>> = {} /\ 1 .. 0 = {} /\ Len(<<>>) = 0
    OBVIOUS
  <2>2. Distinct(<<>>) /\ \A x : ~Holds(<<>>, x)
    BY <2>1 DEF Holds, Distinct
  <2>3. \A m \in 0 .. 0 : BeginsAs(<<>>, s, m)
    <3> TAKE m \in 0 .. 0
    <3>1. m = 0
      OBVIOUS
    <3> QED
      BY <2>1, <3>1 DEF BeginsAs
  <2>4. LeavesUnique(<<>>, s, X, 0)
    BY <2>1, <2>2, <2>3 DEF LeavesUnique
  <2> HIDE DEF A
  <2> QED
    BY <1>1, <1>8, <2>4
<1>5. ASSUME NEW k \in Nat, k \in P PROVE k + 1 \in P
  <2> SUFFICES ASSUME k + 1 <= n PROVE LeavesUnique(g[k + 1], s, X, k + 1)
    OBVIOUS
  <2> DEFINE m == k + 1
             a == g[k]
  <2>1. m \in 1 .. n /\ m \in Nat /\ k = m - 1 /\ 1 .. m = (1 .. k) \cup {m} /\ m \notin 1 .. k /\ 1 .. m \subseteq 1 .. n
    BY <1>1
  <2>2. LeavesUnique(a, s, X, k) /\ s[m] \in X
    BY <1>1, <1>5, <2>1
  <2> HIDE DEF m, a
  <2>8. /\ a \in Seq(X) /\ Distinct(a) /\ Len(a) <= k
        /\ \A x : Holds(a, x) <=> \E j \in 1 .. k : s[j] = x
        /\ \A l \in 0 .. k : Apart(s, l) => BeginsAs(a, s, l)
    BY <2>2 DEF LeavesUnique
  <2>9. \A x : (\E j \in 1 .. m : s[j] = x) <=> (\E j \in 1 .. k : s[j] = x) \/ s[m] = x
    BY <2>1
  <2>3. g[m] = IF Contains(a, s[m]) THEN a ELSE Append(a, s[m])
    BY <1>8, <2>1 DEF a
  <2>4. a \in Seq(X) /\ Len(a) \in Nat /\ DOMAIN a = 1 .. Len(a) /\ (Contains(a, s[m]) <=> Holds(a, s[m]))
    BY <2>8, SeqFacts DEF Contains, Holds
  <2>5. \A l \in 0 .. m : l \in 0 .. k \/ l = m
    BY <2>1
  <2>6. CASE Contains(a, s[m])
    <3>1. g[m] = a
      BY <2>3, <2>6
    <3>2. \A x : Holds(a, x) <=> \E j \in 1 .. m : s[j] = x
      BY <2>4, <2>6, <2>8, <2>9, Zenon
    <3>3. ~Apart(s, m)
      <4>1. PICK j \in 1 .. k : s[j] = s[m]
        BY <2>4, <2>6, <2>8
      <4> QED
        BY <2>1, <4>1 DEF Apart
    <3>4. Len(a) <= m
      BY <2>1, <2>4, <2>8
    <3>5. LeavesUnique(g[m], s, X, m)
      <4>1. \A l \in 0 .. m : Apart(s, l) => BeginsAs(a, s, l)
        BY <2>5, <2>8, <3>3
      <4> QED
        BY <2>8, <3>1, <3>2, <3>4, <4>1 DEF LeavesUnique
    <3> QED
      BY <3>5 DEF m
  <2>7. CASE ~Contains(a, s[m])
    <3>1. g[m] = Append(a, s[m])
      BY <2>3, <2>7
    <3>2. /\ g[m] \in Seq(X) /\ \A y : Holds(g[m], y) <=> Holds(a, y) \/ y = s[m]
          /\ Distinct(g[m])
      BY <2>2, <2>4, <2>7, <2>8, <3>1, Appended
    <3>3. Len(g[m]) = Len(a) + 1 /\ g[m][Len(a) + 1] = s[m] /\ \A i \in 1 .. Len(a) : g[m][i] = a[i]
      BY <2>2, <2>4, <2>8, <3>1
    <3>4. \A x : Holds(g[m], x) <=> \E j \in 1 .. m : s[j] = x
      BY <2>8, <2>9, <3>2, Zenon
    <3>5. Len(g[m]) <= m
      BY <2>1, <2>4, <2>8, <3>3
    <3>6. ASSUME NEW l \in 0 .. k, Apart(s, l) PROVE BeginsAs(g[m], s, l)
      <4>1. l <= Len(a) /\ \A i \in 1 .. l : a[i] = s[i]
        BY <2>8, <3>6 DEF BeginsAs
      <4> QED
        BY <2>4, <3>3, <4>1 DEF BeginsAs
    <3>7. ASSUME Apart(s, m) PROVE BeginsAs(g[m], s, m)
      <4>1. Apart(s, k)
        BY <2>1, <3>7 DEF Apart
      <4>2. k <= Len(a) /\ \A i \in 1 .. k : a[i] = s[i]
        <5>1. k \in 0 .. k
          BY <2>1
        <5> QED
          BY <2>8, <4>1, <5>1 DEF BeginsAs
      <4>3. Len(a) = k
        BY <2>4, <2>8, <4>2
      <4> QED
        BY <2>1, <3>3, <4>2, <4>3 DEF BeginsAs
    <3>8. LeavesUnique(g[m], s, X, m)
      <4>1. \A l \in 0 .. m : Apart(s, l) => BeginsAs(g[m], s, l)
        BY <2>5, <3>6, <3>7
      <4> QED
        BY <3>2, <3>4, <3>5, <4>1 DEF LeavesUnique
    <3> QED
      BY <3>8 DEF m
  <2> QED
    BY <2>6, <2>7
<1>6. LeavesUnique(g[n], s, X, n)
  <2>1. n \in P
    <3> HIDE DEF P
    <3> QED
      BY <1>1, <1>4, <1>5, NatSetInduction
  <2> QED
    BY <1>1, <2>1
<1>7. \A x : Holds(Unique(s), x) <=> Holds(s, x)
  <2>1. \A x : Holds(s, x) <=> \E j \in 1 .. n : s[j] = x
    BY <1>1 DEF Holds
  <2> QED
    BY <1>8, <1>6, <2>1 DEF LeavesUnique
<1> QED
  BY <1>8, <1>6, <1>7 DEF n, LeavesUnique

(* The members of a set before one of them. *)
Before(P, R, i) == {j \in P : <<j, i>> \in R}

(* In a finite set with a strict total order, every place has its member, and*)
(* no two members have the same place.                                       *)
HasPlaces(P, R) ==
    /\ Cardinality(P) \in Nat
    /\ \A i \in P : Cardinality(Before(P, R, i)) \in 0 .. Cardinality(P) - 1
    /\ \A i, k \in P : Cardinality(Before(P, R, i)) = Cardinality(Before(P, R, k)) => i = k
    /\ \A n \in 1 .. Cardinality(P) : \E i \in P : Cardinality(Before(P, R, i)) = n - 1

(* Places in the order of Nearest are counted from 0. *)
LEMMA PlacesAre ==
    ASSUME NEW P, IsFiniteSet(P), NEW R,
           \A i, j \in P : i # j => <<i, j>> \in R \/ <<j, i>> \in R,
           \A i \in P : <<i, i>> \notin R,
           \A i, j, k \in P : <<i, j>> \in R /\ <<j, k>> \in R => <<i, k>> \in R
    PROVE  HasPlaces(P, R)
<1> DEFINE Below(k) == Before(P, R, k)
           c == Cardinality(P)
           f == [k \in P |-> Cardinality(Below(k)) + 1]
<1>1. c \in Nat
  BY FS_CardinalityType
<1>2. ASSUME NEW k \in P
      PROVE  IsFiniteSet(Below(k)) /\ Cardinality(Below(k)) \in 0 .. c - 1
  <2> DEFINE B == Below(k)
             Q == P \ {k}
  <2>1. IsFiniteSet(Q) /\ Cardinality(Q) = c - 1
    BY FS_RemoveElement
  <2>2. B \in SUBSET Q
    BY DEF Before
  <2> HIDE DEF B, Q
  <2>3. IsFiniteSet(B) /\ Cardinality(B) <= Cardinality(Q) /\ Cardinality(B) \in Nat
    BY <2>1, <2>2, FS_Subset, FS_CardinalityType
  <2> QED
    BY <1>1, <2>1, <2>3 DEF B
<1>3. ASSUME NEW k \in P, NEW l \in P, <<k, l>> \in R
      PROVE  Cardinality(Below(k)) # Cardinality(Below(l))
  <2> DEFINE A == Below(k)
             B == Below(l)
  <2>1. A \in SUBSET B /\ k \in B /\ k \notin A
    BY <1>3, Zenon DEF Before
  <2>2. IsFiniteSet(B)
    BY <1>2
  <2> HIDE DEF A, B
  <2>3. Cardinality(A) # Cardinality(B)
    BY <2>1, <2>2, FS_Subset
  <2> QED
    BY <2>3 DEF A, B
<1>4. ASSUME NEW k \in P, NEW l \in P, Cardinality(Below(k)) = Cardinality(Below(l)) PROVE k = l
  BY <1>3, <1>4, Zenon
<1> HIDE DEF Below, c
<1>5. f \in [P -> 1 .. c]
  <2>1. \A k \in P : Cardinality(Below(k)) + 1 \in 1 .. c
    BY <1>1, <1>2
  <2> QED
    BY <2>1
<1>6. \A k \in P : f[k] = Cardinality(Below(k)) + 1
  OBVIOUS
<1>7. ASSUME NEW k \in P, NEW l \in P, f[k] = f[l] PROVE k = l
  <2>1. Cardinality(Below(k)) = Cardinality(Below(l))
    BY <1>2, <1>6, <1>7
  <2> QED
    BY <1>4, <2>1
<1> HIDE DEF f
<1>8. f \in Injection(P, 1 .. c)
  BY <1>5, <1>7 DEF Injection, IsInjective
<1>9. IsFiniteSet(1 .. c) /\ Cardinality(1 .. c) = c
  <2>1. 1 \in Int /\ c \in Int
    BY <1>1
  <2>2. IsFiniteSet(1 .. c) /\ Cardinality(1 .. c) = IF 1 > c THEN 0 ELSE c - 1 + 1
    BY <2>1, FS_Interval
  <2> QED
    BY <1>1, <2>2
<1>10. f \in Surjection(P, 1 .. c)
  BY <1>8, <1>9, FS_Injection DEF c
<1>11. ASSUME NEW n \in 1 .. c PROVE \E i \in P : Cardinality(Below(i)) = n - 1
  <2>1. PICK k \in P : f[k] = n
    BY <1>10 DEF Surjection
  <2>2. Cardinality(Below(k)) = n - 1
    BY <1>2, <1>6, <2>1
  <2> QED
    BY <2>2
<1> QED
  BY <1>1, <1>2, <1>4, <1>11 DEF Below, c, HasPlaces

(* What Min of two numbers is. *)
LEMMA SmallerOfTwo ==
    ASSUME NEW a \in Int, NEW b \in Int
    PROVE  Min({a, b}) \in {a, b} /\ Min({a, b}) <= a /\ Min({a, b}) <= b
<1>1. \E x \in {a, b} : \A y \in {a, b} : x <= y
  <2>1. CASE a <= b
    BY <2>1
  <2>2. CASE b <= a
    BY <2>2
  <2> QED
    BY <2>1, <2>2
<1>2. Min({a, b}) \in {a, b} /\ \A y \in {a, b} : Min({a, b}) <= y
  BY <1>1 DEF Min
<1> QED
  BY <1>2

(* The first elements of a list. *)
LEMMA CutIs ==
    ASSUME NEW X, NEW s \in Seq(X), NEW n \in Nat
    PROVE  /\ Cut(s, n) \in Seq(X) /\ Len(Cut(s, n)) <= n /\ Len(Cut(s, n)) <= Len(s)
           /\ \A i \in 1 .. Len(s) : i <= n => i \in 1 .. Len(Cut(s, n)) /\ Cut(s, n)[i] = s[i]
           /\ \A i \in 1 .. Len(Cut(s, n)) : i \in 1 .. Len(s) /\ i <= n /\ Cut(s, n)[i] = s[i]
<1> DEFINE m == Min({Len(s), n})
           t == SubSeq(s, 1, m)
<1>1. Len(s) \in Nat
  BY SeqFacts
<1>2. m \in Nat /\ m <= Len(s) /\ m <= n /\ (m = n \/ m = Len(s))
  <2>1. Len(s) \in Int /\ n \in Int
    BY <1>1
  <2>2. m \in {Len(s), n} /\ m <= Len(s) /\ m <= n
    BY <2>1, SmallerOfTwo
  <2> QED
    BY <1>1, <2>2
<1> HIDE DEF m
<1>3. t \in Seq(X) /\ Len(t) = m /\ \A i \in 1 .. m : t[i] = s[i]
  <2>1. \A i \in 1 .. m : s[i] \in X
    BY <1>1, <1>2, SeqFacts
  <2> QED
    BY <1>1, <1>2, <2>1
<1> HIDE DEF t
<1>4. Cut(s, n) = t
  BY DEF Cut, t, m
<1> QED
  BY <1>1, <1>2, <1>3, <1>4

(* The order of the fill is strict and total. *)
LEMMA RingsAreNumbers == ASSUME NEW c \in Cells PROVE RingOf(c) \in Int
<1> DEFINE x == Magnitude(c[1])
           y == Magnitude(c[2])
           z == Magnitude(c[1] + c[2])
<1>1. x \in Int /\ y \in Int /\ z \in Int
  BY DEF Cells, Magnitude
<1> HIDE DEF x, y, z
<1>2. \E m \in {x, y, z} : \A n \in {x, y, z} : m >= n
  <2>1. CASE x >= y /\ x >= z
    BY <1>1, <2>1
  <2>2. CASE y >= x /\ y >= z
    BY <1>1, <2>2
  <2>3. CASE z >= x /\ z >= y
    BY <1>1, <2>3
  <2> QED
    BY <1>1, <2>1, <2>2, <2>3
<1>3. Max({x, y, z}) \in {x, y, z}
  BY <1>2 DEF Max
<1> QED
  BY <1>1, <1>3 DEF RingOf, x, y, z

(* NearerFirst orders the cells strictly and totally. *)
LEMMA NearerIsAnOrder ==
    /\ \A a, b \in Cells : a # b => NearerFirst(a, b) \/ NearerFirst(b, a)
    /\ \A a \in Cells : ~NearerFirst(a, a)
    /\ \A a, b, c \in Cells : NearerFirst(a, b) /\ NearerFirst(b, c) => NearerFirst(a, c)
<1>1. \A c \in Cells : RingOf(c) \in Int /\ c[1] \in Int /\ c[2] \in Int /\ c = <<c[1], c[2]>>
  BY RingsAreNumbers DEF Cells
<1>2. ASSUME NEW a \in Cells, NEW b \in Cells, a # b PROVE NearerFirst(a, b) \/ NearerFirst(b, a)
  <2>1. a[1] # b[1] \/ a[2] # b[2]
    BY <1>1, <1>2
  <2> QED
    BY <1>1, <2>1 DEF NearerFirst
<1>3. ASSUME NEW a \in Cells PROVE ~NearerFirst(a, a)
  BY <1>1 DEF NearerFirst
<1>4. ASSUME NEW a \in Cells, NEW b \in Cells, NEW c \in Cells, NearerFirst(a, b), NearerFirst(b, c)
      PROVE  NearerFirst(a, c)
  BY <1>1, <1>4 DEF NearerFirst
<1> QED
  BY <1>2, <1>3, <1>4

(* The nearest cells are cells of the set, each once.                        *)
LEMMA NearestAre ==
    ASSUME NEW cells \in SUBSET Cells, IsFiniteSet(cells), NEW n \in Nat
    PROVE  Nearest(cells, n) \in Seq(cells) /\ Distinct(Nearest(cells, n))
<1> DEFINE R == {x \in cells \X cells : NearerFirst(x[1], x[2])}
           c == Cardinality(cells)
           m == Min({n, c})
           Rank(x) == Cardinality({d \in cells : NearerFirst(d, x)})
           t == [k \in 1 .. m |-> CHOOSE x \in cells : Rank(x) = k - 1]
<1>1. \A i, j \in cells : <<i, j>> \in R <=> NearerFirst(i, j)
  OBVIOUS
<1> HIDE DEF R
<1>2. HasPlaces(cells, R)
  <2>1. \A i, j \in cells : i # j => <<i, j>> \in R \/ <<j, i>> \in R
    BY <1>1, NearerIsAnOrder
  <2>2. \A i \in cells : <<i, i>> \notin R
    BY <1>1, NearerIsAnOrder
  <2>3. \A i, j, k \in cells : <<i, j>> \in R /\ <<j, k>> \in R => <<i, k>> \in R
    BY <1>1, NearerIsAnOrder
  <2> QED
    BY <2>1, <2>2, <2>3, PlacesAre
<1>3. \A x \in cells : Before(cells, R, x) = {d \in cells : NearerFirst(d, x)}
  BY <1>1 DEF Before
<1>4. c \in Nat /\ \A k \in 1 .. c : \E x \in cells : Rank(x) = k - 1
  BY <1>2, <1>3 DEF HasPlaces
<1>5. Nearest(cells, n) = t
  BY DEF Nearest
<1>6. m \in Nat /\ m <= c
  <2>1. n \in Int /\ c \in Int
    BY <1>4
  <2> HIDE DEF c
  <2>2. m \in {n, c} /\ m <= c
    BY <2>1, SmallerOfTwo
  <2> QED
    BY <1>4, <2>2
<1> HIDE DEF c, m, Rank
<1>7. ASSUME NEW k \in 1 .. m PROVE t[k] \in cells /\ Rank(t[k]) = k - 1
  <2>1. k \in 1 .. c
    BY <1>4, <1>6
  <2>2. \E x \in cells : Rank(x) = k - 1
    BY <1>4, <2>1
  <2> QED
    BY <2>2
<1>8. DOMAIN t = 1 .. m
  OBVIOUS
<1> HIDE DEF t
<1>9. t \in Seq(cells)
  <2>1. t = [k \in 1 .. m |-> t[k]]
    BY <1>5, <1>8 DEF t
  <2>2. t \in [1 .. m -> cells]
    BY <1>7, <2>1
  <2> QED
    BY <1>6, <2>2
<1>10. Distinct(t)
  <2> SUFFICES ASSUME NEW j \in 1 .. m, NEW k \in 1 .. m, t[j] = t[k] PROVE j = k
    BY <1>8 DEF Distinct
  <2>1. j - 1 = k - 1
    BY <1>7
  <2> QED
    BY <1>6, <2>1
<1> QED
  BY <1>5, <1>9, <1>10

(* Finite sets of cells and numbers. *)

(* What a function makes of a finite set is finite. *)
LEMMA ImagesAreFinite ==
    ASSUME NEW S, IsFiniteSet(S), NEW f, DOMAIN f = S
    PROVE  IsFiniteSet({f[x] : x \in S})
<1> DEFINE T == {f[x] : x \in S}
           g == [x \in S |-> f[x]]
<1>1. g \in [S -> T] /\ \A t \in T : \E x \in S : g[x] = t
  OBVIOUS
<1> HIDE DEF T, g
<1>2. g \in Surjection(S, T)
  BY <1>1 DEF Surjection
<1>3. IsFiniteSet(T)
  BY <1>2, FS_Surjection
<1> QED
  BY <1>3 DEF T

(* The cells around a cell are finitely many. *)
LEMMA BallsAreFinite ==
    ASSUME NEW c \in Cells, NEW r \in Nat
    PROVE  IsFiniteSet(Ball(c, r)) /\ Ball(c, r) \subseteq Cells
<1> DEFINE D == -r .. r
           f == [p \in D \X D |-> <<c[1] + p[1], c[2] + p[2]>>]
           T == {f[p] : p \in D \X D}
<1>1. IsFiniteSet(D)
  BY FS_Interval
<1>2. D \subseteq Int /\ c[1] \in Int /\ c[2] \in Int
  BY DEF Cells
<1>5. Ball(c, r) \subseteq {<<c[1] + dq, c[2] + dr>> : dq \in D, dr \in D}
  BY DEF Ball
<1> HIDE DEF D
<1>3. DOMAIN f = D \X D /\ IsFiniteSet(D \X D)
  BY <1>1, FS_Product
<1>4. \A x \in D, y \in D : f[<<x, y>>] = <<c[1] + x, c[2] + y>> /\ <<x, y>> \in D \X D
  OBVIOUS
<1> HIDE DEF f
<1>6. IsFiniteSet(T)
  BY <1>3, ImagesAreFinite
<1>7. {<<c[1] + dq, c[2] + dr>> : dq \in D, dr \in D} \subseteq T
  <2>1. \A dq \in D, dr \in D : <<c[1] + dq, c[2] + dr>> \in T
    BY <1>4
  <2> DEFINE U == {<<c[1] + dq, c[2] + dr>> : dq \in D, dr \in D}
  <2>2. \A z \in U : \E dq \in D, dr \in D : z = <<c[1] + dq, c[2] + dr>>
    OBVIOUS
  <2> HIDE DEF T, U
  <2>3. \A z \in U : z \in T
    BY <2>1, <2>2
  <2> QED
    BY <2>3 DEF U
<1>8. {<<c[1] + dq, c[2] + dr>> : dq \in D, dr \in D} \subseteq Cells
  BY <1>2 DEF Cells
<1> HIDE DEF T
<1>9. Ball(c, r) \in SUBSET T
  BY <1>5, <1>7
<1> QED
  BY <1>5, <1>6, <1>8, <1>9, FS_Subset

(* So are the legal cells of a history. *)
LEMMA LegalCellsAreFinite ==
    ASSUME NEW h \in Seq([player : Players, cell : Cells])
    PROVE  IsFiniteSet(LegalCells(h)) /\ LegalCells(h) \subseteq Cells
<1>1. LegalRadius \in Nat
  BY SizesOK
<1>2. CASE h = <<>>
  <2>1. LegalCells(h) = {Origin} /\ Origin \in Cells
    BY <1>2 DEF LegalCells, Origin, Cells
  <2> QED
    BY <2>1, FS_Singleton
<1>3. CASE h # <<>>
  <2> DEFINE n == Len(h)
             f == [k \in 1 .. n |-> Ball(h[k].cell, LegalRadius)]
             T == {f[k] : k \in 1 .. n}
  <2>1. n \in Nat /\ DOMAIN h = 1 .. n /\ \A k \in 1 .. n : h[k].cell \in Cells
    <3> DEFINE M == [player : Players, cell : Cells]
    <3>1. \A m \in M : m.cell \in Cells
      OBVIOUS
    <3>2. h \in Seq(M)
      OBVIOUS
    <3> HIDE DEF M
    <3>3. n \in Nat /\ DOMAIN h = 1 .. n /\ \A k \in 1 .. n : h[k] \in M
      BY <3>2, SeqFacts
    <3> QED
      BY <3>1, <3>3
  <2>2. LegalCells(h) \subseteq UNION {Ball(c, LegalRadius) : c \in StonesOf(h)}
    BY <1>3 DEF LegalCells
  <2> HIDE DEF n
  <2>3. \A k \in 1 .. n : f[k] = Ball(h[k].cell, LegalRadius) /\ IsFiniteSet(f[k]) /\ f[k] \subseteq Cells
    BY <1>1, <2>1, BallsAreFinite
  <2>4. {Ball(c, LegalRadius) : c \in StonesOf(h)} \subseteq T
    BY <2>1, <2>3 DEF StonesOf
  <2>5. IsFiniteSet(1 .. n)
    BY <2>1, FS_Interval
  <2>6. DOMAIN f = 1 .. n
    OBVIOUS
  <2> HIDE DEF f
  <2>7. IsFiniteSet(T)
    BY <2>5, <2>6, ImagesAreFinite
  <2>8. \A x \in T : IsFiniteSet(x) /\ x \subseteq Cells
    BY <2>3
  <2> HIDE DEF T
  <2>9. IsFiniteSet(UNION T) /\ UNION T \subseteq Cells
    BY <2>7, <2>8, FS_UNION
  <2>10. LegalCells(h) \in SUBSET (UNION T)
    BY <2>2, <2>4
  <2> QED
    BY <2>9, <2>10, FS_Subset
<1> QED
  BY <1>2, <1>3

(* A finite set of numbers has a greatest one, which Max returns. *)
LEMMA GreatestOfFinite ==
    ASSUME NEW T \in SUBSET Int, IsFiniteSet(T), T # {}
    PROVE  Max(T) \in T /\ \A x \in T : x <= Max(T)
<1> DEFINE R == {p \in T \X T : p[1] < p[2]}
           c == Cardinality(T)
<1>1. \A i, j \in T : <<i, j>> \in R <=> i < j
  OBVIOUS
<1> HIDE DEF R
<1>2. HasPlaces(T, R)
  <2>1. \A i, j \in T : i # j => <<i, j>> \in R \/ <<j, i>> \in R
    BY <1>1
  <2>2. \A i \in T : <<i, i>> \notin R
    BY <1>1
  <2>3. \A i, j, k \in T : <<i, j>> \in R /\ <<j, k>> \in R => <<i, k>> \in R
    BY <1>1
  <2> QED
    BY <2>1, <2>2, <2>3, PlacesAre
<1>3. c \in Nat /\ c # 0
  BY FS_CardinalityType, FS_EmptySet
<1> HIDE DEF c
<1>4. PICK x \in T : Cardinality(Before(T, R, x)) = c - 1
  <2>1. c \in 1 .. c
    BY <1>3
  <2>2. \E x \in T : Cardinality(Before(T, R, x)) = c - 1
    BY <1>2, <2>1 DEF HasPlaces, c
  <2> QED
    BY <2>2
<1>5. Before(T, R, x) = T \ {x}
  <2> DEFINE B == Before(T, R, x)
             Q == T \ {x}
  <2>1. IsFiniteSet(Q) /\ Cardinality(Q) = c - 1
    BY <1>4, FS_RemoveElement DEF c
  <2>2. B \in SUBSET Q
    BY <1>1, <1>4 DEF Before
  <2>3. Cardinality(B) = c - 1
    BY <1>4
  <2> HIDE DEF B, Q
  <2>4. Q = B
    BY <2>1, <2>2, <2>3, FS_Subset
  <2> QED
    BY <2>4 DEF B, Q
<1>6. ASSUME NEW y \in T PROVE x >= y
  <2>1. CASE y = x
    BY <2>1
  <2>2. CASE y # x
    <3>1. y \in Before(T, R, x)
      BY <1>5, <2>2
    <3>2. <<y, x>> \in R
      BY <3>1 DEF Before
    <3>3. y < x /\ x \in Int /\ y \in Int
      BY <1>1, <3>2
    <3> QED
      BY <3>3
  <2> QED
    BY <2>1, <2>2
<1>7. Max(T) \in T /\ \A y \in T : Max(T) >= y
  <2>1. \E z \in T : \A y \in T : z >= y
    BY <1>6
  <2> QED
    BY <2>1, Zenon DEF Max
<1>8. Max(T) \in Int
  BY <1>7
<1> HIDE DEF c
<1> QED
  BY <1>7, <1>8

(* Sums over no index and over one. *)
LEMMA SumOfNone ==
    ASSUME NEW f
    PROVE  SumFunctionOnSet(f, {}) = 0
<1> DEFINE it == CHOOSE it : it = [s \in SUBSET {} |-> IF s = {} THEN 0 ELSE f[CHOOSE x \in s : TRUE] + it[s \ {CHOOSE x \in s : TRUE}]]
           g == [s \in SUBSET {} |-> 0]
<1>1. SumFunctionOnSet(f, {}) = it[{}]
  BY Zenon DEF SumFunctionOnSet, FoldFunctionOnSet, MapThenFoldSet
<1>2. g = [s \in SUBSET {} |-> IF s = {} THEN 0 ELSE f[CHOOSE x \in s : TRUE] + g[s \ {CHOOSE x \in s : TRUE}]]
  OBVIOUS
<1> HIDE DEF g
<1>3. it = [s \in SUBSET {} |-> IF s = {} THEN 0 ELSE f[CHOOSE x \in s : TRUE] + it[s \ {CHOOSE x \in s : TRUE}]]
  BY <1>2, Zenon
<1> HIDE DEF it
<1>4. it[{}] = 0
  BY <1>3
<1> QED
  BY <1>1, <1>4

(* A sum over one index is the term of that index. *)
LEMMA SumOfOne ==
    ASSUME NEW f, NEW k, f[k] \in Int
    PROVE  SumFunctionOnSet(f, {k}) = f[k]
<1> DEFINE it == CHOOSE it : it = [s \in SUBSET {k} |-> IF s = {} THEN 0 ELSE f[CHOOSE x \in s : TRUE] + it[s \ {CHOOSE x \in s : TRUE}]]
           g == [s \in SUBSET {k} |-> IF s = {} THEN 0 ELSE f[k]]
<1>1. SumFunctionOnSet(f, {k}) = it[{k}]
  BY Zenon DEF SumFunctionOnSet, FoldFunctionOnSet, MapThenFoldSet
<1>4. \A s \in SUBSET {k} : s # {} => (CHOOSE x \in s : TRUE) = k /\ s = {k} /\ s \ {k} = {}
  OBVIOUS
<1>5. {} \in SUBSET {k} /\ {k} \in SUBSET {k} /\ {k} # {}
  OBVIOUS
<1>6. g[{}] = 0 /\ DOMAIN g = SUBSET {k} /\ g = [s \in SUBSET {k} |-> g[s]]
  OBVIOUS
<1>7. \A s \in SUBSET {k} : g[s] = IF s = {} THEN 0 ELSE f[k]
  OBVIOUS
<1> HIDE DEF g
<1>8. \A s \in SUBSET {k} : g[s] = IF s = {} THEN 0 ELSE f[CHOOSE x \in s : TRUE] + g[s \ {CHOOSE x \in s : TRUE}]
  <2> SUFFICES ASSUME NEW s \in SUBSET {k}, s # {}
               PROVE  g[s] = f[CHOOSE x \in s : TRUE] + g[s \ {CHOOSE x \in s : TRUE}]
    BY <1>5, <1>7
  <2>1. (CHOOSE x \in s : TRUE) = k /\ s \ {k} = {} /\ g[s] = f[k]
    BY <1>4, <1>7
  <2>2. f[k] + g[{}] = f[k]
    BY <1>6
  <2> QED
    BY <2>1, <2>2
<1>2. g = [s \in SUBSET {k} |-> IF s = {} THEN 0 ELSE f[CHOOSE x \in s : TRUE] + g[s \ {CHOOSE x \in s : TRUE}]]
  BY <1>6, <1>8
<1>3. it = [s \in SUBSET {k} |-> IF s = {} THEN 0 ELSE f[CHOOSE x \in s : TRUE] + it[s \ {CHOOSE x \in s : TRUE}]]
  BY <1>2, Zenon
<1> HIDE DEF it
<1>9. it[{}] = 0 /\ it[{k}] = f[k] + it[{}]
  BY <1>3, <1>4, <1>5
<1> QED
  BY <1>1, <1>9

(* The states between the rows of a batch. *)
Adding(G, b, recs, syms, w, seq, n) ==
    /\ DOMAIN G = SUBSET (1 .. n)
    /\ \A T \in SUBSET (1 .. n) :
          G[T] = IF T = {} THEN b ELSE AddRow(G[T \ {Max(T)}], recs[seq[Max(T)]], syms[seq[Max(T)]], w)

(* The fold that lays out a batch is a recursive function that exists. *)
LEMMA AddingExists ==
    ASSUME NEW n \in Nat, NEW b, NEW recs, NEW syms, NEW w, NEW seq
    PROVE  \E G : Adding(G, b, recs, syms, w, seq, n)
<1> DEFINE Fold(k) == \E G : Adding(G, b, recs, syms, w, seq, k)
           P == {k \in Nat : Fold(k)}
<1>1. Fold(0)
  <2> DEFINE G == [T \in SUBSET (1 .. 0) |-> b]
  <2>1. DOMAIN G = SUBSET (1 .. 0) /\ \A T \in SUBSET (1 .. 0) : T = {} /\ G[T] = b
    OBVIOUS
  <2> HIDE DEF G
  <2>2. Adding(G, b, recs, syms, w, seq, 0)
    BY <2>1 DEF Adding
  <2> QED
    BY <2>2
<1>2. ASSUME NEW k \in Nat, Fold(k) PROVE Fold(k + 1)
  <2>1. PICK G : Adding(G, b, recs, syms, w, seq, k)
    BY <1>2
  <2> DEFINE m == k + 1
             H == [T \in SUBSET (1 .. m) |-> IF m \in T THEN AddRow(G[T \ {m}], recs[seq[m]], syms[seq[m]], w) ELSE G[T]]
  <2>2. /\ m \in Nat \ {0}
        /\ \A T \in SUBSET (1 .. m) : T \ {m} \in SUBSET (1 .. k) /\ (m \notin T => T \in SUBSET (1 .. k))
    <3>1. m \in Nat \ {0} /\ (1 .. m) \ {m} = 1 .. k
      BY <1>2
    <3> HIDE DEF m
    <3> QED
      BY <3>1
  <2> HIDE DEF m
  <2>3. ASSUME NEW T \in SUBSET (1 .. m), T # {}
        PROVE  H[T] = AddRow(H[T \ {Max(T)}], recs[seq[Max(T)]], syms[seq[Max(T)]], w)
    <3>1. CASE m \in T
      <4>1. Max(T) = m
        <5>1. Max(T) \in T
          BY <2>2, <2>3, GreatestIsThere
        <5>2. \E x \in T : \A y \in T : x >= y
          BY <2>2, <3>1
        <5>3. Max(T) >= m
          BY <3>1, <5>2 DEF Max
        <5>4. Max(T) \in 1 .. m
          BY <5>1
        <5> QED
          BY <2>2, <5>3, <5>4
      <4>2. H[T \ {m}] = G[T \ {m}] /\ H[T] = AddRow(G[T \ {m}], recs[seq[m]], syms[seq[m]], w)
        BY <2>2, <3>1
      <4> QED
        BY <4>1, <4>2
    <3>2. CASE m \notin T
      <4>1. T \in SUBSET (1 .. k) /\ H[T] = G[T] /\ H[T \ {Max(T)}] = G[T \ {Max(T)}]
        BY <2>2, <3>2
      <4>2. G[T] = AddRow(G[T \ {Max(T)}], recs[seq[Max(T)]], syms[seq[Max(T)]], w)
        BY <2>1, <2>3, <4>1 DEF Adding
      <4> QED
        BY <4>1, <4>2
    <3> QED
      BY <3>1, <3>2
  <2>4. H[{}] = b
    <3>1. {} \in SUBSET (1 .. k) /\ {} \in SUBSET (1 .. m) /\ H[{}] = G[{}]
      BY <2>2
    <3> QED
      BY <2>1, <3>1 DEF Adding
  <2>5. DOMAIN H = SUBSET (1 .. m)
    OBVIOUS
  <2> HIDE DEF H
  <2>6. Adding(H, b, recs, syms, w, seq, m)
    BY <2>3, <2>4, <2>5 DEF Adding
  <2>7. Fold(m)
    BY <2>6
  <2> QED
    BY <2>7 DEF m
<1> HIDE DEF Fold
<1>3. 0 \in P /\ \A k \in Nat : k \in P => k + 1 \in P
  BY <1>1, <1>2
<1>4. n \in P
  <2> HIDE DEF P
  <2> QED
    BY <1>3, NatSetInduction
<1>5. Fold(n)
  BY <1>4
<1> QED
  BY <1>5 DEF Fold

Batch(b, recs, syms, w, seq) ==
    FoldLeft(LAMBDA st, k : AddRow(st, recs[k], syms[k], w), b, seq)

BatchSteps(g, b, recs, syms, w, seq, n) ==
    /\ g[0] = b
    /\ \A k \in 1 .. n : g[k] = AddRow(g[k - 1], recs[seq[k]], syms[seq[k]], w)
    /\ g[n] = Batch(b, recs, syms, w, seq)

(* The rows of a batch, one drawn record at a time. *)
LEMMA BatchFolds ==
    ASSUME NEW b, NEW n \in Nat, NEW recs, NEW syms, NEW w, NEW seq, DOMAIN seq = 1 .. n
    PROVE  \E g : BatchSteps(g, b, recs, syms, w, seq, n)
<1> DEFINE D == SUBSET (1 .. n)
           it == CHOOSE it : it = [T \in D |-> IF T = {} THEN b ELSE AddRow(it[T \ {Max(T)}], recs[seq[Max(T)]], syms[seq[Max(T)]], w)]
           g == [k \in 0 .. n |-> it[1 .. k]]
<1>1. PICK G : Adding(G, b, recs, syms, w, seq, n)
  BY AddingExists
<1>2. \E G2 : G2 = [T \in D |-> IF T = {} THEN b ELSE AddRow(G2[T \ {Max(T)}], recs[seq[Max(T)]], syms[seq[Max(T)]], w)]
  <2> DEFINE G2 == [T \in D |-> G[T]]
  <2>1. ASSUME NEW T \in D
        PROVE  G2[T] = IF T = {} THEN b ELSE AddRow(G2[T \ {Max(T)}], recs[seq[Max(T)]], syms[seq[Max(T)]], w)
    <3>1. T \ {Max(T)} \in D /\ G2[T] = G[T] /\ G2[T \ {Max(T)}] = G[T \ {Max(T)}]
      OBVIOUS
    <3> QED
      BY <1>1, <3>1 DEF Adding
  <2>2. G2 = [T \in D |-> G2[T]]
    OBVIOUS
  <2> HIDE DEF G2, D
  <2>3. G2 = [T \in D |-> IF T = {} THEN b ELSE AddRow(G2[T \ {Max(T)}], recs[seq[Max(T)]], syms[seq[Max(T)]], w)]
    BY <2>1, <2>2
  <2> QED
    BY <2>3
<1>6. it = [T \in D |-> IF T = {} THEN b ELSE AddRow(it[T \ {Max(T)}], recs[seq[Max(T)]], syms[seq[Max(T)]], w)]
  BY <1>2, Zenon
<1>7. Batch(b, recs, syms, w, seq) = it[1 .. n]
  BY Zenon DEF Batch, FoldLeft, MapThenFoldSet
<1> HIDE DEF it
<1>8. g[0] = b
  <2>1. 1 .. 0 = {} /\ {} \in D /\ g[0] = it[1 .. 0]
    OBVIOUS
  <2> QED
    BY <1>6, <2>1
<1>9. ASSUME NEW k \in 1 .. n PROVE g[k] = AddRow(g[k - 1], recs[seq[k]], syms[seq[k]], w)
  <2>1. 1 .. k \in D /\ 1 .. k # {} /\ g[k] = it[1 .. k] /\ g[k - 1] = it[1 .. k - 1]
    <3>1. k \in 0 .. n /\ k - 1 \in 0 .. n /\ 1 \in 1 .. k /\ 1 .. k \subseteq 1 .. n
      BY <1>9
    <3> HIDE DEF D
    <3>2. g[k] = it[1 .. k] /\ g[k - 1] = it[1 .. k - 1]
      BY <3>1
    <3> HIDE DEF g
    <3> QED
      BY <3>1, <3>2 DEF D
  <2>2. it[1 .. k] = AddRow(it[(1 .. k) \ {Max(1 .. k)}], recs[seq[Max(1 .. k)]], syms[seq[Max(1 .. k)]], w)
    BY <1>6, <2>1
  <2>3. Max(1 .. k) = k /\ (1 .. k) \ {k} = 1 .. k - 1
    BY GreatestIs
  <2> QED
    BY <2>1, <2>2, <2>3
<1>10. g[n] = Batch(b, recs, syms, w, seq)
  BY <1>7
<1> HIDE DEF g
<1>11. BatchSteps(g, b, recs, syms, w, seq, n)
  BY <1>8, <1>9, <1>10 DEF BatchSteps
<1> QED
  BY <1>11

(* A row from a record, a symmetry, a width and what the caches give. *)
EncOf(rec, s, fresh) ==
    IF fresh THEN Encode(TransformHistory(rec.history, s)) ELSE TensorOnly(TransformHistory(rec.history, s))

SampledRows ==
    {SampledRow(rec, s, EncOf(rec, s, fresh), w) :
        rec \in Records, s \in Symmetries, w \in Nat \ {0}, fresh \in BOOLEAN}

HasRows(st) == "rows" \in DOMAIN st /\ st.rows \in Seq(SampledRows)

(* Adding a row keeps every row a sampled one. *)
LEMMA AddRowKeeps ==
    ASSUME NEW st, HasRows(st), NEW rec \in Records, NEW s \in Symmetries, NEW w \in Nat \ {0}
    PROVE  HasRows(AddRow(st, rec, s, w))
<1> DEFINE h == TransformHistory(rec.history, s)
           found == Lookup(st.caches, h)
           row == SampledRow(rec, s, found.enc, w)
<1>1. \E fresh \in BOOLEAN : found.enc = EncOf(rec, s, fresh)
  <2>1. found.enc = Encode(h) \/ found.enc = TensorOnly(h)
    BY DEF Lookup
  <2>2. EncOf(rec, s, TRUE) = Encode(h) /\ EncOf(rec, s, FALSE) = TensorOnly(h)
    BY DEF EncOf
  <2> QED
    BY <2>1, <2>2
<1>2. row \in SampledRows
  <2>1. PICK fresh \in BOOLEAN : found.enc = EncOf(rec, s, fresh)
    BY <1>1
  <2>2. row = SampledRow(rec, s, EncOf(rec, s, fresh), w)
    BY <2>1
  <2> HIDE DEF row
  <2> QED
    BY <2>2 DEF SampledRows
<1>3. AddRow(st, rec, s, w) = IF st.failed THEN st
                              ELSE [caches |-> found.caches, rows |-> Append(st.rows, row), failed |-> row.failed]
  BY Zenon DEF AddRow
<1> HIDE DEF row, found
<1>4. CASE st.failed
  BY <1>3, <1>4
<1>5. CASE ~st.failed
  <2> DEFINE new == [caches |-> found.caches, rows |-> Append(st.rows, row), failed |-> row.failed]
  <2>1. "rows" \in DOMAIN new /\ new.rows = Append(st.rows, row)
    OBVIOUS
  <2>2. Append(st.rows, row) \in Seq(SampledRows)
    BY <1>2, Appended DEF HasRows
  <2> HIDE DEF new
  <2>3. HasRows(new)
    BY <2>1, <2>2 DEF HasRows
  <2> QED
    BY <1>3, <1>5, <2>3 DEF new
<1> QED
  BY <1>4, <1>5

(* So all rows of a batch are sampled ones. *)
LEMMA BatchKeeps ==
    ASSUME NEW b, HasRows(b), NEW n \in Nat, NEW recs \in [1 .. n -> Records],
           NEW syms \in [1 .. n -> Symmetries], NEW w \in Nat \ {0},
           NEW seq, DOMAIN seq = 1 .. n, \A k \in 1 .. n : seq[k] \in 1 .. n
    PROVE  HasRows(Batch(b, recs, syms, w, seq))
<1>1. PICK g : BatchSteps(g, b, recs, syms, w, seq, n)
  BY BatchFolds
<1>2. /\ g[0] = b /\ g[n] = Batch(b, recs, syms, w, seq)
      /\ \A k \in 1 .. n : g[k] = AddRow(g[k - 1], recs[seq[k]], syms[seq[k]], w)
  BY <1>1 DEF BatchSteps
<1> DEFINE P == {k \in Nat : k <= n => HasRows(g[k])}
<1>3. 0 \in P
  BY <1>2
<1>4. ASSUME NEW k \in Nat, k \in P PROVE k + 1 \in P
  <2> SUFFICES ASSUME k + 1 <= n PROVE HasRows(g[k + 1])
    OBVIOUS
  <2>1. k + 1 \in 1 .. n /\ k + 1 - 1 = k /\ HasRows(g[k])
    BY <1>4
  <2>2. seq[k + 1] \in 1 .. n
    BY <2>1
  <2>3. recs[seq[k + 1]] \in Records /\ syms[seq[k + 1]] \in Symmetries
    BY <2>2
  <2>4. g[k + 1] = AddRow(g[k], recs[seq[k + 1]], syms[seq[k + 1]], w)
    BY <1>2, <2>1
  <2> QED
    BY <2>1, <2>3, <2>4, AddRowKeeps
<1>5. n \in P
  <2> HIDE DEF P
  <2> QED
    BY <1>3, <1>4, NatSetInduction
<1> QED
  BY <1>2, <1>5

(* A batch has room for at least one candidate. *)
LEMMA WidthIsPositive ==
    ASSUME NEW n \in Nat, NEW recs \in [1 .. n -> Records]
    PROVE  WidthFor(recs) \in Nat \ {0}
<1> DEFINE A == {Len(recs[k].policy) : k \in 1 .. n}
           B == {Len(recs[k].opp) : k \in 1 .. n}
           C == {Len(recs[k].pairs) + 1 : k \in 1 .. n}
           T == {Budget} \cup A \cup B \cup C
<1>1. Budget \in Nat \ {0} /\ MaxWidth \in Nat \ {0}
  BY SizesOK
<1>2. \A k \in 1 .. n : Len(recs[k].policy) \in Nat /\ Len(recs[k].opp) \in Nat /\ Len(recs[k].pairs) \in Nat
  <2> SUFFICES ASSUME NEW k \in 1 .. n
               PROVE  Len(recs[k].policy) \in Nat /\ Len(recs[k].opp) \in Nat /\ Len(recs[k].pairs) \in Nat
    OBVIOUS
  <2>1. recs[k] \in Records
    OBVIOUS
  <2>2. /\ recs[k].policy \in Seq([cell : Cells, visits : Nat])
        /\ recs[k].opp \in Seq([cell : Cells, visits : Nat])
        /\ recs[k].pairs \in Seq([first : Cells, second : Cells, visits : Nat])
    BY <2>1, RecordsOK
  <2> QED
    BY <2>2, SeqFacts
<1>3. IsFiniteSet(1 .. n)
  BY FS_Interval
<1>4. IsFiniteSet(A) /\ A \subseteq Nat
  <2> DEFINE f == [k \in 1 .. n |-> Len(recs[k].policy)]
  <2>1. A = {f[k] : k \in 1 .. n} /\ DOMAIN f = 1 .. n
    OBVIOUS
  <2>2. A \subseteq Nat
    BY <1>2
  <2> HIDE DEF f, A
  <2> QED
    BY <1>3, <2>1, <2>2, ImagesAreFinite
<1>5. IsFiniteSet(B) /\ B \subseteq Nat
  <2> DEFINE f == [k \in 1 .. n |-> Len(recs[k].opp)]
  <2>1. B = {f[k] : k \in 1 .. n} /\ DOMAIN f = 1 .. n
    OBVIOUS
  <2>2. B \subseteq Nat
    BY <1>2
  <2> HIDE DEF f, B
  <2> QED
    BY <1>3, <2>1, <2>2, ImagesAreFinite
<1>6. IsFiniteSet(C) /\ C \subseteq Nat
  <2> DEFINE f == [k \in 1 .. n |-> Len(recs[k].pairs) + 1]
  <2>1. C = {f[k] : k \in 1 .. n} /\ DOMAIN f = 1 .. n
    OBVIOUS
  <2>2. C \subseteq Nat
    BY <1>2
  <2> HIDE DEF f, C
  <2> QED
    BY <1>3, <2>1, <2>2, ImagesAreFinite
<1>7. WidthFor(recs) = Min({MaxWidth, Max(T)})
  BY DEF WidthFor
<1> HIDE DEF A, B, C
<1>8. IsFiniteSet(T) /\ T \in SUBSET Nat /\ Budget \in T
  <2> DEFINE Z == {Budget}
             ZA == Z \cup A
             ZB == ZA \cup B
  <2>1. IsFiniteSet(Z) /\ Z \subseteq Nat /\ Budget \in Z /\ T = ZB \cup C
    BY <1>1, FS_Singleton
  <2> HIDE DEF Z, T
  <2>2. IsFiniteSet(ZA) /\ ZA \subseteq Nat /\ Budget \in ZA
    BY <1>4, <2>1, FS_Union
  <2> HIDE DEF ZA
  <2>3. IsFiniteSet(ZB) /\ ZB \subseteq Nat /\ Budget \in ZB
    BY <1>5, <2>2, FS_Union
  <2> HIDE DEF ZB
  <2> QED
    BY <1>6, <2>1, <2>3, FS_Union
<1> HIDE DEF T
<1>9. Max(T) \in Nat \ {0}
  <2>1. T \in SUBSET Int /\ T # {}
    BY <1>8
  <2>2. Max(T) \in T /\ Budget <= Max(T)
    BY <1>8, <2>1, GreatestOfFinite
  <2> DEFINE M == Max(T)
  <2>3. M \in Nat /\ Budget <= M
    BY <1>8, <2>2
  <2>4. Budget \in Nat \ {0}
    BY <1>1
  <2> HIDE DEF M
  <2>5. M \in Nat \ {0}
    BY <2>3, <2>4
  <2> QED
    BY <2>5 DEF M
<1>10. Min({MaxWidth, Max(T)}) \in {MaxWidth, Max(T)}
  <2>1. MaxWidth \in Int /\ Max(T) \in Int
    BY <1>1, <1>9
  <2> QED
    BY <2>1, SmallerOfTwo
<1> QED
  BY <1>1, <1>7, <1>9, <1>10

(* Every row the sampler ever shows is a sampled record. *)
LEMMA SamplerKeepsRows == SamplerSpec => []HasRows(sampler)
<1>1. SamplerInit => HasRows(sampler)
  <2> SUFFICES ASSUME SamplerInit PROVE HasRows(sampler)
    OBVIOUS
  <2>1. "rows" \in DOMAIN sampler /\ sampler.rows = <<>>
    BY DEF SamplerInit
  <2> QED
    BY <2>1 DEF HasRows
<1>2. HasRows(sampler) /\ [SampleBatch]_sampler => HasRows(sampler)'
  <2> SUFFICES ASSUME HasRows(sampler), [SampleBatch]_sampler PROVE HasRows(sampler')
    BY DEF HasRows
  <2>1. CASE UNCHANGED sampler
    BY <2>1
  <2>2. CASE SampleBatch
    <3> DEFINE n == BatchSize
               seq == [k \in 1 .. n |-> k]
               b == [sampler EXCEPT !.rows = <<>>]
    <3>1. n \in Nat /\ DOMAIN seq = 1 .. n /\ \A k \in 1 .. n : seq[k] \in 1 .. n
      BY SizesOK
    <3>2. PICK recs \in [1 .. n -> Records], syms \in [1 .. n -> Symmetries] :
             sampler' = Batch(b, recs, syms, WidthFor(recs), seq)
      BY <2>2, Zenon DEF SampleBatch, Batch
    <3>3. "rows" \in DOMAIN b /\ b.rows = <<>>
      BY DEF HasRows
    <3> HIDE DEF b, seq, n
    <3>4. HasRows(b)
      BY <3>3 DEF HasRows
    <3>5. WidthFor(recs) \in Nat \ {0}
      BY <3>1, WidthIsPositive
    <3> DEFINE w == WidthFor(recs)
    <3>6. w \in Nat \ {0} /\ sampler' = Batch(b, recs, syms, w, seq)
      BY <3>2, <3>5
    <3> HIDE DEF w
    <3> QED
      BY <3>1, <3>4, <3>6, BatchKeeps
  <2> QED
    BY <2>1, <2>2
<1> QED
  BY <1>1, <1>2, PTL DEF SamplerSpec

(* A symmetry moves cells to cells, no two of them to one. *)
LEMMA SymmetriesAre ==
    ASSUME NEW s \in Symmetries
    PROVE  s = 0 \/ s = 1 \/ s = 2 \/ s = 3 \/ s = 4 \/ s = 5 \/ s = 6 \/ s = 7 \/ s = 8 \/ s = 9 \/ s = 10 \/ s = 11
BY SymmetriesOK

(* The twelve symmetries, one by one. *)
LEMMA TransformIs ==
    ASSUME NEW s \in Symmetries, NEW c \in Cells
    PROVE  LET q == c[1]
               r == c[2]
               t == Transform(c, s)
           IN  /\ s = 0 => t = <<q, r>>
               /\ s = 1 => t = <<-r, q + r>>
               /\ s = 2 => t = <<-q - r, q>>
               /\ s = 3 => t = <<-q, -r>>
               /\ s = 4 => t = <<r, -q - r>>
               /\ s = 5 => t = <<q + r, -q>>
               /\ s = 6 => t = <<r, q>>
               /\ s = 7 => t = <<-q, q + r>>
               /\ s = 8 => t = <<-q - r, r>>
               /\ s = 9 => t = <<-r, -q>>
               /\ s = 10 => t = <<q, -q - r>>
               /\ s = 11 => t = <<q + r, -r>>
BY DEF Transform

(* A symmetry permutes the cells. *)
LEMMA TransformMoves ==
    ASSUME NEW s \in Symmetries, NEW c \in Cells, NEW d \in Cells
    PROVE  Transform(c, s) \in Cells /\ (Transform(c, s) = Transform(d, s) => c = d)
<1> DEFINE q == c[1]
           r == c[2]
           u == d[1]
           v == d[2]
<1>1. c = <<q, r>> /\ d = <<u, v>> /\ q \in Int /\ r \in Int /\ u \in Int /\ v \in Int
  BY DEF Cells
<1>2. \A a, b \in Int : <<a, b>> \in Cells
  BY DEF Cells
<1> HIDE DEF q, r, u, v
<1>3. CASE s = 0
  <2>1. Transform(c, s) = <<q, r>> /\ Transform(d, s) = <<u, v>>
    BY <1>3, TransformIs DEF q, r, u, v
  <2> QED
    BY <1>1, <1>2, <2>1
<1>4. CASE s = 1
  <2>1. Transform(c, s) = <<-r, q + r>> /\ Transform(d, s) = <<-v, u + v>>
    BY <1>4, TransformIs DEF q, r, u, v
  <2> QED
    BY <1>1, <1>2, <2>1
<1>5. CASE s = 2
  <2>1. Transform(c, s) = <<-q - r, q>> /\ Transform(d, s) = <<-u - v, u>>
    BY <1>5, TransformIs DEF q, r, u, v
  <2> QED
    BY <1>1, <1>2, <2>1
<1>6. CASE s = 3
  <2>1. Transform(c, s) = <<-q, -r>> /\ Transform(d, s) = <<-u, -v>>
    BY <1>6, TransformIs DEF q, r, u, v
  <2> QED
    BY <1>1, <1>2, <2>1
<1>7. CASE s = 4
  <2>1. Transform(c, s) = <<r, -q - r>> /\ Transform(d, s) = <<v, -u - v>>
    BY <1>7, TransformIs DEF q, r, u, v
  <2> QED
    BY <1>1, <1>2, <2>1
<1>8. CASE s = 5
  <2>1. Transform(c, s) = <<q + r, -q>> /\ Transform(d, s) = <<u + v, -u>>
    BY <1>8, TransformIs DEF q, r, u, v
  <2> QED
    BY <1>1, <1>2, <2>1
<1>9. CASE s = 6
  <2>1. Transform(c, s) = <<r, q>> /\ Transform(d, s) = <<v, u>>
    BY <1>9, TransformIs DEF q, r, u, v
  <2> QED
    BY <1>1, <1>2, <2>1
<1>10. CASE s = 7
  <2>1. Transform(c, s) = <<-q, q + r>> /\ Transform(d, s) = <<-u, u + v>>
    BY <1>10, TransformIs DEF q, r, u, v
  <2> QED
    BY <1>1, <1>2, <2>1
<1>11. CASE s = 8
  <2>1. Transform(c, s) = <<-q - r, r>> /\ Transform(d, s) = <<-u - v, v>>
    BY <1>11, TransformIs DEF q, r, u, v
  <2> QED
    BY <1>1, <1>2, <2>1
<1>12. CASE s = 9
  <2>1. Transform(c, s) = <<-r, -q>> /\ Transform(d, s) = <<-v, -u>>
    BY <1>12, TransformIs DEF q, r, u, v
  <2> QED
    BY <1>1, <1>2, <2>1
<1>13. CASE s = 10
  <2>1. Transform(c, s) = <<q, -q - r>> /\ Transform(d, s) = <<u, -u - v>>
    BY <1>13, TransformIs DEF q, r, u, v
  <2> QED
    BY <1>1, <1>2, <2>1
<1>14. CASE s = 11
  <2>1. Transform(c, s) = <<q + r, -r>> /\ Transform(d, s) = <<u + v, -v>>
    BY <1>14, TransformIs DEF q, r, u, v
  <2> QED
    BY <1>1, <1>2, <2>1
<1> QED
  BY <1>3, <1>4, <1>5, <1>6, <1>7, <1>8, <1>9, <1>10, <1>11, <1>12, <1>13, <1>14, SymmetriesAre

Entries == [cell : Cells, visits : Nat]
DrawnPairs == [first : Cells, second : Cells, visits : Nat]

(* A policy moved by a symmetry. *)
LEMMA PolicyMoves ==
    ASSUME NEW s \in Symmetries, NEW policy \in Seq(Entries)
    PROVE  LET p == TransformPolicy(policy, s)
           IN  /\ p \in Seq(Entries) /\ Len(p) = Len(policy)
               /\ \A k \in 1 .. Len(policy) : /\ p[k].cell = Transform(policy[k].cell, s)
                                              /\ p[k].visits = policy[k].visits
               /\ IsInjective(Ids(policy)) => IsInjective(Ids(p))
<1> DEFINE n == Len(policy)
           p == TransformPolicy(policy, s)
<1>1. n \in Nat /\ DOMAIN policy = 1 .. n /\ \A k \in 1 .. n : policy[k] \in Entries
  BY SeqFacts
<1>2. ASSUME NEW e \in Entries
      PROVE  LET m == [e EXCEPT !.cell = Transform(@, s)]
             IN  m \in Entries /\ m.cell = Transform(e.cell, s) /\ m.visits = e.visits
  <2>1. Transform(e.cell, s) \in Cells
    BY TransformMoves DEF Entries
  <2> QED
    BY <2>1 DEF Entries
<1>3. p = [k \in 1 .. n |-> [policy[k] EXCEPT !.cell = Transform(@, s)]]
  BY <1>1 DEF TransformPolicy
<1> HIDE DEF n, p
<1>4. ASSUME NEW k \in 1 .. n
      PROVE  p[k] \in Entries /\ p[k].cell = Transform(policy[k].cell, s) /\ p[k].visits = policy[k].visits
  <2>1. p[k] = [policy[k] EXCEPT !.cell = Transform(@, s)] /\ policy[k] \in Entries
    BY <1>1, <1>3
  <2> QED
    BY <1>2, <2>1
<1>5. DOMAIN p = 1 .. n /\ p = [k \in 1 .. n |-> p[k]]
  BY <1>3
<1>6. p \in Seq(Entries) /\ Len(p) = n
  <2>1. p \in [1 .. n -> Entries]
    BY <1>4, <1>5
  <2> QED
    BY <1>1, <1>5, <2>1
<1>7. ASSUME IsInjective(Ids(policy)) PROVE IsInjective(Ids(p))
  <2> SUFFICES ASSUME NEW j \in 1 .. n, NEW k \in 1 .. n, p[j].cell = p[k].cell PROVE j = k
    BY <1>5 DEF IsInjective, Ids
  <2>1. policy[j].cell \in Cells /\ policy[k].cell \in Cells
    BY <1>1 DEF Entries
  <2>2. policy[j].cell = policy[k].cell
    BY <1>4, <2>1, TransformMoves
  <2> QED
    BY <1>1, <1>7, <2>2 DEF IsInjective, Ids
<1> QED
  BY <1>4, <1>6, <1>7 DEF n, p

(* The entries with visits. *)
LEMMA PositiveAre ==
    ASSUME NEW policy \in Seq(Entries), IsInjective(Ids(policy))
    PROVE  /\ Ids(Positive(policy)) \in Seq(Cells) /\ Distinct(Ids(Positive(policy)))
           /\ \A e : e \in ToSet(Positive(policy)) <=> \E k \in 1 .. Len(policy) : policy[k] = e /\ e.visits > 0
           /\ ToSet(Ids(Positive(policy))) = {e.cell : e \in ToSet(Positive(policy))}
<1> DEFINE n == Len(policy)
           S == {e \in ToSet(policy) : e.visits > 0}
           t == Positive(policy)
           m == Len(t)
<1>1. n \in Nat /\ DOMAIN policy = 1 .. n /\ \A k \in 1 .. n : policy[k] \in Entries
  BY SeqFacts
<1>2. t = Those(policy, S)
  BY DEF Positive
<1>3. Distinct(policy)
  <2> SUFFICES ASSUME NEW j \in 1 .. n, NEW k \in 1 .. n, policy[j] = policy[k] PROVE j = k
    BY <1>1 DEF Distinct
  <2> QED
    BY <1>1 DEF IsInjective, Ids
<1>4. \A e : e \in S <=> Holds(policy, e) /\ e.visits > 0
  BY DEF ToSet, Holds
<1> HIDE DEF S, t
<1>5. /\ t \in Seq(Entries) /\ Distinct(t)
      /\ \A e : Holds(t, e) <=> Holds(policy, e) /\ e \in S
  BY <1>2, <1>3, ThoseAre
<1>6. m \in Nat /\ DOMAIN t = 1 .. m /\ \A i \in 1 .. m : t[i] \in Entries
  BY <1>5, SeqFacts
<1>7. \A e : e \in ToSet(t) <=> Holds(policy, e) /\ e.visits > 0
  BY <1>4, <1>5 DEF ToSet, Holds
<1> DEFINE u == Ids(t)
<1>8. DOMAIN u = 1 .. m /\ u = [i \in 1 .. m |-> u[i]] /\ \A i \in 1 .. m : u[i] = t[i].cell
  BY <1>6 DEF Ids
<1> HIDE DEF u, m
<1>9. u \in Seq(Cells)
  <2>1. u \in [1 .. m -> Cells]
    BY <1>6, <1>8 DEF Entries
  <2> QED
    BY <1>6, <2>1
<1>10. Distinct(u)
  <2> SUFFICES ASSUME NEW i \in 1 .. m, NEW j \in 1 .. m, u[i] = u[j] PROVE i = j
    BY <1>8 DEF Distinct
  <2>1. t[i].cell = t[j].cell /\ Holds(t, t[i]) /\ Holds(t, t[j])
    <3>1. t[i].cell = t[j].cell
      BY <1>8
    <3> QED
      BY <1>6, <3>1 DEF Holds
  <2>4. Holds(policy, t[i]) /\ Holds(policy, t[j])
    BY <1>5, <2>1
  <2>2. PICK k \in 1 .. n, l \in 1 .. n : policy[k] = t[i] /\ policy[l] = t[j]
    <3>1. \E k \in 1 .. n : policy[k] = t[i]
      BY <1>1, <2>4, Zenon DEF Holds
    <3>2. \E k \in 1 .. n : policy[k] = t[j]
      BY <1>1, <2>4, Zenon DEF Holds
    <3> QED
      BY <3>1, <3>2
  <2>3. k = l
    BY <1>1, <2>1, <2>2 DEF IsInjective, Ids
  <2> QED
    BY <1>5, <1>6, <2>2, <2>3 DEF Distinct
<1>11. ToSet(u) = {e.cell : e \in ToSet(t)}
  BY <1>6, <1>8 DEF ToSet
<1>12. \A e : Holds(policy, e) <=> \E k \in 1 .. n : policy[k] = e
  BY <1>1 DEF Holds
<1> QED
  BY <1>7, <1>9, <1>10, <1>11, <1>12 DEF u, t

(* What two lists joined hold. *)
LEMMA Joined ==
    ASSUME NEW X, NEW a \in Seq(X), NEW b \in Seq(X), Distinct(a), Distinct(b),
           \A x : ~(Holds(a, x) /\ Holds(b, x))
    PROVE  /\ a \o b \in Seq(X) /\ Distinct(a \o b)
           /\ \A x : Holds(a \o b, x) <=> Holds(a, x) \/ Holds(b, x)
<1> DEFINE m == Len(a)
           n == Len(b)
           c == a \o b
<1>1. /\ m \in Nat /\ n \in Nat /\ DOMAIN a = 1 .. m /\ DOMAIN b = 1 .. n
  BY SeqFacts
<1>2. /\ c \in Seq(X) /\ Len(c) = m + n
      /\ \A i \in 1 .. m : c[i] = a[i]
      /\ \A i \in 1 .. n : c[m + i] = b[i]
  BY ConcatProperties
<1>3. DOMAIN c = 1 .. m + n
  BY <1>1, <1>2, SeqFacts
<1> HIDE DEF m, n, c
<1>4. \A i \in 1 .. m + n : (i \in 1 .. m /\ c[i] = a[i]) \/ (i - m \in 1 .. n /\ c[i] = b[i - m])
  <2> SUFFICES ASSUME NEW i \in 1 .. m + n, i \notin 1 .. m PROVE i - m \in 1 .. n /\ c[i] = b[i - m]
    BY <1>2
  <2>1. i - m \in 1 .. n /\ m + (i - m) = i
    BY <1>1
  <2> QED
    BY <1>2, <2>1
<1>5. /\ \A i \in 1 .. m : i \in 1 .. m + n
      /\ \A i \in 1 .. n : m + i \in 1 .. m + n
  BY <1>1
<1>6. \A x : Holds(c, x) <=> Holds(a, x) \/ Holds(b, x)
  BY <1>1, <1>2, <1>3, <1>4, <1>5 DEF Holds
<1>7. Distinct(c)
  <2> SUFFICES ASSUME NEW i \in 1 .. m + n, NEW j \in 1 .. m + n, c[i] = c[j] PROVE i = j
    BY <1>3 DEF Distinct
  <2>1. CASE i \in 1 .. m /\ j \in 1 .. m
    BY <1>1, <1>2, <2>1 DEF Distinct
  <2>2. CASE i \in 1 .. m /\ j \notin 1 .. m
    <3>1. c[i] = a[i] /\ j - m \in 1 .. n /\ c[j] = b[j - m]
      <4>1. c[i] = a[i]
        BY <1>2, <2>2
      <4> QED
        BY <1>4, <2>2, <4>1
    <3>2. Holds(a, c[i]) /\ Holds(b, c[i])
      BY <1>1, <2>2, <3>1 DEF Holds
    <3> QED
      BY <3>2
  <2>3. CASE i \notin 1 .. m /\ j \in 1 .. m
    <3>1. c[j] = a[j] /\ i - m \in 1 .. n /\ c[i] = b[i - m]
      <4>1. c[j] = a[j]
        BY <1>2, <2>3
      <4> QED
        BY <1>4, <2>3, <4>1
    <3>2. Holds(a, c[j]) /\ Holds(b, c[j])
      BY <1>1, <2>3, <3>1 DEF Holds
    <3> QED
      BY <3>2
  <2>4. CASE i \notin 1 .. m /\ j \notin 1 .. m
    <3>1. /\ i - m \in 1 .. n /\ c[i] = b[i - m]
          /\ j - m \in 1 .. n /\ c[j] = b[j - m]
      BY <1>4, <2>4
    <3>2. i - m = j - m
      BY <1>1, <3>1 DEF Distinct
    <3> QED
      BY <1>1, <3>2
  <2> QED
    BY <2>1, <2>2, <2>3, <2>4
<1> QED
  BY <1>2, <1>6, <1>7 DEF c

(* The candidate rows are different cells, and no positive one is missing    *)
(* unless the row says so.                                                   *)
LEMMA CandidatesAre ==
    ASSUME NEW legal \in SUBSET Cells, IsFiniteSet(legal), NEW policy \in Seq(Entries), IsInjective(Ids(policy)),
           NEW tactical \in Seq(Cells), NEW budget \in Int, NEW width \in Nat
    PROVE  LET cand == Candidates(legal, policy, tactical, budget, width)
           IN  /\ cand.cells \in Seq(Cells) /\ Distinct(cand.cells)
               /\ cand.overflow \in BOOLEAN
               /\ cand.overflow \/ \A e \in ToSet(Positive(policy)) : Holds(cand.cells, e.cell)
<1> DEFINE ids == Ids(Positive(policy))
           first == ids \o Those(tactical, legal)
           protected == Unique(first)
           left == legal \ ToSet(protected)
           room == Max({0, budget - Len(protected)})
           rest == Nearest(left, room)
           all == protected \o rest
           cells == Cut(all, width)
           beyond == SubSeq(all, width + 1, Len(all))
           critical == ToSet(ids) \cup ToSet(tactical)
           cand == Candidates(legal, policy, tactical, budget, width)
<1>1. /\ cand.cells = cells /\ cand.overflow = (ToSet(beyond) \cap critical # {})
  BY DEF Candidates, CandidateSet
<1>2. ids \in Seq(Cells) /\ ToSet(ids) = {e.cell : e \in ToSet(Positive(policy))}
  BY PositiveAre
<1>3. Those(tactical, legal) \in Seq(Cells)
  BY ThoseAre
<1> HIDE DEF ids
<1>4. first \in Seq(Cells) /\ \A c \in ToSet(ids) : Holds(first, c)
  <2> DEFINE t == Those(tactical, legal)
  <2>1. t \in Seq(Cells) /\ first = ids \o t
    BY <1>3
  <2> HIDE DEF t, first
  <2>2. /\ first \in Seq(Cells) /\ Len(first) = Len(ids) + Len(t)
        /\ \A i \in 1 .. Len(ids) : first[i] = ids[i]
    BY <1>2, <2>1, ConcatProperties
  <2>3. /\ Len(ids) \in Nat /\ DOMAIN ids = 1 .. Len(ids) /\ Len(t) \in Nat /\ DOMAIN first = 1 .. Len(first)
    BY <1>2, <2>1, <2>2, SeqFacts
  <2>4. \A i \in 1 .. Len(ids) : i \in DOMAIN first
    BY <2>2, <2>3
  <2> QED
    BY <2>2, <2>3, <2>4 DEF ToSet, Holds
<1> HIDE DEF first
<1>5. /\ protected \in Seq(Cells) /\ Distinct(protected)
      /\ \A c \in ToSet(ids) : Holds(protected, c)
  BY <1>4, UniqueIs
<1> HIDE DEF protected
<1>6. left \in SUBSET Cells /\ IsFiniteSet(left) /\ \A c : Holds(protected, c) => c \notin left
  <2>1. \A c : Holds(protected, c) <=> c \in ToSet(protected)
    BY DEF Holds, ToSet
  <2> QED
    BY <2>1, FS_Difference
<1>7. room \in Nat
  <2> DEFINE x == budget - Len(protected)
  <2>1. x \in Int
    BY <1>5, SeqFacts
  <2> HIDE DEF x
  <2>2. CASE x >= 0
    <3>1. Max({0, x}) = x
      BY <2>1, <2>2 DEF Max
    <3> QED
      BY <2>1, <2>2, <3>1 DEF x
  <2>3. CASE ~(x >= 0)
    <3>1. Max({0, x}) = 0
      BY <2>1, <2>3 DEF Max
    <3> QED
      BY <3>1 DEF x
  <2> QED
    BY <2>2, <2>3
<1> HIDE DEF left, room
<1>8. rest \in Seq(left) /\ Distinct(rest)
  BY <1>6, <1>7, NearestAre
<1>9. rest \in Seq(Cells) /\ \A c : Holds(rest, c) => c \in left
  <2>1. Len(rest) \in Nat /\ DOMAIN rest = 1 .. Len(rest) /\ \A i \in 1 .. Len(rest) : rest[i] \in left
    BY <1>8, SeqFacts
  <2>2. Seq(left) \subseteq Seq(Cells)
    BY <1>6
  <2> QED
    BY <1>8, <2>1, <2>2 DEF Holds
<1> HIDE DEF rest
<1>10. /\ all \in Seq(Cells) /\ Distinct(all)
       /\ \A c : Holds(all, c) <=> Holds(protected, c) \/ Holds(rest, c)
  BY <1>5, <1>6, <1>8, <1>9, Joined
<1> HIDE DEF all
<1> DEFINE n == Len(all)
<1>11. n \in Nat /\ DOMAIN all = 1 .. n /\ \A i \in 1 .. n : all[i] \in Cells
  BY <1>10, SeqFacts
<1>12. /\ cells \in Seq(Cells) /\ Len(cells) \in Nat
       /\ \A i \in 1 .. n : i <= width => i \in 1 .. Len(cells) /\ cells[i] = all[i]
       /\ \A i \in 1 .. Len(cells) : i \in 1 .. n /\ cells[i] = all[i]
       /\ DOMAIN cells = 1 .. Len(cells)
  BY <1>10, CutIs, SeqFacts
<1>13. ASSUME NEW i \in 1 .. n, ~(i <= width) PROVE all[i] \in ToSet(beyond)
  <2> DEFINE w == width + 1
             k == i - width
  <2>1. w \in Int /\ k \in 1 .. n - w + 1 /\ w + k - 1 = i /\ w <= n
    BY <1>11, <1>13
  <2>2. \A j \in w .. n : all[j] \in Cells
    BY <1>11
  <2> HIDE DEF w, k, n
  <2>3. /\ SubSeq(all, w, n) \in Seq(Cells) /\ Len(SubSeq(all, w, n)) = n - w + 1
        /\ SubSeq(all, w, n)[k] = all[i]
    BY <1>11, <2>1, <2>2, SubSeqProperties
  <2>4. beyond = SubSeq(all, w, n)
    BY DEF w, n
  <2> HIDE DEF beyond
  <2>5. DOMAIN beyond = 1 .. n - w + 1 /\ beyond[k] = all[i]
    BY <2>3, <2>4, SeqFacts
  <2> QED
    BY <2>1, <2>5 DEF ToSet
<1> HIDE DEF n, cells, beyond
<1>14. Distinct(cells)
  BY <1>10, <1>11, <1>12 DEF Distinct
<1>15. ASSUME ToSet(beyond) \cap critical = {}, NEW e \in ToSet(Positive(policy)) PROVE Holds(cells, e.cell)
  <2>1. e.cell \in critical /\ Holds(all, e.cell)
    BY <1>2, <1>5, <1>10, <1>15
  <2>2. PICK i \in 1 .. n : all[i] = e.cell
    BY <1>11, <2>1 DEF Holds
  <2>3. i <= width
    BY <1>13, <1>15, <2>1, <2>2
  <2> QED
    BY <1>12, <2>2, <2>3 DEF Holds
<1> HIDE DEF critical
<1> QED
  BY <1>1, <1>12, <1>14, <1>15

(* A history moved by a symmetry. *)
LEMMA HistoryMoves ==
    ASSUME NEW s \in Symmetries, NEW h \in Seq([player : Players, cell : Cells])
    PROVE  LET t == TransformHistory(h, s)
           IN  /\ t \in Seq([player : Players, cell : Cells]) /\ Len(t) = Len(h)
               /\ \A k \in 1 .. Len(h) : t[k].cell = Transform(h[k].cell, s)
<1> DEFINE M == [player : Players, cell : Cells]
           n == Len(h)
           t == TransformHistory(h, s)
<1>1. n \in Nat /\ DOMAIN h = 1 .. n /\ \A k \in 1 .. n : h[k] \in M
  <2> HIDE DEF M
  <2>1. h \in Seq(M)
    BY DEF M
  <2> QED
    BY <2>1, SeqFacts
<1>2. ASSUME NEW e \in M
      PROVE  LET m == [e EXCEPT !.cell = Transform(@, s)] IN m \in M /\ m.cell = Transform(e.cell, s)
  BY TransformMoves
<1>3. t = [k \in 1 .. n |-> [h[k] EXCEPT !.cell = Transform(@, s)]]
  BY <1>1 DEF TransformHistory
<1> HIDE DEF n, t, M
<1>4. ASSUME NEW k \in 1 .. n
      PROVE  t[k] \in M /\ t[k].cell = Transform(h[k].cell, s)
  <2>1. t[k] = [h[k] EXCEPT !.cell = Transform(@, s)] /\ h[k] \in M
    BY <1>1, <1>3
  <2> QED
    BY <1>2, <2>1
<1>5. DOMAIN t = 1 .. n /\ t = [k \in 1 .. n |-> t[k]]
  BY <1>3
<1>6. t \in Seq(M) /\ Len(t) = n
  <2>1. t \in [1 .. n -> M]
    BY <1>4, <1>5
  <2> QED
    BY <1>1, <1>5, <2>1
<1> QED
  BY <1>4, <1>6 DEF n, t, M

(* What a row is made from. *)
LEMMA EncodedIs ==
    ASSUME NEW rec \in Records, NEW s \in Symmetries, NEW fresh \in BOOLEAN
    PROVE  LET enc == EncOf(rec, s, fresh)
           IN  /\ enc.legal \in SUBSET Cells /\ IsFiniteSet(enc.legal)
               /\ enc.of = TransformHistory(rec.history, s)
<1> DEFINE h == TransformHistory(rec.history, s)
<1>1. h \in Seq([player : Players, cell : Cells])
  BY RecordsOK, HistoryMoves
<1> HIDE DEF h
<1>2. IsFiniteSet(LegalCells(h)) /\ LegalCells(h) \subseteq Cells
  BY <1>1, LegalCellsAreFinite
<1>3. /\ Encode(h).legal = LegalCells(h) /\ Encode(h).of = h
      /\ TensorOnly(h).legal = {} /\ TensorOnly(h).of = h
  BY DEF Encode, TensorOnly
<1>4. EncOf(rec, s, fresh) = IF fresh THEN Encode(h) ELSE TensorOnly(h)
  BY DEF EncOf, h
<1>5. EncOf(rec, s, fresh) = Encode(h) \/ EncOf(rec, s, fresh) = TensorOnly(h)
  BY <1>4
<1>6. IsFiniteSet({})
  BY FS_EmptySet
<1> QED
  BY <1>2, <1>3, <1>5, <1>6 DEF h

(* A move that a policy has once gets its own visits. *)
LEMMA VisitsOfIs ==
    ASSUME NEW policy \in Seq(Entries), IsInjective(Ids(policy)), NEW c
    PROVE  /\ \A k \in 1 .. Len(policy) : policy[k].cell = c => VisitsOf(policy, c) = policy[k].visits
           /\ (\A k \in 1 .. Len(policy) : policy[k].cell # c) => VisitsOf(policy, c) = 0
<1> DEFINE n == Len(policy)
           f == Visits(policy)
           K == {k \in DOMAIN policy : policy[k].cell = c}
<1>1. n \in Nat /\ DOMAIN policy = 1 .. n /\ \A k \in 1 .. n : policy[k] \in Entries
  BY SeqFacts
<1>2. VisitsOf(policy, c) = SumFunctionOnSet(f, K)
  BY DEF VisitsOf
<1>3. \A k \in 1 .. n : f[k] = policy[k].visits /\ f[k] \in Int
  BY <1>1 DEF Visits, Entries
<1> HIDE DEF f
<1>4. ASSUME NEW k \in 1 .. n, policy[k].cell = c PROVE VisitsOf(policy, c) = policy[k].visits
  <2>1. K = {k}
    BY <1>1, <1>4 DEF IsInjective, Ids
  <2> QED
    BY <1>2, <1>3, <2>1, SumOfOne
<1>5. ASSUME \A k \in 1 .. n : policy[k].cell # c PROVE VisitsOf(policy, c) = 0
  <2>1. K = {}
    BY <1>1, <1>5
  <2> QED
    BY <1>2, <2>1, SumOfNone
<1> QED
  BY <1>4, <1>5

(* The candidate rows of a sampled row. *)
CandidatesOf(rec, s, enc, w) ==
    Candidates(enc.legal, TransformPolicy(rec.policy, s),
               Those([k \in DOMAIN rec.tactical |-> Transform(rec.tactical[k], s)], enc.legal), w, w)

(* The candidates of a sampled row. *)
LEMMA RowCandidates ==
    ASSUME NEW rec \in Records, NEW s \in Symmetries, NEW w \in Nat \ {0}, NEW fresh \in BOOLEAN
    PROVE  LET cand == CandidatesOf(rec, s, EncOf(rec, s, fresh), w)
           IN  /\ cand.cells \in Seq(Cells) /\ Distinct(cand.cells) /\ cand.overflow \in BOOLEAN
               /\ cand.overflow \/ \A e \in ToSet(Positive(TransformPolicy(rec.policy, s))) : Holds(cand.cells, e.cell)
<1> DEFINE enc == EncOf(rec, s, fresh)
           policy == TransformPolicy(rec.policy, s)
           moved == [k \in DOMAIN rec.tactical |-> Transform(rec.tactical[k], s)]
           tactical == Those(moved, enc.legal)
           cand == Candidates(enc.legal, policy, tactical, w, w)
<1>1. policy \in Seq(Entries) /\ IsInjective(Ids(policy))
  <2>1. rec.policy \in Seq(Entries) /\ IsInjective(Ids(rec.policy))
    BY RecordsOK DEF Entries
  <2> QED
    BY <2>1, PolicyMoves
<1>2. tactical \in Seq(Cells)
  <2> DEFINE m == Len(rec.tactical)
  <2>1. rec.tactical \in Seq(Cells)
    BY RecordsOK
  <2>2. m \in Nat /\ DOMAIN rec.tactical = 1 .. m /\ \A k \in 1 .. m : rec.tactical[k] \in Cells
    BY <2>1, SeqFacts
  <2>3. moved \in [1 .. m -> Cells]
    BY <2>2, TransformMoves
  <2>4. moved \in Seq(Cells)
    BY <2>2, <2>3
  <2> HIDE DEF moved
  <2> QED
    BY <2>4, ThoseAre
<1>3. enc.legal \in SUBSET Cells /\ IsFiniteSet(enc.legal) /\ w \in Int /\ w \in Nat
  BY EncodedIs
<1>4. CandidatesOf(rec, s, enc, w) = cand
  BY DEF CandidatesOf
<1> HIDE DEF tactical, policy, enc
<1>5. /\ cand.cells \in Seq(Cells) /\ Distinct(cand.cells) /\ cand.overflow \in BOOLEAN
      /\ cand.overflow \/ \A e \in ToSet(Positive(policy)) : Holds(cand.cells, e.cell)
  BY <1>1, <1>2, <1>3, CandidatesAre
<1> QED
  BY <1>4, <1>5 DEF enc, policy

(* The policy of one row comes home, or the row is not learned from. *)
TargetsHome(row) ==
    LET shown == {k \in DOMAIN row.cells : row.target[k] > 0}
    IN  \/ /\ row.weight = 0 /\ row.oppWeight = 0 /\ shown = {}
        \/ {<<row.cells[k], row.target[k]>> : k \in shown}
                = {<<Transform(e.cell, row.sym), e.visits>> : e \in ToSet(Positive(row.rec.policy))}

(* The policy target of a row is the recorded one, moved. *)
LEMMA TargetsComeBack ==
    ASSUME NEW rec \in Records, NEW s \in Symmetries, NEW w \in Nat \ {0}, NEW fresh \in BOOLEAN
    PROVE  TargetsHome(SampledRow(rec, s, EncOf(rec, s, fresh), w))
<1> DEFINE enc == EncOf(rec, s, fresh)
           row == SampledRow(rec, s, enc, w)
           policy == TransformPolicy(rec.policy, s)
           cand == CandidatesOf(rec, s, enc, w)
           cells == cand.cells
           target == [k \in DOMAIN cells |-> IF cand.overflow THEN 0 ELSE VisitsOf(policy, cells[k])]
           n == Len(rec.policy)
<1>1. /\ row.rec = rec /\ row.sym = s /\ row.cells = cells /\ row.target = target
      /\ cand.overflow => row.weight = 0 /\ row.oppWeight = 0
  BY DEF SampledRow, CandidatesOf
<1>2. rec.policy \in Seq(Entries) /\ IsInjective(Ids(rec.policy))
  BY RecordsOK DEF Entries
<1>3. /\ policy \in Seq(Entries) /\ Len(policy) = n /\ IsInjective(Ids(policy))
      /\ \A k \in 1 .. n : policy[k].cell = Transform(rec.policy[k].cell, s) /\ policy[k].visits = rec.policy[k].visits
  BY <1>2, PolicyMoves
<1>6. /\ cells \in Seq(Cells) /\ Distinct(cells) /\ cand.overflow \in BOOLEAN
      /\ cand.overflow \/ \A e \in ToSet(Positive(policy)) : Holds(cells, e.cell)
  BY RowCandidates
<1> HIDE DEF enc, policy, row
<1> DEFINE over == cand.overflow
<1>7. \A k \in DOMAIN cells : target[k] = IF over THEN 0 ELSE VisitsOf(policy, cells[k])
  OBVIOUS
<1>8. DOMAIN target = DOMAIN cells
  OBVIOUS
<1> HIDE DEF cand, target
<1> DEFINE shown == {k \in DOMAIN cells : target[k] > 0}
           home == {<<Transform(e.cell, s), e.visits>> : e \in ToSet(Positive(rec.policy))}
<1>9. n \in Nat /\ DOMAIN rec.policy = 1 .. n /\ \A k \in 1 .. n : rec.policy[k] \in Entries /\ policy[k] \in Entries
  BY <1>2, <1>3, SeqFacts
<1>20. row.cells = cells /\ row.target = target /\ row.rec = rec /\ row.sym = s
  BY <1>1
<1>21. {k \in DOMAIN row.cells : row.target[k] > 0} = shown
  BY <1>20
<1> HIDE DEF shown, cells
<1>10. ASSUME over PROVE TargetsHome(row)
  <2>1. shown = {}
    BY <1>7, <1>10 DEF shown
  <2>2. row.weight = 0 /\ row.oppWeight = 0
    BY <1>1, <1>10
  <2> QED
    BY <1>21, <2>1, <2>2 DEF TargetsHome
<1>11. ASSUME ~over PROVE TargetsHome(row)
  <2>1. ASSUME NEW k \in shown PROVE <<cells[k], target[k]>> \in home
    <3>1. target[k] = VisitsOf(policy, cells[k]) /\ target[k] > 0
      BY <1>7, <1>11 DEF shown
    <3>2. PICK j \in 1 .. n : policy[j].cell = cells[k]
      <4>1. VisitsOf(policy, cells[k]) # 0
        BY <3>1
      <4> QED
        BY <1>3, <4>1, VisitsOfIs
    <3>3. target[k] = policy[j].visits
      BY <1>3, <3>1, <3>2, VisitsOfIs
    <3> DEFINE e == rec.policy[j]
    <3>4. cells[k] = Transform(e.cell, s) /\ target[k] = e.visits /\ e.visits > 0
      BY <1>3, <3>1, <3>2, <3>3
    <3>5. e \in ToSet(Positive(rec.policy))
      BY <1>2, <3>4, PositiveAre
    <3> HIDE DEF e
    <3> QED
      BY <3>4, <3>5
  <2>2. ASSUME NEW e \in ToSet(Positive(rec.policy))
        PROVE  \E k \in shown : cells[k] = Transform(e.cell, s) /\ target[k] = e.visits
    <3>1. PICK j \in 1 .. n : rec.policy[j] = e /\ e.visits > 0
      BY <1>2, PositiveAre
    <3> DEFINE f == policy[j]
    <3>2. f.cell = Transform(e.cell, s) /\ f.visits = e.visits
      BY <1>3, <3>1
    <3>3. f \in ToSet(Positive(policy))
      <4>1. f.visits > 0
        BY <3>1, <3>2
      <4> QED
        BY <1>3, <4>1, PositiveAre
    <3>4. PICK k \in DOMAIN cells : cells[k] = f.cell
      BY <1>6, <1>11, <3>3 DEF Holds
    <3>5. VisitsOf(policy, cells[k]) = f.visits
      BY <1>3, <3>4, VisitsOfIs
    <3> HIDE DEF f
    <3>6. target[k] = e.visits /\ e.visits > 0
      BY <1>7, <1>11, <3>1, <3>2, <3>5
    <3> QED
      BY <3>2, <3>4, <3>6 DEF shown
  <2>3. {<<cells[k], target[k]>> : k \in shown} \subseteq home
    BY <2>1
  <2>4. ASSUME NEW e \in ToSet(Positive(rec.policy))
        PROVE  <<Transform(e.cell, s), e.visits>> \in {<<cells[k], target[k]>> : k \in shown}
    BY <2>2
  <2>5. home \subseteq {<<cells[k], target[k]>> : k \in shown}
    BY <2>4
  <2>6. {<<cells[k], target[k]>> : k \in shown} = home
    BY <2>3, <2>5
  <2> QED
    BY <1>20, <1>21, <2>6 DEF TargetsHome
<1>12. TargetsHome(row)
  BY <1>6, <1>10, <1>11
<1> QED
  BY <1>12 DEF row, enc

(* A set of two cells has two orders. *)
LEMMA BothEnds ==
    ASSUME NEW i \in Int, NEW j \in Int, i # j
    PROVE  Min({i, j}) # Max({i, j}) /\ {Min({i, j}), Max({i, j})} = {i, j}
<1>1. Min({i, j}) \in {i, j} /\ Min({i, j}) <= i /\ Min({i, j}) <= j
  BY SmallerOfTwo
<1>2. Max({i, j}) \in {i, j} /\ i <= Max({i, j}) /\ j <= Max({i, j})
  <2> DEFINE T == {i, j}
  <2>1. T \in SUBSET Int /\ T # {} /\ i \in T /\ j \in T
    OBVIOUS
  <2>2. IsFiniteSet(T)
    <3>1. IsFiniteSet({i}) /\ T = {i} \cup {j}
      BY FS_Singleton
    <3> QED
      BY <3>1, FS_AddElement
  <2> HIDE DEF T
  <2>3. Max(T) \in T /\ \A x \in T : x <= Max(T)
    BY <2>1, <2>2, GreatestOfFinite
  <2> QED
    BY <2>1, <2>3 DEF T
<1> DEFINE a == Min({i, j})
           b == Max({i, j})
<1>3. a \in {i, j} /\ a <= i /\ a <= j /\ b \in {i, j} /\ i <= b /\ j <= b
  BY <1>1, <1>2
<1> HIDE DEF a, b
<1>4. a # b /\ {a, b} = {i, j}
  BY <1>3
<1> QED
  BY <1>4 DEF a, b

(* Pairs moved by a symmetry. *)
LEMMA PairsMove ==
    ASSUME NEW s \in Symmetries, NEW pairs \in Seq(DrawnPairs)
    PROVE  LET p == TransformPairs(pairs, s)
           IN  /\ p \in Seq(DrawnPairs) /\ Len(p) = Len(pairs)
               /\ \A k \in 1 .. Len(pairs) : /\ p[k].first = Transform(pairs[k].first, s)
                                             /\ p[k].second = Transform(pairs[k].second, s)
                                             /\ p[k].visits = pairs[k].visits
<1> DEFINE n == Len(pairs)
           p == TransformPairs(pairs, s)
<1>1. n \in Nat /\ DOMAIN pairs = 1 .. n /\ \A k \in 1 .. n : pairs[k] \in DrawnPairs
  BY SeqFacts
<1>2. ASSUME NEW e \in DrawnPairs
      PROVE  LET m == [e EXCEPT !.first = Transform(@, s), !.second = Transform(@, s)]
             IN  /\ m \in DrawnPairs /\ m.first = Transform(e.first, s) /\ m.second = Transform(e.second, s)
                 /\ m.visits = e.visits
  <2>1. Transform(e.first, s) \in Cells /\ Transform(e.second, s) \in Cells
    BY TransformMoves DEF DrawnPairs
  <2> QED
    BY <2>1 DEF DrawnPairs
<1>3. p = [k \in 1 .. n |-> [pairs[k] EXCEPT !.first = Transform(@, s), !.second = Transform(@, s)]]
  BY <1>1 DEF TransformPairs
<1> HIDE DEF n, p
<1>4. ASSUME NEW k \in 1 .. n
      PROVE  /\ p[k] \in DrawnPairs /\ p[k].first = Transform(pairs[k].first, s)
             /\ p[k].second = Transform(pairs[k].second, s) /\ p[k].visits = pairs[k].visits
  <2>1. p[k] = [pairs[k] EXCEPT !.first = Transform(@, s), !.second = Transform(@, s)] /\ pairs[k] \in DrawnPairs
    BY <1>1, <1>3
  <2> QED
    BY <1>2, <2>1
<1>5. DOMAIN p = 1 .. n /\ p = [k \in 1 .. n |-> p[k]]
  BY <1>3
<1>6. p \in Seq(DrawnPairs) /\ Len(p) = n
  <2>1. p \in [1 .. n -> DrawnPairs]
    BY <1>4, <1>5
  <2> QED
    BY <1>1, <1>5, <2>1
<1> QED
  BY <1>4, <1>6 DEF n, p

(* The cells of a moved pair are the moved cells, and the record counts for  *)
(* the pair what the moved pairs count for it.                               *)
LEMMA PairsCount ==
    ASSUME NEW s \in Symmetries, NEW pairs \in Seq(DrawnPairs), NEW k \in 1 .. Len(pairs)
    PROVE  LET p == TransformPairs(pairs, s)
           IN  /\ CellsOf(p[k]) = {Transform(c, s) : c \in CellsOf(pairs[k])}
               /\ PairVisits(p, CellsOf(p[k])) = PairVisits(pairs, CellsOf(pairs[k]))
<1> DEFINE n == Len(pairs)
           p == TransformPairs(pairs, s)
<1>1. n \in Nat /\ DOMAIN pairs = 1 .. n /\ \A j \in 1 .. n : pairs[j] \in DrawnPairs
  BY SeqFacts
<1>2. /\ p \in Seq(DrawnPairs) /\ Len(p) = n
      /\ \A j \in 1 .. n : /\ p[j].first = Transform(pairs[j].first, s)
                           /\ p[j].second = Transform(pairs[j].second, s)
                           /\ p[j].visits = pairs[j].visits
  BY PairsMove
<1>3. DOMAIN p = 1 .. n
  BY <1>2, SeqFacts
<1> HIDE DEF n, p
<1>4. ASSUME NEW j \in 1 .. n PROVE CellsOf(p[j]) = {Transform(c, s) : c \in CellsOf(pairs[j])}
  BY <1>2 DEF CellsOf
<1>5. ASSUME NEW j \in 1 .. n PROVE CellsOf(p[j]) = CellsOf(p[k]) <=> CellsOf(pairs[j]) = CellsOf(pairs[k])
  <2> DEFINE A == CellsOf(pairs[j])
             B == CellsOf(pairs[k])
             M(C) == {Transform(c, s) : c \in C}
  <2>1. A \subseteq Cells /\ B \subseteq Cells
    BY <1>1 DEF n, CellsOf, DrawnPairs
  <2>2. CellsOf(p[j]) = M(A) /\ CellsOf(p[k]) = M(B)
    BY <1>4 DEF n
  <2> HIDE DEF A, B
  <2>3. ASSUME M(A) = M(B) PROVE A = B
    <3>1. ASSUME NEW c \in A PROVE c \in B
      <4>1. Transform(c, s) \in M(B)
        BY <2>3
      <4>2. PICK d \in B : Transform(c, s) = Transform(d, s)
        BY <4>1
      <4> QED
        BY <2>1, <4>2, TransformMoves
    <3>2. ASSUME NEW c \in B PROVE c \in A
      <4>1. Transform(c, s) \in M(A)
        BY <2>3
      <4>2. PICK d \in A : Transform(c, s) = Transform(d, s)
        BY <4>1
      <4> QED
        BY <2>1, <4>2, TransformMoves
    <3> QED
      BY <3>1, <3>2
  <2>4. M(A) = M(B) <=> A = B
    BY <2>3
  <2> QED
    BY <2>2, <2>4 DEF A, B
<1>6. Visits(p) = Visits(pairs)
  BY <1>1, <1>2, <1>3 DEF Visits
<1>7. {j \in DOMAIN p : p[j].visits > 0 /\ CellsOf(p[j]) = CellsOf(p[k])}
         = {j \in DOMAIN pairs : pairs[j].visits > 0 /\ CellsOf(pairs[j]) = CellsOf(pairs[k])}
  BY <1>1, <1>2, <1>3, <1>5
<1>8. PairVisits(p, CellsOf(p[k])) = PairVisits(pairs, CellsOf(pairs[k]))
  BY <1>6, <1>7 DEF PairVisits
<1> QED
  BY <1>4, <1>8 DEF n, p

(* A row of pair targets points at two rows of its table that hold a pair.   *)
PointsAt(t, table, p, k) ==
    /\ t.rows[1] # t.rows[2]
    /\ ToSet(t.rows) \subseteq DOMAIN table
    /\ {table[i] : i \in ToSet(t.rows)} = CellsOf(p[k])
    /\ t.visits = PairVisits(p, CellsOf(p[k]))

(* Joint rows show the recorded pairs of two candidates. *)
LEMMA JointRowsPoint ==
    ASSUME NEW cells \in Seq(Cells), Distinct(cells), NEW p \in Seq(DrawnPairs),
           \A k \in 1 .. Len(p) : p[k].visits > 0 => p[k].first # p[k].second,
           NEW w \in Nat, NEW t \in ToSet(JointRows(p, cells, w).rows)
    PROVE  \E k \in 1 .. Len(p) : PointsAt(t, cells, p, k)
<1> DEFINE n == Len(p)
           positive == Positive(p)
           S == {e \in ToSet(p) : e.visits > 0}
           drawn == [k \in DOMAIN positive |-> CellsOf(positive[k])]
           shown == Those(Unique(drawn), SUBSET ToSet(cells))
           places(both) == {i \in DOMAIN cells : cells[i] \in both}
           fit == Min({Len(shown), w})
           rows == [k \in 1 .. fit |->
                        [rows |-> <<Min(places(shown[k])), Max(places(shown[k]))>>, visits |-> PairVisits(p, shown[k])]]
<1>1. n \in Nat /\ DOMAIN p = 1 .. n /\ \A k \in 1 .. n : p[k] \in DrawnPairs
  BY SeqFacts
<1>2. JointRows(p, cells, w).rows = rows
  BY DEF JointRows
<1>3. positive = Those(p, S) /\ \A e : e \in S <=> Holds(p, e) /\ e.visits > 0
  BY DEF Positive, ToSet, Holds
<1> HIDE DEF S, positive
<1>4. positive \in Seq(DrawnPairs) /\ \A e : Holds(positive, e) <=> Holds(p, e) /\ e.visits > 0
  BY <1>3, ThoseAre
<1> DEFINE m == Len(positive)
<1>5. m \in Nat /\ DOMAIN positive = 1 .. m /\ \A k \in 1 .. m : positive[k] \in DrawnPairs
  BY <1>4, SeqFacts
<1>6. drawn \in Seq(SUBSET Cells)
  <2>1. \A k \in 1 .. m : CellsOf(positive[k]) \in SUBSET Cells
    BY <1>5 DEF CellsOf, DrawnPairs
  <2>2. drawn \in [1 .. m -> SUBSET Cells]
    BY <1>5, <2>1
  <2> QED
    BY <1>5, <2>2
<1>7. \A x : Holds(drawn, x) => \E k \in 1 .. n : p[k].visits > 0 /\ x = CellsOf(p[k])
  <2> SUFFICES ASSUME NEW i \in DOMAIN positive PROVE \E k \in 1 .. n : p[k].visits > 0 /\ CellsOf(positive[i]) = CellsOf(p[k])
    BY DEF Holds
  <2>1. Holds(p, positive[i]) /\ positive[i].visits > 0
    BY <1>4 DEF Holds
  <2> QED
    BY <1>1, <2>1 DEF Holds
<1> HIDE DEF drawn
<1>8. /\ Unique(drawn) \in Seq(SUBSET Cells)
      /\ \A x : Holds(Unique(drawn), x) <=> Holds(drawn, x)
  BY <1>6, UniqueIs
<1>9. /\ shown \in Seq(SUBSET Cells)
      /\ \A x : Holds(shown, x) => Holds(drawn, x) /\ x \in SUBSET ToSet(cells)
  <2> DEFINE u == Unique(drawn)
  <2>1. u \in Seq(SUBSET Cells)
    BY <1>8
  <2> HIDE DEF u
  <2>2. /\ Those(u, SUBSET ToSet(cells)) \in Seq(SUBSET Cells)
        /\ \A x : Holds(Those(u, SUBSET ToSet(cells)), x) <=> Holds(u, x) /\ x \in SUBSET ToSet(cells)
    BY <2>1, ThoseAre
  <2> QED
    BY <1>8, <2>2 DEF u
<1> HIDE DEF shown
<1>10. PICK l \in DOMAIN shown : t = rows[l] /\ l \in 1 .. fit
  <2> DEFINE m2 == Len(shown)
  <2>1. m2 \in Nat /\ DOMAIN shown = 1 .. m2
    BY <1>9, SeqFacts
  <2>2. fit \in Int /\ fit <= m2
    <3>1. fit = Min({m2, w})
      OBVIOUS
    <3> HIDE DEF fit, m2
    <3>2. m2 \in Int /\ w \in Int
      BY <2>1
    <3>3. Min({m2, w}) \in {m2, w} /\ Min({m2, w}) <= m2
      BY <3>2, SmallerOfTwo
    <3> QED
      BY ONLY <3>1, <3>2, <3>3
  <2> HIDE DEF fit, m2
  <2>3. PICK l \in 1 .. fit : t = rows[l]
    BY <1>2 DEF ToSet
  <2>4. l \in 1 .. m2
    BY <2>1, <2>2, <2>3
  <2> HIDE DEF rows
  <2> QED
    BY <2>1, <2>3, <2>4
<1> HIDE DEF fit
<1> DEFINE both == shown[l]
           P == places(both)
<1>11. t.rows = <<Min(P), Max(P)>> /\ t.visits = PairVisits(p, both)
  BY <1>10
<1>12. Holds(drawn, both) /\ both \in SUBSET ToSet(cells)
  <2>1. Holds(shown, both)
    BY <1>10 DEF Holds
  <2> QED
    BY <1>9, <2>1
<1>13. PICK k \in 1 .. n : p[k].visits > 0 /\ both = CellsOf(p[k])
  BY <1>7, <1>12
<1> DEFINE a == p[k].first
           b == p[k].second
<1>14. a # b /\ both = {a, b}
  BY <1>13 DEF CellsOf
<1> HIDE DEF both, P, a, b, rows
<1>15. PICK i \in DOMAIN cells, j \in DOMAIN cells : cells[i] = a /\ cells[j] = b
  <2>1. a \in ToSet(cells) /\ b \in ToSet(cells)
    BY <1>12, <1>14
  <2> QED
    BY <2>1 DEF ToSet
<1>16. P = {i, j} /\ i # j
  BY <1>14, <1>15 DEF Distinct, P
<1>17. i \in Int /\ j \in Int
  BY SeqFacts
<1>18. t.rows[1] # t.rows[2] /\ ToSet(t.rows) = {i, j}
  <2>1. Min(P) # Max(P) /\ {Min(P), Max(P)} = {i, j}
    BY <1>16, <1>17, BothEnds
  <2> DEFINE x == Min(P)
             y == Max(P)
  <2>2. t.rows = <<x, y>> /\ x # y /\ {x, y} = {i, j}
    BY <1>11, <2>1
  <2> HIDE DEF x, y
  <2>3. ToSet(<<x, y>>) = {x, y}
    BY DEF ToSet
  <2>4. ToSet(t.rows) = {x, y}
    BY <2>2, <2>3, Zenon
  <2>5. t.rows[1] = x /\ t.rows[2] = y
    BY <2>2
  <2> QED
    BY <2>2, <2>4, <2>5
<1>19. {cells[x] : x \in ToSet(t.rows)} = CellsOf(p[k])
  BY <1>13, <1>14, <1>15, <1>18
<1>20. PointsAt(t, cells, p, k)
  BY <1>11, <1>13, <1>15, <1>18, <1>19 DEF PointsAt
<1> QED
  BY <1>20

(* The rows of a second placement: one for each target, headed by the stone  *)
(* that is on the board.                                                     *)
SecondPoints(t, table, targets) ==
    /\ t.rows[1] # t.rows[2]
    /\ ToSet(t.rows) \subseteq DOMAIN table
    /\ \E k \in 1 .. Len(targets) :
          {table[i] : i \in ToSet(t.rows)} = CellsOf(targets[k]) /\ t.visits = targets[k].visits

(* Second rows show the recorded pairs that begin with the last stone. *)
LEMMA SecondRowsPoint ==
    ASSUME NEW enc, NEW head \in Cells, LastCell(enc.of) = head,
           NEW targets \in Seq(DrawnPairs), \A k \in 1 .. Len(targets) : targets[k].first = head,
           \A j, k \in 1 .. Len(targets) : targets[j].second = targets[k].second => j = k,
           NEW cells \in Seq(Cells), NEW w \in Nat \ {0},
           NEW t \in ToSet(SecondRows(enc, targets, cells, w).rows)
    PROVE  SecondPoints(t, SecondRows(enc, targets, cells, w).table, targets)
<1> DEFINE n == Len(targets)
           drawn == [k \in DOMAIN targets |-> targets[k].second]
           listed == drawn \o Those(cells, enc.legal)
           seconds == Unique(listed)
           shown == Cut(seconds, w - 1)
           table == <<LastCell(enc.of)>> \o shown
           rows == [k \in 1 .. Min({Len(targets), w - 1}) |-> [rows |-> <<1, k + 1>>, visits |-> targets[k].visits]]
<1>1. n \in Nat /\ DOMAIN targets = 1 .. n /\ \A k \in 1 .. n : targets[k] \in DrawnPairs
  BY SeqFacts
<1>2. SecondRows(enc, targets, cells, w).table = table /\ SecondRows(enc, targets, cells, w).rows = rows
  BY DEF SecondRows
<1>3. drawn \in Seq(Cells) /\ Len(drawn) = n /\ \A k \in 1 .. n : drawn[k] = targets[k].second
  <2>1. drawn \in [1 .. n -> Cells]
    BY <1>1 DEF DrawnPairs
  <2> QED
    BY <1>1, <2>1
<1> HIDE DEF drawn
<1>4. /\ listed \in Seq(Cells) /\ Len(listed) \in Nat /\ n <= Len(listed)
      /\ \A k \in 1 .. n : listed[k] = targets[k].second
  <2> DEFINE r == Those(cells, enc.legal)
  <2>1. r \in Seq(Cells)
    BY ThoseAre
  <2> HIDE DEF r
  <2>2. Len(r) \in Nat
    BY <2>1, SeqFacts
  <2>3. listed = drawn \o r
    BY DEF r
  <2> HIDE DEF listed
  <2>4. /\ listed \in Seq(Cells) /\ Len(listed) = Len(drawn) + Len(r)
        /\ \A k \in 1 .. Len(drawn) : listed[k] = drawn[k]
    BY <1>3, <2>1, <2>3, ConcatProperties
  <2>5. /\ Len(listed) = n + Len(r) /\ \A k \in 1 .. n : listed[k] = targets[k].second
    BY <1>3, <2>4
  <2> HIDE DEF n
  <2> QED
    BY <1>1, <2>2, <2>4, <2>5
<1> HIDE DEF listed
<1>5. /\ seconds \in Seq(Cells) /\ n <= Len(seconds)
      /\ \A k \in 1 .. n : seconds[k] = targets[k].second
  <2>1. Apart(listed, n)
    BY <1>4 DEF Apart
  <2>2. BeginsAs(Unique(listed), listed, n)
    <3>1. n \in 0 .. Len(listed)
      BY <1>1, <1>4
    <3> HIDE DEF n
    <3> QED
      BY <1>4, <2>1, <3>1, UniqueIs
  <2> QED
    BY <1>4, <2>2, UniqueIs DEF BeginsAs
<1> HIDE DEF seconds
<1> DEFINE m == w - 1
<1>6. m \in Nat
  OBVIOUS
<1>7. /\ shown \in Seq(Cells) /\ Len(shown) \in Nat
      /\ \A k \in 1 .. n : k <= m => k \in 1 .. Len(shown) /\ shown[k] = targets[k].second
  <2> HIDE DEF m
  <2>1. /\ Cut(seconds, m) \in Seq(Cells)
        /\ \A i \in 1 .. Len(seconds) : i <= m => i \in 1 .. Len(Cut(seconds, m)) /\ Cut(seconds, m)[i] = seconds[i]
    BY <1>5, <1>6, CutIs
  <2>2. Cut(seconds, m) = shown
    BY DEF m
  <2>3. \A k \in 1 .. n : k \in 1 .. Len(seconds)
    BY <1>1, <1>5, SeqFacts
  <2> HIDE DEF shown
  <2> QED
    BY <1>5, <2>1, <2>2, <2>3, SeqFacts
<1> HIDE DEF shown
<1>8. /\ table \in Seq(Cells) /\ Len(table) = 1 + Len(shown) /\ table[1] = head
      /\ \A k \in 1 .. Len(shown) : table[k + 1] = shown[k]
  <2>1. <<head>> \in Seq(Cells) /\ Len(<<head>>) = 1 /\ <<head>>[1] = head
    OBVIOUS
  <2> DEFINE one == <<head>>
  <2>2. one \in Seq(Cells) /\ Len(one) = 1 /\ one[1] = head /\ table = one \o shown
    BY <2>1
  <2> HIDE DEF one, table
  <2>3. /\ table \in Seq(Cells) /\ Len(table) = Len(one) + Len(shown)
        /\ \A i \in 1 .. Len(one) : table[i] = one[i]
        /\ \A i \in 1 .. Len(shown) : table[Len(one) + i] = shown[i]
    <3>1. /\ table \in Seq(Cells) /\ Len(table) = Len(one) + Len(shown)
          /\ \A i \in 1 .. Len(one) + Len(shown) : table[i] = IF i <= Len(one) THEN one[i] ELSE shown[i - Len(one)]
      <4>1. one \in Seq(Cells) /\ shown \in Seq(Cells)
        BY <1>7, <2>2
      <4>2. /\ one \o shown \in Seq(Cells) /\ Len(one \o shown) = Len(one) + Len(shown)
            /\ \A i \in 1 .. Len(one) + Len(shown) :
                  (one \o shown)[i] = IF i <= Len(one) THEN one[i] ELSE shown[i - Len(one)]
        BY ONLY <4>1, ConcatProperties
      <4> QED
        BY <2>2, <4>2
    <3>2. /\ \A i \in 1 .. Len(one) : i \in 1 .. Len(one) + Len(shown) /\ i <= Len(one)
          /\ \A i \in 1 .. Len(shown) : /\ Len(one) + i \in 1 .. Len(one) + Len(shown)
                                       /\ ~(Len(one) + i <= Len(one)) /\ (Len(one) + i) - Len(one) = i
      BY <1>7, <2>2
    <3> QED
      BY <3>1, <3>2
  <2>4. 1 \in 1 .. Len(one) /\ \A i \in 1 .. Len(shown) : i + 1 = Len(one) + i
    BY <1>7, <2>2
  <2>5. table[1] = head /\ Len(table) = 1 + Len(shown)
    BY <2>2, <2>3, <2>4
  <2> QED
    BY <2>3, <2>4, <2>5
<1>9. DOMAIN table = 1 .. 1 + Len(shown)
  BY <1>8, SeqFacts
<1>10. PICK k \in 1 .. Min({n, m}) : t = [rows |-> <<1, k + 1>>, visits |-> targets[k].visits]
  BY <1>2 DEF ToSet
<1>11. k \in 1 .. n /\ k <= m
  <2>1. n \in Int /\ m \in Int
    BY <1>1, <1>6
  <2> HIDE DEF n, m
  <2>2. Min({n, m}) \in {n, m} /\ Min({n, m}) <= n /\ Min({n, m}) <= m
    BY <2>1, SmallerOfTwo
  <2> DEFINE b == Min({n, m})
  <2>3. b \in Int /\ b <= n /\ b <= m /\ k \in 1 .. b
    BY <1>10, <2>1, <2>2
  <2> HIDE DEF b
  <2> QED
    BY <2>1, <2>3
<1> HIDE DEF table, rows
<1>12. k \in 1 .. Len(shown) /\ table[k + 1] = targets[k].second /\ table[1] = head
  BY <1>7, <1>8, <1>11
<1> DEFINE x == k + 1
<1>13. t.rows = <<1, x>> /\ t.visits = targets[k].visits
  BY <1>10
<1>14. x \in Int /\ x # 1 /\ x \in DOMAIN table /\ 1 \in DOMAIN table /\ table[x] = targets[k].second
  BY <1>7, <1>9, <1>12
<1> HIDE DEF x
<1>15. ToSet(t.rows) = {1, x} /\ t.rows[1] = 1 /\ t.rows[2] = x
  <2>1. ToSet(<<1, x>>) = {1, x}
    BY DEF ToSet
  <2>2. ToSet(t.rows) = {1, x}
    BY <1>13, <2>1, Zenon
  <2>3. t.rows[1] = 1 /\ t.rows[2] = x
    BY <1>13
  <2> QED
    BY <2>2, <2>3
<1>16. {table[i] : i \in ToSet(t.rows)} = CellsOf(targets[k])
  <2>1. targets[k].first = head
    BY <1>11
  <2> QED
    BY <1>12, <1>14, <1>15, <2>1 DEF CellsOf
<1> QED
  BY <1>2, <1>11, <1>13, <1>14, <1>15, <1>16 DEF SecondPoints

(* The targets of a second placement are the record's own pairs, each of     *)
(* them the only one with its two cells.                                     *)
LEMMA SecondTargetsAre ==
    ASSUME NEW rec \in Records, NEW s \in Symmetries, NEW fresh \in BOOLEAN
    PROVE  LET enc == EncOf(rec, s, fresh)
               p == TransformPairs(rec.pairs, s)
               targets == SecondTargets(enc, p)
           IN  /\ targets \in Seq(DrawnPairs)
               /\ targets # <<>> => LastCell(enc.of) \in Cells
               /\ \A k \in 1 .. Len(targets) : targets[k].first = LastCell(enc.of)
               /\ \A j, k \in 1 .. Len(targets) : targets[j].second = targets[k].second => j = k
               /\ \A k \in 1 .. Len(targets) : \E j \in 1 .. Len(rec.pairs) :
                     /\ targets[k] = p[j]
                     /\ targets[k].visits = PairVisits(rec.pairs, CellsOf(rec.pairs[j]))
<1> DEFINE enc == EncOf(rec, s, fresh)
           pairs == rec.pairs
           n == Len(pairs)
           p == TransformPairs(pairs, s)
           head == LastCell(enc.of)
           S == {e \in ToSet(p) : /\ e.visits > 0 /\ enc.of # <<>>
                                  /\ e.first = LastCell(enc.of) /\ e.first \notin enc.legal
                                  /\ e.second \in enc.legal}
           targets == SecondTargets(enc, p)
           h == rec.history
<1>1. /\ pairs \in Seq(DrawnPairs) /\ h \in Seq([player : Players, cell : Cells])
      /\ IsInjective([k \in DOMAIN pairs |-> <<pairs[k].first, pairs[k].second>>])
      /\ \A e \in ToSet(pairs) : e.second \notin StonesOf(h)
  BY RecordsOK DEF DrawnPairs
<1>2. n \in Nat /\ DOMAIN pairs = 1 .. n /\ \A k \in 1 .. n : pairs[k] \in DrawnPairs
  BY <1>1, SeqFacts
<1>3. \A j, k \in 1 .. n : pairs[j].first = pairs[k].first /\ pairs[j].second = pairs[k].second => j = k
  BY <1>1, <1>2 DEF IsInjective
<1>4. \A k \in 1 .. n : pairs[k].second \notin StonesOf(h)
  BY <1>1, <1>2 DEF ToSet
<1>5. \A k \in 1 .. n : pairs[k].first \in Cells /\ pairs[k].second \in Cells /\ pairs[k].visits \in Nat
  BY <1>2 DEF DrawnPairs
<1>6. /\ p \in Seq(DrawnPairs) /\ Len(p) = n
      /\ \A k \in 1 .. n : /\ p[k].first = Transform(pairs[k].first, s)
                           /\ p[k].second = Transform(pairs[k].second, s)
                           /\ p[k].visits = pairs[k].visits
  BY <1>1, PairsMove
<1>7. DOMAIN p = 1 .. n
  BY <1>6, SeqFacts
<1>8. enc.of = TransformHistory(h, s)
  BY EncodedIs
<1>9. targets = Those(p, S)
  BY DEF SecondTargets
<1>10. \A e : e \in S => e.visits > 0 /\ enc.of # <<>> /\ e.first = head
  OBVIOUS
<1> HIDE DEF enc, p, pairs, S, n, targets
<1>11. /\ targets \in Seq(DrawnPairs)
       /\ \A e : Holds(targets, e) <=> Holds(p, e) /\ e \in S
       /\ Distinct(p) => Distinct(targets)
  BY <1>6, <1>9, ThoseAre
<1> DEFINE m == Len(targets)
<1>12. m \in Nat /\ DOMAIN targets = 1 .. m
  BY <1>11, SeqFacts
<1>13. Distinct(p)
  <2> SUFFICES ASSUME NEW j \in 1 .. n, NEW k \in 1 .. n, p[j] = p[k] PROVE j = k
    BY <1>7 DEF Distinct
  <2>1. pairs[j].first = pairs[k].first /\ pairs[j].second = pairs[k].second
    BY <1>5, <1>6, TransformMoves
  <2> QED
    BY <1>3, <2>1
<1>14. ASSUME NEW k \in 1 .. m
       PROVE  /\ targets[k].visits > 0 /\ enc.of # <<>> /\ targets[k].first = head
              /\ \E j \in 1 .. n : targets[k] = p[j]
  <2>1. Holds(targets, targets[k])
    BY <1>12 DEF Holds
  <2>2. Holds(p, targets[k]) /\ targets[k] \in S
    BY <1>11, <2>1
  <2>3. \E j \in 1 .. n : p[j] = targets[k]
    BY <1>7, <2>2, Zenon DEF Holds
  <2> QED
    BY <1>10, <2>2, <2>3
<1>15. ASSUME enc.of # <<>>
       PROVE  \E c \in StonesOf(h) : c \in Cells /\ head = Transform(c, s)
  <2> DEFINE l == Len(h)
             g == TransformHistory(h, s)
  <2>1. /\ l \in Nat /\ DOMAIN h = 1 .. l /\ \A k \in 1 .. l : h[k].cell \in Cells
    <3> DEFINE M == [player : Players, cell : Cells]
    <3>1. \A x \in M : x.cell \in Cells
      OBVIOUS
    <3>2. h \in Seq(M)
      BY <1>1
    <3> HIDE DEF M
    <3> QED
      BY <3>1, <3>2, SeqFacts
  <2>2. /\ g \in Seq([player : Players, cell : Cells]) /\ Len(g) = l
        /\ \A k \in 1 .. l : g[k].cell = Transform(h[k].cell, s)
    BY <1>1, HistoryMoves
  <2>3. head = g[Len(g)].cell /\ g # <<>>
    BY <1>8, <1>15 DEF LastCell, Last
  <2> HIDE DEF g, l
  <2>4. l \in 1 .. l
    BY <2>1, <2>2, <2>3
  <2> QED
    BY <2>1, <2>2, <2>3, <2>4 DEF StonesOf
<1>16. ASSUME NEW j \in 1 .. m, NEW k \in 1 .. m, targets[j].second = targets[k].second PROVE j = k
  <2>1. PICK x \in 1 .. n : targets[j] = p[x]
    BY <1>14
  <2>2. PICK y \in 1 .. n : targets[k] = p[y]
    BY <1>14
  <2>3. p[x].first = p[y].first /\ p[x].second = p[y].second
    BY <1>14, <1>16, <2>1, <2>2
  <2>4. pairs[x].first = pairs[y].first /\ pairs[x].second = pairs[y].second
    BY <1>5, <1>6, <2>3, TransformMoves
  <2>5. targets[j] = targets[k]
    BY <1>3, <2>1, <2>2, <2>4
  <2> QED
    BY <1>11, <1>12, <1>13, <2>5 DEF Distinct
<1>17. ASSUME NEW k \in 1 .. m
       PROVE  \E j \in 1 .. n : targets[k] = p[j] /\ targets[k].visits = PairVisits(pairs, CellsOf(pairs[j]))
  <2>1. PICK j \in 1 .. n : targets[k] = p[j]
    BY <1>14
  <2>2. p[j].visits > 0 /\ enc.of # <<>> /\ p[j].first = head
    BY <1>14, <2>1
  <2>3. PICK c \in StonesOf(h) : c \in Cells /\ head = Transform(c, s)
    BY <1>15, <2>2
  <2>4. pairs[j].first = c
    BY <1>5, <1>6, <2>2, <2>3, TransformMoves
  <2> DEFINE K == {i \in DOMAIN pairs : pairs[i].visits > 0 /\ CellsOf(pairs[i]) = CellsOf(pairs[j])}
             f == Visits(pairs)
  <2>5. j \in K
    BY <1>2, <1>6, <2>2 DEF n
  <2>6. ASSUME NEW i \in K PROVE i = j
    <3>1. i \in 1 .. n /\ CellsOf(pairs[i]) = CellsOf(pairs[j])
      BY <1>2 DEF n
    <3> DEFINE a == pairs[i].first
               b == pairs[i].second
               d == pairs[j].second
    <3>2. {a, b} = {c, d}
      BY <2>4, <3>1 DEF CellsOf
    <3>3. b # c /\ d # c
      BY <1>4, <2>3, <3>1
    <3> HIDE DEF a, b, d
    <3>4. a = c /\ b = d
      BY <3>2, <3>3
    <3> QED
      BY <1>3, <2>4, <3>1, <3>4 DEF a, b, d
  <2>7. K = {j}
    BY <2>5, <2>6
  <2>8. f[j] = pairs[j].visits /\ f[j] \in Int
    BY <1>2, <1>5 DEF Visits, n
  <2>9. PairVisits(pairs, CellsOf(pairs[j])) = SumFunctionOnSet(f, K)
    BY DEF PairVisits
  <2> HIDE DEF f, K
  <2>10. SumFunctionOnSet(f, {j}) = f[j]
    BY <2>8, SumOfOne
  <2> QED
    BY <1>6, <2>1, <2>7, <2>8, <2>9, <2>10
<1>18. targets # <<>> => head \in Cells
  <2> SUFFICES ASSUME targets # <<>> PROVE head \in Cells
    OBVIOUS
  <2>1. 1 \in 1 .. m
    BY <1>11, <1>12
  <2>2. enc.of # <<>>
    BY <1>14, <2>1
  <2> QED
    BY <1>15, <2>2, TransformMoves
<1> QED
  BY <1>11, <1>14, <1>16, <1>17, <1>18 DEF enc, p, pairs, targets, n

(* The pairs of one row come home. *)
PairsHome(row) ==
    row.failed \/ \A t \in ToSet(row.pairs.rows) :
        /\ t.rows[1] # t.rows[2]
        /\ ToSet(t.rows) \subseteq DOMAIN row.pairs.table
        /\ \E p \in ToSet(row.rec.pairs) :
              /\ {Transform(c, row.sym) : c \in CellsOf(p)} = {row.pairs.table[k] : k \in ToSet(t.rows)}
              /\ t.visits = PairVisits(row.rec.pairs, CellsOf(p))

(* The pair targets of a row are the recorded ones, moved. *)
LEMMA PairsComeBack ==
    ASSUME NEW rec \in Records, NEW s \in Symmetries, NEW w \in Nat \ {0}, NEW fresh \in BOOLEAN
    PROVE  PairsHome(SampledRow(rec, s, EncOf(rec, s, fresh), w))
<1> DEFINE enc == EncOf(rec, s, fresh)
           row == SampledRow(rec, s, enc, w)
           pairs == rec.pairs
           n == Len(pairs)
           p == TransformPairs(pairs, s)
           cand == CandidatesOf(rec, s, enc, w)
           cells == cand.cells
           targets == SecondTargets(enc, p)
           Home(t, table) ==
               /\ t.rows[1] # t.rows[2]
               /\ ToSet(t.rows) \subseteq DOMAIN table
               /\ \E j \in 1 .. n : /\ {table[k] : k \in ToSet(t.rows)} = CellsOf(p[j])
                                    /\ t.visits = PairVisits(pairs, CellsOf(pairs[j]))
<1>1. /\ row.rec = rec /\ row.sym = s
      /\ cand.overflow => row.pairs.rows = <<>>
      /\ ~cand.overflow => row.pairs = PairTargets(enc, p, cells, w)
      /\ ~cand.overflow => (row.failed <=> PairsFail(enc, p))
  <2>1. /\ row.rec = rec /\ row.sym = s
        /\ row.pairs = IF cand.overflow THEN [table |-> <<>>, rows |-> <<>>, whole |-> 0] ELSE PairTargets(enc, p, cells, w)
        /\ (row.failed <=> ~cand.overflow /\ PairsFail(enc, p))
    <3>1. row.rec = rec /\ row.sym = s
      BY DEF SampledRow
    <3>2. row.pairs = IF cand.overflow THEN [table |-> <<>>, rows |-> <<>>, whole |-> 0] ELSE PairTargets(enc, p, cells, w)
      BY DEF SampledRow, CandidatesOf
    <3>3. (row.failed <=> ~cand.overflow /\ PairsFail(enc, p))
      BY DEF SampledRow, CandidatesOf
    <3> QED
      BY <3>1, <3>2, <3>3
  <2>2. cand.overflow => row.pairs.rows = <<>>
    BY <2>1
  <2> HIDE DEF row, cand, cells, p, enc
  <2> QED
    BY <2>1, <2>2
<1>2. pairs \in Seq(DrawnPairs) /\ n \in Nat /\ DOMAIN pairs = 1 .. n
  BY RecordsOK, SeqFacts DEF DrawnPairs
<1>3. /\ p \in Seq(DrawnPairs) /\ Len(p) = n /\ DOMAIN p = 1 .. n
  BY <1>2, PairsMove, SeqFacts
<1>4. \A k \in 1 .. n : /\ CellsOf(p[k]) = {Transform(c, s) : c \in CellsOf(pairs[k])}
                        /\ PairVisits(p, CellsOf(p[k])) = PairVisits(pairs, CellsOf(pairs[k]))
  BY <1>2, PairsCount
<1>5. cells \in Seq(Cells) /\ Distinct(cells) /\ cand.overflow \in BOOLEAN
  BY RowCandidates
<1>6. /\ targets \in Seq(DrawnPairs)
      /\ targets # <<>> => LastCell(enc.of) \in Cells
      /\ \A k \in 1 .. Len(targets) : targets[k].first = LastCell(enc.of)
      /\ \A j, k \in 1 .. Len(targets) : targets[j].second = targets[k].second => j = k
      /\ \A k \in 1 .. Len(targets) : \E j \in 1 .. n :
            targets[k] = p[j] /\ targets[k].visits = PairVisits(pairs, CellsOf(pairs[j]))
  BY SecondTargetsAre
<1>7. PairTargets(enc, p, cells, w) = IF targets # <<>> THEN SecondRows(enc, targets, cells, w) ELSE JointRows(p, cells, w)
  BY DEF PairTargets
<1>8. PairsFail(enc, p) <=> targets = <<>> /\ \E k \in 1 .. n : IllegalPair(enc, p[k])
  BY <1>3 DEF PairsFail
<1> HIDE DEF enc, row, pairs, p, cand, targets, cells, n
<1>9. ASSUME targets # <<>>, NEW t \in ToSet(SecondRows(enc, targets, cells, w).rows)
      PROVE  Home(t, SecondRows(enc, targets, cells, w).table)
  <2> DEFINE table == SecondRows(enc, targets, cells, w).table
             head == LastCell(enc.of)
  <2>1. head \in Cells /\ LastCell(enc.of) = head /\ \A k \in 1 .. Len(targets) : targets[k].first = head
    BY <1>6, <1>9
  <2> HIDE DEF head
  <2>2. /\ t.rows[1] # t.rows[2]
        /\ ToSet(t.rows) \subseteq DOMAIN table
        /\ \E k \in 1 .. Len(targets) : {table[i] : i \in ToSet(t.rows)} = CellsOf(targets[k]) /\ t.visits = targets[k].visits
    <3>1. SecondPoints(t, table, targets)
      BY <1>5, <1>6, <1>9, <2>1, SecondRowsPoint
    <3> QED
      BY <3>1 DEF SecondPoints
  <2>3. PICK k \in 1 .. Len(targets) :
           {table[i] : i \in ToSet(t.rows)} = CellsOf(targets[k]) /\ t.visits = targets[k].visits
    BY <2>2
  <2>4. PICK j \in 1 .. n : targets[k] = p[j] /\ targets[k].visits = PairVisits(pairs, CellsOf(pairs[j]))
    BY <1>6
  <2> HIDE DEF table
  <2>5. {table[i] : i \in ToSet(t.rows)} = CellsOf(p[j]) /\ t.visits = PairVisits(pairs, CellsOf(pairs[j]))
    BY <2>3, <2>4
  <2> QED
    BY <2>2, <2>5 DEF table
<1>10. ASSUME targets = <<>>, ~PairsFail(enc, p), NEW t \in ToSet(JointRows(p, cells, w).rows)
       PROVE  Home(t, JointRows(p, cells, w).table)
  <2>1. \A k \in 1 .. n : ~IllegalPair(enc, p[k])
    BY <1>8, <1>10
  <2>2. \A k \in 1 .. Len(p) : p[k].visits > 0 => p[k].first # p[k].second
    BY <1>3, <2>1 DEF IllegalPair
  <2>3. PICK j \in 1 .. Len(p) : PointsAt(t, cells, p, j)
    BY <1>3, <1>5, <1>10, <2>2, JointRowsPoint
  <2>4. JointRows(p, cells, w).table = cells
    BY DEF JointRows
  <2> QED
    BY <1>3, <1>4, <2>3, <2>4 DEF PointsAt
<1>11. ASSUME ~cand.overflow, ~row.failed, NEW t \in ToSet(row.pairs.rows) PROVE Home(t, row.pairs.table)
  <2> HIDE DEF Home
  <2>1. CASE targets # <<>>
    <3>1. row.pairs = SecondRows(enc, targets, cells, w)
      BY <1>1, <1>7, <1>11, <2>1
    <3> QED
      BY <1>9, <1>11, <2>1, <3>1
  <2>2. CASE targets = <<>>
    <3>1. row.pairs = JointRows(p, cells, w) /\ ~PairsFail(enc, p)
      BY <1>1, <1>7, <1>11, <2>2
    <3> QED
      BY <1>10, <1>11, <2>2, <3>1
  <2> QED
    BY <2>1, <2>2
<1>12. ASSUME cand.overflow PROVE ToSet(row.pairs.rows) = {}
  <2>1. ToSet(<<>>) = {}
    BY DEF ToSet
  <2> QED
    BY <1>1, <1>12, <2>1
<1>13. ASSUME NEW t, NEW table, Home(t, table)
       PROVE  \E e \in ToSet(pairs) : /\ {Transform(c, s) : c \in CellsOf(e)} = {table[k] : k \in ToSet(t.rows)}
                                      /\ t.visits = PairVisits(pairs, CellsOf(e))
  <2>1. PICK j \in 1 .. n : /\ {table[k] : k \in ToSet(t.rows)} = CellsOf(p[j])
                            /\ t.visits = PairVisits(pairs, CellsOf(pairs[j]))
    BY <1>13
  <2>2. pairs[j] \in ToSet(pairs)
    BY <1>2 DEF ToSet
  <2>3. CellsOf(p[j]) = {Transform(c, s) : c \in CellsOf(pairs[j])}
    BY <1>4
  <2> QED
    BY <2>1, <2>2, <2>3
<1>14. row.rec.pairs = pairs /\ row.sym = s
  BY <1>1 DEF pairs
<1>15. PairsHome(row)
  <2> SUFFICES ASSUME ~row.failed, NEW t \in ToSet(row.pairs.rows)
               PROVE  /\ t.rows[1] # t.rows[2]
                      /\ ToSet(t.rows) \subseteq DOMAIN row.pairs.table
                      /\ \E e \in ToSet(pairs) :
                            /\ {Transform(c, s) : c \in CellsOf(e)} = {row.pairs.table[k] : k \in ToSet(t.rows)}
                            /\ t.visits = PairVisits(pairs, CellsOf(e))
    BY <1>14 DEF PairsHome
  <2>1. Home(t, row.pairs.table)
    <3> HIDE DEF Home
    <3> QED
      BY <1>5, <1>11, <1>12
  <2>2. t.rows[1] # t.rows[2] /\ ToSet(t.rows) \subseteq DOMAIN row.pairs.table
    BY <2>1
  <2>3. \E e \in ToSet(pairs) :
           /\ {Transform(c, s) : c \in CellsOf(e)} = {row.pairs.table[k] : k \in ToSet(t.rows)}
           /\ t.visits = PairVisits(pairs, CellsOf(e))
    <3> HIDE DEF Home
    <3> QED
      BY <1>13, <2>1
  <2> QED
    BY <2>2, <2>3
<1> QED
  BY <1>15 DEF row, enc

Axis(i) == Directions[i + 1]

(* A cell along an axis, in coordinates. *)
LEMMA AlongIs ==
    ASSUME NEW c \in Cells, NEW m \in Int
    PROVE  /\ Along(c, Axis(0), m) = <<c[1] + m, c[2]>>
           /\ Along(c, Axis(1), m) = <<c[1], c[2] + m>>
           /\ Along(c, Axis(2), m) = <<c[1] + m, c[2] - m>>
           /\ \A i \in 0 .. 2 : Along(c, Axis(i), m) \in Cells
<1>1. c[1] \in Int /\ c[2] \in Int
  BY DEF Cells
<1>2. Axis(0) = <<1, 0>> /\ Axis(1) = <<0, 1>> /\ Axis(2) = <<1, -1>>
  BY DEF Axis, Directions
<1>3. /\ Along(c, <<1, 0>>, m) = <<c[1] + m, c[2]>>
      /\ Along(c, <<0, 1>>, m) = <<c[1], c[2] + m>>
      /\ Along(c, <<1, -1>>, m) = <<c[1] + m, c[2] - m>>
  BY <1>1 DEF Along
<1>4. /\ Along(c, Axis(0), m) = <<c[1] + m, c[2]>>
      /\ Along(c, Axis(1), m) = <<c[1], c[2] + m>>
      /\ Along(c, Axis(2), m) = <<c[1] + m, c[2] - m>>
  BY <1>2, <1>3
<1>5. ASSUME NEW i \in 0 .. 2 PROVE Along(c, Axis(i), m) \in Cells
  <2>1. i = 0 \/ i = 1 \/ i = 2
    OBVIOUS
  <2> QED
    BY <1>1, <1>4, <2>1 DEF Cells
<1> QED
  BY <1>4, <1>5

(* Steps along an axis add up. *)
LEMMA AlongAdds ==
    ASSUME NEW c \in Cells, NEW i \in 0 .. 2, NEW m \in Int, NEW n \in Int
    PROVE  Along(Along(c, Axis(i), m), Axis(i), n) = Along(c, Axis(i), m + n)
<1>1. c[1] \in Int /\ c[2] \in Int /\ m + n \in Int
  BY DEF Cells
<1> DEFINE d == Along(c, Axis(i), m)
<1>2. d \in Cells
  BY AlongIs
<1>3. CASE i = 0
  <2>1. d = <<c[1] + m, c[2]>>
    BY <1>3, AlongIs
  <2> HIDE DEF d
  <2>2. Along(d, Axis(0), n) = <<d[1] + n, d[2]>> /\ Along(c, Axis(0), m + n) = <<c[1] + (m + n), c[2]>>
    BY <1>1, <1>2, AlongIs
  <2>3. Along(d, Axis(0), n) = Along(c, Axis(0), m + n)
    BY <1>1, <2>1, <2>2
  <2> QED
    BY <1>3, <2>3 DEF d
<1>4. CASE i = 1
  <2>1. d = <<c[1], c[2] + m>>
    BY <1>4, AlongIs
  <2> HIDE DEF d
  <2>2. Along(d, Axis(1), n) = <<d[1], d[2] + n>> /\ Along(c, Axis(1), m + n) = <<c[1], c[2] + (m + n)>>
    BY <1>1, <1>2, AlongIs
  <2>3. Along(d, Axis(1), n) = Along(c, Axis(1), m + n)
    BY <1>1, <2>1, <2>2
  <2> QED
    BY <1>4, <2>3 DEF d
<1>5. CASE i = 2
  <2>1. d = <<c[1] + m, c[2] - m>>
    BY <1>5, AlongIs
  <2> HIDE DEF d
  <2>2. Along(d, Axis(2), n) = <<d[1] + n, d[2] - n>> /\ Along(c, Axis(2), m + n) = <<c[1] + (m + n), c[2] - (m + n)>>
    BY <1>1, <1>2, AlongIs
  <2>3. Along(d, Axis(2), n) = Along(c, Axis(2), m + n)
    BY <1>1, <2>1, <2>2
  <2> QED
    BY <1>5, <2>3 DEF d
<1> QED
  BY <1>3, <1>4, <1>5

(* What is a line along one axis is one along another after a symmetry, read *)
(* in the same direction or in the other one.                                *)
Onward(s, i, j) ==
    \A c \in Cells, m \in Int : Transform(Along(c, Axis(i), m), s) = Along(Transform(c, s), Axis(j), m)

Backward(s, i, j) ==
    \A c \in Cells, m \in Int : Transform(Along(c, Axis(i), m), s) = Along(Transform(c, s), Axis(j), -m)

Turns(s, i, j) == Onward(s, i, j) \/ Backward(s, i, j)

(* A symmetry turns each axis into one axis, in one of its two senses. *)
LEMMA AxesTurn ==
    ASSUME NEW s \in Symmetries
    PROVE  /\ \A i \in 0 .. 2 : \E j \in 0 .. 2 : Turns(s, i, j)
           /\ \A j \in 0 .. 2 : \E i \in 0 .. 2 : Turns(s, i, j)
<1> DEFINE Goal == /\ \A i \in 0 .. 2 : \E j \in 0 .. 2 : Turns(s, i, j)
                   /\ \A j \in 0 .. 2 : \E i \in 0 .. 2 : Turns(s, i, j)
           On(a, b) == \A x, y, m \in Int : Transform(Along(<<x, y>>, a, m), s) = Along(Transform(<<x, y>>, s), b, m)
           Back(a, b) == \A x, y, m \in Int : Transform(Along(<<x, y>>, a, m), s) = Along(Transform(<<x, y>>, s), b, -m)
<1>1. \A i \in 0 .. 2 : i = 0 \/ i = 1 \/ i = 2
  OBVIOUS
<1>2. 0 \in 0 .. 2 /\ 1 \in 0 .. 2 /\ 2 \in 0 .. 2
  OBVIOUS
<1>20. Axis(0) = <<1, 0>> /\ Axis(1) = <<0, 1>> /\ Axis(2) = <<1, -1>>
  BY DEF Axis, Directions
<1>21. ASSUME NEW i, NEW j
       PROVE  (On(Axis(i), Axis(j)) => Onward(s, i, j)) /\ (Back(Axis(i), Axis(j)) => Backward(s, i, j))
  <2>1. \A c \in Cells : c[1] \in Int /\ c[2] \in Int /\ c = <<c[1], c[2]>>
    BY DEF Cells
  <2> QED
    BY <2>1 DEF Onward, Backward
<1>3. ASSUME s = 0 PROVE Goal
  <2>1. On(<<1, 0>>, <<1, 0>>) /\ On(<<0, 1>>, <<0, 1>>) /\ On(<<1, -1>>, <<1, -1>>)
    BY <1>3 DEF Transform, Along
  <2> HIDE DEF On, Back
  <2>2. Onward(s, 0, 0) /\ Onward(s, 1, 1) /\ Onward(s, 2, 2)
    BY <1>20, <1>21, <2>1
  <2> QED
    BY <1>1, <1>2, <2>2 DEF Turns
<1>4. ASSUME s = 1 PROVE Goal
  <2>1. On(<<1, 0>>, <<0, 1>>) /\ Back(<<0, 1>>, <<1, -1>>) /\ On(<<1, -1>>, <<1, 0>>)
    BY <1>4 DEF Transform, Along
  <2> HIDE DEF On, Back
  <2>2. Onward(s, 0, 1) /\ Backward(s, 1, 2) /\ Onward(s, 2, 0)
    BY <1>20, <1>21, <2>1
  <2> QED
    BY <1>1, <1>2, <2>2 DEF Turns
<1>5. ASSUME s = 2 PROVE Goal
  <2>1. Back(<<1, 0>>, <<1, -1>>) /\ Back(<<0, 1>>, <<1, 0>>) /\ On(<<1, -1>>, <<0, 1>>)
    BY <1>5 DEF Transform, Along
  <2> HIDE DEF On, Back
  <2>2. Backward(s, 0, 2) /\ Backward(s, 1, 0) /\ Onward(s, 2, 1)
    BY <1>20, <1>21, <2>1
  <2> QED
    BY <1>1, <1>2, <2>2 DEF Turns
<1>6. ASSUME s = 3 PROVE Goal
  <2>1. Back(<<1, 0>>, <<1, 0>>) /\ Back(<<0, 1>>, <<0, 1>>) /\ Back(<<1, -1>>, <<1, -1>>)
    BY <1>6 DEF Transform, Along
  <2> HIDE DEF On, Back
  <2>2. Backward(s, 0, 0) /\ Backward(s, 1, 1) /\ Backward(s, 2, 2)
    BY <1>20, <1>21, <2>1
  <2> QED
    BY <1>1, <1>2, <2>2 DEF Turns
<1>7. ASSUME s = 4 PROVE Goal
  <2>1. Back(<<1, 0>>, <<0, 1>>) /\ On(<<0, 1>>, <<1, -1>>) /\ Back(<<1, -1>>, <<1, 0>>)
    BY <1>7 DEF Transform, Along
  <2> HIDE DEF On, Back
  <2>2. Backward(s, 0, 1) /\ Onward(s, 1, 2) /\ Backward(s, 2, 0)
    BY <1>20, <1>21, <2>1
  <2> QED
    BY <1>1, <1>2, <2>2 DEF Turns
<1>8. ASSUME s = 5 PROVE Goal
  <2>1. On(<<1, 0>>, <<1, -1>>) /\ On(<<0, 1>>, <<1, 0>>) /\ Back(<<1, -1>>, <<0, 1>>)
    BY <1>8 DEF Transform, Along
  <2> HIDE DEF On, Back
  <2>2. Onward(s, 0, 2) /\ Onward(s, 1, 0) /\ Backward(s, 2, 1)
    BY <1>20, <1>21, <2>1
  <2> QED
    BY <1>1, <1>2, <2>2 DEF Turns
<1>9. ASSUME s = 6 PROVE Goal
  <2>1. On(<<1, 0>>, <<0, 1>>) /\ On(<<0, 1>>, <<1, 0>>) /\ Back(<<1, -1>>, <<1, -1>>)
    BY <1>9 DEF Transform, Along
  <2> HIDE DEF On, Back
  <2>2. Onward(s, 0, 1) /\ Onward(s, 1, 0) /\ Backward(s, 2, 2)
    BY <1>20, <1>21, <2>1
  <2> QED
    BY <1>1, <1>2, <2>2 DEF Turns
<1>10. ASSUME s = 7 PROVE Goal
  <2>1. Back(<<1, 0>>, <<1, -1>>) /\ On(<<0, 1>>, <<0, 1>>) /\ Back(<<1, -1>>, <<1, 0>>)
    BY <1>10 DEF Transform, Along
  <2> HIDE DEF On, Back
  <2>2. Backward(s, 0, 2) /\ Onward(s, 1, 1) /\ Backward(s, 2, 0)
    BY <1>20, <1>21, <2>1
  <2> QED
    BY <1>1, <1>2, <2>2 DEF Turns
<1>11. ASSUME s = 8 PROVE Goal
  <2>1. Back(<<1, 0>>, <<1, 0>>) /\ Back(<<0, 1>>, <<1, -1>>) /\ Back(<<1, -1>>, <<0, 1>>)
    BY <1>11 DEF Transform, Along
  <2> HIDE DEF On, Back
  <2>2. Backward(s, 0, 0) /\ Backward(s, 1, 2) /\ Backward(s, 2, 1)
    BY <1>20, <1>21, <2>1
  <2> QED
    BY <1>1, <1>2, <2>2 DEF Turns
<1>12. ASSUME s = 9 PROVE Goal
  <2>1. Back(<<1, 0>>, <<0, 1>>) /\ Back(<<0, 1>>, <<1, 0>>) /\ On(<<1, -1>>, <<1, -1>>)
    BY <1>12 DEF Transform, Along
  <2> HIDE DEF On, Back
  <2>2. Backward(s, 0, 1) /\ Backward(s, 1, 0) /\ Onward(s, 2, 2)
    BY <1>20, <1>21, <2>1
  <2> QED
    BY <1>1, <1>2, <2>2 DEF Turns
<1>13. ASSUME s = 10 PROVE Goal
  <2>1. On(<<1, 0>>, <<1, -1>>) /\ Back(<<0, 1>>, <<0, 1>>) /\ On(<<1, -1>>, <<1, 0>>)
    BY <1>13 DEF Transform, Along
  <2> HIDE DEF On, Back
  <2>2. Onward(s, 0, 2) /\ Backward(s, 1, 1) /\ Onward(s, 2, 0)
    BY <1>20, <1>21, <2>1
  <2> QED
    BY <1>1, <1>2, <2>2 DEF Turns
<1>14. ASSUME s = 11 PROVE Goal
  <2>1. On(<<1, 0>>, <<1, 0>>) /\ On(<<0, 1>>, <<1, -1>>) /\ On(<<1, -1>>, <<0, 1>>)
    BY <1>14 DEF Transform, Along
  <2> HIDE DEF On, Back
  <2>2. Onward(s, 0, 0) /\ Onward(s, 1, 2) /\ Onward(s, 2, 1)
    BY <1>20, <1>21, <2>1
  <2> QED
    BY <1>1, <1>2, <2>2 DEF Turns
<1> QED
  BY <1>3, <1>4, <1>5, <1>6, <1>7, <1>8, <1>9, <1>10, <1>11, <1>12, <1>13, <1>14, SymmetriesAre

(* The stones after a symmetry. *)
MovedBy(stones, s) == {Transform(c, s) : c \in stones}

IsRun(stones, i, n) == \E c \in stones : \A m \in 0 .. n - 1 : Along(c, Axis(i), m) \in stones

(* A moved stone is one of the moved stones. *)
LEMMA MovedIn ==
    ASSUME NEW s \in Symmetries, NEW stones \in SUBSET Cells, NEW c \in Cells
    PROVE  Transform(c, s) \in MovedBy(stones, s) <=> c \in stones
<1>1. ASSUME Transform(c, s) \in MovedBy(stones, s) PROVE c \in stones
  <2>1. PICK d \in stones : Transform(c, s) = Transform(d, s)
    BY <1>1 DEF MovedBy
  <2> QED
    BY <2>1, TransformMoves
<1> QED
  BY <1>1 DEF MovedBy

(* A run is one after a symmetry; read backwards, it begins at its other end.*)
LEMMA RunsTurn ==
    ASSUME NEW s \in Symmetries, NEW stones \in SUBSET Cells, NEW i \in 0 .. 2, NEW j \in 0 .. 2, Turns(s, i, j),
           NEW n \in Nat \ {0}
    PROVE  IsRun(stones, i, n) <=> IsRun(MovedBy(stones, s), j, n)
<1> DEFINE moved == MovedBy(stones, s)
<1>1. moved \subseteq Cells
  BY TransformMoves DEF MovedBy
<1>2. \A d \in moved : \E c \in stones : d = Transform(c, s)
  BY DEF MovedBy
<1>3. ASSUME NEW c \in Cells, NEW m \in Int
      PROVE  Along(c, Axis(i), m) \in Cells /\ Along(Transform(c, s), Axis(j), m) \in Cells /\ Transform(c, s) \in Cells
  BY AlongIs, TransformMoves
<1>4. ASSUME NEW c \in Cells, NEW m \in Int
      PROVE  Transform(Along(c, Axis(i), m), s) \in moved <=> Along(c, Axis(i), m) \in stones
  <2>1. Along(c, Axis(i), m) \in Cells
    BY <1>3
  <2> QED
    BY <2>1, MovedIn
<1> HIDE DEF moved
<1>5. CASE Onward(s, i, j)
  <2>1. \A c \in Cells, m \in Int : Along(Transform(c, s), Axis(j), m) = Transform(Along(c, Axis(i), m), s)
    BY <1>5 DEF Onward
  <2>2. ASSUME IsRun(stones, i, n) PROVE IsRun(moved, j, n)
    <3>1. PICK c \in stones : \A m \in 0 .. n - 1 : Along(c, Axis(i), m) \in stones
      BY <2>2 DEF IsRun
    <3>2. Transform(c, s) \in moved
      BY <3>1, MovedIn DEF moved
    <3>3. ASSUME NEW m \in 0 .. n - 1 PROVE Along(Transform(c, s), Axis(j), m) \in moved
      <4>1. m \in Int /\ c \in Cells
        OBVIOUS
      <4> QED
        BY <1>4, <2>1, <3>1, <4>1
    <3> QED
      BY <3>2, <3>3 DEF IsRun
  <2>3. ASSUME IsRun(moved, j, n) PROVE IsRun(stones, i, n)
    <3>1. PICK d \in moved : \A m \in 0 .. n - 1 : Along(d, Axis(j), m) \in moved
      BY <2>3 DEF IsRun
    <3>2. PICK c \in stones : d = Transform(c, s)
      BY <1>2
    <3>3. ASSUME NEW m \in 0 .. n - 1 PROVE Along(c, Axis(i), m) \in stones
      <4>1. m \in Int /\ c \in Cells
        OBVIOUS
      <4> QED
        BY <1>4, <2>1, <3>1, <3>2, <4>1
    <3> QED
      BY <3>3 DEF IsRun
  <2> QED
    BY <2>2, <2>3 DEF moved
<1>6. CASE Backward(s, i, j)
  <2>1. \A c \in Cells, m \in Int : Along(Transform(c, s), Axis(j), -m) = Transform(Along(c, Axis(i), m), s)
    BY <1>6 DEF Backward
  <2>2. ASSUME IsRun(stones, i, n) PROVE IsRun(moved, j, n)
    <3>1. PICK c \in stones : \A m \in 0 .. n - 1 : Along(c, Axis(i), m) \in stones
      BY <2>2 DEF IsRun
    <3> DEFINE e == Along(c, Axis(i), n - 1)
    <3>2. e \in stones /\ c \in Cells /\ n - 1 \in Int
      BY <3>1
    <3>3. Transform(e, s) \in moved
      BY <3>2, MovedIn DEF moved
    <3>4. ASSUME NEW m \in 0 .. n - 1 PROVE Along(Transform(e, s), Axis(j), m) \in moved
      <4> DEFINE k == n - 1 + (-m)
      <4>1. -m \in Int /\ m \in Int /\ -(-m) = m /\ k \in 0 .. n - 1 /\ k \in Int
        OBVIOUS
      <4>2. Along(Transform(e, s), Axis(j), -(-m)) = Transform(Along(e, Axis(i), -m), s)
        BY <2>1, <3>2, <4>1
      <4>3. Along(e, Axis(i), -m) = Along(c, Axis(i), k)
        BY <3>2, <4>1, AlongAdds
      <4> HIDE DEF e, k
      <4>4. Along(c, Axis(i), k) \in stones
        BY <3>1, <4>1
      <4>5. Transform(Along(c, Axis(i), k), s) \in moved
        BY <1>4, <3>2, <4>1, <4>4
      <4> QED
        BY <4>1, <4>2, <4>3, <4>5
    <3> HIDE DEF e
    <3> QED
      BY <3>3, <3>4 DEF IsRun
  <2>3. ASSUME IsRun(moved, j, n) PROVE IsRun(stones, i, n)
    <3>1. PICK d \in moved : \A m \in 0 .. n - 1 : Along(d, Axis(j), m) \in moved
      BY <2>3 DEF IsRun
    <3>2. PICK c \in stones : d = Transform(c, s)
      BY <1>2
    <3> DEFINE l == -(n - 1)
               e == Along(c, Axis(i), l)
    <3>3. l \in Int /\ c \in Cells /\ -l = n - 1 /\ n - 1 \in 0 .. n - 1
      OBVIOUS
    <3>4. e \in stones
      <4> HIDE DEF e, l
      <4>1. Along(d, Axis(j), n - 1) \in moved
        BY <3>1, <3>3
      <4>2. Transform(Along(c, Axis(i), l), s) \in moved
        BY <2>1, <3>2, <3>3, <4>1
      <4>3. Along(c, Axis(i), l) \in stones
        BY <1>4, <3>3, <4>2
      <4> QED
        BY <4>3 DEF e
    <3>5. ASSUME NEW m \in 0 .. n - 1 PROVE Along(e, Axis(i), m) \in stones
      <4> DEFINE k == l + m
      <4>1. m \in Int /\ k \in Int /\ -k \in 0 .. n - 1
        OBVIOUS
      <4>2. Along(e, Axis(i), m) = Along(c, Axis(i), k)
        BY <3>3, <4>1, AlongAdds
      <4> HIDE DEF e, l, k
      <4>3. Along(d, Axis(j), -k) \in moved
        BY <3>1, <4>1
      <4>4. Transform(Along(c, Axis(i), k), s) \in moved
        BY <2>1, <3>2, <3>3, <4>1, <4>3
      <4>5. Along(c, Axis(i), k) \in stones
        BY <1>4, <3>3, <4>1, <4>4
      <4> QED
        BY <4>2, <4>5
    <3> HIDE DEF e
    <3> QED
      BY <3>4, <3>5 DEF IsRun
  <2> QED
    BY <2>2, <2>3 DEF moved
<1> QED
  BY <1>5, <1>6 DEF Turns

(* A symmetry keeps the number of stones and the longest runs. *)
LEMMA RunsKeepLength ==
    ASSUME NEW s \in Symmetries, NEW stones \in SUBSET Cells, IsFiniteSet(stones),
           NEW i \in 0 .. 2, NEW j \in 0 .. 2, Turns(s, i, j)
    PROVE  LongestRun(MovedBy(stones, s), j) = LongestRun(stones, i)
<1> DEFINE moved == MovedBy(stones, s)
           f == [c \in stones |-> Transform(c, s)]
<1>1. Cardinality(moved) = Cardinality(stones)
  <2>1. f \in [stones -> moved] /\ (\A d \in moved : \E c \in stones : f[c] = d)
    BY DEF MovedBy
  <2>2. \A c, d \in stones : f[c] = f[d] => c = d
    BY TransformMoves
  <2> HIDE DEF f, moved
  <2>3. f \in Surjection(stones, moved)
    BY <2>1 DEF Surjection
  <2>4. f \in Injection(stones, moved)
    BY <2>1, <2>2 DEF Injection, IsInjective
  <2> QED
    BY <2>3, <2>4, FS_Surjection
<1>2. \A n \in 1 .. Cardinality(stones) : IsRun(stones, i, n) <=> IsRun(moved, j, n)
  <2>1. \A n \in 1 .. Cardinality(stones) : n \in Nat \ {0}
    BY FS_CardinalityType
  <2> QED
    BY <2>1, RunsTurn
<1> HIDE DEF moved
<1>3. \A x, k : LongestRun(x, k) = Max({0} \cup {n \in 1 .. Cardinality(x) : IsRun(x, k, n)})
  BY DEF LongestRun, IsRun, Axis
<1>4. {n \in 1 .. Cardinality(stones) : IsRun(stones, i, n)} = {n \in 1 .. Cardinality(moved) : IsRun(moved, j, n)}
  BY <1>1, <1>2
<1>5. LongestRun(moved, j) = LongestRun(stones, i)
  BY <1>3, <1>4
<1> QED
  BY <1>5 DEF moved

(* The longest run of a finite set is a number. *)
LEMMA RunsAreNumbers ==
    ASSUME NEW stones, IsFiniteSet(stones), NEW i
    PROVE  LongestRun(stones, i) \in Int
<1> DEFINE c == Cardinality(stones)
           K == {n \in 1 .. c : \E d \in stones : \A m \in 0 .. n - 1 : Along(d, Directions[i + 1], m) \in stones}
           T == {0} \cup K
<1>1. c \in Nat
  BY FS_CardinalityType
<1>2. LongestRun(stones, i) = Max(T)
  BY DEF LongestRun
<1>3. K \in SUBSET (1 .. c) /\ IsFiniteSet(1 .. c)
  BY <1>1, FS_Interval
<1>4. 1 .. c \subseteq Int
  OBVIOUS
<1> HIDE DEF K, c
<1>5. IsFiniteSet(T) /\ T \in SUBSET Int /\ T # {}
  <2>1. IsFiniteSet(K) /\ IsFiniteSet({0})
    BY <1>3, FS_Subset, FS_Singleton
  <2>2. IsFiniteSet(T)
    BY <2>1, FS_Union
  <2>3. K \subseteq Int
    BY <1>3, <1>4
  <2> QED
    BY <2>2, <2>3
<1> HIDE DEF T
<1>6. Max(T) \in Int
  BY <1>5, GreatestOfFinite
<1> QED
  BY <1>2, <1>6

(* The dominant axis has the longest run, and is the one that has it alone.  *)
LEMMA DominantIs ==
    ASSUME NEW stones, IsFiniteSet(stones), stones # {}
    PROVE  /\ DominantAxis(stones) \in 0 .. 2
           /\ \A k \in 0 .. 2 : LongestRun(stones, k) <= LongestRun(stones, DominantAxis(stones))
<1> DEFINE v(i) == LongestRun(stones, i)
           Is(i) == /\ \A j \in 0 .. 2 : v(j) <= v(i)
                    /\ \A j \in 0 .. i - 1 : v(j) < v(i)
<1>1. DominantAxis(stones) = CHOOSE i \in 0 .. 2 : Is(i)
  BY DEF DominantAxis
<1>2. v(0) \in Int /\ v(1) \in Int /\ v(2) \in Int
  BY RunsAreNumbers
<1> HIDE DEF v
<1>3. /\ \A i \in 0 .. 2 : i = 0 \/ i = 1 \/ i = 2
      /\ 0 \in 0 .. 2 /\ 1 \in 0 .. 2 /\ 2 \in 0 .. 2
      /\ 0 .. 0 - 1 = {} /\ 0 .. 1 - 1 = {0} /\ 0 .. 2 - 1 = {0, 1}
  OBVIOUS
<1>4. CASE v(1) <= v(0) /\ v(2) <= v(0)
  <2>1. Is(0)
    BY <1>2, <1>3, <1>4
  <2> HIDE DEF Is
  <2>2. \E i \in 0 .. 2 : Is(i)
    BY <1>3, <2>1
  <2>3. DominantAxis(stones) \in 0 .. 2 /\ Is(DominantAxis(stones))
    BY <1>1, <2>2, Zenon
  <2> QED
    BY <2>3 DEF Is, v
<1>5. CASE v(0) < v(1) /\ v(2) <= v(1)
  <2>1. Is(1)
    BY <1>2, <1>3, <1>5
  <2> HIDE DEF Is
  <2>2. \E i \in 0 .. 2 : Is(i)
    BY <1>3, <2>1
  <2>3. DominantAxis(stones) \in 0 .. 2 /\ Is(DominantAxis(stones))
    BY <1>1, <2>2, Zenon
  <2> QED
    BY <2>3 DEF Is, v
<1>6. CASE v(0) < v(2) /\ v(1) < v(2)
  <2>1. Is(2)
    BY <1>2, <1>3, <1>6
  <2> HIDE DEF Is
  <2>2. \E i \in 0 .. 2 : Is(i)
    BY <1>3, <2>1
  <2>3. DominantAxis(stones) \in 0 .. 2 /\ Is(DominantAxis(stones))
    BY <1>1, <2>2, Zenon
  <2> QED
    BY <2>3 DEF Is, v
<1> QED
  BY <1>2, <1>4, <1>5, <1>6

(* The only axis with the longest run is the dominant one. *)
LEMMA DominantAlone ==
    ASSUME NEW stones, IsFiniteSet(stones), stones # {}, NEW b \in 0 .. 2,
           \A k \in 0 .. 2 : LongestRun(stones, k) <= LongestRun(stones, b),
           Cardinality({j \in 0 .. 2 : \A k \in 0 .. 2 : LongestRun(stones, k) <= LongestRun(stones, j)}) = 1
    PROVE  DominantAxis(stones) = b
<1> DEFINE longest == {j \in 0 .. 2 : \A k \in 0 .. 2 : LongestRun(stones, k) <= LongestRun(stones, j)}
           a == DominantAxis(stones)
<1>1. a \in longest /\ b \in longest
  BY DominantIs
<1>2. IsFiniteSet(longest)
  <2>1. IsFiniteSet(0 .. 2) /\ longest \in SUBSET (0 .. 2)
    <3>1. IsFiniteSet(0 .. 2)
      <4> DEFINE x == 0
                 y == 1
                 z == 2
      <4>1. 0 .. 2 = ({x} \cup {y}) \cup {z}
        OBVIOUS
      <4> HIDE DEF x, y, z
      <4>2. IsFiniteSet({x})
        BY FS_Singleton
      <4>3. IsFiniteSet({x} \cup {y})
        BY <4>2, FS_AddElement
      <4>4. IsFiniteSet(({x} \cup {y}) \cup {z})
        BY <4>3, FS_AddElement
      <4> QED
        BY <4>1, <4>4
    <3> QED
      BY <3>1
  <2> HIDE DEF longest
  <2> QED
    BY <2>1, FS_Subset
<1>3. Cardinality(longest) = 1
  OBVIOUS
<1> HIDE DEF longest, a
<1>4. PICK x : longest = {x}
  BY <1>2, <1>3, FS_Singleton
<1> QED
  BY <1>1, <1>4 DEF a

(* The axis label after a symmetry. *)
LEMMA AxisIs ==
    ASSUME NEW s \in Symmetries, NEW i \in 0 .. 2, NEW j \in 0 .. 2, Turns(s, i, j)
    PROVE  TransformAxis(i, s) = j
<1> DEFINE Ends(k) == {Directions[k + 1], Along(Origin, Directions[k + 1], -1)}
<1>1. Origin \in Cells /\ Origin = <<0, 0>> /\ Transform(Origin, s) = Origin
  <2>1. Origin \in Cells
    BY DEF Origin, Cells
  <2>2. Transform(Origin, s) = Origin
    <3>1. s \in 0 .. 11
      BY SymmetriesOK
    <3> QED
      BY <3>1, SymmetriesAre DEF Transform, Origin
  <2> QED
    BY <2>1, <2>2 DEF Origin
<1>2. /\ Ends(0) = {<<1, 0>>, <<-1, 0>>}
      /\ Ends(1) = {<<0, 1>>, <<0, -1>>}
      /\ Ends(2) = {<<1, -1>>, <<-1, 1>>}
  BY DEF Directions, Along, Origin
<1>3. ASSUME NEW k \in 0 .. 2
      PROVE  Along(Origin, Axis(k), 1) = Directions[k + 1] /\ Ends(k) = {Along(Origin, Axis(k), 1), Along(Origin, Axis(k), -1)}
  <2>1. k = 0 \/ k = 1 \/ k = 2
    OBVIOUS
  <2>2. Along(Origin, Axis(k), 1) = Directions[k + 1]
    BY <2>1 DEF Along, Origin, Axis, Directions
  <2> QED
    BY <2>2 DEF Axis
<1>4. Transform(Directions[i + 1], s) \in Ends(j)
  <2> HIDE DEF Ends
  <2>1. 1 \in Int
    OBVIOUS
  <2>2. Transform(Along(Origin, Axis(i), 1), s) \in {Along(Origin, Axis(j), 1), Along(Origin, Axis(j), -1)}
    BY <1>1, <2>1 DEF Turns, Onward, Backward
  <2> QED
    BY <1>3, <2>2
<1>5. ASSUME NEW k \in 0 .. 2, Transform(Directions[i + 1], s) \in Ends(k) PROVE k = j
  <2> DEFINE x == Transform(Directions[i + 1], s)
  <2>1. x \in Ends(k) /\ x \in Ends(j)
    BY <1>4, <1>5
  <2>2. (k = 0 \/ k = 1 \/ k = 2) /\ (j = 0 \/ j = 1 \/ j = 2)
    OBVIOUS
  <2> HIDE DEF x, Ends
  <2>3. /\ ~(x \in Ends(0) /\ x \in Ends(1))
        /\ ~(x \in Ends(0) /\ x \in Ends(2))
        /\ ~(x \in Ends(1) /\ x \in Ends(2))
    BY <1>2
  <2> QED
    BY <2>1, <2>2, <2>3
<1>6. TransformAxis(i, s) = CHOOSE k \in 0 .. 2 : Transform(Directions[i + 1], s) \in Ends(k)
  <2>1. ~(i < 0)
    OBVIOUS
  <2> QED
    BY <2>1 DEF TransformAxis
<1> HIDE DEF Ends
<1> QED
  BY <1>4, <1>5, <1>6

(* The axis of one row is that of the moved line. *)
AxisHome(row) ==
    LET line == {Transform(c, row.sym) : c \in row.rec.line}
        longest == {j \in 0 .. 2 : \A k \in 0 .. 2 : LongestRun(line, k) <= LongestRun(line, j)}
    IN  Cardinality(longest) = 1 => row.axis = DominantAxis(line)

(* The axis label of a row is that of the moved line. *)
LEMMA AxisComesBack ==
    ASSUME NEW rec \in Records, NEW s \in Symmetries, NEW w \in Nat \ {0}, NEW fresh \in BOOLEAN
    PROVE  AxisHome(SampledRow(rec, s, EncOf(rec, s, fresh), w))
<1> DEFINE row == SampledRow(rec, s, EncOf(rec, s, fresh), w)
           stones == rec.line
           line == MovedBy(stones, s)
           longest == {j \in 0 .. 2 : \A k \in 0 .. 2 : LongestRun(line, k) <= LongestRun(line, j)}
<1>1. row.rec = rec /\ row.sym = s /\ row.axis = TransformAxis(rec.axis, s)
  BY DEF SampledRow
<1>2. stones \in SUBSET Cells /\ IsFiniteSet(stones) /\ rec.axis = DominantAxis(stones)
  BY RecordsOK
<1> HIDE DEF row
<1>3. {Transform(c, row.sym) : c \in row.rec.line} = line
  BY <1>1 DEF MovedBy
<1> SUFFICES ASSUME Cardinality(longest) = 1 PROVE TransformAxis(DominantAxis(stones), s) = DominantAxis(line)
  <2> HIDE DEF stones, line
  <2>1. AxisHome(row)
    BY <1>1, <1>2, <1>3 DEF AxisHome
  <2> QED
    BY <2>1 DEF row
<1>4. IsFiniteSet(line) /\ (stones = {} <=> line = {})
  <2> DEFINE f == [c \in stones |-> Transform(c, s)]
  <2>1. DOMAIN f = stones /\ line = {f[c] : c \in stones}
    BY DEF MovedBy
  <2> HIDE DEF f, line
  <2>2. IsFiniteSet(line)
    BY <1>2, <2>1, ImagesAreFinite
  <2> QED
    BY <2>1, <2>2
<1> HIDE DEF stones
<1>5. CASE stones = {}
  <2>1. DominantAxis(stones) = -1 /\ DominantAxis(line) = -1
    BY <1>4, <1>5 DEF DominantAxis
  <2>2. TransformAxis(-1, s) = -1
    BY DEF TransformAxis
  <2> QED
    BY <2>1, <2>2
<1>6. CASE stones # {}
  <2> DEFINE a == DominantAxis(stones)
  <2>1. a \in 0 .. 2 /\ \A k \in 0 .. 2 : LongestRun(stones, k) <= LongestRun(stones, a)
    BY <1>2, <1>6, DominantIs
  <2>2. PICK b \in 0 .. 2 : Turns(s, a, b)
    BY <2>1, AxesTurn
  <2> HIDE DEF a
  <2>3. TransformAxis(a, s) = b
    BY <2>1, <2>2, AxisIs
  <2>4. LongestRun(line, b) = LongestRun(stones, a)
    BY <1>2, <2>1, <2>2, RunsKeepLength
  <2>5. ASSUME NEW k \in 0 .. 2 PROVE LongestRun(line, k) <= LongestRun(line, b)
    <3>1. PICK i \in 0 .. 2 : Turns(s, i, k)
      BY AxesTurn
    <3>2. LongestRun(line, k) = LongestRun(stones, i)
      BY <1>2, <3>1, RunsKeepLength
    <3> QED
      BY <2>1, <2>4, <3>2
  <2>6. DominantAxis(line) = b
    <3>1. Cardinality(longest) = 1
      OBVIOUS
    <3> HIDE DEF line
    <3> QED
      BY <1>4, <1>6, <2>5, <3>1, DominantAlone
  <2> QED
    BY <2>3, <2>6 DEF a
<1> QED
  BY <1>5, <1>6

(* Whatever the symmetry, the targets of a record come home: its policy at   *)
(* candidate rows, its pairs at pairs of rows, its axis on the line; or the  *)
(* row says that they do not fit and is not learned from.                    *)
THEOREM TargetsComeHomeHolds == SamplerSpec => []TargetsComeHome
<1>1. HasRows(sampler) => TargetsComeHome
  <2> SUFFICES ASSUME HasRows(sampler) PROVE TargetsComeHome
    OBVIOUS
  <2>1. DOMAIN sampler.rows = 1 .. Len(sampler.rows) /\ \A i \in DOMAIN sampler.rows : sampler.rows[i] \in SampledRows
    BY SeqFacts DEF HasRows
  <2>2. ASSUME NEW i \in DOMAIN sampler.rows
        PROVE  TargetsHome(sampler.rows[i]) /\ PairsHome(sampler.rows[i]) /\ AxisHome(sampler.rows[i])
    <3>1. PICK rec \in Records, s \in Symmetries, w \in Nat \ {0}, fresh \in BOOLEAN :
             sampler.rows[i] = SampledRow(rec, s, EncOf(rec, s, fresh), w)
      BY <2>1 DEF SampledRows
    <3> DEFINE row == SampledRow(rec, s, EncOf(rec, s, fresh), w)
    <3>2. TargetsHome(row) /\ PairsHome(row) /\ AxisHome(row)
      BY TargetsComeBack, PairsComeBack, AxisComesBack
    <3>3. sampler.rows[i] = row
      BY <3>1
    <3> HIDE DEF row
    <3> QED
      BY <3>2, <3>3
  <2>3. NoTargetLostSilently
    BY <2>2, Zenon DEF NoTargetLostSilently, TargetsHome
  <2>4. PairRowsPointHome
    BY <2>2, Zenon DEF PairRowsPointHome, PairsHome
  <2>5. AxisFollowsTheBoard
    BY <2>2, Zenon DEF AxisFollowsTheBoard, AxisHome
  <2> QED
    BY <2>3, <2>4, <2>5 DEF TargetsComeHome
<1> QED
  BY <1>1, SamplerKeepsRows, PTL

=============================================================================
