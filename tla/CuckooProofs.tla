------------------------------ MODULE CuckooProofs ------------------------------
(***************************************************************************)
(* The cuckoo filter keeps what it owes: theorems about CuckooFilter.      *)
(* A fingerprint is counted in the two buckets of its pair; a kick only    *)
(* moves fingerprints between the buckets of their pairs, so the count     *)
(* changes by the insertions and deletions of the keys of that class       *)
(* alone.                                                                  *)
(***************************************************************************)
EXTENDS CuckooFilter, FiniteSetTheorems, WellFoundedInduction, TLAPS

-----------------------------------------------------------------------------
(* Least members, and induction along a range.                             *)

LEMMA LeastMember ==
  ASSUME NEW S, S \subseteq Nat, S # {}  PROVE Min(S) \in S /\ \A j \in S : Min(S) <= j
<1>1. PICK m \in S : \A j \in S : ~(<<j, m>> \in OpToRel(<, Nat))
  BY NatLessThanWellFounded, WFMin
<1>2. \A j \in S : ~(j < m)
  BY <1>1 DEF OpToRel
<1>3. \A j \in S : m <= j
  BY <1>2
<1> QED BY <1>3 DEF Min

LEMMA RangeInduction ==
  ASSUME NEW N \in Nat, NEW S, NEW c, c[0] \in S,
         \A n \in 1 .. N : c[n - 1] \in S => c[n] \in S
  PROVE  \A n \in 0 .. N : c[n] \in S
<1> DEFINE B == {n \in 0 .. N : c[n] \notin S}
<1> SUFFICES ASSUME B # {}  PROVE FALSE
  OBVIOUS
<1> HIDE DEF B
<1>1. B \subseteq Nat
  BY DEF B
<1>2. Min(B) \in B /\ \A j \in B : Min(B) <= j
  BY <1>1, LeastMember
<1> DEFINE m == Min(B)
<1>3. m \in B /\ \A j \in B : m <= j
  BY <1>2
<1> HIDE DEF m
<1>4. m \in 1 .. N /\ m - 1 \in 0 .. N /\ ~(m <= m - 1)
  BY <1>3 DEF B
<1>5. c[m - 1] \in S
  BY <1>3, <1>4 DEF B
<1> QED BY <1>3, <1>4, <1>5 DEF B

(* A function that is defined by recursion along a range exists.           *)
StepsIn(S, N) == [S \X (1 .. N) -> S]
ChainIn(S, N, base, step, a) ==
  a \in [0 .. N -> S] /\ a[0] = base /\ \A n \in 1 .. N : a[n] = step[<<a[n - 1], n>>]

LEMMA Recursion ==
  ASSUME NEW S, NEW N, N \in Nat, NEW base, base \in S, NEW step, step \in StepsIn(S, N)
  PROVE  \E a : ChainIn(S, N, base, step, a)
<1>0. step \in [S \X (1 .. N) -> S]
  BY DEF StepsIn
<1> DEFINE G == {n \in 0 .. N : \E a \in [0 .. n -> S] :
                   a[0] = base /\ \A j \in 1 .. n : a[j] = step[<<a[j - 1], j>>]}
           c == [n \in 0 .. N |-> n]
<1>1. c[0] \in G
  <2> DEFINE z == [n \in 0 .. 0 |-> base]
  <2>1. z \in [0 .. 0 -> S] /\ z[0] = base /\ 1 .. 0 = {} /\ 0 \in 0 .. N /\ c[0] = 0
    OBVIOUS
  <2> HIDE DEF z, c
  <2> QED BY <2>1
<1>2. ASSUME NEW n \in 1 .. N, c[n - 1] \in G  PROVE c[n] \in G
  <2>1. n - 1 \in 0 .. N /\ n \in 0 .. N /\ c[n - 1] = n - 1 /\ c[n] = n
    OBVIOUS
  <2>2. PICK a \in [0 .. n - 1 -> S] : a[0] = base /\ \A j \in 1 .. n - 1 : a[j] = step[<<a[j - 1], j>>]
    BY <1>2, <2>1
  <2> DEFINE b == [j \in 0 .. n |-> IF j = n THEN step[<<a[n - 1], n>>] ELSE a[j]]
  <2>3. n - 1 \in 0 .. n - 1 /\ a[n - 1] \in S /\ <<a[n - 1], n>> \in S \X (1 .. N)
    BY <2>1
  <2>4. step[<<a[n - 1], n>>] \in S
    BY <1>0, <2>3
  <2>5. ASSUME NEW j \in 0 .. n  PROVE b[j] \in S
    <3>1. j # n => j \in 0 .. n - 1
      BY <2>1
    <3> QED BY <2>4, <3>1
  <2>6. b \in [0 .. n -> S]
    BY <2>5
  <2>7. b[0] = base
    BY <2>1, <2>2
  <2>8. ASSUME NEW j \in 1 .. n  PROVE b[j] = step[<<b[j - 1], j>>]
    <3>1. j \in 0 .. n /\ j - 1 \in 0 .. n /\ j - 1 # n /\ (j # n => j \in 1 .. n - 1)
      BY <2>1
    <3>2. b[j - 1] = a[j - 1]
      BY <3>1
    <3> QED BY <2>2, <3>1, <3>2
  <2> QED BY <2>1, <2>6, <2>7, <2>8
<1> HIDE DEF G, c
<1>3. \A n \in 0 .. N : c[n] \in G
  BY <1>1, <1>2, RangeInduction
<1>4. N \in G
  BY <1>3 DEF c
<1> QED BY <1>4 DEF G, ChainIn


-----------------------------------------------------------------------------
(* Buckets and fingerprints.                                               *)

FilterType == [Buckets -> [SlotIdx -> Nat]]
Hashes == [lo : Nat, hi : Nat]

LEMMA BucketFacts ==
  /\ \A h \in Hashes : idx(h) \in Buckets /\ fingerprint(h) \in Nat \ {0}
  /\ \A b \in Buckets, fp \in Nat : alt(b, fp) \in Buckets /\ alt(alt(b, fp), fp) = b
<1> DEFINE n == BucketCount
           u == 1540483477 % n
<1>1. n \in Nat \ {0} /\ Buckets = 0 .. n - 1
  BY CuckooAssumption DEF Buckets
<1>2. u \in Nat
  BY <1>1
<1> HIDE DEF u
<1>3. \A fp \in Nat : mask(fp) \in Buckets
  <2> SUFFICES ASSUME NEW fp \in Nat  PROVE mask(fp) \in Buckets
    OBVIOUS
  <2> DEFINE t == fp * u + 27492
  <2>1. t \in Nat
    BY <1>2
  <2>2. mask(fp) = t % n
    BY DEF mask, u
  <2> HIDE DEF t, n
  <2> QED BY <1>1, <2>1, <2>2
<1>4. \A h \in Hashes : idx(h) \in Buckets /\ fingerprint(h) \in Nat \ {0}
  BY <1>1 DEF idx, fingerprint, Hashes
<1> QED BY <1>3, <1>4, XorAssumption DEF alt

(* A pair is closed under the step from a bucket to its alternative, and   *)
(* has every bucket it shares with another pair of the fingerprint.        *)
LEMMA PairFacts ==
  ASSUME NEW h \in Hashes
  PROVE  /\ pair(h) \subseteq Buckets
         /\ \A b \in Buckets : b \in pair(h) <=> alt(b, fingerprint(h)) \in pair(h)
         /\ \A g \in Hashes : SameClass(g, h) <=> fingerprint(g) = fingerprint(h) /\ idx(g) \in pair(h)
         /\ \A g \in Hashes : SameClass(g, h) <=> fingerprint(g) = fingerprint(h) /\ alt(idx(g), fingerprint(g)) \in pair(h)
<1> DEFINE x == fingerprint(h)
<1>1. x \in Nat /\ idx(h) \in Buckets /\ pair(h) = {idx(h), alt(idx(h), x)}
  BY BucketFacts DEF pair
<1>2. \A b \in Buckets : alt(b, x) \in Buckets /\ alt(alt(b, x), x) = b
  BY <1>1, BucketFacts
<1> HIDE DEF x
<1>3. \A b \in Buckets : b \in pair(h) <=> alt(b, x) \in pair(h)
  BY <1>1, <1>2
<1>4. ASSUME NEW g \in Hashes, fingerprint(g) = x
      PROVE  (pair(g) = pair(h) <=> idx(g) \in pair(h)) /\ (idx(g) \in pair(h) <=> alt(idx(g), x) \in pair(h))
  <2>1. idx(g) \in Buckets /\ pair(g) = {idx(g), alt(idx(g), x)}
    BY <1>4, BucketFacts DEF pair
  <2> QED BY <1>1, <1>2, <2>1
<1> QED BY <1>1, <1>2, <1>3, <1>4 DEF SameClass, x

-----------------------------------------------------------------------------
(* Counting a fingerprint in a set of buckets.                             *)

One(P, x, b, v) == IF b \in P /\ v = x THEN 1 ELSE 0
Cells(f, P, x) == {bs \in P \X SlotIdx : f[bs[1]][bs[2]] = x}
Count(f, P, x) == Cardinality(Cells(f, P, x))

LEMMA CellsFinite ==
  ASSUME NEW f, NEW P \in SUBSET Buckets, NEW x
  PROVE  IsFiniteSet(Cells(f, P, x)) /\ Count(f, P, x) \in Nat
<1>1. IsFiniteSet(Buckets) /\ IsFiniteSet(SlotIdx)
  BY CuckooAssumption, FS_Interval DEF Buckets, SlotIdx
<1>2. IsFiniteSet(P)
  BY <1>1, FS_Subset
<1>3. IsFiniteSet(P \X SlotIdx)
  BY <1>1, <1>2, FS_Product
<1>4. Cells(f, P, x) \in SUBSET (P \X SlotIdx)
  BY DEF Cells
<1>5. IsFiniteSet(Cells(f, P, x))
  BY <1>3, <1>4, FS_Subset
<1> QED BY <1>5, FS_CardinalityType DEF Count

Writes(f, g, b, s, v) == g = [f EXCEPT ![b][s] = v]

(* Writing v into one cell takes away what it held and adds v.             *)
LEMMA CellEdit ==
  ASSUME NEW f \in FilterType, NEW P \in SUBSET Buckets, NEW x,
         NEW b \in Buckets, NEW s \in SlotIdx, NEW v \in Nat,
         NEW g, Writes(f, g, b, s, v)
  PROVE  Count(g, P, x) + One(P, x, b, f[b][s])
         = Count(f, P, x) + One(P, x, b, v)
<1> DEFINE z == <<b, s>>
           A == Cells(f, P, x)
           B == Cells(g, P, x)
<1>1. \A c \in Buckets, t \in SlotIdx : g[c][t] = IF c = b /\ t = s THEN v ELSE f[c][t]
  BY DEF FilterType, Writes
<1>2. A \ {z} = B \ {z}
  <2>1. \A c \in P, t \in SlotIdx : <<c, t>> # z => g[c][t] = f[c][t]
    BY <1>1
  <2> HIDE DEF z
  <2> QED BY <2>1 DEF Cells
<1>3. (z \in A <=> b \in P /\ f[b][s] = x) /\ (z \in B <=> b \in P /\ v = x)
  BY <1>1 DEF Cells
<1>4. IsFiniteSet(A) /\ IsFiniteSet(B) /\ Cardinality(A) \in Nat /\ Cardinality(B) \in Nat
  BY CellsFinite DEF Count
<1> HIDE DEF A, B, z
<1>5. ASSUME NEW C, IsFiniteSet(C), Cardinality(C) \in Nat
      PROVE  Cardinality(C \ {z}) + (IF z \in C THEN 1 ELSE 0) = Cardinality(C)
  <2>1. Cardinality(C \ {z}) = IF z \in C THEN Cardinality(C) - 1 ELSE Cardinality(C)
    BY <1>5, FS_RemoveElement
  <2> QED BY <1>5, <2>1
<1>6. Cardinality(A \ {z}) \in Nat
  BY <1>4, FS_RemoveElement, FS_CardinalityType
<1>7. /\ Cardinality(A \ {z}) + (IF z \in A THEN 1 ELSE 0) = Cardinality(A)
      /\ Cardinality(A \ {z}) + (IF z \in B THEN 1 ELSE 0) = Cardinality(B)
  BY <1>2, <1>4, <1>5
<1>8. One(P, x, b, f[b][s]) = (IF z \in A THEN 1 ELSE 0) /\ One(P, x, b, v) = (IF z \in B THEN 1 ELSE 0)
  BY <1>3 DEF One
<1>9. Cardinality(B) + One(P, x, b, f[b][s]) = Cardinality(A) + One(P, x, b, v)
  BY <1>4, <1>6, <1>7, <1>8
<1> QED BY <1>9 DEF Count, A, B

LEMMA EditType ==
  ASSUME NEW f \in FilterType, NEW b \in Buckets, NEW s \in SlotIdx, NEW v \in Nat,
         NEW g, Writes(f, g, b, s, v)
  PROVE  g \in FilterType
BY DEF FilterType, Writes

(* The first slot of a bucket that holds a value.                          *)
LEMMA FirstSlot ==
  ASSUME NEW f \in FilterType, NEW b \in Buckets, NEW v, bucket_has(f, b, v)
  PROVE  /\ Min({t \in SlotIdx : f[b][t] = v}) \in SlotIdx
         /\ f[b][Min({t \in SlotIdx : f[b][t] = v})] = v
<1> DEFINE S == {t \in SlotIdx : f[b][t] = v}
<1>1. S # {} /\ S \subseteq Nat
  BY CuckooAssumption DEF bucket_has, SlotIdx
<1> HIDE DEF S
<1>2. Min(S) \in S
  BY <1>1, LeastMember
<1> QED BY <1>2 DEF S

LEMMA PutCounts ==
  ASSUME NEW f \in FilterType, NEW P \in SUBSET Buckets, NEW x \in Nat \ {0},
         NEW b \in Buckets, NEW v \in Nat, has_empty_slot(f, b)
  PROVE  /\ put(f, b, v) \in FilterType
         /\ Count(put(f, b, v), P, x) = Count(f, P, x) + One(P, x, b, v)
<1> DEFINE s == Min({t \in SlotIdx : f[b][t] = 0})
<1>1. s \in SlotIdx /\ f[b][s] = 0
  BY FirstSlot DEF has_empty_slot
<1>2. Writes(f, put(f, b, v), b, s, v)
  BY DEF put, Writes
<1> HIDE DEF s
<1>3. put(f, b, v) \in FilterType
  BY <1>1, <1>2, EditType
<1>4. Count(put(f, b, v), P, x) + One(P, x, b, f[b][s]) = Count(f, P, x) + One(P, x, b, v)
  BY <1>1, <1>2, CellEdit
<1>5. One(P, x, b, f[b][s]) = 0
  BY <1>1 DEF One
<1>6. Count(put(f, b, v), P, x) \in Nat
  BY CellsFinite
<1> QED BY <1>3, <1>4, <1>5, <1>6

-----------------------------------------------------------------------------
(* The kick loop: what is carried counts as being in the bucket it left    *)
(* for, and no round changes what its pair holds of a fingerprint.         *)

KickState == [f : FilterType, fp : Nat, b : Buckets]
Closed(P, x) == \A b \in Buckets : b \in P <=> alt(b, x) \in P
Weight(c, P, x) == Count(c.f, P, x) + One(P, x, c.b, c.fp)

LEMMA KickKeepsWeight ==
  ASSUME NEW c \in KickState, NEW k \in Nat,
         NEW P \in SUBSET Buckets, NEW x \in Nat \ {0}, Closed(P, x)
  PROVE  kick(c, k) \in KickState /\ Weight(kick(c, k), P, x) = Weight(c, P, x)
<1> DEFINE s == k % SLOTS
           kicked == c.f[c.b][s]
           f == [c.f EXCEPT ![c.b][s] = c.fp]
           b == alt(c.b, kicked)
<1>1. s \in SlotIdx
  BY CuckooAssumption DEF SlotIdx
<1>2. kick(c, k) = IF has_empty_slot(f, b) THEN [f |-> put(f, b, kicked), fp |-> 0, b |-> b]
                   ELSE [f |-> f, fp |-> kicked, b |-> b]
  BY DEF kick
<1>3. Writes(c.f, f, c.b, s, c.fp)
  BY DEF Writes
<1> HIDE DEF s, f
<1>4. c.f \in FilterType /\ c.fp \in Nat /\ c.b \in Buckets
  BY DEF KickState
<1>5. kicked \in Nat
  BY <1>1, <1>4 DEF FilterType
<1>6. f \in FilterType
  BY <1>1, <1>3, <1>4, EditType
<1>7. Count(f, P, x) + One(P, x, c.b, kicked) = Weight(c, P, x)
  BY <1>1, <1>3, <1>4, CellEdit DEF Weight
<1> HIDE DEF kicked
<1>8. b \in Buckets
  BY <1>4, <1>5, BucketFacts
<1>9. One(P, x, c.b, kicked) = One(P, x, b, kicked)
  BY <1>4 DEF Closed, One
<1> HIDE DEF b
<1>10. CASE has_empty_slot(f, b)
  <2>1. /\ put(f, b, kicked) \in FilterType
        /\ Count(put(f, b, kicked), P, x) = Count(f, P, x) + One(P, x, b, kicked)
    BY <1>5, <1>6, <1>8, <1>10, PutCounts
  <2>2. kick(c, k) = [f |-> put(f, b, kicked), fp |-> 0, b |-> b]
    BY <1>2, <1>10
  <2>3. One(P, x, b, 0) = 0
    BY DEF One
  <2>4. Count(put(f, b, kicked), P, x) \in Nat
    BY CellsFinite
  <2>5. Weight(kick(c, k), P, x) = Count(put(f, b, kicked), P, x)
    BY <2>2, <2>3, <2>4 DEF Weight
  <2> QED BY <1>7, <1>8, <1>9, <2>1, <2>2, <2>5 DEF KickState
<1>11. CASE ~has_empty_slot(f, b)
  <2>1. kick(c, k) = [f |-> f, fp |-> kicked, b |-> b]
    BY <1>2, <1>11
  <2>2. Weight(kick(c, k), P, x) = Count(f, P, x) + One(P, x, b, kicked)
    BY <2>1 DEF Weight
  <2> QED BY <1>5, <1>6, <1>7, <1>8, <1>9, <2>1, <2>2 DEF KickState
<1> QED BY <1>10, <1>11

(* What a round keeps, the loop keeps.                                     *)
LEMMA KicksInduction ==
  ASSUME NEW f, NEW h, NEW S,
         [f |-> f, fp |-> fingerprint(h), b |-> idx(h)] \in S,
         \A c \in S, k \in Nat : kick(c, k) \in S
  PROVE  kicks(f, h) \in S
<1> DEFINE N == MAX_KICKS
           base == [f |-> f, fp |-> fingerprint(h), b |-> idx(h)]
           round(x, n) == IF x.fp = 0 THEN x ELSE kick(x, n - 1)
           body(a) == [n \in 0 .. N |-> IF n = 0 THEN base ELSE round(a[n - 1], n)]
           c == CHOOSE a : a = body(a)
           step == [x \in S \X (1 .. N) |-> round(x[1], x[2])]
<1>1. kicks(f, h) = c[N]
  BY DEF kicks
<1>2. N \in Nat
  BY CuckooAssumption
<1>3. base \in S
  OBVIOUS
<1> HIDE DEF N, base
<1>4. \A x \in S, n \in 1 .. N : round(x, n) \in S
  BY <1>2
<1> HIDE DEF round
<1>5. step \in StepsIn(S, N)
  BY <1>4 DEF StepsIn
<1>6. PICK a : a \in [0 .. N -> S] /\ a[0] = base /\ \A n \in 1 .. N : a[n] = step[<<a[n - 1], n>>]
  <2> HIDE DEF step
  <2>1. \E a : ChainIn(S, N, base, step, a)
    BY <1>2, <1>3, <1>5, Recursion
  <2> QED BY <2>1 DEF ChainIn
<1>7. a = body(a)
  <2>1. \A n \in 1 .. N : a[n] = round(a[n - 1], n)
    <3> SUFFICES ASSUME NEW n \in 1 .. N  PROVE a[n] = round(a[n - 1], n)
      OBVIOUS
    <3>1. <<a[n - 1], n>> \in S \X (1 .. N)
      BY <1>2, <1>6
    <3> QED BY <1>6, <3>1
  <2> HIDE DEF step
  <2> QED BY <1>6, <2>1
<1>8. c = body(c)
  <2> HIDE DEF body
  <2> QED BY <1>7
<1> HIDE DEF c
<1>9. c[0] = base /\ \A n \in 1 .. N : c[n] = round(c[n - 1], n)
  BY <1>2, <1>8
<1>10. c[0] \in S /\ \A n \in 1 .. N : c[n - 1] \in S => c[n] \in S
  BY <1>3, <1>4, <1>9
<1>11. \A n \in 0 .. N : c[n] \in S
  <2> HIDE DEF body
  <2> QED BY <1>2, <1>10, RangeInduction, Zenon
<1> QED BY <1>1, <1>2, <1>11

LEMMA KicksKeepWeight ==
  ASSUME NEW f \in FilterType, NEW h \in Hashes,
         NEW P \in SUBSET Buckets, NEW x \in Nat \ {0}, Closed(P, x)
  PROVE  /\ kicks(f, h) \in KickState
         /\ Weight(kicks(f, h), P, x) = Count(f, P, x) + One(P, x, idx(h), fingerprint(h))
<1> DEFINE base == [f |-> f, fp |-> fingerprint(h), b |-> idx(h)]
           w == Weight(base, P, x)
           S == {c \in KickState : Weight(c, P, x) = w}
<1>1. base \in KickState
  BY BucketFacts DEF KickState
<1>2. w = Count(f, P, x) + One(P, x, idx(h), fingerprint(h))
  BY DEF Weight
<1>3. base \in S
  BY <1>1
<1> HIDE DEF w
<1>4. \A c \in S, k \in Nat : kick(c, k) \in S
  BY KickKeepsWeight
<1>5. kicks(f, h) \in S
  <2> HIDE DEF S
  <2> QED BY <1>3, <1>4, KicksInduction
<1> QED BY <1>2, <1>5

-----------------------------------------------------------------------------
(* Insertion and deletion.                                                 *)

LEMMA InsertCounts ==
  ASSUME NEW f \in FilterType, NEW h \in Hashes,
         NEW P \in SUBSET Buckets, NEW x \in Nat \ {0}, Closed(P, x)
  PROVE  /\ insert(f, h) \in FilterType
         /\ spilled(f, h) \in Nat
         /\ spilled(f, h) = 0 =>
              Count(insert(f, h), P, x) = Count(f, P, x) + One(P, x, idx(h), fingerprint(h))
<1> DEFINE fp == fingerprint(h)
           b1 == idx(h)
           b2 == alt(b1, fp)
<1>1. b1 \in Buckets /\ b2 \in Buckets /\ fp \in Nat
  BY BucketFacts
<1>2. insert(f, h) = IF b1 \in roomFor(f, h) THEN put(f, b1, fp)
                     ELSE IF roomFor(f, h) # {} THEN put(f, b2, fp) ELSE kicks(f, h).f
  BY DEF insert
<1>3. roomFor(f, h) = {b \in {b1, b2} : has_empty_slot(f, b)}
  BY DEF roomFor
<1>4. One(P, x, b2, fp) = One(P, x, b1, fp)
  BY <1>1 DEF Closed, One
<1>5. spilled(f, h) = IF roomFor(f, h) = {} THEN kicks(f, h).fp ELSE 0
  BY DEF spilled
<1>6. kicks(f, h) \in KickState /\ Weight(kicks(f, h), P, x) = Count(f, P, x) + One(P, x, b1, fp)
  BY KicksKeepWeight
<1> HIDE DEF fp, b1, b2
<1>7. CASE b1 \in roomFor(f, h)
  <2>1. has_empty_slot(f, b1) /\ insert(f, h) = put(f, b1, fp) /\ spilled(f, h) = 0
    BY <1>2, <1>3, <1>5, <1>7
  <2> QED BY <1>1, <2>1, PutCounts DEF fp, b1
<1>8. CASE b1 \notin roomFor(f, h) /\ roomFor(f, h) # {}
  <2>1. has_empty_slot(f, b2)
    BY <1>3, <1>8
  <2> QED BY <1>1, <1>2, <1>4, <1>5, <1>8, <2>1, PutCounts DEF fp, b1
<1>9. CASE roomFor(f, h) = {}
  <2> DEFINE c == kicks(f, h)
  <2>1. insert(f, h) = c.f /\ spilled(f, h) = c.fp
    BY <1>2, <1>5, <1>9
  <2> HIDE DEF c
  <2>2. c.f \in FilterType /\ c.fp \in Nat
    BY <1>6 DEF KickState, c
  <2>3. Weight(c, P, x) = Count(f, P, x) + One(P, x, b1, fp)
    BY <1>6 DEF c
  <2>4. ASSUME c.fp = 0  PROVE Weight(c, P, x) = Count(c.f, P, x)
    <3>1. One(P, x, c.b, c.fp) = 0
      BY <2>4 DEF One
    <3>2. Count(c.f, P, x) \in Nat
      BY CellsFinite
    <3> QED BY <3>1, <3>2 DEF Weight
  <2> QED BY <2>1, <2>2, <2>3, <2>4 DEF fp, b1
<1> QED BY <1>7, <1>8, <1>9

LEMMA DeleteType ==
  ASSUME NEW f \in FilterType, NEW h \in Hashes  PROVE delete(f, h) \in FilterType
<1> DEFINE fp == fingerprint(h)
           b == IF bucket_has(f, idx(h), fp) THEN idx(h) ELSE alt(idx(h), fp)
           s == Min({t \in SlotIdx : f[b][t] = fp})
<1>1. b \in Buckets
  BY BucketFacts
<1>2. delete(f, h) = IF bucket_has(f, b, fp) THEN [f EXCEPT ![b][s] = 0] ELSE f
  BY DEF delete
<1> HIDE DEF b
<1>3. CASE bucket_has(f, b, fp)
  <2>1. s \in SlotIdx
    BY <1>1, <1>3, FirstSlot
  <2>2. Writes(f, delete(f, h), b, s, 0)
    BY <1>2, <1>3 DEF Writes
  <2> HIDE DEF s
  <2> QED BY <1>1, <2>1, <2>2, EditType
<1> QED BY <1>2, <1>3

LEMMA DeleteCounts ==
  ASSUME NEW f \in FilterType, NEW h \in Hashes, Count(f, pair(h), fingerprint(h)) # 0,
         NEW P \in SUBSET Buckets, NEW x \in Nat \ {0}, Closed(P, x)
  PROVE  Count(delete(f, h), P, x) + One(P, x, idx(h), fingerprint(h)) = Count(f, P, x)
<1> DEFINE fp == fingerprint(h)
           b == IF bucket_has(f, idx(h), fp) THEN idx(h) ELSE alt(idx(h), fp)
           s == Min({t \in SlotIdx : f[b][t] = fp})
<1>1. idx(h) \in Buckets /\ alt(idx(h), fp) \in Buckets /\ fp \in Nat \ {0}
  BY BucketFacts
<1>2. delete(f, h) = IF bucket_has(f, b, fp) THEN [f EXCEPT ![b][s] = 0] ELSE f
  BY DEF delete
<1>3. pair(h) = {idx(h), alt(idx(h), fp)}
  BY DEF pair
<1>4. One(P, x, b, fp) = One(P, x, idx(h), fp)
  BY <1>1 DEF Closed, One
<1>5. bucket_has(f, b, fp)
  <2>1. Cells(f, pair(h), fp) # {}
    BY FS_EmptySet DEF Count
  <2>2. PICK c \in pair(h), t \in SlotIdx : f[c][t] = fp
    BY <2>1 DEF Cells
  <2> QED BY <1>3, <2>2 DEF bucket_has
<1>6. b \in Buckets
  BY <1>1
<1> HIDE DEF fp, b
<1>7. s \in SlotIdx /\ f[b][s] = fp
  BY <1>5, <1>6, FirstSlot
<1>8. Writes(f, delete(f, h), b, s, 0)
  BY <1>2, <1>5 DEF Writes
<1> HIDE DEF s
<1>10. Count(delete(f, h), P, x) + One(P, x, b, f[b][s]) = Count(f, P, x) + One(P, x, b, 0)
  BY <1>6, <1>7, <1>8, CellEdit
<1>11. One(P, x, b, 0) = 0
  BY DEF One
<1>12. Count(f, P, x) \in Nat
  BY CellsFinite
<1> QED BY <1>4, <1>7, <1>10, <1>11, <1>12 DEF fp

-----------------------------------------------------------------------------
(* What the filter owes: the insertions of a class that are still to be    *)
(* undone.                                                                 *)

Owes(o, h) ==
  {gn \in HashedKeys \X (1 .. MaxCopies) : SameClass(gn[1], h) /\ gn[2] <= o[gn[1]]}
Due(o, h) == Cardinality(Owes(o, h))
OwedType == [HashedKeys -> 0 .. MaxCopies]

LEMMA OwesFinite ==
  ASSUME NEW o, NEW h  PROVE IsFiniteSet(Owes(o, h)) /\ Due(o, h) \in Nat
<1>1. IsFiniteSet(1 .. MaxCopies)
  BY FilterAssumption, FS_Interval
<1>2. IsFiniteSet(HashedKeys \X (1 .. MaxCopies))
  BY <1>1, FilterAssumption, FS_Product
<1>3. Owes(o, h) \in SUBSET (HashedKeys \X (1 .. MaxCopies))
  BY DEF Owes
<1>4. IsFiniteSet(Owes(o, h))
  BY <1>2, <1>3, FS_Subset
<1> QED BY <1>4, FS_CardinalityType DEF Due

OneMore(o, q, g) == q = [o EXCEPT ![g] = @ + 1]

(* One more copy of g is owed to the classes that g belongs to.            *)
LEMMA OneMoreDue ==
  ASSUME NEW o \in OwedType, NEW g \in HashedKeys, o[g] < MaxCopies, NEW h,
         NEW q, OneMore(o, q, g)
  PROVE  Due(q, h) = Due(o, h) + (IF SameClass(g, h) THEN 1 ELSE 0)
<1> DEFINE z == <<g, o[g] + 1>>
<1>1. o[g] \in 0 .. MaxCopies /\ MaxCopies \in Nat
  BY FilterAssumption DEF OwedType
<1>2. \A k \in HashedKeys : q[k] = IF k = g THEN o[g] + 1 ELSE o[k]
  BY DEF OwedType, OneMore
<1>3. \A k \in HashedKeys : o[k] \in 0 .. MaxCopies
  BY DEF OwedType
<1>4. z \in HashedKeys \X (1 .. MaxCopies)
  BY <1>1
<1>5. z \notin Owes(o, h)
  BY <1>1 DEF Owes
<1> DEFINE D == HashedKeys \X (1 .. MaxCopies)
<1>6. \A gn \in D : gn[2] <= q[gn[1]] <=> gn[2] <= o[gn[1]] \/ gn = z
  <2> SUFFICES ASSUME NEW gn \in D  PROVE gn[2] <= q[gn[1]] <=> gn[2] <= o[gn[1]] \/ gn = z
    OBVIOUS
  <2>1. gn = <<gn[1], gn[2]>> /\ gn[1] \in HashedKeys /\ gn[2] \in 1 .. MaxCopies
    OBVIOUS
  <2>2. gn = z <=> gn[1] = g /\ gn[2] = o[g] + 1
    BY <2>1
  <2> HIDE DEF z, D
  <2> QED BY <1>1, <1>2, <1>3, <2>1, <2>2
<1>7. z[1] = g
  OBVIOUS
<1> HIDE DEF z
<1>8. Owes(q, h) = {gn \in D : SameClass(gn[1], h) /\ (gn[2] <= o[gn[1]] \/ gn = z)}
  <2> HIDE DEF D
  <2>1. Owes(q, h) = {gn \in D : SameClass(gn[1], h) /\ gn[2] <= q[gn[1]]}
    BY DEF Owes, D
  <2> QED BY <1>6, <2>1
<1>9. Owes(o, h) = {gn \in D : SameClass(gn[1], h) /\ gn[2] <= o[gn[1]]} /\ z \in D
  BY <1>4 DEF Owes
<1> HIDE DEF D
<1>10. CASE SameClass(g, h)
  <2>1. Owes(q, h) = Owes(o, h) \cup {z}
    BY <1>7, <1>8, <1>9, <1>10
  <2>2. Due(q, h) = Due(o, h) + 1
    BY <1>5, <2>1, OwesFinite, FS_AddElement DEF Due
  <2> QED BY <1>10, <2>2
<1>11. CASE ~SameClass(g, h)
  <2>1. Owes(q, h) = Owes(o, h)
    BY <1>7, <1>8, <1>9, <1>11
  <2>2. Due(o, h) \in Nat
    BY OwesFinite
  <2> QED BY <1>11, <2>1, <2>2 DEF Due
<1> QED BY <1>10, <1>11

LEMMA OneLessDue ==
  ASSUME NEW o \in OwedType, NEW g \in HashedKeys, o[g] > 0, NEW h,
         NEW q, q = [o EXCEPT ![g] = @ - 1]
  PROVE  Due(q, h) + (IF SameClass(g, h) THEN 1 ELSE 0) = Due(o, h)
<1>1. o[g] \in 0 .. MaxCopies /\ MaxCopies \in Nat
  BY FilterAssumption DEF OwedType
<1>2. q \in OwedType /\ q[g] = o[g] - 1 /\ q[g] < MaxCopies
  <2>1. o[g] - 1 \in 0 .. MaxCopies /\ o[g] - 1 < MaxCopies
    BY <1>1
  <2> QED BY <2>1 DEF OwedType
<1>3. OneMore(q, o, g)
  <2>1. (o[g] - 1) + 1 = o[g]
    BY <1>1
  <2> QED BY <1>2, <2>1 DEF OwedType, OneMore
<1>4. Due(o, h) = Due(q, h) + (IF SameClass(g, h) THEN 1 ELSE 0)
  BY <1>2, <1>3, OneMoreDue
<1> QED BY <1>4

-----------------------------------------------------------------------------
(* The invariant: nobody is owed more copies than MaxCopies, and until the *)
(* table overflows each class has in its pair the copies it is owed.       *)

Conserved(f, o) == \A h \in HashedKeys : Count(f, pair(h), fingerprint(h)) = Due(o, h)
FilterInv == TypeOK /\ owed \in OwedType /\ (spills = {} => Conserved(filter, owed))

LEMMA ConservedMeans == CopiesConserved <=> (spills = {} => Conserved(filter, owed))
BY DEF CopiesConserved, Conserved, Copies, OwedToClass, Count, Cells, Due, Owes

LEMMA ClassFacts ==
  ASSUME NEW h \in HashedKeys
  PROVE  /\ h \in Hashes /\ pair(h) \in SUBSET Buckets /\ fingerprint(h) \in Nat \ {0}
         /\ Closed(pair(h), fingerprint(h))
         /\ \A g \in HashedKeys : One(pair(h), fingerprint(h), idx(g), fingerprint(g))
                                  = (IF SameClass(g, h) THEN 1 ELSE 0)
<1>1. \A g \in HashedKeys : g \in Hashes
  BY FilterAssumption DEF Hashes
<1>2. pair(h) \in SUBSET Buckets /\ fingerprint(h) \in Nat \ {0} /\ Closed(pair(h), fingerprint(h))
  BY <1>1, PairFacts, BucketFacts DEF Closed
<1>3. \A g \in HashedKeys : SameClass(g, h) <=> fingerprint(g) = fingerprint(h) /\ idx(g) \in pair(h)
  BY <1>1, PairFacts
<1> QED BY <1>1, <1>2, <1>3 DEF One

(* A class that is owed a copy is found: its pair holds its fingerprint.   *)
LEMMA OwedIsFound ==
  ASSUME NEW f, NEW o \in OwedType, Conserved(f, o), NEW h \in HashedKeys, o[h] > 0
  PROVE  Count(f, pair(h), fingerprint(h)) # 0 /\ lookup(f, h)
<1>1. o[h] \in 0 .. MaxCopies /\ MaxCopies \in Nat
  BY FilterAssumption DEF OwedType
<1>2. <<h, 1>> \in Owes(o, h)
  BY <1>1 DEF Owes, SameClass
<1>3. Due(o, h) # 0
  BY <1>2, OwesFinite, FS_EmptySet DEF Due
<1>4. Count(f, pair(h), fingerprint(h)) # 0
  BY <1>3 DEF Conserved
<1>5. Cells(f, pair(h), fingerprint(h)) # {}
  BY <1>4, FS_EmptySet DEF Count
<1>6. PICK b \in pair(h), s \in SlotIdx : f[b][s] = fingerprint(h)
  BY <1>5 DEF Cells
<1>7. lookup(f, h)
  BY <1>6 DEF lookup, bucket_has, pair
<1> QED BY <1>4, <1>7

LEMMA EmptyConserves == Conserved(emptyFilter, [h \in HashedKeys |-> 0])
<1> SUFFICES ASSUME NEW h \in HashedKeys
             PROVE  Count(emptyFilter, pair(h), fingerprint(h)) = Due([g \in HashedKeys |-> 0], h)
  BY DEF Conserved
<1> DEFINE o == [g \in HashedKeys |-> 0]
<1>1. Cells(emptyFilter, pair(h), fingerprint(h)) = {}
  <2>1. pair(h) \subseteq Buckets /\ fingerprint(h) # 0
    BY ClassFacts
  <2>2. \A b \in Buckets, s \in SlotIdx : emptyFilter[b][s] = 0
    BY DEF emptyFilter
  <2> QED BY <2>1, <2>2 DEF Cells
<1>2. Owes(o, h) = {}
  <2>1. \A gn \in HashedKeys \X (1 .. MaxCopies) : ~(gn[2] <= o[gn[1]])
    BY FilterAssumption
  <2> QED BY <2>1 DEF Owes
<1> QED BY <1>1, <1>2 DEF Count, Due

LEMMA InsertKeeps ==
  ASSUME FilterInv, NEW g \in HashedKeys, Insert(g)  PROVE FilterInv'
<1>1. owed[g] < MaxCopies /\ filter' = insert(filter, g) /\ owed' = [owed EXCEPT ![g] = @ + 1]
      /\ spills' = spills \cup ({spilled(filter, g)} \ {0})
  BY DEF Insert
<1>2. filter \in FilterType /\ owed \in OwedType /\ spills \subseteq Nat \ {0}
  BY DEF FilterInv, TypeOK, FilterType
<1>3. g \in Hashes /\ pair(g) \in SUBSET Buckets /\ fingerprint(g) \in Nat \ {0} /\ Closed(pair(g), fingerprint(g))
  BY ClassFacts
<1>4. insert(filter, g) \in FilterType /\ spilled(filter, g) \in Nat
  BY <1>2, <1>3, InsertCounts
<1>5. owed' \in OwedType
  <2>1. owed[g] \in 0 .. MaxCopies /\ MaxCopies \in Nat
    BY <1>2, FilterAssumption DEF OwedType
  <2>2. owed[g] + 1 \in 0 .. MaxCopies
    BY <1>1, <2>1
  <2> QED BY <1>1, <1>2, <2>2 DEF OwedType
<1>6. TypeOK'
  <2>1. owed' \in [HashedKeys -> Nat]
    BY <1>5, FilterAssumption DEF OwedType
  <2> QED BY <1>1, <1>2, <1>4, <2>1 DEF TypeOK, FilterType
<1>7. ASSUME spills' = {}  PROVE Conserved(filter', owed')
  <2>1. spills = {} /\ spilled(filter, g) = 0
    BY <1>1, <1>7
  <2>2. Conserved(filter, owed)
    BY <2>1 DEF FilterInv
  <2>3. OneMore(owed, owed', g)
    BY <1>1 DEF OneMore
  <2> SUFFICES ASSUME NEW h \in HashedKeys
               PROVE  Count(filter', pair(h), fingerprint(h)) = Due(owed', h)
    BY DEF Conserved
  <2>4. Count(insert(filter, g), pair(h), fingerprint(h))
        = Count(filter, pair(h), fingerprint(h)) + One(pair(h), fingerprint(h), idx(g), fingerprint(g))
    <3>1. pair(h) \in SUBSET Buckets /\ fingerprint(h) \in Nat \ {0} /\ Closed(pair(h), fingerprint(h))
      BY ClassFacts
    <3> QED BY <1>2, <1>3, <2>1, <3>1, InsertCounts
  <2>5. One(pair(h), fingerprint(h), idx(g), fingerprint(g)) = IF SameClass(g, h) THEN 1 ELSE 0
    BY ClassFacts
  <2>6. Due(owed', h) = Due(owed, h) + (IF SameClass(g, h) THEN 1 ELSE 0)
    BY <1>1, <1>2, <2>3, OneMoreDue
  <2>7. Count(filter, pair(h), fingerprint(h)) = Due(owed, h)
    BY <2>2 DEF Conserved
  <2> QED BY <1>1, <2>4, <2>5, <2>6, <2>7
<1> QED BY <1>5, <1>6, <1>7 DEF FilterInv

LEMMA DeleteKeeps ==
  ASSUME FilterInv, NEW g \in HashedKeys, Delete(g)  PROVE FilterInv'
<1>1. owed[g] > 0 /\ filter' = delete(filter, g) /\ owed' = [owed EXCEPT ![g] = @ - 1] /\ spills' = spills
  BY DEF Delete
<1>2. filter \in FilterType /\ owed \in OwedType /\ spills \subseteq Nat \ {0}
  BY DEF FilterInv, TypeOK, FilterType
<1>3. g \in Hashes
  BY ClassFacts
<1>4. owed' \in OwedType
  <2>1. owed[g] \in 0 .. MaxCopies /\ MaxCopies \in Nat
    BY <1>2, FilterAssumption DEF OwedType
  <2>2. owed[g] - 1 \in 0 .. MaxCopies
    BY <1>1, <2>1
  <2> QED BY <1>1, <1>2, <2>2 DEF OwedType
<1>5. TypeOK'
  <2>1. owed' \in [HashedKeys -> Nat]
    BY <1>4, FilterAssumption DEF OwedType
  <2> QED BY <1>1, <1>2, <1>3, <2>1, DeleteType DEF TypeOK, FilterType
<1>6. ASSUME spills' = {}  PROVE Conserved(filter', owed')
  <2>1. Conserved(filter, owed)
    BY <1>1, <1>6 DEF FilterInv
  <2>2. Count(filter, pair(g), fingerprint(g)) # 0
    BY <1>1, <1>2, <2>1, OwedIsFound
  <2> SUFFICES ASSUME NEW h \in HashedKeys
               PROVE  Count(filter', pair(h), fingerprint(h)) = Due(owed', h)
    BY DEF Conserved
  <2>3. Count(delete(filter, g), pair(h), fingerprint(h)) + One(pair(h), fingerprint(h), idx(g), fingerprint(g))
        = Count(filter, pair(h), fingerprint(h))
    <3>1. pair(h) \in SUBSET Buckets /\ fingerprint(h) \in Nat \ {0} /\ Closed(pair(h), fingerprint(h))
      BY ClassFacts
    <3> QED BY <1>2, <1>3, <2>2, <3>1, DeleteCounts
  <2>4. One(pair(h), fingerprint(h), idx(g), fingerprint(g)) = IF SameClass(g, h) THEN 1 ELSE 0
    BY ClassFacts
  <2>5. Due(owed', h) + (IF SameClass(g, h) THEN 1 ELSE 0) = Due(owed, h)
    BY <1>1, <1>2, OneLessDue
  <2>6. Count(filter, pair(h), fingerprint(h)) = Due(owed, h)
    BY <2>1 DEF Conserved
  <2>7. Count(delete(filter, g), pair(h), fingerprint(h)) \in Nat /\ Due(owed', h) \in Nat
    BY ClassFacts, CellsFinite, OwesFinite
  <2> QED BY <1>1, <2>3, <2>4, <2>5, <2>6, <2>7
<1> QED BY <1>4, <1>5, <1>6 DEF FilterInv

LEMMA InitHolds ==
  ASSUME filter = emptyFilter, owed = [h \in HashedKeys |-> 0], spills = {}  PROVE FilterInv
<1>1. owed \in OwedType /\ owed \in [HashedKeys -> Nat]
  BY FilterAssumption DEF OwedType
<1>2. filter \in [Buckets -> [SlotIdx -> Nat]]
  BY DEF emptyFilter
<1>3. Conserved(filter, owed)
  BY EmptyConserves
<1> QED BY <1>1, <1>2, <1>3 DEF FilterInv, TypeOK

LEMMA ClearKeeps == ASSUME Clear  PROVE FilterInv'
<1>1. filter' = emptyFilter /\ owed' = [h \in HashedKeys |-> 0] /\ spills' = {}
  BY DEF Clear
<1>2. owed' \in OwedType /\ owed' \in [HashedKeys -> Nat]
  BY <1>1, FilterAssumption DEF OwedType
<1>3. filter' \in [Buckets -> [SlotIdx -> Nat]]
  BY <1>1 DEF emptyFilter
<1>4. Conserved(filter', owed')
  BY <1>1, EmptyConserves
<1> QED BY <1>1, <1>2, <1>3, <1>4 DEF FilterInv, TypeOK

LEMMA FilterInvSound == FilterInv => FilterSound
<1> SUFFICES ASSUME FilterInv  PROVE FilterSound
  OBVIOUS
<1>1. TypeOK /\ owed \in OwedType
  BY DEF FilterInv
<1>2. CopiesConserved
  BY ConservedMeans DEF FilterInv
<1>3. NoFalseNegatives
  <2> SUFFICES ASSUME spills = {}, NEW h \in HashedKeys, owed[h] > 0  PROVE lookup(filter, h)
    BY DEF NoFalseNegatives
  <2> QED BY <1>1, OwedIsFound DEF FilterInv
<1> QED BY <1>1, <1>2, <1>3 DEF FilterSound

(* insert() and delete() keep, for every set of keys, table size and       *)
(* number of kicks, exactly the copies owed to each class of colliding     *)
(* keys while nothing has fallen out of the table, so lookup() of a key    *)
(* that was inserted and not deleted is never a false negative.            *)
THEOREM FilterIsSound == Spec => []FilterSound
<1>1. Init => FilterInv
  BY InitHolds DEF Init
<1>2. FilterInv /\ [Next]_vars => FilterInv'
  <2> SUFFICES ASSUME FilterInv, [Next]_vars  PROVE FilterInv'
    OBVIOUS
  <2>1. CASE Clear
    BY <2>1, ClearKeeps
  <2>2. CASE \E h \in HashedKeys : Insert(h)
    BY <2>2, InsertKeeps
  <2>3. CASE \E h \in HashedKeys : Delete(h)
    BY <2>3, DeleteKeeps
  <2>4. CASE UNCHANGED vars
    <3>1. filter' = filter /\ owed' = owed /\ spills' = spills
      BY <2>4 DEF vars
    <3> QED BY <3>1 DEF FilterInv, TypeOK
  <2> QED BY <2>1, <2>2, <2>3, <2>4 DEF Next
<1> QED BY <1>1, <1>2, FilterInvSound, PTL DEF Spec
=============================================================================
