-------------------------- MODULE MetaTableProofs ---------------------------
(***************************************************************************)
(* The theorems about MetaTable.  The searches of a row, the walk over its *)
(* list and get_mb_and_prev, are shown right by induction over the number  *)
(* of steps; with them and the lemmas of MetaTableSteps, TableInv is an    *)
(* invariant, for any number of processes, rows, buckets and paths, any    *)
(* hash function and any calls.  TypeOK, ListsSound and NoOrphan follow.   *)
(* So does that each row's lock is used as RWLock allows: without rename,  *)
(* the processes whom the lock words name are those that hold the rows.    *)
(***************************************************************************)
EXTENDS MetaTableSteps, MetaTableViews, FiniteSetTheorems, WellFoundedInduction

USE DEF DownWriting, UpWriting, Reading, Freeing, KeptCall, KeptArgs, KeptFound

----------------------------------------------------------------------------
(* Searching a row *)

(* A set of numbers that is not empty has a least element. *)
LEMMA LeastNat ==
  ASSUME NEW S \in SUBSET Nat, S # {}
  PROVE  \E n \in S : \A m \in S : n <= m
<1>1. IsWellFoundedOn(OpToRel(<, Nat), Nat)
  BY NatLessThanWellFounded, ZenonT(40)
<1>2. PICK n \in S : \A m \in S : ~ (<<m, n>> \in OpToRel(<, Nat))
  BY <1>1, WFMin, ZenonT(40)
<1>3. \A m \in S : ~ (m < n)
  BY <1>2, ZenonT(40) DEF OpToRel
<1> QED
  BY <1>3

(* A set of numbers that holds 0, and n + 1 with n, holds them all. *)
LEMMA NatInduct ==
  ASSUME NEW S, 0 \in S, \A n \in Nat : n \in S => n + 1 \in S
  PROVE  \A n \in Nat : n \in S
<1> SUFFICES ASSUME Nat \ S # {}
             PROVE  FALSE
  OBVIOUS
<1>1. PICK n \in Nat \ S : \A m \in Nat \ S : n <= m
  <2> DEFINE T == Nat \ S
  <2>1. T \in SUBSET Nat /\ T # {}
    OBVIOUS
  <2> HIDE DEF T
  <2>2. \E n \in T : \A m \in T : n <= m
    BY <2>1, LeastNat, ZenonT(40)
  <2> QED
    BY <2>2 DEF T
<1>2. n - 1 \in Nat /\ n - 1 \in S
  BY <1>1
<1> QED
  BY <1>1, <1>2

(* Buckets are counted from 0 and files from 1: the order is the same. *)
LEMMA PlusOne ==
  \A m, n \in Nat : (m + 1 <= n + 1 => m <= n) /\ (~ (m + 1 > n + 1) => m <= n)
OBVIOUS

(* What the k-th step of the walk of row r does, given the steps before it. *)
WalkStep(r, w, k) ==
  IF k = 0 THEN hash_table[r].first_ix
  ELSE IF w[k - 1] = NIL THEN NIL ELSE mb_arr[w[k - 1]].next_ix

(* A walk can be made of any number of steps. *)
LEMMA WalkExists ==
  ASSUME NEW r, NEW n \in Nat
  PROVE  \E w : w = [k \in 0 .. n |-> WalkStep(r, w, k)]
<1> DEFINE Bad == {m \in Nat : ~ \E w : w = [k \in 0 .. m |-> WalkStep(r, w, k)]}
<1> SUFFICES ASSUME Bad # {}
             PROVE  FALSE
  OBVIOUS
<1>1. PICK m \in Bad : \A j \in Bad : m <= j
  BY LeastNat, ZenonT(40)
<1> HIDE DEF Bad
<1>2. m \in Nat /\ ~ \E w : w = [k \in 0 .. m |-> WalkStep(r, w, k)]
  BY <1>1 DEF Bad
<1>3. CASE m = 0
  <2>1. DEFINE w == [k \in 0 .. 0 |-> hash_table[r].first_ix]
  <2>2. w = [k \in 0 .. 0 |-> WalkStep(r, w, k)]
    BY DEF WalkStep
  <2> QED
    BY <1>2, <1>3, <2>2, ZenonT(40)
<1>4. CASE m # 0
  <2>1. m - 1 \in Nat /\ m - 1 \notin Bad
    BY ONLY <1>1, <1>2, <1>4
  <2>2. PICK v : v = [k \in 0 .. m - 1 |-> WalkStep(r, v, k)]
    BY ONLY <2>1 DEF Bad
  <2>3. DEFINE w == [k \in 0 .. m |-> WalkStep(r, v, k)]
  <2>4. \A k \in 0 .. m - 1 : w[k] = v[k]
    BY ONLY <1>2, <2>2
  <2>5. ASSUME NEW k \in 0 .. m
        PROVE  WalkStep(r, v, k) = WalkStep(r, w, k)
    <3> HIDE DEF w
    <3>1. k # 0 => k - 1 \in 0 .. m - 1
      BY <1>2
    <3> QED
      BY ONLY <2>4, <3>1 DEF WalkStep
  <2>6. w = [k \in 0 .. m |-> WalkStep(r, w, k)]
    BY <2>5, ZenonT(40)
  <2> QED
    BY <1>2, <2>6, ZenonT(40)
<1> QED
  BY ONLY <1>3, <1>4

(* Walk(r) is that walk. *)
LEMMA WalkUnfolds ==
  ASSUME NEW r, NEW k \in 0 .. META_BUCKETS
  PROVE  Walk(r)[k] = WalkStep(r, Walk(r), k)
<1>1. PICK w : w = [j \in 0 .. META_BUCKETS |-> WalkStep(r, w, j)]
  BY WalkExists, TableAssumption, ZenonT(40)
<1>2. w = [j \in 0 .. META_BUCKETS |->
             IF j = 0 THEN hash_table[r].first_ix
             ELSE IF w[j - 1] = NIL THEN NIL ELSE mb_arr[w[j - 1]].next_ix]
  BY <1>1, ZenonT(40) DEF WalkStep
<1>3. Walk(r) = [j \in 0 .. META_BUCKETS |->
             IF j = 0 THEN hash_table[r].first_ix
             ELSE IF Walk(r)[j - 1] = NIL THEN NIL ELSE mb_arr[Walk(r)[j - 1]].next_ix]
  BY <1>2, ZenonT(40) DEF Walk
<1> QED
  BY <1>3, ZenonT(40) DEF WalkStep

(* The walk of a row stays on its list until it is at the end. *)
LEMMA WalkStays ==
  ASSUME NEW r, NEW L, NEW rank, RowIs(r, L, rank)
  PROVE  \A k \in 0 .. META_BUCKETS : Walk(r)[k] \in L \cup {NIL}
<1> DEFINE S == {k \in Nat : k \in 0 .. META_BUCKETS => Walk(r)[k] \in L \cup {NIL}}
<1>1. 0 \in S
  BY WalkUnfolds, TableAssumption DEF WalkStep, RowIs, IsList
<1>2. ASSUME NEW n \in Nat, n \in S
      PROVE  n + 1 \in S
  <2> SUFFICES ASSUME n + 1 \in 0 .. META_BUCKETS
               PROVE  Walk(r)[n + 1] \in L \cup {NIL}
    OBVIOUS
  <2>1. n \in 0 .. META_BUCKETS /\ Walk(r)[n] \in L \cup {NIL} /\ (n + 1) - 1 = n /\ n + 1 # 0
    BY <1>2, TableAssumption
  <2>2. Walk(r)[n + 1] = IF Walk(r)[n] = NIL THEN NIL ELSE mb_arr[Walk(r)[n]].next_ix
    BY <2>1, WalkUnfolds DEF WalkStep
  <2>3. Walk(r)[n] \in L => NextIx[Walk(r)[n]] = mb_arr[Walk(r)[n]].next_ix
    BY DEF RowIs, IsList, NextIx
  <2> QED
    BY <2>1, <2>2, <2>3 DEF RowIs, IsList
<1> HIDE DEF S
<1>3. \A n \in Nat : n \in S
  BY <1>1, <1>2, NatInduct, ZenonT(40)
<1> QED
  BY ONLY <1>3, TableAssumption DEF S

(* Before its end a walk has met no end and only smaller ranks. *)
LEMMA WalkGrows ==
  ASSUME NEW r, NEW L, NEW rank \in [MBucket -> Nat], RowIs(r, L, rank)
  PROVE  \A k \in 0 .. META_BUCKETS : Walk(r)[k] # NIL =>
           \A j \in 0 .. k - 1 : Walk(r)[j] # NIL /\ rank[Walk(r)[j]] < rank[Walk(r)[k]]
<1> DEFINE P(k) == \A j \in 0 .. k - 1 :
                     Walk(r)[j] # NIL /\ rank[Walk(r)[j]] < rank[Walk(r)[k]]
           S == {k \in Nat : k \in 0 .. META_BUCKETS /\ Walk(r)[k] # NIL => P(k)}
<1>1. 0 \in S
  OBVIOUS
<1>2. ASSUME NEW n \in Nat, n \in S
      PROVE  n + 1 \in S
  <2> SUFFICES ASSUME n + 1 \in 0 .. META_BUCKETS, Walk(r)[n + 1] # NIL
               PROVE  P(n + 1)
    OBVIOUS
  <2>1. n \in 0 .. META_BUCKETS /\ (n + 1) - 1 = n /\ n + 1 # 0
    BY TableAssumption
  <2>2. Walk(r)[n] # NIL /\ Walk(r)[n + 1] = mb_arr[Walk(r)[n]].next_ix
    BY <2>1, WalkUnfolds DEF WalkStep
  <2>3. Walk(r)[n] \in L /\ Walk(r)[n + 1] \in L /\ L \subseteq MBucket
    <3>1. \A k \in 0 .. META_BUCKETS : Walk(r)[k] \in L \cup {NIL}
      BY WalkStays, ZenonT(40)
    <3>2. L \subseteq MBucket
      BY DEF RowIs, IsList
    <3> QED
      BY <2>1, <2>2, <3>1, <3>2, ZenonT(40)
  <2>4. rank[Walk(r)[n]] < rank[Walk(r)[n + 1]]
    BY <2>2, <2>3, ZenonT(40) DEF RowIs, IsList, NextIx
  <2>5. P(n)
    BY <1>2, <2>1, <2>2, ZenonT(40)
  <2>6. SUFFICES ASSUME NEW j \in 0 .. n
                 PROVE  Walk(r)[j] # NIL /\ rank[Walk(r)[j]] < rank[Walk(r)[n + 1]]
    BY <2>1
  <2>7. CASE j = n
    BY <2>2, <2>4, <2>7, ZenonT(40)
  <2>8. CASE j # n
    <3>1. j \in 0 .. n - 1 /\ j \in 0 .. META_BUCKETS
      BY ONLY <2>1, <2>8, TableAssumption
    <3>2. Walk(r)[j] # NIL /\ rank[Walk(r)[j]] < rank[Walk(r)[n]]
      BY ONLY <2>5, <3>1
    <3>3. Walk(r)[j] \in MBucket
      BY <2>3, <3>1, <3>2, WalkStays, ZenonT(40)
    <3> DEFINE x == rank[Walk(r)[j]]
               y == rank[Walk(r)[n]]
               z == rank[Walk(r)[n + 1]]
    <3>4. x \in Nat /\ y \in Nat /\ z \in Nat
      BY <2>3, <3>3, ZenonT(40)
    <3>5. x < y /\ y < z
      BY <2>4, <3>2, ZenonT(40)
    <3> HIDE DEF x, y, z
    <3>6. x < z
      BY ONLY <3>4, <3>5
    <3> QED
      BY <3>2, <3>6, ZenonT(40) DEF x, z
  <2> QED
    BY ONLY <2>7, <2>8
<1> HIDE DEF S
<1>3. \A n \in Nat : n \in S
  BY <1>1, <1>2, NatInduct, ZenonT(40)
<1> QED
  BY ONLY <1>3, TableAssumption DEF S

(* The walk ends: a list has no more buckets than the table. *)
LEMMA WalkEnds ==
  ASSUME NEW r, NEW L, NEW rank \in [MBucket -> Nat], RowIs(r, L, rank)
  PROVE  Walk(r)[META_BUCKETS] = NIL
<1> SUFFICES ASSUME Walk(r)[META_BUCKETS] # NIL
             PROVE  FALSE
  OBVIOUS
<1> DEFINE f == [k \in 0 .. META_BUCKETS |-> Walk(r)[k]]
<1>1. META_BUCKETS \in Nat /\ META_BUCKETS \in 0 .. META_BUCKETS
  BY ONLY TableAssumption
<1>2. \A k \in 0 .. META_BUCKETS : Walk(r)[k] # NIL
  BY <1>1, WalkGrows
<1>3. f \in [0 .. META_BUCKETS -> MBucket]
  <2>1. ASSUME NEW k \in 0 .. META_BUCKETS
        PROVE  Walk(r)[k] \in MBucket
    <3>1. Walk(r)[k] \in L \cup {NIL}
      BY WalkStays, ZenonT(40)
    <3>2. L \subseteq MBucket
      BY ZenonT(40) DEF RowIs, IsList
    <3> QED
      BY <1>2, <3>1, <3>2, ZenonT(40)
  <2> QED
    BY <2>1, ZenonT(40)
<1>4. /\ IsFiniteSet(0 .. META_BUCKETS) /\ Cardinality(0 .. META_BUCKETS) = META_BUCKETS + 1
      /\ IsFiniteSet(MBucket) /\ Cardinality(MBucket) = META_BUCKETS
  BY <1>1, FS_Interval DEF MBucket
<1>5. PICK j, k \in 0 .. META_BUCKETS : j # k /\ f[j] = f[k]
  <2>1. META_BUCKETS < META_BUCKETS + 1
    BY ONLY <1>1
  <2> HIDE DEF f
  <2> QED
    BY ONLY <1>3, <1>4, <2>1, FS_PigeonHole, ZenonT(120)
<1>6. Walk(r)[j] = Walk(r)[k] /\ Walk(r)[j] \in MBucket /\ rank[Walk(r)[j]] \in Nat
  BY ONLY <1>3, <1>5
<1>7. j < k \/ k < j
  BY ONLY <1>5
<1>8. rank[Walk(r)[j]] < rank[Walk(r)[k]] \/ rank[Walk(r)[k]] < rank[Walk(r)[j]]
  <2>1. j < k => j \in 0 .. k - 1
    BY ONLY <1>1
  <2>2. k < j => k \in 0 .. j - 1
    BY ONLY <1>1
  <2> QED
    BY <1>2, <1>7, <2>1, <2>2, WalkGrows
<1> QED
  BY ONLY <1>6, <1>8

(* The buckets that the walk of a row meets are those of its list. *)
LEMMA MembersAreList ==
  ASSUME NEW r, NEW L, NEW rank \in [MBucket -> Nat], RowIs(r, L, rank)
  PROVE  Members(r) = L
<1>1. \A k \in 0 .. META_BUCKETS : Walk(r)[k] \in L \cup {NIL}
  BY WalkStays, ZenonT(40)
<1>2. L \subseteq MBucket /\ NIL \notin L
  BY NilNoBucket, ZenonT(40) DEF RowIs, IsList
<1>3. Members(r) \subseteq L
  BY ONLY <1>1 DEF Members
<1>4. ASSUME L \ Members(r) # {}
      PROVE  FALSE
  <2> DEFINE R == {rank[b] : b \in L \ Members(r)}
  <2>1. R \in SUBSET Nat /\ R # {}
    BY <1>2, <1>4, ZenonT(40)
  <2>2. PICK x \in R : \A y \in R : x <= y
    <3> HIDE DEF R
    <3> QED
      BY <2>1, LeastNat, ZenonT(40)
  <2>3. PICK b \in L \ Members(r) : \A c \in L \ Members(r) : rank[b] <= rank[c]
    BY ONLY <2>2
  <2>4. META_BUCKETS \in Nat /\ 0 \in 0 .. META_BUCKETS
    BY ONLY TableAssumption
  <2>5. b # NIL /\ \A k \in 0 .. META_BUCKETS : Walk(r)[k] # b
    BY <1>2, <2>3, ZenonT(40) DEF Members
  <2>6. Walk(r)[0] = hash_table[r].first_ix
    BY <2>4, WalkUnfolds, ZenonT(40) DEF WalkStep
  <2>7. b # hash_table[r].first_ix
    BY <2>4, <2>5, <2>6, ZenonT(40)
  <2>8. PICK c \in L : NextIx[c] = b
    BY <2>3, <2>7, ZenonT(40) DEF RowIs, IsList
  <2>9. rank[c] < rank[b]
    BY <2>5, <2>8, ZenonT(40) DEF RowIs, IsList
  <2>10. c \in Members(r)
    <3>1. rank[c] \in Nat /\ rank[b] \in Nat
      BY <1>2, <2>3, <2>8, ZenonT(40)
    <3>2. ~ (rank[b] <= rank[c])
      BY ONLY <2>9, <3>1
    <3> QED
      BY <2>3, <2>8, <3>2, ZenonT(40)
  <2>11. PICK k \in 0 .. META_BUCKETS : Walk(r)[k] = c
    BY <2>10 DEF Members
  <2>12. k # META_BUCKETS /\ c # NIL
    BY <1>2, <2>8, <2>11, WalkEnds, ZenonT(40)
  <2>13. k + 1 \in 0 .. META_BUCKETS /\ k + 1 # 0 /\ (k + 1) - 1 = k
    BY ONLY <2>4, <2>12
  <2>14. Walk(r)[k + 1] = b
    BY <1>2, <2>8, <2>11, <2>12, <2>13, WalkUnfolds, ZenonT(120) DEF WalkStep, NextIx
  <2> QED
    BY <2>5, <2>13, <2>14, ZenonT(40)
<1> QED
  BY ONLY <1>3, <1>4

(* The search of a row that has no bucket with the path returns the link   *)
(* at the end of the list; the other returns the bucket it met and the     *)
(* link to it.                                                             *)
LEMMA SearchFinds ==
  ASSUME NEW f \in Path, NEW L, NEW rank \in [MBucket -> Nat],
         RowIs(hash[f], L, rank)
  PROVE  LET res   == get_mb_and_prev(f)
             first == hash_table[hash[f]].first_ix
         IN  /\ res.mb \in L \cup {NIL} /\ res.prev \in L \cup {NIL}
             /\ LeadsTo(first, NextIx, L, res.prev, res.mb)
             /\ res.mb # NIL => mb_arr[res.mb].path = f
             /\ res.mb = NIL => \A b \in L : mb_arr[b].path # f
<1> DEFINE r == hash[f]
           w == Walk(r)
           res == get_mb_and_prev(f)
           hits == {k \in 0 .. META_BUCKETS - 1 : w[k] # NIL /\ mb_arr[w[k]].path = f}
<1>0. META_BUCKETS \in Nat \ {0} /\ NIL \notin L /\ L \subseteq MBucket
  BY TableAssumption, NilNoBucket, ZenonT(40) DEF RowIs, IsList
<1>1. \A k \in 0 .. META_BUCKETS : w[k] \in L \cup {NIL}
  BY WalkStays, ZenonT(40)
<1>2. Members(r) = L
  BY MembersAreList, ZenonT(40)
<1>3. w[META_BUCKETS] = NIL
  BY WalkEnds, ZenonT(40)
<1>4. w[0] = hash_table[r].first_ix
  BY ONLY <1>0, WalkUnfolds DEF WalkStep
<1>5. \A k \in 1 .. META_BUCKETS : w[k - 1] # NIL => w[k] = NextIx[w[k - 1]]
  <2> SUFFICES ASSUME NEW k \in 1 .. META_BUCKETS, w[k - 1] # NIL
               PROVE  w[k] = NextIx[w[k - 1]]
    OBVIOUS
  <2>1. k \in 0 .. META_BUCKETS /\ k - 1 \in 0 .. META_BUCKETS /\ k # 0
    BY ONLY <1>0
  <2>2. w[k] = mb_arr[w[k - 1]].next_ix
    BY <2>1, WalkUnfolds DEF WalkStep
  <2>3. w[k - 1] \in MBucket
    BY <1>0, <1>1, <2>1, ZenonT(40)
  <2> QED
    BY <2>2, <2>3, ZenonT(40) DEF NextIx
<1> HIDE DEF r, w
<1>6. CASE hits = {}
  <2>1. res = [mb |-> NIL, prev |-> Last(r)]
    BY <1>6, ZenonT(40) DEF get_mb_and_prev, r, w
  <2>2. \A b \in L : mb_arr[b].path # f
    <3> SUFFICES ASSUME NEW b \in L PROVE mb_arr[b].path # f
      OBVIOUS
    <3>1. PICK k \in 0 .. META_BUCKETS : w[k] = b
      BY <1>2 DEF Members, w
    <3>2. k \in 0 .. META_BUCKETS - 1 /\ w[k] # NIL
      BY ONLY <1>0, <1>3, <3>1
    <3> QED
      BY <1>6, <3>1, <3>2, ZenonT(40)
  <2>3. Last(r) \in L \cup {NIL} /\ LeadsTo(hash_table[r].first_ix, NextIx, L, Last(r), NIL)
    <3>1. CASE L = {}
      <4>1. Last(r) = NIL /\ hash_table[r].first_ix = NIL
        BY <1>2, <3>1, ZenonT(40) DEF Last, RowIs, IsList, r
      <4> QED
        BY ONLY <4>1 DEF LeadsTo
    <3>2. CASE L # {}
      <4> DEFINE Ends == {k \in 0 .. META_BUCKETS : w[k] = NIL}
      <4>1. Ends \in SUBSET Nat /\ Ends # {}
        BY ONLY <1>0, <1>3
      <4>2. PICK k \in Ends : \A j \in Ends : k <= j
        <5> HIDE DEF Ends
        <5> QED
          BY <4>1, LeastNat, ZenonT(40)
      <4>3. k # 0
        <5>1. PICK b \in L : TRUE
          BY <3>2
        <5>2. hash_table[r].first_ix # NIL
          <6>1. PICK j \in 0 .. META_BUCKETS : w[j] = b
            BY <1>2, <5>1, ZenonT(40) DEF Members, w
          <6>2. w[j] # NIL
            BY <1>0, <6>1, ZenonT(40)
          <6>3. j # 0 => w[0] # NIL
            <7>1. j # 0 => 0 \in 0 .. j - 1
              BY <1>0
            <7> QED
              BY <6>2, <7>1, WalkGrows, ZenonT(40) DEF w, r
          <6> QED
            BY <1>4, <6>2, <6>3, ZenonT(40)
        <5> QED
          BY <1>4, <5>2, <4>2, ZenonT(40)
      <4>4. k \in 1 .. META_BUCKETS /\ k - 1 \in 0 .. META_BUCKETS /\ w[k] = NIL /\ ~ (k <= k - 1)
        BY ONLY <1>0, <4>2, <4>3
      <4>5. w[k - 1] # NIL
        BY <4>2, <4>4, ZenonT(40)
      <4>6. w[k - 1] \in L /\ NextIx[w[k - 1]] = NIL
        BY <1>1, <1>5, <4>4, <4>5, ZenonT(40)
      <4>7. \E b \in Members(r) : mb_arr[b].next_ix = NIL
        BY <1>0, <1>2, <4>6, ZenonT(40) DEF NextIx
      <4>8. Last(r) \in L /\ mb_arr[Last(r)].next_ix = NIL
        BY <1>2, <3>2, <4>7, ZenonT(40) DEF Last
      <4> QED
        BY <1>0, <4>8, ZenonT(40) DEF LeadsTo, NextIx
    <3> QED
      BY ONLY <3>1, <3>2
  <2> QED
    BY ONLY <2>1, <2>2, <2>3 DEF r
<1>7. CASE hits # {}
  <2> DEFINE k == CHOOSE h \in hits : \A m \in hits : h <= m
  <2>1. hits \in SUBSET Nat
    OBVIOUS
  <2>2. k \in hits
    <3> HIDE DEF hits
    <3> QED
      BY <1>7, <2>1, LeastNat, ZenonT(40)
  <2>3. res = [mb |-> w[k], prev |-> IF k = 0 THEN NIL ELSE w[k - 1]]
    BY <1>7, ZenonT(40) DEF get_mb_and_prev, r, w
  <2> HIDE DEF k
  <2>4. k \in 0 .. META_BUCKETS /\ w[k] # NIL /\ mb_arr[w[k]].path = f
    BY ONLY <1>0, <2>2
  <2>5. w[k] \in L
    BY <1>1, <2>4, ZenonT(40)
  <2>6. CASE k = 0
    <3> HIDE DEF res
    <3>1. res.mb = w[0] /\ res.prev = NIL
      BY ONLY <2>3, <2>6, ZenonT(40)
    <3>2. w[0] # NIL /\ mb_arr[w[0]].path = f /\ w[0] \in L
      BY ONLY <2>4, <2>5, <2>6, ZenonT(40)
    <3>3. LeadsTo(hash_table[hash[f]].first_ix, NextIx, L, res.prev, res.mb)
      BY ONLY <1>4, <3>1, ZenonT(40) DEF LeadsTo, r
    <3> QED
      BY <3>1, <3>2, <3>3, ZenonT(40) DEF res
  <2>7. CASE k # 0
    <3>1. k \in 1 .. META_BUCKETS /\ k - 1 \in 0 .. k - 1 /\ k - 1 \in 0 .. META_BUCKETS
      BY ONLY <1>0, <2>4, <2>7
    <3>2. w[k - 1] # NIL
      BY <2>4, <3>1, WalkGrows, ZenonT(40) DEF w, r
    <3>3. w[k - 1] \in L /\ w[k] = NextIx[w[k - 1]]
      BY <1>1, <1>5, <3>1, <3>2, ZenonT(40)
    <3> HIDE DEF res
    <3>4. res.mb = w[k] /\ res.prev = w[k - 1]
      BY ONLY <2>3, <2>7, ZenonT(40)
    <3>5. LeadsTo(hash_table[hash[f]].first_ix, NextIx, L, res.prev, res.mb)
      BY <3>2, <3>3, <3>4, ZenonT(40) DEF LeadsTo
    <3> QED
      BY <2>4, <2>5, <3>3, <3>4, <3>5, ZenonT(40) DEF res
  <2> QED
    BY <2>6, <2>7, ZenonT(40)
<1> QED
  BY <1>6, <1>7

\* Every search of a row under the invariant returns what SearchSound says.
LEMMA SearchIsSound == SearchSound
<1> SUFFICES ASSUME NEW f \in Path, NEW lists \in [Row -> SUBSET MBucket],
                    NEW rank \in [MBucket -> Nat], RowInv(lists, rank)
             PROVE  /\ get_mb_and_prev(f).mb \in Link /\ get_mb_and_prev(f).prev \in Link
                    /\ Finger(lists, hash[f], get_mb_and_prev(f).prev, get_mb_and_prev(f).mb)
  BY ZenonT(40) DEF SearchSound
<1> DEFINE L == lists[hash[f]]
<1>1. hash[f] \in Row
  BY TableAssumption
<1>2. L \subseteq MBucket /\ RowIs(hash[f], L, rank)
  BY <1>1 DEF RowInv
<1> HIDE DEF L
<1>3. /\ get_mb_and_prev(f).mb \in L \cup {NIL} /\ get_mb_and_prev(f).prev \in L \cup {NIL}
      /\ LeadsTo(hash_table[hash[f]].first_ix, NextIx, L,
                 get_mb_and_prev(f).prev, get_mb_and_prev(f).mb)
  BY <1>2, SearchFinds, ZenonT(40)
<1> QED
  BY <1>2, <1>3, ZenonT(40) DEF Finger, Link, L

----------------------------------------------------------------------------
(* Counting processes *)

\* Sets of processes are finite.
LEMMA ProcFinite ==
  ASSUME NEW S \in SUBSET Proc
  PROVE  IsFiniteSet(S) /\ Cardinality(S) \in Nat
  BY TableAssumption, FS_Subset, FS_CardinalityType, ZenonT(40)

\* What adding a process to a set, or taking one out, does to its size.
LEMMA OneMore ==
  ASSUME NEW S \in SUBSET Proc, NEW p \in Proc
  PROVE  /\ Cardinality(S) \in Nat /\ Cardinality(S \cup {p}) \in Nat
         /\ Cardinality(S \ {p}) \in Nat
         /\ Cardinality(S \cup {p}) <= Cardinality(S) + 1
         /\ Cardinality(S \ {p}) <= Cardinality(S)
         /\ p \notin S => Cardinality(S \cup {p}) = Cardinality(S) + 1
         /\ p \in S => Cardinality(S \ {p}) = Cardinality(S) - 1 /\ Cardinality(S) # 0
<1>1. IsFiniteSet(S) /\ Cardinality(S) \in Nat
  BY ProcFinite, ZenonT(40)
<1>2. p \in S => S \cup {p} = S
  OBVIOUS
<1>3. p \notin S => S \ {p} = S
  OBVIOUS
<1>4. p \notin S => Cardinality(S \cup {p}) = Cardinality(S) + 1
  BY <1>1, FS_AddElement, ZenonT(40)
<1>5. p \in S => Cardinality(S \ {p}) = Cardinality(S) - 1
  BY <1>1, FS_RemoveElement, ZenonT(40)
<1>6. p \in S => Cardinality(S) # 0
  BY <1>1, FS_EmptySet, ZenonT(40)
<1> DEFINE n == Cardinality(S)
           up == Cardinality(S \cup {p})
           down == Cardinality(S \ {p})
<1>7. p \in S => up = n /\ down = n - 1 /\ n # 0
  BY <1>2, <1>5, <1>6, ZenonT(40)
<1>8. p \notin S => up = n + 1 /\ down = n
  BY <1>3, <1>4, ZenonT(40)
<1>9. n \in Nat
  BY ONLY <1>1
<1> HIDE DEF n, up, down
<1>10. /\ n \in Nat /\ up \in Nat /\ down \in Nat /\ up <= n + 1 /\ down <= n
       /\ p \notin S => up = n + 1
       /\ p \in S => down = n - 1 /\ n # 0
  BY ONLY <1>7, <1>8, <1>9
<1> QED
  BY <1>10 DEF n, up, down

\* The processes can be counted as the steps of the lock words assume.
LEMMA ProcsCount == ProcCounts
  BY OneMore, ZenonT(40) DEF ProcCounts

----------------------------------------------------------------------------
(* The initial table *)

\* Least is the bucket before the least number of a set, or none.
LEMMA LeastIs ==
  ASSUME NEW S \in SUBSET Nat
  PROVE  /\ S = {} => Least(S) = NIL
         /\ S # {} => Least(S) + 1 \in S /\ \A k \in S : Least(S) + 1 <= k
<1>1. CASE S = {}
  BY <1>1 DEF Least
<1>2. CASE S # {}
  <2> DEFINE n == CHOOSE k \in S : \A k2 \in S : k <= k2
  <2>1. \E k \in S : \A k2 \in S : k <= k2
    BY <1>2, LeastNat, ZenonT(40)
  <2>2. n \in S /\ \A k2 \in S : n <= k2
    BY <2>1, ZenonT(40)
  <2>3. Least(S) = n - 1
    BY <1>2, ZenonT(40) DEF Least
  <2> HIDE DEF n
  <2>4. Least(S) + 1 = n
    BY ONLY <2>2, <2>3
  <2> QED
    BY <1>2, <2>2, <2>4, ZenonT(40)
<1> QED
  BY <1>1, <1>2, ZenonT(40)

\* The buckets of L in ascending order, from first on by next.
Ascending(first, next, L) ==
  /\ L = {} => first = NIL
  /\ L # {} => first \in L /\ \A b \in L : first <= b
  /\ \A b \in L : \/ next[b] = NIL /\ \A c \in L : c <= b
                  \/ next[b] \in L /\ b < next[b] /\ \A c \in L : c <= b \/ next[b] <= c

\* A list that goes up in the order of the buckets is a list, ranked by the
\* buckets themselves.
LEMMA AscendingList ==
  ASSUME NEW L \in SUBSET MBucket, NEW first, NEW next, Ascending(first, next, L)
  PROVE  IsList(first, next, L, [b \in MBucket |-> b])
<1> DEFINE rank == [b \in MBucket |-> b]
<1>1. L \subseteq Nat /\ NIL \notin L /\ \A b \in L : rank[b] = b
  BY NilNoBucket, ZenonT(40)
<1>2. first # NIL => first \in L
  BY DEF Ascending
<1>3. \A b \in L : next[b] # NIL => next[b] \in L /\ rank[b] < rank[next[b]]
  BY <1>1, ZenonT(40) DEF Ascending
<1>4. ASSUME NEW b \in L, b # first
      PROVE  \E c \in L : next[c] = b
  <2> DEFINE Gap == {b - c : c \in {x \in L : x < b}}
  <2>1. first \in L /\ first < b
    <3>1. first \in L /\ first <= b
      BY DEF Ascending
    <3>2. first \in Nat /\ b \in Nat
      BY <1>1, <3>1, ZenonT(40)
    <3> QED
      BY ONLY <1>4, <3>1, <3>2
  <2>2. Gap \in SUBSET Nat /\ Gap # {}
    BY ONLY <1>1, <2>1
  <2>3. PICK g \in Gap : \A h \in Gap : g <= h
    <3> HIDE DEF Gap
    <3> QED
      BY <2>2, LeastNat, ZenonT(40)
  <2>4. PICK c \in L : c < b /\ g = b - c
    BY <2>3, ZenonT(40)
  <2>5. \A x \in L : x < b => x <= c
    <3> SUFFICES ASSUME NEW x \in L, x < b
                 PROVE  x <= c
      OBVIOUS
    <3>1. b - x \in Gap
      OBVIOUS
    <3>2. b - c <= b - x
      BY <2>3, <2>4, <3>1, ZenonT(40)
    <3>3. b \in Nat /\ c \in Nat /\ x \in Nat
      BY <1>1, ZenonT(40)
    <3> QED
      BY ONLY <3>2, <3>3
  <2>6. next[c] \in L /\ c < next[c] /\ next[c] <= b
    <3>1. ~ (b <= c)
      BY <1>1, <2>4
    <3> QED
      BY <2>4, <3>1, ZenonT(40) DEF Ascending
  <2>7. b \in Nat /\ c \in Nat /\ next[c] \in Nat /\ (next[c] < b => next[c] <= c)
    BY <1>1, <2>4, <2>5, <2>6, ZenonT(40)
  <2>8. next[c] = b
    BY ONLY <2>6, <2>7
  <2> QED
    BY <2>4, <2>8, ZenonT(40)
<1>5. ASSUME NEW b \in L, next[b] # NIL
      PROVE  next[b] # first /\ \A c \in L : next[c] = next[b] => c = b
  <2>1. next[b] \in L /\ b < next[b] /\ \A c \in L : c <= b \/ next[b] <= c
    BY <1>5 DEF Ascending
  <2>2. first <= b /\ first \in L
    BY DEF Ascending
  <2>3. \A c \in L : next[c] = next[b] => c < next[b] /\ (b <= c \/ next[b] <= b)
    BY <1>5 DEF Ascending
  <2>4. b \in Nat /\ first \in Nat /\ next[b] \in Nat /\ \A c \in L : c \in Nat
    BY <1>1, <2>1, <2>2, ZenonT(40)
  <2>5. next[b] # first
    BY ONLY <2>1, <2>2, <2>4
  <2> QED
    BY ONLY <2>1, <2>3, <2>4, <2>5
<1> QED
  BY <1>2, <1>3, <1>4, <1>5, ZenonT(40) DEF IsList

\* The table that upload_dir leaves satisfies the invariant.
LEMMA InitTableInv == Init => TableInv
<1> SUFFICES ASSUME NEW s \in DOMAIN Sessions, Uploaded(Sessions[s].files),
                    me = [p \in Proc |-> Idle(s)]
             PROVE  TableInv
  BY DEF Init
<1>1. PICK files : files = Sessions[s].files
  OBVIOUS
<1>2. /\ files \in Seq(Path) /\ Len(files) \in Nat /\ Len(files) <= META_BUCKETS
      /\ META_BUCKETS \in Nat \ {0} /\ DOMAIN files = 1 .. Len(files)
      /\ NIL \in Link /\ NoProc \notin Proc
  BY ONLY <1>1, TableAssumption DEF Link
<1>3. \A k \in 1 .. Len(files) : files[k] \in Path /\ hash[files[k]] \in Row
  BY ONLY <1>2, TableAssumption
<1>4. \A b \in MBucket : b \in Nat /\ (b < Len(files) => b + 1 \in 1 .. Len(files))
  BY <1>2 DEF MBucket
<1>5. \A k \in 1 .. Len(files) : k - 1 \in MBucket /\ k - 1 < Len(files) /\ (k - 1) + 1 = k
  BY <1>2 DEF MBucket
<1> DEFINE After(b) == {k \in InRow(files, hash[files[b + 1]]) : k > b + 1}
           On(r) == {b \in MBucket : b < Len(files) /\ hash[files[b + 1]] = r}
<1>6. /\ \A r : InRow(files, r) \in SUBSET (1 .. Len(files))
      /\ \A r : \A k \in 1 .. Len(files) : k \in InRow(files, r) <=> k - 1 \in On(r)
  BY <1>2, <1>5, ZenonT(40) DEF InRow
<1>7. \A r : On(r) \in SUBSET MBucket /\ \A b \in On(r) : b + 1 \in InRow(files, r)
  BY <1>2, <1>4, ZenonT(40) DEF InRow
<1>8. \A S \in SUBSET (1 .. Len(files)) :
        /\ S = {} => Least(S) = NIL
        /\ S # {} => /\ Least(S) \in MBucket /\ Least(S) + 1 \in S
                     /\ \A k \in S : Least(S) + 1 <= k
  <2> SUFFICES ASSUME NEW S \in SUBSET (1 .. Len(files)), S # {}
               PROVE  /\ Least(S) \in MBucket /\ Least(S) + 1 \in S
                      /\ \A k \in S : Least(S) + 1 <= k
    BY DEF Least
  <2>1. S \in SUBSET Nat
    BY <1>2
  <2>2. Least(S) + 1 \in S /\ \A k \in S : Least(S) + 1 <= k
    BY <2>1, LeastIs, ZenonT(40)
  <2>3. PICK n \in S : Least(S) = n - 1
    <3>1. (CHOOSE k \in S : \A k2 \in S : k <= k2) \in S
      BY <2>1, LeastNat, ZenonT(40)
    <3> QED
      BY <3>1, ZenonT(40) DEF Least
  <2>4. Least(S) \in MBucket
    BY <1>5, <2>3, ZenonT(40)
  <2> QED
    BY <2>2, <2>4, ZenonT(40)
<1>9. \A S \in SUBSET (1 .. Len(files)) : Least(S) \in Link
  BY <1>8 DEF Link
<1>10. \A b \in MBucket : b < Len(files) => After(b) \in SUBSET (1 .. Len(files))
  BY <1>6, ZenonT(40)
<1>11. /\ hash_table = [r \in Row |-> [first_ix |-> Least(InRow(files, r)), num_readers |-> 0,
                                       num_writers |-> 0, real_lock |-> NoProc]]
       /\ mb_arr = [b \in MBucket |->
            IF b < Len(files)
              THEN [in_use |-> TRUE, path |-> files[b + 1], data |-> TRUE, lock |-> NoProc,
                    next_ix |-> Least(After(b))]
              ELSE [in_use |-> FALSE, path |-> NoPath, data |-> FALSE, lock |-> NoProc,
                    next_ix |-> NIL]]
  BY <1>1, ZenonT(40) DEF Uploaded
<1> HIDE DEF After, On
<1>12. hash_table \in [Row -> RowT]
  BY ONLY <1>6, <1>9, <1>11 DEF RowT
<1>13. mb_arr \in [MBucket -> BucketT]
  <2>1. ASSUME NEW b \in MBucket PROVE mb_arr[b] \in BucketT
    <3>1. CASE b < Len(files)
      <4>1. files[b + 1] \in Path /\ Least(After(b)) \in Link
        BY <1>3, <1>4, <1>9, <1>10, <3>1, ZenonT(40)
      <4>2. mb_arr[b] = [in_use |-> TRUE, path |-> files[b + 1], data |-> TRUE, lock |-> NoProc,
                         next_ix |-> Least(After(b))]
        BY <1>11, <3>1, ZenonT(40)
      <4> QED
        BY <4>1, <4>2 DEF BucketT
    <3>2. CASE ~ (b < Len(files))
      <4>1. mb_arr[b] = [in_use |-> FALSE, path |-> NoPath, data |-> FALSE, lock |-> NoProc,
                         next_ix |-> NIL]
        BY <1>11, <3>2, ZenonT(40)
      <4> QED
        BY <1>2, <4>1 DEF BucketT
    <3> QED
      BY <3>1, <3>2, ZenonT(40)
  <2>2. mb_arr = [b \in MBucket |-> mb_arr[b]]
    BY <1>11
  <2> QED
    BY <2>1, <2>2, ZenonT(40)
<1>14. TypeInv
  <2>1. Idle(s) \in Locals
    <3>1. 0 \in MBucket /\ 0 \in 0 .. META_BUCKETS /\ "idle" \in Control
      BY <1>2 DEF MBucket, Control
    <3> QED
      BY <1>2, <3>1, ZenonT(40) DEF Idle, Locals
  <2>2. Consistent(Idle(s))
    BY ZenonT(40) DEF Idle, Consistent, Point, BothRows
  <2> QED
    BY <1>12, <1>13, <2>1, <2>2, ZenonT(40) DEF TypeInv
<1>15. /\ \A p \in Proc : me[p] = Idle(s)
       /\ Holds(Idle(s)) = {} /\ Reads(Idle(s)) = {} /\ Writes(Idle(s)) = {} /\ Hand(Idle(s)) = {}
       /\ \A lists : Found(lists, Idle(s))
  BY ZenonT(40) DEF Holds, Reads, Writes, Hand, Idle, BothRows, Found, Ending
<1>16. HolderInv
  BY <1>15 DEF HolderInv
<1>17. CountInv
  <2>1. \A r \in Row : hash_table[r].num_readers = 0 /\ hash_table[r].num_writers = 0
    BY <1>11, ZenonT(40)
  <2>2. \A r \in Row : /\ {p \in Proc : r \in Reads(me[p])} = {}
                       /\ {p \in Proc : r \in Writes(me[p])} = {}
    BY <1>15, ZenonT(40)
  <2>3. Cardinality({}) = 0
    BY FS_EmptySet
  <2>4. 0 \in Nat /\ 0 >= 0
    BY ONLY TRUE
  <2> QED
    BY <2>1, <2>2, <2>3, <2>4, ZenonT(40) DEF CountInv
<1>18. ListInv
  <2> DEFINE lists == [r \in Row |-> On(r)]
             rank == [b \in MBucket |-> b]
  <2>1. lists \in [Row -> SUBSET MBucket] /\ rank \in [MBucket -> Nat]
    BY <1>4, <1>7, ZenonT(120)
  <2>2. InUse = {b \in MBucket : b < Len(files)}
    BY <1>11 DEF InUse
  <2>3. ASSUME NEW r \in Row PROVE RowIs(r, On(r), rank)
    <3>1. On(r) \in SUBSET MBucket /\ hash_table[r].first_ix = Least(InRow(files, r))
      BY <1>7, <1>11, ZenonT(40)
    <3>2. ASSUME NEW b \in On(r)
          PROVE  /\ NextIx[b] = Least(After(b)) /\ After(b) \in SUBSET (1 .. Len(files))
                 /\ After(b) = {k \in InRow(files, r) : k > b + 1}
      <4>1. b \in MBucket /\ b < Len(files) /\ hash[files[b + 1]] = r
        BY DEF On
      <4> QED
        BY <1>10, <1>11, <4>1, ZenonT(40) DEF NextIx, After
    <3>3. \A b \in On(r) : b \in Nat /\ b + 1 \in InRow(files, r)
      BY <1>4, <1>7, ZenonT(40)
    <3>4. On(r) = {} => hash_table[r].first_ix = NIL
      BY <1>6, <1>8, <3>1, ZenonT(40)
    <3>5. On(r) # {} => /\ hash_table[r].first_ix \in On(r)
                        /\ \A b \in On(r) : hash_table[r].first_ix <= b
      <4> SUFFICES ASSUME On(r) # {}
                   PROVE  /\ hash_table[r].first_ix \in On(r)
                          /\ \A b \in On(r) : hash_table[r].first_ix <= b
        OBVIOUS
      <4>1. PICK n : n = Least(InRow(files, r))
        OBVIOUS
      <4>2. n \in MBucket /\ n + 1 \in InRow(files, r) /\ \A k \in InRow(files, r) : n + 1 <= k
        BY <1>6, <1>8, <3>3, <4>1, ZenonT(40)
      <4>3. n \in Nat /\ (n + 1) - 1 = n
        BY ONLY <1>4, <4>2
      <4>4. n \in On(r)
        BY <1>6, <4>2, <4>3, ZenonT(40)
      <4>5. \A b \in On(r) : n <= b
        BY <3>3, <4>2, <4>3, PlusOne, ZenonT(40)
      <4> QED
        BY <3>1, <4>1, <4>4, <4>5, ZenonT(40)
    <3>6. ASSUME NEW b \in On(r)
          PROVE  \/ NextIx[b] = NIL /\ \A c \in On(r) : c <= b
                 \/ /\ NextIx[b] \in On(r) /\ b < NextIx[b]
                    /\ \A c \in On(r) : c <= b \/ NextIx[b] <= c
      <4>1. CASE After(b) = {}
        <5>1. NextIx[b] = NIL
          BY <1>8, <3>2, <4>1, ZenonT(40)
        <5>2. \A k \in InRow(files, r) : ~ (k > b + 1)
          BY <3>2, <4>1, ZenonT(40)
        <5>3. \A c \in On(r) : c <= b
          BY ONLY <3>3, <5>2
        <5> QED
          BY <5>1, <5>3, ZenonT(40)
      <4>2. CASE After(b) # {}
        <5>1. PICK n : n = Least(After(b))
          OBVIOUS
        <5>2. n \in MBucket /\ n + 1 \in After(b) /\ \A k \in After(b) : n + 1 <= k
          BY <1>8, <3>2, <4>2, <5>1, ZenonT(40)
        <5>3. n \in Nat /\ (n + 1) - 1 = n
          BY ONLY <1>4, <5>2
        <5>4. n + 1 \in InRow(files, r) /\ n + 1 > b + 1
          BY <3>2, <5>2, ZenonT(40)
        <5>5. n \in On(r)
          BY <1>6, <5>3, <5>4, ZenonT(40)
        <5>6. b < n
          BY ONLY <3>3, <5>3, <5>4
        <5>7. \A c \in On(r) : c <= b \/ n <= c
          BY <3>2, <3>3, <5>2, <5>3, PlusOne, ZenonT(40)
        <5> QED
          BY <3>2, <5>1, <5>5, <5>6, <5>7, ZenonT(40)
      <4> QED
        BY <4>1, <4>2, ZenonT(40)
    <3>7. Ascending(hash_table[r].first_ix, NextIx, On(r))
      BY <3>4, <3>5, <3>6, ZenonT(40) DEF Ascending
    <3> QED
      BY <3>1, <3>7, AscendingList, ZenonT(40) DEF RowIs
  <2>4. RowInv(lists, rank)
    <3>1. \A r, t \in Row : r # t => On(r) \cap On(t) = {}
      BY DEF On
    <3>2. \A r \in Row : On(r) \subseteq InUse
      BY <2>2 DEF On
    <3> QED
      BY <2>3, <3>1, <3>2, ZenonT(40) DEF RowInv
  <2>5. HandInv(lists)
    <3>1. \A b \in InUse : \E r \in Row : b \in lists[r]
      BY <1>3, <1>4, <2>2, ZenonT(40) DEF On
    <3>2. \A b \in MBucket \ InUse : NextIx[b] = NIL
      BY <1>11, <2>2, ZenonT(40) DEF NextIx
    <3> QED
      BY <1>15, <3>1, <3>2, ZenonT(40) DEF HandInv
  <2> HIDE DEF lists, rank
  <2> QED
    BY <1>15, <2>1, <2>4, <2>5, ZenonT(40) DEF ListInv
<1> QED
  BY <1>14, <1>16, <1>17, <1>18, ZenonT(40) DEF TableInv

----------------------------------------------------------------------------
(* The theorems *)

\* Every step of every process keeps the invariant.
LEMMA NextTableInv == TableInv /\ [Next]_vars => TableInv'
  BY ProcsCount, SearchIsSound, StepTableInv, ZenonT(40)

(* Whatever calls the processes make and however their steps interleave,   *)
(* the table keeps the invariant: each row has a list, what is in use is   *)
(* on one list or in one hand, a search's results stay true until they are *)
(* used, and a row that a process will unlock is locked by it.             *)
THEOREM TableKeepsInv == Spec => []TableInv
<1> QED
  BY InitTableInv, NextTableInv, PTL DEF Spec

(* meta_shm.c never stores a link that is neither a bucket nor the end of  *)
(* a list, and rwlock.c's counters never go below zero in any row, in a    *)
(* rename that fails or that takes one row twice either.                   *)
THEOREM TableTypes == Spec => []TypeOK
<1>1. TableInv => TypeOK
  <2> SUFFICES ASSUME TableInv
               PROVE  TypeOK
    OBVIOUS
  <2>1. TypeInv /\ CountInv
    BY DEF TableInv
  <2>2. \A r \in Row : hash_table[r].num_readers \in Nat /\ hash_table[r].num_writers \in Nat
    <3> SUFFICES ASSUME NEW r \in Row
                 PROVE  hash_table[r].num_readers \in Nat
      BY <2>1, ZenonT(40) DEF CountInv
    <3> DEFINE R == {p \in Proc : r \in Reads(me[p])}
    <3>1. hash_table[r].num_readers = Cardinality(R)
      BY <2>1, ZenonT(40) DEF CountInv
    <3>2. R \subseteq Proc /\ IsFiniteSet(Proc)
      BY TableAssumption, ZenonT(40)
    <3> HIDE DEF R
    <3>3. Cardinality(R) \in Nat
      BY <3>2, FS_Subset, FS_CardinalityType, ZenonT(40)
    <3> QED
      BY <3>1, <3>3, ZenonT(40)
  <2>3. \A r \in Row :
          hash_table[r] \in [first_ix : MBucket \cup {NIL}, num_readers : Nat,
                             num_writers : Nat, real_lock : Proc \cup {NoProc}]
    BY <2>1, <2>2, ZenonT(40) DEF TypeInv, RowT, Link
  <2>4. hash_table \in [Row -> [first_ix : MBucket \cup {NIL}, num_readers : Nat,
                                num_writers : Nat, real_lock : Proc \cup {NoProc}]]
    BY <2>1, <2>3, ZenonT(40) DEF TypeInv
  <2>5. mb_arr \in [MBucket -> [in_use : BOOLEAN, path : Path \cup {NoPath},
                                data : BOOLEAN, lock : Proc \cup {NoProc},
                                next_ix : MBucket \cup {NIL}]]
    BY <2>1 DEF TypeInv, BucketT, Link
  <2>6. DOMAIN me = Proc /\ \A p \in Proc : me[p] \in Locals
    BY <2>1 DEF TypeInv
  <2>7. ASSUME NEW p \in Proc
        PROVE  /\ me[p].session \in DOMAIN Sessions /\ me[p].pc \in Control /\ me[p].ret \in Control
               /\ {me[p].mb, me[p].prev, me[p].mb_new, me[p].new_prev} \subseteq MBucket \cup {NIL}
               /\ me[p].i \in 0 .. META_BUCKETS /\ me[p].start \in MBucket
    BY <2>6, ZenonT(40) DEF Locals, Link
  <2> QED
    BY <2>4, <2>5, <2>6, <2>7, ZenonT(40) DEF TypeOK
<1> QED
  BY <1>1, TableKeepsInv, PTL

(* A walk of a row of the file table ends after at most META_BUCKETS       *)
(* links, no bucket is on two rows, and allocate_mbucket finds every       *)
(* linked bucket in use: for every table size, every hash and every number *)
(* of processes that stat, open, unlink and rename.                        *)
THEOREM TableLists == Spec => []ListsSound
<1>1. TableInv => ListsSound
  <2> SUFFICES ASSUME TableInv
               PROVE  ListsSound
    OBVIOUS
  <2>1. PICK lists, rank : Witness(lists, rank)
    BY DEF TableInv, ListInv, Witness
  <2>2. RowInv(lists, rank) /\ rank \in [MBucket -> Nat]
    BY <2>1, ZenonT(40) DEF Witness
  <2>3. \A r \in Row : RowIs(r, lists[r], rank)
    BY <2>2, ZenonT(40) DEF RowInv
  <2>4. \A r \in Row : Walk(r)[META_BUCKETS] = NIL
    BY <2>2, <2>3, WalkEnds, ZenonT(40)
  <2>5. \A r \in Row : Members(r) = lists[r]
    BY <2>2, <2>3, MembersAreList, ZenonT(40)
  <2> QED
    BY <2>2, <2>4, <2>5, ZenonT(40) DEF RowInv, InUse, ListsSound
<1> QED
  BY <1>1, TableKeepsInv, PTL

(* allocate_mbucket, strict_create_mbucket, release_meta_bucket and        *)
(* mb_chpath lose no metadata bucket and share none: one that is in use is *)
(* on exactly one row, or in the hands of exactly one process, at every    *)
(* step of every interleaving.                                             *)
THEOREM TableNoOrphan == Spec => []NoOrphan
<1>1. TableInv => NoOrphan
  <2> SUFFICES ASSUME TableInv, NEW b \in MBucket, mb_arr[b].in_use
               PROVE  Cardinality({r \in Row : b \in Members(r)})
                        + Cardinality({p \in Proc : b \in InHand(p)}) = 1
    BY DEF NoOrphan
  <2>1. PICK lists, rank : Witness(lists, rank)
    BY DEF TableInv, ListInv, Witness
  <2>2. RowInv(lists, rank) /\ HandInv(lists) /\ rank \in [MBucket -> Nat]
    BY <2>1, ZenonT(40) DEF Witness
  <2>3. \A r \in Row : RowIs(r, lists[r], rank)
    BY <2>2, ZenonT(40) DEF RowInv
  <2>4. \A r \in Row : Members(r) = lists[r]
    BY <2>2, <2>3, MembersAreList, ZenonT(40)
  <2>5. \A p \in Proc : InHand(p) = Hand(me[p])
    BY DEF InHand, Hand
  <2>6. b \in InUse
    BY DEF InUse
  <2> DEFINE R == {r \in Row : b \in Members(r)}
             P == {p \in Proc : b \in InHand(p)}
  <2>7. Cardinality({}) = 0 /\ \A x : Cardinality({x}) = 1
    BY FS_EmptySet, FS_Singleton, ZenonT(40)
  <2> HIDE DEF R, P
  <2>8. ASSUME \E r \in Row : b \in lists[r]
        PROVE  Cardinality(R) + Cardinality(P) = 1
    <3>1. PICK r \in Row : b \in lists[r]
      BY <2>8, ZenonT(40)
    <3>2. \A s \in Row : s # r => b \notin lists[s]
      BY <2>2, <3>1, ZenonT(40) DEF RowInv
    <3>3. R = {r}
      BY <2>4, <3>1, <3>2, ZenonT(40) DEF R
    <3>4. P = {}
      BY ONLY <2>2, <2>5, <3>1 DEF HandInv, P
    <3>5. Cardinality(R) = 1 /\ Cardinality(P) = 0
      BY <2>7, <3>3, <3>4, ZenonT(40)
    <3> QED
      BY <3>5
  <2>9. ASSUME ~ \E r \in Row : b \in lists[r]
        PROVE  Cardinality(R) + Cardinality(P) = 1
    <3>1. PICK p \in Proc : b \in Hand(me[p])
      BY <2>2, <2>6, <2>9, ZenonT(40) DEF HandInv
    <3>2. \A q \in Proc : q # p => b \notin Hand(me[q])
      BY <2>2, <3>1, ZenonT(40) DEF HandInv
    <3>3. P = {p}
      BY <2>5, <3>1, <3>2, ZenonT(40) DEF P
    <3>4. R = {}
      BY <2>4, <2>9, ZenonT(40) DEF R
    <3>5. Cardinality(R) = 0 /\ Cardinality(P) = 1
      BY <2>7, <3>3, <3>4, ZenonT(40)
    <3> QED
      BY <3>5
  <2>10. Cardinality(R) + Cardinality(P) = 1
    BY <2>8, <2>9, ZenonT(120)
  <2> QED
    BY <2>10, ZenonT(40) DEF R, P
<1> QED
  BY <1>1, TableKeepsInv, PTL

----------------------------------------------------------------------------
(* The locks of the rows *)

(* LockState is that view. *)
ViewRight == \A r \in Row : LockState(r) = [p \in Proc |-> View(me[p], r)]

(* Without rename it is: the holders are those whom the lock words name. *)
LEMMA Seen == TableInv /\ TameInv /\ Tame => ViewRight
<1> SUFFICES ASSUME TableInv, TameInv, Tame, NEW r \in Row, NEW p \in Proc
             PROVE  LockState(r)[p] = View(me[p], r)
  BY DEF LockState, ViewRight
<1>1. hash_table[r].real_lock = p <=> View(me[p], r) \in {"w_cs", "w_out"}
  <2>1. me[p] \in Locals /\ Consistent(me[p]) /\ me[p].job.op # "rename"
    BY DEF TableInv, TypeInv, TameInv
  <2>2. hash_table[r].real_lock = p <=> r \in Holds(me[p])
    BY ZenonT(40) DEF TableInv, HolderInv, TameInv
  <2> QED
    BY <2>1, <2>2, TameHolds, ZenonT(40)
<1> QED
  BY <1>1, ZenonT(40) DEF LockState, LockPoint, View, OnLock

(* A step that RWLock allows on row r is one of RowLock(r), or leaves it. *)
LEMMA RowStep ==
  ASSUME TableInv, TameInv, Tame, TableInv', TameInv', Tame',
         NEW p \in Proc, RowsMove(p), NEW r \in Row
  PROVE  [RowLock(r)!Next]_(RowLock(r)!vars)
<1> DEFINE v == LockState(r)
<1>1. v = [q \in Proc |-> View(me[q], r)] /\ v' = [q \in Proc |-> View(me'[q], r)]
  <2>1. ViewRight
    BY Seen
  <2>2. ViewRight'
    BY Seen, PTL
  <2> QED
    BY <2>1, <2>2, ZenonT(40) DEF ViewRight
<1> DEFINE k == hash_table[r]
           a == View(me[p], r)
           b == View(me'[p], r)
<1>2. v[p] = a /\ v' = [v EXCEPT ![p] = b] /\ (b = a => v' = v)
  <2>1. \A q \in Proc : q # p => me'[q] = me[q]
    BY ZenonT(40) DEF RowsMove
  <2> HIDE DEF v, a, b
  <2>2. v[p] = a /\ v'[p] = b /\ \A q \in Proc : q # p => v'[q] = v[q]
    BY <1>1, <2>1, ZenonT(40) DEF a, b
  <2>3. v = [q \in Proc |-> v[q]] /\ v' = [q \in Proc |-> v'[q]]
    BY <1>1, ZenonT(40)
  <2> QED
    BY ONLY <2>2, <2>3, ZenonT(40)
<1>3. \/ b = a /\ SameWords(r)
      \/ a = "idle" /\ b = "w_wait" /\ Words(r, k.num_readers, k.num_writers + 1, k.real_lock)
      \/ a = "w_wait" /\ b = "w_spin" /\ k.num_readers = 0 /\ SameWords(r)
      \/ a = "w_spin" /\ b = "w_cs" /\ k.real_lock = NoProc
           /\ Words(r, k.num_readers, k.num_writers, p)
      \/ a = "w_cs" /\ b = "w_out" /\ Words(r, k.num_readers, k.num_writers - 1, k.real_lock)
      \/ a = "w_out" /\ b = "idle" /\ Words(r, k.num_readers, k.num_writers, NoProc)
      \/ a = "idle" /\ b = "r_wait" /\ SameWords(r)
      \/ a = "r_wait" /\ b = "r_add" /\ k.num_writers = 0 /\ SameWords(r)
      \/ a = "r_add" /\ b = "r_cs" /\ Words(r, k.num_readers + 1, k.num_writers, k.real_lock)
      \/ a = "r_cs" /\ b = "idle" /\ Words(r, k.num_readers - 1, k.num_writers, k.real_lock)
  BY ZenonT(40) DEF RowsMove, RowMove
<1> HIDE DEF v, a, b
<1>4. CASE b = a /\ SameWords(r)
  BY <1>2, <1>4, ZenonT(40) DEF v, RowLock!vars, SameWords, Words
<1>5. CASE a = "idle" /\ b = "w_wait" /\ Words(r, k.num_readers, k.num_writers + 1, k.real_lock)
  <2>1. RowLock(r)!WriterRegister(p)
    BY <1>2, <1>5, ZenonT(40) DEF v, Words, RowLock!WriterRegister, RowLock!Goto
  <2> QED
    BY <2>1, ZenonT(40) DEF RowLock!Next
<1>6. CASE a = "w_wait" /\ b = "w_spin" /\ k.num_readers = 0 /\ SameWords(r)
  <2>1. RowLock(r)!WriterSeesNoReader(p)
    BY <1>2, <1>6, ZenonT(40) DEF v, Words, SameWords, RowLock!WriterSeesNoReader, RowLock!Goto
  <2> QED
    BY <2>1, ZenonT(40) DEF RowLock!Next, RowLock!Step
<1>7. CASE a = "w_spin" /\ b = "w_cs" /\ k.real_lock = NoProc
            /\ Words(r, k.num_readers, k.num_writers, p)
  <2>1. RowLock(r)!WriterLock(p)
    BY <1>2, <1>7, ZenonT(40) DEF v, Words, RowLock!WriterLock, RowLock!Goto
  <2> QED
    BY <2>1, ZenonT(40) DEF RowLock!Next, RowLock!Step
<1>8. CASE a = "w_cs" /\ b = "w_out" /\ Words(r, k.num_readers, k.num_writers - 1, k.real_lock)
  <2>1. RowLock(r)!WriterDeregister(p)
    BY <1>2, <1>8, ZenonT(40) DEF v, Words, RowLock!WriterDeregister, RowLock!Goto
  <2> QED
    BY <2>1, ZenonT(40) DEF RowLock!Next, RowLock!Step
<1>9. CASE a = "w_out" /\ b = "idle" /\ Words(r, k.num_readers, k.num_writers, NoProc)
  <2>1. RowLock(r)!WriterUnlock(p)
    BY <1>2, <1>9, ZenonT(40) DEF v, Words, RowLock!WriterUnlock, RowLock!Goto
  <2> QED
    BY <2>1, ZenonT(40) DEF RowLock!Next, RowLock!Step
<1>10. CASE a = "idle" /\ b = "r_wait" /\ SameWords(r)
  <2>1. RowLock(r)!ReaderCall(p)
    BY <1>2, <1>10, ZenonT(40) DEF v, Words, SameWords, RowLock!ReaderCall, RowLock!Goto
  <2> QED
    BY <2>1, ZenonT(40) DEF RowLock!Next
<1>11. CASE a = "r_wait" /\ b = "r_add" /\ k.num_writers = 0 /\ SameWords(r)
  <2>1. RowLock(r)!ReaderSeesNoWriter(p)
    BY <1>2, <1>11, ZenonT(40) DEF v, Words, SameWords, RowLock!ReaderSeesNoWriter, RowLock!Goto
  <2> QED
    BY <2>1, ZenonT(40) DEF RowLock!Next, RowLock!Step
<1>12. CASE a = "r_add" /\ b = "r_cs" /\ Words(r, k.num_readers + 1, k.num_writers, k.real_lock)
  <2>1. RowLock(r)!ReaderRegister(p)
    BY <1>2, <1>12, ZenonT(40) DEF v, Words, RowLock!ReaderRegister, RowLock!Goto
  <2> QED
    BY <2>1, ZenonT(40) DEF RowLock!Next, RowLock!Step
<1>13. CASE a = "r_cs" /\ b = "idle" /\ Words(r, k.num_readers - 1, k.num_writers, k.real_lock)
  <2>1. RowLock(r)!ReaderDeregister(p)
    BY <1>2, <1>13, ZenonT(40) DEF v, Words, RowLock!ReaderDeregister, RowLock!Goto
  <2> QED
    BY <2>1, ZenonT(40) DEF RowLock!Next, RowLock!Step
<1> QED
  BY <1>3, <1>4, <1>5, <1>6, <1>7, <1>8, <1>9, <1>10, <1>11, <1>12, <1>13, ZenonT(40)

(* At the start no row is locked. *)
LEMMA InitRows ==
  ASSUME Init
  PROVE  TameInv /\ \A r \in Row : RowLock(r)!Init
<1>1. PICK s \in DOMAIN Sessions : Uploaded(Sessions[s].files) /\ me = [p \in Proc |-> Idle(s)]
  BY ZenonT(40) DEF Init
<1>2. \A r \in Row : /\ hash_table[r].num_readers = 0 /\ hash_table[r].num_writers = 0
                     /\ hash_table[r].real_lock = NoProc
  BY <1>1, ZenonT(40) DEF Uploaded
<1>3. \A p \in Proc : me[p].pc = "idle" /\ me[p].job.op = "none"
  BY <1>1, ZenonT(40) DEF Idle, NoJob
<1>4. TameInv
  BY <1>2, <1>3, TableAssumption, ZenonT(40) DEF TameInv
<1>5. \A r \in Row : LockState(r) = [p \in Proc |-> "idle"]
  BY <1>2, <1>3, TableAssumption, ZenonT(40) DEF LockState, LockPoint
<1> QED
  BY <1>2, <1>4, <1>5, ZenonT(40) DEF RowLock!Init

(* The locks of the rows are used as RWLock allows: without rename, what   *)
(* open, stat and unlink do to the lock of any row, through lock_rw and    *)
(* unlock_rw, are steps of RWLock, so that its theorems hold of each row.  *)
THEOREM RowsImplementRWLock == Spec => RowsFollowRWLock
<1>1. Init => TableInv /\ TameInv /\ \A r \in Row : RowLock(r)!Init
  BY InitTableInv, InitRows, ZenonT(40)
<1>2. TableInv /\ TameInv /\ [Next]_vars => TableInv' /\ TameInv'
  BY NextTableInv, NextTameInv, ZenonT(40)
<1>3. TableInv /\ TameInv /\ TableInv' /\ TameInv' /\ [Next]_vars
        => [Tame => \A r \in Row : [RowLock(r)!Next]_(RowLock(r)!vars)]_vars
  <2> SUFFICES ASSUME TableInv, TameInv, TableInv', TameInv', Next, Tame, NEW r \in Row
               PROVE  [RowLock(r)!Next]_(RowLock(r)!vars)
    OBVIOUS
  <2>1. Tame'
    BY TameKept, ZenonT(40) DEF TableInv
  <2>2. PICK p \in Proc : RowsMove(p)
    BY NextRows
  <2> QED
    BY <2>1, <2>2, RowStep, ZenonT(40)
<1> QED
  BY <1>1, <1>2, <1>3, PTL DEF Spec, RowsFollowRWLock
=============================================================================
