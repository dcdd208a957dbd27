------------------------- MODULE BucketAllocProofs --------------------------
(***************************************************************************)
(* Proofs about BucketAlloc, for any number of processes, buckets and      *)
(* cores and any choice of methods.                                        *)
(*                                                                         *)
(* Exclusive needs InUseIffHeld (a bucket found free was given to nobody), *)
(* which needs ClaimIsFree (the second test of in_use still holds when     *)
(* in_use is set), which needs LockHolder (the lock of a bucket is held by *)
(* the one process between its trylock and its unlock).  TypeOK needs      *)
(* AtPoint (an iteration looks only at the window of its call).           *)
(* OverUseJustified needs WalkInv (what a walk has passed is busy).        *)
(***************************************************************************)
EXTENDS BucketAlloc, TLAPS

(* Arithmetic of the slices.                                               *)
LEMMA ModRange ==
  ASSUME NEW a \in Nat, NEW n \in Nat \ {0}
  PROVE  a % n \in 0 .. n - 1
OBVIOUS

\* The slices of the cores are not empty and fit into the array.
LEMMA SpanRange == Span \in Nat \ {0} /\ Span * NCores <= Tot
<1>1. Span \in Nat /\ Span * NCores <= Tot
  BY AllocAssumption DEF Span
<1>2. Span # 0
  BY AllocAssumption DEF Span
<1> QED
  BY <1>1, <1>2

\* The slice of a core lies inside the array.
LEMMA SliceRange ==
  ASSUME NEW c \in Core
  PROVE  Span * c \in Nat /\ Span * c + Span <= Tot
<1>1. Span * (c + 1) <= Span * NCores
  BY SpanRange, AllocAssumption DEF Core
<1>2. Span * (c + 1) = Span * c + Span
  BY SpanRange, AllocAssumption DEF Core
<1>3. Span * c \in Nat
  BY SpanRange, AllocAssumption DEF Core
<1> QED
  BY <1>1, <1>2, <1>3, SpanRange, AllocAssumption

\* A bucket's lock is held by the process that locked it and by no other.
LockHolder ==
  \A p \in Proc, b \in Bucket :
    lock[b] = p <=> ix[p] = b /\ pc[p] \in {"check", "claim", "claimed"}

ClaimIsFree == \A p \in Proc : pc[p] = "claim" => ~ in_use[ix[p]]

\* What a process knows at a point of its function.
AtPoint ==
  \A p \in Proc :
    /\ pc[p] \in {"try", "check", "claim", "claimed", "advance"}
         => ix[p] \in Window(p) /\ i[p] < Bound
    /\ pc[p] = "advance" => method = "all_per_core_rough_ind"
    /\ pc[p] \in {"clear", "uncount"} => AllowRelease

AllocInv ==
  /\ TypeOK
  /\ AtPoint
  /\ LockHolder
  /\ ClaimIsFree
  /\ InUseIffHeld
  /\ Exclusive

\* The window of a walk is part of the array.
LEMMA WindowInBucket ==
  ASSUME TypeOK, NEW p \in Proc
  PROVE  Window(p) \subseteq Bucket /\ Bound \in 0 .. Tot
<1>1. core_ix[p] \in Core
  BY DEF TypeOK
<1>2. Span * core_ix[p] \in Nat /\ Span * core_ix[p] + Span <= Tot
  BY <1>1, SliceRange
<1> QED
  BY <1>2, SpanRange, AllocAssumption DEF Window, Bucket, Bound

\* The modulo of the walk keeps it inside its window.
LEMMA PositionAtPoint ==
  ASSUME TypeOK, NEW p \in Proc
  PROVE  Position(p) \in Window(p)
<1>a. /\ dindex[p] \in Bucket /\ i[p] \in 0 .. Tot /\ rough_index \in Bucket
      /\ core_rough[core_ix[p]] \in 0 .. Span - 1
  BY ZenonT(40) DEF TypeOK
<1>1. /\ dindex[p] + i[p] \in Nat
      /\ rough_index + i[p] \in Nat
      /\ core_rough[core_ix[p]] + i[p] \in Nat
  BY <1>a, SpanRange, AllocAssumption DEF Bucket
<1>2. Tot \in Nat \ {0}
  BY AllocAssumption
<1>3. Span * core_ix[p] \in Nat
  BY SliceRange DEF TypeOK
<1>4. CASE method \in Whole
  <2>1. /\ (dindex[p] + i[p]) % Tot \in 0 .. Tot - 1
        /\ (rough_index + i[p]) % Tot \in 0 .. Tot - 1
    BY <1>1, <1>2, ModRange, ZenonT(40)
  <2> QED
    BY <1>4, <2>1 DEF Position, Window, Bucket, Whole
<1>5. CASE method \notin Whole
  <2>1. /\ (dindex[p] + i[p]) % Span \in 0 .. Span - 1
        /\ (core_rough[core_ix[p]] + i[p]) % Span \in 0 .. Span - 1
    BY <1>1, SpanRange, ModRange
  <2>2. \A r \in 0 .. Span - 1 :
          r + Span * core_ix[p] \in Span * core_ix[p] .. Span * core_ix[p] + Span - 1
    BY <1>3, SpanRange
  <2>3. method # "all_random" /\ method # "all_rough_ind"
    BY <1>5 DEF Whole
  <2>4. Position(p) \in {((dindex[p] + i[p]) % Span) + Span * core_ix[p],
                         ((core_rough[core_ix[p]] + i[p]) % Span) + Span * core_ix[p]}
    BY <2>3 DEF Position
  <2> QED
    BY <1>5, <2>1, <2>2, <2>4 DEF Window
<1> QED
  BY <1>4, <1>5

(* A step that claims no bucket and clears no mark.                        *)
LEMMA HoldingKept ==
  ASSUME InUseIffHeld, Exclusive, UNCHANGED in_use,
         \A q \in Proc : Claiming(q)' = Claiming(q) /\ got'[q] = got[q]
  PROVE  InUseIffHeld' /\ Exclusive'
<1>1. \A q \in Proc : Holding(q)' = Holding(q)
  BY ZenonT(40) DEF Holding
<1>2. InUseIffHeld'
  BY <1>1, ZenonT(40) DEF InUseIffHeld
<1>3. Exclusive'
  BY <1>1, ZenonT(40) DEF Exclusive
<1> QED
  BY <1>2, <1>3

(* A step that returns the bucket which p has claimed.                     *)
LEMMA HoldingReturned ==
  ASSUME InUseIffHeld, Exclusive, UNCHANGED in_use, NEW p \in Proc,
         \A q \in Proc \ {p} : Claiming(q)' = Claiming(q) /\ got'[q] = got[q],
         Claiming(p)' = {}, got'[p] = Holding(p)
  PROVE  InUseIffHeld' /\ Exclusive'
<1>1. \A q \in Proc : Holding(q)' = Holding(q)
  <2>1. Holding(p)' = Holding(p)
    BY ZenonT(40) DEF Holding
  <2>2. ASSUME NEW q \in Proc, q # p PROVE Holding(q)' = Holding(q)
    BY <2>2, ZenonT(40) DEF Holding
  <2> QED
    BY <2>1, <2>2
<1>2. InUseIffHeld'
  BY <1>1, ZenonT(40) DEF InUseIffHeld
<1>3. Exclusive'
  BY <1>1, ZenonT(40) DEF Exclusive
<1> QED
  BY <1>2, <1>3

\* Before any call the invariant holds: all buckets are free and unlocked.
LEMMA InitAllocInv == Init => AllocInv
<1> SUFFICES ASSUME Init
             PROVE  AllocInv
  OBVIOUS
<1>1. 0 \in Bucket /\ 0 \in Core /\ 0 \in 0 .. Span - 1
  BY SpanRange, AllocAssumption DEF Bucket, Core
<1>2. TypeOK
  BY <1>1, AllocAssumption DEF Init, InitGlob, TypeOK, Control
<1>3. AtPoint /\ LockHolder /\ ClaimIsFree
  BY AllocAssumption DEF Init, InitGlob, AtPoint, LockHolder, ClaimIsFree
<1>4. InUseIffHeld /\ Exclusive
  BY SMTT(30) DEF Init, InitGlob, InUseIffHeld, Exclusive, Holding, Claiming
<1> QED
  BY <1>2, <1>3, <1>4 DEF AllocInv

\* Every step of the allocator, a release and a kill keep the invariant.
LEMMA NextAllocInv == AllocInv /\ [Next]_vars => AllocInv'
<1> SUFFICES ASSUME AllocInv, [Next]_vars
             PROVE  AllocInv'
  OBVIOUS
<1> USE DEF AllocInv
<1>a. \A p \in Proc : Window(p) \subseteq Bucket /\ Bound \in 0 .. Tot
  BY WindowInBucket
<1>b. /\ \A a \in Nat : a % Tot \in Bucket /\ a % Span \in 0 .. Span - 1
      /\ \A a \in Int : a % CounterMod \in 0 .. CounterMod - 1
  BY AllocAssumption, SpanRange DEF Bucket
<1>c. \A p \in Proc : Position(p) \in Window(p)
  BY PositionAtPoint
<1>d. Span \in Nat \ {0} /\ Span <= Tot /\ Tot \in Nat
  BY AllocAssumption, SpanRange, SliceRange DEF Core
<1>e. /\ 0 \in Bucket /\ 0 \in Core /\ 0 \in 0 .. Tot
      /\ 0 .. Span - 1 \subseteq Bucket
  BY <1>d, AllocAssumption DEF Bucket, Core
<1>0. CASE UNCHANGED vars
  BY <1>0 DEF vars, shared, locals, TypeOK, AtPoint, Window, Bound, LockHolder,
     ClaimIsFree, InUseIffHeld, Exclusive, Holding, Claiming
<1>1. ASSUME NEW p \in Proc, CallRandom(p)
      PROVE  AllocInv'
  <2>1. TypeOK'
    BY <1>1, <1>e DEF TypeOK, Control, CallRandom, StartWalk, Goto
  <2>2. AtPoint'
    BY <1>1 DEF TypeOK, AtPoint, Window, Bound, CallRandom, StartWalk, Goto
  <2>3. LockHolder'
    BY <1>1, AllocAssumption DEF TypeOK, LockHolder, CallRandom, StartWalk, Goto
  <2>4. ClaimIsFree'
    BY <1>1 DEF TypeOK, LockHolder, ClaimIsFree, CallRandom, StartWalk, Goto
  <2>5. /\ \A q \in Proc : Claiming(q)' = Claiming(q) /\ got'[q] = got[q]
        /\ UNCHANGED in_use
    BY <1>1 DEF TypeOK, Claiming, CallRandom, StartWalk, Goto
  <2>6. InUseIffHeld' /\ Exclusive'
    BY <2>5, HoldingKept, ZenonT(40)
  <2> QED
    BY <2>1, <2>2, <2>3, <2>4, <2>6
<1>2. ASSUME NEW p \in Proc, CallRough(p)
      PROVE  AllocInv'
  <2>1. rough_index % Tot \in Bucket
    BY <1>b DEF TypeOK, Bucket
  <2>2. TypeOK'
    BY <1>2, <2>1, <1>e DEF TypeOK, Control, CallRough, StartWalk, Goto
  <2>3. AtPoint'
    BY <1>2 DEF TypeOK, AtPoint, Window, Bound, CallRough, StartWalk, Goto
  <2>4. LockHolder'
    BY <1>2, AllocAssumption DEF TypeOK, LockHolder, CallRough, StartWalk, Goto
  <2>5. ClaimIsFree'
    BY <1>2 DEF TypeOK, LockHolder, ClaimIsFree, CallRough, StartWalk, Goto
  <2>6. /\ \A q \in Proc : Claiming(q)' = Claiming(q) /\ got'[q] = got[q]
        /\ UNCHANGED in_use
    BY <1>2 DEF TypeOK, Claiming, CallRough, StartWalk, Goto
  <2>7. InUseIffHeld' /\ Exclusive'
    BY <2>6, HoldingKept, ZenonT(40)
  <2> QED
    BY <2>2, <2>3, <2>4, <2>5, <2>7
<1>3. ASSUME NEW p \in Proc, CallCoreRandom(p)
      PROVE  AllocInv'
  <2>1. TypeOK'
    BY <1>3, <1>e DEF TypeOK, Control, CallCoreRandom, StartWalk, Goto
  <2>2. AtPoint'
    BY <1>3 DEF TypeOK, AtPoint, Window, Bound, CallCoreRandom, StartWalk, Goto
  <2>3. LockHolder'
    BY <1>3, AllocAssumption DEF TypeOK, LockHolder, CallCoreRandom, StartWalk, Goto
  <2>4. ClaimIsFree'
    BY <1>3 DEF TypeOK, LockHolder, ClaimIsFree, CallCoreRandom, StartWalk, Goto
  <2>5. /\ \A q \in Proc : Claiming(q)' = Claiming(q) /\ got'[q] = got[q]
        /\ UNCHANGED in_use
    BY <1>3 DEF TypeOK, Claiming, CallCoreRandom, StartWalk, Goto
  <2>6. InUseIffHeld' /\ Exclusive'
    BY <2>5, HoldingKept, ZenonT(40)
  <2> QED
    BY <2>1, <2>2, <2>3, <2>4, <2>6
<1>4. ASSUME NEW p \in Proc, CallCoreRough(p)
      PROVE  AllocInv'
  <2>1. \A c \in Core : core_rough[c] % Span \in 0 .. Span - 1
    BY <1>b DEF TypeOK
  <2>2. TypeOK'
    BY <1>4, <2>1, <1>e DEF TypeOK, Control, CallCoreRough, StartWalk, Goto
  <2>3. AtPoint'
    BY <1>4 DEF TypeOK, AtPoint, Window, Bound, CallCoreRough, StartWalk, Goto
  <2>4. LockHolder'
    BY <1>4, AllocAssumption DEF TypeOK, LockHolder, CallCoreRough, StartWalk, Goto
  <2>5. ClaimIsFree'
    BY <1>4 DEF TypeOK, LockHolder, ClaimIsFree, CallCoreRough, StartWalk, Goto
  <2>6. /\ \A q \in Proc : Claiming(q)' = Claiming(q) /\ got'[q] = got[q]
        /\ UNCHANGED in_use
    BY <1>4 DEF TypeOK, Claiming, CallCoreRough, StartWalk, Goto
  <2>7. InUseIffHeld' /\ Exclusive'
    BY <2>6, HoldingKept, ZenonT(40)
  <2> QED
    BY <2>2, <2>3, <2>4, <2>5, <2>7
<1>5. ASSUME NEW p \in Proc, CallRandomFull(p)
      PROVE  AllocInv'
  <2>1. TypeOK'
    BY <1>5 DEF TypeOK, Control, CallRandomFull, Goto, shared, locals
  <2>2. AtPoint'
    BY <1>5 DEF TypeOK, AtPoint, Window, Bound, CallRandomFull, Goto, shared, locals
  <2>3. LockHolder'
    BY <1>5, AllocAssumption DEF TypeOK, LockHolder, CallRandomFull, Goto, shared, locals
  <2>4. ClaimIsFree'
    BY <1>5 DEF TypeOK, LockHolder, ClaimIsFree, CallRandomFull, Goto, shared, locals
  <2>5. /\ \A q \in Proc : Claiming(q)' = Claiming(q) /\ got'[q] = got[q]
        /\ UNCHANGED in_use
    BY <1>5 DEF TypeOK, Claiming, CallRandomFull, Goto, shared, locals
  <2>6. InUseIffHeld' /\ Exclusive'
    BY <2>5, HoldingKept, ZenonT(40)
  <2> QED
    BY <2>1, <2>2, <2>3, <2>4, <2>6
<1>6. ASSUME NEW p \in Proc, LookInUse(p)
      PROVE  AllocInv'
  <2>1. i[p] + 1 \in 0 .. Tot
    BY <1>6, <1>a, <1>d DEF TypeOK, AtPoint, LookInUse, Goto
  <2>2. TypeOK'
    BY <1>6, <2>1 DEF TypeOK, Control, LookInUse, NextIteration, Goto, shared
  <2>3. AtPoint'
    BY <1>6 DEF TypeOK, AtPoint, Window, Bound, LookInUse, NextIteration, Goto, shared
  <2>4. LockHolder'
    BY <1>6, AllocAssumption DEF TypeOK, LockHolder, LookInUse, NextIteration, Goto, shared
  <2>5. ClaimIsFree'
    BY <1>6 DEF TypeOK, LockHolder, ClaimIsFree, LookInUse, NextIteration, Goto, shared
  <2>6. /\ \A q \in Proc : Claiming(q)' = Claiming(q) /\ got'[q] = got[q]
        /\ UNCHANGED in_use
    BY <1>6 DEF TypeOK, Claiming, LookInUse, NextIteration, Goto, shared
  <2>7. InUseIffHeld' /\ Exclusive'
    BY <2>6, HoldingKept, ZenonT(40)
  <2> QED
    BY <2>2, <2>3, <2>4, <2>5, <2>7
<1>7. ASSUME NEW p \in Proc, LookFree(p)
      PROVE  AllocInv'
  <2>1. Position(p) \in Bucket
    BY <1>a, <1>c
  <2>2. TypeOK'
    BY <1>7, <2>1 DEF TypeOK, Control, LookFree, Goto, shared
  <2>3. AtPoint'
    BY <1>7, <1>c DEF TypeOK, AtPoint, Window, Bound, LookFree, Goto, shared
  <2>4. LockHolder'
    BY <1>7, AllocAssumption DEF TypeOK, LockHolder, LookFree, Goto, shared
  <2>5. ClaimIsFree'
    BY <1>7 DEF TypeOK, LockHolder, ClaimIsFree, LookFree, Goto, shared
  <2>6. /\ \A q \in Proc : Claiming(q)' = Claiming(q) /\ got'[q] = got[q]
        /\ UNCHANGED in_use
    BY <1>7, ZenonT(40) DEF TypeOK, Claiming, LookFree, Goto, shared
  <2>7. InUseIffHeld' /\ Exclusive'
    BY <2>6, HoldingKept, ZenonT(40)
  <2> QED
    BY <2>2, <2>3, <2>4, <2>5, <2>7
<1>8. ASSUME NEW p \in Proc, OverUse(p)
      PROVE  AllocInv'
  <2>1. TypeOK'
    BY <1>8 DEF TypeOK, Control, OverUse, Goto, shared, locals
  <2>2. AtPoint'
    BY <1>8 DEF TypeOK, AtPoint, Window, Bound, OverUse, Goto, shared, locals
  <2>3. LockHolder'
    BY <1>8, AllocAssumption DEF TypeOK, LockHolder, OverUse, Goto, shared, locals
  <2>4. ClaimIsFree'
    BY <1>8 DEF TypeOK, LockHolder, ClaimIsFree, OverUse, Goto, shared, locals
  <2>5. /\ \A q \in Proc : Claiming(q)' = Claiming(q) /\ got'[q] = got[q]
        /\ UNCHANGED in_use
    BY <1>8 DEF TypeOK, Claiming, OverUse, Goto, shared, locals
  <2>6. InUseIffHeld' /\ Exclusive'
    BY <2>5, HoldingKept, ZenonT(40)
  <2> QED
    BY <2>1, <2>2, <2>3, <2>4, <2>6
<1>9. ASSUME NEW p \in Proc, TryBusy(p)
      PROVE  AllocInv'
  <2>1. i[p] + 1 \in 0 .. Tot
    BY <1>9, <1>a, <1>d DEF TypeOK, AtPoint, TryBusy, Goto
  <2>2. TypeOK'
    BY <1>9, <2>1 DEF TypeOK, Control, TryBusy, NextIteration, Goto, shared
  <2>3. AtPoint'
    BY <1>9 DEF TypeOK, AtPoint, Window, Bound, TryBusy, NextIteration, Goto, shared
  <2>4. LockHolder'
    BY <1>9, AllocAssumption DEF TypeOK, LockHolder, TryBusy, NextIteration, Goto, shared
  <2>5. ClaimIsFree'
    BY <1>9 DEF TypeOK, LockHolder, ClaimIsFree, TryBusy, NextIteration, Goto, shared
  <2>6. /\ \A q \in Proc : Claiming(q)' = Claiming(q) /\ got'[q] = got[q]
        /\ UNCHANGED in_use
    BY <1>9 DEF TypeOK, Claiming, TryBusy, NextIteration, Goto, shared
  <2>7. InUseIffHeld' /\ Exclusive'
    BY <2>6, HoldingKept, ZenonT(40)
  <2> QED
    BY <2>2, <2>3, <2>4, <2>5, <2>7
<1>10. ASSUME NEW p \in Proc, TryLock(p)
      PROVE  AllocInv'
  <2>1. TypeOK'
    BY <1>10 DEF TypeOK, Control, TryLock, Goto, locals
  <2>2. AtPoint'
    BY <1>10 DEF TypeOK, AtPoint, Window, Bound, TryLock, Goto, locals
  <2>3. LockHolder'
    BY <1>10, AllocAssumption DEF TypeOK, LockHolder, TryLock, Goto, locals
  <2>4. ClaimIsFree'
    BY <1>10 DEF TypeOK, LockHolder, ClaimIsFree, TryLock, Goto, locals
  <2>5. /\ \A q \in Proc : Claiming(q)' = Claiming(q) /\ got'[q] = got[q]
        /\ UNCHANGED in_use
    BY <1>10 DEF TypeOK, Claiming, TryLock, Goto, locals
  <2>6. InUseIffHeld' /\ Exclusive'
    BY <2>5, HoldingKept, ZenonT(40)
  <2> QED
    BY <2>1, <2>2, <2>3, <2>4, <2>6
<1>11. ASSUME NEW p \in Proc, CheckInUse(p)
      PROVE  AllocInv'
  <2>1. i[p] + 1 \in 0 .. Tot
    BY <1>11, <1>a, <1>d DEF TypeOK, AtPoint, CheckInUse, Goto
  <2>2. TypeOK'
    BY <1>11, <2>1 DEF TypeOK, Control, CheckInUse, NextIteration, Goto
  <2>3. AtPoint'
    BY <1>11 DEF TypeOK, AtPoint, Window, Bound, CheckInUse, NextIteration, Goto
  <2>4. LockHolder'
    BY <1>11, AllocAssumption DEF TypeOK, LockHolder, CheckInUse, NextIteration, Goto
  <2>5. ClaimIsFree'
    BY <1>11 DEF TypeOK, LockHolder, ClaimIsFree, CheckInUse, NextIteration, Goto
  <2>6. /\ \A q \in Proc : Claiming(q)' = Claiming(q) /\ got'[q] = got[q]
        /\ UNCHANGED in_use
    BY <1>11 DEF TypeOK, Claiming, CheckInUse, NextIteration, Goto
  <2>7. InUseIffHeld' /\ Exclusive'
    BY <2>6, HoldingKept, ZenonT(40)
  <2> QED
    BY <2>2, <2>3, <2>4, <2>5, <2>7
<1>12. ASSUME NEW p \in Proc, CheckFree(p)
      PROVE  AllocInv'
  <2>1. TypeOK'
    BY <1>12 DEF TypeOK, Control, CheckFree, SetRoughIndex, Goto, locals
  <2>2. AtPoint'
    BY <1>12 DEF TypeOK, AtPoint, Window, Bound, CheckFree, SetRoughIndex, Goto, locals
  <2>3. LockHolder'
    BY <1>12, AllocAssumption DEF TypeOK, LockHolder, CheckFree, SetRoughIndex, Goto, locals
  <2>4. ClaimIsFree'
    BY <1>12 DEF TypeOK, LockHolder, ClaimIsFree, CheckFree, SetRoughIndex, Goto, locals
  <2>5. /\ \A q \in Proc : Claiming(q)' = Claiming(q) /\ got'[q] = got[q]
        /\ UNCHANGED in_use
    BY <1>12 DEF TypeOK, Claiming, CheckFree, SetRoughIndex, Goto, locals
  <2>6. InUseIffHeld' /\ Exclusive'
    BY <2>5, HoldingKept, ZenonT(40)
  <2> QED
    BY <2>1, <2>2, <2>3, <2>4, <2>6
<1>13. ASSUME NEW p \in Proc, Claim(p)
      PROVE  AllocInv'
  <2>1. TypeOK'
    BY <1>13 DEF TypeOK, Control, Claim, Goto, locals
  <2>2. AtPoint'
    BY <1>13 DEF TypeOK, AtPoint, Window, Bound, Claim, Goto, locals
  <2>3. LockHolder'
    BY <1>13, AllocAssumption DEF TypeOK, LockHolder, Claim, Goto, locals
  <2>4. ClaimIsFree'
    BY <1>13 DEF TypeOK, LockHolder, ClaimIsFree, Claim, Goto, locals
  <2>5. /\ ix[p] \in Bucket /\ ~ in_use[ix[p]] /\ UNCHANGED got
        /\ in_use' = [in_use EXCEPT ![ix[p]] = TRUE] /\ in_use \in [Bucket -> BOOLEAN]
        /\ Claiming(p)' = {ix[p]} /\ Claiming(p) = {}
        /\ \A q \in Proc \ {p} : Claiming(q)' = Claiming(q)
    BY <1>13 DEF TypeOK, ClaimIsFree, Claiming, Claim, Goto, locals
  <2>6. \A q \in Proc : Holding(q)' = IF q = p THEN Holding(q) \cup {ix[p]} ELSE Holding(q)
    BY <2>5, ZenonT(40) DEF Holding
  <2>7. InUseIffHeld'
    <3> SUFFICES ASSUME NEW b \in Bucket
                 PROVE  /\ in_use'[b] => \E q \in Proc : b \in Holding(q)'
                        /\ ~ AllowRelease =>
                             ((\E q \in Proc : b \in Holding(q)') => in_use'[b])
      BY ZenonT(40) DEF InUseIffHeld, Bucket
    <3>1. /\ in_use[b] => \E q \in Proc : b \in Holding(q)
          /\ ~ AllowRelease => ((\E q \in Proc : b \in Holding(q)) => in_use[b])
      BY ZenonT(40) DEF InUseIffHeld
    <3>2. CASE b = ix[p]
      BY <2>5, <2>6, <3>2, ZenonT(40)
    <3>3. CASE b # ix[p]
      BY <2>5, <2>6, <3>1, <3>3, ZenonT(40)
    <3> QED
      BY <3>2, <3>3
  <2>8. Exclusive'
    <3> SUFFICES ASSUME ~ AllowRelease
                 PROVE  /\ \A r, q \in Proc : r # q => Holding(r)' \cap Holding(q)' = {}
                        /\ \A q \in Proc : Claiming(q)' \cap got'[q] = {}
      BY ZenonT(40) DEF Exclusive
    <3>1. \A q \in Proc : ix[p] \notin Holding(q)
      BY <2>5, ZenonT(40) DEF InUseIffHeld
    <3>2. \A r, q \in Proc : r # q => Holding(r)' \cap Holding(q)' = {}
      BY <2>6, <3>1, ZenonT(40) DEF Exclusive
    <3>3. \A q \in Proc : Claiming(q)' \cap got'[q] = {}
      <4> TAKE q \in Proc
      <4>1. CASE q = p
        BY <2>5, <3>1, <4>1, ZenonT(40) DEF Holding
      <4>2. CASE q # p
        BY <2>5, <4>2, ZenonT(40) DEF Exclusive
      <4> QED
        BY <4>1, <4>2
    <3> QED
      BY <3>2, <3>3
  <2> QED
    BY <2>1, <2>2, <2>3, <2>4, <2>7, <2>8
<1>14. ASSUME NEW p \in Proc, Unlock(p)
      PROVE  AllocInv'
  <2>1. TypeOK'
    BY <1>14, <1>e DEF TypeOK, Control, Unlock, Return, Goto
  <2>2. AtPoint'
    BY <1>14 DEF TypeOK, AtPoint, Window, Bound, Unlock, Return, Goto
  <2>3. LockHolder'
    BY <1>14, AllocAssumption DEF TypeOK, LockHolder, Unlock, Return, Goto
  <2>4. ClaimIsFree'
    BY <1>14 DEF TypeOK, LockHolder, ClaimIsFree, Unlock, Return, Goto
  <2>5. /\ \A q \in Proc \ {p} : Claiming(q)' = Claiming(q) /\ got'[q] = got[q]
        /\ Claiming(p)' = {} /\ got'[p] = Holding(p) /\ UNCHANGED in_use
    BY <1>14 DEF TypeOK, Holding, Claiming, Unlock, Return, Goto
  <2>6. InUseIffHeld' /\ Exclusive'
    BY <2>5, HoldingReturned, ZenonT(40)
  <2> QED
    BY <2>1, <2>2, <2>3, <2>4, <2>6
<1>15. ASSUME NEW p \in Proc, UnlockCoreRough(p)
      PROVE  AllocInv'
  <2>1. TypeOK'
    BY <1>15 DEF TypeOK, Control, UnlockCoreRough, Goto, locals
  <2>2. AtPoint'
    BY <1>15 DEF TypeOK, AtPoint, Window, Bound, UnlockCoreRough, Goto, locals
  <2>3. LockHolder'
    BY <1>15, AllocAssumption DEF TypeOK, LockHolder, UnlockCoreRough, Goto, locals
  <2>4. ClaimIsFree'
    BY <1>15 DEF TypeOK, LockHolder, ClaimIsFree, UnlockCoreRough, Goto, locals
  <2>5. /\ \A q \in Proc : Claiming(q)' = Claiming(q) /\ got'[q] = got[q]
        /\ UNCHANGED in_use
    BY <1>15 DEF TypeOK, Claiming, UnlockCoreRough, Goto, locals
  <2>6. InUseIffHeld' /\ Exclusive'
    BY <2>5, HoldingKept, ZenonT(40)
  <2> QED
    BY <2>1, <2>2, <2>3, <2>4, <2>6
<1>16. ASSUME NEW p \in Proc, Advance(p)
      PROVE  AllocInv'
  <2>1. ix[p] - Span * core_ix[p] \in 0 .. Span - 1
    <3>1. ix[p] \in Span * core_ix[p] .. Span * core_ix[p] + Span - 1
      BY <1>16, ZenonT(40) DEF AtPoint, Window, Whole, Advance, Goto
    <3>2. Span * core_ix[p] \in Nat
      BY SliceRange, SMTT(30) DEF TypeOK
    <3> QED
      BY <1>d, <3>1, <3>2
  <2>2. TypeOK'
    BY <1>16, <2>1, <1>e, SMTT(30) DEF TypeOK, Control, Advance, Return, Goto
  <2>3. AtPoint'
    BY <1>16 DEF TypeOK, AtPoint, Window, Bound, Advance, Return, Goto
  <2>4. LockHolder'
    BY <1>16, AllocAssumption DEF TypeOK, LockHolder, Advance, Return, Goto
  <2>5. ClaimIsFree'
    BY <1>16 DEF TypeOK, LockHolder, ClaimIsFree, Advance, Return, Goto
  <2>6. /\ \A q \in Proc \ {p} : Claiming(q)' = Claiming(q) /\ got'[q] = got[q]
        /\ Claiming(p)' = {} /\ got'[p] = Holding(p) /\ UNCHANGED in_use
    BY <1>16 DEF TypeOK, Holding, Claiming, Advance, Return, Goto
  <2>7. InUseIffHeld' /\ Exclusive'
    BY <2>6, HoldingReturned, ZenonT(40)
  <2> QED
    BY <2>2, <2>3, <2>4, <2>5, <2>7
<1>17. ASSUME NEW p \in Proc, Kill(p)
      PROVE  AllocInv'
  <2>1. TypeOK'
    BY <1>17 DEF TypeOK, Control, Kill, shared, locals
  <2>2. AtPoint'
    BY <1>17 DEF TypeOK, AtPoint, Window, Bound, Kill, shared, locals
  <2>3. LockHolder'
    BY <1>17, AllocAssumption DEF TypeOK, LockHolder, Kill, shared, locals
  <2>4. ClaimIsFree'
    BY <1>17 DEF TypeOK, LockHolder, ClaimIsFree, Kill, shared, locals
  <2>5. /\ \A q \in Proc : Claiming(q)' = Claiming(q) /\ got'[q] = got[q]
        /\ UNCHANGED in_use
    BY <1>17 DEF TypeOK, Claiming, Kill, shared, locals
  <2>6. InUseIffHeld' /\ Exclusive'
    BY <2>5, HoldingKept, ZenonT(40)
  <2> QED
    BY <2>1, <2>2, <2>3, <2>4, <2>6
<1>18. ASSUME NEW p \in Proc, Truncate(p)
      PROVE  AllocInv'
  <2>0. PICK b \in Bucket : ReleaseTest(p, b)
    BY <1>18, ZenonT(40) DEF Truncate, TypeOK
  <2>1. TypeOK'
    BY <2>0 DEF TypeOK, Control, ReleaseTest, Goto, shared
  <2>2. AtPoint'
    BY <2>0 DEF TypeOK, AtPoint, Window, Bound, ReleaseTest, Goto, shared
  <2>3. LockHolder'
    BY <2>0, AllocAssumption DEF TypeOK, LockHolder, ReleaseTest, Goto, shared
  <2>4. ClaimIsFree'
    BY <2>0 DEF TypeOK, LockHolder, ClaimIsFree, ReleaseTest, Goto, shared
  <2>5. /\ \A q \in Proc : Claiming(q)' = Claiming(q) /\ got'[q] = got[q]
        /\ UNCHANGED in_use
    BY <2>0, ZenonT(40) DEF TypeOK, Claiming, ReleaseTest, Goto, shared
  <2>6. InUseIffHeld' /\ Exclusive'
    BY <2>5, HoldingKept, ZenonT(40)
  <2> QED
    BY <2>1, <2>2, <2>3, <2>4, <2>6
<1>19. ASSUME NEW p \in Proc, ReleaseClear(p)
      PROVE  AllocInv'
  <2>1. TypeOK'
    BY <1>19 DEF TypeOK, Control, ReleaseClear, Goto, locals
  <2>2. AtPoint'
    BY <1>19 DEF TypeOK, AtPoint, Window, Bound, ReleaseClear, Goto, locals
  <2>3. LockHolder'
    BY <1>19, AllocAssumption DEF TypeOK, LockHolder, ReleaseClear, Goto, locals
  <2>4. ClaimIsFree'
    BY <1>19 DEF TypeOK, ClaimIsFree, ReleaseClear, Goto, locals
  <2>5. \A q \in Proc : Holding(q)' = Holding(q)
    BY <1>19 DEF TypeOK, Holding, Claiming, ReleaseClear, Goto, locals
  <2>6. AllowRelease /\ \A b \in Bucket : in_use'[b] => in_use[b]
    BY <1>19 DEF TypeOK, AtPoint, ReleaseClear, Goto
  <2>7. InUseIffHeld'
    BY <2>5, <2>6, ZenonT(40) DEF InUseIffHeld
  <2>8. Exclusive'
    BY <2>6 DEF Exclusive
  <2> QED
    BY <2>1, <2>2, <2>3, <2>4, <2>7, <2>8
<1>20. ASSUME NEW p \in Proc, ReleaseCount(p)
      PROVE  AllocInv'
  <2>1. (dbuckets_in_use - 1) % CounterMod \in 0 .. CounterMod - 1
    <3>1. dbuckets_in_use - 1 \in Int
      BY AllocAssumption DEF TypeOK
    <3> QED
      BY <1>b, <3>1
  <2>2. TypeOK'
    BY <1>20, <1>e, <2>1 DEF TypeOK, Control, ReleaseCount, Goto
  <2>3. AtPoint'
    BY <1>20 DEF TypeOK, AtPoint, Window, Bound, ReleaseCount, Goto
  <2>4. LockHolder'
    BY <1>20, AllocAssumption DEF TypeOK, LockHolder, ReleaseCount, Goto
  <2>5. ClaimIsFree'
    BY <1>20 DEF TypeOK, LockHolder, ClaimIsFree, ReleaseCount, Goto
  <2>6. /\ \A q \in Proc : Claiming(q)' = Claiming(q) /\ got'[q] = got[q]
        /\ UNCHANGED in_use
    BY <1>20, ZenonT(40) DEF TypeOK, Claiming, ReleaseCount, Goto
  <2>7. InUseIffHeld' /\ Exclusive'
    BY <2>6, HoldingKept, ZenonT(40)
  <2> QED
    BY <2>2, <2>3, <2>4, <2>5, <2>7
<1> QED
  BY <1>0, <1>1, <1>2, <1>3, <1>4, <1>5, <1>6, <1>7, <1>8, <1>9, <1>10, <1>11, <1>12,
     <1>13, <1>14, <1>15, <1>16, <1>17, <1>18, <1>19, <1>20, ZenonT(40)
     DEF Next, Call, Step

-----------------------------------------------------------------------------
(* Every method keeps its indices within its window, its locals within     *)
(* their types and the walk within its bound.                              *)
THEOREM TypeCorrect == Spec => []TypeOK
<1>1. AllocInv => TypeOK
  BY DEF AllocInv
<1> QED
  BY <1>1, InitAllocInv, NextAllocInv, PTL DEF Spec

(* In a build without O_TRUNC_FREE no bucket is handed out twice, to two   *)
(* processes or to one.                                                    *)
THEOREM AllocationIsExclusive == Spec => []Exclusive
<1>1. AllocInv => Exclusive
  BY DEF AllocInv
<1> QED
  BY <1>1, InitAllocInv, NextAllocInv, PTL DEF Spec

(* in_use is set only for buckets that a call got, and without             *)
(* O_TRUNC_FREE for all of them.                                           *)
THEOREM InUseIsExact == Spec => []InUseIffHeld
<1>1. AllocInv => InUseIffHeld
  BY DEF AllocInv
<1> QED
  BY <1>1, InitAllocInv, NextAllocInv, PTL DEF Spec

-----------------------------------------------------------------------------
(* The refinement: Claim is Abs!Claim, ReleaseClear is Abs!Release or, when *)
(* another process has cleared the mark meanwhile, nothing, and every other *)
(* step leaves taken and given as they are.                                 *)

(* The only steps that change what is in use and who was given what.       *)
LEMMA HoldingStep ==
  ASSUME AllocInv, Next
  PROVE  \/ UNCHANGED in_use /\ \A q \in Proc : Holding(q)' = Holding(q)
         \/ \E p \in Proc : Claim(p) \/ ReleaseClear(p)
<1> SUFFICES ASSUME NEW p \in Proc, ~ Claim(p), ~ ReleaseClear(p),
                    Call(p) \/ Step(p) \/ Kill(p) \/ Truncate(p)
             PROVE  UNCHANGED in_use /\ \A q \in Proc : Holding(q)' = Holding(q)
  BY ZenonT(40) DEF Next
<1>1. /\ got \in [Proc -> SUBSET Bucket]
      /\ pc \in [Proc -> Control]
      /\ ix \in [Proc -> Bucket]
  BY DEF AllocInv, TypeOK
<1> USE DEF Holding, Claiming, Goto, locals, shared
<1>2. CASE Call(p)
  BY <1>1, <1>2, ZenonT(40) DEF Call, CallRandom, CallRandomFull, CallRough,
     CallCoreRandom, CallCoreRough, StartWalk
<1>3. CASE LookInUse(p) \/ LookFree(p) \/ OverUse(p) \/ TryBusy(p) \/ TryLock(p)
  BY <1>1, <1>3, ZenonT(40) DEF LookInUse, LookFree, OverUse, TryBusy, TryLock
<1>4. CASE CheckInUse(p) \/ CheckFree(p)
  BY <1>1, <1>4 DEF CheckInUse, CheckFree
<1>5. CASE Unlock(p) \/ UnlockCoreRough(p) \/ Advance(p)
  BY <1>1, <1>5 DEF Unlock, UnlockCoreRough, Advance, Return
<1>6. CASE Kill(p)
  BY <1>1, <1>6 DEF Kill
<1>7. CASE Truncate(p)
  BY <1>1, <1>7, ZenonT(40) DEF Truncate, ReleaseTest
<1>8. CASE ReleaseCount(p)
  BY <1>1, <1>8 DEF ReleaseCount
<1> QED
  BY <1>2, <1>3, <1>4, <1>5, <1>6, <1>7, <1>8, ZenonT(40) DEF Step

\* Setting in_use is the abstract claim, clearing it the release, all else a stutter.
LEMMA StepRefines == AllocInv /\ [Next]_vars => [Abs!Next]_<<taken, given>>
<1> SUFFICES ASSUME AllocInv, [Next]_vars
             PROVE  [Abs!Next]_<<taken, given>>
  OBVIOUS
<1>0. in_use \in [Bucket -> BOOLEAN]
  BY DEF AllocInv, TypeOK
<1>1. ASSUME UNCHANGED in_use, \A q \in Proc : Holding(q)' = Holding(q)
      PROVE  UNCHANGED <<taken, given>>
  BY <1>1, ZenonT(40) DEF taken, given, Bucket
<1>2. ASSUME NEW p \in Proc, Claim(p)
      PROVE  Abs!Next
  <2>1. /\ ix[p] \in Bucket /\ ~ in_use[ix[p]]
        /\ in_use' = [in_use EXCEPT ![ix[p]] = TRUE]
    BY <1>2, ZenonT(40) DEF AllocInv, TypeOK, ClaimIsFree, Claim, Goto
  <2>2. \A q \in Proc : Holding(q)' = IF q = p THEN Holding(q) \cup {ix[p]} ELSE Holding(q)
    BY <1>2 DEF AllocInv, TypeOK, Holding, Claiming, Claim, Goto, locals
  <2>3. ix[p] \notin taken /\ taken' = taken \cup {ix[p]}
    BY <1>0, <2>1, ZenonT(40) DEF taken, Bucket
  <2>4. given' = [given EXCEPT ![p] = @ \cup {ix[p]}]
    BY <2>2, ZenonT(40) DEF given
  <2>5. Abs!Claim(p, ix[p])
    BY <2>3, <2>4, ZenonT(40) DEF Abs!Claim
  <2> QED
    BY <2>1, <2>5, ZenonT(40) DEF Abs!Next
<1>3. ASSUME NEW p \in Proc, ReleaseClear(p)
      PROVE  Abs!Next \/ UNCHANGED <<taken, given>>
  <2>1. /\ ix[p] \in Bucket /\ AllowRelease
        /\ in_use' = [in_use EXCEPT ![ix[p]] = FALSE]
    BY <1>3, ZenonT(40) DEF AllocInv, TypeOK, AtPoint, ReleaseClear, Goto
  <2>2. \A q \in Proc : Holding(q)' = Holding(q)
    BY <1>3 DEF AllocInv, TypeOK, Holding, Claiming, ReleaseClear, Goto, locals
  <2>3. taken' = taken \ {ix[p]}
    BY <1>0, <2>1, ZenonT(40) DEF taken, Bucket
  <2>4. given' = given
    BY <2>2, ZenonT(40) DEF given
  <2>5. CASE ix[p] \in taken
    <3>1. Abs!Release(ix[p])
      BY <2>1, <2>3, <2>4, <2>5, ZenonT(40) DEF Abs!Release
    <3> QED
      BY <2>1, <3>1, ZenonT(40) DEF Abs!Next
  <2>6. CASE ix[p] \notin taken
    BY <2>3, <2>4, <2>6, ZenonT(40)
  <2> QED
    BY <2>5, <2>6
<1>4. CASE UNCHANGED vars
  <2>1. UNCHANGED in_use /\ \A q \in Proc : Holding(q)' = Holding(q)
    BY <1>4, ZenonT(40) DEF vars, shared, locals, Holding, Claiming
  <2> QED
    BY <1>1, <2>1
<1>5. CASE Next
  BY <1>1, <1>2, <1>3, <1>5, HoldingStep, ZenonT(40)
<1> QED
  BY <1>4, <1>5

(* The walk with its two tests and its trylock, and the release that takes *)
(* no lock, implement an allocator that marks a free bucket in one step    *)
(* and takes a mark away in one step, for every method.                    *)
THEOREM WalkImplementsAllocator == Spec => ImplementsAllocator
<1>1. Init => Abs!Init
  BY ZenonT(40) DEF Init, InitGlob, Abs!Init, taken, given, Holding, Claiming
<1> QED
  BY <1>1, StepRefines, InitAllocInv, NextAllocInv, PTL
     DEF Spec, ImplementsAllocator, Abs!Spec

-----------------------------------------------------------------------------
(* Over-use.  The state of a walk that starts at a random position: it has *)
(* passed busy buckets only, and nothing makes them free again.            *)

(* A walk goes round its window once.                                      *)
LEMMA ModOnce ==
  ASSUME NEW n \in Nat \ {0}, NEW b \in 0 .. n - 1
  PROVE  b % n = b /\ (b + n) % n = b
OBVIOUS

(* From any start, n iterations look at every position of a window of n.   *)
LEMMA WalkCovers ==
  ASSUME NEW n \in Nat \ {0}, NEW d \in 0 .. n - 1, NEW b \in 0 .. n - 1
  PROVE  \E k \in 0 .. n - 1 : (d + k) % n = b
<1>1. CASE b >= d
  <2>1. b - d \in 0 .. n - 1 /\ d + (b - d) = b
    BY <1>1
  <2>2. (d + (b - d)) % n = b
    BY <2>1, ModOnce
  <2> QED
    BY <2>1, <2>2, ZenonT(40)
<1>2. CASE b < d
  <2>1. b - d + n \in 0 .. n - 1 /\ d + (b - d + n) = b + n
    BY <1>2
  <2>2. (d + (b - d + n)) % n = b
    BY <2>1, ModOnce
  <2> QED
    BY <2>1, <2>2
<1> QED
  BY <1>1, <1>2

\* A walk goes past bucket b.
Busy(b) == in_use[b] \/ lock[b] # NoProc

\* What iteration k of the walk of p looks at, if it starts at random.
Look(p, k) ==
  IF method = "all_random" THEN (dindex[p] + k) % Tot
  ELSE ((dindex[p] + k) % Span) + Span * core_ix[p]

\* All that the walk of p has passed is busy, and still is.
Looked(p) == \A k \in 0 .. i[p] - 1 : Busy(Look(p, k))

Walked(p) ==
  /\ dindex[p] \in 0 .. Bound - 1
  /\ Looked(p)
  /\ pc[p] \in {"try", "check", "claim", "claimed"} => ix[p] = Look(p, i[p])
  /\ pc[p] = "overuse" => i[p] = Bound

WalkInv ==
  ~ AllowRelease /\ method \in RandomStart =>
    dbuckets_in_use = 0 /\ \A p \in Proc : Walked(p)

(* Without releases a busy bucket stays busy: a process unlocks a bucket   *)
(* only after it saw or set in_use.                                        *)
LEMMA BusyStays ==
  ASSUME AllocInv, ~ AllowRelease, Next, NEW b \in Bucket, Busy(b)
  PROVE  Busy(b)'
<1> PICK p \in Proc : Call(p) \/ Step(p) \/ Kill(p)
  BY ZenonT(40) DEF Next, Truncate, ReleaseTest
<1>r. ~ ReleaseClear(p) /\ ~ ReleaseCount(p)
  BY ZenonT(40) DEF AllocInv, AtPoint, ReleaseClear, ReleaseCount, Goto
<1>1. CASE Call(p) \/ Kill(p)
  BY <1>1, ZenonT(40) DEF Busy, Call, Kill, CallRandom, CallRandomFull, CallRough, CallCoreRandom,
     CallCoreRough, StartWalk, shared
<1>2. CASE LookInUse(p) \/ LookFree(p) \/ OverUse(p) \/ TryBusy(p) \/ CheckFree(p)
           \/ Advance(p)
  BY <1>2, ZenonT(40) DEF Busy, LookInUse, LookFree, OverUse, TryBusy, CheckFree, Advance, shared
<1>3. CASE TryLock(p) \/ Claim(p)
  BY <1>3, AllocAssumption DEF AllocInv, TypeOK, Busy, TryLock, Claim
<1>4. CASE CheckInUse(p)
  BY <1>4 DEF AllocInv, TypeOK, Busy, CheckInUse
<1>5. CASE Unlock(p) \/ UnlockCoreRough(p)
  <2>1. ix[p] \in Bucket /\ ix[p] \in Holding(p)
    BY <1>5, ZenonT(40) DEF AllocInv, TypeOK, Holding, Claiming, Unlock, UnlockCoreRough, Goto
  <2>2. in_use[ix[p]]
    BY <2>1 DEF AllocInv, InUseIffHeld
  <2> QED
    BY <1>5, <2>2 DEF AllocInv, TypeOK, Busy, Unlock, UnlockCoreRough
<1> QED
  BY <1>r, <1>1, <1>2, <1>3, <1>4, <1>5, ZenonT(40) DEF Step

(* Every iteration looks at a bucket.                                      *)
LEMMA LookInBucket ==
  ASSUME TypeOK, method \in RandomStart, NEW p \in Proc, NEW k \in Nat
  PROVE  Look(p, k) \in Bucket
<1>a. dindex[p] \in Bucket /\ core_ix[p] \in Core
  BY ZenonT(40) DEF TypeOK
<1>1. dindex[p] + k \in Nat /\ core_ix[p] \in Core
  BY <1>a, AllocAssumption DEF Bucket
<1>2. CASE method = "all_random"
  <2>1. (dindex[p] + k) % Tot \in 0 .. Tot - 1
    BY <1>1, ModRange, AllocAssumption
  <2> QED
    BY <1>2, <2>1 DEF Look, Bucket
<1>3. CASE method # "all_random"
  <2>1. (dindex[p] + k) % Span \in 0 .. Span - 1
    BY <1>1, ModRange, SpanRange, ZenonT(40)
  <2>2. Span * core_ix[p] \in Nat /\ Span * core_ix[p] + Span <= Tot
    BY <1>1, SliceRange
  <2>3. ((dindex[p] + k) % Span) + Span * core_ix[p] \in Bucket
    BY <2>1, <2>2, SpanRange, AllocAssumption DEF Bucket
  <2> QED
    BY <1>3, <2>3 DEF Look
<1> QED
  BY <1>2, <1>3

(* A step that leaves the start of a walk alone keeps what it has passed.  *)
LEMMA LookKept ==
  ASSUME AllocInv, ~ AllowRelease, method \in RandomStart, Next,
         NEW p \in Proc, method' = method, Looked(p),
         dindex'[p] = dindex[p], core_ix'[p] = core_ix[p]
  PROVE  /\ \A k \in Nat : Look(p, k)' = Look(p, k)
         /\ \A k \in 0 .. i[p] - 1 : Busy(Look(p, k))'
<1>1. \A k \in Nat : Look(p, k)' = Look(p, k)
  BY ZenonT(40) DEF Look
<1>2. ASSUME NEW k \in 0 .. i[p] - 1
      PROVE  Busy(Look(p, k))'
  <2>1. k \in Nat /\ Busy(Look(p, k))
    <3>1. i[p] \in 0 .. Tot /\ Busy(Look(p, k))
      BY ZenonT(40) DEF AllocInv, TypeOK, Looked
    <3> QED
      BY <3>1, AllocAssumption
  <2>2. Look(p, k) \in Bucket
    BY <2>1, LookInBucket DEF AllocInv
  <2> DEFINE b == Look(p, k)
  <2>3. in_use'[b] \/ lock'[b] # NoProc
    BY <2>1, <2>2, BusyStays, ZenonT(40) DEF Busy
  <2> QED
    BY <1>1, <2>1, <2>3, ZenonT(40) DEF Busy
<1> QED
  BY <1>1, <1>2

(* A step of another process, or a kill, keeps the state of a walk.        *)
LEMMA WalkKept ==
  ASSUME AllocInv, ~ AllowRelease, method \in RandomStart, Next,
         NEW p \in Proc, method' = method, Walked(p),
         dindex'[p] = dindex[p], core_ix'[p] = core_ix[p], i'[p] = i[p],
         pc'[p] = pc[p] /\ ix'[p] = ix[p]
  PROVE  Walked(p)'
<1>1. Looked(p)
  BY ZenonT(40) DEF Walked
<1>2. i[p] \in Nat
  BY AllocAssumption, SMTT(20) DEF AllocInv, TypeOK
<1>3. Looked(p)' /\ Look(p, i[p])' = Look(p, i[p])
  BY <1>1, <1>2, LookKept, ZenonT(40) DEF Looked
<1> QED
  BY <1>2, <1>3 DEF Walked, Bound, Look

(* Each step keeps WalkInv: an iteration ends only at a bucket that is busy.*)
LEMMA NextWalkInv == AllocInv /\ WalkInv /\ [Next]_vars => WalkInv'
<1> SUFFICES ASSUME AllocInv, WalkInv, [Next]_vars,
                    ~ AllowRelease, method' \in RandomStart
             PROVE  (dbuckets_in_use = 0)' /\ \A p \in Proc : Walked(p)'
  BY ZenonT(40) DEF WalkInv
<1>0. CASE UNCHANGED vars
  BY <1>0 DEF WalkInv, Walked, Looked, Busy, Look, Bound, vars, shared, locals
<1> SUFFICES ASSUME Next PROVE (dbuckets_in_use = 0)' /\ \A p \in Proc : Walked(p)'
  BY <1>0
<1> PICK p \in Proc : Call(p) \/ Step(p) \/ Kill(p)
  BY ZenonT(40) DEF Next, Truncate, ReleaseTest
<1>r. ~ ReleaseClear(p) /\ ~ ReleaseCount(p)
  BY ZenonT(40) DEF AllocInv, AtPoint, ReleaseClear, ReleaseCount, Goto
<1>1. method' = method /\ method \in RandomStart
  BY <1>r, ZenonT(40) DEF Call, Step, Kill, CallRandom, CallRandomFull, CallRough, CallCoreRandom,
     CallCoreRough, StartWalk, LookInUse, LookFree, OverUse, TryBusy, TryLock,
     CheckInUse, CheckFree, Claim, Unlock, UnlockCoreRough, Advance, Goto
<1>2. dbuckets_in_use = 0 /\ \A q \in Proc : Walked(q)
  BY <1>1 DEF WalkInv
<1>3. dbuckets_in_use' = 0
  BY <1>r, <1>2, ZenonT(40) DEF Call, Step, Kill, CallRandom, CallRandomFull, CallRough, CallCoreRandom,
     CallCoreRough, StartWalk, LookInUse, LookFree, OverUse, TryBusy, TryLock,
     CheckInUse, CheckFree, Claim, Unlock, UnlockCoreRough, Advance, Return, shared
<1>4. ASSUME NEW q \in Proc, q # p
      PROVE  Walked(q)'
  <2>1. /\ dindex'[q] = dindex[q] /\ core_ix'[q] = core_ix[q] /\ i'[q] = i[q]
        /\ pc'[q] = pc[q] /\ ix'[q] = ix[q]
    <3>1. CASE Call(p) \/ Kill(p)
      BY <1>4, <3>1, ZenonT(40) DEF AllocInv, TypeOK, Call, Kill, CallRandom, CallRandomFull, CallRough,
         CallCoreRandom, CallCoreRough, StartWalk, Goto, locals
    <3>2. CASE Step(p)
      BY <1>4, <1>r, <3>2, ZenonT(40) DEF AllocInv, TypeOK, Step, LookInUse, LookFree, OverUse, TryBusy, TryLock,
         CheckInUse, CheckFree, Claim, Unlock, UnlockCoreRough, Advance, Return,
         NextIteration, Goto, locals
    <3> QED
      BY <3>1, <3>2, SMTT(20)
  <2> QED
    BY <1>1, <1>2, <2>1, WalkKept, ZenonT(40)
<1>5. Walked(p)'
  <2>1. CASE CallRandom(p) \/ CallCoreRandom(p)
    <3>1. i'[p] = 0 /\ pc'[p] = "walk" /\ dindex'[p] \in 0 .. Bound - 1
      BY <2>1, ZenonT(40) DEF AllocInv, TypeOK, CallRandom, CallCoreRandom, StartWalk, Goto, Bound,
         Bucket, Whole
    <3>2. 0 .. i'[p] - 1 = {}
      BY <3>1, SMTT(20)
    <3> QED
      BY <1>1, <3>1, <3>2, ZenonT(40) DEF Walked, Looked, Bound
  <2>2. ~ CallRandomFull(p) /\ ~ CallRough(p) /\ ~ CallCoreRough(p)
        /\ ~ UnlockCoreRough(p) /\ ~ Advance(p)
    <3>1. Tot # 0 /\ method \notin {"all_rough_ind", "all_per_core_rough_ind"}
      BY <1>1, AllocAssumption DEF RandomStart
    <3>2. ~ CallRandomFull(p) /\ ~ CallRough(p) /\ ~ CallCoreRough(p) /\ ~ UnlockCoreRough(p)
      BY <1>2, <3>1, ZenonT(40) DEF CallRandomFull, CallRough, CallCoreRough, UnlockCoreRough
    <3>3. ~ Advance(p)
      BY <3>1, ZenonT(40) DEF AllocInv, AtPoint, Advance, Goto
    <3> QED
      BY <3>2, <3>3
  <2>3. CASE Kill(p)
    BY <1>1, <1>2, <2>3, WalkKept, ZenonT(40) DEF Kill, locals
  <2>4. CASE LookInUse(p) \/ TryBusy(p) \/ CheckInUse(p)
    <3>1. /\ dindex'[p] = dindex[p] /\ core_ix'[p] = core_ix[p]
          /\ i'[p] = i[p] + 1 /\ i[p] \in Nat
          /\ pc'[p] = "walk"
      BY <2>4, AllocAssumption DEF AllocInv, TypeOK, LookInUse, TryBusy, CheckInUse,
         NextIteration, Goto
    <3>2. /\ \A k \in Nat : Look(p, k)' = Look(p, k)
          /\ \A k \in 0 .. i[p] - 1 : Busy(Look(p, k))'
      BY <1>1, <1>2, <3>1, LookKept, ZenonT(40) DEF Walked
    <3>3. ASSUME NEW k \in Nat, k = i[p]
          PROVE  Busy(Look(p, k))'
      <4>1. Look(p, k) \in Bucket
        BY <1>1, LookInBucket DEF AllocInv
      <4>2. CASE LookInUse(p)
        <5>1. Position(p) = Look(p, k)
          BY <1>1, <3>3 DEF RandomStart, Position, Look
        <5> QED
          BY <3>2, <4>1, <4>2, <5>1, BusyStays, ZenonT(40) DEF LookInUse, Busy
      <4>3. CASE TryBusy(p) \/ CheckInUse(p)
        <5>1. ix[p] = Look(p, k)
          BY <1>2, <3>3, <4>3 DEF Walked, TryBusy, CheckInUse, Goto
        <5> QED
          BY <3>2, <4>1, <4>3, <5>1, BusyStays, ZenonT(40) DEF TryBusy, CheckInUse, Busy
      <4> QED
        BY <2>4, <4>2, <4>3
    <3>4. \A k \in 0 .. i'[p] - 1 : k \in 0 .. i[p] - 1 \/ (k \in Nat /\ k = i[p])
      BY <3>1
    <3>5. Looked(p)'
      BY <3>2, <3>3, <3>4, ZenonT(40) DEF Looked
    <3> QED
      BY <1>1, <1>2, <3>1, <3>5, ZenonT(40) DEF Walked, Bound
  <2>5. CASE LookFree(p) \/ OverUse(p) \/ TryLock(p) \/ CheckFree(p) \/ Claim(p)
    <3>1. /\ dindex'[p] = dindex[p] /\ core_ix'[p] = core_ix[p]
          /\ i'[p] = i[p] /\ i[p] \in Nat
      BY <2>5, AllocAssumption DEF AllocInv, TypeOK, LookFree, OverUse, TryLock, CheckFree,
         Claim, locals
    <3>2. Looked(p)' /\ Look(p, i[p])' = Look(p, i[p])
      BY <1>1, <1>2, <3>1, LookKept, ZenonT(40) DEF Walked, Looked
    <3>3. pc'[p] \in {"try", "check", "claim", "claimed"} => ix'[p] = Look(p, i[p])
      <4>1. CASE LookFree(p)
        <5>1. Position(p) = Look(p, i[p])
          BY <1>1 DEF RandomStart, Position, Look
        <5> QED
          BY <4>1, <5>1 DEF AllocInv, TypeOK, LookFree
      <4>2. CASE OverUse(p)
        BY <4>2 DEF AllocInv, TypeOK, OverUse, Goto
      <4>3. CASE TryLock(p) \/ CheckFree(p) \/ Claim(p)
        BY <1>2, <4>3, ZenonT(40) DEF Walked, TryLock, CheckFree, Claim, Goto, locals
      <4> QED
        BY <2>5, <4>1, <4>2, <4>3, ZenonT(40)
    <3>4. pc'[p] = "overuse" => i[p] = Bound
      BY <2>5 DEF AllocInv, TypeOK, LookFree, OverUse, TryLock, CheckFree, Claim, Goto
    <3> QED
      BY <1>1, <1>2, <3>1, <3>2, <3>3, <3>4, ZenonT(40) DEF Walked, Bound
  <2>6. CASE Unlock(p)
    <3>1. i'[p] = 0 /\ dindex'[p] = 0 /\ pc'[p] = "idle"
      BY <2>6, ZenonT(40) DEF AllocInv, TypeOK, Unlock, Return, Goto
    <3>2. 0 \in 0 .. Bound - 1 /\ 0 .. i'[p] - 1 = {}
      BY ONLY <3>1, SpanRange, AllocAssumption, SMTT(20) DEF Bound
    <3> QED
      BY <1>1, <3>1, <3>2, ZenonT(40) DEF Walked, Looked, Bound
  <2> QED
    BY <1>r, <2>1, <2>2, <2>3, <2>4, <2>5, <2>6, ZenonT(40) DEF Call, Step
<1> QED
  BY <1>3, <1>4, <1>5

(* No walk has begun.                                                      *)
LEMMA InitWalkInv == Init => WalkInv
<1>1. 0 \in 0 .. Bound - 1
  BY SpanRange, AllocAssumption DEF Bound
<1> QED
  BY <1>1 DEF Init, InitGlob, WalkInv, Walked, Looked

(* A walk that is over has passed its whole window.                        *)
LEMMA WalkSeesWindow ==
  ASSUME AllocInv, WalkInv
  PROVE  OverUseJustified
<1> SUFFICES ASSUME ~ AllowRelease, method \in RandomStart,
                    NEW p \in Proc, pc[p] = "overuse", NEW b \in Window(p)
             PROVE  Busy(b)
  BY DEF OverUseJustified, Busy
<1>1. dindex[p] \in 0 .. Bound - 1 /\ Looked(p) /\ i[p] = Bound
  BY DEF WalkInv, Walked
<1>2. CASE method = "all_random"
  <2>1. Bound = Tot /\ b \in 0 .. Tot - 1 /\ Tot \in Nat \ {0}
    BY <1>2, AllocAssumption DEF Bound, Window, Whole, Bucket
  <2>2. PICK k \in 0 .. Tot - 1 : (dindex[p] + k) % Tot = b
    BY <1>1, <2>1, WalkCovers, ZenonT(120)
  <2>3. Look(p, k) = b
    BY <1>2, <2>2 DEF Look
  <2> QED
    BY <1>1, <2>1, <2>3 DEF Looked
<1>3. CASE method # "all_random"
  <2>1. Bound = Span /\ b \in Span * core_ix[p] .. Span * core_ix[p] + Span - 1
    BY <1>3 DEF Bound, Window, Whole, RandomStart
  <2>2. Span * core_ix[p] \in Nat
    BY SliceRange, ZenonT(40) DEF AllocInv, TypeOK
  <2>3. b - Span * core_ix[p] \in 0 .. Span - 1 /\ dindex[p] \in 0 .. Span - 1
    BY <1>1, <2>1, <2>2, SpanRange
  <2>4. PICK k \in 0 .. Span - 1 : (dindex[p] + k) % Span = b - Span * core_ix[p]
    BY <2>3, SpanRange, WalkCovers, Zenon
  <2>5. Look(p, k) = b
    BY <1>3, <2>1, <2>2, <2>4, SpanRange DEF Look
  <2> QED
    BY <1>1, <2>1, <2>5 DEF Looked
<1> QED
  BY <1>2, <1>3

(* "data bucket over-use" ends a process only when every bucket of its     *)
(* window is in use or about to be, for the methods with a random start    *)
(* and builds without O_TRUNC_FREE (data_shm.c 141-178, 222-263).          *)
THEOREM OverUseIsJustified == Spec => []OverUseJustified
<1> QED
  BY InitAllocInv, NextAllocInv, InitWalkInv, NextWalkInv, WalkSeesWindow, PTL DEF Spec
=============================================================================
