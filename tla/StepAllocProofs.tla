-------------------------- MODULE StepAllocProofs ---------------------------
(***************************************************************************)
(* Proofs about StepAlloc, for any number of processes and steps and any   *)
(* size of a step.                                                         *)
(*                                                                         *)
(* MappedExist needs that the process between shm_open and dbucket_steps++ *)
(* holds the lock and creates exactly the step that comes next, although   *)
(* it read dbucket_steps before it took the lock: an older number exists   *)
(* already, and shm_open with O_EXCL turns it away.  IndexIsBucket needs   *)
(* that, as long as nothing is released, every bucket before the rough     *)
(* index, and every bucket a walk has passed, is in use or locked; a walk  *)
(* that comes round to such a bucket again and gets its lock finds it in   *)
(* use.  GrowsWhenFull needs that then the buckets in use or locked come   *)
(* before the others, and that dbuckets_in_use counts the buckets which    *)
(* calls have returned.                                                    *)
(***************************************************************************)
EXTENDS StepAlloc, FiniteSetTheorems, TLAPS

\* At the bucket at which the walk has stopped.
AtBucket == {"trybucket", "check", "claim", "claimed", "count"}
Points == {"idle", "index", "wrap", "steps", "full", "traverse", "bound", "walk",
           "create", "try", "wait", "shm", "grow", "unlock", "exited",
           "clear", "uncount"} \cup AtBucket
LocalState == [pc : Points, steps_read : 0 .. MAX_DATA_BUCKETS_STEPS, i : Nat, j : Nat]

StepsOK(p) ==
  /\ me[p].pc \in {"full", "walk", "create", "try", "wait", "shm", "grow"} \cup AtBucket =>
       me[p].steps_read \in 1 .. dbucket_steps
  /\ me[p].pc \in {"try", "wait", "shm", "grow"} =>
       me[p].steps_read < MAX_DATA_BUCKETS_STEPS
  /\ me[p].pc \in {"wrap", "shm", "grow", "unlock"} => lock = p
  /\ me[p].pc = "grow" => me[p].steps_read = dbucket_steps /\ me[p].steps_read \in segments

GrowInv ==
  /\ TypeOK /\ MappedExist
  /\ me \in [Proc -> LocalState]
  /\ \A p \in Proc : StepsOK(p)
-----------------------------------------------------------------------------
\* A remainder lies below the divisor.
LEMMA ModRange ==
  ASSUME NEW a \in Int, NEW n \in Nat \ {0}
  PROVE  a % n \in 0 .. n - 1
OBVIOUS

\* There is a bucket, and the counter can count it.
LEMMA TotPositive == Tot \in Nat \ {0} /\ CounterMod \in Nat \ {0}
  BY StepAssumption DEF Tot

\* The locals of a process outside the allocator have their type.
LEMMA IdleType == Idle \in LocalState
  BY StepAssumption DEF Idle, LocalState, Points

(* What Goto leaves of the locals.                                         *)
LEMMA GotoFacts ==
  ASSUME me \in [Proc -> LocalState], NEW p \in Proc, NEW from, NEW to \in Points,
         Goto(p, from, to)
  PROVE  /\ me[p].pc = from /\ me' \in [Proc -> LocalState]
         /\ me'[p].pc = to
         /\ to \in {"create", "try", "wait", "shm", "grow"} \cup AtBucket =>
              me'[p].steps_read = me[p].steps_read
         /\ to \in AtBucket => me'[p].i = me[p].i /\ me'[p].j = me[p].j
         /\ \A q \in Proc \ {p} : me'[q] = me[q]
<1> DEFINE new == CASE to \in {"idle", "exited", "index", "wrap", "steps", "traverse", "unlock"} ->
                         [Idle EXCEPT !.pc = to]
                    [] to \in {"create", "try", "wait", "shm", "grow"} ->
                         [Idle EXCEPT !.pc = to, !.steps_read = me[p].steps_read]
                    [] OTHER -> [me[p] EXCEPT !.pc = to]
<1>1. me[p] \in LocalState
  OBVIOUS
<1>2. CASE to \in {"idle", "exited", "index", "wrap", "steps", "traverse", "unlock"}
  <2>1. new = [Idle EXCEPT !.pc = to]
    BY <1>2
  <2>2. new \in LocalState /\ new.pc = to
    BY <2>1, IdleType DEF LocalState, Idle
  <2> QED
    BY <1>2, <2>2 DEF Goto, AtBucket
<1>3. CASE to \in {"create", "try", "wait", "shm", "grow"}
  <2>1. new = [Idle EXCEPT !.pc = to, !.steps_read = me[p].steps_read]
    BY <1>3
  <2>2. new \in LocalState /\ new.pc = to /\ new.steps_read = me[p].steps_read
    BY <2>1, <1>1, IdleType, ZenonT(40) DEF LocalState, Idle
  <2> QED
    BY <1>3, <2>2 DEF Goto, AtBucket
<1>4. CASE to \in {"full", "bound", "walk", "clear", "uncount"} \cup AtBucket
  <2>1. new = [me[p] EXCEPT !.pc = to]
    BY <1>4 DEF AtBucket
  <2>2. /\ new \in LocalState /\ new.pc = to /\ new.steps_read = me[p].steps_read
        /\ new.i = me[p].i /\ new.j = me[p].j
    BY <2>1, <1>1, ZenonT(40) DEF LocalState
  <2> QED
    BY <1>4, <2>2 DEF Goto
<1> QED
  BY <1>2, <1>3, <1>4 DEF Points

(* What a step of p does to the others.                                    *)
Frame(p) ==
  /\ \A q \in Proc \ {p} : me'[q] = me[q]
  /\ dbucket_steps' >= dbucket_steps
  /\ dbucket_steps' # dbucket_steps => lock = p
  /\ lock \notin {NoProc, p} => lock' = lock
  /\ segments \subseteq segments'

\* A step of p leaves what q knows of the number of steps true.
LEMMA GrowOthers ==
  ASSUME GrowInv, NEW p \in Proc, NEW q \in Proc \ {p}, Frame(p), dbucket_steps' \in Nat
  PROVE  StepsOK(q)'
<1>1. me'[q] = me[q] /\ StepsOK(q) /\ q # NoProc /\ dbucket_steps \in Nat
  BY StepAssumption DEF Frame, GrowInv, TypeOK
<1> QED
  BY <1>1 DEF StepsOK, Frame, AtBucket

\* Mapping the segments of the known steps keeps MappedExist.
LEMMA MapsOK ==
  ASSUME TypeOK, MappedExist, NEW p \in Proc, NEW b, Maps(p, b)
  PROVE  /\ mapped' \in [Proc -> SUBSET (0 .. MAX_DATA_BUCKETS_STEPS - 1)]
         /\ \A q \in Proc : mapped'[q] \subseteq segments
  BY DEF TypeOK, MappedExist, Maps

(* The end of an iteration of the walk.                                    *)
LEMMA NextFacts ==
  ASSUME me \in [Proc -> LocalState], NEW p \in Proc, NextIteration(p)
  PROVE  /\ me' \in [Proc -> LocalState] /\ me'[p].pc = "walk"
         /\ me'[p].i = me[p].i + 1 /\ me'[p].j = me[p].j
         /\ me'[p].steps_read = me[p].steps_read
         /\ \A q \in Proc \ {p} : me'[q] = me[q]
<1>1. me[p] \in LocalState
  OBVIOUS
<1>2. me' = [me EXCEPT ![p] = [me[p] EXCEPT !.pc = "walk", !.i = me[p].i + 1]]
  BY ZenonT(40) DEF NextIteration
<1>3. [me[p] EXCEPT !.pc = "walk", !.i = me[p].i + 1] \in LocalState
  <2>1. me[p].i + 1 \in Nat
    BY <1>1 DEF LocalState
  <2> QED
    BY <1>1, <2>1, ZenonT(40) DEF LocalState, Points
<1> QED
  BY <1>1, <1>2, <1>3 DEF LocalState

\* A step of p keeps the types, MappedExist and what p knows of the steps.
LEMMA GrowOwn ==
  ASSUME GrowInv, NEW p \in Proc, Call(p) \/ Step(p) \/ Truncate(p)
  PROVE  /\ TypeOK' /\ MappedExist' /\ me' \in [Proc -> LocalState]
         /\ StepsOK(p)' /\ Frame(p)
<1>a. /\ TypeOK /\ MappedExist /\ me \in [Proc -> LocalState] /\ StepsOK(p)
      /\ p # NoProc /\ me[p] \in LocalState
  BY StepAssumption DEF GrowInv
<1>b. ASSUME me' \in [Proc -> LocalState]
      PROVE  \A q \in Proc : me'[q].steps_read \in 0 .. MAX_DATA_BUCKETS_STEPS
  BY <1>b DEF LocalState
<1> USE DEF Frame, glob, AtBucket
<1>1. CASE Call(p)
  <2>1. /\ me[p].pc = "idle" /\ me' \in [Proc -> LocalState]
        /\ me'[p].pc = IF dbuckets_in_use = Tot THEN "exited" ELSE "index"
        /\ \A q \in Proc \ {p} : me'[q] = me[q]
    BY <1>1, <1>a, GotoFacts DEF Call, Points
  <2>2. TypeOK' /\ MappedExist'
    BY <1>1, <1>a, <1>b, <2>1 DEF Call, TypeOK, MappedExist
  <2>3. StepsOK(p)' /\ Frame(p)
    BY <1>1, <1>a, <2>1 DEF Call, StepsOK, TypeOK
  <2> QED
    BY <2>1, <2>2, <2>3
<1>2. CASE IndexInRange(p)
  <2>1. /\ me[p].pc = "index" /\ me' \in [Proc -> LocalState]
        /\ me'[p].pc = "steps"
        /\ \A q \in Proc \ {p} : me'[q] = me[q]
    BY <1>2, <1>a, GotoFacts DEF IndexInRange, Points
  <2>2. TypeOK' /\ MappedExist'
    BY <1>2, <1>a, <1>b, <2>1 DEF IndexInRange, TypeOK, MappedExist
  <2>3. StepsOK(p)' /\ Frame(p)
    BY <1>2, <1>a, <2>1 DEF IndexInRange, StepsOK, TypeOK
  <2> QED
    BY <2>1, <2>2, <2>3
<1>3. CASE IndexLock(p)
  <2>1. /\ me[p].pc = "index" /\ me' \in [Proc -> LocalState]
        /\ me'[p].pc = "wrap"
        /\ \A q \in Proc \ {p} : me'[q] = me[q]
    BY <1>3, <1>a, GotoFacts DEF IndexLock, Points
  <2>2. TypeOK' /\ MappedExist'
    BY <1>3, <1>a, <1>b, <2>1 DEF IndexLock, TypeOK, MappedExist
  <2>3. StepsOK(p)' /\ Frame(p)
    BY <1>3, <1>a, <2>1 DEF IndexLock, StepsOK, TypeOK
  <2> QED
    BY <2>1, <2>2, <2>3
<1>4. CASE IndexWrap(p)
  <2>1. /\ me[p].pc = "wrap" /\ me' \in [Proc -> LocalState]
        /\ me'[p].pc = "steps"
        /\ \A q \in Proc \ {p} : me'[q] = me[q]
    BY <1>4, <1>a, GotoFacts DEF IndexWrap, Points
  <2>2. TypeOK' /\ MappedExist'
    BY ONLY <1>4, <1>a, <1>b, <2>1, ModRange, TotPositive, SMTT(30)
       DEF IndexWrap, TypeOK, MappedExist
  <2>3. StepsOK(p)' /\ Frame(p)
    BY <1>4, <1>a, <2>1 DEF IndexWrap, StepsOK, TypeOK
  <2> QED
    BY <2>1, <2>2, <2>3
<1>5. CASE ReadSteps(p)
  <2>1. me' \in [Proc -> LocalState]
    <3>1. dbucket_steps \in 0 .. MAX_DATA_BUCKETS_STEPS
      BY <1>a DEF TypeOK
    <3>2. [me[p] EXCEPT !.pc = "full", !.steps_read = dbucket_steps] \in LocalState
      BY <1>a, <3>1, ZenonT(40) DEF LocalState, Points
    <3>3. me' = [me EXCEPT ![p] =
                   [me[p] EXCEPT !.pc = "full", !.steps_read = dbucket_steps]]
      BY <1>5, ZenonT(40) DEF ReadSteps
    <3> QED
      BY <1>a, <3>2, <3>3
  <2>2. TypeOK' /\ MappedExist'
    BY <1>5, <1>a, <1>b, <2>1, ModRange, TotPositive DEF ReadSteps, TypeOK, MappedExist, Maps
  <2>3. StepsOK(p)' /\ Frame(p)
    BY <1>5, <1>a, <2>1 DEF ReadSteps, StepsOK, TypeOK, LocalState, Idle
  <2> QED
    BY <2>1, <2>2, <2>3
<1>6. CASE CheckFull(p)
  <2>1. /\ me[p].pc = "full" /\ me' \in [Proc -> LocalState]
        /\ me'[p].pc = IF dbuckets_in_use = DATA_BUCKETS_STEP * me[p].steps_read THEN "create" ELSE "traverse"
        /\ me'[p].pc = "create" => me'[p].steps_read = me[p].steps_read
        /\ \A q \in Proc \ {p} : me'[q] = me[q]
    BY <1>6, <1>a, GotoFacts DEF CheckFull, Points
  <2>2. TypeOK' /\ MappedExist'
    BY <1>6, <1>a, <1>b, <2>1 DEF CheckFull, TypeOK, MappedExist
  <2>3. StepsOK(p)' /\ Frame(p)
    BY <1>6, <1>a, <2>1 DEF CheckFull, StepsOK, TypeOK
  <2> QED
    BY <2>1, <2>2, <2>3
<1>7. CASE Traverse(p)
  <2>1. me' \in [Proc -> LocalState]
    BY <1>7, <1>a, IdleType, ZenonT(40) DEF Traverse, LocalState, Points, TypeOK
  <2>2. TypeOK' /\ MappedExist'
    BY <1>7, <1>a, <1>b, <2>1, ModRange, TotPositive DEF Traverse, TypeOK, MappedExist, Maps
  <2>3. StepsOK(p)' /\ Frame(p)
    BY <1>7, <1>a, <2>1 DEF Traverse, StepsOK, TypeOK, LocalState, Idle
  <2> QED
    BY <2>1, <2>2, <2>3
<1>8. CASE TraverseBound(p)
  <2>1. me' \in [Proc -> LocalState]
    <3>1. dbucket_steps \in 0 .. MAX_DATA_BUCKETS_STEPS
      BY <1>a DEF TypeOK
    <3>2. [me[p] EXCEPT !.pc = "walk", !.i = 0, !.steps_read = dbucket_steps] \in LocalState
      BY <1>a, <3>1, ZenonT(40) DEF LocalState, Points
    <3>3. me' = [me EXCEPT ![p] =
                   [me[p] EXCEPT !.pc = "walk", !.i = 0, !.steps_read = dbucket_steps]]
      BY <1>8, ZenonT(40) DEF TraverseBound
    <3> QED
      BY <1>a, <3>2, <3>3
  <2>2. TypeOK' /\ MappedExist'
    BY <1>8, <1>a, <1>b, <2>1, ModRange, TotPositive
       DEF TraverseBound, TypeOK, MappedExist, Maps
  <2>3. StepsOK(p)' /\ Frame(p)
    BY <1>8, <1>a, <2>1 DEF TraverseBound, StepsOK, TypeOK, LocalState, Idle
  <2> QED
    BY <2>1, <2>2, <2>3
<1>9. CASE LookInUse(p)
  <2>1. /\ me[p].pc \in {"walk", "trybucket", "check"} /\ me' \in [Proc -> LocalState]
        /\ me'[p].pc = "walk" /\ me'[p].steps_read = me[p].steps_read
        /\ \A q \in Proc \ {p} : me'[q] = me[q]
    BY <1>9, <1>a, NextFacts, ZenonT(40) DEF LookInUse
  <2>2. TypeOK' /\ MappedExist'
    BY <1>9, <1>a, <1>b, <2>1, MapsOK, ZenonT(40) DEF LookInUse, TypeOK, MappedExist
  <2>3. StepsOK(p)' /\ Frame(p)
    BY <1>9, <1>a, <2>1 DEF LookInUse, StepsOK, TypeOK, AtBucket
  <2> QED
    BY <2>1, <2>2, <2>3
<1>10. CASE BucketBusy(p)
  <2>1. /\ me[p].pc \in {"walk", "trybucket", "check"} /\ me' \in [Proc -> LocalState]
        /\ me'[p].pc = "walk" /\ me'[p].steps_read = me[p].steps_read
        /\ \A q \in Proc \ {p} : me'[q] = me[q]
    BY <1>10, <1>a, NextFacts, ZenonT(40) DEF BucketBusy
  <2>2. TypeOK' /\ MappedExist'
    BY <1>10, <1>a, <1>b, <2>1, MapsOK, ZenonT(40) DEF BucketBusy, TypeOK, MappedExist
  <2>3. StepsOK(p)' /\ Frame(p)
    BY <1>10, <1>a, <2>1 DEF BucketBusy, StepsOK, TypeOK, AtBucket
  <2> QED
    BY <2>1, <2>2, <2>3
<1>11. CASE WalkEnd(p)
  <2>1. /\ me[p].pc = "walk" /\ me' \in [Proc -> LocalState]
        /\ me'[p].pc = IF current_num_buckets(p) = Tot THEN "exited" ELSE "create"
        /\ me'[p].pc = "create" => me'[p].steps_read = me[p].steps_read
        /\ \A q \in Proc \ {p} : me'[q] = me[q]
    BY <1>11, <1>a, GotoFacts DEF WalkEnd, Points
  <2>2. TypeOK' /\ MappedExist'
    BY <1>11, <1>a, <1>b, <2>1 DEF WalkEnd, TypeOK, MappedExist
  <2>3. StepsOK(p)' /\ Frame(p)
    BY <1>11, <1>a, <2>1 DEF WalkEnd, StepsOK, TypeOK
  <2> QED
    BY <2>1, <2>2, <2>3
<1>12. CASE Count(p)
  <2>1. me' \in [Proc -> LocalState]
    BY <1>12, <1>a, IdleType DEF Count, LocalState, Points, TypeOK
  <2>2. TypeOK' /\ MappedExist'
    <3>1. (dbuckets_in_use + 1) % CounterMod \in 0 .. CounterMod - 1
      BY ONLY <1>a, ModRange, TotPositive, SMTT(30) DEF TypeOK
    <3> QED
      BY <1>12, <1>a, <1>b, <2>1, <3>1 DEF Count, TypeOK, MappedExist
  <2>3. StepsOK(p)' /\ Frame(p)
    BY <1>12, <1>a, <2>1 DEF Count, StepsOK, TypeOK, LocalState, Idle
  <2> QED
    BY <2>1, <2>2, <2>3
<1>13. CASE CreateMax(p)
  <2>1. /\ me[p].pc = "create" /\ me' \in [Proc -> LocalState]
        /\ me'[p].pc = "exited"
        /\ \A q \in Proc \ {p} : me'[q] = me[q]
    BY <1>13, <1>a, GotoFacts DEF CreateMax, Points
  <2>2. TypeOK' /\ MappedExist'
    BY <1>13, <1>a, <1>b, <2>1 DEF CreateMax, TypeOK, MappedExist
  <2>3. StepsOK(p)' /\ Frame(p)
    BY <1>13, <1>a, <2>1 DEF CreateMax, StepsOK, TypeOK
  <2> QED
    BY <2>1, <2>2, <2>3
<1>14. CASE CreateLate(p)
  <2>1. /\ me[p].pc = "create" /\ me' \in [Proc -> LocalState]
        /\ me'[p].pc = "traverse"
        /\ \A q \in Proc \ {p} : me'[q] = me[q]
    BY <1>14, <1>a, GotoFacts DEF CreateLate, Points
  <2>2. TypeOK' /\ MappedExist'
    BY <1>14, <1>a, <1>b, <2>1 DEF CreateLate, TypeOK, MappedExist, StepsOK, MapStep
  <2>3. StepsOK(p)' /\ Frame(p)
    BY <1>14, <1>a, <2>1 DEF CreateLate, StepsOK, TypeOK
  <2> QED
    BY <2>1, <2>2, <2>3
<1>15. CASE CreateNeeded(p)
  <2>1. /\ me[p].pc = "create" /\ me' \in [Proc -> LocalState]
        /\ me'[p].pc = "try"
        /\ me'[p].steps_read = me[p].steps_read
        /\ \A q \in Proc \ {p} : me'[q] = me[q]
    BY <1>15, <1>a, GotoFacts DEF CreateNeeded, Points
  <2>2. TypeOK' /\ MappedExist'
    BY <1>15, <1>a, <1>b, <2>1 DEF CreateNeeded, TypeOK, MappedExist
  <2>3. StepsOK(p)' /\ Frame(p)
    BY <1>15, <1>a, <2>1 DEF CreateNeeded, StepsOK, TypeOK
  <2> QED
    BY <2>1, <2>2, <2>3
<1>16. CASE TryBusy(p)
  <2>1. /\ me[p].pc = "try" /\ me' \in [Proc -> LocalState]
        /\ me'[p].pc = "wait"
        /\ me'[p].steps_read = me[p].steps_read
        /\ \A q \in Proc \ {p} : me'[q] = me[q]
    BY <1>16, <1>a, GotoFacts DEF TryBusy, Points
  <2>2. TypeOK' /\ MappedExist'
    BY <1>16, <1>a, <1>b, <2>1 DEF TryBusy, TypeOK, MappedExist
  <2>3. StepsOK(p)' /\ Frame(p)
    BY <1>16, <1>a, <2>1 DEF TryBusy, StepsOK, TypeOK
  <2> QED
    BY <2>1, <2>2, <2>3
<1>17. CASE TryLock(p)
  <2>1. /\ me[p].pc = "try" /\ me' \in [Proc -> LocalState]
        /\ me'[p].pc = "shm"
        /\ me'[p].steps_read = me[p].steps_read
        /\ \A q \in Proc \ {p} : me'[q] = me[q]
    BY <1>17, <1>a, GotoFacts DEF TryLock, Points
  <2>2. TypeOK' /\ MappedExist'
    BY <1>17, <1>a, <1>b, <2>1 DEF TryLock, TypeOK, MappedExist
  <2>3. StepsOK(p)' /\ Frame(p)
    BY <1>17, <1>a, <2>1 DEF TryLock, StepsOK, TypeOK
  <2> QED
    BY <2>1, <2>2, <2>3
<1>18. CASE ShmExists(p)
  <2>1. /\ me[p].pc = "shm" /\ me' \in [Proc -> LocalState]
        /\ me'[p].pc = "exited"
        /\ \A q \in Proc \ {p} : me'[q] = me[q]
    BY <1>18, <1>a, GotoFacts DEF ShmExists, Points
  <2>2. TypeOK' /\ MappedExist'
    BY <1>18, <1>a, <1>b, <2>1 DEF ShmExists, TypeOK, MappedExist
  <2>3. StepsOK(p)' /\ Frame(p)
    BY <1>18, <1>a, <2>1 DEF ShmExists, StepsOK, TypeOK
  <2> QED
    BY <2>1, <2>2, <2>3
<1>19. CASE ShmCreate(p)
  <2>1. /\ me[p].pc = "shm" /\ me' \in [Proc -> LocalState]
        /\ me'[p].pc = "grow"
        /\ me'[p].steps_read = me[p].steps_read
        /\ \A q \in Proc \ {p} : me'[q] = me[q]
    BY <1>19, <1>a, GotoFacts DEF ShmCreate, Points
  <2>2. TypeOK' /\ MappedExist'
    <3>1. me[p].steps_read \in 0 .. MAX_DATA_BUCKETS_STEPS - 1
      BY <1>a, <2>1, StepAssumption DEF StepsOK, TypeOK
    <3>2. /\ segments' \subseteq 0 .. MAX_DATA_BUCKETS_STEPS - 1
          /\ segments \subseteq segments' /\ me[p].steps_read \in segments'
      BY <1>19, <1>a, <3>1, ZenonT(40) DEF ShmCreate, TypeOK
    <3>3. mapped' \in [Proc -> SUBSET (0 .. MAX_DATA_BUCKETS_STEPS - 1)]
      BY <1>19, <1>a, <3>1 DEF ShmCreate, MapStep, TypeOK
    <3>4. \A q \in Proc : mapped'[q] \subseteq segments'
      BY <1>19, <1>a, <3>2 DEF ShmCreate, MapStep, TypeOK, MappedExist
    <3>5. TypeOK'
      BY <1>19, <1>a, <1>b, <2>1, <3>2, <3>3, ZenonT(40) DEF ShmCreate, TypeOK
    <3> QED
      BY <1>19, <1>a, <3>2, <3>4, <3>5 DEF ShmCreate, MappedExist
  <2>3. StepsOK(p)' /\ Frame(p)
    BY <1>19, <1>a, <2>1 DEF ShmCreate, StepsOK, TypeOK, MappedExist
  <2> QED
    BY <2>1, <2>2, <2>3
<1>20. CASE Grow(p)
  <2>1. /\ me[p].pc = "grow" /\ me' \in [Proc -> LocalState]
        /\ me'[p].pc = "unlock"
        /\ \A q \in Proc \ {p} : me'[q] = me[q]
    BY <1>20, <1>a, GotoFacts DEF Grow, Points
  <2>2. TypeOK' /\ MappedExist'
    <3>1. dbucket_steps \in segments /\ dbucket_steps + 1 \in 1 .. MAX_DATA_BUCKETS_STEPS
      BY <1>a, <2>1, StepAssumption DEF StepsOK, TypeOK
    <3>2. 0 .. (dbucket_steps + 1) - 1 \subseteq segments
      BY ONLY <1>a, <3>1 DEF TypeOK, MappedExist
    <3>3. TypeOK'
      BY <1>20, <1>a, <1>b, <2>1, <3>1 DEF Grow, TypeOK
    <3> QED
      BY <1>20, <1>a, <3>2, <3>3 DEF Grow, MappedExist
  <2>3. StepsOK(p)' /\ Frame(p)
    BY <1>20, <1>a, <2>1 DEF Grow, StepsOK, TypeOK
  <2> QED
    BY <2>1, <2>2, <2>3
<1>21. CASE Unlock(p)
  <2>1. /\ me[p].pc = "unlock" /\ me' \in [Proc -> LocalState]
        /\ me'[p].pc = "traverse"
        /\ \A q \in Proc \ {p} : me'[q] = me[q]
    BY <1>21, <1>a, GotoFacts DEF Unlock, Points
  <2>2. TypeOK' /\ MappedExist'
    BY <1>21, <1>a, <1>b, <2>1, ZenonT(40) DEF Unlock, TypeOK, MappedExist
  <2>3. StepsOK(p)' /\ Frame(p)
    BY <1>21, <1>a, <2>1 DEF Unlock, StepsOK, TypeOK
  <2> QED
    BY <2>1, <2>2, <2>3
<1>22. CASE WaitEnds(p)
  <2>1. /\ me[p].pc = "wait" /\ me' \in [Proc -> LocalState]
        /\ me'[p].pc = "traverse"
        /\ \A q \in Proc \ {p} : me'[q] = me[q]
    BY <1>22, <1>a, GotoFacts DEF WaitEnds, Points
  <2>2. TypeOK' /\ MappedExist'
    <3>1. me[p].steps_read \in 0 .. dbucket_steps - 1
      BY ONLY <1>22, <1>a, <2>1 DEF WaitEnds, StepsOK, TypeOK
    <3>2. me[p].steps_read \in segments /\ segments \subseteq 0 .. MAX_DATA_BUCKETS_STEPS - 1
      BY <1>a, <3>1, ZenonT(40) DEF TypeOK, MappedExist
    <3>3. /\ mapped' \in [Proc -> SUBSET (0 .. MAX_DATA_BUCKETS_STEPS - 1)]
          /\ \A q \in Proc : mapped'[q] \subseteq segments
      BY <1>22, <1>a, <3>2 DEF WaitEnds, MapStep, TypeOK, MappedExist
    <3> QED
      BY <1>22, <1>a, <1>b, <2>1, <3>3, ZenonT(40) DEF WaitEnds, TypeOK, MappedExist
  <2>3. StepsOK(p)' /\ Frame(p)
    BY ONLY <1>22, <1>a, <2>1 DEF WaitEnds, StepsOK, TypeOK, Frame, glob, AtBucket
  <2> QED
    BY <2>1, <2>2, <2>3
<1>23. CASE LookFree(p)
  <2>1. /\ me[p].pc = "walk" /\ me' \in [Proc -> LocalState]
        /\ me'[p].pc = "trybucket"
        /\ me'[p].steps_read = me[p].steps_read
        /\ \A q \in Proc \ {p} : me'[q] = me[q]
    BY <1>23, <1>a, GotoFacts DEF LookFree, Points, AtBucket
  <2>2. TypeOK' /\ MappedExist'
    BY <1>23, <1>a, <1>b, <2>1, MapsOK, ZenonT(40) DEF LookFree, TypeOK, MappedExist
  <2>3. StepsOK(p)' /\ Frame(p)
    BY <1>23, <1>a, <2>1 DEF LookFree, StepsOK, TypeOK, AtBucket
  <2> QED
    BY <2>1, <2>2, <2>3
<1>24. CASE CheckInUse(p)
  <2>1. /\ me[p].pc \in {"walk", "trybucket", "check"} /\ me' \in [Proc -> LocalState]
        /\ me'[p].pc = "walk" /\ me'[p].steps_read = me[p].steps_read
        /\ \A q \in Proc \ {p} : me'[q] = me[q]
    BY <1>24, <1>a, NextFacts, ZenonT(40) DEF CheckInUse
  <2>2. TypeOK' /\ MappedExist'
    <3>1. bucket_lock' \in [Buckets(MAX_DATA_BUCKETS_STEPS) -> Proc \cup {NoProc}]
      BY <1>24, <1>a, ZenonT(40) DEF CheckInUse, TypeOK
    <3> QED
      BY <1>24, <1>a, <1>b, <2>1, <3>1, ZenonT(40) DEF CheckInUse, TypeOK, MappedExist
  <2>3. StepsOK(p)' /\ Frame(p)
    BY <1>24, <1>a, <2>1 DEF CheckInUse, StepsOK, TypeOK, AtBucket
  <2> QED
    BY <2>1, <2>2, <2>3
<1>25. CASE BucketLock(p)
  <2>1. /\ me[p].pc = "trybucket" /\ me' \in [Proc -> LocalState]
        /\ me'[p].pc = "check"
        /\ me'[p].steps_read = me[p].steps_read
        /\ \A q \in Proc \ {p} : me'[q] = me[q]
    BY <1>25, <1>a, GotoFacts DEF BucketLock, Points, AtBucket
  <2>2. TypeOK' /\ MappedExist'
    <3>1. bucket_lock' \in [Buckets(MAX_DATA_BUCKETS_STEPS) -> Proc \cup {NoProc}]
      BY <1>25, <1>a, ZenonT(40) DEF BucketLock, TypeOK
    <3> QED
      BY <1>25, <1>a, <1>b, <2>1, <3>1, ZenonT(40) DEF BucketLock, TypeOK, MappedExist
  <2>3. StepsOK(p)' /\ Frame(p)
    BY <1>25, <1>a, <2>1 DEF BucketLock, StepsOK, TypeOK, AtBucket
  <2> QED
    BY <2>1, <2>2, <2>3
<1>26. CASE CheckFree(p)
  <2>1. /\ me[p].pc = "check" /\ me' \in [Proc -> LocalState]
        /\ me'[p].pc = "claim"
        /\ me'[p].steps_read = me[p].steps_read
        /\ \A q \in Proc \ {p} : me'[q] = me[q]
    BY <1>26, <1>a, GotoFacts DEF CheckFree, Points, AtBucket
  <2>2. TypeOK' /\ MappedExist'
    <3>1. local_ix(p) \in Nat
      BY <1>a DEF local_ix, LocalState
    <3> QED
      BY <1>26, <1>a, <1>b, <2>1, <3>1, ZenonT(40) DEF CheckFree, TypeOK, MappedExist
  <2>3. StepsOK(p)' /\ Frame(p)
    BY <1>26, <1>a, <2>1 DEF CheckFree, StepsOK, TypeOK, AtBucket
  <2> QED
    BY <2>1, <2>2, <2>3
<1>27. CASE Claim(p)
  <2>1. /\ me[p].pc = "claim" /\ me' \in [Proc -> LocalState]
        /\ me'[p].pc = "claimed"
        /\ me'[p].steps_read = me[p].steps_read
        /\ \A q \in Proc \ {p} : me'[q] = me[q]
    BY <1>27, <1>a, GotoFacts DEF Claim, Points, AtBucket
  <2>2. TypeOK' /\ MappedExist'
    <3>1. in_use' \in [Buckets(MAX_DATA_BUCKETS_STEPS) -> BOOLEAN]
      BY <1>27, <1>a, ZenonT(40) DEF Claim, TypeOK
    <3> QED
      BY <1>27, <1>a, <1>b, <2>1, <3>1, ZenonT(40) DEF Claim, TypeOK, MappedExist
  <2>3. StepsOK(p)' /\ Frame(p)
    BY ONLY <1>27, <1>a, <2>1 DEF Claim, StepsOK, TypeOK, AtBucket
  <2> QED
    BY <2>1, <2>2, <2>3
<1>28. CASE UnlockBucket(p)
  <2>1. /\ me[p].pc = "claimed" /\ me' \in [Proc -> LocalState]
        /\ me'[p].pc = "count"
        /\ me'[p].steps_read = me[p].steps_read
        /\ \A q \in Proc \ {p} : me'[q] = me[q]
    BY <1>28, <1>a, GotoFacts DEF UnlockBucket, Points, AtBucket
  <2>2. TypeOK' /\ MappedExist'
    <3>1. bucket_lock' \in [Buckets(MAX_DATA_BUCKETS_STEPS) -> Proc \cup {NoProc}]
      BY <1>28, <1>a, ZenonT(40) DEF UnlockBucket, TypeOK
    <3> QED
      BY <1>28, <1>a, <1>b, <2>1, <3>1, ZenonT(40) DEF UnlockBucket, TypeOK, MappedExist
  <2>3. StepsOK(p)' /\ Frame(p)
    BY ONLY <1>28, <1>a, <2>1 DEF UnlockBucket, StepsOK, TypeOK, AtBucket
  <2> QED
    BY ONLY <2>1, <2>2, <2>3, ZenonT(40)
<1>29. CASE ReleaseClear(p)
  <2>1. /\ me[p].pc = "clear" /\ me' \in [Proc -> LocalState]
        /\ me'[p].pc = "uncount"
        /\ \A q \in Proc \ {p} : me'[q] = me[q]
    BY <1>29, <1>a, GotoFacts DEF ReleaseClear, Points, AtBucket
  <2>2. TypeOK' /\ MappedExist'
    <3>1. in_use' \in [Buckets(MAX_DATA_BUCKETS_STEPS) -> BOOLEAN]
      BY <1>29, <1>a, ZenonT(40) DEF ReleaseClear, TypeOK
    <3> QED
      BY <1>29, <1>a, <1>b, <2>1, <3>1, ZenonT(40) DEF ReleaseClear, TypeOK, MappedExist
  <2>3. StepsOK(p)' /\ Frame(p)
    BY ONLY <1>29, <1>a, <2>1 DEF ReleaseClear, StepsOK, TypeOK, AtBucket
  <2> QED
    BY ONLY <2>1, <2>2, <2>3, ZenonT(40)
<1>30. CASE ReleaseCount(p)
  <2>1. /\ me[p].pc = "uncount" /\ me' \in [Proc -> LocalState]
        /\ me'[p].pc = "idle"
        /\ \A q \in Proc \ {p} : me'[q] = me[q]
    BY <1>30, <1>a, GotoFacts DEF ReleaseCount, Points, AtBucket
  <2>2. TypeOK' /\ MappedExist'
    <3>1. (dbuckets_in_use - 1) % CounterMod \in 0 .. CounterMod - 1
      BY ONLY <1>a, ModRange, TotPositive, SMTT(30) DEF TypeOK
    <3> QED
      BY <1>30, <1>a, <1>b, <2>1, <3>1, ZenonT(40) DEF ReleaseCount, TypeOK, MappedExist
  <2>3. StepsOK(p)' /\ Frame(p)
    BY <1>30, <1>a, <2>1 DEF ReleaseCount, StepsOK, TypeOK, AtBucket
  <2> QED
    BY <2>1, <2>2, <2>3
<1>31. CASE Truncate(p)
  <2> PICK q \in Proc : \E g \in got[q] :
             ReleaseExit(p, g.ix) \/ ReleaseFree(p, g.ix) \/ ReleaseTest(p, g.ix)
    BY <1>31, ZenonT(40) DEF Truncate
  <2> PICK g \in got[q] :
             ReleaseExit(p, g.ix) \/ ReleaseFree(p, g.ix) \/ ReleaseTest(p, g.ix)
    BY ZenonT(40)
  <2> DEFINE ix == g.ix
  <2> HIDE DEF ix
  <2>1. CASE ReleaseExit(p, ix) \/ ReleaseFree(p, ix)
    <3>1. /\ me' \in [Proc -> LocalState] /\ me'[p].pc \in {"idle", "exited"}
          /\ \A r \in Proc \ {p} : me'[r] = me[r]
      <4>1. "idle" \in Points /\ "exited" \in Points
        BY DEF Points
      <4> QED
        BY <1>a, <2>1, <4>1, GotoFacts, ZenonT(120) DEF ReleaseExit, ReleaseFree
    <3>2. TypeOK' /\ MappedExist'
      BY <1>a, <1>b, <2>1, <3>1, MapsOK, ZenonT(40)
         DEF ReleaseExit, ReleaseFree, TypeOK, MappedExist
    <3>3. StepsOK(p)' /\ Frame(p)
      BY ONLY <1>a, <2>1, <3>1 DEF ReleaseExit, ReleaseFree, StepsOK, TypeOK, AtBucket
    <3> QED
      BY <3>1, <3>2, <3>3
  <2>2. CASE ReleaseTest(p, ix)
    <3>1. ix \in Nat
      BY <1>a, <2>2, StepAssumption DEF ReleaseTest, Buckets, TypeOK
    <3>2. [Idle EXCEPT !.pc = "clear", !.j = ix] \in LocalState
      BY <3>1, IdleType, ZenonT(40) DEF LocalState, Idle, Points
    <3>3. /\ me' \in [Proc -> LocalState] /\ me'[p].pc = "clear"
          /\ \A r \in Proc \ {p} : me'[r] = me[r]
      BY <1>a, <2>2, <3>2 DEF ReleaseTest, Idle
    <3>4. TypeOK' /\ MappedExist'
      BY <1>a, <1>b, <2>2, <3>3, MapsOK, ZenonT(40) DEF ReleaseTest, TypeOK, MappedExist
    <3>5. StepsOK(p)' /\ Frame(p)
      BY <1>a, <2>2, <3>3 DEF ReleaseTest, StepsOK, TypeOK, AtBucket
    <3> QED
      BY <3>3, <3>4, <3>5
  <2> QED
    BY <2>1, <2>2, ZenonT(40) DEF ix
<1> QED
  BY <1>1, <1>2, <1>3, <1>4, <1>5, <1>6, <1>7, <1>8, <1>9, <1>10, <1>11, <1>12, <1>13,
     <1>14, <1>15, <1>16, <1>17, <1>18, <1>19, <1>20, <1>21, <1>22, <1>23,
     <1>24, <1>25, <1>26, <1>27, <1>28, <1>29, <1>30, <1>31, ZenonT(40)
     DEF Step

\* At the start the first step exists, and everyone has mapped it.
LEMMA GrowInvInit ==
  ASSUME Init
  PROVE  GrowInv
<1>1. me \in [Proc -> LocalState] /\ \A p \in Proc : me[p].pc = "idle" /\ me[p].steps_read = 0
  BY IdleType DEF Init, InitGlob, Idle
<1>2. TypeOK /\ MappedExist
  BY <1>1, StepAssumption DEF Init, InitGlob, TypeOK, MappedExist
<1> QED
  BY <1>1, <1>2 DEF GrowInv, StepsOK, AtBucket

\* Every step keeps GrowInv.
LEMMA GrowInvStep ==
  ASSUME GrowInv, [Next]_vars
  PROVE  GrowInv'
<1>1. CASE UNCHANGED vars
  BY <1>1 DEF vars, glob, GrowInv, TypeOK, MappedExist, StepsOK
<1>2. ASSUME NEW p \in Proc, Call(p) \/ Step(p) \/ Truncate(p) PROVE GrowInv'
  <2>1. TypeOK' /\ MappedExist' /\ me' \in [Proc -> LocalState] /\ StepsOK(p)' /\ Frame(p)
    BY <1>2, GrowOwn
  <2>2. dbucket_steps' \in Nat
    BY <2>1 DEF TypeOK
  <2> QED
    BY <2>1, <2>2, GrowOthers DEF GrowInv
<1> QED
  BY <1>1, <1>2 DEF Next

\* GrowInv holds in every reachable state.
LEMMA GrowInvariance == Spec => []GrowInv
  BY GrowInvInit, GrowInvStep, PTL DEF Spec

(* For any number of processes and steps: no race between the test of      *)
(* dbucket_steps in try_create_step and the lock makes dbucket_steps pass  *)
(* MAX_DATA_BUCKETS_STEPS.                                                 *)
THEOREM TypeCorrect == Spec => []TypeOK
  BY GrowInvariance, PTL DEF GrowInv

(* What open_map_datastep and get_dbucket_ptr map has been created, by     *)
(* whichever process, and dbucket_steps counts only steps that exist.      *)
THEOREM MappedStepsExist == Spec => []MappedExist
  BY GrowInvariance, PTL DEF GrowInv
-----------------------------------------------------------------------------
(* The builds that release nothing: what a walk has passed is in use or     *)
(* locked, and stays so.                                                   *)

AllBuckets == Buckets(MAX_DATA_BUCKETS_STEPS)

Below(x) == \A b \in AllBuckets : b < x => Busy(b)

\* Between in_use = 1 and the return of the index.
Owning == {"claimed", "count"}

WalkOK(p) ==
  /\ me[p].pc = "bound" => Below(me[p].j)
  /\ me[p].pc \in {"walk", "trybucket", "check"} =>
       \A b \in AllBuckets : b < local_ix(p) /\ b < current_num_buckets(p) => Busy(b)
  /\ me[p].pc \in {"check", "claim", "claimed"} => bucket_lock[Here(p)] = p
  /\ me[p].pc = "check" /\ current_num_buckets(p) <= local_ix(p) => in_use[Here(p)]
  /\ me[p].pc \in {"claim", "claimed", "count"} =>
       local_ix(p) \in AllBuckets /\ Here(p) = local_ix(p)
  /\ me[p].pc = "claim" => ~ in_use[Here(p)]
  /\ me[p].pc \in Owning => in_use[Here(p)]
  /\ me[p].pc \notin {"clear", "uncount"}

Apart ==
  \A p, q \in Proc :
    p # q /\ me[p].pc \in Owning /\ me[q].pc \in Owning => local_ix(p) # local_ix(q)

GotOK(p) ==
  \A g \in got[p] :
    /\ g \in [ix : AllBuckets, bucket : AllBuckets]
    /\ g.ix = g.bucket /\ in_use[g.bucket]
    /\ \A q \in Proc : me[q].pc \in Owning => local_ix(q) # g.bucket

WalkInv ==
  /\ got \in [Proc -> SUBSET [ix : Int, bucket : Int]]
  /\ O_TRUNC_FREE \in BOOLEAN
  /\ ~ O_TRUNC_FREE =>
       /\ Below(dbucket_rough_index) /\ Apart /\ IndexIsBucket
       /\ \A p \in Proc : WalkOK(p) /\ GotOK(p)

\* A remainder lies below the divisor, and a smaller number is its own.
LEMMA ModFacts ==
  ASSUME NEW a \in Nat, NEW n \in Nat \ {0}
  PROVE  a % n \in 0 .. n - 1 /\ (a < n => a % n = a)
OBVIOUS

\* The buckets of some steps are at most those of all steps.
LEMMA Product ==
  ASSUME NEW a \in Nat \ {0}, NEW s \in Nat \ {0}, NEW m \in Nat, s <= m
  PROVE  a * s \in Nat \ {0} /\ a * s <= a * m
OBVIOUS

(* The buckets a walk looks at.                                            *)
LEMMA WalkRange ==
  ASSUME GrowInv, NEW p \in Proc, me[p].pc \in {"walk"} \cup AtBucket
  PROVE  /\ current_num_buckets(p) \in Nat \ {0} /\ local_ix(p) \in Nat
         /\ \A b \in Nat : b < current_num_buckets(p) => b \in AllBuckets
         /\ Here(p) \in 0 .. current_num_buckets(p) - 1 /\ Here(p) \in AllBuckets
         /\ local_ix(p) < current_num_buckets(p) => Here(p) = local_ix(p)
<1>1. /\ me[p].steps_read \in Nat \ {0} /\ me[p].steps_read <= MAX_DATA_BUCKETS_STEPS
      /\ me[p].i \in Nat /\ me[p].j \in Nat
  BY DEF GrowInv, LocalState, StepsOK, TypeOK
<1>2. /\ current_num_buckets(p) \in Nat \ {0} /\ local_ix(p) \in Nat
      /\ current_num_buckets(p) <= DATA_BUCKETS_STEP * MAX_DATA_BUCKETS_STEPS
      /\ DATA_BUCKETS_STEP * MAX_DATA_BUCKETS_STEPS \in Nat
  BY <1>1, Product, StepAssumption DEF current_num_buckets, local_ix
<1>3. \A b \in Nat : b < current_num_buckets(p) => b \in AllBuckets
  BY <1>2 DEF AllBuckets, Buckets
<1>4. /\ Here(p) \in 0 .. current_num_buckets(p) - 1
      /\ local_ix(p) < current_num_buckets(p) => Here(p) = local_ix(p)
  BY <1>2, ModFacts, ZenonT(40) DEF Here
<1>5. Here(p) \in AllBuckets
  BY <1>2, <1>3, <1>4
<1> QED
  BY <1>2, <1>3, <1>4, <1>5, ZenonT(40)

(* What a step of p leaves to the other processes: busy buckets stay busy, *)
(* and nobody touches a bucket that another process has locked.            *)
Keeps(p) ==
  /\ \A q \in Proc \ {p} : me'[q] = me[q]
  /\ \A b \in AllBuckets : (Busy(b) => Busy(b)') /\ (in_use[b] => in_use'[b])
  /\ \A q \in Proc \ {p} :
       /\ me[q].pc \in {"check", "claim", "claimed"} =>
            bucket_lock'[Here(q)] = bucket_lock[Here(q)]
       /\ me[q].pc = "claim" => in_use'[Here(q)] = in_use[Here(q)]

\* A step that leaves in_use and the locks of the buckets alone has that effect.
LEMMA KeepsAll ==
  ASSUME NEW p \in Proc, \A q \in Proc \ {p} : me'[q] = me[q],
         UNCHANGED <<in_use, bucket_lock>>
  PROVE  Keeps(p)
  BY DEF Keeps, Busy

\* The buckets below the rough index stay busy.
LEMMA BelowKept ==
  ASSUME NEW p \in Proc, Keeps(p), Below(dbucket_rough_index), UNCHANGED dbucket_rough_index
  PROVE  Below(dbucket_rough_index)'
  BY DEF Keeps, Below

\* A process that did not move has the same locals.
LEMMA SameLocals ==
  ASSUME NEW q \in Proc, me'[q] = me[q]
  PROVE  /\ local_ix(q)' = local_ix(q) /\ Here(q)' = Here(q)
         /\ current_num_buckets(q)' = current_num_buckets(q)
  BY DEF local_ix, Here, current_num_buckets

\* A step of p leaves what q knows of the buckets true.
LEMMA WalkOthers ==
  ASSUME GrowInv, NEW p \in Proc, NEW q \in Proc \ {p}, Keeps(p), WalkOK(q)
  PROVE  WalkOK(q)'
<1>1. /\ me'[q] = me[q] /\ local_ix(q)' = local_ix(q) /\ Here(q)' = Here(q)
      /\ current_num_buckets(q)' = current_num_buckets(q)
  BY SameLocals DEF Keeps
<1>2. \A b \in AllBuckets : (Busy(b) => Busy(b)') /\ (in_use[b] => in_use'[b])
  BY DEF Keeps
<1>3. me[q].pc \in AtBucket => Here(q) \in AllBuckets
  BY WalkRange
<1>4. Below(me[q].j) => Below(me[q].j)'
  BY <1>1, <1>2, ZenonT(40) DEF Below
<1>5. /\ me[q].pc \in {"check", "claim", "claimed"} =>
           bucket_lock'[Here(q)] = bucket_lock[Here(q)]
      /\ me[q].pc = "claim" => in_use'[Here(q)] = in_use[Here(q)]
  BY DEF Keeps
<1>6. /\ me'[q].pc = "bound" => Below(me[q].j)'
      /\ me'[q].pc \in {"walk", "trybucket", "check"} =>
           \A b \in AllBuckets :
             b < local_ix(q)' /\ b < current_num_buckets(q)' => Busy(b)'
  BY <1>1, <1>2, <1>4, ZenonT(40) DEF WalkOK
<1>7. /\ me'[q].pc \in {"check", "claim", "claimed"} => bucket_lock'[Here(q)'] = q
      /\ me'[q].pc = "claim" => ~ in_use'[Here(q)']
      /\ me'[q].pc \in {"claim", "claimed", "count"} =>
           local_ix(q)' \in AllBuckets /\ Here(q)' = local_ix(q)'
  BY <1>1, <1>5, ZenonT(40) DEF WalkOK
<1>8. /\ me'[q].pc = "check" /\ current_num_buckets(q)' <= local_ix(q)' => in_use'[Here(q)']
      /\ me'[q].pc \in Owning => in_use'[Here(q)']
      /\ me'[q].pc \notin {"clear", "uncount"}
  BY <1>1, <1>2, <1>3, ZenonT(40) DEF WalkOK, Owning, AtBucket
<1> QED
  BY <1>1, <1>6, <1>7, <1>8, ZenonT(40) DEF WalkOK, Below, AllBuckets, Buckets

(* A step of p that claims no bucket and returns none.                     *)
LEMMA WalkKeep ==
  ASSUME GrowInv, WalkInv, NEW p \in Proc, ~ O_TRUNC_FREE, UNCHANGED <<got, O_TRUNC_FREE>>,
         Keeps(p), Below(dbucket_rough_index)', WalkOK(p)',
         me'[p].pc \in Owning => me[p].pc \in Owning /\ local_ix(p)' = local_ix(p)
  PROVE  WalkInv'
<1>1. /\ Apart /\ IndexIsBucket /\ \A q \in Proc : WalkOK(q) /\ GotOK(q)
      /\ got \in [Proc -> SUBSET [ix : Int, bucket : Int]]
      /\ O_TRUNC_FREE \in BOOLEAN
  BY DEF WalkInv
<1>2. ASSUME NEW q \in Proc, me'[q].pc \in Owning
      PROVE  me[q].pc \in Owning /\ local_ix(q)' = local_ix(q)
  <2>1. CASE q = p
    BY <1>2, <2>1
  <2>2. CASE q # p
    BY <1>2, <2>2, SameLocals DEF Keeps
  <2> QED
    BY <2>1, <2>2
<1>3. Apart'
  BY <1>1, <1>2, ZenonT(40) DEF Apart
<1>4. ASSUME NEW q \in Proc PROVE WalkOK(q)'
  BY <1>1, WalkOthers, ZenonT(40)
<1>5. ASSUME NEW q \in Proc PROVE GotOK(q)'
  <2> SUFFICES ASSUME NEW g \in got[q]
               PROVE  /\ g \in [ix : AllBuckets, bucket : AllBuckets]
                      /\ g.ix = g.bucket /\ in_use'[g.bucket]
                      /\ \A r \in Proc : me'[r].pc \in Owning => local_ix(r)' # g.bucket
    BY ZenonT(40) DEF GotOK, AllBuckets, Buckets
  <2>1. /\ g \in [ix : AllBuckets, bucket : AllBuckets] /\ g.bucket \in AllBuckets
        /\ g.ix = g.bucket /\ in_use[g.bucket]
        /\ \A r \in Proc : me[r].pc \in Owning => local_ix(r) # g.bucket
    BY <1>1 DEF GotOK
  <2> QED
    BY <1>2, <2>1, ZenonT(40) DEF Keeps
<1>6. IndexIsBucket'
  BY <1>1, ZenonT(40) DEF IndexIsBucket
<1> QED
  BY <1>1, <1>3, <1>4, <1>5, <1>6, ZenonT(40) DEF WalkInv

(* A step that touches no bucket and is not part of a walk.                *)
LEMMA WalkQuiet ==
  ASSUME GrowInv, WalkInv, NEW p \in Proc, ~ O_TRUNC_FREE,
         me'[p].pc \notin {"bound", "walk", "clear", "uncount"} \cup AtBucket,
         \A q \in Proc \ {p} : me'[q] = me[q],
         UNCHANGED <<in_use, bucket_lock, got, O_TRUNC_FREE>>,
         Below(dbucket_rough_index) => Below(dbucket_rough_index)'
  PROVE  WalkInv'
<1>1. Keeps(p)
  BY KeepsAll
<1>2. WalkOK(p)' /\ me'[p].pc \notin Owning
  BY ZenonT(40) DEF WalkOK, Owning, AtBucket
<1>3. Below(dbucket_rough_index)'
  BY DEF WalkInv
<1> QED
  BY <1>1, <1>2, <1>3, WalkKeep, ZenonT(40)

(* The steps of a walk keep WalkInv. Traverse starts at the rough index    *)
(* and TraverseBound reads how far to go.                                  *)
LEMMA TraverseStep ==
  ASSUME GrowInv, WalkInv, NEW p \in Proc, Traverse(p), ~ O_TRUNC_FREE, UNCHANGED O_TRUNC_FREE,
         \A q \in Proc \ {p} : me'[q] = me[q]
  PROVE  WalkInv'
<1>1. me'[p].pc = "bound" /\ me'[p].j = dbucket_rough_index
  BY DEF Traverse, LocalState, GrowInv
<1>2. UNCHANGED <<in_use, bucket_lock, got, dbucket_rough_index>>
  BY DEF Traverse, glob
<1>3. Keeps(p) /\ Below(dbucket_rough_index)'
  BY <1>2, KeepsAll, BelowKept DEF WalkInv
<1>4. WalkOK(p)' /\ me'[p].pc \notin Owning
  BY <1>1, <1>2, <1>3, ZenonT(40) DEF WalkOK, Below, Owning
<1> QED
  BY <1>2, <1>3, <1>4, WalkKeep, ZenonT(40)

\* Starting a walk at the rough index keeps WalkInv: all below it is busy.
LEMMA TraverseBoundStep ==
  ASSUME GrowInv, WalkInv, NEW p \in Proc, TraverseBound(p), ~ O_TRUNC_FREE, UNCHANGED O_TRUNC_FREE,
         \A q \in Proc \ {p} : me'[q] = me[q]
  PROVE  WalkInv'
<1>1. /\ me[p].pc = "bound"
      /\ me'[p].pc = "walk" /\ me'[p].i = 0 /\ me'[p].j = me[p].j /\ me[p].j \in Nat
  BY DEF TraverseBound, LocalState, GrowInv
<1>2. UNCHANGED <<in_use, bucket_lock, got, dbucket_rough_index>>
  BY DEF TraverseBound, glob
<1>3. Keeps(p) /\ Below(dbucket_rough_index)'
  BY <1>2, KeepsAll, BelowKept DEF WalkInv
<1>4. WalkOK(p)' /\ me'[p].pc \notin Owning
  <2>1. local_ix(p)' = me[p].j
    BY <1>1 DEF local_ix
  <2>2. \A b \in AllBuckets : b < me[p].j => Busy(b)'
    BY <1>1, <1>3, ZenonT(40) DEF WalkInv, WalkOK, Below, Keeps
  <2> QED
    BY <1>1, <2>1, <2>2, ZenonT(40) DEF WalkOK, Owning
<1> QED
  BY <1>2, <1>3, <1>4, WalkKeep, ZenonT(40)

(* The walk goes on past a bucket that is busy and stays so: in use at the *)
(* first look, locked, or in use at the second look.                       *)
LEMMA PassStep ==
  ASSUME GrowInv, WalkInv, NEW p \in Proc, ~ O_TRUNC_FREE, UNCHANGED <<got, O_TRUNC_FREE>>,
         me[p].pc \in {"walk", "trybucket", "check"}, NextIteration(p),
         Keeps(p), UNCHANGED dbucket_rough_index, Busy(Here(p))
  PROVE  WalkInv'
<1>1. /\ me'[p].pc = "walk" /\ me'[p].i = me[p].i + 1 /\ me'[p].j = me[p].j
      /\ me'[p].steps_read = me[p].steps_read
  BY NextFacts DEF GrowInv
<1>2. /\ local_ix(p)' = local_ix(p) + 1
      /\ current_num_buckets(p)' = current_num_buckets(p)
  <2>1. me[p].i \in Nat /\ me[p].j \in Nat
    BY DEF GrowInv, LocalState
  <2> QED
    BY <1>1, <2>1 DEF local_ix, current_num_buckets
<1>3. /\ current_num_buckets(p) \in Nat \ {0} /\ local_ix(p) \in Nat
      /\ local_ix(p) < current_num_buckets(p) => Here(p) = local_ix(p)
  BY WalkRange DEF AtBucket
<1>4. ASSUME NEW b \in AllBuckets, b < local_ix(p) + 1, b < current_num_buckets(p)
      PROVE  Busy(b)'
  <2>1. b = local_ix(p) \/ b < local_ix(p)
    BY <1>3, <1>4 DEF AllBuckets, Buckets
  <2>2. CASE b = local_ix(p)
    <3>1. Busy(b)
      BY <1>3, <1>4, <2>2
    <3> QED
      BY <3>1, ZenonT(40) DEF Keeps
  <2>3. CASE b < local_ix(p)
    BY <1>4, <2>3, ZenonT(40) DEF WalkInv, WalkOK, Keeps
  <2> QED
    BY <2>1, <2>2, <2>3
<1>5. WalkOK(p)' /\ me'[p].pc \notin Owning
  BY <1>1, <1>2, <1>4, ZenonT(40) DEF WalkOK, Owning
<1>6. Below(dbucket_rough_index)'
  BY BelowKept DEF WalkInv
<1> QED
  BY <1>5, <1>6, WalkKeep, ZenonT(40)

\* A walk that passes a bucket in use keeps WalkInv,
LEMMA LookInUseStep ==
  ASSUME GrowInv, WalkInv, NEW p \in Proc, LookInUse(p), ~ O_TRUNC_FREE, UNCHANGED O_TRUNC_FREE,
         \A q \in Proc \ {p} : me'[q] = me[q]
  PROVE  WalkInv'
<1>1. /\ UNCHANGED <<in_use, bucket_lock, got, dbucket_rough_index>> /\ NextIteration(p)
      /\ me[p].pc = "walk" /\ Busy(Here(p))
  BY DEF LookInUse, glob, Busy
<1> QED
  BY <1>1, KeepsAll, PassStep, ZenonT(40)

\* and so does one that passes a bucket another process has locked.
LEMMA BucketBusyStep ==
  ASSUME GrowInv, WalkInv, NEW p \in Proc, BucketBusy(p), ~ O_TRUNC_FREE, UNCHANGED O_TRUNC_FREE,
         \A q \in Proc \ {p} : me'[q] = me[q]
  PROVE  WalkInv'
<1>1. /\ UNCHANGED <<in_use, bucket_lock, got, dbucket_rough_index>> /\ NextIteration(p)
      /\ me[p].pc = "trybucket" /\ Busy(Here(p))
  BY DEF BucketBusy, glob, Busy
<1> QED
  BY <1>1, KeepsAll, PassStep, ZenonT(40)

\* A first look at a free bucket changes nothing that is shared.
LEMMA LookFreeStep ==
  ASSUME GrowInv, WalkInv, NEW p \in Proc, LookFree(p), ~ O_TRUNC_FREE, UNCHANGED O_TRUNC_FREE,
         \A q \in Proc \ {p} : me'[q] = me[q]
  PROVE  WalkInv'
<1>1. /\ me[p].pc = "walk" /\ me'[p].pc = "trybucket" /\ me'[p].i = me[p].i
      /\ me'[p].j = me[p].j /\ me'[p].steps_read = me[p].steps_read
  BY GotoFacts DEF LookFree, Points, AtBucket, GrowInv
<1>2. UNCHANGED <<in_use, bucket_lock, got, dbucket_rough_index>>
  BY DEF LookFree, glob
<1>3. Keeps(p) /\ Below(dbucket_rough_index)'
  BY <1>2, KeepsAll, BelowKept DEF WalkInv
<1>4. local_ix(p)' = local_ix(p) /\ current_num_buckets(p)' = current_num_buckets(p)
  BY <1>1, ZenonT(40) DEF local_ix, current_num_buckets
<1>5. WalkOK(p)' /\ me'[p].pc \notin Owning
  <2>1. \A b \in AllBuckets : b < local_ix(p) /\ b < current_num_buckets(p) => Busy(b)'
    BY <1>1, <1>3, ZenonT(40) DEF WalkInv, WalkOK, Keeps
  <2> QED
    BY <1>1, <1>4, <2>1, ZenonT(40) DEF WalkOK, Owning
<1> QED
  BY <1>2, <1>3, <1>5, WalkKeep, ZenonT(40)

\* A step inside an iteration leaves the position of the walk alone.
LEMMA SameWalk ==
  ASSUME NEW p \in Proc, me'[p].i = me[p].i, me'[p].j = me[p].j,
         me'[p].steps_read = me[p].steps_read
  PROVE  /\ local_ix(p)' = local_ix(p) /\ Here(p)' = Here(p)
         /\ current_num_buckets(p)' = current_num_buckets(p)
  BY ZenonT(40) DEF local_ix, Here, current_num_buckets

(* Nobody else holds the lock of the bucket that p looks at when p takes,  *)
(* holds or releases it.                                                   *)
LEMMA LockKeeps ==
  ASSUME GrowInv, WalkInv, NEW p \in Proc, ~ O_TRUNC_FREE,
         \A q \in Proc \ {p} : me'[q] = me[q], NEW v \in Proc \cup {NoProc},
         me[p].pc \in AtBucket, bucket_lock[Here(p)] \in {p, NoProc},
         bucket_lock' = [bucket_lock EXCEPT ![Here(p)] = v], UNCHANGED in_use,
         in_use[Here(p)] \/ v # NoProc
  PROVE  Keeps(p)
<1>1. Here(p) \in AllBuckets
  BY WalkRange
<1>2. bucket_lock \in [AllBuckets -> Proc \cup {NoProc}]
  BY DEF GrowInv, TypeOK, AllBuckets
<1>3. ASSUME NEW b \in AllBuckets PROVE Busy(b) => Busy(b)'
  <2>1. CASE b = Here(p)
    BY <1>1, <1>2, <2>1, ZenonT(40) DEF Busy
  <2>2. CASE b # Here(p)
    BY <1>1, <1>2, <2>2, ZenonT(40) DEF Busy
  <2> QED
    BY <2>1, <2>2
<1>4. ASSUME NEW q \in Proc \ {p}, me[q].pc \in {"check", "claim", "claimed"}
      PROVE  bucket_lock'[Here(q)] = bucket_lock[Here(q)]
  <2>1. Here(q) \in AllBuckets
    BY <1>4, WalkRange DEF AtBucket
  <2>2. bucket_lock[Here(q)] = q /\ q # NoProc
    BY <1>4, StepAssumption DEF WalkInv, WalkOK
  <2> QED
    BY <1>1, <1>2, <2>1, <2>2, ZenonT(40)
<1> QED
  BY <1>3, <1>4, ZenonT(40) DEF Keeps

\* The bucket that is unlocked after the second look was in use.
LEMMA CheckInUseStep ==
  ASSUME GrowInv, WalkInv, NEW p \in Proc, CheckInUse(p), ~ O_TRUNC_FREE, UNCHANGED O_TRUNC_FREE,
         \A q \in Proc \ {p} : me'[q] = me[q]
  PROVE  WalkInv'
<1>1. /\ me[p].pc = "check" /\ in_use[Here(p)] /\ NextIteration(p)
      /\ bucket_lock' = [bucket_lock EXCEPT ![Here(p)] = NoProc]
      /\ UNCHANGED <<in_use, got, dbucket_rough_index>>
  BY DEF CheckInUse, glob
<1>2. bucket_lock[Here(p)] = p
  BY <1>1, ZenonT(40) DEF WalkInv, WalkOK
<1>3. Keeps(p)
  BY <1>1, <1>2, LockKeeps, ZenonT(40) DEF AtBucket
<1>4. Busy(Here(p))
  BY <1>1 DEF Busy
<1> QED
  BY <1>1, <1>3, <1>4, PassStep, ZenonT(40)

\* Locking a bucket makes it busy, and no other process holds its lock.
LEMMA BucketLockStep ==
  ASSUME GrowInv, WalkInv, NEW p \in Proc, BucketLock(p), ~ O_TRUNC_FREE, UNCHANGED O_TRUNC_FREE,
         \A q \in Proc \ {p} : me'[q] = me[q]
  PROVE  WalkInv'
<1>1. /\ me[p].pc = "trybucket" /\ me'[p].pc = "check" /\ me'[p].i = me[p].i
      /\ me'[p].j = me[p].j /\ me'[p].steps_read = me[p].steps_read
  BY GotoFacts DEF BucketLock, Points, AtBucket, GrowInv
<1>2. /\ bucket_lock[Here(p)] = NoProc
      /\ bucket_lock' = [bucket_lock EXCEPT ![Here(p)] = p]
      /\ UNCHANGED <<in_use, got, dbucket_rough_index>>
  BY DEF BucketLock, glob
<1>3. p # NoProc
  BY StepAssumption
<1>4. Keeps(p)
  BY <1>1, <1>2, <1>3, LockKeeps, ZenonT(40) DEF AtBucket
<1>5. Below(dbucket_rough_index)'
  BY <1>2, <1>4, BelowKept DEF WalkInv
<1>6. /\ local_ix(p)' = local_ix(p) /\ Here(p)' = Here(p)
      /\ current_num_buckets(p)' = current_num_buckets(p)
  BY <1>1, SameWalk
<1>7. /\ Here(p) \in AllBuckets /\ Here(p) \in Nat /\ current_num_buckets(p) \in Nat
      /\ Here(p) < current_num_buckets(p) /\ local_ix(p) \in Nat
  BY <1>1, WalkRange DEF AtBucket
<1>8. \A b \in AllBuckets : b < local_ix(p) /\ b < current_num_buckets(p) => Busy(b)
  BY <1>1, ZenonT(40) DEF WalkInv, WalkOK
<1>9. current_num_buckets(p) <= local_ix(p) => in_use[Here(p)]
  <2>1. current_num_buckets(p) <= local_ix(p) => Here(p) < local_ix(p)
    BY ONLY <1>7
  <2> QED
    BY <1>2, <1>7, <1>8, <2>1, ZenonT(40) DEF Busy
<1>10. bucket_lock'[Here(p)] = p
  BY <1>2, <1>7 DEF GrowInv, TypeOK, AllBuckets
<1>11. \A b \in AllBuckets : b < local_ix(p) /\ b < current_num_buckets(p) => Busy(b)'
  BY <1>4, <1>8, ZenonT(40) DEF Keeps
<1>12. WalkOK(p)' /\ me'[p].pc \notin Owning
  BY <1>1, <1>2, <1>6, <1>9, <1>10, <1>11, ZenonT(40) DEF WalkOK, Owning
<1> QED
  BY <1>2, <1>4, <1>5, <1>12, WalkKeep, ZenonT(40)

\* The new rough index is the bucket found free: all below it is busy.
LEMMA CheckFreeStep ==
  ASSUME GrowInv, WalkInv, NEW p \in Proc, CheckFree(p), ~ O_TRUNC_FREE, UNCHANGED O_TRUNC_FREE,
         \A q \in Proc \ {p} : me'[q] = me[q]
  PROVE  WalkInv'
<1>1. /\ me[p].pc = "check" /\ me'[p].pc = "claim" /\ me'[p].i = me[p].i
      /\ me'[p].j = me[p].j /\ me'[p].steps_read = me[p].steps_read
  BY GotoFacts DEF CheckFree, Points, AtBucket, GrowInv
<1>2. /\ ~ in_use[Here(p)] /\ dbucket_rough_index' = local_ix(p)
      /\ UNCHANGED <<in_use, bucket_lock, got>>
  BY DEF CheckFree
<1>3. Keeps(p)
  BY <1>2, KeepsAll
<1>4. /\ local_ix(p)' = local_ix(p) /\ Here(p)' = Here(p)
      /\ current_num_buckets(p)' = current_num_buckets(p)
  BY <1>1, SameWalk
<1>5. WalkOK(p)
  BY DEF WalkInv
<1>6. local_ix(p) < current_num_buckets(p)
  <2>1. local_ix(p) \in Nat /\ current_num_buckets(p) \in Nat
    BY <1>1, WalkRange DEF AtBucket
  <2>2. ~ (current_num_buckets(p) <= local_ix(p))
    BY <1>1, <1>2, <1>5, ZenonT(40) DEF WalkOK
  <2> QED
    BY ONLY <2>1, <2>2
<1>7. Here(p) = local_ix(p) /\ local_ix(p) \in AllBuckets
  BY <1>1, <1>6, WalkRange DEF AtBucket
<1>8. Below(dbucket_rough_index)'
  <2>1. ASSUME NEW b \in AllBuckets, b < local_ix(p) PROVE Busy(b)
    <3>1. b < current_num_buckets(p)
      <4>1. local_ix(p) \in Nat /\ current_num_buckets(p) \in Nat
        BY <1>1, WalkRange DEF AtBucket
      <4> QED
        BY ONLY <1>6, <2>1, <4>1 DEF AllBuckets, Buckets
    <3> QED
      BY <1>1, <1>5, <2>1, <3>1, ZenonT(40) DEF WalkOK
  <2> QED
    BY <1>2, <1>3, <2>1, ZenonT(40) DEF Below, Keeps
<1>9. bucket_lock[Here(p)] = p
  BY <1>1, <1>5, ZenonT(40) DEF WalkOK
<1>10. WalkOK(p)' /\ me'[p].pc \notin Owning
  BY <1>1, <1>2, <1>4, <1>7, <1>9, ZenonT(40) DEF WalkOK, Owning
<1> QED
  BY <1>2, <1>3, <1>8, <1>10, WalkKeep, ZenonT(40)

\* The bucket that is unlocked after the claim is in use.
LEMMA UnlockBucketStep ==
  ASSUME GrowInv, WalkInv, NEW p \in Proc, UnlockBucket(p), ~ O_TRUNC_FREE, UNCHANGED O_TRUNC_FREE,
         \A q \in Proc \ {p} : me'[q] = me[q]
  PROVE  WalkInv'
<1>1. /\ me[p].pc = "claimed" /\ me'[p].pc = "count" /\ me'[p].i = me[p].i
      /\ me'[p].j = me[p].j /\ me'[p].steps_read = me[p].steps_read
  BY GotoFacts DEF UnlockBucket, Points, AtBucket, GrowInv
<1>2. /\ bucket_lock' = [bucket_lock EXCEPT ![Here(p)] = NoProc]
      /\ UNCHANGED <<in_use, got, dbucket_rough_index>>
  BY DEF UnlockBucket, glob
<1>3. /\ bucket_lock[Here(p)] = p /\ in_use[Here(p)]
      /\ local_ix(p) \in AllBuckets /\ Here(p) = local_ix(p)
  BY <1>1, ZenonT(40) DEF WalkInv, WalkOK, Owning
<1>4. Keeps(p)
  BY <1>1, <1>2, <1>3, LockKeeps, ZenonT(40) DEF AtBucket
<1>5. Below(dbucket_rough_index)'
  BY <1>2, <1>4, BelowKept DEF WalkInv
<1>6. /\ local_ix(p)' = local_ix(p) /\ Here(p)' = Here(p)
      /\ current_num_buckets(p)' = current_num_buckets(p)
  BY <1>1, SameWalk
<1>7. WalkOK(p)' /\ me[p].pc \in Owning
  BY <1>1, <1>2, <1>3, <1>6, ZenonT(40) DEF WalkOK, Owning
<1> QED
  BY <1>2, <1>4, <1>5, <1>6, <1>7, WalkKeep, ZenonT(40)

(* in_use = 1: the bucket is free, and so nobody else's.                   *)
LEMMA ClaimFacts ==
  ASSUME GrowInv, WalkInv, NEW p \in Proc, Claim(p), ~ O_TRUNC_FREE,
         \A q \in Proc \ {p} : me'[q] = me[q]
  PROVE  /\ me[p].pc = "claim" /\ me'[p].pc = "claimed"
         /\ local_ix(p)' = local_ix(p) /\ Here(p)' = Here(p)
         /\ Here(p) = local_ix(p) /\ local_ix(p) \in AllBuckets
         /\ bucket_lock[Here(p)] = p /\ ~ in_use[Here(p)]
         /\ in_use' = [in_use EXCEPT ![Here(p)] = TRUE] /\ in_use'[Here(p)]
         /\ UNCHANGED <<bucket_lock, got, dbucket_rough_index, dbuckets_in_use>>
         /\ Keeps(p)
<1>1. /\ me[p].pc = "claim" /\ me'[p].pc = "claimed" /\ me'[p].i = me[p].i
      /\ me'[p].j = me[p].j /\ me'[p].steps_read = me[p].steps_read
  BY GotoFacts DEF Claim, Points, AtBucket, GrowInv
<1>2. /\ in_use' = [in_use EXCEPT ![Here(p)] = TRUE]
      /\ UNCHANGED <<bucket_lock, got, dbucket_rough_index, dbuckets_in_use>>
  BY DEF Claim, glob
<1>3. /\ bucket_lock[Here(p)] = p /\ ~ in_use[Here(p)]
      /\ local_ix(p) \in AllBuckets /\ Here(p) = local_ix(p)
  BY <1>1, ZenonT(40) DEF WalkInv, WalkOK, Owning
<1>4. in_use \in [AllBuckets -> BOOLEAN]
  BY DEF GrowInv, TypeOK, AllBuckets
<1>5. \A b \in AllBuckets : in_use[b] => in_use'[b]
  BY <1>2, <1>3, <1>4, ZenonT(40)
<1>6. ASSUME NEW q \in Proc \ {p}, me[q].pc = "claim"
      PROVE  in_use'[Here(q)] = in_use[Here(q)]
  <2>1. Here(q) \in AllBuckets
    BY <1>6, WalkRange DEF AtBucket
  <2>2. bucket_lock[Here(q)] = q
    BY <1>6, ZenonT(40) DEF WalkInv, WalkOK
  <2> QED
    BY <1>2, <1>3, <1>4, <2>1, <2>2, ZenonT(40)
<1>7. Keeps(p)
  BY <1>2, <1>5, <1>6, ZenonT(40) DEF Keeps, Busy
<1>8. local_ix(p)' = local_ix(p) /\ Here(p)' = Here(p)
  BY <1>1, SameWalk
<1>9. in_use'[Here(p)]
  BY <1>2, <1>3, <1>4, ZenonT(40)
<1> QED
  BY <1>1, <1>2, <1>3, <1>7, <1>8, <1>9, ZenonT(40)

\* The bucket that is marked was free, so no other call has it.
LEMMA ClaimStep ==
  ASSUME GrowInv, WalkInv, NEW p \in Proc, Claim(p), ~ O_TRUNC_FREE, UNCHANGED O_TRUNC_FREE,
         \A q \in Proc \ {p} : me'[q] = me[q]
  PROVE  WalkInv'
<1>1. /\ Apart /\ IndexIsBucket /\ Below(dbucket_rough_index)
      /\ \A q \in Proc : WalkOK(q) /\ GotOK(q)
      /\ got \in [Proc -> SUBSET [ix : Int, bucket : Int]]
      /\ O_TRUNC_FREE \in BOOLEAN
  BY DEF WalkInv
<1>2. /\ me'[p].pc = "claimed" /\ local_ix(p)' = local_ix(p) /\ Here(p)' = Here(p)
      /\ Here(p) = local_ix(p) /\ local_ix(p) \in AllBuckets
      /\ bucket_lock[Here(p)] = p /\ ~ in_use[Here(p)] /\ in_use'[Here(p)]
      /\ UNCHANGED <<bucket_lock, got, dbucket_rough_index>> /\ Keeps(p)
  BY ClaimFacts
<1>3. ASSUME NEW q \in Proc \ {p}, me'[q].pc \in Owning
      PROVE  /\ me[q].pc \in Owning /\ local_ix(q)' = local_ix(q)
             /\ local_ix(q) # local_ix(p)
  <2>1. me[q].pc \in Owning /\ local_ix(q)' = local_ix(q)
    BY <1>2, <1>3, SameLocals DEF Keeps
  <2>2. in_use[Here(q)] /\ Here(q) = local_ix(q)
    BY <1>1, <2>1, ZenonT(40) DEF WalkOK, Owning
  <2> QED
    BY <1>2, <2>1, <2>2, ZenonT(40)
<1>4. Apart'
  <2> SUFFICES ASSUME NEW q \in Proc, NEW r \in Proc, q # r,
                      me'[q].pc \in Owning, me'[r].pc \in Owning
               PROVE  local_ix(q)' # local_ix(r)'
    BY ZenonT(40) DEF Apart
  <2>1. CASE q = p
    BY <1>2, <1>3, <2>1, ZenonT(40)
  <2>2. CASE r = p
    BY <1>2, <1>3, <2>2, ZenonT(40)
  <2>3. CASE q # p /\ r # p
    BY <1>1, <1>3, <2>3, ZenonT(40) DEF Apart
  <2> QED
    BY <2>1, <2>2, <2>3
<1>5. WalkOK(p)'
  BY <1>2, ZenonT(40) DEF WalkOK
<1>6. ASSUME NEW q \in Proc PROVE WalkOK(q)'
  BY <1>1, <1>2, <1>5, WalkOthers, ZenonT(40)
<1>7. ASSUME NEW q \in Proc PROVE GotOK(q)'
  <2> SUFFICES ASSUME NEW g \in got[q]
               PROVE  /\ g \in [ix : AllBuckets, bucket : AllBuckets]
                      /\ g.ix = g.bucket /\ in_use'[g.bucket]
                      /\ \A r \in Proc : me'[r].pc \in Owning => local_ix(r)' # g.bucket
    BY <1>2, ZenonT(40) DEF GotOK, AllBuckets, Buckets
  <2>1. /\ g \in [ix : AllBuckets, bucket : AllBuckets] /\ g.bucket \in AllBuckets
        /\ g.ix = g.bucket /\ in_use[g.bucket]
        /\ \A r \in Proc : me[r].pc \in Owning => local_ix(r) # g.bucket
    BY <1>1 DEF GotOK
  <2>2. in_use'[g.bucket]
    BY <1>2, <2>1, ZenonT(40) DEF Keeps
  <2>3. ASSUME NEW r \in Proc, me'[r].pc \in Owning PROVE local_ix(r)' # g.bucket
    <3>1. CASE r = p
      BY <1>2, <2>1, <3>1, ZenonT(40)
    <3>2. CASE r # p
      BY <1>3, <2>1, <2>3, <3>2, ZenonT(40)
    <3> QED
      BY <3>1, <3>2
  <2> QED
    BY <2>1, <2>2, <2>3, ZenonT(40)
<1>8. IndexIsBucket'
  <2>1. got' = got
    BY <1>2
  <2> QED
    BY ONLY <1>1, <2>1, ~ O_TRUNC_FREE, UNCHANGED O_TRUNC_FREE, ZenonT(40) DEF IndexIsBucket
<1>9. Below(dbucket_rough_index)'
  BY <1>1, <1>2, BelowKept
<1> QED
  BY <1>1, <1>2, <1>4, <1>6, <1>7, <1>8, <1>9, ZenonT(40) DEF WalkInv

\* The bucket that is returned belongs to no other call.
LEMMA CountStep ==
  ASSUME GrowInv, WalkInv, NEW p \in Proc, Count(p), ~ O_TRUNC_FREE, UNCHANGED O_TRUNC_FREE,
         \A q \in Proc \ {p} : me'[q] = me[q]
  PROVE  WalkInv'
<1>a. me \in [Proc -> LocalState] /\ got \in [Proc -> SUBSET [ix : Int, bucket : Int]]
  BY DEF GrowInv, WalkInv
<1>d. /\ Below(dbucket_rough_index) /\ Apart /\ IndexIsBucket
      /\ \A q \in Proc : WalkOK(q) /\ GotOK(q)
  BY DEF WalkInv
<1> DEFINE new == [ix |-> local_ix(p), bucket |-> Here(p)]
<1>1. /\ me[p].pc = "count" /\ me'[p].pc = "idle"
      /\ UNCHANGED <<in_use, bucket_lock, dbucket_rough_index>>
      /\ got' = [got EXCEPT ![p] = @ \cup {new}]
  BY <1>a, ZenonT(40) DEF Count, Idle
<1>2. /\ local_ix(p) \in AllBuckets /\ Here(p) = local_ix(p) /\ in_use[local_ix(p)]
      /\ me[p].pc \in Owning
  BY <1>d, <1>1, ZenonT(40) DEF WalkOK, Owning
<1>3. new \in [ix : AllBuckets, bucket : AllBuckets] /\ new \in [ix : Int, bucket : Int]
  BY ONLY <1>2, SMTT(30) DEF AllBuckets, Buckets
<1>4. /\ got' \in [Proc -> SUBSET [ix : Int, bucket : Int]]
      /\ \A q \in Proc : \A g \in got'[q] : g \in got[q] \/ (q = p /\ g = new)
  BY <1>a, <1>1, <1>3, ZenonT(40)
<1>k. Keeps(p)
  BY <1>1, KeepsAll
<1>5. ASSUME NEW q \in Proc PROVE WalkOK(q)'
  <2>1. CASE q = p
    BY <1>1, <2>1, ZenonT(40) DEF WalkOK, Owning
  <2> QED
    BY <1>d, <1>k, <2>1, WalkOthers, ZenonT(40)
<1>o. ASSUME NEW r \in Proc, me'[r].pc \in Owning
      PROVE  r # p /\ me[r].pc \in Owning /\ local_ix(r)' = local_ix(r)
  <2>1. r # p
    BY <1>1, <1>o, ZenonT(40) DEF Owning
  <2> QED
    BY <1>o, <2>1, SameLocals
<1>6. ASSUME NEW q \in Proc PROVE GotOK(q)'
  <2>2. ASSUME NEW g \in got[q]
        PROVE  /\ g \in [ix : AllBuckets, bucket : AllBuckets]
               /\ g.ix = g.bucket /\ in_use'[g.bucket]
               /\ \A r \in Proc : me'[r].pc \in Owning => local_ix(r)' # g.bucket
    BY <1>d, <1>1, <1>o, <2>2, ZenonT(120) DEF GotOK
  <2>3. /\ new.ix = new.bucket /\ in_use'[new.bucket]
        /\ \A r \in Proc : me'[r].pc \in Owning => local_ix(r)' # new.bucket
    <3>1. ASSUME NEW r \in Proc, me'[r].pc \in Owning PROVE local_ix(r)' # local_ix(p)
      BY <1>d, <1>2, <1>o, <3>1, ZenonT(40) DEF Apart
    <3> QED
      BY <1>1, <1>2, <3>1, ZenonT(40)
  <2> QED
    BY <1>3, <1>4, <2>2, <2>3 DEF GotOK
<1>7. IndexIsBucket'
  <2>1. ASSUME NEW q \in Proc, NEW g \in got[q] PROVE g.bucket # local_ix(p) /\ g.ix = g.bucket
    BY <1>d, <1>2, <2>1, ZenonT(40) DEF GotOK
  <2>2. ASSUME NEW q \in Proc, NEW g \in got'[q] PROVE g.ix = g.bucket
    BY ONLY <1>2, <1>4, <2>1, <2>2
  <2>3. ASSUME NEW q \in Proc, NEW g \in got'[q], NEW r \in Proc, NEW h \in got'[r],
               g.bucket = h.bucket
        PROVE  q = r /\ g = h
    BY <1>d, <1>2, <1>4, <2>1, <2>3, SMTT(30) DEF IndexIsBucket
  <2> QED
    BY <2>2, <2>3, ZenonT(120) DEF IndexIsBucket
<1>8. Apart'
  BY <1>d, <1>o, ZenonT(40) DEF Apart
<1>9. Below(dbucket_rough_index)'
  BY <1>d, <1>1, <1>k, BelowKept, ZenonT(40)
<1> QED
  BY <1>4, <1>5, <1>6, <1>7, <1>8, <1>9, ZenonT(40) DEF WalkInv

(* Every step keeps WalkInv.                                               *)
LEMMA WalkStep ==
  ASSUME GrowInv, GrowInv', WalkInv, NEW p \in Proc, Call(p) \/ Step(p) \/ Truncate(p),
         UNCHANGED O_TRUNC_FREE
  PROVE  WalkInv'
<1>a. /\ me \in [Proc -> LocalState] /\ me[p] \in LocalState /\ dbucket_rough_index \in Nat
      /\ in_use \in [AllBuckets -> BOOLEAN]
      /\ got \in [Proc -> SUBSET [ix : Int, bucket : Int]]
  BY DEF GrowInv, TypeOK, AllBuckets, WalkInv
<1>b. \A q \in Proc \ {p} : me'[q] = me[q]
  BY GrowOwn DEF Frame
<1>c. CASE O_TRUNC_FREE
  <2>1. CASE Count(p)
    <3>1. [ix |-> local_ix(p), bucket |-> Here(p)] \in [ix : Int, bucket : Int]
      <4>1. me[p].pc \in {"walk"} \cup AtBucket
        BY <2>1, ZenonT(40) DEF Count, AtBucket
      <4>2. /\ current_num_buckets(p) \in Nat \ {0} /\ local_ix(p) \in Nat
            /\ Here(p) \in 0 .. current_num_buckets(p) - 1
        BY <4>1, WalkRange, ZenonT(40)
      <4> QED
        BY ONLY <4>2
    <3> QED
      BY <1>c, <1>a, <2>1, <3>1, ZenonT(40) DEF Count, WalkInv
  <2>2. CASE ~ Count(p)
    <3>1. UNCHANGED got
      BY <2>2, ZenonT(40) DEF Step, Call, IndexInRange, IndexLock, IndexWrap, ReadSteps,
                  CheckFull, Traverse, TraverseBound, WalkEnd, LookInUse, LookFree,
                  BucketBusy, BucketLock, CheckInUse, CheckFree, Claim, UnlockBucket,
                  CreateMax, CreateLate, CreateNeeded, TryBusy, TryLock, ShmExists,
                  ShmCreate, Grow, Unlock, WaitEnds, ReleaseClear, ReleaseCount, Truncate,
                  ReleaseExit, ReleaseFree, ReleaseTest
    <3> QED
      BY <1>c, <3>1, ZenonT(40) DEF WalkInv
  <2> QED
    BY <2>1, <2>2
<1> SUFFICES ASSUME ~ O_TRUNC_FREE
             PROVE  WalkInv'
  BY <1>c DEF WalkInv
<1>d. Below(dbucket_rough_index) /\ IndexIsBucket /\ \A q \in Proc : WalkOK(q) /\ GotOK(q)
  BY DEF WalkInv
<1>1. CASE Call(p)
  <2>1. me'[p].pc \notin {"bound", "walk", "clear", "uncount"} \cup AtBucket
    BY <1>1, <1>a, GotoFacts DEF Call, Points, AtBucket
  <2>u. /\ UNCHANGED <<in_use, bucket_lock, got>>
        /\ Below(dbucket_rough_index) => Below(dbucket_rough_index)'
    BY <1>1, ZenonT(40) DEF Call, glob, Below, Busy
  <2> QED
    BY <1>b, <2>1, <2>u, WalkQuiet, ZenonT(40)
<1>2. CASE IndexInRange(p)
  <2>1. me'[p].pc \notin {"bound", "walk", "clear", "uncount"} \cup AtBucket
    BY <1>2, <1>a, GotoFacts DEF IndexInRange, Points, AtBucket
  <2>u. /\ UNCHANGED <<in_use, bucket_lock, got>>
        /\ Below(dbucket_rough_index) => Below(dbucket_rough_index)'
    BY <1>2, ZenonT(40) DEF IndexInRange, glob, Below, Busy
  <2> QED
    BY <1>b, <2>1, <2>u, WalkQuiet, ZenonT(40)
<1>3. CASE IndexLock(p)
  <2>1. me'[p].pc \notin {"bound", "walk", "clear", "uncount"} \cup AtBucket
    BY <1>3, <1>a, GotoFacts DEF IndexLock, Points, AtBucket
  <2>u. /\ UNCHANGED <<in_use, bucket_lock, got>>
        /\ Below(dbucket_rough_index) => Below(dbucket_rough_index)'
    BY <1>3, ZenonT(40) DEF IndexLock, glob, Below, Busy
  <2> QED
    BY <1>b, <2>1, <2>u, WalkQuiet, ZenonT(40)
<1>4. CASE ReadSteps(p)
  <2>1. me'[p].pc = "full"
    BY <1>4, <1>a, ZenonT(40) DEF ReadSteps, LocalState
  <2>u. /\ UNCHANGED <<in_use, bucket_lock, got>>
        /\ Below(dbucket_rough_index) => Below(dbucket_rough_index)'
    BY <1>4, ZenonT(40) DEF ReadSteps, glob, Below, Busy
  <2> QED
    BY <1>b, <2>1, <2>u, WalkQuiet, ZenonT(40) DEF AtBucket
<1>5. CASE CheckFull(p)
  <2>1. me'[p].pc \notin {"bound", "walk", "clear", "uncount"} \cup AtBucket
    BY <1>5, <1>a, GotoFacts DEF CheckFull, Points, AtBucket
  <2>u. /\ UNCHANGED <<in_use, bucket_lock, got>>
        /\ Below(dbucket_rough_index) => Below(dbucket_rough_index)'
    BY <1>5, ZenonT(40) DEF CheckFull, glob, Below, Busy
  <2> QED
    BY <1>b, <2>1, <2>u, WalkQuiet, ZenonT(40)
<1>6. CASE WalkEnd(p)
  <2>1. me'[p].pc \notin {"bound", "walk", "clear", "uncount"} \cup AtBucket
    BY <1>6, <1>a, GotoFacts DEF WalkEnd, Points, AtBucket
  <2>u. /\ UNCHANGED <<in_use, bucket_lock, got>>
        /\ Below(dbucket_rough_index) => Below(dbucket_rough_index)'
    BY <1>6, ZenonT(40) DEF WalkEnd, glob, Below, Busy
  <2> QED
    BY <1>b, <2>1, <2>u, WalkQuiet, ZenonT(40)
<1>7. CASE CreateMax(p)
  <2>1. me'[p].pc \notin {"bound", "walk", "clear", "uncount"} \cup AtBucket
    BY <1>7, <1>a, GotoFacts DEF CreateMax, Points, AtBucket
  <2>u. /\ UNCHANGED <<in_use, bucket_lock, got>>
        /\ Below(dbucket_rough_index) => Below(dbucket_rough_index)'
    BY <1>7, ZenonT(40) DEF CreateMax, glob, Below, Busy
  <2> QED
    BY <1>b, <2>1, <2>u, WalkQuiet, ZenonT(40)
<1>8. CASE CreateLate(p)
  <2>1. me'[p].pc \notin {"bound", "walk", "clear", "uncount"} \cup AtBucket
    BY <1>8, <1>a, GotoFacts DEF CreateLate, Points, AtBucket
  <2>u. /\ UNCHANGED <<in_use, bucket_lock, got>>
        /\ Below(dbucket_rough_index) => Below(dbucket_rough_index)'
    BY <1>8, ZenonT(40) DEF CreateLate, glob, Below, Busy
  <2> QED
    BY <1>b, <2>1, <2>u, WalkQuiet, ZenonT(40)
<1>9. CASE CreateNeeded(p)
  <2>1. me'[p].pc \notin {"bound", "walk", "clear", "uncount"} \cup AtBucket
    BY <1>9, <1>a, GotoFacts DEF CreateNeeded, Points, AtBucket
  <2>u. /\ UNCHANGED <<in_use, bucket_lock, got>>
        /\ Below(dbucket_rough_index) => Below(dbucket_rough_index)'
    BY <1>9, ZenonT(40) DEF CreateNeeded, glob, Below, Busy
  <2> QED
    BY <1>b, <2>1, <2>u, WalkQuiet, ZenonT(40)
<1>10. CASE TryBusy(p)
  <2>1. me'[p].pc \notin {"bound", "walk", "clear", "uncount"} \cup AtBucket
    BY <1>10, <1>a, GotoFacts DEF TryBusy, Points, AtBucket
  <2>u. /\ UNCHANGED <<in_use, bucket_lock, got>>
        /\ Below(dbucket_rough_index) => Below(dbucket_rough_index)'
    BY <1>10, ZenonT(40) DEF TryBusy, glob, Below, Busy
  <2> QED
    BY <1>b, <2>1, <2>u, WalkQuiet, ZenonT(40)
<1>11. CASE TryLock(p)
  <2>1. me'[p].pc \notin {"bound", "walk", "clear", "uncount"} \cup AtBucket
    BY <1>11, <1>a, GotoFacts DEF TryLock, Points, AtBucket
  <2>u. /\ UNCHANGED <<in_use, bucket_lock, got>>
        /\ Below(dbucket_rough_index) => Below(dbucket_rough_index)'
    BY <1>11, ZenonT(40) DEF TryLock, glob, Below, Busy
  <2> QED
    BY <1>b, <2>1, <2>u, WalkQuiet, ZenonT(40)
<1>12. CASE ShmExists(p)
  <2>1. me'[p].pc \notin {"bound", "walk", "clear", "uncount"} \cup AtBucket
    BY <1>12, <1>a, GotoFacts DEF ShmExists, Points, AtBucket
  <2>u. /\ UNCHANGED <<in_use, bucket_lock, got>>
        /\ Below(dbucket_rough_index) => Below(dbucket_rough_index)'
    BY <1>12, ZenonT(40) DEF ShmExists, glob, Below, Busy
  <2> QED
    BY <1>b, <2>1, <2>u, WalkQuiet, ZenonT(40)
<1>13. CASE ShmCreate(p)
  <2>1. me'[p].pc \notin {"bound", "walk", "clear", "uncount"} \cup AtBucket
    BY <1>13, <1>a, GotoFacts DEF ShmCreate, Points, AtBucket
  <2>u. /\ UNCHANGED <<in_use, bucket_lock, got>>
        /\ Below(dbucket_rough_index) => Below(dbucket_rough_index)'
    BY <1>13, ZenonT(40) DEF ShmCreate, glob, Below, Busy
  <2> QED
    BY <1>b, <2>1, <2>u, WalkQuiet, ZenonT(40)
<1>14. CASE Grow(p)
  <2>1. me'[p].pc \notin {"bound", "walk", "clear", "uncount"} \cup AtBucket
    BY <1>14, <1>a, GotoFacts DEF Grow, Points, AtBucket
  <2>u. /\ UNCHANGED <<in_use, bucket_lock, got>>
        /\ Below(dbucket_rough_index) => Below(dbucket_rough_index)'
    BY <1>14, ZenonT(40) DEF Grow, glob, Below, Busy
  <2> QED
    BY <1>b, <2>1, <2>u, WalkQuiet, ZenonT(40)
<1>15. CASE Unlock(p)
  <2>1. me'[p].pc \notin {"bound", "walk", "clear", "uncount"} \cup AtBucket
    BY <1>15, <1>a, GotoFacts DEF Unlock, Points, AtBucket
  <2>u. /\ UNCHANGED <<in_use, bucket_lock, got>>
        /\ Below(dbucket_rough_index) => Below(dbucket_rough_index)'
    BY <1>15, ZenonT(40) DEF Unlock, glob, Below, Busy
  <2> QED
    BY <1>b, <2>1, <2>u, WalkQuiet, ZenonT(40)
<1>16. CASE WaitEnds(p)
  <2>1. me'[p].pc \notin {"bound", "walk", "clear", "uncount"} \cup AtBucket
    BY <1>16, <1>a, GotoFacts DEF WaitEnds, Points, AtBucket
  <2>u. /\ UNCHANGED <<in_use, bucket_lock, got>>
        /\ Below(dbucket_rough_index) => Below(dbucket_rough_index)'
    BY <1>16, ZenonT(40) DEF WaitEnds, glob, Below, Busy
  <2> QED
    BY <1>b, <2>1, <2>u, WalkQuiet, ZenonT(40)
<1>17. CASE IndexWrap(p)
  <2>1. me'[p].pc \notin {"bound", "walk", "clear", "uncount"} \cup AtBucket
    BY <1>17, <1>a, GotoFacts DEF IndexWrap, Points, AtBucket
  <2>2. dbucket_rough_index % Tot \in Nat /\ dbucket_rough_index % Tot <= dbucket_rough_index
    BY <1>a, ModFacts, TotPositive
  <2>3. Below(dbucket_rough_index)'
    BY ONLY <1>17, <1>a, <1>d, <2>2 DEF IndexWrap, Below, Busy, AllBuckets, Buckets
  <2> QED
    BY <1>17, <1>b, <2>1, <2>3, WalkQuiet, ZenonT(40) DEF IndexWrap
<1>18. CASE Traverse(p)
  BY <1>18, <1>b, TraverseStep
<1>19. CASE TraverseBound(p)
  BY <1>19, <1>b, TraverseBoundStep, ZenonT(40)
<1>20. CASE LookInUse(p) \/ LookFree(p) \/ BucketBusy(p) \/ BucketLock(p)
  BY <1>20, <1>b, LookInUseStep, LookFreeStep, BucketBusyStep, BucketLockStep, ZenonT(40)
<1>21. CASE CheckInUse(p) \/ CheckFree(p) \/ Claim(p) \/ UnlockBucket(p)
  BY <1>21, <1>b, CheckInUseStep, CheckFreeStep, ClaimStep, UnlockBucketStep, ZenonT(40)
<1>22. CASE Count(p)
  BY <1>22, <1>b, CountStep
<1>23. CASE ReleaseClear(p) \/ ReleaseCount(p)
  <2>1. me[p].pc \in {"clear", "uncount"}
    BY <1>23, ZenonT(40) DEF ReleaseClear, ReleaseCount, Goto
  <2> QED
    BY <1>d, <2>1, ZenonT(40) DEF WalkOK
<1>24. CASE Truncate(p)
  BY <1>24 DEF Truncate
<1> QED
  BY <1>1, <1>2, <1>3, <1>4, <1>5, <1>6, <1>7, <1>8, <1>9, <1>10, <1>11, <1>12, <1>13,
     <1>14, <1>15, <1>16, <1>17, <1>18, <1>19, <1>20, <1>21, <1>22, <1>23, <1>24, ZenonT(40)
     DEF Step

\* GrowInv and WalkInv hold in every reachable state.
LEMMA WalkInvariance == Spec => [](GrowInv /\ WalkInv)
<1>1. ASSUME Init PROVE GrowInv /\ WalkInv
  <2>1. \A p \in Proc : me[p].pc = "idle" /\ got[p] = {}
    BY <1>1 DEF Init, InitGlob, Idle
  <2>2. dbucket_rough_index = 0 /\ got \in [Proc -> SUBSET [ix : Int, bucket : Int]]
    BY <1>1 DEF Init, InitGlob
  <2>3. O_TRUNC_FREE \in BOOLEAN
    BY <1>1, StepAssumption DEF Init, InitGlob
  <2> QED
    BY ONLY <1>1, <2>1, <2>2, <2>3, GrowInvInit
       DEF WalkInv, WalkOK, GotOK, Apart, Owning, IndexIsBucket, Below, AllBuckets, Buckets
<1>2. ASSUME GrowInv, WalkInv, [Next]_vars PROVE GrowInv' /\ WalkInv'
  <2>1. CASE UNCHANGED vars
    <3>1. GrowInv'
      BY <1>2, GrowInvStep, ZenonT(40)
    <3>2. UNCHANGED <<me, got, in_use, bucket_lock, dbucket_rough_index, O_TRUNC_FREE>>
      BY <2>1, ZenonT(40) DEF vars, glob
    <3>3. \A p \in Proc : /\ local_ix(p)' = local_ix(p) /\ Here(p)' = Here(p)
                         /\ current_num_buckets(p)' = current_num_buckets(p)
      BY <3>2, ZenonT(40) DEF local_ix, current_num_buckets, Here
    <3>4. ASSUME ~ O_TRUNC_FREE, NEW p \in Proc PROVE WalkOK(p)'
      <4>1. WalkOK(p)
        BY <1>2, <3>4, ZenonT(40) DEF WalkInv
      <4> QED
        BY <3>2, <3>3, <4>1, ZenonT(40) DEF WalkOK, Below, Busy
    <3>5. ASSUME ~ O_TRUNC_FREE, NEW p \in Proc PROVE GotOK(p)'
      <4>1. GotOK(p)
        BY <1>2, <3>5, ZenonT(40) DEF WalkInv
      <4> QED
        BY <3>2, <3>3, <4>1, ZenonT(40) DEF GotOK
    <3>6. ASSUME ~ O_TRUNC_FREE PROVE Below(dbucket_rough_index)' /\ Apart' /\ IndexIsBucket'
      <4>1. Below(dbucket_rough_index) /\ Apart /\ IndexIsBucket
        BY <1>2, <3>6, ZenonT(40) DEF WalkInv
      <4>2. Below(dbucket_rough_index)'
        BY <3>2, <4>1, ZenonT(40) DEF Below, Busy
      <4>3. Apart'
        BY <3>2, <3>3, <4>1, ZenonT(40) DEF Apart
      <4>4. IndexIsBucket'
        BY <3>2, <4>1, ZenonT(40) DEF IndexIsBucket
      <4> QED
        BY <4>2, <4>3, <4>4
    <3> QED
      BY <1>2, <3>1, <3>2, <3>4, <3>5, <3>6, ZenonT(40) DEF WalkInv
  <2>2. CASE Next
    BY <1>2, <2>2, GrowInvStep, WalkStep DEF Next
  <2> QED
    BY <1>2, <2>1, <2>2, ZenonT(40)
<1> QED
  BY <1>1, <1>2, PTL DEF Spec

(* In the builds that release nothing, bucket_ix_alloc_steps returns the   *)
(* bucket it claimed although it returns the index without the modulo, and *)
(* no two calls return one bucket, for any number of processes and steps.  *)
THEOREM ReturnsItsBucket == Spec => []IndexIsBucket
<1>1. WalkInv => IndexIsBucket
  BY DEF WalkInv, IndexIsBucket
<1> QED
  BY <1>1, WalkInvariance, PTL
-----------------------------------------------------------------------------
(* The builds that release nothing: growth.                                *)

(* The buckets that some call has returned. *)
Counted == {b \in AllBuckets : \E p \in Proc : \E g \in got[p] : g.bucket = b}

(* A process that is about to create a step has seen the steps it knows full. *)
FullOK(p) ==
  me[p].pc \in {"create", "try", "wait", "shm", "grow"} =>
    \A b \in Buckets(me[p].steps_read) : Busy(b)

(* The buckets in use or locked come before the free ones, and the counter *)
(* is right.                                                               *)
FullInv ==
  ~ O_TRUNC_FREE =>
    /\ \A b \in AllBuckets : Busy(b) => Below(b)
    /\ dbuckets_in_use = Cardinality(Counted)
    /\ \A p \in Proc : FullOK(p)

(* The counter counts a finite set, and never reaches the end of its range. *)
LEMMA CountRange ==
  /\ IsFiniteSet(Counted) /\ IsFiniteSet(AllBuckets)
  /\ Cardinality(AllBuckets) \in Nat /\ Cardinality(AllBuckets) < CounterMod
<1>1. AllBuckets = 0 .. Tot - 1 /\ Tot \in Nat /\ Tot < CounterMod /\ CounterMod \in Nat
  BY TotPositive, StepAssumption DEF AllBuckets, Buckets, Tot
<1>2. IsFiniteSet(AllBuckets) /\ Cardinality(AllBuckets) = Tot
  BY <1>1, FS_Interval
<1>3. Counted \subseteq AllBuckets
  BY DEF Counted
<1>4. IsFiniteSet(Counted)
  BY <1>2, <1>3, FS_Subset, ZenonT(40)
<1> QED
  BY <1>1, <1>2, <1>4

(* The buckets of the steps there are. *)
LEMMA StepsBelow ==
  ASSUME NEW s \in 0 .. MAX_DATA_BUCKETS_STEPS
  PROVE  Buckets(s) \subseteq AllBuckets
<1>1. /\ DATA_BUCKETS_STEP * s \in Nat /\ DATA_BUCKETS_STEP * MAX_DATA_BUCKETS_STEPS \in Nat
      /\ DATA_BUCKETS_STEP * s <= DATA_BUCKETS_STEP * MAX_DATA_BUCKETS_STEPS
  <2>1. CASE s = 0
    BY <2>1, Product, StepAssumption
  <2>2. CASE s # 0
    BY <2>2, Product, StepAssumption
  <2> QED
    BY <2>1, <2>2
<1> QED
  BY <1>1 DEF AllBuckets, Buckets

(* A step of p that leaves the counter alone.                              *)
LEMMA FullKeep ==
  ASSUME GrowInv, FullInv, NEW p \in Proc, ~ O_TRUNC_FREE, UNCHANGED O_TRUNC_FREE,
         Keeps(p), UNCHANGED <<got, dbuckets_in_use>>,
         \A b \in AllBuckets : Busy(b)' => Busy(b) \/ Below(b), FullOK(p)'
  PROVE  FullInv'
<1>1. Counted' = Counted
  BY DEF Counted, AllBuckets, Buckets
<1>2. ASSUME NEW b \in AllBuckets, Busy(b)' PROVE Below(b)'
  <2>1. Below(b)
    BY <1>2, ZenonT(40) DEF FullInv
  <2> QED
    BY <2>1, ZenonT(40) DEF Below, Keeps
<1>3. ASSUME NEW q \in Proc PROVE FullOK(q)'
  <2>1. CASE q = p
    BY <2>1
  <2>2. CASE q # p
    <3>1. me'[q] = me[q] /\ FullOK(q)
      BY <2>2, ZenonT(40) DEF FullInv, Keeps
    <3>2. me[q].steps_read \in 0 .. MAX_DATA_BUCKETS_STEPS
      BY ZenonT(40) DEF GrowInv, TypeOK
    <3>3. Buckets(me[q].steps_read) \subseteq AllBuckets
      BY <3>2, StepsBelow, ZenonT(40)
    <3> QED
      BY <3>1, <3>3, ZenonT(40) DEF FullOK, Keeps
  <2> QED
    BY <2>1, <2>2
<1> QED
  BY <1>1, <1>2, <1>3, ZenonT(40) DEF FullInv

(* A step that touches no bucket and no counter. *)
LEMMA FullQuiet ==
  ASSUME GrowInv, FullInv, NEW p \in Proc, ~ O_TRUNC_FREE, UNCHANGED O_TRUNC_FREE,
         \A q \in Proc \ {p} : me'[q] = me[q],
         UNCHANGED <<in_use, bucket_lock, got, dbuckets_in_use>>,
         \/ me'[p].pc \notin {"create", "try", "wait", "shm", "grow"}
         \/ me[p].pc \in {"create", "try", "shm"} /\ me'[p].steps_read = me[p].steps_read
  PROVE  FullInv'
<1>1. Keeps(p) /\ \A b \in AllBuckets : Busy(b)' => Busy(b) \/ Below(b)
  BY KeepsAll, ZenonT(40) DEF Busy
<1>2. FullOK(p)
  BY DEF FullInv
<1>3. FullOK(p)'
  BY <1>2, ZenonT(40) DEF FullOK, Busy
<1> QED
  BY <1>1, <1>3, FullKeep, ZenonT(40)

(* A process that finds the steps it knows full, and touches nothing else. *)
LEMMA FullOthers ==
  ASSUME GrowInv, FullInv, NEW p \in Proc, ~ O_TRUNC_FREE, UNCHANGED O_TRUNC_FREE,
         \A q \in Proc \ {p} : me'[q] = me[q],
         UNCHANGED <<in_use, bucket_lock, got, dbuckets_in_use>>,
         me'[p].steps_read = me[p].steps_read,
         \A b \in Buckets(me[p].steps_read) : Busy(b)
  PROVE  FullInv'
<1>1. Keeps(p) /\ \A b \in AllBuckets : Busy(b)' => Busy(b) \/ Below(b)
  BY KeepsAll, ZenonT(40) DEF Busy
<1>2. FullOK(p)'
  BY ZenonT(40) DEF FullOK, Busy
<1> QED
  BY <1>1, <1>2, FullKeep, ZenonT(40)

(* A walk locks the bucket after those in use or locked, or one in use.    *)
LEMMA FullLock ==
  ASSUME GrowInv, WalkInv, FullInv, NEW p \in Proc, BucketLock(p), ~ O_TRUNC_FREE,
         UNCHANGED O_TRUNC_FREE, \A q \in Proc \ {p} : me'[q] = me[q]
  PROVE  FullInv'
<1>1. me[p].pc = "trybucket" /\ me'[p].pc = "check"
  BY GotoFacts DEF BucketLock, Points, AtBucket, GrowInv
<1>2. /\ bucket_lock[Here(p)] = NoProc
      /\ bucket_lock' = [bucket_lock EXCEPT ![Here(p)] = p]
      /\ UNCHANGED <<in_use, got, dbuckets_in_use>>
  BY DEF BucketLock, glob
<1>3. p # NoProc
  BY StepAssumption
<1>4. Keeps(p)
  BY <1>1, <1>2, <1>3, LockKeeps, ZenonT(40) DEF AtBucket
<1>5. /\ Here(p) \in AllBuckets /\ current_num_buckets(p) \in Nat /\ local_ix(p) \in Nat
      /\ Here(p) \in Nat /\ Here(p) < current_num_buckets(p)
      /\ local_ix(p) < current_num_buckets(p) => Here(p) = local_ix(p)
  BY <1>1, WalkRange DEF AtBucket
<1>6. \A b \in AllBuckets : b < local_ix(p) /\ b < current_num_buckets(p) => Busy(b)
  BY <1>1, ZenonT(40) DEF WalkInv, WalkOK
<1>7. Busy(Here(p)) \/ Below(Here(p))
  <2>1. CASE local_ix(p) < current_num_buckets(p)
    <3>1. \A b \in AllBuckets : b < Here(p) => b < local_ix(p) /\ b < current_num_buckets(p)
      BY ONLY <1>5, <2>1 DEF AllBuckets, Buckets
    <3> QED
      BY <1>6, <3>1, ZenonT(40) DEF Below
  <2>2. CASE ~ (local_ix(p) < current_num_buckets(p))
    <3>1. Here(p) < local_ix(p)
      BY ONLY <1>5, <2>2
    <3> QED
      BY <1>5, <1>6, <3>1, ZenonT(40)
  <2> QED
    BY <2>1, <2>2
<1>8. ASSUME NEW b \in AllBuckets, Busy(b)' PROVE Busy(b) \/ Below(b)
  <2>1. bucket_lock \in [AllBuckets -> Proc \cup {NoProc}]
    BY DEF GrowInv, TypeOK, AllBuckets
  <2>2. b = Here(p) \/ Busy(b)
    BY <1>2, <1>5, <1>8, <2>1, ZenonT(40) DEF Busy
  <2> QED
    BY <1>7, <2>2
<1>9. FullOK(p)'
  BY <1>1, ZenonT(40) DEF FullOK
<1> QED
  BY <1>2, <1>4, <1>8, <1>9, FullKeep, ZenonT(40)

(* A bucket in use stays busy when its lock is released.                   *)
LEMMA FullUnlock ==
  ASSUME GrowInv, WalkInv, FullInv, NEW p \in Proc, CheckInUse(p) \/ UnlockBucket(p),
         ~ O_TRUNC_FREE, UNCHANGED O_TRUNC_FREE, \A q \in Proc \ {p} : me'[q] = me[q]
  PROVE  FullInv'
<1>1. me[p].pc \in {"check", "claimed"} /\ me'[p].pc \in {"walk", "count"}
  <2>1. "count" \in Points /\ me \in [Proc -> LocalState]
    BY DEF Points, AtBucket, GrowInv
  <2>2. CASE CheckInUse(p)
    BY <2>1, <2>2, NextFacts, ZenonT(40) DEF CheckInUse
  <2>3. CASE UnlockBucket(p)
    BY <2>1, <2>3, GotoFacts, ZenonT(40) DEF UnlockBucket
  <2> QED
    BY <2>2, <2>3
<1>2. /\ bucket_lock' = [bucket_lock EXCEPT ![Here(p)] = NoProc]
      /\ UNCHANGED <<in_use, got, dbuckets_in_use>>
  BY ZenonT(40) DEF CheckInUse, UnlockBucket, glob
<1>3. bucket_lock[Here(p)] = p /\ in_use[Here(p)]
  <2>1. WalkOK(p)
    BY DEF WalkInv
  <2>2. CASE CheckInUse(p)
    BY <2>1, <2>2, ZenonT(40) DEF WalkOK, CheckInUse
  <2>3. CASE UnlockBucket(p)
    BY <2>1, <2>3, ZenonT(40) DEF WalkOK, UnlockBucket, Goto, Owning
  <2> QED
    BY <2>2, <2>3
<1>4. Keeps(p)
  BY <1>1, <1>2, <1>3, LockKeeps, ZenonT(40) DEF AtBucket
<1>5. Here(p) \in AllBuckets
  BY <1>1, WalkRange DEF AtBucket
<1>6. ASSUME NEW b \in AllBuckets, Busy(b)' PROVE Busy(b)
  <2>1. bucket_lock \in [AllBuckets -> Proc \cup {NoProc}]
    BY DEF GrowInv, TypeOK, AllBuckets
  <2> QED
    BY <1>2, <1>3, <1>5, <1>6, <2>1, ZenonT(40) DEF Busy
<1>7. FullOK(p)'
  BY <1>1, ZenonT(40) DEF FullOK
<1> QED
  BY <1>2, <1>4, <1>6, <1>7, FullKeep, ZenonT(40)

(* A walk claims a bucket that it has locked.                              *)
LEMMA FullClaim ==
  ASSUME GrowInv, WalkInv, FullInv, NEW p \in Proc, Claim(p), ~ O_TRUNC_FREE,
         UNCHANGED O_TRUNC_FREE, \A q \in Proc \ {p} : me'[q] = me[q]
  PROVE  FullInv'
<1>1. /\ me'[p].pc = "claimed" /\ Keeps(p) /\ Here(p) \in AllBuckets
      /\ bucket_lock[Here(p)] = p /\ in_use' = [in_use EXCEPT ![Here(p)] = TRUE]
      /\ UNCHANGED <<bucket_lock, got, dbuckets_in_use>>
  BY ClaimFacts, ZenonT(40)
<1>2. p # NoProc /\ in_use \in [AllBuckets -> BOOLEAN]
  BY StepAssumption DEF GrowInv, TypeOK, AllBuckets
<1>3. ASSUME NEW b \in AllBuckets, Busy(b)' PROVE Busy(b)
  BY <1>1, <1>2, <1>3, ZenonT(40) DEF Busy
<1>4. FullOK(p)'
  BY <1>1, ZenonT(40) DEF FullOK
<1> QED
  BY <1>1, <1>3, <1>4, FullKeep, ZenonT(40)

(* dbuckets_in_use++, for the bucket that the call returns. *)
LEMMA FullCount ==
  ASSUME GrowInv, WalkInv, FullInv, NEW p \in Proc, Count(p), ~ O_TRUNC_FREE,
         UNCHANGED O_TRUNC_FREE, \A q \in Proc \ {p} : me'[q] = me[q]
  PROVE  FullInv'
<1> DEFINE x == Here(p)
           new == [ix |-> local_ix(p), bucket |-> x]
<1>1. me[p].pc = "count" /\ me'[p].pc = "idle" /\ UNCHANGED <<in_use, bucket_lock>>
  BY ZenonT(40) DEF GrowInv, Count, Idle
<1>2. x = local_ix(p) /\ x \in AllBuckets
  BY <1>1, ZenonT(40) DEF WalkInv, WalkOK
<1>3. x \notin Counted
  BY <1>1, <1>2, ZenonT(40) DEF WalkInv, GotOK, Counted, Owning
<1>4. got \in [Proc -> SUBSET [ix : Int, bucket : Int]] /\ got' = [got EXCEPT ![p] = @ \cup {new}]
  BY ZenonT(40) DEF Count, WalkInv
<1>5. new.bucket = x
  BY ZenonT(40)
<1> HIDE DEF x, new
<1>6. /\ \A q \in Proc : \A g \in got[q] : g \in got'[q]
      /\ \A q \in Proc : \A g \in got'[q] : g \in got[q] \/ g = new
      /\ new \in got'[p]
  BY <1>4, SMTT(20)
<1>7. Counted' = Counted \cup {x}
  BY <1>2, <1>5, <1>6, ZenonT(40) DEF Counted
<1>8. Cardinality(Counted \cup {x}) = Cardinality(Counted) + 1
  BY <1>3, CountRange, FS_AddElement, ZenonT(40)
<1>9. Cardinality(Counted') \in Nat /\ Cardinality(Counted') < CounterMod
  <2>1. /\ IsFiniteSet(AllBuckets) /\ Cardinality(AllBuckets) < CounterMod
        /\ CounterMod \in Nat
    BY CountRange, StepAssumption, ZenonT(40)
  <2>2. Counted' \subseteq AllBuckets
    BY ZenonT(40) DEF Counted, AllBuckets, Buckets
  <2>3. /\ Cardinality(Counted') <= Cardinality(AllBuckets)
        /\ Cardinality(Counted') \in Nat /\ Cardinality(AllBuckets) \in Nat
    BY <2>1, <2>2, FS_Subset, FS_CardinalityType, ZenonT(40)
  <2> QED
    BY ONLY <2>1, <2>3
<1>10. dbuckets_in_use' = Cardinality(Counted')
  <2>1. dbuckets_in_use' = (Cardinality(Counted) + 1) % CounterMod
    BY DEF Count, FullInv
  <2>2. CounterMod \in Nat \ {0}
    BY TotPositive, ZenonT(40)
  <2> QED
    BY <1>7, <1>8, <1>9, <2>1, <2>2, ModFacts, ZenonT(40)
<1>11. ASSUME NEW q \in Proc PROVE FullOK(q)'
  <2>1. CASE q = p
    BY <1>1, <2>1, ZenonT(40) DEF FullOK
  <2>2. CASE q # p
    <3>1. me'[q] = me[q] /\ FullOK(q)
      BY <2>2 DEF FullInv
    <3> QED
      BY <1>1, <3>1, ZenonT(40) DEF FullOK, Busy
  <2> QED
    BY <2>1, <2>2
<1> QED
  BY <1>1, <1>10, <1>11, ZenonT(40) DEF FullInv, Below, Busy

(* The counter says that the steps which were read are full, however old    *)
(* that number is: so many buckets are in use, and none after a free one.   *)
LEMMA FullCheck ==
  ASSUME GrowInv, WalkInv, FullInv, NEW p \in Proc, CheckFull(p), ~ O_TRUNC_FREE,
         UNCHANGED O_TRUNC_FREE, \A q \in Proc \ {p} : me'[q] = me[q]
  PROVE  FullInv'
<1> DEFINE n == DATA_BUCKETS_STEP * me[p].steps_read
<1>1. /\ me[p].pc = "full" /\ me'[p].pc \in {"create", "traverse"}
      /\ me'[p].pc = "create" => me'[p].steps_read = me[p].steps_read /\ dbuckets_in_use = n
  BY GotoFacts DEF CheckFull, Points, GrowInv
<1>2. UNCHANGED <<in_use, bucket_lock, got, dbuckets_in_use>>
  BY DEF CheckFull, glob
<1>3. CASE me'[p].pc = "traverse"
  BY <1>2, <1>3, FullQuiet, ZenonT(40)
<1>4. CASE me'[p].pc = "create"
  <2>1. n \in Nat /\ Buckets(me[p].steps_read) = 0 .. n - 1
        /\ Buckets(me[p].steps_read) \subseteq AllBuckets
    <3>1. me[p].steps_read \in 0 .. MAX_DATA_BUCKETS_STEPS
      BY ZenonT(40) DEF GrowInv, TypeOK
    <3> QED
      BY <3>1, StepsBelow, StepAssumption DEF Buckets
  <2>2. dbuckets_in_use = n /\ dbuckets_in_use = Cardinality(Counted)
    BY <1>1, <1>4, ZenonT(40) DEF FullInv
  <2> HIDE DEF n
  <2>3. ASSUME NEW b \in 0 .. n - 1, ~ Busy(b)
        PROVE  FALSE
    <3>1. b \in AllBuckets
      BY ONLY <2>1, ZenonT(40)
    <3>2. \A c \in Counted : c \in AllBuckets /\ in_use[c]
      BY ZenonT(40) DEF Counted, WalkInv, GotOK
    <3>3. \A c \in Counted : c < b
      <4>1. \A c \in Counted : ~ (b < c) /\ b # c
        BY <2>3, <3>1, <3>2, ZenonT(40) DEF FullInv, Below, Busy
      <4> QED
        BY <3>1, <3>2, <4>1 DEF AllBuckets, Buckets
    <3>4. Counted \subseteq 0 .. b - 1
      BY <3>2, <3>3, <2>3 DEF AllBuckets, Buckets
    <3>5. b \in Nat /\ IsFiniteSet(0 .. b - 1) /\ Cardinality(0 .. b - 1) = b
      <4>1. b \in Nat /\ 0 \in Int /\ b - 1 \in Int
        BY <2>1, <2>3
      <4>2. /\ IsFiniteSet(0 .. b - 1)
            /\ Cardinality(0 .. b - 1) = IF 0 > b - 1 THEN 0 ELSE b - 1 - 0 + 1
        BY ONLY <4>1, FS_Interval
      <4> QED
        BY <4>1, <4>2
    <3>6. Cardinality(Counted) <= b
      BY <3>4, <3>5, FS_Subset, ZenonT(40)
    <3> QED
      BY <2>1, <2>2, <2>3, <3>5, <3>6
  <2>4. \A b \in Buckets(me[p].steps_read) : Busy(b)
    BY <2>1, <2>3
  <2> QED
    BY <1>1, <1>2, <1>4, <2>4, FullOthers, ZenonT(40)
<1> QED
  BY <1>1, <1>3, <1>4, ZenonT(40)

(* A walk that ends has seen all the buckets of the steps it knows in use  *)
(* or locked, and they still are.                                          *)
LEMMA FullWalk ==
  ASSUME GrowInv, WalkInv, FullInv, NEW p \in Proc, WalkEnd(p), ~ O_TRUNC_FREE,
         UNCHANGED O_TRUNC_FREE, \A q \in Proc \ {p} : me'[q] = me[q]
  PROVE  FullInv'
<1>1. /\ me[p].pc = "walk" /\ me'[p].pc \in {"create", "exited"}
      /\ me'[p].pc = "create" => me'[p].steps_read = me[p].steps_read
  BY GotoFacts DEF WalkEnd, Points, GrowInv
<1>2. UNCHANGED <<in_use, bucket_lock, got, dbuckets_in_use>>
  BY DEF WalkEnd, glob
<1>3. current_num_buckets(p) <= local_ix(p)
  <2>1. me[p].i \in Nat /\ me[p].j \in Nat /\ me[p].i = current_num_buckets(p)
    BY ZenonT(40) DEF GrowInv, LocalState, WalkEnd
  <2> QED
    BY <2>1 DEF local_ix
<1>4. \A b \in Buckets(me[p].steps_read) : Busy(b)
  <2>1. WalkOK(p)
    BY ZenonT(40) DEF WalkInv
  <2>2. Buckets(me[p].steps_read) = 0 .. current_num_buckets(p) - 1
    BY ZenonT(40) DEF Buckets, current_num_buckets
  <2>3. /\ current_num_buckets(p) \in Nat /\ local_ix(p) \in Nat
        /\ \A b \in Nat : b < current_num_buckets(p) => b \in AllBuckets
    BY <1>1, WalkRange
  <2> QED
    BY ONLY <1>1, <1>3, <2>1, <2>2, <2>3, SMTT(20) DEF WalkOK
<1> QED
  BY <1>1, <1>2, <1>4, FullQuiet, FullOthers, ZenonT(40)

(* Every step keeps FullInv. *)
LEMMA FullStep ==
  ASSUME GrowInv, WalkInv, FullInv, NEW p \in Proc, Call(p) \/ Step(p) \/ Truncate(p),
         UNCHANGED O_TRUNC_FREE
  PROVE  FullInv'
<1> SUFFICES ASSUME ~ O_TRUNC_FREE
             PROVE  FullInv'
  BY DEF FullInv
<1>a. me \in [Proc -> LocalState] /\ me[p] \in LocalState
  BY DEF GrowInv
<1>b. \A q \in Proc \ {p} : me'[q] = me[q]
  BY GrowOwn, ZenonT(40) DEF Frame
<1>1. CASE Call(p) \/ IndexInRange(p) \/ IndexLock(p) \/ IndexWrap(p)
  <2>0. {"exited", "index", "steps", "wrap"} \subseteq Points
    BY DEF Points
  <2>1. me'[p].pc \in {"exited", "index", "steps", "wrap"}
    BY <1>1, <1>a, <2>0, GotoFacts, ZenonT(120) DEF Call, IndexInRange, IndexLock, IndexWrap
  <2>2. UNCHANGED <<in_use, bucket_lock, got, dbuckets_in_use>>
    BY <1>1, ZenonT(40) DEF Call, IndexInRange, IndexLock, IndexWrap, glob
  <2> QED
    BY <1>b, <2>1, <2>2, FullQuiet, ZenonT(40)
<1>2. CASE ReadSteps(p) \/ Traverse(p) \/ TraverseBound(p)
  <2>1. me'[p].pc \in {"full", "bound", "walk"}
    BY <1>2, <1>a DEF ReadSteps, Traverse, TraverseBound, LocalState
  <2>2. UNCHANGED <<in_use, bucket_lock, got, dbuckets_in_use>>
    BY <1>2, ZenonT(40) DEF ReadSteps, Traverse, TraverseBound, glob
  <2> QED
    BY <1>b, <2>1, <2>2, FullQuiet, ZenonT(40)
<1>3. CASE CreateMax(p) \/ CreateLate(p) \/ ShmExists(p) \/ Grow(p) \/ Unlock(p) \/ WaitEnds(p)
  <2>0. "exited" \in Points /\ "traverse" \in Points /\ "unlock" \in Points
    BY DEF Points
  <2>1. me'[p].pc \in {"exited", "traverse", "unlock"}
    BY <1>3, <1>a, <2>0, GotoFacts, ZenonT(120)
       DEF CreateMax, CreateLate, ShmExists, Grow, Unlock, WaitEnds
  <2>2. UNCHANGED <<in_use, bucket_lock, got, dbuckets_in_use>>
    BY <1>3, ZenonT(40) DEF CreateMax, CreateLate, ShmExists, Grow, Unlock, WaitEnds, glob
  <2> QED
    BY <1>b, <2>1, <2>2, FullQuiet, ZenonT(40)
<1>4. CASE CreateNeeded(p) \/ TryBusy(p) \/ TryLock(p) \/ ShmCreate(p)
  <2>0. "try" \in Points /\ "wait" \in Points /\ "shm" \in Points /\ "grow" \in Points
    BY DEF Points
  <2>1. me[p].pc \in {"create", "try", "shm"} /\ me'[p].steps_read = me[p].steps_read
    BY <1>4, <1>a, <2>0, GotoFacts, ZenonT(40) DEF CreateNeeded, TryBusy, TryLock, ShmCreate
  <2>2. UNCHANGED <<in_use, bucket_lock, got, dbuckets_in_use>>
    BY <1>4 DEF CreateNeeded, TryBusy, TryLock, ShmCreate, glob
  <2> QED
    BY <1>b, <2>1, <2>2, FullQuiet, ZenonT(40)
<1>5. CASE CheckFull(p)
  BY <1>b, <1>5, FullCheck
<1>6. CASE WalkEnd(p)
  BY <1>b, <1>6, FullWalk, ZenonT(40)
<1>7. CASE LookInUse(p) \/ LookFree(p) \/ BucketBusy(p) \/ CheckFree(p)
  <2>0. "trybucket" \in Points /\ "claim" \in Points
    BY DEF Points, AtBucket
  <2>1. me'[p].pc \in {"walk", "trybucket", "claim"}
    BY <1>7, <1>a, <2>0, GotoFacts, NextFacts, ZenonT(120)
       DEF LookInUse, LookFree, BucketBusy, CheckFree
  <2>2. UNCHANGED <<in_use, bucket_lock, got, dbuckets_in_use>>
    BY <1>7, ZenonT(40) DEF LookInUse, LookFree, BucketBusy, CheckFree, glob
  <2> QED
    BY <1>b, <2>1, <2>2, FullQuiet, ZenonT(40)
<1>8. CASE BucketLock(p)
  BY <1>b, <1>8, FullLock
<1>9. CASE CheckInUse(p) \/ UnlockBucket(p)
  BY <1>b, <1>9, FullUnlock
<1>10. CASE Claim(p)
  BY <1>b, <1>10, FullClaim
<1>11. CASE Count(p)
  BY <1>b, <1>11, FullCount
<1>12. CASE ReleaseClear(p) \/ ReleaseCount(p)
  <2>1. me[p].pc \in {"clear", "uncount"}
    BY <1>12, ZenonT(40) DEF ReleaseClear, ReleaseCount, Goto
  <2> QED
    BY <2>1, ZenonT(40) DEF WalkInv, WalkOK
<1>13. CASE Truncate(p)
  BY <1>13 DEF Truncate
<1> QED
  BY <1>1, <1>2, <1>3, <1>4, <1>5, <1>6, <1>7, <1>8, <1>9, <1>10, <1>11, <1>12, <1>13,
     ZenonT(40) DEF Step

(* Only the creator of the next step adds to dbucket_steps. *)
LEMMA GrowsBy ==
  ASSUME GrowInv, Next, dbucket_steps' # dbucket_steps
  PROVE  \E p \in Proc : me[p].pc = "grow" /\ me[p].steps_read = dbucket_steps
<1>1. PICK p \in Proc : Call(p) \/ Step(p) \/ Truncate(p)
  BY ZenonT(40) DEF Next
<1>2. Grow(p)
  BY <1>1, ZenonT(40) DEF Step, Call, IndexInRange, IndexLock, IndexWrap, ReadSteps, CheckFull,
     Traverse, TraverseBound, WalkEnd, LookInUse, LookFree, BucketBusy, BucketLock, CheckInUse,
     CheckFree, Claim, UnlockBucket, Count, ReleaseClear, ReleaseCount, Truncate, ReleaseExit,
     ReleaseFree, ReleaseTest, CreateMax, CreateLate, CreateNeeded, TryBusy, TryLock,
     ShmExists, ShmCreate, Unlock, WaitEnds, glob
<1> QED
  BY <1>2 DEF Grow, Goto, GrowInv, StepsOK

(* In the builds that release nothing, try_create_step adds a step only    *)
(* when all buckets of the steps before it are in use or locked, although  *)
(* it acts on a counter and on a number of steps that may both be old.     *)
THEOREM GrowsOnlyWhenFull == Spec => GrowsWhenFull
<1>1. Init => FullInv
  <2> SUFFICES ASSUME Init PROVE FullInv
    OBVIOUS
  <2>1. Counted = {} /\ dbuckets_in_use = 0 /\ \A p \in Proc : me[p].pc = "idle"
    BY DEF Init, InitGlob, Idle, Counted
  <2>2. \A b \in AllBuckets : ~ Busy(b)
    BY ZenonT(40) DEF Init, InitGlob, AllBuckets, Busy
  <2> QED
    BY <2>1, <2>2, FS_EmptySet DEF FullInv, FullOK
<1>2. GrowInv /\ WalkInv /\ FullInv /\ [Next]_vars => FullInv'
  <2> SUFFICES ASSUME GrowInv, WalkInv, FullInv, [Next]_vars PROVE FullInv'
    BY ZenonT(40)
  <2>1. CASE UNCHANGED vars
    <3>1. /\ Counted' = Counted
          /\ UNCHANGED <<me, in_use, bucket_lock, dbuckets_in_use, O_TRUNC_FREE>>
      BY <2>1 DEF vars, glob, Counted
    <3> QED
      BY <3>1, ZenonT(40) DEF FullInv, FullOK, Below, Busy
  <2>2. CASE Next
    BY <2>2, FullStep, ZenonT(40) DEF Next
  <2> QED
    BY <2>1, <2>2
<1>3. GrowInv /\ FullInv /\ [Next]_vars =>
        [~ O_TRUNC_FREE /\ dbucket_steps' # dbucket_steps =>
           \A b \in Buckets(dbucket_steps) : Busy(b)]_vars
  BY GrowsBy, ZenonT(40) DEF FullInv, FullOK
<1> QED
  BY <1>1, <1>2, <1>3, WalkInvariance, PTL DEF Spec, GrowsWhenFull
=============================================================================
