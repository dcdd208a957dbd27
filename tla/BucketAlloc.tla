---------------------------- MODULE BucketAlloc -----------------------------
(***************************************************************************)
(* Allocation of data buckets in system/util/data_shm.c by the four        *)
(* methods for which the daemon maps all steps at start-up:                *)
(*   all_random, all_rough_ind, all_per_core_random, all_per_core_rough_ind*)
(* A method differs from the others in the window of buckets it searches   *)
(* and in how it computes the i-th position; the lock protocol on each     *)
(* bucket is the same.  A step of the model is one access to a word of     *)
(* shared memory; only the second test of in_use, made under the bucket's  *)
(* lock, is one step with what follows it, the unlock or the store of the  *)
(* rough index.  A process may be killed anywhere and leave a bucket       *)
(* locked.                                                                 *)
(***************************************************************************)
EXTENDS Integers, FiniteSets

CONSTANTS
  Proc, NoProc,
  Tot,           \* DATA_BUCKETS_STEP * TOTAL_STEPS_ALLOWED
  NCores,        \* sys_glob_p->ncores
  Methods,       \* the builds considered (CPPFLAGS -DALLOC_ALL_...)
  AllowRelease,  \* the build defines O_TRUNC_FREE: open() releases buckets
  CounterMod     \* 2^32, the range of the unsigned dbuckets_in_use

Whole   == {"all_random", "all_rough_ind"}
PerCore == {"all_per_core_random", "all_per_core_rough_ind"}

ASSUME AllocAssumption ==
  /\ NoProc \notin Proc
  /\ NCores \in Nat \ {0}
  /\ Tot \in Nat /\ Tot >= NCores
  /\ Methods \subseteq Whole \cup PerCore
  /\ AllowRelease \in BOOLEAN
  /\ CounterMod \in Nat /\ CounterMod > Tot

Bucket == 0 .. Tot - 1
Core   == 0 .. NCores - 1   \* indices into cmem
Span   == Tot \div NCores   \* bkts_per_core

VARIABLES
  method,           \* alloc_method_ind, fixed when the daemon starts
  in_use, lock,     \* of each data_bucket
  dbuckets_in_use,  \* of sys_glob_p
  rough_index,      \* RI: dbucket_rough_index of sys_glob_p
  core_rough,       \* CRI: rough_ind of each cmem entry
  alive, pc,
  core_ix, dindex, i, ix,  \* locals of the allocation functions
  got               \* the buckets that the calls of each process returned

shared == <<in_use, lock, dbuckets_in_use, rough_index, core_rough>>
locals == <<core_ix, dindex, i, ix>>
vars   == <<method, shared, alive, pc, locals, got>>

(* walk: at the head of the loop; try: saw the bucket free; check: holds   *)
(* the bucket's lock; claim: saw it free again; claimed: has set in_use;   *)
(* advance: unlocked, CRI still to be set; overuse: the process has exited;*)
(* clear: release_dbucket saw in_use set; uncount: it has cleared in_use.  *)
Control == {"idle", "walk", "try", "check", "claim", "claimed", "advance",
            "overuse", "clear", "uncount"}

InitGlob ==
  /\ method \in Methods
  /\ dbuckets_in_use = 0
  /\ rough_index = 0
  /\ core_rough = [c \in Core |-> 0]

Init ==
  /\ InitGlob
  /\ in_use = [b \in Bucket |-> FALSE]
  /\ lock = [b \in Bucket |-> NoProc]
  /\ alive = [p \in Proc |-> TRUE]
  /\ pc = [p \in Proc |-> "idle"]
  /\ core_ix = [p \in Proc |-> 0]
  /\ dindex = [p \in Proc |-> 0]
  /\ i = [p \in Proc |-> 0]
  /\ ix = [p \in Proc |-> 0]
  /\ got = [p \in Proc |-> {}]

Goto(p, from, to) ==
  /\ alive[p]
  /\ pc[p] = from
  /\ pc' = [pc EXCEPT ![p] = to]
  /\ UNCHANGED <<method, alive>>

-----------------------------------------------------------------------------
(* The four methods: what a call does before its loop, and the position    *)
(* its i-th iteration looks at.  rand() may start the walk anywhere, and   *)
(* get_set_core_index() may return any entry of cmem.                      *)

Bound == IF method \in Whole THEN Tot ELSE Span

StartWalk(p) ==
  /\ Goto(p, "idle", "walk")
  /\ i' = [i EXCEPT ![p] = 0]
  /\ UNCHANGED <<in_use, lock, dbuckets_in_use, ix, got>>

CallRandom(p) ==
  /\ method = "all_random"
  /\ dbuckets_in_use # Tot
  /\ StartWalk(p)
  /\ \E d \in Bucket : dindex' = [dindex EXCEPT ![p] = d]
  /\ UNCHANGED <<rough_index, core_rough, core_ix>>

\* bucket_ix_alloc_all_random trusts a counter that no ALLOC_ALL_ method
\* increments and release_dbucket decrements.
CallRandomFull(p) ==
  /\ method = "all_random"
  /\ dbuckets_in_use = Tot
  /\ Goto(p, "idle", "overuse")
  /\ UNCHANGED <<shared, locals, got>>

CallRough(p) ==
  /\ method = "all_rough_ind"
  /\ StartWalk(p)
  /\ rough_index' = rough_index % Tot
  /\ UNCHANGED <<core_rough, core_ix, dindex>>

CallCoreRandom(p) ==
  /\ method = "all_per_core_random"
  /\ StartWalk(p)
  /\ \E c \in Core : core_ix' = [core_ix EXCEPT ![p] = c]
  /\ \E d \in 0 .. Span - 1 : dindex' = [dindex EXCEPT ![p] = d]
  /\ UNCHANGED <<rough_index, core_rough>>

CallCoreRough(p) ==
  /\ method = "all_per_core_rough_ind"
  /\ StartWalk(p)
  /\ \E c \in Core :
       /\ core_ix' = [core_ix EXCEPT ![p] = c]
       /\ core_rough' = [core_rough EXCEPT ![c] = @ % Span]
  /\ UNCHANGED <<rough_index, dindex>>

\* A rough index is read afresh in every iteration.
Position(p) ==
  CASE method = "all_random"          -> (dindex[p] + i[p]) % Tot
    [] method = "all_rough_ind"       -> (rough_index + i[p]) % Tot
    [] method = "all_per_core_random" ->
         ((dindex[p] + i[p]) % Span) + Span * core_ix[p]
    [] OTHER ->
         ((core_rough[core_ix[p]] + i[p]) % Span) + Span * core_ix[p]

-----------------------------------------------------------------------------
(* The loop, common to the four methods.                                   *)

NextIteration(p) == i' = [i EXCEPT ![p] = @ + 1]

\* if (db->in_use) continue;
LookInUse(p) ==
  /\ Goto(p, "walk", "walk")
  /\ i[p] < Bound
  /\ in_use[Position(p)]
  /\ NextIteration(p)
  /\ UNCHANGED <<shared, core_ix, dindex, ix, got>>

LookFree(p) ==
  /\ Goto(p, "walk", "try")
  /\ i[p] < Bound
  /\ ~ in_use[Position(p)]
  /\ ix' = [ix EXCEPT ![p] = Position(p)]
  /\ UNCHANGED <<shared, core_ix, dindex, i, got>>

\* Mutant: the loop ends one position early.
MutOverUse(p) ==
  /\ Goto(p, "walk", "overuse")
  /\ i[p] = Bound - 1
  /\ UNCHANGED <<shared, locals, got>>

\* UEHANDLE("data bucket over-use") exits the process.
OverUse(p) ==
  /\ Goto(p, "walk", "overuse")
  /\ i[p] = Bound
  /\ UNCHANGED <<shared, locals, got>>

\* Mutant: pthread_spin_lock in place of pthread_spin_trylock.
MutTryBusy(p) ==
  /\ Goto(p, "try", "try")
  /\ lock[ix[p]] # NoProc
  /\ UNCHANGED <<shared, locals, got>>

\* pthread_spin_trylock(&db->lock) == EBUSY
TryBusy(p) ==
  /\ Goto(p, "try", "walk")
  /\ lock[ix[p]] # NoProc
  /\ NextIteration(p)
  /\ UNCHANGED <<shared, core_ix, dindex, ix, got>>

\* Mutant: the result of pthread_spin_trylock is not looked at.
MutTryLock(p) ==
  /\ Goto(p, "try", "check")
  /\ lock' = [lock EXCEPT ![ix[p]] = p]
  /\ UNCHANGED <<in_use, dbuckets_in_use, rough_index, core_rough, locals, got>>

TryLock(p) ==
  /\ Goto(p, "try", "check")
  /\ lock[ix[p]] = NoProc
  /\ lock' = [lock EXCEPT ![ix[p]] = p]
  /\ UNCHANGED <<in_use, dbuckets_in_use, rough_index, core_rough, locals, got>>

\* Lost the race for the bucket: unlock it and go on.
CheckInUse(p) ==
  /\ Goto(p, "check", "walk")
  /\ in_use[ix[p]]
  /\ lock' = [lock EXCEPT ![ix[p]] = NoProc]
  /\ NextIteration(p)
  /\ UNCHANGED <<in_use, dbuckets_in_use, rough_index, core_rough, core_ix,
                 dindex, ix, got>>

\* all_rough_ind sets RI before it sets in_use.
SetRoughIndex(p) ==
  rough_index' = IF method = "all_rough_ind" THEN ix[p] ELSE rough_index

\* Mutant: in_use is not tested again under the lock.
MutCheckFree(p) ==
  /\ Goto(p, "check", "claim")
  /\ SetRoughIndex(p)
  /\ UNCHANGED <<in_use, lock, dbuckets_in_use, core_rough, locals, got>>

CheckFree(p) ==
  /\ Goto(p, "check", "claim")
  /\ ~ in_use[ix[p]]
  /\ SetRoughIndex(p)
  /\ UNCHANGED <<in_use, lock, dbuckets_in_use, core_rough, locals, got>>

\* Mutant: in_use is not set.
MutClaim(p) ==
  /\ Goto(p, "claim", "claimed")
  /\ UNCHANGED <<shared, locals, got>>

Claim(p) ==
  /\ Goto(p, "claim", "claimed")
  /\ in_use' = [in_use EXCEPT ![ix[p]] = TRUE]
  /\ UNCHANGED <<lock, dbuckets_in_use, rough_index, core_rough, locals, got>>

\* The index is returned to the caller; the locals are dead.
Return(p) ==
  /\ got' = [got EXCEPT ![p] = @ \cup {ix[p]}]
  /\ core_ix' = [core_ix EXCEPT ![p] = 0]
  /\ dindex' = [dindex EXCEPT ![p] = 0]
  /\ i' = [i EXCEPT ![p] = 0]
  /\ ix' = [ix EXCEPT ![p] = 0]

Unlock(p) ==
  /\ method # "all_per_core_rough_ind"
  /\ Goto(p, "claimed", "idle")
  /\ lock' = [lock EXCEPT ![ix[p]] = NoProc]
  /\ Return(p)
  /\ UNCHANGED <<in_use, dbuckets_in_use, rough_index, core_rough>>

UnlockCoreRough(p) ==
  /\ method = "all_per_core_rough_ind"
  /\ Goto(p, "claimed", "advance")
  /\ lock' = [lock EXCEPT ![ix[p]] = NoProc]
  /\ UNCHANGED <<in_use, dbuckets_in_use, rough_index, core_rough, locals, got>>

\* Mutant: CRI is set to the logical index, not to the index in the slice.
MutAdvance(p) ==
  /\ Goto(p, "advance", "idle")
  /\ core_rough' = [core_rough EXCEPT ![core_ix[p]] = ix[p]]
  /\ Return(p)
  /\ UNCHANGED <<in_use, lock, dbuckets_in_use, rough_index>>

\* CRI = j - my_start, after the bucket is unlocked.
Advance(p) ==
  /\ Goto(p, "advance", "idle")
  /\ core_rough' = [core_rough EXCEPT ![core_ix[p]] = ix[p] - Span * core_ix[p]]
  /\ Return(p)
  /\ UNCHANGED <<in_use, lock, dbuckets_in_use, rough_index>>

-----------------------------------------------------------------------------
(* release_dbucket, which takes no lock.  Its caller, open() with O_TRUNC,  *)
(* follows the next_ix of a file that any process may have written and that *)
(* others may truncate at the same time; next_ix may also be left from an   *)
(* earlier file.  So b is any bucket that some call returned, whatever      *)
(* happened to it since.  If in_use is not set nothing changes (return -1). *)

ReleaseTest(p, b) ==
  /\ AllowRelease
  /\ Goto(p, "idle", "clear")
  /\ in_use[b]
  /\ ix' = [ix EXCEPT ![p] = b]
  /\ UNCHANGED <<shared, core_ix, dindex, i, got>>

ReleaseClear(p) ==
  /\ Goto(p, "clear", "uncount")
  /\ in_use' = [in_use EXCEPT ![ix[p]] = FALSE]
  /\ UNCHANGED <<lock, dbuckets_in_use, rough_index, core_rough, locals, got>>

ReleaseCount(p) ==
  /\ Goto(p, "uncount", "idle")
  /\ dbuckets_in_use' = (dbuckets_in_use - 1) % CounterMod
  /\ ix' = [ix EXCEPT ![p] = 0]
  /\ UNCHANGED <<in_use, lock, rough_index, core_rough, core_ix, dindex, i, got>>

\* The process is killed: its words of shared memory stay as they are.
Kill(p) ==
  /\ alive[p]
  /\ alive' = [alive EXCEPT ![p] = FALSE]
  /\ UNCHANGED <<method, shared, pc, locals, got>>

Step(p) ==
  \/ LookInUse(p) \/ LookFree(p) \/ OverUse(p)
  \/ TryBusy(p) \/ TryLock(p)
  \/ CheckInUse(p) \/ CheckFree(p)
  \/ Claim(p) \/ Unlock(p) \/ UnlockCoreRough(p) \/ Advance(p)
  \/ ReleaseClear(p) \/ ReleaseCount(p)

Call(p) ==
  \/ CallRandom(p) \/ CallRandomFull(p) \/ CallRough(p)
  \/ CallCoreRandom(p) \/ CallCoreRough(p)

Truncate(p) == \E q \in Proc : \E b \in got[q] : ReleaseTest(p, b)

Next == \E p \in Proc : Call(p) \/ Step(p) \/ Kill(p) \/ Truncate(p)

Spec == Init /\ [][Next]_vars

(* A live process inside one of the functions is eventually scheduled.     *)
FairSpec == Spec /\ \A p \in Proc : WF_vars(Step(p))

-----------------------------------------------------------------------------
(* Every index a method computes, from rand(), a rough index or a core's   *)
(* slice, stays inside the buckets and inside its slice.                   *)
TypeOK ==
  /\ method \in Methods
  /\ in_use \in [Bucket -> BOOLEAN]
  /\ lock \in [Bucket -> Proc \cup {NoProc}]
  /\ dbuckets_in_use \in 0 .. CounterMod - 1
  /\ rough_index \in Bucket
  /\ core_rough \in [Core -> 0 .. Span - 1]
  /\ alive \in [Proc -> BOOLEAN]
  /\ pc \in [Proc -> Control]
  /\ core_ix \in [Proc -> Core]
  /\ dindex \in [Proc -> Bucket]
  /\ i \in [Proc -> 0 .. Tot]
  /\ ix \in [Proc -> Bucket]
  /\ got \in [Proc -> SUBSET Bucket]

\* The bucket that a call of p has marked in use and not yet returned.
Claiming(p) == IF pc[p] \in {"claimed", "advance"} THEN {ix[p]} ELSE {}

\* All that the calls of p were given.
Holding(p) == got[p] \cup Claiming(p)

(* In a build that releases nothing, a bucket is handed out once, whatever *)
(* walks and kills happen: two calls, of two processes or of one, never    *)
(* return the same bucket, so that two files never share one.              *)
Exclusive ==
  ~ AllowRelease =>
    /\ \A p, q \in Proc : p # q => Holding(p) \cap Holding(q) = {}
    /\ \A p \in Proc : Claiming(p) \cap got[p] = {}

(* A bucket is marked in use only for a call that got it.  In a build that *)
(* releases nothing the mark also stays: no walk or kill clears it.        *)
InUseIffHeld ==
  \A b \in Bucket :
    LET held == \E p \in Proc : b \in Holding(p)
    IN (in_use[b] => held) /\ (~ AllowRelease => (held => in_use[b]))

taken == {b \in Bucket : in_use[b]}
given == [p \in Proc |-> Holding(p)]

Abs == INSTANCE Allocator WITH taken <- taken, given <- given

(* Seen from outside, a call marks one free bucket in use in one step and  *)
(* is given that bucket; only release_dbucket takes a mark away, in one    *)
(* step, and in a build without O_TRUNC_FREE nothing does.                 *)
ImplementsAllocator == Abs!Spec

\* The buckets a call by p may return.
Window(p) ==
  IF method \in Whole
    THEN Bucket
    ELSE Span * core_ix[p] .. Span * core_ix[p] + Span - 1

\* The methods whose walk has a fixed start: the others read a rough index
\* that other processes move meanwhile.
RandomStart == {"all_random", "all_per_core_random"}

(* "data bucket over-use" ends a process only when its window is exhausted:*)
(* every bucket in it is in use, or locked by a process that is about to   *)
(* use it, that is about to find it in use, or that was killed.            *)
(* Claimed of the methods that start at a random position, without         *)
(* releases (README.md: the walk goes on until it finds one).  A walk from *)
(* a rough index may pass over free buckets, data_shm.c 193 and 279.       *)
OverUseJustified ==
  ~ AllowRelease /\ method \in RandomStart =>
    \A p \in Proc : pc[p] = "overuse" =>
      \A b \in Window(p) : in_use[b] \/ lock[b] # NoProc

(* A call returns or reports over-use even if other processes were killed  *)
(* while they held the lock of a bucket: the walk never waits for a lock.  *)
CallEnds ==
  \A p \in Proc :
    []<>(pc[p] \notin {"walk", "try", "check", "claim", "claimed", "advance"} \/ ~ alive[p])
=============================================================================
