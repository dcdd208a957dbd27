----------------------------- MODULE StepAlloc ------------------------------
(***************************************************************************)
(* The allocation method ALLOC_STEPS of system/util/data_shm.c: the memory *)
(* for data buckets grows by steps, shm segments of DATA_BUCKETS_STEP      *)
(* buckets, which the processes create as they need them                   *)
(* (bucket_ix_alloc_steps, try_create_step, create_map_dbucket_step,       *)
(* get_dbucket_ptr).                                                       *)
(*                                                                         *)
(* A step of the model is one access to shared memory, or two where the    *)
(* second follows at once and is of another kind: get_dbucket_ptr and the  *)
(* test of in_use, the second test of in_use and the unlock or the store   *)
(* of the rough index, the test of the rough index and the trylock, the    *)
(* wrap of the rough index and the unlock.  No process is killed.          *)
(***************************************************************************)
EXTENDS Integers, FiniteSets

CONSTANTS
  Proc, NoProc,
  DATA_BUCKETS_STEP,
  MAX_DATA_BUCKETS_STEPS,
  Builds,        \* of BOOLEAN: the builds, with O_TRUNC_FREE or without
  Truncating,    \* the processes that run in a build with O_TRUNC_FREE
  CounterMod,    \* 2^32, the range of the unsigned dbuckets_in_use
  ReturnBound    \* no release once so many different indices were returned

ASSUME StepAssumption ==
  /\ NoProc \notin Proc
  /\ DATA_BUCKETS_STEP \in Nat \ {0}
  /\ MAX_DATA_BUCKETS_STEPS \in Nat \ {0}
  /\ Builds \in SUBSET BOOLEAN /\ Truncating \in SUBSET Proc
  /\ CounterMod \in Nat /\ CounterMod > DATA_BUCKETS_STEP * MAX_DATA_BUCKETS_STEPS
  /\ ReturnBound \in Nat

Tot == DATA_BUCKETS_STEP * MAX_DATA_BUCKETS_STEPS

VARIABLES
  O_TRUNC_FREE,  \* the build: open() with O_TRUNC releases data buckets
  dbucket_steps, dbucket_rough_index, dbuckets_in_use, lock,  \* sys_glob_p
  segments,  \* the shm segments that exist
  in_use,    \* of each bucket
  bucket_lock,  \* of each bucket: the process that holds db->lock
  mapped,    \* data_steps of each process: the segments it has mapped
  me,        \* control point and locals of each process
  got        \* for each process, index returned and bucket claimed

glob == <<dbucket_steps, dbucket_rough_index, dbuckets_in_use, lock>>
vars == <<O_TRUNC_FREE, glob, segments, in_use, bucket_lock, mapped, me, got>>

Idle == [pc |-> "idle", steps_read |-> 0, i |-> 0, j |-> 0]

Buckets(steps) == 0 .. DATA_BUCKETS_STEP * steps - 1

InitGlob ==
  /\ dbucket_steps = 1 /\ dbucket_rough_index = 0 /\ dbuckets_in_use = 0
  /\ lock = NoProc

\* The daemon creates the first step; every process maps it when it starts.
Init ==
  /\ O_TRUNC_FREE \in Builds
  /\ InitGlob
  /\ segments = {0}
  /\ in_use = [b \in Buckets(MAX_DATA_BUCKETS_STEPS) |-> FALSE]
  /\ bucket_lock = [b \in Buckets(MAX_DATA_BUCKETS_STEPS) |-> NoProc]
  /\ mapped = [p \in Proc |-> {0}]
  /\ me = [p \in Proc |-> Idle]
  /\ got = [p \in Proc |-> {}]

\* Locals that are no longer read go back to 0.
Goto(p, from, to) ==
  /\ me[p].pc = from
  /\ me' = [me EXCEPT ![p] =
       CASE to \in {"idle", "exited", "index", "wrap", "steps", "traverse", "unlock"} ->
              [Idle EXCEPT !.pc = to]
         [] to \in {"create", "try", "wait", "shm", "grow"} ->
              [Idle EXCEPT !.pc = to, !.steps_read = me[p].steps_read]
         [] OTHER -> [me[p] EXCEPT !.pc = to]]

-----------------------------------------------------------------------------
(* bucket_ix_alloc_steps, up to the traversal *)

Call(p) ==
  /\ O_TRUNC_FREE => p \in Truncating
  /\ Goto(p, "idle", IF dbuckets_in_use = Tot THEN "exited" ELSE "index")
  /\ UNCHANGED <<glob, segments, in_use, bucket_lock, mapped, got>>

IndexInRange(p) ==
  /\ Goto(p, "index", "steps")
  /\ dbucket_rough_index <= Tot \/ lock # NoProc
  /\ UNCHANGED <<glob, segments, in_use, bucket_lock, mapped, got>>

IndexLock(p) ==
  /\ Goto(p, "index", "wrap")
  /\ dbucket_rough_index > Tot /\ lock = NoProc
  /\ lock' = p
  /\ UNCHANGED <<dbucket_steps, dbucket_rough_index, dbuckets_in_use, segments,
                 in_use, bucket_lock, mapped, got>>

IndexWrap(p) ==
  /\ Goto(p, "wrap", "steps")
  /\ dbucket_rough_index' = dbucket_rough_index % Tot
  /\ lock' = NoProc
  /\ UNCHANGED <<dbucket_steps, dbuckets_in_use, segments, in_use, bucket_lock, mapped, got>>

ReadSteps(p) ==
  /\ me[p].pc = "steps"
  /\ me' = [me EXCEPT ![p].pc = "full", ![p].steps_read = dbucket_steps]
  /\ UNCHANGED <<glob, segments, in_use, bucket_lock, mapped, got>>

CheckFull(p) ==
  /\ Goto(p, "full", IF dbuckets_in_use = DATA_BUCKETS_STEP * me[p].steps_read
                     THEN "create" ELSE "traverse")
  /\ UNCHANGED <<glob, segments, in_use, bucket_lock, mapped, got>>

-----------------------------------------------------------------------------
(* traverse_current_buckets *)

Traverse(p) ==
  /\ me[p].pc = "traverse"
  /\ me' = [me EXCEPT ![p].pc = "bound", ![p].j = dbucket_rough_index]
  /\ UNCHANGED <<glob, segments, in_use, bucket_lock, mapped, got>>

TraverseBound(p) ==
  /\ me[p].pc = "bound"
  /\ me' = [me EXCEPT ![p].pc = "walk", ![p].i = 0, ![p].steps_read = dbucket_steps]
  /\ UNCHANGED <<glob, segments, in_use, bucket_lock, mapped, got>>

current_num_buckets(p) == DATA_BUCKETS_STEP * me[p].steps_read

local_ix(p) == me[p].i + me[p].j

Here(p) == local_ix(p) % current_num_buckets(p)

\* get_dbucket_ptr: maps every step there is when the one of b is not mapped
Maps(p, b) ==
  mapped' = [mapped EXCEPT ![p] =
    IF b \div DATA_BUCKETS_STEP \in @ THEN @ ELSE @ \cup (0 .. dbucket_steps - 1)]

NextIteration(p) == me' = [me EXCEPT ![p].pc = "walk", ![p].i = @ + 1]

\* if (db->in_use) continue;
LookInUse(p) ==
  /\ me[p].pc = "walk" /\ me[p].i < current_num_buckets(p)
  /\ in_use[Here(p)]
  /\ Maps(p, Here(p))
  /\ NextIteration(p)
  /\ UNCHANGED <<glob, segments, in_use, bucket_lock, got>>

LookFree(p) ==
  /\ me[p].i < current_num_buckets(p)
  /\ Goto(p, "walk", "trybucket")
  /\ ~ in_use[Here(p)]
  /\ Maps(p, Here(p))
  /\ UNCHANGED <<glob, segments, in_use, bucket_lock, got>>

\* pthread_spin_trylock(&db->lock) == EBUSY
BucketBusy(p) ==
  /\ me[p].pc = "trybucket"
  /\ bucket_lock[Here(p)] # NoProc
  /\ NextIteration(p)
  /\ UNCHANGED <<glob, segments, in_use, bucket_lock, mapped, got>>

BucketLock(p) ==
  /\ Goto(p, "trybucket", "check")
  /\ bucket_lock[Here(p)] = NoProc
  /\ bucket_lock' = [bucket_lock EXCEPT ![Here(p)] = p]
  /\ UNCHANGED <<glob, segments, in_use, mapped, got>>

\* Lost the race for the bucket: unlock it and go on.
CheckInUse(p) ==
  /\ me[p].pc = "check"
  /\ in_use[Here(p)]
  /\ bucket_lock' = [bucket_lock EXCEPT ![Here(p)] = NoProc]
  /\ NextIteration(p)
  /\ UNCHANGED <<glob, segments, in_use, mapped, got>>

\* Mutant: in_use is not tested again under the lock.
MutCheckFree(p) ==
  /\ Goto(p, "check", "claim")
  /\ dbucket_rough_index' = local_ix(p)
  /\ UNCHANGED <<dbucket_steps, dbuckets_in_use, lock, segments, in_use,
                 bucket_lock, mapped, got>>

\* The index kept and returned is local_ix, not the index of the bucket.
CheckFree(p) ==
  /\ Goto(p, "check", "claim")
  /\ ~ in_use[Here(p)]
  /\ dbucket_rough_index' = local_ix(p)
  /\ UNCHANGED <<dbucket_steps, dbuckets_in_use, lock, segments, in_use,
                 bucket_lock, mapped, got>>

Claim(p) ==
  /\ Goto(p, "claim", "claimed")
  /\ in_use' = [in_use EXCEPT ![Here(p)] = TRUE]
  /\ UNCHANGED <<glob, segments, bucket_lock, mapped, got>>

UnlockBucket(p) ==
  /\ Goto(p, "claimed", "count")
  /\ bucket_lock' = [bucket_lock EXCEPT ![Here(p)] = NoProc]
  /\ UNCHANGED <<glob, segments, in_use, mapped, got>>

\* Mutant: the walk stops one bucket early.
MutWalkEnd(p) ==
  /\ me[p].i >= current_num_buckets(p) - 1
  /\ Goto(p, "walk", IF current_num_buckets(p) = Tot THEN "exited" ELSE "create")
  /\ UNCHANGED <<glob, segments, in_use, bucket_lock, mapped, got>>

WalkEnd(p) ==
  /\ me[p].i = current_num_buckets(p)
  /\ Goto(p, "walk", IF current_num_buckets(p) = Tot THEN "exited" ELSE "create")
  /\ UNCHANGED <<glob, segments, in_use, bucket_lock, mapped, got>>

\* The counter follows in_use, after the bucket is unlocked.
Count(p) ==
  /\ me[p].pc = "count"
  /\ dbuckets_in_use' = (dbuckets_in_use + 1) % CounterMod
  /\ got' = [got EXCEPT ![p] = @ \cup {[ix |-> local_ix(p), bucket |-> Here(p)]}]
  /\ me' = [me EXCEPT ![p] = Idle]
  /\ UNCHANGED <<dbucket_steps, dbucket_rough_index, lock, segments, in_use, bucket_lock, mapped>>

-----------------------------------------------------------------------------
(* try_create_step and create_map_dbucket_step *)

\* UEHANDLE("max steps created")
CreateMax(p) ==
  /\ Goto(p, "create", "exited")
  /\ me[p].steps_read = MAX_DATA_BUCKETS_STEPS
  /\ UNCHANGED <<glob, segments, in_use, bucket_lock, mapped, got>>

\* open_map_datastep(steps_read): maps one step and no later one
MapStep(p) == mapped' = [mapped EXCEPT ![p] = @ \cup {me[p].steps_read}]

CreateLate(p) ==
  /\ Goto(p, "create", "traverse")
  /\ me[p].steps_read < MAX_DATA_BUCKETS_STEPS
  /\ dbucket_steps > me[p].steps_read
  /\ MapStep(p)
  /\ UNCHANGED <<glob, segments, in_use, bucket_lock, got>>

CreateNeeded(p) ==
  /\ Goto(p, "create", "try")
  /\ me[p].steps_read < MAX_DATA_BUCKETS_STEPS
  /\ dbucket_steps <= me[p].steps_read
  /\ UNCHANGED <<glob, segments, in_use, bucket_lock, mapped, got>>

TryBusy(p) ==
  /\ Goto(p, "try", "wait")
  /\ lock # NoProc
  /\ UNCHANGED <<glob, segments, in_use, bucket_lock, mapped, got>>

TryLock(p) ==
  /\ Goto(p, "try", "shm")
  /\ lock = NoProc
  /\ lock' = p
  /\ UNCHANGED <<dbucket_steps, dbucket_rough_index, dbuckets_in_use, segments,
                 in_use, bucket_lock, mapped, got>>

\* Mutant: shm_open without O_EXCL opens the step that exists.
MutShmExists(p) ==
  /\ Goto(p, "shm", "grow")
  /\ me[p].steps_read \in segments
  /\ UNCHANGED <<glob, segments, in_use, bucket_lock, mapped, got>>

\* shm_open with O_EXCL: it fails, and the process exits with the lock held,
\* when another process created the step between the test of dbucket_steps
\* and the lock
ShmExists(p) ==
  /\ Goto(p, "shm", "exited")
  /\ me[p].steps_read \in segments
  /\ UNCHANGED <<glob, segments, in_use, bucket_lock, mapped, got>>

ShmCreate(p) ==
  /\ Goto(p, "shm", "grow")
  /\ me[p].steps_read \notin segments
  /\ segments' = segments \cup {me[p].steps_read}
  /\ MapStep(p)
  /\ UNCHANGED <<glob, in_use, bucket_lock, got>>

\* Mutant: the new step is not counted.
MutGrow(p) ==
  /\ Goto(p, "grow", "unlock")
  /\ UNCHANGED <<glob, segments, in_use, bucket_lock, mapped, got>>

\* dbucket_steps++, once the buckets of the step are initialised
Grow(p) ==
  /\ Goto(p, "grow", "unlock")
  /\ dbucket_steps' = dbucket_steps + 1
  /\ UNCHANGED <<dbucket_rough_index, dbuckets_in_use, lock, segments, in_use,
                 bucket_lock, mapped, got>>

Unlock(p) ==
  /\ Goto(p, "unlock", "traverse")
  /\ lock' = NoProc
  /\ UNCHANGED <<dbucket_steps, dbucket_rough_index, dbuckets_in_use, segments,
                 in_use, bucket_lock, mapped, got>>

\* Mutant: the process does not wait for the step it maps.
MutWaitEnds(p) ==
  /\ Goto(p, "wait", "traverse")
  /\ MapStep(p)
  /\ UNCHANGED <<glob, segments, in_use, bucket_lock, got>>

\* while (dbucket_steps == steps_read) ;
WaitEnds(p) ==
  /\ Goto(p, "wait", "traverse")
  /\ dbucket_steps # me[p].steps_read
  /\ MapStep(p)
  /\ UNCHANGED <<glob, segments, in_use, bucket_lock, got>>

-----------------------------------------------------------------------------
(* release_dbucket(get_dbucket_ptr(ix)), in open() with O_TRUNC, for an      *)
(* index on the chain of a file.  Any process may have written the chain and *)
(* others may truncate the file at the same time, so ix is any index that    *)
(* some call returned, whatever happened to it since.                        *)

\* The process exits if ix is in a step that does not exist.
ReleaseExit(p, ix) ==
  /\ Goto(p, "idle", "exited")
  /\ ix \notin Buckets(dbucket_steps)
  /\ UNCHANGED <<glob, segments, in_use, bucket_lock, mapped, got>>

\* if (!db->in_use) return -1;
ReleaseFree(p, ix) ==
  /\ Goto(p, "idle", "idle")
  /\ ix \in Buckets(dbucket_steps) /\ ~ in_use[ix]
  /\ Maps(p, ix)
  /\ UNCHANGED <<glob, segments, in_use, bucket_lock, got>>

\* j holds the bucket to release.
ReleaseTest(p, ix) ==
  /\ me[p].pc = "idle"
  /\ ix \in Buckets(dbucket_steps) /\ in_use[ix]
  /\ Maps(p, ix)
  /\ me' = [me EXCEPT ![p] = [Idle EXCEPT !.pc = "clear", !.j = ix]]
  /\ UNCHANGED <<glob, segments, in_use, bucket_lock, got>>

ReleaseClear(p) ==
  /\ Goto(p, "clear", "uncount")
  /\ in_use' = [in_use EXCEPT ![me[p].j] = FALSE]
  /\ UNCHANGED <<glob, segments, bucket_lock, mapped, got>>

ReleaseCount(p) ==
  /\ Goto(p, "uncount", "idle")
  /\ dbuckets_in_use' = (dbuckets_in_use - 1) % CounterMod
  /\ UNCHANGED <<dbucket_steps, dbucket_rough_index, lock, segments, in_use,
                 bucket_lock, mapped, got>>

Truncate(p) ==
  /\ O_TRUNC_FREE /\ p \in Truncating
  /\ Cardinality(UNION {got[q] : q \in Proc}) < ReturnBound
  /\ \E q \in Proc : \E g \in got[q] :
       ReleaseExit(p, g.ix) \/ ReleaseFree(p, g.ix) \/ ReleaseTest(p, g.ix)

Step(p) ==
  \/ IndexInRange(p) \/ IndexLock(p) \/ IndexWrap(p) \/ ReadSteps(p) \/ CheckFull(p)
  \/ Traverse(p) \/ TraverseBound(p) \/ WalkEnd(p)
  \/ LookInUse(p) \/ LookFree(p) \/ BucketBusy(p) \/ BucketLock(p)
  \/ CheckInUse(p) \/ CheckFree(p) \/ Claim(p) \/ UnlockBucket(p) \/ Count(p)
  \/ ReleaseClear(p) \/ ReleaseCount(p)
  \/ CreateMax(p) \/ CreateLate(p) \/ CreateNeeded(p)
  \/ TryBusy(p) \/ TryLock(p) \/ ShmExists(p) \/ ShmCreate(p) \/ Grow(p)
  \/ Unlock(p) \/ WaitEnds(p)

Next ==
  /\ \E p \in Proc : Call(p) \/ Step(p) \/ Truncate(p)
  /\ UNCHANGED O_TRUNC_FREE

Spec == Init /\ [][Next]_vars

\* A process inside one of the functions keeps being scheduled.
FairSpec == Spec /\ \A p \in Proc : WF_vars(Step(p) /\ UNCHANGED O_TRUNC_FREE)

-----------------------------------------------------------------------------
\* No interleaving makes dbucket_steps run past the steps a process can map,
\* although it is tested before the lock that protects it is taken.
TypeOK ==
  /\ dbucket_steps \in 1 .. MAX_DATA_BUCKETS_STEPS
  /\ dbucket_rough_index \in Nat
  /\ dbuckets_in_use \in 0 .. CounterMod - 1
  /\ lock \in Proc \cup {NoProc}
  /\ segments \subseteq 0 .. MAX_DATA_BUCKETS_STEPS - 1
  /\ in_use \in [Buckets(MAX_DATA_BUCKETS_STEPS) -> BOOLEAN]
  /\ bucket_lock \in [Buckets(MAX_DATA_BUCKETS_STEPS) -> Proc \cup {NoProc}]
  /\ mapped \in [Proc -> SUBSET (0 .. MAX_DATA_BUCKETS_STEPS - 1)]
  /\ \A p \in Proc : me[p].steps_read \in 0 .. MAX_DATA_BUCKETS_STEPS

\* A process only maps segments that exist, and every step that dbucket_steps
\* counts exists: open_map_datastep, which exits when its shm_open fails, and
\* get_dbucket_ptr find what they look for, whoever created it.
MappedExist ==
  /\ 0 .. dbucket_steps - 1 \subseteq segments
  /\ \A p \in Proc : mapped[p] \subseteq segments

\* When no bucket is ever released, the index a call returns, local_ix without
\* the modulo, is the index of the bucket it claimed, and no other call
\* claimed that bucket: the walk wraps around only past buckets in use.
IndexIsBucket ==
  ~ O_TRUNC_FREE => \A p \in Proc : \A g \in got[p] :
    /\ g.ix = g.bucket
    /\ \A q \in Proc : \A h \in got[q] : g.bucket = h.bucket => p = q /\ g = h

\* A walk goes past bucket b.
Busy(b) == in_use[b] \/ bucket_lock[b] # NoProc

\* When no bucket is ever released, memory grows only as needed (README.md
\* 35-36): a step is added only when every bucket of the steps before it is in
\* use or locked by a call that looks at it, however old the counts that the
\* creator acted on.
GrowsWhenFull ==
  [][~ O_TRUNC_FREE /\ dbucket_steps' # dbucket_steps =>
       \A b \in Buckets(dbucket_steps) : Busy(b)]_vars

\* When no bucket is ever released, every call returns or exits, also when it
\* waits for a step that another process creates.
CallEnds ==
  \A p \in Proc :
    []<>(O_TRUNC_FREE \/ me[p].pc \in {"idle", "exited"})

(* Statements of the repository that the code does not keep *)

\* data_shm.c 565: "try_create_step should only return once a step has
\* actually be created", and the branches for a step created by another
\* process (573, 580, 593).  A process that needs a bucket exits only when
\* the last step is full: all its buckets are in use or locked.
ExitsWhenFull ==
  \A p \in Proc : me[p].pc = "exited" => \A b \in DOMAIN in_use : Busy(b)
=============================================================================
