------------------------------- MODULE RWLock -------------------------------
(***************************************************************************)
(* One urw_lock of system/util/rwlock.c: the read-write spin lock that     *)
(* guards a row of the metadata hash table.  It lives in shared memory and *)
(* is used by every process that runs over libufs.so.                      *)
(*                                                                         *)
(* Each step of the model is one access to the shared words num_readers,   *)
(* num_writers and real_lock; a process is otherwise free to be preempted  *)
(* anywhere.  The program is built without optimisation, so each turn of a *)
(* busy-wait loop really reads the word it waits on.                       *)
(***************************************************************************)
EXTENDS Naturals, FiniteSets

CONSTANTS
  Proc,    \* the processes that share the lock
  NoProc   \* real_lock when no process holds it

ASSUME ProcAssumption == IsFiniteSet(Proc) /\ NoProc \notin Proc

VARIABLES
  num_readers,  \* urw_lock.num_readers
  num_writers,  \* urw_lock.num_writers
  real_lock,    \* the holder of urw_lock.real_lock, or NoProc
  pc            \* where each process is in lock_rw and unlock_rw

vars == <<num_readers, num_writers, real_lock, pc>>

(***************************************************************************)
(* Control points.                                                         *)
(*   w_wait : num_writers incremented, spinning on num_readers             *)
(*   w_spin : saw no reader, inside pthread_spin_lock                      *)
(*   w_cs   : returned from lock_rw(l, 2)                                  *)
(*   w_out  : num_writers decremented, about to pthread_spin_unlock        *)
(*   r_wait : spinning on num_writers                                      *)
(*   r_add  : saw no writer, about to increment num_readers                *)
(*   r_cs   : returned from lock_rw(l, 1)                                  *)
(***************************************************************************)
Registered == {"w_wait", "w_spin", "w_cs"}
Admitted   == {"r_add", "r_cs"}
Control    == {"idle", "w_out", "r_wait"} \cup Registered \cup Admitted

At(S) == {p \in Proc : pc[p] \in S}

Init ==
  /\ num_readers = 0
  /\ num_writers = 0
  /\ real_lock = NoProc
  /\ pc = [p \in Proc |-> "idle"]

Goto(p, from, to) ==
  /\ pc[p] = from
  /\ pc' = [pc EXCEPT ![p] = to]

-----------------------------------------------------------------------------
(* lock_rw(l, 2)                                                           *)

\* __sync_fetch_and_add(&l->num_writers, 1)
WriterRegister(p) ==
  /\ Goto(p, "idle", "w_wait")
  /\ num_writers' = num_writers + 1
  /\ UNCHANGED <<num_readers, real_lock>>

\* while (l->num_readers);
WriterSeesNoReader(p) ==
  /\ Goto(p, "w_wait", "w_spin")
  /\ num_readers = 0
  /\ UNCHANGED <<num_readers, num_writers, real_lock>>

\* Mutant: real_lock is set without waiting for its holder.
MutWriterLock(p) ==
  /\ Goto(p, "w_spin", "w_cs")
  /\ real_lock' = p
  /\ UNCHANGED <<num_readers, num_writers>>

\* pthread_spin_lock(&l->real_lock)
WriterLock(p) ==
  /\ Goto(p, "w_spin", "w_cs")
  /\ real_lock = NoProc
  /\ real_lock' = p
  /\ UNCHANGED <<num_readers, num_writers>>

(* unlock_rw(l, 2)                                                         *)

\* Mutant: the two counters are swapped in unlock_rw.
MutWriterDeregister(p) ==
  /\ Goto(p, "w_cs", "w_out")
  /\ num_readers' = num_readers - 1
  /\ UNCHANGED <<num_writers, real_lock>>

\* __sync_fetch_and_add(&l->num_writers, -1)
WriterDeregister(p) ==
  /\ Goto(p, "w_cs", "w_out")
  /\ num_writers' = num_writers - 1
  /\ UNCHANGED <<num_readers, real_lock>>

\* pthread_spin_unlock(&l->real_lock)
WriterUnlock(p) ==
  /\ Goto(p, "w_out", "idle")
  /\ real_lock' = NoProc
  /\ UNCHANGED <<num_readers, num_writers>>

(* lock_rw(l, 1)                                                           *)

ReaderCall(p) ==
  /\ Goto(p, "idle", "r_wait")
  /\ UNCHANGED <<num_readers, num_writers, real_lock>>

\* Mutant: the reader does not wait for the registered writers.
MutReaderSeesNoWriter(p) ==
  /\ Goto(p, "r_wait", "r_add")
  /\ UNCHANGED <<num_readers, num_writers, real_lock>>

\* while (l->num_writers);
ReaderSeesNoWriter(p) ==
  /\ Goto(p, "r_wait", "r_add")
  /\ num_writers = 0
  /\ UNCHANGED <<num_readers, num_writers, real_lock>>

\* __sync_fetch_and_add(&l->num_readers, 1)
ReaderRegister(p) ==
  /\ Goto(p, "r_add", "r_cs")
  /\ num_readers' = num_readers + 1
  /\ UNCHANGED <<num_writers, real_lock>>

(* unlock_rw(l, 1)                                                         *)

\* Mutant: the reader leaves without giving its count back.
MutReaderDeregister(p) ==
  /\ Goto(p, "r_cs", "idle")
  /\ UNCHANGED <<num_readers, num_writers, real_lock>>

\* __sync_fetch_and_add(&l->num_readers, -1)
ReaderDeregister(p) ==
  /\ Goto(p, "r_cs", "idle")
  /\ num_readers' = num_readers - 1
  /\ UNCHANGED <<num_writers, real_lock>>

-----------------------------------------------------------------------------
\* The steps a process takes inside lock_rw, inside unlock_rw, and to leave
\* its critical section.
Step(p) ==
  \/ WriterSeesNoReader(p)
  \/ WriterLock(p)
  \/ WriterDeregister(p)
  \/ WriterUnlock(p)
  \/ ReaderSeesNoWriter(p)
  \/ ReaderRegister(p)
  \/ ReaderDeregister(p)

Next == \E p \in Proc : WriterRegister(p) \/ ReaderCall(p) \/ Step(p)

Spec == Init /\ [][Next]_vars

(* A process that is inside the lock code, or holds the lock around a      *)
(* list traversal, is scheduled again and again.  Nothing makes a process  *)
(* ask for the lock, and pthread_spin_lock promises no order among its     *)
(* waiters, so only weak fairness of Step is assumed.                      *)
FairSpec == Spec /\ \A p \in Proc : WF_vars(Step(p))

-----------------------------------------------------------------------------
(* The counters never go below zero: every unlock_rw gives back what the   *)
(* lock_rw before it took.                                                 *)
TypeOK ==
  /\ num_readers \in Nat
  /\ num_writers \in Nat
  /\ real_lock \in Proc \cup {NoProc}
  /\ pc \in [Proc -> Control]

(* Two processes are never between the return of lock_rw(l, 2) and the     *)
(* pthread_spin_unlock of unlock_rw(l, 2) at once: writers exclude each    *)
(* other, although unlock_rw gives num_writers back before real_lock.      *)
WriterExclusion ==
  \A p, q \in At({"w_cs", "w_out"}) : p = q

(* num_readers counts the readers inside and num_writers the writers that  *)
(* wait or are inside, so neither word drifts over any history of calls    *)
(* and a row whose users have all left is never found locked.              *)
CountersExact ==
  /\ num_readers = Cardinality(At({"r_cs"}))
  /\ num_writers = Cardinality(At(Registered))

(* "read-write lock with write priority" (rwlock.h:19): while one and the  *)
(* same writer stays registered, no reader is admitted that was not        *)
(* already past its test of num_writers.                                   *)
WriterPriority ==
  [][(\E w \in Proc : pc[w] \in Registered /\ pc'[w] \in Registered)
       => At(Admitted)' \subseteq At(Admitted)]_vars

(* A registered writer is never kept out for ever by readers: from any     *)
(* state with a waiting writer, some writer gets in.                       *)
WriterGetsIn ==
  At({"w_wait", "w_spin"}) # {} ~> At({"w_cs"}) # {}

(* What a read-write lock is for: no reader is inside while a writer is.   *)
(* lock_rw does not provide it: the reader's test of num_writers and its   *)
(* increment of num_readers are two steps.                                 *)
ReaderWriterExclusion ==
  At({"w_cs"}) = {} \/ At({"r_cs"}) = {}
=============================================================================
