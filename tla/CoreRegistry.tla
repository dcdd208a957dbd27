---------------------------- MODULE CoreRegistry ----------------------------
(***************************************************************************)
(* get_set_core_index of system/util/data_shm.c: the per-core allocation   *)
(* methods give each CPU core an entry of the shared array cmem, claimed   *)
(* by the first process that allocates while it runs on that core.  A      *)
(* process may migrate between two calls, and may be killed anywhere.      *)
(***************************************************************************)
EXTENDS Integers, FiniteSets

CONSTANTS
  Proc, NoProc,
  ncores,  \* sys_glob_p->ncores, the entries of cmem
  Cpu      \* what sched_getcpu may return

NoCpu == -1
Entry == 0 .. ncores - 1

ASSUME CoreAssumption ==
  /\ NoProc \notin Proc
  /\ ncores \in Nat
  /\ Cpu \subseteq Nat /\ Cardinality(Cpu) = ncores

VARIABLES
  cmem,  \* in_use, core_n and lock of each entry
  me     \* control point, cnum, i, last_core_num and last_core_ix

vars == <<cmem, me>>

Init ==
  /\ cmem = [e \in Entry |-> [in_use |-> FALSE, core_n |-> NoCpu, lock |-> NoProc]]
  /\ me = [p \in Proc |-> [pc |-> "idle", cnum |-> NoCpu, i |-> 0,
                           last_core_num |-> NoCpu, last_core_ix |-> NoCpu]]

At(p, l) == me[p].pc = l
Goto(p, l) == me' = [me EXCEPT ![p].pc = l]
Here(p) == cmem[me[p].i]
SetHere(p, e) == cmem' = [cmem EXCEPT ![me[p].i] = e]

NextEntry(p) == me' = [me EXCEPT ![p].pc = "scan", ![p].i = @ + 1]

\* Mutant: the loop variable is cached after its increment.
MutReturn(p) ==
  me' = [me EXCEPT ![p] = [@ EXCEPT !.pc = "idle", !.cnum = NoCpu, !.i = 0,
                                    !.last_core_num = me[p].cnum,
                                    !.last_core_ix = me[p].i + 1]]

\* The result is cached for the next call on the same core.
Return(p) ==
  me' = [me EXCEPT ![p] = [@ EXCEPT !.pc = "idle", !.cnum = NoCpu, !.i = 0,
                                    !.last_core_num = me[p].cnum,
                                    !.last_core_ix = me[p].i]]

-----------------------------------------------------------------------------
\* A call on the core of the last call returns the cached index at once.
Call(p) ==
  /\ At(p, "idle")
  /\ \E c \in Cpu \ {me[p].last_core_num} :
       me' = [me EXCEPT ![p].pc = "scan", ![p].cnum = c, ![p].i = 0]
  /\ UNCHANGED cmem

SeeMine(p) ==
  /\ At(p, "scan") /\ me[p].i < ncores
  /\ Here(p).in_use /\ Here(p).core_n = me[p].cnum
  /\ Return(p)
  /\ UNCHANGED cmem

SeeOther(p) ==
  /\ At(p, "scan") /\ me[p].i < ncores
  /\ Here(p).in_use /\ Here(p).core_n # me[p].cnum
  /\ NextEntry(p)
  /\ UNCHANGED cmem

SeeFree(p) ==
  /\ At(p, "scan") /\ me[p].i < ncores
  /\ ~ Here(p).in_use
  /\ Goto(p, "try")
  /\ UNCHANGED cmem

\* UEHANDLE("... core mismatch ...") exits the process.
Mismatch(p) ==
  /\ At(p, "scan") /\ me[p].i = ncores
  /\ Goto(p, "exited")
  /\ UNCHANGED cmem

TryBusy(p) ==
  /\ At(p, "try") /\ Here(p).lock # NoProc
  /\ NextEntry(p)
  /\ UNCHANGED cmem

TryLock(p) ==
  /\ At(p, "try") /\ Here(p).lock = NoProc
  /\ SetHere(p, [Here(p) EXCEPT !.lock = p])
  /\ Goto(p, "check")

CheckInUse(p) ==
  /\ At(p, "check") /\ Here(p).in_use
  /\ SetHere(p, [Here(p) EXCEPT !.lock = NoProc])
  /\ NextEntry(p)

\* Mutant: in_use is not tested again under the lock.
MutCheckFree(p) ==
  /\ At(p, "check")
  /\ SetHere(p, [Here(p) EXCEPT !.in_use = TRUE])
  /\ Goto(p, "name")

CheckFree(p) ==
  /\ At(p, "check") /\ ~ Here(p).in_use
  /\ SetHere(p, [Here(p) EXCEPT !.in_use = TRUE])
  /\ Goto(p, "name")

\* cmem[i].core_n is set after cmem[i].in_use.
SetCoreN(p) ==
  /\ At(p, "name")
  /\ SetHere(p, [Here(p) EXCEPT !.core_n = me[p].cnum])
  /\ Goto(p, "unlock")

Unlock(p) ==
  /\ At(p, "unlock")
  /\ SetHere(p, [Here(p) EXCEPT !.lock = NoProc])
  /\ Return(p)

Kill(p) ==
  /\ me[p].pc # "exited"
  /\ Goto(p, "exited")
  /\ UNCHANGED cmem

Step(p) ==
  \/ SeeMine(p) \/ SeeOther(p) \/ SeeFree(p) \/ Mismatch(p) \/ TryBusy(p)
  \/ TryLock(p) \/ CheckInUse(p) \/ CheckFree(p) \/ SetCoreN(p) \/ Unlock(p)

Next == \E p \in Proc : Call(p) \/ Step(p) \/ Kill(p)

Spec == Init /\ [][Next]_vars

-----------------------------------------------------------------------------
EntryState == [in_use : BOOLEAN, core_n : Cpu \cup {NoCpu}, lock : Proc \cup {NoProc}]

ProcState == [pc : {"idle", "scan", "try", "check", "name", "unlock", "exited"},
              cnum : Cpu \cup {NoCpu}, i : 0 .. ncores,
              last_core_num : Cpu \cup {NoCpu}, last_core_ix : Entry \cup {NoCpu}]

(* The index a process caches, and so the slice it allocates from, is one  *)
(* of the ncores entries that cmem has.                                    *)
TypeOK == cmem \in [Entry -> EntryState] /\ me \in [Proc -> ProcState]

(* The cached pair last_core_num, last_core_ix never goes stale: the entry *)
(* still belongs to that core however many processes registered since, so  *)
(* a process allocates from the slice of the core it runs on.              *)
CachedEntryMine ==
  \A p \in Proc : me[p].last_core_num # NoCpu =>
    cmem[me[p].last_core_ix].core_n = me[p].last_core_num
=============================================================================
