------------------------ MODULE CoreRegistryProofs --------------------------
(***************************************************************************)
(* Proofs about CoreRegistry, for any number of processes and cores.       *)
(*                                                                         *)
(* CachedEntryMine needs that a named entry is never named again.  An      *)
(* entry is named by the process that marked it in_use, before it gives    *)
(* the lock back; the second test of in_use, under the lock, keeps the     *)
(* others out even if that process is killed and the lock with it.         *)
(***************************************************************************)
EXTENDS CoreRegistry, TLAPS

\* An entry that is not in use has no core yet.
FreeUnnamed == \A e \in Entry : ~ cmem[e].in_use => cmem[e].core_n = NoCpu

\* What p knows of the entry it is at.
LocalOK(p) ==
  /\ me[p].pc \in {"scan", "try", "check", "name", "unlock"} => me[p].cnum \in Cpu
  /\ me[p].pc \in {"try", "check", "name", "unlock"} => me[p].i \in Entry
  /\ me[p].pc \in {"check", "name", "unlock"} => Here(p).lock = p
  /\ At(p, "name") => Here(p).in_use /\ Here(p).core_n = NoCpu
  /\ At(p, "unlock") => Here(p).in_use /\ Here(p).core_n = me[p].cnum

CacheOK(p) ==
  me[p].last_core_num # NoCpu =>
    /\ me[p].last_core_ix \in Entry
    /\ cmem[me[p].last_core_ix].in_use
    /\ cmem[me[p].last_core_ix].core_n = me[p].last_core_num

IInv == TypeOK /\ FreeUnnamed /\ \A p \in Proc : LocalOK(p) /\ CacheOK(p)

(* What a step of p does to an entry: one in use stays in use, keeps its   *)
(* core, and its lock changes hands only between p and nobody.             *)
Frame(p) ==
  /\ \A q \in Proc \ {p} : me'[q] = me[q]
  /\ \A e \in Entry :
       /\ cmem[e].in_use => cmem'[e].in_use
       /\ cmem[e].in_use /\ cmem[e].core_n # NoCpu => cmem'[e].core_n = cmem[e].core_n
       /\ cmem[e].lock # NoProc /\ cmem[e].lock # p => cmem'[e] = cmem[e]

\* The mark of an entry without a core is no core.
LEMMA CpuFact == NoCpu \notin Cpu
  BY CoreAssumption DEF NoCpu

\* A step of p leaves what q knows of the entries true.
LEMMA OthersStep ==
  ASSUME IInv, NEW p \in Proc, NEW q \in Proc \ {p}, Frame(p)
  PROVE  (LocalOK(q) /\ CacheOK(q))'
<1>1. me'[q] = me[q] /\ LocalOK(q) /\ CacheOK(q) /\ q # NoProc
  BY CoreAssumption DEF Frame, IInv
<1>2. LocalOK(q)'
  BY <1>1 DEF LocalOK, Frame, Here, At
<1>3. CacheOK(q)'
  BY <1>1 DEF CacheOK, Frame
<1> QED
  BY <1>2, <1>3

\* Going to another point keeps the type of the locals.
LEMMA GotoType ==
  ASSUME NEW r \in ProcState,
         NEW l \in {"idle", "scan", "try", "check", "name", "unlock", "exited"}
  PROVE  [r EXCEPT !.pc = l] \in ProcState
  BY DEF ProcState

\* So does the call, which starts the scan at entry 0,
LEMMA CallType ==
  ASSUME NEW r \in ProcState, NEW c \in Cpu
  PROVE  [r EXCEPT !.pc = "scan", !.cnum = c, !.i = 0] \in ProcState
<1>1. 0 \in 0 .. ncores
  BY CoreAssumption
<1> QED
  BY <1>1, ZenonT(40) DEF ProcState

\* the next iteration of the scan,
LEMMA NextType ==
  ASSUME NEW r \in ProcState, r.i \in Entry
  PROVE  [r EXCEPT !.pc = "scan", !.i = @ + 1] \in ProcState
<1>1. r.i + 1 \in 0 .. ncores
  BY CoreAssumption DEF Entry
<1> QED
  BY <1>1, ZenonT(40) DEF ProcState

\* and the return, which fills the cache.
LEMMA ReturnType ==
  ASSUME NEW r \in ProcState, r.i \in Entry
  PROVE  [r EXCEPT !.pc = "idle", !.cnum = NoCpu, !.i = 0,
                   !.last_core_num = r.cnum, !.last_core_ix = r.i] \in ProcState
<1>1. 0 \in 0 .. ncores
  BY CoreAssumption
<1> QED
  BY <1>1, ZenonT(40) DEF ProcState

\* Each store to an entry keeps its type.
LEMMA EntryType ==
  ASSUME NEW e \in EntryState, NEW p \in Proc \cup {NoProc}, NEW c \in Cpu
  PROVE  /\ [e EXCEPT !.lock = p] \in EntryState
         /\ [e EXCEPT !.in_use = TRUE] \in EntryState
         /\ [e EXCEPT !.core_n = c] \in EntryState
  BY ZenonT(40) DEF EntryState

\* A step keeps the types.
LEMMA TypeStep ==
  ASSUME IInv, NEW p \in Proc, Call(p) \/ Step(p) \/ Kill(p)
  PROVE  TypeOK'
<1>a. me[p] \in ProcState /\ LocalOK(p)
  BY DEF IInv, TypeOK
<1>b. cmem \in [Entry -> EntryState] /\ me \in [Proc -> ProcState]
  BY DEF IInv, TypeOK
<1>c. ASSUME NEW r \in ProcState, me' = [me EXCEPT ![p] = r], cmem' \in [Entry -> EntryState]
      PROVE  TypeOK'
  BY <1>b, <1>c DEF TypeOK
<1>d. me[p].i \in 0 .. ncores /\ (me[p].i < ncores => me[p].i \in Entry)
  BY <1>a, CoreAssumption DEF ProcState, Entry
<1>1. CASE Call(p)
  <2>1. PICK c \in Cpu : me' = [me EXCEPT ![p].pc = "scan", ![p].cnum = c, ![p].i = 0]
    BY <1>1, ZenonT(40) DEF Call
  <2>2. me' = [me EXCEPT ![p] = [me[p] EXCEPT !.pc = "scan", !.cnum = c, !.i = 0]]
    BY <2>1, ZenonT(40)
  <2> QED
    BY <1>1, <1>a, <1>b, <1>c, <2>2, CallType, ZenonT(40) DEF Call
<1>2. CASE SeeMine(p)
  <2>1. me[p].i \in Entry
    BY <1>2, <1>a, <1>d DEF SeeMine, LocalOK, At
  <2>2. me' = [me EXCEPT ![p] = [me[p] EXCEPT !.pc = "idle", !.cnum = NoCpu, !.i = 0, !.last_core_num = me[p].cnum, !.last_core_ix = me[p].i]]
    BY <1>2 DEF SeeMine, Return
  <2>3. [me[p] EXCEPT !.pc = "idle", !.cnum = NoCpu, !.i = 0, !.last_core_num = me[p].cnum, !.last_core_ix = me[p].i] \in ProcState
    BY <1>a, <2>1, ReturnType, ZenonT(40)
  <2> QED
    BY <1>2, <1>b, <1>c, <2>2, <2>3, ZenonT(40) DEF SeeMine
<1>3. CASE SeeOther(p)
  <2>1. me[p].i \in Entry
    BY <1>3, <1>a, <1>d DEF SeeOther, LocalOK, At
  <2>2. me' = [me EXCEPT ![p] = [me[p] EXCEPT !.pc = "scan", !.i = @ + 1]]
    BY <1>3, ZenonT(40) DEF SeeOther, NextEntry
  <2>3. [me[p] EXCEPT !.pc = "scan", !.i = @ + 1] \in ProcState
    BY <1>a, <2>1, NextType, ZenonT(40)
  <2> QED
    BY <1>3, <1>b, <1>c, <2>2, <2>3, ZenonT(40) DEF SeeOther
<1>4. CASE SeeFree(p)
  <2>1. me' = [me EXCEPT ![p] = [me[p] EXCEPT !.pc = "try"]]
    BY <1>4 DEF SeeFree, Goto
  <2>2. [me[p] EXCEPT !.pc = "try"] \in ProcState
    BY <1>a, GotoType, ZenonT(40)
  <2> QED
    BY <1>4, <1>b, <1>c, <2>1, <2>2, ZenonT(40) DEF SeeFree
<1>5. CASE Mismatch(p)
  <2>1. me' = [me EXCEPT ![p] = [me[p] EXCEPT !.pc = "exited"]]
    BY <1>5 DEF Mismatch, Goto
  <2>2. [me[p] EXCEPT !.pc = "exited"] \in ProcState
    BY <1>a, GotoType, ZenonT(40)
  <2> QED
    BY <1>5, <1>b, <1>c, <2>1, <2>2, ZenonT(40) DEF Mismatch
<1>6. CASE TryBusy(p)
  <2>1. me[p].i \in Entry
    BY <1>6, <1>a, <1>d DEF TryBusy, LocalOK, At
  <2>2. me' = [me EXCEPT ![p] = [me[p] EXCEPT !.pc = "scan", !.i = @ + 1]]
    BY <1>6, ZenonT(40) DEF TryBusy, NextEntry
  <2>3. [me[p] EXCEPT !.pc = "scan", !.i = @ + 1] \in ProcState
    BY <1>a, <2>1, NextType, ZenonT(40)
  <2> QED
    BY <1>6, <1>b, <1>c, <2>2, <2>3, ZenonT(40) DEF TryBusy
<1>7. CASE TryLock(p)
  <2>1. me[p].i \in Entry /\ cmem[me[p].i] \in EntryState /\ me[p].cnum \in Cpu
    BY <1>7, <1>a, <1>b DEF TryLock, LocalOK, At
  <2>2. cmem' \in [Entry -> EntryState]
    BY <1>7, <1>b, <2>1, EntryType, ZenonT(40) DEF TryLock, SetHere, Here
  <2>3. me' = [me EXCEPT ![p] = [me[p] EXCEPT !.pc = "check"]]
    BY <1>7 DEF TryLock, Goto
  <2>4. [me[p] EXCEPT !.pc = "check"] \in ProcState
    BY <1>a, <2>1, GotoType, ZenonT(40)
  <2> QED
    BY <1>7, <1>b, <1>c, <2>2, <2>3, <2>4, ZenonT(40) DEF TryLock
<1>8. CASE CheckInUse(p)
  <2>1. me[p].i \in Entry /\ cmem[me[p].i] \in EntryState /\ me[p].cnum \in Cpu
    BY <1>8, <1>a, <1>b DEF CheckInUse, LocalOK, At
  <2>2. cmem' \in [Entry -> EntryState]
    BY <1>8, <1>b, <2>1, EntryType, ZenonT(40) DEF CheckInUse, SetHere, Here
  <2>3. me' = [me EXCEPT ![p] = [me[p] EXCEPT !.pc = "scan", !.i = @ + 1]]
    BY <1>8, ZenonT(40) DEF CheckInUse, NextEntry
  <2>4. [me[p] EXCEPT !.pc = "scan", !.i = @ + 1] \in ProcState
    BY <1>a, <2>1, NextType, ZenonT(40)
  <2> QED
    BY <1>8, <1>b, <1>c, <2>2, <2>3, <2>4, ZenonT(40) DEF CheckInUse
<1>9. CASE CheckFree(p)
  <2>1. me[p].i \in Entry /\ cmem[me[p].i] \in EntryState /\ me[p].cnum \in Cpu
    BY <1>9, <1>a, <1>b DEF CheckFree, LocalOK, At
  <2>2. cmem' \in [Entry -> EntryState]
    BY <1>9, <1>b, <2>1, EntryType, ZenonT(40) DEF CheckFree, SetHere, Here
  <2>3. me' = [me EXCEPT ![p] = [me[p] EXCEPT !.pc = "name"]]
    BY <1>9 DEF CheckFree, Goto
  <2>4. [me[p] EXCEPT !.pc = "name"] \in ProcState
    BY <1>a, <2>1, GotoType, ZenonT(40)
  <2> QED
    BY <1>9, <1>b, <1>c, <2>2, <2>3, <2>4, ZenonT(40) DEF CheckFree
<1>10. CASE SetCoreN(p)
  <2>1. me[p].i \in Entry /\ cmem[me[p].i] \in EntryState /\ me[p].cnum \in Cpu
    BY <1>10, <1>a, <1>b DEF SetCoreN, LocalOK, At
  <2>2. cmem' \in [Entry -> EntryState]
    BY <1>10, <1>b, <2>1, EntryType, ZenonT(40) DEF SetCoreN, SetHere, Here
  <2>3. me' = [me EXCEPT ![p] = [me[p] EXCEPT !.pc = "unlock"]]
    BY <1>10 DEF SetCoreN, Goto
  <2>4. [me[p] EXCEPT !.pc = "unlock"] \in ProcState
    BY <1>a, <2>1, GotoType, ZenonT(40)
  <2> QED
    BY <1>10, <1>b, <1>c, <2>2, <2>3, <2>4, ZenonT(40) DEF SetCoreN
<1>11. CASE Unlock(p)
  <2>1. me[p].i \in Entry /\ cmem[me[p].i] \in EntryState /\ me[p].cnum \in Cpu
    BY <1>11, <1>a, <1>b DEF Unlock, LocalOK, At
  <2>2. cmem' \in [Entry -> EntryState]
    BY <1>11, <1>b, <2>1, EntryType, ZenonT(40) DEF Unlock, SetHere, Here
  <2>3. me' = [me EXCEPT ![p] = [me[p] EXCEPT !.pc = "idle", !.cnum = NoCpu, !.i = 0, !.last_core_num = me[p].cnum, !.last_core_ix = me[p].i]]
    BY <1>11 DEF Unlock, Return
  <2>4. [me[p] EXCEPT !.pc = "idle", !.cnum = NoCpu, !.i = 0, !.last_core_num = me[p].cnum, !.last_core_ix = me[p].i] \in ProcState
    BY <1>a, <2>1, ReturnType, ZenonT(40)
  <2> QED
    BY <1>11, <1>b, <1>c, <2>2, <2>3, <2>4, ZenonT(40) DEF Unlock
<1>12. CASE Kill(p)
  <2>1. me' = [me EXCEPT ![p] = [me[p] EXCEPT !.pc = "exited"]]
    BY <1>12 DEF Kill, Goto
  <2>2. [me[p] EXCEPT !.pc = "exited"] \in ProcState
    BY <1>a, GotoType, ZenonT(40)
  <2> QED
    BY <1>12, <1>b, <1>c, <2>1, <2>2, ZenonT(40) DEF Kill
<1> QED
  BY <1>1, <1>2, <1>3, <1>4, <1>5, <1>6, <1>7, <1>8, <1>9, <1>10, <1>11, <1>12 DEF Step

\* A step of p keeps what p knows, names no free entry and touches little else.
LEMMA StepOK ==
  ASSUME IInv, NEW p \in Proc, Call(p) \/ Step(p) \/ Kill(p)
  PROVE  FreeUnnamed' /\ Frame(p) /\ LocalOK(p)' /\ CacheOK(p)'
<1>a. TypeOK /\ FreeUnnamed /\ LocalOK(p) /\ CacheOK(p) /\ p # NoProc
  BY CoreAssumption, SMTT(30) DEF IInv
<1> USE <1>a, CpuFact, CoreAssumption
    DEF TypeOK, EntryState, ProcState, FreeUnnamed, LocalOK, CacheOK, Frame, At, Goto, Here,
        SetHere, Entry
<1>1. CASE Call(p)
  <2>1. FreeUnnamed' /\ Frame(p)
    BY <1>1, ZenonT(40) DEF Call
  <2>2. PICK c \in Cpu : me' = [me EXCEPT ![p].pc = "scan", ![p].cnum = c, ![p].i = 0]
    BY <1>1, ZenonT(40) DEF Call
  <2>3. /\ me'[p].pc = "scan" /\ me'[p].cnum = c /\ UNCHANGED cmem
        /\ me'[p].last_core_num = me[p].last_core_num
        /\ me'[p].last_core_ix = me[p].last_core_ix
    <3>1. me[p] \in ProcState
      BY DEF TypeOK
    <3>2. me'[p] = [me[p] EXCEPT !.pc = "scan", !.cnum = c, !.i = 0]
      BY <2>2
    <3> QED
      BY <1>1, <3>1, <3>2, ZenonT(40) DEF Call
  <2>4. LocalOK(p)' /\ CacheOK(p)'
    BY <2>3
  <2> QED
    BY <2>1, <2>4
<1>2. CASE SeeMine(p)
  <2>1. FreeUnnamed' /\ Frame(p)
    BY <1>2 DEF SeeMine, Return
  <2>2. LocalOK(p)'
    BY <1>2 DEF SeeMine, Return
  <2>3. CacheOK(p)'
    BY <1>2 DEF SeeMine, Return
  <2> QED
    BY <2>1, <2>2, <2>3
<1>3. CASE SeeOther(p)
  BY <1>3 DEF SeeOther, NextEntry
<1>4. CASE SeeFree(p)
  <2>1. FreeUnnamed' /\ Frame(p)
    BY <1>4 DEF SeeFree
  <2>2. LocalOK(p)'
    BY <1>4 DEF SeeFree
  <2>3. CacheOK(p)'
    BY <1>4 DEF SeeFree
  <2> QED
    BY <2>1, <2>2, <2>3
<1>5. CASE Mismatch(p)
  <2>1. FreeUnnamed' /\ Frame(p)
    BY <1>5 DEF Mismatch
  <2>2. LocalOK(p)'
    BY <1>5 DEF Mismatch
  <2>3. CacheOK(p)'
    BY <1>5 DEF Mismatch
  <2> QED
    BY <2>1, <2>2, <2>3
<1>6. CASE TryBusy(p)
  BY <1>6 DEF TryBusy, NextEntry
<1>7. CASE TryLock(p)
  <2>1. FreeUnnamed' /\ Frame(p)
    BY <1>7 DEF TryLock
  <2>2. LocalOK(p)'
    BY <1>7 DEF TryLock
  <2>3. CacheOK(p)'
    BY <1>7, SMTT(30) DEF TryLock
  <2> QED
    BY <2>1, <2>2, <2>3
<1>8. CASE CheckInUse(p)
  BY <1>8 DEF CheckInUse, NextEntry
<1>9. CASE CheckFree(p)
  <2>1. FreeUnnamed' /\ Frame(p)
    BY <1>9 DEF CheckFree
  <2>2. LocalOK(p)'
    BY <1>9 DEF CheckFree
  <2>3. CacheOK(p)'
    BY <1>9 DEF CheckFree
  <2> QED
    BY <2>1, <2>2, <2>3
<1>10. CASE SetCoreN(p)
  <2>1. FreeUnnamed' /\ Frame(p)
    BY <1>10 DEF SetCoreN
  <2>2. LocalOK(p)'
    BY <1>10 DEF SetCoreN
  <2>3. CacheOK(p)'
    BY <1>10, SMTT(30) DEF SetCoreN
  <2> QED
    BY <2>1, <2>2, <2>3
<1>11. CASE Unlock(p)
  <2>1. FreeUnnamed' /\ Frame(p)
    BY <1>11 DEF Unlock, Return
  <2>2. LocalOK(p)'
    BY <1>11 DEF Unlock, Return
  <2>3. CacheOK(p)'
    BY <1>11 DEF Unlock, Return
  <2> QED
    BY <2>1, <2>2, <2>3
<1>12. CASE Kill(p)
  BY <1>12 DEF Kill
<1> QED
  BY <1>1, <1>2, <1>3, <1>4, <1>5, <1>6, <1>7, <1>8, <1>9, <1>10, <1>11, <1>12, ZenonT(40)
     DEF Step

\* Every step keeps the invariant.
LEMMA InvStep ==
  ASSUME IInv, [Next]_vars
  PROVE  IInv'
<1>1. CASE UNCHANGED vars
  BY <1>1 DEF vars, IInv, TypeOK, FreeUnnamed, LocalOK, CacheOK, Here, At
<1>2. CASE Next
  <2>1. PICK p \in Proc : Call(p) \/ Step(p) \/ Kill(p)
    BY <1>2 DEF Next
  <2>2. \A q \in Proc : LocalOK(q)' /\ CacheOK(q)'
    BY <2>1, StepOK, OthersStep
  <2> QED
    BY <2>1, <2>2, TypeStep, StepOK DEF IInv
<1> QED
  BY <1>1, <1>2

\* The invariant holds at the start: no entry is in use and nothing cached.
LEMMA InvInit ==
  ASSUME Init
  PROVE  IInv
<1>1. TypeOK
  BY CoreAssumption DEF Init, TypeOK, EntryState, ProcState
<1>2. FreeUnnamed /\ \A p \in Proc : LocalOK(p) /\ CacheOK(p)
  BY DEF Init, FreeUnnamed, LocalOK, CacheOK, At
<1> QED
  BY <1>1, <1>2 DEF IInv

\* The invariant holds in every reachable state.
LEMMA Invariance == Spec => []IInv
  BY InvInit, InvStep, PTL DEF Spec

(* For any number of processes and cores: get_set_core_index never caches  *)
(* an index past the ncores entries of cmem.                               *)
THEOREM TypeCorrect == Spec => []TypeOK
  BY Invariance, PTL DEF IInv

(* The pair last_core_num, last_core_ix stays true for as long as the      *)
(* process keeps it, however many processes register or are killed.        *)
THEOREM CacheNeverStale == Spec => []CachedEntryMine
<1>1. IInv => CachedEntryMine
  BY DEF IInv, CacheOK, CachedEntryMine
<1> QED
  BY <1>1, Invariance, PTL
=============================================================================
