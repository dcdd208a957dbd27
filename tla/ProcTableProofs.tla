-------------------------- MODULE ProcTableProofs ---------------------------
(***************************************************************************)
(* Proofs about ProcTable, for any number of processes and slots.          *)
(***************************************************************************)
EXTENDS ProcTable, TLAPS

\* Inside get_pid_meta_ind, past the scan for the own pid or not.
Creating == {"gn_scan", "gn_try", "gn_unlock", "gp_write"}
Getting == {"gp_cached", "gp_scan"} \cup Creating

\* Process p is at one of the points L, or in get_pid_meta_ind on its way there.
AtOrTo(p, l) == At(p, l) \/ (me[p].pc \in Getting /\ me[p].ret = l)

IndexOK(p) ==
  /\ me[p].pc \in {"gn_try", "gn_unlock", "gp_write"} => me[p].k \in Slot
  /\ me[p].pid_meta_ind_set => me[p].pid_meta_ind \in Slot
  /\ me[p].pc \in {"in_flag", "rs_open", "rs_clear", "bk_open", "bk_flag", "exec",
                   "rm_pid", "rm_flag"} => me[p].pid_meta_ind_set

(* What p knows of the slots: where its scan found nothing there is no     *)
(* slot of p, since no other process ever writes p into one.               *)
SlotsOK(p) ==
  /\ At(p, "gp_scan") => \A s \in Slot : s < me[p].k => ~ Mine(p, s)
  /\ me[p].pc \in Creating => \A s \in Slot : ~ Mine(p, s)
  /\ At(p, "rm_pid") => \A s \in Slot : Mine(p, s) => s = me[p].pid_meta_ind
  /\ me[p].pc \in {"rm_flag", "gone"} => \A s \in Slot : ~ Mine(p, s)
  /\ At(p, "exit") /\ "slot" \notin me[p].todo => \A s \in Slot : ~ Mine(p, s)

\* exit has begun exactly when something of todo is done.
TodoOK(p) ==
  /\ me[p].todo # {"slot", "fin"} => At(p, "rm_flag") \/ At(p, "exit") \/ AtOrTo(p, "rm_pid")
  /\ AtOrTo(p, "rm_pid") \/ At(p, "rm_flag") => "slot" \notin me[p].todo

\* A saved table belongs to a process whose ufs_fin is still to come.
BackupOK(p) ==
  /\ backup[p] # NoTable => me[p].pid = p /\ "fin" \in me[p].todo
  /\ me[p].pc \in {"new", "gone"} => backup[p] = NoTable
  /\ AtOrTo(p, "bk_open") \/ me[p].pc \in {"bk_flag", "exec"} => me[p].pid = p
  /\ AtOrTo(p, "in_flag") \/ At(p, "rs_open") => me[p].pid = p

\* From exec to ufs_init, the table that is saved is the one to be restored.
SavedOK(p) ==
  /\ AtOrTo(p, "bk_open") => me[p].saved = me[p].fds
  /\ /\ AtOrTo(p, "in_flag") \/ me[p].pc \in {"bk_flag", "exec", "rs_open"}
     /\ me[p].saved # NoTable /\ backup[p] # NoTable
     => backup[p] = me[p].saved
  /\ At(p, "rs_clear") /\ me[p].saved # NoTable => me[p].fds = me[p].saved

\* With nobody about, the slot of p keeps the mark, and the table stays.
AloneOK(p) ==
  Alone(p) /\ me[p].saved # NoTable =>
    /\ At(p, "bk_open") => Mine(p, me[p].pid_meta_ind)
    /\ At(p, "bk_flag") => Mine(p, me[p].pid_meta_ind) /\ backup[p] # NoTable
    /\ At(p, "exec") \/ AtOrTo(p, "in_flag") =>
         /\ backup[p] # NoTable
         /\ \E s \in Slot : Mine(p, s) /\ pid_meta[s].fds_backed_up
    /\ At(p, "in_flag") => pid_meta[me[p].pid_meta_ind].fds_backed_up
    /\ At(p, "rs_open") => backup[p] # NoTable
    /\ At(p, "run") => me[p].fds = me[p].saved

Own(p) ==
  IndexOK(p) /\ SlotsOK(p) /\ TodoOK(p) /\ BackupOK(p) /\ SavedOK(p) /\ AloneOK(p)

IInv == TypeOK /\ UniquePid /\ \A p \in Pid : Own(p)
-----------------------------------------------------------------------------
(* Types: what the ways to change me do to the locals of a process.        *)

\* The loops over the slots start inside their range, even with no slots.
LEMMA Zero == 0 \in 0 .. MAX_EXEC_HANGING
  BY ProcAssumption

\* A new program image has the type of the locals.
LEMMA ImageType ==
  ASSUME NEW p \in Pid, NEW saved \in Table \cup {NoTable}, NEW l \in Control
  PROVE  Image(p, saved) \in ProcState /\ [Image(p, saved) EXCEPT !.pc = l] \in ProcState
  BY Zero, ZenonT(40) DEF Image, ProcState, Control, Table

\* Going to another point keeps the type of the locals.
LEMMA GotoType ==
  ASSUME TypeOK, NEW p \in Pid, NEW l \in Control, Goto(p, l)
  PROVE  me' \in [Pid -> ProcState]
  BY DEF TypeOK, Goto, ProcState

\* get_pid_meta_ind returns to a point of the program.
LEMMA RetType ==
  ASSUME TypeOK, NEW p \in Pid
  PROVE  me[p].ret \in Control
  BY DEF TypeOK, ProcState, Control

\* Storing the slot that was found in the globals keeps their type.
LEMMA FoundType ==
  ASSUME TypeOK, NEW p \in Pid, Found(p), me[p].k \in Slot
  PROVE  me' \in [Pid -> ProcState]
<1> DEFINE new(r) == [r EXCEPT !.pc = r.ret, !.k = 0, !.pid_meta_ind = r.k,
                               !.pid_meta_ind_set = TRUE]
<1>1. ASSUME NEW r \in ProcState, r.k \in Slot, r.ret \in Control
      PROVE  new(r) \in ProcState
  BY <1>1, Zero, ZenonT(40) DEF ProcState
<1>2. new(me[p]) \in ProcState
  BY <1>1, RetType, ZenonT(40) DEF TypeOK
<1> QED
  BY <1>2 DEF TypeOK, Found

\* Going on to the next slot keeps the type of the locals.
LEMMA NextSlotType ==
  ASSUME TypeOK, NEW p \in Pid, NEW l \in Control, NextSlot(p, l), me[p].k \in Slot
  PROVE  me' \in [Pid -> ProcState]
<1>1. me[p].k + 1 \in 0 .. MAX_EXEC_HANGING
  BY ProcAssumption DEF Slot
<1> QED
  BY <1>1 DEF TypeOK, NextSlot, ProcState

\* So does starting a loop over the slots,
LEMMA ResetType ==
  ASSUME NEW r \in ProcState, NEW l \in Control
  PROVE  [r EXCEPT !.pc = l, !.k = 0] \in ProcState
  BY Zero, ZenonT(40) DEF ProcState

\* changing the descriptor table,
LEMMA TableType ==
  ASSUME NEW r \in ProcState, NEW t \in Table
  PROVE  [r EXCEPT !.fds = t, !.saved = NoTable] \in ProcState
  BY ZenonT(40) DEF ProcState

\* calling get_pid_meta_ind,
LEMMA GetIndType ==
  ASSUME TypeOK, NEW p \in Pid, NEW ret \in {"in_flag", "bk_open", "rm_pid"}
  PROVE  GetInd(p, ret) \in ProcState
<1>1. me[p] \in ProcState /\ "gp_cached" \in Control
  BY DEF TypeOK, Control
<1> QED
  BY <1>1, ZenonT(40) DEF GetInd, ProcState

\* and any other assignment of a state of that type.
LEMMA SetType ==
  ASSUME TypeOK, NEW p \in Pid, NEW r \in ProcState, me' = [me EXCEPT ![p] = r]
  PROVE  me' \in [Pid -> ProcState]
  BY DEF TypeOK

\* Every step keeps the types: an index is used only when it is a slot.
LEMMA TypeStep ==
  ASSUME TypeOK, \A p \in Pid : IndexOK(p), [Next]_vars
  PROVE  TypeOK'
<1>0. CASE UNCHANGED vars
  BY <1>0 DEF vars, TypeOK
<1>1. ASSUME NEW p \in Pid, CachedHit(p) PROVE TypeOK'
  BY <1>1, GotoType, RetType DEF CachedHit, TypeOK, Exit, Control
<1>2. ASSUME NEW p \in Pid, CachedMiss(p) PROVE TypeOK'
  <2>1. [me[p] EXCEPT !.pc = "gp_scan", !.k = 0] \in ProcState
    BY ResetType, ZenonT(40) DEF TypeOK, Control
  <2>2. me' = [me EXCEPT ![p] = [me[p] EXCEPT !.pc = "gp_scan", !.k = 0]]
    BY <1>2, ZenonT(40) DEF CachedMiss
  <2> QED
    BY <1>2, <2>1, <2>2, SetType DEF CachedMiss, TypeOK
<1>3. ASSUME NEW p \in Pid, ScanMine(p) PROVE TypeOK'
  BY <1>3, FoundType DEF ScanMine, TypeOK
<1>4. ASSUME NEW p \in Pid, ScanOther(p) PROVE TypeOK'
  BY <1>4, NextSlotType DEF ScanOther, TypeOK, Control
<1>5. ASSUME NEW p \in Pid, ScanNone(p) PROVE TypeOK'
  <2>1. [me[p] EXCEPT !.pc = "gn_scan", !.k = 0] \in ProcState
    BY ResetType, ZenonT(40) DEF TypeOK, Control
  <2>2. me' = [me EXCEPT ![p] = [me[p] EXCEPT !.pc = "gn_scan", !.k = 0]]
    BY <1>5, ZenonT(40) DEF ScanNone
  <2> QED
    BY <1>5, <2>1, <2>2, SetType DEF ScanNone, TypeOK
<1>6. ASSUME NEW p \in Pid, NewTaken(p) PROVE TypeOK'
  BY <1>6, NextSlotType DEF NewTaken, TypeOK, Control
<1>7. ASSUME NEW p \in Pid, NewFree(p) PROVE TypeOK'
  BY <1>7, GotoType, RetType DEF NewFree, TypeOK, Exit, Control
<1>8. ASSUME NEW p \in Pid, NewFull(p) PROVE TypeOK'
  BY <1>8, GotoType, RetType DEF NewFull, TypeOK, Exit, Control
<1>9. ASSUME NEW p \in Pid, TryBusy(p) PROVE TypeOK'
  <2>1. me[p].k \in Slot /\ "gn_scan" \in Control
    BY <1>9 DEF TryBusy, IndexOK, At, Control
  <2> QED
    BY <1>9, <2>1, NextSlotType DEF TryBusy, TypeOK
<1>10. ASSUME NEW p \in Pid, TryLock(p) PROVE TypeOK'
  <2>1. me[p].k \in Slot
    BY <1>10 DEF TryLock, IndexOK, At
  <2>2. [pid_meta[me[p].k] EXCEPT !.lock = p] \in SlotState
    BY <2>1 DEF TypeOK, SlotState
  <2>3. pid_meta' \in [Slot -> SlotState]
    BY <1>10, <2>1, <2>2 DEF TryLock, TypeOK
  <2> QED
    BY <1>10, <2>3, GotoType DEF TryLock, TypeOK, Control
<1>11. ASSUME NEW p \in Pid, NewUnlock(p) PROVE TypeOK'
  BY <1>11, GotoType, RetType, ZenonT(40) DEF NewUnlock, TypeOK, Exit, Control, SlotState
<1>12. ASSUME NEW p \in Pid, WritePid(p) PROVE TypeOK'
  <2>1. me[p].k \in Slot
    BY <1>12 DEF WritePid, IndexOK, At
  <2>2. pid_meta' \in [Slot -> SlotState]
    BY <1>12, ZenonT(40) DEF WritePid, TypeOK, SlotState
  <2> QED
    BY <1>12, <2>1, <2>2, FoundType DEF WritePid, TypeOK
<1>13. ASSUME NEW p \in Pid, NotBackedUp(p) PROVE TypeOK'
  BY <1>13, GotoType, RetType DEF NotBackedUp, TypeOK, Exit, Control
<1>14. ASSUME NEW p \in Pid, BackedUp(p) PROVE TypeOK'
  BY <1>14, GotoType, RetType DEF BackedUp, TypeOK, Exit, Control
<1>15. ASSUME NEW p \in Pid, Restore(p) PROVE TypeOK'
  <2>1. me[p] \in ProcState /\ me[p].pid \in Pid /\ "rs_clear" \in Control
    BY DEF TypeOK, ProcState, Control
  <2>2. backup[me[p].pid] \in Table
    BY <1>15, <2>1 DEF Restore, TypeOK
  <2>3. [me[p] EXCEPT !.pc = "rs_clear", !.fds = backup[me[p].pid]] \in ProcState
    BY <2>1, <2>2, ZenonT(40) DEF ProcState
  <2>4. me' = [me EXCEPT ![p] = [me[p] EXCEPT !.pc = "rs_clear", !.fds = backup[me[p].pid]]]
    BY <1>15, ZenonT(40) DEF Restore
  <2> QED
    BY <1>15, <2>3, <2>4, SetType DEF Restore, TypeOK
<1>16. ASSUME NEW p \in Pid, RestoreMissing(p) PROVE TypeOK'
  BY <1>16, GotoType, RetType DEF RestoreMissing, TypeOK, Exit, Control
<1>17. ASSUME NEW p \in Pid, ClearFlag(p) PROVE TypeOK'
  BY <1>17, GotoType, RetType, ZenonT(40) DEF ClearFlag, TypeOK, Exit, Control, SlotState
<1>18. ASSUME NEW p \in Pid, Backup(p) PROVE TypeOK'
  BY <1>18, GotoType, RetType DEF Backup, TypeOK, Exit, Control, ProcState
<1>19. ASSUME NEW p \in Pid, BackupExists(p) PROVE TypeOK'
  BY <1>19, GotoType, RetType DEF BackupExists, TypeOK, Exit, Control
<1>20. ASSUME NEW p \in Pid, SetFlag(p) PROVE TypeOK'
  BY <1>20, GotoType, RetType, ZenonT(40) DEF SetFlag, TypeOK, Exit, Control, SlotState
<1>21. ASSUME NEW p \in Pid, RealExec(p) PROVE TypeOK'
  <2>1. me[p].saved \in Table \cup {NoTable}
    BY DEF TypeOK, ProcState
  <2> QED
    BY <1>21, <2>1, ImageType, SetType, ZenonT(40) DEF RealExec, TypeOK, Control
<1>22. ASSUME NEW p \in Pid, RealExecFails(p) PROVE TypeOK'
  BY <1>22, GotoType, RetType DEF RealExecFails, TypeOK, Exit, Control
<1>23. ASSUME NEW p \in Pid, exit_intercept(p) PROVE TypeOK'
  <2>1. GetInd(p, "rm_pid") \in ProcState
    BY GetIndType
  <2>2. [GetInd(p, "rm_pid") EXCEPT !.todo = @ \ {"slot"}] \in ProcState
    BY <2>1 DEF ProcState
  <2> QED
    BY <1>23, <2>2, SetType DEF exit_intercept, TypeOK
<1>24. ASSUME NEW p \in Pid, RemovePid(p) PROVE TypeOK'
  BY <1>24, GotoType, RetType, ZenonT(40) DEF RemovePid, TypeOK, Exit, Control, SlotState
<1>25. ASSUME NEW p \in Pid, RemoveFlag(p) PROVE TypeOK'
  BY <1>25, GotoType, RetType, ZenonT(40) DEF RemoveFlag, TypeOK, Exit, Control, SlotState
<1>26. ASSUME NEW p \in Pid, ufs_fin(p) PROVE TypeOK'
  BY <1>26 DEF ufs_fin, TypeOK, ProcState, Control, GetInd, Table
<1>27. ASSUME NEW p \in Pid, Gone(p) PROVE TypeOK'
  <2>1. Outside(p, "gone") \in ProcState
    BY ImageType, ZenonT(40) DEF Outside, Control
  <2> QED
    BY <1>27, <2>1, SetType DEF Gone, TypeOK
<1>28. ASSUME NEW p \in Pid, Use(p) PROVE TypeOK'
  <2>1. [me[p] EXCEPT !.fds = p, !.saved = NoTable] \in ProcState
    BY TableType, ZenonT(40) DEF TypeOK, Table
  <2>2. me' = [me EXCEPT ![p] = [me[p] EXCEPT !.fds = p, !.saved = NoTable]]
    BY <1>28, ZenonT(40) DEF Use
  <2> QED
    BY <1>28, <2>1, <2>2, SetType DEF Use, TypeOK
<1>29. ASSUME NEW p \in Pid, Exec(p) PROVE TypeOK'
  <2>1. GetInd(p, "bk_open") \in ProcState /\ me[p].fds \in Table \cup {NoTable}
    BY GetIndType DEF TypeOK, ProcState
  <2>2. [GetInd(p, "bk_open") EXCEPT !.pid = p, !.saved = me[p].fds] \in ProcState
    BY <2>1, ZenonT(40) DEF ProcState
  <2> QED
    BY <1>29, <2>2, SetType DEF Exec, TypeOK
<1>30. ASSUME NEW p \in Pid, ExitCall(p) PROVE TypeOK'
  BY <1>30, GotoType, RetType DEF ExitCall, TypeOK, Exit, Control
<1>31. ASSUME NEW p \in Pid, Launch(p) PROVE TypeOK'
  <2>1. NoTable \in Table \cup {NoTable}
    BY DEF TypeOK, ProcState
  <2> QED
    BY <1>31, <2>1, ImageType, SetType, ZenonT(40) DEF Launch, TypeOK, Control
<1>32. ASSUME NEW p \in Pid, Kill(p) PROVE TypeOK'
  <2>1. Outside(p, "killed") \in ProcState
    BY ImageType, ZenonT(40) DEF Outside, Control
  <2> QED
    BY <1>32, <2>1, SetType DEF Kill, TypeOK
<1>33. ASSUME NEW p \in Pid, NEW q \in Pid, Fork(p, q) PROVE TypeOK'
  BY <1>33 DEF Fork, TypeOK, ProcState
<1> QED
    BY <1>0, <1>1, <1>2, <1>3, <1>4, <1>5, <1>6, <1>7, <1>8, <1>9, <1>10,
     <1>11, <1>12, <1>13, <1>14, <1>15, <1>16, <1>17, <1>18, <1>19, <1>20,
     <1>21, <1>22, <1>23, <1>24, <1>25, <1>26, <1>27, <1>28, <1>29, <1>30,
     <1>31, <1>32, <1>33 DEF Next, Step, IndStep, InitStep, ExecStep, ExitStep
-----------------------------------------------------------------------------
(* What a step of p, or the fork that creates p, does to the others: at    *)
(* most it takes their saved table away, and it writes no pid but p.       *)

Acts(p) ==
  \/ Step(p) \/ Use(p) \/ Exec(p) \/ ExitCall(p) \/ Launch(p) \/ Kill(p)
  \/ \E q \in Pid : Fork(q, p)

Frame(p) ==
  /\ me'[p].pc # "new"
  /\ \A q \in Pid \ {p} : me'[q] = me[q] /\ backup'[q] \in {backup[q], NoTable}
  /\ \A s \in Slot : pid_meta'[s].pid \in {pid_meta[s].pid, NoPid}
                      \/ (At(p, "gp_write") /\ s = me[p].k /\ pid_meta'[s].pid = p)

\* What a step of p leaves alone of the others: see Frame.
LEMMA FrameStep ==
  ASSUME IInv, NEW p \in Pid, Acts(p)
  PROVE  Frame(p)
<1> USE DEF Frame
<1>a. TypeOK /\ IndexOK(p) /\ BackupOK(p)
  BY DEF IInv, Own
<1>b. me[p].ret # "new"
  BY <1>a DEF TypeOK, ProcState
<1>1. CASE CachedHit(p)
  BY <1>a, <1>b, <1>1 DEF CachedHit, TypeOK, Goto
<1>2. CASE CachedMiss(p)
  BY <1>a, <1>b, <1>2 DEF CachedMiss, TypeOK, ProcState
<1>3. CASE ScanMine(p)
  BY <1>a, <1>b, <1>3 DEF ScanMine, TypeOK, Found, ProcState
<1>4. CASE ScanOther(p)
  BY <1>a, <1>b, <1>4 DEF ScanOther, TypeOK, NextSlot
<1>5. CASE ScanNone(p)
  BY <1>a, <1>b, <1>5 DEF ScanNone, TypeOK, ProcState
<1>6. CASE NewTaken(p)
  BY <1>a, <1>b, <1>6 DEF NewTaken, TypeOK, NextSlot
<1>7. CASE NewFree(p)
  BY <1>a, <1>b, <1>7 DEF NewFree, TypeOK, Goto
<1>8. CASE NewFull(p)
  BY <1>a, <1>b, <1>8 DEF NewFull, TypeOK, Exit, Goto
<1>9. CASE TryBusy(p)
  BY <1>a, <1>b, <1>9 DEF TryBusy, TypeOK, NextSlot
<1>10. CASE TryLock(p)
  BY <1>a, <1>b, <1>10 DEF TryLock, TypeOK, Goto, SlotState
<1>11. CASE NewUnlock(p)
  BY <1>a, <1>b, <1>11 DEF NewUnlock, TypeOK, Goto, SlotState
<1>12. CASE WritePid(p)
  BY <1>a, <1>b, <1>12 DEF WritePid, TypeOK, Found, At, SlotState, ProcState
<1>13. CASE NotBackedUp(p)
  BY <1>a, <1>b, <1>13 DEF NotBackedUp, TypeOK, Goto
<1>14. CASE BackedUp(p)
  BY <1>a, <1>b, <1>14 DEF BackedUp, TypeOK, Goto
<1>15. CASE Restore(p)
  BY <1>a, <1>b, <1>15 DEF Restore, TypeOK, ProcState
<1>16. CASE RestoreMissing(p)
  BY <1>a, <1>b, <1>16 DEF RestoreMissing, TypeOK, Exit, Goto
<1>17. CASE ClearFlag(p)
  BY <1>a, <1>b, <1>17 DEF ClearFlag, TypeOK, Goto, SlotState
<1>18. CASE Backup(p)
  BY <1>a, <1>b, <1>18 DEF Backup, TypeOK, Goto, At, BackupOK, AtOrTo
<1>19. CASE BackupExists(p)
  BY <1>a, <1>b, <1>19 DEF BackupExists, TypeOK, Exit, Goto
<1>20. CASE SetFlag(p)
  BY <1>a, <1>b, <1>20 DEF SetFlag, TypeOK, Goto, SlotState
<1>21. CASE RealExec(p)
  BY <1>a, <1>b, <1>21 DEF RealExec, TypeOK, Image
<1>22. CASE RealExecFails(p)
  BY <1>a, <1>b, <1>22 DEF RealExecFails, TypeOK, Exit, Goto
<1>23. CASE exit_intercept(p)
  BY <1>a, <1>b, <1>23 DEF exit_intercept, TypeOK, GetInd, ProcState
<1>24. CASE RemovePid(p)
  BY <1>a, <1>b, <1>24 DEF RemovePid, TypeOK, Goto, SlotState
<1>25. CASE RemoveFlag(p)
  BY <1>a, <1>b, <1>25 DEF RemoveFlag, TypeOK, Goto, SlotState
<1>26. CASE ufs_fin(p)
  BY <1>a, <1>b, <1>26 DEF ufs_fin, TypeOK, At, ProcState
<1>27. CASE Gone(p)
  BY <1>a, <1>b, <1>27 DEF Gone, TypeOK, Outside, Image
<1>28. CASE Use(p)
  BY <1>a, <1>b, <1>28 DEF Use, TypeOK, At, ProcState
<1>29. CASE Exec(p)
  BY <1>a, <1>b, <1>29 DEF Exec, TypeOK, GetInd, ProcState
<1>30. CASE ExitCall(p)
  BY <1>a, <1>b, <1>30 DEF ExitCall, TypeOK, Exit, Goto
<1>31. CASE Launch(p)
  BY <1>a, <1>b, <1>31 DEF Launch, TypeOK, Image
<1>32. CASE Kill(p)
  BY <1>a, <1>b, <1>32 DEF Kill, TypeOK, Outside, Image
<1>33. CASE \E q \in Pid : Fork(q, p)
  BY <1>a, <1>33 DEF Fork, TypeOK, ProcState, At
<1> QED
    BY ZenonT(40), <1>1, <1>2, <1>3, <1>4, <1>5, <1>6, <1>7, <1>8, <1>9, <1>10, <1>11,
     <1>12, <1>13, <1>14, <1>15, <1>16, <1>17, <1>18, <1>19, <1>20, <1>21,
     <1>22, <1>23, <1>24, <1>25, <1>26, <1>27, <1>28, <1>29, <1>30, <1>31,
     <1>32, <1>33
  DEF Acts, Step, IndStep, InitStep, ExecStep, ExitStep

\* A step that writes no pid but p, and p only if p has no slot, leaves pids unique.
LEMMA UniqueStep ==
  ASSUME IInv, NEW p \in Pid, Frame(p)
  PROVE  UniquePid'
<1>1. At(p, "gp_write") => \A s \in Slot : pid_meta[s].pid # p
  BY DEF IInv, Own, SlotsOK, At, Creating, Mine
<1>2. p # NoPid
  BY ProcAssumption
<1>3. ASSUME NEW s \in Slot, NEW t \in Slot,
             pid_meta'[s].pid = pid_meta'[t].pid, pid_meta'[s].pid # NoPid
      PROVE  s = t
  BY <1>1, <1>2, <1>3 DEF IInv, UniquePid, Frame
<1> QED
  BY <1>3 DEF UniquePid

\* A step of p leaves what q knows of its slot and its saved table true.
LEMMA OthersStep ==
  ASSUME IInv, NEW p \in Pid, NEW q \in Pid \ {p}, Frame(p)
  PROVE  Own(q)'
<1>1. me'[q] = me[q] /\ backup'[q] \in {backup[q], NoTable}
  BY DEF Frame
<1>2. ASSUME NEW s \in Slot, Mine(q, s)' PROVE Mine(q, s)
  BY <1>2, ProcAssumption DEF Frame, Mine
<1>3. ~ Alone(q)'
  BY DEF Frame, Alone, At
<1>4. IndexOK(q) /\ SlotsOK(q) /\ TodoOK(q) /\ BackupOK(q) /\ SavedOK(q)
  BY DEF IInv, Own
<1>5. IndexOK(q)' /\ TodoOK(q)'
  BY <1>1, <1>4 DEF IndexOK, TodoOK, AtOrTo, At
<1>6. SlotsOK(q)'
  BY <1>1, <1>2, <1>4 DEF SlotsOK, At
<1>7. BackupOK(q)'
  BY <1>1, <1>4 DEF BackupOK, AtOrTo, At
<1>8. SavedOK(q)'
  BY <1>1, <1>4, SMTT(30) DEF SavedOK, AtOrTo, At
<1> QED
  BY <1>3, <1>5, <1>6, <1>7, <1>8 DEF AloneOK, Own

(* A call of exit, by the program or after an error, leaves everything as  *)
(* it was but the point p has reached.                                     *)
LEMMA ExitKeeps ==
  ASSUME TypeOK, NEW p \in Pid, Own(p), Exit(p), UNCHANGED <<pid_meta, backup>>,
         me[p].pc \in {"gn_scan", "rs_open", "bk_open", "exec", "run"}
  PROVE  Own(p)'
<1>1. /\ me'[p].pc = "exit" /\ me'[p].pid_meta_ind = me[p].pid_meta_ind
      /\ me'[p].pid_meta_ind_set = me[p].pid_meta_ind_set /\ me'[p].pid = me[p].pid
      /\ me'[p].fds = me[p].fds /\ me'[p].todo = me[p].todo
      /\ me'[p].saved = me[p].saved
  <2>1. me[p] \in ProcState /\ me'[p] = [me[p] EXCEPT !.pc = "exit"]
    BY DEF Exit, Goto, TypeOK
  <2> QED
    BY ONLY <2>1 DEF ProcState
<1>2. \A s \in Slot : Mine(p, s)' = Mine(p, s)
  BY DEF Mine
<1>3. IndexOK(p) /\ SlotsOK(p) /\ TodoOK(p) /\ BackupOK(p)
  BY DEF Own
<1>4. "slot" \in me[p].todo \/ \A s \in Slot : ~ Mine(p, s)
  BY <1>3, ZenonT(40) DEF SlotsOK, TodoOK, AtOrTo, At, Creating, Getting
<1>5. IndexOK(p)' /\ TodoOK(p)'
  BY <1>1, <1>3, ZenonT(40) DEF IndexOK, TodoOK, AtOrTo, At, Creating, Getting
<1>6. SlotsOK(p)'
  BY <1>1, <1>2, <1>4, ZenonT(40) DEF SlotsOK, At, Creating
<1>7. BackupOK(p)'
  BY <1>1, <1>3, ZenonT(40) DEF BackupOK, AtOrTo, At, Creating, Getting
<1>8. SavedOK(p)' /\ AloneOK(p)'
  BY <1>1, ZenonT(40) DEF SavedOK, AloneOK, AtOrTo, At, Creating, Getting
<1> QED
  BY <1>5, <1>6, <1>7, <1>8 DEF Own

\* A step of p keeps what p knows of its slot and its saved table.
LEMMA OwnStep ==
  ASSUME IInv, NEW p \in Pid, Acts(p)
  PROVE  Own(p)'
<1>a. TypeOK /\ UniquePid /\ Own(p)
  BY DEF IInv, Own
<1>b. Alone(p)' => Alone(p)
  BY FrameStep, ZenonT(120) DEF Frame, Alone, At
<1> USE DEF Own, IndexOK, SlotsOK, TodoOK, BackupOK, SavedOK, AloneOK, AtOrTo,
            At, Creating, Getting, Mine
<1>1. CASE CachedHit(p)
  <2>1. /\ me'[p].pc = me[p].ret
        /\ me'[p].ret = me[p].ret /\ me'[p].k = me[p].k
        /\ me'[p].pid_meta_ind = me[p].pid_meta_ind /\ me'[p].pid_meta_ind_set = me[p].pid_meta_ind_set
        /\ me'[p].pid = me[p].pid /\ me'[p].fds = me[p].fds
        /\ me'[p].todo = me[p].todo /\ me'[p].saved = me[p].saved
    <3>1. me[p] \in ProcState /\ me'[p] = [me[p] EXCEPT !.pc = me[p].ret]
      BY <1>a, <1>b, <1>1 DEF CachedHit, Goto, TypeOK
    <3> QED
      BY <3>1 DEF ProcState
  <2>2. me[p].ret \in {"in_flag", "bk_open", "rm_pid"} /\ UNCHANGED <<pid_meta, backup>>
    BY <1>a, <1>b, <1>1 DEF CachedHit, TypeOK, ProcState
  <2>3. me[p].pid_meta_ind \in Slot /\ \A s \in Slot : Mine(p, s) => s = me[p].pid_meta_ind
    BY <1>a, <1>b, <1>1, ProcAssumption, SMTT(30) DEF CachedHit, UniquePid
  <2>4. IndexOK(p)' /\ SlotsOK(p)'
    BY <1>a, <1>b, <1>1, <2>1, <2>2, <2>3, ProcAssumption, SMTT(30) DEF CachedHit, UniquePid
  <2>5. TodoOK(p)' /\ BackupOK(p)'
    BY <1>a, <1>b, <1>1, <2>1, <2>2, <2>3, ProcAssumption, ZenonT(40) DEF CachedHit, UniquePid
  <2>6. SavedOK(p)'
    BY <1>a, <1>b, <1>1, <2>1, <2>2, <2>3, ProcAssumption, ZenonT(40) DEF CachedHit, UniquePid
  <2>7. AloneOK(p)'
    BY <1>a, <1>b, <1>1, <2>1, <2>2, <2>3, ProcAssumption DEF CachedHit, UniquePid
  <2> QED
    BY <2>4, <2>5, <2>6, <2>7
<1>2. CASE CachedMiss(p)
  <2>1. /\ me'[p].pc = "gp_scan"
        /\ me'[p].k = 0
        /\ me'[p].ret = me[p].ret /\ me'[p].pid_meta_ind = me[p].pid_meta_ind
        /\ me'[p].pid_meta_ind_set = me[p].pid_meta_ind_set /\ me'[p].pid = me[p].pid
        /\ me'[p].fds = me[p].fds /\ me'[p].todo = me[p].todo
        /\ me'[p].saved = me[p].saved
    BY <1>a, <1>b, <1>2 DEF CachedMiss, TypeOK, ProcState
  <2>2. me[p].ret \in {"in_flag", "bk_open", "rm_pid"} /\ UNCHANGED <<pid_meta, backup>>
    BY <1>a, <1>b, <1>2 DEF CachedMiss, TypeOK, ProcState
  <2>3. \A s \in Slot : ~ s < 0
    BY DEF Slot
  <2>4. IndexOK(p)' /\ SlotsOK(p)'
    BY <1>a, <1>b, <1>2, <2>1, <2>2, <2>3, ProcAssumption, ZenonT(40) DEF CachedMiss, UniquePid
  <2>5. TodoOK(p)' /\ BackupOK(p)'
    BY <1>a, <1>b, <1>2, <2>1, <2>2, <2>3, ProcAssumption, ZenonT(40) DEF CachedMiss, UniquePid
  <2>6. SavedOK(p)'
    BY <1>a, <1>b, <1>2, <2>1, <2>2, <2>3, ProcAssumption, SMTT(30) DEF CachedMiss, UniquePid
  <2>7. AloneOK(p)'
    BY <1>a, <1>b, <1>2, <2>1, <2>2, <2>3, ProcAssumption DEF CachedMiss, UniquePid
  <2> QED
    BY <2>4, <2>5, <2>6, <2>7
<1>3. CASE ScanMine(p)
  <2>1. /\ me'[p].pc = me[p].ret
        /\ me'[p].k = 0
        /\ me'[p].pid_meta_ind = me[p].k
        /\ me'[p].pid_meta_ind_set = TRUE
        /\ me'[p].ret = me[p].ret /\ me'[p].pid = me[p].pid
        /\ me'[p].fds = me[p].fds /\ me'[p].todo = me[p].todo
        /\ me'[p].saved = me[p].saved
    BY <1>a, <1>b, <1>3 DEF ScanMine, Found, TypeOK, ProcState
  <2>2. me[p].ret \in {"in_flag", "bk_open", "rm_pid"} /\ UNCHANGED <<pid_meta, backup>>
    BY <1>a, <1>b, <1>3, SMTT(30) DEF ScanMine, TypeOK, ProcState
  <2>3. \A s \in Slot : Mine(p, s) => s = me[p].k
    BY <1>a, <1>b, <1>3, ProcAssumption, ZenonT(120) DEF ScanMine, UniquePid
  <2>4. me[p].k \in Slot
    BY <1>a, <1>3, ProcAssumption DEF ScanMine
  <2>5. IndexOK(p)' /\ SlotsOK(p)'
    BY <2>1, <2>2, <2>3, <2>4, ZenonT(40)
  <2>6. TodoOK(p)' /\ BackupOK(p)'
    BY <1>a, <1>b, <1>3, <2>1, <2>2, <2>3, ProcAssumption, SMTT(30) DEF ScanMine, UniquePid
  <2>7. SavedOK(p)'
    BY <1>a, <1>b, <1>3, <2>1, <2>2, <2>3, ProcAssumption, ZenonT(40) DEF ScanMine, UniquePid
  <2>8. AloneOK(p)'
    BY <1>a, <1>b, <1>3, <2>1, <2>2, <2>3, ProcAssumption DEF ScanMine, UniquePid
  <2> QED
    BY <2>5, <2>6, <2>7, <2>8
<1>4. CASE ScanOther(p)
  BY <1>a, <1>b, <1>4, ProcAssumption DEF ScanOther, TypeOK, ProcState, NextSlot
<1>5. CASE ScanNone(p)
  <2>1. /\ me'[p].pc = "gn_scan"
        /\ me'[p].k = 0
        /\ me'[p].ret = me[p].ret /\ me'[p].pid_meta_ind = me[p].pid_meta_ind
        /\ me'[p].pid_meta_ind_set = me[p].pid_meta_ind_set /\ me'[p].pid = me[p].pid
        /\ me'[p].fds = me[p].fds /\ me'[p].todo = me[p].todo
        /\ me'[p].saved = me[p].saved
    BY <1>a, <1>b, <1>5 DEF ScanNone, TypeOK, ProcState
  <2>2. me[p].ret \in {"in_flag", "bk_open", "rm_pid"} /\ UNCHANGED <<pid_meta, backup>>
    BY <1>a, <1>b, <1>5 DEF ScanNone, TypeOK, ProcState
  <2>3. \A s \in Slot : ~ Mine(p, s)
    BY <1>a, <1>b, <1>5, ProcAssumption DEF ScanNone, Slot
  <2>4. IndexOK(p)' /\ SlotsOK(p)'
    BY <1>a, <1>b, <1>5, <2>1, <2>2, <2>3, ProcAssumption DEF ScanNone, UniquePid
  <2>5. TodoOK(p)' /\ BackupOK(p)'
    BY <1>a, <1>b, <1>5, <2>1, <2>2, <2>3, ProcAssumption, ZenonT(40) DEF ScanNone, UniquePid
  <2>6. SavedOK(p)'
    BY <1>a, <1>b, <1>5, <2>1, <2>2, <2>3, ProcAssumption, SMTT(30) DEF ScanNone, UniquePid
  <2>7. AloneOK(p)'
    BY <1>a, <1>b, <1>5, <2>1, <2>2, <2>3, ProcAssumption, SMTT(30) DEF ScanNone, UniquePid
  <2> QED
    BY <2>4, <2>5, <2>6, <2>7
<1>6. CASE NewTaken(p)
  BY <1>a, <1>b, <1>6, ProcAssumption DEF NewTaken, TypeOK, ProcState, NextSlot
<1>7. CASE NewFree(p)
  BY <1>a, <1>b, <1>7, ProcAssumption DEF NewFree, TypeOK, ProcState, Goto
<1>8. CASE NewFull(p)
  BY <1>a, <1>8, ExitKeeps, ZenonT(40) DEF NewFull
<1>9. CASE TryBusy(p)
  BY <1>a, <1>b, <1>9, ProcAssumption, SMTT(30) DEF TryBusy, TypeOK, ProcState, NextSlot
<1>10. CASE TryLock(p)
  BY <1>a, <1>b, <1>10, ProcAssumption, SMTT(30) DEF TryLock, TypeOK, ProcState, Goto
<1>11. CASE NewUnlock(p)
  BY <1>a, <1>b, <1>11, ProcAssumption, SMTT(30) DEF NewUnlock, TypeOK, ProcState, Goto
<1>12. CASE WritePid(p)
    BY <1>a, <1>b, <1>12, ProcAssumption DEF WritePid, TypeOK, ProcState,
     Found, At
<1>13. CASE NotBackedUp(p)
  BY <1>a, <1>b, <1>13, ProcAssumption DEF NotBackedUp, TypeOK, ProcState, Goto
<1>14. CASE BackedUp(p)
  BY <1>a, <1>b, <1>14, ProcAssumption DEF BackedUp, TypeOK, ProcState, Goto
<1>15. CASE Restore(p)
  BY <1>a, <1>b, <1>15, ProcAssumption DEF Restore, TypeOK, ProcState
<1>16. CASE RestoreMissing(p)
  BY <1>a, <1>16, ExitKeeps, ZenonT(40) DEF RestoreMissing
<1>17. CASE ClearFlag(p)
  BY <1>a, <1>b, <1>17, ProcAssumption DEF ClearFlag, TypeOK, ProcState, Goto
<1>18. CASE Backup(p)
    BY <1>a, <1>b, <1>18, ProcAssumption DEF Backup, TypeOK, ProcState, Goto,
     At, BackupOK
<1>19. CASE BackupExists(p)
  BY <1>a, <1>19, ExitKeeps, ZenonT(40) DEF BackupExists
<1>20. CASE SetFlag(p)
  BY <1>a, <1>b, <1>20, ProcAssumption DEF SetFlag, TypeOK, ProcState, Goto
<1>21. CASE RealExec(p)
  BY <1>a, <1>b, <1>21, ProcAssumption, ZenonT(120) DEF RealExec, TypeOK, ProcState, Image
<1>22. CASE RealExecFails(p)
  BY <1>a, <1>22, ExitKeeps, ZenonT(40) DEF RealExecFails
<1>23. CASE exit_intercept(p)
    BY <1>a, <1>b, <1>23, ProcAssumption, SMTT(30) DEF exit_intercept, TypeOK,
     ProcState, GetInd
<1>24. CASE RemovePid(p)
  BY <1>a, <1>b, <1>24, ProcAssumption, SMTT(30) DEF RemovePid, TypeOK, ProcState, Goto
<1>25. CASE RemoveFlag(p)
  BY <1>a, <1>b, <1>25, ProcAssumption, SMTT(30) DEF RemoveFlag, TypeOK, ProcState, Goto
<1>26. CASE ufs_fin(p)
  BY <1>a, <1>b, <1>26, ProcAssumption, SMTT(30) DEF ufs_fin, TypeOK, ProcState, At
<1>27. CASE Gone(p)
    BY <1>a, <1>b, <1>27, ProcAssumption, ZenonT(120) DEF Gone, TypeOK, ProcState, Outside,
     Image
<1>28. CASE Use(p)
  <2>1. /\ me[p].pc = "run" /\ me'[p].pc = "run" /\ me'[p].saved = NoTable
        /\ me'[p].pid_meta_ind = me[p].pid_meta_ind
        /\ me'[p].pid_meta_ind_set = me[p].pid_meta_ind_set
        /\ me'[p].pid = me[p].pid /\ me'[p].todo = me[p].todo
    BY <1>a, <1>28 DEF Use, TypeOK, ProcState
  <2>2. UNCHANGED <<pid_meta, backup>>
    BY <1>28 DEF Use
  <2>3. IndexOK(p)' /\ SlotsOK(p)' /\ TodoOK(p)'
    BY <1>a, <2>1, <2>2, ZenonT(40)
  <2>4. BackupOK(p)' /\ SavedOK(p)' /\ AloneOK(p)'
    BY <1>a, <2>1, <2>2, ZenonT(40)
  <2> QED
    BY <2>3, <2>4
<1>29. CASE Exec(p)
  <2>1. /\ me[p].pc = "run" /\ me'[p].pc = "gp_cached" /\ me'[p].ret = "bk_open"
        /\ me'[p].pid = p /\ me'[p].saved = me[p].fds /\ me'[p].fds = me[p].fds
        /\ me'[p].pid_meta_ind = me[p].pid_meta_ind
        /\ me'[p].pid_meta_ind_set = me[p].pid_meta_ind_set /\ me'[p].todo = me[p].todo
    BY <1>a, <1>29 DEF Exec, TypeOK, ProcState, GetInd
  <2>2. UNCHANGED <<pid_meta, backup>>
    BY <1>29 DEF Exec
  <2>3. IndexOK(p)' /\ SlotsOK(p)' /\ TodoOK(p)'
    BY <1>a, <2>1, <2>2, ZenonT(40)
  <2>4. BackupOK(p)' /\ SavedOK(p)' /\ AloneOK(p)'
    BY <1>a, <2>1, <2>2, ZenonT(40)
  <2> QED
    BY <2>3, <2>4
<1>30. CASE ExitCall(p)
  BY <1>a, <1>30, ExitKeeps, ZenonT(40) DEF ExitCall
<1>31. CASE Launch(p)
  BY <1>a, <1>b, <1>31, ProcAssumption, ZenonT(40) DEF Launch, TypeOK, ProcState, Image
<1>32. CASE Kill(p)
    BY <1>a, <1>b, <1>32, ProcAssumption, ZenonT(120) DEF Kill, TypeOK, ProcState, Outside,
     Image
<1>33. CASE \E q \in Pid : Fork(q, p)
  BY <1>a, <1>b, <1>33 DEF Alone, Fork, TypeOK, ProcState, At, IInv
<1> QED
    BY ZenonT(40), <1>1, <1>2, <1>3, <1>4, <1>5, <1>6, <1>7, <1>8, <1>9, <1>10, <1>11,
     <1>12, <1>13, <1>14, <1>15, <1>16, <1>17, <1>18, <1>19, <1>20, <1>21,
     <1>22, <1>23, <1>24, <1>25, <1>26, <1>27, <1>28, <1>29, <1>30, <1>31,
     <1>32, <1>33
  DEF Acts, Step, IndStep, InitStep, ExecStep, ExitStep
-----------------------------------------------------------------------------
\* The invariant holds at the start, when no process runs.
LEMMA InvInit ==
  ASSUME Init
  PROVE  IInv
<1>1. \A p \in Pid : me[p] = Outside(p, "new") /\ Outside(p, "new") \in ProcState
  BY ImageType, ZenonT(40) DEF Init, Outside, Control
<1>2. TypeOK
  BY <1>1 DEF Init, TypeOK, SlotState
<1>3. UniquePid
  BY SMTT(30) DEF Init, UniquePid, Slot
<1>4. ASSUME NEW p \in Pid PROVE Own(p)
  <2>1. /\ me[p].pc = "new" /\ me[p].todo = {"slot", "fin"} /\ ~ me[p].pid_meta_ind_set
        /\ me[p].saved = NoTable /\ backup[p] = NoTable
    BY <1>1 DEF Outside, Image, Init
  <2> QED
    BY <2>1 DEF Own, IndexOK, SlotsOK, TodoOK, BackupOK, SavedOK, AloneOK, AtOrTo, At,
                Creating, Getting
<1> QED
  BY <1>2, <1>3, <1>4 DEF IInv

\* Every step keeps the invariant.
LEMMA InvStep ==
  ASSUME IInv, [Next]_vars
  PROVE  IInv'
<1>1. CASE UNCHANGED vars
    BY <1>1, SMTT(30) DEF vars, IInv, TypeOK, UniquePid, Own, IndexOK, SlotsOK, TodoOK,
     BackupOK,
              SavedOK, AloneOK, AtOrTo, At, Mine, Alone
<1>2. ASSUME NEW p \in Pid, Acts(p) PROVE UniquePid' /\ \A q \in Pid : Own(q)'
  BY <1>2, FrameStep, UniqueStep, OwnStep, OthersStep
<1>3. TypeOK'
  BY TypeStep DEF IInv, Own
<1> QED
  BY <1>1, <1>2, <1>3, ZenonT(40) DEF Next, Acts, IInv

\* The invariant holds in every reachable state.
LEMMA Invariance == Spec => []IInv
  BY InvInit, InvStep, PTL DEF Spec

(* For any number of processes and slots: get_pid_meta_ind and its callers *)
(* never leave pid_meta, whichever races for a slot are lost.              *)
THEOREM TypeCorrect == Spec => []TypeOK
  BY Invariance, PTL DEF IInv

(* Whatever the interleaving of scans, locks and writes of process.c, no   *)
(* process comes to own two slots.                                         *)
THEOREM PidsUnique == Spec => []UniquePid
  BY Invariance, PTL DEF IInv

(* exit_intercept and ufs_fin, in either order and for a forked child too, *)
(* take away the slot and the saved table of the process that exits.       *)
THEOREM NothingLeft == Spec => []LeavesNothing
<1>1. IInv => LeavesNothing
  BY DEF IInv, Own, SlotsOK, BackupOK, LeavesNothing, At
<1> QED
  BY <1>1, Invariance, PTL

(* What restore_fd_backup reads after exec is what exec_fd_backup saved;   *)
(* if no other process was ever started, exec does keep the descriptors.   *)
THEOREM OwnRestored == Spec => []RestoredOwn
<1>1. IInv => RestoredOwn
  BY DEF IInv, Own, SavedOK, AloneOK, RestoredOwn, At
<1> QED
  BY <1>1, Invariance, PTL
=============================================================================
