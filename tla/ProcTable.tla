----------------------------- MODULE ProcTable ------------------------------
(***************************************************************************)
(* The life of a process under SpaceFish: system/util/process.c,           *)
(* lib/file_proc.c and the constructor and destructor of lib/ufs.c.        *)
(*                                                                         *)
(* Every process has a slot of the shared array pid_meta.  exec saves the  *)
(* descriptor table in a shared memory object named after the process and  *)
(* marks the slot; the constructor of the next program finds the mark and  *)
(* reads the table back.  On exit the slot and the object are given up.    *)
(* fork copies the caches pid_meta_ind, pid_meta_ind_set and pid.  Each    *)
(* access to a slot is a step; the scans for the own pid take no lock.     *)
(*                                                                         *)
(* A descriptor table is told apart by the process that last changed it;   *)
(* nothing sets FD_CLOEXEC, so close_cloexec closes nothing.  Process ids  *)
(* are not reused.  The build is the default one: VFORK_SIGNALING is off,  *)
(* and vfork is fork.  The file that exec starts is written to disk first; *)
(* module FileData models that.                                            *)
(***************************************************************************)
EXTENDS Integers, FiniteSets

CONSTANTS
  Pid, NoPid,         \* process ids; the pid 0 of a free slot
  OldPid,             \* a process that was killed before and left its slot
  MAX_EXEC_HANGING,   \* slots of pid_meta
  Std, NoTable        \* the table of init_fdTable; no saved table

Slot == 0 .. MAX_EXEC_HANGING - 1
Table == Pid \cup {Std}

ASSUME ProcAssumption ==
  /\ {NoPid, OldPid} \cap Pid = {} /\ NoPid # OldPid
  /\ NoTable \notin Table
  /\ MAX_EXEC_HANGING \in Nat

VARIABLES
  pid_meta,  \* pid, lock and fds_backed_up of each slot
  backup,    \* the objects ufs_fdbackup_<uid>_<pid>
  me         \* control point and globals of each process

vars == <<pid_meta, backup, me>>

(* ret is where get_pid_meta_ind returns to, k its loop variable, pid the  *)
(* global that names the backup, todo what exit still has to call; saved   *)
(* is history: the table that exec was called with.                        *)
Image(p, saved) ==
  [pc |-> "gp_cached", ret |-> "in_flag", k |-> 0, pid_meta_ind |-> 0,
   pid_meta_ind_set |-> FALSE, pid |-> p, fds |-> Std,
   todo |-> {"slot", "fin"}, saved |-> saved]

Outside(p, l) == [Image(p, NoTable) EXCEPT !.pc = l]

\* init_pid_meta frees every slot; the first one may have been left since.
Init ==
  /\ \E left \in {NoPid, OldPid} :
       pid_meta = [s \in Slot |-> [pid |-> IF s = 0 THEN left ELSE NoPid,
                                   lock |-> NoPid, fds_backed_up |-> FALSE]]
  /\ backup = [p \in Pid |-> NoTable]
  /\ me = [p \in Pid |-> Outside(p, "new")]

At(p, l) == me[p].pc = l
Goto(p, l) == me' = [me EXCEPT ![p].pc = l]
GetInd(p, ret) == [me[p] EXCEPT !.pc = "gp_cached", !.ret = ret]

\* exit, also from EHANDLE and UEHANDLE, a handler of exit included.
Exit(p) == Goto(p, "exit")

\* get_pid_meta_ind stores its result in the globals and returns.
Found(p) == me' = [me EXCEPT ![p] = [@ EXCEPT !.pc = me[p].ret, !.k = 0,
                                              !.pid_meta_ind = me[p].k,
                                              !.pid_meta_ind_set = TRUE]]
NextSlot(p, l) == me' = [me EXCEPT ![p].pc = l, ![p].k = @ + 1]

-----------------------------------------------------------------------------
(* get_pid_meta_ind *)

Mine(p, s) == pid_meta[s].pid = p

CachedHit(p) ==
  /\ At(p, "gp_cached") /\ Goto(p, me[p].ret)
  /\ me[p].pid_meta_ind_set /\ Mine(p, me[p].pid_meta_ind)
  /\ UNCHANGED <<pid_meta, backup>>

\* Mutant: the scan for the own pid is left out.
MutCachedMiss(p) ==
  /\ At(p, "gp_cached")
  /\ me' = [me EXCEPT ![p].pc = "gn_scan", ![p].k = 0]
  /\ ~ (me[p].pid_meta_ind_set /\ Mine(p, me[p].pid_meta_ind))
  /\ UNCHANGED <<pid_meta, backup>>

CachedMiss(p) ==
  /\ At(p, "gp_cached")
  /\ me' = [me EXCEPT ![p].pc = "gp_scan", ![p].k = 0]
  /\ ~ (me[p].pid_meta_ind_set /\ Mine(p, me[p].pid_meta_ind))
  /\ UNCHANGED <<pid_meta, backup>>

ScanMine(p) ==
  /\ At(p, "gp_scan") /\ me[p].k \in Slot
  /\ Mine(p, me[p].k)
  /\ Found(p)
  /\ UNCHANGED <<pid_meta, backup>>

ScanOther(p) ==
  /\ At(p, "gp_scan") /\ me[p].k \in Slot
  /\ ~ Mine(p, me[p].k)
  /\ NextSlot(p, "gp_scan")
  /\ UNCHANGED <<pid_meta, backup>>

ScanNone(p) ==
  /\ At(p, "gp_scan") /\ me[p].k = MAX_EXEC_HANGING
  /\ me' = [me EXCEPT ![p].pc = "gn_scan", ![p].k = 0]
  /\ UNCHANGED <<pid_meta, backup>>

(* get_new_pid_meta_ind: the pid is tested before the lock is taken, and   *)
(* written by the caller after the lock is given back.                     *)

NewTaken(p) ==
  /\ At(p, "gn_scan") /\ me[p].k \in Slot
  /\ pid_meta[me[p].k].pid # NoPid
  /\ NextSlot(p, "gn_scan")
  /\ UNCHANGED <<pid_meta, backup>>

NewFree(p) ==
  /\ At(p, "gn_scan") /\ me[p].k \in Slot
  /\ pid_meta[me[p].k].pid = NoPid
  /\ Goto(p, "gn_try")
  /\ UNCHANGED <<pid_meta, backup>>

\* UEHANDLE("pid_meta array full!\n")
NewFull(p) ==
  /\ At(p, "gn_scan") /\ me[p].k = MAX_EXEC_HANGING
  /\ Exit(p)
  /\ UNCHANGED <<pid_meta, backup>>

\* Mutant: a busy slot is tried again instead of passed over.
MutTryBusy(p) ==
  /\ At(p, "gn_try") /\ pid_meta[me[p].k].lock # NoPid
  /\ Goto(p, "gn_scan")
  /\ UNCHANGED <<pid_meta, backup>>

\* Mutant: i is incremented by the branch and by the loop.
MutTryBusyTwice(p) ==
  /\ At(p, "gn_try") /\ pid_meta[me[p].k].lock # NoPid
  /\ me' = [me EXCEPT ![p].pc = "gn_scan", ![p].k = @ + 2]
  /\ UNCHANGED <<pid_meta, backup>>

TryBusy(p) ==
  /\ At(p, "gn_try") /\ pid_meta[me[p].k].lock # NoPid
  /\ NextSlot(p, "gn_scan")
  /\ UNCHANGED <<pid_meta, backup>>

TryLock(p) ==
  /\ At(p, "gn_try") /\ pid_meta[me[p].k].lock = NoPid
  /\ pid_meta' = [pid_meta EXCEPT ![me[p].k].lock = p]
  /\ Goto(p, "gn_unlock")
  /\ UNCHANGED backup

NewUnlock(p) ==
  /\ At(p, "gn_unlock") /\ Goto(p, "gp_write")
  /\ pid_meta' = [pid_meta EXCEPT ![me[p].k].lock = NoPid]
  /\ UNCHANGED backup

WritePid(p) ==
  /\ At(p, "gp_write") /\ Found(p)
  /\ pid_meta' = [pid_meta EXCEPT ![me[p].k].pid = p]
  /\ UNCHANGED backup

-----------------------------------------------------------------------------
(* A program starts: by a shell outside SpaceFish, by fork, by exec.       *)

Launch(p) ==
  /\ At(p, "new")
  /\ me' = [me EXCEPT ![p] = Image(p, NoTable)]
  /\ UNCHANGED <<pid_meta, backup>>

\* The child runs with the memory of its parent, the cached pid included.
Fork(p, q) ==
  /\ At(p, "run") /\ At(q, "new")
  /\ me' = [me EXCEPT ![q] = [me[p] EXCEPT !.saved = NoTable]]
  /\ UNCHANGED <<pid_meta, backup>>

\* ufs_init, with its slot at hand
NotBackedUp(p) ==
  /\ At(p, "in_flag") /\ Goto(p, "run")
  /\ ~ pid_meta[me[p].pid_meta_ind].fds_backed_up
  /\ UNCHANGED <<pid_meta, backup>>

BackedUp(p) ==
  /\ At(p, "in_flag") /\ Goto(p, "rs_open")
  /\ pid_meta[me[p].pid_meta_ind].fds_backed_up
  /\ UNCHANGED <<pid_meta, backup>>

\* restore_fd_backup; the object is kept
Restore(p) ==
  /\ At(p, "rs_open")
  /\ backup[me[p].pid] # NoTable
  /\ me' = [me EXCEPT ![p].pc = "rs_clear", ![p].fds = backup[me[p].pid]]
  /\ UNCHANGED <<pid_meta, backup>>

RestoreMissing(p) ==
  /\ At(p, "rs_open")
  /\ backup[me[p].pid] = NoTable
  /\ Exit(p)
  /\ UNCHANGED <<pid_meta, backup>>

ClearFlag(p) ==
  /\ At(p, "rs_clear") /\ Goto(p, "run")
  /\ pid_meta' = [pid_meta EXCEPT ![me[p].pid_meta_ind].fds_backed_up = FALSE]
  /\ UNCHANGED backup

-----------------------------------------------------------------------------
(* The program runs. *)

\* open and close change the descriptor table.
Use(p) ==
  /\ At(p, "run") /\ me[p].fds # p
  /\ me' = [me EXCEPT ![p].fds = p, ![p].saved = NoTable]
  /\ UNCHANGED <<pid_meta, backup>>

\* Mutant: the pid inherited from the parent is not refreshed.
MutExec(p) ==
  /\ At(p, "run")
  /\ me' = [me EXCEPT ![p] = [GetInd(p, "bk_open") EXCEPT !.saved = me[p].fds]]
  /\ UNCHANGED <<pid_meta, backup>>

\* execv, execvp, execve: exec_fd_backup
Exec(p) ==
  /\ At(p, "run")
  /\ me' = [me EXCEPT ![p] = [GetInd(p, "bk_open") EXCEPT !.pid = p, !.saved = me[p].fds]]
  /\ UNCHANGED <<pid_meta, backup>>

\* Mutant: no O_EXCL, and an object that exists is taken to be up to date.
MutBackup(p) ==
  /\ At(p, "bk_open") /\ Goto(p, "bk_flag")
  /\ backup' = [backup EXCEPT ![me[p].pid] = IF @ = NoTable THEN me[p].fds ELSE @]
  /\ UNCHANGED pid_meta

\* The object is created with O_EXCL and filled; nobody else reads it.
Backup(p) ==
  /\ At(p, "bk_open") /\ Goto(p, "bk_flag")
  /\ backup[me[p].pid] = NoTable
  /\ backup' = [backup EXCEPT ![me[p].pid] = me[p].fds]
  /\ UNCHANGED pid_meta

\* EHANDLE("shm_open", ...): the object of an earlier exec is still there.
BackupExists(p) ==
  /\ At(p, "bk_open")
  /\ backup[me[p].pid] # NoTable
  /\ Exit(p)
  /\ UNCHANGED <<pid_meta, backup>>

SetFlag(p) ==
  /\ At(p, "bk_flag") /\ Goto(p, "exec")
  /\ pid_meta' = [pid_meta EXCEPT ![me[p].pid_meta_ind].fds_backed_up = TRUE]
  /\ UNCHANGED backup

RealExec(p) ==
  /\ At(p, "exec")
  /\ me' = [me EXCEPT ![p] = Image(p, me[p].saved)]
  /\ UNCHANGED <<pid_meta, backup>>

RealExecFails(p) ==
  /\ At(p, "exec") /\ Exit(p)
  /\ UNCHANGED <<pid_meta, backup>>

-----------------------------------------------------------------------------
(* exit calls exit_intercept and ufs_fin; their order is the toolchain's.  *)

ExitCall(p) ==
  /\ At(p, "run") /\ Exit(p)
  /\ UNCHANGED <<pid_meta, backup>>

exit_intercept(p) ==
  /\ At(p, "exit") /\ "slot" \in me[p].todo
  /\ me' = [me EXCEPT ![p] = [GetInd(p, "rm_pid") EXCEPT !.todo = @ \ {"slot"}]]
  /\ UNCHANGED <<pid_meta, backup>>

\* remove_pid_slot
RemovePid(p) ==
  /\ At(p, "rm_pid") /\ Goto(p, "rm_flag")
  /\ pid_meta' = [pid_meta EXCEPT ![me[p].pid_meta_ind].pid = NoPid]
  /\ UNCHANGED backup

RemoveFlag(p) ==
  /\ At(p, "rm_flag") /\ Goto(p, "exit")
  /\ pid_meta' = [pid_meta EXCEPT ![me[p].pid_meta_ind].fds_backed_up = FALSE]
  /\ UNCHANGED backup

\* A forked child that never called exec has its parent's pid here.
ufs_fin(p) ==
  /\ At(p, "exit") /\ "fin" \in me[p].todo
  /\ backup' = [backup EXCEPT ![me[p].pid] = NoTable]
  /\ me' = [me EXCEPT ![p].todo = @ \ {"fin"}]
  /\ UNCHANGED pid_meta

Gone(p) ==
  /\ At(p, "exit") /\ me[p].todo = {}
  /\ me' = [me EXCEPT ![p] = Outside(p, "gone")]
  /\ UNCHANGED <<pid_meta, backup>>

Kill(p) ==
  /\ me[p].pc \notin {"new", "gone", "killed"}
  /\ me' = [me EXCEPT ![p] = Outside(p, "killed")]
  /\ UNCHANGED <<pid_meta, backup>>

-----------------------------------------------------------------------------
IndStep(p) ==
  \/ CachedHit(p) \/ CachedMiss(p) \/ ScanMine(p) \/ ScanOther(p) \/ ScanNone(p)
  \/ NewTaken(p) \/ NewFree(p) \/ NewFull(p) \/ TryBusy(p) \/ TryLock(p)
  \/ NewUnlock(p) \/ WritePid(p)

InitStep(p) ==
  \/ NotBackedUp(p) \/ BackedUp(p) \/ Restore(p) \/ RestoreMissing(p) \/ ClearFlag(p)

ExecStep(p) ==
  \/ Backup(p) \/ BackupExists(p) \/ SetFlag(p) \/ RealExec(p) \/ RealExecFails(p)

ExitStep(p) ==
  \/ exit_intercept(p) \/ RemovePid(p) \/ RemoveFlag(p) \/ ufs_fin(p) \/ Gone(p)

Step(p) == IndStep(p) \/ InitStep(p) \/ ExecStep(p) \/ ExitStep(p)

Next ==
  \E p \in Pid :
    \/ Step(p) \/ Use(p) \/ Exec(p) \/ ExitCall(p)
    \/ Launch(p) \/ Kill(p) \/ \E q \in Pid : Fork(p, q)

Spec == Init /\ [][Next]_vars /\ \A p \in Pid : WF_vars(Step(p))

-----------------------------------------------------------------------------
Control ==
  {"new", "gp_cached", "gp_scan", "gn_scan", "gn_try", "gn_unlock", "gp_write",
   "in_flag", "rs_open", "rs_clear", "run", "bk_open", "bk_flag", "exec", "exit",
   "rm_pid", "rm_flag", "gone", "killed"}

SlotState == [pid : Pid \cup {NoPid, OldPid}, lock : Pid \cup {NoPid},
              fds_backed_up : BOOLEAN]

ProcState == [pc : Control, ret : {"in_flag", "bk_open", "rm_pid"},
              k : 0 .. MAX_EXEC_HANGING, pid_meta_ind : Slot \cup {0},
              pid_meta_ind_set : BOOLEAN, pid : Pid, fds : Table,
              todo : SUBSET {"slot", "fin"}, saved : Table \cup {NoTable}]

(* The caches and loop variables of process.c stay inside pid_meta.        *)
TypeOK ==
  /\ pid_meta \in [Slot -> SlotState]
  /\ backup \in [Pid -> Table \cup {NoTable}]
  /\ me \in [Pid -> ProcState]

(* Although get_new_pid_meta_ind tests a slot before it locks it and the   *)
(* pid is written after the unlock, so that two processes may take one     *)
(* slot, no process ever has two: get_pid_meta_ind looks for the own pid   *)
(* first, and the slot a process lost is found again by nobody.            *)
UniquePid ==
  \A s, t \in Slot :
    pid_meta[s].pid = pid_meta[t].pid /\ pid_meta[s].pid # NoPid => s = t

(* A process that exits, at whatever point and after whatever races for    *)
(* its slot, leaves neither a slot nor a saved table behind: the array of  *)
(* slots only fills up with processes that run or were killed.             *)
LeavesNothing ==
  \A p \in Pid : At(p, "gone") =>
    backup[p] = NoTable /\ \A s \in Slot : ~ Mine(p, s)

\* No other process was ever started.
Alone(p) == \A q \in Pid \ {p} : At(q, "new")

(* A program that ufs_init gives a saved table gets the one its            *)
(* predecessor passed to its last exec, never an older one and never that  *)
(* of another process; with no other process about, it always gets it.     *)
RestoredOwn ==
  \A p \in Pid : me[p].saved # NoTable =>
    /\ At(p, "rs_clear") => me[p].fds = me[p].saved
    /\ At(p, "run") /\ Alone(p) => me[p].fds = me[p].saved

(* ufs_init, exec and exit end although other processes may be killed      *)
(* holding the lock of a slot: a slot that is busy is passed over.         *)
CallEnds ==
  \A p \in Pid : me[p].pc \notin {"new", "run"} ~> me[p].pc \in {"run", "gone", "killed"}
=============================================================================
