----------------------------- MODULE MetaTable ------------------------------
(***************************************************************************)
(* The file table of system/util/meta_shm.c and the calls of               *)
(* lib/file_syscalls.c and lib/file_meta.c that search and change it:      *)
(* stat (get_mbucket), open with O_CREAT (get_mbucket, then                *)
(* create_new_file), unlink (release_meta_bucket), rename (mb_chpath).     *)
(*                                                                         *)
(* A row of the hash table is a linked list of metadata buckets behind one *)
(* read-write lock (module RWLock, whose steps are repeated here for every *)
(* row).  A reader walks a list one bucket per step.  A search under the   *)
(* write lock is one step: only writers change a list.  Each store that a  *)
(* process not holding the row could see is a step.  allocate_mbucket      *)
(* claims a bucket by the protocol of module BucketAlloc, which implements *)
(* a claim in one step.                                                    *)
(***************************************************************************)
EXTENDS Integers, FiniteSets, Sequences

CONSTANTS
  Proc, NoProc,
  Path, NoPath,   \* absolute paths; the path of a bucket never used
  Row, hash,      \* rows of the table, and the row of each path
  META_BUCKETS,
  Sessions        \* of each session, files: the paths uploaded at start-up,
                  \* in order; calls: the calls each process may make

NIL == -1
MBucket == 0 .. META_BUCKETS - 1
\* rename of a path to itself returns at once; the other calls have one path.
Job == {j \in [op : {"stat", "open", "unlink", "rename"}, old : Path, new : Path] :
          j.op = "rename" <=> j.old # j.new}
NoJob == [op |-> "none", old |-> NoPath, new |-> NoPath]

ASSUME TableAssumption ==
  /\ IsFiniteSet(Proc) /\ NoProc \notin Proc /\ NoPath \notin Path
  /\ hash \in [Path -> Row]
  /\ META_BUCKETS \in Nat \ {0}
  /\ \A s \in DOMAIN Sessions :
       /\ Sessions[s].files \in Seq(Path) /\ Len(Sessions[s].files) <= META_BUCKETS
       /\ Sessions[s].calls \in [Proc -> SUBSET Job]

VARIABLES
  hash_table,  \* first_ix and the words of the urw_lock of each row
  mb_arr,      \* the metadata buckets; data: first_dbucket is set
  me           \* control point and locals of each process

vars == <<hash_table, mb_arr, me>>

(* ret is where the running callee returns to, str and row its argument;   *)
(* mb and prev are the results of a search, mb_new and new_prev those of   *)
(* mb_chpath's second search; start and i belong to allocate_mbucket.      *)
Idle(session) ==
  [pc |-> "idle", session |-> session, job |-> NoJob, ret |-> "idle", str |-> NoPath,
   row |-> NIL, mb |-> NIL, prev |-> NIL, mb_new |-> NIL, new_prev |-> NIL,
   start |-> 0, i |-> 0]

\* The lists that upload_dir leaves: file k in bucket k - 1.
InRow(files, r) == {k \in DOMAIN files : hash[files[k]] = r}
Least(S) == IF S = {} THEN NIL ELSE (CHOOSE k \in S : \A m \in S : k <= m) - 1

Uploaded(files) ==
  /\ hash_table = [r \in Row |-> [first_ix |-> Least(InRow(files, r)), num_readers |-> 0,
                                  num_writers |-> 0, real_lock |-> NoProc]]
  /\ mb_arr = [b \in MBucket |->
       IF b < Len(files)
         THEN [in_use |-> TRUE, path |-> files[b + 1], data |-> TRUE, lock |-> NoProc,
               next_ix |-> Least({k \in InRow(files, hash[files[b + 1]]) : k > b + 1})]
         ELSE [in_use |-> FALSE, path |-> NoPath, data |-> FALSE, lock |-> NoProc,
               next_ix |-> NIL]]

Init == \E s \in DOMAIN Sessions :
          Uploaded(Sessions[s].files) /\ me = [p \in Proc |-> Idle(s)]

At(p, l) == me[p].pc = l
Goto(p, l) == me' = [me EXCEPT ![p].pc = l]

\* Calls of lock_rw and unlock_rw on the row of path f, returning to l.
Entered(p, lock, f, l) ==
  [me[p] EXCEPT !.pc = lock, !.str = f, !.row = hash[f], !.ret = l]
DownRead(p, f, l)  == me' = [me EXCEPT ![p] = Entered(p, "dr_wait", f, l)]
DownWrite(p, f, l) == me' = [me EXCEPT ![p] = Entered(p, "dw_reg", f, l)]
UpWrite(p, f, l)   == me' = [me EXCEPT ![p] = Entered(p, "uw_dec", f, l)]

\* Return from a callee; the locals of a finished call are dead.
Resume(p) ==
  me' = [me EXCEPT ![p] =
           IF me[p].ret = "idle" THEN Idle(me[p].session) ELSE [me[p] EXCEPT !.pc = me[p].ret]]
Finish(p) == me' = [me EXCEPT ![p] = Idle(me[p].session)]

Calls(p) == Sessions[me[p].session].calls[p]

-----------------------------------------------------------------------------
(* rwlock.c, on the row of the running callee.                             *)

Lock(p) == hash_table[me[p].row]
SetLock(p, l) == hash_table' = [hash_table EXCEPT ![me[p].row] = l]

WriterRegister(p) ==
  /\ At(p, "dw_reg") /\ Goto(p, "dw_wait")
  /\ SetLock(p, [Lock(p) EXCEPT !.num_writers = @ + 1])
  /\ UNCHANGED mb_arr

WriterSeesNoReader(p) ==
  /\ At(p, "dw_wait") /\ Goto(p, "dw_spin")
  /\ Lock(p).num_readers = 0
  /\ UNCHANGED <<hash_table, mb_arr>>

WriterLock(p) ==
  /\ At(p, "dw_spin") /\ Resume(p)
  /\ Lock(p).real_lock = NoProc
  /\ SetLock(p, [Lock(p) EXCEPT !.real_lock = p])
  /\ UNCHANGED mb_arr

\* Mutant: unlock_rw gives back num_readers for a writer.
MutWriterDeregister(p) ==
  /\ At(p, "uw_dec") /\ Goto(p, "uw_spin")
  /\ SetLock(p, [Lock(p) EXCEPT !.num_readers = @ - 1])
  /\ UNCHANGED mb_arr

WriterDeregister(p) ==
  /\ At(p, "uw_dec") /\ Goto(p, "uw_spin")
  /\ SetLock(p, [Lock(p) EXCEPT !.num_writers = @ - 1])
  /\ UNCHANGED mb_arr

WriterUnlock(p) ==
  /\ At(p, "uw_spin") /\ Resume(p)
  /\ SetLock(p, [Lock(p) EXCEPT !.real_lock = NoProc])
  /\ UNCHANGED mb_arr

ReaderSeesNoWriter(p) ==
  /\ At(p, "dr_wait") /\ Goto(p, "dr_add")
  /\ Lock(p).num_writers = 0
  /\ UNCHANGED <<hash_table, mb_arr>>

ReaderRegister(p) ==
  /\ At(p, "dr_add") /\ Goto(p, "get_first")
  /\ SetLock(p, [Lock(p) EXCEPT !.num_readers = @ + 1])
  /\ UNCHANGED mb_arr

ReaderDeregister(p) ==
  /\ At(p, "ur_dec") /\ Resume(p)
  /\ SetLock(p, [Lock(p) EXCEPT !.num_readers = @ - 1])
  /\ UNCHANGED mb_arr

-----------------------------------------------------------------------------
(* The system calls.  stat, open and unlink take the path job.old.         *)

Call(p, j) ==
  /\ At(p, "idle")
  /\ me' = [me EXCEPT ![p] =
       [@ EXCEPT !.job = j, !.str = j.old, !.row = hash[j.old],
                 !.pc = IF j.op \in {"stat", "open"} THEN "dr_wait" ELSE "dw_reg",
                 !.ret = CASE j.op = "stat"   -> "idle"
                           [] j.op = "open"   -> "open_looked"
                           [] j.op = "unlink" -> "rl_find"
                           [] j.op = "rename" -> "ch_second"]]
  /\ UNCHANGED <<hash_table, mb_arr>>

(* get_mbucket: the walk of a reader.                                      *)

GetFirst(p) ==
  /\ At(p, "get_first")
  /\ me' = [me EXCEPT ![p].pc = "get_walk", ![p].mb = Lock(p).first_ix]
  /\ UNCHANGED <<hash_table, mb_arr>>

GetMatch(p) ==
  /\ At(p, "get_walk") /\ Goto(p, "ur_dec")
  /\ me[p].mb # NIL
  /\ mb_arr[me[p].mb].path = me[p].str
  /\ UNCHANGED <<hash_table, mb_arr>>

GetNext(p) ==
  /\ At(p, "get_walk")
  /\ me[p].mb # NIL
  /\ mb_arr[me[p].mb].path # me[p].str
  /\ me' = [me EXCEPT ![p].mb = mb_arr[@].next_ix]
  /\ UNCHANGED <<hash_table, mb_arr>>

GetNone(p) ==
  /\ At(p, "get_walk") /\ Goto(p, "ur_dec")
  /\ me[p].mb = NIL
  /\ UNCHANGED <<hash_table, mb_arr>>

(* The search of a writer: the buckets of a list in order, and the first   *)
(* that has the path with its predecessor (get_mb_and_prev).               *)

Walk(r) ==
  LET at[k \in 0 .. META_BUCKETS] ==
        IF k = 0 THEN hash_table[r].first_ix
        ELSE IF at[k - 1] = NIL THEN NIL ELSE mb_arr[at[k - 1]].next_ix
  IN  at

Members(r) == {Walk(r)[k] : k \in 0 .. META_BUCKETS} \ {NIL}

Last(r) == IF Members(r) = {} THEN NIL
           ELSE CHOOSE b \in Members(r) : mb_arr[b].next_ix = NIL

get_mb_and_prev(f) ==
  LET w    == Walk(hash[f])
      hits == {k \in 0 .. META_BUCKETS - 1 : w[k] # NIL /\ mb_arr[w[k]].path = f}
      k    == CHOOSE h \in hits : \A m \in hits : h <= m
  IN  IF hits = {} THEN [mb |-> NIL, prev |-> Last(hash[f])]
      ELSE [mb |-> w[k], prev |-> IF k = 0 THEN NIL ELSE w[k - 1]]

\* The link that leads to a bucket: the row's first_ix or prev's next_ix.
SetLink(r, prev, b) ==
  IF prev = NIL
    THEN /\ hash_table' = [hash_table EXCEPT ![r].first_ix = b]
         /\ UNCHANGED mb_arr
    ELSE /\ mb_arr' = [mb_arr EXCEPT ![prev].next_ix = b]
         /\ UNCHANGED hash_table

-----------------------------------------------------------------------------
(* open with O_CREAT, for a file that is not on disk.                      *)

OpenExisting(p) ==
  /\ At(p, "open_looked")
  /\ me[p].mb # NIL
  /\ Finish(p)
  /\ UNCHANGED <<hash_table, mb_arr>>

OpenNew(p) ==
  /\ At(p, "open_looked")
  /\ me[p].mb = NIL
  /\ DownWrite(p, me[p].str, "cr_find")
  /\ UNCHANGED <<hash_table, mb_arr>>

(* strict_create_mbucket                                                   *)

CreateExists(p) ==
  /\ At(p, "cr_find")
  /\ get_mb_and_prev(me[p].str).mb # NIL
  /\ UpWrite(p, me[p].str, "idle")
  /\ UNCHANGED <<hash_table, mb_arr>>

CreateAbsent(p) ==
  /\ At(p, "cr_find")
  /\ get_mb_and_prev(me[p].str).mb = NIL
  /\ \E s \in MBucket :
       me' = [me EXCEPT ![p].pc = "cr_alloc", ![p].start = s, ![p].i = 0,
                        ![p].prev = get_mb_and_prev(me[p].str).prev]
  /\ UNCHANGED <<hash_table, mb_arr>>

(* allocate_mbucket, from a random bucket on.                              *)

current_ix(p) == (me[p].start + me[p].i) % META_BUCKETS
Free(b) == ~ mb_arr[b].in_use /\ mb_arr[b].lock = NoProc

AllocateSkip(p) ==
  /\ At(p, "cr_alloc")
  /\ me[p].i < META_BUCKETS
  /\ ~ Free(current_ix(p))
  /\ me' = [me EXCEPT ![p].i = @ + 1]
  /\ UNCHANGED <<hash_table, mb_arr>>

AllocateClaim(p) ==
  /\ At(p, "cr_alloc")
  /\ me[p].i < META_BUCKETS
  /\ Free(current_ix(p))
  /\ mb_arr' = [mb_arr EXCEPT ![current_ix(p)].in_use = TRUE]
  /\ me' = [me EXCEPT ![p].pc = "cr_link", ![p].mb = current_ix(p)]
  /\ UNCHANGED hash_table

\* Mutant: the early return of a full table forgets up_write.
MutAllocateNone(p) ==
  /\ At(p, "cr_alloc")
  /\ me[p].i = META_BUCKETS
  /\ Finish(p)
  /\ UNCHANGED <<hash_table, mb_arr>>

\* open fails with ENOSPC.
AllocateNone(p) ==
  /\ At(p, "cr_alloc")
  /\ me[p].i = META_BUCKETS
  /\ UpWrite(p, me[p].str, "idle")
  /\ UNCHANGED <<hash_table, mb_arr>>

CreateLink(p) ==
  /\ At(p, "cr_link")
  /\ SetLink(me[p].row, me[p].prev, me[p].mb)
  /\ UpWrite(p, me[p].str, "cr_data")

(* create_new_file, after the row is unlocked: first_dbucket, then path.   *)

CreateData(p) ==
  /\ At(p, "cr_data") /\ Goto(p, "cr_path")
  /\ mb_arr' = [mb_arr EXCEPT ![me[p].mb].data = TRUE]
  /\ UNCHANGED hash_table

CreatePath(p) ==
  /\ At(p, "cr_path") /\ Finish(p)
  /\ mb_arr' = [mb_arr EXCEPT ![me[p].mb].path = me[p].str]
  /\ UNCHANGED hash_table

-----------------------------------------------------------------------------
(* release_meta_bucket                                                     *)

ReleaseAbsent(p) ==
  /\ At(p, "rl_find")
  /\ get_mb_and_prev(me[p].str).mb = NIL
  /\ UpWrite(p, me[p].str, "idle")
  /\ UNCHANGED <<hash_table, mb_arr>>

ReleaseFound(p) ==
  /\ At(p, "rl_find")
  /\ LET f == get_mb_and_prev(me[p].str) IN
       /\ f.mb # NIL
       /\ me' = [me EXCEPT ![p].pc = "rl_unlink", ![p].mb = f.mb, ![p].prev = f.prev]
  /\ UNCHANGED <<hash_table, mb_arr>>

\* Mutant: the row's first bucket is unlinked whatever the search found.
MutReleaseUnlink(p) ==
  /\ At(p, "rl_unlink") /\ Goto(p, "rl_next")
  /\ SetLink(me[p].row, NIL, mb_arr[me[p].mb].next_ix)

ReleaseUnlink(p) ==
  /\ At(p, "rl_unlink") /\ Goto(p, "rl_next")
  /\ SetLink(me[p].row, me[p].prev, mb_arr[me[p].mb].next_ix)

\* Mutant: next_ix keeps its value in the released bucket.
MutReleaseNext(p) ==
  /\ At(p, "rl_next")
  /\ UpWrite(p, me[p].str, "mb_lock")
  /\ UNCHANGED <<hash_table, mb_arr>>

ReleaseNext(p) ==
  /\ At(p, "rl_next")
  /\ mb_arr' = [mb_arr EXCEPT ![me[p].mb].next_ix = NIL]
  /\ UpWrite(p, me[p].str, "mb_lock")
  /\ UNCHANGED hash_table

(* The bucket is marked free under its own lock.  mb_chpath frees the      *)
(* bucket it overwrites in the same way, still holding both rows, and      *)
(* clears its next_ix only here.                                           *)

BucketLock(p) ==
  /\ At(p, "mb_lock") /\ Goto(p, "mb_clear")
  /\ mb_arr[me[p].mb].lock = NoProc
  /\ mb_arr' = [mb_arr EXCEPT ![me[p].mb].lock = p]
  /\ UNCHANGED hash_table

BucketClear(p) ==
  /\ At(p, "mb_clear") /\ Goto(p, "mb_unlock")
  /\ mb_arr' = [mb_arr EXCEPT
                   ![me[p].mb].in_use = FALSE, ![me[p].mb].data = FALSE,
                   ![me[p].mb].next_ix = IF me[p].job.op = "rename" THEN NIL ELSE @]
  /\ UNCHANGED hash_table

BucketUnlock(p) ==
  /\ At(p, "mb_unlock")
  /\ mb_arr' = [mb_arr EXCEPT ![me[p].mb].lock = NoProc]
  /\ IF me[p].job.op = "rename" THEN UpWrite(p, me[p].job.new, "ch_unlock")
                                ELSE Finish(p)
  /\ UNCHANGED hash_table

-----------------------------------------------------------------------------
(* rename: mb_chpath, then get_mbucket of the new path.                    *)

ChpathSecond(p) ==
  /\ At(p, "ch_second")
  /\ DownWrite(p, me[p].job.new, "ch_find")
  /\ UNCHANGED <<hash_table, mb_arr>>

\* mb_chpath returns -1 here without unlocking the two rows.
ChpathAbsent(p) ==
  /\ At(p, "ch_find") /\ Goto(p, "rn_disk")
  /\ get_mb_and_prev(me[p].job.old).mb = NIL
  /\ UNCHANGED <<hash_table, mb_arr>>

ChpathFound(p) ==
  /\ At(p, "ch_find")
  /\ LET o == get_mb_and_prev(me[p].job.old)
         n == get_mb_and_prev(me[p].job.new)
     IN  /\ o.mb # NIL
         /\ me' = [me EXCEPT ![p].pc = "ch_path", ![p].mb = o.mb, ![p].prev = o.prev,
                             ![p].mb_new = n.mb, ![p].new_prev = n.prev]
  /\ UNCHANGED <<hash_table, mb_arr>>

ChpathPath(p) ==
  /\ At(p, "ch_path") /\ Goto(p, "ch_unlink")
  /\ mb_arr' = [mb_arr EXCEPT ![me[p].mb].path = me[p].job.new]
  /\ UNCHANGED hash_table

ChpathUnlink(p) ==
  /\ At(p, "ch_unlink") /\ Goto(p, "ch_next")
  /\ SetLink(hash[me[p].job.old], me[p].prev, mb_arr[me[p].mb].next_ix)

ChpathNext(p) ==
  /\ At(p, "ch_next") /\ Goto(p, "ch_link")
  /\ mb_arr' = [mb_arr EXCEPT ![me[p].mb].next_ix =
                  IF me[p].mb_new = NIL THEN NIL ELSE mb_arr[me[p].mb_new].next_ix]
  /\ UNCHANGED hash_table

ChpathLink(p) ==
  /\ At(p, "ch_link")
  /\ me[p].mb_new = NIL
  /\ SetLink(hash[me[p].job.new], me[p].new_prev, me[p].mb)
  /\ UpWrite(p, me[p].job.new, "ch_unlock")

ChpathReplace(p) ==
  /\ At(p, "ch_link")
  /\ me[p].mb_new # NIL
  /\ SetLink(hash[me[p].job.new], me[p].new_prev, me[p].mb)
  /\ me' = [me EXCEPT ![p].pc = "mb_lock", ![p].mb = me[p].mb_new]

ChpathUnlockOld(p) ==
  /\ At(p, "ch_unlock")
  /\ UpWrite(p, me[p].job.old, "rn_get")
  /\ UNCHANGED <<hash_table, mb_arr>>

RenameGet(p) ==
  /\ At(p, "rn_get")
  /\ DownRead(p, me[p].job.new, "rn_mark")
  /\ UNCHANGED <<hash_table, mb_arr>>

\* MB_MODIFY dereferences the result of get_mbucket.
RenameMark(p) ==
  /\ At(p, "rn_mark")
  /\ IF me[p].mb = NIL THEN Goto(p, "crashed") ELSE Finish(p)
  /\ UNCHANGED <<hash_table, mb_arr>>

RenameDiskFails(p) ==
  /\ At(p, "rn_disk") /\ Finish(p)
  /\ UNCHANGED <<hash_table, mb_arr>>

\* The caller still holds the row it now asks to read, and never gets it.
RenameDiskDone(p) ==
  /\ At(p, "rn_disk")
  /\ DownRead(p, me[p].job.new, "idle")
  /\ UNCHANGED <<hash_table, mb_arr>>

-----------------------------------------------------------------------------
LockStep(p) ==
  \/ WriterRegister(p) \/ WriterSeesNoReader(p) \/ WriterLock(p)
  \/ WriterDeregister(p) \/ WriterUnlock(p)
  \/ ReaderSeesNoWriter(p) \/ ReaderRegister(p) \/ ReaderDeregister(p)

LookupStep(p) == GetFirst(p) \/ GetMatch(p) \/ GetNext(p) \/ GetNone(p)

OpenStep(p) ==
  \/ OpenExisting(p) \/ OpenNew(p) \/ CreateExists(p) \/ CreateAbsent(p)
  \/ AllocateSkip(p) \/ AllocateClaim(p) \/ AllocateNone(p)
  \/ CreateLink(p) \/ CreateData(p) \/ CreatePath(p)

ReleaseStep(p) ==
  \/ ReleaseAbsent(p) \/ ReleaseFound(p) \/ ReleaseUnlink(p) \/ ReleaseNext(p)
  \/ BucketLock(p) \/ BucketClear(p) \/ BucketUnlock(p)

RenameStep(p) ==
  \/ ChpathSecond(p) \/ ChpathAbsent(p) \/ ChpathFound(p) \/ ChpathPath(p)
  \/ ChpathUnlink(p) \/ ChpathNext(p) \/ ChpathLink(p) \/ ChpathReplace(p)
  \/ ChpathUnlockOld(p) \/ RenameGet(p) \/ RenameMark(p)
  \/ RenameDiskFails(p) \/ RenameDiskDone(p)

Step(p) ==
  LockStep(p) \/ LookupStep(p) \/ OpenStep(p) \/ ReleaseStep(p) \/ RenameStep(p)

Next == \E p \in Proc : Step(p) \/ \E j \in Calls(p) : Call(p, j)

Spec == Init /\ [][Next]_vars

-----------------------------------------------------------------------------
Control ==
  {"idle", "dw_reg", "dw_wait", "dw_spin", "uw_dec", "uw_spin", "dr_wait", "dr_add",
   "ur_dec", "get_first", "get_walk", "open_looked", "cr_find", "cr_alloc", "cr_link",
   "cr_data", "cr_path", "rl_find", "rl_unlink", "rl_next", "mb_lock", "mb_clear",
   "mb_unlock", "ch_second", "ch_find", "ch_path", "ch_unlink", "ch_next", "ch_link",
   "ch_unlock", "rn_get", "rn_mark", "rn_disk", "crashed"}

(* Every link is a bucket or the end of a list, and no row's counters go   *)
(* below zero.                                                             *)
TypeOK ==
  /\ hash_table \in [Row -> [first_ix : MBucket \cup {NIL}, num_readers : Nat,
                             num_writers : Nat, real_lock : Proc \cup {NoProc}]]
  /\ mb_arr \in [MBucket -> [in_use : BOOLEAN, path : Path \cup {NoPath},
                             data : BOOLEAN, lock : Proc \cup {NoProc},
                             next_ix : MBucket \cup {NIL}]]
  /\ DOMAIN me = Proc
  /\ \A p \in Proc :
       /\ me[p].session \in DOMAIN Sessions /\ me[p].pc \in Control /\ me[p].ret \in Control
       /\ {me[p].mb, me[p].prev, me[p].mb_new, me[p].new_prev} \subseteq MBucket \cup {NIL}
       /\ me[p].i \in 0 .. META_BUCKETS /\ me[p].start \in MBucket

(* Whatever calls interleave, every row stays a finite list that ends, no  *)
(* bucket is on two lists, and every bucket on a list is in use: a walk    *)
(* terminates and allocate_mbucket never takes a bucket that is linked.    *)
ListsSound ==
  /\ \A r \in Row : Walk(r)[META_BUCKETS] = NIL
  /\ \A r, s \in Row : r # s => Members(r) \cap Members(s) = {}
  /\ \A r \in Row : \A b \in Members(r) : mb_arr[b].in_use

\* The bucket that p has claimed and not linked, or unlinked and not freed.
InHand(p) ==
  IF \/ me[p].pc \in {"cr_link", "rl_next", "mb_lock", "mb_clear", "ch_next", "ch_link"}
     \/ me[p].pc \in {"uw_dec", "uw_spin"} /\ me[p].ret = "mb_lock"
    THEN {me[p].mb} ELSE {}

(* No metadata bucket is lost: one that is in use is on exactly one list,  *)
(* or in the hands of exactly one process that will link or free it.       *)
NoOrphan ==
  \A b \in MBucket : mb_arr[b].in_use =>
    Cardinality({r \in Row : b \in Members(r)})
      + Cardinality({p \in Proc : b \in InHand(p)}) = 1

\* No process renames: a rename that fails keeps its two rows (ChpathAbsent).
Tame == \A p \in Proc : \A j \in Calls(p) : j.op # "rename"

(* Without rename, whenever some process is inside a call, a process that  *)
(* is inside a call can take a step: the processes never all wait for      *)
(* rows, and none returns still holding a row that another waits for, on   *)
(* the error paths of open and unlink either.                              *)
NoLockout ==
  Tame /\ (\E p \in Proc : ~ At(p, "idle")) => \E p \in Proc : ENABLED Step(p)
=============================================================================
