-------------------------- MODULE MetaTableViews ----------------------------
(***************************************************************************)
(* MetaTable as its clients see it: each row is a read-write lock used as  *)
(* module RWLock allows, and the table is a set of names as in module      *)
(* Namespace.                                                              *)
(***************************************************************************)
EXTENDS MetaTable

\* Where process p stands in lock_rw and unlock_rw, or between them as a reader.
LockPoint(p) ==
  CASE me[p].pc = "dw_wait" -> "w_wait"
    [] me[p].pc = "dw_spin" -> "w_spin"
    [] me[p].pc = "uw_spin" -> "w_out"
    [] me[p].pc = "dr_wait" -> "r_wait"
    [] me[p].pc = "dr_add" -> "r_add"
    [] me[p].pc \in {"get_first", "get_walk", "ur_dec"} -> "r_cs"
    [] OTHER -> "idle"

(* Where each process stands on the lock of row r.                         *)
LockState(r) ==
  [p \in Proc |->
     IF me[p].row = r /\ LockPoint(p) # "idle" THEN LockPoint(p)
     ELSE IF hash_table[r].real_lock = p THEN "w_cs" ELSE "idle"]

RowLock(r) == INSTANCE RWLock WITH
  num_readers <- hash_table[r].num_readers,
  num_writers <- hash_table[r].num_writers,
  real_lock <- hash_table[r].real_lock,
  pc <- LockState(r)

(* The rows' locks are used as RWLock allows: a process that holds a row   *)
(* gives it back once on every path out of every handler, and never asks   *)
(* for a row it already holds (without rename).                            *)
RowsFollowRWLock ==
  /\ \A r \in Row : RowLock(r)!Init
  /\ [][Tame => \A r \in Row : [RowLock(r)!Next]_(RowLock(r)!vars)]_vars

\* The files a process can find: linked, and not still being created.
BeingCreated ==
  {b \in MBucket : \E p \in Proc :
     me[p].mb = b /\ (me[p].pc \in {"cr_data", "cr_path"} \/ me[p].ret = "cr_data")}

Files ==
  {mb_arr[b].path : b \in (UNION {Members(r) : r \in Row}) \ BeingCreated}

Names == INSTANCE Namespace WITH files <- Files

(* Without rename, and when no two processes create the same file, the     *)
(* table implements a set of names: a file appears when create_new_file    *)
(* writes the path, goes when release_meta_bucket unlinks its bucket, and  *)
(* no step for one file makes another appear or go.                        *)
ImplementsNamespace == Names!Init /\ [][Tame => [Names!Next]_Files]_vars

-----------------------------------------------------------------------------
(* A statement of the repository that the code does not meet.              *)

(* meta_shm.h:64-66, strict_create_mbucket: "If a metadata bucket already  *)
(* exists for the file, return NULL."  No two files have the same path.    *)
UniquePath ==
  \A r \in Row : \A b, c \in Members(r) \ BeingCreated :
    mb_arr[b].path = mb_arr[c].path => b = c
=============================================================================
