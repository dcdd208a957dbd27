----------------------------- MODULE Allocator ------------------------------
(***************************************************************************)
(* What get_free_dbucket_ix and release_dbucket promise their callers      *)
(* (data_shm.h 46-50 and 82-86): a call marks a free bucket in use and     *)
(* gives it to its caller; a release makes a bucket in use free again.     *)
(* Whoever releases a bucket, and how often, is the matter of the callers: *)
(* the allocator does not record to whom a bucket belongs.                 *)
(***************************************************************************)
CONSTANTS
  Proc, Bucket,
  AllowRelease  \* whether anything releases buckets

VARIABLES
  taken,  \* the buckets marked in use
  given   \* the buckets that each process was ever given

Init ==
  /\ taken = {}
  /\ given = [p \in Proc |-> {}]

Claim(p, b) ==
  /\ b \notin taken
  /\ taken' = taken \cup {b}
  /\ given' = [given EXCEPT ![p] = @ \cup {b}]

Release(b) ==
  /\ AllowRelease
  /\ b \in taken
  /\ taken' = taken \ {b}
  /\ UNCHANGED given

Next == \E b \in Bucket : Release(b) \/ \E p \in Proc : Claim(p, b)

Spec == Init /\ [][Next]_<<taken, given>>
=============================================================================
