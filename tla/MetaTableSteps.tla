--------------------------- MODULE MetaTableSteps ---------------------------
(***************************************************************************)
(* The inductive invariant of MetaTable, and for each group of actions a   *)
(* lemma with a step per action: a step of one process keeps it.  The last *)
(* part says what a step does to the lock of a row.  MetaTableProofs draws *)
(* the theorems from these.                                                *)
(*                                                                         *)
(* TableInv says, beside the types,                                        *)
(*  - HolderInv: the lock word of a row that a process holds names it;     *)
(*  - CountInv: num_readers counts the readers inside, and num_writers at  *)
(*    least the writers (a rename that fails leaves it too great);         *)
(*  - ListInv: the buckets in use are those of the lists of the rows, which*)
(*    are apart, and those in the hands of the processes, one each.  A rank*)
(*    that grows along the links keeps the lists free of cycles.  What a   *)
(*    search found stays so as long as the row is held.                    *)
(* Two facts are hypotheses here and proved in MetaTableProofs, so that no *)
(* step has to unfold them: ProcCounts, about the sizes of sets of         *)
(* processes, and SearchSound, about get_mb_and_prev.                      *)
(***************************************************************************)
EXTENDS MetaTable, TLAPS

----------------------------------------------------------------------------
(* Lists *)

\* next_ix and first_ix: a bucket or none.

Link == MBucket \cup {NIL}

(* L is the set of the buckets of a list that starts at first and goes on  *)
(* by next: links stay inside, the rank grows, every bucket is the first   *)
(* or has a link to it, and no bucket has two.                             *)
IsList(first, next, L, rank) ==
  /\ L \subseteq MBucket
  /\ first # NIL => first \in L
  /\ \A b \in L : next[b] # NIL => next[b] \in L /\ rank[b] < rank[next[b]]
  /\ \A b \in L : b = first \/ \E c \in L : next[c] = b
  /\ \A b \in L : next[b] # NIL =>
       next[b] # first /\ \A c \in L : next[c] = next[b] => c = b

\* The link after prev, or the first link of the list if prev is NIL, is to b.
LeadsTo(first, next, L, prev, b) ==
  IF prev = NIL THEN first = b ELSE prev \in L /\ next[prev] = b

\* The list that starts at first and goes on by next has its link after prev,
\* or its first link, set to b.
Relinked(first, next, prev, b, first2, next2) ==
  /\ first2 = IF prev = NIL THEN b ELSE first
  /\ next2 = IF prev = NIL THEN next ELSE [next EXCEPT ![prev] = b]
  /\ next2 \in [MBucket -> Link]

(* NIL is no bucket. *)
LEMMA NilNoBucket == NIL \notin MBucket /\ MBucket \subseteq Nat
  BY TableAssumption DEF NIL, MBucket

(* strict_create_mbucket: a bucket that ends is linked after the last one. *)
LEMMA ListAppend ==
  ASSUME NEW first \in Link, NEW next \in [MBucket -> Link], NEW L,
         NEW rank \in [MBucket -> Nat], IsList(first, next, L, rank),
         NEW prev \in Link, LeadsTo(first, next, L, prev, NIL),
         NEW m \in MBucket, m \notin L, next[m] = NIL,
         NEW first2, NEW next2, Relinked(first, next, prev, m, first2, next2),
         NEW rank2 \in [MBucket -> Nat],
         rank2 = [rank EXCEPT ![m] = IF prev = NIL THEN 0 ELSE rank[prev] + 1]
  PROVE  IsList(first2, next2, L \cup {m}, rank2)
  BY NilNoBucket DEF IsList, LeadsTo, Link, Relinked

(* release_meta_bucket and mb_chpath: the link to a bucket is led past it. *)
LEMMA ListUnlink ==
  ASSUME NEW first \in Link, NEW next \in [MBucket -> Link], NEW L,
         NEW rank \in [MBucket -> Nat], IsList(first, next, L, rank),
         NEW prev \in Link, NEW m \in MBucket, LeadsTo(first, next, L, prev, m),
         NEW first2, NEW next2, Relinked(first, next, prev, next[m], first2, next2)
  PROVE  m \in L /\ IsList(first2, next2, L \ {m}, rank)
<1> USE NilNoBucket DEF IsList, LeadsTo, Link, Relinked
<1>1. m \in L /\ m # NIL /\ prev # m /\ next[m] # m
  OBVIOUS
<1>2. CASE prev = NIL
  BY <1>1, <1>2
<1>3. CASE prev # NIL
  <2>1. /\ prev \in L /\ next[prev] = m /\ first # m /\ first2 = first
        /\ next2[prev] = next[m]
        /\ \A b \in L : b # prev => next2[b] = next[b] /\ next[b] # m
    <3>1. prev \in L /\ next[prev] = m /\ first # m /\ first2 = first
      BY <1>1, <1>3
    <3>2. next2 = [next EXCEPT ![prev] = next[m]] /\ prev \in MBucket
      BY <1>3, <3>1
    <3> QED
      BY <1>1, <3>1, <3>2
  <2>2. first2 # NIL => first2 \in L \ {m}
    BY <2>1
  <2>3. ASSUME NEW b \in L \ {m}, next2[b] # NIL
        PROVE  next2[b] \in L \ {m} /\ rank[b] < rank[next2[b]]
    <3>1. CASE b = prev
      <4>1. next[m] \in L /\ rank[m] < rank[next[m]] /\ rank[prev] < rank[m]
        BY <1>1, <2>1, <2>3, <3>1
      <4>2. rank[prev] \in Nat /\ rank[m] \in Nat /\ rank[next[m]] \in Nat
        BY <2>1, <4>1, ZenonT(40)
      <4> QED
        BY <1>1, <2>1, <3>1, <4>1, <4>2
    <3>2. CASE b # prev
      BY <2>1, <2>3, <3>2
    <3> QED
      BY <3>1, <3>2
  <2>4. ASSUME NEW b \in L \ {m}, b # first2
        PROVE  \E c \in L \ {m} : next2[c] = b
    <3>1. PICK c \in L : next[c] = b
      BY <2>1, <2>4
    <3> QED
      BY <1>1, <2>1, <3>1
  <2>5. \A b \in L \ {m} : next2[b] # NIL =>
          next2[b] # first2 /\ \A c \in L \ {m} : next2[c] = next2[b] => c = b
    BY <1>1, <2>1
  <2> QED
    BY <1>1, <2>2, <2>3, <2>4, <2>5
<1> QED
  BY <1>2, <1>3

\* Bucket m goes on as old does, and is to have its rank.
TakesPlace(next, rank, old, m, rank2) ==
  next[m] = next[old] /\ rank2 = [rank EXCEPT ![m] = rank[old]]

(* mb_chpath: a bucket that goes on as an old one takes its place. *)
LEMMA ListReplace ==
  ASSUME NEW first \in Link, NEW next \in [MBucket -> Link], NEW L,
         NEW rank \in [MBucket -> Nat], IsList(first, next, L, rank),
         NEW prev \in Link, NEW old \in MBucket, LeadsTo(first, next, L, prev, old),
         NEW m \in MBucket, m \notin L,
         NEW first2, NEW next2, Relinked(first, next, prev, m, first2, next2),
         NEW rank2 \in [MBucket -> Nat], TakesPlace(next, rank, old, m, rank2)
  PROVE  IsList(first2, next2, (L \ {old}) \cup {m}, rank2)
  BY NilNoBucket DEF IsList, LeadsTo, Link, Relinked, TakesPlace

(* A list whose buckets keep their links and their ranks stays a list. *)
LEMMA ListFrame ==
  ASSUME NEW first, NEW next, NEW L, NEW rank, IsList(first, next, L, rank),
         NEW next2, NEW rank2,
         \A b \in L : next2[b] = next[b] /\ rank2[b] = rank[b]
  PROVE  IsList(first, next2, L, rank2)
  BY DEF IsList

----------------------------------------------------------------------------
(* The invariant *)

DownWriting == {"dw_reg", "dw_wait", "dw_spin"}

UpWriting   == {"uw_dec", "uw_spin"}

Reading     == {"dr_wait", "dr_add", "get_first", "get_walk", "ur_dec"}

Freeing     == {"mb_lock", "mb_clear", "mb_unlock"}

Locals ==
  [pc : Control, session : DOMAIN Sessions, job : Job \cup {NoJob}, ret : Control,
   str : Path \cup {NoPath}, row : Row \cup {NIL}, mb : Link, prev : Link,
   mb_new : Link, new_prev : Link, start : MBucket, i : 0 .. META_BUCKETS]

\* The control point of the caller of lock_rw, unlock_rw and get_mbucket.
Point(l) == IF l.pc \in DownWriting \cup UpWriting \cup Reading THEN l.ret ELSE l.pc

\* Inside mb_chpath, with both rows locked.
BothRows(l) ==
  \/ l.pc \in {"ch_find", "ch_path", "ch_unlink", "ch_next", "ch_link"}
  \/ l.pc \in Freeing /\ l.job.op = "rename"

\* The rows that a process has write-locked and will unlock, or never unlocks.
Holds(l) ==
  {r \in Row :
     \/ /\ l.pc \in {"cr_find", "cr_alloc", "cr_link", "rl_find", "rl_unlink", "rl_next"}
                      \cup UpWriting
        /\ r = l.row
     \/ /\ \/ BothRows(l) \/ l.pc \in {"ch_second", "ch_unlock"}
           \/ l.pc \in DownWriting /\ l.ret = "ch_find"
           \/ l.pc \in UpWriting /\ l.ret = "ch_unlock"
        /\ r = hash[l.job.old]
     \/ BothRows(l) /\ r = hash[l.job.new]}

\* The rows in whose num_writers, and in whose num_readers, it is counted.
Writes(l) ==
  IF l.pc \in {"dw_wait", "dw_spin"} THEN Holds(l) \cup {l.row}
  ELSE IF l.pc = "uw_spin" THEN Holds(l) \ {l.row} ELSE Holds(l)

Reads(l) == IF l.pc \in {"get_first", "get_walk", "ur_dec"} THEN {l.row} ELSE {}

\* How the locals go together.
Consistent(l) ==
  /\ l.pc \notin {"idle", "crashed"} => l.job \in Job /\ l.str \in Path /\ l.row = hash[l.str]
  /\ l.pc \in DownWriting => l.ret \in {"cr_find", "rl_find", "ch_second", "ch_find"}
  /\ l.pc \in UpWriting => l.ret \in {"idle", "cr_data", "mb_lock", "ch_unlock", "rn_get"}
  /\ l.pc \in Reading => l.ret \in {"idle", "open_looked", "rn_mark"}
  /\ Point(l) \in {"ch_second", "ch_find", "ch_path", "ch_unlink", "ch_next", "ch_link",
                   "ch_unlock", "rn_get", "rn_mark", "rn_disk"} => l.job.op = "rename"
  /\ Point(l) \in {"rl_find", "rl_unlink", "rl_next"} => l.job.op = "unlink"
  /\ l.pc \in UpWriting /\ l.ret = "mb_lock" => l.job.op = "unlink"
  /\ l.pc \in Freeing => l.job.op \in {"unlink", "rename"}
  /\ Point(l) = "ch_second" => l.str = l.job.old
  /\ Point(l) = "ch_find" => l.str = l.job.new
  /\ l.pc \in UpWriting /\ l.ret = "ch_unlock" => l.str = l.job.new
  /\ l.pc \in UpWriting /\ l.ret = "rn_get" => l.str = l.job.old
  /\ BothRows(l) \/ (l.pc \in UpWriting /\ l.ret = "ch_unlock")
       => hash[l.job.old] # hash[l.job.new]
  /\ Point(l) \in Freeing \cup {"cr_link", "cr_data", "cr_path", "rl_unlink", "rl_next",
                   "ch_path", "ch_unlink", "ch_next", "ch_link"} => l.mb # NIL

NextIx == [b \in MBucket |-> mb_arr[b].next_ix]

\* The buckets of row r are L.
RowIs(r, L, rank) == IsList(hash_table[r].first_ix, NextIx, L, rank)

InUse == {b \in MBucket : mb_arr[b].in_use}

\* prev leads to b in row r.
Finger(lists, r, prev, b) ==
  LeadsTo(hash_table[r].first_ix, NextIx, lists[r], prev, b)

\* InHand(p) is Hand(me[p]).
Hand(l) ==
  IF \/ l.pc \in {"cr_link", "rl_next", "mb_lock", "mb_clear", "ch_next", "ch_link"}
     \/ l.pc \in {"uw_dec", "uw_spin"} /\ l.ret = "mb_lock"
    THEN {l.mb} ELSE {}

\* With a bucket in hand that ends: claimed, or cleared by release_meta_bucket.
Ending(l) ==
  \/ l.pc = "cr_link"
  \/ l.pc \in UpWriting /\ l.ret = "mb_lock"
  \/ l.pc \in {"mb_lock", "mb_clear"} /\ l.job.op = "unlink"

\* What a search found is still so, and what comes after the bucket in hand.
Found(lists, l) ==
  /\ l.pc \in {"cr_alloc", "cr_link"} => Finger(lists, l.row, l.prev, NIL)
  /\ l.pc = "rl_unlink" => Finger(lists, l.row, l.prev, l.mb)
  /\ l.pc \in {"ch_path", "ch_unlink"} => Finger(lists, hash[l.job.old], l.prev, l.mb)
  /\ l.pc \in {"ch_path", "ch_unlink", "ch_next", "ch_link"}
       => Finger(lists, hash[l.job.new], l.new_prev, l.mb_new)
  /\ l.pc = "ch_link" =>
       NextIx[l.mb] = IF l.mb_new = NIL THEN NIL ELSE NextIx[l.mb_new]
  /\ Ending(l) => NextIx[l.mb] = NIL

RowInv(lists, rank) ==
  /\ \A r \in Row : RowIs(r, lists[r], rank)
  /\ \A r, s \in Row : r # s => lists[r] \cap lists[s] = {}
  /\ \A r \in Row : lists[r] \subseteq InUse

HandInv(lists) ==
  /\ \A p \in Proc : Hand(me[p]) \subseteq InUse
  /\ \A p \in Proc, r \in Row : Hand(me[p]) \cap lists[r] = {}
  /\ \A p, q \in Proc : p # q => Hand(me[p]) \cap Hand(me[q]) = {}
  /\ \A b \in InUse : (\E r \in Row : b \in lists[r]) \/ (\E p \in Proc : b \in Hand(me[p]))
  /\ \A b \in MBucket \ InUse : NextIx[b] = NIL

ListInv ==
  \E lists \in [Row -> SUBSET MBucket], rank \in [MBucket -> Nat] :
    /\ RowInv(lists, rank) /\ HandInv(lists)
    /\ \A p \in Proc : Found(lists, me[p])

HolderInv == \A p \in Proc : \A r \in Holds(me[p]) : hash_table[r].real_lock = p

CountInv ==
  \A r \in Row :
    /\ hash_table[r].num_readers = Cardinality({p \in Proc : r \in Reads(me[p])})
    /\ hash_table[r].num_writers \in Nat
    /\ hash_table[r].num_writers >= Cardinality({p \in Proc : r \in Writes(me[p])})

RowT == [first_ix : Link, num_readers : Int, num_writers : Int,
         real_lock : Proc \cup {NoProc}]

BucketT == [in_use : BOOLEAN, path : Path \cup {NoPath}, data : BOOLEAN,
            lock : Proc \cup {NoProc}, next_ix : Link]

TypeInv ==
  /\ hash_table \in [Row -> RowT]
  /\ mb_arr \in [MBucket -> BucketT]
  /\ me \in [Proc -> Locals]
  /\ \A p \in Proc : Consistent(me[p])

TableInv == TypeInv /\ HolderInv /\ CountInv /\ ListInv

----------------------------------------------------------------------------
(* How locals move *)

KeptCall(l, m) == m.session = l.session /\ m.job = l.job

KeptArgs(l, m) == m.ret = l.ret /\ m.str = l.str /\ m.row = l.row

KeptFound(l, m) ==
  m.mb = l.mb /\ m.prev = l.prev /\ m.mb_new = l.mb_new /\ m.new_prev = l.new_prev

\* No other process moves.
Moved(p) ==
  /\ me' \in [Proc -> Locals]
  /\ \A q \in Proc : q # p => me'[q] = me[q]

\* Replacing the locals of p moves p alone.
LEMMA MovedTo ==
  ASSUME TypeInv, NEW p \in Proc, NEW m \in Locals, me' = [me EXCEPT ![p] = m]
  PROVE  Moved(p) /\ me'[p] = m
  BY DEF TypeInv, Moved

\* A jump changes the control point and nothing else of the locals.
LEMMA GotoMoves ==
  ASSUME TypeInv, NEW p \in Proc, NEW c \in Control, Goto(p, c)
  PROVE  /\ Moved(p) /\ me'[p].pc = c /\ KeptCall(me[p], me'[p])
         /\ KeptArgs(me[p], me'[p]) /\ KeptFound(me[p], me'[p])
<1>1. me[p] \in Locals /\ me \in [Proc -> Locals]
  BY DEF TypeInv
<1>2. me' = [me EXCEPT ![p] = [me[p] EXCEPT !.pc = c]]
  BY DEF Goto
<1>3. [me[p] EXCEPT !.pc = c] \in Locals
  BY <1>1, ZenonT(40) DEF Locals
<1>4. Moved(p) /\ me'[p] = [me[p] EXCEPT !.pc = c]
  BY <1>2, <1>3, MovedTo, ZenonT(40)
<1> QED
  BY <1>1, <1>4, ZenonT(40) DEF KeptCall, KeptArgs, KeptFound, Locals

\* Calling lock_rw, unlock_rw or get_mbucket sets the path, its row and the
\* point to return to.
LEMMA EnteredMoves ==
  ASSUME TypeInv, NEW p \in Proc, NEW c \in Control, NEW f \in Path, NEW k \in Control,
         me' = [me EXCEPT ![p] = Entered(p, c, f, k)]
  PROVE  /\ Moved(p) /\ me'[p].pc = c /\ me'[p].str = f /\ me'[p].row = hash[f]
         /\ me'[p].ret = k /\ KeptCall(me[p], me'[p]) /\ KeptFound(me[p], me'[p])
<1> DEFINE m == [me[p] EXCEPT !.pc = c, !.str = f, !.row = hash[f], !.ret = k]
<1>1. me[p] \in Locals /\ me \in [Proc -> Locals] /\ hash[f] \in Row
  BY TableAssumption DEF TypeInv
<1>2. m \in Locals
  BY <1>1, ZenonT(40) DEF Locals
<1>3. me' = [me EXCEPT ![p] = m]
  BY DEF Entered
<1>4. Moved(p) /\ me'[p] = m
  <2> HIDE DEF m
  <2> QED
    BY <1>2, <1>3, MovedTo, ZenonT(40)
<1> QED
  BY <1>1, <1>4, ZenonT(120) DEF KeptCall, KeptFound, Locals

\* A call that ends leaves its process idle.
LEMMA FinishMoves ==
  ASSUME TypeInv, NEW p \in Proc, Finish(p)
  PROVE  Moved(p) /\ me'[p].pc = "idle" /\ me'[p].session = me[p].session
<1>1. me[p].session \in DOMAIN Sessions
  BY DEF TypeInv, Locals
<1>2. Idle(me[p].session) \in Locals
  <2>1. 0 \in MBucket /\ 0 \in 0 .. META_BUCKETS
    BY TableAssumption DEF MBucket
  <2>2. "idle" \in Control
    BY DEF Control
  <2> QED
    BY <1>1, <2>1, <2>2, ZenonT(40) DEF Idle, Locals, Link
<1>3. Moved(p) /\ me'[p] = Idle(me[p].session)
  BY <1>2, MovedTo, ZenonT(40) DEF Finish
<1> QED
  BY <1>3 DEF Idle

\* A return goes to the point that was stored, with the locals of the caller.
LEMMA ResumeMoves ==
  ASSUME TypeInv, NEW p \in Proc, Resume(p)
  PROVE  /\ Moved(p) /\ me'[p].pc = me[p].ret /\ me'[p].session = me[p].session
         /\ me[p].ret # "idle" => /\ KeptCall(me[p], me'[p]) /\ KeptArgs(me[p], me'[p])
                                  /\ KeptFound(me[p], me'[p])
<1>1. CASE me[p].ret = "idle"
  <2>1. Finish(p)
    BY <1>1 DEF Resume, Finish
  <2> QED
    BY <1>1, <2>1, FinishMoves
<1>2. CASE me[p].ret # "idle"
  <2>1. Goto(p, me[p].ret)
    <3>1. me' = [me EXCEPT ![p] = [me[p] EXCEPT !.pc = me[p].ret]]
      BY <1>2 DEF Resume
    <3> QED
      BY <3>1 DEF Goto
  <2>2. me[p].ret \in Control
    BY DEF TypeInv, Locals
  <2>3. /\ Moved(p) /\ me'[p].pc = me[p].ret /\ KeptCall(me[p], me'[p])
        /\ KeptArgs(me[p], me'[p]) /\ KeptFound(me[p], me'[p])
    BY <2>1, <2>2, GotoMoves, ZenonT(40)
  <2> QED
    BY <2>3 DEF KeptCall
<1> QED
  BY <1>1, <1>2

\* The write locks stay with their holders if p takes none and no lock word
\* changes.
LEMMA HolderKept ==
  ASSUME HolderInv, NEW p \in Proc, Moved(p), Holds(me'[p]) \subseteq Holds(me[p]),
         \A r \in Row : hash_table'[r].real_lock = hash_table[r].real_lock
  PROVE  HolderInv'
<1> SUFFICES ASSUME NEW q \in Proc, NEW r \in Holds(me'[q])
             PROVE  hash_table'[r].real_lock = q
  BY DEF HolderInv
<1>1. r \in Holds(me[q])
  BY DEF Moved
<1>2. r \in Row
  BY <1>1 DEF Holds
<1> QED
  BY <1>1, <1>2 DEF HolderInv

\* The counters of the rows still count right if neither they nor what p is
\* counted for changes.
LEMMA CountKept ==
  ASSUME CountInv, NEW p \in Proc, Moved(p), Reads(me'[p]) = Reads(me[p]),
         Writes(me'[p]) = Writes(me[p]),
         \A r \in Row : /\ hash_table'[r].num_readers = hash_table[r].num_readers
                        /\ hash_table'[r].num_writers = hash_table[r].num_writers
  PROVE  CountInv'
<1>1. \A r : /\ {q \in Proc : r \in Reads(me'[q])} = {q \in Proc : r \in Reads(me[q])}
            /\ {q \in Proc : r \in Writes(me'[q])} = {q \in Proc : r \in Writes(me[q])}
  BY DEF Moved
<1> QED
  BY <1>1, ZenonT(40) DEF CountInv

\* Inside a call, its paths have rows and row is the one of str.
LEMMA RowsOfCall ==
  ASSUME NEW l \in Locals, Consistent(l), l.pc \notin {"idle", "crashed"}
  PROVE  /\ l.str \in Path /\ l.job.old \in Path /\ l.job.new \in Path
         /\ l.row \in Row /\ l.row = hash[l.str] 
         /\ hash[l.job.old] \in Row /\ hash[l.job.new] \in Row
<1>1. l.job \in Job /\ l.str \in Path /\ l.row = hash[l.str]
  BY DEF Consistent
<1>2. l.job.old \in Path /\ l.job.new \in Path
  BY <1>1, ZenonT(40) DEF Job
<1> QED
  BY <1>1, <1>2, TableAssumption

\* What the search of q found is still so if the rows that q holds, and the
\* bucket in its hand, keep their links.
LEMMA FoundFrame ==
  ASSUME NEW q \in Proc, me'[q] \in Locals, Consistent(me'[q]),
         NEW lists, NEW rank, NEW lists2, RowInv(lists, rank), Found(lists, me'[q]),
         \A r \in Holds(me'[q]) :
            /\ hash_table'[r].first_ix = hash_table[r].first_ix /\ lists2[r] = lists[r]
            /\ \A b \in lists[r] : NextIx'[b] = NextIx[b],
         \A b \in Hand(me'[q]) : NextIx'[b] = NextIx[b]
  PROVE  Found(lists2, me[q])'
<1> DEFINE l == me'[q]
           Keeps(r) == /\ hash_table'[r].first_ix = hash_table[r].first_ix /\ lists2[r] = lists[r]
                       /\ \A b \in lists[r] : NextIx'[b] = NextIx[b]
           Leads(r, prev, b) == LeadsTo(hash_table'[r].first_ix, NextIx', lists2[r], prev, b)
<1>0. \A r : Keeps(r) => \A prev, b : Finger(lists, r, prev, b) => Leads(r, prev, b)
  BY DEF Finger, LeadsTo, Leads
<1> HIDE DEF Leads
<1>1. l.pc \notin {"idle", "crashed"} => 
         l.row \in Row /\ hash[l.job.old] \in Row /\ hash[l.job.new] \in Row
  BY RowsOfCall
<1>2. l.pc \in {"cr_alloc", "cr_link"} => Leads(l.row, l.prev, NIL)
  <2>1. l.pc \in {"cr_alloc", "cr_link"} => l.row \in Holds(l)
    BY <1>1 DEF Holds
  <2> QED
    BY <1>0, <2>1 DEF Found
<1>3. l.pc = "rl_unlink" => Leads(l.row, l.prev, l.mb)
  <2>1. l.pc = "rl_unlink" => l.row \in Holds(l)
    BY <1>1 DEF Holds
  <2> QED
    BY <1>0, <2>1 DEF Found
<1>4. l.pc \in {"ch_path", "ch_unlink"} => Leads(hash[l.job.old], l.prev, l.mb)
  <2>1. l.pc \in {"ch_path", "ch_unlink"} => hash[l.job.old] \in Holds(l)
    BY <1>1, ZenonT(40) DEF Holds, BothRows
  <2> QED
    BY <1>0, <2>1, ZenonT(40) DEF Found
<1>5. l.pc \in {"ch_path", "ch_unlink", "ch_next", "ch_link"}
         => hash[l.job.new] \in Holds(l)
  BY <1>1 DEF Holds, BothRows
<1>6. l.pc \in {"ch_path", "ch_unlink", "ch_next", "ch_link"}
         => Leads(hash[l.job.new], l.new_prev, l.mb_new)
  BY <1>0, <1>5 DEF Found
<1>7. l.pc = "ch_link" =>
         NextIx'[l.mb] = IF l.mb_new = NIL THEN NIL ELSE NextIx'[l.mb_new]
  <2> SUFFICES ASSUME l.pc = "ch_link"
               PROVE  NextIx'[l.mb] = IF l.mb_new = NIL THEN NIL ELSE NextIx'[l.mb_new]
    OBVIOUS
  <2>1. NextIx'[l.mb] = NextIx[l.mb]
    BY DEF Hand
  <2>2. Finger(lists, hash[l.job.new], l.new_prev, l.mb_new)
    BY DEF Found
  <2>3. l.mb_new # NIL => l.mb_new \in lists[hash[l.job.new]]
    BY <1>1, <2>2 DEF Finger, LeadsTo, RowInv, RowIs, IsList
  <2>4. l.mb_new # NIL => NextIx'[l.mb_new] = NextIx[l.mb_new]
    BY <1>5, <2>3
  <2> QED
    BY <2>1, <2>4 DEF Found
<1>8. Ending(l) => NextIx'[l.mb] = NIL
  <2>1. Ending(l) => NextIx'[l.mb] = NextIx[l.mb]
    BY DEF Ending, Hand, UpWriting
  <2> QED
    BY <2>1 DEF Found
<1> QED
  BY <1>2, <1>3, <1>4, <1>6, <1>7, <1>8, ZenonT(40) DEF Found, Finger, Leads

\* The lists stay as they are if no link and no in_use changes and p has the
\* same bucket in hand.
LEMMA ListKept ==
  ASSUME TypeInv', ListInv, NEW p \in Proc, Moved(p),
         \A r \in Row : hash_table'[r].first_ix = hash_table[r].first_ix,
         \A b \in MBucket : /\ mb_arr'[b].next_ix = mb_arr[b].next_ix
                            /\ mb_arr'[b].in_use = mb_arr[b].in_use,
         Hand(me'[p]) = Hand(me[p]),
         \A lists \in [Row -> SUBSET MBucket], rank \in [MBucket -> Nat] :
           RowInv(lists, rank) /\ Found(lists, me[p]) => Found(lists, me'[p])
  PROVE  ListInv'
<1>1. PICK lists \in [Row -> SUBSET MBucket], rank \in [MBucket -> Nat] :
        /\ RowInv(lists, rank) /\ HandInv(lists)
        /\ \A q \in Proc : Found(lists, me[q])
  BY DEF ListInv
<1>2. NextIx' = NextIx /\ InUse' = InUse
  BY DEF NextIx, InUse
<1>3. RowInv(lists, rank)'
  BY <1>1, <1>2, ZenonT(40) DEF RowInv, RowIs
<1>4. \A q \in Proc : Hand(me'[q]) = Hand(me[q])
  BY DEF Moved
<1>5. HandInv(lists)'
  BY <1>1, <1>2, <1>4, ZenonT(40) DEF HandInv
<1>6. ASSUME NEW q \in Proc
      PROVE  Found(lists, me[q])'
  <2>1. Found(lists, me'[q])
    BY <1>1 DEF Moved
  <2>2. \A r \in Holds(me'[q]) : r \in Row
    BY DEF Holds
  <2>3. me'[q] \in Locals /\ Consistent(me'[q])
    BY DEF TypeInv
  <2> QED
    BY <1>1, <1>2, <2>1, <2>2, <2>3, FoundFrame
<1> QED
  BY <1>3, <1>5, <1>6, ZenonT(40) DEF ListInv

\* A move from l to m that takes no row and no bucket, and gives none back.
Calm(l, m) ==
  /\ Consistent(m)
  /\ Holds(m) \subseteq Holds(l) /\ Writes(m) = Writes(l)
  /\ Reads(m) = Reads(l) /\ Hand(m) = Hand(l)

\* A step that changes only fields no list depends on, and keeps the locks and
\* the bucket in hand, keeps the invariant.
LEMMA CalmStep ==
  ASSUME TableInv, NEW p \in Proc, Moved(p), Calm(me[p], me'[p]),
         \A lists \in [Row -> SUBSET MBucket], rank \in [MBucket -> Nat] :
           RowInv(lists, rank) /\ Found(lists, me[p]) => Found(lists, me'[p]),
         hash_table' = hash_table, mb_arr' \in [MBucket -> BucketT],
         \A b \in MBucket : /\ mb_arr'[b].next_ix = mb_arr[b].next_ix
                            /\ mb_arr'[b].in_use = mb_arr[b].in_use
  PROVE  TableInv'
<1>1. TypeInv'
  BY DEF TableInv, TypeInv, Moved, Calm
<1>2. HolderInv'
  BY HolderKept DEF TableInv, Calm
<1>3. CountInv'
  BY CountKept DEF TableInv, Calm
<1>4. ListInv'
  BY <1>1, ListKept DEF TableInv, Calm
<1> QED
  BY <1>1, <1>2, <1>3, <1>4 DEF TableInv

\* At a point where nothing is known of the table.
Blank(m) ==
  /\ m.pc \notin {"cr_alloc", "cr_link", "rl_unlink", "ch_path", "ch_unlink", "ch_next", "ch_link"}
  /\ ~ Ending(m)

\* So does one after which p relies on no earlier search and has no bucket in
\* hand.
LEMMA BlankStep ==
  ASSUME TableInv, NEW p \in Proc, Moved(p), Calm(me[p], me'[p]), Blank(me'[p]),
         UNCHANGED <<hash_table, mb_arr>>
  PROVE  TableInv'
<1>1. \A lists : Found(lists, me'[p])
  BY DEF Blank, Found
<1>2. mb_arr \in [MBucket -> BucketT]
  BY DEF TableInv, TypeInv
<1> QED
  BY <1>1, <1>2, CalmStep

USE DEF DownWriting, UpWriting, Reading, Freeing, KeptCall, KeptArgs, KeptFound

----------------------------------------------------------------------------
(* Steps that take, link, unlink and free buckets *)

\* The lists, ranks and searches that ListInv says there are.
Witness(lists, rank) ==
  /\ lists \in [Row -> SUBSET MBucket] /\ rank \in [MBucket -> Nat]
  /\ RowInv(lists, rank) /\ HandInv(lists)
  /\ \A q \in Proc : Found(lists, me[q])

\* Only p moves; the rows that p does not hold keep their lists, and the
\* buckets in the hands of the others their links.
Undisturbed(p, lists, lists2) ==
  /\ Moved(p)
  /\ \A r \in Row \ Holds(me[p]) :
        /\ hash_table'[r].first_ix = hash_table[r].first_ix /\ lists2[r] = lists[r]
        /\ \A b \in lists[r] : NextIx'[b] = NextIx[b]
  /\ \A q \in Proc : q # p => \A b \in Hand(me[q]) : NextIx'[b] = NextIx[b]

(* A row that p holds is held by no other process, so that what p changes  *)
(* in its rows and in the bucket it has in hand concerns no other search.  *)
LEMMA OthersFound ==
  ASSUME TableInv, TypeInv', NEW p \in Proc, NEW lists, NEW rank, NEW lists2,
         Witness(lists, rank), Undisturbed(p, lists, lists2)
  PROVE  \A q \in Proc : q # p => Found(lists2, me[q])'
<1> SUFFICES ASSUME NEW q \in Proc, q # p
             PROVE  Found(lists2, me[q])'
  OBVIOUS
<1> USE DEF Undisturbed
<1>1. me'[q] = me[q] /\ me'[q] \in Locals /\ Consistent(me'[q])
  BY DEF Moved, TypeInv
<1>2. RowInv(lists, rank) /\ Found(lists, me'[q])
  BY <1>1, ZenonT(40) DEF Witness
<1>3. \A r \in Holds(me'[q]) : r \in Row \ Holds(me[p])
  BY <1>1 DEF TableInv, HolderInv, Holds
<1>4. \A r \in Holds(me'[q]) :
        /\ hash_table'[r].first_ix = hash_table[r].first_ix /\ lists2[r] = lists[r]
        /\ \A b \in lists[r] : NextIx'[b] = NextIx[b]
  BY <1>3
<1>5. \A b \in Hand(me'[q]) : NextIx'[b] = NextIx[b]
  BY <1>1
<1> QED
  BY <1>1, <1>2, <1>4, <1>5, FoundFrame, ZenonT(40)

\* Setting the link after prev changes that link and nothing else.
LEMMA SetLinkEffect ==
  ASSUME TypeInv, NEW r \in Row, NEW prev \in Link, NEW b \in Link, SetLink(r, prev, b)
  PROVE  /\ hash_table' \in [Row -> RowT] /\ mb_arr' \in [MBucket -> BucketT]
         /\ hash_table'[r].first_ix = IF prev = NIL THEN b ELSE hash_table[r].first_ix
         /\ \A s \in Row : /\ s # r => hash_table'[s].first_ix = hash_table[s].first_ix
                           /\ hash_table'[s].num_readers = hash_table[s].num_readers
                           /\ hash_table'[s].num_writers = hash_table[s].num_writers
                           /\ hash_table'[s].real_lock = hash_table[s].real_lock
         /\ NextIx' = IF prev = NIL THEN NextIx ELSE [NextIx EXCEPT ![prev] = b]
         /\ InUse' = InUse /\ NextIx \in [MBucket -> Link] /\ NextIx' \in [MBucket -> Link]
<1> USE DEF TypeInv, SetLink, NextIx, InUse, RowT, BucketT
<1>1. CASE prev = NIL
  BY <1>1
<1>2. CASE prev # NIL
  <2>1. prev \in MBucket /\ hash_table' = hash_table
        /\ mb_arr' = [mb_arr EXCEPT ![prev].next_ix = b]
    BY <1>2 DEF Link
  <2>2. mb_arr' \in [MBucket -> BucketT] /\ \A c \in MBucket : mb_arr'[c].in_use = mb_arr[c].in_use
    BY <2>1, ZenonT(40)
  <2>3. \A c \in MBucket : mb_arr'[c].next_ix = IF c = prev THEN b ELSE mb_arr[c].next_ix
    BY <2>1
  <2>4. NextIx \in [MBucket -> Link] /\ NextIx' \in [MBucket -> Link]
    BY <2>2
  <2>5. NextIx' = [NextIx EXCEPT ![prev] = b]
    BY <2>1, <2>3, ZenonT(40)
  <2> QED
    BY <1>2, <2>1, <2>2, <2>4, <2>5
<1> QED
  BY <1>1, <1>2

(* Setting a link of the table relinks the list of its row.                *)
LEMMA SetLinkRelinks ==
  ASSUME TypeInv, NEW r \in Row, NEW prev \in Link, NEW b \in Link, SetLink(r, prev, b)
  PROVE  /\ NextIx \in [MBucket -> Link]
         /\ Relinked(hash_table[r].first_ix, NextIx, prev, b, hash_table'[r].first_ix, NextIx')
         /\ \A s \in Row : s # r => hash_table'[s].first_ix = hash_table[s].first_ix
<1>1. /\ hash_table'[r].first_ix = IF prev = NIL THEN b ELSE hash_table[r].first_ix
      /\ \A s \in Row : s # r => hash_table'[s].first_ix = hash_table[s].first_ix
  BY SetLinkEffect
<1>2. /\ NextIx' = IF prev = NIL THEN NextIx ELSE [NextIx EXCEPT ![prev] = b]
      /\ NextIx \in [MBucket -> Link] /\ NextIx' \in [MBucket -> Link]
  BY SetLinkEffect
<1> QED
  BY <1>1, <1>2 DEF Relinked

(* The rows after the link that leads on from prev in row r is set.        *)
LEMMA LinkRows ==
  ASSUME NEW lists \in [Row -> SUBSET MBucket], NEW rank, RowInv(lists, rank),
         NEW r \in Row, NEW prev \in Link, NEW b, NEW L \in SUBSET MBucket, NEW rank2,
         prev = NIL \/ prev \in lists[r],
         NextIx' = IF prev = NIL THEN NextIx ELSE [NextIx EXCEPT ![prev] = b],
         NextIx \in [MBucket -> Link], InUse' = InUse,
         \A s \in Row : s # r => hash_table'[s].first_ix = hash_table[s].first_ix,
         IsList(hash_table'[r].first_ix, NextIx', L, rank2),
         \A s \in Row : s # r => \A c \in lists[s] : rank2[c] = rank[c] /\ c \notin L,
         L \subseteq InUse, NEW lists2, lists2 = [lists EXCEPT ![r] = L]
  PROVE  RowInv(lists2, rank2)'
<1>1. lists2[r] = L /\ \A s \in Row : s # r => lists2[s] = lists[s]
  OBVIOUS
<1>2. ASSUME NEW s \in Row, s # r
      PROVE  IsList(hash_table'[s].first_ix, NextIx', lists[s], rank2)
  <2>1. IsList(hash_table[s].first_ix, NextIx, lists[s], rank)
    BY DEF RowInv, RowIs
  <2>2. \A c \in lists[s] : NextIx'[c] = NextIx[c]
    <3>1. prev # NIL => prev \notin lists[s]
      BY <1>2 DEF RowInv
    <3>2. \A c \in lists[s] : c \in MBucket
      OBVIOUS
    <3> QED
      BY <3>1, <3>2
  <2>3. IsList(hash_table[s].first_ix, NextIx', lists[s], rank2)
    <3> DEFINE f == hash_table[s].first_ix
               M == lists[s]
    <3>1. IsList(f, NextIx, M, rank) /\ \A c \in M : NextIx'[c] = NextIx[c] /\ rank2[c] = rank[c]
      BY <1>2, <2>1, <2>2
    <3> HIDE DEF f, M
    <3>2. IsList(f, NextIx', M, rank2)
      BY ONLY <3>1, ListFrame
    <3> QED
      BY <3>2 DEF f, M
  <2> QED
    BY <1>2, <2>3
<1>3. \A s \in Row : IsList(hash_table'[s].first_ix, NextIx', lists2[s], rank2)
  BY <1>1, <1>2, ZenonT(40)
<1>4. \A s, t \in Row : s # t => lists2[s] \cap lists2[t] = {}
  BY <1>1 DEF RowInv
<1>5. \A s \in Row : lists2[s] \subseteq InUse'
  BY <1>1 DEF RowInv
<1> QED
  BY <1>3, <1>4, <1>5, ZenonT(40) DEF RowInv, RowIs

\* The hands after a step that changes only the hand of p, to H.
LEMMA HandsAfter ==
  ASSUME NEW p \in Proc, Moved(p), NEW lists, HandInv(lists), NEW lists2, NEW H,
         Hand(me'[p]) = H, H \subseteq InUse',
         \A r \in Row : H \cap lists2[r] = {},
         \A q \in Proc : q # p => /\ H \cap Hand(me[q]) = {}
                                  /\ Hand(me[q]) \subseteq InUse'
                                  /\ \A r \in Row : Hand(me[q]) \cap lists2[r] = {},
         \A b \in InUse' : \/ \E r \in Row : b \in lists2[r]
                           \/ b \in H
                           \/ \E q \in Proc : q # p /\ b \in Hand(me[q]),
         \A b \in MBucket \ InUse' : NextIx'[b] = NIL
  PROVE  HandInv(lists2)'
<1>1. \A q \in Proc : q # p => Hand(me'[q]) = Hand(me[q])
  BY DEF Moved
<1>2. \A q \in Proc : Hand(me'[q]) \subseteq InUse'
  BY <1>1
<1>3. \A q \in Proc, r \in Row : Hand(me'[q]) \cap lists2[r] = {}
  BY <1>1
<1>4. \A q, s \in Proc : q # s => Hand(me'[q]) \cap Hand(me'[s]) = {}
  BY <1>1 DEF HandInv
<1>5. \A b \in InUse' : (\E r \in Row : b \in lists2[r]) \/ (\E q \in Proc : b \in Hand(me'[q]))
  BY <1>1
<1> QED
  BY <1>2, <1>3, <1>4, <1>5 DEF HandInv

(* A process changes one link of a row it holds; the bucket that this      *)
(* takes off the row comes into its hand, and the bucket that it puts on   *)
(* the row leaves it.                                                      *)
Relinks(p, r, prev, b, lists, rank, L, rank2, lists2) ==
  /\ Moved(p) /\ Consistent(me'[p])
  /\ Holds(me'[p]) = Holds(me[p]) /\ Reads(me'[p]) = Reads(me[p])
  /\ Writes(me'[p]) = Writes(me[p])
  /\ r \in Row /\ r \in Holds(me[p]) /\ prev \in Link /\ b \in Link /\ SetLink(r, prev, b)
  /\ Witness(lists, rank)
  /\ prev = NIL \/ prev \in lists[r]
  /\ rank2 \in [MBucket -> Nat] /\ IsList(hash_table'[r].first_ix, NextIx', L, rank2)
  /\ \A c \in MBucket : c \notin L => rank2[c] = rank[c]
  /\ L \cup Hand(me'[p]) = lists[r] \cup Hand(me[p]) /\ L \cap Hand(me'[p]) = {}
  /\ lists2 = [lists EXCEPT ![r] = L]
  /\ Found(lists2, me[p])'

\* One row gets its new list, the others keep theirs: the invariant holds after
\* a link is set as Relinks says.
LEMMA RelinkStep ==
  ASSUME TableInv, NEW p \in Proc, NEW r, NEW prev, NEW b, NEW lists, NEW rank, NEW L,
         NEW rank2, NEW lists2, Relinks(p, r, prev, b, lists, rank, L, rank2, lists2)
  PROVE  TableInv'
<1> USE DEF Relinks
<1>1. TypeInv /\ HolderInv /\ CountInv
  BY DEF TableInv
<1>2. /\ hash_table' \in [Row -> RowT] /\ mb_arr' \in [MBucket -> BucketT]
      /\ \A s \in Row : /\ s # r => hash_table'[s].first_ix = hash_table[s].first_ix
                        /\ hash_table'[s].num_readers = hash_table[s].num_readers
                        /\ hash_table'[s].num_writers = hash_table[s].num_writers
                        /\ hash_table'[s].real_lock = hash_table[s].real_lock
      /\ NextIx' = IF prev = NIL THEN NextIx ELSE [NextIx EXCEPT ![prev] = b]
      /\ InUse' = InUse /\ NextIx \in [MBucket -> Link]
  BY <1>1, SetLinkEffect, ZenonT(40)
<1>3. TypeInv'
  BY <1>1, <1>2, ZenonT(40) DEF TypeInv, Moved
<1>4. HolderInv' /\ CountInv'
  BY <1>1, <1>2, HolderKept, CountKept
<1>5. /\ HandInv(lists) /\ RowInv(lists, rank) /\ \A q \in Proc : Found(lists, me[q])
      /\ lists \in [Row -> SUBSET MBucket]
  BY ZenonT(40) DEF Witness
<1>6. \A q \in Proc : Hand(me[q]) \subseteq InUse /\ \A s \in Row : Hand(me[q]) \cap lists[s] = {}
  BY <1>5, ZenonT(40) DEF HandInv
<1>7. lists[r] \subseteq InUse /\ InUse \subseteq MBucket
  BY <1>5 DEF RowInv, InUse
<1>8. L \subseteq InUse /\ Hand(me'[p]) \subseteq InUse
  BY <1>6, <1>7, ZenonT(40)
<1>9. \A s \in Row : s # r => lists[s] \cap (lists[r] \cup Hand(me[p])) = {}
  BY <1>5, <1>6, ZenonT(40) DEF RowInv
<1>10. lists2[r] = L /\ \A s \in Row : s # r => lists2[s] = lists[s]
  BY <1>5, ZenonT(40)
<1>11. lists2 \in [Row -> SUBSET MBucket]
  BY <1>5, <1>7, <1>8
<1>12. RowInv(lists2, rank2)'
  <2>1. \A s \in Row : s # r => \A c \in lists[s] : rank2[c] = rank[c] /\ c \notin L
    <3> SUFFICES ASSUME NEW s \in Row, s # r, NEW c \in lists[s]
                 PROVE  rank2[c] = rank[c] /\ c \notin L
      BY ZenonT(40)
    <3>1. c \in MBucket /\ c \notin L
      BY <1>5, <1>9
    <3> QED
      BY <3>1
  <2>2. \A s \in Row : s # r => hash_table'[s].first_ix = hash_table[s].first_ix
    BY <1>2
  <2>3. L \in SUBSET MBucket
    BY <1>7, <1>8
  <2> QED
    BY <1>2, <1>5, <1>8, <2>1, <2>2, <2>3, LinkRows, ZenonT(40)
<1>13. HandInv(lists2)'
  <2>1. \A q \in Proc : q # p => Hand(me[q]) \cap (lists[r] \cup Hand(me[p])) = {}
    BY <1>5, <1>6, ZenonT(40) DEF HandInv
  <2>2. \A q \in Proc : q # p => /\ Hand(me'[p]) \cap Hand(me[q]) = {}
                                 /\ Hand(me[q]) \subseteq InUse'
                                 /\ \A s \in Row : Hand(me[q]) \cap lists2[s] = {}
    BY <1>2, <1>6, <1>10, <2>1
  <2>3. \A s \in Row : Hand(me'[p]) \cap lists2[s] = {}
    BY <1>9, <1>10
  <2>4. \A c \in InUse' : \/ \E s \in Row : c \in lists2[s]
                          \/ c \in Hand(me'[p])
                          \/ \E q \in Proc : q # p /\ c \in Hand(me[q])
    <3> SUFFICES ASSUME NEW c \in InUse, c \notin Hand(me'[p]),
                        ~ \E q \in Proc : q # p /\ c \in Hand(me[q])
                 PROVE  \E s \in Row : c \in lists2[s]
      BY <1>2
    <3>1. (\E s \in Row : c \in lists[s]) \/ c \in Hand(me[p])
      BY <1>5, ZenonT(40) DEF HandInv
    <3> QED
      BY <1>10, <3>1
  <2>5. \A c \in MBucket \ InUse' : NextIx'[c] = NIL
    <3>1. prev # NIL => prev \in InUse
      BY <1>7
    <3>2. \A c \in MBucket \ InUse : NextIx[c] = NIL
      BY <1>5, ZenonT(40) DEF HandInv
    <3> QED
      BY <1>2, <3>1, <3>2
  <2>6. Hand(me'[p]) \subseteq InUse'
    BY <1>2, <1>8
  <2> QED
    BY <1>5, <2>2, <2>3, <2>4, <2>5, <2>6, HandsAfter, ZenonT(40)
<1>14. \A q \in Proc : q # p => Found(lists2, me[q])'
  <2>1. \A q \in Proc : q # p => \A c \in Hand(me[q]) : NextIx'[c] = NextIx[c]
    <3>1. prev # NIL => \A q \in Proc : prev \notin Hand(me[q])
      BY <1>6
    <3>2. \A q \in Proc : \A c \in Hand(me[q]) : c \in MBucket
      BY <1>6, <1>7
    <3> QED
      BY <1>2, <3>1, <3>2
  <2>2. \A s \in Row \ Holds(me[p]) :
          /\ hash_table'[s].first_ix = hash_table[s].first_ix /\ lists2[s] = lists[s]
          /\ \A c \in lists[s] : NextIx'[c] = NextIx[c]
    <3> SUFFICES ASSUME NEW s \in Row, s # r
                 PROVE  /\ hash_table'[s].first_ix = hash_table[s].first_ix /\ lists2[s] = lists[s]
                        /\ \A c \in lists[s] : NextIx'[c] = NextIx[c]
      OBVIOUS
    <3>1. prev # NIL => prev \notin lists[s]
      BY <1>9, ZenonT(40)
    <3>2. lists[s] \subseteq MBucket
      BY <1>5
    <3> QED
      BY <1>2, <1>10, <3>1, <3>2
  <2> QED
    <3>1. Undisturbed(p, lists, lists2)
      BY <2>1, <2>2 DEF Undisturbed
    <3>2. Witness(lists, rank)
      OBVIOUS
    <3> HIDE DEF Relinks
    <3> QED
      BY <1>3, <3>1, <3>2, OthersFound, ZenonT(40)
<1>15. ListInv'
  BY <1>11, <1>12, <1>13, <1>14, ZenonT(40) DEF ListInv
<1> QED
  BY <1>3, <1>4, <1>15 DEF TableInv

----------------------------------------------------------------------------
(* Steps on the lock word of a row *)

\* The step changes only lock words of the row of p.
RowWord(p, l) ==
  /\ hash_table' \in [Row -> RowT] /\ l.row \in Row
  /\ \A r \in Row : hash_table'[r].first_ix = hash_table[r].first_ix
  /\ \A r \in Row : r # l.row => hash_table'[r] = hash_table[r]
  /\ mb_arr' = mb_arr

\* Writing a lock word of a row leaves the first_ix of every row.
LEMMA SetLockWord ==
  ASSUME TypeInv, NEW p \in Proc, NEW w, SetLock(p, w), UNCHANGED mb_arr,
         me[p].pc \notin {"idle", "crashed"},
         w \in RowT, w.first_ix = Lock(p).first_ix
  PROVE  RowWord(p, me[p]) /\ hash_table'[me[p].row] = w
<1>1. me[p].row \in Row
  BY RowsOfCall DEF TypeInv
<1> QED
  BY <1>1, ZenonT(40) DEF TypeInv, SetLock, Lock, RowWord

\* Such a write keeps the types and the lists.
LEMMA WordStep ==
  ASSUME TableInv, NEW p \in Proc, Moved(p), RowWord(p, me[p]),
         Consistent(me'[p]), Hand(me'[p]) = Hand(me[p]),
         \A lists : Found(lists, me[p]) => Found(lists, me'[p])
  PROVE  TypeInv' /\ ListInv'
<1>1. TypeInv'
  BY ZenonT(40) DEF TableInv, TypeInv, Moved, RowWord
<1>2. ListInv'
  BY <1>1, ListKept DEF TableInv, RowWord
<1> QED
  BY <1>1, <1>2

\* What is known of the number of processes in a set.
ProcCounts ==
  \A S \in SUBSET Proc, p \in Proc :
    /\ Cardinality(S) \in Nat /\ Cardinality(S \cup {p}) \in Nat
    /\ Cardinality(S \ {p}) \in Nat
    /\ Cardinality(S \cup {p}) <= Cardinality(S) + 1
    /\ Cardinality(S \ {p}) <= Cardinality(S)
    /\ p \notin S => Cardinality(S \cup {p}) = Cardinality(S) + 1
    /\ p \in S => Cardinality(S \ {p}) = Cardinality(S) - 1 /\ Cardinality(S) # 0

\* The processes that count in row r, before and after a step.
Readers(r) == {q \in Proc : r \in Reads(me[q])}

Writers(r) == {q \in Proc : r \in Writes(me[q])}

ReadersNext(r) == {q \in Proc : r \in Reads(me'[q])}

WritersNext(r) == {q \in Proc : r \in Writes(me'[q])}

\* How the readers and the writers of a row change when p moves.
LEMMA NextCounts ==
  ASSUME NEW p \in Proc, Moved(p), NEW r
  PROVE  /\ Readers(r) \in SUBSET Proc /\ Writers(r) \in SUBSET Proc
         /\ p \in Readers(r) <=> r \in Reads(me[p])
         /\ p \in Writers(r) <=> r \in Writes(me[p])
         /\ r \in Reads(me'[p]) => ReadersNext(r) = Readers(r) \cup {p}
         /\ r \notin Reads(me'[p]) => ReadersNext(r) = Readers(r) \ {p}
         /\ r \in Writes(me'[p]) => WritersNext(r) = Writers(r) \cup {p}
         /\ r \notin Writes(me'[p]) => WritersNext(r) = Writers(r) \ {p}
         /\ (r \in Reads(me'[p]) <=> r \in Reads(me[p])) => ReadersNext(r) = Readers(r)
         /\ (r \in Writes(me'[p]) <=> r \in Writes(me[p])) => WritersNext(r) = Writers(r)
  BY ZenonT(40) DEF Readers, Writers, ReadersNext, WritersNext, Moved

(* A count that is great enough for n is great enough for less. *)
LEMMA GreatEnough ==
  ASSUME NEW w \in Nat, NEW n \in Nat, NEW k \in Nat, k <= n, w >= n
  PROVE  w >= k
  OBVIOUS

(* When one leaves, a count that was great enough is great enough less one. *)
LEMMA OneLess ==
  ASSUME NEW w \in Nat, NEW n \in Nat, n # 0, w >= n
  PROVE  w - 1 \in Nat /\ w - 1 >= n - 1
  OBVIOUS

(* The counters of a row that keep their values still count enough if p is *)
(* counted as before, or no longer as a writer.                            *)
LEMMA CountFewer ==
  ASSUME ProcCounts, CountInv, NEW p \in Proc, Moved(p), NEW r \in Row,
         r \in Writes(me'[p]) => r \in Writes(me[p]),
         r \in Reads(me'[p]) <=> r \in Reads(me[p]),
         hash_table'[r].num_readers = hash_table[r].num_readers,
         hash_table'[r].num_writers = hash_table[r].num_writers
  PROVE  /\ hash_table'[r].num_readers = Cardinality(ReadersNext(r))
         /\ hash_table'[r].num_writers \in Nat
         /\ hash_table'[r].num_writers >= Cardinality(WritersNext(r))
<1>1. /\ hash_table[r].num_readers = Cardinality(Readers(r))
      /\ hash_table[r].num_writers \in Nat
      /\ hash_table[r].num_writers >= Cardinality(Writers(r))
  BY ZenonT(40) DEF CountInv, Readers, Writers
<1>2. ReadersNext(r) = Readers(r)
  BY NextCounts, ZenonT(40)
<1>3. WritersNext(r) = Writers(r) \/ WritersNext(r) = Writers(r) \ {p}
  BY NextCounts, ZenonT(40)
<1>4. Writers(r) \in SUBSET Proc
  BY ZenonT(40) DEF Writers
<1> DEFINE n == Cardinality(Writers(r))
           k == Cardinality(WritersNext(r))
           w == hash_table[r].num_writers
<1>5. n \in Nat /\ k \in Nat /\ k <= n
  <2>1. /\ Cardinality(Writers(r)) \in Nat /\ Cardinality(Writers(r) \ {p}) \in Nat
        /\ Cardinality(Writers(r) \ {p}) <= Cardinality(Writers(r))
    BY <1>4, ZenonT(40) DEF ProcCounts
  <2>2. Cardinality(Writers(r)) <= Cardinality(Writers(r))
    BY <2>1
  <2> QED
    BY <1>3, <2>1, <2>2, ZenonT(40)
<1>6. w \in Nat /\ w >= n
  BY <1>1
<1> HIDE DEF n, k, w
<1>7. w >= k
  BY <1>5, <1>6, GreatEnough, ZenonT(40)
<1> QED
  BY <1>1, <1>2, <1>7 DEF w, k

(* The counters of the row of p count p as they did before or one more or  *)
(* one less, and those of the other rows stay.                             *)
LEMMA CountStep ==
  ASSUME ProcCounts, CountInv, NEW p \in Proc, Moved(p), RowWord(p, me[p]),
         \A r \in Row : r # me[p].row => /\ r \in Writes(me'[p]) => r \in Writes(me[p])
                                         /\ r \in Reads(me'[p]) <=> r \in Reads(me[p]),
         hash_table'[me[p].row].num_readers = Cardinality(ReadersNext(me[p].row)),
         hash_table'[me[p].row].num_writers \in Nat,
         hash_table'[me[p].row].num_writers >= Cardinality(WritersNext(me[p].row))
  PROVE  CountInv'
<1> SUFFICES ASSUME NEW r \in Row
             PROVE  /\ hash_table'[r].num_readers = Cardinality(ReadersNext(r))
                    /\ hash_table'[r].num_writers \in Nat
                    /\ hash_table'[r].num_writers >= Cardinality(WritersNext(r))
  BY ZenonT(40) DEF CountInv, ReadersNext, WritersNext
<1>1. CASE r = me[p].row
  BY <1>1
<1>2. CASE r # me[p].row
  <2>1. hash_table'[r] = hash_table[r]
    BY <1>2 DEF RowWord
  <2> QED
    BY <1>2, <2>1, CountFewer, ZenonT(40)
<1> QED
  BY <1>1, <1>2

----------------------------------------------------------------------------
(* Steps that rest on a search *)

\* What a search of a table of lists returns.
SearchSound ==
  \A f \in Path, lists \in [Row -> SUBSET MBucket], rank \in [MBucket -> Nat] :
    RowInv(lists, rank) =>
      /\ get_mb_and_prev(f).mb \in Link /\ get_mb_and_prev(f).prev \in Link
      /\ Finger(lists, hash[f], get_mb_and_prev(f).prev, get_mb_and_prev(f).mb)

\* A search returns buckets, or none.
LEMMA SearchLinks ==
  ASSUME SearchSound, TableInv, NEW f \in Path
  PROVE  get_mb_and_prev(f).mb \in Link /\ get_mb_and_prev(f).prev \in Link
  BY ZenonT(40) DEF TableInv, ListInv, SearchSound

----------------------------------------------------------------------------
(* Steps that leave the lists and the locks as they are *)

\* A process begins a call.
LEMMA CallStep ==
  ASSUME TableInv, NEW p \in Proc, NEW j \in Calls(p), Call(p, j)
  PROVE  TableInv'
<1> DEFINE l == me[p]
           pc == IF j.op \in {"stat", "open"} THEN "dr_wait" ELSE "dw_reg"
           ret == CASE j.op = "stat"   -> "idle"
                    [] j.op = "open"   -> "open_looked"
                    [] j.op = "unlink" -> "rl_find"
                    [] j.op = "rename" -> "ch_second"
           m == [l EXCEPT !.job = j, !.str = j.old, !.row = hash[j.old], !.pc = pc, !.ret = ret]
<1>1. TypeInv /\ l \in Locals /\ Consistent(l) /\ l.pc = "idle"
  BY DEF TableInv, TypeInv, Call, At
<1>2. j \in Job
  <2>1. l.session \in DOMAIN Sessions
    BY <1>1, ZenonT(40) DEF Locals
  <2> QED
    BY <2>1, TableAssumption, ZenonT(40) DEF Calls
<1>3. j.op \in {"stat", "open", "unlink", "rename"} /\ j.old \in Path /\ hash[j.old] \in Row
  BY <1>2, TableAssumption DEF Job
<1>4. pc \in Control /\ ret \in Control
  BY <1>3 DEF Control
<1>5. m \in Locals
  <2> HIDE DEF pc, ret, l
  <2> QED
    BY <1>1, <1>2, <1>3, <1>4, ZenonT(40) DEF Locals
<1>6. Moved(p) /\ me'[p] = m
  <2>1. me' = [me EXCEPT ![p] = m]
    BY DEF Call
  <2> HIDE DEF m
  <2> QED
    BY <1>1, <1>5, <2>1, MovedTo, ZenonT(40)
<1>7. m.pc = pc /\ m.ret = ret /\ m.job = j /\ m.str = j.old /\ m.row = hash[j.old]
  <2> HIDE DEF pc, ret, l
  <2> QED
    BY <1>1, ZenonT(40) DEF Locals
<1> HIDE DEF l, m
<1>8. Calm(l, m) /\ Blank(m)
  BY <1>1, <1>2, <1>3, <1>7
     DEF Calm, Consistent, Holds, Writes, Reads, Hand, Blank, Ending, Point, BothRows
<1> QED
  BY <1>6, <1>8, BlankStep, ZenonT(40) DEF l, Call

(* The steps of lock_rw and unlock_rw keep the invariant. *)
LEMMA LockKeeps ==
  ASSUME ProcCounts, TableInv, NEW p \in Proc, LockStep(p)
  PROVE  TableInv'
\* lock_rw adds p to num_writers before it waits for the readers.
<1>1. CASE WriterRegister(p)
  <2> USE <1>1
  <2> DEFINE l == me[p]
             m == me'[p]
             w == [Lock(p) EXCEPT !.num_writers = @ + 1]
  <2>1. TypeInv /\ l \in Locals /\ Consistent(l) /\ l.pc = "dw_reg" /\ "dw_wait" \in Control
    BY DEF TableInv, TypeInv, Control, WriterRegister, At
  <2>2. Moved(p) /\ m.pc = "dw_wait" /\ KeptCall(l, m) /\ KeptArgs(l, m) /\ KeptFound(l, m)
    BY <2>1, GotoMoves, ZenonT(40) DEF WriterRegister
  <2>3. l.row \in Row
    BY <2>1, RowsOfCall, ZenonT(40)
  <2>4. Lock(p) \in RowT /\ Lock(p) = hash_table[l.row]
    BY <2>1, <2>3 DEF Lock, TypeInv
  <2>5. /\ w \in RowT /\ w.first_ix = Lock(p).first_ix /\ w.num_readers = Lock(p).num_readers
        /\ w.num_writers = Lock(p).num_writers + 1 /\ w.real_lock = Lock(p).real_lock
    BY <2>4 DEF RowT
  <2> HIDE DEF w
  <2>6. RowWord(p, l) /\ hash_table'[l.row] = w
    BY <2>1, <2>5, SetLockWord, ZenonT(40) DEF WriterRegister, w
  <2> HIDE DEF l, m
  <2>7. Consistent(m) /\ Hand(m) = Hand(l) /\ Reads(m) = Reads(l) /\ Holds(m) = Holds(l)
    BY <2>1, <2>2, ZenonT(120) DEF Consistent, Hand, Reads, Holds, Point, BothRows
  <2>8. Writes(m) = Writes(l) \cup {l.row}
    BY <2>1, <2>2, <2>7 DEF Writes
  <2>9. \A lists : Found(lists, m)
    BY <2>2 DEF Found, Ending
  <2>10. TypeInv' /\ ListInv'
    BY <2>2, <2>6, <2>7, <2>9, WordStep, ZenonT(40) DEF l, m
  <2>11. HolderInv'
    BY <2>2, <2>4, <2>5, <2>6, <2>7, HolderKept, ZenonT(40) DEF l, m, TableInv, RowWord
  <2>12. CountInv'
    <3>1. /\ hash_table[l.row].num_readers = Cardinality(Readers(l.row))
          /\ hash_table[l.row].num_writers \in Nat
          /\ hash_table[l.row].num_writers >= Cardinality(Writers(l.row))
      BY <2>3, ZenonT(40) DEF TableInv, CountInv, Readers, Writers
    <3>2. ReadersNext(l.row) = Readers(l.row) /\ WritersNext(l.row) = Writers(l.row) \cup {p}
      BY <2>2, <2>7, <2>8, NextCounts, ZenonT(120) DEF l, m
    <3>3. Writers(l.row) \in SUBSET Proc
      BY DEF Writers
    <3>4. Cardinality(Writers(l.row) \cup {p}) <= Cardinality(Writers(l.row)) + 1
      BY <3>3, ZenonT(40) DEF ProcCounts
    <3>5. Cardinality(Writers(l.row) \cup {p}) \in Nat /\ Cardinality(Writers(l.row)) \in Nat
      BY <3>3, ZenonT(40) DEF ProcCounts
    <3>6. /\ hash_table'[l.row].num_writers \in Nat
          /\ hash_table'[l.row].num_writers >= Cardinality(WritersNext(l.row))
      BY <2>4, <2>5, <2>6, <3>1, <3>2, <3>4, <3>5
    <3>7. hash_table'[l.row].num_readers = Cardinality(ReadersNext(l.row))
      BY <2>4, <2>5, <2>6, <3>1, <3>2
    <3> QED
      BY <2>2, <2>6, <2>7, <2>8, <3>6, <3>7, CountStep, ZenonT(40) DEF l, m, TableInv
  <2> QED
    BY <2>10, <2>11, <2>12 DEF TableInv
\* A writer that sees no reader goes on to the compare-and-swap.
<1>2. CASE WriterSeesNoReader(p)
  <2> USE <1>2
  <2> DEFINE l == me[p]
             m == me'[p]
  <2>1. TypeInv /\ l \in Locals /\ Consistent(l) /\ l.pc = "dw_wait" /\ "dw_spin" \in Control
    BY DEF TableInv, TypeInv, Control, WriterSeesNoReader, At
  <2>2. Moved(p) /\ m.pc = "dw_spin" /\ KeptCall(l, m) /\ KeptArgs(l, m) /\ KeptFound(l, m)
    BY <2>1, GotoMoves, ZenonT(40) DEF WriterSeesNoReader
  <2> HIDE DEF l, m
  <2>3. Calm(l, m) /\ Blank(m)
    BY <2>1, <2>2, ZenonT(40)
       DEF Calm, Consistent, Holds, Writes, Reads, Hand, Blank, Ending, Point, BothRows
  <2> QED
    BY <2>2, <2>3, BlankStep, ZenonT(40) DEF l, m, WriterSeesNoReader
\* The compare-and-swap of lock_rw gives the row to one writer.
<1>3. CASE WriterLock(p)
  <2> USE <1>3
  <2> DEFINE l == me[p]
             m == me'[p]
             w == [Lock(p) EXCEPT !.real_lock = p]
  <2>1. TypeInv /\ l \in Locals /\ Consistent(l) /\ l.pc = "dw_spin"
    BY DEF TableInv, TypeInv, WriterLock, At
  <2>2. /\ Moved(p) /\ m.pc = l.ret
        /\ l.ret # "idle" => KeptCall(l, m) /\ KeptArgs(l, m) /\ KeptFound(l, m)
    BY <2>1, ResumeMoves, ZenonT(40) DEF WriterLock
  <2>3. l.row \in Row
    BY <2>1, RowsOfCall, ZenonT(40)
  <2>4. Lock(p) \in RowT /\ Lock(p) = hash_table[l.row]
    BY <2>1, <2>3 DEF Lock, TypeInv
  <2>5. /\ w \in RowT /\ w.first_ix = Lock(p).first_ix /\ w.num_readers = Lock(p).num_readers
        /\ w.num_writers = Lock(p).num_writers /\ w.real_lock = p
    BY <2>4 DEF RowT
  <2> HIDE DEF w
  <2>6. RowWord(p, l) /\ hash_table'[l.row] = w
    BY <2>1, <2>5, SetLockWord, ZenonT(40) DEF WriterLock, w
  <2>7. Lock(p).real_lock = NoProc /\ p # NoProc
    BY TableAssumption, ZenonT(40) DEF WriterLock
  <2>8. \A q \in Proc : l.row \notin Holds(me[q])
    BY <2>4, <2>7, TableAssumption DEF TableInv, HolderInv
  <2>9. l.row \notin Holds(l)
    BY <2>8, ZenonT(40)
  <2> HIDE DEF l, m
  <2>10. l.ret \in {"cr_find", "rl_find", "ch_second", "ch_find"} /\ KeptCall(l, m)
         /\ KeptArgs(l, m) /\ KeptFound(l, m)
    BY <2>1, <2>2, ZenonT(40) DEF Consistent
  <2>11. l.ret = "ch_find" => hash[l.job.old] # hash[l.job.new]
    <3>1. l.ret = "ch_find" => hash[l.job.old] \in Row /\ l.row = hash[l.job.new]
      BY <2>1, RowsOfCall, ZenonT(40) DEF Consistent, Point
    <3> QED
      BY <2>1, <2>9, <3>1, ZenonT(40) DEF Holds
  <2>12. Consistent(m) /\ Hand(m) = Hand(l) /\ Reads(m) = Reads(l)
    BY <2>1, <2>2, <2>10, <2>11, ZenonT(40) DEF Consistent, Hand, Reads, Point, BothRows
  <2>13. Holds(m) = Holds(l) \cup {l.row}
    <3>1. /\ l.ret = "ch_second" => l.row = hash[l.job.old]
          /\ l.ret = "ch_find" => l.row = hash[l.job.new]
      BY <2>1 DEF Consistent, Point
    <3>2. Holds(l) = IF l.ret = "ch_find" THEN {hash[l.job.old]} \cap Row ELSE {}
      BY <2>1, <2>10, ZenonT(40) DEF Holds, BothRows
    <3>3. Holds(m) = {l.row} \cup (IF l.ret = "ch_find" THEN {hash[l.job.old]} \cap Row ELSE {})
      BY <2>2, <2>3, <2>10, <3>1, ZenonT(40) DEF Holds, BothRows
    <3> QED
      BY <3>2, <3>3, ZenonT(40)
  <2>14. Writes(m) = Writes(l)
    BY <2>1, <2>2, <2>10, <2>13, ZenonT(40) DEF Writes
  <2>15. \A lists : Found(lists, m)
    BY <2>2, <2>10, ZenonT(40) DEF Found, Ending
  <2>16. TypeInv' /\ ListInv'
    BY <2>2, <2>6, <2>12, <2>15, WordStep, ZenonT(40) DEF l, m
  <2>17. HolderInv'
    <3> SUFFICES ASSUME NEW q \in Proc, NEW r \in Holds(me'[q])
                 PROVE  hash_table'[r].real_lock = q
      BY ZenonT(40) DEF HolderInv
    <3>1. CASE q = p
      <4>1. r = l.row \/ (r \in Row /\ r # l.row /\ hash_table[r].real_lock = p)
        BY <2>13, <3>1, ZenonT(40) DEF l, m, TableInv, HolderInv, Holds
      <4> QED
        BY <2>5, <2>6, <3>1, <4>1 DEF RowWord
    <3>2. CASE q # p
      <4>1. r \in Holds(me[q]) /\ r \in Row /\ r # l.row
        BY <2>2, <2>8, <3>2, ZenonT(40) DEF Moved, Holds
      <4> QED
        BY <2>6, <4>1 DEF RowWord, TableInv, HolderInv
    <3> QED
      BY <3>1, <3>2
  <2>18. CountInv'
    BY <2>2, <2>4, <2>5, <2>6, <2>12, <2>14, CountKept, ZenonT(120) DEF l, m, RowWord, TableInv
  <2> QED
    BY <2>16, <2>17, <2>18 DEF TableInv
\* unlock_rw takes p out of num_writers.
<1>4. CASE WriterDeregister(p)
  <2> USE <1>4
  <2> DEFINE l == me[p]
             m == me'[p]
             w == [Lock(p) EXCEPT !.num_writers = @ - 1]
  <2>1. TypeInv /\ l \in Locals /\ Consistent(l) /\ l.pc = "uw_dec" /\ "uw_spin" \in Control
    BY DEF TableInv, TypeInv, Control, WriterDeregister, At
  <2>2. Moved(p) /\ m.pc = "uw_spin" /\ KeptCall(l, m) /\ KeptArgs(l, m) /\ KeptFound(l, m)
    BY <2>1, GotoMoves, ZenonT(40) DEF WriterDeregister
  <2>3. l.row \in Row
    BY <2>1, RowsOfCall, ZenonT(40)
  <2>4. Lock(p) \in RowT /\ Lock(p) = hash_table[l.row]
    BY <2>1, <2>3 DEF Lock, TypeInv
  <2>5. /\ w \in RowT /\ w.first_ix = Lock(p).first_ix /\ w.num_readers = Lock(p).num_readers
        /\ w.num_writers = Lock(p).num_writers - 1 /\ w.real_lock = Lock(p).real_lock
    BY <2>4 DEF RowT
  <2> HIDE DEF w
  <2>6. RowWord(p, l) /\ hash_table'[l.row] = w
    BY <2>1, <2>5, SetLockWord, ZenonT(40) DEF WriterDeregister, w
  <2> HIDE DEF l, m
  <2>7. Consistent(m) /\ Hand(m) = Hand(l) /\ Reads(m) = Reads(l) /\ Holds(m) = Holds(l)
    BY <2>1, <2>2, ZenonT(120) DEF Consistent, Hand, Reads, Holds, Point, BothRows
  <2>8. Writes(m) = Writes(l) \ {l.row} /\ l.row \in Writes(l)
    BY <2>1, <2>2, <2>3, <2>7, ZenonT(40) DEF Writes, Holds
  <2>9. \A lists : Found(lists, l) => Found(lists, m)
    BY <2>1, <2>2 DEF Found, Ending
  <2>10. TypeInv' /\ ListInv'
    BY <2>2, <2>6, <2>7, <2>9, WordStep, ZenonT(40) DEF l, m
  <2>11. HolderInv'
    BY <2>2, <2>4, <2>5, <2>6, <2>7, HolderKept, ZenonT(40) DEF l, m, TableInv, RowWord
  <2>12. CountInv'
    <3>1. /\ hash_table[l.row].num_readers = Cardinality(Readers(l.row))
          /\ hash_table[l.row].num_writers \in Nat
          /\ hash_table[l.row].num_writers >= Cardinality(Writers(l.row))
      BY <2>3, ZenonT(40) DEF TableInv, CountInv, Readers, Writers
    <3>2. /\ ReadersNext(l.row) = Readers(l.row) /\ WritersNext(l.row) = Writers(l.row) \ {p}
          /\ p \in Writers(l.row)
      BY <2>2, <2>7, <2>8, NextCounts, ZenonT(120) DEF l, m
    <3>3. Writers(l.row) \in SUBSET Proc
      BY DEF Writers
    <3>4. /\ Cardinality(Writers(l.row) \ {p}) = Cardinality(Writers(l.row)) - 1
          /\ Cardinality(Writers(l.row)) # 0 /\ Cardinality(Writers(l.row)) \in Nat
      BY <3>2, <3>3, ZenonT(40) DEF ProcCounts
    <3>6. /\ hash_table'[l.row].num_writers \in Nat
          /\ hash_table'[l.row].num_writers >= Cardinality(WritersNext(l.row))
      <4>1. hash_table'[l.row].num_writers = hash_table[l.row].num_writers - 1
        BY <2>4, <2>5, <2>6, ZenonT(40)
      <4> QED
        BY <4>1, <3>1, <3>2, <3>4, OneLess, ZenonT(40)
    <3>7. hash_table'[l.row].num_readers = Cardinality(ReadersNext(l.row))
      BY <2>4, <2>5, <2>6, <3>1, <3>2
    <3> QED
      BY <2>2, <2>6, <2>7, <2>8, <3>6, <3>7, CountStep, ZenonT(40) DEF l, m, TableInv
  <2> QED
    BY <2>10, <2>11, <2>12 DEF TableInv
\* unlock_rw clears the lock that its process held.
<1>5. CASE WriterUnlock(p)
  <2> USE <1>5
  <2> DEFINE l == me[p]
             m == me'[p]
             w == [Lock(p) EXCEPT !.real_lock = NoProc]
  <2>1. TypeInv /\ l \in Locals /\ Consistent(l) /\ l.pc = "uw_spin"
    BY DEF TableInv, TypeInv, WriterUnlock, At
  <2>2. /\ Moved(p) /\ m.pc = l.ret
        /\ l.ret # "idle" => KeptCall(l, m) /\ KeptArgs(l, m) /\ KeptFound(l, m)
    BY <2>1, ResumeMoves, ZenonT(40) DEF WriterUnlock
  <2>3. l.row \in Row
    BY <2>1, RowsOfCall, ZenonT(40)
  <2>4. Lock(p) \in RowT /\ Lock(p) = hash_table[l.row]
    BY <2>1, <2>3 DEF Lock, TypeInv
  <2>5. /\ w \in RowT /\ w.first_ix = Lock(p).first_ix /\ w.num_readers = Lock(p).num_readers
        /\ w.num_writers = Lock(p).num_writers /\ w.real_lock = NoProc
    BY <2>4 DEF RowT
  <2> HIDE DEF w
  <2>6. RowWord(p, l) /\ hash_table'[l.row] = w
    BY <2>1, <2>5, SetLockWord, ZenonT(40) DEF WriterUnlock, w
  <2> HIDE DEF l, m
  <2>7. Consistent(m) /\ Hand(m) = Hand(l) /\ Reads(m) = Reads(l)
    BY <2>1, <2>2, ZenonT(40) DEF Consistent, Hand, Reads, Point, BothRows
  <2>8. Holds(m) \subseteq Holds(l) \ {l.row} /\ l.row \in Holds(l) /\ Writes(m) = Writes(l)
    <3>1. /\ l.ret \in {"idle", "cr_data", "mb_lock", "ch_unlock", "rn_get"}
          /\ l.ret = "mb_lock" => l.job.op = "unlink"
          /\ l.ret = "ch_unlock" => l.row = hash[l.job.new] /\ hash[l.job.old] # hash[l.job.new]
      BY <2>1, ZenonT(40) DEF Consistent
    <3>2. /\ Holds(m) = IF l.ret = "ch_unlock" THEN {hash[l.job.old]} \cap Row ELSE {}
      BY <2>2, <3>1 DEF Holds, BothRows
    <3>3. /\ Holds(l) = {l.row} \cup (IF l.ret = "ch_unlock" THEN {hash[l.job.old]} \cap Row ELSE {})
      BY <2>1, <2>3, ZenonT(40) DEF Holds, BothRows
    <3>4. Writes(m) = Holds(m) /\ Writes(l) = Holds(l) \ {l.row}
      BY <2>1, <2>2, <3>1 DEF Writes
    <3> QED
      BY <3>1, <3>2, <3>3, <3>4
  <2>9. \A lists : Found(lists, l) => Found(lists, m)
    BY <2>1, <2>2, ZenonT(40) DEF Found, Ending, Consistent
  <2>10. TypeInv' /\ ListInv'
    BY <2>2, <2>6, <2>7, <2>9, WordStep, ZenonT(40) DEF l, m
  <2>11. HolderInv'
    <3> SUFFICES ASSUME NEW q \in Proc, NEW r \in Holds(me'[q])
                 PROVE  hash_table'[r].real_lock = q
      BY DEF HolderInv
    <3>1. r \in Holds(me[q]) /\ r \in Row /\ (q = p => r # l.row)
      <4>1. q # p => me'[q] = me[q]
        BY <2>2, ZenonT(40) DEF Moved
      <4>2. r \in Row
        BY ZenonT(40) DEF Holds
      <4> QED
        BY <2>8, <4>1, <4>2, ZenonT(40) DEF l, m
    <3>2. hash_table[r].real_lock = q /\ hash_table[l.row].real_lock = p
      BY <2>8, <3>1 DEF l, TableInv, HolderInv
    <3> QED
      BY <2>6, <3>1, <3>2 DEF RowWord
  <2>12. CountInv'
    BY <2>2, <2>4, <2>5, <2>6, <2>7, <2>8, CountKept, ZenonT(40) DEF l, m, RowWord, TableInv
  <2> QED
    BY <2>10, <2>11, <2>12 DEF TableInv
\* A reader that sees no writer goes on to register.
<1>6. CASE ReaderSeesNoWriter(p)
  <2> USE <1>6
  <2> DEFINE l == me[p]
             m == me'[p]
  <2>1. TypeInv /\ l \in Locals /\ Consistent(l) /\ l.pc = "dr_wait" /\ "dr_add" \in Control
    BY DEF TableInv, TypeInv, Control, ReaderSeesNoWriter, At
  <2>2. Moved(p) /\ m.pc = "dr_add" /\ KeptCall(l, m) /\ KeptArgs(l, m) /\ KeptFound(l, m)
    BY <2>1, GotoMoves, ZenonT(40) DEF ReaderSeesNoWriter
  <2> HIDE DEF l, m
  <2>3. Calm(l, m) /\ Blank(m)
    BY <2>1, <2>2, ZenonT(40)
       DEF Calm, Consistent, Holds, Writes, Reads, Hand, Blank, Ending, Point, BothRows
  <2> QED
    BY <2>2, <2>3, BlankStep, ZenonT(40) DEF l, m, ReaderSeesNoWriter
\* lock_rw adds p to num_readers.
<1>7. CASE ReaderRegister(p)
  <2> USE <1>7
  <2> DEFINE l == me[p]
             m == me'[p]
             w == [Lock(p) EXCEPT !.num_readers = @ + 1]
  <2>1. TypeInv /\ l \in Locals /\ Consistent(l) /\ l.pc = "dr_add" /\ "get_first" \in Control
    BY DEF TableInv, TypeInv, Control, ReaderRegister, At
  <2>2. Moved(p) /\ m.pc = "get_first" /\ KeptCall(l, m) /\ KeptArgs(l, m) /\ KeptFound(l, m)
    BY <2>1, GotoMoves, ZenonT(40) DEF ReaderRegister
  <2>3. l.row \in Row
    BY <2>1, RowsOfCall, ZenonT(40)
  <2>4. Lock(p) \in RowT /\ Lock(p) = hash_table[l.row]
    BY <2>1, <2>3 DEF Lock, TypeInv
  <2>5. /\ w \in RowT /\ w.first_ix = Lock(p).first_ix /\ w.num_readers = Lock(p).num_readers + 1
        /\ w.num_writers = Lock(p).num_writers /\ w.real_lock = Lock(p).real_lock
    BY <2>4 DEF RowT
  <2> HIDE DEF w
  <2>6. RowWord(p, l) /\ hash_table'[l.row] = w
    BY <2>1, <2>5, SetLockWord, ZenonT(40) DEF ReaderRegister, w
  <2> HIDE DEF l, m
  <2>7. Consistent(m) /\ Hand(m) = Hand(l) /\ Reads(m) = {l.row} /\ Reads(l) = {}
    BY <2>1, <2>2, ZenonT(40) DEF Consistent, Hand, Reads, Point, BothRows
  <2>8. Holds(m) = Holds(l) /\ Writes(m) = Writes(l)
    BY <2>1, <2>2, ZenonT(40) DEF Consistent, Holds, Writes, BothRows
  <2>9. \A lists : Found(lists, m)
    BY <2>1, <2>2, ZenonT(40) DEF Found, Ending, Consistent
  <2>10. TypeInv' /\ ListInv'
    BY <2>2, <2>6, <2>7, <2>9, WordStep, ZenonT(40) DEF l, m
  <2>11. HolderInv'
    BY <2>2, <2>4, <2>5, <2>6, <2>8, HolderKept, ZenonT(40) DEF l, m, TableInv, RowWord
  <2>12. CountInv'
    <3>1. /\ hash_table[l.row].num_readers = Cardinality(Readers(l.row))
          /\ hash_table[l.row].num_writers \in Nat
          /\ hash_table[l.row].num_writers >= Cardinality(Writers(l.row))
      BY <2>3, ZenonT(40) DEF TableInv, CountInv, Readers, Writers
    <3>2. ReadersNext(l.row) = Readers(l.row) \cup {p} /\ p \notin Readers(l.row)
      BY <2>2, <2>7, NextCounts, ZenonT(40) DEF l, m
    <3>3. Readers(l.row) \in SUBSET Proc /\ Writers(l.row) \in SUBSET Proc
      BY DEF Readers, Writers
    <3>4. Cardinality(Readers(l.row) \cup {p}) = Cardinality(Readers(l.row)) + 1
      BY <3>2, <3>3, ZenonT(40) DEF ProcCounts
    <3>5. hash_table'[l.row].num_readers = Cardinality(ReadersNext(l.row))
      BY <2>4, <2>5, <2>6, <3>1, <3>2, <3>4
    <3>6. WritersNext(l.row) = Writers(l.row)
      BY <2>2, <2>8, NextCounts, ZenonT(120) DEF l, m
    <3>7. /\ hash_table'[l.row].num_writers \in Nat
          /\ hash_table'[l.row].num_writers >= Cardinality(WritersNext(l.row))
      BY <2>4, <2>5, <2>6, <3>1, <3>6
    <3> QED
      BY <2>2, <2>6, <2>7, <2>8, <3>5, <3>7, CountStep, ZenonT(40) DEF l, m, TableInv
  <2> QED
    BY <2>10, <2>11, <2>12 DEF TableInv
\* unlock_rw takes p out of num_readers.
<1>8. CASE ReaderDeregister(p)
  <2> USE <1>8
  <2> DEFINE l == me[p]
             m == me'[p]
             w == [Lock(p) EXCEPT !.num_readers = @ - 1]
  <2>1. TypeInv /\ l \in Locals /\ Consistent(l) /\ l.pc = "ur_dec"
    BY DEF TableInv, TypeInv, ReaderDeregister, At
  <2>2. /\ Moved(p) /\ m.pc = l.ret
        /\ l.ret # "idle" => KeptCall(l, m) /\ KeptArgs(l, m) /\ KeptFound(l, m)
    BY <2>1, ResumeMoves, ZenonT(40) DEF ReaderDeregister
  <2>3. l.row \in Row
    BY <2>1, RowsOfCall, ZenonT(40)
  <2>4. Lock(p) \in RowT /\ Lock(p) = hash_table[l.row]
    BY <2>1, <2>3 DEF Lock, TypeInv
  <2>5. /\ w \in RowT /\ w.first_ix = Lock(p).first_ix /\ w.num_readers = Lock(p).num_readers - 1
        /\ w.num_writers = Lock(p).num_writers /\ w.real_lock = Lock(p).real_lock
    BY <2>4 DEF RowT
  <2> HIDE DEF w
  <2>6. RowWord(p, l) /\ hash_table'[l.row] = w
    BY <2>1, <2>5, SetLockWord, ZenonT(40) DEF ReaderDeregister, w
  <2> HIDE DEF l, m
  <2>7. Consistent(m) /\ Hand(m) = Hand(l) /\ Reads(m) = {} /\ Reads(l) = {l.row}
    BY <2>1, <2>2, ZenonT(40) DEF Consistent, Hand, Reads, Point, BothRows
  <2>8. Holds(m) = Holds(l) /\ Writes(m) = Writes(l)
    BY <2>1, <2>2, ZenonT(40) DEF Consistent, Holds, Writes, BothRows
  <2>9. \A lists : Found(lists, m)
    BY <2>1, <2>2, ZenonT(40) DEF Found, Ending, Consistent
  <2>10. TypeInv' /\ ListInv'
    BY <2>2, <2>6, <2>7, <2>9, WordStep, ZenonT(40) DEF l, m
  <2>11. HolderInv'
    BY <2>2, <2>4, <2>5, <2>6, <2>8, HolderKept DEF l, m, TableInv, RowWord
  <2>12. CountInv'
    <3>1. /\ hash_table[l.row].num_readers = Cardinality(Readers(l.row))
          /\ hash_table[l.row].num_writers \in Nat
          /\ hash_table[l.row].num_writers >= Cardinality(Writers(l.row))
      BY <2>3, ZenonT(40) DEF TableInv, CountInv, Readers, Writers
    <3>2. ReadersNext(l.row) = Readers(l.row) \ {p} /\ p \in Readers(l.row)
      BY <2>2, <2>7, NextCounts, ZenonT(40) DEF l, m
    <3>3. Readers(l.row) \in SUBSET Proc /\ Writers(l.row) \in SUBSET Proc
      BY DEF Readers, Writers
    <3>4. Cardinality(Readers(l.row) \ {p}) = Cardinality(Readers(l.row)) - 1
      BY <3>2, <3>3, ZenonT(40) DEF ProcCounts
    <3>5. hash_table'[l.row].num_readers = Cardinality(ReadersNext(l.row))
      BY <2>4, <2>5, <2>6, <3>1, <3>2, <3>4
    <3>6. WritersNext(l.row) = Writers(l.row)
      BY <2>2, <2>8, NextCounts, ZenonT(120) DEF l, m
    <3>7. /\ hash_table'[l.row].num_writers \in Nat
          /\ hash_table'[l.row].num_writers >= Cardinality(WritersNext(l.row))
      BY <2>4, <2>5, <2>6, <3>1, <3>6
    <3> QED
      BY <2>2, <2>6, <2>7, <2>8, <3>5, <3>7, CountStep, ZenonT(40) DEF l, m, TableInv
  <2> QED
    BY <2>10, <2>11, <2>12 DEF TableInv
<1> QED
  BY <1>1, <1>2, <1>3, <1>4, <1>5, <1>6, <1>7, <1>8, ZenonT(40) DEF LockStep

(* The steps of get_mbucket keep the invariant. *)
LEMMA LookupKeeps ==
  ASSUME TableInv, NEW p \in Proc, LookupStep(p)
  PROVE  TableInv'
\* get_mbucket starts at the first bucket of the row.
<1>1. CASE GetFirst(p)
  <2> USE <1>1
  <2> DEFINE l == me[p]
             m == [l EXCEPT !.pc = "get_walk", !.mb = hash_table[l.row].first_ix]
  <2>1. TypeInv /\ l \in Locals /\ Consistent(l) /\ l.pc = "get_first" /\ "get_walk" \in Control
    BY DEF TableInv, TypeInv, Control, GetFirst, At
  <2>2. l.row \in Row
    BY <2>1, RowsOfCall, ZenonT(40)
  <2>3. hash_table[l.row].first_ix \in Link
    BY <2>1, <2>2 DEF TypeInv, RowT
  <2>4. m \in Locals /\ m.pc = "get_walk" /\ KeptCall(l, m) /\ KeptArgs(l, m)
    BY <2>1, <2>3, ZenonT(40) DEF Locals
  <2>5. Moved(p) /\ me'[p] = m
    <3>1. me' = [me EXCEPT ![p] = m]
      BY ZenonT(40) DEF GetFirst, Lock
    <3> HIDE DEF m
    <3> QED
      BY <2>1, <2>4, <3>1, MovedTo, ZenonT(40)
  <2> HIDE DEF l, m
  <2>6. Calm(l, m) /\ Blank(m)
    BY <2>1, <2>4, ZenonT(40)
       DEF Calm, Consistent, Holds, Writes, Reads, Hand, Blank, Ending, Point, BothRows
  <2> QED
    BY <2>5, <2>6, BlankStep, ZenonT(40) DEF l, GetFirst
\* get_mbucket found the path and unlocks the row.
<1>2. CASE GetMatch(p)
  <2> USE <1>2
  <2> DEFINE l == me[p]
             m == me'[p]
  <2>1. TypeInv /\ l \in Locals /\ Consistent(l) /\ l.pc = "get_walk" /\ "ur_dec" \in Control
    BY DEF TableInv, TypeInv, Control, GetMatch, At
  <2>2. Moved(p) /\ m.pc = "ur_dec" /\ KeptCall(l, m) /\ KeptArgs(l, m) /\ KeptFound(l, m)
    BY <2>1, GotoMoves, ZenonT(40) DEF GetMatch
  <2> HIDE DEF l, m
  <2>3. Calm(l, m) /\ Blank(m)
    BY <2>1, <2>2, ZenonT(40)
       DEF Calm, Consistent, Holds, Writes, Reads, Hand, Blank, Ending, Point, BothRows
  <2> QED
    BY <2>2, <2>3, BlankStep, ZenonT(40) DEF l, m, GetMatch
\* get_mbucket goes on to the next bucket.
<1>3. CASE GetNext(p)
  <2> USE <1>3
  <2> DEFINE l == me[p]
             m == [l EXCEPT !.mb = mb_arr[l.mb].next_ix]
  <2>1. TypeInv /\ l \in Locals /\ Consistent(l) /\ l.pc = "get_walk"
    BY DEF TableInv, TypeInv, GetNext, At
  <2>2. l.mb \in MBucket
    BY <2>1 DEF GetNext, Locals, Link
  <2>3. mb_arr[l.mb].next_ix \in Link
    BY <2>1, <2>2 DEF TypeInv, BucketT
  <2>4. m \in Locals /\ m.pc = "get_walk" /\ KeptCall(l, m) /\ KeptArgs(l, m)
    BY <2>1, <2>3, ZenonT(40) DEF Locals
  <2>5. Moved(p) /\ me'[p] = m
    <3>1. me' = [me EXCEPT ![p] = m]
      BY DEF GetNext
    <3> HIDE DEF m
    <3> QED
      BY <2>1, <2>4, <3>1, MovedTo, ZenonT(40)
  <2> HIDE DEF l, m
  <2>6. Calm(l, m) /\ Blank(m)
    BY <2>1, <2>4, ZenonT(40)
       DEF Calm, Consistent, Holds, Writes, Reads, Hand, Blank, Ending, Point, BothRows
  <2> QED
    BY <2>5, <2>6, BlankStep DEF l, GetNext
\* get_mbucket met the end of the list and unlocks the row.
<1>4. CASE GetNone(p)
  <2> USE <1>4
  <2> DEFINE l == me[p]
             m == me'[p]
  <2>1. TypeInv /\ l \in Locals /\ Consistent(l) /\ l.pc = "get_walk" /\ "ur_dec" \in Control
    BY DEF TableInv, TypeInv, Control, GetNone, At
  <2>2. Moved(p) /\ m.pc = "ur_dec" /\ KeptCall(l, m) /\ KeptArgs(l, m) /\ KeptFound(l, m)
    BY <2>1, GotoMoves, ZenonT(40) DEF GetNone
  <2> HIDE DEF l, m
  <2>3. Calm(l, m) /\ Blank(m)
    BY <2>1, <2>2, ZenonT(40)
       DEF Calm, Consistent, Holds, Writes, Reads, Hand, Blank, Ending, Point, BothRows
  <2> QED
    BY <2>2, <2>3, BlankStep, ZenonT(40) DEF l, m, GetNone
<1> QED
  BY <1>1, <1>2, <1>3, <1>4, ZenonT(40) DEF LookupStep

(* The steps of open and create_new_file keep the invariant. *)
LEMMA OpenKeeps ==
  ASSUME SearchSound, TableInv, NEW p \in Proc, OpenStep(p)
  PROVE  TableInv'
\* open found the file.
<1>1. CASE OpenExisting(p)
  <2> USE <1>1
  <2> DEFINE l == me[p]
             m == me'[p]
  <2>1. TypeInv /\ l \in Locals /\ Consistent(l) /\ l.pc = "open_looked"
    BY DEF TableInv, TypeInv, OpenExisting, At
  <2>2. Moved(p) /\ m.pc = "idle"
    BY <2>1, FinishMoves, ZenonT(40) DEF OpenExisting
  <2> HIDE DEF l, m
  <2>3. Calm(l, m) /\ Blank(m)
    BY <2>1, <2>2, ZenonT(40)
       DEF Calm, Consistent, Holds, Writes, Reads, Hand, Blank, Ending, Point, BothRows
  <2> QED
    BY <2>2, <2>3, BlankStep DEF l, m, OpenExisting
\* open did not find the file and locks its row to create it.
<1>2. CASE OpenNew(p)
  <2> USE <1>2
  <2> DEFINE l == me[p]
             m == me'[p]
  <2>1. TypeInv /\ l \in Locals /\ Consistent(l) /\ l.pc = "open_looked"
    BY DEF TableInv, TypeInv, OpenNew, At
  <2>2. "dw_reg" \in Control /\ "cr_find" \in Control
    BY DEF Control
  <2>3. l.str \in Path
    BY <2>1, RowsOfCall, ZenonT(40)
  <2>4. /\ Moved(p) /\ m.pc = "dw_reg" /\ m.str = l.str /\ m.row = hash[l.str]
        /\ m.ret = "cr_find" /\ KeptCall(l, m) /\ KeptFound(l, m)
    BY <2>1, <2>2, <2>3, EnteredMoves, ZenonT(40) DEF OpenNew, DownWrite
  <2> HIDE DEF l, m
  <2>5. Calm(l, m) /\ Blank(m)
    BY <2>1, <2>4, <2>3, TableAssumption, ZenonT(40)
       DEF Calm, Consistent, Holds, Writes, Reads, Hand, Blank, Ending, Point, BothRows
  <2> QED
    BY <2>4, <2>5, BlankStep DEF l, m, OpenNew
\* Another process created the file meanwhile.
<1>3. CASE CreateExists(p)
  <2> USE <1>3
  <2> DEFINE l == me[p]
             m == me'[p]
  <2>1. TypeInv /\ l \in Locals /\ Consistent(l) /\ l.pc = "cr_find"
    BY DEF TableInv, TypeInv, CreateExists, At
  <2>2. "uw_dec" \in Control /\ "idle" \in Control
    BY DEF Control
  <2>3. l.str \in Path
    BY <2>1, RowsOfCall, ZenonT(40)
  <2>4. /\ Moved(p) /\ m.pc = "uw_dec" /\ m.str = l.str /\ m.row = hash[l.str]
        /\ m.ret = "idle" /\ KeptCall(l, m) /\ KeptFound(l, m)
    BY <2>1, <2>2, <2>3, EnteredMoves, ZenonT(40) DEF CreateExists, UpWrite
  <2> HIDE DEF l, m
  <2>5. Calm(l, m) /\ Blank(m)
    BY <2>1, <2>4, <2>3, TableAssumption, ZenonT(120)
       DEF Calm, Consistent, Holds, Writes, Reads, Hand, Blank, Ending, Point, BothRows
  <2> QED
    BY <2>4, <2>5, BlankStep, ZenonT(40) DEF l, m, CreateExists
\* create_new_file found no bucket with the path, and the end of the list.
<1>4. CASE CreateAbsent(p)
  <2> USE <1>4
  <2> DEFINE l == me[p]
             found == get_mb_and_prev(l.str)
  <2>1. TypeInv /\ l \in Locals /\ Consistent(l) /\ l.pc = "cr_find" /\ "cr_alloc" \in Control
    BY DEF TableInv, TypeInv, Control, CreateAbsent, At
  <2>2. l.str \in Path /\ l.row = hash[l.str]
    BY <2>1, RowsOfCall, ZenonT(40)
  <2>3. found.mb = NIL /\ found.prev \in Link
    BY <2>2, SearchLinks DEF CreateAbsent
  <2>4. PICK s \in MBucket :
          me' = [me EXCEPT ![p].pc = "cr_alloc", ![p].start = s, ![p].i = 0, ![p].prev = found.prev]
    BY ZenonT(40) DEF CreateAbsent
  <2> DEFINE m == [l EXCEPT !.pc = "cr_alloc", !.start = s, !.i = 0, !.prev = found.prev]
  <2> HIDE DEF found
  <2>5. m \in Locals /\ m.pc = "cr_alloc" /\ m.prev = found.prev /\ KeptCall(l, m) /\ KeptArgs(l, m)
    <3>1. 0 \in 0 .. META_BUCKETS
      BY TableAssumption
    <3> QED
      BY <2>1, <2>3, <3>1, ZenonT(40) DEF Locals
  <2>6. Moved(p) /\ me'[p] = m
    <3>1. me' = [me EXCEPT ![p] = m]
      BY <2>4, ZenonT(40)
    <3> HIDE DEF m
    <3> QED
      BY <2>1, <2>5, <3>1, MovedTo, ZenonT(40)
  <2> HIDE DEF l, m
  <2>7. Calm(l, m)
    BY <2>1, <2>5, ZenonT(40) DEF Calm, Consistent, Holds, Writes, Reads, Hand, Point, BothRows
  <2>8. ASSUME NEW lists \in [Row -> SUBSET MBucket], NEW rank \in [MBucket -> Nat],
               RowInv(lists, rank)
        PROVE  Found(lists, m)
    <3>1. Finger(lists, hash[l.str], found.prev, NIL)
      BY <2>2, <2>3, <2>8, ZenonT(40) DEF SearchSound, found
    <3> QED
      BY <2>2, <2>5, <3>1, ZenonT(40) DEF Found, Ending
  <2> QED
    BY <2>1, <2>6, <2>7, <2>8, CalmStep DEF l, CreateAbsent, TypeInv
\* allocate_meta_bucket goes on to the next bucket when this one is in use.
<1>5. CASE AllocateSkip(p)
  <2> USE <1>5
  <2> DEFINE l == me[p]
             m == [l EXCEPT !.i = l.i + 1]
  <2>1. TypeInv /\ l \in Locals /\ Consistent(l) /\ l.pc = "cr_alloc"
    BY DEF TableInv, TypeInv, AllocateSkip, At
  <2>2. l.i + 1 \in 0 .. META_BUCKETS
    BY <2>1, TableAssumption DEF AllocateSkip, Locals
  <2>4. m \in Locals /\ m.pc = "cr_alloc" /\ KeptCall(l, m) /\ KeptArgs(l, m) /\ KeptFound(l, m)
    BY <2>1, <2>2, ZenonT(40) DEF Locals
  <2>5. Moved(p) /\ me'[p] = m
    <3>1. me' = [me EXCEPT ![p] = m]
      BY DEF AllocateSkip
    <3> HIDE DEF m
    <3> QED
      BY <2>1, <2>4, <3>1, MovedTo, ZenonT(40)
  <2> HIDE DEF l, m
  <2>6. Calm(l, m)
    BY <2>1, <2>4, ZenonT(40) DEF Calm, Consistent, Holds, Writes, Reads, Hand, Point, BothRows
  <2>7. \A lists : Found(lists, l) => Found(lists, m)
    BY <2>1, <2>4, ZenonT(40) DEF Found, Ending
  <2> QED
    BY <2>1, <2>5, <2>6, <2>7, CalmStep DEF l, AllocateSkip, TypeInv
\* allocate_meta_bucket claims a free bucket: it is in no list and in no other
\* hand.
<1>6. CASE AllocateClaim(p)
  <2> USE <1>6
  <2> DEFINE l == me[p]
             c == current_ix(p)
             m == [l EXCEPT !.pc = "cr_link", !.mb = c]
  <2>1. TypeInv /\ l \in Locals /\ Consistent(l) /\ l.pc = "cr_alloc" /\ "cr_link" \in Control
    BY DEF TableInv, TypeInv, Control, AllocateClaim, At
  <2>2. c \in MBucket
    <3>1. l.start \in Nat /\ l.i \in Nat /\ META_BUCKETS \in Nat \ {0}
      BY <2>1, TableAssumption DEF Locals, MBucket
    <3>2. \A n \in Nat : n % META_BUCKETS \in 0 .. META_BUCKETS - 1
      BY <3>1
    <3> QED
      BY <3>1, <3>2 DEF current_ix, MBucket
  <2>3. ~ mb_arr[c].in_use /\ me' = [me EXCEPT ![p] = m]
        /\ mb_arr' = [mb_arr EXCEPT ![c].in_use = TRUE] /\ hash_table' = hash_table
    BY ZenonT(40) DEF AllocateClaim, Free
  <2> HIDE DEF c
  <2>4. /\ m \in Locals /\ m.pc = "cr_link" /\ m.mb = c
        /\ m.prev = l.prev /\ KeptCall(l, m) /\ KeptArgs(l, m)
    BY <2>1, <2>2, ZenonT(40) DEF Locals, Link
  <2>5. Moved(p) /\ me'[p] = m
    <3> HIDE DEF m
    <3> QED
      BY <2>1, <2>3, <2>4, MovedTo, ZenonT(40)
  <2> HIDE DEF l, m
  <2>6. /\ Consistent(m) /\ Holds(m) = Holds(l) /\ Reads(m) = Reads(l) /\ Writes(m) = Writes(l)
        /\ Hand(m) = {c} /\ Hand(l) = {}
    BY <2>1, <2>2, <2>4, NilNoBucket, ZenonT(40)
       DEF Consistent, Holds, Writes, Reads, Hand, Point, BothRows
  <2>7. /\ mb_arr' \in [MBucket -> BucketT] /\ NextIx' = NextIx
        /\ InUse' = InUse \cup {c} /\ c \notin InUse
    <3>1. mb_arr \in [MBucket -> BucketT]
      BY <2>1 DEF TypeInv
    <3> QED
      BY <2>2, <2>3, <3>1, ZenonT(40) DEF BucketT, NextIx, InUse
  <2>8. TypeInv'
    BY <2>1, <2>3, <2>5, <2>6, <2>7 DEF TypeInv, Moved
  <2>9. HolderInv' /\ CountInv'
    BY <2>3, <2>5, <2>6, HolderKept, CountKept, ZenonT(40) DEF l, TableInv
  <2>10. ListInv'
    <3>1. PICK lists, rank : Witness(lists, rank)
      BY DEF TableInv, ListInv, Witness
    <3>2. RowInv(lists, rank)'
      BY <2>3, <2>7, <3>1 DEF Witness, RowInv, RowIs
    <3>3. HandInv(lists)'
      <4>1. HandInv(lists) /\ RowInv(lists, rank)
        BY <3>1 DEF Witness
      <4>2. \A r \in Row : {c} \cap lists[r] = {}
        BY <2>7, <4>1, ZenonT(40) DEF RowInv
      <4>3. \A q \in Proc : q # p => /\ {c} \cap Hand(me[q]) = {}
                                     /\ Hand(me[q]) \subseteq InUse'
                                     /\ \A r \in Row : Hand(me[q]) \cap lists[r] = {}
        <5>1. \A q \in Proc : Hand(me[q]) \subseteq InUse
          BY <4>1, ZenonT(40) DEF HandInv
        <5>2. \A q \in Proc, r \in Row : Hand(me[q]) \cap lists[r] = {}
          BY <4>1, ZenonT(40) DEF HandInv
        <5>3. \A q \in Proc : {c} \cap Hand(me[q]) = {} /\ Hand(me[q]) \subseteq InUse'
          BY <2>7, <5>1, ZenonT(40)
        <5> QED
          BY <5>2, <5>3, ZenonT(40)
      <4>4. \A b \in InUse' : \/ \E r \in Row : b \in lists[r]
                              \/ b \in {c}
                              \/ \E q \in Proc : q # p /\ b \in Hand(me[q])
        BY <2>6, <2>7, <4>1, ZenonT(40) DEF HandInv, l
      <4>5. \A b \in MBucket \ InUse' : NextIx'[b] = NIL
        BY <2>7, <4>1 DEF HandInv
      <4>6. {c} \subseteq InUse' /\ Hand(me'[p]) = {c}
        BY <2>5, <2>6, <2>7
      <4> QED
        BY <2>5, <4>1, <4>2, <4>3, <4>4, <4>5, <4>6, HandsAfter, ZenonT(40)
    <3>4. \A q \in Proc : q # p => Found(lists, me[q])'
      <4>1. Undisturbed(p, lists, lists)
        BY <2>3, <2>5, <2>7, ZenonT(40) DEF Undisturbed
      <4> QED
        BY <2>8, <3>1, <4>1, OthersFound, ZenonT(40)
    <3>5. Found(lists, me[p])'
      <4>1. Finger(lists, l.row, l.prev, NIL)
        BY <2>1, <3>1, ZenonT(40) DEF Witness, Found, l
      <4>2. NextIx[c] = NIL
        BY <2>2, <2>7, <3>1, ZenonT(40) DEF Witness, HandInv
      <4>3. me'[p].pc = "cr_link" /\ me'[p].mb = c /\ me'[p].prev = l.prev /\ me'[p].row = l.row
        BY <2>4, <2>5
      <4> QED
        BY <2>3, <2>7, <4>1, <4>2, <4>3, ZenonT(40) DEF Found, Finger, Ending
    <3> QED
      BY <3>1, <3>2, <3>3, <3>4, <3>5, ZenonT(40) DEF ListInv, Witness
  <2> QED
    BY <2>8, <2>9, <2>10 DEF TableInv
\* The table is full, and the row is unlocked.
<1>7. CASE AllocateNone(p)
  <2> USE <1>7
  <2> DEFINE l == me[p]
             m == me'[p]
  <2>1. TypeInv /\ l \in Locals /\ Consistent(l) /\ l.pc = "cr_alloc"
    BY DEF TableInv, TypeInv, AllocateNone, At
  <2>2. "uw_dec" \in Control /\ "idle" \in Control
    BY DEF Control
  <2>3. l.str \in Path
    BY <2>1, RowsOfCall, ZenonT(40)
  <2>4. /\ Moved(p) /\ m.pc = "uw_dec" /\ m.str = l.str /\ m.row = hash[l.str]
        /\ m.ret = "idle" /\ KeptCall(l, m) /\ KeptFound(l, m)
    BY <2>1, <2>2, <2>3, EnteredMoves, ZenonT(40) DEF AllocateNone, UpWrite
  <2> HIDE DEF l, m
  <2>5. Calm(l, m) /\ Blank(m)
    BY <2>1, <2>4, <2>3, TableAssumption, ZenonT(120)
       DEF Calm, Consistent, Holds, Writes, Reads, Hand, Blank, Ending, Point, BothRows
  <2> QED
    BY <2>4, <2>5, BlankStep, ZenonT(40) DEF l, m, AllocateNone
\* create_new_file appends the bucket it claimed to the list of the row it
\* holds.
<1>8. CASE CreateLink(p)
  <2> USE <1>8
  <2> DEFINE l == me[p]
             m == me'[p]
  <2>1. /\ TypeInv /\ l \in Locals /\ Consistent(l) /\ l.pc = "cr_link"
        /\ "uw_dec" \in Control /\ "cr_data" \in Control
    BY DEF TableInv, TypeInv, Control, CreateLink, At
  <2>2. /\ l.str \in Path /\ l.row = hash[l.str] /\ l.row \in Row
        /\ l.mb \in MBucket /\ l.mb \in Link /\ l.prev \in Link
    BY <2>1, RowsOfCall, ZenonT(40) DEF Consistent, Point, Locals, Link
  <2>3. /\ Moved(p) /\ m.pc = "uw_dec" /\ m.str = l.str /\ m.row = hash[l.str]
        /\ m.ret = "cr_data" /\ KeptCall(l, m) /\ KeptFound(l, m)
    BY <2>1, <2>2, EnteredMoves, ZenonT(40) DEF CreateLink, UpWrite
  <2>4. SetLink(l.row, l.prev, l.mb)
    BY DEF CreateLink
  <2> HIDE DEF l, m
  <2>5. /\ Consistent(m) /\ Holds(m) = Holds(l) /\ Reads(m) = Reads(l) /\ Writes(m) = Writes(l)
        /\ Hand(m) = {} /\ Hand(l) = {l.mb} /\ l.row \in Holds(l)
    BY <2>1, <2>2, <2>3, NilNoBucket, ZenonT(120)
       DEF Consistent, Holds, Writes, Reads, Hand, Point, BothRows
  <2>6. PICK lists, rank : Witness(lists, rank)
    BY DEF TableInv, ListInv, Witness
  <2>7. PICK r \in Row, prev \in Link, mb \in MBucket : r = l.row /\ prev = l.prev /\ mb = l.mb
    BY <2>2
  <2>8. /\ HandInv(lists) /\ RowInv(lists, rank) /\ Found(lists, l)
        /\ lists \in [Row -> SUBSET MBucket] /\ rank \in [MBucket -> Nat]
    BY <2>6 DEF Witness, l
  <2>9. /\ LeadsTo(hash_table[r].first_ix, NextIx, lists[r], prev, NIL) /\ NextIx[mb] = NIL
        /\ IsList(hash_table[r].first_ix, NextIx, lists[r], rank)
        /\ hash_table[r].first_ix \in Link /\ mb \notin lists[r] /\ mb \in Link
    BY <2>1, <2>2, <2>5, <2>7, <2>8, ZenonT(40)
       DEF Found, Finger, Ending, RowInv, RowIs, TypeInv, RowT, HandInv, l
  <2>10. PICK rank2 \in [MBucket -> Nat] :
           rank2 = [rank EXCEPT ![mb] = IF prev = NIL THEN 0 ELSE rank[prev] + 1]
    <3>1. prev # NIL => rank[prev] + 1 \in Nat
      BY <2>8 DEF Link
    <3> QED
      BY <2>8, <3>1, ZenonT(40)
  <2>11. SetLink(r, prev, mb)
    BY <2>4, <2>7
  <2>12. IsList(hash_table'[r].first_ix, NextIx', lists[r] \cup {mb}, rank2)
    <3>1. /\ NextIx \in [MBucket -> Link]
          /\ Relinked(hash_table[r].first_ix, NextIx, prev, mb, hash_table'[r].first_ix, NextIx')
      BY <2>1, <2>9, <2>11, SetLinkRelinks, ZenonT(40) DEF Link
    <3> QED
      BY <2>8, <2>9, <2>10, <3>1, ListAppend, ZenonT(40)
  <2>13. PICK lists2 : lists2 = [lists EXCEPT ![r] = lists[r] \cup {mb}]
    BY ZenonT(40)
  <2>14. Found(lists2, me[p])'
    BY <2>3, ZenonT(40) DEF Found, Ending, m
  <2>15. /\ \A c \in MBucket : c \notin lists[r] \cup {mb} => rank2[c] = rank[c]
         /\ (lists[r] \cup {mb}) \cup Hand(me'[p]) = lists[r] \cup Hand(me[p])
         /\ (lists[r] \cup {mb}) \cap Hand(me'[p]) = {}
         /\ prev = NIL \/ prev \in lists[r]
    BY <2>5, <2>7, <2>8, <2>9, <2>10, ZenonT(40) DEF LeadsTo, l, m
  <2>16. Relinks(p, r, prev, mb, lists, rank, lists[r] \cup {mb}, rank2, lists2)
    BY <2>3, <2>5, <2>6, <2>7, <2>9, <2>11, <2>12, <2>13, <2>14, <2>15, ZenonT(40) DEF Relinks, l, m
  <2> QED
    BY <2>16, RelinkStep
\* create_new_file gives the bucket its data after the row is unlocked.
<1>9. CASE CreateData(p)
  <2> USE <1>9
  <2> DEFINE l == me[p]
             m == me'[p]
  <2>1. TypeInv /\ l \in Locals /\ Consistent(l) /\ l.pc = "cr_data" /\ "cr_path" \in Control
    BY DEF TableInv, TypeInv, Control, CreateData, At
  <2>2. Moved(p) /\ m.pc = "cr_path" /\ KeptCall(l, m) /\ KeptArgs(l, m) /\ KeptFound(l, m)
    BY <2>1, GotoMoves, ZenonT(40) DEF CreateData
  <2>3. l.mb \in MBucket
    BY <2>1, ZenonT(40) DEF Consistent, Point, Locals, Link
  <2>4. /\ mb_arr' \in [MBucket -> BucketT]
        /\ \A b \in MBucket : /\ mb_arr'[b].next_ix = mb_arr[b].next_ix
                              /\ mb_arr'[b].in_use = mb_arr[b].in_use
    <3>1. mb_arr \in [MBucket -> BucketT] /\ mb_arr' = [mb_arr EXCEPT ![l.mb].data = TRUE]
      BY <2>1 DEF TypeInv, CreateData
    <3> HIDE DEF l
    <3> QED
      BY <2>3, <3>1, ZenonT(120) DEF BucketT
  <2> HIDE DEF l, m
  <2>5. Calm(l, m)
    BY <2>1, <2>2, ZenonT(40) DEF Calm, Consistent, Holds, Writes, Reads, Hand, Point, BothRows
  <2>6. \A lists : Found(lists, l) => Found(lists, m)
    BY <2>1, <2>2 DEF Found, Ending
  <2> QED
    BY <2>2, <2>4, <2>5, <2>6, CalmStep, ZenonT(40) DEF l, m, CreateData
\* create_new_file gives the bucket its path at last.
<1>10. CASE CreatePath(p)
  <2> USE <1>10
  <2> DEFINE l == me[p]
             m == me'[p]
  <2>1. TypeInv /\ l \in Locals /\ Consistent(l) /\ l.pc = "cr_path"
    BY DEF TableInv, TypeInv, Control, CreatePath, At
  <2>2. Moved(p) /\ m.pc = "idle"
    BY <2>1, FinishMoves, ZenonT(40) DEF CreatePath
  <2>3. l.mb \in MBucket /\ l.str \in Path
    BY <2>1, RowsOfCall, ZenonT(40) DEF Consistent, Point, Locals, Link
  <2>4. /\ mb_arr' \in [MBucket -> BucketT]
        /\ \A b \in MBucket : /\ mb_arr'[b].next_ix = mb_arr[b].next_ix
                              /\ mb_arr'[b].in_use = mb_arr[b].in_use
    <3>1. mb_arr \in [MBucket -> BucketT] /\ mb_arr' = [mb_arr EXCEPT ![l.mb].path = l.str]
      BY <2>1 DEF TypeInv, CreatePath
    <3> HIDE DEF l
    <3> QED
      BY <2>3, <3>1 DEF BucketT
  <2> HIDE DEF l, m
  <2>5. Calm(l, m)
    BY <2>1, <2>2, ZenonT(40) DEF Calm, Consistent, Holds, Writes, Reads, Hand, Point, BothRows
  <2>6. \A lists : Found(lists, l) => Found(lists, m)
    BY <2>1, <2>2, ZenonT(40) DEF Found, Ending
  <2> QED
    BY <2>2, <2>4, <2>5, <2>6, CalmStep DEF l, m, CreatePath
<1> QED
  BY <1>1, <1>2, <1>3, <1>4, <1>5, <1>6, <1>7, <1>8, <1>9, <1>10, ZenonT(40) DEF OpenStep

(* The steps of unlink and release_meta_bucket keep the invariant. *)
LEMMA ReleaseKeeps ==
  ASSUME SearchSound, TableInv, NEW p \in Proc, ReleaseStep(p)
  PROVE  TableInv'
\* There is nothing to release, and the row is unlocked.
<1>1. CASE ReleaseAbsent(p)
  <2> USE <1>1
  <2> DEFINE l == me[p]
             m == me'[p]
  <2>1. TypeInv /\ l \in Locals /\ Consistent(l) /\ l.pc = "rl_find"
    BY DEF TableInv, TypeInv, ReleaseAbsent, At
  <2>2. "uw_dec" \in Control /\ "idle" \in Control
    BY DEF Control
  <2>3. l.str \in Path
    BY <2>1, RowsOfCall, ZenonT(40)
  <2>4. /\ Moved(p) /\ m.pc = "uw_dec" /\ m.str = l.str /\ m.row = hash[l.str]
        /\ m.ret = "idle" /\ KeptCall(l, m) /\ KeptFound(l, m)
    BY <2>1, <2>2, <2>3, EnteredMoves, ZenonT(40) DEF ReleaseAbsent, UpWrite
  <2> HIDE DEF l, m
  <2>5. Calm(l, m) /\ Blank(m)
    BY <2>1, <2>4, <2>3, TableAssumption, ZenonT(120)
       DEF Calm, Consistent, Holds, Writes, Reads, Hand, Blank, Ending, Point, BothRows
  <2> QED
    BY <2>4, <2>5, BlankStep, ZenonT(40) DEF l, m, ReleaseAbsent
\* release_meta_bucket found the bucket and the link to it.
<1>2. CASE ReleaseFound(p)
  <2> USE <1>2
  <2> DEFINE l == me[p]
             found == get_mb_and_prev(l.str)
             m == [l EXCEPT !.pc = "rl_unlink", !.mb = found.mb, !.prev = found.prev]
  <2>1. TypeInv /\ l \in Locals /\ Consistent(l) /\ l.pc = "rl_find" /\ "rl_unlink" \in Control
    BY DEF TableInv, TypeInv, Control, ReleaseFound, At
  <2>2. l.str \in Path /\ l.row = hash[l.str]
    BY <2>1, RowsOfCall, ZenonT(40)
  <2>3. found.mb # NIL /\ found.mb \in Link /\ found.prev \in Link
    BY <2>2, SearchLinks DEF ReleaseFound
  <2>4. me' = [me EXCEPT ![p] = m]
    BY ZenonT(40) DEF ReleaseFound
  <2> HIDE DEF found
  <2>5. /\ m \in Locals /\ m.pc = "rl_unlink" /\ m.mb = found.mb /\ m.prev = found.prev
        /\ KeptCall(l, m) /\ KeptArgs(l, m)
    BY <2>1, <2>3, ZenonT(40) DEF Locals
  <2>6. Moved(p) /\ me'[p] = m
    <3> HIDE DEF m
    <3> QED
      BY <2>1, <2>4, <2>5, MovedTo, ZenonT(40)
  <2> HIDE DEF l, m
  <2>7. Calm(l, m)
    BY <2>1, <2>3, <2>5, ZenonT(40) DEF Calm, Consistent, Holds, Writes, Reads, Hand, Point, BothRows
  <2>8. ASSUME NEW lists \in [Row -> SUBSET MBucket], NEW rank \in [MBucket -> Nat],
               RowInv(lists, rank)
        PROVE  Found(lists, m)
    <3>1. Finger(lists, hash[l.str], found.prev, found.mb)
      BY <2>2, <2>8, ZenonT(40) DEF SearchSound, found
    <3> QED
      BY <2>2, <2>5, <3>1, ZenonT(40) DEF Found, Ending
  <2> QED
    BY <2>1, <2>6, <2>7, <2>8, CalmStep DEF l, ReleaseFound, TypeInv
\* release_meta_bucket unlinks the bucket it found from the row it holds.
<1>3. CASE ReleaseUnlink(p)
  <2> USE <1>3
  <2> DEFINE l == me[p]
             m == me'[p]
  <2>1. TypeInv /\ l \in Locals /\ Consistent(l) /\ l.pc = "rl_unlink" /\ "rl_next" \in Control
    BY DEF TableInv, TypeInv, Control, ReleaseUnlink, At
  <2>2. l.row = hash[l.str] /\ l.row \in Row /\ l.mb \in MBucket /\ l.prev \in Link
    BY <2>1, RowsOfCall, ZenonT(40) DEF Consistent, Point, Locals, Link
  <2>3. Moved(p) /\ m.pc = "rl_next" /\ KeptCall(l, m) /\ KeptArgs(l, m) /\ KeptFound(l, m)
    BY <2>1, GotoMoves, ZenonT(40) DEF ReleaseUnlink
  <2>4. SetLink(l.row, l.prev, mb_arr[l.mb].next_ix)
    BY ZenonT(40) DEF ReleaseUnlink
  <2> HIDE DEF l, m
  <2>5. /\ Consistent(m) /\ Holds(m) = Holds(l) /\ Reads(m) = Reads(l) /\ Writes(m) = Writes(l)
        /\ Hand(m) = {l.mb} /\ Hand(l) = {} /\ l.row \in Holds(l)
    BY <2>1, <2>2, <2>3, NilNoBucket, ZenonT(120)
       DEF Consistent, Holds, Writes, Reads, Hand, Point, BothRows
  <2>6. PICK lists, rank : Witness(lists, rank)
    BY DEF TableInv, ListInv, Witness
  <2>7. PICK r \in Row, prev \in Link, mb \in MBucket : r = l.row /\ prev = l.prev /\ mb = l.mb
    BY <2>2
  <2>8. /\ RowInv(lists, rank) /\ Found(lists, l)
        /\ lists \in [Row -> SUBSET MBucket] /\ rank \in [MBucket -> Nat]
    BY <2>6 DEF Witness, l
  <2>9. /\ LeadsTo(hash_table[r].first_ix, NextIx, lists[r], prev, mb)
        /\ IsList(hash_table[r].first_ix, NextIx, lists[r], rank)
        /\ hash_table[r].first_ix \in Link
        /\ NextIx \in [MBucket -> Link] /\ NextIx[mb] = mb_arr[mb].next_ix /\ NextIx[mb] \in Link
    BY <2>1, <2>7, <2>8, ZenonT(40) DEF Found, Finger, RowInv, RowIs, TypeInv, RowT, BucketT, NextIx
  <2>10. SetLink(r, prev, NextIx[mb])
    BY <2>4, <2>7, <2>9
  <2>11. mb \in lists[r] /\ IsList(hash_table'[r].first_ix, NextIx', lists[r] \ {mb}, rank)
    <3>1. Relinked(hash_table[r].first_ix, NextIx, prev, NextIx[mb], hash_table'[r].first_ix, NextIx')
      BY <2>1, <2>9, <2>10, SetLinkRelinks, ZenonT(40) DEF Link
    <3> QED
      BY <2>8, <2>9, <3>1, ListUnlink, ZenonT(40)
  <2>12. PICK lists2 : lists2 = [lists EXCEPT ![r] = lists[r] \ {mb}]
    BY ZenonT(40)
  <2>13. Found(lists2, me[p])'
    BY <2>3 DEF Found, Ending, m
  <2>14. /\ (lists[r] \ {mb}) \cup Hand(me'[p]) = lists[r] \cup Hand(me[p])
         /\ (lists[r] \ {mb}) \cap Hand(me'[p]) = {}
         /\ prev = NIL \/ prev \in lists[r]
    BY <2>5, <2>7, <2>9, <2>11, ZenonT(40) DEF LeadsTo, l, m
  <2>15. Relinks(p, r, prev, NextIx[mb], lists, rank, lists[r] \ {mb}, rank, lists2)
    BY <2>3, <2>5, <2>6, <2>7, <2>8, <2>9, <2>10, <2>11, <2>12, <2>13, <2>14, ZenonT(40)
       DEF Relinks, l, m
  <2> QED
    BY <2>15, RelinkStep, ZenonT(40)
\* release_meta_bucket clears next_ix of the bucket it has unlinked.
<1>4. CASE ReleaseNext(p)
  <2> USE <1>4
  <2> DEFINE l == me[p]
             m == me'[p]
  <2>1. /\ TypeInv /\ l \in Locals /\ Consistent(l) /\ l.pc = "rl_next"
        /\ "uw_dec" \in Control /\ "mb_lock" \in Control
    BY ZenonT(40) DEF TableInv, TypeInv, Control, ReleaseNext, At
  <2>2. l.str \in Path /\ l.row = hash[l.str] /\ l.mb \in MBucket
    BY <2>1, RowsOfCall, ZenonT(40) DEF Consistent, Point, Locals, Link
  <2>3. mb_arr' = [mb_arr EXCEPT ![l.mb].next_ix = NIL] /\ hash_table' = hash_table
    BY DEF ReleaseNext
  <2>4. /\ Moved(p) /\ m.pc = "uw_dec" /\ m.str = l.str /\ m.row = hash[l.str]
        /\ m.ret = "mb_lock" /\ KeptCall(l, m) /\ KeptFound(l, m)
    BY <2>1, <2>2, EnteredMoves, ZenonT(40) DEF ReleaseNext, UpWrite
  <2> HIDE DEF l, m
  <2>5. /\ Consistent(m) /\ Holds(m) = Holds(l) /\ Reads(m) = Reads(l) /\ Writes(m) = Writes(l)
        /\ Hand(m) = {l.mb} /\ Hand(l) = {l.mb}
    BY <2>1, <2>2, <2>4, NilNoBucket, ZenonT(120)
       DEF Consistent, Holds, Writes, Reads, Hand, Point, BothRows
  <2>6. /\ mb_arr' \in [MBucket -> BucketT] /\ InUse' = InUse
        /\ NextIx'[l.mb] = NIL /\ \A b \in MBucket : b # l.mb => NextIx'[b] = NextIx[b]
    <3>1. mb_arr \in [MBucket -> BucketT] /\ NIL \in Link
      BY <2>1 DEF TypeInv, Link
    <3> QED
      BY <2>2, <2>3, <3>1 DEF BucketT, NextIx, InUse
  <2>7. TypeInv'
    BY <2>1, <2>3, <2>4, <2>5, <2>6 DEF TypeInv, Moved, m
  <2>8. HolderInv' /\ CountInv'
    BY <2>3, <2>4, <2>5, HolderKept, CountKept, ZenonT(40) DEF l, m, TableInv
  <2>9. ListInv'
    <3>1. PICK lists, rank : Witness(lists, rank)
      BY DEF TableInv, ListInv, Witness
    <3>2. \A r \in Row : l.mb \notin lists[r]
      BY <2>5, <3>1, ZenonT(40) DEF Witness, HandInv, l
    <3>3. \A r \in Row : \A b \in lists[r] : NextIx'[b] = NextIx[b] /\ b \in MBucket
      BY <2>6, <3>1, <3>2, ZenonT(40) DEF Witness
    <3>4. RowInv(lists, rank)'
      <4>1. \A r \in Row : IsList(hash_table[r].first_ix, NextIx', lists[r], rank)
        BY <3>1, <3>3, ListFrame, ZenonT(40) DEF Witness, RowInv, RowIs
      <4> QED
        BY <2>3, <2>6, <3>1, <4>1 DEF Witness, RowInv, RowIs
    <3>5. \A q \in Proc : Hand(me'[q]) = Hand(me[q])
      BY <2>4, <2>5 DEF Moved, l, m
    <3>6. HandInv(lists)'
      BY <2>6, <3>1, <3>5, ZenonT(40) DEF Witness, HandInv, InUse
    <3>7. \A q \in Proc : q # p => \A b \in Hand(me[q]) : NextIx'[b] = NextIx[b]
      BY <2>5, <2>6, <3>1, ZenonT(40) DEF Witness, HandInv, InUse, l
    <3>8. \A q \in Proc : q # p => Found(lists, me[q])'
      <4>1. Undisturbed(p, lists, lists)
        BY <2>3, <2>4, <3>3, <3>7, ZenonT(40) DEF Undisturbed
      <4> QED
        BY <2>7, <3>1, <4>1, OthersFound, ZenonT(40)
    <3>9. Found(lists, me[p])'
      BY <2>4, <2>6, ZenonT(40) DEF Found, Ending, m
    <3> QED
      BY <3>1, <3>4, <3>6, <3>8, <3>9 DEF ListInv, Witness
  <2> QED
    BY <2>7, <2>8, <2>9 DEF TableInv
\* free_mbucket takes the lock of the bucket.
<1>5. CASE BucketLock(p)
  <2> USE <1>5
  <2> DEFINE l == me[p]
             m == me'[p]
  <2>1. TypeInv /\ l \in Locals /\ Consistent(l) /\ l.pc = "mb_lock" /\ "mb_clear" \in Control
    BY DEF TableInv, TypeInv, Control, BucketLock, At
  <2>2. Moved(p) /\ m.pc = "mb_clear" /\ KeptCall(l, m) /\ KeptArgs(l, m) /\ KeptFound(l, m)
    BY <2>1, GotoMoves, ZenonT(40) DEF BucketLock
  <2>3. l.mb \in MBucket
    BY <2>1, ZenonT(40) DEF Consistent, Point, Locals, Link
  <2>4. /\ mb_arr' \in [MBucket -> BucketT]
        /\ \A b \in MBucket : /\ mb_arr'[b].next_ix = mb_arr[b].next_ix
                              /\ mb_arr'[b].in_use = mb_arr[b].in_use
    <3>1. mb_arr \in [MBucket -> BucketT] /\ mb_arr' = [mb_arr EXCEPT ![l.mb].lock = p]
      BY <2>1 DEF TypeInv, BucketLock
    <3> HIDE DEF l
    <3> QED
      BY <2>3, <3>1 DEF BucketT
  <2> HIDE DEF l, m
  <2>5. Calm(l, m)
    BY <2>1, <2>2, ZenonT(120) DEF Calm, Consistent, Holds, Writes, Reads, Hand, Point, BothRows
  <2>6. \A lists : Found(lists, l) => Found(lists, m)
    BY <2>1, <2>2, ZenonT(40) DEF Found, Ending
  <2> QED
    BY <2>2, <2>4, <2>5, <2>6, CalmStep, ZenonT(40) DEF l, m, BucketLock
\* free_mbucket clears in_use of a bucket that is in no list, and its process
\* lets go of it.
<1>6. CASE BucketClear(p)
  <2> USE <1>6
  <2> DEFINE l == me[p]
             m == me'[p]
  <2>1. TypeInv /\ l \in Locals /\ Consistent(l) /\ l.pc = "mb_clear" /\ "mb_unlock" \in Control
    BY ZenonT(40) DEF TableInv, TypeInv, Control, BucketClear, At
  <2>2. l.mb \in MBucket
    BY <2>1, ZenonT(40) DEF Consistent, Point, Locals, Link
  <2>3. /\ hash_table' = hash_table
        /\ mb_arr' = [mb_arr EXCEPT ![l.mb].in_use = FALSE, ![l.mb].data = FALSE,
                                    ![l.mb].next_ix = IF l.job.op = "rename" THEN NIL ELSE @]
    BY DEF BucketClear
  <2>4. Moved(p) /\ m.pc = "mb_unlock" /\ KeptCall(l, m) /\ KeptArgs(l, m) /\ KeptFound(l, m)
    BY <2>1, GotoMoves, ZenonT(40) DEF BucketClear
  <2> HIDE DEF l, m
  <2>5. /\ Consistent(m) /\ Holds(m) = Holds(l) /\ Reads(m) = Reads(l) /\ Writes(m) = Writes(l)
        /\ Hand(m) = {} /\ Hand(l) = {l.mb}
    BY <2>1, <2>4, ZenonT(120) DEF Consistent, Holds, Writes, Reads, Hand, Point, BothRows
  <2>6. /\ mb_arr' \in [MBucket -> BucketT] /\ InUse' = InUse \ {l.mb}
        /\ \A b \in MBucket : b # l.mb => NextIx'[b] = NextIx[b]
        /\ NextIx'[l.mb] = IF l.job.op = "rename" THEN NIL ELSE NextIx[l.mb]
    <3>1. mb_arr \in [MBucket -> BucketT] /\ NIL \in Link
      BY <2>1 DEF TypeInv, Link
    <3>2. PICK x \in Link : x = IF l.job.op = "rename" THEN NIL ELSE mb_arr[l.mb].next_ix
      BY <2>2, <3>1, ZenonT(40) DEF BucketT
    <3>3. mb_arr' = [mb_arr EXCEPT ![l.mb].in_use = FALSE, ![l.mb].data = FALSE, ![l.mb].next_ix = x]
      BY <2>2, <2>3, <3>1, <3>2 DEF BucketT
    <3>4. mb_arr' \in [MBucket -> BucketT]
      BY <2>2, <3>1, <3>3, ZenonT(120) DEF BucketT
    <3>5. /\ mb_arr'[l.mb].in_use = FALSE /\ mb_arr'[l.mb].next_ix = x
          /\ \A b \in MBucket : b # l.mb => mb_arr'[b] = mb_arr[b]
      BY <2>2, <3>1, <3>3 DEF BucketT
    <3>6. InUse' = InUse \ {l.mb}
      BY <3>5 DEF InUse
    <3>7. \A b \in MBucket : NextIx'[b] = mb_arr'[b].next_ix /\ NextIx[b] = mb_arr[b].next_ix
      BY DEF NextIx
    <3> QED
      BY <2>2, <3>2, <3>4, <3>5, <3>6, <3>7, SMTT(20)
  <2>7. TypeInv'
    BY <2>1, <2>3, <2>4, <2>5, <2>6 DEF TypeInv, Moved, m
  <2>8. HolderInv' /\ CountInv'
    BY <2>3, <2>4, <2>5, HolderKept, CountKept DEF l, m, TableInv
  <2>9. ListInv'
    <3>1. PICK lists, rank : Witness(lists, rank)
      BY DEF TableInv, ListInv, Witness
    <3>2. HandInv(lists) /\ RowInv(lists, rank) /\ lists \in [Row -> SUBSET MBucket]
      BY <3>1, SMTT(20) DEF Witness
    <3>3. \A r \in Row : l.mb \notin lists[r]
      BY <2>5, <3>2, ZenonT(40) DEF HandInv, l
    <3>4. \A r \in Row : \A b \in lists[r] : NextIx'[b] = NextIx[b] /\ b \in MBucket
      BY <2>6, <3>2, <3>3
    <3>5. RowInv(lists, rank)'
      <4>1. \A r \in Row : IsList(hash_table[r].first_ix, NextIx', lists[r], rank)
        BY <3>2, <3>4, ListFrame, ZenonT(40) DEF RowInv, RowIs
      <4> QED
        BY <2>3, <2>6, <3>2, <3>3, <4>1, ZenonT(40) DEF RowInv, RowIs
    <3>6. NextIx'[l.mb] = NIL
      <4>1. l.job.op # "rename" => Ending(l)
        BY <2>1 DEF Ending, Consistent
      <4> QED
        BY <2>6, <3>1, <4>1, ZenonT(40) DEF Witness, Found, l
    <3>7. HandInv(lists)'
      <4>1. \A q \in Proc : q # p => /\ {} \cap Hand(me[q]) = {}
                                     /\ Hand(me[q]) \subseteq InUse'
                                     /\ \A r \in Row : Hand(me[q]) \cap lists[r] = {}
        BY <2>5, <2>6, <3>2, ZenonT(40) DEF HandInv, l
      <4>2. \A b \in InUse' : \/ \E r \in Row : b \in lists[r]
                              \/ b \in {}
                              \/ \E q \in Proc : q # p /\ b \in Hand(me[q])
        BY <2>5, <2>6, <3>2, ZenonT(40) DEF HandInv, l
      <4>3. \A b \in MBucket \ InUse' : NextIx'[b] = NIL
        BY <2>6, <3>2, <3>6, SMTT(20) DEF HandInv
      <4>4. Hand(me'[p]) = {} /\ {} \subseteq InUse' /\ \A r \in Row : {} \cap lists[r] = {}
        BY <2>5 DEF m
      <4> QED
        BY <2>4, <3>2, <4>1, <4>2, <4>3, <4>4, HandsAfter, ZenonT(120)
    <3>8. \A q \in Proc : q # p => \A b \in Hand(me[q]) : NextIx'[b] = NextIx[b]
      BY <2>5, <2>6, <3>2, ZenonT(40) DEF HandInv, InUse, l
    <3>9. \A q \in Proc : q # p => Found(lists, me[q])'
      <4>1. Undisturbed(p, lists, lists)
        BY <2>3, <2>4, <3>4, <3>8, ZenonT(40) DEF Undisturbed
      <4> QED
        BY <2>7, <3>1, <4>1, OthersFound, ZenonT(40)
    <3>10. Found(lists, me[p])'
      BY <2>4, ZenonT(40) DEF Found, Ending, m
    <3> QED
      BY <3>1, <3>5, <3>7, <3>9, <3>10 DEF ListInv, Witness
  <2> QED
    BY <2>7, <2>8, <2>9 DEF TableInv
\* free_mbucket gives the lock of the bucket back, and its caller goes on.
<1>7. CASE BucketUnlock(p)
  <2> USE <1>7
  <2> DEFINE l == me[p]
             m == me'[p]
  <2>1. /\ TypeInv /\ l \in Locals /\ Consistent(l) /\ l.pc = "mb_unlock"
        /\ "uw_dec" \in Control /\ "ch_unlock" \in Control
    BY DEF TableInv, TypeInv, Control, BucketUnlock, At
  <2>2. l.mb \in MBucket /\ l.job.new \in Path /\ hash[l.job.new] \in Row
    BY <2>1, RowsOfCall, ZenonT(40) DEF Consistent, Point, Locals, Link
  <2>3. /\ Moved(p)
        /\ IF l.job.op = "rename"
             THEN /\ m.pc = "uw_dec" /\ m.str = l.job.new /\ m.row = hash[l.job.new]
                  /\ m.ret = "ch_unlock" /\ KeptCall(l, m)
             ELSE m.pc = "idle"
    <3>1. CASE l.job.op = "rename"
      <4>1. me' = [me EXCEPT ![p] = Entered(p, "uw_dec", l.job.new, "ch_unlock")]
        BY <3>1 DEF BucketUnlock, UpWrite
      <4>2. /\ Moved(p) /\ m.pc = "uw_dec" /\ m.str = l.job.new /\ m.row = hash[l.job.new]
            /\ m.ret = "ch_unlock" /\ KeptCall(l, m) /\ KeptFound(l, m)
        BY <2>1, <2>2, <4>1, EnteredMoves, ZenonT(40)
      <4> QED
        BY <3>1, <4>2
    <3>2. CASE l.job.op # "rename"
      BY <2>1, <3>2, FinishMoves, ZenonT(40) DEF BucketUnlock
    <3> QED
      BY <3>1, <3>2, ZenonT(40)
  <2>4. /\ mb_arr' \in [MBucket -> BucketT]
        /\ \A b \in MBucket : /\ mb_arr'[b].next_ix = mb_arr[b].next_ix
                              /\ mb_arr'[b].in_use = mb_arr[b].in_use
    <3>1. mb_arr \in [MBucket -> BucketT] /\ mb_arr' = [mb_arr EXCEPT ![l.mb].lock = NoProc]
      BY <2>1 DEF TypeInv, BucketUnlock
    <3> HIDE DEF l
    <3> QED
      BY <2>2, <3>1 DEF BucketT
  <2> HIDE DEF l, m
  <2>5. Calm(l, m)
    BY <2>1, <2>2, <2>3, ZenonT(120) DEF Calm, Consistent, Holds, Writes, Reads, Hand, Point, BothRows
  <2>6. \A lists : Found(lists, m)
    BY <2>3, ZenonT(40) DEF Found, Ending
  <2> QED
    BY <2>3, <2>4, <2>5, <2>6, CalmStep DEF l, m, BucketUnlock
<1> QED
  BY <1>1, <1>2, <1>3, <1>4, <1>5, <1>6, <1>7, ZenonT(40) DEF ReleaseStep

(* The steps of rename and mb_chpath keep the invariant. *)
LEMMA RenameKeeps ==
  ASSUME ProcCounts, SearchSound, TableInv, NEW p \in Proc, RenameStep(p)
  PROVE  TableInv'
\* mb_chpath has the first row and asks for the second.
<1>1. CASE ChpathSecond(p)
  <2> USE <1>1
  <2> DEFINE l == me[p]
             m == me'[p]
  <2>1. TypeInv /\ l \in Locals /\ Consistent(l) /\ l.pc = "ch_second"
    BY DEF TableInv, TypeInv, ChpathSecond, At
  <2>2. "dw_reg" \in Control /\ "ch_find" \in Control
    BY DEF Control
  <2>3. l.job.new \in Path
    BY <2>1, RowsOfCall, ZenonT(40)
  <2>4. /\ Moved(p) /\ m.pc = "dw_reg" /\ m.str = l.job.new /\ m.row = hash[l.job.new]
        /\ m.ret = "ch_find" /\ KeptCall(l, m) /\ KeptFound(l, m)
    BY <2>1, <2>2, <2>3, EnteredMoves, ZenonT(40) DEF ChpathSecond, DownWrite
  <2> HIDE DEF l, m
  <2>5. Calm(l, m) /\ Blank(m)
    BY <2>1, <2>4, <2>3, TableAssumption, ZenonT(120)
       DEF Calm, Consistent, Holds, Writes, Reads, Hand, Blank, Ending, Point, BothRows
  <2> QED
    BY <2>4, <2>5, BlankStep, ZenonT(40) DEF l, m, ChpathSecond
\* mb_chpath returns with both rows locked when no bucket has the old path:
\* their lock words stay as they are, and p no longer holds them.
<1>2. CASE ChpathAbsent(p)
  <2> USE <1>2
  <2> DEFINE l == me[p]
             m == me'[p]
  <2>1. TypeInv /\ l \in Locals /\ Consistent(l) /\ l.pc = "ch_find" /\ "rn_disk" \in Control
    BY DEF TableInv, TypeInv, Control, ChpathAbsent, At
  <2>2. Moved(p) /\ m.pc = "rn_disk" /\ KeptCall(l, m) /\ KeptArgs(l, m) /\ KeptFound(l, m)
    BY <2>1, GotoMoves, ZenonT(40) DEF ChpathAbsent
  <2>3. hash_table' = hash_table /\ mb_arr' = mb_arr
    BY DEF ChpathAbsent
  <2> HIDE DEF l, m
  <2>4. Consistent(m) /\ Hand(m) = Hand(l) /\ Reads(m) = Reads(l)
    BY <2>1, <2>2, ZenonT(40) DEF Consistent, Hand, Reads, Point, BothRows
  <2>5. Holds(m) = {} /\ Writes(m) = {}
    BY <2>1, <2>2, ZenonT(40) DEF Holds, Writes, BothRows
  <2>6. \A lists : Found(lists, m)
    BY <2>2 DEF Found, Ending
  <2>7. TypeInv'
    BY <2>2, <2>3, <2>4, ZenonT(40) DEF m, TableInv, TypeInv, Moved
  <2>8. HolderInv'
    BY <2>2, <2>3, <2>5, HolderKept DEF m, TableInv
  <2>9. CountInv'
    <3>1. \A r : r \notin Writes(me'[p]) /\ (r \in Reads(me'[p]) <=> r \in Reads(me[p]))
      BY <2>4, <2>5 DEF l, m
    <3>2. \A r \in Row : /\ hash_table'[r].num_readers = Cardinality(ReadersNext(r))
                        /\ hash_table'[r].num_writers \in Nat
                        /\ hash_table'[r].num_writers >= Cardinality(WritersNext(r))
      BY <2>2, <2>3, <3>1, CountFewer, ZenonT(40) DEF TableInv
    <3> QED
      BY <3>2, ZenonT(40) DEF CountInv, ReadersNext, WritersNext
  <2>10. ListInv'
    BY <2>2, <2>3, <2>4, <2>6, <2>7, ListKept, ZenonT(40) DEF l, m, TableInv
  <2> QED
    BY <2>7, <2>8, <2>9, <2>10 DEF TableInv
\* mb_chpath found the bucket of the old path and the place of the new one.
<1>3. CASE ChpathFound(p)
  <2> USE <1>3
  <2> DEFINE l == me[p]
             o == get_mb_and_prev(l.job.old)
             n == get_mb_and_prev(l.job.new)
             m == [l EXCEPT !.pc = "ch_path", !.mb = o.mb, !.prev = o.prev,
                            !.mb_new = n.mb, !.new_prev = n.prev]
  <2>1. TypeInv /\ l \in Locals /\ Consistent(l) /\ l.pc = "ch_find" /\ "ch_path" \in Control
    BY DEF TableInv, TypeInv, Control, ChpathFound, At
  <2>2. l.job.old \in Path /\ l.job.new \in Path
    BY <2>1, RowsOfCall, ZenonT(40)
  <2>3. o.mb # NIL /\ o.mb \in Link /\ o.prev \in Link /\ n.mb \in Link /\ n.prev \in Link
    <3>1. o.mb # NIL
      BY DEF ChpathFound
    <3> QED
      BY <2>2, <3>1, SearchLinks, ZenonT(40)
  <2>4. me' = [me EXCEPT ![p] = m]
    BY ZenonT(40) DEF ChpathFound
  <2> HIDE DEF o, n
  <2>5. /\ m \in Locals /\ m.pc = "ch_path" /\ m.mb = o.mb /\ m.prev = o.prev
        /\ m.mb_new = n.mb /\ m.new_prev = n.prev /\ KeptCall(l, m) /\ KeptArgs(l, m)
    BY <2>1, <2>3, ZenonT(40) DEF Locals
  <2>6. Moved(p) /\ me'[p] = m
    <3> HIDE DEF m
    <3> QED
      BY <2>1, <2>4, <2>5, MovedTo, ZenonT(40)
  <2> HIDE DEF l, m
  <2>7. Calm(l, m)
    BY <2>1, <2>3, <2>5, ZenonT(40) DEF Calm, Consistent, Holds, Writes, Reads, Hand, Point, BothRows
  <2>8. ASSUME NEW lists \in [Row -> SUBSET MBucket], NEW rank \in [MBucket -> Nat],
               RowInv(lists, rank)
        PROVE  Found(lists, m)
    <3>1. Finger(lists, hash[l.job.old], o.prev, o.mb)
      BY <2>2, <2>8, ZenonT(40) DEF SearchSound, o
    <3>2. Finger(lists, hash[l.job.new], n.prev, n.mb)
      BY <2>2, <2>8, ZenonT(40) DEF SearchSound, n
    <3> QED
      BY <2>5, <3>1, <3>2, ZenonT(40) DEF Found, Ending
  <2> QED
    BY <2>1, <2>6, <2>7, <2>8, CalmStep, ZenonT(40) DEF l, ChpathFound, TypeInv
\* mb_chpath writes the new path into the bucket, which is still in the old
\* row.
<1>4. CASE ChpathPath(p)
  <2> USE <1>4
  <2> DEFINE l == me[p]
             m == me'[p]
  <2>1. TypeInv /\ l \in Locals /\ Consistent(l) /\ l.pc = "ch_path" /\ "ch_unlink" \in Control
    BY DEF TableInv, TypeInv, Control, ChpathPath, At
  <2>2. Moved(p) /\ m.pc = "ch_unlink" /\ KeptCall(l, m) /\ KeptArgs(l, m) /\ KeptFound(l, m)
    BY <2>1, GotoMoves, ZenonT(40) DEF ChpathPath
  <2>3. l.mb \in MBucket /\ l.job.new \in Path
    BY <2>1, RowsOfCall, ZenonT(40) DEF Consistent, Point, Locals, Link
  <2>4. /\ mb_arr' \in [MBucket -> BucketT]
        /\ \A b \in MBucket : /\ mb_arr'[b].next_ix = mb_arr[b].next_ix
                              /\ mb_arr'[b].in_use = mb_arr[b].in_use
    <3>1. mb_arr \in [MBucket -> BucketT] /\ mb_arr' = [mb_arr EXCEPT ![l.mb].path = l.job.new]
      BY <2>1 DEF TypeInv, ChpathPath
    <3> HIDE DEF l
    <3> QED
      BY <2>3, <3>1 DEF BucketT
  <2> HIDE DEF l, m
  <2>5. Calm(l, m)
    BY <2>1, <2>2, ZenonT(120) DEF Calm, Consistent, Holds, Writes, Reads, Hand, Point, BothRows
  <2>6. \A lists : Found(lists, l) => Found(lists, m)
    BY <2>1, <2>2 DEF Found, Ending
  <2> QED
    BY <2>2, <2>4, <2>5, <2>6, CalmStep, ZenonT(40) DEF l, m, ChpathPath
\* mb_chpath unlinks the bucket from the row of the old path.
<1>5. CASE ChpathUnlink(p)
  <2> USE <1>5
  <2> DEFINE l == me[p]
             m == me'[p]
  <2>1. TypeInv /\ l \in Locals /\ Consistent(l) /\ l.pc = "ch_unlink" /\ "ch_next" \in Control
    BY DEF TableInv, TypeInv, Control, ChpathUnlink, At
  <2>2. /\ hash[l.job.old] \in Row /\ hash[l.job.new] \in Row /\ hash[l.job.old] # hash[l.job.new]
        /\ l.mb \in MBucket /\ l.prev \in Link
    BY <2>1, RowsOfCall, ZenonT(40) DEF Consistent, Point, Locals, Link, BothRows
  <2>3. Moved(p) /\ m.pc = "ch_next" /\ KeptCall(l, m) /\ KeptArgs(l, m) /\ KeptFound(l, m)
    BY <2>1, GotoMoves, ZenonT(40) DEF ChpathUnlink
  <2>4. SetLink(hash[l.job.old], l.prev, mb_arr[l.mb].next_ix)
    BY DEF ChpathUnlink
  <2> HIDE DEF l, m
  <2>5. /\ Consistent(m) /\ Holds(m) = Holds(l) /\ Reads(m) = Reads(l) /\ Writes(m) = Writes(l)
        /\ Hand(m) = {l.mb} /\ Hand(l) = {} /\ hash[l.job.old] \in Holds(l)
    BY <2>1, <2>2, <2>3, NilNoBucket, ZenonT(120)
       DEF Consistent, Holds, Writes, Reads, Hand, Point, BothRows
  <2>6. PICK lists, rank : Witness(lists, rank)
    BY DEF TableInv, ListInv, Witness
  <2>7. PICK r \in Row, prev \in Link, mb \in MBucket :
          r = hash[l.job.old] /\ prev = l.prev /\ mb = l.mb
    BY <2>2
  <2>8. /\ RowInv(lists, rank) /\ Found(lists, l)
        /\ lists \in [Row -> SUBSET MBucket] /\ rank \in [MBucket -> Nat]
    BY <2>6 DEF Witness, l
  <2>9. /\ LeadsTo(hash_table[r].first_ix, NextIx, lists[r], prev, mb)
        /\ IsList(hash_table[r].first_ix, NextIx, lists[r], rank)
        /\ hash_table[r].first_ix \in Link
        /\ NextIx \in [MBucket -> Link] /\ NextIx[mb] = mb_arr[mb].next_ix /\ NextIx[mb] \in Link
    BY <2>1, <2>7, <2>8, ZenonT(40) DEF Found, Finger, RowInv, RowIs, TypeInv, RowT, BucketT, NextIx
  <2>10. SetLink(r, prev, NextIx[mb])
    BY <2>4, <2>7, <2>9, ZenonT(40)
  <2>11. mb \in lists[r] /\ IsList(hash_table'[r].first_ix, NextIx', lists[r] \ {mb}, rank)
    <3>1. Relinked(hash_table[r].first_ix, NextIx, prev, NextIx[mb], hash_table'[r].first_ix, NextIx')
      BY <2>1, <2>9, <2>10, SetLinkRelinks, ZenonT(40) DEF Link
    <3> QED
      BY <2>8, <2>9, <3>1, ListUnlink, ZenonT(40)
  <2>12. PICK lists2 : lists2 = [lists EXCEPT ![r] = lists[r] \ {mb}]
    BY ZenonT(40)
  <2>13. /\ (lists[r] \ {mb}) \cup Hand(me'[p]) = lists[r] \cup Hand(me[p])
         /\ (lists[r] \ {mb}) \cap Hand(me'[p]) = {}
         /\ prev = NIL \/ prev \in lists[r]
    BY <2>5, <2>7, <2>9, <2>11, ZenonT(40) DEF LeadsTo, l, m
  <2>14. Found(lists2, me[p])'
    <3>1. PICK s \in Row : s = hash[l.job.new] /\ s # r
      BY <2>2, <2>7
    <3>2. LeadsTo(hash_table[s].first_ix, NextIx, lists[s], l.new_prev, l.mb_new)
      BY <2>1, <2>8, <3>1, ZenonT(40) DEF Found, Finger
    <3>3. /\ hash_table'[s].first_ix = hash_table[s].first_ix
          /\ NextIx' = IF prev = NIL THEN NextIx ELSE [NextIx EXCEPT ![prev] = NextIx[mb]]
      <4>1. /\ Relinked(hash_table[r].first_ix, NextIx, prev, NextIx[mb],
                        hash_table'[r].first_ix, NextIx')
            /\ \A t \in Row : t # r => hash_table'[t].first_ix = hash_table[t].first_ix
        BY <2>1, <2>9, <2>10, SetLinkRelinks, ZenonT(40)
      <4> QED
        BY <3>1, <4>1, ZenonT(40) DEF Relinked
    <3>4. lists2[s] = lists[s] /\ lists[s] \subseteq MBucket /\ (prev # NIL => prev \notin lists[s])
      BY <2>8, <2>12, <2>13, <3>1, ZenonT(40) DEF RowInv
    <3>5. LeadsTo(hash_table'[s].first_ix, NextIx', lists2[s], l.new_prev, l.mb_new)
      BY <2>9, <3>2, <3>3, <3>4 DEF LeadsTo
    <3> QED
      BY <2>3, <3>1, <3>5, ZenonT(40) DEF Found, Finger, Ending, m
  <2>15. Relinks(p, r, prev, NextIx[mb], lists, rank, lists[r] \ {mb}, rank, lists2)
    BY <2>3, <2>5, <2>6, <2>7, <2>8, <2>9, <2>10, <2>11, <2>12, <2>13, <2>14, ZenonT(40)
       DEF Relinks, l, m
  <2> QED
    BY <2>15, RelinkStep, ZenonT(40)
\* mb_chpath sets next_ix of the bucket in hand to what will come after it.
<1>6. CASE ChpathNext(p)
  <2> USE <1>6
  <2> DEFINE l == me[p]
             m == me'[p]
  <2>1. TypeInv /\ l \in Locals /\ Consistent(l) /\ l.pc = "ch_next" /\ "ch_link" \in Control
    BY DEF TableInv, TypeInv, Control, ChpathNext, At
  <2>2. l.mb \in MBucket /\ l.mb_new \in Link /\ hash[l.job.new] \in Row
    BY <2>1, RowsOfCall, ZenonT(40) DEF Consistent, Point, Locals, Link, BothRows
  <2>3. /\ hash_table' = hash_table
        /\ mb_arr' = [mb_arr EXCEPT ![l.mb].next_ix =
                        IF l.mb_new = NIL THEN NIL ELSE mb_arr[l.mb_new].next_ix]
    BY DEF ChpathNext
  <2>4. Moved(p) /\ m.pc = "ch_link" /\ KeptCall(l, m) /\ KeptArgs(l, m) /\ KeptFound(l, m)
    BY <2>1, GotoMoves, ZenonT(40) DEF ChpathNext
  <2> HIDE DEF l, m
  <2>5. /\ Consistent(m) /\ Holds(m) = Holds(l) /\ Reads(m) = Reads(l) /\ Writes(m) = Writes(l)
        /\ Hand(m) = {l.mb} /\ Hand(l) = {l.mb}
    BY <2>1, <2>2, <2>4, NilNoBucket, ZenonT(120)
       DEF Consistent, Holds, Writes, Reads, Hand, Point, BothRows
  <2>6. /\ mb_arr' \in [MBucket -> BucketT] /\ InUse' = InUse
        /\ NextIx'[l.mb] = IF l.mb_new = NIL THEN NIL ELSE NextIx[l.mb_new]
        /\ \A b \in MBucket : b # l.mb => NextIx'[b] = NextIx[b]
    <3>1. mb_arr \in [MBucket -> BucketT] /\ NIL \in Link
      BY <2>1 DEF TypeInv, Link
    <3>2. PICK x \in Link : x = IF l.mb_new = NIL THEN NIL ELSE mb_arr[l.mb_new].next_ix
      BY <2>2, <3>1 DEF BucketT, Link
    <3>3. mb_arr' = [mb_arr EXCEPT ![l.mb].next_ix = x]
      BY <2>3, <3>2
    <3>4. /\ mb_arr' \in [MBucket -> BucketT] /\ InUse' = InUse
          /\ NextIx'[l.mb] = x /\ \A b \in MBucket : b # l.mb => NextIx'[b] = NextIx[b]
      BY <2>2, <3>1, <3>3 DEF BucketT, NextIx, InUse
    <3>5. l.mb_new # NIL => NextIx[l.mb_new] = mb_arr[l.mb_new].next_ix
      BY <2>2 DEF NextIx, Link
    <3> QED
      BY <3>2, <3>4, <3>5
  <2>7. TypeInv'
    BY <2>1, <2>3, <2>4, <2>5, <2>6 DEF TypeInv, Moved, m
  <2>8. HolderInv' /\ CountInv'
    BY <2>3, <2>4, <2>5, HolderKept, CountKept, ZenonT(40) DEF l, m, TableInv
  <2>9. ListInv'
    <3>1. PICK lists, rank : Witness(lists, rank)
      BY DEF TableInv, ListInv, Witness
    <3>2. \A r \in Row : l.mb \notin lists[r]
      BY <2>5, <3>1, ZenonT(40) DEF Witness, HandInv, l
    <3>3. \A r \in Row : \A b \in lists[r] : NextIx'[b] = NextIx[b] /\ b \in MBucket
      BY <2>6, <3>1, <3>2, ZenonT(40) DEF Witness
    <3>4. RowInv(lists, rank)'
      <4>1. \A r \in Row : IsList(hash_table[r].first_ix, NextIx', lists[r], rank)
        BY <3>1, <3>3, ListFrame DEF Witness, RowInv, RowIs
      <4> QED
        BY <2>3, <2>6, <3>1, <4>1, ZenonT(40) DEF Witness, RowInv, RowIs
    <3>5. \A q \in Proc : Hand(me'[q]) = Hand(me[q])
      BY <2>4, <2>5, ZenonT(40) DEF Moved, l, m
    <3>6. HandInv(lists)'
      <4>1. HandInv(lists) /\ l.mb \in InUse
        BY <2>5, <3>1, ZenonT(40) DEF Witness, HandInv, l
      <4>2. \A b \in MBucket \ InUse' : NextIx'[b] = NIL
        BY <2>6, <4>1 DEF HandInv
      <4> QED
        BY <2>6, <3>5, <4>1, <4>2, ZenonT(40) DEF HandInv
    <3>7. \A q \in Proc : q # p => \A b \in Hand(me[q]) : NextIx'[b] = NextIx[b]
      BY <2>5, <2>6, <3>1, ZenonT(40) DEF Witness, HandInv, InUse, l
    <3>8. \A q \in Proc : q # p => Found(lists, me[q])'
      <4>1. Undisturbed(p, lists, lists)
        BY <2>3, <2>4, <3>3, <3>7, ZenonT(40) DEF Undisturbed
      <4> QED
        BY <2>7, <3>1, <4>1, OthersFound, ZenonT(40)
    <3>9. Found(lists, me[p])'
      <4>1. PICK s \in Row : s = hash[l.job.new]
        BY <2>2
      <4>2. Found(lists, l) /\ RowInv(lists, rank) /\ lists \in [Row -> SUBSET MBucket]
        BY <3>1, ZenonT(40) DEF Witness, l
      <4>3. LeadsTo(hash_table[s].first_ix, NextIx, lists[s], l.new_prev, l.mb_new)
        BY <2>1, <4>1, <4>2, ZenonT(40) DEF Found, Finger
      <4>4. LeadsTo(hash_table'[s].first_ix, NextIx', lists[s], l.new_prev, l.mb_new)
        BY <2>3, <3>3, <4>3, ZenonT(40) DEF LeadsTo
      <4>5. l.mb_new # NIL => l.mb_new \in lists[s]
        <5>1. IsList(hash_table[s].first_ix, NextIx, lists[s], rank)
          BY <4>2 DEF RowInv, RowIs
        <5> QED
          BY <4>3, <5>1 DEF LeadsTo, IsList
      <4>6. NextIx'[l.mb] = IF l.mb_new = NIL THEN NIL ELSE NextIx'[l.mb_new]
        BY <2>6, <3>3, <4>5, ZenonT(40)
      <4> QED
        BY <2>4, <4>1, <4>4, <4>6, ZenonT(40) DEF Found, Finger, Ending, m
    <3> QED
      BY <3>1, <3>4, <3>6, <3>8, <3>9, SMTT(20) DEF ListInv, Witness
  <2> QED
    BY <2>7, <2>8, <2>9 DEF TableInv
\* mb_chpath appends the bucket to the row of the new path.
<1>7. CASE ChpathLink(p)
  <2> USE <1>7
  <2> DEFINE l == me[p]
             m == me'[p]
  <2>1. /\ TypeInv /\ l \in Locals /\ Consistent(l) /\ l.pc = "ch_link" /\ l.mb_new = NIL
        /\ "uw_dec" \in Control /\ "ch_unlock" \in Control
    BY DEF TableInv, TypeInv, Control, ChpathLink, At
  <2>2. /\ hash[l.job.old] \in Row /\ hash[l.job.new] \in Row /\ hash[l.job.old] # hash[l.job.new]
        /\ l.mb \in MBucket /\ l.new_prev \in Link /\ l.job.new \in Path
    BY <2>1, RowsOfCall, ZenonT(40) DEF Consistent, Point, Locals, Link, BothRows
  <2>3. /\ Moved(p) /\ m.pc = "uw_dec" /\ m.str = l.job.new /\ m.row = hash[l.job.new]
        /\ m.ret = "ch_unlock" /\ KeptCall(l, m) /\ KeptFound(l, m)
    BY <2>1, <2>2, EnteredMoves, ZenonT(40) DEF ChpathLink, UpWrite
  <2>4. SetLink(hash[l.job.new], l.new_prev, l.mb)
    BY DEF ChpathLink
  <2> HIDE DEF l, m
  <2>5. /\ Consistent(m) /\ Holds(m) = Holds(l) /\ Reads(m) = Reads(l) /\ Writes(m) = Writes(l)
        /\ Hand(m) = {} /\ Hand(l) = {l.mb} /\ hash[l.job.new] \in Holds(l)
    BY <2>1, <2>2, <2>3, NilNoBucket, ZenonT(120)
       DEF Consistent, Holds, Writes, Reads, Hand, Point, BothRows
  <2>6. PICK lists, rank : Witness(lists, rank)
    BY DEF TableInv, ListInv, Witness
  <2>7. PICK r \in Row, prev \in Link, mb \in MBucket :
          r = hash[l.job.new] /\ prev = l.new_prev /\ mb = l.mb
    BY <2>2
  <2>8. /\ HandInv(lists) /\ RowInv(lists, rank) /\ Found(lists, l)
        /\ lists \in [Row -> SUBSET MBucket] /\ rank \in [MBucket -> Nat]
    BY <2>6 DEF Witness, l
  <2>9. /\ LeadsTo(hash_table[r].first_ix, NextIx, lists[r], prev, NIL) /\ NextIx[mb] = NIL
        /\ IsList(hash_table[r].first_ix, NextIx, lists[r], rank)
        /\ hash_table[r].first_ix \in Link /\ mb \notin lists[r] /\ mb \in Link
    BY <2>1, <2>5, <2>7, <2>8, ZenonT(40)
       DEF Found, Finger, RowInv, RowIs, TypeInv, RowT, HandInv, Link, l
  <2>10. PICK rank2 \in [MBucket -> Nat] :
           rank2 = [rank EXCEPT ![mb] = IF prev = NIL THEN 0 ELSE rank[prev] + 1]
    <3>1. prev # NIL => rank[prev] + 1 \in Nat
      BY <2>8 DEF Link
    <3> QED
      BY <2>8, <3>1, ZenonT(40)
  <2>11. SetLink(r, prev, mb)
    BY <2>4, <2>7
  <2>12. IsList(hash_table'[r].first_ix, NextIx', lists[r] \cup {mb}, rank2)
    <3>1. /\ NextIx \in [MBucket -> Link]
          /\ Relinked(hash_table[r].first_ix, NextIx, prev, mb, hash_table'[r].first_ix, NextIx')
      BY <2>1, <2>9, <2>11, SetLinkRelinks, ZenonT(40) DEF Link
    <3> QED
      BY <2>8, <2>9, <2>10, <3>1, ListAppend, ZenonT(40)
  <2>13. PICK lists2 : lists2 = [lists EXCEPT ![r] = lists[r] \cup {mb}]
    BY ZenonT(40)
  <2>14. Found(lists2, me[p])'
    BY <2>3, ZenonT(40) DEF Found, Ending, m
  <2>15. /\ \A c \in MBucket : c \notin lists[r] \cup {mb} => rank2[c] = rank[c]
         /\ (lists[r] \cup {mb}) \cup Hand(me'[p]) = lists[r] \cup Hand(me[p])
         /\ (lists[r] \cup {mb}) \cap Hand(me'[p]) = {}
         /\ prev = NIL \/ prev \in lists[r]
    BY <2>5, <2>7, <2>8, <2>9, <2>10, ZenonT(40) DEF LeadsTo, l, m
  <2>16. Relinks(p, r, prev, mb, lists, rank, lists[r] \cup {mb}, rank2, lists2)
    BY <2>3, <2>5, <2>6, <2>7, <2>9, <2>11, <2>12, <2>13, <2>14, <2>15, ZenonT(40) DEF Relinks, l, m
  <2> QED
    BY <2>16, RelinkStep, ZenonT(40)
\* mb_chpath puts the bucket in the place of the one that had the new path.
<1>8. CASE ChpathReplace(p)
  <2> USE <1>8
  <2> DEFINE l == me[p]
             m == me'[p]
  <2>1. /\ TypeInv /\ l \in Locals /\ Consistent(l) /\ l.pc = "ch_link" /\ l.mb_new # NIL
        /\ "mb_lock" \in Control
    BY DEF TableInv, TypeInv, Control, ChpathReplace, At
  <2>2. /\ hash[l.job.old] \in Row /\ hash[l.job.new] \in Row /\ hash[l.job.old] # hash[l.job.new]
        /\ l.mb \in MBucket /\ l.new_prev \in Link /\ l.mb_new \in MBucket
    BY <2>1, RowsOfCall, ZenonT(40) DEF Consistent, Point, Locals, Link, BothRows
  <2>3. /\ Moved(p) /\ m.pc = "mb_lock" /\ KeptCall(l, m) /\ KeptArgs(l, m)
        /\ m.mb = l.mb_new
    <3>1. me' = [me EXCEPT ![p].pc = "mb_lock", ![p].mb = l.mb_new] /\ me \in [Proc -> Locals]
      BY <2>1 DEF ChpathReplace, TypeInv
    <3>2. m = [l EXCEPT !.pc = "mb_lock", !.mb = l.mb_new] /\ \A q \in Proc : q # p => me'[q] = me[q]
      BY <3>1
    <3> HIDE DEF l, m
    <3>3. l.mb_new \in Link
      BY <2>2 DEF Link
    <3>4. m \in Locals /\ m.pc = "mb_lock" /\ KeptCall(l, m) /\ KeptArgs(l, m) /\ m.mb = l.mb_new
      BY <2>1, <3>2, <3>3, ZenonT(40) DEF Locals
    <3>5. me' \in [Proc -> Locals]
      BY <3>1, <3>2, <3>4 DEF m
    <3> QED
      BY <3>2, <3>4, <3>5 DEF Moved
  <2>4. SetLink(hash[l.job.new], l.new_prev, l.mb)
    BY DEF ChpathReplace
  <2> HIDE DEF l, m
  <2>5. /\ Consistent(m) /\ Holds(m) = Holds(l) /\ Reads(m) = Reads(l) /\ Writes(m) = Writes(l)
        /\ Hand(m) = {l.mb_new} /\ Hand(l) = {l.mb} /\ hash[l.job.new] \in Holds(l)
        /\ m.job.op = "rename"
    BY <2>1, <2>2, <2>3, NilNoBucket, ZenonT(120)
       DEF Consistent, Holds, Writes, Reads, Hand, Point, BothRows
  <2>6. PICK lists, rank : Witness(lists, rank)
    BY DEF TableInv, ListInv, Witness
  <2>7. PICK r \in Row, prev \in Link, mb \in MBucket, old \in MBucket :
          r = hash[l.job.new] /\ prev = l.new_prev /\ mb = l.mb /\ old = l.mb_new
    BY <2>2
  <2>8. /\ HandInv(lists) /\ RowInv(lists, rank) /\ Found(lists, l)
        /\ lists \in [Row -> SUBSET MBucket] /\ rank \in [MBucket -> Nat]
    BY <2>6 DEF Witness, l
  <2>9. /\ LeadsTo(hash_table[r].first_ix, NextIx, lists[r], prev, old) /\ NextIx[mb] = NextIx[old]
        /\ IsList(hash_table[r].first_ix, NextIx, lists[r], rank)
        /\ hash_table[r].first_ix \in Link /\ mb \notin lists[r] /\ mb \in Link
    BY <2>1, <2>5, <2>7, <2>8, ZenonT(40)
       DEF Found, Finger, RowInv, RowIs, TypeInv, RowT, HandInv, Link, l
  <2>10. PICK rank2 \in [MBucket -> Nat] : rank2 = [rank EXCEPT ![mb] = rank[old]]
    BY <2>8, ZenonT(40)
  <2>11. SetLink(r, prev, mb)
    BY <2>4, <2>7, ZenonT(40)
  <2>12. /\ old \in lists[r]
         /\ IsList(hash_table'[r].first_ix, NextIx', (lists[r] \ {old}) \cup {mb}, rank2)
    <3>1. /\ NextIx \in [MBucket -> Link]
          /\ Relinked(hash_table[r].first_ix, NextIx, prev, mb, hash_table'[r].first_ix, NextIx')
      BY <2>1, <2>9, <2>11, SetLinkRelinks, ZenonT(40) DEF Link
    <3>2. /\ LeadsTo(hash_table[r].first_ix, NextIx, lists[r], prev, old)
          /\ IsList(hash_table[r].first_ix, NextIx, lists[r], rank)
          /\ hash_table[r].first_ix \in Link /\ mb \notin lists[r]
          /\ rank \in [MBucket -> Nat] /\ TakesPlace(NextIx, rank, old, mb, rank2)
      BY <2>8, <2>9, <2>10, ZenonT(40) DEF TakesPlace
    <3>3. old \in lists[r]
      BY <3>2, NilNoBucket DEF LeadsTo, IsList
    <3>4. IsList(hash_table'[r].first_ix, NextIx', (lists[r] \ {old}) \cup {mb}, rank2)
      BY <3>1, <3>2, ListReplace, ZenonT(40)
    <3> QED
      BY <3>3, <3>4
  <2>13. PICK lists2 : lists2 = [lists EXCEPT ![r] = (lists[r] \ {old}) \cup {mb}]
    BY ZenonT(40)
  <2>14. Found(lists2, me[p])'
    BY <2>3, <2>5, ZenonT(40) DEF Found, Ending, m
  <2>15. /\ \A c \in MBucket : c \notin (lists[r] \ {old}) \cup {mb} => rank2[c] = rank[c]
         /\ ((lists[r] \ {old}) \cup {mb}) \cup Hand(me'[p]) = lists[r] \cup Hand(me[p])
         /\ ((lists[r] \ {old}) \cup {mb}) \cap Hand(me'[p]) = {}
         /\ prev = NIL \/ prev \in lists[r]
    <3>1. Hand(me'[p]) = {old} /\ Hand(me[p]) = {mb} /\ old \in lists[r] /\ mb \notin lists[r]
      BY <2>5, <2>7, <2>9, <2>12, ZenonT(40) DEF l, m
    <3>2. \A c \in MBucket : c \notin (lists[r] \ {old}) \cup {mb} => rank2[c] = rank[c]
      BY <2>8, <2>10, ZenonT(40)
    <3>3. /\ ((lists[r] \ {old}) \cup {mb}) \cup Hand(me'[p]) = lists[r] \cup Hand(me[p])
          /\ ((lists[r] \ {old}) \cup {mb}) \cap Hand(me'[p]) = {}
      BY <3>1
    <3> QED
      BY <2>9, <3>2, <3>3, ZenonT(40) DEF LeadsTo
  <2>16. Relinks(p, r, prev, mb, lists, rank, (lists[r] \ {old}) \cup {mb}, rank2, lists2)
    BY <2>3, <2>5, <2>6, <2>7, <2>9, <2>11, <2>12, <2>13, <2>14, <2>15, ZenonT(40) DEF Relinks, l, m
  <2> QED
    BY <2>16, RelinkStep, ZenonT(40)
\* mb_chpath unlocks the row of the old path last.
<1>9. CASE ChpathUnlockOld(p)
  <2> USE <1>9
  <2> DEFINE l == me[p]
             m == me'[p]
  <2>1. TypeInv /\ l \in Locals /\ Consistent(l) /\ l.pc = "ch_unlock"
    BY DEF TableInv, TypeInv, ChpathUnlockOld, At
  <2>2. "uw_dec" \in Control /\ "rn_get" \in Control
    BY DEF Control
  <2>3. l.job.old \in Path
    BY <2>1, RowsOfCall, ZenonT(40)
  <2>4. /\ Moved(p) /\ m.pc = "uw_dec" /\ m.str = l.job.old /\ m.row = hash[l.job.old]
        /\ m.ret = "rn_get" /\ KeptCall(l, m) /\ KeptFound(l, m)
    BY <2>1, <2>2, <2>3, EnteredMoves, ZenonT(40) DEF ChpathUnlockOld, UpWrite
  <2> HIDE DEF l, m
  <2>5. Calm(l, m) /\ Blank(m)
    BY <2>1, <2>4, <2>3, TableAssumption, ZenonT(120)
       DEF Calm, Consistent, Holds, Writes, Reads, Hand, Blank, Ending, Point, BothRows
  <2> QED
    BY <2>4, <2>5, BlankStep, ZenonT(40) DEF l, m, ChpathUnlockOld
\* rename looks the new path up.
<1>10. CASE RenameGet(p)
  <2> USE <1>10
  <2> DEFINE l == me[p]
             m == me'[p]
  <2>1. TypeInv /\ l \in Locals /\ Consistent(l) /\ l.pc = "rn_get"
    BY DEF TableInv, TypeInv, RenameGet, At
  <2>2. "dr_wait" \in Control /\ "rn_mark" \in Control
    BY DEF Control
  <2>3. l.job.new \in Path
    BY <2>1, RowsOfCall, ZenonT(40)
  <2>4. /\ Moved(p) /\ m.pc = "dr_wait" /\ m.str = l.job.new /\ m.row = hash[l.job.new]
        /\ m.ret = "rn_mark" /\ KeptCall(l, m) /\ KeptFound(l, m)
    BY <2>1, <2>2, <2>3, EnteredMoves, ZenonT(40) DEF RenameGet, DownRead
  <2> HIDE DEF l, m
  <2>5. Calm(l, m) /\ Blank(m)
    BY <2>1, <2>4, <2>3, TableAssumption, ZenonT(40)
       DEF Calm, Consistent, Holds, Writes, Reads, Hand, Blank, Ending, Point, BothRows
  <2> QED
    BY <2>4, <2>5, BlankStep, ZenonT(40) DEF l, m, RenameGet
\* rename marks the bucket it renamed, or crashes for want of one.
<1>11. CASE RenameMark(p)
  <2> USE <1>11
  <2> DEFINE l == me[p]
             m == me'[p]
  <2>1. TypeInv /\ l \in Locals /\ Consistent(l) /\ l.pc = "rn_mark" /\ "crashed" \in Control
    BY ZenonT(40) DEF TableInv, TypeInv, Control, RenameMark, At
  <2>2. Moved(p) /\ m.pc \in {"crashed", "idle"}
    BY <2>1, FinishMoves, GotoMoves DEF RenameMark
  <2> HIDE DEF l, m
  <2>3. Calm(l, m) /\ Blank(m)
    BY <2>1, <2>2, ZenonT(40)
       DEF Calm, Consistent, Holds, Writes, Reads, Hand, Blank, Ending, Point, BothRows
  <2> QED
    BY <2>2, <2>3, BlankStep DEF l, m, RenameMark
\* rename of a file that is not on disk either ends.
<1>12. CASE RenameDiskFails(p)
  <2> USE <1>12
  <2> DEFINE l == me[p]
             m == me'[p]
  <2>1. TypeInv /\ l \in Locals /\ Consistent(l) /\ l.pc = "rn_disk"
    BY DEF TableInv, TypeInv, RenameDiskFails, At
  <2>2. Moved(p) /\ m.pc = "idle"
    BY <2>1, FinishMoves, ZenonT(40) DEF RenameDiskFails
  <2> HIDE DEF l, m
  <2>3. Calm(l, m) /\ Blank(m)
    BY <2>1, <2>2, ZenonT(40)
       DEF Calm, Consistent, Holds, Writes, Reads, Hand, Blank, Ending, Point, BothRows
  <2> QED
    BY <2>2, <2>3, BlankStep, ZenonT(40) DEF l, m, RenameDiskFails
\* rename renamed the file on disk and looks it up.
<1>13. CASE RenameDiskDone(p)
  <2> USE <1>13
  <2> DEFINE l == me[p]
             m == me'[p]
  <2>1. TypeInv /\ l \in Locals /\ Consistent(l) /\ l.pc = "rn_disk"
    BY DEF TableInv, TypeInv, RenameDiskDone, At
  <2>2. "dr_wait" \in Control /\ "idle" \in Control
    BY DEF Control
  <2>3. l.job.new \in Path
    BY <2>1, RowsOfCall, ZenonT(40)
  <2>4. /\ Moved(p) /\ m.pc = "dr_wait" /\ m.str = l.job.new /\ m.row = hash[l.job.new]
        /\ m.ret = "idle" /\ KeptCall(l, m) /\ KeptFound(l, m)
    BY <2>1, <2>2, <2>3, EnteredMoves, ZenonT(40) DEF RenameDiskDone, DownRead
  <2> HIDE DEF l, m
  <2>5. Calm(l, m) /\ Blank(m)
    BY <2>1, <2>4, <2>3, TableAssumption, ZenonT(40)
       DEF Calm, Consistent, Holds, Writes, Reads, Hand, Blank, Ending, Point, BothRows
  <2> QED
    BY <2>4, <2>5, BlankStep, ZenonT(40) DEF l, m, RenameDiskDone
<1> QED
  BY <1>1, <1>2, <1>3, <1>4, <1>5, <1>6, <1>7, <1>8, <1>9, <1>10, <1>11, <1>12, <1>13,
     ZenonT(40) DEF RenameStep

-----------------------------------------------------------------------------
(* Every step of the table keeps the invariant.                            *)
LEMMA StepTableInv ==
  ASSUME ProcCounts, SearchSound, TableInv, [Next]_vars
  PROVE  TableInv'
<1>1. CASE UNCHANGED vars
  <2>1. hash_table' = hash_table /\ mb_arr' = mb_arr /\ me' = me
    BY <1>1 DEF vars
  <2>2. TypeInv' /\ HolderInv' /\ CountInv'
    BY <2>1, ZenonT(40) DEF TableInv, TypeInv, HolderInv, CountInv
  <2>3. ListInv'
    <3>1. InUse' = InUse /\ NextIx' = NextIx
      BY <2>1 DEF InUse, NextIx
    <3> QED
      BY <2>1, <3>1, ZenonT(120)
         DEF TableInv, ListInv, RowInv, RowIs, HandInv, Found, Finger
  <2> QED
    BY <2>2, <2>3 DEF TableInv
<1>2. ASSUME NEW p \in Proc, NEW j \in Calls(p), Call(p, j)
      PROVE  TableInv'
  BY <1>2, CallStep
<1>3. ASSUME NEW p \in Proc, LockStep(p)
      PROVE  TableInv'
  BY <1>3, LockKeeps
<1>4. ASSUME NEW p \in Proc, LookupStep(p)
      PROVE  TableInv'
  BY <1>4, LookupKeeps
<1>5. ASSUME NEW p \in Proc, OpenStep(p)
      PROVE  TableInv'
  BY <1>5, OpenKeeps
<1>6. ASSUME NEW p \in Proc, ReleaseStep(p)
      PROVE  TableInv'
  BY <1>6, ReleaseKeeps
<1>7. ASSUME NEW p \in Proc, RenameStep(p)
      PROVE  TableInv'
  BY <1>7, RenameKeeps
<1> QED
  BY <1>1, <1>2, <1>3, <1>4, <1>5, <1>6, <1>7, ZenonT(40) DEF Next, Step

----------------------------------------------------------------------------
(* The locks of the rows *)

(* Without rename, a process whose name is in the lock word of a row still *)
(* holds the row.                                                          *)
TameInv ==
  Tame => \A p \in Proc :
    /\ me[p].job.op # "rename"
    /\ \A r \in Row : hash_table[r].real_lock = p => r \in Holds(me[p])

\* Where a process that renames nothing stands on the lock of its row, seen from
\* its control point, and on row r, seen from its locals.
OnLock(pc) ==
  IF pc = "dw_wait" THEN "w_wait"
  ELSE IF pc = "dw_spin" THEN "w_spin"
  ELSE IF pc = "uw_spin" THEN "w_out"
  ELSE IF pc = "dr_wait" THEN "r_wait"
  ELSE IF pc = "dr_add" THEN "r_add"
  ELSE IF pc \in {"get_first", "get_walk", "ur_dec"} THEN "r_cs"
  ELSE IF pc \in {"cr_find", "cr_alloc", "cr_link", "rl_find", "rl_unlink", "rl_next",
                  "uw_dec"} THEN "w_cs"
  ELSE "idle"

View(l, r) == IF l.row = r THEN OnLock(l.pc) ELSE "idle"

(* OnLock, point by point. *)
LEMMA OnLocks ==
  /\ OnLock("dw_wait") = "w_wait" /\ OnLock("dw_spin") = "w_spin" /\ OnLock("uw_spin") = "w_out"
  /\ OnLock("dr_wait") = "r_wait" /\ OnLock("dr_add") = "r_add"
  /\ \A c \in {"get_first", "get_walk", "ur_dec"} : OnLock(c) = "r_cs"
  /\ \A c \in {"cr_find", "cr_alloc", "cr_link", "rl_find", "rl_unlink", "rl_next", "uw_dec"} :
       OnLock(c) = "w_cs"
  /\ \A c \in {"idle", "open_looked", "dw_reg", "cr_data", "cr_path"} \cup Freeing :
       OnLock(c) = "idle"
  BY DEF OnLock

(* A process that renames nothing holds no row but the one of its call. *)
LEMMA TameHolds ==
  ASSUME NEW l \in Locals, Consistent(l), l.job.op # "rename", NEW r \in Row
  PROVE  r \in Holds(l) <=> View(l, r) \in {"w_cs", "w_out"}
<1>1. ~ BothRows(l) /\ l.pc \notin {"ch_second", "ch_unlock"}
  BY ZenonT(40) DEF Consistent, BothRows, Point
<1>2. /\ ~ (l.pc \in DownWriting /\ l.ret = "ch_find")
      /\ ~ (l.pc \in UpWriting /\ l.ret = "ch_unlock")
  BY DEF Consistent, Point
<1> QED
  BY <1>1, <1>2, ZenonT(40) DEF Holds, View, OnLock

(* No step changes the session of a process, so that Tame never changes. *)
LEMMA SessionKept ==
  ASSUME TypeInv, Next
  PROVE  \A q \in Proc : me'[q].session = me[q].session
<1>1. me \in [Proc -> Locals] /\ \A q \in Proc : me[q] \in Locals
  BY DEF TypeInv
<1>2. PICK p \in Proc : Step(p) \/ \E j \in Calls(p) : Call(p, j)
  BY DEF Next
<1> DEFINE Kept == \A q \in Proc : me'[q].session = me[q].session
<1>3. /\ \A c : Goto(p, c) => Kept
      /\ Finish(p) => Kept
      /\ Resume(p) => Kept
  <2>1. ASSUME NEW l, me' = [me EXCEPT ![p] = l], l.session = me[p].session
        PROVE  Kept
    BY <1>1, <2>1
  <2>2. ASSUME NEW c
        PROVE  [me[p] EXCEPT !.pc = c].session = me[p].session
    BY <1>1, ZenonT(40) DEF Locals
  <2>3. Idle(me[p].session).session = me[p].session
    BY DEF Idle
  <2>4. ASSUME NEW c, Goto(p, c)
        PROVE  Kept
    <3> DEFINE l == [me[p] EXCEPT !.pc = c]
    <3>1. me' = [me EXCEPT ![p] = l]
      BY <1>1, <2>4 DEF Goto
    <3>2. l.session = me[p].session
      BY <2>2
    <3> HIDE DEF l, Kept
    <3> QED
      BY <2>1, <3>1, <3>2, ZenonT(40)
  <2> HIDE DEF Kept
  <2> QED
    BY <2>1, <2>2, <2>3, <2>4, ZenonT(40) DEF Finish, Resume
<1>4. /\ \A f, c : DownRead(p, f, c) => Kept
      /\ \A f, c : DownWrite(p, f, c) => Kept
      /\ \A f, c : UpWrite(p, f, c) => Kept
  <2>1. ASSUME NEW c, NEW f, NEW k, me' = [me EXCEPT ![p] = Entered(p, c, f, k)]
        PROVE  Kept
    <3>1. Entered(p, c, f, k).session = me[p].session
      BY <1>1, ZenonT(40) DEF Entered, Locals
    <3> QED
      BY <1>1, <2>1, <3>1
  <2> HIDE DEF Kept
  <2> QED
    BY <2>1, ZenonT(40) DEF DownRead, DownWrite, UpWrite
<1>5. /\ \A j : Call(p, j) => Kept
      /\ GetFirst(p) => Kept
      /\ GetNext(p) => Kept
  <2>1. ASSUME NEW j, Call(p, j)
        PROVE  Kept
    BY <1>1, <2>1 DEF Call, Locals
  <2>2. ASSUME GetFirst(p)
        PROVE  Kept
    BY <1>1, <2>2 DEF GetFirst, Locals
  <2>3. ASSUME GetNext(p)
        PROVE  Kept
    BY <1>1, <2>3, ZenonT(40) DEF GetNext, Locals
  <2> QED
    BY <2>1, <2>2, <2>3
<1>6. /\ CreateAbsent(p) => Kept
      /\ AllocateSkip(p) => Kept
      /\ AllocateClaim(p) => Kept
  <2>1. ASSUME CreateAbsent(p)
        PROVE  Kept
    BY <1>1, <2>1 DEF CreateAbsent, Locals
  <2>2. ASSUME AllocateSkip(p)
        PROVE  Kept
    BY <1>1, <2>2 DEF AllocateSkip, Locals
  <2>3. ASSUME AllocateClaim(p)
        PROVE  Kept
    BY <1>1, <2>3 DEF AllocateClaim, Locals
  <2> QED
    BY <2>1, <2>2, <2>3
<1>7. /\ ReleaseFound(p) => Kept
      /\ ChpathFound(p) => Kept
      /\ ChpathReplace(p) => Kept
  <2>1. ASSUME ReleaseFound(p)
        PROVE  Kept
    BY <1>1, <2>1, ZenonT(40) DEF ReleaseFound, Locals
  <2>2. ASSUME ChpathFound(p)
        PROVE  Kept
    BY <1>1, <2>2 DEF ChpathFound, Locals
  <2>3. ASSUME ChpathReplace(p)
        PROVE  Kept
    BY <1>1, <2>3 DEF ChpathReplace, Locals
  <2> QED
    BY <2>1, <2>2, <2>3
<1> HIDE DEF Kept
<1>8. LockStep(p) => Kept
  BY <1>3, ZenonT(40) DEF LockStep, WriterRegister, WriterSeesNoReader, WriterLock,
       WriterDeregister, WriterUnlock, ReaderSeesNoWriter, ReaderRegister, ReaderDeregister
<1>9. LookupStep(p) => Kept
  BY <1>3, <1>5 DEF LookupStep, GetMatch, GetNone
<1>10. OpenStep(p) => Kept
  BY <1>3, <1>4, <1>6, ZenonT(40) DEF OpenStep, OpenExisting, OpenNew, CreateExists, AllocateNone,
       CreateLink, CreateData, CreatePath
<1>11. ReleaseStep(p) => Kept
  BY <1>3, <1>4, <1>7, ZenonT(40) DEF ReleaseStep, ReleaseAbsent, ReleaseUnlink, ReleaseNext,
       BucketLock, BucketClear, BucketUnlock
<1>12. RenameStep(p) => Kept
  BY <1>3, <1>4, <1>7, ZenonT(40) DEF RenameStep, ChpathSecond, ChpathAbsent, ChpathPath, ChpathUnlink,
       ChpathNext, ChpathLink, ChpathUnlockOld, RenameGet, RenameMark, RenameDiskFails,
       RenameDiskDone
<1>13. Kept
  BY <1>2, <1>5, <1>8, <1>9, <1>10, <1>11, <1>12, ZenonT(40) DEF Step
<1> QED
  BY <1>13 DEF Kept

\* Process p goes to pc with row and job; the others stay.
Goes(p, pc, row, job) ==
  /\ \A q \in Proc : q # p => me'[q] = me[q]
  /\ me'[p].pc = pc /\ me'[p].row = row /\ me'[p].job = job

(* The ways in which a process goes on. *)
LEMMA Going ==
  ASSUME TypeInv, NEW p \in Proc
  PROVE  /\ \A c : Goto(p, c) => Goes(p, c, me[p].row, me[p].job)
         /\ \A f, c : DownWrite(p, f, c) => Goes(p, "dw_reg", hash[f], me[p].job)
         /\ \A f, c : UpWrite(p, f, c) => Goes(p, "uw_dec", hash[f], me[p].job)
         /\ Finish(p) => Goes(p, "idle", NIL, NoJob)
         /\ Resume(p) => IF me[p].ret = "idle" THEN Goes(p, "idle", NIL, NoJob)
                         ELSE Goes(p, me[p].ret, me[p].row, me[p].job)
<1>1. me \in [Proc -> Locals] /\ me[p] \in Locals
  BY DEF TypeInv
<1>2. ASSUME NEW l, me' = [me EXCEPT ![p] = l]
      PROVE  Goes(p, l.pc, l.row, l.job)
  BY <1>1, <1>2 DEF Goes
<1>3. ASSUME NEW c, Goto(p, c)
      PROVE  Goes(p, c, me[p].row, me[p].job)
  <2> DEFINE l == [me[p] EXCEPT !.pc = c]
  <2>1. me' = [me EXCEPT ![p] = l]
    BY <1>1, <1>3 DEF Goto
  <2>2. l.pc = c /\ l.row = me[p].row /\ l.job = me[p].job
    BY <1>1 DEF Locals
  <2> HIDE DEF l
  <2> QED
    BY <1>2, <2>1, <2>2, ZenonT(40)
<1>4. ASSUME NEW lock, NEW f, NEW c, me' = [me EXCEPT ![p] = Entered(p, lock, f, c)]
      PROVE  Goes(p, lock, hash[f], me[p].job)
  <2> DEFINE l == Entered(p, lock, f, c)
  <2>1. l.pc = lock /\ l.row = hash[f] /\ l.job = me[p].job
    BY <1>1 DEF Locals, Entered
  <2>2. me' = [me EXCEPT ![p] = l]
    BY <1>4
  <2> HIDE DEF l
  <2> QED
    BY <1>2, <2>1, <2>2, ZenonT(40)
<1>5. ASSUME Finish(p)
      PROVE  Goes(p, "idle", NIL, NoJob)
  <2> DEFINE l == Idle(me[p].session)
  <2>1. l.pc = "idle" /\ l.row = NIL /\ l.job = NoJob
    BY DEF Idle
  <2>2. me' = [me EXCEPT ![p] = l]
    BY <1>5 DEF Finish
  <2> HIDE DEF l
  <2> QED
    BY <1>2, <2>1, <2>2, ZenonT(40)
<1>6. Resume(p) => IF me[p].ret = "idle" THEN Finish(p) ELSE Goto(p, me[p].ret)
  <2>1. ASSUME Resume(p), me[p].ret = "idle"
        PROVE  Finish(p)
    BY <2>1 DEF Resume, Finish
  <2>2. ASSUME Resume(p), me[p].ret # "idle"
        PROVE  Goto(p, me[p].ret)
    <3>1. me' = [me EXCEPT ![p] = [me[p] EXCEPT !.pc = me[p].ret]]
      BY <2>2 DEF Resume
    <3> QED
      BY <1>1, <3>1 DEF Goto
  <2> QED
    BY <2>1, <2>2
<1>7. \A f, c : DownWrite(p, f, c) => Goes(p, "dw_reg", hash[f], me[p].job)
  BY <1>4, ZenonT(40) DEF DownWrite
<1>8. \A f, c : UpWrite(p, f, c) => Goes(p, "uw_dec", hash[f], me[p].job)
  BY <1>4, ZenonT(40) DEF UpWrite
<1> QED
  BY <1>3, <1>5, <1>6, <1>7, <1>8, ZenonT(40)

\* The lock words of row r after the step.
Words(r, readers, writers, holder) ==
  /\ hash_table'[r].num_readers = readers
  /\ hash_table'[r].num_writers = writers
  /\ hash_table'[r].real_lock = holder

SameWords(r) ==
  Words(r, hash_table[r].num_readers, hash_table[r].num_writers, hash_table[r].real_lock)

\* The steps of RWLock by p on row r, or none of them.
RowMove(p, r) ==
  LET k == hash_table[r]
      Turns(from, to) == View(me[p], r) = from /\ View(me'[p], r) = to
  IN
  \/ View(me'[p], r) = View(me[p], r) /\ SameWords(r)
  \/ Turns("idle", "w_wait") /\ Words(r, k.num_readers, k.num_writers + 1, k.real_lock)
  \/ Turns("w_wait", "w_spin") /\ k.num_readers = 0 /\ SameWords(r)
  \/ Turns("w_spin", "w_cs") /\ k.real_lock = NoProc
       /\ Words(r, k.num_readers, k.num_writers, p)
  \/ Turns("w_cs", "w_out") /\ Words(r, k.num_readers, k.num_writers - 1, k.real_lock)
  \/ Turns("w_out", "idle") /\ Words(r, k.num_readers, k.num_writers, NoProc)
  \/ Turns("idle", "r_wait") /\ SameWords(r)
  \/ Turns("r_wait", "r_add") /\ k.num_writers = 0 /\ SameWords(r)
  \/ Turns("r_add", "r_cs") /\ Words(r, k.num_readers + 1, k.num_writers, k.real_lock)
  \/ Turns("r_cs", "idle") /\ Words(r, k.num_readers - 1, k.num_writers, k.real_lock)

\* The step of p is one that RWLock allows on every row.
RowsMove(p) ==
  /\ \A q \in Proc : q # p => me'[q] = me[q]
  /\ me'[p].job.op # "rename"
  /\ \A r \in Row : RowMove(p, r)

(* A step that changes no lock word and does not move p on the locks. *)
LEMMA StillStep ==
  ASSUME NEW p \in Proc, me[p].job.op # "rename", \A r \in Row : SameWords(r),
         NEW pc, NEW row, NEW job, Goes(p, pc, row, job), job = me[p].job \/ job = NoJob,
         \A r \in Row : View(me'[p], r) = View(me[p], r)
  PROVE  RowsMove(p)
<1>1. me'[p].job.op # "rename"
  BY DEF Goes, NoJob
<1> QED
  BY <1>1, ZenonT(40) DEF RowsMove, RowMove, Goes

(* What a process that renames nothing knows. *)
LEMMA TameLocals ==
  ASSUME TableInv, TameInv, Tame, NEW p \in Proc
  PROVE  /\ TypeInv /\ me[p] \in Locals /\ Consistent(me[p]) /\ me[p].job.op # "rename"
         /\ me[p].pc \notin {"idle", "crashed"} =>
              me[p].row \in Row /\ me[p].row = hash[me[p].str] /\ me[p].str \in Path
<1>1. TypeInv /\ me[p] \in Locals /\ Consistent(me[p]) /\ me[p].job.op # "rename"
  BY DEF TableInv, TypeInv, TameInv
<1> QED
  BY <1>1, RowsOfCall, ZenonT(40)

(* A step that leaves the rows alone and goes on at the same place of the  *)
(* row's lock.                                                             *)
LEMMA QuietStep ==
  ASSUME TableInv, TameInv, Tame, NEW p \in Proc, NEW pc, Goes(p, pc, me[p].row, me[p].job),
         \A r \in Row : SameWords(r),
         \/ /\ me[p].pc \in {"get_first", "get_walk"} /\ pc \in {"get_walk", "ur_dec"}
         \/ /\ me[p].pc \in {"cr_find", "cr_alloc", "cr_link", "rl_find", "rl_unlink",
                             "rl_next"}
            /\ pc \in {"cr_alloc", "cr_link", "rl_unlink", "rl_next", "uw_dec"}
         \/ /\ me[p].pc \in {"cr_data", "cr_path", "mb_lock", "mb_clear", "mb_unlock",
                             "open_looked"}
            /\ pc \in {"cr_path", "mb_clear", "mb_unlock", "dw_reg"}
  PROVE  RowsMove(p)
<1>1. me[p].job.op # "rename"
  BY TameLocals
<1>2. me'[p].pc = pc /\ me'[p].row = me[p].row
  BY ZenonT(40) DEF Goes
<1>3. \A r \in Row : View(me'[p], r) = View(me[p], r)
  BY <1>2, OnLocks DEF View
<1> QED
  BY <1>1, <1>3, StillStep, ZenonT(40)

(* A call that ends after it gave its row back. *)
LEMMA EndStep ==
  ASSUME TableInv, TameInv, Tame, NEW p \in Proc, Finish(p), UNCHANGED hash_table,
         me[p].pc \in {"open_looked", "cr_path", "mb_unlock"}
  PROVE  RowsMove(p)
<1>1. me[p].job.op # "rename" /\ Goes(p, "idle", NIL, NoJob)
  BY TameLocals, Going, ZenonT(40)
<1>2. me'[p].pc = "idle"
  BY <1>1, ZenonT(40) DEF Goes
<1>3. \A r \in Row : View(me'[p], r) = View(me[p], r)
  BY <1>2, OnLocks, ZenonT(120) DEF View
<1>4. \A r \in Row : SameWords(r)
  BY DEF SameWords, Words
<1> QED
  BY <1>1, <1>3, <1>4, StillStep, ZenonT(40)

(* A link that is set is not a lock word. *)
LEMMA LinkWords ==
  ASSUME TypeInv, NEW r \in Row, NEW prev \in Link, NEW b \in Link, SetLink(r, prev, b)
  PROVE  \A s \in Row : SameWords(s)
  BY SetLinkEffect, ZenonT(40) DEF SameWords, Words

(* get_mbucket reads under the lock it holds. *)
LEMMA LookupRows ==
  ASSUME TableInv, TameInv, Tame, NEW p \in Proc, LookupStep(p)
  PROVE  RowsMove(p)
<1>1. /\ TypeInv /\ me[p] \in Locals /\ me \in [Proc -> Locals]
  BY TameLocals DEF TypeInv
<1>2. \A r \in Row : SameWords(r)
  BY DEF LookupStep, GetFirst, GetMatch, GetNext, GetNone, SameWords, Words
<1>3. CASE GetFirst(p)
  <2>1. Goes(p, "get_walk", me[p].row, me[p].job)
    BY <1>1, <1>3 DEF GetFirst, Goes, Locals
  <2> QED
    BY <1>2, <1>3, <2>1, QuietStep DEF GetFirst, At
<1>4. CASE GetNext(p)
  <2>1. Goes(p, "get_walk", me[p].row, me[p].job)
    BY <1>1, <1>4, ZenonT(40) DEF GetNext, At, Goes, Locals
  <2> QED
    BY <1>2, <1>4, <2>1, QuietStep DEF GetNext, At
<1>5. CASE GetMatch(p) \/ GetNone(p)
  <2>1. Goes(p, "ur_dec", me[p].row, me[p].job)
    BY <1>1, <1>5, Going, ZenonT(40) DEF GetMatch, GetNone
  <2> QED
    BY <1>2, <1>5, <2>1, QuietStep DEF GetMatch, GetNone, At
<1> QED
  BY <1>3, <1>4, <1>5, ZenonT(40) DEF LookupStep

(* open searches, claims and links under the row it has locked, and gives  *)
(* the row back on each of its ways out.                                   *)
LEMMA OpenRows ==
  ASSUME TableInv, TameInv, Tame, NEW p \in Proc, OpenStep(p)
  PROVE  RowsMove(p)
<1>1. /\ TypeInv /\ me[p] \in Locals /\ me \in [Proc -> Locals]
      /\ me[p].pc \notin {"idle", "crashed"} =>
           me[p].row \in Row /\ me[p].row = hash[me[p].str]
  BY TameLocals DEF TypeInv
<1>2. UNCHANGED hash_table => \A r \in Row : SameWords(r)
  BY DEF SameWords, Words
<1>3. CASE OpenExisting(p)
  BY <1>3, EndStep, ZenonT(120) DEF OpenExisting, At
<1>4. CASE OpenNew(p)
  <2>1. me[p].pc = "open_looked" /\ Goes(p, "dw_reg", hash[me[p].str], me[p].job)
    BY <1>1, <1>4, Going, ZenonT(40) DEF OpenNew, At
  <2> QED
    BY <1>1, <1>2, <1>4, <2>1, QuietStep DEF OpenNew
<1>5. CASE CreateExists(p)
  <2>1. me[p].pc = "cr_find" /\ Goes(p, "uw_dec", hash[me[p].str], me[p].job)
    BY <1>1, <1>5, Going, ZenonT(40) DEF CreateExists, At
  <2> QED
    BY <1>1, <1>2, <1>5, <2>1, QuietStep, ZenonT(40) DEF CreateExists
<1>6. CASE CreateAbsent(p)
  <2>1. me[p].pc = "cr_find" /\ Goes(p, "cr_alloc", me[p].row, me[p].job)
    BY <1>1, <1>6 DEF CreateAbsent, At, Goes, Locals
  <2> QED
    BY <1>2, <1>6, <2>1, QuietStep, ZenonT(40) DEF CreateAbsent
<1>7. CASE AllocateSkip(p)
  <2>1. me[p].pc = "cr_alloc" /\ Goes(p, "cr_alloc", me[p].row, me[p].job)
    BY <1>1, <1>7 DEF AllocateSkip, At, Goes, Locals
  <2> QED
    BY <1>2, <1>7, <2>1, QuietStep DEF AllocateSkip
<1>8. CASE AllocateClaim(p)
  <2>1. me[p].pc = "cr_alloc" /\ Goes(p, "cr_link", me[p].row, me[p].job)
    BY <1>1, <1>8, ZenonT(40) DEF AllocateClaim, At, Goes, Locals
  <2> QED
    BY <1>2, <1>8, <2>1, QuietStep DEF AllocateClaim
<1>9. CASE AllocateNone(p)
  <2>1. me[p].pc = "cr_alloc" /\ Goes(p, "uw_dec", hash[me[p].str], me[p].job)
    BY <1>1, <1>9, Going, ZenonT(40) DEF AllocateNone, At
  <2> QED
    BY <1>1, <1>2, <1>9, <2>1, QuietStep, ZenonT(40) DEF AllocateNone
<1>10. CASE CreateLink(p)
  <2>1. me[p].pc = "cr_link" /\ Goes(p, "uw_dec", hash[me[p].str], me[p].job)
    BY <1>1, <1>10, Going, ZenonT(40) DEF CreateLink, At
  <2>2. me[p].prev \in Link /\ me[p].mb \in Link
    BY <1>1, ZenonT(40) DEF Locals
  <2>3. \A r \in Row : SameWords(r)
    BY <1>1, <1>10, <2>1, <2>2, LinkWords, ZenonT(40) DEF CreateLink
  <2> QED
    BY <1>1, <2>1, <2>3, QuietStep
<1>11. CASE CreateData(p)
  <2>1. me[p].pc = "cr_data" /\ Goes(p, "cr_path", me[p].row, me[p].job)
    BY <1>1, <1>11, Going, ZenonT(40) DEF CreateData, At
  <2> QED
    BY <1>2, <1>11, <2>1, QuietStep DEF CreateData
<1>12. CASE CreatePath(p)
  BY <1>12, EndStep DEF CreatePath, At
<1> QED
  BY <1>3, <1>4, <1>5, <1>6, <1>7, <1>8, <1>9, <1>10, <1>11, <1>12, ZenonT(40) DEF OpenStep

(* unlink searches and unlinks under the row it has locked, and gives the  *)
(* row back before it frees the bucket.                                    *)
LEMMA ReleaseRows ==
  ASSUME TableInv, TameInv, Tame, NEW p \in Proc, ReleaseStep(p)
  PROVE  RowsMove(p)
<1>1. /\ TypeInv /\ me[p] \in Locals /\ me \in [Proc -> Locals]
      /\ me[p].job.op # "rename" /\ Consistent(me[p])
      /\ me[p].pc \notin {"idle", "crashed"} =>
           me[p].row \in Row /\ me[p].row = hash[me[p].str]
  BY TameLocals, ZenonT(40) DEF TypeInv
<1>2. UNCHANGED hash_table => \A r \in Row : SameWords(r)
  BY DEF SameWords, Words
<1>3. CASE ReleaseAbsent(p)
  <2>1. me[p].pc = "rl_find" /\ Goes(p, "uw_dec", hash[me[p].str], me[p].job)
    BY <1>1, <1>3, Going, ZenonT(40) DEF ReleaseAbsent, At
  <2> QED
    BY <1>1, <1>2, <1>3, <2>1, QuietStep, ZenonT(40) DEF ReleaseAbsent
<1>4. CASE ReleaseFound(p)
  <2>1. me[p].pc = "rl_find" /\ Goes(p, "rl_unlink", me[p].row, me[p].job)
    BY <1>1, <1>4, ZenonT(40) DEF ReleaseFound, At, Goes, Locals
  <2> QED
    BY <1>2, <1>4, <2>1, QuietStep, ZenonT(40) DEF ReleaseFound
<1>5. CASE ReleaseUnlink(p)
  <2>1. me[p].pc = "rl_unlink" /\ Goes(p, "rl_next", me[p].row, me[p].job)
    BY <1>1, <1>5, Going, ZenonT(40) DEF ReleaseUnlink, At
  <2>2. me[p].prev \in Link /\ me[p].mb \in MBucket
    BY <1>1, <2>1, ZenonT(40) DEF Locals, Link, Consistent, Point
  <2>3. mb_arr[me[p].mb].next_ix \in Link
    BY <1>1, <2>2, ZenonT(40) DEF TypeInv, BucketT
  <2>4. \A r \in Row : SameWords(r)
    BY <1>1, <1>5, <2>1, <2>2, <2>3, LinkWords, ZenonT(40) DEF ReleaseUnlink
  <2> QED
    BY <2>1, <2>4, QuietStep
<1>6. CASE ReleaseNext(p)
  <2>1. me[p].pc = "rl_next" /\ Goes(p, "uw_dec", hash[me[p].str], me[p].job)
    BY <1>1, <1>6, Going, ZenonT(40) DEF ReleaseNext, At
  <2> QED
    BY <1>1, <1>2, <1>6, <2>1, QuietStep DEF ReleaseNext
<1>7. CASE BucketLock(p)
  <2>1. me[p].pc = "mb_lock" /\ Goes(p, "mb_clear", me[p].row, me[p].job)
    BY <1>1, <1>7, Going, ZenonT(40) DEF BucketLock, At
  <2> QED
    BY <1>2, <1>7, <2>1, QuietStep DEF BucketLock
<1>8. CASE BucketClear(p)
  <2>1. me[p].pc = "mb_clear" /\ Goes(p, "mb_unlock", me[p].row, me[p].job)
    BY <1>1, <1>8, Going, ZenonT(40) DEF BucketClear, At
  <2> QED
    BY <1>2, <1>8, <2>1, QuietStep DEF BucketClear
<1>9. CASE BucketUnlock(p)
  BY <1>1, <1>9, EndStep DEF BucketUnlock, At
<1> QED
  BY <1>3, <1>4, <1>5, <1>6, <1>7, <1>8, <1>9, ZenonT(40) DEF ReleaseStep

\* The lock words of the row of p become these, and those of the others stay.
RowWritten(p, readers, writers, holder) ==
  /\ Words(me[p].row, readers, writers, holder)
  /\ \A r \in Row : r # me[p].row => SameWords(r)

(* Setting the words of a row changes no other row. *)
LEMMA SetWords ==
  ASSUME TypeInv, NEW p \in Proc, me[p].row \in Row, NEW w \in RowT, SetLock(p, w)
  PROVE  RowWritten(p, w.num_readers, w.num_writers, w.real_lock)
<1>1. hash_table' = [hash_table EXCEPT ![me[p].row] = w] /\ hash_table \in [Row -> RowT]
  BY ZenonT(40) DEF SetLock, TypeInv
<1> QED
  BY <1>1, ZenonT(40) DEF RowWritten, SameWords, Words

(* A step on the lock of its own row moves p on no other row. *)
LEMMA OwnRow ==
  ASSUME NEW p \in Proc, me[p].job.op # "rename", me[p].row \in Row,
         NEW pc, NEW row, NEW job, Goes(p, pc, row, job), job = me[p].job \/ job = NoJob,
         row = me[p].row \/ pc = "idle", RowMove(p, me[p].row),
         \A r \in Row : r # me[p].row => SameWords(r)
  PROVE  RowsMove(p)
<1>1. me'[p].job.op # "rename" /\ \A q \in Proc : q # p => me'[q] = me[q]
  BY DEF Goes, NoJob
<1>2. \A r \in Row : r # me[p].row => View(me[p], r) = "idle" /\ View(me'[p], r) = "idle"
  BY OnLocks, ZenonT(40) DEF Goes, View
<1>3. \A r \in Row : r # me[p].row => RowMove(p, r)
  BY <1>2, ZenonT(40) DEF RowMove
<1> QED
  BY <1>1, <1>3, ZenonT(40) DEF RowsMove

(* lock_rw and unlock_rw take the steps of RWLock. *)
LEMMA LockRows ==
  ASSUME TableInv, TameInv, Tame, NEW p \in Proc, LockStep(p)
  PROVE  RowsMove(p)
<1> DEFINE r == me[p].row
           k == hash_table[r]
           job == me[p].job
<1>1. /\ TypeInv /\ me[p] \in Locals /\ Consistent(me[p]) /\ job.op # "rename"
      /\ me[p].pc \notin {"idle", "crashed"}
  BY TameLocals, ZenonT(40) DEF LockStep, WriterRegister, WriterSeesNoReader, WriterLock,
     WriterDeregister, WriterUnlock, ReaderSeesNoWriter, ReaderRegister, ReaderDeregister, At
<1>2. r \in Row
  BY <1>1, TameLocals
<1>3. k \in RowT /\ Lock(p) = k
  BY <1>1, <1>2, ZenonT(40) DEF TypeInv, Lock
<1>4. UNCHANGED hash_table => \A s \in Row : SameWords(s)
  BY DEF SameWords, Words
<1>5. CASE WriterRegister(p)
  <2> DEFINE w == [k EXCEPT !.num_writers = @ + 1]
  <2>1. me[p].pc = "dw_reg" /\ Goes(p, "dw_wait", r, job)
    BY <1>1, <1>5, Going, ZenonT(40) DEF WriterRegister, At
  <2>2. /\ w \in RowT /\ w.num_readers = k.num_readers /\ w.num_writers = k.num_writers + 1
        /\ w.real_lock = k.real_lock
    BY <1>3 DEF RowT
  <2>3. SetLock(p, w)
    BY <1>3, <1>5, ZenonT(40) DEF WriterRegister
  <2> HIDE DEF w
  <2>4. RowWritten(p, k.num_readers, k.num_writers + 1, k.real_lock)
    BY <1>1, <1>2, <2>2, <2>3, SetWords, ZenonT(40)
  <2>5. View(me[p], r) = "idle" /\ View(me'[p], r) = "w_wait"
    BY <2>1, OnLocks, ZenonT(40) DEF Goes, View
  <2>6. RowMove(p, r)
    BY <2>4, <2>5, ZenonT(40) DEF RowMove, RowWritten
  <2> QED
    BY <1>1, <1>2, <2>1, <2>4, <2>6, OwnRow, ZenonT(40) DEF RowWritten
<1>6. CASE WriterSeesNoReader(p)
  <2>1. me[p].pc = "dw_wait" /\ Goes(p, "dw_spin", r, job)
    BY <1>1, <1>6, Going, ZenonT(40) DEF WriterSeesNoReader, At
  <2>2. k.num_readers = 0 /\ \A s \in Row : SameWords(s)
    BY <1>3, <1>4, <1>6, ZenonT(40) DEF WriterSeesNoReader
  <2>3. View(me[p], r) = "w_wait" /\ View(me'[p], r) = "w_spin"
    BY <2>1, OnLocks, ZenonT(40) DEF Goes, View
  <2>4. RowMove(p, r)
    BY <1>2, <2>2, <2>3, ZenonT(40) DEF RowMove
  <2> QED
    BY <1>1, <1>2, <2>1, <2>2, <2>4, OwnRow, ZenonT(40)
<1>7. CASE WriterLock(p)
  <2> DEFINE w == [k EXCEPT !.real_lock = p]
  <2>1. me[p].pc = "dw_spin" /\ me[p].ret \in {"cr_find", "rl_find"}
    BY <1>1, <1>7 DEF WriterLock, At, Consistent, Point
  <2>2. Goes(p, me[p].ret, r, job)
    BY <1>1, <1>7, <2>1, Going DEF WriterLock
  <2>3. /\ w \in RowT /\ w.num_readers = k.num_readers /\ w.num_writers = k.num_writers
        /\ w.real_lock = p
    BY <1>3 DEF RowT
  <2>4. SetLock(p, w) /\ k.real_lock = NoProc
    BY <1>3, <1>7, ZenonT(40) DEF WriterLock
  <2> HIDE DEF w
  <2>5. RowWritten(p, k.num_readers, k.num_writers, p)
    BY <1>1, <1>2, <2>3, <2>4, SetWords, ZenonT(40)
  <2>6. View(me[p], r) = "w_spin" /\ View(me'[p], r) = "w_cs"
    BY <2>1, <2>2, OnLocks, ZenonT(40) DEF Goes, View
  <2>7. RowMove(p, r)
    BY <2>4, <2>5, <2>6, ZenonT(40) DEF RowMove, RowWritten
  <2> QED
    BY <1>1, <1>2, <2>2, <2>5, <2>7, OwnRow, ZenonT(40) DEF RowWritten
<1>8. CASE WriterDeregister(p)
  <2> DEFINE w == [k EXCEPT !.num_writers = @ - 1]
  <2>1. me[p].pc = "uw_dec" /\ Goes(p, "uw_spin", r, job)
    BY <1>1, <1>8, Going, ZenonT(40) DEF WriterDeregister, At
  <2>2. /\ w \in RowT /\ w.num_readers = k.num_readers /\ w.num_writers = k.num_writers - 1
        /\ w.real_lock = k.real_lock
    BY <1>3 DEF RowT
  <2>3. SetLock(p, w)
    BY <1>3, <1>8, ZenonT(40) DEF WriterDeregister
  <2> HIDE DEF w
  <2>4. RowWritten(p, k.num_readers, k.num_writers - 1, k.real_lock)
    BY <1>1, <1>2, <2>2, <2>3, SetWords, ZenonT(40)
  <2>5. View(me[p], r) = "w_cs" /\ View(me'[p], r) = "w_out"
    BY <2>1, OnLocks, ZenonT(40) DEF Goes, View
  <2>6. RowMove(p, r)
    BY <2>4, <2>5, ZenonT(40) DEF RowMove, RowWritten
  <2> QED
    BY <1>1, <1>2, <2>1, <2>4, <2>6, OwnRow, ZenonT(40) DEF RowWritten
<1>9. CASE WriterUnlock(p)
  <2> DEFINE w == [k EXCEPT !.real_lock = NoProc]
  <2>1. me[p].pc = "uw_spin" /\ me[p].ret \in {"idle", "cr_data", "mb_lock"}
    BY <1>1, <1>9 DEF WriterUnlock, At, Consistent, Point
  <2>2. \/ Goes(p, "idle", NIL, NoJob)
        \/ me[p].ret \in {"cr_data", "mb_lock"} /\ Goes(p, me[p].ret, r, job)
    BY <1>1, <1>9, <2>1, Going, ZenonT(40) DEF WriterUnlock
  <2>3. /\ w \in RowT /\ w.num_readers = k.num_readers /\ w.num_writers = k.num_writers
        /\ w.real_lock = NoProc
    BY <1>3 DEF RowT
  <2>4. SetLock(p, w)
    BY <1>3, <1>9 DEF WriterUnlock
  <2> HIDE DEF w
  <2>5. RowWritten(p, k.num_readers, k.num_writers, NoProc)
    BY <1>1, <1>2, <2>3, <2>4, SetWords, ZenonT(40)
  <2>6. View(me[p], r) = "w_out" /\ View(me'[p], r) = "idle"
    BY <2>1, <2>2, OnLocks, ZenonT(120) DEF Goes, View
  <2>7. RowMove(p, r)
    BY <2>5, <2>6, ZenonT(40) DEF RowMove, RowWritten
  <2> QED
    BY <1>1, <1>2, <2>2, <2>5, <2>7, OwnRow, ZenonT(40) DEF RowWritten
<1>10. CASE ReaderSeesNoWriter(p)
  <2>1. me[p].pc = "dr_wait" /\ Goes(p, "dr_add", r, job)
    BY <1>1, <1>10, Going, ZenonT(40) DEF ReaderSeesNoWriter, At
  <2>2. k.num_writers = 0 /\ \A s \in Row : SameWords(s)
    BY <1>3, <1>4, <1>10, ZenonT(40) DEF ReaderSeesNoWriter
  <2>3. View(me[p], r) = "r_wait" /\ View(me'[p], r) = "r_add"
    BY <2>1, OnLocks, ZenonT(40) DEF Goes, View
  <2>4. RowMove(p, r)
    BY <1>2, <2>2, <2>3, ZenonT(40) DEF RowMove
  <2> QED
    BY <1>1, <1>2, <2>1, <2>2, <2>4, OwnRow, ZenonT(40)
<1>11. CASE ReaderRegister(p)
  <2> DEFINE w == [k EXCEPT !.num_readers = @ + 1]
  <2>1. me[p].pc = "dr_add" /\ Goes(p, "get_first", r, job)
    BY <1>1, <1>11, Going, ZenonT(40) DEF ReaderRegister, At
  <2>2. /\ w \in RowT /\ w.num_readers = k.num_readers + 1 /\ w.num_writers = k.num_writers
        /\ w.real_lock = k.real_lock
    BY <1>3 DEF RowT
  <2>3. SetLock(p, w)
    BY <1>3, <1>11, ZenonT(40) DEF ReaderRegister
  <2> HIDE DEF w
  <2>4. RowWritten(p, k.num_readers + 1, k.num_writers, k.real_lock)
    BY <1>1, <1>2, <2>2, <2>3, SetWords, ZenonT(40)
  <2>5. View(me[p], r) = "r_add" /\ View(me'[p], r) = "r_cs"
    BY <2>1, OnLocks, ZenonT(40) DEF Goes, View
  <2>6. RowMove(p, r)
    BY <2>4, <2>5, ZenonT(40) DEF RowMove, RowWritten
  <2> QED
    BY <1>1, <1>2, <2>1, <2>4, <2>6, OwnRow, ZenonT(40) DEF RowWritten
<1>12. CASE ReaderDeregister(p)
  <2> DEFINE w == [k EXCEPT !.num_readers = @ - 1]
  <2>1. me[p].pc = "ur_dec" /\ me[p].ret \in {"idle", "open_looked"}
    BY <1>1, <1>12 DEF ReaderDeregister, At, Consistent, Point
  <2>2. \/ Goes(p, "idle", NIL, NoJob)
        \/ me[p].ret = "open_looked" /\ Goes(p, me[p].ret, r, job)
    BY <1>1, <1>12, <2>1, Going, ZenonT(40) DEF ReaderDeregister
  <2>3. /\ w \in RowT /\ w.num_readers = k.num_readers - 1 /\ w.num_writers = k.num_writers
        /\ w.real_lock = k.real_lock
    BY <1>3 DEF RowT
  <2>4. SetLock(p, w)
    BY <1>3, <1>12, ZenonT(40) DEF ReaderDeregister
  <2> HIDE DEF w
  <2>5. RowWritten(p, k.num_readers - 1, k.num_writers, k.real_lock)
    BY <1>1, <1>2, <2>3, <2>4, SetWords, ZenonT(40)
  <2>6. View(me[p], r) = "r_cs" /\ View(me'[p], r) = "idle"
    BY <2>1, <2>2, OnLocks, ZenonT(120) DEF Goes, View
  <2>7. RowMove(p, r)
    BY <2>5, <2>6, ZenonT(40) DEF RowMove, RowWritten
  <2> QED
    BY <1>1, <1>2, <2>2, <2>5, <2>7, OwnRow, ZenonT(40) DEF RowWritten
<1> QED
  BY <1>5, <1>6, <1>7, <1>8, <1>9, <1>10, <1>11, <1>12, ZenonT(40) DEF LockStep

(* A call begins without a row. *)
LEMMA CallRows ==
  ASSUME TableInv, TameInv, Tame, NEW p \in Proc, NEW j \in Calls(p), Call(p, j)
  PROVE  RowsMove(p)
<1> DEFINE pc == IF j.op \in {"stat", "open"} THEN "dr_wait" ELSE "dw_reg"
<1>1. TypeInv /\ me[p] \in Locals /\ me \in [Proc -> Locals] /\ j.op # "rename"
  BY TameLocals, ZenonT(40) DEF TypeInv, Tame
<1>2. Goes(p, pc, hash[j.old], j) /\ me[p].pc = "idle" /\ UNCHANGED hash_table
  BY <1>1, ZenonT(40) DEF Call, At, Goes, Locals
<1>3. \A r \in Row : SameWords(r)
  BY <1>2, ZenonT(40) DEF SameWords, Words
<1>4. \A r \in Row : View(me[p], r) = "idle" /\ View(me'[p], r) \in {"idle", "r_wait"}
  BY <1>2, OnLocks, ZenonT(40) DEF Goes, View
<1>5. \A r \in Row : RowMove(p, r)
  BY <1>3, <1>4, ZenonT(40) DEF RowMove
<1> QED
  BY <1>1, <1>2, <1>5, ZenonT(40) DEF RowsMove, Goes

(* Without rename, every step moves on every row as RWLock allows. *)
LEMMA NextRows ==
  ASSUME TableInv, TameInv, Tame, Next
  PROVE  \E p \in Proc : RowsMove(p)
<1>1. PICK p \in Proc : Step(p) \/ \E j \in Calls(p) : Call(p, j)
  BY ZenonT(40) DEF Next
<1>2. ~ RenameStep(p)
  <2>1. me[p].job.op # "rename" /\ Consistent(me[p])
    BY TameLocals
  <2>2. RenameStep(p) => me[p].pc \in {"ch_second", "ch_find", "ch_path", "ch_unlink",
           "ch_next", "ch_link", "ch_unlock", "rn_get", "rn_mark", "rn_disk"}
    BY ZenonT(40) DEF RenameStep, ChpathSecond, ChpathAbsent, ChpathFound, ChpathPath,
         ChpathUnlink, ChpathNext, ChpathLink, ChpathReplace, ChpathUnlockOld, RenameGet,
         RenameMark, RenameDiskFails, RenameDiskDone, At
  <2> QED
    BY <2>1, <2>2, ZenonT(40) DEF Consistent, Point
<1> QED
  BY <1>1, <1>2, LockRows, LookupRows, OpenRows, ReleaseRows, CallRows, ZenonT(40) DEF Step

(* Tame never changes. *)
LEMMA TameKept ==
  ASSUME TypeInv, [Next]_vars
  PROVE  Tame' <=> Tame
<1>1. \A q \in Proc : me'[q].session = me[q].session
  BY SessionKept DEF vars
<1>2. \A q \in Proc : Calls(q)' = Calls(q)
  BY <1>1, ZenonT(40) DEF Calls
<1> QED
  BY <1>2 DEF Tame

(* A lock word names a process only as long as it holds the row. *)
LEMMA NextTameInv ==
  ASSUME TableInv, TameInv, [Next]_vars, TableInv'
  PROVE  TameInv'
<1> SUFFICES ASSUME Tame'
             PROVE  \A q \in Proc :
                      /\ me'[q].job.op # "rename"
                      /\ \A r \in Row : hash_table'[r].real_lock = q => r \in Holds(me'[q])
  BY DEF TameInv
<1>1. Tame
  BY TameKept, ZenonT(40) DEF TableInv
<1>2. \A q \in Proc : /\ me[q].job.op # "rename"
                      /\ \A r \in Row : hash_table[r].real_lock = q => r \in Holds(me[q])
  BY <1>1, ZenonT(40) DEF TameInv
<1>3. CASE UNCHANGED vars
  BY <1>2, <1>3, ZenonT(40) DEF vars
<1>4. CASE Next
  <2>1. PICK p \in Proc : RowsMove(p)
    BY <1>1, <1>4, NextRows, ZenonT(40)
  <2>2. \A q \in Proc : me'[q].job.op # "rename"
    BY <1>2, <2>1, ZenonT(40) DEF RowsMove
  <2>3. ASSUME NEW q \in Proc, NEW r \in Row, hash_table'[r].real_lock = q, q # p
        PROVE  r \in Holds(me'[q])
    <3>1. me'[q] = me[q] /\ RowMove(p, r)
      BY <2>1, <2>3, ZenonT(40) DEF RowsMove
    <3>2. hash_table[r].real_lock = q
      BY <2>3, <3>1, TableAssumption, ZenonT(40) DEF RowMove, Words, SameWords
    <3> QED
      BY <1>2, <3>1, <3>2
  <2>4. ASSUME NEW r \in Row, hash_table'[r].real_lock = p
        PROVE  r \in Holds(me'[p])
    <3>1. /\ me[p] \in Locals /\ Consistent(me[p]) /\ me'[p] \in Locals /\ Consistent(me'[p])
      BY ZenonT(40) DEF TableInv, TypeInv
    <3>2. hash_table[r].real_lock = p => View(me[p], r) \in {"w_cs", "w_out"}
      BY <1>2, <3>1, TameHolds
    <3>3. RowMove(p, r)
      BY <2>1, ZenonT(40) DEF RowsMove
    <3>4. View(me'[p], r) \in {"w_cs", "w_out"}
      BY <2>4, <3>2, <3>3, TableAssumption, ZenonT(40) DEF RowMove, Words, SameWords
    <3> QED
      BY <2>2, <3>1, <3>4, TameHolds, ZenonT(40)
  <2> QED
    BY <2>2, <2>3, <2>4
<1> QED
  BY <1>3, <1>4, ZenonT(40)
=============================================================================
